--------------------------- MODULE DevicePairing ---------------------------
(***************************************************************************)
(* A companion device across processes and connections: credentials made,  *)
(* a QR shown, a phone that scans it, the pairing verified, stored and     *)
(* answered, and the logins that follow.  The process may crash between    *)
(* any two steps and the connection may drop; the credentials file is what *)
(* a creds.update listener last wrote.  JesterSocket models one connection *)
(* in detail; the server, the phone and the file are external.             *)
(***************************************************************************)
EXTENDS Naturals, FiniteSets

CONSTANTS
  Accounts,        \* phones that may scan the QR
  None,            \* an absent optional value
  MaxCreds,        \* bound: credentials generated
  MaxConnections   \* bound: connections made

ASSUME PairingAssumption == MaxCreds \in Nat /\ MaxConnections \in Nat

\* Credentials, with the keys of one set named by its number.
Creds == [noiseKey : 0 .. MaxCreds, signedIdentityKey : 0 .. MaxCreds, advSecretKey : 0 .. MaxCreds,
          registered : BOOLEAN, me : Accounts \union {None}, account : Accounts \union {None}]

ASSUME NoneAssumption == None \notin Accounts \union Creds

VARIABLES
  creds,        \* auth.creds of the running process; None while none runs
  disk,         \* the credentials file; None before the first creds.update
  generated,    \* credentials generated so far
  connection,   \* the connection of the process: how it stands and as what
  connections,  \* connections so far
  inbox,        \* the pairing node on its way to the client
  shown,        \* history: QR codes shown
  authorised,   \* history: what phones have signed
  linked        \* the server: devices linked, by account

vars == <<creds, disk, generated, connection, connections, inbox, shown, authorised, linked>>

----------------------------------------------------------------------------
\* The n-th credentials: all their keys are fresh, so n names them.
initAuthCreds(n) ==
  [noiseKey |-> n, signedIdentityKey |-> n, advSecretKey |-> n,
   registered |-> FALSE, me |-> None, account |-> None]

Offline == [state |-> "none", payload |-> None]

\* Credentials of an older format: paired, without the registered flag.
OldCreds(account) == [initAuthCreds(0) EXCEPT !.me = account, !.account = account]

Device(c, account) == [noiseKey |-> c.noiseKey, identity |-> c.signedIdentityKey, account |-> account]

Init ==
  /\ creds = None /\ generated = 0
  /\ connection = Offline /\ connections = 0
  /\ inbox = None /\ shown = {} /\ authorised = {}
  /\ \/ disk = None /\ linked = {}
     \/ \E account \in Accounts : /\ disk = OldCreds(account)
                                  /\ linked = {Device(OldCreds(account), account)}

\* The listener of creds.update writes the file before emit returns.
UpdateCreds(update) == creds' = update /\ disk' = update

\* A process starts from the file, or from new credentials it has not written.
StartProcess ==
  /\ creds = None
  /\ IF disk # None THEN creds' = disk /\ UNCHANGED generated
     ELSE /\ generated < MaxCreds
          /\ creds' = initAuthCreds(generated + 1)
          /\ generated' = generated + 1
  /\ UNCHANGED <<disk, connection, connections, inbox, shown, authorised, linked>>

----------------------------------------------------------------------------
(* Connecting.                                                             *)

\* A slip in buildClientPayload: the flag decides, not me.
PayloadByFlag(c) ==
  IF c.registered THEN [kind |-> "login", username |-> c.me, noiseKey |-> c.noiseKey]
  ELSE [kind |-> "register", identity |-> c.signedIdentityKey, noiseKey |-> c.noiseKey]

buildLoginClientPayload(c) ==
  [kind |-> "login", username |-> c.me, noiseKey |-> c.noiseKey]

buildRegisterClientPayload(c) ==
  [kind |-> "register", identity |-> c.signedIdentityKey, noiseKey |-> c.noiseKey]

\* The choice is driven by me, not by registered.
buildClientPayload(c) ==
  IF c.me # None THEN buildLoginClientPayload(c) ELSE buildRegisterClientPayload(c)

Connect ==
  /\ creds # None /\ connection.state = "none"
  /\ connections < MaxConnections
  /\ connections' = connections + 1
  /\ connection' = [state |-> "handshaken", payload |-> buildClientPayload(creds)]
  /\ inbox' = None
  /\ UNCHANGED <<creds, disk, generated, shown, authorised, linked>>

\* The server sends refs to a device that registers.
PairDevice ==
  /\ connection.state = "handshaken" /\ connection.payload.kind = "register"
  /\ inbox = None
  /\ inbox' = [tag |-> "pair-device"]
  /\ connection' = [connection EXCEPT !.state = "pairing"]
  /\ UNCHANGED <<creds, disk, generated, connections, shown, authorised, linked>>

\* The server logs a device in if it is linked under the username it claims.
Known(payload) ==
  \E device \in linked : device.noiseKey = payload.noiseKey /\ device.account = payload.username

Login ==
  /\ connection.state = "handshaken" /\ connection.payload.kind = "login"
  /\ connection' = [connection EXCEPT !.state = IF Known(connection.payload) THEN "open" ELSE "refused"]
  /\ UNCHANGED <<creds, disk, generated, connections, inbox, shown, authorised, linked>>

----------------------------------------------------------------------------
(* Pairing.                                                                *)

\* onPairDevice and the QR it shows.  A ref only names the connection.
buildQrString(c) == [identity |-> c.signedIdentityKey, secret |-> c.advSecretKey]

ShowQr ==
  /\ inbox # None /\ inbox.tag = "pair-device"
  /\ shown' = shown \union {buildQrString(creds)}
  /\ inbox' = None
  /\ UNCHANGED <<creds, disk, generated, connection, connections, authorised, linked>>

\* A phone authorises a device: it signs an identity, under the secret of a QR.
\* The two may come from different codes.
Scan(account) ==
  /\ \E qr, other \in shown :
       authorised' = authorised \union
         {[account |-> account, identity |-> qr.identity, hmacKey |-> other.secret]}
  /\ UNCHANGED <<creds, disk, generated, connection, connections, inbox, shown, linked>>

\* The server hands a pair-success to the connection that pairs, once.
SendPairSuccess ==
  /\ connection.state = "pairing" /\ inbox = None
  /\ \E a \in authorised : inbox' = [tag |-> "pair-success", success |-> a]
  /\ connection' = [connection EXCEPT !.state = "scanned"]
  /\ UNCHANGED <<creds, disk, generated, connections, shown, authorised, linked>>

\* A slip in Verified: the account signature is not checked.
HmacOnly(success, c) == success.hmacKey = c.advSecretKey

\* The HMAC proves the QR was scanned, the signature that this device is meant.
Verified(success, c) ==
  /\ success.hmacKey = c.advSecretKey
  /\ success.identity = c.signedIdentityKey

\* configureSuccessfulPairing: the update and the reply.
PairingUpdate(success, c) ==
  [c EXCEPT !.account = success.account, !.me = success.account, !.registered = TRUE]

PairDeviceSign(success, c) ==
  [tag |-> "pair-device-sign", identity |-> c.signedIdentityKey, account |-> success.account]

\* A slip in OnPairSuccess: the update is applied and not emitted.
OnPairSuccessUnsaved ==
  /\ inbox # None /\ inbox.tag = "pair-success"
  /\ IF Verified(inbox.success, creds)
     THEN /\ creds' = PairingUpdate(inbox.success, creds) /\ UNCHANGED disk
          /\ inbox' = PairDeviceSign(inbox.success, creds)
          /\ UNCHANGED connection
     ELSE /\ connection' = [connection EXCEPT !.state = "refused"]
          /\ inbox' = None
          /\ UNCHANGED <<creds, disk>>
  /\ UNCHANGED <<generated, connections, shown, authorised, linked>>

\* onPairSuccess: the credentials are applied and emitted, then the reply is
\* sent; a pairing that does not verify closes the socket.
OnPairSuccess ==
  /\ inbox # None /\ inbox.tag = "pair-success"
  /\ IF Verified(inbox.success, creds)
     THEN /\ UpdateCreds(PairingUpdate(inbox.success, creds))
          /\ inbox' = PairDeviceSign(inbox.success, creds)
          /\ UNCHANGED connection
     ELSE /\ connection' = [connection EXCEPT !.state = "refused"]
          /\ inbox' = None
          /\ UNCHANGED <<creds, disk>>
  /\ UNCHANGED <<generated, connections, shown, authorised, linked>>

\* The reply reaches the server, which links the device and asks for a restart.
LinkDevice ==
  /\ inbox # None /\ inbox.tag = "pair-device-sign"
  /\ connection.payload.identity = inbox.identity
  /\ linked' = linked \union
       {[noiseKey |-> connection.payload.noiseKey, identity |-> inbox.identity,
         account |-> inbox.account]}
  /\ connection' = [connection EXCEPT !.state = "restart"]
  /\ inbox' = None
  /\ UNCHANGED <<creds, disk, generated, connections, shown, authorised>>

----------------------------------------------------------------------------
\* The connection ends: dropped, refused or closed for a restart.
Disconnect ==
  /\ connection # Offline
  /\ connection' = Offline /\ inbox' = None
  /\ UNCHANGED <<creds, disk, generated, connections, shown, authorised, linked>>

\* The process dies.
Crash ==
  /\ creds # None
  /\ creds' = None
  /\ connection' = Offline /\ inbox' = None
  /\ UNCHANGED <<disk, generated, connections, shown, authorised, linked>>

Next ==
  \/ StartProcess \/ Connect \/ PairDevice \/ Login
  \/ ShowQr \/ SendPairSuccess \/ OnPairSuccess \/ LinkDevice
  \/ \E account \in Accounts : Scan(account)
  \/ Disconnect \/ Crash

Spec == Init /\ [][Next]_vars

----------------------------------------------------------------------------
TypeOK ==
  /\ creds \in Creds \union {None} /\ disk \in Creds \union {None}
  /\ generated \in 0 .. MaxCreds /\ connections \in 0 .. MaxConnections
  /\ connection.state \in {"none", "handshaken", "pairing", "scanned", "open", "refused", "restart"}
  /\ linked \subseteq [noiseKey : 0 .. MaxCreds, identity : 0 .. MaxCreds, account : Accounts]

\* "Proves the responder actually scanned the QR" and "proves the account
\* authorized THIS device and not another one".
PairedOnlyByOwnAccount ==
  (creds # None /\ creds.me # None /\ creds.registered) =>
    [account |-> creds.me, identity |-> creds.signedIdentityKey, hmacKey |-> creds.advSecretKey]
      \in authorised

\* The credentials "let you kill the process and start another one without
\* scanning a QR again": a device the server has linked finds in its file what
\* it needs to log in, whenever the process dies.
LinkedDeviceCanLogIn ==
  \A device \in linked :
    /\ disk # None
    /\ disk.me = device.account /\ disk.noiseKey = device.noiseKey

\* A device the server has linked is never asked for a QR again.
LinkedDeviceShowsNoQr ==
  [][shown' # shown => \A device \in linked : device.noiseKey # creds.noiseKey]_vars

----------------------------------------------------------------------------
(* The inductive invariant behind the properties above.                    *)

\* What the network and the phones hold.
HistoryType ==
  /\ shown \subseteq [identity : 0 .. MaxCreds, secret : 0 .. MaxCreds]
  /\ authorised \subseteq [account : Accounts, identity : 0 .. MaxCreds, hmacKey : 0 .. MaxCreds]
  /\ inbox # None => inbox.tag \in {"pair-device", "pair-success", "pair-device-sign"}
  /\ connection = [state |-> connection.state, payload |-> connection.payload]

\* The process never knows anything the file does not, once there is a file.
FileUpToDate == creds # None /\ disk # None => creds = disk

\* A connection speaks for the credentials of the process.
ConnectionOfProcess ==
  connection.state \in {"handshaken", "pairing", "scanned"} =>
    creds # None /\ connection.payload.noiseKey = creds.noiseKey

\* Until a pairing is verified a connection that registers belongs to a process
\* that is not paired.
RegistersUnpaired ==
  /\ connection.state = "handshaken" =>
       inbox = None /\ (connection.payload.kind = "register" => creds.me = None)
  /\ connection.state = "pairing" => creds.me = None

\* Each pairing node belongs to its stage, and a reply is about a pairing that
\* has been stored.
PairingNode ==
  inbox # None =>
    /\ connection.state \in {"pairing", "scanned"}
    /\ inbox.tag = "pair-device" => connection.state = "pairing"
    /\ inbox.tag = "pair-success" =>
         connection.state = "scanned" /\ creds.me = None /\ inbox.success \in authorised
    /\ inbox.tag = "pair-device-sign" =>
         connection.state = "scanned" /\ disk = creds /\ creds.me = inbox.account
           /\ inbox.account \in Accounts /\ inbox.identity = creds.signedIdentityKey

\* PairedOnlyByOwnAccount, of credentials wherever they are.
ProvenPairing(c) ==
  (c # None /\ c.me # None /\ c.registered) =>
    [account |-> c.me, identity |-> c.signedIdentityKey, hmacKey |-> c.advSecretKey] \in authorised

IInv ==
  /\ TypeOK
  /\ HistoryType
  /\ FileUpToDate
  /\ ConnectionOfProcess
  /\ RegistersUnpaired
  /\ PairingNode
  /\ ProvenPairing(creds) /\ ProvenPairing(disk)
  /\ LinkedDeviceCanLogIn
=============================================================================
