------------------------ MODULE DevicePairingProofs ------------------------
(***************************************************************************)
(* Pairing, for every set of phones and any number of credentials and      *)
(* connections: whatever dies or drops, and whenever, a device the server  *)
(* has linked can log in from its file.                                    *)
(***************************************************************************)
EXTENDS DevicePairing, TLAPS

USE PairingAssumption, NoneAssumption

\* New or absent credentials, or an older file of a linked device.
LEMMA InitIInv == Init => IInv
<1> SUFFICES ASSUME Init PROVE IInv
  OBVIOUS
<1>1. ASSUME NEW account \in Accounts PROVE OldCreds(account) \in Creds
  <2>1. account \in Accounts \union {None}
    OBVIOUS
  <2>2. initAuthCreds(0) \in Creds
    BY DEF initAuthCreds, Creds
  <2>3. OldCreds(account) = [initAuthCreds(0) EXCEPT !.me = account, !.account = account]
    BY DEF OldCreds
  <2>4. QED
    BY <2>1, <2>2, <2>3 DEF Creds
<1>2. creds = None /\ inbox = None /\ authorised = {} /\ shown = {} /\ connection = Offline
  BY DEF Init
<1>3. CASE disk = None /\ linked = {}
  BY <1>2, <1>3 DEF Init, IInv, TypeOK, HistoryType, FileUpToDate, ConnectionOfProcess,
     RegistersUnpaired, PairingNode, ProvenPairing, LinkedDeviceCanLogIn, Offline
<1>4. CASE \E account \in Accounts : /\ disk = OldCreds(account)
                                     /\ linked = {Device(OldCreds(account), account)}
  <2>1. PICK account \in Accounts : /\ disk = OldCreds(account)
                                    /\ linked = {Device(OldCreds(account), account)}
    BY <1>4
  <2>2. disk \in Creds /\ disk # None /\ disk.me = account /\ disk.noiseKey = 0 /\ ~disk.registered
    BY <2>1, <1>1 DEF OldCreds, initAuthCreds
  <2>3. linked = {[noiseKey |-> 0, identity |-> 0, account |-> account]}
    BY <2>1 DEF Device, OldCreds, initAuthCreds
  <2>4. TypeOK
    BY <1>2, <2>2, <2>3 DEF Init, TypeOK, Offline
  <2>5. LinkedDeviceCanLogIn
    BY <2>2, <2>3 DEF LinkedDeviceCanLogIn
  <2>6. QED
    BY <1>2, <2>2, <2>4, <2>5 DEF IInv, HistoryType, FileUpToDate, ConnectionOfProcess,
       RegistersUnpaired, PairingNode, ProvenPairing, Offline
<1>5. QED
  BY <1>3, <1>4 DEF Init

----------------------------------------------------------------------------
\* A process that is not paired has no linked device: that device would find
\* itself in the file, and the file is what the process knows.
LEMMA UnpairedIsUnlinked ==
  ASSUME TypeOK, FileUpToDate, LinkedDeviceCanLogIn, creds # None, creds.me = None
  PROVE  linked = {}
<1>1. SUFFICES ASSUME NEW device \in linked PROVE FALSE
  OBVIOUS
<1>2. device.account \in Accounts
  BY DEF TypeOK
<1>3. disk # None /\ disk.me = device.account
  BY DEF LinkedDeviceCanLogIn
<1>4. creds = disk
  BY <1>3 DEF FileUpToDate
<1>5. QED
  BY <1>2, <1>3, <1>4

\* A pairing that verifies leaves paired credentials, proven by what a phone
\* has signed.
LEMMA PairingUpdateProven ==
  ASSUME creds \in Creds, HistoryType,
         NEW success \in authorised, Verified(success, creds)
  PROVE  LET c == PairingUpdate(success, creds)
         IN  /\ c \in Creds /\ c # None
             /\ c.me = success.account /\ success.account \in Accounts
             /\ c.noiseKey = creds.noiseKey
             /\ c.signedIdentityKey = creds.signedIdentityKey
             /\ ProvenPairing(c)
<1> DEFINE c == PairingUpdate(success, creds)
<1>1. success \in [account : Accounts, identity : 0 .. MaxCreds, hmacKey : 0 .. MaxCreds]
  BY DEF HistoryType
<1>2. c = [creds EXCEPT !.account = success.account, !.me = success.account, !.registered = TRUE]
  BY DEF PairingUpdate
<1>3. /\ c \in Creds
      /\ c.me = success.account /\ c.noiseKey = creds.noiseKey
      /\ c.signedIdentityKey = creds.signedIdentityKey /\ c.advSecretKey = creds.advSecretKey
  BY <1>1, <1>2 DEF Creds
<1>4. success = [account |-> c.me, identity |-> c.signedIdentityKey, hmacKey |-> c.advSecretKey]
  BY <1>1, <1>3 DEF Verified
<1>5. ProvenPairing(c)
  BY <1>4 DEF ProvenPairing
<1> HIDE DEF c
<1>6. c # None
  BY <1>3
<1>7. QED
  BY <1>1, <1>3, <1>5, <1>6 DEF c
----------------------------------------------------------------------------
(* Every step keeps the invariant, one lemma for each group of actions.    *)

\* The process: it starts from its file or anew, connects, drops and dies.
LEMMA ProcessKeepsIInv ==
  ASSUME IInv, StartProcess \/ Connect \/ Disconnect \/ Crash
  PROVE  IInv'
<1> USE DEF TypeOK, HistoryType, FileUpToDate, ConnectionOfProcess, RegistersUnpaired, PairingNode,
            LinkedDeviceCanLogIn
<1>1. CASE StartProcess
  <2>1. connection.state \notin {"handshaken", "pairing", "scanned"} /\ inbox = None
    BY <1>1 DEF IInv, StartProcess
  <2>2. /\ creds' \in Creds /\ ProvenPairing(creds)' /\ FileUpToDate'
        /\ generated' \in 0 .. MaxCreds
    <3>1. CASE disk # None
      BY <1>1, <3>1 DEF IInv, StartProcess, ProvenPairing
    <3>2. CASE disk = None
      <4>1. creds' = initAuthCreds(generated + 1) /\ generated' = generated + 1
            /\ generated + 1 \in 0 .. MaxCreds
        BY <1>1, <3>2 DEF IInv, StartProcess
      <4>2. initAuthCreds(generated + 1) \in Creds
        BY <4>1 DEF initAuthCreds, Creds
      <4>3. creds'.me = None
        BY <4>1 DEF initAuthCreds
      <4>4. QED
        BY <1>1, <3>2, <4>1, <4>2, <4>3 DEF StartProcess, ProvenPairing
    <3>3. QED
      BY <3>1, <3>2
  <2>3. QED
    BY <1>1, <2>1, <2>2 DEF IInv, StartProcess, ProvenPairing
<1>2. CASE Connect
  <2>1. buildClientPayload(creds).noiseKey = creds.noiseKey
    BY DEF buildClientPayload, buildLoginClientPayload, buildRegisterClientPayload
  <2>2. buildClientPayload(creds).kind = "register" => creds.me = None
    BY DEF buildClientPayload, buildLoginClientPayload, buildRegisterClientPayload
  <2>3. connection' = [state |-> "handshaken", payload |-> buildClientPayload(creds)]
    BY <1>2 DEF Connect
  <2>4. QED
    BY <1>2, <2>1, <2>2, <2>3 DEF IInv, Connect, ProvenPairing
<1>3. CASE Disconnect
  BY <1>3 DEF IInv, Disconnect, Offline, ProvenPairing
<1>4. CASE Crash
  BY <1>4 DEF IInv, Crash, Offline, ProvenPairing
<1>5. QED
  BY <1>1, <1>2, <1>3, <1>4

\* The server and the phone, up to the pair-success.
LEMMA OthersKeepIInv ==
  ASSUME IInv, PairDevice \/ Login \/ ShowQr \/ SendPairSuccess \/ \E account \in Accounts : Scan(account)
  PROVE  IInv'
<1> USE DEF TypeOK, HistoryType, FileUpToDate, ConnectionOfProcess, RegistersUnpaired, PairingNode,
            LinkedDeviceCanLogIn
<1>1. CASE PairDevice
  BY <1>1 DEF IInv, PairDevice, ProvenPairing
<1>2. CASE Login
  BY <1>2 DEF IInv, Login, ProvenPairing
<1>3. CASE ShowQr
  <2>1. creds \in Creds /\ connection.state = "pairing" /\ inbox # None
    BY <1>3 DEF IInv, ShowQr
  <2>2. buildQrString(creds) \in [identity : 0 .. MaxCreds, secret : 0 .. MaxCreds]
    BY <2>1 DEF buildQrString, Creds
  <2>3. QED
    BY <1>3, <2>1, <2>2 DEF IInv, ShowQr, ProvenPairing
<1>4. CASE SendPairSuccess
  BY <1>4 DEF IInv, SendPairSuccess, ProvenPairing
<1>5. ASSUME NEW account \in Accounts, Scan(account)
      PROVE  IInv'
  <2>1. PICK qr \in shown, other \in shown :
          authorised' = authorised \union
            {[account |-> account, identity |-> qr.identity, hmacKey |-> other.secret]}
    BY <1>5 DEF Scan
  <2>2. /\ authorised \subseteq authorised'
        /\ authorised' \subseteq [account : Accounts, identity : 0 .. MaxCreds, hmacKey : 0 .. MaxCreds]
    BY <2>1 DEF IInv
  <2>3. QED
    BY <1>5, <2>2 DEF IInv, Scan, ProvenPairing
<1>6. QED
  BY <1>1, <1>2, <1>3, <1>4, <1>5

\* The pairing itself: stored, then answered, then linked.
LEMMA OnPairSuccessKeepsIInv ==
  ASSUME IInv, OnPairSuccess
  PROVE  IInv'
<1>1. /\ inbox # None /\ inbox.tag = "pair-success" /\ connection.state = "scanned"
      /\ creds \in Creds /\ creds # None /\ creds.me = None /\ inbox.success \in authorised
      /\ connection.payload.noiseKey = creds.noiseKey
  BY DEF IInv, OnPairSuccess, PairingNode, ConnectionOfProcess, TypeOK
<1>2. CASE Verified(inbox.success, creds)
  <2> DEFINE c == PairingUpdate(inbox.success, creds)
             reply == PairDeviceSign(inbox.success, creds)
  <2>1. creds' = c /\ disk' = c /\ inbox' = reply
        /\ UNCHANGED <<connection, generated, connections, shown, authorised, linked>>
    BY <1>2 DEF OnPairSuccess, UpdateCreds
  <2>2. /\ c \in Creds /\ c # None
        /\ c.me = inbox.success.account /\ inbox.success.account \in Accounts
        /\ c.noiseKey = creds.noiseKey /\ c.signedIdentityKey = creds.signedIdentityKey
        /\ ProvenPairing(c)
    BY <1>1, <1>2, PairingUpdateProven DEF IInv
  <2>3. reply.tag = "pair-device-sign" /\ reply.account = c.me /\ reply.identity = c.signedIdentityKey
    BY <2>2 DEF PairDeviceSign
  <2>4. linked = {}
    BY <1>1, UnpairedIsUnlinked DEF IInv
  <2> HIDE DEF c, reply
  <2>5. TypeOK' /\ HistoryType' /\ FileUpToDate' /\ ConnectionOfProcess' /\ RegistersUnpaired'
    BY <1>1, <2>1, <2>2, <2>3 DEF IInv, TypeOK, HistoryType, FileUpToDate, ConnectionOfProcess,
       RegistersUnpaired
  <2>6. PairingNode'
    BY <1>1, <2>1, <2>2, <2>3 DEF PairingNode
  <2>7. ProvenPairing(creds)' /\ ProvenPairing(disk)'
    BY <2>1, <2>2 DEF ProvenPairing
  <2>8. LinkedDeviceCanLogIn'
    BY <2>1, <2>4 DEF LinkedDeviceCanLogIn
  <2>9. QED
    BY <2>5, <2>6, <2>7, <2>8 DEF IInv
<1>3. CASE ~Verified(inbox.success, creds)
  BY <1>3 DEF IInv, OnPairSuccess, TypeOK, HistoryType, FileUpToDate, ConnectionOfProcess,
     RegistersUnpaired, PairingNode, ProvenPairing, LinkedDeviceCanLogIn
<1>4. QED
  BY <1>2, <1>3

LEMMA LinkDeviceKeepsIInv ==
  ASSUME IInv, LinkDevice
  PROVE  IInv'
<1> DEFINE device == [noiseKey |-> connection.payload.noiseKey, identity |-> inbox.identity,
                      account |-> inbox.account]
<1>1. /\ creds \in Creds /\ creds # None /\ disk = creds
      /\ creds.me = inbox.account /\ inbox.account \in Accounts
      /\ inbox.identity = creds.signedIdentityKey
      /\ connection.payload.noiseKey = creds.noiseKey
  BY DEF IInv, LinkDevice, PairingNode, ConnectionOfProcess, TypeOK
<1>2. /\ linked' = linked \union {device}
      /\ connection' = [connection EXCEPT !.state = "restart"] /\ inbox' = None
      /\ UNCHANGED <<creds, disk, generated, connections, shown, authorised>>
  BY DEF LinkDevice
<1>3. /\ device \in [noiseKey : 0 .. MaxCreds, identity : 0 .. MaxCreds, account : Accounts]
      /\ device.account = creds.me /\ device.noiseKey = creds.noiseKey
  BY <1>1 DEF Creds
<1> HIDE DEF device
<1>4. LinkedDeviceCanLogIn'
  BY <1>1, <1>2, <1>3 DEF IInv, LinkedDeviceCanLogIn
<1>5. QED
  BY <1>1, <1>2, <1>3, <1>4 DEF IInv, TypeOK, HistoryType, FileUpToDate, ConnectionOfProcess,
     RegistersUnpaired, PairingNode, ProvenPairing

LEMMA NextIInv == IInv /\ [Next]_vars => IInv'
<1>1. SUFFICES ASSUME IInv, [Next]_vars PROVE IInv'
  OBVIOUS
<1>2. CASE UNCHANGED vars
  BY <1>1, <1>2 DEF vars, IInv, TypeOK, HistoryType, FileUpToDate, ConnectionOfProcess,
     RegistersUnpaired, PairingNode, ProvenPairing, LinkedDeviceCanLogIn
<1>3. CASE Next
  BY <1>1, <1>3, ProcessKeepsIInv, OthersKeepIInv, OnPairSuccessKeepsIInv, LinkDeviceKeepsIInv
     DEF Next
<1>4. QED
  BY <1>1, <1>2, <1>3

----------------------------------------------------------------------------
THEOREM Invariance == Spec => []IInv
  BY InitIInv, NextIInv, PTL DEF Spec

\* The types of the model, for any number of phones, credentials and connections.
THEOREM TypeCorrect == Spec => []TypeOK
<1>1. IInv => TypeOK
  BY DEF IInv
<1>2. QED
  BY <1>1, Invariance, PTL

\* configureSuccessfulPairing lets no pairing through that was made for another
\* device or under another QR, and no crash brings one in from the file.
THEOREM OwnAccountOnly == Spec => []PairedOnlyByOwnAccount
<1>1. IInv => PairedOnlyByOwnAccount
  BY DEF IInv, ProvenPairing, PairedOnlyByOwnAccount
<1>2. QED
  BY <1>1, Invariance, PTL

\* onPairSuccess stores the credentials before it answers: wherever the process
\* dies, a device the server has linked finds itself in its file.
THEOREM LinkedCanLogIn == Spec => []LinkedDeviceCanLogIn
<1>1. IInv => LinkedDeviceCanLogIn
  BY DEF IInv
<1>2. QED
  BY <1>1, Invariance, PTL

\* buildClientPayload goes by me: a process of a linked device never registers,
\* so the server never sends it refs to show.
THEOREM LinkedShowsNoQr == Spec => LinkedDeviceShowsNoQr
<1>1. ASSUME IInv, [Next]_vars, shown' # shown
      PROVE  \A device \in linked : device.noiseKey # creds.noiseKey
  <2>1. ShowQr
    BY <1>1 DEF Next, vars, StartProcess, Connect, PairDevice, Login, SendPairSuccess,
       OnPairSuccess, LinkDevice, Scan, Disconnect, Crash
  <2>2. creds # None /\ creds.me = None
    BY <1>1, <2>1 DEF IInv, ShowQr, PairingNode, ConnectionOfProcess, RegistersUnpaired
  <2>3. linked = {}
    BY <1>1, <2>2, UnpairedIsUnlinked DEF IInv
  <2>4. QED
    BY <2>3
<1>2. IInv /\ [Next]_vars =>
        [shown' # shown => \A device \in linked : device.noiseKey # creds.noiseKey]_vars
  BY <1>1
<1>3. QED
  BY <1>2, Invariance, PTL DEF Spec, LinkedDeviceShowsNoQr
=============================================================================
