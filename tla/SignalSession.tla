--------------------------- MODULE SignalSession ---------------------------
(***************************************************************************)
(* Sessions and session records: X3DH agreement, the root ratchet, and the *)
(* trial decryption over the sessions of a record.  Pure operators; the    *)
(* state machine that stores records is SignalRepository.                  *)
(*                                                                         *)
(* A key pair is named by a tuple <<owner, kind, n>>, which also stands    *)
(* for its public key.  A root key is the sequence of secrets mixed into   *)
(* it, the X3DH master secret first.  Not modelled, because no code reads  *)
(* them back to decide anything: the version, the registration ids and     *)
(* previousCounter.                                                        *)
(***************************************************************************)
EXTENDS Ratchet

CONSTANT MAX_PREVIOUS_SESSIONS  \* archived sessions, and receiver chains, kept

ASSUME SessionsAssumption == MAX_PREVIOUS_SESSIONS \in Nat \ {0}

\* An absent optional value: no session, chain, operation or key is empty.
None == << >>

----------------------------------------------------------------------------
(* Key agreement.                                                          *)

\* X25519 is symmetric in the two pairs.
sharedKey(a, b) == {a, b}

WhenPresent(x, value) == IF x = None THEN << >> ELSE <<value>>

calculateInitiatorSecret(identityKey, baseKey, bundle) ==
  << sharedKey(identityKey, bundle.signedPreKey),
     sharedKey(baseKey, bundle.identityKey),
     sharedKey(baseKey, bundle.signedPreKey) >>
  \o WhenPresent(bundle.preKey, sharedKey(baseKey, bundle.preKey))

calculateReceiverSecret(ctx, theirIdentity, theirBaseKey) ==
  << sharedKey(ctx.signedPreKey, theirIdentity),
     sharedKey(ctx.identityKey, theirBaseKey),
     sharedKey(ctx.signedPreKey, theirBaseKey) >>
  \o WhenPresent(ctx.preKey, sharedKey(ctx.preKey, theirBaseKey))

\* The two halves of an HKDF output, root key and chain key, are named by the
\* same derivation.
deriveInitialKeys(masterSecret)    == <<masterSecret>>
deriveRootKey(rootKey, dhOutput)   == Append(rootKey, dhOutput)

----------------------------------------------------------------------------
(* Building sessions.                                                      *)

createOutgoingSession(identityKey, bundle, baseKey, ourRatchet) ==
  LET initial == deriveInitialKeys(calculateInitiatorSecret(identityKey, baseKey, bundle))
      sending == deriveRootKey(initial, sharedKey(ourRatchet, bundle.signedPreKey))
  IN  [localIdentity  |-> identityKey,
       remoteIdentity |-> bundle.identityKey,
       rootKey        |-> sending,
       ourRatchetKey  |-> ourRatchet,
       senderChain    |-> newChain(ourRatchet, sending),
       receiverChains |-> << >>,
       pendingPreKey  |-> [preKey |-> bundle.preKey, signedPreKey |-> bundle.signedPreKey,
                           baseKey |-> baseKey]]

createIncomingSession(ctx, theirIdentity, theirBaseKey) ==
  [localIdentity  |-> ctx.identityKey,
   remoteIdentity |-> theirIdentity,
   rootKey        |-> deriveInitialKeys(calculateReceiverSecret(ctx, theirIdentity, theirBaseKey)),
   ourRatchetKey  |-> ctx.signedPreKey,
   senderChain    |-> None,
   receiverChains |-> << >>,
   pendingPreKey  |-> None]

createSessionRecord == [currentSession |-> None, previousSessions |-> << >>]

SessionsOf(record) ==
  WhenPresent(record.currentSession, record.currentSession) \o record.previousSessions

Truncate(s, n) == SubSeq(s, 1, IF Len(s) < n THEN Len(s) ELSE n)

\* The replaced session is archived; the promoted one is not taken out of the
\* archive it may come from.
promoteSession(record, session) ==
  [currentSession   |-> session,
   previousSessions |-> Truncate(SessionsOf(record), MAX_PREVIOUS_SESSIONS)]

----------------------------------------------------------------------------
(* The root ratchet and encryption.                                        *)

ChainsFor(session, ratchetKey) ==
  {i \in DOMAIN session.receiverChains : session.receiverChains[i].ratchetKey = ratchetKey}

\* First the receiving chain for their key, then a new sending chain of ours.
ratchetOnReceive(session, theirRatchetKey, ourNewRatchet) ==
  LET receiving == deriveRootKey(session.rootKey, sharedKey(session.ourRatchetKey, theirRatchetKey))
      sending   == deriveRootKey(receiving, sharedKey(ourNewRatchet, theirRatchetKey))
      chains    == Append(session.receiverChains, newChain(theirRatchetKey, receiving))
  IN  [session EXCEPT
         !.receiverChains = IF Len(chains) > MAX_PREVIOUS_SESSIONS THEN Tail(chains) ELSE chains,
         !.senderChain    = newChain(ourNewRatchet, sending),
         !.ourRatchetKey  = ourNewRatchet,
         !.rootKey        = sending]

CanEncrypt(record) == /\ record.currentSession # None
                      /\ record.currentSession.senderChain # None

\* nextSenderMessageKeys: the sending chain moves on by one.
AfterEncrypt(record) ==
  [record EXCEPT !.currentSession.senderChain.chainKey = nextChainKey(@)]

\* The MAC binds the keys and the identities of both ends; body stands for the
\* plaintext.  Until the peer answers the message carries the bundle data.
encrypt(record, body) ==
  LET session == record.currentSession
      keys    == deriveMessageKeys(session.senderChain.chainKey)
  IN  [ratchetKey |-> session.senderChain.ratchetKey,
       counter    |-> keys.index,
       mac        |-> [key |-> keys.material, sender |-> session.localIdentity,
                       receiver |-> session.remoteIdentity],
       body       |-> body,
       preKeyData |-> IF session.pendingPreKey = None THEN None
                      ELSE [pending |-> session.pendingPreKey,
                            identityKey |-> session.localIdentity]]

----------------------------------------------------------------------------
(* Decryption.  An attempt yields whether it succeeded and the session as  *)
(* it is left: a failed attempt leaves its ratchet and chains advanced.    *)

Authentic(message, keys, session) ==
  message.mac = [key |-> keys.material, sender |-> session.remoteIdentity,
                 receiver |-> session.localIdentity]

decryptWithSession(session, message, ourNewRatchet) ==
  LET ready == IF ChainsFor(session, message.ratchetKey) # {} THEN session
               ELSE ratchetOnReceive(session, message.ratchetKey, ourNewRatchet)
      at    == CHOOSE i \in ChainsFor(ready, message.ratchetKey) : TRUE
      found == messageKeysForCounter(ready.receiverChains[at], message.counter)
      given == CHOOSE outcome \in found : TRUE
      moved == [ready EXCEPT !.receiverChains[at] = given.chain]
  IN  IF found = {} THEN [ok |-> FALSE, session |-> ready]
      ELSE IF ~Authentic(message, given.keys, session) THEN [ok |-> FALSE, session |-> moved]
      ELSE [ok |-> TRUE, session |-> [moved EXCEPT !.pendingPreKey = None]]

\* The outcomes of decryptSignalMessage: empty when it throws, else the record
\* it leaves.  The current session is tried first, then the archived ones;
\* fresh[i] is the pair generated if the i-th attempt turns the root ratchet.
decryptSignalMessage(record, message, fresh) ==
  LET sessions == SessionsOf(record)
      attempt  == [i \in DOMAIN sessions |-> decryptWithSession(sessions[i], message, fresh[i])]
      opened   == {i \in DOMAIN sessions : attempt[i].ok}
      first    == Min(opened)
      after    == [i \in DOMAIN sessions |->
                     IF i <= first THEN attempt[i].session ELSE sessions[i]]
      tried    == [currentSession |-> Head(after), previousSessions |-> Tail(after)]
  IN  IF opened = {} THEN {}
      ELSE IF first = 1 THEN {tried}
      ELSE {promoteSession(tried, after[first])}

\* A session of ours still waiting for an answer under this base key.
Existing(record, baseKey) ==
  {session \in ToSet(SessionsOf(record)) :
     session.pendingPreKey # None /\ session.pendingPreKey.baseKey = baseKey}

\* The record decryptPreKeyMessage decrypts with: rebuilt unless one exists.
RecordForPreKeyMessage(record, message, ctx) ==
  LET data == message.preKeyData
  IN  IF Existing(record, data.pending.baseKey) # {} THEN record
      ELSE promoteSession(record, createIncomingSession(ctx, data.identityKey, data.pending.baseKey))

decryptPreKeyMessage(record, message, ctx, fresh) ==
  decryptSignalMessage(RecordForPreKeyMessage(record, message, ctx), message, fresh)
=============================================================================
