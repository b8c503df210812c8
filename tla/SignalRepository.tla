-------------------------- MODULE SignalRepository --------------------------
(***************************************************************************)
(* makeSignalRepository on two devices that talk to each other over a      *)
(* server that may delay, reorder, lose and repeat messages.               *)
(*                                                                         *)
(* Every operation loads the session record, works on its own copy and     *)
(* saves it; the awaits in between are separate steps, so operations in    *)
(* different slots of a device interleave.  Nothing in the repository      *)
(* serialises them.  A crash loses the operations in flight and keeps the  *)
(* key store.                                                              *)
(***************************************************************************)
EXTENDS SessionStorage

CONSTANTS Device,        \* the two ends of the conversation
          Slots,         \* operations a device may have in flight
          InitialPreKeys,\* one-time pre-keys each device has uploaded
          MaxOpens,      \* bound: sessions opened, by whom: [Device -> Nat]
          MaxBodies,     \* bound: messages encrypted, in all
          MaxDeliveries, \* bound: deliveries of one message that succeed
          MaxCrashes     \* bound: crashes, in all

ASSUME DevicesAssumption ==
  /\ IsFiniteSet(Device) /\ Cardinality(Device) = 2
  /\ MaxOpens \in [Device -> Nat]
  /\ InitialPreKeys \in [Device -> SUBSET Nat]
  /\ {MaxBodies, MaxDeliveries, MaxCrashes} \subseteq Nat

VARIABLES
  records,    \* the key store: the session record held for the peer
  preKeys,    \* the key store: the one-time pre-keys not yet consumed
  served,     \* the server: pre-keys it has handed out in bundles
  ops,        \* the operations in flight
  generated,  \* key pairs each device has generated so far
  sent,       \* messages released to the network
  bodies,     \* messages encrypted so far
  opens,      \* sessions opened so far
  delivered,  \* history: how often the plaintext of a message was returned
  built,      \* history: the incoming sessions saved, in order
  crashes

vars == <<records, preKeys, served, ops, generated, sent, bodies, opens, delivered, built, crashes>>

Bodies == 1 .. MaxBodies
Peer(d) == CHOOSE p \in Device : p # d

identityKey(d)     == <<d, "identity", 0>>
signedPreKey(d)    == <<d, "signedPreKey", 0>>
preKeyPair(d, id)  == <<d, "preKey", id>>
generateKeyPair(d, n) == <<d, "generated", n>>

Init ==
  /\ records = [d \in Device |-> createSessionRecord]
  /\ preKeys = InitialPreKeys
  /\ served = [d \in Device |-> {}]
  /\ ops = [d \in Device |-> [s \in Slots |-> None]]
  /\ generated = [d \in Device |-> 0]
  /\ sent = {}
  /\ bodies = 0
  /\ opens = [d \in Device |-> 0]
  /\ delivered = [b \in Bodies |-> 0]
  /\ built = [d \in Device |-> << >>]
  /\ crashes = 0

----------------------------------------------------------------------------
(* Operations.  An operation is a record: what it does, the step it awaits, *)
(* its input and the copy of the session record it loaded.                  *)

Begin(d, s, op) == /\ ops[d][s] = None
                   /\ ops' = [ops EXCEPT ![d][s] = op]
Awaits(d, s, kind, step) == /\ ops[d][s] # None
                            /\ ops[d][s].kind = kind
                            /\ ops[d][s].step = step
Goto(d, s, step)  == ops' = [ops EXCEPT ![d][s].step = step]
Finish(d, s)      == ops' = [ops EXCEPT ![d][s] = None]

Fresh(d, i) == generateKeyPair(d, generated[d] + i)

\* One pair for each session a decryption may try.
FreshPairs(d) == [i \in 1 .. MAX_PREVIOUS_SESSIONS + 1 |-> Fresh(d, i)]

\* What loadRecord will read back.
saveRecord(d, record) ==
  records' = [records EXCEPT ![d] = deserializeSessionRecord(serializeSessionRecord(record))]

\* openSession, up to loadRecord.  The bundle carries a one-time pre-key while
\* the server has one left; its signature is genuine.
StartOpen(d, s) ==
  /\ opens[d] < MaxOpens[d]
  /\ LET peer == Peer(d)
         left == InitialPreKeys[peer] \ served[peer]
         Bundle(preKey) == [identityKey |-> identityKey(peer), signedPreKey |-> signedPreKey(peer),
                            preKey |-> preKey]
     IN  IF left = {}
         THEN /\ Begin(d, s, [kind |-> "open", step |-> "save", input |-> Bundle(None),
                              record |-> records[d]])
              /\ UNCHANGED served
         ELSE /\ Begin(d, s, [kind |-> "open", step |-> "save",
                              input |-> Bundle(preKeyPair(peer, Min(left))), record |-> records[d]])
              /\ served' = [served EXCEPT ![peer] = @ \union {Min(left)}]
  /\ opens' = [opens EXCEPT ![d] = @ + 1]
  /\ UNCHANGED <<records, preKeys, generated, sent, bodies, delivered, built, crashes>>

\* createOutgoingSession and saveRecord.
Open(d, s) ==
  /\ Awaits(d, s, "open", "save")
  /\ saveRecord(d, promoteSession(ops[d][s].record,
                     createOutgoingSession(identityKey(d), ops[d][s].input, Fresh(d, 1), Fresh(d, 2))))
  /\ generated' = [generated EXCEPT ![d] = @ + 2]
  /\ Finish(d, s)
  /\ UNCHANGED <<preKeys, served, sent, bodies, opens, delivered, built, crashes>>

\* encrypt, up to loadRecord; it throws when there is no session to encrypt with.
StartEncrypt(d, s) ==
  /\ bodies < MaxBodies
  /\ CanEncrypt(records[d])
  /\ Begin(d, s, [kind |-> "encrypt", step |-> "save", input |-> bodies + 1, record |-> records[d]])
  /\ bodies' = bodies + 1
  /\ UNCHANGED <<records, preKeys, served, generated, sent, opens, delivered, built, crashes>>

\* A slip in Encrypt: the message is released first and the record saved then.
EncryptReleasesFirst(d, s) ==
  /\ Awaits(d, s, "encrypt", "save")
  /\ LET message == [to |-> Peer(d), signal |-> encrypt(ops[d][s].record, ops[d][s].input)]
     IN  IF message \notin sent
         THEN sent' = sent \union {message} /\ UNCHANGED <<records, ops>>
         ELSE saveRecord(d, AfterEncrypt(ops[d][s].record)) /\ Goto(d, s, "return") /\ UNCHANGED sent
  /\ UNCHANGED <<preKeys, served, generated, bodies, opens, delivered, built, crashes>>

\* The ratchet of the copy moves on and is saved.
Encrypt(d, s) ==
  /\ Awaits(d, s, "encrypt", "save")
  /\ saveRecord(d, AfterEncrypt(ops[d][s].record))
  /\ Goto(d, s, "return")
  /\ UNCHANGED <<preKeys, served, generated, sent, bodies, opens, delivered, built, crashes>>

\* The caller gets the ciphertext and sends it.
ReturnCiphertext(d, s) ==
  /\ Awaits(d, s, "encrypt", "return")
  /\ sent' = sent \union {[to |-> Peer(d), signal |-> encrypt(ops[d][s].record, ops[d][s].input)]}
  /\ Finish(d, s)
  /\ UNCHANGED <<records, preKeys, served, generated, bodies, opens, delivered, built, crashes>>

----------------------------------------------------------------------------
\* decrypt, up to loadRecord.  The network hands over any message, any number
\* of times; a pkmsg goes on to have its keys resolved.
StartDecrypt(d, s, message) ==
  /\ message.to = d
  /\ delivered[message.signal.body] < MaxDeliveries
  /\ Begin(d, s, [kind |-> "decrypt",
                  step |-> IF message.signal.preKeyData = None THEN "save" ELSE "resolve",
                  input |-> message.signal, ctx |-> None, record |-> records[d]])
  /\ UNCHANGED <<records, preKeys, served, generated, sent, bodies, opens, delivered, built, crashes>>

\* resolveIncomingKeys: the pre-keys the message addresses, read from the store.
AddressedPreKey(op) == op.input.preKeyData.pending.preKey

KeysHeld(d, op) ==
  /\ op.input.preKeyData.pending.signedPreKey = signedPreKey(d)
  /\ AddressedPreKey(op) # None => AddressedPreKey(op) \in {preKeyPair(d, id) : id \in preKeys[d]}

Resolved(d, op) ==
  [kind |-> "decrypt", step |-> "save", input |-> op.input,
   ctx |-> [identityKey |-> identityKey(d), signedPreKey |-> signedPreKey(d), preKey |-> AddressedPreKey(op)],
   record |-> op.record]

ResolveKeys(d, s) ==
  /\ Awaits(d, s, "decrypt", "resolve")
  /\ LET op == ops[d][s]
     IN  IF KeysHeld(d, op)
         THEN ops' = [ops EXCEPT ![d][s] = Resolved(d, op)]
         ELSE Finish(d, s)                                    \* "is gone": it throws
  /\ UNCHANGED <<records, preKeys, served, generated, sent, bodies, opens, delivered, built, crashes>>

\* What decrypting with the loaded copy can leave: empty when it throws.
Decrypted(d, op) ==
  IF op.ctx = None THEN decryptSignalMessage(op.record, op.input, FreshPairs(d))
  ELSE decryptPreKeyMessage(op.record, op.input, op.ctx, FreshPairs(d))

BuildsSession(op) ==
  op.ctx # None /\ Existing(op.record, op.input.preKeyData.pending.baseKey) = {}

\* decryptSignalMessage or decryptPreKeyMessage, then saveRecord.
Decrypt(d, s) ==
  /\ Awaits(d, s, "decrypt", "save")
  /\ LET op == ops[d][s]
     IN  \E record \in Decrypted(d, op) :
           /\ saveRecord(d, record)
           /\ built' = IF BuildsSession(op)
                       THEN [built EXCEPT ![d] = Append(@, op.input.preKeyData.pending)]
                       ELSE built
           /\ Goto(d, s, IF op.ctx # None /\ op.ctx.preKey # None THEN "delete" ELSE "return")
  /\ generated' = [generated EXCEPT ![d] = @ + Len(SessionsOf(ops[d][s].record)) + 1]
  /\ UNCHANGED <<preKeys, served, sent, bodies, opens, delivered, crashes>>

\* No session opens the message: the operation throws and nothing is saved.
DecryptFails(d, s) ==
  /\ Awaits(d, s, "decrypt", "save")
  /\ Decrypted(d, ops[d][s]) = {}
  /\ Finish(d, s)
  /\ UNCHANGED <<records, preKeys, served, generated, sent, bodies, opens, delivered, built, crashes>>

\* A slip in DeletePreKey: the pre-key is kept.
KeepPreKey(d, s) ==
  /\ Awaits(d, s, "decrypt", "delete")
  /\ Goto(d, s, "return")
  /\ UNCHANGED <<records, preKeys, served, generated, sent, bodies, opens, delivered, built, crashes>>

\* The one-time pre-key the message used is deleted from the store.
DeletePreKey(d, s) ==
  /\ Awaits(d, s, "decrypt", "delete")
  /\ preKeys' = [preKeys EXCEPT
                   ![d] = {id \in @ : preKeyPair(d, id) # ops[d][s].ctx.preKey}]
  /\ Goto(d, s, "return")
  /\ UNCHANGED <<records, served, generated, sent, bodies, opens, delivered, built, crashes>>

\* The caller gets the plaintext.
ReturnPlaintext(d, s) ==
  /\ Awaits(d, s, "decrypt", "return")
  /\ delivered' = [delivered EXCEPT ![ops[d][s].input.body] = @ + 1]
  /\ Finish(d, s)
  /\ UNCHANGED <<records, preKeys, served, generated, sent, bodies, opens, built, crashes>>

\* The process dies and restarts: the store survives, operations do not.
Crash(d) ==
  /\ crashes < MaxCrashes
  /\ \E s \in Slots : ops[d][s] # None
  /\ ops' = [ops EXCEPT ![d] = [s \in Slots |-> None]]
  /\ crashes' = crashes + 1
  /\ UNCHANGED <<records, preKeys, served, generated, sent, bodies, opens, delivered, built>>

Step(d, s) ==
  \/ StartOpen(d, s)
  \/ Open(d, s)
  \/ StartEncrypt(d, s)
  \/ Encrypt(d, s)
  \/ ReturnCiphertext(d, s)
  \/ \E message \in sent : StartDecrypt(d, s, message)
  \/ ResolveKeys(d, s)
  \/ Decrypt(d, s)
  \/ DecryptFails(d, s)
  \/ DeletePreKey(d, s)
  \/ ReturnPlaintext(d, s)

Next == \E d \in Device : Crash(d) \/ \E s \in Slots : Step(d, s)

Spec == Init /\ [][Next]_vars

----------------------------------------------------------------------------
KeyPairs == Device \X {"identity", "signedPreKey", "preKey", "generated"} \X Nat

TypeOK ==
  /\ \A d \in Device :
       /\ Len(records[d].previousSessions) <= MAX_PREVIOUS_SESSIONS
       /\ \A session \in ToSet(SessionsOf(records[d])) :
            /\ {session.localIdentity, session.remoteIdentity, session.ourRatchetKey} \subseteq KeyPairs
            /\ session.pendingPreKey # None => session.pendingPreKey.baseKey \in KeyPairs
            /\ Len(session.receiverChains) <= MAX_PREVIOUS_SESSIONS
       /\ preKeys[d] \subseteq InitialPreKeys[d]
       /\ served[d] \subseteq InitialPreKeys[d]
       /\ \A s \in Slots : ops[d][s] # None =>
            /\ ops[d][s].kind \in {"open", "encrypt", "decrypt"}
            /\ ops[d][s].step \in {"resolve", "save", "delete", "return"}
  /\ delivered \in [Bodies -> 0 .. MaxDeliveries + Cardinality(Slots)]
  /\ generated \in [Device -> Nat] /\ opens \in [Device -> Nat]
  /\ bodies \in 0 .. MaxBodies /\ crashes \in 0 .. MaxCrashes

\* "The keys for one message, used exactly once and then thrown away": no two
\* messages the devices ever send are sealed with the same key.
MessageKeysSealOneMessage ==
  \A m, n \in sent : m # n => m.signal.mac.key # n.signal.mac.key

\* "Keeping it would allow a replay": the plaintext of a message is returned
\* to the application at most once, however often the network repeats it.
DeliveredAtMostOnce == \A b \in Bodies : delivered[b] <= 1

\* The ratchets of the two ends never part: whenever a device is idle, it can
\* still decrypt every ordinary message sent to it that it has not decrypted,
\* as long as no chain runs into its key limits (ReceiverChain treats those).
Idle(d) == \A s \in Slots : ops[d][s] = None

Undelivered(m) == delivered[m.signal.body] = 0

MessagesStayDecryptable ==
  \A m \in sent :
    (m.signal.preKeyData = None /\ Undelivered(m) /\ Idle(m.to)) =>
      decryptSignalMessage(records[m.to], m.signal, FreshPairs(m.to)) # {}

\* "A one-time pre-key is used exactly once."
PreKeyBuildsOneSession ==
  \A d \in Device : \A i, j \in DOMAIN built[d] :
    (i # j /\ built[d][i].preKey # None) => built[d][i].preKey # built[d][j].preKey

\* "A retried pkmsg carries the same base key": it builds no second session.
BaseKeyBuildsOneSession ==
  \A d \in Device : \A i, j \in DOMAIN built[d] :
    i # j => built[d][i].baseKey # built[d][j].baseKey

\* A crash in the middle of an operation leads to no second use of a key: encrypt
\* saves the record before it releases the message.  A crash that makes a device
\* rebuild a session is left to PreKeyBuildsOneSession.
CrashReusesNoKey == BaseKeyBuildsOneSession => MessageKeysSealOneMessage

\* "Everything here is plain data so the whole session can be written to the
\* SignalKeyStore and read back": no record an operation is about to save loses
\* anything by it.  Nor would one with an incoming session that has no sending
\* chain yet, which decrypt holds on the way and never saves.
Unsaved(d, op) ==
  CASE op.kind = "open"    -> {promoteSession(op.record, createOutgoingSession(identityKey(d), op.input, Fresh(d, 1), Fresh(d, 2)))}
    [] op.kind = "encrypt" -> {AfterEncrypt(op.record)}
    [] op.kind = "decrypt" -> Decrypted(d, op)
         \union (IF BuildsSession(op) THEN {RecordForPreKeyMessage(op.record, op.input, op.ctx)} ELSE {})

RecordsSurviveStorage ==
  \A d \in Device, s \in Slots :
    ops[d][s] # None /\ ops[d][s].step = "save" =>
      \A record \in Unsaved(d, ops[d][s]) :
        deserializeSessionRecord(serializeSessionRecord(record)) = record

\* A pkmsg not yet decrypted can still be: its pre-keys are held.
PreKeyMessagesStayDecryptable ==
  \A m \in sent :
    (m.signal.preKeyData # None /\ Undelivered(m) /\ Idle(m.to)) =>
      LET pending == m.signal.preKeyData.pending
      IN  pending.preKey # None => pending.preKey \in {preKeyPair(m.to, id) : id \in preKeys[m.to]}

\* The repository implements the channel an application expects.
Channel == INSTANCE MessageChannel
             WITH Body <- Bodies, accepted <- {m.signal.body : m \in sent}, deliveries <- delivered

\* What was sent is handed out at most once and only after it was sent.
ImplementsChannel == Channel!Spec
=============================================================================
