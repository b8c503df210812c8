--------------------------- MODULE SessionStorage ---------------------------
(***************************************************************************)
(* Session records as they are written to the key store and read back: the *)
(* fields of SessionRecordStructure.  Their bytes are ProtoExchange's.     *)
(***************************************************************************)
EXTENDS SignalSession

\* An empty buffer, which no chain key is.
NoKey == None

serializeChain(chain) ==
  [senderRatchetKey |-> chain.ratchetKey, chainKeyIndex |-> chain.chainKey.index,
   chainKeyValue |-> chain.chainKey.key, messageKeys |-> chain.messageKeys]

\* "When there is no sending chain yet we still have to keep" the ratchet pair.
syntheticChain(ourRatchetKey) ==
  [senderRatchetKey |-> ourRatchetKey, chainKeyIndex |-> 0, chainKeyValue |-> NoKey,
   messageKeys |-> << >>]

\* A slip in serializeState: the pending pre-key is left out.
PendingForgotten(state) ==
  [localIdentityPublic  |-> state.localIdentity,
   remoteIdentityPublic |-> state.remoteIdentity,
   rootKey              |-> state.rootKey,
   senderChain          |-> IF state.senderChain = None THEN syntheticChain(state.ourRatchetKey)
                            ELSE serializeChain(state.senderChain),
   receiverChains       |-> [i \in DOMAIN state.receiverChains |-> serializeChain(state.receiverChains[i])],
   pendingPreKey        |-> None]

serializeState(state) ==
  [localIdentityPublic  |-> state.localIdentity,
   remoteIdentityPublic |-> state.remoteIdentity,
   rootKey              |-> state.rootKey,
   senderChain          |-> IF state.senderChain = None THEN syntheticChain(state.ourRatchetKey)
                            ELSE serializeChain(state.senderChain),
   receiverChains       |-> [i \in DOMAIN state.receiverChains |-> serializeChain(state.receiverChains[i])],
   pendingPreKey        |-> state.pendingPreKey]

\* A Map again, filled in the order of the list: the last entry of a counter stays,
\* at the place of the first.
deserializeKeys(raw) ==
  LET Set(keys, mk) == IF StoredAt(keys, mk.index) = {} THEN Append(keys, mk)
                       ELSE [keys EXCEPT ![CHOOSE i \in StoredAt(keys, mk.index) : TRUE] = mk]
      filled[n \in 0 .. Len(raw)] == IF n = 0 THEN << >> ELSE Set(filled[n - 1], raw[n])
  IN  filled[Len(raw)]

deserializeChain(raw) ==
  [ratchetKey |-> raw.senderRatchetKey, chainKey |-> [key |-> raw.chainKeyValue, index |-> raw.chainKeyIndex],
   messageKeys |-> deserializeKeys(raw.messageKeys)]

\* The ratchet pair is the sending chain's; the chain is one if it has a key.
deserializeState(raw) ==
  [localIdentity  |-> raw.localIdentityPublic, remoteIdentity |-> raw.remoteIdentityPublic,
   rootKey        |-> raw.rootKey,
   ourRatchetKey  |-> raw.senderChain.senderRatchetKey,
   senderChain    |-> IF raw.senderChain.chainKeyValue = NoKey THEN None ELSE deserializeChain(raw.senderChain),
   receiverChains |-> [i \in DOMAIN raw.receiverChains |-> deserializeChain(raw.receiverChains[i])],
   pendingPreKey  |-> raw.pendingPreKey]

serializeSessionRecord(record) ==
  [currentSession   |-> IF record.currentSession = None THEN None ELSE serializeState(record.currentSession),
   previousSessions |-> [i \in DOMAIN record.previousSessions |-> serializeState(record.previousSessions[i])]]

deserializeSessionRecord(raw) ==
  [currentSession   |-> IF raw.currentSession = None THEN None ELSE deserializeState(raw.currentSession),
   previousSessions |-> [i \in DOMAIN raw.previousSessions |-> deserializeState(raw.previousSessions[i])]]
=============================================================================
