----------------------- MODULE SignalRepositoryProofs -----------------------
(***************************************************************************)
(* What the repository guarantees for every value of its constants: first  *)
(* of any number of operations at a time, then of operations one at a      *)
(* time, then of one conversation, and last of its two ends together.      *)
(***************************************************************************)
EXTENDS SignalRepository, RatchetProofs, WellFoundedInduction, FiniteSetTheorems

----------------------------------------------------------------------------
(* A record in order.                                                      *)

SessionOf(localIdentity, remoteIdentity, rootKey, ourRatchetKey, senderChain, receiverChains, pendingPreKey) ==
  [localIdentity |-> localIdentity, remoteIdentity |-> remoteIdentity, rootKey |-> rootKey,
   ourRatchetKey |-> ourRatchetKey, senderChain |-> senderChain, receiverChains |-> receiverChains,
   pendingPreKey |-> pendingPreKey]

\* The sending chain is turned by our ratchet pair and stores no keys.
SendsInOrder(session) ==
  /\ InOrder(session.senderChain)
  /\ session.senderChain.ratchetKey = session.ourRatchetKey
  /\ session.senderChain.messageKeys = << >>

GoodSession(session) ==
  /\ session = SessionOf(session.localIdentity, session.remoteIdentity, session.rootKey, session.ourRatchetKey,
                         session.senderChain, session.receiverChains, session.pendingPreKey)
  /\ session.senderChain = None \/ SendsInOrder(session)
  /\ IsSeq(session.receiverChains)
  /\ \A i \in 1 .. Len(session.receiverChains) : InOrder(session.receiverChains[i])

RecordOf(currentSession, previousSessions) ==
  [currentSession |-> currentSession, previousSessions |-> previousSessions]

GoodSessions(sessions) == IsSeq(sessions) /\ \A i \in 1 .. Len(sessions) : GoodSession(sessions[i])

GoodRecord(record) ==
  /\ record = RecordOf(record.currentSession, record.previousSessions)
  /\ record.currentSession = None \/ GoodSession(record.currentSession)
  /\ GoodSessions(record.previousSessions)

----------------------------------------------------------------------------
(* What is absent is nothing that is there.                                *)

\* A chain key is not the empty buffer.
LEMMA KeysAreSomething == ASSUME NEW seed, NEW n PROVE Key(seed, n) # NoKey
<1>1. DOMAIN Key(seed, n) = {"seed", "turns"}
  BY DEF Key
<1>2. DOMAIN << >> = {}
  OBVIOUS
<1>3. QED
  BY <1>1, <1>2 DEF NoKey, None

\* A chain in order is a chain.
LEMMA ChainsAreSomething == ASSUME NEW chain, InOrder(chain) PROVE chain # None
<1>1. \A a, b, c, d : DOMAIN ChainOf(a, b, c, d) = {"ratchetKey", "chainKey", "messageKeys"}
  BY DEF ChainOf
<1>2. DOMAIN chain = {"ratchetKey", "chainKey", "messageKeys"}
  BY <1>1 DEF InOrder
<1>3. DOMAIN << >> = {}
  OBVIOUS
<1>4. QED
  BY <1>2, <1>3 DEF None

\* And a session a session.
LEMMA SessionsAreSomething == ASSUME NEW session, GoodSession(session) PROVE session # None
<1>1. \A a, b, c, d, e, f, g : DOMAIN SessionOf(a, b, c, d, e, f, g) =
        {"localIdentity", "remoteIdentity", "rootKey", "ourRatchetKey", "senderChain", "receiverChains", "pendingPreKey"}
  BY DEF SessionOf
<1>2. "rootKey" \in DOMAIN session
  BY <1>1 DEF GoodSession
<1>3. DOMAIN << >> = {}
  OBVIOUS
<1>4. QED
  BY <1>2, <1>3 DEF None

----------------------------------------------------------------------------
(* Storage.                                                                *)

\* Induction, as a set of numbers.
LEMMA NatSetInduction ==
  ASSUME NEW S, 0 \in S, \A n \in Nat : n \in S => n + 1 \in S
  PROVE  \A n \in Nat : n \in S
<1> SUFFICES ASSUME NEW k \in Nat, k \notin S PROVE FALSE
  OBVIOUS
<1> DEFINE T == {n \in Nat : n \notin S}
<1>1. T \subseteq Nat /\ T # {}
  OBVIOUS
<1>2. PICK x \in T : \A y \in T : ~(<<y, x>> \in OpToRel(<, Nat))
  BY <1>1, NatLessThanWellFounded, WFMin
<1>3. x \in Nat /\ x \notin S /\ x # 0
  OBVIOUS
<1>4. x - 1 \in Nat /\ x - 1 < x /\ (x - 1) + 1 = x
  BY <1>3
<1>5. x - 1 \in S
  BY <1>2, <1>4 DEF OpToRel
<1>6. QED
  BY <1>3, <1>4, <1>5

\* The Map filled with n keys of distinct counters is the list of the n keys.
LEMMA KeysSurvive ==
  ASSUME NEW raw, NEW seed, NEW limit, Ascending(raw, seed, limit)
  PROVE  deserializeKeys(raw) = raw
<1> DEFINE n == Len(raw)
           Put(keys, mk) == IF StoredAt(keys, mk.index) = {} THEN Append(keys, mk)
                       ELSE [keys EXCEPT ![CHOOSE i \in StoredAt(keys, mk.index) : TRUE] = mk]
           Fills(f) == f = [i \in 0 .. n |-> IF i = 0 THEN << >> ELSE Put(f[i - 1], raw[i])]
           F == CHOOSE f : Fills(f)
<1>1. deserializeKeys(raw) = F[n]
  BY DEF deserializeKeys
<1>2. /\ IsSeq(raw) /\ n \in Nat
      /\ \A i \in 1 .. n : raw[i].index \in Nat
      /\ \A i, j \in 1 .. n : i < j => raw[i].index < raw[j].index
  BY DEF Ascending, IsSeq
<1> DEFINE upTo == [i \in 0 .. n |-> SubSeq(raw, 1, i)]
<1>3. \A i \in 0 .. n : /\ IsSeq(SubSeq(raw, 1, i)) /\ Len(SubSeq(raw, 1, i)) = i
                        /\ \A j \in 1 .. i : SubSeq(raw, 1, i)[j] = raw[j]
  <2> DEFINE S == {raw[i] : i \in 1 .. n}
  <2>1. raw \in Seq(S)
    BY <1>2, SeqOfElements
  <2>2. \A i \in 0 .. n : \A j \in 1 .. i : raw[j] \in S
    BY <1>2
  <2> HIDE DEF S, n
  <2>3. TAKE i \in 0 .. n
  <2>4. /\ SubSeq(raw, 1, i) \in Seq(S) /\ Len(SubSeq(raw, 1, i)) = IF 1 <= i THEN i - 1 + 1 ELSE 0
        /\ \A j \in 1 .. i - 1 + 1 : SubSeq(raw, 1, i)[j] = raw[1 + j - 1]
    BY <1>2, <2>2, SubSeqProperties
  <2>5. i - 1 + 1 = i /\ (~(1 <= i) => i = 0) /\ \A j \in 1 .. i : 1 + j - 1 = j
    BY <1>2
  <2>6. QED
    BY <2>4, <2>5, SeqIsSeq
<1>4. \A i \in 1 .. n : Put(SubSeq(raw, 1, i - 1), raw[i]) = SubSeq(raw, 1, i)
  <2>1. TAKE i \in 1 .. n
  <2> DEFINE before == SubSeq(raw, 1, i - 1)
             upToI  == SubSeq(raw, 1, i)
             more   == Append(before, raw[i])
  <2>2. i - 1 \in 0 .. n /\ i \in 0 .. n
    BY <1>2
  <2>3. /\ IsSeq(before) /\ Len(before) = i - 1 /\ \A j \in 1 .. i - 1 : before[j] = raw[j]
        /\ IsSeq(upToI) /\ Len(upToI) = i /\ \A j \in 1 .. i : upToI[j] = raw[j]
    BY <1>3, <2>2
  <2> HIDE DEF before, upToI
  <2>4. StoredAt(before, raw[i].index) = {}
    <3>1. SUFFICES ASSUME NEW j \in DOMAIN before, before[j].index = raw[i].index PROVE FALSE
      BY DEF StoredAt
    <3>2. j \in 1 .. i - 1
      BY <2>3, <3>1, SeqOfElements
    <3>3. j \in 1 .. n /\ j < i /\ before[j] = raw[j]
      BY <1>2, <2>3, <3>2
    <3>4. QED
      BY <1>2, <3>1, <3>3
  <2>5. Put(before, raw[i]) = more
    BY <2>4
  <2>6. /\ IsSeq(more) /\ Len(more) = Len(before) + 1
        /\ \A j \in 1 .. Len(before) : more[j] = before[j]
        /\ more[Len(before) + 1] = raw[i]
    BY <2>3, AppendElements
  <2>7. (i - 1) + 1 = i /\ \A j \in 1 .. i : j \in 1 .. i - 1 \/ j = i
    BY <2>2
  <2> HIDE DEF more
  <2>8. IsSeq(more) /\ Len(more) = i /\ \A j \in 1 .. i : more[j] = raw[j]
    BY <2>3, <2>6, <2>7
  <2>9. more = upToI
    BY <2>3, <2>8, SameElements
  <2>10. QED
    BY <2>5, <2>9 DEF before, upToI
<1>5. SubSeq(raw, 1, 0) = << >>
  <2>1. 0 \in 0 .. n /\ IsSeq(<< >>) /\ Len(<< >>) = 0
    BY <1>2 DEF IsSeq
  <2>2. QED
    BY <1>3, <2>1, SameElements
<1> HIDE DEF n, Put
<1>6. Fills(upTo)
  <2>1. \A i \in 0 .. n : SubSeq(raw, 1, i) = IF i = 0 THEN << >> ELSE Put(upTo[i - 1], raw[i])
    <3>1. TAKE i \in 0 .. n
    <3>2. CASE i = 0
      BY <1>5, <3>2
    <3>3. CASE i # 0
      <4>1. i \in 1 .. n /\ i - 1 \in 0 .. n
        BY <1>2, <3>3
      <4>2. upTo[i - 1] = SubSeq(raw, 1, i - 1)
        BY <4>1
      <4>3. QED
        BY <1>4, <3>3, <4>1, <4>2
    <3>4. QED
      BY <3>2, <3>3
  <2>2. QED
    BY <2>1, Zenon
<1> HIDE DEF upTo
<1>7. Fills(F)
  BY <1>6
<1> HIDE DEF F
<1>8. F = [i \in 0 .. n |-> IF i = 0 THEN << >> ELSE Put(F[i - 1], raw[i])]
  BY <1>7
<1> DEFINE Same == {i \in Nat : i <= n => F[i] = SubSeq(raw, 1, i)}
<1>9. 0 \in Same
  <2>1. 0 \in 0 .. n
    BY <1>2
  <2>2. F[0] = << >>
    BY <1>8, <2>1
  <2>3. QED
    BY <1>5, <2>2
<1>10. \A i \in Nat : i \in Same => i + 1 \in Same
  <2>1. SUFFICES ASSUME NEW i \in Nat, i \in Same, i + 1 <= n PROVE F[i + 1] = SubSeq(raw, 1, i + 1)
    OBVIOUS
  <2>2. i + 1 \in 1 .. n /\ i + 1 \in 0 .. n /\ i <= n /\ (i + 1) - 1 = i /\ i + 1 # 0
    BY <1>2, <2>1
  <2>3. F[i] = SubSeq(raw, 1, i)
    BY <2>1, <2>2
  <2>4. F[i + 1] = Put(F[i], raw[i + 1])
    BY <1>8, <2>2
  <2>5. QED
    BY <1>4, <2>2, <2>3, <2>4
<1> HIDE DEF Same
<1>11. n \in Same
  BY <1>2, <1>9, <1>10, NatSetInduction
<1>12. F[n] = SubSeq(raw, 1, n)
  BY <1>2, <1>11 DEF Same
<1>13. SubSeq(raw, 1, n) = raw
  <2>1. n \in 0 .. n /\ Len(raw) = n /\ IsSeq(raw)
    BY <1>2 DEF n
  <2>2. QED
    BY <1>3, <2>1, SameElements
<1>14. QED
  BY <1>1, <1>12, <1>13

\* A chain survives.
LEMMA ChainSurvives == ASSUME NEW chain, InOrder(chain) PROVE deserializeChain(serializeChain(chain)) = chain
<1> DEFINE raw == serializeChain(chain)
<1>1. /\ raw.senderRatchetKey = chain.ratchetKey /\ raw.chainKeyIndex = chain.chainKey.index
      /\ raw.chainKeyValue = chain.chainKey.key /\ raw.messageKeys = chain.messageKeys
  BY DEF serializeChain
<1>2. deserializeKeys(raw.messageKeys) = chain.messageKeys
  BY <1>1, KeysSurvive DEF InOrder
<1> HIDE DEF raw
<1>3. deserializeChain(raw) = [ratchetKey |-> chain.ratchetKey,
                               chainKey |-> [key |-> chain.chainKey.key, index |-> chain.chainKey.index],
                               messageKeys |-> chain.messageKeys]
  BY <1>1, <1>2 DEF deserializeChain
<1>4. chain = ChainOf(chain.ratchetKey, SeedOf(chain), chain.chainKey.index, chain.messageKeys)
  BY DEF InOrder
<1>5. chain.chainKey.key = Key(SeedOf(chain), chain.chainKey.index)
  BY <1>4 DEF ChainOf
<1>6. QED
  BY <1>3, <1>4, <1>5 DEF ChainOf, raw

\* So does a list of what survives.
LEMMA ChainsSurvive ==
  ASSUME NEW chains, IsSeq(chains), \A i \in 1 .. Len(chains) : InOrder(chains[i])
  PROVE  LET raw == [i \in DOMAIN chains |-> serializeChain(chains[i])]
         IN  [i \in DOMAIN raw |-> deserializeChain(raw[i])] = chains
<1> DEFINE n == Len(chains)
           raw == [i \in DOMAIN chains |-> serializeChain(chains[i])]
<1>1. DOMAIN chains = 1 .. n
  BY SeqOfElements
<1>2. \A i \in 1 .. n : deserializeChain(serializeChain(chains[i])) = chains[i]
  BY ChainSurvives
<1>3. DOMAIN raw = 1 .. n /\ \A i \in 1 .. n : raw[i] = serializeChain(chains[i])
  BY <1>1
<1>4. chains = [i \in 1 .. n |-> chains[i]]
  BY DEF IsSeq
<1> HIDE DEF n, raw
<1>5. [i \in DOMAIN raw |-> deserializeChain(raw[i])] = [i \in 1 .. n |-> chains[i]]
  BY <1>2, <1>3
<1>6. QED
  BY <1>4, <1>5 DEF raw

\* A session survives: one without a sending chain by the synthetic one.
LEMMA SessionSurvives ==
  ASSUME NEW session, GoodSession(session)
  PROVE  /\ deserializeState(serializeState(session)) = session
         /\ serializeState(session) # None
<1> DEFINE raw == serializeState(session)
           chains == session.receiverChains
           rawChains == [i \in DOMAIN chains |-> serializeChain(chains[i])]
           rawSender == IF session.senderChain = None THEN syntheticChain(session.ourRatchetKey)
                        ELSE serializeChain(session.senderChain)
<1>1. /\ raw.localIdentityPublic = session.localIdentity /\ raw.remoteIdentityPublic = session.remoteIdentity
      /\ raw.rootKey = session.rootKey /\ raw.pendingPreKey = session.pendingPreKey
      /\ raw.receiverChains = rawChains /\ raw.senderChain = rawSender
  BY DEF serializeState
<1>2. /\ rawSender.senderRatchetKey = session.ourRatchetKey
      /\ (IF rawSender.chainKeyValue = NoKey THEN None ELSE deserializeChain(rawSender)) = session.senderChain
  <2>1. CASE session.senderChain = None
    BY <2>1 DEF syntheticChain
  <2>2. CASE session.senderChain # None
    <3>1. SendsInOrder(session)
      BY <2>2 DEF GoodSession
    <3>2. rawSender = serializeChain(session.senderChain)
      BY <2>2
    <3> HIDE DEF rawSender
    <3>3. rawSender.senderRatchetKey = session.ourRatchetKey
      BY <3>1, <3>2 DEF SendsInOrder, serializeChain
    <3>4. deserializeChain(rawSender) = session.senderChain
      BY <3>1, <3>2, ChainSurvives DEF SendsInOrder
    <3>5. rawSender.chainKeyValue # NoKey
      <4>1. session.senderChain.chainKey.key = Key(SeedOf(session.senderChain), session.senderChain.chainKey.index)
        BY <3>1 DEF SendsInOrder, InOrder, ChainOf
      <4>2. rawSender.chainKeyValue = session.senderChain.chainKey.key
        BY <3>2 DEF serializeChain
      <4>3. QED
        BY <4>1, <4>2, KeysAreSomething
    <3>6. QED
      BY <3>3, <3>4, <3>5
  <2>3. QED
    BY <2>1, <2>2
<1>3. [i \in DOMAIN rawChains |-> deserializeChain(rawChains[i])] = chains
  BY ChainsSurvive DEF GoodSession
<1>4. raw # None
  <2>1. DOMAIN raw = {"localIdentityPublic", "remoteIdentityPublic", "rootKey", "senderChain", "receiverChains",
                      "pendingPreKey"}
    BY DEF serializeState
  <2>2. DOMAIN << >> = {}
    OBVIOUS
  <2>3. QED
    BY <2>1, <2>2 DEF None
<1> HIDE DEF raw, rawChains, rawSender
<1>5. deserializeState(raw) =
        SessionOf(session.localIdentity, session.remoteIdentity, session.rootKey, session.ourRatchetKey,
                  session.senderChain, session.receiverChains, session.pendingPreKey)
  BY <1>1, <1>2, <1>3 DEF deserializeState, SessionOf
<1>6. session = SessionOf(session.localIdentity, session.remoteIdentity, session.rootKey, session.ourRatchetKey,
                          session.senderChain, session.receiverChains, session.pendingPreKey)
  BY DEF GoodSession
<1>7. QED
  BY <1>4, <1>5, <1>6 DEF raw

\* A record survives: what is saved is what the next operation loads.
LEMMA RecordSurvives ==
  ASSUME NEW record, GoodRecord(record)
  PROVE  deserializeSessionRecord(serializeSessionRecord(record)) = record
<1> DEFINE raw == serializeSessionRecord(record)
           current == record.currentSession
           previous == record.previousSessions
           rawCurrent == IF current = None THEN None ELSE serializeState(current)
           rawPrevious == [i \in DOMAIN previous |-> serializeState(previous[i])]
           n == Len(previous)
<1>1. raw.currentSession = rawCurrent /\ raw.previousSessions = rawPrevious
  BY DEF serializeSessionRecord
<1>2. (IF rawCurrent = None THEN None ELSE deserializeState(rawCurrent)) = current
  <2>1. CASE current = None
    BY <2>1
  <2>2. CASE current # None
    BY <2>2, SessionSurvives DEF GoodRecord
  <2>3. QED
    BY <2>1, <2>2
<1>3. /\ IsSeq(previous) /\ DOMAIN previous = 1 .. n
      /\ \A i \in 1 .. n : deserializeState(serializeState(previous[i])) = previous[i]
  BY SessionSurvives, SeqOfElements DEF GoodRecord, GoodSessions
<1>4. DOMAIN rawPrevious = 1 .. n /\ \A i \in 1 .. n : rawPrevious[i] = serializeState(previous[i])
  BY <1>3
<1>5. previous = [i \in 1 .. n |-> previous[i]]
  BY <1>3 DEF IsSeq
<1> HIDE DEF raw, rawCurrent, rawPrevious, n
<1>6. [i \in DOMAIN rawPrevious |-> deserializeState(rawPrevious[i])] = [i \in 1 .. n |-> previous[i]]
  BY <1>3, <1>4
<1>7. deserializeSessionRecord(raw) = RecordOf(current, previous)
  BY <1>1, <1>2, <1>5, <1>6 DEF deserializeSessionRecord, RecordOf
<1>8. QED
  BY <1>7 DEF GoodRecord, raw

----------------------------------------------------------------------------
(* Every operation on a record in order leaves one in order.               *)

\* The first entries of a sequence.
LEMMA FirstElements ==
  ASSUME NEW s, IsSeq(s), NEW n \in Nat, n <= Len(s)
  PROVE  /\ IsSeq(SubSeq(s, 1, n)) /\ Len(SubSeq(s, 1, n)) = n
         /\ \A j \in 1 .. n : SubSeq(s, 1, n)[j] = s[j]
<1> DEFINE S == {s[i] : i \in 1 .. Len(s)}
<1>1. s \in Seq(S) /\ Len(s) \in Nat
  BY SeqOfElements DEF IsSeq
<1>2. \A j \in 1 .. n : s[j] \in S
  BY <1>1
<1> HIDE DEF S
<1>3. /\ SubSeq(s, 1, n) \in Seq(S) /\ Len(SubSeq(s, 1, n)) = IF 1 <= n THEN n - 1 + 1 ELSE 0
      /\ \A j \in 1 .. n - 1 + 1 : SubSeq(s, 1, n)[j] = s[1 + j - 1]
  BY <1>2, SubSeqProperties
<1>4. n - 1 + 1 = n /\ (~(1 <= n) => n = 0) /\ \A j \in 1 .. n : 1 + j - 1 = j
  OBVIOUS
<1>5. QED
  BY <1>3, <1>4, SeqIsSeq

\* An optional value as a list.
LEMMA PresentElements ==
  ASSUME NEW x, NEW value
  PROVE  /\ IsSeq(WhenPresent(x, value)) /\ Len(WhenPresent(x, value)) = IF x = None THEN 0 ELSE 1
         /\ x # None => WhenPresent(x, value)[1] = value
  BY DEF WhenPresent, IsSeq

\* The sessions of a record, the current one first.
LEMMA SessionsInOrder ==
  ASSUME NEW record, GoodRecord(record)
  PROVE  LET sessions == SessionsOf(record)
             shift == IF record.currentSession = None THEN 0 ELSE 1
         IN  /\ GoodSessions(sessions)
             /\ Len(sessions) = shift + Len(record.previousSessions)
             /\ record.currentSession # None => sessions[1] = record.currentSession
             /\ \A i \in 1 .. Len(record.previousSessions) : sessions[i + shift] = record.previousSessions[i]
<1> DEFINE current == record.currentSession
           previous == record.previousSessions
           shift == IF record.currentSession = None THEN 0 ELSE 1
           first == WhenPresent(current, current)
           sessions == first \o previous
<1>1. /\ IsSeq(previous) /\ Len(previous) \in Nat /\ \A i \in 1 .. Len(previous) : GoodSession(previous[i])
      /\ current = None \/ GoodSession(current)
  BY DEF GoodRecord, GoodSessions, IsSeq
<1>2. IsSeq(first) /\ Len(first) = shift /\ (current # None => first[1] = current)
  BY PresentElements
<1>0. shift \in {0, 1} /\ (shift = 0 <=> current = None)
  OBVIOUS
<1> HIDE DEF first, shift
<1>3. /\ IsSeq(sessions) /\ Len(sessions) = shift + Len(previous)
      /\ \A i \in 1 .. shift + Len(previous) : sessions[i] = IF i <= shift THEN first[i] ELSE previous[i - shift]
  BY <1>1, <1>2, ConcatElements
<1>4. SessionsOf(record) = sessions
  BY DEF SessionsOf, first
<1>5. current # None => sessions[1] = current
  BY <1>1, <1>2, <1>3, <1>0
<1>6. \A i \in 1 .. Len(previous) : sessions[i + shift] = previous[i]
  BY <1>1, <1>3, <1>0
<1> HIDE DEF sessions
<1>7. \A i \in 1 .. Len(sessions) : GoodSession(sessions[i])
  <2>1. TAKE i \in 1 .. Len(sessions)
  <2>2. CASE i <= shift
    <3>1. i = 1 /\ current # None
      BY <1>1, <1>3, <1>0, <2>2
    <3>2. QED
      BY <1>1, <1>5, <3>1
  <2>3. CASE ~(i <= shift)
    <3>1. i - shift \in 1 .. Len(previous) /\ i \in 1 .. shift + Len(previous)
      BY <1>1, <1>3, <1>0, <2>3
    <3>2. sessions[i] = previous[i - shift]
      BY <1>3, <2>3, <3>1
    <3>3. QED
      BY <1>1, <3>1, <3>2
  <2>4. QED
    BY <2>2, <2>3
<1>8. GoodSessions(sessions)
  BY <1>3, <1>7 DEF GoodSessions
<1>9. QED
  BY <1>3, <1>4, <1>5, <1>6, <1>8 DEF shift

\* The archive is cut to its limit.
LEMMA TruncatedElements ==
  ASSUME NEW s, IsSeq(s), NEW n \in Nat
  PROVE  /\ IsSeq(Truncate(s, n)) /\ Len(Truncate(s, n)) = IF Len(s) < n THEN Len(s) ELSE n
         /\ \A j \in 1 .. Len(Truncate(s, n)) : Truncate(s, n)[j] = s[j]
<1> DEFINE m == IF Len(s) < n THEN Len(s) ELSE n
<1>1. Len(s) \in Nat
  BY DEF IsSeq
<1>2. m \in Nat /\ m <= Len(s)
  BY <1>1
<1>3. Truncate(s, n) = SubSeq(s, 1, m)
  BY DEF Truncate
<1> HIDE DEF m
<1>4. /\ IsSeq(SubSeq(s, 1, m)) /\ Len(SubSeq(s, 1, m)) = m
      /\ \A j \in 1 .. m : SubSeq(s, 1, m)[j] = s[j]
  BY <1>2, FirstElements
<1>5. QED
  BY <1>3, <1>4 DEF m

\* Promotion.
LEMMA PromotedInOrder ==
  ASSUME NEW record, GoodRecord(record), NEW session, GoodSession(session)
  PROVE  GoodRecord(promoteSession(record, session))
<1> DEFINE sessions == SessionsOf(record)
           kept == Truncate(sessions, MAX_PREVIOUS_SESSIONS)
<1>1. promoteSession(record, session) = RecordOf(session, kept)
  BY DEF promoteSession, RecordOf
<1>2. GoodSessions(sessions)
  BY SessionsInOrder
<1>3. MAX_PREVIOUS_SESSIONS \in Nat /\ IsSeq(sessions) /\ Len(sessions) \in Nat
      /\ \A i \in 1 .. Len(sessions) : GoodSession(sessions[i])
  BY <1>2, SessionsAssumption DEF GoodSessions, IsSeq
<1> HIDE DEF sessions
<1>4. /\ IsSeq(kept) /\ Len(kept) = IF Len(sessions) < MAX_PREVIOUS_SESSIONS THEN Len(sessions) ELSE MAX_PREVIOUS_SESSIONS
      /\ \A j \in 1 .. Len(kept) : kept[j] = sessions[j]
  BY <1>3, TruncatedElements
<1> HIDE DEF kept
<1>5. \A j \in 1 .. Len(kept) : j \in 1 .. Len(sessions)
  BY <1>3, <1>4
<1>6. GoodSessions(kept)
  BY <1>3, <1>4, <1>5 DEF GoodSessions
<1>7. QED
  BY <1>1, <1>6 DEF GoodRecord, RecordOf

\* The sessions that are created.
LEMMA OutgoingInOrder ==
  ASSUME NEW identity, NEW bundle, NEW baseKey, NEW ourRatchet
  PROVE  GoodSession(createOutgoingSession(identity, bundle, baseKey, ourRatchet))
<1> DEFINE session == createOutgoingSession(identity, bundle, baseKey, ourRatchet)
           sending == deriveRootKey(deriveInitialKeys(calculateInitiatorSecret(identity, baseKey, bundle)),
                                    sharedKey(ourRatchet, bundle.signedPreKey))
           pending == [preKey |-> bundle.preKey, signedPreKey |-> bundle.signedPreKey, baseKey |-> baseKey]
           chain == newChain(ourRatchet, sending)
<1> HIDE DEF sending, chain, pending
<1>1. session = SessionOf(identity, bundle.identityKey, sending, ourRatchet, chain, << >>, pending)
  BY DEF createOutgoingSession, SessionOf, sending, chain, pending
<1>2. InOrder(chain) /\ chain.ratchetKey = ourRatchet /\ chain.messageKeys = << >>
  BY NewChainInOrder DEF chain
<1>3. /\ session.localIdentity = identity /\ session.remoteIdentity = bundle.identityKey /\ session.rootKey = sending
      /\ session.ourRatchetKey = ourRatchet /\ session.senderChain = chain /\ session.receiverChains = << >>
      /\ session.pendingPreKey = pending
  BY <1>1 DEF SessionOf
<1> HIDE DEF session
<1>4. SendsInOrder(session)
  BY <1>2, <1>3 DEF SendsInOrder
<1>5. IsSeq(<< >>) /\ Len(<< >>) = 0
  BY DEF IsSeq
<1>6. GoodSession(session)
  BY <1>1, <1>3, <1>4, <1>5 DEF GoodSession
<1>7. QED
  BY <1>6 DEF session

\* A session built from a pkmsg is in order, without a sending chain.
LEMMA IncomingInOrder ==
  ASSUME NEW ctx, NEW theirIdentity, NEW theirBaseKey
  PROVE  GoodSession(createIncomingSession(ctx, theirIdentity, theirBaseKey))
<1> DEFINE session == createIncomingSession(ctx, theirIdentity, theirBaseKey)
           root == deriveInitialKeys(calculateReceiverSecret(ctx, theirIdentity, theirBaseKey))
<1> HIDE DEF root
<1>1. session = SessionOf(ctx.identityKey, theirIdentity, root, ctx.signedPreKey, None, << >>, None)
  BY DEF createIncomingSession, SessionOf, root
<1>2. /\ session.localIdentity = ctx.identityKey /\ session.remoteIdentity = theirIdentity /\ session.rootKey = root
      /\ session.ourRatchetKey = ctx.signedPreKey /\ session.senderChain = None /\ session.receiverChains = << >>
      /\ session.pendingPreKey = None
  BY <1>1 DEF SessionOf
<1> HIDE DEF session
<1>3. IsSeq(<< >>) /\ Len(<< >>) = 0
  BY DEF IsSeq
<1>4. GoodSession(session)
  BY <1>1, <1>2, <1>3 DEF GoodSession
<1>5. QED
  BY <1>4 DEF session

\* The root ratchet: what each part of the session is afterwards.
LEMMA RatchetedSession ==
  ASSUME NEW session, GoodSession(session), NEW theirRatchetKey, NEW ourNewRatchet
  PROVE  LET receiving == deriveRootKey(session.rootKey, sharedKey(session.ourRatchetKey, theirRatchetKey))
             sending == deriveRootKey(receiving, sharedKey(ourNewRatchet, theirRatchetKey))
             chains == Append(session.receiverChains, newChain(theirRatchetKey, receiving))
         IN  ratchetOnReceive(session, theirRatchetKey, ourNewRatchet) =
               SessionOf(session.localIdentity, session.remoteIdentity, sending, ourNewRatchet,
                         newChain(ourNewRatchet, sending),
                         IF Len(chains) > MAX_PREVIOUS_SESSIONS THEN Tail(chains) ELSE chains,
                         session.pendingPreKey)
<1> DEFINE receiving == deriveRootKey(session.rootKey, sharedKey(session.ourRatchetKey, theirRatchetKey))
           sending == deriveRootKey(receiving, sharedKey(ourNewRatchet, theirRatchetKey))
           all == Append(session.receiverChains, newChain(theirRatchetKey, receiving))
           chains == IF Len(all) > MAX_PREVIOUS_SESSIONS THEN Tail(all) ELSE all
           sender == newChain(ourNewRatchet, sending)
           first == [session EXCEPT !.receiverChains = chains]
           second == [first EXCEPT !.senderChain = sender]
           third == [second EXCEPT !.ourRatchetKey = ourNewRatchet]
           fourth == [third EXCEPT !.rootKey = sending]
<1>1. ratchetOnReceive(session, theirRatchetKey, ourNewRatchet) = fourth
  BY DEF ratchetOnReceive
<1>2. session = SessionOf(session.localIdentity, session.remoteIdentity, session.rootKey, session.ourRatchetKey,
                          session.senderChain, session.receiverChains, session.pendingPreKey)
  BY DEF GoodSession
<1> HIDE DEF sending, sender, chains
<1>3. first = SessionOf(session.localIdentity, session.remoteIdentity, session.rootKey, session.ourRatchetKey,
                        session.senderChain, chains, session.pendingPreKey)
  BY <1>2 DEF SessionOf
<1> HIDE DEF first
<1>4. second = SessionOf(session.localIdentity, session.remoteIdentity, session.rootKey, session.ourRatchetKey,
                         sender, chains, session.pendingPreKey)
  BY <1>3 DEF SessionOf
<1> HIDE DEF second
<1>5. third = SessionOf(session.localIdentity, session.remoteIdentity, session.rootKey, ourNewRatchet,
                        sender, chains, session.pendingPreKey)
  BY <1>4 DEF SessionOf
<1> HIDE DEF third
<1>6. fourth = SessionOf(session.localIdentity, session.remoteIdentity, sending, ourNewRatchet,
                         sender, chains, session.pendingPreKey)
  BY <1>5 DEF SessionOf
<1> HIDE DEF fourth
<1>7. QED
  BY <1>1, <1>6 DEF sending, sender, chains

\* It leaves a session in order, with a chain for their key, and sends on a new one.
LEMMA RatchetedInOrder ==
  ASSUME NEW session, GoodSession(session), NEW theirRatchetKey, NEW ourNewRatchet
  PROVE  LET ratcheted == ratchetOnReceive(session, theirRatchetKey, ourNewRatchet)
         IN  GoodSession(ratcheted) /\ ChainsFor(ratcheted, theirRatchetKey) # {}
<1> DEFINE receiving == deriveRootKey(session.rootKey, sharedKey(session.ourRatchetKey, theirRatchetKey))
           sending == deriveRootKey(receiving, sharedKey(ourNewRatchet, theirRatchetKey))
           new == newChain(theirRatchetKey, receiving)
           all == Append(session.receiverChains, new)
           chains == IF Len(all) > MAX_PREVIOUS_SESSIONS THEN Tail(all) ELSE all
           sender == newChain(ourNewRatchet, sending)
           ratcheted == ratchetOnReceive(session, theirRatchetKey, ourNewRatchet)
           n == Len(session.receiverChains)
<1>1. ratcheted = SessionOf(session.localIdentity, session.remoteIdentity, sending, ourNewRatchet, sender, chains,
                            session.pendingPreKey)
  BY RatchetedSession
<1>2. /\ n \in Nat /\ IsSeq(session.receiverChains)
      /\ \A i \in 1 .. n : InOrder(session.receiverChains[i])
  BY DEF GoodSession, IsSeq
<1>3. InOrder(new) /\ new.ratchetKey = theirRatchetKey
  BY NewChainInOrder
<1>4. InOrder(sender) /\ sender.ratchetKey = ourNewRatchet /\ sender.messageKeys = << >>
  BY NewChainInOrder
<1> HIDE DEF sending, sender, new, ratcheted
<1>5. /\ IsSeq(all) /\ Len(all) = n + 1 /\ \A i \in 1 .. n : all[i] = session.receiverChains[i]
      /\ all[n + 1] = new
  BY <1>2, AppendElements
<1> HIDE DEF all
<1>6. \A i \in 1 .. n + 1 : InOrder(all[i])
  BY <1>2, <1>3, <1>5
<1>7. /\ IsSeq(chains) /\ Len(chains) \in Nat \ {0}
      /\ \A i \in 1 .. Len(chains) : InOrder(chains[i])
      /\ chains[Len(chains)] = new
  <2>1. CASE Len(all) > MAX_PREVIOUS_SESSIONS
    <3>1. chains = Tail(all)
      BY <2>1
    <3>2. n >= 1 /\ Len(all) # 0
      BY <1>2, <1>5, <2>1, SessionsAssumption
    <3> DEFINE tail == Tail(all)
    <3>3. IsSeq(tail) /\ Len(tail) = n /\ \A i \in 1 .. n : tail[i] = all[i + 1]
      BY <1>2, <1>5, <3>2, TailElements
    <3> HIDE DEF tail
    <3>4. \A i \in 1 .. n : i + 1 \in 1 .. n + 1
      BY <1>2
    <3>5. tail[n] = new
      BY <1>2, <1>5, <3>2, <3>3
    <3>6. QED
      BY <1>2, <1>6, <3>1, <3>2, <3>3, <3>4, <3>5 DEF tail
  <2>2. CASE ~(Len(all) > MAX_PREVIOUS_SESSIONS)
    <3>1. chains = all
      BY <2>2
    <3> HIDE DEF chains
    <3>2. QED
      BY <1>2, <1>5, <1>6, <3>1
  <2>3. QED
    BY <2>1, <2>2
<1> HIDE DEF chains
<1>8. /\ ratcheted.localIdentity = session.localIdentity /\ ratcheted.remoteIdentity = session.remoteIdentity
      /\ ratcheted.rootKey = sending /\ ratcheted.ourRatchetKey = ourNewRatchet
      /\ ratcheted.senderChain = sender /\ ratcheted.receiverChains = chains
      /\ ratcheted.pendingPreKey = session.pendingPreKey
  BY <1>1 DEF SessionOf
<1>9. SendsInOrder(ratcheted)
  BY <1>4, <1>8 DEF SendsInOrder
<1>10. GoodSession(ratcheted)
  BY <1>1, <1>7, <1>8, <1>9 DEF GoodSession
<1>11. Len(chains) \in DOMAIN ratcheted.receiverChains /\ ratcheted.receiverChains[Len(chains)].ratchetKey = theirRatchetKey
  BY <1>3, <1>7, <1>8, SeqOfElements
<1>12. QED
  BY <1>10, <1>11 DEF ChainsFor, ratcheted

\* Replacing one entry of a sequence.
Replaced(s, k, e) == [s EXCEPT ![k] = e]

\* One element is replaced, the others stay.
LEMMA ReplacedElements ==
  ASSUME NEW s, IsSeq(s), NEW k \in 1 .. Len(s), NEW e
  PROVE  LET t == Replaced(s, k, e)
         IN  /\ IsSeq(t) /\ Len(t) = Len(s)
             /\ \A i \in 1 .. Len(s) : t[i] = IF i = k THEN e ELSE s[i]
<1> DEFINE S == {s[i] : i \in 1 .. Len(s)} \union {e}
           t == Replaced(s, k, e)
<1>1. s \in Seq({s[i] : i \in 1 .. Len(s)}) /\ Len(s) \in Nat /\ DOMAIN s = 1 .. Len(s)
  BY SeqOfElements DEF IsSeq
<1>2. \A i \in 1 .. Len(s) : t[i] = IF i = k THEN e ELSE s[i]
  BY <1>1 DEF Replaced
<1>3. t \in Seq(S) /\ Len(t) = Len(s)
  <2>1. s \in Seq(S) /\ e \in S
    BY <1>1
  <2> HIDE DEF S
  <2>2. QED
    BY <1>1, <2>1, ExceptSeq DEF Replaced
<1> HIDE DEF t, S
<1>4. QED
  BY <1>2, <1>3, SeqIsSeq DEF t

\* One receiving chain moves.
MovedChain(session, at, chain) == [session EXCEPT !.receiverChains[at] = chain]

\* A session with one receiver chain replaced by another in order.
LEMMA ChainMoved ==
  ASSUME NEW session, GoodSession(session), NEW at \in 1 .. Len(session.receiverChains), NEW chain, InOrder(chain)
  PROVE  /\ MovedChain(session, at, chain) =
              SessionOf(session.localIdentity, session.remoteIdentity, session.rootKey, session.ourRatchetKey,
                        session.senderChain, Replaced(session.receiverChains, at, chain), session.pendingPreKey)
         /\ GoodSession(MovedChain(session, at, chain))
<1> DEFINE moved == MovedChain(session, at, chain)
           chains == Replaced(session.receiverChains, at, chain)
<1>1. session = SessionOf(session.localIdentity, session.remoteIdentity, session.rootKey, session.ourRatchetKey,
                          session.senderChain, session.receiverChains, session.pendingPreKey)
  BY DEF GoodSession
<1>2. moved = [session EXCEPT !.receiverChains = chains]
  BY DEF MovedChain, Replaced
<1> HIDE DEF moved, chains
<1>3. moved = SessionOf(session.localIdentity, session.remoteIdentity, session.rootKey, session.ourRatchetKey,
                        session.senderChain, chains, session.pendingPreKey)
  BY <1>1, <1>2 DEF SessionOf
<1>4. /\ moved.localIdentity = session.localIdentity /\ moved.remoteIdentity = session.remoteIdentity
      /\ moved.rootKey = session.rootKey /\ moved.ourRatchetKey = session.ourRatchetKey
      /\ moved.senderChain = session.senderChain /\ moved.receiverChains = chains
      /\ moved.pendingPreKey = session.pendingPreKey
  BY <1>3 DEF SessionOf
<1>5. /\ IsSeq(chains) /\ Len(chains) = Len(session.receiverChains)
      /\ \A i \in 1 .. Len(session.receiverChains) : chains[i] = IF i = at THEN chain ELSE session.receiverChains[i]
  BY ReplacedElements DEF GoodSession, chains
<1>6. \A i \in 1 .. Len(chains) : InOrder(chains[i])
  BY <1>5 DEF GoodSession
<1>7. session.senderChain = None \/ SendsInOrder(moved)
  BY <1>4 DEF GoodSession, SendsInOrder
<1>8. GoodSession(moved)
  BY <1>3, <1>4, <1>5, <1>6, <1>7 DEF GoodSession
<1>9. QED
  BY <1>3, <1>8 DEF moved, chains

\* The answer has come.
LEMMA PendingAnswered ==
  ASSUME NEW session, GoodSession(session)
  PROVE  LET answered == [session EXCEPT !.pendingPreKey = None]
         IN  /\ answered = SessionOf(session.localIdentity, session.remoteIdentity, session.rootKey,
                                     session.ourRatchetKey, session.senderChain, session.receiverChains, None)
             /\ GoodSession(answered)
<1> DEFINE answered == [session EXCEPT !.pendingPreKey = None]
<1>1. session = SessionOf(session.localIdentity, session.remoteIdentity, session.rootKey, session.ourRatchetKey,
                          session.senderChain, session.receiverChains, session.pendingPreKey)
  BY DEF GoodSession
<1>2. answered = SessionOf(session.localIdentity, session.remoteIdentity, session.rootKey, session.ourRatchetKey,
                           session.senderChain, session.receiverChains, None)
  BY <1>1 DEF SessionOf
<1> HIDE DEF answered
<1>3. /\ answered.localIdentity = session.localIdentity /\ answered.remoteIdentity = session.remoteIdentity
      /\ answered.rootKey = session.rootKey /\ answered.ourRatchetKey = session.ourRatchetKey
      /\ answered.senderChain = session.senderChain /\ answered.receiverChains = session.receiverChains
      /\ answered.pendingPreKey = None
  BY <1>2 DEF SessionOf
<1>4. GoodSession(answered)
  BY <1>2, <1>3 DEF GoodSession, SendsInOrder
<1>5. QED
  BY <1>2, <1>4 DEF answered

\* The session an attempt decrypts with: ratcheted if it has no chain for the key.
Ready(session, message, ourNewRatchet) ==
  IF ChainsFor(session, message.ratchetKey) # {} THEN session
  ELSE ratchetOnReceive(session, message.ratchetKey, ourNewRatchet)

\* A ready session is in order and has a chain for the key.
LEMMA ReadyInOrder ==
  ASSUME NEW session, GoodSession(session), NEW message, NEW ourNewRatchet
  PROVE  /\ GoodSession(Ready(session, message, ourNewRatchet))
         /\ ChainsFor(Ready(session, message, ourNewRatchet), message.ratchetKey) # {}
  BY RatchetedInOrder DEF Ready

\* The session with one key given and the answer noted.
Opened(session, at, chain) == [MovedChain(session, at, chain) EXCEPT !.pendingPreKey = None]

\* An attempt leaves a session in order; one that opens the message has taken its
\* key out of a chain of the ready session.
LEMMA Attempted ==
  ASSUME NEW session, GoodSession(session), NEW message, message.counter \in Nat, NEW ourNewRatchet
  PROVE  LET attempt == decryptWithSession(session, message, ourNewRatchet)
             ready == Ready(session, message, ourNewRatchet)
         IN  /\ GoodSession(attempt.session)
             /\ attempt.ok =>
                  \E at \in ChainsFor(ready, message.ratchetKey) :
                    \E given \in messageKeysForCounter(ready.receiverChains[at], message.counter) :
                      /\ Authentic(message, given.keys, session)
                      /\ attempt.session = Opened(ready, at, given.chain)
<1> DEFINE attempt == decryptWithSession(session, message, ourNewRatchet)
           ready == Ready(session, message, ourNewRatchet)
           at == CHOOSE i \in ChainsFor(ready, message.ratchetKey) : TRUE
           found == messageKeysForCounter(ready.receiverChains[at], message.counter)
           given == CHOOSE outcome \in found : TRUE
<1>1. attempt = IF found = {} THEN [ok |-> FALSE, session |-> ready]
                ELSE IF ~Authentic(message, given.keys, session)
                     THEN [ok |-> FALSE, session |-> MovedChain(ready, at, given.chain)]
                     ELSE [ok |-> TRUE, session |-> Opened(ready, at, given.chain)]
  BY DEF decryptWithSession, Ready, MovedChain, Opened
<1>2. GoodSession(ready) /\ ChainsFor(ready, message.ratchetKey) # {}
  BY ReadyInOrder
<1> HIDE DEF attempt, ready
<1>3. at \in ChainsFor(ready, message.ratchetKey)
  BY <1>2
<1> HIDE DEF at
<1>4. at \in 1 .. Len(ready.receiverChains)
  BY <1>2, <1>3, SeqOfElements DEF GoodSession, ChainsFor
<1>5. InOrder(ready.receiverChains[at])
  BY <1>2, <1>4 DEF GoodSession
<1>6. CASE found = {}
  BY <1>1, <1>2, <1>6 DEF attempt, ready
<1>7. CASE found # {}
  <2>1. given \in found
    BY <1>7
  <2> HIDE DEF given
  <2>2. InOrder(given.chain)
    BY <1>5, <2>1, Answered
  <2>3. GoodSession(MovedChain(ready, at, given.chain))
    BY <1>2, <1>4, <2>2, ChainMoved
  <2>4. GoodSession(Opened(ready, at, given.chain))
    BY <2>3, PendingAnswered DEF Opened
  <2>5. CASE ~Authentic(message, given.keys, session)
    <3>1. attempt = [ok |-> FALSE, session |-> MovedChain(ready, at, given.chain)]
      BY <1>1, <1>7, <2>5
    <3>2. QED
      BY <2>3, <3>1 DEF attempt
  <2>6. CASE Authentic(message, given.keys, session)
    <3>1. attempt = [ok |-> TRUE, session |-> Opened(ready, at, given.chain)]
      BY <1>1, <1>7, <2>6
    <3>2. attempt.session = Opened(ready, at, given.chain)
      BY <3>1
    <3>3. QED
      BY <1>3, <2>1, <2>4, <2>6, <3>2 DEF attempt, ready
  <2>7. QED
    BY <2>5, <2>6
<1>8. QED
  BY <1>6, <1>7

\* The least of a set of counters.
LEMMA LeastElement ==
  ASSUME NEW S, S \subseteq Nat, S # {}
  PROVE  Min(S) \in S /\ \A y \in S : Min(S) <= y
<1>1. PICK x \in S : \A y \in S : ~(<<y, x>> \in OpToRel(<, Nat))
  BY NatLessThanWellFounded, WFMin
<1>2. \A y \in S : x <= y
  <2>1. TAKE y \in S
  <2>2. ~(y < x)
    BY <1>1 DEF OpToRel
  <2>3. QED
    BY <2>2
<1>3. QED
  BY <1>1, <1>2 DEF Min

\* What decryptSignalMessage leaves, when a session opens the message.
AfterTrials(record, message, fresh, first) ==
  [i \in DOMAIN SessionsOf(record) |->
     IF i <= first THEN decryptWithSession(SessionsOf(record)[i], message, fresh[i]).session ELSE SessionsOf(record)[i]]

\* Every session but the one that opens the message is one whose attempt failed, or one not tried.
LEMMA Trials ==
  ASSUME NEW record, GoodRecord(record), NEW message, message.counter \in Nat, NEW fresh,
         NEW left \in decryptSignalMessage(record, message, fresh)
  PROVE  /\ GoodRecord(left)
         /\ \E first \in 1 .. Len(SessionsOf(record)) :
              LET sessions == SessionsOf(record)
                  after == AfterTrials(record, message, fresh, first)
                  tried == RecordOf(Head(after), Tail(after))
              IN  /\ decryptWithSession(sessions[first], message, fresh[first]).ok
                  /\ \A i \in 1 .. first - 1 : ~decryptWithSession(sessions[i], message, fresh[i]).ok
                  /\ left = IF first = 1 THEN tried ELSE promoteSession(tried, after[first])
<1> DEFINE sessions == SessionsOf(record)
           n == Len(sessions)
           attempt == [i \in DOMAIN sessions |-> decryptWithSession(sessions[i], message, fresh[i])]
           opened == {i \in DOMAIN sessions : attempt[i].ok}
           first == Min(opened)
           after == [i \in DOMAIN sessions |-> IF i <= first THEN attempt[i].session ELSE sessions[i]]
           tried == RecordOf(Head(after), Tail(after))
<1>1. opened # {} /\ left = IF first = 1 THEN tried ELSE promoteSession(tried, after[first])
  BY DEF decryptSignalMessage, RecordOf
<1>2. n \in Nat /\ DOMAIN sessions = 1 .. n /\ \A i \in 1 .. n : GoodSession(sessions[i])
  BY SessionsInOrder, SeqOfElements DEF GoodSessions, IsSeq
<1> HIDE DEF sessions, n
<1>3. \A i \in 1 .. n : attempt[i] = decryptWithSession(sessions[i], message, fresh[i])
  BY <1>2
<1>4. \A i \in 1 .. n : GoodSession(attempt[i].session)
  BY <1>2, <1>3, Attempted
<1>5. opened \subseteq Nat
  BY <1>2
<1>6. first \in opened /\ \A y \in opened : first <= y
  BY <1>1, <1>5, LeastElement
<1> HIDE DEF first
<1>7. first \in 1 .. n /\ attempt[first].ok /\ \A i \in 1 .. first - 1 : ~attempt[i].ok
  BY <1>2, <1>6
<1> HIDE DEF attempt
<1>8. after = AfterTrials(record, message, fresh, first)
  BY <1>2, <1>3 DEF AfterTrials, sessions
<1>9. /\ IsSeq(after) /\ Len(after) = n
      /\ \A i \in 1 .. n : after[i] = IF i <= first THEN attempt[i].session ELSE sessions[i]
  <2> DEFINE e(i) == IF i <= first THEN attempt[i].session ELSE sessions[i]
             S == {e(i) : i \in 1 .. n}
  <2>1. after = [i \in 1 .. n |-> e(i)]
    BY <1>2
  <2> HIDE DEF after, e
  <2>2. after \in [1 .. n -> S] /\ \A i \in 1 .. n : after[i] = e(i)
    BY <2>1
  <2> HIDE DEF S
  <2>3. after \in Seq(S) /\ Len(after) = n
    BY <1>2, <2>2
  <2>4. QED
    BY <2>2, <2>3, SeqIsSeq DEF e
<1> HIDE DEF after
<1>10. \A i \in 1 .. n : GoodSession(after[i])
  BY <1>2, <1>4, <1>9
<1>11. GoodRecord(tried)
  <2> DEFINE tail == Tail(after)
  <2>1. n # 0
    BY <1>2, <1>7
  <2>2. IsSeq(tail) /\ Len(tail) = n - 1 /\ Head(after) = after[1] /\ \A i \in 1 .. n - 1 : tail[i] = after[i + 1]
    BY <1>9, <2>1, TailElements
  <2>3. 1 \in 1 .. n /\ \A i \in 1 .. n - 1 : i + 1 \in 1 .. n
    BY <1>2, <2>1
  <2>4. GoodSession(Head(after)) /\ \A i \in 1 .. Len(tail) : GoodSession(tail[i])
    BY <1>10, <2>2, <2>3
  <2>5. tried.currentSession = Head(after) /\ tried.previousSessions = tail /\ tried = RecordOf(Head(after), tail)
    BY DEF RecordOf
  <2> HIDE DEF tail, tried
  <2>6. QED
    BY <2>2, <2>4, <2>5 DEF GoodRecord, GoodSessions
<1> HIDE DEF tried
<1>12. GoodRecord(left)
  BY <1>1, <1>7, <1>10, <1>11, PromotedInOrder
<1>13. QED
  BY <1>1, <1>2, <1>3, <1>7, <1>8, <1>12 DEF sessions, n, tried

\* And a message that starts a session.
LEMMA RecordToDecryptWith ==
  ASSUME NEW record, GoodRecord(record), NEW message, NEW ctx
  PROVE  GoodRecord(RecordForPreKeyMessage(record, message, ctx))
<1> DEFINE data == message.preKeyData
           incoming == createIncomingSession(ctx, data.identityKey, data.pending.baseKey)
<1>1. \/ RecordForPreKeyMessage(record, message, ctx) = record
      \/ RecordForPreKeyMessage(record, message, ctx) = promoteSession(record, incoming)
  BY DEF RecordForPreKeyMessage
<1>2. GoodSession(incoming)
  BY IncomingInOrder
<1> HIDE DEF incoming
<1>3. QED
  BY <1>1, <1>2, PromotedInOrder

\* Encrypting turns the sending chain of the current session by one.
LEMMA SendingChainTurned ==
  ASSUME NEW record, GoodRecord(record), CanEncrypt(record)
  PROVE  LET session == record.currentSession
             chain == session.senderChain
         IN  /\ GoodSession(session) /\ SendsInOrder(session)
             /\ AfterEncrypt(record) =
                  RecordOf(SessionOf(session.localIdentity, session.remoteIdentity, session.rootKey,
                                     session.ourRatchetKey,
                                     ChainOf(chain.ratchetKey, SeedOf(chain), chain.chainKey.index + 1, << >>),
                                     session.receiverChains, session.pendingPreKey),
                           record.previousSessions)
             /\ GoodRecord(AfterEncrypt(record))
<1> DEFINE session == record.currentSession
           chain == session.senderChain
           n == chain.chainKey.index
           seed == SeedOf(chain)
           next == nextChainKey(chain.chainKey)
           turned == [chain EXCEPT !.chainKey = next]
           moved == [session EXCEPT !.senderChain = turned]
           left == [record EXCEPT !.currentSession = moved]
<1>1. AfterEncrypt(record) = left
  BY DEF AfterEncrypt
<1>2. record = RecordOf(session, record.previousSessions) /\ GoodSession(session) /\ GoodSessions(record.previousSessions)
  BY DEF GoodRecord, CanEncrypt
<1>3. SendsInOrder(session)
  BY <1>2 DEF CanEncrypt, GoodSession
<1>4. /\ chain = ChainOf(chain.ratchetKey, seed, n, << >>) /\ n \in Nat
      /\ chain.ratchetKey = session.ourRatchetKey
  BY <1>3 DEF SendsInOrder, InOrder
<1>5. session = SessionOf(session.localIdentity, session.remoteIdentity, session.rootKey, session.ourRatchetKey,
                          chain, session.receiverChains, session.pendingPreKey)
  BY <1>2 DEF GoodSession
<1>6. next = [key |-> Key(seed, n + 1), index |-> n + 1]
  <2>1. chain.chainKey = [key |-> Key(seed, n), index |-> n]
    BY <1>4 DEF ChainOf
  <2> HIDE DEF n, seed, chain
  <2>2. QED
    BY <2>1 DEF nextChainKey, turnChainKey, Key
<1> HIDE DEF next, n, seed
<1>7. turned = ChainOf(chain.ratchetKey, seed, n + 1, << >>)
  BY <1>4, <1>6 DEF ChainOf
<1> HIDE DEF turned, chain
<1>8. moved = SessionOf(session.localIdentity, session.remoteIdentity, session.rootKey, session.ourRatchetKey,
                        turned, session.receiverChains, session.pendingPreKey)
  BY <1>5 DEF SessionOf
<1> HIDE DEF moved, session
<1>9. left = RecordOf(moved, record.previousSessions)
  BY <1>2 DEF RecordOf
<1>10. /\ turned.ratchetKey = chain.ratchetKey /\ turned.messageKeys = << >> /\ SeedOf(turned) = seed
       /\ turned.chainKey.index = n + 1
  BY <1>7 DEF ChainOf, SeedOf, Key
<1>11. InOrder(turned)
  <2>1. Ascending(<< >>, seed, n + 1)
    BY DEF Ascending, IsSeq
  <2>2. QED
    BY <1>4, <1>7, <1>10, <2>1 DEF InOrder
<1>12. /\ moved.localIdentity = session.localIdentity /\ moved.remoteIdentity = session.remoteIdentity
       /\ moved.rootKey = session.rootKey /\ moved.ourRatchetKey = session.ourRatchetKey
       /\ moved.senderChain = turned /\ moved.receiverChains = session.receiverChains
       /\ moved.pendingPreKey = session.pendingPreKey
  BY <1>8 DEF SessionOf
<1>13. SendsInOrder(moved)
  BY <1>4, <1>10, <1>11, <1>12 DEF SendsInOrder
<1>14. GoodSession(moved)
  BY <1>2, <1>8, <1>12, <1>13 DEF GoodSession
<1> HIDE DEF left
<1>15. GoodRecord(left)
  BY <1>2, <1>9, <1>14 DEF GoodRecord, RecordOf
<1>16. QED
  BY <1>1, <1>2, <1>3, <1>7, <1>8, <1>9, <1>15 DEF session, chain, seed, n

\* The counter of what is sealed is the place of its key in the chain.
LEMMA SealedInOrder ==
  ASSUME NEW record, GoodRecord(record), CanEncrypt(record), NEW body
  PROVE  LET session == record.currentSession
             chain == session.senderChain
             signal == encrypt(record, body)
         IN  /\ signal = [ratchetKey |-> session.ourRatchetKey, counter |-> chain.chainKey.index,
                          mac |-> [key |-> Key(SeedOf(chain), chain.chainKey.index), sender |-> session.localIdentity,
                                   receiver |-> session.remoteIdentity],
                          body |-> body,
                          preKeyData |-> IF session.pendingPreKey = None THEN None
                                         ELSE [pending |-> session.pendingPreKey, identityKey |-> session.localIdentity]]
             /\ signal.counter \in Nat
<1> DEFINE session == record.currentSession
           chain == session.senderChain
<1>1. SendsInOrder(session)
  BY SendingChainTurned
<1> HIDE DEF session
<1>2. /\ chain = ChainOf(chain.ratchetKey, SeedOf(chain), chain.chainKey.index, << >>) /\ chain.chainKey.index \in Nat
      /\ chain.ratchetKey = session.ourRatchetKey
  BY <1>1 DEF SendsInOrder, InOrder
<1>3. chain.chainKey.key = Key(SeedOf(chain), chain.chainKey.index)
  BY <1>2 DEF ChainOf
<1>4. deriveMessageKeys(chain.chainKey).index = chain.chainKey.index
      /\ deriveMessageKeys(chain.chainKey).material = Key(SeedOf(chain), chain.chainKey.index)
  BY <1>3 DEF deriveMessageKeys
<1>5. QED
  BY <1>2, <1>4 DEF encrypt, session

----------------------------------------------------------------------------
(* The repository.                                                         *)

\* An operation holds a record in order, and decrypts what has been sealed.
GoodOp(op) ==
  /\ op.kind \in {"open", "encrypt", "decrypt"}
  /\ op = IF op.kind = "decrypt"
          THEN [kind |-> op.kind, step |-> op.step, input |-> op.input, ctx |-> op.ctx, record |-> op.record]
          ELSE [kind |-> op.kind, step |-> op.step, input |-> op.input, record |-> op.record]
  /\ GoodRecord(op.record)
  /\ op.kind = "encrypt" => CanEncrypt(op.record)
  /\ op.kind = "decrypt" => op.input.counter \in Nat

ByDevice(held) == held = [d \in Device |-> [s \in Slots |-> held[d][s]]]
WithOp(held, d, s, op) == [held EXCEPT ![d][s] = op]

OpsByDevice == ByDevice(ops)
RecordsByDevice == records = [d \in Device |-> records[d]]

StoredInOrder == RecordsByDevice /\ \A d \in Device : GoodRecord(records[d])
HeldInOrder   == OpsByDevice /\ \A d \in Device, s \in Slots : ops[d][s] # None => GoodOp(ops[d][s])
SealedWell    == \A m \in sent : m.signal.counter \in Nat

RecordsInOrder == StoredInOrder /\ HeldInOrder /\ SealedWell

\* One slot changes.
LEMMA SlotChanged ==
  ASSUME NEW held, ByDevice(held), NEW d \in Device, NEW s \in Slots, NEW op, NEW left, left = WithOp(held, d, s, op)
  PROVE  /\ ByDevice(left)
         /\ left[d][s] = op
         /\ \A e \in Device, t \in Slots : (e # d \/ t # s) => left[e][t] = held[e][t]
<1> DEFINE row == [held[d] EXCEPT ![s] = op]
<1>1. left = [held EXCEPT ![d] = row]
  BY DEF WithOp
<1>0. held = [e \in Device |-> [t \in Slots |-> held[e][t]]]
  BY DEF ByDevice
<1>2. \A e \in Device : held[e] = [t \in Slots |-> held[e][t]]
  BY <1>0
<1>3. /\ row = [t \in Slots |-> row[t]] /\ row[s] = op /\ \A t \in Slots : t # s => row[t] = held[d][t]
  BY <1>2
<1> HIDE DEF row
<1>4. left = [e \in Device |-> IF e = d THEN row ELSE held[e]]
  BY <1>0, <1>1
<1>5. left[d] = row /\ \A e \in Device : e # d => left[e] = held[e]
  BY <1>4
<1>6. \A e \in Device : left[e] = [t \in Slots |-> left[e][t]]
  <2>1. TAKE e \in Device
  <2>2. CASE e = d
    BY <1>3, <1>5, <2>2
  <2>3. CASE e # d
    BY <1>2, <1>5, <2>3
  <2>4. QED
    BY <2>2, <2>3
<1>7. left = [e \in Device |-> left[e]]
  BY <1>4
<1>8. left = [e \in Device |-> [t \in Slots |-> left[e][t]]]
  BY <1>6, <1>7
<1>9. QED
  BY <1>3, <1>5, <1>8 DEF ByDevice

\* The step of an operation changes.
LEMMA StepChanged ==
  ASSUME NEW op, GoodOp(op), NEW step
  PROVE  LET on == [op EXCEPT !.step = step]
         IN  /\ GoodOp(on) /\ on.step = step /\ on.kind = op.kind /\ on.input = op.input /\ on.record = op.record
             /\ op.kind = "decrypt" => on.ctx = op.ctx
  BY DEF GoodOp

\* What Begin leaves of the other operations.
LEMMA Began ==
  ASSUME OpsByDevice, NEW d \in Device, NEW s \in Slots, NEW op, Begin(d, s, op)
  PROVE  OpsByDevice' /\ ops'[d][s] = op /\ \A e \in Device, t \in Slots : (e # d \/ t # s) => ops'[e][t] = ops[e][t]
<1>1. ops' = WithOp(ops, d, s, op)
  BY DEF Begin, WithOp
<1>2. QED
  BY <1>1, SlotChanged DEF OpsByDevice

\* What Finish leaves of them.
LEMMA Finished ==
  ASSUME OpsByDevice, NEW d \in Device, NEW s \in Slots, Finish(d, s)
  PROVE  OpsByDevice' /\ ops'[d][s] = None /\ \A e \in Device, t \in Slots : (e # d \/ t # s) => ops'[e][t] = ops[e][t]
<1>1. ops' = WithOp(ops, d, s, None)
  BY DEF Finish, WithOp
<1>2. QED
  BY <1>1, SlotChanged DEF OpsByDevice

\* What Goto leaves of them.
LEMMA WentOn ==
  ASSUME OpsByDevice, NEW d \in Device, NEW s \in Slots, GoodOp(ops[d][s]), NEW step, Goto(d, s, step)
  PROVE  /\ OpsByDevice'
         /\ GoodOp(ops[d][s])'
         /\ ops'[d][s].step = step /\ ops'[d][s].kind = ops[d][s].kind /\ ops'[d][s].input = ops[d][s].input
         /\ ops'[d][s].record = ops[d][s].record /\ (ops[d][s].kind = "decrypt" => ops'[d][s].ctx = ops[d][s].ctx)
         /\ \A e \in Device, t \in Slots : (e # d \/ t # s) => ops'[e][t] = ops[e][t]
<1> DEFINE on == [ops[d][s] EXCEPT !.step = step]
<1>1. ops' = WithOp(ops, d, s, on)
  BY DEF Goto, WithOp
<1>2. /\ GoodOp(on) /\ on.step = step /\ on.kind = ops[d][s].kind /\ on.input = ops[d][s].input
      /\ on.record = ops[d][s].record /\ (ops[d][s].kind = "decrypt" => on.ctx = ops[d][s].ctx)
  BY StepChanged
<1> HIDE DEF on
<1>3. OpsByDevice' /\ ops'[d][s] = on /\ \A e \in Device, t \in Slots : (e # d \/ t # s) => ops'[e][t] = ops[e][t]
  BY <1>1, SlotChanged DEF OpsByDevice
<1>4. QED
  BY <1>2, <1>3

\* Saving loses nothing.
LEMMA Saved ==
  ASSUME RecordsByDevice, NEW d \in Device, NEW record, GoodRecord(record), saveRecord(d, record)
  PROVE  RecordsByDevice' /\ records'[d] = record /\ \A e \in Device : e # d => records'[e] = records[e]
<1>1. records' = [records EXCEPT ![d] = record]
  BY RecordSurvives DEF saveRecord
<1>2. QED
  BY <1>1 DEF RecordsByDevice

\* What decrypting can leave.
LEMMA DecryptedInOrder ==
  ASSUME NEW d \in Device, NEW op, GoodOp(op), op.kind = "decrypt", NEW record \in Decrypted(d, op)
  PROVE  GoodRecord(record)
<1>1. GoodRecord(op.record) /\ op.input.counter \in Nat
  BY DEF GoodOp
<1>2. \/ record \in decryptSignalMessage(op.record, op.input, FreshPairs(d))
      \/ record \in decryptSignalMessage(RecordForPreKeyMessage(op.record, op.input, op.ctx), op.input, FreshPairs(d))
  BY DEF Decrypted, decryptPreKeyMessage
<1>3. GoodRecord(RecordForPreKeyMessage(op.record, op.input, op.ctx))
  BY <1>1, RecordToDecryptWith
<1>4. QED
  BY <1>1, <1>2, <1>3, Trials

\* The records in the store, those held by operations and the messages under way
\* stay in order, whatever interleaves.
LEMMA StepKeepsRecordsInOrder ==
  ASSUME RecordsInOrder, NEW d \in Device, NEW s \in Slots, Step(d, s)
  PROVE  RecordsInOrder'
<1>1. /\ RecordsByDevice /\ OpsByDevice /\ SealedWell
      /\ \A e \in Device : GoodRecord(records[e])
      /\ \A e \in Device, t \in Slots : ops[e][t] # None => GoodOp(ops[e][t])
  BY DEF RecordsInOrder, StoredInOrder, HeldInOrder
<1>2. CASE StartOpen(d, s)
  <2>1. PICK input : Begin(d, s, [kind |-> "open", step |-> "save", input |-> input, record |-> records[d]])
    BY <1>2 DEF StartOpen
  <2>2. GoodOp([kind |-> "open", step |-> "save", input |-> input, record |-> records[d]])
    BY <1>1 DEF GoodOp
  <2>3. HeldInOrder'
    BY <1>1, <2>1, <2>2, Began DEF HeldInOrder
  <2>4. records' = records /\ sent' = sent
    BY <1>2 DEF StartOpen
  <2>5. QED
    BY <1>1, <2>3, <2>4 DEF RecordsInOrder, StoredInOrder, RecordsByDevice, SealedWell
<1>3. CASE Open(d, s)
  <2> DEFINE session == createOutgoingSession(identityKey(d), ops[d][s].input, Fresh(d, 1), Fresh(d, 2))
  <2>1. GoodOp(ops[d][s]) /\ saveRecord(d, promoteSession(ops[d][s].record, session)) /\ Finish(d, s) /\ sent' = sent
    BY <1>1, <1>3 DEF Open, Awaits
  <2>2. GoodSession(session)
    BY OutgoingInOrder
  <2> HIDE DEF session
  <2>3. GoodRecord(promoteSession(ops[d][s].record, session))
    BY <2>1, <2>2, PromotedInOrder DEF GoodOp
  <2>4. StoredInOrder'
    BY <1>1, <2>1, <2>3, Saved DEF StoredInOrder
  <2>5. HeldInOrder'
    BY <1>1, <2>1, Finished DEF HeldInOrder
  <2>6. QED
    BY <1>1, <2>1, <2>4, <2>5 DEF RecordsInOrder, SealedWell
<1>4. CASE StartEncrypt(d, s)
  <2> DEFINE op == [kind |-> "encrypt", step |-> "save", input |-> bodies + 1, record |-> records[d]]
  <2>1. Begin(d, s, op) /\ records' = records /\ sent' = sent /\ CanEncrypt(records[d])
    BY <1>4 DEF StartEncrypt
  <2>2. GoodOp(op)
    BY <1>1, <2>1 DEF GoodOp
  <2> HIDE DEF op
  <2>3. HeldInOrder'
    BY <1>1, <2>1, <2>2, Began DEF HeldInOrder
  <2>4. QED
    BY <1>1, <2>1, <2>3 DEF RecordsInOrder, StoredInOrder, RecordsByDevice, SealedWell
<1>5. CASE Encrypt(d, s)
  <2>1. /\ GoodOp(ops[d][s]) /\ ops[d][s].kind = "encrypt" /\ saveRecord(d, AfterEncrypt(ops[d][s].record))
        /\ Goto(d, s, "return") /\ sent' = sent
    BY <1>1, <1>5 DEF Encrypt, Awaits
  <2>2. GoodRecord(AfterEncrypt(ops[d][s].record))
    BY <2>1, SendingChainTurned DEF GoodOp
  <2>3. StoredInOrder'
    BY <1>1, <2>1, <2>2, Saved DEF StoredInOrder
  <2>4. HeldInOrder'
    BY <1>1, <2>1, WentOn DEF HeldInOrder
  <2>5. QED
    BY <1>1, <2>1, <2>3, <2>4 DEF RecordsInOrder, SealedWell
<1>6. CASE ReturnCiphertext(d, s)
  <2> DEFINE signal == encrypt(ops[d][s].record, ops[d][s].input)
             message == [to |-> Peer(d), signal |-> signal]
  <2>1. /\ GoodOp(ops[d][s]) /\ ops[d][s].kind = "encrypt" /\ Finish(d, s)
        /\ sent' = sent \union {message} /\ records' = records
    BY <1>1, <1>6 DEF ReturnCiphertext, Awaits
  <2>2. signal.counter \in Nat
    BY <2>1, SealedInOrder DEF GoodOp
  <2> HIDE DEF signal
  <2>3. message.signal.counter \in Nat
    BY <2>2
  <2> HIDE DEF message
  <2>4. SealedWell'
    BY <1>1, <2>1, <2>3 DEF SealedWell
  <2>5. HeldInOrder'
    BY <1>1, <2>1, Finished DEF HeldInOrder
  <2>6. QED
    BY <1>1, <2>1, <2>4, <2>5 DEF RecordsInOrder, StoredInOrder, RecordsByDevice
<1>7. CASE \E message \in sent : StartDecrypt(d, s, message)
  <2>1. PICK message \in sent : StartDecrypt(d, s, message)
    BY <1>7
  <2> DEFINE op == [kind |-> "decrypt", step |-> IF message.signal.preKeyData = None THEN "save" ELSE "resolve",
                    input |-> message.signal, ctx |-> None, record |-> records[d]]
  <2>2. Begin(d, s, op) /\ records' = records /\ sent' = sent
    BY <2>1 DEF StartDecrypt
  <2>3. message.signal.counter \in Nat
    BY <1>1 DEF SealedWell
  <2>4. GoodOp(op)
    BY <1>1, <2>3 DEF GoodOp
  <2> HIDE DEF op
  <2>5. HeldInOrder'
    BY <1>1, <2>2, <2>4, Began DEF HeldInOrder
  <2>6. QED
    BY <1>1, <2>2, <2>5 DEF RecordsInOrder, StoredInOrder, RecordsByDevice, SealedWell
<1>8. CASE ResolveKeys(d, s)
  <2>1. /\ GoodOp(ops[d][s]) /\ ops[d][s].kind = "decrypt" /\ records' = records /\ sent' = sent
        /\ ops' = WithOp(ops, d, s, Resolved(d, ops[d][s])) \/ Finish(d, s)
    BY <1>1, <1>8 DEF ResolveKeys, Awaits, WithOp
  <2>2. GoodOp(Resolved(d, ops[d][s]))
    BY <2>1 DEF GoodOp, Resolved
  <2>3. CASE ops' = WithOp(ops, d, s, Resolved(d, ops[d][s]))
    <3> DEFINE op == Resolved(d, ops[d][s])
    <3> HIDE DEF op
    <3>1. ops' = WithOp(ops, d, s, op)
      BY <2>3 DEF op
    <3>2. OpsByDevice' /\ ops'[d][s] = op /\ \A e \in Device, t \in Slots : (e # d \/ t # s) => ops'[e][t] = ops[e][t]
      BY <1>1, <3>1, SlotChanged DEF OpsByDevice
    <3>3. HeldInOrder'
      BY <1>1, <2>2, <3>2 DEF HeldInOrder, op
    <3>4. QED
      BY <1>1, <2>1, <3>3 DEF RecordsInOrder, StoredInOrder, RecordsByDevice, SealedWell
  <2>4. CASE Finish(d, s)
    <3>1. HeldInOrder'
      BY <1>1, <2>4, Finished DEF HeldInOrder
    <3>2. QED
      BY <1>1, <2>1, <3>1 DEF RecordsInOrder, StoredInOrder, RecordsByDevice, SealedWell
  <2>5. QED
    BY <2>1, <2>3, <2>4
<1>9. CASE Decrypt(d, s)
  <2> DEFINE step == IF ops[d][s].ctx # None /\ ops[d][s].ctx.preKey # None THEN "delete" ELSE "return"
  <2>1. Goto(d, s, step) /\ \E record \in Decrypted(d, ops[d][s]) : saveRecord(d, record)
    BY <1>9 DEF Decrypt
  <2> HIDE DEF step
  <2>0. PICK record \in Decrypted(d, ops[d][s]) : saveRecord(d, record)
    BY <2>1
  <2>2. GoodOp(ops[d][s]) /\ ops[d][s].kind = "decrypt" /\ sent' = sent
    BY <1>1, <1>9 DEF Decrypt, Awaits
  <2>3. GoodRecord(record)
    BY <2>0, <2>2, DecryptedInOrder
  <2>4. StoredInOrder'
    BY <1>1, <2>0, <2>3, Saved DEF StoredInOrder
  <2>5. HeldInOrder'
    BY <1>1, <2>1, <2>2, WentOn DEF HeldInOrder
  <2>6. QED
    BY <1>1, <2>2, <2>4, <2>5 DEF RecordsInOrder, SealedWell
<1>10. CASE DecryptFails(d, s) \/ ReturnPlaintext(d, s)
  <2>1. Finish(d, s) /\ records' = records /\ sent' = sent
    BY <1>10 DEF DecryptFails, ReturnPlaintext
  <2>2. HeldInOrder'
    BY <1>1, <2>1, Finished DEF HeldInOrder
  <2>3. QED
    BY <1>1, <2>1, <2>2 DEF RecordsInOrder, StoredInOrder, RecordsByDevice, SealedWell
<1>11. CASE DeletePreKey(d, s)
  <2>1. Goto(d, s, "return") /\ GoodOp(ops[d][s]) /\ records' = records /\ sent' = sent
    BY <1>1, <1>11 DEF DeletePreKey, Awaits
  <2>2. HeldInOrder'
    BY <1>1, <2>1, WentOn DEF HeldInOrder
  <2>3. QED
    BY <1>1, <2>1, <2>2 DEF RecordsInOrder, StoredInOrder, RecordsByDevice, SealedWell
<1>12. QED
  BY <1>2, <1>3, <1>4, <1>5, <1>6, <1>7, <1>8, <1>9, <1>10, <1>11 DEF Step

\* In every behaviour.
LEMMA RecordsStayInOrder == Spec => []RecordsInOrder
<1>1. Init => RecordsInOrder
  <2>1. SUFFICES ASSUME Init PROVE RecordsInOrder
    OBVIOUS
  <2>2. GoodRecord(createSessionRecord)
    <3>1. createSessionRecord = RecordOf(None, << >>)
      BY DEF createSessionRecord, RecordOf
    <3>2. GoodSessions(<< >>)
      BY DEF GoodSessions, IsSeq
    <3>3. QED
      BY <3>1, <3>2 DEF GoodRecord, RecordOf
  <2>3. records = [d \in Device |-> createSessionRecord] /\ ops = [d \in Device |-> [s \in Slots |-> None]] /\ sent = {}
    BY <2>1 DEF Init
  <2>4. StoredInOrder
    BY <2>2, <2>3 DEF StoredInOrder, RecordsByDevice
  <2>5. HeldInOrder
    BY <2>3 DEF HeldInOrder, OpsByDevice, ByDevice
  <2>6. QED
    BY <2>3, <2>4, <2>5 DEF RecordsInOrder, SealedWell
<1>2. RecordsInOrder /\ [Next]_vars => RecordsInOrder'
  <2>1. SUFFICES ASSUME RecordsInOrder, [Next]_vars PROVE RecordsInOrder'
    OBVIOUS
  <2>2. CASE UNCHANGED vars
    BY <2>1, <2>2 DEF vars, RecordsInOrder, StoredInOrder, HeldInOrder, SealedWell, RecordsByDevice, OpsByDevice, ByDevice
  <2>3. CASE \E d \in Device : Crash(d)
    <3>1. PICK d \in Device : Crash(d)
      BY <2>3
    <3>2. ops' = [ops EXCEPT ![d] = [s \in Slots |-> None]] /\ records' = records /\ sent' = sent
      BY <3>1 DEF Crash
    <3>3. HeldInOrder'
      BY <2>1, <3>2 DEF RecordsInOrder, HeldInOrder, OpsByDevice, ByDevice
    <3>4. QED
      BY <2>1, <3>2, <3>3 DEF RecordsInOrder, StoredInOrder, RecordsByDevice, SealedWell
  <2>4. CASE \E d \in Device, s \in Slots : Step(d, s)
    BY <2>1, <2>4, StepKeepsRecordsInOrder
  <2>5. QED
    BY <2>1, <2>2, <2>3, <2>4 DEF Next
<1>3. QED
  BY <1>1, <1>2, PTL DEF Spec

\* "Everything here is plain data so the whole session can be written to the
\* SignalKeyStore and read back": for every limit, any number of operations at a
\* time, messages that come late, twice or never, and crashes.
THEOREM RecordsSurvive == Spec => []RecordsSurviveStorage
<1>1. RecordsInOrder => RecordsSurviveStorage
  <2>1. SUFFICES ASSUME RecordsInOrder, NEW d \in Device, NEW s \in Slots, ops[d][s] # None, ops[d][s].step = "save",
                        NEW record \in Unsaved(d, ops[d][s])
                 PROVE  deserializeSessionRecord(serializeSessionRecord(record)) = record
    BY DEF RecordsSurviveStorage
  <2> DEFINE op == ops[d][s]
             session == createOutgoingSession(identityKey(d), op.input, Fresh(d, 1), Fresh(d, 2))
  <2>2. GoodOp(op)
    BY <2>1 DEF RecordsInOrder, HeldInOrder
  <2>3. \/ op.kind = "open" /\ record = promoteSession(op.record, session)
        \/ op.kind = "encrypt" /\ record = AfterEncrypt(op.record)
        \/ op.kind = "decrypt" /\ (record \in Decrypted(d, op) \/ record = RecordForPreKeyMessage(op.record, op.input, op.ctx))
    BY <2>1, <2>2 DEF Unsaved, GoodOp
  <2>4. GoodSession(session)
    BY OutgoingInOrder
  <2> HIDE DEF op, session
  <2>5. GoodRecord(op.record) /\ (op.kind = "encrypt" => CanEncrypt(op.record))
    BY <2>2 DEF GoodOp
  <2>6. GoodRecord(record)
    BY <2>2, <2>3, <2>4, <2>5, PromotedInOrder, SendingChainTurned, DecryptedInOrder, RecordToDecryptWith
  <2>7. QED
    BY <2>6, RecordSurvives
<1>2. QED
  BY <1>1, RecordsStayInOrder, PTL

----------------------------------------------------------------------------
(* One-time pre-keys, when a device finishes one operation before it begins *)
(* the next and does not crash.                                            *)

OneAtATime == \A s, t \in Slots : s = t
NoCrashes  == MaxCrashes = 0

Holds(d, keys, preKey) == preKey \in {preKeyPair(d, id) : id \in keys}

\* A decryption works with the pre-key the message names, which it has seen in the
\* store and which stays there until it deletes it.
WorksWithHeldKeys(d, keys, op) ==
  op.kind = "decrypt" =>
    /\ op.ctx # None => op.ctx.preKey = AddressedPreKey(op)
    /\ (op.step \in {"save", "delete"} /\ op.ctx # None /\ op.ctx.preKey # None) => Holds(d, keys, op.ctx.preKey)
    /\ op.step = "delete" => op.ctx # None /\ op.ctx.preKey # None

Deletes(op, preKey) == op # None /\ op.kind = "decrypt" /\ op.step = "delete" /\ op.ctx.preKey = preKey

\* A session built from a pre-key leaves the store without it, or is about to.
SpentOrAboutToBe(d, keys, starts, working) ==
  \A i \in 1 .. Len(starts) : starts[i].preKey # None =>
    ~Holds(d, keys, starts[i].preKey) \/ \E s \in Slots : Deletes(working[s], starts[i].preKey)

BuildsDistinct(starts) ==
  \A i, j \in 1 .. Len(starts) : (i # j /\ starts[i].preKey # None) => starts[i].preKey # starts[j].preKey

PreKeysSpent ==
  /\ built = [d \in Device |-> built[d]] /\ preKeys = [d \in Device |-> preKeys[d]] /\ crashes = 0
  /\ \A d \in Device : /\ IsSeq(built[d]) /\ SpentOrAboutToBe(d, preKeys[d], built[d], ops[d]) /\ BuildsDistinct(built[d])
                       /\ \A s \in Slots : ops[d][s] # None => WorksWithHeldKeys(d, preKeys[d], ops[d][s])

\* A step that leaves the keys and the sessions built alone, and deletes nothing less.
LEMMA KeysLeftAlone ==
  ASSUME PreKeysSpent, OneAtATime, NEW d \in Device, NEW s \in Slots,
         UNCHANGED <<preKeys, built, crashes>>,
         \A e \in Device, t \in Slots : (e # d \/ t # s) => ops'[e][t] = ops[e][t],
         ops'[d][s] # None => WorksWithHeldKeys(d, preKeys'[d], ops'[d][s]),
         ops[d][s] # None /\ ops[d][s].kind = "decrypt" => ops[d][s].step # "delete"
  PROVE  PreKeysSpent'
<1>1. /\ built = [e \in Device |-> built[e]] /\ preKeys = [e \in Device |-> preKeys[e]] /\ crashes = 0
      /\ \A e \in Device : /\ IsSeq(built[e]) /\ SpentOrAboutToBe(e, preKeys[e], built[e], ops[e]) /\ BuildsDistinct(built[e])
                           /\ \A t \in Slots : ops[e][t] # None => WorksWithHeldKeys(e, preKeys[e], ops[e][t])
  BY DEF PreKeysSpent
<1>2. \A e \in Device : SpentOrAboutToBe(e, preKeys'[e], built'[e], ops'[e])
  <2>1. TAKE e \in Device
  <2>2. \A preKey : \A t \in Slots : Deletes(ops[e][t], preKey) => Deletes(ops'[e][t], preKey)
    BY DEF Deletes
  <2>3. SpentOrAboutToBe(e, preKeys[e], built[e], ops'[e])
    BY <1>1, <2>2 DEF SpentOrAboutToBe
  <2>4. preKeys' = preKeys /\ built' = built
    OBVIOUS
  <2>5. QED
    BY <2>3, <2>4
<1>3. \A e \in Device : BuildsDistinct(built'[e])
  BY <1>1 DEF BuildsDistinct
<1>4. \A e \in Device, t \in Slots : ops'[e][t] # None => WorksWithHeldKeys(e, preKeys'[e], ops'[e][t])
  BY <1>1 DEF WorksWithHeldKeys, Holds, AddressedPreKey
<1>5. QED
  BY <1>1, <1>2, <1>3, <1>4 DEF PreKeysSpent

\* Each step of an operation keeps the pre-keys spent.
LEMMA StepSpendsPreKeys ==
  ASSUME RecordsInOrder, PreKeysSpent, OneAtATime, NEW d \in Device, NEW s \in Slots, Step(d, s)
  PROVE  PreKeysSpent'
<1>1. /\ OpsByDevice /\ \A e \in Device, t \in Slots : ops[e][t] # None => GoodOp(ops[e][t])
  BY DEF RecordsInOrder, HeldInOrder
<1>2. /\ built = [e \in Device |-> built[e]] /\ preKeys = [e \in Device |-> preKeys[e]] /\ crashes = 0
      /\ \A e \in Device : /\ IsSeq(built[e]) /\ SpentOrAboutToBe(e, preKeys[e], built[e], ops[e]) /\ BuildsDistinct(built[e])
                           /\ \A t \in Slots : ops[e][t] # None => WorksWithHeldKeys(e, preKeys[e], ops[e][t])
  BY DEF PreKeysSpent
<1>3. CASE StartOpen(d, s) \/ StartEncrypt(d, s)
  <2>1. PICK op : Begin(d, s, op) /\ op.kind # "decrypt"
    BY <1>3 DEF StartOpen, StartEncrypt
  <2>2. ops'[d][s] = op /\ \A e \in Device, t \in Slots : (e # d \/ t # s) => ops'[e][t] = ops[e][t]
    BY <1>1, <2>1, Began
  <2>3. ops[d][s] = None /\ UNCHANGED <<preKeys, built, crashes>>
    BY <1>3, <2>1 DEF StartOpen, StartEncrypt, Begin
  <2>4. WorksWithHeldKeys(d, preKeys'[d], ops'[d][s])
    BY <2>1, <2>2 DEF WorksWithHeldKeys
  <2>5. QED
    BY <2>2, <2>3, <2>4, KeysLeftAlone
<1>4. CASE Open(d, s) \/ ReturnCiphertext(d, s) \/ DecryptFails(d, s) \/ ReturnPlaintext(d, s)
  <2>1. Finish(d, s) /\ UNCHANGED <<preKeys, built, crashes>> /\ ops[d][s].step # "delete"
    BY <1>4 DEF Open, ReturnCiphertext, DecryptFails, ReturnPlaintext, Awaits
  <2>2. ops'[d][s] = None /\ \A e \in Device, t \in Slots : (e # d \/ t # s) => ops'[e][t] = ops[e][t]
    BY <1>1, <2>1, Finished
  <2>3. QED
    BY <2>1, <2>2, KeysLeftAlone
<1>5. CASE Encrypt(d, s)
  <2>1. /\ Goto(d, s, "return") /\ UNCHANGED <<preKeys, built, crashes>> /\ ops[d][s].kind = "encrypt"
        /\ GoodOp(ops[d][s])
    BY <1>1, <1>5 DEF Encrypt, Awaits
  <2>2. ops'[d][s].kind = "encrypt" /\ \A e \in Device, t \in Slots : (e # d \/ t # s) => ops'[e][t] = ops[e][t]
    BY <1>1, <2>1, WentOn
  <2>3. WorksWithHeldKeys(d, preKeys'[d], ops'[d][s])
    BY <2>2 DEF WorksWithHeldKeys
  <2>4. QED
    BY <2>1, <2>2, <2>3, KeysLeftAlone
<1>6. CASE \E message \in sent : StartDecrypt(d, s, message)
  <2>1. PICK op : Begin(d, s, op) /\ op.kind = "decrypt" /\ op.ctx = None /\ op.step # "delete"
    BY <1>6 DEF StartDecrypt
  <2>2. ops'[d][s] = op /\ \A e \in Device, t \in Slots : (e # d \/ t # s) => ops'[e][t] = ops[e][t]
    BY <1>1, <2>1, Began
  <2>3. ops[d][s] = None /\ UNCHANGED <<preKeys, built, crashes>>
    BY <1>6, <2>1 DEF StartDecrypt, Begin
  <2>4. WorksWithHeldKeys(d, preKeys'[d], ops'[d][s])
    BY <2>1, <2>2 DEF WorksWithHeldKeys
  <2>5. QED
    BY <2>2, <2>3, <2>4, KeysLeftAlone
<1>7. CASE ResolveKeys(d, s)
  <2>1. /\ UNCHANGED <<preKeys, built, crashes>> /\ ops[d][s].step = "resolve"
        /\ \/ KeysHeld(d, ops[d][s]) /\ ops' = WithOp(ops, d, s, Resolved(d, ops[d][s]))
           \/ Finish(d, s)
    BY <1>7 DEF ResolveKeys, Awaits, WithOp
  <2>2. CASE Finish(d, s)
    <3>1. ops'[d][s] = None /\ \A e \in Device, t \in Slots : (e # d \/ t # s) => ops'[e][t] = ops[e][t]
      BY <1>1, <2>2, Finished
    <3>2. QED
      BY <2>1, <3>1, KeysLeftAlone
  <2>3. CASE KeysHeld(d, ops[d][s]) /\ ops' = WithOp(ops, d, s, Resolved(d, ops[d][s]))
    <3> DEFINE op == Resolved(d, ops[d][s])
    <3>1. /\ op.kind = "decrypt" /\ op.step = "save" /\ op.ctx.preKey = AddressedPreKey(ops[d][s])
          /\ AddressedPreKey(op) = AddressedPreKey(ops[d][s])
      BY DEF Resolved, AddressedPreKey
    <3> HIDE DEF op
    <3>2. ops'[d][s] = op /\ \A e \in Device, t \in Slots : (e # d \/ t # s) => ops'[e][t] = ops[e][t]
      BY <1>1, <2>3, SlotChanged DEF OpsByDevice, op
    <3>3. op.ctx.preKey # None => Holds(d, preKeys[d], op.ctx.preKey)
      BY <2>3, <3>1 DEF KeysHeld, Holds
    <3>4. WorksWithHeldKeys(d, preKeys[d], op)
      BY <3>1, <3>3 DEF WorksWithHeldKeys
    <3>5. WorksWithHeldKeys(d, preKeys'[d], ops'[d][s])
      BY <2>1, <3>2, <3>4 DEF WorksWithHeldKeys, Holds, AddressedPreKey
    <3>6. QED
      BY <2>1, <3>2, <3>5, KeysLeftAlone
  <2>4. QED
    BY <2>1, <2>2, <2>3
<1>8. CASE Decrypt(d, s)
  <2> DEFINE op == ops[d][s]
             pending == op.input.preKeyData.pending
             step == IF op.ctx # None /\ op.ctx.preKey # None THEN "delete" ELSE "return"
  <2>1. /\ op # None /\ op.kind = "decrypt" /\ op.step = "save" /\ Goto(d, s, step)
        /\ built' = IF BuildsSession(op) THEN [built EXCEPT ![d] = Append(built[d], pending)] ELSE built
        /\ UNCHANGED <<preKeys, crashes>> /\ GoodOp(op)
    BY <1>1, <1>8 DEF Decrypt, Awaits
  <2>2. /\ \A e \in Device, t \in Slots : (e # d \/ t # s) => ops'[e][t] = ops[e][t]
        /\ GoodOp(ops'[d][s]) /\ ops'[d][s].step = step /\ ops'[d][s].kind = "decrypt"
        /\ ops'[d][s].input = op.input /\ ops'[d][s].ctx = op.ctx
    BY <1>1, <2>1, WentOn
  <2>3. WorksWithHeldKeys(d, preKeys[d], op)
    BY <1>2, <2>1
  <2> HIDE DEF op
  <2>4. WorksWithHeldKeys(d, preKeys'[d], ops'[d][s])
    BY <2>1, <2>2, <2>3 DEF WorksWithHeldKeys, Holds, AddressedPreKey
  <2>5. CASE ~BuildsSession(op)
    BY <2>1, <2>2, <2>4, <2>5, KeysLeftAlone DEF op
  <2>6. CASE BuildsSession(op)
    <3> DEFINE was == built[d]
               now == Append(was, pending)
    <3>1. /\ IsSeq(was) /\ IsSeq(now) /\ Len(now) = Len(was) + 1 /\ Len(was) \in Nat
          /\ \A i \in 1 .. Len(was) : now[i] = was[i]
          /\ now[Len(was) + 1] = pending
      BY <1>2, AppendElements DEF IsSeq
    <3> HIDE DEF was, now, pending
    <3>2. built' = [built EXCEPT ![d] = now]
      BY <2>1, <2>6 DEF was, now, pending
    <3>3. built'[d] = now /\ (\A e \in Device : e # d => built'[e] = built[e]) /\ built' = [e \in Device |-> built'[e]]
      BY <1>2, <3>2
    <3>4. op.ctx # None /\ op.ctx.preKey = pending.preKey /\ (pending.preKey # None => Holds(d, preKeys[d], pending.preKey))
      BY <2>1, <2>3, <2>6 DEF BuildsSession, WorksWithHeldKeys, AddressedPreKey, pending
    <3>5. \A preKey : \A t \in Slots : ~Deletes(ops[d][t], preKey)
      <4>1. \A t \in Slots : ops[d][t] = op
        BY DEF OneAtATime, op
      <4>2. QED
        BY <2>1, <4>1 DEF Deletes
    <3>6. \A i \in 1 .. Len(was) : was[i].preKey # None => ~Holds(d, preKeys[d], was[i].preKey)
      BY <1>2, <3>5 DEF SpentOrAboutToBe, was
    <3>7. BuildsDistinct(built'[d])
      <4>1. \A i, j \in 1 .. Len(was) : (i # j /\ was[i].preKey # None) => was[i].preKey # was[j].preKey
        BY <1>2 DEF BuildsDistinct, was
      <4>2. \A i \in 1 .. Len(now) : i \in 1 .. Len(was) \/ i = Len(was) + 1
        BY <3>1
      <4>3. \A i \in 1 .. Len(was) : was[i].preKey # None => was[i].preKey # pending.preKey
        BY <3>4, <3>6
      <4>4. \A i, j \in 1 .. Len(now) : (i # j /\ now[i].preKey # None) => now[i].preKey # now[j].preKey
        BY <3>1, <4>1, <4>2, <4>3
      <4>5. QED
        BY <3>3, <4>4 DEF BuildsDistinct
    <3>8. SpentOrAboutToBe(d, preKeys'[d], built'[d], ops'[d])
      <4>1. SUFFICES ASSUME NEW i \in 1 .. Len(now), now[i].preKey # None
                     PROVE  ~Holds(d, preKeys[d], now[i].preKey) \/ Deletes(ops'[d][s], now[i].preKey)
        BY <2>1, <3>3 DEF SpentOrAboutToBe, Holds
      <4>2. CASE i \in 1 .. Len(was)
        BY <3>1, <3>6, <4>1, <4>2
      <4>3. CASE i = Len(was) + 1
        <5>1. now[i] = pending
          BY <3>1, <4>3
        <5>2. ops'[d][s].step = "delete" /\ ops'[d][s].ctx.preKey = now[i].preKey
          BY <2>2, <3>4, <4>1, <5>1
        <5>3. GoodOp(ops'[d][s]) => ops'[d][s] # None
          <6>1. \A a, b, c, e, f : DOMAIN [kind |-> a, step |-> b, input |-> c, ctx |-> e, record |-> f] =
                                     {"kind", "step", "input", "ctx", "record"}
            OBVIOUS
          <6>2. GoodOp(ops'[d][s]) => "kind" \in DOMAIN ops'[d][s]
            BY <2>2, <6>1 DEF GoodOp
          <6>3. DOMAIN << >> = {}
            OBVIOUS
          <6>4. QED
            BY <6>2, <6>3 DEF None
        <5>4. QED
          BY <2>2, <5>2, <5>3 DEF Deletes
      <4>4. QED
        BY <3>1, <4>2, <4>3
    <3>9. \A e \in Device : e # d => SpentOrAboutToBe(e, preKeys'[e], built'[e], ops'[e]) /\ BuildsDistinct(built'[e]) /\ IsSeq(built'[e])
      BY <1>2, <2>1, <2>2, <3>3 DEF SpentOrAboutToBe, BuildsDistinct, Holds, Deletes
    <3>10. \A e \in Device, t \in Slots : ops'[e][t] # None => WorksWithHeldKeys(e, preKeys'[e], ops'[e][t])
      BY <1>2, <2>1, <2>2, <2>4 DEF WorksWithHeldKeys, Holds, AddressedPreKey
    <3>11. QED
      BY <1>2, <2>1, <3>1, <3>3, <3>7, <3>8, <3>9, <3>10 DEF PreKeysSpent
  <2>7. QED
    BY <2>5, <2>6
<1>9. CASE DeletePreKey(d, s)
  <2> DEFINE op == ops[d][s]
             used == op.ctx.preKey
  <2>1. /\ op # None /\ op.kind = "decrypt" /\ op.step = "delete" /\ Goto(d, s, "return") /\ GoodOp(op)
        /\ preKeys' = [preKeys EXCEPT ![d] = {id \in preKeys[d] : preKeyPair(d, id) # used}]
        /\ UNCHANGED <<built, crashes>>
    BY <1>1, <1>9 DEF DeletePreKey, Awaits
  <2>2. /\ \A e \in Device, t \in Slots : (e # d \/ t # s) => ops'[e][t] = ops[e][t]
        /\ ops'[d][s].step = "return" /\ ops'[d][s].kind = "decrypt"
        /\ ops'[d][s].input = op.input /\ ops'[d][s].ctx = op.ctx
    BY <1>1, <2>1, WentOn
  <2>3. WorksWithHeldKeys(d, preKeys[d], op)
    BY <1>2, <2>1
  <2>4. \A preKey : Holds(d, preKeys'[d], preKey) <=> Holds(d, preKeys[d], preKey) /\ preKey # used
    BY <1>2, <2>1 DEF Holds
  <2> HIDE DEF op, used
  <2>5. SpentOrAboutToBe(d, preKeys'[d], built'[d], ops'[d])
    <3>1. SUFFICES ASSUME NEW i \in 1 .. Len(built[d]), built[d][i].preKey # None, Holds(d, preKeys'[d], built[d][i].preKey)
                   PROVE  FALSE
      BY <2>1 DEF SpentOrAboutToBe
    <3>2. Holds(d, preKeys[d], built[d][i].preKey) /\ built[d][i].preKey # used
      BY <2>4, <3>1
    <3>3. PICK t \in Slots : Deletes(ops[d][t], built[d][i].preKey)
      BY <1>2, <3>1, <3>2 DEF SpentOrAboutToBe
    <3>4. t = s
      BY DEF OneAtATime
    <3>5. QED
      BY <3>2, <3>3, <3>4 DEF Deletes, op, used
  <2>6. \A e \in Device : e # d => SpentOrAboutToBe(e, preKeys'[e], built'[e], ops'[e])
    BY <1>2, <2>1, <2>2 DEF SpentOrAboutToBe, Holds, Deletes
  <2>7. \A e \in Device : BuildsDistinct(built'[e])
    BY <1>2, <2>1 DEF BuildsDistinct
  <2>8. WorksWithHeldKeys(d, preKeys'[d], ops'[d][s])
    BY <2>1, <2>2, <2>3 DEF WorksWithHeldKeys, AddressedPreKey, op
  <2>9. \A t \in Slots : t = s
    BY DEF OneAtATime
  <2>10. \A e \in Device, t \in Slots : ops'[e][t] # None => WorksWithHeldKeys(e, preKeys'[e], ops'[e][t])
    BY <1>2, <2>1, <2>2, <2>8, <2>9 DEF WorksWithHeldKeys, Holds, AddressedPreKey
  <2>11. preKeys' = [e \in Device |-> preKeys'[e]]
    BY <1>2, <2>1
  <2>12. QED
    BY <1>2, <2>1, <2>5, <2>6, <2>7, <2>10, <2>11 DEF PreKeysSpent
<1>10. QED
  BY <1>3, <1>4, <1>5, <1>6, <1>7, <1>8, <1>9 DEF Step

\* "A one-time pre-key is used exactly once": no two sessions are built from one,
\* on a device that finishes each operation before it begins the next.
THEOREM PreKeysBuildOneSession ==
  ASSUME OneAtATime, NoCrashes
  PROVE  Spec => []PreKeyBuildsOneSession
<1>1. Init => PreKeysSpent
  <2>1. SUFFICES ASSUME Init PROVE PreKeysSpent
    OBVIOUS
  <2>2. /\ built = [d \in Device |-> << >>] /\ preKeys = InitialPreKeys /\ crashes = 0
        /\ ops = [d \in Device |-> [s \in Slots |-> None]]
    BY <2>1 DEF Init
  <2>3. InitialPreKeys = [d \in Device |-> InitialPreKeys[d]]
    BY DevicesAssumption
  <2>4. \A d \in Device : IsSeq(built[d]) /\ SpentOrAboutToBe(d, preKeys[d], built[d], ops[d]) /\ BuildsDistinct(built[d])
    BY <2>2 DEF IsSeq, SpentOrAboutToBe, BuildsDistinct
  <2>5. QED
    BY <2>2, <2>3, <2>4 DEF PreKeysSpent
<1>2. RecordsInOrder /\ PreKeysSpent /\ [Next]_vars => PreKeysSpent'
  <2>1. SUFFICES ASSUME RecordsInOrder, PreKeysSpent, [Next]_vars PROVE PreKeysSpent'
    OBVIOUS
  <2>2. CASE UNCHANGED vars
    BY <2>1, <2>2 DEF vars, PreKeysSpent, SpentOrAboutToBe, BuildsDistinct, WorksWithHeldKeys, Holds, Deletes, AddressedPreKey
  <2>3. CASE \E d \in Device : Crash(d)
    BY <2>1, <2>3 DEF Crash, NoCrashes, PreKeysSpent
  <2>4. CASE \E d \in Device, s \in Slots : Step(d, s)
    BY <2>1, <2>4, StepSpendsPreKeys
  <2>5. QED
    BY <2>1, <2>2, <2>3, <2>4 DEF Next
<1>3. PreKeysSpent => PreKeyBuildsOneSession
  <2>1. SUFFICES ASSUME PreKeysSpent, NEW d \in Device, NEW i \in DOMAIN built[d], NEW j \in DOMAIN built[d],
                        i # j, built[d][i].preKey # None
                 PROVE  built[d][i].preKey # built[d][j].preKey
    BY DEF PreKeyBuildsOneSession
  <2>2. DOMAIN built[d] = 1 .. Len(built[d])
    BY <2>1, SeqOfElements DEF PreKeysSpent
  <2>3. QED
    BY <2>1, <2>2 DEF PreKeysSpent, BuildsDistinct
<1>4. QED
  BY <1>1, <1>2, <1>3, RecordsStayInOrder, PTL DEF Spec

----------------------------------------------------------------------------
(***************************************************************************)
(* One conversation: one device opens a session, once, and each device     *)
(* finishes an operation before it begins the next.  Crashes may happen,   *)
(* and messages come late, out of order, repeatedly or never.              *)
(***************************************************************************)

OneOpening == \E o \in Device : MaxOpens[o] <= 1 /\ \A e \in Device : e # o => MaxOpens[e] = 0
Opener == CHOOSE o \in Device : \A e \in Device : e # o => MaxOpens[e] = 0

\* The other device has uploaded a one-time pre-key.
Stocked == InitialPreKeys[Peer(Opener)] # {}

TheBaseKey == generateKeyPair(Opener, 1)
TheOneTimeKey == preKeyPair(Peer(Opener), Min(InitialPreKeys[Peer(Opener)]))

----------------------------------------------------------------------------
(* The invariant.  Its parts say which variables they are about.           *)

\* Pairs that exist: made counts those each device has generated.
Made(made, pair) ==
  pair[1] \in Device /\ pair[3] \in Nat /\ (pair[2] = "generated" => pair[3] <= made[pair[1]])
MadeFrom(made, secret) == \A pair \in secret : Made(made, pair)

\* The seeds of a session: each chain's its own, none longer than the root.
Lineage(session) ==
  LET chains == session.receiverChains
  IN  /\ IsSeq(session.rootKey)
      /\ \A i \in 1 .. Len(chains) : IsSeq(SeedOf(chains[i])) /\ Len(SeedOf(chains[i])) <= Len(session.rootKey)
      /\ \A i, j \in 1 .. Len(chains) : i # j => SeedOf(chains[i]) # SeedOf(chains[j])

\* A key the session can never give again.
Gone(session, key) ==
  LET chains == session.receiverChains
  IN  /\ Len(key.seed) <= Len(session.rootKey)
      /\ \A i \in 1 .. Len(chains) : SeedOf(chains[i]) = key.seed => key.turns \notin Spendable(chains[i])

Counted ==
  /\ generated = [d \in Device |-> generated[d]] /\ \A d \in Device : generated[d] \in Nat
  /\ opens = [d \in Device |-> opens[d]] /\ \A d \in Device : opens[d] \in Nat /\ opens[d] <= MaxOpens[d]
  /\ built = [d \in Device |-> built[d]] /\ \A d \in Device : IsSeq(built[d])
  /\ served = [d \in Device |-> served[d]]
  /\ delivered = [b \in Bodies |-> delivered[b]] /\ bodies \in 0 .. MaxBodies

\* Each device has one session at most.
OneSession(d, record, made) ==
  /\ record.previousSessions = << >>
  /\ record.currentSession # None => /\ Lineage(record.currentSession)
                                     /\ Made(made, record.currentSession.ourRatchetKey)

\* An operation works on the record that is stored.
UpToDate(op, record) ==
  /\ op.step \in {"resolve", "save"} => op.record = record
  /\ (op.kind = "encrypt" /\ op.step = "return") => record = AfterEncrypt(op.record)
  /\ op.kind = "encrypt" => op.step \in {"save", "return"}
  /\ op.kind = "open" => op.step = "save"

\* It decrypts what the peer has sent.
Received(d, op, net) ==
  op.kind = "decrypt" =>
    /\ \E m \in net : m.to = d /\ m.signal = op.input
    /\ (op.ctx # None \/ op.step = "resolve") => op.input.preKeyData # None
    /\ op.ctx # None => op.ctx.signedPreKey = signedPreKey(d)

\* It opens the session.
Opening(d, op, record, opened) ==
  op.kind = "open" =>
    /\ d = Opener /\ record.currentSession = None /\ opened # 0
    /\ op.input.signedPreKey = signedPreKey(Peer(d))
    /\ Stocked => op.input.preKey = TheOneTimeKey

InPlace(d, op, record, net, opened) ==
  op # None => UpToDate(op, record) /\ Received(d, op, net) /\ Opening(d, op, record, opened)

\* Nothing happens before the session is opened.
OpenedOnce(stored, opened, offered, net, made) ==
  /\ opened[Opener] = 0 => stored[Opener].currentSession = None /\ offered[Peer(Opener)] = {}
  /\ stored[Opener].currentSession = None =>
       /\ \A d \in Device : stored[d].currentSession = None
       /\ net = {} /\ made[Opener] = 0

\* All sessions start from one base key, and from one one-time pre-key.
Starts(pending) == pending.baseKey = TheBaseKey /\ (Stocked => pending.preKey = TheOneTimeKey)

StartOfRecord(d, record, starts) ==
  /\ record.currentSession # None /\ record.currentSession.pendingPreKey # None =>
       d = Opener /\ Starts(record.currentSession.pendingPreKey)
  /\ \A i \in 1 .. Len(starts) : d # Opener /\ Starts(starts[i])
  /\ d # Opener /\ record.currentSession # None => Len(starts) # 0

StartOfMessage(m) == m.signal.preKeyData # None => m.to # Opener /\ Starts(m.signal.preKeyData.pending)

\* The key the next message is sealed with.
SealingKey(record) == record.currentSession.senderChain.chainKey.key

\* Sending chains are fresh, and of the two devices different ones.
FreshSeed(record, made) ==
  CanEncrypt(record) => IsSeq(SealingKey(record).seed) /\ MadeFrom(made, Last(SealingKey(record).seed))

SeedsApart(stored) ==
  \A d, e \in Device : (d # e /\ CanEncrypt(stored[d]) /\ CanEncrypt(stored[e])) =>
    SealingKey(stored[d]).seed # SealingKey(stored[e]).seed

\* A key that has sealed a message lies behind the chain it comes from.
Sealed(m, made) ==
  LET key == m.signal.mac.key
  IN  /\ m.to \in Device
      /\ key = Key(key.seed, m.signal.counter) /\ m.signal.counter \in Nat
      /\ IsSeq(key.seed)
      /\ MadeFrom(made, Last(key.seed)) /\ Made(made, m.signal.ratchetKey)

Behind(m, record) ==
  (CanEncrypt(record) /\ SealingKey(record).seed = m.signal.mac.key.seed) =>
    m.signal.counter < SealingKey(record).turns

Releasing(op) == op # None /\ op.kind = "encrypt" /\ op.step = "return"

Unreleased(m, op) == Releasing(op) => m.signal.mac.key # SealingKey(op.record)

\* Bodies are sealed once.
Encrypting(op) == op # None /\ op.kind = "encrypt"

BodiesApart(net, held, count) ==
  /\ \A m \in net : m.signal.body \in 1 .. count
  /\ \A m, n \in net : m.signal.body = n.signal.body => m = n
  /\ \A d \in Device, s \in Slots : Encrypting(held[d][s]) =>
       /\ held[d][s].input \in 1 .. count
       /\ \A m \in net : m.signal.body # held[d][s].input
       /\ \A e \in Device, t \in Slots : (Encrypting(held[e][t]) /\ e # d) => held[e][t].input # held[d][s].input

\* A plaintext that has been handed out, or is about to be, is not to be had again.
HandingOut(op, body) ==
  op # None /\ op.kind = "decrypt" /\ op.step \in {"delete", "return"} /\ op.input.body = body

HandedOut(body, held, given) == given[body] # 0 \/ \E d \in Device, s \in Slots : HandingOut(held[d][s], body)

HandedOutOnce(net, stored, held, given) ==
  /\ \A m \in net : HandedOut(m.signal.body, held, given) =>
       stored[m.to].currentSession # None /\ Gone(stored[m.to].currentSession, m.signal.mac.key)
  /\ \A d \in Device, s \in Slots, b \in Bodies : HandingOut(held[d][s], b) => given[b] = 0
  /\ \A b \in Bodies : given[b] # 0 => \E m \in net : m.signal.body = b

Sessions(stored, made, starts) ==
  \A d \in Device : /\ OneSession(d, stored[d], made)
                    /\ StartOfRecord(d, stored[d], starts[d])
                    /\ FreshSeed(stored[d], made)

Operations(held, stored, net, opened) ==
  \A d \in Device, s \in Slots : InPlace(d, held[d][s], stored[d], net, opened[d])

Messages(net, stored, held, made) ==
  \A m \in net : /\ StartOfMessage(m) /\ Sealed(m, made)
                 /\ \A d \in Device : Behind(m, stored[d]) /\ \A s \in Slots : Unreleased(m, held[d][s])

Conversation ==
  /\ Counted
  /\ Sessions(records, generated, built)
  /\ SeedsApart(records)
  /\ Operations(ops, records, sent, opens)
  /\ OpenedOnce(records, opens, served, sent, generated)
  /\ Messages(sent, records, ops, generated)
  /\ MessageKeysSealOneMessage
  /\ BodiesApart(sent, ops, bodies)
  /\ HandedOutOnce(sent, records, ops, delivered)

\* As long as no pkmsg has built a session twice.
ConversationSoFar == BaseKeyBuildsOneSession => Conversation

----------------------------------------------------------------------------
(* The two devices.                                                        *)

\* A device has a peer.
LEMMA Peers == \A d \in Device : Peer(d) \in Device /\ Peer(d) # d
<1>1. TAKE d \in Device
<1>2. \E p \in Device : p # d
  <2>1. SUFFICES ASSUME \A p \in Device : p = d PROVE FALSE
    OBVIOUS
  <2>2. Device = {d}
    BY <2>1
  <2>3. Cardinality({d}) = 1
    BY FS_Singleton
  <2>4. QED
    BY <2>2, <2>3, DevicesAssumption
<1>3. QED
  BY <1>2 DEF Peer

\* Only the opener opens sessions, and only one.
LEMMA TheOpener ==
  ASSUME OneOpening
  PROVE  /\ Opener \in Device /\ MaxOpens[Opener] <= 1
         /\ \A d \in Device : MaxOpens[d] # 0 => d = Opener
<1>1. PICK o \in Device : MaxOpens[o] <= 1 /\ \A e \in Device : e # o => MaxOpens[e] = 0
  BY DEF OneOpening
<1>2. Opener \in Device /\ \A e \in Device : e # Opener => MaxOpens[e] = 0
  BY <1>1 DEF Opener
<1>3. MaxOpens[Opener] <= 1
  BY <1>1, <1>2
<1>4. QED
  BY <1>2, <1>3

\* A pair is not nothing.
LEMMA PairsAreSomething == \A a, b, c : <<a, b, c>> # None
<1>1. TAKE a, b, c
<1>2. Len(<<a, b, c>>) = 3 /\ Len(<< >>) = 0
  OBVIOUS
<1>3. QED
  BY <1>2 DEF None

\* The last secret of a longer root key.
LEMMA LastOfRootKey ==
  ASSUME NEW rootKey, IsSeq(rootKey), NEW secret
  PROVE  LET longer == deriveRootKey(rootKey, secret)
         IN  IsSeq(longer) /\ Len(longer) = Len(rootKey) + 1 /\ Last(longer) = secret
<1> DEFINE longer == Append(rootKey, secret)
<1>1. IsSeq(longer) /\ Len(longer) = Len(rootKey) + 1 /\ longer[Len(rootKey) + 1] = secret
  BY AppendElements
<1>2. QED
  BY <1>1 DEF deriveRootKey, Last

----------------------------------------------------------------------------
(* One attempt.                                                            *)

\* Pairs that existed still exist.
LEMMA StillMade ==
  ASSUME NEW made, NEW later, \A d \in Device : made[d] \in Nat /\ later[d] \in Nat /\ made[d] <= later[d],
         NEW pair, Made(made, pair)
  PROVE  Made(later, pair)
  BY DEF Made

\* The session an attempt decrypts with has the keys that were there, and one
\* chain more at most.
LEMMA ReadyLineage ==
  ASSUME NEW session, GoodSession(session), Lineage(session), NEW message, NEW fresh
  PROVE  LET ready == Ready(session, message, fresh)
             chains == ready.receiverChains
         IN  /\ Lineage(ready) /\ Len(session.rootKey) <= Len(ready.rootKey)
             /\ \A key : (Len(key.seed) \in Nat /\ Gone(session, key)) => Gone(ready, key)
             /\ \/ ready = session
                \/ /\ ready.ourRatchetKey = fresh /\ ready.senderChain = newChain(fresh, ready.rootKey)
                   /\ Last(ready.rootKey) = sharedKey(fresh, message.ratchetKey)
<1> DEFINE ready == Ready(session, message, fresh)
           their == message.ratchetKey
           old == session.receiverChains
           n == Len(old)
           receiving == deriveRootKey(session.rootKey, sharedKey(session.ourRatchetKey, their))
           sending == deriveRootKey(receiving, sharedKey(fresh, their))
           new == newChain(their, receiving)
           all == Append(old, new)
           chains == IF Len(all) > MAX_PREVIOUS_SESSIONS THEN Tail(all) ELSE all
           sender == newChain(fresh, sending)
<1>1. CASE ready = session
  <2>1. Len(session.rootKey) <= Len(session.rootKey)
    BY DEF Lineage, IsSeq
  <2>2. QED
    BY <1>1, <2>1
<1>2. CASE ready # session
  <2>1. ready = SessionOf(session.localIdentity, session.remoteIdentity, sending, fresh, sender, chains,
                          session.pendingPreKey)
    BY <1>2, RatchetedSession DEF Ready
  <2> HIDE DEF ready, sender
  <2>2. ready.rootKey = sending /\ ready.ourRatchetKey = fresh /\ ready.senderChain = sender /\ ready.receiverChains = chains
    BY <2>1 DEF SessionOf
  <2>3. /\ IsSeq(receiving) /\ Len(receiving) = Len(session.rootKey) + 1
        /\ IsSeq(sending) /\ Len(sending) = Len(session.rootKey) + 2 /\ Last(sending) = sharedKey(fresh, their)
        /\ Len(session.rootKey) \in Nat
    <3>1. IsSeq(session.rootKey)
      BY DEF Lineage
    <3>2. IsSeq(receiving) /\ Len(receiving) = Len(session.rootKey) + 1
      BY <3>1, LastOfRootKey
    <3> HIDE DEF receiving
    <3>3. IsSeq(sending) /\ Len(sending) = Len(receiving) + 1 /\ Last(sending) = sharedKey(fresh, their)
      BY <3>2, LastOfRootKey
    <3>4. QED
      BY <3>1, <3>2, <3>3 DEF IsSeq
  <2>4. SeedOf(new) = receiving
    BY DEF newChain, SeedOf, Key
  <2> HIDE DEF receiving, sending, new
  <2>5. /\ IsSeq(all) /\ Len(all) = n + 1 /\ n \in Nat
        /\ \A i \in 1 .. n : all[i] = old[i]
        /\ all[n + 1] = new
    BY AppendElements DEF GoodSession, IsSeq
  <2> HIDE DEF all
  <2>6. PICK k \in {0, 1} : /\ IsSeq(chains) /\ Len(chains) = n + 1 - k
                            /\ \A i \in 1 .. Len(chains) : chains[i] = all[i + k]
    <3>1. CASE ~(Len(all) > MAX_PREVIOUS_SESSIONS)
      <4>1. chains = all
        BY <3>1
      <4> HIDE DEF chains
      <4>2. Len(chains) = n + 1 - 0 /\ \A i \in 1 .. Len(chains) : i + 0 = i
        BY <2>5, <4>1
      <4>3. QED
        BY <2>5, <4>1, <4>2
    <3>2. CASE Len(all) > MAX_PREVIOUS_SESSIONS
      <4>1. chains = Tail(all) /\ Len(all) # 0
        BY <2>5, <3>2
      <4>2. IsSeq(Tail(all)) /\ Len(Tail(all)) = Len(all) - 1 /\ \A i \in 1 .. Len(all) - 1 : Tail(all)[i] = all[i + 1]
        BY <2>5, <4>1, TailElements
      <4> HIDE DEF chains
      <4>3. QED
        BY <2>5, <4>1, <4>2
    <3>3. QED
      BY <3>1, <3>2
  <2> HIDE DEF chains
  <2>7. \A i \in 1 .. Len(chains) : \/ i + k \in 1 .. n /\ chains[i] = old[i + k]
                                    \/ i + k = n + 1 /\ chains[i] = new
    BY <2>5, <2>6
  <2>8. \A i \in 1 .. n : /\ IsSeq(SeedOf(old[i])) /\ Len(SeedOf(old[i])) <= Len(session.rootKey)
                          /\ Len(SeedOf(old[i])) \in Nat
                          /\ \A j \in 1 .. n : i # j => SeedOf(old[i]) # SeedOf(old[j])
    <3>1. \A s : IsSeq(s) => Len(s) \in Nat
      BY DEF IsSeq
    <3>2. QED
      BY <3>1 DEF Lineage
  <2>9. \A i \in 1 .. Len(chains) : /\ IsSeq(SeedOf(chains[i])) /\ Len(SeedOf(chains[i])) <= Len(ready.rootKey)
    <3>1. TAKE i \in 1 .. Len(chains)
    <3>2. CASE i + k \in 1 .. n /\ chains[i] = old[i + k]
      BY <2>2, <2>3, <2>8, <3>2
    <3>3. CASE chains[i] = new
      BY <2>2, <2>3, <2>4, <3>3
    <3>4. QED
      BY <2>7, <3>2, <3>3
  <2>10. \A i, j \in 1 .. Len(chains) : i # j => SeedOf(chains[i]) # SeedOf(chains[j])
    <3>1. SUFFICES ASSUME NEW i \in 1 .. Len(chains), NEW j \in 1 .. Len(chains), i # j
                   PROVE  SeedOf(chains[i]) # SeedOf(chains[j])
      OBVIOUS
    <3>2. \A m \in 1 .. n : SeedOf(old[m]) # SeedOf(new)
      BY <2>3, <2>4, <2>8
    <3>3. i + k # j + k
      BY <2>5, <2>6, <3>1
    <3>4. QED
      BY <2>7, <2>8, <3>1, <3>2, <3>3
  <2>11. \A key : (Len(key.seed) \in Nat /\ Gone(session, key)) => Gone(ready, key)
    <3>1. SUFFICES ASSUME NEW key, Len(key.seed) \in Nat, Gone(session, key) PROVE Gone(ready, key)
      OBVIOUS
    <3>2. Len(key.seed) <= Len(session.rootKey) /\ \A i \in 1 .. n : SeedOf(old[i]) = key.seed => key.turns \notin Spendable(old[i])
      BY <3>1 DEF Gone
    <3>3. SeedOf(new) # key.seed
      BY <2>3, <2>4, <3>1, <3>2
    <3>4. \A i \in 1 .. Len(chains) : SeedOf(chains[i]) = key.seed => key.turns \notin Spendable(chains[i])
      BY <2>7, <3>2, <3>3
    <3>5. Len(key.seed) <= Len(ready.rootKey)
      BY <2>2, <2>3, <3>1, <3>2
    <3>6. QED
      BY <2>2, <3>4, <3>5 DEF Gone
  <2>12. Lineage(ready)
    BY <2>2, <2>3, <2>9, <2>10 DEF Lineage
  <2>13. Len(session.rootKey) <= Len(ready.rootKey)
    BY <2>2, <2>3
  <2>14. QED
    BY <2>2, <2>3, <2>11, <2>12, <2>13 DEF ready, sender
<1>3. QED
  BY <1>1, <1>2

\* What an attempt that opens a message does to a session: the key of the message
\* was to be had and is not any more, nor is any that was gone before; the sending
\* chain is the old one, or new and made with the fresh pair.
Advances(session, left, message, fresh) ==
  /\ GoodSession(left) /\ Lineage(left) /\ left.pendingPreKey = None
  /\ \A key : (Len(key.seed) \in Nat /\ Gone(session, key)) => Gone(left, key)
  /\ Gone(left, message.mac.key) /\ ~Gone(session, message.mac.key)
  /\ \/ left.ourRatchetKey = session.ourRatchetKey /\ left.senderChain = session.senderChain
     \/ /\ left.ourRatchetKey = fresh /\ left.senderChain = newChain(fresh, left.rootKey)
        /\ Last(left.rootKey) = sharedKey(fresh, message.ratchetKey)

\* An attempt advances the session whose message it opens.
LEMMA AttemptAdvances ==
  ASSUME NEW session, GoodSession(session), Lineage(session), NEW message, message.counter \in Nat, NEW fresh,
         decryptWithSession(session, message, fresh).ok
  PROVE  Advances(session, decryptWithSession(session, message, fresh).session, message, fresh)
<1> DEFINE left == decryptWithSession(session, message, fresh).session
           ready == Ready(session, message, fresh)
           old == ready.receiverChains
           key == message.mac.key
<1>1. PICK at \in ChainsFor(ready, message.ratchetKey) :
        \E given \in messageKeysForCounter(old[at], message.counter) :
          Authentic(message, given.keys, session) /\ left = Opened(ready, at, given.chain)
  BY Attempted
<1>2. PICK given \in messageKeysForCounter(old[at], message.counter) :
        Authentic(message, given.keys, session) /\ left = Opened(ready, at, given.chain)
  BY <1>1
<1>3. /\ Lineage(ready) /\ Len(session.rootKey) <= Len(ready.rootKey)
      /\ \A k : (Len(k.seed) \in Nat /\ Gone(session, k)) => Gone(ready, k)
      /\ \/ ready = session
         \/ /\ ready.ourRatchetKey = fresh /\ ready.senderChain = newChain(fresh, ready.rootKey)
            /\ Last(ready.rootKey) = sharedKey(fresh, message.ratchetKey)
  BY ReadyLineage
<1>4. GoodSession(ready)
  BY ReadyInOrder
<1>5. GoodSession(left)
  BY Attempted
<1> HIDE DEF left, ready
<1>6. at \in 1 .. Len(old) /\ InOrder(old[at])
  BY <1>4, SeqOfElements DEF GoodSession, ChainsFor
<1>7. /\ InOrder(given.chain) /\ SeedOf(given.chain) = SeedOf(old[at])
      /\ given.keys = KeysOf(SeedOf(old[at]), message.counter)
      /\ message.counter \in Spendable(old[at])
      /\ Spendable(given.chain) \subseteq Spendable(old[at]) \ {message.counter}
  BY <1>2, <1>6, Answered
<1> DEFINE moved == MovedChain(ready, at, given.chain)
           chains == Replaced(old, at, given.chain)
<1>8. /\ GoodSession(moved)
      /\ moved = SessionOf(ready.localIdentity, ready.remoteIdentity, ready.rootKey, ready.ourRatchetKey,
                           ready.senderChain, chains, ready.pendingPreKey)
  BY <1>4, <1>6, <1>7, ChainMoved
<1>9. left = [moved EXCEPT !.pendingPreKey = None]
  BY <1>2 DEF Opened
<1> HIDE DEF moved
<1>10. left = SessionOf(moved.localIdentity, moved.remoteIdentity, moved.rootKey, moved.ourRatchetKey,
                        moved.senderChain, moved.receiverChains, None)
  BY <1>8, <1>9, PendingAnswered
<1>11. /\ IsSeq(chains) /\ Len(chains) = Len(old)
       /\ \A i \in 1 .. Len(old) : chains[i] = IF i = at THEN given.chain ELSE old[i]
  BY <1>4, <1>6, ReplacedElements DEF GoodSession
<1> HIDE DEF chains
<1>12. /\ left.rootKey = ready.rootKey /\ left.ourRatchetKey = ready.ourRatchetKey
       /\ left.senderChain = ready.senderChain /\ left.receiverChains = chains /\ left.pendingPreKey = None
  BY <1>8, <1>10 DEF SessionOf
<1>13. \A i \in 1 .. Len(old) : SeedOf(chains[i]) = SeedOf(old[i]) /\ Spendable(chains[i]) \subseteq Spendable(old[i])
  BY <1>7, <1>11
<1>14. Lineage(left)
  BY <1>3, <1>11, <1>12, <1>13 DEF Lineage
<1>15. \A k : Gone(ready, k) => Gone(left, k)
  BY <1>11, <1>12, <1>13 DEF Gone
<1>16. key = Key(SeedOf(old[at]), message.counter)
  BY <1>2, <1>7 DEF Authentic, KeysOf
<1>17. key.seed = SeedOf(old[at]) /\ key.turns = message.counter
  BY <1>16 DEF Key
<1>18. /\ Len(key.seed) \in Nat /\ Len(key.seed) <= Len(ready.rootKey)
       /\ \A i \in 1 .. Len(old) : i # at => SeedOf(old[i]) # key.seed
  <2>1. IsSeq(key.seed) /\ Len(key.seed) <= Len(ready.rootKey)
    BY <1>3, <1>6, <1>17 DEF Lineage
  <2>2. QED
    BY <1>3, <1>6, <1>17, <2>1 DEF Lineage, IsSeq
<1>19. Gone(left, key)
  <2>1. SUFFICES ASSUME NEW i \in 1 .. Len(old), SeedOf(chains[i]) = key.seed PROVE key.turns \notin Spendable(chains[i])
    BY <1>11, <1>12, <1>18 DEF Gone
  <2>2. i = at /\ chains[i] = given.chain
    BY <1>11, <1>13, <1>18, <2>1
  <2>3. QED
    BY <1>7, <1>17, <2>2
<1>20. ~Gone(ready, key)
  BY <1>6, <1>7, <1>17 DEF Gone
<1>21. ~Gone(session, key)
  BY <1>3, <1>18, <1>20
<1>22. \/ left.ourRatchetKey = session.ourRatchetKey /\ left.senderChain = session.senderChain
       \/ /\ left.ourRatchetKey = fresh /\ left.senderChain = newChain(fresh, left.rootKey)
          /\ Last(left.rootKey) = sharedKey(fresh, message.ratchetKey)
  BY <1>3, <1>12
<1>23. QED
  BY <1>3, <1>5, <1>12, <1>14, <1>15, <1>19, <1>21, <1>22 DEF Advances, left

\* A record without archived sessions: its only session opens the message.
LEMMA OneTrial ==
  ASSUME NEW record, GoodRecord(record), record.previousSessions = << >>, NEW message, message.counter \in Nat, NEW fresh,
         NEW left \in decryptSignalMessage(record, message, fresh)
  PROVE  LET attempt == decryptWithSession(record.currentSession, message, fresh[1])
         IN  record.currentSession # None /\ attempt.ok /\ left = RecordOf(attempt.session, << >>)
<1> DEFINE sessions == SessionsOf(record)
           shift == IF record.currentSession = None THEN 0 ELSE 1
<1>1. /\ Len(sessions) = shift + Len(record.previousSessions) /\ IsSeq(sessions)
      /\ record.currentSession # None => sessions[1] = record.currentSession
  BY SessionsInOrder DEF GoodSessions
<1>2. PICK first \in 1 .. Len(sessions) :
        LET after == AfterTrials(record, message, fresh, first)
            tried == RecordOf(Head(after), Tail(after))
        IN  /\ decryptWithSession(sessions[first], message, fresh[first]).ok
            /\ left = IF first = 1 THEN tried ELSE promoteSession(tried, after[first])
  BY Trials
<1>3. Len(sessions) = shift
  BY <1>1
<1>4. record.currentSession # None /\ Len(sessions) = 1 /\ first = 1 /\ sessions[1] = record.currentSession
  BY <1>1, <1>2, <1>3
<1> HIDE DEF sessions, shift
<1> DEFINE after == AfterTrials(record, message, fresh, 1)
           attempt == decryptWithSession(record.currentSession, message, fresh[1])
<1>5. attempt.ok /\ left = RecordOf(Head(after), Tail(after))
  BY <1>2, <1>4
<1>6. after = <<attempt.session>>
  <2>1. DOMAIN sessions = 1 .. 1
    BY <1>1, <1>4, SeqOfElements
  <2>2. after = [i \in 1 .. 1 |-> attempt.session]
    BY <1>4, <2>1 DEF AfterTrials, sessions
  <2>3. QED
    BY <2>2
<1> HIDE DEF after, attempt
<1>7. Head(after) = attempt.session /\ Tail(after) = << >>
  BY <1>6
<1>8. QED
  BY <1>4, <1>5, <1>7 DEF attempt

----------------------------------------------------------------------------
(* What decrypt and openSession store.                                     *)

\* With nothing to archive nothing is archived.
LEMMA NothingArchived ==
  ASSUME NEW record, GoodRecord(record), record.currentSession = None, record.previousSessions = << >>, NEW session
  PROVE  promoteSession(record, session) = RecordOf(session, << >>)
<1> DEFINE sessions == SessionsOf(record)
<1>1. IsSeq(sessions) /\ Len(sessions) = 0
  <2> DEFINE shift == IF record.currentSession = None THEN 0 ELSE 1
  <2>1. IsSeq(sessions) /\ Len(sessions) = shift + Len(record.previousSessions)
    BY SessionsInOrder DEF GoodSessions
  <2>2. QED
    BY <2>1
<1> HIDE DEF sessions
<1>2. MAX_PREVIOUS_SESSIONS \in Nat
  BY SessionsAssumption
<1>3. IsSeq(Truncate(sessions, MAX_PREVIOUS_SESSIONS)) /\ Len(Truncate(sessions, MAX_PREVIOUS_SESSIONS)) = 0
  <2> DEFINE kept == Truncate(sessions, MAX_PREVIOUS_SESSIONS)
  <2>1. IsSeq(kept) /\ Len(kept) = IF Len(sessions) < MAX_PREVIOUS_SESSIONS THEN Len(sessions) ELSE MAX_PREVIOUS_SESSIONS
    BY <1>1, <1>2, TruncatedElements
  <2>2. Len(kept) = 0
    BY <1>1, <1>2, <2>1
  <2>3. QED
    BY <2>1, <2>2
<1>4. Truncate(sessions, MAX_PREVIOUS_SESSIONS) = << >>
  BY <1>3, SameElements DEF IsSeq
<1>5. QED
  BY <1>4 DEF promoteSession, RecordOf, sessions

\* The incoming session has no chains and one secret.
LEMMA IncomingLineage ==
  ASSUME NEW ctx, NEW theirIdentity, NEW theirBaseKey
  PROVE  LET session == createIncomingSession(ctx, theirIdentity, theirBaseKey)
         IN  /\ GoodSession(session) /\ Lineage(session)
             /\ session.senderChain = None /\ session.ourRatchetKey = ctx.signedPreKey
<1> DEFINE session == createIncomingSession(ctx, theirIdentity, theirBaseKey)
           secret == calculateReceiverSecret(ctx, theirIdentity, theirBaseKey)
<1>1. session.rootKey = <<secret>>
  BY DEF createIncomingSession, deriveInitialKeys
<1>2. session.receiverChains = << >> /\ session.senderChain = None /\ session.ourRatchetKey = ctx.signedPreKey
  BY DEF createIncomingSession
<1> HIDE DEF session, secret
<1>3. IsSeq(<<secret>>)
  BY DEF IsSeq
<1>4. Lineage(session)
  BY <1>1, <1>2, <1>3 DEF Lineage
<1>5. QED
  BY <1>2, <1>4, IncomingInOrder DEF session

\* The session a decryption advances: the one there is, or else the one the pkmsg
\* builds.
Advanced(d, op, record, session) ==
  \/ record.currentSession # None /\ session = record.currentSession
  \/ /\ record.currentSession = None /\ BuildsSession(op)
     /\ session = createIncomingSession(op.ctx, op.input.preKeyData.identityKey, op.input.preKeyData.pending.baseKey)
     /\ session.senderChain = None /\ session.ourRatchetKey = signedPreKey(d)

\* A decryption advances one session and leaves no other.
LEMMA DecryptAdvances ==
  ASSUME RecordsInOrder, Conversation, NEW d \in Device, NEW s \in Slots, Decrypt(d, s), BaseKeyBuildsOneSession'
  PROVE  \E session, left :
           /\ Advanced(d, ops[d][s], records[d], session) /\ Lineage(session)
           /\ Advances(session, left, ops[d][s].input, Fresh(d, 1))
           /\ decryptWithSession(session, ops[d][s].input, Fresh(d, 1)).ok
           /\ left = decryptWithSession(session, ops[d][s].input, Fresh(d, 1)).session
           /\ records'[d] = RecordOf(left, << >>)
<1> DEFINE op == ops[d][s]
           record == records[d]
           message == op.input
           pending == message.preKeyData.pending
           fresh == FreshPairs(d)
<1>1. /\ op # None /\ op.kind = "decrypt" /\ op.step = "save" /\ GoodOp(op)
      /\ GoodRecord(record) /\ RecordsByDevice
      /\ built' = IF BuildsSession(op) THEN [built EXCEPT ![d] = Append(built[d], pending)] ELSE built
  BY DEF Decrypt, Awaits, RecordsInOrder, HeldInOrder, StoredInOrder
<1>2. PICK saved \in Decrypted(d, op) : saveRecord(d, saved)
  BY DEF Decrypt
<1>3. /\ UpToDate(op, record) /\ Received(d, op, sent)
      /\ OneSession(d, record, generated) /\ StartOfRecord(d, record, built[d])
      /\ built = [e \in Device |-> built[e]] /\ IsSeq(built[d])
      /\ \A m \in sent : StartOfMessage(m)
  BY <1>1 DEF Conversation, Operations, InPlace, Sessions, Counted, Messages
<1>4. records'[d] = saved
  BY <1>1, <1>2, DecryptedInOrder, Saved
<1>5. op.record = record /\ message.counter \in Nat /\ record.previousSessions = << >>
  BY <1>1, <1>3 DEF UpToDate, GoodOp, OneSession
<1>6. fresh[1] = Fresh(d, 1)
  BY SessionsAssumption DEF FreshPairs
<1>7. fresh = FreshPairs(d)
  OBVIOUS
<1> HIDE DEF op, record, fresh
<1>8. CASE saved \in decryptSignalMessage(record, message, fresh)
  <2> DEFINE session == record.currentSession
             left == decryptWithSession(session, message, fresh[1]).session
  <2>1. session # None /\ decryptWithSession(session, message, fresh[1]).ok /\ saved = RecordOf(left, << >>)
    BY <1>1, <1>5, <1>8, OneTrial
  <2>2. GoodSession(session) /\ Lineage(session)
    BY <1>1, <1>3, <2>1 DEF GoodRecord, OneSession
  <2>3. Advances(session, left, message, fresh[1])
    BY <1>5, <2>1, <2>2, AttemptAdvances
  <2>4. left = decryptWithSession(session, op.input, Fresh(d, 1)).session
    BY <1>6
  <2> HIDE DEF left
  <2>5. QED
    BY <1>4, <1>6, <2>1, <2>2, <2>3, <2>4 DEF Advanced, op, record
<1>9. CASE op.ctx # None /\ Existing(record, pending.baseKey) = {}
  <2>1. d # Opener /\ Starts(pending) /\ op.ctx.signedPreKey = signedPreKey(d)
    <3>1. PICK m \in sent : m.to = d /\ m.signal = message
      BY <1>1, <1>3 DEF Received
    <3>2. message.preKeyData # None /\ op.ctx.signedPreKey = signedPreKey(d)
      BY <1>1, <1>3, <1>9 DEF Received
    <3>3. QED
      BY <1>3, <3>1, <3>2 DEF StartOfMessage
  <2>2. BuildsSession(op)
    BY <1>5, <1>9 DEF BuildsSession
  <2> DEFINE was == built[d]
             now == Append(was, pending)
  <2>3. record.currentSession = None
    <3>1. SUFFICES ASSUME record.currentSession # None PROVE FALSE
      OBVIOUS
    <3>2. Len(was) # 0 /\ \A i \in 1 .. Len(was) : Starts(was[i])
      BY <1>3, <2>1, <3>1 DEF StartOfRecord
    <3>3. /\ Len(was) \in Nat /\ IsSeq(now) /\ Len(now) = Len(was) + 1 /\ now[Len(was) + 1] = pending
          /\ \A i \in 1 .. Len(was) : now[i] = was[i]
      BY <1>3, AppendElements DEF IsSeq
    <3>4. built'[d] = now
      BY <1>1, <1>3, <2>2
    <3> HIDE DEF was, now, pending
    <3>5. DOMAIN now = 1 .. Len(now)
      BY <3>3, SeqOfElements
    <3>6. 1 \in DOMAIN now /\ Len(now) \in DOMAIN now /\ 1 # Len(now) /\ 1 \in 1 .. Len(was)
      BY <3>2, <3>3, <3>5
    <3>7. now[1].baseKey # now[Len(now)].baseKey
      BY <3>4, <3>6 DEF BaseKeyBuildsOneSession
    <3>8. now[1].baseKey = TheBaseKey /\ now[Len(now)].baseKey = TheBaseKey
      BY <2>1, <3>2, <3>3, <3>6 DEF Starts
    <3>9. QED
      BY <3>7, <3>8
  <2> DEFINE session == createIncomingSession(op.ctx, message.preKeyData.identityKey, pending.baseKey)
             start == RecordOf(session, << >>)
             left == decryptWithSession(session, message, fresh[1]).session
  <2>4. GoodSession(session) /\ Lineage(session) /\ session.senderChain = None /\ session.ourRatchetKey = op.ctx.signedPreKey
    BY IncomingLineage
  <2>5. RecordForPreKeyMessage(record, message, op.ctx) = promoteSession(record, session)
    BY <1>9 DEF RecordForPreKeyMessage
  <2> HIDE DEF session
  <2>6. promoteSession(record, session) = start
    BY <1>1, <1>5, <2>3, NothingArchived
  <2>7. start.currentSession = session /\ start.previousSessions = << >> /\ GoodRecord(start)
    <3>1. start.currentSession = session /\ start.previousSessions = << >>
      BY DEF RecordOf
    <3>2. GoodSessions(<< >>)
      BY DEF GoodSessions, IsSeq
    <3>3. QED
      BY <2>4, <3>1, <3>2 DEF GoodRecord
  <2>8. saved \in decryptSignalMessage(start, message, fresh)
    BY <1>2, <1>5, <1>7, <1>9, <2>5, <2>6 DEF Decrypted, decryptPreKeyMessage, op
  <2> HIDE DEF start
  <2>9. decryptWithSession(session, message, fresh[1]).ok /\ saved = RecordOf(left, << >>)
    BY <1>5, <2>7, <2>8, OneTrial
  <2>10. Advances(session, left, message, fresh[1])
    BY <1>5, <2>4, <2>9, AttemptAdvances
  <2>11. left = decryptWithSession(session, op.input, Fresh(d, 1)).session
    BY <1>6
  <2> HIDE DEF left
  <2>12. Advanced(d, op, record, session)
    BY <2>1, <2>2, <2>3, <2>4 DEF Advanced, session
  <2>13. QED
    BY <1>4, <1>6, <2>4, <2>9, <2>10, <2>11, <2>12 DEF op, record
<1>10. QED
  <2>1. \/ op.ctx = None
        \/ RecordForPreKeyMessage(record, message, op.ctx) = record
        \/ op.ctx # None /\ Existing(record, pending.baseKey) = {}
    BY DEF RecordForPreKeyMessage
  <2>2. \/ op.ctx # None /\ Existing(record, pending.baseKey) = {}
        \/ saved \in decryptSignalMessage(record, message, fresh)
    BY <1>2, <1>5, <1>7, <2>1 DEF Decrypted, decryptPreKeyMessage, op
  <2>3. QED
    BY <1>8, <1>9, <2>2

----------------------------------------------------------------------------
(* The steps.  Each lemma is about one action, or about those that move an *)
(* operation on and touch nothing else the invariant speaks of.            *)

\* Only one slot changes.
OneSlot(d, s) == \A e \in Device, t \in Slots : (e # d \/ t # s) => ops'[e][t] = ops[e][t]

\* Only an operation moves, and it hands out nothing.
LEMMA OperationMoves ==
  ASSUME OneAtATime, Conversation, NEW d \in Device, NEW s \in Slots, OneSlot(d, s),
         UNCHANGED <<records, generated, built, sent, delivered>>,
         \A e \in Device : e # d => opens'[e] = opens[e],
         InPlace(d, ops'[d][s], records[d], sent, opens'[d]), ~Releasing(ops'[d][s]),
         \A b : HandingOut(ops'[d][s], b) => HandingOut(ops[d][s], b),
         Counted', OpenedOnce(records, opens', served', sent, generated), BodiesApart(sent, ops', bodies')
  PROVE  Conversation'
<1>1. \A t \in Slots : t = s
  BY DEF OneAtATime
<1>2. Operations(ops', records', sent', opens')
  BY <1>1 DEF Conversation, Operations, OneSlot
<1>3. Messages(sent', records', ops', generated')
  <2>1. \A m \in sent : \A e \in Device, t \in Slots : Unreleased(m, ops'[e][t])
    BY DEF Conversation, Messages, OneSlot, Unreleased
  <2>2. QED
    BY <2>1 DEF Conversation, Messages
<1>4. HandedOutOnce(sent', records', ops', delivered')
  <2>1. \A e \in Device, t \in Slots : \A b : HandingOut(ops'[e][t], b) => HandingOut(ops[e][t], b)
    BY DEF OneSlot
  <2>2. \A b : HandedOut(b, ops', delivered') => HandedOut(b, ops, delivered)
    BY <2>1 DEF HandedOut
  <2>3. /\ \A m \in sent : HandedOut(m.signal.body, ops, delivered) =>
             records[m.to].currentSession # None /\ Gone(records[m.to].currentSession, m.signal.mac.key)
        /\ \A e \in Device, t \in Slots, b \in Bodies : HandingOut(ops[e][t], b) => delivered[b] = 0
        /\ \A b \in Bodies : delivered[b] # 0 => \E m \in sent : m.signal.body = b
    BY DEF Conversation, HandedOutOnce
  <2>4. \A m \in sent : HandedOut(m.signal.body, ops', delivered') =>
          records[m.to].currentSession # None /\ Gone(records[m.to].currentSession, m.signal.mac.key)
    BY <2>2, <2>3
  <2>5. \A e \in Device, t \in Slots, b \in Bodies : HandingOut(ops'[e][t], b) => delivered[b] = 0
    <3>1. TAKE e \in Device, t \in Slots, b \in Bodies
    <3>2. HandingOut(ops'[e][t], b) => HandingOut(ops[e][t], b)
      BY <2>1
    <3>3. QED
      BY <2>3, <3>2
  <2>6. HandedOutOnce(sent, records, ops', delivered')
    BY <2>3, <2>4, <2>5 DEF HandedOutOnce
  <2>7. QED
    BY <2>6
<1>5. MessageKeysSealOneMessage'
  BY DEF Conversation, MessageKeysSealOneMessage
<1>6. QED
  BY <1>2, <1>3, <1>4, <1>5 DEF Conversation

\* No operation encrypts that did not.
LEMMA BodiesLeftAlone ==
  ASSUME BodiesApart(sent, ops, bodies), NEW d \in Device, NEW s \in Slots, OneSlot(d, s), ~Encrypting(ops'[d][s])
  PROVE  BodiesApart(sent, ops', bodies)
<1>1. \A e \in Device, t \in Slots : Encrypting(ops'[e][t]) => Encrypting(ops[e][t]) /\ ops'[e][t] = ops[e][t]
  BY DEF OneSlot
<1>2. QED
  BY <1>1 DEF BodiesApart

\* Messages come in, have their keys looked up, fail, and are done with.
LEMMA DecryptionMoves ==
  ASSUME OneAtATime, RecordsInOrder, Conversation, NEW d \in Device, NEW s \in Slots,
         \/ \E message \in sent : StartDecrypt(d, s, message)
         \/ ResolveKeys(d, s)
         \/ DecryptFails(d, s)
         \/ DeletePreKey(d, s)
  PROVE  Conversation'
<1>1. /\ OpsByDevice /\ \A e \in Device, t \in Slots : ops[e][t] # None => GoodOp(ops[e][t])
  BY DEF RecordsInOrder, HeldInOrder
<1>2. UNCHANGED <<records, generated, built, sent, delivered, opens, served, bodies>>
  BY DEF StartDecrypt, ResolveKeys, DecryptFails, DeletePreKey
<1>3. SUFFICES ASSUME /\ OneSlot(d, s) /\ ~Encrypting(ops'[d][s])
                      /\ InPlace(d, ops'[d][s], records[d], sent, opens[d])
                      /\ \A b : HandingOut(ops'[d][s], b) => HandingOut(ops[d][s], b)
               PROVE  Conversation'
  <2>1. InPlace(d, ops[d][s], records[d], sent, opens[d])
    BY DEF Conversation, Operations
  <2> DEFINE Moved(op) == /\ ~Encrypting(op) /\ InPlace(d, op, records[d], sent, opens[d])
                          /\ \A b : HandingOut(op, b) => HandingOut(ops[d][s], b)
  <2>2. SUFFICES OneSlot(d, s) /\ Moved(ops'[d][s])
    BY <1>3
  <2>3. Moved(None)
    BY DEF Encrypting, InPlace, HandingOut
  <2>4. CASE \E message \in sent : StartDecrypt(d, s, message)
    <3>1. PICK message \in sent : StartDecrypt(d, s, message)
      BY <2>4
    <3> DEFINE op == [kind |-> "decrypt", step |-> IF message.signal.preKeyData = None THEN "save" ELSE "resolve",
                      input |-> message.signal, ctx |-> None, record |-> records[d]]
    <3>2. Begin(d, s, op) /\ message.to = d
      BY <3>1 DEF StartDecrypt
    <3>3. /\ op.kind = "decrypt" /\ op.input = message.signal /\ op.ctx = None /\ op.record = records[d]
          /\ op.step = "save" \/ (op.step = "resolve" /\ message.signal.preKeyData # None)
      OBVIOUS
    <3> HIDE DEF op
    <3>4. ops'[d][s] = op /\ OneSlot(d, s)
      BY <1>1, <3>2, Began DEF OneSlot
    <3>5. InPlace(d, op, records[d], sent, opens[d])
      BY <3>2, <3>3 DEF InPlace, UpToDate, Received, Opening
    <3>6. Moved(op)
      BY <3>3, <3>5 DEF Encrypting, HandingOut
    <3>7. QED
      BY <3>4, <3>6
  <2>5. CASE ResolveKeys(d, s)
    <3>1. /\ ops[d][s] # None /\ ops[d][s].kind = "decrypt" /\ ops[d][s].step = "resolve"
          /\ ops' = WithOp(ops, d, s, Resolved(d, ops[d][s])) \/ Finish(d, s)
      BY <2>5 DEF ResolveKeys, Awaits, WithOp
    <3>2. CASE Finish(d, s)
      BY <1>1, <2>3, <3>2, Finished DEF OneSlot
    <3>3. CASE ops' = WithOp(ops, d, s, Resolved(d, ops[d][s]))
      <4> DEFINE op == Resolved(d, ops[d][s])
      <4>1. /\ op.kind = "decrypt" /\ op.step = "save" /\ op.input = ops[d][s].input /\ op.record = ops[d][s].record
            /\ op.ctx.signedPreKey = signedPreKey(d)
        BY DEF Resolved
      <4> HIDE DEF op
      <4>2. ops'[d][s] = op /\ OneSlot(d, s)
        BY <1>1, <3>3, SlotChanged DEF OpsByDevice, OneSlot, op
      <4>3. InPlace(d, op, records[d], sent, opens[d])
        BY <2>1, <3>1, <4>1 DEF InPlace, UpToDate, Received, Opening
      <4>4. Moved(op)
        BY <4>1, <4>3 DEF Encrypting, HandingOut
      <4>5. QED
        BY <4>2, <4>4
    <3>4. QED
      BY <3>1, <3>2, <3>3
  <2>6. CASE DecryptFails(d, s)
    <3>1. Finish(d, s)
      BY <2>6 DEF DecryptFails
    <3>2. QED
      BY <1>1, <2>3, <3>1, Finished DEF OneSlot
  <2>7. CASE DeletePreKey(d, s)
    <3>1. /\ ops[d][s] # None /\ ops[d][s].kind = "decrypt" /\ ops[d][s].step = "delete"
          /\ Goto(d, s, "return") /\ GoodOp(ops[d][s])
      BY <1>1, <2>7 DEF DeletePreKey, Awaits
    <3> DEFINE op == ops'[d][s]
    <3>2. /\ op.kind = "decrypt" /\ op.step = "return" /\ op.input = ops[d][s].input /\ op.ctx = ops[d][s].ctx
          /\ OneSlot(d, s)
      BY <1>1, <3>1, WentOn DEF OneSlot
    <3> HIDE DEF op
    <3>3. InPlace(d, op, records[d], sent, opens[d])
      BY <2>1, <3>1, <3>2 DEF InPlace, UpToDate, Received, Opening
    <3>4. Moved(op)
      BY <3>1, <3>2, <3>3 DEF Encrypting, HandingOut
    <3>5. QED
      BY <3>2, <3>4 DEF op
  <2>8. QED
    BY <2>4, <2>5, <2>6, <2>7
<1>4. ~Releasing(ops'[d][s])
  BY <1>3 DEF Encrypting, Releasing
<1>5. BodiesApart(sent, ops', bodies')
  BY <1>2, <1>3, BodiesLeftAlone DEF Conversation
<1>6. OpenedOnce(records, opens', served', sent, generated)
  BY <1>2 DEF Conversation
<1>7. Counted'
  BY <1>2 DEF Conversation, Counted
<1>8. QED
  BY <1>2, <1>3, <1>4, <1>5, <1>6, <1>7, OperationMoves

\* The opener fetches a bundle; with one-time pre-keys uploaded it has one.
LEMMA StartOpenKeeps ==
  ASSUME OneAtATime, OneOpening, RecordsInOrder, Conversation, NEW d \in Device, NEW s \in Slots, StartOpen(d, s)
  PROVE  Conversation'
<1> DEFINE peer == Peer(d)
           left == InitialPreKeys[peer] \ served[peer]
           preKey == IF left = {} THEN None ELSE preKeyPair(peer, Min(left))
           bundle == [identityKey |-> identityKey(peer), signedPreKey |-> signedPreKey(peer), preKey |-> preKey]
           op == [kind |-> "open", step |-> "save", input |-> bundle, record |-> records[d]]
<1>1. /\ Begin(d, s, op) /\ opens[d] < MaxOpens[d] /\ opens' = [opens EXCEPT ![d] = @ + 1]
      /\ served' = served \/ served' = [served EXCEPT ![peer] = @ \union {Min(left)}]
      /\ UNCHANGED <<records, generated, built, sent, delivered, bodies>>
  BY DEF StartOpen
<1>2. Counted /\ OpenedOnce(records, opens, served, sent, generated) /\ BodiesApart(sent, ops, bodies)
  BY DEF Conversation
<1>3. d = Opener /\ opens[d] = 0 /\ opens'[d] = 1
  <2>1. opens = [e \in Device |-> opens[e]] /\ opens[d] \in Nat /\ MaxOpens[d] \in Nat
    BY <1>2, DevicesAssumption DEF Counted
  <2>2. d = Opener /\ MaxOpens[d] <= 1
    BY <1>1, <2>1, TheOpener
  <2>3. QED
    BY <1>1, <2>1, <2>2
<1>4. \A e \in Device : e # d => opens'[e] = opens[e]
  BY <1>1, <1>2 DEF Counted
<1>5. records[d].currentSession = None /\ served[peer] = {}
  BY <1>2, <1>3 DEF OpenedOnce
<1>6. Stocked => preKey = TheOneTimeKey
  <2>1. left = InitialPreKeys[peer]
    BY <1>5
  <2>2. QED
    BY <1>3, <2>1 DEF Stocked, TheOneTimeKey
<1> HIDE DEF preKey
<1>7. /\ op.kind = "open" /\ op.step = "save" /\ op.record = records[d]
      /\ op.input.signedPreKey = signedPreKey(peer) /\ (Stocked => op.input.preKey = TheOneTimeKey)
  BY <1>6
<1> HIDE DEF op
<1>8. ops'[d][s] = op /\ OneSlot(d, s)
  BY <1>1, Began DEF OneSlot, RecordsInOrder, HeldInOrder
<1>9. InPlace(d, op, records[d], sent, opens'[d])
  BY <1>3, <1>5, <1>7 DEF InPlace, UpToDate, Received, Opening
<1>10. ~Releasing(op) /\ ~Encrypting(op) /\ \A b : ~HandingOut(op, b)
  BY <1>7 DEF Releasing, Encrypting, HandingOut
<1>11. Counted'
  <2>1. opens' = [e \in Device |-> opens'[e]] /\ served' = [e \in Device |-> served'[e]]
    BY <1>1, <1>2 DEF Counted
  <2>2. \A e \in Device : opens'[e] \in Nat /\ opens'[e] <= MaxOpens[e]
    BY <1>1, <1>2, <1>3, <1>4, DevicesAssumption DEF Counted
  <2>3. QED
    BY <1>1, <1>2, <2>1, <2>2 DEF Counted
<1>12. OpenedOnce(records, opens', served', sent, generated)
  BY <1>2, <1>3 DEF OpenedOnce
<1>13. BodiesApart(sent, ops', bodies')
  BY <1>1, <1>2, <1>8, <1>10, BodiesLeftAlone
<1>14. QED
  BY <1>1, <1>4, <1>8, <1>9, <1>10, <1>11, <1>12, <1>13, OperationMoves

\* A body is taken, and the stored record loaded.
LEMMA StartEncryptKeeps ==
  ASSUME OneAtATime, RecordsInOrder, Conversation, NEW d \in Device, NEW s \in Slots, StartEncrypt(d, s)
  PROVE  Conversation'
<1> DEFINE op == [kind |-> "encrypt", step |-> "save", input |-> bodies + 1, record |-> records[d]]
<1>1. /\ Begin(d, s, op) /\ bodies < MaxBodies /\ bodies' = bodies + 1
      /\ UNCHANGED <<records, generated, built, sent, delivered, opens, served>>
  BY DEF StartEncrypt
<1>2. op.kind = "encrypt" /\ op.step = "save" /\ op.input = bodies + 1 /\ op.record = records[d]
  OBVIOUS
<1> HIDE DEF op
<1>3. ops'[d][s] = op /\ OneSlot(d, s)
  BY <1>1, Began DEF OneSlot, RecordsInOrder, HeldInOrder
<1>4. InPlace(d, op, records[d], sent, opens[d])
  BY <1>2 DEF InPlace, UpToDate, Received, Opening
<1>5. ~Releasing(op) /\ \A b : ~HandingOut(op, b)
  BY <1>2 DEF Releasing, HandingOut
<1>6. bodies \in Nat /\ bodies' \in 0 .. MaxBodies
  BY <1>1, DevicesAssumption DEF Conversation, Counted
<1>7. Counted'
  BY <1>1, <1>6 DEF Conversation, Counted
<1>8. BodiesApart(sent, ops', bodies')
  <2>1. BodiesApart(sent, ops, bodies)
    BY DEF Conversation
  <2>2. \A m \in sent : m.signal.body \in 1 .. bodies' /\ m.signal.body # bodies + 1
    BY <1>1, <1>6, <2>1 DEF BodiesApart
  <2>3. \A m, n \in sent : m.signal.body = n.signal.body => m = n
    BY <2>1 DEF BodiesApart
  <2>4. \A t \in Slots : t = s
    BY DEF OneAtATime
  <2>5. \A e \in Device, t \in Slots : \/ e = d /\ ops'[e][t] = op
                                       \/ e # d /\ ops'[e][t] = ops[e][t]
    BY <1>3, <2>4 DEF OneSlot
  <2>6. \A e \in Device, t \in Slots : Encrypting(ops[e][t]) =>
          /\ ops[e][t].input \in 1 .. bodies /\ ops[e][t].input \in 1 .. bodies' /\ ops[e][t].input # bodies + 1
          /\ \A m \in sent : m.signal.body # ops[e][t].input
          /\ \A f \in Device, u \in Slots : (Encrypting(ops[f][u]) /\ f # e) => ops[f][u].input # ops[e][t].input
    BY <1>1, <1>6, <2>1 DEF BodiesApart
  <2>7. ASSUME NEW e \in Device, NEW t \in Slots, Encrypting(ops'[e][t])
        PROVE  /\ ops'[e][t].input \in 1 .. bodies' /\ \A m \in sent : m.signal.body # ops'[e][t].input
               /\ \A f \in Device, u \in Slots : (Encrypting(ops'[f][u]) /\ f # e) => ops'[f][u].input # ops'[e][t].input
    <3>1. CASE e = d
      <4>1. ops'[e][t].input = bodies + 1
        BY <1>2, <2>5, <3>1
      <4>2. \A f \in Device, u \in Slots : f # e => ops'[f][u] = ops[f][u]
        BY <2>5, <3>1
      <4>3. QED
        BY <1>1, <1>6, <2>2, <2>6, <4>1, <4>2
    <3>2. CASE e # d
      <4>1. ops'[e][t] = ops[e][t] /\ Encrypting(ops[e][t])
        BY <2>5, <2>7, <3>2
      <4>2. ASSUME NEW f \in Device, NEW u \in Slots, Encrypting(ops'[f][u]), f # e
            PROVE  ops'[f][u].input # ops'[e][t].input
        <5>1. CASE f = d
          BY <1>2, <2>5, <2>6, <4>1, <5>1
        <5>2. CASE f # d
          BY <2>5, <2>6, <4>1, <4>2, <5>2
        <5>3. QED
          BY <5>1, <5>2
      <4>3. QED
        BY <2>6, <4>1, <4>2
    <3>3. QED
      BY <3>1, <3>2
  <2>8. QED
    BY <2>2, <2>3, <2>7 DEF BodiesApart
<1>9. OpenedOnce(records, opens', served', sent, generated)
  BY <1>1 DEF Conversation
<1>10. QED
  BY <1>1, <1>3, <1>4, <1>5, <1>7, <1>8, <1>9, OperationMoves

\* The first key of a new sending chain.
LEMMA FirstSealingKey ==
  ASSUME NEW record, NEW ratchetKey, NEW seed, record.currentSession.senderChain = newChain(ratchetKey, seed)
  PROVE  SealingKey(record).seed = seed /\ SealingKey(record).turns = 0
<1>1. newChain(ratchetKey, seed).chainKey.key = Key(seed, 0)
  BY DEF newChain
<1>2. SealingKey(record) = Key(seed, 0)
  BY <1>1 DEF SealingKey
<1>3. QED
  BY <1>2 DEF Key

\* The outgoing session has a sending chain of its own and no receiving one.
LEMMA OutgoingLineage ==
  ASSUME NEW identity, NEW bundle, NEW baseKey, NEW ourRatchet
  PROVE  LET session == createOutgoingSession(identity, bundle, baseKey, ourRatchet)
         IN  /\ GoodSession(session) /\ Lineage(session) /\ session.ourRatchetKey = ourRatchet
             /\ session.senderChain = newChain(ourRatchet, session.rootKey)
             /\ Last(session.rootKey) = sharedKey(ourRatchet, bundle.signedPreKey)
             /\ session.pendingPreKey.baseKey = baseKey /\ session.pendingPreKey.preKey = bundle.preKey
<1> DEFINE session == createOutgoingSession(identity, bundle, baseKey, ourRatchet)
           secret == calculateInitiatorSecret(identity, baseKey, bundle)
           sending == deriveRootKey(<<secret>>, sharedKey(ourRatchet, bundle.signedPreKey))
<1>1. /\ session.rootKey = sending /\ session.ourRatchetKey = ourRatchet /\ session.receiverChains = << >>
      /\ session.senderChain = newChain(ourRatchet, sending)
      /\ session.pendingPreKey.baseKey = baseKey /\ session.pendingPreKey.preKey = bundle.preKey
  BY DEF createOutgoingSession, deriveInitialKeys
<1>2. IsSeq(<<secret>>)
  BY DEF IsSeq
<1>3. IsSeq(sending) /\ Last(sending) = sharedKey(ourRatchet, bundle.signedPreKey)
  BY <1>2, LastOfRootKey
<1> HIDE DEF session, sending
<1>4. Lineage(session)
  BY <1>1, <1>3 DEF Lineage
<1>5. QED
  BY <1>1, <1>3, <1>4, OutgoingInOrder DEF session

\* The session is stored: the first, before anything has been sent.
LEMMA OpenKeeps ==
  ASSUME OneAtATime, OneOpening, RecordsInOrder, Conversation, NEW d \in Device, NEW s \in Slots, Open(d, s)
  PROVE  Conversation'
<1> DEFINE op == ops[d][s]
           session == createOutgoingSession(identityKey(d), op.input, Fresh(d, 1), Fresh(d, 2))
           left == RecordOf(session, << >>)
<1>1. /\ op # None /\ op.kind = "open" /\ op.step = "save"
      /\ saveRecord(d, promoteSession(op.record, session))
      /\ generated' = [generated EXCEPT ![d] = @ + 2] /\ Finish(d, s)
      /\ UNCHANGED <<preKeys, served, sent, bodies, opens, delivered, built, crashes>>
  BY DEF Open, Awaits
<1>2. /\ Counted /\ OpenedOnce(records, opens, served, sent, generated) /\ BodiesApart(sent, ops, bodies)
      /\ Operations(ops, records, sent, opens) /\ Sessions(records, generated, built)
      /\ HandedOutOnce(sent, records, ops, delivered)
  BY DEF Conversation
<1>3. /\ op.record = records[d] /\ d = Opener /\ records[d].currentSession = None /\ opens[d] # 0
      /\ op.input.signedPreKey = signedPreKey(Peer(d)) /\ (Stocked => op.input.preKey = TheOneTimeKey)
  BY <1>1, <1>2 DEF Operations, InPlace, UpToDate, Opening
<1>4. /\ \A e \in Device : records[e].currentSession = None
      /\ sent = {} /\ generated[d] = 0
  BY <1>2, <1>3 DEF OpenedOnce
<1>5. /\ GoodSession(session) /\ Lineage(session) /\ session.ourRatchetKey = Fresh(d, 2)
      /\ session.senderChain = newChain(Fresh(d, 2), session.rootKey)
      /\ Last(session.rootKey) = sharedKey(Fresh(d, 2), op.input.signedPreKey)
      /\ session.pendingPreKey.baseKey = Fresh(d, 1) /\ session.pendingPreKey.preKey = op.input.preKey
  BY OutgoingLineage
<1>6. GoodRecord(records[d]) /\ RecordsByDevice /\ OpsByDevice /\ records[d].previousSessions = << >>
  BY <1>2 DEF RecordsInOrder, StoredInOrder, HeldInOrder, Sessions, OneSession
<1> HIDE DEF session
<1>7. promoteSession(op.record, session) = left
  BY <1>3, <1>6, NothingArchived
<1>8. left.currentSession = session /\ left.previousSessions = << >> /\ GoodRecord(left)
  <2>1. left.currentSession = session /\ left.previousSessions = << >>
    BY DEF RecordOf
  <2>2. GoodSessions(<< >>)
    BY DEF GoodSessions, IsSeq
  <2>3. QED
    BY <1>5, <2>1, <2>2 DEF GoodRecord
<1> HIDE DEF left
<1>9. records'[d] = left /\ \A e \in Device : e # d => records'[e] = records[e]
  BY <1>1, <1>6, <1>7, <1>8, Saved
<1>10. ops'[d][s] = None /\ OneSlot(d, s)
  BY <1>1, <1>6, Finished DEF OneSlot
<1>11. Fresh(d, 1) = <<d, "generated", 1>> /\ Fresh(d, 2) = <<d, "generated", 2>>
  BY <1>4 DEF Fresh, generateKeyPair
<1>12. /\ generated' = [e \in Device |-> generated'[e]] /\ generated'[d] = 2
       /\ \A e \in Device : generated'[e] \in Nat /\ (e # d => generated'[e] = generated[e])
  BY <1>1, <1>2, <1>4 DEF Counted
<1>13. Counted'
  BY <1>1, <1>2, <1>12 DEF Counted
<1>14. SealingKey(left).seed = session.rootKey
  BY <1>5, <1>8, FirstSealingKey
<1>15. Sessions(records', generated', built')
  <2>1. OneSession(d, left, generated')
    BY <1>5, <1>8, <1>11, <1>12 DEF OneSession, Made
  <2>2. StartOfRecord(d, left, built[d])
    <3>1. Starts(session.pendingPreKey)
      BY <1>3, <1>5, <1>11 DEF Starts, TheBaseKey, generateKeyPair
    <3>2. StartOfRecord(d, records[d], built[d])
      BY <1>2 DEF Sessions
    <3>3. QED
      BY <1>3, <1>8, <3>1, <3>2 DEF StartOfRecord
  <2>3. FreshSeed(left, generated')
    <3>1. MadeFrom(generated', Last(session.rootKey))
      <4>1. op.input.signedPreKey = <<Peer(d), "signedPreKey", 0>> /\ Peer(d) \in Device
        BY <1>3, Peers DEF signedPreKey
      <4>2. Made(generated', Fresh(d, 2)) /\ Made(generated', op.input.signedPreKey)
        BY <1>11, <1>12, <4>1 DEF Made
      <4>3. QED
        BY <1>5, <4>2 DEF MadeFrom, sharedKey
    <3>2. IsSeq(session.rootKey)
      BY <1>5 DEF Lineage
    <3>3. QED
      BY <1>14, <3>1, <3>2 DEF FreshSeed
  <2>4. \A e \in Device : e # d => /\ OneSession(e, records[e], generated') /\ StartOfRecord(e, records[e], built[e])
                                   /\ FreshSeed(records[e], generated')
    BY <1>2, <1>4 DEF Sessions, OneSession, FreshSeed, CanEncrypt
  <2>5. QED
    BY <1>1, <1>9, <2>1, <2>2, <2>3, <2>4 DEF Sessions
<1>16. SeedsApart(records')
  BY <1>4, <1>9 DEF SeedsApart, CanEncrypt
<1>17. \A t \in Slots : t = s
  BY DEF OneAtATime
<1>18. Operations(ops', records', sent', opens')
  BY <1>1, <1>2, <1>9, <1>10, <1>17 DEF Operations, OneSlot, InPlace
<1>19. OpenedOnce(records', opens', served', sent', generated')
  <2>1. session # None
    BY <1>5, SessionsAreSomething
  <2>2. QED
    BY <1>1, <1>3, <1>8, <1>9, <2>1 DEF OpenedOnce
<1>20. Messages(sent', records', ops', generated') /\ MessageKeysSealOneMessage'
  BY <1>1, <1>4 DEF Messages, MessageKeysSealOneMessage
<1>21. BodiesApart(sent', ops', bodies')
  <2>1. ~Encrypting(ops'[d][s])
    BY <1>10 DEF Encrypting
  <2>2. BodiesApart(sent, ops', bodies)
    BY <1>2, <1>10, <2>1, BodiesLeftAlone
  <2>3. QED
    BY <1>1, <2>2
<1>22. HandedOutOnce(sent', records', ops', delivered')
  <2>1. \A e \in Device, t \in Slots : \A b : HandingOut(ops'[e][t], b) => HandingOut(ops[e][t], b)
    BY <1>10 DEF OneSlot, HandingOut
  <2>2. \A e \in Device, t \in Slots, b \in Bodies : HandingOut(ops'[e][t], b) => delivered[b] = 0
    <3>1. TAKE e \in Device, t \in Slots, b \in Bodies
    <3>2. HandingOut(ops'[e][t], b) => HandingOut(ops[e][t], b)
      BY <2>1
    <3>3. QED
      BY <1>2, <3>2 DEF HandedOutOnce
  <2>3. \A b \in Bodies : delivered[b] # 0 => \E m \in sent : m.signal.body = b
    BY <1>2 DEF HandedOutOnce
  <2>4. HandedOutOnce(sent, records', ops', delivered)
    BY <1>4, <2>2, <2>3 DEF HandedOutOnce
  <2>5. QED
    BY <1>1, <2>4
<1>23. QED
  BY <1>13, <1>15, <1>16, <1>18, <1>19, <1>20, <1>21, <1>22 DEF Conversation

\* Encrypting turns the sending chain and nothing else.
LEMMA SealingKeyTurned ==
  ASSUME NEW record, GoodRecord(record), CanEncrypt(record)
  PROVE  LET left == AfterEncrypt(record)
             was == record.currentSession
             now == left.currentSession
             key == SealingKey(record)
         IN  /\ GoodRecord(left) /\ CanEncrypt(left) /\ left.previousSessions = record.previousSessions
             /\ now.rootKey = was.rootKey /\ now.receiverChains = was.receiverChains
             /\ now.ourRatchetKey = was.ourRatchetKey /\ now.pendingPreKey = was.pendingPreKey
             /\ key = Key(key.seed, key.turns) /\ key.turns \in Nat
             /\ SealingKey(left) = Key(key.seed, key.turns + 1)
<1> DEFINE left == AfterEncrypt(record)
           was == record.currentSession
           chain == was.senderChain
           n == chain.chainKey.index
           seed == SeedOf(chain)
           turned == ChainOf(chain.ratchetKey, seed, n + 1, << >>)
           now == SessionOf(was.localIdentity, was.remoteIdentity, was.rootKey, was.ourRatchetKey, turned,
                            was.receiverChains, was.pendingPreKey)
<1>1. SendsInOrder(was) /\ left = RecordOf(now, record.previousSessions) /\ GoodRecord(left)
  BY SendingChainTurned
<1>2. chain = ChainOf(chain.ratchetKey, seed, n, << >>) /\ n \in Nat
  BY <1>1 DEF SendsInOrder, InOrder
<1>3. chain.chainKey.key = Key(seed, n)
  <2> HIDE DEF n, seed, chain
  <2>1. QED
    BY <1>2 DEF ChainOf
<1>4. turned.chainKey.key = Key(seed, n + 1)
  BY DEF ChainOf
<1>5. SealingKey(record) = Key(seed, n)
  BY <1>3 DEF SealingKey
<1> HIDE DEF left, turned, n, seed
<1>6. /\ now.rootKey = was.rootKey /\ now.receiverChains = was.receiverChains /\ now.senderChain = turned
      /\ now.ourRatchetKey = was.ourRatchetKey /\ now.pendingPreKey = was.pendingPreKey
  BY DEF SessionOf
<1> HIDE DEF now
<1>7. left.currentSession = now /\ left.previousSessions = record.previousSessions
  BY <1>1 DEF RecordOf
<1>8. SealingKey(left) = Key(seed, n + 1)
  BY <1>4, <1>6, <1>7 DEF SealingKey
<1>9. SealingKey(record).seed = seed /\ SealingKey(record).turns = n
  BY <1>5 DEF Key
<1>10. CanEncrypt(left)
  <2>1. turned # None
    <3>1. \A a, b, c, e : DOMAIN ChainOf(a, b, c, e) = {"ratchetKey", "chainKey", "messageKeys"}
      BY DEF ChainOf
    <3>2. "chainKey" \in DOMAIN turned
      BY <3>1 DEF turned
    <3>3. DOMAIN << >> = {}
      OBVIOUS
    <3>4. QED
      BY <3>2, <3>3 DEF None
  <2>2. now # None
    <3>1. \A a, b, c, e, f, g, h : DOMAIN SessionOf(a, b, c, e, f, g, h) =
        {"localIdentity", "remoteIdentity", "rootKey", "ourRatchetKey", "senderChain", "receiverChains", "pendingPreKey"}
      BY DEF SessionOf
    <3>2. "rootKey" \in DOMAIN now
      BY <3>1 DEF now
    <3>3. DOMAIN << >> = {}
      OBVIOUS
    <3>4. QED
      BY <3>2, <3>3 DEF None
  <2>3. QED
    BY <1>6, <1>7, <2>1, <2>2 DEF CanEncrypt
<1>11. QED
  BY <1>1, <1>2, <1>5, <1>6, <1>7, <1>8, <1>9, <1>10 DEF left

\* The record is saved with the sending chain turned: the message it will be
\* released with is behind it.
LEMMA EncryptKeeps ==
  ASSUME OneAtATime, OneOpening, RecordsInOrder, Conversation, NEW d \in Device, NEW s \in Slots, Encrypt(d, s)
  PROVE  Conversation'
<1> DEFINE op == ops[d][s]
           record == records[d]
           left == AfterEncrypt(record)
           key == SealingKey(record)
           was == record.currentSession
           now == left.currentSession
<1>1. /\ op # None /\ op.kind = "encrypt" /\ op.step = "save"
      /\ saveRecord(d, AfterEncrypt(op.record)) /\ Goto(d, s, "return")
      /\ UNCHANGED <<preKeys, served, generated, sent, bodies, opens, delivered, built, crashes>>
  BY DEF Encrypt, Awaits
<1>2. /\ Counted /\ OpenedOnce(records, opens, served, sent, generated) /\ BodiesApart(sent, ops, bodies)
      /\ Operations(ops, records, sent, opens) /\ Sessions(records, generated, built) /\ SeedsApart(records)
      /\ Messages(sent, records, ops, generated) /\ MessageKeysSealOneMessage
      /\ HandedOutOnce(sent, records, ops, delivered)
  BY DEF Conversation
<1>3. /\ RecordsByDevice /\ OpsByDevice /\ \A e \in Device : GoodRecord(records[e])
      /\ GoodOp(op) /\ CanEncrypt(op.record)
  BY <1>1 DEF RecordsInOrder, StoredInOrder, HeldInOrder, GoodOp
<1>4. op.record = record /\ InPlace(d, op, record, sent, opens[d])
  BY <1>1, <1>2 DEF Operations, InPlace, UpToDate
<1>5. /\ GoodRecord(left) /\ CanEncrypt(left) /\ left.previousSessions = record.previousSessions
      /\ now.rootKey = was.rootKey /\ now.receiverChains = was.receiverChains
      /\ now.ourRatchetKey = was.ourRatchetKey /\ now.pendingPreKey = was.pendingPreKey
      /\ key = Key(key.seed, key.turns) /\ key.turns \in Nat
      /\ SealingKey(left) = Key(key.seed, key.turns + 1)
  BY <1>3, <1>4, SealingKeyTurned
<1>6. was # None /\ now # None /\ SealingKey(left).seed = key.seed /\ SealingKey(left).turns = key.turns + 1
  BY <1>3, <1>4, <1>5 DEF CanEncrypt, Key
<1> DEFINE moved == ops'[d][s]
<1>7. /\ moved.kind = "encrypt" /\ moved.step = "return" /\ moved.input = op.input /\ moved.record = record
      /\ OneSlot(d, s)
  BY <1>1, <1>3, <1>4, WentOn DEF OneSlot
<1>8. records'[d] = left /\ \A e \in Device : e # d => records'[e] = records[e]
  BY <1>1, <1>3, <1>4, <1>5, Saved
<1>9. \A t \in Slots : t = s
  BY DEF OneAtATime
<1> HIDE DEF left, key, was, now, moved, op, record
<1>10. Counted'
  BY <1>1, <1>2 DEF Counted
<1>11. Sessions(records', generated', built')
  <2>1. OneSession(d, record, generated) /\ StartOfRecord(d, record, built[d]) /\ FreshSeed(record, generated)
    BY <1>2 DEF Sessions, record
  <2>2. OneSession(d, left, generated)
    BY <1>5, <1>6, <2>1 DEF OneSession, Lineage, was, now
  <2>3. StartOfRecord(d, left, built[d])
    BY <1>5, <1>6, <2>1 DEF StartOfRecord, was, now
  <2>4. FreshSeed(left, generated)
    BY <1>3, <1>4, <1>6, <2>1 DEF FreshSeed, key
  <2>5. QED
    BY <1>1, <1>2, <1>8, <2>2, <2>3, <2>4 DEF Sessions
<1>12. SeedsApart(records')
  <2>1. \A e \in Device : CanEncrypt(records'[e]) =>
          CanEncrypt(records[e]) /\ SealingKey(records'[e]).seed = SealingKey(records[e]).seed
    BY <1>3, <1>4, <1>6, <1>8 DEF record, key
  <2>2. QED
    BY <1>2, <2>1 DEF SeedsApart
<1>13. Operations(ops', records', sent', opens')
  <2>1. InPlace(d, moved, left, sent, opens[d])
    BY <1>7 DEF InPlace, UpToDate, Received, Opening, left
  <2>2. QED
    BY <1>1, <1>2, <1>7, <1>8, <1>9, <2>1 DEF Operations, OneSlot, moved
<1>14. OpenedOnce(records', opens', served', sent', generated')
  <2>1. record.currentSession # None /\ left.currentSession # None
    BY <1>6 DEF was, now
  <2>2. records[Opener].currentSession # None
    BY <1>2, <2>1 DEF OpenedOnce, record
  <2>3. records'[Opener].currentSession # None /\ opens[Opener] # 0
    <3>1. CASE Opener = d
      BY <1>2, <1>8, <2>1, <2>2, <3>1 DEF OpenedOnce
    <3>2. CASE Opener # d
      BY <1>2, <1>8, <2>2, <3>2, TheOpener DEF OpenedOnce
    <3>3. QED
      BY <3>1, <3>2
  <2>4. QED
    BY <1>1, <2>3 DEF OpenedOnce
<1>15. Messages(sent', records', ops', generated')
  <2>1. SUFFICES ASSUME NEW m \in sent
                 PROVE  /\ StartOfMessage(m) /\ Sealed(m, generated)
                        /\ \A e \in Device : Behind(m, records'[e]) /\ \A t \in Slots : Unreleased(m, ops'[e][t])
    BY <1>1 DEF Messages
  <2>2. /\ StartOfMessage(m) /\ Sealed(m, generated)
        /\ \A e \in Device : Behind(m, records[e]) /\ \A t \in Slots : Unreleased(m, ops[e][t])
    BY <1>2 DEF Messages
  <2>3. m.signal.counter \in Nat /\ m.signal.mac.key.turns = m.signal.counter
    BY <2>2 DEF Sealed, Key
  <2>4. m.signal.mac.key.seed = key.seed => m.signal.counter < key.turns
    BY <1>3, <1>4, <2>2 DEF Behind, record, key
  <2>5. Behind(m, left)
    BY <1>5, <1>6, <2>3, <2>4 DEF Behind
  <2>6. Unreleased(m, moved)
    <3>1. m.signal.mac.key # key
      BY <1>5, <2>3, <2>4
    <3>2. QED
      BY <1>7, <3>1 DEF Unreleased, key
  <2>7. QED
    BY <1>7, <1>8, <1>9, <2>2, <2>5, <2>6 DEF OneSlot, moved
<1>16. MessageKeysSealOneMessage'
  BY <1>1, <1>2 DEF MessageKeysSealOneMessage
<1>17. BodiesApart(sent', ops', bodies')
  <2>1. \A e \in Device, t \in Slots : Encrypting(ops'[e][t]) => Encrypting(ops[e][t]) /\ ops'[e][t].input = ops[e][t].input
    BY <1>1, <1>7, <1>9 DEF OneSlot, Encrypting, moved, op
  <2>2. BodiesApart(sent, ops', bodies)
    BY <1>2, <2>1 DEF BodiesApart
  <2>3. QED
    BY <1>1, <2>2
<1>18. HandedOutOnce(sent', records', ops', delivered')
  <2>1. \A e \in Device, t \in Slots : \A b : HandingOut(ops'[e][t], b) => HandingOut(ops[e][t], b)
    BY <1>7, <1>9 DEF OneSlot, HandingOut, moved
  <2>2. \A b : HandedOut(b, ops', delivered) => HandedOut(b, ops, delivered)
    BY <2>1 DEF HandedOut
  <2>3. \A e \in Device : \A k : (records[e].currentSession # None /\ Gone(records[e].currentSession, k)) =>
          records'[e].currentSession # None /\ Gone(records'[e].currentSession, k)
    BY <1>5, <1>6, <1>8 DEF Gone, was, now, record
  <2>4. \A m \in sent : m.to \in Device
    BY <1>2 DEF Messages, Sealed
  <2>5. \A m \in sent : HandedOut(m.signal.body, ops', delivered) =>
          records'[m.to].currentSession # None /\ Gone(records'[m.to].currentSession, m.signal.mac.key)
    BY <1>2, <2>2, <2>3, <2>4 DEF HandedOutOnce
  <2>6. \A e \in Device, t \in Slots, b \in Bodies : HandingOut(ops'[e][t], b) => delivered[b] = 0
    <3>1. TAKE e \in Device, t \in Slots, b \in Bodies
    <3>2. HandingOut(ops'[e][t], b) => HandingOut(ops[e][t], b)
      BY <2>1
    <3>3. QED
      BY <1>2, <3>2 DEF HandedOutOnce
  <2>7. HandedOutOnce(sent, records', ops', delivered)
    BY <1>2, <2>5, <2>6 DEF HandedOutOnce
  <2>8. QED
    BY <1>1, <2>7
<1>19. QED
  BY <1>10, <1>11, <1>12, <1>13, <1>14, <1>15, <1>16, <1>17, <1>18 DEF Conversation

\* A message is sealed with the key its sending chain has reached.
LEMMA SealedWithKey ==
  ASSUME NEW record, GoodRecord(record), CanEncrypt(record), NEW body
  PROVE  LET signal == encrypt(record, body)
             session == record.currentSession
         IN  /\ signal.mac.key = SealingKey(record) /\ signal.counter = SealingKey(record).turns
             /\ signal.counter \in Nat /\ signal.body = body /\ signal.ratchetKey = session.ourRatchetKey
             /\ signal.preKeyData # None =>
                  session.pendingPreKey # None /\ signal.preKeyData.pending = session.pendingPreKey
<1> DEFINE signal == encrypt(record, body)
           session == record.currentSession
           chain == session.senderChain
           preKeyData == IF session.pendingPreKey = None THEN None
                         ELSE [pending |-> session.pendingPreKey, identityKey |-> session.localIdentity]
<1>1. /\ signal = [ratchetKey |-> session.ourRatchetKey, counter |-> chain.chainKey.index,
                   mac |-> [key |-> Key(SeedOf(chain), chain.chainKey.index), sender |-> session.localIdentity,
                            receiver |-> session.remoteIdentity],
                   body |-> body, preKeyData |-> preKeyData]
      /\ signal.counter \in Nat
  BY SealedInOrder
<1>2. signal.mac.key = SealingKey(record)
  BY DEF encrypt, deriveMessageKeys, SealingKey
<1>3. preKeyData # None => session.pendingPreKey # None /\ preKeyData.pending = session.pendingPreKey
  OBVIOUS
<1> HIDE DEF signal, preKeyData
<1>4. /\ signal.mac.key = Key(SeedOf(chain), chain.chainKey.index) /\ signal.counter = chain.chainKey.index
      /\ signal.body = body /\ signal.ratchetKey = session.ourRatchetKey /\ signal.preKeyData = preKeyData
  BY <1>1
<1>5. SealingKey(record).turns = chain.chainKey.index
  BY <1>2, <1>4 DEF Key
<1>6. QED
  BY <1>1, <1>2, <1>3, <1>4, <1>5 DEF signal

\* The message is released: its key has sealed no other.
LEMMA ReturnCiphertextKeeps ==
  ASSUME OneAtATime, OneOpening, RecordsInOrder, Conversation, NEW d \in Device, NEW s \in Slots, ReturnCiphertext(d, s)
  PROVE  Conversation'
<1> DEFINE op == ops[d][s]
           record == op.record
           key == SealingKey(record)
           signal == encrypt(record, op.input)
           new == [to |-> Peer(d), signal |-> signal]
<1>1. /\ op # None /\ op.kind = "encrypt" /\ op.step = "return"
      /\ sent' = sent \union {new} /\ Finish(d, s)
      /\ UNCHANGED <<records, preKeys, served, generated, bodies, opens, delivered, built, crashes>>
  BY DEF ReturnCiphertext, Awaits
<1>2. /\ Counted /\ OpenedOnce(records, opens, served, sent, generated) /\ BodiesApart(sent, ops, bodies)
      /\ Operations(ops, records, sent, opens) /\ Sessions(records, generated, built) /\ SeedsApart(records)
      /\ Messages(sent, records, ops, generated) /\ MessageKeysSealOneMessage
      /\ HandedOutOnce(sent, records, ops, delivered)
  BY DEF Conversation
<1>3. /\ OpsByDevice /\ GoodRecord(record) /\ CanEncrypt(record)
      /\ \A e \in Device, t \in Slots : ops[e][t] # None => GoodOp(ops[e][t])
  BY <1>1 DEF RecordsInOrder, HeldInOrder, GoodOp
<1>4. ops'[d][s] = None /\ OneSlot(d, s)
  BY <1>1, <1>3, Finished DEF OneSlot
<1>5. \A t \in Slots : t = s
  BY DEF OneAtATime
\* What an operation that is about to release works on.
<1>6. ASSUME NEW e \in Device, NEW t \in Slots, Releasing(ops[e][t])
      PROVE  LET held == ops[e][t].record
             IN  /\ records[e].currentSession # None /\ CanEncrypt(records[e])
                 /\ records[e].currentSession.ourRatchetKey = held.currentSession.ourRatchetKey
                 /\ records[e].currentSession.pendingPreKey = held.currentSession.pendingPreKey
                 /\ SealingKey(held).turns \in Nat
                 /\ SealingKey(held) = Key(SealingKey(held).seed, SealingKey(held).turns)
                 /\ SealingKey(records[e]) = Key(SealingKey(held).seed, SealingKey(held).turns + 1)
                 /\ SealingKey(records[e]).seed = SealingKey(held).seed
                 /\ SealingKey(records[e]).turns = SealingKey(held).turns + 1
  <2> DEFINE held == ops[e][t].record
  <2>1. records[e] = AfterEncrypt(held)
    BY <1>2, <1>6 DEF Operations, InPlace, UpToDate, Releasing
  <2>2. GoodRecord(held) /\ CanEncrypt(held)
    BY <1>3, <1>6 DEF GoodOp, Releasing
  <2> HIDE DEF held
  <2>3. /\ CanEncrypt(records[e])
        /\ records[e].currentSession.ourRatchetKey = held.currentSession.ourRatchetKey
        /\ records[e].currentSession.pendingPreKey = held.currentSession.pendingPreKey
        /\ SealingKey(held).turns \in Nat
        /\ SealingKey(held) = Key(SealingKey(held).seed, SealingKey(held).turns)
        /\ SealingKey(records[e]) = Key(SealingKey(held).seed, SealingKey(held).turns + 1)
    BY <2>1, <2>2, SealingKeyTurned
  <2>4. SealingKey(records[e]).seed = SealingKey(held).seed /\ SealingKey(records[e]).turns = SealingKey(held).turns + 1
    BY <2>3 DEF Key
  <2>5. records[e].currentSession # None
    BY <2>3 DEF CanEncrypt
  <2>6. QED
    BY <2>3, <2>4, <2>5 DEF held
<1>7. /\ records[d].currentSession # None /\ CanEncrypt(records[d])
      /\ records[d].currentSession.ourRatchetKey = record.currentSession.ourRatchetKey
      /\ records[d].currentSession.pendingPreKey = record.currentSession.pendingPreKey
      /\ key.turns \in Nat /\ key = Key(key.seed, key.turns)
      /\ SealingKey(records[d]).seed = key.seed /\ SealingKey(records[d]).turns = key.turns + 1
  BY <1>1, <1>6 DEF Releasing
<1>8. /\ signal.mac.key = key /\ signal.counter = key.turns /\ signal.body = op.input
      /\ signal.ratchetKey = record.currentSession.ourRatchetKey
      /\ signal.preKeyData # None =>
           /\ record.currentSession.pendingPreKey # None
           /\ signal.preKeyData.pending = record.currentSession.pendingPreKey
  BY <1>3, SealedWithKey
<1> HIDE DEF key, signal
<1>9. new.to = Peer(d) /\ new.signal = signal /\ Peer(d) \in Device /\ Peer(d) # d
  BY Peers
<1> HIDE DEF new
<1>10. /\ \A m \in sent : m.signal.body # op.input
       /\ op.input \in 1 .. bodies /\ op.input \in Bodies
  <2>1. Encrypting(op)
    BY <1>1 DEF Encrypting
  <2>2. op.input \in 1 .. bodies /\ \A m \in sent : m.signal.body # op.input
    BY <1>2, <2>1 DEF BodiesApart
  <2>3. bodies \in 0 .. MaxBodies /\ MaxBodies \in Nat
    BY <1>2, DevicesAssumption DEF Counted
  <2>4. op.input \in Bodies
    BY <2>2, <2>3 DEF Bodies
  <2>5. QED
    BY <2>2, <2>4
<1> HIDE DEF op, record
<1>11. Counted'
  BY <1>1, <1>2 DEF Counted
<1>12. Sessions(records', generated', built') /\ SeedsApart(records')
  BY <1>1, <1>2
<1>13. Operations(ops', records', sent', opens')
  BY <1>1, <1>2, <1>4, <1>5 DEF Operations, OneSlot, InPlace, Received
<1>14. OpenedOnce(records', opens', served', sent', generated')
  BY <1>1, <1>2, <1>7 DEF OpenedOnce
<1>15. /\ StartOfMessage(new) /\ Sealed(new, generated)
       /\ \A e \in Device : Behind(new, records[e]) /\ \A t \in Slots : Unreleased(new, ops'[e][t])
  <2>1. StartOfMessage(new)
    <3>1. StartOfRecord(d, records[d], built[d])
      BY <1>2 DEF Sessions
    <3>2. QED
      BY <1>7, <1>8, <1>9, <3>1 DEF StartOfMessage, StartOfRecord
  <2>2. Sealed(new, generated)
    <3>1. FreshSeed(records[d], generated) /\ OneSession(d, records[d], generated)
      BY <1>2 DEF Sessions
    <3>2. IsSeq(key.seed) /\ MadeFrom(generated, Last(key.seed))
      BY <1>7, <3>1 DEF FreshSeed
    <3>3. Made(generated, signal.ratchetKey)
      BY <1>7, <1>8, <3>1 DEF OneSession
    <3>4. QED
      BY <1>7, <1>8, <1>9, <3>2, <3>3 DEF Sealed
  <2>3. ASSUME NEW e \in Device PROVE Behind(new, records[e])
    <3>1. CASE e = d
      BY <1>7, <1>8, <1>9, <3>1 DEF Behind
    <3>2. CASE e # d
      BY <1>2, <1>7, <1>8, <1>9, <3>2 DEF Behind, SeedsApart
    <3>3. QED
      BY <3>1, <3>2
  <2>4. ASSUME NEW e \in Device, NEW t \in Slots PROVE Unreleased(new, ops'[e][t])
    <3>1. CASE e = d
      BY <1>4, <1>5, <3>1 DEF Unreleased, Releasing
    <3>2. CASE e # d
      <4>1. ops'[e][t] = ops[e][t]
        BY <1>4, <3>2 DEF OneSlot
      <4>2. SUFFICES ASSUME Releasing(ops[e][t]) PROVE SealingKey(ops[e][t].record) # key
        BY <1>8, <1>9, <4>1 DEF Unreleased
      <4>3. CanEncrypt(records[e]) /\ SealingKey(records[e]).seed = SealingKey(ops[e][t].record).seed
        BY <1>6, <4>2
      <4>4. SealingKey(records[e]).seed # SealingKey(records[d]).seed
        BY <1>2, <1>7, <3>2, <4>3 DEF SeedsApart
      <4>5. QED
        BY <1>7, <4>3, <4>4
    <3>3. QED
      BY <3>1, <3>2
  <2>5. QED
    BY <2>1, <2>2, <2>3, <2>4
<1>16. \A m \in sent : Unreleased(m, op) /\ m.signal.mac.key # key
  BY <1>1, <1>2 DEF Messages, Unreleased, Releasing, op, key, record
<1>17. Messages(sent', records', ops', generated')
  <2>1. \A m \in sent : \A e \in Device, t \in Slots : Unreleased(m, ops'[e][t])
    BY <1>2, <1>4, <1>5 DEF Messages, OneSlot, Unreleased, Releasing
  <2>2. QED
    BY <1>1, <1>2, <1>15, <2>1 DEF Messages
<1>18. MessageKeysSealOneMessage'
  BY <1>1, <1>2, <1>8, <1>9, <1>16 DEF MessageKeysSealOneMessage
<1>19. BodiesApart(sent', ops', bodies')
  <2>1. \A e \in Device, t \in Slots : Encrypting(ops'[e][t]) => e # d /\ ops'[e][t] = ops[e][t]
    BY <1>4, <1>5 DEF OneSlot, Encrypting
  <2>2. Encrypting(op)
    BY <1>1 DEF Encrypting, op
  <2>3. \A e \in Device, t \in Slots : Encrypting(ops'[e][t]) => ops'[e][t].input # op.input
    BY <1>2, <2>1, <2>2 DEF BodiesApart, op
  <2>4. \A m \in sent' : m \in sent \/ m.signal.body = op.input
    BY <1>1, <1>8, <1>9
  <2>5. \A m, n \in sent' : m.signal.body = n.signal.body => m = n
    BY <1>1, <1>2, <1>8, <1>9, <1>10 DEF BodiesApart
  <2>6. \A m \in sent' : m.signal.body \in 1 .. bodies
    BY <1>2, <1>10, <2>4 DEF BodiesApart
  <2>7. \A e \in Device, t \in Slots : Encrypting(ops'[e][t]) =>
          /\ ops'[e][t].input \in 1 .. bodies
          /\ \A m \in sent' : m.signal.body # ops'[e][t].input
          /\ \A f \in Device, u \in Slots : (Encrypting(ops'[f][u]) /\ f # e) => ops'[f][u].input # ops'[e][t].input
    BY <1>2, <2>1, <2>3, <2>4 DEF BodiesApart
  <2>8. BodiesApart(sent', ops', bodies)
    BY <2>5, <2>6, <2>7 DEF BodiesApart
  <2>9. QED
    BY <1>1, <2>8
<1>20. HandedOutOnce(sent', records', ops', delivered')
  <2>1. \A e \in Device, t \in Slots : \A b : HandingOut(ops'[e][t], b) => HandingOut(ops[e][t], b)
    BY <1>4, <1>5 DEF OneSlot, HandingOut
  <2>2. \A b : HandedOut(b, ops', delivered) => HandedOut(b, ops, delivered)
    BY <2>1 DEF HandedOut
  <2>3. ~HandedOut(op.input, ops, delivered)
    <3>1. delivered[op.input] = 0
      BY <1>2, <1>10 DEF HandedOutOnce
    <3>2. ASSUME NEW e \in Device, NEW t \in Slots, HandingOut(ops[e][t], op.input) PROVE FALSE
      <4>1. ops[e][t] # None /\ ops[e][t].kind = "decrypt" /\ ops[e][t].input.body = op.input
        BY <3>2 DEF HandingOut
      <4>2. \E m \in sent : m.signal = ops[e][t].input
        BY <1>2, <4>1 DEF Operations, InPlace, Received
      <4>3. QED
        BY <1>10, <4>1, <4>2
    <3>3. QED
      BY <3>1, <3>2 DEF HandedOut
  <2>4. \A m \in sent' : HandedOut(m.signal.body, ops', delivered) =>
          records[m.to].currentSession # None /\ Gone(records[m.to].currentSession, m.signal.mac.key)
    <3>1. TAKE m \in sent'
    <3>2. CASE m \in sent
      BY <1>2, <2>2, <3>2 DEF HandedOutOnce
    <3>3. CASE m = new
      BY <1>8, <1>9, <2>2, <2>3, <3>3
    <3>4. QED
      BY <1>1, <3>2, <3>3
  <2>5. \A e \in Device, t \in Slots, b \in Bodies : HandingOut(ops'[e][t], b) => delivered[b] = 0
    <3>1. TAKE e \in Device, t \in Slots, b \in Bodies
    <3>2. HandingOut(ops'[e][t], b) => HandingOut(ops[e][t], b)
      BY <2>1
    <3>3. QED
      BY <1>2, <3>2 DEF HandedOutOnce
  <2>6. \A b \in Bodies : delivered[b] # 0 => \E m \in sent' : m.signal.body = b
    BY <1>1, <1>2 DEF HandedOutOnce
  <2>7. HandedOutOnce(sent', records, ops', delivered)
    BY <2>4, <2>5, <2>6 DEF HandedOutOnce
  <2>8. QED
    BY <1>1, <2>7
<1>21. QED
  BY <1>11, <1>12, <1>13, <1>14, <1>17, <1>18, <1>19, <1>20 DEF Conversation

\* A session is advanced, with a fresh pair.
AdvancedWith(d, op, message, record, made, later, fresh, session, after) ==
  /\ OneSession(d, record, made) /\ FreshSeed(record, made) /\ Made(made, message.ratchetKey)
  /\ Made(later, fresh) /\ ~Made(made, fresh) /\ \A pair : Made(made, pair) => Made(later, pair)
  /\ Advanced(d, op, record, session) /\ Advances(session, after, message, fresh)

\* What decrypt saves is in order: the ratchet has moved on to a new pair or stayed.
LEMMA AdvancedRecord ==
  ASSUME NEW d \in Device, NEW op, NEW message, NEW record, NEW made, NEW later, NEW fresh, NEW session, NEW after,
         AdvancedWith(d, op, message, record, made, later, fresh, session, after)
  PROVE  LET saved == RecordOf(after, << >>)
         IN  /\ OneSession(d, saved, later) /\ FreshSeed(saved, later)
             /\ saved.currentSession = after /\ after # None /\ after.pendingPreKey = None
             /\ \/ CanEncrypt(saved) => CanEncrypt(record) /\ SealingKey(saved) = SealingKey(record)
                \/ \A seed : MadeFrom(made, Last(seed)) => SealingKey(saved).seed # seed
<1> DEFINE saved == RecordOf(after, << >>)
<1>1. /\ OneSession(d, record, made) /\ FreshSeed(record, made) /\ Made(made, message.ratchetKey)
      /\ Made(later, fresh) /\ ~Made(made, fresh) /\ \A pair : Made(made, pair) => Made(later, pair)
      /\ Advanced(d, op, record, session) /\ Advances(session, after, message, fresh)
  BY DEF AdvancedWith
<1>2. /\ GoodSession(after) /\ Lineage(after) /\ after.pendingPreKey = None
      /\ \/ after.ourRatchetKey = session.ourRatchetKey /\ after.senderChain = session.senderChain
         \/ /\ after.ourRatchetKey = fresh /\ after.senderChain = newChain(fresh, after.rootKey)
            /\ Last(after.rootKey) = sharedKey(fresh, message.ratchetKey)
  BY <1>1 DEF Advances
<1>3. saved.currentSession = after /\ saved.previousSessions = << >>
  BY DEF RecordOf
<1> HIDE DEF saved
<1>4. after # None
  BY <1>2, SessionsAreSomething
<1>5. CASE after.ourRatchetKey = session.ourRatchetKey /\ after.senderChain = session.senderChain
  <2>1. Made(later, after.ourRatchetKey)
    <3>1. CASE record.currentSession # None /\ session = record.currentSession
      BY <1>1, <1>5, <3>1 DEF OneSession
    <3>2. CASE session.ourRatchetKey = signedPreKey(d)
      BY <1>5, <3>2 DEF Made, signedPreKey
    <3>3. QED
      BY <1>1, <3>1, <3>2 DEF Advanced
  <2>2. CanEncrypt(saved) => CanEncrypt(record) /\ SealingKey(saved) = SealingKey(record)
    BY <1>1, <1>3, <1>5 DEF CanEncrypt, SealingKey, Advanced
  <2>3. FreshSeed(saved, later)
    BY <1>1, <2>2 DEF FreshSeed, MadeFrom
  <2>4. OneSession(d, saved, later)
    BY <1>2, <1>3, <2>1 DEF OneSession
  <2>5. QED
    BY <1>2, <1>3, <1>4, <2>2, <2>3, <2>4 DEF saved
<1>6. CASE /\ after.ourRatchetKey = fresh /\ after.senderChain = newChain(fresh, after.rootKey)
           /\ Last(after.rootKey) = sharedKey(fresh, message.ratchetKey)
  <2>1. SealingKey(saved).seed = after.rootKey
    BY <1>3, <1>6, FirstSealingKey
  <2>2. fresh \in Last(after.rootKey)
    BY <1>6 DEF sharedKey
  <2>3. MadeFrom(later, Last(after.rootKey))
    BY <1>1, <1>6 DEF MadeFrom, sharedKey
  <2>4. \A seed : MadeFrom(made, Last(seed)) => SealingKey(saved).seed # seed
    BY <1>1, <2>1, <2>2 DEF MadeFrom
  <2>5. FreshSeed(saved, later)
    BY <1>2, <2>1, <2>3 DEF FreshSeed, Lineage
  <2>6. OneSession(d, saved, later)
    BY <1>1, <1>2, <1>3, <1>6 DEF OneSession
  <2>7. QED
    BY <1>2, <1>3, <1>4, <2>4, <2>5, <2>6 DEF saved
<1>7. QED
  BY <1>2, <1>5, <1>6 DEF saved

\* A session that is built starts as the others did.
LEMMA StartsBuilt ==
  ASSUME Conversation, NEW d \in Device, NEW s \in Slots, Decrypt(d, s)
  PROVE  /\ built' = [e \in Device |-> built'[e]] /\ \A e \in Device : IsSeq(built'[e]) /\ (e # d => built'[e] = built[e])
         /\ \A i \in 1 .. Len(built'[d]) : d # Opener /\ Starts(built'[d][i])
         /\ BuildsSession(ops[d][s]) => Len(built'[d]) # 0
<1> DEFINE op == ops[d][s]
           message == op.input
           pending == message.preKeyData.pending
           was == built[d]
           now == Append(was, pending)
<1>1. /\ op # None /\ op.kind = "decrypt"
      /\ built' = IF BuildsSession(op) THEN [built EXCEPT ![d] = now] ELSE built
  BY DEF Decrypt, Awaits
<1>2. /\ Operations(ops, records, sent, opens) /\ Sessions(records, generated, built) /\ Messages(sent, records, ops, generated)
      /\ built = [e \in Device |-> built[e]] /\ \A e \in Device : IsSeq(built[e])
  BY DEF Conversation, Counted
<1>3. Received(d, op, sent) /\ StartOfRecord(d, records[d], was)
  BY <1>1, <1>2 DEF Operations, InPlace, Sessions
<1>4. PICK m0 \in sent : m0.to = d /\ m0.signal = message
  BY <1>1, <1>3 DEF Received
<1>5. BuildsSession(op) => d # Opener /\ Starts(pending)
  <2>1. op.ctx # None => message.preKeyData # None
    BY <1>1, <1>3 DEF Received
  <2>2. StartOfMessage(m0)
    BY <1>2 DEF Messages
  <2>3. QED
    BY <1>4, <2>1, <2>2 DEF BuildsSession, StartOfMessage
<1>6. \A i \in 1 .. Len(was) : d # Opener /\ Starts(was[i])
  BY <1>3 DEF StartOfRecord
<1>7. /\ Len(was) \in Nat /\ IsSeq(now) /\ Len(now) = Len(was) + 1 /\ now[Len(was) + 1] = pending
      /\ \A i \in 1 .. Len(was) : now[i] = was[i]
  BY <1>2, AppendElements DEF IsSeq
<1> HIDE DEF now, pending, op
<1>8. CASE BuildsSession(op)
  <2>1. built' = [built EXCEPT ![d] = now]
    BY <1>1, <1>8
  <2>2. built'[d] = now /\ built' = [e \in Device |-> built'[e]] /\ \A e \in Device : e # d => built'[e] = built[e]
    BY <1>2, <2>1
  <2>3. \A i \in 1 .. Len(now) : d # Opener /\ Starts(now[i])
    BY <1>5, <1>6, <1>7, <1>8
  <2>4. Len(now) # 0
    BY <1>7
  <2>5. QED
    BY <1>2, <1>7, <2>2, <2>3, <2>4
<1>9. CASE ~BuildsSession(op)
  BY <1>1, <1>2, <1>6, <1>9 DEF op
<1>10. QED
  BY <1>8, <1>9

\* A plaintext is found: its key was to be had once, and is gone.
LEMMA DecryptKeeps ==
  ASSUME OneAtATime, OneOpening, RecordsInOrder, Conversation, NEW d \in Device, NEW s \in Slots, Decrypt(d, s),
         BaseKeyBuildsOneSession'
  PROVE  Conversation'
<1> DEFINE op == ops[d][s]
           record == records[d]
           message == op.input
           pending == message.preKeyData.pending
           saved == records'[d]
           moved == ops'[d][s]
           tried == Len(SessionsOf(op.record))
           count == generated[d] + tried + 1
<1>1. /\ op # None /\ op.kind = "decrypt" /\ op.step = "save"
      /\ built' = IF BuildsSession(op) THEN [built EXCEPT ![d] = Append(built[d], pending)] ELSE built
      /\ generated' = [generated EXCEPT ![d] = count]
      /\ Goto(d, s, IF op.ctx # None /\ op.ctx.preKey # None THEN "delete" ELSE "return")
      /\ UNCHANGED <<preKeys, served, sent, bodies, opens, delivered, crashes>>
  BY DEF Decrypt, Awaits
<1>2. /\ Counted /\ OpenedOnce(records, opens, served, sent, generated) /\ BodiesApart(sent, ops, bodies)
      /\ Operations(ops, records, sent, opens) /\ Sessions(records, generated, built) /\ SeedsApart(records)
      /\ Messages(sent, records, ops, generated) /\ MessageKeysSealOneMessage
      /\ HandedOutOnce(sent, records, ops, delivered)
  BY DEF Conversation
<1>3. /\ RecordsByDevice /\ OpsByDevice /\ GoodRecord(record) /\ GoodOp(op)
  BY <1>1 DEF RecordsInOrder, StoredInOrder, HeldInOrder
<1>4. UpToDate(op, record) /\ Received(d, op, sent) /\ op.record = record
  BY <1>1, <1>2 DEF Operations, InPlace, UpToDate
<1>5. OneSession(d, record, generated) /\ StartOfRecord(d, record, built[d]) /\ FreshSeed(record, generated)
  BY <1>2 DEF Sessions
<1>6. PICK m0 \in sent : m0.to = d /\ m0.signal = message
  BY <1>1, <1>4 DEF Received
<1>7. PICK session, after : /\ Advanced(d, op, record, session) /\ Advances(session, after, message, Fresh(d, 1))
                            /\ saved = RecordOf(after, << >>)
  BY DecryptAdvances
<1>8. \A e \in Device : e # d => records'[e] = records[e]
  <2>1. PICK found \in Decrypted(d, op) : saveRecord(d, found)
    BY DEF Decrypt
  <2>2. GoodRecord(found)
    BY <1>1, <1>3, DecryptedInOrder
  <2>3. QED
    BY <1>3, <2>1, <2>2, Saved
<1>9. /\ moved.kind = "decrypt" /\ moved.step \in {"delete", "return"} /\ moved.input = message
      /\ moved.ctx = op.ctx /\ OneSlot(d, s)
  BY <1>1, <1>3, WentOn DEF OneSlot
<1>10. \A t \in Slots : t = s
  BY DEF OneAtATime
<1>11. /\ generated' = [e \in Device |-> generated'[e]] /\ generated[d] + 1 <= generated'[d]
       /\ \A e \in Device : /\ generated[e] \in Nat /\ generated'[e] \in Nat /\ generated[e] <= generated'[e]
  <2>1. tried \in Nat
    BY <1>3, <1>4, SessionsInOrder DEF GoodSessions, IsSeq
  <2> HIDE DEF tried
  <2>2. generated = [e \in Device |-> generated[e]] /\ \A e \in Device : generated[e] \in Nat
    BY <1>2 DEF Counted
  <2>3. count \in Nat /\ generated[d] + 1 <= count /\ generated[d] <= count
    BY <2>1, <2>2
  <2> HIDE DEF count
  <2>4. generated'[d] = count /\ \A e \in Device : e # d => generated'[e] = generated[e]
    BY <1>1, <2>2
  <2>5. \A e \in Device : generated[e] <= generated[e]
    BY <2>2
  <2>6. generated' = [e \in Device |-> generated'[e]]
    BY <1>1, <2>2
  <2>7. ASSUME NEW e \in Device
        PROVE  generated'[e] \in Nat /\ generated[e] <= generated'[e]
    <3>1. CASE e = d
      BY <2>3, <2>4, <3>1
    <3>2. CASE e # d
      BY <2>2, <2>4, <2>5, <3>2
    <3>3. QED
      BY <3>1, <3>2
  <2>8. QED
    BY <2>2, <2>3, <2>4, <2>6, <2>7
<1> HIDE DEF tried, count
<1>12. /\ OneSession(d, saved, generated') /\ FreshSeed(saved, generated')
       /\ saved.currentSession = after /\ after # None /\ after.pendingPreKey = None
       /\ \/ CanEncrypt(saved) => CanEncrypt(record) /\ SealingKey(saved) = SealingKey(record)
          \/ \A seed : MadeFrom(generated, Last(seed)) => SealingKey(saved).seed # seed
  <2>1. Made(generated, message.ratchetKey)
    BY <1>2, <1>6 DEF Messages, Sealed
  <2>2. \A pair : Made(generated, pair) => Made(generated', pair)
    BY <1>11, StillMade
  <2>3. Made(generated', Fresh(d, 1)) /\ ~Made(generated, Fresh(d, 1))
    <3>1. Fresh(d, 1) = <<d, "generated", generated[d] + 1>>
      BY DEF Fresh, generateKeyPair
    <3>2. QED
      BY <1>11, <3>1 DEF Made
  <2>4. AdvancedWith(d, op, message, record, generated, generated', Fresh(d, 1), session, after)
    BY <1>5, <1>7, <2>1, <2>2, <2>3 DEF AdvancedWith
  <2> HIDE DEF op, record, message, saved
  <2>5. QED
    BY <1>7, <2>4, AdvancedRecord
<1>13. \A pair : Made(generated, pair) => Made(generated', pair)
  BY <1>11, StillMade
<1>14. /\ built' = [e \in Device |-> built'[e]] /\ \A e \in Device : IsSeq(built'[e]) /\ (e # d => built'[e] = built[e])
       /\ \A i \in 1 .. Len(built'[d]) : d # Opener /\ Starts(built'[d][i])
  BY StartsBuilt
<1>15. d # Opener => Len(built'[d]) # 0
  <2>1. CASE BuildsSession(op)
    BY <2>1, StartsBuilt
  <2>2. CASE ~BuildsSession(op)
    BY <1>1, <1>5, <1>7, <2>2 DEF Advanced, StartOfRecord
  <2>3. QED
    BY <2>1, <2>2
<1>16. Counted'
  BY <1>1, <1>2, <1>11, <1>14 DEF Counted
<1> HIDE DEF saved, moved, op, record, message, pending
<1>17. Sessions(records', generated', built')
  <2>1. StartOfRecord(d, saved, built'[d])
    BY <1>12, <1>14, <1>15 DEF StartOfRecord
  <2>2. \A e \in Device : e # d => /\ OneSession(e, records[e], generated') /\ StartOfRecord(e, records[e], built[e])
                                   /\ FreshSeed(records[e], generated')
    BY <1>2, <1>13 DEF Sessions, OneSession, FreshSeed, MadeFrom
  <2>3. QED
    BY <1>8, <1>12, <1>14, <2>1, <2>2 DEF Sessions, saved
<1>18. SeedsApart(records')
  <2>1. ASSUME NEW e \in Device, e # d, CanEncrypt(records[e]), CanEncrypt(saved)
        PROVE  SealingKey(saved).seed # SealingKey(records[e]).seed
    <3>1. MadeFrom(generated, Last(SealingKey(records[e]).seed))
      BY <1>2, <2>1 DEF Sessions, FreshSeed
    <3>2. CASE CanEncrypt(record) /\ SealingKey(saved) = SealingKey(record)
      BY <1>2, <2>1, <3>2 DEF SeedsApart, record
    <3>3. QED
      BY <1>12, <2>1, <3>1, <3>2
  <2>2. QED
    BY <1>2, <1>8, <2>1 DEF SeedsApart, saved
<1>19. Operations(ops', records', sent', opens')
  <2>1. InPlace(d, moved, saved, sent, opens[d])
    BY <1>1, <1>4, <1>9 DEF InPlace, UpToDate, Received, Opening, message
  <2>2. QED
    BY <1>1, <1>2, <1>8, <1>9, <1>10, <2>1 DEF Operations, OneSlot, moved, saved
<1>20. OpenedOnce(records', opens', served', sent', generated')
  <2>1. records[Opener].currentSession # None /\ opens[Opener] # 0
    BY <1>2, <1>6 DEF OpenedOnce
  <2>2. records'[Opener].currentSession # None
    BY <1>8, <1>12, <2>1, TheOpener DEF saved
  <2>3. QED
    BY <1>1, <2>1, <2>2 DEF OpenedOnce
<1>21. Messages(sent', records', ops', generated')
  <2>1. SUFFICES ASSUME NEW m \in sent
                 PROVE  /\ StartOfMessage(m) /\ Sealed(m, generated')
                        /\ \A e \in Device : Behind(m, records'[e]) /\ \A t \in Slots : Unreleased(m, ops'[e][t])
    BY <1>1 DEF Messages
  <2>2. /\ StartOfMessage(m) /\ Sealed(m, generated)
        /\ \A e \in Device : Behind(m, records[e]) /\ \A t \in Slots : Unreleased(m, ops[e][t])
    BY <1>2 DEF Messages
  <2>3. Sealed(m, generated')
    BY <1>13, <2>2 DEF Sealed, MadeFrom
  <2>4. Behind(m, saved)
    <3>1. SUFFICES ASSUME CanEncrypt(saved), SealingKey(saved).seed = m.signal.mac.key.seed
                   PROVE  m.signal.counter < SealingKey(saved).turns
      BY DEF Behind
    <3>2. MadeFrom(generated, Last(m.signal.mac.key.seed))
      BY <2>2 DEF Sealed
    <3>3. CanEncrypt(record) /\ SealingKey(saved) = SealingKey(record)
      BY <1>12, <3>1, <3>2
    <3>4. QED
      BY <2>2, <3>1, <3>3 DEF Behind, record
  <2>5. Unreleased(m, moved)
    BY <1>9 DEF Unreleased, Releasing
  <2>6. QED
    BY <1>8, <1>9, <1>10, <2>2, <2>3, <2>4, <2>5 DEF OneSlot, saved, moved
<1>22. MessageKeysSealOneMessage'
  BY <1>1, <1>2 DEF MessageKeysSealOneMessage
<1>23. BodiesApart(sent', ops', bodies')
  <2>1. ~Encrypting(ops'[d][s])
    BY <1>9 DEF Encrypting, moved
  <2>2. BodiesApart(sent, ops', bodies)
    BY <1>2, <1>9, <2>1, BodiesLeftAlone
  <2>3. QED
    BY <1>1, <2>2
<1>24. HandedOutOnce(sent', records', ops', delivered')
  <2>1. /\ \A k : (Len(k.seed) \in Nat /\ Gone(session, k)) => Gone(after, k)
        /\ Gone(after, message.mac.key) /\ ~Gone(session, message.mac.key)
    BY <1>7 DEF Advances
  <2>2. record.currentSession # None => session = record.currentSession
    BY <1>7 DEF Advanced
  <2>3. ASSUME NEW e \in Device, NEW t \in Slots, NEW b, HandingOut(ops'[e][t], b)
        PROVE  \/ HandingOut(ops[e][t], b) /\ (e # d \/ t # s)
               \/ e = d /\ t = s /\ b = message.body
    <3>1. CASE e = d /\ t = s
      BY <1>9, <2>3, <3>1 DEF HandingOut, moved
    <3>2. CASE e # d \/ t # s
      BY <1>9, <2>3, <3>2 DEF OneSlot
    <3>3. QED
      BY <3>1, <3>2
  <2>4. ASSUME NEW m \in sent, HandedOut(m.signal.body, ops, delivered)
        PROVE  records'[m.to].currentSession # None /\ Gone(records'[m.to].currentSession, m.signal.mac.key)
    <3>1. records[m.to].currentSession # None /\ Gone(records[m.to].currentSession, m.signal.mac.key)
      BY <1>2, <2>4 DEF HandedOutOnce
    <3>2. m.to \in Device /\ Len(m.signal.mac.key.seed) \in Nat
      BY <1>2 DEF Messages, Sealed, IsSeq
    <3>3. CASE m.to = d
      <4>1. Gone(session, m.signal.mac.key)
        BY <2>2, <3>1, <3>3 DEF record
      <4>2. Gone(after, m.signal.mac.key)
        BY <2>1, <3>2, <4>1
      <4>3. QED
        BY <1>12, <3>3, <4>2 DEF saved
    <3>4. CASE m.to # d
      BY <1>8, <3>1, <3>2, <3>4
    <3>5. QED
      BY <3>3, <3>4
  <2>5. ASSUME NEW m \in sent, m.signal.body = message.body
        PROVE  records'[m.to].currentSession # None /\ Gone(records'[m.to].currentSession, m.signal.mac.key)
    <3>1. m = m0
      BY <1>2, <1>6, <2>5 DEF BodiesApart
    <3>2. QED
      BY <1>6, <1>12, <2>1, <3>1 DEF saved
  <2>6. \A m \in sent : HandedOut(m.signal.body, ops', delivered) =>
          records'[m.to].currentSession # None /\ Gone(records'[m.to].currentSession, m.signal.mac.key)
    <3>1. TAKE m \in sent
    <3>2. HandedOut(m.signal.body, ops', delivered) => HandedOut(m.signal.body, ops, delivered) \/ m.signal.body = message.body
      BY <2>3 DEF HandedOut
    <3>3. QED
      BY <2>4, <2>5, <3>2
  <2>7. message.body \in Bodies => delivered[message.body] = 0
    <3>1. SUFFICES ASSUME delivered[message.body] # 0 PROVE FALSE
      OBVIOUS
    <3>2. HandedOut(m0.signal.body, ops, delivered)
      BY <1>6, <3>1 DEF HandedOut
    <3>3. record.currentSession # None /\ Gone(record.currentSession, message.mac.key)
      BY <1>2, <1>6, <3>2 DEF HandedOutOnce, record
    <3>4. QED
      BY <2>1, <2>2, <3>3
  <2>8. \A e \in Device, t \in Slots, b \in Bodies : HandingOut(ops'[e][t], b) => delivered[b] = 0
    <3>1. TAKE e \in Device, t \in Slots, b \in Bodies
    <3>2. HandingOut(ops'[e][t], b) => HandingOut(ops[e][t], b) \/ b = message.body
      BY <2>3
    <3>3. HandingOut(ops[e][t], b) => delivered[b] = 0
      BY <1>2 DEF HandedOutOnce
    <3>4. QED
      BY <2>7, <3>2, <3>3
  <2>9. \A b \in Bodies : delivered[b] # 0 => \E m \in sent : m.signal.body = b
    BY <1>2 DEF HandedOutOnce
  <2>10. HandedOutOnce(sent, records', ops', delivered)
    BY <2>6, <2>8, <2>9 DEF HandedOutOnce
  <2>11. QED
    BY <1>1, <2>10
<1>25. QED
  BY <1>16, <1>17, <1>18, <1>19, <1>20, <1>21, <1>22, <1>23, <1>24 DEF Conversation

\* The plaintext is handed out: no other operation is about to do so.
LEMMA ReturnPlaintextKeeps ==
  ASSUME OneAtATime, RecordsInOrder, Conversation, NEW d \in Device, NEW s \in Slots, ReturnPlaintext(d, s)
  PROVE  Conversation'
<1> DEFINE op == ops[d][s]
           body == op.input.body
<1>1. /\ op # None /\ op.kind = "decrypt" /\ op.step = "return" /\ Finish(d, s)
      /\ delivered' = [delivered EXCEPT ![body] = @ + 1]
      /\ UNCHANGED <<records, preKeys, served, generated, sent, bodies, opens, built, crashes>>
  BY DEF ReturnPlaintext, Awaits
<1>2. /\ Counted /\ OpenedOnce(records, opens, served, sent, generated) /\ BodiesApart(sent, ops, bodies)
      /\ Operations(ops, records, sent, opens) /\ Messages(sent, records, ops, generated)
      /\ HandedOutOnce(sent, records, ops, delivered)
  BY DEF Conversation
<1>3. OpsByDevice
  BY DEF RecordsInOrder, HeldInOrder
<1>4. ops'[d][s] = None /\ OneSlot(d, s)
  BY <1>1, <1>3, Finished DEF OneSlot
<1>5. \A t \in Slots : t = s
  BY DEF OneAtATime
<1>6. PICK m0 \in sent : m0.to = d /\ m0.signal = op.input
  BY <1>1, <1>2 DEF Operations, InPlace, Received
<1>7. body \in Bodies
  <2>1. body \in 1 .. bodies /\ bodies \in 0 .. MaxBodies /\ MaxBodies \in Nat
    BY <1>2, <1>6, DevicesAssumption DEF BodiesApart, Counted
  <2>2. QED
    BY <2>1 DEF Bodies
<1>8. HandingOut(op, body) /\ delivered[body] = 0
  BY <1>1, <1>2, <1>7 DEF HandingOut, HandedOutOnce
<1> HIDE DEF op, body
<1>9. /\ delivered' = [b \in Bodies |-> delivered'[b]] /\ delivered'[body] = 1
      /\ \A b \in Bodies : b # body => delivered'[b] = delivered[b]
  BY <1>1, <1>2, <1>7, <1>8 DEF Counted
<1>10. Counted'
  BY <1>1, <1>2, <1>9 DEF Counted
<1>11. Operations(ops', records', sent', opens')
  BY <1>1, <1>2, <1>4, <1>5 DEF Operations, OneSlot, InPlace
<1>12. Messages(sent', records', ops', generated')
  <2>1. \A m \in sent : \A e \in Device, t \in Slots : Unreleased(m, ops'[e][t])
    BY <1>2, <1>4, <1>5 DEF Messages, OneSlot, Unreleased, Releasing
  <2>2. QED
    BY <1>1, <1>2, <2>1 DEF Messages
<1>13. BodiesApart(sent', ops', bodies')
  <2>1. ~Encrypting(ops'[d][s])
    BY <1>4 DEF Encrypting
  <2>2. BodiesApart(sent, ops', bodies)
    BY <1>2, <1>4, <2>1, BodiesLeftAlone
  <2>3. QED
    BY <1>1, <2>2
<1>14. HandedOutOnce(sent', records', ops', delivered')
  <2>1. \A e \in Device, t \in Slots : \A b : HandingOut(ops'[e][t], b) => e # d /\ HandingOut(ops[e][t], b)
    BY <1>4, <1>5 DEF OneSlot, HandingOut
  <2>2. ASSUME NEW m \in sent, HandedOut(m.signal.body, ops', delivered')
        PROVE  HandedOut(m.signal.body, ops, delivered)
    <3>1. m.signal.body \in Bodies
      <4>1. m.signal.body \in 1 .. bodies /\ bodies \in 0 .. MaxBodies /\ MaxBodies \in Nat
        BY <1>2, DevicesAssumption DEF BodiesApart, Counted
      <4>2. QED
        BY <4>1 DEF Bodies
    <3>2. CASE m.signal.body = body
      BY <1>8, <3>2 DEF HandedOut, op
    <3>3. CASE m.signal.body # body
      BY <1>9, <2>1, <2>2, <3>1, <3>3 DEF HandedOut
    <3>4. QED
      BY <3>2, <3>3
  <2>3. \A m \in sent : HandedOut(m.signal.body, ops', delivered') =>
          records[m.to].currentSession # None /\ Gone(records[m.to].currentSession, m.signal.mac.key)
    BY <1>2, <2>2 DEF HandedOutOnce
  <2>4. ASSUME NEW e \in Device, NEW t \in Slots, NEW b \in Bodies, HandingOut(ops'[e][t], b)
        PROVE  delivered'[b] = 0
    <3>1. e # d /\ HandingOut(ops[e][t], b)
      BY <2>1, <2>4
    <3>2. delivered[b] = 0
      BY <1>2, <3>1 DEF HandedOutOnce
    <3>3. PICK m \in sent : m.to = e /\ m.signal = ops[e][t].input
      BY <1>2, <3>1 DEF Operations, InPlace, Received, HandingOut
    <3>4. m.signal.body = b /\ m # m0
      BY <1>6, <3>1, <3>3 DEF HandingOut
    <3>5. b # body
      BY <1>2, <1>6, <3>4 DEF BodiesApart, body
    <3>6. QED
      BY <1>9, <3>2, <3>5
  <2>5. \A b \in Bodies : delivered'[b] # 0 => \E m \in sent : m.signal.body = b
    <3>1. m0.signal.body = body
      BY <1>6 DEF body
    <3>2. QED
      BY <1>2, <1>9, <3>1 DEF HandedOutOnce
  <2>6. HandedOutOnce(sent, records, ops', delivered')
    BY <2>3, <2>4, <2>5 DEF HandedOutOnce
  <2>7. QED
    BY <1>1, <2>6
<1>15. QED
  BY <1>1, <1>10, <1>11, <1>12, <1>13, <1>14 DEF Conversation, MessageKeysSealOneMessage

\* A crash loses operations and nothing else; so does a step that changes nothing.
LEMMA LosingKeeps ==
  ASSUME Conversation, \A d \in Device, s \in Slots : ops'[d][s] = ops[d][s] \/ ops'[d][s] = None,
         UNCHANGED <<records, preKeys, served, generated, sent, bodies, opens, delivered, built>>
  PROVE  Conversation'
<1>1. /\ Counted /\ OpenedOnce(records, opens, served, sent, generated) /\ BodiesApart(sent, ops, bodies)
      /\ Operations(ops, records, sent, opens) /\ Messages(sent, records, ops, generated)
      /\ HandedOutOnce(sent, records, ops, delivered)
  BY DEF Conversation
<1>2. Operations(ops', records', sent', opens')
  BY <1>1 DEF Operations, InPlace
<1>3. Messages(sent', records', ops', generated')
  <2>1. \A m \in sent : \A e \in Device, t \in Slots : Unreleased(m, ops'[e][t])
    BY <1>1 DEF Messages, Unreleased, Releasing
  <2>2. QED
    BY <1>1, <2>1 DEF Messages
<1>4. BodiesApart(sent', ops', bodies')
  <2>1. \A e \in Device, t \in Slots : Encrypting(ops'[e][t]) => Encrypting(ops[e][t]) /\ ops'[e][t] = ops[e][t]
    BY DEF Encrypting
  <2>2. BodiesApart(sent, ops', bodies)
    BY <1>1, <2>1 DEF BodiesApart
  <2>3. QED
    BY <2>2
<1>5. HandedOutOnce(sent', records', ops', delivered')
  <2>1. \A e \in Device, t \in Slots : \A b : HandingOut(ops'[e][t], b) => HandingOut(ops[e][t], b)
    BY DEF HandingOut
  <2>2. \A b : HandedOut(b, ops', delivered) => HandedOut(b, ops, delivered)
    BY <2>1 DEF HandedOut
  <2>3. \A m \in sent : HandedOut(m.signal.body, ops', delivered) =>
          records[m.to].currentSession # None /\ Gone(records[m.to].currentSession, m.signal.mac.key)
    BY <1>1, <2>2 DEF HandedOutOnce
  <2>4. \A e \in Device, t \in Slots, b \in Bodies : HandingOut(ops'[e][t], b) => delivered[b] = 0
    <3>1. TAKE e \in Device, t \in Slots, b \in Bodies
    <3>2. HandingOut(ops'[e][t], b) => HandingOut(ops[e][t], b)
      BY <2>1
    <3>3. QED
      BY <1>1, <3>2 DEF HandedOutOnce
  <2>5. \A b \in Bodies : delivered[b] # 0 => \E m \in sent : m.signal.body = b
    BY <1>1 DEF HandedOutOnce
  <2>6. HandedOutOnce(sent, records, ops', delivered)
    BY <2>3, <2>4, <2>5 DEF HandedOutOnce
  <2>7. QED
    BY <2>6
<1>6. Counted' /\ MessageKeysSealOneMessage'
  BY DEF Conversation, Counted, MessageKeysSealOneMessage
<1>7. QED
  BY <1>2, <1>3, <1>4, <1>5, <1>6 DEF Conversation

----------------------------------------------------------------------------
(* The conversation, step by step.                                         *)

\* It starts with nothing.
LEMMA ConversationStarts == ASSUME OneOpening, Init PROVE Conversation
<1>1. /\ sent = {} /\ bodies = 0
      /\ \A d \in Device : /\ records[d] = createSessionRecord /\ generated[d] = 0 /\ opens[d] = 0
                           /\ built[d] = << >> /\ served[d] = {}
                           /\ \A s \in Slots : ops[d][s] = None
      /\ \A b \in Bodies : delivered[b] = 0
  BY DEF Init
<1>2. \A d \in Device : records[d].currentSession = None /\ records[d].previousSessions = << >>
  BY <1>1 DEF createSessionRecord
<1>3. \A d \in Device : ~CanEncrypt(records[d])
  BY <1>2 DEF CanEncrypt
<1>4. Counted
  <2>1. /\ generated = [d \in Device |-> generated[d]] /\ opens = [d \in Device |-> opens[d]]
        /\ built = [d \in Device |-> built[d]] /\ served = [d \in Device |-> served[d]]
        /\ delivered = [b \in Bodies |-> delivered[b]]
    BY DEF Init
  <2>2. \A d \in Device : MaxOpens[d] \in Nat
    BY DevicesAssumption
  <2>3. IsSeq(<< >>)
    BY DEF IsSeq
  <2>4. QED
    BY <1>1, <2>1, <2>2, <2>3, DevicesAssumption DEF Counted
<1>5. Sessions(records, generated, built)
  BY <1>1, <1>2, <1>3 DEF Sessions, OneSession, StartOfRecord, FreshSeed
<1>6. SeedsApart(records)
  BY <1>3 DEF SeedsApart
<1>7. Operations(ops, records, sent, opens)
  BY <1>1 DEF Operations, InPlace
<1>8. Messages(sent, records, ops, generated) /\ MessageKeysSealOneMessage
  BY <1>1 DEF Messages, MessageKeysSealOneMessage
<1>9. BodiesApart(sent, ops, bodies)
  BY <1>1 DEF BodiesApart, Encrypting
<1>10. HandedOutOnce(sent, records, ops, delivered)
  BY <1>1 DEF HandedOutOnce, HandingOut
<1>11. OpenedOnce(records, opens, served, sent, generated)
  BY <1>1, <1>2, Peers, TheOpener DEF OpenedOnce
<1>12. QED
  BY <1>4, <1>5, <1>6, <1>7, <1>8, <1>9, <1>10, <1>11 DEF Conversation

\* It goes on, as long as no pkmsg builds a session a second time.
LEMMA ConversationGoesOn ==
  ASSUME OneAtATime, OneOpening, RecordsInOrder, Conversation, [Next]_vars, BaseKeyBuildsOneSession'
  PROVE  Conversation'
<1>1. CASE UNCHANGED vars
  BY <1>1, LosingKeeps DEF vars
<1>2. ASSUME NEW d \in Device, Crash(d) PROVE Conversation'
  <2>1. OpsByDevice
    BY DEF RecordsInOrder, HeldInOrder
  <2>2. \A e \in Device, t \in Slots : ops'[e][t] = ops[e][t] \/ ops'[e][t] = None
    BY <1>2, <2>1 DEF Crash, OpsByDevice, ByDevice
  <2>3. UNCHANGED <<records, preKeys, served, generated, sent, bodies, opens, delivered, built>>
    BY <1>2 DEF Crash
  <2>4. QED
    BY <2>2, <2>3, LosingKeeps
<1>3. ASSUME NEW d \in Device, NEW s \in Slots, Step(d, s) PROVE Conversation'
  <2>1. CASE StartOpen(d, s)
    BY <2>1, StartOpenKeeps
  <2>2. CASE Open(d, s)
    BY <2>2, OpenKeeps
  <2>3. CASE StartEncrypt(d, s)
    BY <2>3, StartEncryptKeeps
  <2>4. CASE Encrypt(d, s)
    BY <2>4, EncryptKeeps
  <2>5. CASE ReturnCiphertext(d, s)
    BY <2>5, ReturnCiphertextKeeps
  <2>6. CASE Decrypt(d, s)
    BY <2>6, DecryptKeeps
  <2>7. CASE ReturnPlaintext(d, s)
    BY <2>7, ReturnPlaintextKeeps
  <2>8. CASE \/ \E message \in sent : StartDecrypt(d, s, message)
             \/ ResolveKeys(d, s)
             \/ DecryptFails(d, s)
             \/ DeletePreKey(d, s)
    BY <2>8, DecryptionMoves
  <2>9. QED
    BY <1>3, <2>1, <2>2, <2>3, <2>4, <2>5, <2>6, <2>7, <2>8 DEF Step
<1>4. QED
  BY <1>1, <1>2, <1>3 DEF Next

\* The history of the sessions built.
BuiltInOrder == built = [d \in Device |-> built[d]] /\ \A d \in Device : IsSeq(built[d])

\* Sessions are built one after the other: what has been built twice stays so.
LEMMA BuiltGrows ==
  ASSUME BuiltInOrder, [Next]_vars
  PROVE  BuiltInOrder' /\ (BaseKeyBuildsOneSession' => BaseKeyBuildsOneSession)
<1>1. CASE UNCHANGED built
  BY <1>1 DEF BuiltInOrder, BaseKeyBuildsOneSession
<1>2. ASSUME NEW d \in Device, NEW pending, built' = [built EXCEPT ![d] = Append(@, pending)]
      PROVE  BuiltInOrder' /\ (BaseKeyBuildsOneSession' => BaseKeyBuildsOneSession)
  <2> DEFINE was == built[d]
             now == Append(was, pending)
  <2>1. /\ IsSeq(was) /\ Len(was) \in Nat /\ IsSeq(now) /\ Len(now) = Len(was) + 1
        /\ \A i \in 1 .. Len(was) : now[i] = was[i]
    BY AppendElements DEF BuiltInOrder, IsSeq
  <2>2. built' = [built EXCEPT ![d] = now]
    BY <1>2
  <2> HIDE DEF now
  <2>3. built'[d] = now /\ built' = [e \in Device |-> built'[e]] /\ \A e \in Device : e # d => built'[e] = built[e]
    BY <2>2 DEF BuiltInOrder
  <2>4. BuiltInOrder'
    BY <2>1, <2>3 DEF BuiltInOrder
  <2>5. DOMAIN was = 1 .. Len(was) /\ DOMAIN now = 1 .. Len(now)
    BY <2>1, SeqOfElements
  <2>6. \A i \in DOMAIN was : i \in DOMAIN now /\ now[i] = was[i]
    BY <2>1, <2>5
  <2>7. ASSUME BaseKeyBuildsOneSession', NEW e \in Device, NEW i \in DOMAIN built[e], NEW j \in DOMAIN built[e], i # j
        PROVE  built[e][i].baseKey # built[e][j].baseKey
    <3>1. /\ i \in DOMAIN built'[e] /\ built'[e][i] = built[e][i]
          /\ j \in DOMAIN built'[e] /\ built'[e][j] = built[e][j]
      BY <2>3, <2>6, <2>7
    <3>2. built'[e][i].baseKey # built'[e][j].baseKey
      BY <2>7, <3>1 DEF BaseKeyBuildsOneSession
    <3>3. QED
      BY <3>1, <3>2
  <2>8. QED
    BY <2>4, <2>7 DEF BaseKeyBuildsOneSession
<1>3. \/ UNCHANGED built
      \/ \E d \in Device : \E pending : built' = [built EXCEPT ![d] = Append(@, pending)]
  <2>1. CASE UNCHANGED vars
    BY <2>1 DEF vars
  <2>2. ASSUME NEW d \in Device, Crash(d) PROVE UNCHANGED built
    BY <2>2 DEF Crash
  <2>3. ASSUME NEW d \in Device, NEW s \in Slots, Step(d, s), ~Decrypt(d, s) PROVE UNCHANGED built
    BY <2>3 DEF Step, StartOpen, Open, StartEncrypt, Encrypt, ReturnCiphertext, StartDecrypt, ResolveKeys,
                DecryptFails, DeletePreKey, ReturnPlaintext
  <2>4. ASSUME NEW d \in Device, NEW s \in Slots, Decrypt(d, s)
        PROVE  \/ UNCHANGED built
               \/ \E pending : built' = [built EXCEPT ![d] = Append(@, pending)]
    BY <2>4 DEF Decrypt
  <2>5. QED
    BY <2>1, <2>2, <2>3, <2>4 DEF Next
<1>4. QED
  BY <1>1, <1>2, <1>3

\* The invariant that holds as long as no pkmsg has built a session twice.
LEMMA ConversationHolds ==
  ASSUME OneAtATime, OneOpening
  PROVE  Spec => []ConversationSoFar
<1>1. Init => BuiltInOrder /\ ConversationSoFar
  <2>1. Init => BuiltInOrder
    BY DEF Init, BuiltInOrder, IsSeq
  <2>2. QED
    BY <2>1, ConversationStarts DEF ConversationSoFar
<1>2. RecordsInOrder /\ BuiltInOrder /\ ConversationSoFar /\ [Next]_vars => BuiltInOrder' /\ ConversationSoFar'
  BY BuiltGrows, ConversationGoesOn DEF ConversationSoFar
<1>3. QED
  BY <1>1, <1>2, RecordsStayInOrder, PTL DEF Spec

\* "Used exactly once and then thrown away", through crashes: no two messages are
\* sealed with one key, on devices that finish each operation before the next and
\* of which one opens a session, once, unless a crash made a pkmsg build it again.
THEOREM KeysSealOneMessage ==
  ASSUME OneAtATime, OneOpening
  PROVE  Spec => []CrashReusesNoKey
<1>1. ConversationSoFar => CrashReusesNoKey
  BY DEF ConversationSoFar, Conversation, CrashReusesNoKey
<1>2. QED
  BY <1>1, ConversationHolds, PTL

\* With a one-time pre-key to be had, no pkmsg builds a session twice.
LEMMA OneKeyOneSession ==
  ASSUME OneAtATime, OneOpening, Stocked, BuiltInOrder, Conversation, [Next]_vars, BaseKeyBuildsOneSession,
         PreKeyBuildsOneSession'
  PROVE  BaseKeyBuildsOneSession'
<1>1. CASE UNCHANGED built
  BY <1>1 DEF BaseKeyBuildsOneSession
<1>2. ASSUME NEW d \in Device, NEW s \in Slots, Decrypt(d, s) PROVE BaseKeyBuildsOneSession'
  <2>1. /\ \A e \in Device : IsSeq(built'[e]) /\ (e # d => built'[e] = built[e])
        /\ \A i \in 1 .. Len(built'[d]) : Starts(built'[d][i])
    BY <1>2, StartsBuilt
  <2>2. TheOneTimeKey # None
    BY PairsAreSomething DEF TheOneTimeKey, preKeyPair
  <2>3. \A i, j \in DOMAIN built'[d] : i = j
    <3>1. DOMAIN built'[d] = 1 .. Len(built'[d])
      BY <2>1, SeqOfElements
    <3>2. \A i \in DOMAIN built'[d] : built'[d][i].preKey = TheOneTimeKey
      BY <2>1, <3>1 DEF Starts
    <3>3. QED
      BY <2>2, <3>2 DEF PreKeyBuildsOneSession
  <2>4. QED
    BY <2>1, <2>3 DEF BaseKeyBuildsOneSession
<1>3. \/ UNCHANGED built
      \/ \E d \in Device, s \in Slots : Decrypt(d, s)
  <2>1. CASE UNCHANGED vars
    BY <2>1 DEF vars
  <2>2. ASSUME NEW d \in Device, Crash(d) PROVE UNCHANGED built
    BY <2>2 DEF Crash
  <2>3. ASSUME NEW d \in Device, NEW s \in Slots, Step(d, s), ~Decrypt(d, s) PROVE UNCHANGED built
    BY <2>3 DEF Step, StartOpen, Open, StartEncrypt, Encrypt, ReturnCiphertext, StartDecrypt, ResolveKeys,
                DecryptFails, DeletePreKey, ReturnPlaintext
  <2>4. QED
    BY <2>1, <2>2, <2>3 DEF Next
<1>4. QED
  BY <1>1, <1>2, <1>3

\* "A retried pkmsg carries the same base key": the network may repeat it as it
\* likes, it builds one session, while neither device crashes and the opener got a
\* one-time pre-key.
THEOREM RetriesBuildNoSession ==
  ASSUME OneAtATime, OneOpening, NoCrashes, Stocked
  PROVE  Spec => []BaseKeyBuildsOneSession
<1>1. Init => BuiltInOrder /\ Conversation /\ BaseKeyBuildsOneSession
  <2>1. Init => BuiltInOrder
    BY DEF Init, BuiltInOrder, IsSeq
  <2>2. Init => BaseKeyBuildsOneSession
    BY DEF Init, BaseKeyBuildsOneSession
  <2>3. QED
    BY <2>1, <2>2, ConversationStarts
<1>2. /\ RecordsInOrder /\ PreKeyBuildsOneSession' /\ BuiltInOrder /\ Conversation /\ BaseKeyBuildsOneSession /\ [Next]_vars
      => BuiltInOrder' /\ Conversation' /\ BaseKeyBuildsOneSession'
  BY BuiltGrows, OneKeyOneSession, ConversationGoesOn
<1>3. QED
  BY <1>1, <1>2, RecordsStayInOrder, PreKeysBuildOneSession, PTL DEF Spec

----------------------------------------------------------------------------
(* The channel.  Releasing a ciphertext sends its body, returning a        *)
(* plaintext delivers it, and no other step is seen.                       *)

accepted == {m.signal.body : m \in sent}

\* A ciphertext that is released sends a body that has not been sent.
LEMMA ReleaseSends ==
  ASSUME RecordsInOrder, Conversation, NEW d \in Device, NEW s \in Slots, ReturnCiphertext(d, s)
  PROVE  Channel!Next
<1> DEFINE op == ops[d][s]
           body == op.input
           signal == encrypt(op.record, op.input)
           new == [to |-> Peer(d), signal |-> signal]
<1>1. op # None /\ op.kind = "encrypt" /\ op.step = "return" /\ sent' = sent \union {new} /\ UNCHANGED delivered
  BY DEF ReturnCiphertext, Awaits
<1>2. Encrypting(op) /\ GoodRecord(op.record) /\ CanEncrypt(op.record)
  BY <1>1 DEF RecordsInOrder, HeldInOrder, GoodOp, Encrypting
<1>3. signal.body = body
  BY <1>2, SealedWithKey
<1> HIDE DEF signal
<1>4. new.signal.body = body
  BY <1>3
<1> HIDE DEF new
<1>5. body \in 1 .. bodies /\ bodies \in 0 .. MaxBodies /\ \A m \in sent : m.signal.body # body
  BY <1>2 DEF Conversation, Counted, BodiesApart
<1>6. body \in Bodies
  BY <1>5, DevicesAssumption DEF Bodies
<1>7. body \notin {m.signal.body : m \in sent}
  BY <1>5
<1>8. {m.signal.body : m \in sent'} = {m.signal.body : m \in sent} \union {body}
  BY <1>1, <1>4
<1> HIDE DEF body
<1>9. \E b \in Bodies : /\ b \notin {m.signal.body : m \in sent}
                       /\ {m.signal.body : m \in sent'} = {m.signal.body : m \in sent} \union {b}
                       /\ UNCHANGED delivered
  BY <1>1, <1>6, <1>7, <1>8
<1>10. QED
  BY <1>9 DEF Channel!Next, Channel!Send

\* A plaintext that is returned is delivered for the first time.
LEMMA ReturnDelivers ==
  ASSUME Conversation, NEW d \in Device, NEW s \in Slots, ReturnPlaintext(d, s)
  PROVE  \E b \in Bodies : Channel!Deliver(b)
<1> DEFINE op == ops[d][s]
           body == op.input.body
<1>1. /\ op # None /\ op.kind = "decrypt" /\ op.step = "return"
      /\ delivered' = [delivered EXCEPT ![body] = @ + 1] /\ UNCHANGED sent
  BY DEF ReturnPlaintext, Awaits
<1>2. /\ Counted /\ BodiesApart(sent, ops, bodies) /\ Operations(ops, records, sent, opens)
      /\ HandedOutOnce(sent, records, ops, delivered)
  BY DEF Conversation
<1>3. PICK m \in sent : m.signal = op.input
  BY <1>1, <1>2 DEF Operations, InPlace, Received
<1>4. body \in Bodies
  <2>1. body \in 1 .. bodies /\ bodies \in 0 .. MaxBodies /\ MaxBodies \in Nat
    BY <1>2, <1>3, DevicesAssumption DEF BodiesApart, Counted
  <2>2. QED
    BY <2>1 DEF Bodies
<1>5. delivered[body] = 0
  <2>1. HandingOut(op, body)
    BY <1>1 DEF HandingOut
  <2>2. QED
    BY <1>2, <1>4, <2>1 DEF HandedOutOnce
<1>6. body \in {n.signal.body : n \in sent}
  BY <1>3
<1> HIDE DEF op, body
<1>7. delivered' = [delivered EXCEPT ![body] = 1]
  BY <1>1, <1>5
<1>8. {n.signal.body : n \in sent'} = {n.signal.body : n \in sent}
  BY <1>1
<1>9. Channel!Deliver(body)
  BY <1>5, <1>6, <1>7, <1>8 DEF Channel!Deliver
<1>10. QED
  BY <1>4, <1>9

\* The repository is the channel an application expects, through crashes and
\* whatever the network does, while no pkmsg builds a session twice.
THEOREM KeepsTheChannel ==
  ASSUME OneAtATime, OneOpening
  PROVE  Spec /\ []BaseKeyBuildsOneSession => ImplementsChannel
<1>1. Init => Channel!Init
  BY DEF Init, Channel!Init
<1>2. ASSUME RecordsInOrder, Conversation, [Next]_vars
      PROVE  Channel!Next \/ (UNCHANGED delivered /\ UNCHANGED accepted)
  <2>1. CASE UNCHANGED <<sent, delivered>>
    BY <2>1 DEF accepted
  <2>2. ASSUME NEW d \in Device, NEW s \in Slots, ReturnCiphertext(d, s) PROVE Channel!Next
    BY <1>2, <2>2, ReleaseSends
  <2>3. ASSUME NEW d \in Device, NEW s \in Slots, ReturnPlaintext(d, s) PROVE Channel!Next
    BY <1>2, <2>3, ReturnDelivers DEF Channel!Next
  <2>4. \/ UNCHANGED <<sent, delivered>>
        \/ \E d \in Device, s \in Slots : ReturnCiphertext(d, s) \/ ReturnPlaintext(d, s)
    <3>1. CASE UNCHANGED vars
      BY <3>1 DEF vars
    <3>2. ASSUME NEW d \in Device, Crash(d) PROVE UNCHANGED <<sent, delivered>>
      BY <3>2 DEF Crash
    <3>3. ASSUME NEW d \in Device, NEW s \in Slots, Step(d, s), ~ReturnCiphertext(d, s), ~ReturnPlaintext(d, s)
          PROVE  UNCHANGED <<sent, delivered>>
      BY <3>3 DEF Step, StartOpen, Open, StartEncrypt, Encrypt, StartDecrypt, ResolveKeys, Decrypt, DecryptFails, DeletePreKey
    <3>4. QED
      BY <1>2, <3>1, <3>2, <3>3 DEF Next
  <2>5. QED
    BY <2>1, <2>2, <2>3, <2>4
<1>3. ConversationSoFar /\ BaseKeyBuildsOneSession => Conversation
  BY DEF ConversationSoFar
<1>4. RecordsInOrder /\ Conversation /\ [Next]_vars => [Channel!Next]_<<accepted, delivered>>
  BY <1>2 DEF accepted
<1>5. Spec /\ []BaseKeyBuildsOneSession => Channel!Init /\ [][Channel!Next]_<<accepted, delivered>>
  BY <1>1, <1>3, <1>4, ConversationHolds, RecordsStayInOrder, PTL DEF Spec
<1>6. QED
  BY <1>5, PTL DEF ImplementsChannel, Channel!Spec, accepted

\* "What was sent is handed out at most once and only after it was sent", while
\* neither device crashes and the opener got a one-time pre-key.
THEOREM RepositoryIsAChannel ==
  ASSUME OneAtATime, OneOpening, NoCrashes, Stocked
  PROVE  Spec => ImplementsChannel
  BY RetriesBuildNoSession, KeepsTheChannel, PTL

\* "Keeping it would allow a replay": under the same conditions no plaintext is
\* returned twice, and no key seals two messages.
THEOREM DeliveredOnce ==
  ASSUME OneAtATime, OneOpening, NoCrashes, Stocked
  PROVE  Spec => [](DeliveredAtMostOnce /\ MessageKeysSealOneMessage)
<1> DEFINE Once == \A b \in Bodies : delivered[b] \in {0, 1}
<1>1. Init => Once
  BY DEF Init
<1>2. Conversation /\ Once /\ [Next]_vars => Once'
  <2>1. SUFFICES ASSUME Conversation, Once, [Next]_vars PROVE Once'
    OBVIOUS
  <2>2. CASE UNCHANGED delivered
    BY <2>1, <2>2
  <2>3. ASSUME NEW d \in Device, NEW s \in Slots, ReturnPlaintext(d, s) PROVE Once'
    <3>1. PICK b \in Bodies : Channel!Deliver(b)
      BY <2>1, <2>3, ReturnDelivers
    <3>2. delivered' = [delivered EXCEPT ![b] = 1]
      BY <3>1 DEF Channel!Deliver
    <3>3. QED
      BY <2>1, <3>2 DEF Conversation, Counted
  <2>4. \/ UNCHANGED delivered
        \/ \E d \in Device, s \in Slots : ReturnPlaintext(d, s)
    <3>1. CASE UNCHANGED vars
      BY <3>1 DEF vars
    <3>2. ASSUME NEW d \in Device, Crash(d) PROVE UNCHANGED delivered
      BY <3>2 DEF Crash
    <3>3. ASSUME NEW d \in Device, NEW s \in Slots, Step(d, s), ~ReturnPlaintext(d, s)
          PROVE  UNCHANGED delivered
      BY <3>3 DEF Step, StartOpen, Open, StartEncrypt, Encrypt, ReturnCiphertext, StartDecrypt, ResolveKeys, Decrypt,
                  DecryptFails, DeletePreKey
    <3>4. QED
      BY <2>1, <3>1, <3>2, <3>3 DEF Next
  <2>5. QED
    BY <2>2, <2>3, <2>4
<1>3. Once => DeliveredAtMostOnce
  BY DEF DeliveredAtMostOnce
<1>4. Conversation => MessageKeysSealOneMessage
  BY DEF Conversation
<1>5. ConversationSoFar /\ BaseKeyBuildsOneSession => Conversation
  BY DEF ConversationSoFar
<1>6. QED
  BY <1>1, <1>2, <1>3, <1>4, <1>5, ConversationHolds, RetriesBuildNoSession, PTL DEF Spec

----------------------------------------------------------------------------
(***************************************************************************)
(* The two ends of a conversation stay in step, as long as no chain and no *)
(* session runs into its limits.                                           *)
(***************************************************************************)

\* No chain is used beyond its limits, and no session has had more chains than it keeps.
WithinLimits ==
  /\ \A m \in sent : m.signal.counter <= MAX_SKIPPED_MESSAGE_KEYS /\ m.signal.counter <= MAX_STORED_MESSAGE_KEYS
  /\ \A d \in Device : records[d].currentSession # None =>
       Len(records[d].currentSession.rootKey) <= 2 * MAX_PREVIOUS_SESSIONS + 2

TheBundle(d) == [identityKey |-> identityKey(d), signedPreKey |-> signedPreKey(d), preKey |-> TheOneTimeKey]

\* The session a device has, or else the one that the first pkmsg will build.
Awaited(d) == createIncomingSession(TheBundle(d), identityKey(Peer(d)), TheBaseKey)
End(stored, d) == IF stored[d].currentSession = None THEN Awaited(d) ELSE stored[d].currentSession

HasChain(session, ratchetKey, seed) ==
  \E i \in 1 .. Len(session.receiverChains) :
    session.receiverChains[i].ratchetKey = ratchetKey /\ SeedOf(session.receiverChains[i]) = seed
NoChain(session, ratchetKey) ==
  \A i \in 1 .. Len(session.receiverChains) : session.receiverChains[i].ratchetKey # ratchetKey

\* The chains of a session are of one pair of the peer each, as many as there were
\* turns of the root ratchet, and go as far as a message that was sent.
ChainsApart(chains, made, net) ==
  /\ \A i \in 1 .. Len(chains) :
       /\ Made(made, chains[i].ratchetKey)
       /\ \/ chains[i].chainKey.index = 0
          \/ \E m \in net : m.signal.mac.key = Key(SeedOf(chains[i]), chains[i].chainKey.index - 1)
  /\ \A i, j \in 1 .. Len(chains) : i # j => chains[i].ratchetKey # chains[j].ratchetKey

EndInOrder(d, session, made, net) ==
  /\ session.localIdentity = identityKey(d) /\ session.remoteIdentity = identityKey(Peer(d))
  /\ session.senderChain # None => SeedOf(session.senderChain) = session.rootKey
  /\ ChainsApart(session.receiverChains, made, net)
  /\ 2 * Len(session.receiverChains) + 1 <= Len(session.rootKey)

\* One root key is ahead of the other by the secret of the two ratchet pairs.
Leads(ahead, behind) ==
  ahead.rootKey = deriveRootKey(behind.rootKey, sharedKey(behind.ourRatchetKey, ahead.ourRatchetKey))

\* The end ahead can read what the other has sent; the other has yet to turn.
OneAhead(stored) ==
  \E d \in Device :
    LET ahead == End(stored, d)
        behind == End(stored, Peer(d))
    IN  /\ stored[d].currentSession # None /\ Leads(ahead, behind)
        /\ NoChain(behind, ahead.ourRatchetKey)
        /\ stored[Peer(d)].currentSession # None => HasChain(ahead, behind.ourRatchetKey, behind.rootKey)

\* A message is on a chain the receiver has, or on the one it will make next.
OnChain(m, stored) ==
  LET own == End(stored, m.to)
      other == End(stored, Peer(m.to))
      seed == m.signal.mac.key.seed
  IN  \/ HasChain(own, m.signal.ratchetKey, seed)
      \/ seed = other.rootKey /\ m.signal.ratchetKey = other.ourRatchetKey /\ Leads(other, own)

\* Its key is to be had until it has been handed out.
KeyKept(m, stored, held, given) ==
  ~HandedOut(m.signal.body, held, given) =>
    LET chains == End(stored, m.to).receiverChains
    IN  \A i \in 1 .. Len(chains) :
          SeedOf(chains[i]) = m.signal.mac.key.seed => m.signal.counter \in Spendable(chains[i])

Addressed(m, stored) ==
  /\ m.signal.mac = [key |-> m.signal.mac.key, sender |-> identityKey(Peer(m.to)), receiver |-> identityKey(m.to)]
  /\ m.signal.preKeyData # None => m.signal.preKeyData.identityKey = identityKey(Peer(m.to))
  /\ (m.signal.preKeyData = None \/ m.to = Opener) => stored[Peer(Opener)].currentSession # None

MessagesInStep(net, stored, held, given) ==
  \A m \in net : Addressed(m, stored) /\ OnChain(m, stored) /\ KeyKept(m, stored, held, given)

EndsInStep(stored, made, net) ==
  /\ \A d \in Device : EndInOrder(d, End(stored, d), made, net)
  /\ OneAhead(stored)
  /\ End(stored, Opener).pendingPreKey = None => stored[Peer(Opener)].currentSession # None

\* What operations work with.
HasTheBundle(d, op) ==
  /\ op # None /\ op.kind = "open" => op.input = TheBundle(Peer(d))
  /\ op # None /\ op.kind = "decrypt" /\ op.ctx # None => op.ctx = TheBundle(d)

WithTheBundle(held) == \A d \in Device, s \in Slots : HasTheBundle(d, held[d][s])

InStep ==
  /\ WithTheBundle(ops)
  /\ records[Opener].currentSession # None =>
       EndsInStep(records, generated, sent) /\ MessagesInStep(sent, records, ops, delivered)

InStepSoFar == WithinLimits => InStep

----------------------------------------------------------------------------
(* The chains within their limits.                                         *)

\* A chain stores one key at most for each turn it has made.
LEMMA FewStored ==
  ASSUME NEW chain, InOrder(chain)
  PROVE  Len(chain.messageKeys) <= chain.chainKey.index
<1> DEFINE keys == chain.messageKeys
           n == chain.chainKey.index
           S == {i \in Nat : i \in 1 .. Len(keys) => i <= keys[i].index + 1}
<1>1. /\ n \in Nat /\ Len(keys) \in Nat
      /\ \A i \in 1 .. Len(keys) : keys[i].index \in Nat /\ keys[i].index < n
      /\ \A i, j \in 1 .. Len(keys) : i < j => keys[i].index < keys[j].index
  BY DEF InOrder, Ascending, IsSeq
<1> HIDE DEF keys, n
<1>2. 0 \in S
  BY <1>1
<1>3. ASSUME NEW i \in Nat, i \in S PROVE i + 1 \in S
  <2>1. SUFFICES ASSUME i + 1 \in 1 .. Len(keys) PROVE i + 1 <= keys[i + 1].index + 1
    OBVIOUS
  <2>2. keys[i + 1].index \in Nat
    BY <1>1, <2>1
  <2>3. CASE i = 0
    BY <2>2, <2>3
  <2>4. CASE i # 0
    <3>1. i \in 1 .. Len(keys) /\ i < i + 1
      BY <1>1, <2>1, <2>4
    <3>2. keys[i].index \in Nat /\ keys[i].index < keys[i + 1].index /\ i <= keys[i].index + 1
      BY <1>1, <1>3, <2>1, <3>1
    <3>3. QED
      BY <2>2, <3>2
  <2>5. QED
    BY <2>3, <2>4
<1>4. \A i \in Nat : i \in S
  <2> HIDE DEF S
  <2>1. QED
    BY <1>2, <1>3, NatSetInduction
<1>5. CASE Len(keys) = 0
  BY <1>1, <1>5 DEF keys, n
<1>6. CASE Len(keys) # 0
  <2>1. Len(keys) \in 1 .. Len(keys)
    BY <1>1, <1>6
  <2>2. Len(keys) <= keys[Len(keys)].index + 1 /\ keys[Len(keys)].index \in Nat /\ keys[Len(keys)].index < n
    BY <1>1, <1>4, <2>1
  <2>3. Len(keys) <= n
    BY <1>1, <2>2
  <2>4. QED
    BY <2>3 DEF keys, n
<1>7. QED
  BY <1>5, <1>6

\* Within the limit nothing is pruned: a request takes away the key it is answered
\* with and no other.
LEMMA AnswerKeepsOthers ==
  ASSUME NEW chain, InOrder(chain), NEW counter \in Nat, counter <= MAX_STORED_MESSAGE_KEYS,
         NEW given \in messageKeysForCounter(chain, counter)
  PROVE  /\ Spendable(chain) \ {counter} \subseteq Spendable(given.chain)
         /\ given.chain.chainKey.index = chain.chainKey.index \/ given.chain.chainKey.index = counter + 1
<1> DEFINE keys == chain.messageKeys
           seed == SeedOf(chain)
           n == chain.chainKey.index
<1>1. /\ chain = ChainOf(chain.ratchetKey, seed, n, keys) /\ n \in Nat
      /\ IsSeq(keys) /\ Len(keys) \in Nat
      /\ \A i \in 1 .. Len(keys) : keys[i].index \in Nat
  BY DEF InOrder, Ascending, IsSeq
<1>2. CASE StoredAt(keys, counter) # {}
  <2>1. PICK k \in StoredAt(keys, counter) : given = TakeStored(chain, k)
    BY <1>2 DEF messageKeysForCounter
  <2>2. k \in 1 .. Len(keys) /\ keys[k].index = counter
    BY <1>1, SeqOfElements DEF StoredAt
  <2> DEFINE left == RemoveAt(keys, k)
  <2>3. given.chain = [chain EXCEPT !.messageKeys = left]
    BY <2>1 DEF TakeStored
  <2> HIDE DEF keys, n, seed, left
  <2>4. given.chain.chainKey.index = n /\ given.chain.messageKeys = left
    <3>1. given.chain = ChainOf(chain.ratchetKey, seed, n, left)
      BY <1>1, <2>3 DEF ChainOf
    <3>2. QED
      BY <3>1 DEF ChainOf
  <2>5. /\ Len(left) = Len(keys) - 1
        /\ \A j \in 1 .. Len(keys) - 1 : left[j] = IF j < k THEN keys[j] ELSE keys[j + 1]
    BY <1>1, <2>2, RemoveElements DEF left
  <2>6. ASSUME NEW m \in Spendable(chain), m # counter PROVE m \in Spendable(given.chain)
    <3>1. m \in Nat /\ (m >= n \/ \E i \in 1 .. Len(keys) : keys[i].index = m)
      BY DEF Spendable, n, keys
    <3>2. CASE m >= n
      BY <2>4, <3>1, <3>2 DEF Spendable
    <3>3. ASSUME NEW i \in 1 .. Len(keys), keys[i].index = m PROVE m \in Spendable(given.chain)
      <4>1. i # k
        BY <2>2, <2>6, <3>3
      <4>2. \E j \in 1 .. Len(left) : left[j] = keys[i]
        <5>1. CASE i < k
          <6>1. i \in 1 .. Len(keys) - 1
            BY <1>1, <2>2, <5>1
          <6>2. QED
            BY <2>5, <5>1, <6>1
        <5>2. CASE k < i
          <6>1. i - 1 \in 1 .. Len(keys) - 1 /\ ~(i - 1 < k) /\ (i - 1) + 1 = i
            BY <1>1, <2>2, <5>2
          <6>2. QED
            BY <2>5, <6>1
        <5>3. QED
          BY <1>1, <2>2, <4>1, <5>1, <5>2
      <4>3. QED
        BY <2>4, <3>1, <3>3, <4>2 DEF Spendable
    <3>4. QED
      BY <3>1, <3>2, <3>3
  <2>7. QED
    BY <2>4, <2>6 DEF n
<1>3. CASE StoredAt(keys, counter) = {}
  <2> DEFINE at == [key |-> Key(seed, n), index |-> n]
             skipped == SkippedKeys(at, counter)
             all == keys \o skipped
             reached == turnChainKey(at, counter - n)
  <2>1. counter >= n /\ given = DeriveUpTo(chain, counter)
    BY <1>3 DEF messageKeysForCounter, InReach
  <2>2. chain.chainKey = at /\ chain.chainKey.index = n /\ chain.messageKeys = keys
    BY <1>1 DEF ChainOf
  <2>3. given.chain = [chain EXCEPT !.chainKey = nextChainKey(reached), !.messageKeys = pruneMessageKeys(all)]
    BY <2>1, <2>2 DEF DeriveUpTo
  <2>4. nextChainKey(reached).index = counter + 1
    BY <1>1, <2>1 DEF nextChainKey, turnChainKey
  <2>5. chain = [ratchetKey |-> chain.ratchetKey, chainKey |-> at, messageKeys |-> keys]
    BY <1>1 DEF ChainOf
  <2> HIDE DEF keys, n, seed, at, skipped, reached, all
  <2>6. /\ Len(skipped) = counter - n /\ IsSeq(skipped)
        /\ \A j \in 1 .. counter - n : skipped[j] = KeysOf(seed, n + (j - 1))
    BY <1>1, <2>1, Banked DEF skipped, at
  <2>7. /\ Len(all) = Len(keys) + (counter - n)
        /\ \A i \in 1 .. Len(all) : all[i] = IF i <= Len(keys) THEN keys[i] ELSE skipped[i - Len(keys)]
    BY <1>1, <2>6, ConcatElements DEF all
  <2>8. pruneMessageKeys(all) = all
    <3>1. Len(keys) <= n
      BY FewStored DEF keys, n
    <3>2. Len(all) - MAX_STORED_MESSAGE_KEYS <= 0
      BY <1>1, <2>1, <2>7, <3>1, LimitsAssumption
    <3>3. QED
      BY <3>2 DEF pruneMessageKeys
  <2>9. given.chain = [ratchetKey |-> chain.ratchetKey, chainKey |-> nextChainKey(reached), messageKeys |-> all]
    <3> DEFINE next == nextChainKey(reached)
    <3> HIDE DEF next
    <3>1. given.chain = [chain EXCEPT !.chainKey = next, !.messageKeys = all]
      BY <2>3, <2>8 DEF next
    <3>2. given.chain = [ratchetKey |-> chain.ratchetKey, chainKey |-> next, messageKeys |-> all]
      BY <2>5, <3>1, WithChainKey
    <3>3. QED
      BY <3>2 DEF next
  <2>10. given.chain.chainKey.index = counter + 1 /\ given.chain.messageKeys = all
    BY <2>4, <2>9
  <2>11. ASSUME NEW m \in Spendable(chain), m # counter PROVE m \in Spendable(given.chain)
    <3>1. m \in Nat /\ (m >= n \/ \E i \in 1 .. Len(keys) : keys[i].index = m)
      BY DEF Spendable, n, keys
    <3>2. CASE m >= counter + 1
      BY <2>10, <3>1, <3>2 DEF Spendable
    <3>3. CASE m >= n /\ m < counter
      <4>1. m - n + 1 \in 1 .. counter - n /\ n + ((m - n + 1) - 1) = m
        BY <1>1, <3>1, <3>3
      <4>2. skipped[m - n + 1].index = m
        BY <2>6, <4>1 DEF KeysOf
      <4>3. /\ Len(keys) + (m - n + 1) \in 1 .. Len(all) /\ ~(Len(keys) + (m - n + 1) <= Len(keys))
            /\ (Len(keys) + (m - n + 1)) - Len(keys) = m - n + 1
        BY <1>1, <2>7, <3>1, <4>1
      <4>4. all[Len(keys) + (m - n + 1)].index = m
        BY <2>7, <4>2, <4>3
      <4>5. QED
        BY <2>10, <3>1, <4>3, <4>4 DEF Spendable
    <3>4. ASSUME NEW i \in 1 .. Len(keys), keys[i].index = m PROVE m \in Spendable(given.chain)
      <4>1. i \in 1 .. Len(all) /\ all[i] = keys[i]
        BY <1>1, <2>1, <2>7
      <4>2. QED
        BY <2>10, <3>1, <3>4, <4>1 DEF Spendable
    <3>5. QED
      BY <1>1, <2>1, <2>11, <3>1, <3>2, <3>3, <3>4
  <2>12. QED
    BY <2>10, <2>11
<1>4. QED
  BY <1>2, <1>3

\* A key that a chain can give is given.
LEMMA SpendableIsAnswered ==
  ASSUME NEW chain, InOrder(chain), NEW counter \in Spendable(chain), counter <= MAX_SKIPPED_MESSAGE_KEYS
  PROVE  messageKeysForCounter(chain, counter) # {}
<1> DEFINE keys == chain.messageKeys
           n == chain.chainKey.index
<1>1. n \in Nat /\ IsSeq(keys) /\ counter \in Nat /\ (counter >= n \/ \E i \in 1 .. Len(keys) : keys[i].index = counter)
  BY DEF InOrder, Ascending, Spendable
<1>2. CASE counter >= n
  <2>1. InReach(chain, counter)
    BY <1>1, <1>2, LimitsAssumption DEF InReach
  <2>2. QED
    BY <2>1 DEF messageKeysForCounter
<1>3. CASE \E i \in 1 .. Len(keys) : keys[i].index = counter
  <2>1. StoredAt(keys, counter) # {}
    BY <1>1, <1>3, SeqOfElements DEF StoredAt
  <2>2. QED
    BY <2>1 DEF messageKeysForCounter
<1>4. QED
  BY <1>1, <1>2, <1>3

----------------------------------------------------------------------------
(* One attempt, in full.                                                   *)

\* There are two devices.
LEMMA TwoDevices ==
  ASSUME NEW d \in Device
  PROVE  /\ Peer(d) \in Device /\ Peer(d) # d /\ Peer(Peer(d)) = d
         /\ \A e \in Device : e = d \/ e = Peer(d)
<1> DEFINE rest == Device \ {d}
           none == rest \ {Peer(d)}
<1>1. Peer(d) \in Device /\ Peer(d) # d
  BY Peers
<1>2. IsFiniteSet(rest) /\ Cardinality(rest) = 1
  BY DevicesAssumption, FS_RemoveElement
<1>3. Peer(d) \in rest
  BY <1>1
<1> HIDE DEF rest
<1>4. IsFiniteSet(none) /\ Cardinality(none) = 0
  BY <1>2, <1>3, FS_RemoveElement
<1>5. none = {}
  BY <1>4, FS_EmptySet
<1>6. \A e \in Device : e = d \/ e = Peer(d)
  BY <1>5 DEF rest
<1>7. Peer(Peer(d)) \in Device /\ Peer(Peer(d)) # Peer(d)
  BY <1>1, Peers
<1>8. QED
  BY <1>1, <1>6, <1>7

\* The chains once the key of a message has been taken out of them.
OneKeyLess(old, chains, message) ==
  /\ Len(chains) = Len(old)
  /\ \A i \in 1 .. Len(old) :
       /\ chains[i].ratchetKey = old[i].ratchetKey /\ SeedOf(chains[i]) = SeedOf(old[i])
       /\ \/ chains[i].chainKey.index = old[i].chainKey.index
          \/ message.mac.key = Key(SeedOf(old[i]), chains[i].chainKey.index - 1)
       /\ \A c \in Spendable(old[i]) :
            c \in Spendable(chains[i]) \/ (SeedOf(old[i]) = message.mac.key.seed /\ c = message.counter)

\* The message was on a chain of the session.
Stays(session, left, message) ==
  /\ left.rootKey = session.rootKey /\ left.ourRatchetKey = session.ourRatchetKey
  /\ left.senderChain = session.senderChain
  /\ OneKeyLess(session.receiverChains, left.receiverChains, message)

\* It was on a new one: the root ratchet has made two turns.
Turns(session, left, message, fresh) ==
  LET receiving == deriveRootKey(session.rootKey, sharedKey(session.ourRatchetKey, message.ratchetKey))
      chains == Append(session.receiverChains, newChain(message.ratchetKey, receiving))
  IN  /\ left.rootKey = deriveRootKey(receiving, sharedKey(fresh, message.ratchetKey))
      /\ left.ourRatchetKey = fresh /\ left.senderChain = newChain(fresh, left.rootKey)
      /\ Len(chains) <= MAX_PREVIOUS_SESSIONS => OneKeyLess(chains, left.receiverChains, message)

Left(session, left, message, fresh) ==
  /\ GoodSession(left) /\ left.pendingPreKey = None
  /\ left.localIdentity = session.localIdentity /\ left.remoteIdentity = session.remoteIdentity
  /\ \/ ~NoChain(session, message.ratchetKey) /\ Stays(session, left, message)
     \/ NoChain(session, message.ratchetKey) /\ Turns(session, left, message, fresh)

\* A session has no chain for a key when none of its chains is for it.
LEMMA NoChainNoPlace ==
  ASSUME NEW session, GoodSession(session), NEW ratchetKey
  PROVE  NoChain(session, ratchetKey) <=> ChainsFor(session, ratchetKey) = {}
<1>1. DOMAIN session.receiverChains = 1 .. Len(session.receiverChains)
  BY SeqOfElements DEF GoodSession
<1>2. QED
  BY <1>1 DEF NoChain, ChainsFor

\* What an attempt that opens a message leaves, within the limits.
LEMMA AttemptLeaves ==
  ASSUME NEW session, GoodSession(session), NEW message, message.counter \in Nat,
         message.counter <= MAX_STORED_MESSAGE_KEYS, NEW fresh, decryptWithSession(session, message, fresh).ok
  PROVE  Left(session, decryptWithSession(session, message, fresh).session, message, fresh)
<1> DEFINE left == decryptWithSession(session, message, fresh).session
           ready == Ready(session, message, fresh)
           old == ready.receiverChains
           rk == message.ratchetKey
<1>1. PICK at \in ChainsFor(ready, rk) :
        \E given \in messageKeysForCounter(old[at], message.counter) :
          Authentic(message, given.keys, session) /\ left = Opened(ready, at, given.chain)
  BY Attempted
<1>2. PICK given \in messageKeysForCounter(old[at], message.counter) :
        Authentic(message, given.keys, session) /\ left = Opened(ready, at, given.chain)
  BY <1>1
<1>3. GoodSession(left) /\ GoodSession(ready)
  BY Attempted, ReadyInOrder
<1>4. ready = IF NoChain(session, rk) THEN ratchetOnReceive(session, rk, fresh) ELSE session
  BY NoChainNoPlace DEF Ready
<1> HIDE DEF left, ready
<1>5. at \in 1 .. Len(old) /\ InOrder(old[at])
  BY <1>3, SeqOfElements DEF GoodSession, ChainsFor
<1>6. /\ InOrder(given.chain) /\ SeedOf(given.chain) = SeedOf(old[at])
      /\ given.chain.ratchetKey = old[at].ratchetKey
      /\ given.keys = KeysOf(SeedOf(old[at]), message.counter)
  BY <1>2, <1>5, Answered
<1>7. /\ Spendable(old[at]) \ {message.counter} \subseteq Spendable(given.chain)
      /\ given.chain.chainKey.index = old[at].chainKey.index \/ given.chain.chainKey.index = message.counter + 1
  BY <1>2, <1>5, AnswerKeepsOthers
<1>8. message.mac.key = Key(SeedOf(old[at]), message.counter) /\ message.mac.key.seed = SeedOf(old[at])
  BY <1>2, <1>6 DEF Authentic, KeysOf, Key
<1> DEFINE moved == MovedChain(ready, at, given.chain)
           chains == Replaced(old, at, given.chain)
<1>9. /\ GoodSession(moved)
      /\ moved = SessionOf(ready.localIdentity, ready.remoteIdentity, ready.rootKey, ready.ourRatchetKey,
                           ready.senderChain, chains, ready.pendingPreKey)
  BY <1>3, <1>5, <1>6, ChainMoved
<1>10. left = [moved EXCEPT !.pendingPreKey = None]
  BY <1>2 DEF Opened
<1> HIDE DEF moved
<1>11. left = SessionOf(moved.localIdentity, moved.remoteIdentity, moved.rootKey, moved.ourRatchetKey,
                        moved.senderChain, moved.receiverChains, None)
  BY <1>9, <1>10, PendingAnswered
<1>12. /\ Len(chains) = Len(old)
       /\ \A i \in 1 .. Len(old) : chains[i] = IF i = at THEN given.chain ELSE old[i]
  BY <1>3, <1>5, ReplacedElements DEF GoodSession
<1> HIDE DEF chains
<1>13. /\ left.rootKey = ready.rootKey /\ left.ourRatchetKey = ready.ourRatchetKey
       /\ left.localIdentity = ready.localIdentity /\ left.remoteIdentity = ready.remoteIdentity
       /\ left.senderChain = ready.senderChain /\ left.receiverChains = chains /\ left.pendingPreKey = None
  BY <1>9, <1>11 DEF SessionOf
<1>14. OneKeyLess(old, chains, message)
  <2>1. ASSUME NEW i \in 1 .. Len(old)
        PROVE  /\ chains[i].ratchetKey = old[i].ratchetKey /\ SeedOf(chains[i]) = SeedOf(old[i])
               /\ \/ chains[i].chainKey.index = old[i].chainKey.index
                  \/ message.mac.key = Key(SeedOf(old[i]), chains[i].chainKey.index - 1)
               /\ \A c \in Spendable(old[i]) :
                    c \in Spendable(chains[i]) \/ (SeedOf(old[i]) = message.mac.key.seed /\ c = message.counter)
    <3>1. CASE i # at
      BY <1>12, <3>1
    <3>2. CASE i = at
      <4>1. chains[i] = given.chain /\ old[i] = old[at]
        BY <1>12, <3>2
      <4>2. given.chain.chainKey.index = message.counter + 1 => given.chain.chainKey.index - 1 = message.counter
        OBVIOUS
      <4>3. QED
        BY <1>6, <1>7, <1>8, <4>1, <4>2
    <3>3. QED
      BY <3>1, <3>2
  <2>2. QED
    BY <1>12, <2>1 DEF OneKeyLess
<1>15. CASE ~NoChain(session, rk)
  BY <1>3, <1>4, <1>13, <1>14, <1>15 DEF Left, Stays, left
<1>16. CASE NoChain(session, rk)
  <2> DEFINE receiving == deriveRootKey(session.rootKey, sharedKey(session.ourRatchetKey, rk))
             sending == deriveRootKey(receiving, sharedKey(fresh, rk))
             all == Append(session.receiverChains, newChain(rk, receiving))
             kept == IF Len(all) > MAX_PREVIOUS_SESSIONS THEN Tail(all) ELSE all
  <2>1. ready = SessionOf(session.localIdentity, session.remoteIdentity, sending, fresh, newChain(fresh, sending), kept,
                          session.pendingPreKey)
    BY <1>4, <1>16, RatchetedSession
  <2>2. /\ ready.rootKey = sending /\ ready.ourRatchetKey = fresh /\ ready.senderChain = newChain(fresh, sending)
        /\ ready.receiverChains = kept
        /\ ready.localIdentity = session.localIdentity /\ ready.remoteIdentity = session.remoteIdentity
    BY <2>1 DEF SessionOf
  <2>3. Len(all) <= MAX_PREVIOUS_SESSIONS => kept = all
    <3>1. Len(all) \in Nat
      BY AppendElements DEF GoodSession, IsSeq
    <3>2. QED
      BY <3>1, SessionsAssumption
  <2>4. Turns(session, left, message, fresh)
    <3> HIDE DEF receiving
    <3>1. Len(all) <= MAX_PREVIOUS_SESSIONS => OneKeyLess(all, left.receiverChains, message)
      BY <1>13, <1>14, <2>2, <2>3
    <3> HIDE DEF all
    <3>2. QED
      BY <1>13, <2>2, <3>1 DEF Turns, receiving, all
  <2>5. QED
    BY <1>3, <1>13, <1>16, <2>2, <2>4 DEF Left, left
<1>17. QED
  BY <1>15, <1>16

----------------------------------------------------------------------------
(* Steps that leave the two ends as they are.                              *)

\* What the invariant says of a session is all in these parts.
Same(session, later) ==
  /\ later.localIdentity = session.localIdentity /\ later.remoteIdentity = session.remoteIdentity
  /\ later.rootKey = session.rootKey /\ later.ourRatchetKey = session.ourRatchetKey
  /\ later.receiverChains = session.receiverChains /\ later.pendingPreKey = session.pendingPreKey
  /\ later.senderChain # None => session.senderChain # None /\ SeedOf(later.senderChain) = SeedOf(session.senderChain)

Alike(stored, later) ==
  \A d \in Device : /\ Same(End(stored, d), End(later, d))
                    /\ (stored[d].currentSession = None) <=> (later[d].currentSession = None)

\* The session the pkmsg will build is in order, and has no chains yet.
LEMMA AwaitedInOrder ==
  ASSUME NEW d \in Device
  PROVE  LET session == Awaited(d)
         IN  /\ GoodSession(session) /\ IsSeq(session.rootKey) /\ Len(session.rootKey) = 1
             /\ session.senderChain = None /\ session.receiverChains = << >> /\ Len(session.receiverChains) = 0
             /\ session.ourRatchetKey = signedPreKey(d) /\ session.pendingPreKey = None
             /\ session.localIdentity = identityKey(d) /\ session.remoteIdentity = identityKey(Peer(d))
<1> DEFINE ctx == TheBundle(d)
           secret == calculateReceiverSecret(ctx, identityKey(Peer(d)), TheBaseKey)
           session == Awaited(d)
<1>1. session = [localIdentity |-> ctx.identityKey, remoteIdentity |-> identityKey(Peer(d)), rootKey |-> <<secret>>,
                 ourRatchetKey |-> ctx.signedPreKey, senderChain |-> None, receiverChains |-> << >>,
                 pendingPreKey |-> None]
  BY DEF Awaited, createIncomingSession, deriveInitialKeys
<1>2. ctx.identityKey = identityKey(d) /\ ctx.signedPreKey = signedPreKey(d)
  BY DEF TheBundle
<1>3. GoodSession(session)
  BY IncomingInOrder DEF Awaited
<1> HIDE DEF session, secret, ctx
<1>4. /\ session.rootKey = <<secret>> /\ session.senderChain = None /\ session.receiverChains = << >>
      /\ session.ourRatchetKey = signedPreKey(d) /\ session.pendingPreKey = None
      /\ session.localIdentity = identityKey(d) /\ session.remoteIdentity = identityKey(Peer(d))
  BY <1>1, <1>2
<1>5. IsSeq(<<secret>>) /\ Len(<<secret>>) = 1 /\ Len(<< >>) = 0
  BY DEF IsSeq
<1>6. QED
  BY <1>3, <1>4, <1>5 DEF session

\* Both ends are sessions in order.
LEMMA EndsInOrder ==
  ASSUME RecordsInOrder, Conversation, NEW d \in Device
  PROVE  GoodSession(End(records, d)) /\ IsSeq(End(records, d).rootKey) /\ Len(End(records, d).rootKey) \in Nat
<1>1. CASE records[d].currentSession = None
  BY <1>1, AwaitedInOrder DEF End
<1>2. CASE records[d].currentSession # None
  <2>1. GoodSession(records[d].currentSession) /\ Lineage(records[d].currentSession)
    BY <1>2 DEF RecordsInOrder, StoredInOrder, GoodRecord, Conversation, Sessions, OneSession
  <2>2. QED
    BY <1>2, <2>1 DEF End, Lineage, IsSeq
<1>3. QED
  BY <1>1, <1>2

\* Nothing is undone: pairs stay made, plaintexts handed out.
Onwards ==
  /\ \A pair : Made(generated, pair) => Made(generated', pair)
  /\ \A m \in sent : HandedOut(m.signal.body, ops, delivered) => HandedOut(m.signal.body, ops', delivered')

\* What is said of a session alone, with more pairs made and more messages sent.
LEMMA SameInOrder ==
  ASSUME NEW d, NEW session, NEW later, NEW made, NEW net, NEW madeLater, NEW netLater,
         EndInOrder(d, session, made, net), Same(session, later), net \subseteq netLater,
         \A pair : Made(made, pair) => Made(madeLater, pair)
  PROVE  EndInOrder(d, later, madeLater, netLater)
<1> DEFINE chains == session.receiverChains
<1>1. ChainsApart(chains, madeLater, netLater)
  BY DEF EndInOrder, ChainsApart
<1> HIDE DEF chains
<1>2. QED
  BY <1>1 DEF EndInOrder, Same, chains

\* A message that was in step with both ends still is.
LEMMA SameForMessage ==
  ASSUME NEW m, NEW stored, NEW later, m.to \in Device, Opener \in Device, Alike(stored, later),
         Addressed(m, stored), OnChain(m, stored)
  PROVE  Addressed(m, later) /\ OnChain(m, later)
<1>1. Peer(m.to) \in Device /\ Peer(Opener) \in Device
  BY Peers
<1>2. Same(End(stored, m.to), End(later, m.to)) /\ Same(End(stored, Peer(m.to)), End(later, Peer(m.to)))
  BY <1>1 DEF Alike
<1>3. Addressed(m, later)
  BY <1>1 DEF Addressed, Alike
<1>4. OnChain(m, later)
  BY <1>2 DEF OnChain, HasChain, Leads, Same
<1>5. QED
  BY <1>3, <1>4

\* The two ends, if they have not changed, are as they were.
LEMMA SameEnds ==
  ASSUME NEW stored, NEW later, NEW made, NEW net, NEW madeLater, NEW netLater, Opener \in Device,
         EndsInStep(stored, made, net), Alike(stored, later), net \subseteq netLater,
         \A pair : Made(made, pair) => Made(madeLater, pair)
  PROVE  EndsInStep(later, madeLater, netLater)
<1>1. \A d \in Device : EndInOrder(d, End(later, d), madeLater, netLater)
  BY SameInOrder DEF EndsInStep, Alike
<1>2. OneAhead(later)
  <2>1. PICK d \in Device :
          /\ stored[d].currentSession # None /\ Leads(End(stored, d), End(stored, Peer(d)))
          /\ NoChain(End(stored, Peer(d)), End(stored, d).ourRatchetKey)
          /\ stored[Peer(d)].currentSession # None =>
               HasChain(End(stored, d), End(stored, Peer(d)).ourRatchetKey, End(stored, Peer(d)).rootKey)
    BY DEF EndsInStep, OneAhead
  <2>2. Peer(d) \in Device
    BY Peers
  <2>3. /\ Same(End(stored, d), End(later, d)) /\ Same(End(stored, Peer(d)), End(later, Peer(d)))
        /\ later[d].currentSession # None
        /\ later[Peer(d)].currentSession # None => stored[Peer(d)].currentSession # None
    BY <2>1, <2>2 DEF Alike
  <2> DEFINE a == End(later, d)
             b == End(later, Peer(d))
  <2>4. Leads(a, b) /\ NoChain(b, a.ourRatchetKey)
    BY <2>1, <2>3 DEF Leads, NoChain, Same
  <2>5. later[Peer(d)].currentSession # None => HasChain(a, b.ourRatchetKey, b.rootKey)
    BY <2>1, <2>3 DEF HasChain, Same
  <2>6. QED
    BY <2>3, <2>4, <2>5 DEF OneAhead
<1>3. End(later, Opener).pendingPreKey = None => later[Peer(Opener)].currentSession # None
  <2>1. Peer(Opener) \in Device
    BY Peers
  <2>2. QED
    BY <2>1 DEF EndsInStep, Alike, Same
<1>4. QED
  BY <1>1, <1>2, <1>3 DEF EndsInStep

\* The ends are in step if they have not changed.
LEMMA AlikeInStep ==
  ASSUME InStep, Opener \in Device, \A m \in sent : m.to \in Device,
         Alike(records, records'), Onwards, sent' = sent, WithTheBundle(ops')
  PROVE  InStep'
<1>1. SUFFICES ASSUME records'[Opener].currentSession # None
               PROVE  EndsInStep(records', generated', sent') /\ MessagesInStep(sent', records', ops', delivered')
  BY DEF InStep
<1>2. records[Opener].currentSession # None
  BY <1>1 DEF Alike
<1>3. EndsInStep(records, generated, sent) /\ MessagesInStep(sent, records, ops, delivered)
  BY <1>2 DEF InStep
<1>4. EndsInStep(records', generated', sent')
  BY <1>3, SameEnds DEF Onwards
<1>5. ASSUME NEW m \in sent
      PROVE  Addressed(m, records') /\ OnChain(m, records') /\ KeyKept(m, records', ops', delivered')
  <2>1. Addressed(m, records) /\ OnChain(m, records) /\ KeyKept(m, records, ops, delivered)
    BY <1>3 DEF MessagesInStep
  <2>2. Addressed(m, records') /\ OnChain(m, records')
    BY <2>1, SameForMessage
  <2>3. KeyKept(m, records', ops', delivered')
    <3>1. End(records', m.to).receiverChains = End(records, m.to).receiverChains
      BY DEF Alike, Same
    <3>2. QED
      BY <2>1, <3>1 DEF KeyKept, Onwards
  <2>4. QED
    BY <2>2, <2>3
<1>6. QED
  BY <1>4, <1>5 DEF MessagesInStep

\* All messages are to a device.
LEMMA ToDevices == ASSUME Conversation, NEW m \in sent PROVE m.to \in Device /\ m.signal.body \in Bodies
<1>1. m.signal.body \in 1 .. bodies /\ bodies \in 0 .. MaxBodies /\ MaxBodies \in Nat
  BY DevicesAssumption DEF Conversation, BodiesApart, Counted
<1>2. QED
  BY <1>1 DEF Conversation, Messages, Sealed, Bodies

\* What an operation hands out is still handed out when it moves on.
LEMMA StillHandedOut ==
  ASSUME NEW d \in Device, NEW s \in Slots, OneSlot(d, s), delivered' = delivered,
         \A b : HandingOut(ops[d][s], b) => HandingOut(ops'[d][s], b),
         NEW b, HandedOut(b, ops, delivered)
  PROVE  HandedOut(b, ops', delivered')
<1>1. CASE delivered[b] # 0
  BY <1>1 DEF HandedOut
<1>2. ASSUME NEW e \in Device, NEW t \in Slots, HandingOut(ops[e][t], b) PROVE HandingOut(ops'[e][t], b)
  BY <1>2 DEF OneSlot
<1>3. QED
  BY <1>1, <1>2 DEF HandedOut

\* An operation that moves on leaves the ends in step.
LEMMA OperationInStep ==
  ASSUME OneOpening, Conversation, InStep, NEW d \in Device, NEW s \in Slots, OneSlot(d, s), HasTheBundle(d, ops'[d][s]),
         UNCHANGED <<records, generated, sent>>,
         \A m \in sent : HandedOut(m.signal.body, ops, delivered) => HandedOut(m.signal.body, ops', delivered')
  PROVE  InStep'
<1>1. WithTheBundle(ops')
  BY DEF InStep, WithTheBundle, OneSlot
<1>2. Alike(records, records')
  BY DEF Alike, Same
<1>3. Onwards
  BY DEF Onwards
<1>4. QED
  BY <1>1, <1>2, <1>3, AlikeInStep, ToDevices, TheOpener

\* The opener works with the bundle that has the one-time pre-key.
LEMMA StartOpenInStep ==
  ASSUME OneOpening, Stocked, RecordsInOrder, Conversation, InStep, NEW d \in Device, NEW s \in Slots, StartOpen(d, s)
  PROVE  InStep'
<1> DEFINE peer == Peer(d)
           left == InitialPreKeys[peer] \ served[peer]
           preKey == IF left = {} THEN None ELSE preKeyPair(peer, Min(left))
           bundle == [identityKey |-> identityKey(peer), signedPreKey |-> signedPreKey(peer), preKey |-> preKey]
           op == [kind |-> "open", step |-> "save", input |-> bundle, record |-> records[d]]
<1>1. /\ Begin(d, s, op) /\ opens[d] < MaxOpens[d] /\ ops[d][s] = None
      /\ UNCHANGED <<records, generated, sent, delivered>>
  BY DEF StartOpen, Begin
<1>2. d = Opener /\ opens[d] = 0
  <2>1. opens[d] \in Nat /\ MaxOpens[d] \in Nat
    BY DevicesAssumption DEF Conversation, Counted
  <2>2. d = Opener /\ MaxOpens[d] <= 1
    BY <1>1, <2>1, TheOpener
  <2>3. QED
    BY <1>1, <2>1, <2>2
<1>3. preKey = TheOneTimeKey
  <2>1. served[peer] = {}
    BY <1>2 DEF Conversation, OpenedOnce
  <2>2. left = InitialPreKeys[peer]
    BY <2>1
  <2>3. QED
    BY <1>2, <2>2 DEF Stocked, TheOneTimeKey
<1> HIDE DEF preKey
<1>4. bundle = TheBundle(peer)
  BY <1>3 DEF TheBundle
<1> HIDE DEF bundle
<1>5. op.kind = "open" /\ op.input = bundle
  OBVIOUS
<1> HIDE DEF op
<1>6. ops'[d][s] = op /\ OneSlot(d, s)
  BY <1>1, Began DEF OneSlot, RecordsInOrder, HeldInOrder
<1>7. HasTheBundle(d, op)
  BY <1>4, <1>5 DEF HasTheBundle
<1>8. \A b : HandingOut(ops[d][s], b) => HandingOut(ops'[d][s], b)
  BY <1>1 DEF HandingOut
<1>9. QED
  BY <1>1, <1>6, <1>7, <1>8, StillHandedOut, OperationInStep

\* A body is taken.
LEMMA StartEncryptInStep ==
  ASSUME OneOpening, RecordsInOrder, Conversation, InStep, NEW d \in Device, NEW s \in Slots, StartEncrypt(d, s)
  PROVE  InStep'
<1> DEFINE op == [kind |-> "encrypt", step |-> "save", input |-> bodies + 1, record |-> records[d]]
<1>1. Begin(d, s, op) /\ ops[d][s] = None /\ UNCHANGED <<records, generated, sent, delivered>>
  BY DEF StartEncrypt, Begin
<1>2. op.kind = "encrypt"
  OBVIOUS
<1> HIDE DEF op
<1>3. ops'[d][s] = op /\ OneSlot(d, s)
  BY <1>1, Began DEF OneSlot, RecordsInOrder, HeldInOrder
<1>4. HasTheBundle(d, op)
  BY <1>2 DEF HasTheBundle
<1>5. \A b : HandingOut(ops[d][s], b) => HandingOut(ops'[d][s], b)
  BY <1>1 DEF HandingOut
<1>6. QED
  BY <1>1, <1>3, <1>4, <1>5, StillHandedOut, OperationInStep

\* A message is taken, its keys are looked up, it is given up, or its pre-key deleted.
LEMMA DecryptionInStep ==
  ASSUME OneOpening, Stocked, RecordsInOrder, Conversation, InStep, NEW d \in Device, NEW s \in Slots,
         \/ \E message \in sent : StartDecrypt(d, s, message)
         \/ ResolveKeys(d, s)
         \/ DecryptFails(d, s)
         \/ DeletePreKey(d, s)
  PROVE  InStep'
<1>1. /\ OpsByDevice /\ \A e \in Device, t \in Slots : ops[e][t] # None => GoodOp(ops[e][t])
  BY DEF RecordsInOrder, HeldInOrder
<1>2. UNCHANGED <<records, generated, sent, delivered>>
  BY DEF StartDecrypt, ResolveKeys, DecryptFails, DeletePreKey
<1>3. HasTheBundle(d, ops[d][s]) /\ InPlace(d, ops[d][s], records[d], sent, opens[d])
  BY DEF InStep, WithTheBundle, Conversation, Operations
<1>4. /\ OneSlot(d, s) /\ HasTheBundle(d, ops'[d][s])
      /\ \A b : HandingOut(ops[d][s], b) => HandingOut(ops'[d][s], b)
  <2>1. HasTheBundle(d, None)
    BY DEF HasTheBundle
  <2>2. CASE \E message \in sent : StartDecrypt(d, s, message)
    <3>1. PICK message \in sent : StartDecrypt(d, s, message)
      BY <2>2
    <3> DEFINE op == [kind |-> "decrypt", step |-> IF message.signal.preKeyData = None THEN "save" ELSE "resolve",
                      input |-> message.signal, ctx |-> None, record |-> records[d]]
    <3>2. Begin(d, s, op) /\ ops[d][s] = None
      BY <3>1 DEF StartDecrypt, Begin
    <3>3. op.kind = "decrypt" /\ op.ctx = None
      OBVIOUS
    <3> HIDE DEF op
    <3>4. ops'[d][s] = op /\ OneSlot(d, s)
      BY <1>1, <3>2, Began DEF OneSlot
    <3>5. QED
      BY <3>2, <3>3, <3>4 DEF HasTheBundle, HandingOut
  <2>3. CASE ResolveKeys(d, s)
    <3>1. /\ ops[d][s] # None /\ ops[d][s].kind = "decrypt" /\ ops[d][s].step = "resolve"
          /\ ops' = WithOp(ops, d, s, Resolved(d, ops[d][s])) \/ Finish(d, s)
      BY <2>3 DEF ResolveKeys, Awaits, WithOp
    <3>2. \A b : ~HandingOut(ops[d][s], b)
      BY <3>1 DEF HandingOut
    <3>3. CASE Finish(d, s)
      BY <1>1, <2>1, <3>2, <3>3, Finished DEF OneSlot
    <3>4. CASE ops' = WithOp(ops, d, s, Resolved(d, ops[d][s]))
      <4> DEFINE op == Resolved(d, ops[d][s])
                 preKey == AddressedPreKey(ops[d][s])
      <4>1. /\ op.kind = "decrypt"
            /\ op.ctx = [identityKey |-> identityKey(d), signedPreKey |-> signedPreKey(d), preKey |-> preKey]
        BY DEF Resolved
      <4>2. preKey = TheOneTimeKey
        <5>1. PICK m \in sent : m.to = d /\ m.signal = ops[d][s].input
          BY <1>3, <3>1 DEF InPlace, Received
        <5>2. ops[d][s].input.preKeyData # None
          BY <1>3, <3>1 DEF InPlace, Received
        <5>3. StartOfMessage(m)
          BY DEF Conversation, Messages
        <5>4. QED
          BY <5>1, <5>2, <5>3 DEF StartOfMessage, Starts, AddressedPreKey
      <4> HIDE DEF op, preKey
      <4>3. ops'[d][s] = op /\ OneSlot(d, s)
        BY <1>1, <3>4, SlotChanged DEF OpsByDevice, OneSlot, op
      <4>4. HasTheBundle(d, op)
        BY <4>1, <4>2 DEF HasTheBundle, TheBundle
      <4>5. QED
        BY <3>2, <4>3, <4>4
    <3>5. QED
      BY <3>1, <3>3, <3>4
  <2>4. CASE DecryptFails(d, s)
    <3>1. ops[d][s].step = "save" /\ Finish(d, s)
      BY <2>4 DEF DecryptFails, Awaits
    <3>2. \A b : ~HandingOut(ops[d][s], b)
      BY <3>1 DEF HandingOut
    <3>3. QED
      BY <1>1, <2>1, <3>1, <3>2, Finished DEF OneSlot
  <2>5. CASE DeletePreKey(d, s)
    <3>1. /\ ops[d][s] # None /\ ops[d][s].kind = "decrypt" /\ ops[d][s].step = "delete"
          /\ Goto(d, s, "return") /\ GoodOp(ops[d][s])
      BY <1>1, <2>5 DEF DeletePreKey, Awaits
    <3> DEFINE op == ops'[d][s]
    <3>2. /\ op.kind = "decrypt" /\ op.step = "return" /\ op.input = ops[d][s].input /\ op.ctx = ops[d][s].ctx
          /\ OneSlot(d, s) /\ GoodOp(op)
      BY <1>1, <3>1, WentOn DEF OneSlot
    <3> HIDE DEF op
    <3>3. op # None
      <4>1. DOMAIN None = {} /\ "kind" \in DOMAIN op
        BY <3>2 DEF GoodOp, None
      <4>2. QED
        BY <4>1
    <3>4. QED
      BY <1>3, <3>1, <3>2, <3>3 DEF HasTheBundle, HandingOut, op
  <2>6. QED
    BY <2>2, <2>3, <2>4, <2>5
<1>5. QED
  BY <1>2, <1>4, StillHandedOut, OperationInStep

\* The plaintext has been handed out.
LEMMA ReturnPlaintextInStep ==
  ASSUME OneOpening, RecordsInOrder, Conversation, InStep, NEW d \in Device, NEW s \in Slots, ReturnPlaintext(d, s)
  PROVE  InStep'
<1> DEFINE op == ops[d][s]
           body == op.input.body
<1>1. /\ op # None /\ op.kind = "decrypt" /\ op.step = "return" /\ Finish(d, s)
      /\ delivered' = [delivered EXCEPT ![body] = delivered[body] + 1]
      /\ UNCHANGED <<records, generated, sent>>
  BY DEF ReturnPlaintext, Awaits
<1>2. ops'[d][s] = None /\ OneSlot(d, s)
  BY <1>1, Finished DEF OneSlot, RecordsInOrder, HeldInOrder
<1>3. /\ Counted /\ \A e \in Device, t \in Slots, b \in Bodies : HandingOut(ops[e][t], b) => delivered[b] = 0
  BY DEF Conversation, HandedOutOnce
<1>4. ASSUME NEW m \in sent, HandedOut(m.signal.body, ops, delivered) PROVE HandedOut(m.signal.body, ops', delivered')
  <2>1. m.signal.body \in Bodies
    BY ToDevices
  <2>2. CASE m.signal.body = body
    <3>1. HandingOut(op, body)
      BY <1>1 DEF HandingOut
    <3>2. delivered[body] = 0
      BY <1>3, <2>1, <2>2, <3>1
    <3>3. delivered'[body] = 1
      BY <1>1, <1>3, <2>1, <2>2, <3>2 DEF Counted
    <3>4. QED
      BY <2>2, <3>3 DEF HandedOut
  <2>3. CASE m.signal.body # body
    <3>1. delivered'[m.signal.body] = delivered[m.signal.body]
      BY <1>1, <1>3, <2>1, <2>3 DEF Counted
    <3>2. ASSUME NEW e \in Device, NEW t \in Slots, HandingOut(ops[e][t], m.signal.body)
          PROVE  HandingOut(ops'[e][t], m.signal.body)
      <4>1. e # d \/ t # s
        BY <2>3, <3>2 DEF HandingOut
      <4>2. QED
        BY <1>2, <3>2, <4>1 DEF OneSlot
    <3>3. QED
      BY <1>4, <3>1, <3>2 DEF HandedOut
  <2>4. QED
    BY <2>2, <2>3
<1>5. HasTheBundle(d, ops'[d][s])
  BY <1>2 DEF HasTheBundle
<1>6. QED
  BY <1>1, <1>2, <1>4, <1>5, OperationInStep

\* Encrypting turns the sending chain, which leaves its seed as it is.
LEMMA EncryptedAlike ==
  ASSUME RecordsInOrder, Conversation, NEW d \in Device, NEW s \in Slots, Encrypt(d, s)
  PROVE  Alike(records, records')
<1> DEFINE op == ops[d][s]
           record == records[d]
           was == record.currentSession
           chain == was.senderChain
           turned == ChainOf(chain.ratchetKey, SeedOf(chain), chain.chainKey.index + 1, << >>)
           now == SessionOf(was.localIdentity, was.remoteIdentity, was.rootKey, was.ourRatchetKey, turned,
                            was.receiverChains, was.pendingPreKey)
<1>1. /\ op # None /\ op.kind = "encrypt" /\ op.step = "save" /\ op.record = record /\ GoodOp(op)
      /\ saveRecord(d, AfterEncrypt(op.record)) /\ Goto(d, s, "return")
      /\ UNCHANGED <<generated, sent, delivered>>
  BY DEF Encrypt, Awaits, RecordsInOrder, HeldInOrder, Conversation, Operations, InPlace, UpToDate
<1>2. GoodRecord(record) /\ CanEncrypt(record) /\ RecordsByDevice /\ OpsByDevice
  BY <1>1 DEF GoodOp, RecordsInOrder, StoredInOrder, HeldInOrder
<1>3. /\ SendsInOrder(was) /\ GoodRecord(AfterEncrypt(record))
      /\ AfterEncrypt(record) = RecordOf(now, record.previousSessions)
  BY <1>2, SendingChainTurned
<1>4. /\ records'[d] = AfterEncrypt(record)
      /\ \A e \in Device : e # d => records'[e] = records[e]
  BY <1>1, <1>2, <1>3, Saved
<1>5. SeedOf(turned) = SeedOf(chain)
  BY DEF ChainOf, SeedOf, Key
<1> HIDE DEF turned
<1>6. Same(was, now)
  <2>1. /\ now.localIdentity = was.localIdentity /\ now.remoteIdentity = was.remoteIdentity
        /\ now.rootKey = was.rootKey /\ now.ourRatchetKey = was.ourRatchetKey /\ now.senderChain = turned
        /\ now.receiverChains = was.receiverChains /\ now.pendingPreKey = was.pendingPreKey
    BY DEF SessionOf
  <2>2. chain # None
    BY <1>2 DEF CanEncrypt
  <2> HIDE DEF now
  <2>3. QED
    BY <1>5, <2>1, <2>2 DEF Same
<1>7. now # None
  <2>1. "rootKey" \in DOMAIN now
    BY DEF SessionOf
  <2>2. DOMAIN None = {}
    BY DEF None
  <2> HIDE DEF now
  <2>3. QED
    BY <2>1, <2>2
<1>8. records'[d].currentSession = now
  BY <1>3, <1>4 DEF RecordOf
<1> HIDE DEF now
<1>9. Alike(records, records')
  <2>1. ASSUME NEW e \in Device
        PROVE  /\ Same(End(records, e), End(records', e))
               /\ (records[e].currentSession = None) <=> (records'[e].currentSession = None)
    <3>1. CASE e = d
      <4>1. was # None
        BY <1>2 DEF CanEncrypt
      <4>2. QED
        BY <1>6, <1>7, <1>8, <3>1, <4>1 DEF End
    <3>2. CASE e # d
      BY <1>4, <3>2 DEF End, Same
    <3>3. QED
      BY <3>1, <3>2
  <2>2. QED
    BY <2>1 DEF Alike
<1>10. QED
  BY <1>9

\* The ends are where they were.
LEMMA EncryptInStep ==
  ASSUME OneOpening, RecordsInOrder, Conversation, InStep, NEW d \in Device, NEW s \in Slots, Encrypt(d, s)
  PROVE  InStep'
<1>1. /\ ops[d][s].kind = "encrypt" /\ Goto(d, s, "return") /\ UNCHANGED <<generated, sent, delivered>>
      /\ OpsByDevice /\ GoodOp(ops[d][s])
  BY DEF Encrypt, Awaits, RecordsInOrder, HeldInOrder
<1>2. ops'[d][s].kind = "encrypt" /\ OneSlot(d, s)
  BY <1>1, WentOn DEF OneSlot
<1>3. WithTheBundle(ops')
  BY <1>2 DEF InStep, WithTheBundle, OneSlot, HasTheBundle
<1>4. \A b : ~HandingOut(ops[d][s], b)
  BY <1>1 DEF HandingOut
<1>5. Onwards
  BY <1>1, <1>2, <1>4, StillHandedOut DEF Onwards
<1>6. QED
  BY <1>1, <1>3, <1>5, EncryptedAlike, AlikeInStep, ToDevices, TheOpener

\* A message that is released is on the sending chain of its sender's session.
LEMMA Released ==
  ASSUME RecordsInOrder, Conversation, InStep, NEW d \in Device, NEW s \in Slots, ReturnCiphertext(d, s)
  PROVE  LET signal == encrypt(ops[d][s].record, ops[d][s].input)
             session == End(records, d)
         IN  /\ sent' = sent \union {[to |-> Peer(d), signal |-> signal]}
             /\ records[d].currentSession # None /\ records[Opener].currentSession # None
             /\ signal.ratchetKey = session.ourRatchetKey /\ signal.mac.key.seed = session.rootKey
             /\ signal.mac = [key |-> signal.mac.key, sender |-> identityKey(d), receiver |-> identityKey(Peer(d))]
             /\ signal.counter \in Nat
             /\ \/ signal.preKeyData = None /\ session.pendingPreKey = None
                \/ signal.preKeyData # None /\ signal.preKeyData.identityKey = identityKey(d) /\ session.pendingPreKey # None
             /\ \A m \in sent : m.signal.mac.key.seed = session.rootKey => m.signal.counter < signal.counter
<1> DEFINE op == ops[d][s]
           record == op.record
           was == record.currentSession
           chain == was.senderChain
           n == chain.chainKey.index
           turned == ChainOf(chain.ratchetKey, SeedOf(chain), n + 1, << >>)
           now == SessionOf(was.localIdentity, was.remoteIdentity, was.rootKey, was.ourRatchetKey, turned,
                            was.receiverChains, was.pendingPreKey)
           signal == encrypt(record, op.input)
           data == IF was.pendingPreKey = None THEN None
                   ELSE [pending |-> was.pendingPreKey, identityKey |-> was.localIdentity]
           session == End(records, d)
<1>1. /\ op # None /\ op.kind = "encrypt" /\ op.step = "return" /\ GoodOp(op)
      /\ sent' = sent \union {[to |-> Peer(d), signal |-> signal]}
  BY DEF ReturnCiphertext, Awaits, RecordsInOrder, HeldInOrder
<1>2. GoodRecord(record) /\ CanEncrypt(record) /\ records[d] = AfterEncrypt(record)
  BY <1>1 DEF GoodOp, Conversation, Operations, InPlace, UpToDate
<1>3. /\ SendsInOrder(was) /\ n \in Nat
      /\ records[d] = RecordOf(now, record.previousSessions)
  BY <1>2, SendingChainTurned DEF SendsInOrder, InOrder
<1>4. /\ signal = [ratchetKey |-> was.ourRatchetKey, counter |-> n,
                   mac |-> [key |-> Key(SeedOf(chain), n), sender |-> was.localIdentity, receiver |-> was.remoteIdentity],
                   body |-> op.input, preKeyData |-> data]
      /\ signal.counter \in Nat
  BY <1>2, SealedInOrder
<1>5. /\ data = None => was.pendingPreKey = None
      /\ data # None => was.pendingPreKey # None /\ data.identityKey = was.localIdentity
  <2>1. CASE was.pendingPreKey = None
    BY <2>1
  <2>2. CASE was.pendingPreKey # None
    <3>1. "pending" \in DOMAIN data /\ DOMAIN None = {} /\ data.identityKey = was.localIdentity
      BY <2>2 DEF None
    <3>2. QED
      BY <2>2, <3>1
  <2>3. QED
    BY <2>1, <2>2
<1>6. SeedOf(turned) = SeedOf(chain) /\ turned.chainKey.key = Key(SeedOf(chain), n + 1) /\ "chainKey" \in DOMAIN turned
  BY DEF ChainOf, SeedOf, Key
<1> HIDE DEF turned, data, signal
<1>7. /\ now.localIdentity = was.localIdentity /\ now.remoteIdentity = was.remoteIdentity
      /\ now.rootKey = was.rootKey /\ now.ourRatchetKey = was.ourRatchetKey /\ now.senderChain = turned
      /\ now.receiverChains = was.receiverChains /\ now.pendingPreKey = was.pendingPreKey
      /\ "rootKey" \in DOMAIN now
  BY DEF SessionOf
<1> HIDE DEF now
<1>8. /\ signal.ratchetKey = was.ourRatchetKey /\ signal.counter = n /\ signal.preKeyData = data
      /\ signal.mac = [key |-> Key(SeedOf(chain), n), sender |-> was.localIdentity, receiver |-> was.remoteIdentity]
  BY <1>4
<1>9. signal.mac.key = Key(SeedOf(chain), n) /\ signal.mac.key.seed = SeedOf(chain)
  BY <1>8 DEF Key
<1>10. turned # None /\ now # None
  <2>1. DOMAIN None = {}
    BY DEF None
  <2>2. QED
    BY <1>6, <1>7, <2>1
<1>11. records[d].currentSession = now /\ session = now
  BY <1>3, <1>10 DEF RecordOf, End
<1>12. CanEncrypt(records[d]) /\ SealingKey(records[d]) = Key(SeedOf(chain), n + 1)
  BY <1>6, <1>7, <1>10, <1>11 DEF CanEncrypt, SealingKey
<1>13. records[Opener].currentSession # None
  BY <1>10, <1>11 DEF Conversation, OpenedOnce
<1>14. EndInOrder(d, session, generated, sent)
  BY <1>13 DEF InStep, EndsInStep
<1>15. /\ was.localIdentity = identityKey(d) /\ was.remoteIdentity = identityKey(Peer(d))
       /\ SeedOf(chain) = session.rootKey
  BY <1>6, <1>7, <1>10, <1>11, <1>14 DEF EndInOrder
<1>16. SealingKey(record) = Key(SeedOf(chain), n)
  <2>1. chain = ChainOf(chain.ratchetKey, SeedOf(chain), n, << >>)
    BY <1>3 DEF SendsInOrder, InOrder
  <2>2. chain.chainKey.key = Key(SeedOf(chain), n)
    <3> HIDE DEF chain, n
    <3>1. QED
      BY <2>1 DEF ChainOf
  <2>3. QED
    BY <2>2 DEF SealingKey
<1>17. ASSUME NEW m \in sent, m.signal.mac.key.seed = session.rootKey PROVE m.signal.counter < n
  <2>1. Sealed(m, generated) /\ Behind(m, records[d]) /\ Unreleased(m, op)
    BY DEF Conversation, Messages
  <2>2. m.signal.mac.key = Key(m.signal.mac.key.seed, m.signal.counter) /\ m.signal.counter \in Nat
    BY <2>1 DEF Sealed
  <2>3. m.signal.counter < n + 1
    <3>1. SealingKey(records[d]).seed = SeedOf(chain) /\ SealingKey(records[d]).turns = n + 1
      BY <1>12 DEF Key
    <3>2. QED
      BY <1>12, <1>15, <1>17, <2>1, <3>1 DEF Behind
  <2>4. m.signal.counter # n
    BY <1>1, <1>15, <1>16, <1>17, <2>1, <2>2 DEF Unreleased, Releasing
  <2> HIDE DEF n
  <2>5. QED
    BY <1>3, <2>2, <2>3, <2>4
<1>18. \/ signal.preKeyData = None /\ session.pendingPreKey = None
       \/ signal.preKeyData # None /\ signal.preKeyData.identityKey = identityKey(d) /\ session.pendingPreKey # None
  BY <1>5, <1>7, <1>8, <1>11, <1>15
<1> HIDE DEF op, record, was, chain, session
<1>19. QED
  BY <1>1, <1>3, <1>7, <1>8, <1>9, <1>10, <1>11, <1>13, <1>15, <1>17, <1>18 DEF signal, record, op, session

\* The message released can be read: the end ahead has the chain it is on, the other
\* will make it, and either has its key.
LEMMA ReturnCiphertextInStep ==
  ASSUME OneOpening, RecordsInOrder, Conversation, InStep, NEW d \in Device, NEW s \in Slots, ReturnCiphertext(d, s)
  PROVE  InStep'
<1> DEFINE signal == encrypt(ops[d][s].record, ops[d][s].input)
           peer == Peer(d)
           new == [to |-> peer, signal |-> signal]
           session == End(records, d)
           other == End(records, peer)
<1>1. /\ sent' = sent \union {new}
      /\ records[d].currentSession # None /\ records[Opener].currentSession # None
      /\ signal.ratchetKey = session.ourRatchetKey /\ signal.mac.key.seed = session.rootKey
      /\ signal.mac = [key |-> signal.mac.key, sender |-> identityKey(d), receiver |-> identityKey(peer)]
      /\ signal.counter \in Nat
      /\ \/ signal.preKeyData = None /\ session.pendingPreKey = None
         \/ signal.preKeyData # None /\ signal.preKeyData.identityKey = identityKey(d) /\ session.pendingPreKey # None
      /\ \A m \in sent : m.signal.mac.key.seed = session.rootKey => m.signal.counter < signal.counter
  BY Released
<1>2. /\ ops[d][s].kind = "encrypt" /\ Finish(d, s) /\ UNCHANGED <<records, generated, delivered>>
  BY DEF ReturnCiphertext, Awaits
<1> HIDE DEF signal
<1>3. new.to = peer /\ new.signal = signal
  OBVIOUS
<1> HIDE DEF new
<1>4. /\ peer \in Device /\ peer # d /\ Peer(peer) = d /\ Opener \in Device
      /\ \A e \in Device : e = d \/ e = peer
  BY TwoDevices, TheOpener
<1>5. Peer(Opener) \in Device /\ (Opener = d => Peer(Opener) = peer) /\ (Opener = peer => Peer(Opener) = d)
  BY <1>4
<1>6. ops'[d][s] = None /\ OneSlot(d, s)
  BY <1>2, Finished DEF OneSlot, RecordsInOrder, HeldInOrder
<1>7. WithTheBundle(ops')
  BY <1>6 DEF InStep, WithTheBundle, OneSlot, HasTheBundle
<1>8. \A b : HandedOut(b, ops, delivered) => HandedOut(b, ops', delivered')
  <2>1. \A b : ~HandingOut(ops[d][s], b)
    BY <1>2 DEF HandingOut
  <2>2. QED
    BY <1>2, <1>6, <2>1, StillHandedOut
<1> HIDE DEF session, other, peer
<1>9. EndsInStep(records, generated, sent) /\ MessagesInStep(sent, records, ops, delivered)
  BY <1>1 DEF InStep
<1>10. EndsInStep(records, generated, sent')
  <2>1. Alike(records, records)
    BY DEF Alike, Same
  <2>2. QED
    BY <1>1, <1>4, <1>9, <2>1, SameEnds
<1>11. Addressed(new, records)
  <2>1. End(records, Opener).pendingPreKey = None => records[Peer(Opener)].currentSession # None
    BY <1>9 DEF EndsInStep
  <2>2. (signal.preKeyData = None \/ peer = Opener) => records[Peer(Opener)].currentSession # None
    <3>1. CASE Opener = peer
      BY <1>1, <1>5, <3>1
    <3>2. CASE Opener = d
      BY <1>1, <1>4, <2>1, <3>2 DEF session
    <3>3. QED
      BY <1>4, <3>1, <3>2
  <2>3. signal.preKeyData # None => signal.preKeyData.identityKey = identityKey(d)
    BY <1>1
  <2>4. QED
    BY <1>1, <1>3, <1>4, <2>2, <2>3 DEF Addressed
<1>12. OnChain(new, records)
  <2>1. PICK ahead \in Device :
          /\ records[ahead].currentSession # None /\ Leads(End(records, ahead), End(records, Peer(ahead)))
          /\ records[Peer(ahead)].currentSession # None =>
               HasChain(End(records, ahead), End(records, Peer(ahead)).ourRatchetKey, End(records, Peer(ahead)).rootKey)
    BY <1>9 DEF EndsInStep, OneAhead
  <2>2. CASE ahead = d
    <3>1. Leads(session, other)
      BY <2>1, <2>2 DEF session, other, peer
    <3>2. QED
      BY <1>1, <1>3, <1>4, <3>1 DEF OnChain, session, other
  <2>3. CASE ahead = peer
    <3>1. HasChain(other, session.ourRatchetKey, session.rootKey)
      BY <1>1, <1>4, <2>1, <2>3 DEF session, other
    <3>2. QED
      BY <1>1, <1>3, <3>1 DEF OnChain, other
  <2>4. QED
    BY <1>4, <2>2, <2>3
<1>13. KeyKept(new, records, ops', delivered')
  <2> DEFINE chains == other.receiverChains
  <2>1. SUFFICES ASSUME NEW i \in 1 .. Len(chains), SeedOf(chains[i]) = session.rootKey
                 PROVE  signal.counter \in Spendable(chains[i])
    BY <1>1, <1>3 DEF KeyKept, other
  <2>2. GoodSession(other) /\ EndInOrder(peer, other, generated, sent)
    BY <1>4, <1>9, EndsInOrder DEF EndsInStep, other
  <2>3. chains[i].chainKey.index \in Nat
    BY <2>2 DEF GoodSession, InOrder
  <2>4. CASE chains[i].chainKey.index = 0
    BY <1>1, <2>4 DEF Spendable
  <2>5. CASE \E m \in sent : m.signal.mac.key = Key(SeedOf(chains[i]), chains[i].chainKey.index - 1)
    <3>1. PICK m \in sent : m.signal.mac.key = Key(session.rootKey, chains[i].chainKey.index - 1)
      BY <2>1, <2>5
    <3>2. m.signal.mac.key.seed = session.rootKey /\ m.signal.mac.key.turns = chains[i].chainKey.index - 1
      BY <3>1 DEF Key
    <3>3. m.signal.mac.key = Key(m.signal.mac.key.seed, m.signal.counter) /\ m.signal.counter \in Nat
      BY DEF Conversation, Messages, Sealed
    <3>4. m.signal.mac.key.turns = m.signal.counter
      BY <3>3 DEF Key
    <3>5. m.signal.counter < signal.counter
      BY <1>1, <3>2
    <3>6. chains[i].chainKey.index <= signal.counter
      BY <1>1, <2>3, <3>2, <3>3, <3>4, <3>5
    <3>7. QED
      BY <1>1, <3>6 DEF Spendable
  <2>6. QED
    BY <2>2, <2>4, <2>5 DEF EndInOrder, ChainsApart
<1>14. ASSUME NEW m \in sent
       PROVE  Addressed(m, records) /\ OnChain(m, records) /\ KeyKept(m, records, ops', delivered')
  <2>1. Addressed(m, records) /\ OnChain(m, records) /\ KeyKept(m, records, ops, delivered)
    BY <1>9 DEF MessagesInStep
  <2>2. QED
    BY <1>8, <2>1 DEF KeyKept
<1>15. MessagesInStep(sent', records, ops', delivered')
  BY <1>1, <1>11, <1>12, <1>13, <1>14 DEF MessagesInStep
<1>16. QED
  BY <1>2, <1>7, <1>10, <1>15 DEF InStep

\* Once the session is opened its opener is ahead of the one the pkmsg will build.
LEMMA OpenInStep ==
  ASSUME OneOpening, RecordsInOrder, Conversation, InStep, NEW d \in Device, NEW s \in Slots, Open(d, s)
  PROVE  InStep'
<1> DEFINE op == ops[d][s]
           peer == Peer(d)
           bundle == TheBundle(peer)
           session == createOutgoingSession(identityKey(d), bundle, Fresh(d, 1), Fresh(d, 2))
           awaited == Awaited(peer)
<1>1. /\ op # None /\ op.kind = "open" /\ op.step = "save"
      /\ saveRecord(d, promoteSession(op.record, createOutgoingSession(identityKey(d), op.input, Fresh(d, 1), Fresh(d, 2))))
      /\ Finish(d, s) /\ UNCHANGED <<sent, delivered>>
  BY DEF Open, Awaits
<1>2. /\ op.record = records[d] /\ d = Opener /\ records[d].currentSession = None
      /\ records[d].previousSessions = << >> /\ GoodRecord(records[d]) /\ RecordsByDevice /\ OpsByDevice
  BY <1>1 DEF Conversation, Operations, InPlace, UpToDate, Opening, Sessions, OneSession,
              RecordsInOrder, StoredInOrder, HeldInOrder
<1>3. /\ sent = {} /\ generated[d] = 0 /\ \A e \in Device : records[e].currentSession = None
  BY <1>2 DEF Conversation, OpenedOnce
<1>4. op.input = bundle
  BY <1>1 DEF InStep, WithTheBundle, HasTheBundle
<1>5. Fresh(d, 1) = TheBaseKey
  BY <1>2, <1>3 DEF Fresh, TheBaseKey
<1>6. /\ GoodSession(session) /\ Lineage(session) /\ session.senderChain = newChain(Fresh(d, 2), session.rootKey)
      /\ session.ourRatchetKey = Fresh(d, 2)
  BY OutgoingLineage
<1>7. /\ session.localIdentity = identityKey(d) /\ session.remoteIdentity = identityKey(peer)
      /\ session.receiverChains = << >> /\ "baseKey" \in DOMAIN session.pendingPreKey
      /\ session.rootKey = deriveRootKey(<<calculateInitiatorSecret(identityKey(d), TheBaseKey, bundle)>>,
                                         sharedKey(Fresh(d, 2), signedPreKey(peer)))
  BY <1>5 DEF createOutgoingSession, TheBundle, deriveInitialKeys
<1>8. peer \in Device /\ peer # d /\ Peer(peer) = d /\ \A e \in Device : e = d \/ e = peer
  BY TwoDevices
<1>9. awaited.rootKey = <<calculateReceiverSecret(bundle, identityKey(d), TheBaseKey)>>
  BY <1>8 DEF Awaited, createIncomingSession, deriveInitialKeys
<1>10. /\ awaited.receiverChains = << >> /\ awaited.ourRatchetKey = signedPreKey(peer) /\ awaited.senderChain = None
       /\ Len(awaited.rootKey) = 1
       /\ awaited.localIdentity = identityKey(peer) /\ awaited.remoteIdentity = identityKey(d)
  BY <1>8, AwaitedInOrder
<1>11. calculateInitiatorSecret(identityKey(d), TheBaseKey, bundle) = calculateReceiverSecret(bundle, identityKey(d), TheBaseKey)
  <2>1. \A a, b : sharedKey(a, b) = sharedKey(b, a)
    BY DEF sharedKey
  <2>2. QED
    BY <2>1 DEF calculateInitiatorSecret, calculateReceiverSecret, WhenPresent
<1> DEFINE left == RecordOf(session, << >>)
<1>12. promoteSession(op.record, session) = left
  BY <1>2, NothingArchived
<1>13. saveRecord(d, promoteSession(op.record, session))
  BY <1>1, <1>4
<1> HIDE DEF session, awaited, bundle
<1>14. left.currentSession = session /\ left.previousSessions = << >> /\ GoodRecord(left)
  <2>1. left.currentSession = session /\ left.previousSessions = << >>
    BY DEF RecordOf
  <2>2. GoodSessions(<< >>)
    BY DEF GoodSessions, IsSeq
  <2>3. QED
    BY <1>6, <2>1, <2>2 DEF GoodRecord
<1> HIDE DEF left
<1>15. records'[d] = left /\ \A e \in Device : e # d => records'[e] = records[e]
  BY <1>2, <1>12, <1>13, <1>14, Saved
<1>16. ops'[d][s] = None /\ OneSlot(d, s)
  BY <1>1, <1>2, Finished DEF OneSlot
<1>17. WithTheBundle(ops')
  BY <1>16 DEF InStep, WithTheBundle, OneSlot, HasTheBundle
<1>18. session # None
  BY <1>6, SessionsAreSomething
<1>19. End(records', d) = session /\ End(records', peer) = awaited
  BY <1>3, <1>8, <1>14, <1>15, <1>18 DEF End, awaited
<1>20. Len(<< >>) = 0
  OBVIOUS
<1>21. EndInOrder(d, session, generated', sent')
  <2>1. SeedOf(session.senderChain) = session.rootKey
    BY <1>6 DEF newChain, SeedOf, Key
  <2>2. 1 <= Len(session.rootKey)
    <3>1. IsSeq(awaited.rootKey)
      BY <1>8, AwaitedInOrder DEF awaited
    <3>2. session.rootKey = deriveRootKey(awaited.rootKey, sharedKey(Fresh(d, 2), signedPreKey(peer)))
      BY <1>7, <1>9, <1>11
    <3>3. Len(session.rootKey) = Len(awaited.rootKey) + 1
      BY <3>1, <3>2, LastOfRootKey
    <3>4. QED
      BY <1>10, <3>3
  <2>3. QED
    BY <1>7, <1>20, <2>1, <2>2 DEF EndInOrder, ChainsApart
<1>22. EndInOrder(peer, awaited, generated', sent')
  BY <1>8, <1>10, <1>20 DEF EndInOrder, ChainsApart
<1>23. OneAhead(records')
  <2>1. Leads(session, awaited)
    <3>1. session.rootKey = deriveRootKey(awaited.rootKey, sharedKey(Fresh(d, 2), signedPreKey(peer)))
      BY <1>7, <1>9, <1>11
    <3>2. QED
      BY <1>6, <1>10, <3>1 DEF Leads, sharedKey
  <2>2. NoChain(awaited, session.ourRatchetKey)
    BY <1>10, <1>20 DEF NoChain
  <2>3. records'[d].currentSession # None /\ records'[peer].currentSession = None
    BY <1>3, <1>8, <1>14, <1>15, <1>18
  <2>4. QED
    BY <1>19, <2>1, <2>2, <2>3 DEF OneAhead
<1>24. session.pendingPreKey # None
  <2>1. DOMAIN None = {}
    BY DEF None
  <2>2. QED
    BY <1>7, <2>1
<1>25. EndsInStep(records', generated', sent')
  <2>1. \A e \in Device : EndInOrder(e, End(records', e), generated', sent')
    BY <1>8, <1>19, <1>21, <1>22
  <2>2. QED
    BY <1>2, <1>19, <1>23, <1>24, <2>1 DEF EndsInStep
<1>26. MessagesInStep(sent', records', ops', delivered')
  BY <1>1, <1>3 DEF MessagesInStep
<1>27. QED
  BY <1>17, <1>25, <1>26 DEF InStep

----------------------------------------------------------------------------
(* A decryption.                                                           *)

\* What a decryption does to the end it is at, and to nothing else.
Decryption(d, m0) ==
  LET left == records'[d].currentSession
  IN  /\ m0 \in sent /\ m0.to = d /\ records[Opener].currentSession # None
      /\ Left(End(records, d), left, m0.signal, Fresh(d, 1)) /\ left # None /\ End(records', d) = left
      /\ \A e \in Device : e # d => records'[e] = records[e] /\ End(records', e) = End(records, e)
      /\ sent' = sent /\ WithTheBundle(ops') /\ Onwards /\ HandedOut(m0.signal.body, ops', delivered')
      /\ ~Made(generated, Fresh(d, 1))

\* The session that is advanced is the one the device has, or the one awaited.
LEMMA DecryptionLeaves ==
  ASSUME OneAtATime, OneOpening, Stocked, RecordsInOrder, Conversation, InStep, WithinLimits,
         NEW d \in Device, NEW s \in Slots, Decrypt(d, s), BaseKeyBuildsOneSession'
  PROVE  \E m0 : Decryption(d, m0)
<1> DEFINE op == ops[d][s]
           record == records[d]
           message == op.input
           moved == ops'[d][s]
           tried == Len(SessionsOf(op.record))
           count == generated[d] + tried + 1
<1>1. /\ op # None /\ op.kind = "decrypt" /\ op.step = "save"
      /\ generated' = [generated EXCEPT ![d] = count]
      /\ Goto(d, s, IF op.ctx # None /\ op.ctx.preKey # None THEN "delete" ELSE "return")
      /\ UNCHANGED <<sent, delivered>>
  BY DEF Decrypt, Awaits
<1>2. /\ Counted /\ Operations(ops, records, sent, opens) /\ OpenedOnce(records, opens, served, sent, generated)
      /\ Messages(sent, records, ops, generated)
  BY DEF Conversation
<1>3. /\ RecordsByDevice /\ OpsByDevice /\ GoodRecord(record) /\ GoodOp(op)
  BY <1>1 DEF RecordsInOrder, StoredInOrder, HeldInOrder
<1>4. UpToDate(op, record) /\ Received(d, op, sent) /\ op.record = record
  BY <1>1, <1>2 DEF Operations, InPlace, UpToDate
<1>5. PICK m0 \in sent : m0.to = d /\ m0.signal = message
  BY <1>1, <1>4 DEF Received
<1>6. PICK session, left : /\ Advanced(d, op, record, session) /\ Lineage(session)
                           /\ Advances(session, left, message, Fresh(d, 1))
                           /\ decryptWithSession(session, message, Fresh(d, 1)).ok
                           /\ left = decryptWithSession(session, message, Fresh(d, 1)).session
                           /\ records'[d] = RecordOf(left, << >>)
  BY DecryptAdvances
<1>7. \A e \in Device : e # d => records'[e] = records[e]
  <2>1. PICK found \in Decrypted(d, op) : saveRecord(d, found)
    BY DEF Decrypt
  <2>2. GoodRecord(found)
    BY <1>1, <1>3, DecryptedInOrder
  <2>3. QED
    BY <1>3, <2>1, <2>2, Saved
<1>8. /\ moved.kind = "decrypt" /\ moved.step \in {"delete", "return"} /\ moved.input = message
      /\ moved.ctx = op.ctx /\ moved # None /\ OneSlot(d, s)
  <2>1. /\ moved.kind = "decrypt" /\ moved.step \in {"delete", "return"} /\ moved.input = message
        /\ moved.ctx = op.ctx /\ OneSlot(d, s)
    BY <1>1, <1>3, WentOn DEF OneSlot
  <2>2. GoodOp(moved)
    BY <1>1, <1>3, WentOn
  <2> HIDE DEF moved
  <2>3. moved = [kind |-> moved.kind, step |-> moved.step, input |-> moved.input, ctx |-> moved.ctx, record |-> moved.record]
    BY <2>1, <2>2 DEF GoodOp
  <2>4. "kind" \in DOMAIN moved
    BY <2>3
  <2>5. DOMAIN None = {}
    BY DEF None
  <2>6. QED
    BY <2>1, <2>4, <2>5
<1>9. /\ \A pair : Made(generated, pair) => Made(generated', pair)
      /\ ~Made(generated, Fresh(d, 1))
  <2>1. tried \in Nat
    BY <1>3, <1>4, SessionsInOrder DEF GoodSessions, IsSeq
  <2> HIDE DEF tried
  <2>2. generated = [e \in Device |-> generated[e]] /\ \A e \in Device : generated[e] \in Nat
    BY <1>2 DEF Counted
  <2>3. count \in Nat /\ generated[d] <= count
    BY <2>1, <2>2
  <2> HIDE DEF count
  <2>4. generated'[d] = count /\ \A e \in Device : e # d => generated'[e] = generated[e]
    BY <1>1, <2>2
  <2>5. \A e \in Device : generated[e] \in Nat /\ generated'[e] \in Nat /\ generated[e] <= generated'[e]
    <3>1. \A e \in Device : generated[e] <= generated[e]
      BY <2>2
    <3>2. QED
      BY <2>2, <2>3, <2>4, <3>1
  <2>6. ~Made(generated, Fresh(d, 1))
    <3>1. Fresh(d, 1) = <<d, "generated", generated[d] + 1>>
      BY DEF Fresh, generateKeyPair
    <3>2. QED
      BY <2>2, <3>1 DEF Made
  <2>7. QED
    BY <2>5, <2>6, StillMade
<1> HIDE DEF tried, count
<1>10. records[Opener].currentSession # None
  BY <1>2, <1>5 DEF OpenedOnce
<1>11. Addressed(m0, records) /\ StartOfMessage(m0) /\ Sealed(m0, generated)
  BY <1>2, <1>5, <1>10 DEF InStep, MessagesInStep, Messages
<1>12. HasTheBundle(d, op)
  BY DEF InStep, WithTheBundle
<1>13. session = End(records, d) /\ GoodSession(session)
  <2>1. CASE record.currentSession # None
    BY <1>3, <1>6, <2>1 DEF Advanced, End, GoodRecord
  <2>2. CASE record.currentSession = None
    <3>1. /\ op.ctx # None
          /\ session = createIncomingSession(op.ctx, message.preKeyData.identityKey, message.preKeyData.pending.baseKey)
      BY <1>6, <2>2 DEF Advanced, BuildsSession
    <3>2. op.ctx = TheBundle(d)
      BY <1>1, <1>12, <3>1 DEF HasTheBundle
    <3>3. message.preKeyData # None
      BY <1>1, <1>4, <3>1 DEF Received
    <3>4. message.preKeyData.identityKey = identityKey(Peer(d)) /\ message.preKeyData.pending.baseKey = TheBaseKey
      BY <1>5, <1>11, <3>3 DEF Addressed, StartOfMessage, Starts
    <3>5. session = Awaited(d)
      BY <3>1, <3>2, <3>4 DEF Awaited
    <3>6. QED
      BY <2>2, <3>5, AwaitedInOrder DEF End
  <2>3. QED
    BY <2>1, <2>2
<1>14. message.counter \in Nat /\ message.counter <= MAX_STORED_MESSAGE_KEYS
  BY <1>5, <1>11 DEF Sealed, WithinLimits
<1>15. Left(End(records, d), left, message, Fresh(d, 1))
  BY <1>6, <1>13, <1>14, AttemptLeaves
<1>16. records'[d].currentSession = left /\ left # None
  <2>1. GoodSession(left)
    BY <1>15 DEF Left
  <2>2. QED
    BY <1>6, <2>1, SessionsAreSomething DEF RecordOf
<1>17. /\ End(records', d) = left
       /\ \A e \in Device : e # d => End(records', e) = End(records, e)
  BY <1>7, <1>16 DEF End
<1>18. WithTheBundle(ops')
  <2>1. HasTheBundle(d, moved)
    BY <1>1, <1>8, <1>12 DEF HasTheBundle
  <2>2. QED
    BY <1>8, <2>1 DEF InStep, WithTheBundle, OneSlot
<1>19. Onwards
  <2>1. \A b : ~HandingOut(op, b)
    BY <1>1 DEF HandingOut
  <2>2. QED
    BY <1>1, <1>8, <1>9, <2>1, StillHandedOut DEF Onwards
<1>20. HandedOut(m0.signal.body, ops', delivered')
  BY <1>5, <1>8 DEF HandedOut, HandingOut
<1> HIDE DEF op, message, record, moved
<1>21. QED
  BY <1>1, <1>5, <1>7, <1>9, <1>10, <1>15, <1>16, <1>17, <1>18, <1>19, <1>20 DEF Decryption, message

\* Chains that have given a key away are still apart.
LEMMA StillApart ==
  ASSUME NEW old, NEW chains, NEW m, NEW made, NEW net, m \in net,
         ChainsApart(old, made, net), OneKeyLess(old, chains, m.signal)
  PROVE  ChainsApart(chains, made, net)
<1>1. /\ Len(chains) = Len(old)
      /\ \A i \in 1 .. Len(old) :
           /\ chains[i].ratchetKey = old[i].ratchetKey /\ SeedOf(chains[i]) = SeedOf(old[i])
           /\ \/ chains[i].chainKey.index = old[i].chainKey.index
              \/ m.signal.mac.key = Key(SeedOf(old[i]), chains[i].chainKey.index - 1)
  BY DEF OneKeyLess
<1>2. ASSUME NEW i \in 1 .. Len(chains)
      PROVE  /\ Made(made, chains[i].ratchetKey)
             /\ \/ chains[i].chainKey.index = 0
                \/ \E n \in net : n.signal.mac.key = Key(SeedOf(chains[i]), chains[i].chainKey.index - 1)
  <2>1. /\ Made(made, old[i].ratchetKey)
        /\ \/ old[i].chainKey.index = 0
           \/ \E n \in net : n.signal.mac.key = Key(SeedOf(old[i]), old[i].chainKey.index - 1)
    BY <1>1, <1>2 DEF ChainsApart
  <2>2. CASE chains[i].chainKey.index = old[i].chainKey.index
    BY <1>1, <2>1, <2>2
  <2>3. CASE m.signal.mac.key = Key(SeedOf(old[i]), chains[i].chainKey.index - 1)
    BY <1>1, <2>1, <2>3
  <2>4. QED
    BY <1>1, <2>2, <2>3
<1>3. \A i, j \in 1 .. Len(chains) : i # j => chains[i].ratchetKey # chains[j].ratchetKey
  BY <1>1 DEF ChainsApart
<1>4. QED
  BY <1>2, <1>3 DEF ChainsApart

\* A key that has not been given away is still to be had.
LEMMA StillKept ==
  ASSUME Conversation, NEW old, NEW chains, NEW m0 \in sent, NEW m \in sent, m # m0,
         OneKeyLess(old, chains, m0.signal),
         \A i \in 1 .. Len(old) : SeedOf(old[i]) = m.signal.mac.key.seed => m.signal.counter \in Spendable(old[i])
  PROVE  \A i \in 1 .. Len(chains) :
           SeedOf(chains[i]) = m.signal.mac.key.seed => m.signal.counter \in Spendable(chains[i])
<1>1. SUFFICES ASSUME NEW i \in 1 .. Len(chains), SeedOf(chains[i]) = m.signal.mac.key.seed
               PROVE  m.signal.counter \in Spendable(chains[i])
  OBVIOUS
<1>2. /\ i \in 1 .. Len(old) /\ SeedOf(old[i]) = SeedOf(chains[i])
      /\ \A c \in Spendable(old[i]) :
           c \in Spendable(chains[i]) \/ (SeedOf(old[i]) = m0.signal.mac.key.seed /\ c = m0.signal.counter)
  BY <1>1 DEF OneKeyLess
<1>3. m.signal.counter \in Spendable(old[i])
  BY <1>1, <1>2
<1>4. ~(SeedOf(old[i]) = m0.signal.mac.key.seed /\ m.signal.counter = m0.signal.counter)
  <2>1. /\ m.signal.mac.key = Key(m.signal.mac.key.seed, m.signal.counter)
        /\ m0.signal.mac.key = Key(m0.signal.mac.key.seed, m0.signal.counter)
    BY DEF Conversation, Messages, Sealed
  <2>2. m.signal.mac.key # m0.signal.mac.key
    BY DEF Conversation, MessageKeysSealOneMessage
  <2>3. QED
    BY <1>1, <1>2, <2>1, <2>2
<1>5. QED
  BY <1>2, <1>3, <1>4

\* A message is still addressed to its receiver, and its key is kept at the other end.
LEMMA DecryptionKeepsRest ==
  ASSUME OneOpening, Conversation, NEW d \in Device, NEW m0, Decryption(d, m0), NEW m \in sent,
         Addressed(m, records), KeyKept(m, records, ops, delivered)
  PROVE  /\ Addressed(m, records')
         /\ m.to # d => KeyKept(m, records', ops', delivered')
         /\ ~HandedOut(m.signal.body, ops', delivered') => m # m0 /\ ~HandedOut(m.signal.body, ops, delivered)
<1>1. m.to \in Device /\ Opener \in Device /\ Peer(Opener) \in Device
  BY ToDevices, TheOpener, Peers
<1>2. records[Peer(Opener)].currentSession # None => records'[Peer(Opener)].currentSession # None
  BY <1>1 DEF Decryption
<1>3. Addressed(m, records')
  BY <1>2 DEF Addressed
<1>4. ~HandedOut(m.signal.body, ops', delivered') => m # m0 /\ ~HandedOut(m.signal.body, ops, delivered)
  BY DEF Decryption, Onwards
<1>5. m.to # d => End(records', m.to) = End(records, m.to)
  BY <1>1 DEF Decryption
<1>6. QED
  BY <1>3, <1>4, <1>5 DEF KeyKept

\* Once the opener has read a message its peer has a session.
LEMMA AnsweredByASession ==
  ASSUME OneOpening, Conversation, NEW d \in Device, NEW m0, Decryption(d, m0), Addressed(m0, records),
         End(records, Opener).pendingPreKey = None => records[Peer(Opener)].currentSession # None
  PROVE  End(records', Opener).pendingPreKey = None => records'[Peer(Opener)].currentSession # None
<1>1. Opener \in Device /\ Peer(Opener) \in Device /\ Peer(Opener) # Opener
  BY TheOpener, Peers
<1>2. CASE d = Opener
  BY <1>1, <1>2 DEF Decryption, Addressed
<1>3. CASE d # Opener
  <2>1. End(records', Opener) = End(records, Opener)
    BY <1>1, <1>3 DEF Decryption
  <2>2. records[Peer(Opener)].currentSession # None => records'[Peer(Opener)].currentSession # None
    BY <1>1 DEF Decryption
  <2>3. QED
    BY <2>1, <2>2
<1>4. QED
  BY <1>2, <1>3

\* A message on a chain the receiver had: the ends are where they were.
LEMMA StayingInStep ==
  ASSUME OneOpening, RecordsInOrder, Conversation, InStep, NEW d \in Device, NEW m0, Decryption(d, m0),
         ~NoChain(End(records, d), m0.signal.ratchetKey),
         Stays(End(records, d), records'[d].currentSession, m0.signal)
  PROVE  InStep'
<1> DEFINE own == End(records, d)
           peer == Peer(d)
           other == End(records, peer)
           left == records'[d].currentSession
           old == own.receiverChains
           chains == left.receiverChains
<1>1. /\ m0 \in sent /\ m0.to = d /\ records[Opener].currentSession # None
      /\ left # None /\ End(records', d) = left
      /\ left.localIdentity = own.localIdentity /\ left.remoteIdentity = own.remoteIdentity
      /\ sent' = sent /\ WithTheBundle(ops') /\ Onwards
      /\ \A e \in Device : e # d => records'[e] = records[e] /\ End(records', e) = End(records, e)
  BY DEF Decryption, Left
<1>2. /\ left.rootKey = own.rootKey /\ left.ourRatchetKey = own.ourRatchetKey /\ left.senderChain = own.senderChain
      /\ OneKeyLess(old, chains, m0.signal)
  BY DEF Stays
<1>3. /\ peer \in Device /\ peer # d /\ Peer(peer) = d /\ Opener \in Device
      /\ \A e \in Device : e = d \/ e = peer
  BY TwoDevices, TheOpener
<1>4. EndsInStep(records, generated, sent) /\ MessagesInStep(sent, records, ops, delivered)
  BY <1>1 DEF InStep
<1>5. records[d].currentSession # None
  <2>1. SUFFICES ASSUME records[d].currentSession = None PROVE FALSE
    OBVIOUS
  <2>2. own = Awaited(d)
    BY <2>1 DEF End
  <2>3. Len(own.receiverChains) = 0
    BY <2>2, AwaitedInOrder
  <2>4. QED
    BY <2>3 DEF NoChain
<1>6. End(records', peer) = other
  BY <1>1, <1>3
<1> HIDE DEF own, other, left, peer
<1>7. \A key, seed : HasChain(own, key, seed) => HasChain(left, key, seed)
  BY <1>2 DEF HasChain, OneKeyLess
<1>8. \A key : NoChain(own, key) => NoChain(left, key)
  BY <1>2 DEF NoChain, OneKeyLess
<1> HIDE DEF old, chains
<1>9. \A e \in Device : EndInOrder(e, End(records', e), generated', sent')
  <2>1. EndInOrder(d, own, generated, sent) /\ EndInOrder(peer, other, generated, sent)
    BY <1>3, <1>4 DEF EndsInStep, own, other
  <2>2. EndInOrder(peer, other, generated', sent')
    BY <1>1, <2>1, SameInOrder DEF Same, Onwards
  <2>3. EndInOrder(d, own, generated', sent')
    BY <1>1, <2>1, SameInOrder DEF Same, Onwards
  <2>4. ChainsApart(chains, generated', sent') /\ Len(chains) = Len(old)
    <3>1. ChainsApart(old, generated', sent')
      BY <2>3 DEF EndInOrder, old
    <3>2. QED
      BY <1>1, <1>2, <3>1, StillApart DEF OneKeyLess
  <2>5. EndInOrder(d, left, generated', sent')
    BY <1>1, <1>2, <2>3, <2>4 DEF EndInOrder, old, chains
  <2>6. QED
    BY <1>1, <1>3, <1>6, <2>2, <2>5
<1>10. OneAhead(records')
  <2>1. PICK e \in Device :
          /\ records[e].currentSession # None /\ Leads(End(records, e), End(records, Peer(e)))
          /\ NoChain(End(records, Peer(e)), End(records, e).ourRatchetKey)
          /\ records[Peer(e)].currentSession # None =>
               HasChain(End(records, e), End(records, Peer(e)).ourRatchetKey, End(records, Peer(e)).rootKey)
    BY <1>4 DEF EndsInStep, OneAhead
  <2>2. CASE e = d
    <3>1. /\ Leads(own, other) /\ NoChain(other, own.ourRatchetKey)
          /\ records[peer].currentSession # None => HasChain(own, other.ourRatchetKey, other.rootKey)
      BY <2>1, <2>2 DEF own, other, peer
    <3>2. /\ Leads(left, other) /\ NoChain(other, left.ourRatchetKey)
          /\ records'[peer].currentSession # None => HasChain(left, other.ourRatchetKey, other.rootKey)
      BY <1>1, <1>2, <1>3, <1>7, <3>1 DEF Leads
    <3>3. records'[d].currentSession # None
      BY <1>1 DEF left
    <3>4. QED
      BY <1>1, <1>6, <3>2, <3>3 DEF OneAhead, peer
  <2>3. CASE e = peer
    <3>1. /\ Leads(other, own) /\ NoChain(own, other.ourRatchetKey) /\ HasChain(other, own.ourRatchetKey, own.rootKey)
          /\ records[peer].currentSession # None
      BY <1>3, <1>5, <2>1, <2>3 DEF own, other
    <3>2. Leads(other, left) /\ NoChain(left, other.ourRatchetKey) /\ HasChain(other, left.ourRatchetKey, left.rootKey)
      BY <1>2, <1>8, <3>1 DEF Leads
    <3>3. records'[peer].currentSession # None
      BY <1>1, <1>3, <3>1
    <3>4. QED
      BY <1>1, <1>3, <1>6, <3>2, <3>3 DEF OneAhead
  <2>4. QED
    BY <1>3, <2>2, <2>3
<1>11. End(records', Opener).pendingPreKey = None => records'[Peer(Opener)].currentSession # None
  <2>1. Addressed(m0, records)
    BY <1>1, <1>4 DEF MessagesInStep
  <2>2. QED
    BY <1>4, <2>1, AnsweredByASession DEF EndsInStep
<1>12. ASSUME NEW m \in sent
       PROVE  Addressed(m, records') /\ OnChain(m, records') /\ KeyKept(m, records', ops', delivered')
  <2>1. Addressed(m, records) /\ OnChain(m, records) /\ KeyKept(m, records, ops, delivered)
    BY <1>4 DEF MessagesInStep
  <2>2. /\ Addressed(m, records')
        /\ m.to # d => KeyKept(m, records', ops', delivered')
        /\ ~HandedOut(m.signal.body, ops', delivered') => m # m0 /\ ~HandedOut(m.signal.body, ops, delivered)
    BY <2>1, DecryptionKeepsRest
  <2>3. m.to = d \/ m.to = peer
    BY <1>3, ToDevices
  <2>4. CASE m.to = d
    <3>1. OnChain(m, records')
      <4> DEFINE key == m.signal.ratchetKey
                 seed == m.signal.mac.key.seed
      <4>1. HasChain(own, key, seed) \/ (seed = other.rootKey /\ key = other.ourRatchetKey /\ Leads(other, own))
        BY <2>1, <2>4 DEF OnChain, own, other, peer
      <4>2. HasChain(left, key, seed) \/ (seed = other.rootKey /\ key = other.ourRatchetKey /\ Leads(other, left))
        BY <1>2, <1>7, <4>1 DEF Leads
      <4>3. QED
        BY <1>1, <1>6, <2>4, <4>2 DEF OnChain, peer
    <3>2. KeyKept(m, records', ops', delivered')
      <4>1. SUFFICES ASSUME ~HandedOut(m.signal.body, ops', delivered')
                     PROVE  \A i \in 1 .. Len(chains) :
                              SeedOf(chains[i]) = m.signal.mac.key.seed => m.signal.counter \in Spendable(chains[i])
        BY <1>1, <2>4 DEF KeyKept, chains
      <4>2. m # m0 /\ \A i \in 1 .. Len(old) :
                         SeedOf(old[i]) = m.signal.mac.key.seed => m.signal.counter \in Spendable(old[i])
        BY <2>1, <2>2, <2>4, <4>1 DEF KeyKept, old, own
      <4>3. QED
        BY <1>1, <1>2, <4>2, StillKept
    <3>3. QED
      BY <2>2, <3>1, <3>2
  <2>5. CASE m.to = peer
    <3>1. OnChain(m, records')
      <4> DEFINE key == m.signal.ratchetKey
                 seed == m.signal.mac.key.seed
      <4>1. HasChain(other, key, seed) \/ (seed = own.rootKey /\ key = own.ourRatchetKey /\ Leads(own, other))
        BY <1>3, <2>1, <2>5 DEF OnChain, own, other
      <4>2. HasChain(other, key, seed) \/ (seed = left.rootKey /\ key = left.ourRatchetKey /\ Leads(left, other))
        BY <1>2, <4>1 DEF Leads
      <4>3. QED
        BY <1>1, <1>3, <1>6, <2>5, <4>2 DEF OnChain
    <3>2. QED
      BY <1>3, <2>2, <2>5, <3>1
  <2>6. QED
    BY <2>3, <2>4, <2>5
<1>13. MessagesInStep(sent', records', ops', delivered')
  BY <1>1, <1>12 DEF MessagesInStep
<1>14. EndsInStep(records', generated', sent')
  BY <1>9, <1>10, <1>11 DEF EndsInStep
<1>15. QED
  BY <1>1, <1>13, <1>14 DEF InStep

\* Only one of two root keys can lead the other.
LEMMA LeadsOneWay ==
  ASSUME NEW a, NEW b, IsSeq(a.rootKey), IsSeq(b.rootKey), Leads(a, b)
  PROVE  ~Leads(b, a) /\ Len(a.rootKey) = Len(b.rootKey) + 1
<1>1. Len(a.rootKey) = Len(b.rootKey) + 1
  BY LastOfRootKey DEF Leads
<1>2. Leads(b, a) => Len(b.rootKey) = Len(a.rootKey) + 1
  BY LastOfRootKey DEF Leads
<1>3. Len(a.rootKey) \in Nat /\ Len(b.rootKey) \in Nat
  BY DEF IsSeq
<1>4. QED
  BY <1>1, <1>2, <1>3

\* A message on a new chain: the receiver makes the chain its peer sends on, and
\* is ahead then.
LEMMA TurningInStep ==
  ASSUME OneOpening, RecordsInOrder, Conversation, InStep, WithinLimits', NEW d \in Device, NEW m0, Decryption(d, m0),
         NoChain(End(records, d), m0.signal.ratchetKey),
         Turns(End(records, d), records'[d].currentSession, m0.signal, Fresh(d, 1))
  PROVE  InStep'
<1> DEFINE own == End(records, d)
           peer == Peer(d)
           other == End(records, peer)
           left == records'[d].currentSession
           old == own.receiverChains
           fresh == Fresh(d, 1)
           new == newChain(other.ourRatchetKey, other.rootKey)
           all == Append(old, new)
           chains == left.receiverChains
           n == Len(old)
<1>1. /\ m0 \in sent /\ m0.to = d /\ records[Opener].currentSession # None
      /\ left # None /\ End(records', d) = left
      /\ left.localIdentity = own.localIdentity /\ left.remoteIdentity = own.remoteIdentity
      /\ sent' = sent /\ WithTheBundle(ops') /\ Onwards
      /\ ~Made(generated, fresh)
      /\ \A e \in Device : e # d => records'[e] = records[e] /\ End(records', e) = End(records, e)
  BY DEF Decryption, Left
<1>2. /\ peer \in Device /\ peer # d /\ Peer(peer) = d /\ Opener \in Device
      /\ \A e \in Device : e = d \/ e = peer
  BY TwoDevices, TheOpener
<1>3. EndsInStep(records, generated, sent) /\ MessagesInStep(sent, records, ops, delivered)
  BY <1>1 DEF InStep
<1>4. /\ EndInOrder(d, own, generated, sent) /\ EndInOrder(peer, other, generated, sent)
      /\ GoodSession(own) /\ GoodSession(other) /\ IsSeq(own.rootKey) /\ IsSeq(other.rootKey)
      /\ IsSeq(old) /\ n \in Nat
  <2>1. GoodSession(own) /\ GoodSession(other) /\ IsSeq(own.rootKey) /\ IsSeq(other.rootKey)
    BY <1>2, EndsInOrder
  <2>2. IsSeq(old) /\ n \in Nat
    BY <2>1 DEF GoodSession, IsSeq
  <2>3. QED
    BY <1>2, <1>3, <2>1, <2>2 DEF EndsInStep
<1>5. /\ m0.signal.mac.key.seed = other.rootKey /\ m0.signal.ratchetKey = other.ourRatchetKey /\ Leads(other, own)
  <2>1. OnChain(m0, records)
    BY <1>1, <1>3 DEF MessagesInStep
  <2>2. \A seed : ~HasChain(own, m0.signal.ratchetKey, seed)
    BY DEF NoChain, HasChain
  <2>3. QED
    BY <1>1, <2>1, <2>2 DEF OnChain
<1>6. deriveRootKey(own.rootKey, sharedKey(own.ourRatchetKey, other.ourRatchetKey)) = other.rootKey
  BY <1>5 DEF Leads
<1>7. /\ left.rootKey = deriveRootKey(other.rootKey, sharedKey(fresh, other.ourRatchetKey))
      /\ left.ourRatchetKey = fresh /\ left.senderChain = newChain(fresh, left.rootKey)
      /\ Len(all) <= MAX_PREVIOUS_SESSIONS => OneKeyLess(all, chains, m0.signal)
  BY <1>5, <1>6 DEF Turns
<1>8. End(records', peer) = other
  BY <1>1, <1>2
<1>9. /\ Len(all) = n + 1 /\ all[n + 1] = new
      /\ \A i \in 1 .. n : all[i] = old[i]
  BY <1>4, AppendElements
<1>10. new.ratchetKey = other.ourRatchetKey /\ SeedOf(new) = other.rootKey /\ new.chainKey.index = 0
       /\ \A c \in Nat : c \in Spendable(new)
  BY DEF newChain, SeedOf, Key, Spendable
<1>11. SeedOf(left.senderChain) = left.rootKey
  BY <1>7 DEF newChain, SeedOf, Key
<1> HIDE DEF new, fresh
<1>12. Len(left.rootKey) = Len(own.rootKey) + 2 /\ Len(own.rootKey) \in Nat
  <2>1. Len(other.rootKey) = Len(own.rootKey) + 1
    BY <1>4, <1>5, LeadsOneWay
  <2>2. Len(left.rootKey) = Len(other.rootKey) + 1
    BY <1>4, <1>7, LastOfRootKey
  <2>3. Len(own.rootKey) \in Nat
    BY <1>4 DEF IsSeq
  <2> HIDE DEF own, other, left
  <2>4. QED
    BY <2>1, <2>2, <2>3
<1>13. Len(left.rootKey) <= 2 * MAX_PREVIOUS_SESSIONS + 2
  BY <1>1 DEF WithinLimits
<1>14. 2 * n + 1 <= Len(own.rootKey)
  BY <1>4 DEF EndInOrder
<1> HIDE DEF own, other, left, peer, n, all, chains, old
<1>15. OneKeyLess(all, chains, m0.signal)
  <2>1. n + 1 <= MAX_PREVIOUS_SESSIONS
    BY <1>4, <1>12, <1>13, <1>14, SessionsAssumption
  <2>2. QED
    BY <1>7, <1>9, <2>1
<1>16. Len(chains) = n + 1
  BY <1>9, <1>15 DEF OneKeyLess
<1>17. \A key, seed : HasChain(own, key, seed) => HasChain(left, key, seed)
  <2>1. TAKE key, seed
  <2>2. SUFFICES ASSUME NEW i \in 1 .. n, old[i].ratchetKey = key, SeedOf(old[i]) = seed
                 PROVE  HasChain(left, key, seed)
    BY DEF HasChain, old, n
  <2>3. i \in 1 .. Len(all) /\ all[i] = old[i]
    BY <1>4, <1>9
  <2>4. i \in 1 .. Len(chains) /\ chains[i].ratchetKey = key /\ SeedOf(chains[i]) = seed
    BY <1>15, <2>2, <2>3 DEF OneKeyLess
  <2>5. QED
    BY <2>4 DEF HasChain, chains
<1>18. HasChain(left, other.ourRatchetKey, other.rootKey)
  <2>1. n + 1 \in 1 .. Len(all)
    BY <1>4, <1>9
  <2>2. /\ n + 1 \in 1 .. Len(chains) /\ chains[n + 1].ratchetKey = other.ourRatchetKey
        /\ SeedOf(chains[n + 1]) = other.rootKey
    BY <1>9, <1>10, <1>15, <2>1 DEF OneKeyLess
  <2>3. QED
    BY <2>2 DEF HasChain, chains
<1>19. EndInOrder(d, left, generated', sent')
  <2>1. EndInOrder(d, own, generated', sent')
    BY <1>1, <1>4, SameInOrder DEF Same, Onwards
  <2>2. ChainsApart(old, generated', sent')
    BY <2>1 DEF EndInOrder, old
  <2>3. Made(generated', other.ourRatchetKey)
    <3>1. Made(generated, m0.signal.ratchetKey)
      BY <1>1 DEF Conversation, Messages, Sealed
    <3>2. QED
      BY <1>1, <1>5, <3>1 DEF Onwards
  <2>4. \A i \in 1 .. n : old[i].ratchetKey # other.ourRatchetKey
    BY <1>5 DEF NoChain, own, old, n
  <2>5. \A i \in 1 .. n + 1 : (i \in 1 .. n /\ all[i] = old[i]) \/ (i = n + 1 /\ all[i] = new)
    BY <1>4, <1>9
  <2>6. \A i \in 1 .. n : /\ Made(generated', old[i].ratchetKey)
                          /\ \/ old[i].chainKey.index = 0
                             \/ \E m \in sent' : m.signal.mac.key = Key(SeedOf(old[i]), old[i].chainKey.index - 1)
                          /\ \A j \in 1 .. n : i # j => old[i].ratchetKey # old[j].ratchetKey
    BY <2>2 DEF ChainsApart, n
  <2>7. \A i \in 1 .. n + 1 : /\ Made(generated', all[i].ratchetKey)
                              /\ \/ all[i].chainKey.index = 0
                                 \/ \E m \in sent' : m.signal.mac.key = Key(SeedOf(all[i]), all[i].chainKey.index - 1)
    BY <1>10, <2>3, <2>5, <2>6
  <2>8. \A i, j \in 1 .. n + 1 : i # j => all[i].ratchetKey # all[j].ratchetKey
    BY <1>10, <2>4, <2>5, <2>6
  <2>9. ChainsApart(all, generated', sent')
    BY <1>9, <2>7, <2>8 DEF ChainsApart
  <2>10. ChainsApart(chains, generated', sent')
    BY <1>1, <1>15, <2>9, StillApart
  <2>11. 2 * Len(chains) + 1 <= Len(left.rootKey)
    BY <1>4, <1>12, <1>14, <1>16
  <2>12. QED
    BY <1>1, <1>11, <2>1, <2>10, <2>11 DEF EndInOrder, chains
<1>20. EndInOrder(peer, other, generated', sent')
  BY <1>1, <1>4, SameInOrder DEF Same, Onwards
<1>21. OneAhead(records')
  <2>1. Leads(left, other)
    BY <1>7 DEF Leads, sharedKey
  <2>2. NoChain(other, left.ourRatchetKey)
    BY <1>1, <1>4, <1>7 DEF NoChain, EndInOrder, ChainsApart
  <2>3. records'[d].currentSession # None
    BY <1>1 DEF left
  <2>4. QED
    BY <1>1, <1>8, <1>18, <2>1, <2>2, <2>3 DEF OneAhead, peer
<1>22. End(records', Opener).pendingPreKey = None => records'[Peer(Opener)].currentSession # None
  <2>1. Addressed(m0, records)
    BY <1>1, <1>3 DEF MessagesInStep
  <2>2. QED
    BY <1>3, <2>1, AnsweredByASession DEF EndsInStep
<1>23. ASSUME NEW m \in sent
       PROVE  Addressed(m, records') /\ OnChain(m, records') /\ KeyKept(m, records', ops', delivered')
  <2>1. Addressed(m, records) /\ OnChain(m, records) /\ KeyKept(m, records, ops, delivered)
    BY <1>3 DEF MessagesInStep
  <2>2. /\ Addressed(m, records')
        /\ m.to # d => KeyKept(m, records', ops', delivered')
        /\ ~HandedOut(m.signal.body, ops', delivered') => m # m0 /\ ~HandedOut(m.signal.body, ops, delivered)
    BY <2>1, DecryptionKeepsRest
  <2>3. (m.to = d \/ m.to = peer) /\ m.signal.counter \in Nat
    BY <1>2, ToDevices DEF RecordsInOrder, SealedWell
  <2>4. CASE m.to = d
    <3>1. OnChain(m, records')
      <4> DEFINE key == m.signal.ratchetKey
                 seed == m.signal.mac.key.seed
      <4>1. HasChain(own, key, seed) \/ (seed = other.rootKey /\ key = other.ourRatchetKey)
        BY <2>1, <2>4 DEF OnChain, own, other, peer
      <4>2. HasChain(left, key, seed)
        BY <1>17, <1>18, <4>1
      <4>3. QED
        BY <1>1, <2>4, <4>2 DEF OnChain
    <3>2. KeyKept(m, records', ops', delivered')
      <4>1. SUFFICES ASSUME ~HandedOut(m.signal.body, ops', delivered')
                     PROVE  \A i \in 1 .. Len(chains) :
                              SeedOf(chains[i]) = m.signal.mac.key.seed => m.signal.counter \in Spendable(chains[i])
        BY <1>1, <2>4 DEF KeyKept, chains
      <4>2. m # m0 /\ \A i \in 1 .. n :
                         SeedOf(old[i]) = m.signal.mac.key.seed => m.signal.counter \in Spendable(old[i])
        BY <2>1, <2>2, <2>4, <4>1 DEF KeyKept, n, old, own
      <4>3. \A i \in 1 .. n + 1 : (i \in 1 .. n /\ all[i] = old[i]) \/ all[i] = new
        BY <1>4, <1>9
      <4>4. \A i \in 1 .. Len(all) :
              SeedOf(all[i]) = m.signal.mac.key.seed => m.signal.counter \in Spendable(all[i])
        BY <1>9, <1>10, <2>3, <4>2, <4>3
      <4>5. QED
        BY <1>1, <1>15, <4>2, <4>4, StillKept
    <3>3. QED
      BY <2>2, <3>1, <3>2
  <2>5. CASE m.to = peer
    <3>1. ~Leads(own, other)
      BY <1>4, <1>5, LeadsOneWay
    <3>2. HasChain(other, m.signal.ratchetKey, m.signal.mac.key.seed)
      BY <1>2, <2>1, <2>5, <3>1 DEF OnChain, own, other
    <3>3. OnChain(m, records')
      BY <1>8, <2>5, <3>2 DEF OnChain
    <3>4. QED
      BY <1>2, <2>2, <2>5, <3>3
  <2>6. QED
    BY <2>3, <2>4, <2>5
<1>24. MessagesInStep(sent', records', ops', delivered')
  BY <1>1, <1>23 DEF MessagesInStep
<1>25. EndsInStep(records', generated', sent')
  <2>1. \A e \in Device : EndInOrder(e, End(records', e), generated', sent')
    BY <1>1, <1>2, <1>8, <1>19, <1>20
  <2>2. QED
    BY <1>21, <1>22, <2>1 DEF EndsInStep
<1>26. QED
  BY <1>1, <1>24, <1>25 DEF InStep

\* A decryption leaves the ends in step.
LEMMA DecryptInStep ==
  ASSUME OneAtATime, OneOpening, Stocked, RecordsInOrder, Conversation, InStep, WithinLimits, WithinLimits',
         NEW d \in Device, NEW s \in Slots, Decrypt(d, s), BaseKeyBuildsOneSession'
  PROVE  InStep'
<1>1. PICK m0 : Decryption(d, m0)
  BY DecryptionLeaves
<1>2. CASE ~NoChain(End(records, d), m0.signal.ratchetKey)
  BY <1>1, <1>2, StayingInStep DEF Decryption, Left
<1>3. CASE NoChain(End(records, d), m0.signal.ratchetKey)
  BY <1>1, <1>3, TurningInStep DEF Decryption, Left
<1>4. QED
  BY <1>2, <1>3

----------------------------------------------------------------------------
(* The limits.                                                             *)

\* Root keys only grow.
LEMMA RootGrows ==
  ASSUME NEW session, GoodSession(session), Lineage(session), NEW message, message.counter \in Nat, NEW fresh,
         decryptWithSession(session, message, fresh).ok
  PROVE  Len(session.rootKey) <= Len(decryptWithSession(session, message, fresh).session.rootKey)
<1> DEFINE left == decryptWithSession(session, message, fresh).session
           ready == Ready(session, message, fresh)
           old == ready.receiverChains
<1>1. PICK at \in ChainsFor(ready, message.ratchetKey) :
        \E given \in messageKeysForCounter(old[at], message.counter) : left = Opened(ready, at, given.chain)
  BY Attempted
<1>2. PICK given \in messageKeysForCounter(old[at], message.counter) : left = Opened(ready, at, given.chain)
  BY <1>1
<1>3. GoodSession(ready) /\ Len(session.rootKey) <= Len(ready.rootKey)
  BY ReadyInOrder, ReadyLineage
<1> HIDE DEF left, ready
<1>4. at \in 1 .. Len(old) /\ InOrder(old[at])
  BY <1>3, SeqOfElements DEF GoodSession, ChainsFor
<1>5. InOrder(given.chain)
  BY <1>2, <1>4, Answered
<1> DEFINE moved == MovedChain(ready, at, given.chain)
           chains == Replaced(old, at, given.chain)
<1>6. /\ GoodSession(moved)
      /\ moved = SessionOf(ready.localIdentity, ready.remoteIdentity, ready.rootKey, ready.ourRatchetKey,
                           ready.senderChain, chains, ready.pendingPreKey)
  BY <1>3, <1>4, <1>5, ChainMoved
<1>7. left = [moved EXCEPT !.pendingPreKey = None]
  BY <1>2 DEF Opened
<1> HIDE DEF moved, chains
<1>8. left = SessionOf(moved.localIdentity, moved.remoteIdentity, moved.rootKey, moved.ourRatchetKey,
                       moved.senderChain, moved.receiverChains, None)
  BY <1>6, <1>7, PendingAnswered
<1>9. left.rootKey = ready.rootKey
  BY <1>6, <1>8 DEF SessionOf
<1>10. QED
  BY <1>3, <1>9 DEF left

\* The root key of each session that is stored is as long as before, or longer.
LongerRoots ==
  \A d \in Device : records[d].currentSession # None =>
    /\ records'[d].currentSession # None
    /\ Len(records[d].currentSession.rootKey) <= Len(records'[d].currentSession.rootKey)

\* A root key that has not changed is as long as it was.
LEMMA AlikeRoots ==
  ASSUME Conversation, Alike(records, records')
  PROVE  LongerRoots
<1>1. ASSUME NEW d \in Device, records[d].currentSession # None
      PROVE  /\ records'[d].currentSession # None
             /\ Len(records[d].currentSession.rootKey) <= Len(records'[d].currentSession.rootKey)
  <2>1. /\ records'[d].currentSession # None
        /\ Same(End(records, d), End(records', d))
    BY <1>1 DEF Alike
  <2>2. records'[d].currentSession.rootKey = records[d].currentSession.rootKey
    BY <1>1, <2>1 DEF End, Same
  <2>3. Len(records[d].currentSession.rootKey) \in Nat
    BY <1>1 DEF Conversation, Sessions, OneSession, Lineage, IsSeq
  <2>4. QED
    BY <2>1, <2>2, <2>3
<1>2. QED
  BY <1>1 DEF LongerRoots

\* Sessions are not lost and root keys not shortened.
LEMMA RootsGrow ==
  ASSUME RecordsInOrder, Conversation, [Next]_vars, BaseKeyBuildsOneSession'
  PROVE  LongerRoots
<1>1. CASE UNCHANGED records
  BY <1>1, AlikeRoots DEF Alike, Same, End
<1>2. ASSUME NEW d \in Device, NEW s \in Slots, Encrypt(d, s) PROVE LongerRoots
  BY <1>2, EncryptedAlike, AlikeRoots
<1>3. ASSUME NEW d \in Device, NEW saved, GoodRecord(saved), saveRecord(d, saved),
             records[d].currentSession # None =>
               /\ records'[d].currentSession # None
               /\ Len(records[d].currentSession.rootKey) <= Len(records'[d].currentSession.rootKey)
      PROVE  LongerRoots
  <2>1. \A e \in Device : e # d => records'[e] = records[e]
    BY <1>3, Saved DEF RecordsInOrder, StoredInOrder
  <2>2. \A e \in Device : records[e].currentSession # None =>
          Len(records[e].currentSession.rootKey) <= Len(records[e].currentSession.rootKey)
    <3>1. \A e \in Device : records[e].currentSession # None => Len(records[e].currentSession.rootKey) \in Nat
      BY DEF Conversation, Sessions, OneSession, Lineage, IsSeq
    <3>2. QED
      BY <3>1
  <2>3. QED
    BY <1>3, <2>1, <2>2 DEF LongerRoots
<1>4. ASSUME NEW d \in Device, NEW s \in Slots, Open(d, s) PROVE LongerRoots
  <2> DEFINE op == ops[d][s]
             session == createOutgoingSession(identityKey(d), op.input, Fresh(d, 1), Fresh(d, 2))
  <2>1. /\ op # None /\ op.kind = "open" /\ op.step = "save" /\ GoodOp(op)
        /\ saveRecord(d, promoteSession(op.record, session))
    BY <1>4 DEF Open, Awaits, RecordsInOrder, HeldInOrder
  <2>2. records[d].currentSession = None
    BY <2>1 DEF Conversation, Operations, InPlace, Opening
  <2>3. GoodRecord(promoteSession(op.record, session))
    BY <2>1, OutgoingInOrder, PromotedInOrder DEF GoodOp
  <2> HIDE DEF op, session
  <2>4. QED
    BY <1>3, <2>1, <2>2, <2>3
<1>5. ASSUME NEW d \in Device, NEW s \in Slots, Decrypt(d, s) PROVE LongerRoots
  <2> DEFINE op == ops[d][s]
             record == records[d]
  <2>1. /\ op # None /\ op.kind = "decrypt" /\ GoodOp(op) /\ op.input.counter \in Nat /\ GoodRecord(record)
    BY <1>5 DEF Decrypt, Awaits, RecordsInOrder, HeldInOrder, StoredInOrder, GoodOp
  <2>2. PICK saved \in Decrypted(d, op) : saveRecord(d, saved)
    BY <1>5 DEF Decrypt
  <2>3. GoodRecord(saved)
    BY <2>1, <2>2, DecryptedInOrder
  <2>4. PICK session, left :
          /\ Advanced(d, op, record, session) /\ Lineage(session) /\ Advances(session, left, op.input, Fresh(d, 1))
          /\ decryptWithSession(session, op.input, Fresh(d, 1)).ok
          /\ left = decryptWithSession(session, op.input, Fresh(d, 1)).session
          /\ records'[d] = RecordOf(left, << >>)
    BY <1>5, DecryptAdvances
  <2>5. records'[d].currentSession = left /\ left # None
    BY <2>4, SessionsAreSomething DEF RecordOf, Advances
  <2>6. ASSUME record.currentSession # None
        PROVE  Len(record.currentSession.rootKey) <= Len(left.rootKey)
    <3>1. session = record.currentSession /\ GoodSession(session)
      BY <2>1, <2>4, <2>6 DEF Advanced, GoodRecord
    <3>2. QED
      BY <2>1, <2>4, <3>1, RootGrows
  <2> HIDE DEF op
  <2>7. QED
    BY <1>3, <2>2, <2>3, <2>5, <2>6
<1>6. ASSUME NEW d \in Device, NEW s \in Slots, Step(d, s), ~Open(d, s), ~Encrypt(d, s), ~Decrypt(d, s)
      PROVE  UNCHANGED records
  BY <1>6 DEF Step, StartOpen, StartEncrypt, ReturnCiphertext, StartDecrypt, ResolveKeys, DecryptFails,
              DeletePreKey, ReturnPlaintext
<1>7. ASSUME NEW d \in Device, Crash(d) PROVE UNCHANGED records
  BY <1>7 DEF Crash
<1>8. CASE UNCHANGED vars
  BY <1>1, <1>8 DEF vars
<1>9. QED
  BY <1>1, <1>2, <1>4, <1>5, <1>6, <1>7, <1>8 DEF Next

\* What is sent stays sent.
LEMMA SentGrows == ASSUME [Next]_vars PROVE sent \subseteq sent'
<1>1. ASSUME NEW d \in Device, NEW s \in Slots, Step(d, s) PROVE sent \subseteq sent'
  BY <1>1 DEF Step, StartOpen, Open, StartEncrypt, Encrypt, ReturnCiphertext, StartDecrypt, ResolveKeys, Decrypt,
              DecryptFails, DeletePreKey, ReturnPlaintext
<1>2. ASSUME NEW d \in Device, Crash(d) PROVE sent \subseteq sent'
  BY <1>2 DEF Crash
<1>3. QED
  BY <1>1, <1>2 DEF Next, vars

\* Limits that have been passed stay passed.
LEMMA LimitsLast ==
  ASSUME RecordsInOrder, Conversation, [Next]_vars, BaseKeyBuildsOneSession', WithinLimits'
  PROVE  WithinLimits
<1>1. \A m \in sent : m.signal.counter <= MAX_SKIPPED_MESSAGE_KEYS /\ m.signal.counter <= MAX_STORED_MESSAGE_KEYS
  BY SentGrows DEF WithinLimits
<1>2. ASSUME NEW d \in Device, records[d].currentSession # None
      PROVE  Len(records[d].currentSession.rootKey) <= 2 * MAX_PREVIOUS_SESSIONS + 2
  <2> DEFINE was == Len(records[d].currentSession.rootKey)
             now == Len(records'[d].currentSession.rootKey)
             most == 2 * MAX_PREVIOUS_SESSIONS + 2
  <2>1. records'[d].currentSession # None /\ was <= now
    BY <1>2, RootsGrow DEF LongerRoots
  <2>2. now <= most
    BY <2>1 DEF WithinLimits
  <2>3. was \in Nat /\ now \in Nat /\ most \in Nat
    BY <1>2, <2>1, SessionsAssumption DEF Conversation, Sessions, OneSession, Lineage, IsSeq
  <2> HIDE DEF was, now, most
  <2>4. was <= most
    BY <2>1, <2>2, <2>3
  <2>5. QED
    BY <2>4 DEF was, most
<1>3. QED
  BY <1>1, <1>2 DEF WithinLimits

----------------------------------------------------------------------------
(* Ends in step decrypt what has been sent.                                *)

\* An attempt opens a message when each chain for its ratchet key is the one it was
\* sealed on, and still has its key.
LEMMA AttemptOpens ==
  ASSUME NEW session, GoodSession(session), NEW message, message.counter \in Nat,
         message.counter <= MAX_SKIPPED_MESSAGE_KEYS, NEW fresh,
         message.mac = [key |-> Key(message.mac.key.seed, message.counter),
                        sender |-> session.remoteIdentity, receiver |-> session.localIdentity],
         \A i \in ChainsFor(Ready(session, message, fresh), message.ratchetKey) :
           LET chain == Ready(session, message, fresh).receiverChains[i]
           IN  SeedOf(chain) = message.mac.key.seed /\ message.counter \in Spendable(chain)
  PROVE  decryptWithSession(session, message, fresh).ok
<1> DEFINE ready == Ready(session, message, fresh)
           at == CHOOSE i \in ChainsFor(ready, message.ratchetKey) : TRUE
           chain == ready.receiverChains[at]
           found == messageKeysForCounter(chain, message.counter)
           given == CHOOSE outcome \in found : TRUE
<1>1. decryptWithSession(session, message, fresh)
        = IF found = {} THEN [ok |-> FALSE, session |-> ready]
          ELSE IF ~Authentic(message, given.keys, session)
               THEN [ok |-> FALSE, session |-> MovedChain(ready, at, given.chain)]
               ELSE [ok |-> TRUE, session |-> Opened(ready, at, given.chain)]
  BY DEF decryptWithSession, Ready, MovedChain, Opened
<1>2. GoodSession(ready) /\ ChainsFor(ready, message.ratchetKey) # {}
  BY ReadyInOrder
<1>3. at \in ChainsFor(ready, message.ratchetKey)
  BY <1>2
<1>4. SeedOf(chain) = message.mac.key.seed /\ message.counter \in Spendable(chain)
  BY <1>3
<1> HIDE DEF ready, at
<1>5. InOrder(chain)
  BY <1>2, <1>3, SeqOfElements DEF GoodSession, ChainsFor
<1> HIDE DEF chain
<1>6. found # {}
  BY <1>4, <1>5, SpendableIsAnswered
<1>7. given \in found
  BY <1>6
<1> HIDE DEF given
<1>8. given.keys = KeysOf(SeedOf(chain), message.counter)
  BY <1>5, <1>7, Answered
<1>9. given.keys.material = Key(message.mac.key.seed, message.counter)
  BY <1>4, <1>8 DEF KeysOf
<1>10. Authentic(message, given.keys, session)
  BY <1>9 DEF Authentic
<1> HIDE DEF found
<1>11. decryptWithSession(session, message, fresh) = [ok |-> TRUE, session |-> Opened(ready, at, given.chain)]
  BY <1>1, <1>6, <1>10
<1>12. QED
  BY <1>11

\* A record whose session opens the message decrypts it.
LEMMA RecordOpens ==
  ASSUME NEW record, GoodRecord(record), record.currentSession # None, NEW message, NEW fresh,
         decryptWithSession(record.currentSession, message, fresh[1]).ok
  PROVE  decryptSignalMessage(record, message, fresh) # {}
<1> DEFINE sessions == SessionsOf(record)
           attempt == [i \in DOMAIN sessions |-> decryptWithSession(sessions[i], message, fresh[i])]
           opened == {i \in DOMAIN sessions : attempt[i].ok}
<1>1. sessions[1] = record.currentSession /\ DOMAIN sessions = 1 .. Len(sessions) /\ Len(sessions) \in Nat /\ Len(sessions) # 0
  <2>1. /\ IsSeq(sessions) /\ Len(sessions) = 1 + Len(record.previousSessions)
        /\ sessions[1] = record.currentSession
    BY SessionsInOrder DEF GoodSessions
  <2>2. Len(record.previousSessions) \in Nat
    BY DEF GoodRecord, GoodSessions, IsSeq
  <2> HIDE DEF sessions
  <2>3. QED
    BY <2>1, <2>2, SeqOfElements
<1> HIDE DEF sessions
<1>2. 1 \in opened
  BY <1>1
<1>3. opened # {}
  BY <1>2
<1> HIDE DEF opened
<1>4. decryptSignalMessage(record, message, fresh) # {}
  BY <1>3 DEF decryptSignalMessage, opened, attempt, sessions
<1>5. QED
  BY <1>4

\* The chain a message is on is the receiver's only one for its ratchet key, or is
\* the one it makes when it turns.
LEMMA ChainReady ==
  ASSUME RecordsInOrder, Conversation, EndsInStep(records, generated, sent), NEW m \in sent, m.to \in Device,
         OnChain(m, records), NEW fresh,
         \A i \in 1 .. Len(End(records, m.to).receiverChains) :
           SeedOf(End(records, m.to).receiverChains[i]) = m.signal.mac.key.seed =>
             m.signal.counter \in Spendable(End(records, m.to).receiverChains[i])
  PROVE  LET ready == Ready(End(records, m.to), m.signal, fresh)
         IN  \A i \in ChainsFor(ready, m.signal.ratchetKey) :
               /\ SeedOf(ready.receiverChains[i]) = m.signal.mac.key.seed
               /\ m.signal.counter \in Spendable(ready.receiverChains[i])
<1> DEFINE d == m.to
           peer == Peer(d)
           own == End(records, d)
           other == End(records, peer)
           old == own.receiverChains
           key == m.signal.ratchetKey
           seed == m.signal.mac.key.seed
           ready == Ready(own, m.signal, fresh)
<1>1. peer \in Device /\ peer # d /\ Peer(peer) = d /\ \A e \in Device : e = d \/ e = peer
  BY TwoDevices
<1>2. /\ GoodSession(own) /\ IsSeq(own.rootKey) /\ IsSeq(other.rootKey)
      /\ EndInOrder(d, own, generated, sent) /\ IsSeq(old) /\ Len(old) \in Nat
  <2>1. GoodSession(own) /\ IsSeq(own.rootKey) /\ IsSeq(other.rootKey) /\ EndInOrder(d, own, generated, sent)
    BY <1>1, EndsInOrder DEF EndsInStep
  <2>2. IsSeq(old) /\ Len(old) \in Nat
    BY <2>1 DEF GoodSession, IsSeq
  <2>3. QED
    BY <2>1, <2>2
<1>3. m.signal.counter \in Nat
  BY DEF RecordsInOrder, SealedWell
<1>4. HasChain(own, key, seed) \/ (seed = other.rootKey /\ key = other.ourRatchetKey /\ Leads(other, own))
  BY DEF OnChain
<1>5. Leads(other, own) => NoChain(own, other.ourRatchetKey)
  <2>1. SUFFICES ASSUME Leads(other, own) PROVE NoChain(own, other.ourRatchetKey)
    OBVIOUS
  <2>2. PICK e \in Device :
          /\ Leads(End(records, e), End(records, Peer(e)))
          /\ NoChain(End(records, Peer(e)), End(records, e).ourRatchetKey)
    BY DEF EndsInStep, OneAhead
  <2>3. e # d
    BY <1>2, <2>1, <2>2, LeadsOneWay
  <2>4. e = peer
    BY <1>1, <2>3
  <2>5. QED
    BY <1>1, <2>2, <2>4
<1> HIDE DEF own, other, old
<1>6. ready = IF NoChain(own, key) THEN ratchetOnReceive(own, key, fresh) ELSE own
  BY <1>2, NoChainNoPlace DEF Ready
<1>7. CASE ~NoChain(own, key)
  <2>1. HasChain(own, key, seed)
    BY <1>4, <1>5, <1>7
  <2>2. PICK k \in 1 .. Len(old) : old[k].ratchetKey = key /\ SeedOf(old[k]) = seed
    BY <2>1 DEF HasChain, old
  <2>3. ready = own
    BY <1>6, <1>7
  <2>4. ASSUME NEW i \in ChainsFor(ready, key)
        PROVE  SeedOf(ready.receiverChains[i]) = seed /\ m.signal.counter \in Spendable(ready.receiverChains[i])
    <3>1. i \in 1 .. Len(old) /\ old[i].ratchetKey = key
      BY <1>2, <2>3, <2>4, SeqOfElements DEF ChainsFor, old
    <3>2. i = k
      BY <1>2, <2>2, <3>1 DEF EndInOrder, ChainsApart, old
    <3>3. QED
      BY <2>2, <2>3, <3>1, <3>2 DEF own, old
  <2>5. QED
    BY <2>4 DEF own
<1>8. CASE NoChain(own, key)
  <2>1. seed = other.rootKey /\ key = other.ourRatchetKey /\ Leads(other, own)
    BY <1>4, <1>8 DEF NoChain, HasChain
  <2> DEFINE receiving == deriveRootKey(own.rootKey, sharedKey(own.ourRatchetKey, key))
             sending == deriveRootKey(receiving, sharedKey(fresh, key))
             new == newChain(key, receiving)
             all == Append(old, new)
             chains == IF Len(all) > MAX_PREVIOUS_SESSIONS THEN Tail(all) ELSE all
  <2>2. ready = SessionOf(own.localIdentity, own.remoteIdentity, sending, fresh, newChain(fresh, sending), chains,
                          own.pendingPreKey)
    BY <1>2, <1>6, <1>8, RatchetedSession DEF old
  <2>3. receiving = seed
    BY <2>1 DEF Leads
  <2>4. SeedOf(new) = receiving /\ m.signal.counter \in Spendable(new)
    BY <1>3 DEF newChain, SeedOf, Key, Spendable
  <2> HIDE DEF receiving, sending, new, ready
  <2>5. ready.receiverChains = chains
    BY <2>2 DEF SessionOf
  <2>6. /\ IsSeq(all) /\ Len(all) = Len(old) + 1 /\ all[Len(old) + 1] = new
        /\ \A i \in 1 .. Len(old) : all[i] = old[i]
    BY <1>2, AppendElements
  <2> HIDE DEF all
  <2>7. PICK k \in {0, 1} : /\ Len(chains) = Len(all) - k /\ IsSeq(chains)
                            /\ \A i \in 1 .. Len(chains) : chains[i] = all[i + k]
    <3>1. CASE Len(all) > MAX_PREVIOUS_SESSIONS
      <4>1. chains = Tail(all)
        BY <3>1
      <4>2. /\ IsSeq(Tail(all)) /\ Len(Tail(all)) = Len(all) - 1
            /\ \A i \in 1 .. Len(all) - 1 : Tail(all)[i] = all[i + 1]
        BY <1>2, <2>6, TailElements
      <4>3. QED
        BY <4>1, <4>2
    <3>2. CASE ~(Len(all) > MAX_PREVIOUS_SESSIONS)
      <4>1. chains = all
        BY <3>2
      <4>2. QED
        BY <1>2, <2>6, <4>1
    <3>3. QED
      BY <3>1, <3>2
  <2> HIDE DEF chains
  <2>8. ASSUME NEW i \in ChainsFor(ready, key)
        PROVE  SeedOf(ready.receiverChains[i]) = seed /\ m.signal.counter \in Spendable(ready.receiverChains[i])
    <3>1. i \in 1 .. Len(chains) /\ chains[i].ratchetKey = key
      BY <2>5, <2>7, <2>8, SeqOfElements DEF ChainsFor
    <3>2. i + k \in 1 .. Len(old) + 1 /\ chains[i] = all[i + k]
      BY <1>2, <2>6, <2>7, <3>1
    <3>3. ~(i + k \in 1 .. Len(old))
      BY <1>8, <2>6, <3>1, <3>2 DEF NoChain, old
    <3>4. i + k = Len(old) + 1
      BY <1>2, <3>2, <3>3
    <3>5. QED
      BY <2>3, <2>4, <2>5, <2>6, <3>2, <3>4
  <2>9. QED
    BY <2>8 DEF ready, own
<1>9. QED
  BY <1>7, <1>8

\* A device at rest can decrypt what has been sent to it.
LEMMA InStepDecrypts ==
  ASSUME OneOpening, RecordsInOrder, Conversation, InStep, WithinLimits
  PROVE  MessagesStayDecryptable
<1> SUFFICES ASSUME NEW m \in sent, m.signal.preKeyData = None, Undelivered(m), Idle(m.to)
             PROVE  decryptSignalMessage(records[m.to], m.signal, FreshPairs(m.to)) # {}
  BY DEF MessagesStayDecryptable
<1> DEFINE d == m.to
           session == records[d].currentSession
           fresh == FreshPairs(d)[1]
<1>1. /\ d \in Device /\ Opener \in Device /\ Peer(Opener) \in Device /\ \A e \in Device : e = Opener \/ e = Peer(Opener)
  BY ToDevices, TheOpener, TwoDevices
<1>2. records[Opener].currentSession # None
  BY DEF Conversation, OpenedOnce
<1>3. EndsInStep(records, generated, sent) /\ Addressed(m, records) /\ OnChain(m, records) /\ KeyKept(m, records, ops, delivered)
  BY <1>2 DEF InStep, MessagesInStep
<1>4. session # None
  BY <1>1, <1>2, <1>3 DEF Addressed
<1>5. End(records, d) = session /\ GoodSession(session) /\ GoodRecord(records[d])
  BY <1>1, <1>4 DEF End, RecordsInOrder, StoredInOrder, GoodRecord
<1>6. ~HandedOut(m.signal.body, ops, delivered)
  <2>1. ASSUME NEW e \in Device, NEW t \in Slots, HandingOut(ops[e][t], m.signal.body) PROVE FALSE
    <3>1. ops[e][t] # None /\ ops[e][t].kind = "decrypt" /\ ops[e][t].input.body = m.signal.body
      BY <2>1 DEF HandingOut
    <3>2. PICK n \in sent : n.to = e /\ n.signal = ops[e][t].input
      BY <3>1 DEF Conversation, Operations, InPlace, Received
    <3>3. n = m
      BY <3>1, <3>2 DEF Conversation, BodiesApart
    <3>4. QED
      BY <3>1, <3>2, <3>3 DEF Idle
  <2>2. QED
    BY <2>1 DEF HandedOut, Undelivered
<1>7. \A i \in 1 .. Len(End(records, d).receiverChains) :
        SeedOf(End(records, d).receiverChains[i]) = m.signal.mac.key.seed =>
          m.signal.counter \in Spendable(End(records, d).receiverChains[i])
  BY <1>3, <1>6 DEF KeyKept
<1>8. \A i \in ChainsFor(Ready(session, m.signal, fresh), m.signal.ratchetKey) :
        LET chain == Ready(session, m.signal, fresh).receiverChains[i]
        IN  SeedOf(chain) = m.signal.mac.key.seed /\ m.signal.counter \in Spendable(chain)
  <2> HIDE DEF fresh
  <2>1. QED
    BY <1>1, <1>3, <1>5, <1>7, ChainReady
<1>9. m.signal.mac = [key |-> Key(m.signal.mac.key.seed, m.signal.counter),
                      sender |-> session.remoteIdentity, receiver |-> session.localIdentity]
  <2>1. m.signal.mac = [key |-> m.signal.mac.key, sender |-> identityKey(Peer(d)), receiver |-> identityKey(d)]
    BY <1>3 DEF Addressed
  <2>2. m.signal.mac.key = Key(m.signal.mac.key.seed, m.signal.counter)
    BY DEF Conversation, Messages, Sealed
  <2>3. session.localIdentity = identityKey(d) /\ session.remoteIdentity = identityKey(Peer(d))
    BY <1>1, <1>3, <1>5 DEF EndsInStep, EndInOrder
  <2> HIDE DEF session
  <2>4. QED
    BY <2>1, <2>2, <2>3
<1>10. m.signal.counter \in Nat /\ m.signal.counter <= MAX_SKIPPED_MESSAGE_KEYS
  BY DEF WithinLimits, RecordsInOrder, SealedWell
<1>11. decryptWithSession(session, m.signal, fresh).ok
  <2> HIDE DEF session, fresh
  <2>1. QED
    BY <1>5, <1>8, <1>9, <1>10, AttemptOpens
<1>12. QED
  BY <1>4, <1>5, <1>11, RecordOpens

\* Nobody is ahead of anybody before the session is opened.
LEMMA StartsInStep == ASSUME OneOpening, Init PROVE InStep
<1>1. \A d \in Device : records[d].currentSession = None /\ \A s \in Slots : ops[d][s] = None
  BY DEF Init, createSessionRecord
<1>2. QED
  BY <1>1, TheOpener DEF InStep, WithTheBundle, HasTheBundle

\* No step that keeps within the limits parts the two ends.
LEMMA StepsInStep ==
  ASSUME OneAtATime, OneOpening, NoCrashes, Stocked, RecordsInOrder, Conversation, InStep, WithinLimits, WithinLimits',
         [Next]_vars, BaseKeyBuildsOneSession', crashes \in Nat
  PROVE  InStep'
<1>1. CASE UNCHANGED vars
  BY <1>1 DEF vars, InStep, WithTheBundle, EndsInStep, MessagesInStep
<1>2. ASSUME NEW d \in Device, NEW s \in Slots, Step(d, s) PROVE InStep'
  <2>1. CASE StartOpen(d, s)
    BY <2>1, StartOpenInStep
  <2>2. CASE Open(d, s)
    BY <2>2, OpenInStep
  <2>3. CASE StartEncrypt(d, s)
    BY <2>3, StartEncryptInStep
  <2>4. CASE Encrypt(d, s)
    BY <2>4, EncryptInStep
  <2>5. CASE ReturnCiphertext(d, s)
    BY <2>5, ReturnCiphertextInStep
  <2>6. CASE Decrypt(d, s)
    BY <2>6, DecryptInStep
  <2>7. CASE ReturnPlaintext(d, s)
    BY <2>7, ReturnPlaintextInStep
  <2>8. CASE \/ \E message \in sent : StartDecrypt(d, s, message)
             \/ ResolveKeys(d, s)
             \/ DecryptFails(d, s)
             \/ DeletePreKey(d, s)
    BY <2>8, DecryptionInStep
  <2>9. QED
    BY <1>2, <2>1, <2>2, <2>3, <2>4, <2>5, <2>6, <2>7, <2>8 DEF Step
<1>3. ASSUME NEW d \in Device, Crash(d) PROVE FALSE
  BY <1>3 DEF Crash, NoCrashes
<1>4. QED
  BY <1>1, <1>2, <1>3 DEF Next

\* Crashes are counted.
LEMMA CrashesCounted == ASSUME crashes \in Nat, [Next]_vars PROVE crashes' \in Nat
<1>1. ASSUME NEW d \in Device, NEW s \in Slots, Step(d, s) PROVE UNCHANGED crashes
  BY <1>1 DEF Step, StartOpen, Open, StartEncrypt, Encrypt, ReturnCiphertext, StartDecrypt, ResolveKeys, Decrypt,
              DecryptFails, DeletePreKey, ReturnPlaintext
<1>2. ASSUME NEW d \in Device, Crash(d) PROVE crashes' \in Nat
  BY <1>2 DEF Crash
<1>3. QED
  BY <1>1, <1>2 DEF Next, vars

\* "The ratchets of the two ends never part": whatever the network repeats, delays
\* or loses, a device at rest can decrypt every ordinary message sent to it that it
\* has not decrypted, while no chain and no session has run into its limits, neither
\* device crashes, and the opener got a one-time pre-key.
THEOREM RatchetsStayInStep ==
  ASSUME OneAtATime, OneOpening, NoCrashes, Stocked
  PROVE  Spec => [](WithinLimits => MessagesStayDecryptable)
<1>1. Init => BuiltInOrder /\ Conversation /\ InStepSoFar /\ crashes \in Nat
  <2>1. Init => BuiltInOrder /\ crashes \in Nat
    BY DEF Init, BuiltInOrder, IsSeq
  <2>2. QED
    BY <2>1, ConversationStarts, StartsInStep DEF InStepSoFar
<1>2. /\ RecordsInOrder /\ BaseKeyBuildsOneSession' /\ BuiltInOrder /\ Conversation /\ InStepSoFar
      /\ crashes \in Nat /\ [Next]_vars
      => BuiltInOrder' /\ Conversation' /\ InStepSoFar' /\ (crashes \in Nat)'
  <2>1. SUFFICES ASSUME RecordsInOrder, BaseKeyBuildsOneSession', BuiltInOrder, Conversation, InStepSoFar,
                        crashes \in Nat, [Next]_vars
                 PROVE  BuiltInOrder' /\ Conversation' /\ InStepSoFar' /\ (crashes \in Nat)'
    OBVIOUS
  <2>2. BuiltInOrder' /\ Conversation' /\ crashes' \in Nat
    BY <2>1, BuiltGrows, ConversationGoesOn, CrashesCounted
  <2>3. WithinLimits' => WithinLimits
    BY <2>1, LimitsLast
  <2>4. WithinLimits' => InStep'
    BY <2>1, <2>3, StepsInStep DEF InStepSoFar
  <2>5. QED
    BY <2>2, <2>4 DEF InStepSoFar
<1>3. RecordsInOrder /\ Conversation /\ InStepSoFar => (WithinLimits => MessagesStayDecryptable)
  BY InStepDecrypts DEF InStepSoFar
<1>4. QED
  BY <1>1, <1>2, <1>3, RecordsStayInOrder, RetriesBuildNoSession, PTL DEF Spec
=============================================================================
