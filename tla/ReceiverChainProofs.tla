------------------------ MODULE ReceiverChainProofs ------------------------
(***************************************************************************)
(* Proofs about ReceiverChain, for every value of its constants.           *)
(***************************************************************************)
EXTENDS ReceiverChain, RatchetProofs

\* The keys banked by the catch-up loop are those of index .. counter - 1.
LEMMA SkippedKeysElements ==
  ASSUME TypeOK, NEW counter \in Nat, counter >= index
  PROVE  LET s == SkippedKeys(chain.chainKey, counter)
         IN  /\ s \in Seq(MessageKeysType)
             /\ Len(s) = counter - index
             /\ \A j \in 1 .. counter - index :
                  s[j] = [material |-> Key(seed, chain.chainKey.key.turns + (j - 1)),
                          index |-> index + (j - 1)]
<1> DEFINE e(j) == deriveMessageKeys(turnChainKey(chain.chainKey, j - 1))
           n    == counter - index
<1>1. n \in Nat /\ index \in Nat /\ chain.chainKey.key.turns \in Nat
      /\ chain.chainKey.key.seed = seed
  BY DEF TypeOK, index
<1>2. \A j \in 1 .. n :
        e(j) = [material |-> Key(seed, chain.chainKey.key.turns + (j - 1)),
                index |-> index + (j - 1)]
  BY <1>1 DEF deriveMessageKeys, turnChainKey, Key, index
<1>3. \A j \in 1 .. n : e(j) \in MessageKeysType
  <2> TAKE j \in 1 .. n
  <2>1. j - 1 \in Nat
    BY <1>1
  <2>2. Key(seed, chain.chainKey.key.turns + (j - 1)) \in [seed : {seed}, turns : Nat]
    BY <1>1, <2>1 DEF Key
  <2>3. index + (j - 1) \in Nat
    BY <1>1, <2>1
  <2> HIDE DEF e
  <2> QED BY <1>2, <2>2, <2>3 DEF MessageKeysType
<1>4. SkippedKeys(chain.chainKey, counter) = [j \in 1 .. n |-> e(j)]
  BY DEF SkippedKeys, index
<1> HIDE DEF e, n
<1>5. [j \in 1 .. n |-> e(j)] \in Seq(MessageKeysType) /\ Len([j \in 1 .. n |-> e(j)]) = n
  BY <1>1, <1>3
<1> QED BY <1>2, <1>4, <1>5 DEF n

----------------------------------------------------------------------------
(* What a request does, entry by entry: it takes the k-th stored key, or it *)
(* turns the chain up to the counter and drops the d oldest entries.        *)

KeysAt(c) == [material |-> Key(seed, c), index |-> c]

ChainTyped == chain' \in [ratchetKey : {ratchetKey},
                          chainKey : [key : [seed : {seed}, turns : Nat], index : Nat],
                          messageKeys : Seq(MessageKeysType)]

TakesEntry(counter, k) ==
  /\ k \in DOMAIN banked
  /\ banked[k].index = counter
  /\ chain'.chainKey = chain.chainKey
  /\ Len(banked') = Len(banked) - 1
  /\ \A j \in 1 .. Len(banked) - 1 :
       banked'[j] = IF j < k THEN banked[j] ELSE banked[j + 1]
  /\ handed' = Append(handed, [counter |-> counter, keys |-> banked[k]])

TurnsChain(counter, d) ==
  /\ counter >= index
  /\ counter - index <= MAX_SKIPPED_MESSAGE_KEYS
  /\ chain'.chainKey = [key |-> Key(seed, counter + 1), index |-> counter + 1]
  /\ d \in Nat
  /\ Len(banked') = Len(banked) + (counter - index) - d
  /\ Len(banked') <= MAX_STORED_MESSAGE_KEYS
  /\ d > 0 => Len(banked') = MAX_STORED_MESSAGE_KEYS
  /\ \A j \in 1 .. Len(banked') :
       banked'[j] = IF j + d <= Len(banked) THEN banked[j + d]
                    ELSE KeysAt(index + (j + d - Len(banked) - 1))
  /\ handed' = Append(handed, [counter |-> counter, keys |-> KeysAt(counter)])

LEMMA TakeStoredStep ==
  ASSUME TypeOK, NEW counter \in Counters, NEW k \in StoredAt(banked, counter),
         chain' = TakeStored(chain, k).chain,
         handed' = Append(handed, [counter |-> counter, keys |-> TakeStored(chain, k).keys])
  PROVE  ChainTyped /\ TakesEntry(counter, k)
<1>1. banked \in Seq(MessageKeysType) /\ k \in DOMAIN banked /\ banked[k].index = counter
  BY DEF TypeOK, StoredAt, banked
<1>2. /\ RemoveAt(banked, k) \in Seq(MessageKeysType)
      /\ Len(RemoveAt(banked, k)) = Len(banked) - 1
      /\ \A j \in 1 .. Len(banked) - 1 :
           RemoveAt(banked, k)[j] = IF j < k THEN banked[j] ELSE banked[j + 1]
  BY <1>1, RemoveAtElements
<1>3. chain' = [chain EXCEPT !.messageKeys = RemoveAt(banked, k)]
      /\ TakeStored(chain, k).keys = banked[k]
  BY DEF TakeStored, banked
<1>4. ChainTyped /\ chain'.chainKey = chain.chainKey /\ banked' = RemoveAt(banked, k)
  BY <1>2, <1>3 DEF ChainTyped, TypeOK, banked
<1> QED BY <1>1, <1>2, <1>3, <1>4 DEF TakesEntry

LEMMA DeriveStep ==
  ASSUME TypeOK, InStep, NEW counter \in Counters, InReach(chain, counter),
         chain' = DeriveUpTo(chain, counter).chain,
         handed' = Append(handed, [counter |-> counter,
                                   keys |-> DeriveUpTo(chain, counter).keys])
  PROVE  ChainTyped /\ \E d \in Nat : TurnsChain(counter, d)
<1> DEFINE skipped == SkippedKeys(chain.chainKey, counter)
           all     == banked \o skipped
           kept    == pruneMessageKeys(all)
           d       == Len(all) - Len(kept)
<1>1. /\ counter \in Nat /\ index \in Nat /\ counter >= index
      /\ counter - index <= MAX_SKIPPED_MESSAGE_KEYS
      /\ chain.chainKey.key.turns = index /\ chain.chainKey.key.seed = seed
      /\ banked \in Seq(MessageKeysType)
  BY CountersAssumption DEF TypeOK, InStep, InReach, index, banked
<1>2. /\ skipped \in Seq(MessageKeysType) /\ Len(skipped) = counter - index
      /\ \A j \in 1 .. counter - index : skipped[j] = KeysAt(index + (j - 1))
  BY <1>1, SkippedKeysElements DEF KeysAt
<1> HIDE DEF skipped
<1>3. /\ all \in Seq(MessageKeysType)
      /\ Len(all) = Len(banked) + (counter - index)
      /\ \A j \in 1 .. Len(banked) + (counter - index) :
           all[j] = IF j <= Len(banked) THEN banked[j] ELSE skipped[j - Len(banked)]
  <2>1. /\ banked \o skipped \in Seq(MessageKeysType)
        /\ Len(banked \o skipped) = Len(banked) + Len(skipped)
        /\ \A j \in 1 .. Len(banked) + Len(skipped) : (banked \o skipped)[j] =
             IF j <= Len(banked) THEN banked[j] ELSE skipped[j - Len(banked)]
    BY <1>1, <1>2, ConcatProperties
  <2> QED BY <1>2, <2>1
<1> HIDE DEF all
<1>4. /\ kept \in Seq(MessageKeysType)
      /\ Len(kept) <= MAX_STORED_MESSAGE_KEYS
      /\ Len(kept) <= Len(all)
      /\ Len(kept) < Len(all) => Len(kept) = MAX_STORED_MESSAGE_KEYS
      /\ \A j \in 1 .. Len(kept) : kept[j] = all[j + (Len(all) - Len(kept))]
  BY <1>3, PruneElements
<1> HIDE DEF kept
<1>5. Len(kept) \in Nat /\ Len(all) \in Nat /\ Len(banked) \in Nat
  BY <1>1, <1>3, <1>4, LenProperties
<1>6. \A j \in 1 .. Len(kept) :
        kept[j] = IF j + d <= Len(banked) THEN banked[j + d]
                  ELSE KeysAt(index + (j + d - Len(banked) - 1))
  <2> TAKE j \in 1 .. Len(kept)
  <2>1. kept[j] = all[j + d] /\ j + d \in 1 .. Len(banked) + (counter - index)
    BY <1>3, <1>4, <1>5
  <2>2. CASE j + d <= Len(banked)
    BY <1>3, <2>1, <2>2
  <2>3. CASE ~(j + d <= Len(banked))
    <3>1. j + d - Len(banked) \in 1 .. counter - index
      BY <1>1, <1>5, <2>1, <2>3
    <3>2. kept[j] = skipped[j + d - Len(banked)]
      BY <1>3, <2>1, <2>3
    <3> QED BY <1>2, <2>3, <3>1, <3>2
  <2> QED BY <2>2, <2>3
<1>7. /\ DeriveUpTo(chain, counter).chain =
           [chain EXCEPT !.chainKey = [key |-> Key(seed, counter + 1), index |-> counter + 1],
                         !.messageKeys = kept]
      /\ DeriveUpTo(chain, counter).keys = KeysAt(counter)
  <2>1. turnChainKey(chain.chainKey, counter - chain.chainKey.index)
          = [key |-> Key(seed, counter), index |-> counter]
    BY <1>1 DEF turnChainKey, Key, index
  <2>2. nextChainKey([key |-> Key(seed, counter), index |-> counter])
          = [key |-> Key(seed, counter + 1), index |-> counter + 1]
    BY DEF nextChainKey, turnChainKey, Key
  <2>3. deriveMessageKeys([key |-> Key(seed, counter), index |-> counter]) = KeysAt(counter)
    BY DEF deriveMessageKeys, KeysAt
  <2> QED BY <2>1, <2>2, <2>3 DEF DeriveUpTo, banked, kept, all, skipped
<1>8. Key(seed, counter + 1) \in [seed : {seed}, turns : Nat] /\ counter + 1 \in Nat
  BY <1>1 DEF Key
<1>9. /\ ChainTyped /\ banked' = kept
      /\ chain'.chainKey = [key |-> Key(seed, counter + 1), index |-> counter + 1]
  <2> DEFINE reached == [key |-> Key(seed, counter + 1), index |-> counter + 1]
  <2>1. reached \in [key : [seed : {seed}, turns : Nat], index : Nat]
    BY <1>8
  <2> HIDE DEF reached, d
  <2>2. chain' = [chain EXCEPT !.chainKey = reached, !.messageKeys = kept]
    BY <1>7 DEF reached
  <2>3. ChainTyped /\ chain'.messageKeys = kept /\ chain'.chainKey = reached
    BY <1>4, <2>1, <2>2 DEF ChainTyped, TypeOK
  <2> QED BY <2>3 DEF reached, banked
<1>10. d \in Nat
  BY <1>4, <1>5
<1>11. /\ Len(kept) = Len(banked) + (counter - index) - d
       /\ d > 0 => Len(kept) = MAX_STORED_MESSAGE_KEYS
  <2>1. Len(all) = Len(banked) + (counter - index)
    BY <1>3
  <2>2. Len(kept) < Len(all) => Len(kept) = MAX_STORED_MESSAGE_KEYS
    BY <1>4
  <2> QED BY <1>1, <1>5, <2>1, <2>2
<1> HIDE DEF d
<1>12. TurnsChain(counter, d)
  BY <1>1, <1>4, <1>6, <1>7, <1>9, <1>10, <1>11 DEF TurnsChain
<1> QED BY <1>9, <1>10, <1>12

----------------------------------------------------------------------------
(* The inductive invariant: one lemma per conjunct a request can disturb.   *)

\* Every request is one of the two steps above.
LEMMA RequestStep ==
  ASSUME TypeOK, InStep, NEW counter \in Counters, Request(counter)
  PROVE  /\ ChainTyped
         /\ \/ \E k \in DOMAIN banked : TakesEntry(counter, k)
            \/ \E d \in Nat : TurnsChain(counter, d)
<1>1. PICK outcome \in messageKeysForCounter(chain, counter) :
        /\ chain' = outcome.chain
        /\ handed' = Append(handed, [counter |-> counter, keys |-> outcome.keys])
  BY DEF Request
<1>2. CASE StoredAt(banked, counter) # {}
  <2>1. PICK k \in StoredAt(banked, counter) : outcome = TakeStored(chain, k)
    BY <1>1, <1>2 DEF messageKeysForCounter, banked
  <2>2. ChainTyped /\ TakesEntry(counter, k)
    BY <1>1, <2>1, TakeStoredStep
  <2> QED BY <2>2 DEF TakesEntry
<1>3. CASE StoredAt(banked, counter) = {}
  <2>1. InReach(chain, counter) /\ outcome = DeriveUpTo(chain, counter)
    BY <1>1, <1>3 DEF messageKeysForCounter, banked
  <2> QED BY <1>1, <2>1, DeriveStep
<1> QED BY <1>2, <1>3

\* The facts about lengths and positions that the arithmetic below needs.
LEMMA Positions ==
  ASSUME TypeOK
  PROVE  /\ index \in Nat /\ Len(banked) \in Nat /\ DOMAIN banked = 1 .. Len(banked)
         /\ \A i \in DOMAIN banked : banked[i].index \in Nat
         /\ \A i \in DOMAIN banked : banked[i] \in MessageKeysType
         /\ Len(handed) \in Nat /\ DOMAIN handed = 1 .. Len(handed)
         /\ \A n \in DOMAIN handed : handed[n].counter \in Nat
<1>1. banked \in Seq(MessageKeysType) /\ index \in Nat
  BY DEF TypeOK, banked, index
<1>2. \A i \in DOMAIN banked : banked[i] \in MessageKeysType
  BY <1>1, ElementOfSeq
<1>3. handed \in Seq(HandedType)
  BY DEF TypeOK
<1>4. \A n \in DOMAIN handed : handed[n] \in HandedType
  BY <1>3, ElementOfSeq
<1> QED BY <1>1, <1>2, <1>3, <1>4, LenProperties, CountersAssumption
        DEF MessageKeysType, HandedType

\* A request appends one entry to the log.
LEMMA LogGrows ==
  ASSUME handed \in Seq(HandedType), NEW entry \in HandedType, handed' = Append(handed, entry)
  PROVE  /\ handed' \in Seq(HandedType)
         /\ DOMAIN handed' = 1 .. Len(handed) + 1
         /\ \A n \in 1 .. Len(handed) : handed'[n] = handed[n]
         /\ handed'[Len(handed) + 1] = entry
<1>1. Len(handed) \in Nat
  BY LenProperties
<1> QED BY <1>1, AppendProperties, LenProperties

\* A symbolic key determines the number of turns that produced it.
LEMMA KeyInjective == \A s, m, n : m # n => Key(s, m) # Key(s, n)
<1> SUFFICES ASSUME NEW s, NEW m, NEW n, Key(s, m) = Key(s, n) PROVE m = n
  OBVIOUS
<1>1. Key(s, m).turns = m /\ Key(s, n).turns = n
  BY DEF Key
<1> QED BY <1>1

LEMMA TakesEntryPreserves ==
  ASSUME IInv, NEW counter \in Counters, NEW k \in DOMAIN banked,
         ChainTyped, TakesEntry(counter, k)
  PROVE  IInv'
<1> USE DEF IInv
<1> DEFINE L == Len(banked)
           shift(j) == IF j < k THEN j ELSE j + 1
<1>1. /\ index \in Nat /\ L \in Nat /\ DOMAIN banked = 1 .. L /\ k \in 1 .. L
      /\ \A i \in 1 .. L : banked[i].index \in Nat /\ banked[i] \in MessageKeysType
      /\ Len(handed) \in Nat /\ DOMAIN handed = 1 .. Len(handed)
      /\ \A n \in 1 .. Len(handed) : handed[n].counter \in Nat
  BY Positions
<1>2. index' = index /\ chain'.chainKey = chain.chainKey
  BY DEF TakesEntry, index
<1>3. DOMAIN banked' = 1 .. L - 1 /\ Len(banked') = L - 1
  BY <1>1, LenProperties DEF TakesEntry, ChainTyped, banked
<1>4. \A j \in 1 .. L - 1 : shift(j) \in 1 .. L /\ shift(j) # k /\ banked'[j] = banked[shift(j)]
  BY <1>1 DEF TakesEntry
<1>5. \A i, j \in 1 .. L - 1 : i <= j => shift(i) <= shift(j) /\ shift(j) - shift(i) >= j - i
  BY <1>1
<1> DEFINE entry == [counter |-> counter, keys |-> banked[k]]
<1>6. /\ entry \in HandedType /\ entry.counter = counter /\ entry.keys = banked[k]
      /\ handed' = Append(handed, entry) /\ banked[k].index = counter
  BY <1>1 DEF TakesEntry, HandedType
<1> HIDE DEF shift, L, entry
<1>7. /\ handed' \in Seq(HandedType)
      /\ DOMAIN handed' = 1 .. Len(handed) + 1
      /\ \A n \in 1 .. Len(handed) : handed'[n] = handed[n]
      /\ handed'[Len(handed) + 1] = entry
  BY <1>6, LogGrows DEF TypeOK
<1>8. \A i, j \in 1 .. L : i # j => banked[i].index # banked[j].index
  <2> TAKE i, j \in 1 .. L
  <2>1. i <= j => banked[j].index - banked[i].index >= j - i
    BY <1>1 DEF StoreAscending
  <2>2. j <= i => banked[i].index - banked[j].index >= i - j
    BY <1>1 DEF StoreAscending
  <2>3. banked[i].index \in Int /\ banked[j].index \in Int
    BY <1>1
  <2> QED BY <2>1, <2>2, <2>3
<1>9. banked[k].material = Key(seed, counter)
  <2>1. banked[k].material.turns = counter /\ banked[k].material \in [seed : {seed}, turns : Nat]
    BY <1>1, <1>6 DEF InStep, MessageKeysType
  <2> QED BY <2>1 DEF Key
<1>10. TypeOK'
  BY <1>7 DEF TypeOK, ChainTyped
<1>11. InStep'
  BY <1>1, <1>2, <1>3, <1>4 DEF InStep, index
<1>12. StoreAscending'
  <2>1. ASSUME NEW i \in 1 .. L - 1, NEW j \in 1 .. L - 1, i <= j
        PROVE  banked'[j].index - banked'[i].index >= j - i
    <3>1. banked[shift(j)].index - banked[shift(i)].index >= shift(j) - shift(i)
      BY <1>1, <1>4, <1>5, <2>1 DEF StoreAscending
    <3>2. shift(j) \in Int /\ shift(i) \in Int
      BY <1>1, <1>4
    <3> QED BY <1>1, <1>4, <1>5, <2>1, <3>1, <3>2
  <2>2. \A i \in 1 .. L - 1 : banked'[i].index < index'
    BY <1>1, <1>2, <1>4 DEF StoreAscending
  <2> QED BY <1>3, <2>1, <2>2 DEF StoreAscending
<1>13. HandedIsSpent'
  <2>1. ASSUME NEW n \in 1 .. Len(handed) + 1
        PROVE  /\ handed'[n].counter < index
               /\ \A i \in 1 .. L - 1 : banked'[i].index # handed'[n].counter
    <3>1. CASE n \in 1 .. Len(handed)
      BY <1>1, <1>4, <1>7, <3>1 DEF HandedIsSpent
    <3>2. CASE n = Len(handed) + 1
      BY <1>1, <1>4, <1>6, <1>7, <1>8, <3>2 DEF StoreAscending
    <3> QED BY <1>1, <3>1, <3>2
  <2> QED BY <1>2, <1>3, <1>7, <2>1 DEF HandedIsSpent
<1>14. RightKeyForCounter'
  BY <1>1, <1>6, <1>7, <1>9 DEF RightKeyForCounter
<1>15. EachKeyHandedOutOnce'
  <2>1. \A n \in 1 .. Len(handed) : handed[n].keys.material # Key(seed, counter)
    <3> TAKE n \in 1 .. Len(handed)
    <3>1. handed[n].counter # counter /\ handed[n].keys.material = Key(seed, handed[n].counter)
      BY <1>1, <1>6 DEF HandedIsSpent, RightKeyForCounter
    <3> QED BY <3>1, KeyInjective
  <2> QED BY <1>1, <1>6, <1>7, <1>9, <2>1 DEF EachKeyHandedOutOnce
<1>16. StoreBounded'
  BY <1>1, <1>3, LimitsAssumption DEF StoreBounded, L
<1>17. RecentKeysKept'
  <2>1. ASSUME NEW c \in 0 .. index - 1, index - 1 - c <= MAX_STORED_MESSAGE_KEYS
        PROVE  \/ \E i \in 1 .. L - 1 : banked'[i].index = c
               \/ \E n \in 1 .. Len(handed) + 1 : handed'[n].counter = c
    <3>1. CASE \E n \in DOMAIN handed : handed[n].counter = c
      BY <1>1, <1>7, <3>1
    <3>2. CASE \E i \in DOMAIN banked : banked[i].index = c
      <4>1. PICK i \in 1 .. L : banked[i].index = c
        BY <1>1, <3>2
      <4>2. CASE i = k
        <5>1. Len(handed) + 1 \in 1 .. Len(handed) + 1 /\ handed'[Len(handed) + 1].counter = c
          BY <1>1, <1>6, <1>7, <4>1, <4>2
        <5> QED BY <5>1
      <4>3. CASE i < k
        <5>1. i \in 1 .. L - 1 /\ shift(i) = i
          BY <1>1, <4>3 DEF shift
        <5> QED BY <1>4, <4>1, <5>1
      <4>4. CASE i > k
        <5>1. i - 1 \in 1 .. L - 1 /\ shift(i - 1) = i
          BY <1>1, <4>4 DEF shift
        <5> QED BY <1>4, <4>1, <5>1
      <4> QED BY <1>1, <4>2, <4>3, <4>4
    <3> QED BY <2>1, <3>1, <3>2 DEF RecentKeysKept
  <2> QED BY <1>2, <1>3, <1>7, <2>1 DEF RecentKeysKept
<1> QED BY <1>10, <1>11, <1>12, <1>13, <1>14, <1>15, <1>16, <1>17

LEMMA TurnsChainPreserves ==
  ASSUME IInv, NEW counter \in Counters, NEW d \in Nat, ChainTyped, TurnsChain(counter, d)
  PROVE  IInv'
<1> DEFINE L == Len(banked)
           M == Len(banked')
           unpruned(j) == IF j <= L THEN banked[j] ELSE KeysAt(index + (j - L - 1))
<1>1. /\ index \in Nat /\ L \in Nat /\ DOMAIN banked = 1 .. L /\ counter \in Nat
      /\ \A i \in 1 .. L : banked[i].index \in Nat /\ banked[i].index < index
      /\ Len(handed) \in Nat /\ DOMAIN handed = 1 .. Len(handed)
      /\ \A n \in 1 .. Len(handed) : handed[n].counter \in Nat
  BY Positions, CountersAssumption DEF IInv, StoreAscending
<1>2. /\ index' = counter + 1 /\ chain'.chainKey.key = Key(seed, counter + 1)
      /\ counter >= index
  BY DEF TurnsChain, index
<1>3. DOMAIN banked' = 1 .. M /\ M \in Nat /\ M + d = L + (counter - index)
  BY <1>1, LenProperties DEF TurnsChain, ChainTyped, banked
<1>4. M <= MAX_STORED_MESSAGE_KEYS /\ (d > 0 => M = MAX_STORED_MESSAGE_KEYS)
  BY DEF TurnsChain
<1>5. \A j \in 1 .. M : banked'[j] = unpruned(j + d) /\ j + d \in 1 .. M + d
  BY <1>3 DEF TurnsChain
<1>6. \A j \in 1 .. M + d : unpruned(j).index \in Nat /\ unpruned(j).index <= counter - 1
  BY <1>1, <1>2, <1>3 DEF KeysAt
<1>7. \A j \in 1 .. M + d : unpruned(j).material.turns = unpruned(j).index
  BY <1>1 DEF KeysAt, Key, IInv, InStep
<1>8. \A i, j \in 1 .. M + d : i <= j => unpruned(j).index - unpruned(i).index >= j - i
  <2> SUFFICES ASSUME NEW i \in 1 .. M + d, NEW j \in 1 .. M + d, i <= j
               PROVE  unpruned(j).index - unpruned(i).index >= j - i
    OBVIOUS
  <2>1. \A x, y \in 1 .. L : x <= y => banked[y].index - banked[x].index >= y - x
    BY <1>1 DEF IInv, StoreAscending
  <2>2. CASE j <= L
    <3>1. i \in 1 .. L /\ j \in 1 .. L /\ unpruned(i) = banked[i] /\ unpruned(j) = banked[j]
      BY <1>1, <2>2
    <3> QED BY <2>1, <3>1
  <2>3. CASE i > L
    BY <1>1, <1>3, <2>3 DEF KeysAt
  <2>4. CASE i <= L /\ j > L
    <3>2. i \in 1 .. L /\ L \in 1 .. L
      BY <1>1, <2>4
    <3> DEFINE last == banked[L].index
               here == banked[i].index
    <3>3. last - here >= L - i /\ last < index /\ last \in Nat /\ here \in Nat
      BY <1>1, <2>1, <3>2
    <3>4. unpruned(j).index = index + (j - L - 1) /\ unpruned(i).index = here
      BY <1>1, <1>3, <2>4 DEF KeysAt
    <3> DEFINE there == unpruned(j).index
    <3> HIDE DEF L, M, last, here, there
    <3>5. there = index + (j - L - 1)
      BY <3>4 DEF there
    <3>6. there - here >= j - i
      BY <1>1, <1>3, <3>3, <3>5
    <3> QED BY <3>4, <3>6 DEF there
  <2> QED BY <1>1, <1>3, <2>2, <2>3, <2>4
<1> DEFINE entry == [counter |-> counter, keys |-> KeysAt(counter)]
<1>9. entry \in HandedType
  BY <1>1 DEF HandedType, MessageKeysType, KeysAt, Key
<1>10. entry.counter = counter /\ entry.keys = KeysAt(counter) /\ handed' = Append(handed, entry)
  BY DEF TurnsChain
<1> HIDE DEF unpruned, L, M, entry
<1>11. /\ handed' \in Seq(HandedType)
       /\ DOMAIN handed' = 1 .. Len(handed) + 1
       /\ \A n \in 1 .. Len(handed) : handed'[n] = handed[n]
       /\ handed'[Len(handed) + 1] = entry
  BY <1>9, <1>10, LogGrows DEF IInv, TypeOK
<1>12. TypeOK'
  BY <1>11 DEF TypeOK, ChainTyped
<1>13. InStep'
  <2>1. chain'.chainKey.key.turns = index'
    BY <1>2 DEF Key
  <2>2. \A j \in 1 .. M : banked'[j].material.turns = banked'[j].index
    BY <1>5, <1>7
  <2> QED BY <1>3, <2>1, <2>2 DEF InStep
<1>14. StoreAscending'
  <2>1. ASSUME NEW i \in 1 .. M, NEW j \in 1 .. M, i <= j
        PROVE  banked'[j].index - banked'[i].index >= j - i
    <3>1. unpruned(j + d).index - unpruned(i + d).index >= (j + d) - (i + d)
      BY <1>3, <1>5, <1>8, <2>1
    <3> QED BY <1>3, <1>5, <3>1
  <2>2. \A i \in 1 .. M : banked'[i].index < index'
    BY <1>1, <1>2, <1>5, <1>6
  <2> QED BY <1>3, <2>1, <2>2 DEF StoreAscending
<1>15. HandedIsSpent'
  <2>1. ASSUME NEW n \in 1 .. Len(handed) + 1
        PROVE  /\ handed'[n].counter < counter + 1
               /\ \A i \in 1 .. M : banked'[i].index # handed'[n].counter
    <3>1. CASE n = Len(handed) + 1
      BY <1>1, <1>5, <1>6, <1>10, <1>11, <3>1
    <3>2. CASE n \in 1 .. Len(handed)
      <4>1. handed'[n].counter < index /\ handed'[n].counter \in Nat
        BY <1>1, <1>11, <3>2 DEF IInv, HandedIsSpent
      <4>2. \A i \in 1 .. L : banked[i].index # handed'[n].counter
        BY <1>1, <1>11, <3>2 DEF IInv, HandedIsSpent
      <4>3. \A j \in 1 .. M + d : unpruned(j).index # handed'[n].counter
        BY <1>1, <1>3, <4>1, <4>2 DEF unpruned, KeysAt
      <4> QED BY <1>1, <1>2, <1>5, <4>1, <4>3
    <3> QED BY <1>1, <3>1, <3>2
  <2> QED BY <1>2, <1>3, <1>11, <2>1 DEF HandedIsSpent
<1>16. RightKeyForCounter'
  BY <1>1, <1>10, <1>11 DEF IInv, RightKeyForCounter, KeysAt
<1>17. EachKeyHandedOutOnce'
  <2>1. ASSUME NEW n \in 1 .. Len(handed)
        PROVE  handed[n].keys.material # Key(seed, counter)
    <3>1. handed[n].counter # counter /\ handed[n].keys.material = Key(seed, handed[n].counter)
      BY <1>1, <1>2 DEF IInv, HandedIsSpent, RightKeyForCounter
    <3> QED BY <3>1, KeyInjective
  <2>2. entry.keys.material = Key(seed, counter)
    BY <1>10 DEF KeysAt
  <2> QED BY <1>1, <1>11, <2>1, <2>2 DEF IInv, EachKeyHandedOutOnce
<1>18. StoreBounded'
  BY <1>4 DEF StoreBounded, M
<1>19. RecentKeysKept'
  <2>1. ASSUME NEW c \in 0 .. counter, counter - c <= MAX_STORED_MESSAGE_KEYS
        PROVE  \/ \E i \in 1 .. M : banked'[i].index = c
               \/ \E n \in 1 .. Len(handed) + 1 : handed'[n].counter = c
    <3>1. CASE \E n \in DOMAIN handed : handed[n].counter = c
      BY <1>1, <1>11, <3>1
    <3>2. CASE c = counter
      <4>1. Len(handed) + 1 \in 1 .. Len(handed) + 1 /\ handed'[Len(handed) + 1].counter = c
        BY <1>1, <1>10, <1>11, <3>2
      <4> QED BY <4>1
    <3>3. CASE \E j \in 1 .. M + d : unpruned(j).index = c
      <4>1. PICK j \in 1 .. M + d : unpruned(j).index = c
        BY <3>3
      <4>2. j > d
        <5>1. SUFFICES ASSUME j <= d PROVE FALSE
          BY <1>3
        <5>2. M = MAX_STORED_MESSAGE_KEYS /\ M + d \in 1 .. M + d
          BY <1>3, <1>4, <4>1, <5>1
        <5>3. unpruned(M + d).index - c >= M + d - j /\ unpruned(M + d).index <= counter - 1
          BY <1>3, <1>6, <1>8, <4>1, <5>1, <5>2
        <5>4. unpruned(M + d).index \in Nat
          BY <1>6, <5>2
        <5> QED BY <1>1, <1>3, <2>1, <5>1, <5>2, <5>3, <5>4
      <4>3. j - d \in 1 .. M /\ (j - d) + d = j
        BY <1>3, <4>2
      <4>4. banked'[j - d] = unpruned(j)
        BY <1>5, <4>3
      <4> QED BY <4>1, <4>3, <4>4
    <3>4. CASE c \in index .. counter - 1
      <4>1. L + (c - index) + 1 \in 1 .. M + d
        BY <1>1, <1>2, <1>3, <3>4
      <4>2. unpruned(L + (c - index) + 1).index = c
        BY <1>1, <3>4 DEF unpruned, KeysAt
      <4> QED BY <3>3, <4>1, <4>2
    <3>5. CASE \E i \in DOMAIN banked : banked[i].index = c
      <4>1. PICK i \in 1 .. L : banked[i].index = c
        BY <1>1, <3>5
      <4>2. i \in 1 .. M + d /\ unpruned(i) = banked[i]
        BY <1>1, <1>2, <1>3 DEF unpruned
      <4> QED BY <3>3, <4>1, <4>2
    <3>6. CASE c \in 0 .. index - 1
      <4>1. index - 1 - c <= MAX_STORED_MESSAGE_KEYS
        BY <1>1, <1>2, <2>1, <3>6, LimitsAssumption
      <4> QED BY <3>1, <3>5, <3>6, <4>1 DEF IInv, RecentKeysKept
    <3> QED BY <1>1, <1>2, <2>1, <3>2, <3>4, <3>6
  <2>2. index' - 1 = counter
    BY <1>1, <1>2
  <2> QED BY <1>3, <1>11, <2>1, <2>2 DEF RecentKeysKept
<1> QED BY <1>12, <1>13, <1>14, <1>15, <1>16, <1>17, <1>18, <1>19 DEF IInv

----------------------------------------------------------------------------
LEMMA InitIInv == Init => IInv
<1> SUFFICES ASSUME Init PROVE IInv
  OBVIOUS
<1>1. /\ chain = [ratchetKey |-> ratchetKey,
                  chainKey |-> [key |-> Key(seed, 0), index |-> 0], messageKeys |-> << >>]
      /\ handed = << >> /\ banked = << >> /\ index = 0
  BY DEF Init, newChain, banked, index
<1>2. TypeOK
  <2>1. [key |-> Key(seed, 0), index |-> 0] \in [key : [seed : {seed}, turns : Nat], index : Nat]
    BY DEF Key
  <2> QED BY <1>1, <2>1 DEF TypeOK
<1>3. InStep
  BY <1>1 DEF InStep, Key
<1> QED BY <1>1, <1>2, <1>3, LimitsAssumption
        DEF IInv, StoreAscending, HandedIsSpent, RightKeyForCounter, EachKeyHandedOutOnce,
            StoreBounded, RecentKeysKept

LEMMA NextIInv == IInv /\ [Next]_vars => IInv'
<1> SUFFICES ASSUME IInv, [Next]_vars PROVE IInv'
  OBVIOUS
<1>1. CASE Next
  <2>1. PICK counter \in Counters : Request(counter)
    BY <1>1 DEF Next
  <2>2. TypeOK /\ InStep
    BY DEF IInv
  <2>3. ChainTyped
    BY <2>1, <2>2, RequestStep
  <2>4. CASE \E k \in DOMAIN banked : TakesEntry(counter, k)
    BY <2>3, <2>4, TakesEntryPreserves
  <2>5. CASE \E d \in Nat : TurnsChain(counter, d)
    BY <2>3, <2>5, TurnsChainPreserves
  <2> QED BY <2>1, <2>2, <2>4, <2>5, RequestStep
<1>2. CASE UNCHANGED vars
  BY <1>2 DEF vars, IInv, TypeOK, InStep, StoreAscending, HandedIsSpent, RightKeyForCounter,
              EachKeyHandedOutOnce, StoreBounded, RecentKeysKept, banked, index
<1> QED BY <1>1, <1>2

\* The inductive invariant of a receiving chain.
THEOREM Invariance == Spec => []IInv
BY InitIInv, NextIInv, PTL DEF Spec

\* The state of a chain has its type.
THEOREM TypeCorrect == Spec => []TypeOK
<1>1. IInv => TypeOK
  BY DEF IInv
<1> QED BY <1>1, Invariance, PTL

\* Whatever counters a peer claims, no message key is handed out twice.
THEOREM KeysUsedOnce == Spec => []EachKeyHandedOutOnce
<1>1. IInv => EachKeyHandedOutOnce
  BY DEF IInv
<1> QED BY <1>1, Invariance, PTL

\* The key handed out for a counter is the one the sender derived for it.
THEOREM KeysAgree == Spec => []RightKeyForCounter
<1>1. IInv => RightKeyForCounter
  BY DEF IInv
<1> QED BY <1>1, Invariance, PTL

\* The store of skipped keys never outgrows its limit.
THEOREM StoreLimited == Spec => []StoreBounded
<1>1. IInv => StoreBounded
  BY DEF IInv
<1> QED BY <1>1, Invariance, PTL

\* Only keys more than MAX_STORED_MESSAGE_KEYS behind are ever dropped.
THEOREM RecentMessagesDecrypt == Spec => []RecentKeysKept
<1>1. IInv => RecentKeysKept
  BY DEF IInv
<1> QED BY <1>1, Invariance, PTL

\* No counter a peer claims costs more than the limit of derivations.
THEOREM BoundedWork == Spec => WorkPerMessageBounded
<1>1. IInv /\ [Next]_vars =>
        [chain'.chainKey.index - index <= MAX_SKIPPED_MESSAGE_KEYS + 1]_vars
  <2> SUFFICES ASSUME IInv, Next
               PROVE  chain'.chainKey.index - index <= MAX_SKIPPED_MESSAGE_KEYS + 1
    BY DEF vars
  <2>1. PICK counter \in Counters : Request(counter)
    BY DEF Next
  <2>2. index \in Nat /\ counter \in Nat
    BY CountersAssumption, Positions DEF IInv
  <2>3. CASE \E k \in DOMAIN banked : TakesEntry(counter, k)
    BY <2>2, <2>3, LimitsAssumption DEF TakesEntry, index
  <2>4. CASE \E d \in Nat : TurnsChain(counter, d)
    BY <2>2, <2>4, LimitsAssumption DEF TurnsChain
  <2> QED BY <2>1, <2>3, <2>4, RequestStep DEF IInv
<1> QED BY <1>1, Invariance, PTL DEF Spec, WorkPerMessageBounded
=============================================================================
