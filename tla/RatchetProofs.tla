--------------------------- MODULE RatchetProofs ---------------------------
(***************************************************************************)
(* Lemmas about the operators of Ratchet, for any chain and any limits:    *)
(* what a request for a counter leaves, and what it can no longer give.    *)
(***************************************************************************)
EXTENDS Ratchet, SequenceTheorems, TLAPS

\* Deleting one entry of a sequence keeps the others, in order.
LEMMA RemoveAtElements ==
  ASSUME NEW S, NEW s \in Seq(S), NEW k \in DOMAIN s
  PROVE  /\ RemoveAt(s, k) \in Seq(S)
         /\ Len(RemoveAt(s, k)) = Len(s) - 1
         /\ \A j \in 1 .. Len(s) - 1 :
              RemoveAt(s, k)[j] = IF j < k THEN s[j] ELSE s[j + 1]
<1> DEFINE front == SubSeq(s, 1, k - 1)
           back  == SubSeq(s, k + 1, Len(s))
<1>1. Len(s) \in Nat /\ k \in 1 .. Len(s) /\ \A i \in 1 .. Len(s) : s[i] \in S
  BY ElementOfSeq, LenProperties
<1>2. /\ front \in Seq(S) /\ Len(front) = k - 1
      /\ \A j \in 1 .. k - 1 : front[j] = s[j]
  <2>1. \A i \in 1 .. k - 1 : s[i] \in S
    BY <1>1
  <2> HIDE DEF front
  <2> QED BY <1>1, <2>1, SubSeqProperties DEF front
<1>3. /\ back \in Seq(S) /\ Len(back) = Len(s) - k
      /\ \A j \in 1 .. Len(s) - k : back[j] = s[k + j]
  <2>1. \A i \in k + 1 .. Len(s) : s[i] \in S
    BY <1>1
  <2> QED BY <1>1, <2>1, SubSeqProperties
<1> HIDE DEF front, back
<1>4. /\ front \o back \in Seq(S) /\ Len(front \o back) = Len(s) - 1
      /\ \A j \in 1 .. Len(s) - 1 : (front \o back)[j] =
            IF j <= k - 1 THEN front[j] ELSE back[j - (k - 1)]
  BY <1>1, <1>2, <1>3, ConcatProperties
<1>5. \A j \in 1 .. Len(s) - 1 : (front \o back)[j] = IF j < k THEN s[j] ELSE s[j + 1]
  <2> TAKE j \in 1 .. Len(s) - 1
  <2>1. CASE j < k
    BY <1>1, <1>2, <1>4, <2>1
  <2>2. CASE ~(j < k)
    <3>1. j - (k - 1) \in 1 .. Len(s) - k /\ ~(j <= k - 1) /\ k + (j - (k - 1)) = j + 1
      BY <1>1, <2>2
    <3>2. (front \o back)[j] = back[j - (k - 1)]
      BY <1>4, <3>1
    <3> QED BY <1>3, <2>2, <3>1, <3>2
  <2> QED BY <2>1, <2>2
<1>6. RemoveAt(s, k) = front \o back
  BY DEF RemoveAt, front, back
<1> QED BY <1>4, <1>5, <1>6

\* Pruning keeps a suffix of the store, of at most the limit.
LEMMA PruneElements ==
  ASSUME NEW S, NEW s \in Seq(S)
  PROVE  LET t == pruneMessageKeys(s)
         IN  /\ t \in Seq(S)
             /\ Len(t) <= MAX_STORED_MESSAGE_KEYS
             /\ Len(t) <= Len(s)
             /\ Len(t) < Len(s) => Len(t) = MAX_STORED_MESSAGE_KEYS
             /\ \A j \in 1 .. Len(t) : t[j] = s[j + (Len(s) - Len(t))]
<1>1. MAX_STORED_MESSAGE_KEYS \in Nat /\ Len(s) \in Nat /\ \A i \in 1 .. Len(s) : s[i] \in S
  BY LimitsAssumption, ElementOfSeq, LenProperties
<1>2. CASE Len(s) - MAX_STORED_MESSAGE_KEYS <= 0
  BY <1>1, <1>2 DEF pruneMessageKeys
<1>3. CASE ~(Len(s) - MAX_STORED_MESSAGE_KEYS <= 0)
  <2> DEFINE m == Len(s) - MAX_STORED_MESSAGE_KEYS + 1
  <2>1. m \in Int /\ \A i \in m .. Len(s) : s[i] \in S
    BY <1>1, <1>3
  <2>2. pruneMessageKeys(s) = SubSeq(s, m, Len(s))
    BY <1>3 DEF pruneMessageKeys
  <2> HIDE DEF m
  <2>3. /\ SubSeq(s, m, Len(s)) \in Seq(S)
        /\ Len(SubSeq(s, m, Len(s))) = IF m <= Len(s) THEN Len(s) - m + 1 ELSE 0
        /\ \A i \in 1 .. Len(s) - m + 1 : SubSeq(s, m, Len(s))[i] = s[m + i - 1]
    BY <1>1, <2>1, SubSeqProperties
  <2>4. Len(s) - m + 1 = MAX_STORED_MESSAGE_KEYS /\ m <= Len(s) + 1
    BY <1>1, <1>3 DEF m
  <2>5. Len(SubSeq(s, m, Len(s))) = MAX_STORED_MESSAGE_KEYS
    BY <1>1, <2>1, <2>3, <2>4
  <2>6. Len(s) - MAX_STORED_MESSAGE_KEYS = m - 1 /\ MAX_STORED_MESSAGE_KEYS <= Len(s)
    BY <1>1, <1>3 DEF m
  <2>7. \A j \in 1 .. MAX_STORED_MESSAGE_KEYS :
          /\ SubSeq(s, m, Len(s))[j] = s[m + j - 1]
          /\ m + j - 1 = j + (Len(s) - MAX_STORED_MESSAGE_KEYS)
    BY <1>1, <2>1, <2>3, <2>4, <2>6
  <2> DEFINE t == SubSeq(s, m, Len(s))
  <2> HIDE DEF t
  <2>8. /\ t \in Seq(S) /\ Len(t) = MAX_STORED_MESSAGE_KEYS
        /\ \A j \in 1 .. Len(t) : t[j] = s[j + (Len(s) - Len(t))]
    BY <2>3, <2>5, <2>7 DEF t
  <2>9. pruneMessageKeys(s) = t
    BY <2>2 DEF t
  <2> QED BY <2>6, <2>8, <2>9
<1> QED BY <1>2, <1>3

----------------------------------------------------------------------------
(* A chain in order: turns and index in step, in the chain key and in every *)
(* stored key, and the store ascending and behind the chain.                *)

IsSeq(s) == Len(s) \in Nat /\ s = [i \in 1 .. Len(s) |-> s[i]]

KeysOf(seed, n) == [material |-> Key(seed, n), index |-> n]

Ascending(keys, seed, limit) ==
  /\ IsSeq(keys)
  /\ \A i \in 1 .. Len(keys) : /\ keys[i].index \in Nat /\ keys[i].index < limit
                               /\ keys[i] = KeysOf(seed, keys[i].index)
  /\ \A i, j \in 1 .. Len(keys) : i < j => keys[i].index < keys[j].index

SeedOf(chain) == chain.chainKey.key.seed
ChainOf(ratchetKey, seed, n, keys) ==
  [ratchetKey |-> ratchetKey, chainKey |-> [key |-> Key(seed, n), index |-> n], messageKeys |-> keys]

InOrder(chain) ==
  /\ chain = ChainOf(chain.ratchetKey, SeedOf(chain), chain.chainKey.index, chain.messageKeys)
  /\ chain.chainKey.index \in Nat
  /\ Ascending(chain.messageKeys, SeedOf(chain), chain.chainKey.index)

\* The counters whose keys a chain can still give.
Spendable(chain) ==
  {n \in Nat : n >= chain.chainKey.index \/ \E i \in 1 .. Len(chain.messageKeys) : chain.messageKeys[i].index = n}

----------------------------------------------------------------------------
(* Sequences by their elements.                                            *)

\* A sequence whose elements are not typed is one of its own elements.
LEMMA SeqOfElements ==
  ASSUME NEW s, IsSeq(s)
  PROVE  /\ s \in Seq({s[i] : i \in 1 .. Len(s)}) /\ DOMAIN s = 1 .. Len(s)
<1> DEFINE S == {s[i] : i \in 1 .. Len(s)}
           n == Len(s)
<1>1. n \in Nat /\ s = [i \in 1 .. n |-> s[i]]
  BY DEF IsSeq
<1>2. \A i \in 1 .. n : s[i] \in S
  OBVIOUS
<1> HIDE DEF S, n
<1>3. s \in [1 .. n -> S]
  BY <1>1, <1>2
<1>4. s \in Seq(S)
  BY <1>1, <1>3, SeqDef
<1>5. QED
  BY <1>3, <1>4 DEF S, n

\* And the other way round.
LEMMA SeqIsSeq ==
  ASSUME NEW S, NEW s \in Seq(S)
  PROVE  IsSeq(s) /\ \A i \in 1 .. Len(s) : s[i] \in S
  BY LenProperties, ElementOfSeq DEF IsSeq

\* One is equal to another that has the same elements.
LEMMA SameElements ==
  ASSUME NEW s, NEW t, IsSeq(s), IsSeq(t), Len(s) = Len(t), \A i \in 1 .. Len(s) : s[i] = t[i]
  PROVE  s = t
  BY DEF IsSeq

\* Operations on them.
LEMMA AppendElements ==
  ASSUME NEW s, IsSeq(s), NEW e
  PROVE  /\ IsSeq(Append(s, e)) /\ Len(Append(s, e)) = Len(s) + 1
         /\ \A i \in 1 .. Len(s) : Append(s, e)[i] = s[i]
         /\ Append(s, e)[Len(s) + 1] = e
<1> DEFINE S == {s[i] : i \in 1 .. Len(s)} \union {e}
<1>1. s \in Seq({s[i] : i \in 1 .. Len(s)}) /\ Len(s) \in Nat
  BY SeqOfElements DEF IsSeq
<1>2. s \in Seq(S)
  BY <1>1
<1>3. e \in S
  OBVIOUS
<1> HIDE DEF S
<1>4. Append(s, e) \in Seq(S) /\ Len(Append(s, e)) = Len(s) + 1
      /\ \A i \in 1 .. Len(s) + 1 : Append(s, e)[i] = IF i <= Len(s) THEN s[i] ELSE e
  BY <1>2, <1>3, AppendProperties
<1>5. IsSeq(Append(s, e))
  BY <1>4, SeqIsSeq
<1>6. QED
  BY <1>1, <1>4, <1>5

\* The tail of a sequence by its elements.
LEMMA TailElements ==
  ASSUME NEW s, IsSeq(s), Len(s) # 0
  PROVE  /\ IsSeq(Tail(s)) /\ Len(Tail(s)) = Len(s) - 1 /\ Head(s) = s[1]
         /\ \A i \in 1 .. Len(s) - 1 : Tail(s)[i] = s[i + 1]
<1> DEFINE S == {s[i] : i \in 1 .. Len(s)}
<1>1. s \in Seq(S) /\ Len(s) \in Nat
  BY SeqOfElements DEF IsSeq
<1> HIDE DEF S
<1>2. s # << >>
  BY <1>1, EmptySeq
<1>3. /\ Tail(s) \in Seq(S) /\ Len(Tail(s)) = Len(s) - 1 /\ Head(s) = s[1]
      /\ \A i \in 1 .. Len(Tail(s)) : Tail(s)[i] = s[i + 1]
  BY <1>1, <1>2, HeadTailProperties
<1>4. QED
  BY <1>3, SeqIsSeq

\* Two sequences, one after the other.
LEMMA ConcatElements ==
  ASSUME NEW s, NEW t, IsSeq(s), IsSeq(t)
  PROVE  /\ IsSeq(s \o t) /\ Len(s \o t) = Len(s) + Len(t)
         /\ \A i \in 1 .. Len(s) + Len(t) : (s \o t)[i] = IF i <= Len(s) THEN s[i] ELSE t[i - Len(s)]
<1> DEFINE S == {s[i] : i \in 1 .. Len(s)}
           T == {t[i] : i \in 1 .. Len(t)}
<1>1. s \in Seq(S) /\ t \in Seq(T)
  BY SeqOfElements
<1> HIDE DEF S, T
<1>2. s \in Seq(S \union T) /\ t \in Seq(S \union T)
  BY <1>1
<1>3. /\ s \o t \in Seq(S \union T) /\ Len(s \o t) = Len(s) + Len(t)
      /\ \A i \in 1 .. Len(s) + Len(t) : (s \o t)[i] = IF i <= Len(s) THEN s[i] ELSE t[i - Len(s)]
  BY <1>2, ConcatProperties
<1>4. QED
  BY <1>3, SeqIsSeq

\* Removing an element, for a sequence that is not typed.
LEMMA RemoveElements ==
  ASSUME NEW s, IsSeq(s), NEW k \in 1 .. Len(s)
  PROVE  /\ IsSeq(RemoveAt(s, k)) /\ Len(RemoveAt(s, k)) = Len(s) - 1
         /\ \A j \in 1 .. Len(s) - 1 : RemoveAt(s, k)[j] = IF j < k THEN s[j] ELSE s[j + 1]
<1> DEFINE S == {s[i] : i \in 1 .. Len(s)}
<1>1. s \in Seq(S) /\ k \in DOMAIN s
  BY SeqOfElements
<1> HIDE DEF S
<1>2. /\ RemoveAt(s, k) \in Seq(S) /\ Len(RemoveAt(s, k)) = Len(s) - 1
      /\ \A j \in 1 .. Len(s) - 1 : RemoveAt(s, k)[j] = IF j < k THEN s[j] ELSE s[j + 1]
  BY <1>1, RemoveAtElements
<1>3. QED
  BY <1>2, SeqIsSeq

\* Pruning, likewise.
LEMMA PrunedElements ==
  ASSUME NEW s, IsSeq(s)
  PROVE  LET t == pruneMessageKeys(s)
         IN  /\ IsSeq(t) /\ Len(t) <= Len(s)
             /\ \A j \in 1 .. Len(t) : t[j] = s[j + (Len(s) - Len(t))]
<1> DEFINE S == {s[i] : i \in 1 .. Len(s)}
           t == pruneMessageKeys(s)
<1>1. s \in Seq(S)
  BY SeqOfElements
<1> HIDE DEF S
<1>2. /\ t \in Seq(S) /\ Len(t) <= Len(s)
      /\ \A j \in 1 .. Len(t) : t[j] = s[j + (Len(s) - Len(t))]
  BY <1>1, PruneElements
<1>3. QED
  BY <1>2, SeqIsSeq

----------------------------------------------------------------------------
(* What a chain gives.                                                     *)

\* A new chain is in order.
LEMMA NewChainInOrder ==
  ASSUME NEW ratchetKey, NEW seed
  PROVE  LET c == newChain(ratchetKey, seed)
         IN  InOrder(c) /\ c.ratchetKey = ratchetKey /\ SeedOf(c) = seed /\ c.chainKey.index = 0
             /\ c.messageKeys = << >>
<1> DEFINE c == newChain(ratchetKey, seed)
<1>1. c = ChainOf(ratchetKey, seed, 0, << >>)
  BY DEF newChain, ChainOf
<1>2. /\ c.ratchetKey = ratchetKey /\ SeedOf(c) = seed /\ c.chainKey.index = 0 /\ c.messageKeys = << >>
  BY <1>1 DEF ChainOf, SeedOf, Key
<1>3. Ascending(<< >>, seed, 0)
  BY DEF Ascending, IsSeq
<1> HIDE DEF c
<1>4. QED
  BY <1>1, <1>2, <1>3 DEF InOrder, c

\* A stored key is taken out.
LEMMA TakesStored ==
  ASSUME NEW chain, InOrder(chain), NEW counter \in Nat, NEW k \in StoredAt(chain.messageKeys, counter)
  PROVE  LET given == TakeStored(chain, k)
         IN  /\ InOrder(given.chain)
             /\ given.chain.ratchetKey = chain.ratchetKey /\ SeedOf(given.chain) = SeedOf(chain)
             /\ given.keys = KeysOf(SeedOf(chain), counter)
             /\ counter \in Spendable(chain)
             /\ Spendable(given.chain) \subseteq Spendable(chain) \ {counter}
<1> DEFINE keys == chain.messageKeys
           seed == SeedOf(chain)
           n == chain.chainKey.index
           left == RemoveAt(keys, k)
           given == TakeStored(chain, k)
<1>1. /\ chain = ChainOf(chain.ratchetKey, seed, n, keys) /\ n \in Nat
      /\ IsSeq(keys) /\ Len(keys) \in Nat
      /\ \A i \in 1 .. Len(keys) : keys[i].index \in Nat /\ keys[i].index < n /\ keys[i] = KeysOf(seed, keys[i].index)
      /\ \A i, j \in 1 .. Len(keys) : i < j => keys[i].index < keys[j].index
  BY DEF InOrder, Ascending, IsSeq
<1>2. k \in 1 .. Len(keys) /\ keys[k].index = counter
  BY <1>1, SeqOfElements DEF StoredAt
<1>3. /\ given.keys = keys[k]
      /\ given.chain = [chain EXCEPT !.messageKeys = left]
  BY DEF TakeStored
<1> HIDE DEF keys, seed, n, left, given
<1>4. given.chain = ChainOf(chain.ratchetKey, seed, n, left)
  BY <1>1, <1>3 DEF ChainOf
<1>5. /\ given.chain.ratchetKey = chain.ratchetKey /\ SeedOf(given.chain) = seed
      /\ given.chain.chainKey.index = n /\ given.chain.messageKeys = left
  BY <1>4 DEF ChainOf, SeedOf, Key
<1>6. /\ IsSeq(left) /\ Len(left) = Len(keys) - 1
      /\ \A j \in 1 .. Len(keys) - 1 : left[j] = IF j < k THEN keys[j] ELSE keys[j + 1]
  BY <1>1, <1>2, RemoveElements DEF left
<1>7. Ascending(left, seed, n)
  <2>1. \A j \in 1 .. Len(left) : \E i \in 1 .. Len(keys) : left[j] = keys[i] /\ i # k
    BY <1>1, <1>2, <1>6
  <2>2. \A i, j \in 1 .. Len(left) : i < j => left[i].index < left[j].index
    <3>1. SUFFICES ASSUME NEW i \in 1 .. Len(left), NEW j \in 1 .. Len(left), i < j
                   PROVE  left[i].index < left[j].index
      OBVIOUS
    <3> DEFINE p == IF i < k THEN i ELSE i + 1
               q == IF j < k THEN j ELSE j + 1
    <3>2. p \in 1 .. Len(keys) /\ q \in 1 .. Len(keys) /\ p < q
      BY <1>1, <1>2, <1>6, <3>1
    <3>3. left[i] = keys[p] /\ left[j] = keys[q]
      BY <1>1, <1>2, <1>6
    <3> HIDE DEF p, q
    <3>4. QED
      BY <1>1, <3>2, <3>3
  <2>3. QED
    BY <1>1, <1>6, <2>1, <2>2 DEF Ascending
<1>8. \A j \in 1 .. Len(left) : left[j].index # counter /\ \E i \in 1 .. Len(keys) : left[j].index = keys[i].index
  <2>1. TAKE j \in 1 .. Len(left)
  <2> DEFINE p == IF j < k THEN j ELSE j + 1
  <2>2. p \in 1 .. Len(keys) /\ p # k /\ left[j] = keys[p]
    BY <1>1, <1>2, <1>6
  <2> HIDE DEF p
  <2>3. keys[p].index # keys[k].index
    <3>1. p < k \/ k < p
      BY <1>1, <1>2, <2>2
    <3>2. keys[p].index < keys[k].index \/ keys[k].index < keys[p].index
      BY <1>1, <1>2, <2>2, <3>1
    <3>3. QED
      BY <1>1, <1>2, <2>2, <3>2
  <2>4. QED
    BY <1>2, <2>2, <2>3
<1>9. counter \in Spendable(chain)
  BY <1>2 DEF Spendable, keys
<1>10. Spendable(given.chain) \subseteq Spendable(chain) \ {counter}
  <2>1. SUFFICES ASSUME NEW m \in Spendable(given.chain) PROVE m \in Spendable(chain) /\ m # counter
    OBVIOUS
  <2>2. m \in Nat /\ (m >= n \/ \E i \in 1 .. Len(left) : left[i].index = m)
    BY <1>5 DEF Spendable
  <2>3. CASE m >= n
    <3>1. m # counter
      BY <1>1, <1>2, <2>2, <2>3
    <3>2. QED
      BY <2>2, <2>3, <3>1 DEF Spendable, n
  <2>4. CASE \E i \in 1 .. Len(left) : left[i].index = m
    BY <1>8, <2>2, <2>4 DEF Spendable, keys
  <2>5. QED
    BY <2>2, <2>3, <2>4
<1>11. given.keys = KeysOf(seed, counter)
  BY <1>1, <1>2, <1>3
<1>12. InOrder(given.chain)
  BY <1>1, <1>4, <1>5, <1>7 DEF InOrder
<1>13. QED
  BY <1>5, <1>9, <1>10, <1>11, <1>12 DEF given, seed

\* The keys banked on the way to a counter are those of the counters before it.
LEMMA Banked ==
  ASSUME NEW seed, NEW n \in Nat, NEW counter \in Nat, counter >= n
  PROVE  LET s == SkippedKeys([key |-> Key(seed, n), index |-> n], counter)
         IN  /\ IsSeq(s) /\ Len(s) = counter - n
             /\ \A j \in 1 .. counter - n : s[j] = KeysOf(seed, n + (j - 1))
<1> DEFINE at == [key |-> Key(seed, n), index |-> n]
           s == SkippedKeys(at, counter)
           e(j) == deriveMessageKeys(turnChainKey(at, j - 1))
           S == {e(j) : j \in 1 .. counter - n}
<1>1. at.index = n /\ at.key = Key(seed, n)
  OBVIOUS
<1>2. \A j \in 1 .. counter - n : e(j) = KeysOf(seed, n + (j - 1))
  BY <1>1 DEF deriveMessageKeys, turnChainKey, Key, KeysOf
<1>3. s = [j \in 1 .. counter - n |-> e(j)]
  BY <1>1 DEF SkippedKeys
<1>4. counter - n \in Nat
  OBVIOUS
<1> HIDE DEF s, at
<1>5. s \in [1 .. counter - n -> S]
  BY <1>3
<1>6. \A j \in 1 .. counter - n : s[j] = e(j)
  BY <1>3
<1> HIDE DEF S, e
<1>7. s \in Seq(S) /\ Len(s) = counter - n
  BY <1>4, <1>5
<1>8. IsSeq(s)
  BY <1>7, SeqIsSeq
<1>9. QED
  BY <1>2, <1>6, <1>7, <1>8 DEF s, at

\* A chain with a new key and a new store.
LEMMA WithChainKey ==
  ASSUME NEW c, NEW a, NEW b, NEW d, c = [ratchetKey |-> a, chainKey |-> b, messageKeys |-> d], NEW x, NEW y
  PROVE  [c EXCEPT !.chainKey = x, !.messageKeys = y] = [ratchetKey |-> a, chainKey |-> x, messageKeys |-> y]
<1> DEFINE e == [c EXCEPT !.chainKey = x]
<1>1. e = [ratchetKey |-> a, chainKey |-> x, messageKeys |-> d]
  OBVIOUS
<1> HIDE DEF e
<1>2. [e EXCEPT !.messageKeys = y] = [ratchetKey |-> a, chainKey |-> x, messageKeys |-> y]
  BY <1>1
<1>3. QED
  BY <1>2 DEF e

\* The chain is turned up to the counter, and the keys on the way are banked.
LEMMA DerivesUpTo ==
  ASSUME NEW chain, InOrder(chain), NEW counter \in Nat, counter >= chain.chainKey.index
  PROVE  LET given == DeriveUpTo(chain, counter)
         IN  /\ InOrder(given.chain)
             /\ given.chain.ratchetKey = chain.ratchetKey /\ SeedOf(given.chain) = SeedOf(chain)
             /\ given.keys = KeysOf(SeedOf(chain), counter)
             /\ counter \in Spendable(chain)
             /\ Spendable(given.chain) \subseteq Spendable(chain) \ {counter}
<1> DEFINE keys == chain.messageKeys
           seed == SeedOf(chain)
           n == chain.chainKey.index
           at == [key |-> Key(seed, n), index |-> n]
           skipped == SkippedKeys(at, counter)
           all == keys \o skipped
           kept == pruneMessageKeys(all)
           given == DeriveUpTo(chain, counter)
<1>1. /\ chain = ChainOf(chain.ratchetKey, seed, n, keys) /\ n \in Nat
      /\ IsSeq(keys) /\ Len(keys) \in Nat
      /\ \A i \in 1 .. Len(keys) : keys[i].index \in Nat /\ keys[i].index < n /\ keys[i] = KeysOf(seed, keys[i].index)
      /\ \A i, j \in 1 .. Len(keys) : i < j => keys[i].index < keys[j].index
  BY DEF InOrder, Ascending, IsSeq
<1>2. chain.chainKey = at
  BY <1>1 DEF ChainOf
<1>3. counter >= n
  OBVIOUS
<1>4. /\ given.chain = ChainOf(chain.ratchetKey, seed, counter + 1, kept)
      /\ given.keys = KeysOf(seed, counter)
  <2> DEFINE reached == turnChainKey(chain.chainKey, counter - chain.chainKey.index)
  <2>1. reached = [key |-> Key(seed, counter), index |-> counter]
    BY <1>1, <1>2 DEF turnChainKey, Key
  <2>2. nextChainKey(reached) = [key |-> Key(seed, counter + 1), index |-> counter + 1]
    BY <2>1 DEF nextChainKey, turnChainKey, Key
  <2>3. deriveMessageKeys(reached) = KeysOf(seed, counter)
    BY <2>1 DEF deriveMessageKeys, KeysOf
  <2>4. /\ given.chain = [chain EXCEPT !.chainKey = nextChainKey(reached), !.messageKeys = kept]
        /\ given.keys = deriveMessageKeys(reached)
    BY <1>2 DEF DeriveUpTo
  <2> HIDE DEF reached, given, kept
  <2>5. [chain EXCEPT !.chainKey = nextChainKey(reached), !.messageKeys = kept]
          = [ratchetKey |-> chain.ratchetKey, chainKey |-> nextChainKey(reached), messageKeys |-> kept]
    <3> DEFINE next == nextChainKey(reached)
    <3> HIDE DEF seed, n, keys, at, next
    <3>1. chain = [ratchetKey |-> chain.ratchetKey, chainKey |-> chain.chainKey, messageKeys |-> chain.messageKeys]
      BY <1>1 DEF ChainOf
    <3>2. [chain EXCEPT !.chainKey = next, !.messageKeys = kept]
            = [ratchetKey |-> chain.ratchetKey, chainKey |-> next, messageKeys |-> kept]
      <4> DEFINE e == [chain EXCEPT !.chainKey = next]
      <4>1. e = [ratchetKey |-> chain.ratchetKey, chainKey |-> next, messageKeys |-> chain.messageKeys]
        BY <3>1
      <4> HIDE DEF e
      <4>2. [e EXCEPT !.messageKeys = kept] = [ratchetKey |-> chain.ratchetKey, chainKey |-> next, messageKeys |-> kept]
        BY <4>1
      <4>3. QED
        BY <4>2 DEF e
    <3>3. QED
      BY <3>2 DEF next
  <2>6. QED
    BY <2>2, <2>3, <2>4, <2>5 DEF ChainOf
<1> HIDE DEF keys, seed, n, at, skipped, all, kept, given
<1>5. /\ given.chain.ratchetKey = chain.ratchetKey /\ SeedOf(given.chain) = seed
      /\ given.chain.chainKey.index = counter + 1 /\ given.chain.messageKeys = kept
  BY <1>4 DEF ChainOf, SeedOf, Key
<1>6. /\ IsSeq(skipped) /\ Len(skipped) = counter - n
      /\ \A j \in 1 .. counter - n : skipped[j] = KeysOf(seed, n + (j - 1))
  BY <1>1, <1>3, Banked DEF skipped, at
<1>7. /\ IsSeq(all) /\ Len(all) = Len(keys) + (counter - n)
      /\ \A i \in 1 .. Len(all) : all[i] = IF i <= Len(keys) THEN keys[i] ELSE skipped[i - Len(keys)]
  BY <1>1, <1>6, ConcatElements DEF all
<1>8. \A i \in 1 .. Len(all) :
        /\ all[i].index \in Nat /\ all[i].index < counter + 1 /\ all[i].index # counter
        /\ all[i] = KeysOf(seed, all[i].index)
        /\ all[i].index \in Spendable(chain)
  <2>1. TAKE i \in 1 .. Len(all)
  <2>2. CASE i <= Len(keys)
    <3>1. i \in 1 .. Len(keys) /\ all[i] = keys[i]
      BY <1>1, <1>3, <1>7, <2>2
    <3>2. all[i].index < n /\ all[i].index \in Nat /\ all[i] = KeysOf(seed, all[i].index)
      BY <1>1, <3>1
    <3>3. all[i].index \in Spendable(chain)
      BY <3>1, <3>2 DEF Spendable, keys
    <3>4. QED
      BY <1>1, <1>3, <3>2, <3>3
  <2>3. CASE ~(i <= Len(keys))
    <3> DEFINE j == i - Len(keys)
    <3>1. j \in 1 .. counter - n /\ all[i] = skipped[j]
      BY <1>1, <1>3, <1>7, <2>3
    <3>2. all[i] = KeysOf(seed, n + (j - 1)) /\ n + (j - 1) \in Nat /\ n + (j - 1) < counter /\ n + (j - 1) >= n
      BY <1>1, <1>3, <1>6, <3>1
    <3> HIDE DEF j
    <3>3. all[i].index = n + (j - 1)
      BY <3>2 DEF KeysOf
    <3>4. all[i].index \in Spendable(chain)
      BY <3>2, <3>3 DEF Spendable, n
    <3>5. QED
      BY <1>1, <3>1, <3>2, <3>3, <3>4
  <2>4. QED
    BY <2>2, <2>3
<1>9. \A i, j \in 1 .. Len(all) : i < j => all[i].index < all[j].index
  <2>1. SUFFICES ASSUME NEW i \in 1 .. Len(all), NEW j \in 1 .. Len(all), i < j
                 PROVE  all[i].index < all[j].index
    OBVIOUS
  <2>2. CASE j <= Len(keys)
    BY <1>1, <1>7, <2>1, <2>2
  <2>3. CASE ~(j <= Len(keys))
    <3>1. j - Len(keys) \in 1 .. counter - n /\ all[j] = skipped[j - Len(keys)]
      BY <1>1, <1>3, <1>7, <2>3
    <3>2. all[j].index = n + (j - Len(keys) - 1)
      BY <1>6, <3>1 DEF KeysOf
    <3>3. CASE i <= Len(keys)
      <4>1. all[i] = keys[i] /\ i \in 1 .. Len(keys)
        BY <1>1, <1>7, <3>3
      <4>2. all[i].index < n /\ all[i].index \in Nat
        BY <1>1, <4>1
      <4>3. QED
        BY <1>1, <3>1, <3>2, <4>2
    <3>4. CASE ~(i <= Len(keys))
      <4>1. i - Len(keys) \in 1 .. counter - n /\ all[i] = skipped[i - Len(keys)]
        BY <1>1, <1>3, <1>7, <3>4
      <4>2. all[i].index = n + (i - Len(keys) - 1)
        BY <1>6, <4>1 DEF KeysOf
      <4>3. i \in Int /\ j \in Int /\ Len(keys) \in Int /\ n \in Int
        BY <1>1
      <4>4. n + (i - Len(keys) - 1) < n + (j - Len(keys) - 1)
        BY <2>1, <4>3
      <4>5. QED
        BY <3>2, <4>2, <4>4
    <3>5. QED
      BY <3>3, <3>4
  <2>4. QED
    BY <2>2, <2>3
<1>10. /\ IsSeq(kept) /\ Len(kept) <= Len(all)
       /\ \A j \in 1 .. Len(kept) : kept[j] = all[j + (Len(all) - Len(kept))]
  BY <1>7, PrunedElements DEF kept
<1>11. Len(kept) \in Nat /\ Len(all) \in Nat /\ \A j \in 1 .. Len(kept) : j + (Len(all) - Len(kept)) \in 1 .. Len(all)
  BY <1>7, <1>10 DEF IsSeq
<1>12. Ascending(kept, seed, counter + 1)
  <2>1. \A j \in 1 .. Len(kept) : /\ kept[j].index \in Nat /\ kept[j].index < counter + 1
                                  /\ kept[j] = KeysOf(seed, kept[j].index)
    BY <1>8, <1>10, <1>11
  <2>2. \A i, j \in 1 .. Len(kept) : i < j => kept[i].index < kept[j].index
    <3>1. SUFFICES ASSUME NEW i \in 1 .. Len(kept), NEW j \in 1 .. Len(kept), i < j
                   PROVE  kept[i].index < kept[j].index
      OBVIOUS
    <3> DEFINE p == i + (Len(all) - Len(kept))
               q == j + (Len(all) - Len(kept))
    <3>2. p \in 1 .. Len(all) /\ q \in 1 .. Len(all) /\ p < q
      BY <1>11, <3>1
    <3>3. kept[i] = all[p] /\ kept[j] = all[q]
      BY <1>10
    <3> HIDE DEF p, q
    <3>4. QED
      BY <1>9, <3>2, <3>3
  <2>3. QED
    BY <1>10, <2>1, <2>2 DEF Ascending
<1>13. counter \in Spendable(chain)
  BY DEF Spendable
<1>14. Spendable(given.chain) \subseteq Spendable(chain) \ {counter}
  <2>1. SUFFICES ASSUME NEW m \in Spendable(given.chain) PROVE m \in Spendable(chain) /\ m # counter
    OBVIOUS
  <2>2. m \in Nat /\ (m >= counter + 1 \/ \E j \in 1 .. Len(kept) : kept[j].index = m)
    BY <1>5 DEF Spendable
  <2>3. CASE m >= counter + 1
    <3>1. m # counter /\ m >= n
      BY <1>1, <1>3, <2>2, <2>3
    <3>2. QED
      BY <2>2, <3>1 DEF Spendable, n
  <2>4. CASE \E j \in 1 .. Len(kept) : kept[j].index = m
    BY <1>8, <1>10, <1>11, <2>4
  <2>5. QED
    BY <2>2, <2>3, <2>4
<1>15. InOrder(given.chain)
  <2>1. counter + 1 \in Nat
    OBVIOUS
  <2>2. QED
    BY <1>4, <1>5, <1>12, <2>1 DEF InOrder
<1>16. QED
  BY <1>4, <1>5, <1>13, <1>14, <1>15 DEF given, seed

\* A request for a counter that is answered: by the key of this counter, which the
\* chain can then no longer give.
LEMMA Answered ==
  ASSUME NEW chain, InOrder(chain), NEW counter \in Nat, NEW given \in messageKeysForCounter(chain, counter)
  PROVE  /\ InOrder(given.chain)
         /\ given.chain.ratchetKey = chain.ratchetKey /\ SeedOf(given.chain) = SeedOf(chain)
         /\ given.keys = KeysOf(SeedOf(chain), counter)
         /\ counter \in Spendable(chain)
         /\ Spendable(given.chain) \subseteq Spendable(chain) \ {counter}
<1>1. CASE StoredAt(chain.messageKeys, counter) # {}
  <2>1. PICK k \in StoredAt(chain.messageKeys, counter) : given = TakeStored(chain, k)
    BY <1>1 DEF messageKeysForCounter
  <2>2. QED
    BY <2>1, TakesStored
<1>2. CASE StoredAt(chain.messageKeys, counter) = {}
  <2>1. counter >= chain.chainKey.index /\ given = DeriveUpTo(chain, counter)
    BY <1>2 DEF messageKeysForCounter, InReach
  <2>2. QED
    BY <2>1, DerivesUpTo
<1>3. QED
  BY <1>1, <1>2
============================================================================
