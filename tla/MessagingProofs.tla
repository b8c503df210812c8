-------------------------- MODULE MessagingProofs --------------------------
(***************************************************************************)
(* What Messaging promises, for any devices, accounts and texts, any stock *)
(* of keys and any number of refills and lost connections.                 *)
(*                                                                         *)
(* First what the operators on sequences and nodes return: a list is known *)
(* by what is on it.  Then, from these, what the two ends read of what the *)
(* other wrote, the inductive invariant, that each action keeps it, and    *)
(* the theorems.                                                           *)
(***************************************************************************)
EXTENDS Messaging, SequenceTheorems, FiniteSetTheorems, WellFoundedInduction, TLAPS

----------------------------------------------------------------------------
(* Lists.                                                                  *)

\* Induction, for a set.
LEMMA NatSetInduction ==
  ASSUME NEW S, 0 \in S, \A n \in Nat : n \in S => n + 1 \in S
  PROVE  \A n \in Nat : n \in S
<1> SUFFICES ASSUME NEW n \in Nat, n \notin S PROVE FALSE
  OBVIOUS
<1> DEFINE T == {m \in Nat : m \notin S}
<1>1. T \subseteq Nat /\ T # {}
  OBVIOUS
<1>2. PICK x \in T : \A y \in T : ~(<<y, x>> \in OpToRel(<, Nat))
  BY <1>1, NatLessThanWellFounded, WFMin
<1>3. x \in Nat /\ x \notin S /\ x # 0
  OBVIOUS
<1>4. x - 1 \in Nat /\ x - 1 < x /\ (x - 1) + 1 = x
  BY <1>3
<1>5. x - 1 \in S
  BY <1>2, <1>4 DEF OpToRel
<1>6. QED
  BY <1>3, <1>4, <1>5

Steps(f, V, n, base, step) ==
  /\ f \in [0 .. n -> V] /\ f[0] = base
  /\ \A i \in 1 .. n : f[i] = step[<<f[i - 1], i>>]

\* A function that goes on from place to place exists.
LEMMA StepsExist ==
  ASSUME NEW V, NEW base \in V, NEW n \in Nat, NEW step \in [V \X (1 .. n) -> V]
  PROVE  \E f : Steps(f, V, n, base, step)
<1> DEFINE S == {m \in Nat : m <= n => \E f : Steps(f, V, m, base, step)}
<1>1. 0 \in S
  <2> DEFINE f == [i \in 0 .. 0 |-> base]
  <2>1. Steps(f, V, 0, base, step)
    BY DEF Steps
  <2>2. QED
    BY <2>1
<1>2. \A m \in Nat : m \in S => m + 1 \in S
  <2>1. SUFFICES ASSUME NEW m \in Nat, m + 1 <= n, NEW g, Steps(g, V, m, base, step)
                 PROVE  \E f : Steps(f, V, m + 1, base, step)
    OBVIOUS
  <2> DEFINE f == [i \in 0 .. m + 1 |-> IF i = m + 1 THEN step[<<g[m], m + 1>>] ELSE g[i]]
  <2>2. g \in [0 .. m -> V] /\ g[0] = base /\ \A i \in 1 .. m : g[i] = step[<<g[i - 1], i>>]
    BY <2>1 DEF Steps
  <2>3. m + 1 \in 1 .. n /\ g[m] \in V
    BY <2>1, <2>2
  <2>4. step[<<g[m], m + 1>>] \in V
    BY <2>3
  <2>5. f \in [0 .. m + 1 -> V] /\ f[0] = base
    BY <2>2, <2>4
  <2>6. ASSUME NEW i \in 1 .. m + 1 PROVE f[i] = step[<<f[i - 1], i>>]
    <3>1. i - 1 \in 0 .. m /\ f[i - 1] = g[i - 1]
      BY <2>1, <2>6
    <3>2. CASE i = m + 1
      <4>1. f[i] = step[<<g[m], m + 1>>] /\ f[i - 1] = g[m] /\ i = m + 1
        BY <2>1, <3>1, <3>2
      <4> HIDE DEF f
      <4>2. QED
        BY <4>1
    <3>3. CASE i # m + 1
      BY <2>2, <3>1, <3>3
    <3>4. QED
      BY <3>2, <3>3
  <2> HIDE DEF f
  <2>7. QED
    BY <2>5, <2>6 DEF Steps
<1> HIDE DEF S
<1>3. n \in S
  BY <1>1, <1>2, NatSetInduction
<1>4. QED
  BY <1>3 DEF S

Keeps(only, s, places) ==
  /\ only[0] = << >>
  /\ \A i \in 1 .. Len(s) : only[i] = IF i \in places THEN Append(only[i - 1], s[i]) ELSE only[i - 1]

\* Only is what its recursion says.
LEMMA OnlyIs ==
  ASSUME NEW S, NEW s \in Seq(S), NEW places
  PROVE  \E only \in [0 .. Len(s) -> Seq(S)] : Keeps(only, s, places) /\ Only(s, places) = only[Len(s)]
<1>1. Len(s) \in Nat /\ \A i \in 1 .. Len(s) : s[i] \in S
  BY LenProperties, ElementOfSeq
<1> DEFINE n == Len(s)
           V == Seq(S)
           next == [p \in V \X (1 .. n) |-> IF p[2] \in places THEN Append(p[1], s[p[2]]) ELSE p[1]]
           Rec(f) == f = [i \in 0 .. n |-> IF i = 0 THEN << >> ELSE IF i \in places THEN Append(f[i - 1], s[i]) ELSE f[i - 1]]
<1>2. << >> \in V
  OBVIOUS
<1>3. next \in [V \X (1 .. n) -> V]
  <2>1. ASSUME NEW p \in V \X (1 .. n) PROVE (IF p[2] \in places THEN Append(p[1], s[p[2]]) ELSE p[1]) \in V
    <3>1. p[1] \in Seq(S) /\ s[p[2]] \in S
      BY <1>1
    <3>2. Append(p[1], s[p[2]]) \in Seq(S)
      BY <3>1, AppendProperties
    <3>3. QED
      BY <3>1, <3>2
  <2>2. QED
    BY <2>1
<1> HIDE DEF next
<1>4. PICK f : Steps(f, V, n, << >>, next)
  BY <1>1, <1>2, <1>3, StepsExist
<1>5. f \in [0 .. n -> V] /\ f[0] = << >> /\ \A i \in 1 .. n : f[i] = next[<<f[i - 1], i>>]
  BY <1>4 DEF Steps
<1>6. ASSUME NEW i \in 1 .. n PROVE f[i] = IF i \in places THEN Append(f[i - 1], s[i]) ELSE f[i - 1]
  <2>1. f[i - 1] \in V /\ f[i] = next[<<f[i - 1], i>>]
    BY <1>1, <1>5, <1>6
  <2>2. QED
    BY <2>1 DEF next
<1>7. \E g : Rec(g)
  <2>1. ASSUME NEW i \in 0 .. n
        PROVE  f[i] = IF i = 0 THEN << >> ELSE IF i \in places THEN Append(f[i - 1], s[i]) ELSE f[i - 1]
    <3>1. CASE i = 0
      BY <1>5, <3>1
    <3>2. CASE i # 0
      <4>1. i \in 1 .. n
        BY <1>1, <3>2
      <4>2. QED
        BY <1>6, <3>2, <4>1
    <3>3. QED
      BY <3>1, <3>2
  <2>2. Rec(f)
    BY <1>5, <2>1
  <2>3. QED
    BY <2>2
<1> DEFINE only == CHOOSE g : Rec(g)
<1>8. Only(s, places) = only[n] /\ Rec(only)
  BY <1>7 DEF Only
<1> HIDE DEF only
<1>9. Keeps(only, s, places)
  <2>1. \A i \in 0 .. n : only[i] = IF i = 0 THEN << >> ELSE IF i \in places THEN Append(only[i - 1], s[i]) ELSE only[i - 1]
    BY <1>8
  <2>2. only[0] = << >>
    BY <1>1, <2>1
  <2>3. ASSUME NEW i \in 1 .. n PROVE only[i] = IF i \in places THEN Append(only[i - 1], s[i]) ELSE only[i - 1]
    <3>1. i \in 0 .. n /\ i # 0
      BY <1>1
    <3>2. QED
      BY <2>1, <3>1
  <2>4. QED
    BY <2>2, <2>3 DEF Keeps
<1>10. only \in [0 .. n -> V]
  <2> DEFINE T == {m \in Nat : m <= n => only[m] \in V}
  <2>1. 0 \in T
    <3>1. only[0] \in V
      BY <1>2, <1>9 DEF Keeps
    <3>2. QED
      BY <3>1
  <2>2. ASSUME NEW m \in Nat, m \in T PROVE m + 1 \in T
    <3>1. SUFFICES ASSUME m + 1 <= n PROVE only[m + 1] \in V
      OBVIOUS
    <3>2. only[m] \in Seq(S) /\ m + 1 \in 1 .. n /\ s[m + 1] \in S /\ (m + 1) - 1 = m
      BY <1>1, <2>2, <3>1
    <3>3. only[m + 1] = IF m + 1 \in places THEN Append(only[m], s[m + 1]) ELSE only[m]
      BY <1>9, <3>2 DEF Keeps
    <3>4. Append(only[m], s[m + 1]) \in Seq(S)
      BY <3>2, AppendProperties
    <3>5. QED
      BY <3>2, <3>3, <3>4
  <2> HIDE DEF T
  <2>3. \A m \in Nat : m \in T
    BY <2>1, <2>2, NatSetInduction
  <2>4. \A m \in 0 .. n : only[m] \in V
    BY <1>1, <2>3 DEF T
  <2>5. QED
    BY <1>8, <2>4
<1>11. QED
  BY <1>8, <1>9, <1>10

\* What is in a list with one more item.
LEMMA ToSetOfAppend ==
  ASSUME NEW S, NEW s \in Seq(S), NEW x \in S
  PROVE  ToSet(Append(s, x)) = ToSet(s) \union {x}
<1> DEFINE a == Append(s, x)
<1>1. /\ Len(s) \in Nat /\ DOMAIN s = 1 .. Len(s) /\ DOMAIN a = 1 .. Len(s) + 1
      /\ a[Len(s) + 1] = x /\ \A i \in 1 .. Len(s) : a[i] = s[i]
  <2>1. a \in Seq(S) /\ Len(a) = Len(s) + 1 /\ a[Len(s) + 1] = x /\ \A i \in 1 .. Len(s) : a[i] = s[i]
    BY AppendProperties
  <2> HIDE DEF a
  <2>2. QED
    BY <2>1, LenProperties
<1> HIDE DEF a
<1>2. ASSUME NEW y \in ToSet(a) PROVE y \in ToSet(s) \union {x}
  <2>1. PICK i \in 1 .. Len(s) + 1 : y = a[i]
    BY <1>1 DEF ToSet
  <2>2. CASE i = Len(s) + 1
    BY <1>1, <2>1, <2>2
  <2>3. CASE i # Len(s) + 1
    <3>1. i \in 1 .. Len(s)
      BY <1>1, <2>3
    <3>2. QED
      BY <1>1, <2>1, <3>1 DEF ToSet
  <2>4. QED
    BY <2>2, <2>3
<1>3. ASSUME NEW y \in ToSet(s) PROVE y \in ToSet(a)
  <2>1. PICK i \in 1 .. Len(s) : y = s[i]
    BY <1>1 DEF ToSet
  <2>2. i \in DOMAIN a /\ y = a[i]
    BY <1>1, <2>1
  <2>3. QED
    BY <2>2 DEF ToSet
<1>4. x \in ToSet(a)
  <2>1. Len(s) + 1 \in DOMAIN a
    BY <1>1
  <2>2. QED
    BY <1>1, <2>1 DEF ToSet
<1>5. QED
  BY <1>2, <1>3, <1>4 DEF a

\* The items at some of the first places.
At(s, m, places) == {s[i] : i \in (1 .. m) \intersect places}

\* The items before a place that stay come first, and are the items at those places.
LEMMA KeptSoFar ==
  ASSUME NEW S, NEW s \in Seq(S), NEW places, NEW only \in [0 .. Len(s) -> Seq(S)], Keeps(only, s, places),
         NEW m \in 0 .. Len(s)
  PROVE  /\ ToSet(only[m]) = At(s, m, places)
         /\ Len(only[m]) <= m
         /\ \A k \in m .. Len(s) : Len(only[m]) <= Len(only[k]) /\ \A i \in 1 .. Len(only[m]) : only[k][i] = only[m][i]
<1> DEFINE n == Len(s)
<1>1. n \in Nat /\ \A i \in 1 .. n : s[i] \in S /\ i - 1 \in 0 .. n
  BY LenProperties, ElementOfSeq
<1>2. \A i \in 0 .. n : only[i] \in Seq(S) /\ Len(only[i]) \in Nat /\ DOMAIN only[i] = 1 .. Len(only[i])
  BY LenProperties
<1>3. ASSUME NEW i \in 1 .. n
      PROVE  \/ i \notin places /\ only[i] = only[i - 1]
             \/ /\ i \in places /\ Len(only[i]) = Len(only[i - 1]) + 1 /\ only[i][Len(only[i])] = s[i]
                /\ \A j \in 1 .. Len(only[i - 1]) : only[i][j] = only[i - 1][j]
  <2>1. only[i - 1] \in Seq(S) /\ s[i] \in S
    BY <1>1, <1>2
  <2>2. only[i] = IF i \in places THEN Append(only[i - 1], s[i]) ELSE only[i - 1]
    BY DEF Keeps
  <2>3. /\ Len(Append(only[i - 1], s[i])) = Len(only[i - 1]) + 1
        /\ Append(only[i - 1], s[i])[Len(only[i - 1]) + 1] = s[i]
        /\ \A j \in 1 .. Len(only[i - 1]) : Append(only[i - 1], s[i])[j] = only[i - 1][j]
    BY <2>1, AppendProperties
  <2>4. QED
    BY <2>2, <2>3
<1> HIDE DEF n
<1> DEFINE T == {k \in Nat : k <= n =>
                   ToSet(only[k]) = At(s, k, places) /\ Len(only[k]) <= k}
           U == {k \in Nat : m + k <= n =>
                   Len(only[m]) <= Len(only[m + k]) /\ \A i \in 1 .. Len(only[m]) : only[m + k][i] = only[m][i]}
<1>4. 0 \in T
  <2>1. only[0] = << >>
    BY DEF Keeps
  <2>2. ToSet(only[0]) = {} /\ Len(only[0]) = 0
    BY <2>1 DEF ToSet
  <2>3. At(s, 0, places) = {}
    BY DEF At
  <2>4. ToSet(only[0]) = At(s, 0, places) /\ Len(only[0]) <= 0
    BY <2>2, <2>3
  <2>5. QED
    BY <2>4
<1>5. ASSUME NEW k \in Nat, k \in T PROVE k + 1 \in T
  <2>1. SUFFICES ASSUME k + 1 <= n
                 PROVE  ToSet(only[k + 1]) = At(s, k + 1, places) /\ Len(only[k + 1]) <= k + 1
    OBVIOUS
  <2>2. k + 1 \in 1 .. n /\ k \in 0 .. n /\ k + 1 \in 0 .. n /\ (k + 1) - 1 = k
    BY <1>1, <2>1
  <2>3. ToSet(only[k]) = At(s, k, places) /\ Len(only[k]) <= k /\ Len(only[k]) \in Nat
    BY <1>2, <1>5, <2>2
  <2>4. CASE k + 1 \notin places
    <3>1. only[k + 1] = only[k]
      BY <1>3, <2>2, <2>4
    <3>2. (1 .. k + 1) \intersect places = (1 .. k) \intersect places
      BY <2>4
    <3>3. QED
      BY <2>3, <3>1, <3>2 DEF At
  <2>5. CASE k + 1 \in places
    <3>1. /\ Len(only[k + 1]) = Len(only[k]) + 1 /\ only[k + 1][Len(only[k + 1])] = s[k + 1]
          /\ \A j \in 1 .. Len(only[k]) : only[k + 1][j] = only[k][j]
      BY <1>3, <2>2, <2>5
    <3>2. DOMAIN only[k + 1] = 1 .. Len(only[k]) + 1 /\ DOMAIN only[k] = 1 .. Len(only[k])
      BY <1>2, <2>2, <3>1
    <3>3. ToSet(only[k + 1]) = ToSet(only[k]) \union {s[k + 1]}
      <4>1. only[k] \in Seq(S) /\ s[k + 1] \in S
        BY <1>1, <1>2, <2>2
      <4>2. only[k + 1] = Append(only[k], s[k + 1])
        BY <2>2, <2>5 DEF Keeps, n
      <4>3. ToSet(Append(only[k], s[k + 1])) = ToSet(only[k]) \union {s[k + 1]}
        BY <4>1, ToSetOfAppend
      <4>4. QED
        BY <4>2, <4>3
    <3>4. (1 .. k + 1) \intersect places = ((1 .. k) \intersect places) \union {k + 1}
      BY <2>5
    <3>5. At(s, k + 1, places) = At(s, k, places) \union {s[k + 1]}
      BY <3>4 DEF At
    <3>6. ToSet(only[k + 1]) = At(s, k + 1, places)
      BY <2>3, <3>3, <3>5
    <3>7. Len(only[k + 1]) <= k + 1
      BY <2>3, <3>1
    <3>8. QED
      BY <3>6, <3>7
  <2>6. QED
    BY <2>4, <2>5
<1>6. 0 \in U
  BY <1>1, <1>2 DEF n
<1>7. ASSUME NEW k \in Nat, k \in U PROVE k + 1 \in U
  <2>1. SUFFICES ASSUME m + (k + 1) <= n
                 PROVE  Len(only[m]) <= Len(only[m + (k + 1)]) /\ \A i \in 1 .. Len(only[m]) : only[m + (k + 1)][i] = only[m][i]
    OBVIOUS
  <2> DEFINE j == m + (k + 1)
  <2>2. m \in Nat /\ j \in 1 .. n /\ j - 1 = m + k /\ m + k \in 0 .. n /\ j \in 0 .. n /\ m \in 0 .. n /\ m + k <= n
    BY <1>1, <2>1 DEF n
  <2>3. Len(only[m]) <= Len(only[m + k]) /\ \A i \in 1 .. Len(only[m]) : only[m + k][i] = only[m][i]
    BY <1>7, <2>2
  <2>4. Len(only[m]) \in Nat /\ Len(only[m + k]) \in Nat
    BY <1>2, <2>2 DEF n
  <2> HIDE DEF j
  <2>5. Len(only[m + k]) <= Len(only[j]) /\ \A i \in 1 .. Len(only[m + k]) : only[j][i] = only[m + k][i]
    BY <1>3, <2>2, <2>4
  <2>6. Len(only[j]) \in Nat
    BY <1>2, <2>2 DEF n
  <2>7. Len(only[m]) <= Len(only[j]) /\ \A i \in 1 .. Len(only[m]) : only[j][i] = only[m][i]
    BY <2>3, <2>4, <2>5, <2>6
  <2>8. QED
    BY <2>7 DEF j
<1> HIDE DEF T, U
<1>8. \A k \in Nat : k \in T /\ k \in U
  BY <1>4, <1>5, <1>6, <1>7, NatSetInduction
<1>9. m \in Nat /\ m <= n /\ n \in Nat
  BY <1>1 DEF n
<1>10. ToSet(only[m]) = At(s, m, places) /\ Len(only[m]) <= m
  BY <1>8, <1>9 DEF T
<1>11. ASSUME NEW k \in m .. n
       PROVE  Len(only[m]) <= Len(only[k]) /\ \A i \in 1 .. Len(only[m]) : only[k][i] = only[m][i]
  <2>1. k - m \in Nat /\ m + (k - m) = k /\ m + (k - m) <= n
    BY <1>9
  <2>2. k - m \in U
    BY <1>8, <2>1
  <2>3. QED
    BY <2>1, <2>2 DEF U
<1>12. QED
  BY <1>10, <1>11 DEF n

\* What is kept of a list.
LEMMA OnlyKeeps ==
  ASSUME NEW S, NEW s \in Seq(S), NEW places
  PROVE  /\ Only(s, places) \in Seq(S)
         /\ ToSet(Only(s, places)) = At(s, Len(s), places)
<1> DEFINE n == Len(s)
<1>1. PICK only \in [0 .. Len(s) -> Seq(S)] : Keeps(only, s, places) /\ Only(s, places) = only[n]
  BY OnlyIs
<1>2. Keeps(only, s, places) /\ n \in 0 .. Len(s)
  BY <1>1, LenProperties
<1> HIDE DEF n
<1>3. /\ ToSet(only[n]) = At(s, n, places)
      /\ Len(only[n]) <= n
      /\ \A k \in n .. Len(s) : Len(only[n]) <= Len(only[k]) /\ \A i \in 1 .. Len(only[n]) : only[k][i] = only[n][i]
  BY <1>2, KeptSoFar
<1>4. QED
  BY <1>1, <1>2, <1>3 DEF n

\* A list of these, each of them on it.
List(s, E) == s \in Seq(E) /\ ToSet(s) = E

\* A sequence lists what is in it.
LEMMA SeqLists ==
  ASSUME NEW S, NEW s \in Seq(S)
  PROVE  List(s, ToSet(s)) /\ ToSet(s) \subseteq S
<1>1. ToSet(s) = Range(s)
  BY DEF ToSet, Range
<1>2. QED
  BY <1>1, SeqOfRange, RangeOfSeq DEF List

\* The places of a list.
LEMMA ListPlaces ==
  ASSUME NEW E, NEW s, List(s, E)
  PROVE  /\ Len(s) \in Nat /\ DOMAIN s = 1 .. Len(s) /\ s \in Seq(E)
         /\ \A i \in 1 .. Len(s) : s[i] \in E
         /\ \A e \in E : \E i \in 1 .. Len(s) : s[i] = e
<1>1. s \in Seq(E) /\ ToSet(s) = E
  BY DEF List
<1>2. Len(s) \in Nat /\ DOMAIN s = 1 .. Len(s)
  BY <1>1, LenProperties
<1>3. \A i \in 1 .. Len(s) : s[i] \in E
  BY <1>1, ElementOfSeq
<1>4. \A e \in E : \E i \in 1 .. Len(s) : s[i] = e
  BY <1>1, <1>2 DEF ToSet
<1>5. QED
  BY <1>1, <1>2, <1>3, <1>4

\* What makes a list.
LEMMA MakesList ==
  ASSUME NEW E, NEW s \in Seq(E), \A e \in E : \E i \in 1 .. Len(s) : s[i] = e
  PROVE  List(s, E)
<1>1. Len(s) \in Nat /\ DOMAIN s = 1 .. Len(s)
  BY LenProperties
<1>2. \A i \in 1 .. Len(s) : s[i] \in E
  BY ElementOfSeq
<1>3. QED
  BY <1>1, <1>2 DEF List, ToSet

\* A list of nothing is empty, any other begins with something.
LEMMA ListHead ==
  ASSUME NEW E, NEW s, List(s, E)
  PROVE  (s = << >> <=> E = {}) /\ (E # {} => s # << >> /\ Head(s) \in E /\ Head(s) = s[1])
<1>1. s \in Seq(E) /\ ToSet(s) = E
  BY DEF List
<1>2. s = << >> => E = {}
  BY <1>1 DEF ToSet
<1>3. E = {} => s = << >>
  <2>1. Len(s) \in Nat /\ \A i \in 1 .. Len(s) : s[i] \in E
    BY ListPlaces
  <2>2. ASSUME E = {} PROVE Len(s) = 0
    <3>1. 1 \notin 1 .. Len(s)
      BY <2>1, <2>2
    <3>2. QED
      BY <2>1, <3>1
  <2>3. QED
    BY <1>1, <2>2, EmptySeq
<1>4. ASSUME s # << >> PROVE Head(s) \in E /\ Head(s) = s[1]
  BY <1>1, <1>4, HeadTailProperties
<1>5. QED
  BY <1>2, <1>3, <1>4

\* Lists written out.
LEMMA ListOne ==
  ASSUME NEW x
  PROVE  List(<<x>>, {x}) /\ Len(<<x>>) = 1
<1> DEFINE s == <<x>>
<1>1. s \in Seq({x}) /\ Len(s) = 1 /\ s[1] = x
  OBVIOUS
<1> HIDE DEF s
<1>2. \A e \in {x} : \E i \in 1 .. Len(s) : s[i] = e
  BY <1>1
<1>3. List(s, {x}) /\ Len(s) = 1
  BY <1>1, <1>2, MakesList
<1>4. QED
  BY <1>3 DEF s

\* The empty list.
LEMMA ListNone == List(<< >>, {})
BY DEF List, ToSet

\* Two lists, one after the other.
LEMMA ListConcat ==
  ASSUME NEW E, NEW F, NEW s, NEW t, List(s, E), List(t, F)
  PROVE  List(s \o t, E \union F)
<1>1. s \in Seq(E) /\ ToSet(s) = E /\ t \in Seq(F) /\ ToSet(t) = F
  BY DEF List
<1>2. s \in Seq(E \union F) /\ t \in Seq(E \union F)
  BY <1>1, SeqMonotonic
<1>3. s \o t \in Seq(E \union F)
  BY <1>2, ConcatProperties
<1>4. Range(s \o t) = Range(s) \union Range(t)
  BY <1>2, RangeConcatenation
<1>5. QED
  BY <1>1, <1>3, <1>4 DEF List, ToSet, Range

\* What is kept of a list.
LEMMA ListOnly ==
  ASSUME NEW E, NEW K, NEW s, List(s, E), NEW places, \A i \in DOMAIN s : i \in places <=> s[i] \in K
  PROVE  List(Only(s, places), E \intersect K)
<1>1. s \in Seq(E) /\ Len(s) \in Nat /\ DOMAIN s = 1 .. Len(s)
  BY ListPlaces DEF List
<1>2. Only(s, places) \in Seq(E) /\ ToSet(Only(s, places)) = At(s, Len(s), places)
  BY <1>1, OnlyKeeps
<1>3. At(s, Len(s), places) = E \intersect K
  <2>1. (\A i \in 1 .. Len(s) : s[i] \in E) /\ \A e \in E : \E i \in 1 .. Len(s) : s[i] = e
    BY ListPlaces
  <2>2. \A i \in 1 .. Len(s) : i \in places <=> s[i] \in K
    BY <1>1
  <2>3. QED
    BY <2>1, <2>2 DEF At
<1>4. QED
  BY <1>2, <1>3, SeqLists

ImageOf(g, E) == {g[e] : e \in E}

\* A list put through a function.
LEMMA ListEach ==
  ASSUME NEW E, NEW s, List(s, E), NEW f, NEW g, \A i \in 1 .. Len(s) : f[i] = g[s[i]]
  PROVE  /\ List(SubSeq(f, 1, Len(s)), ImageOf(g, E))
         /\ Len(SubSeq(f, 1, Len(s))) = Len(s)
         /\ \A i \in 1 .. Len(s) : SubSeq(f, 1, Len(s))[i] = g[s[i]]
<1> DEFINE n == Len(s)
           G == ImageOf(g, E)
           r == SubSeq(f, 1, n)
<1>1. n \in Nat /\ \A i \in 1 .. n : s[i] \in E
  BY ListPlaces
<1>2. \A i \in 1 .. n : f[i] \in G
  BY <1>1 DEF ImageOf
<1>3. 1 \in Int /\ n \in Int
  BY <1>1
<1> HIDE DEF n, G
<1>4. r \in Seq(G) /\ Len(r) = (IF 1 <= n THEN n - 1 + 1 ELSE 0) /\ \A i \in 1 .. n - 1 + 1 : r[i] = f[1 + i - 1]
  BY <1>2, <1>3, SubSeqProperties
<1> HIDE DEF r
<1>5. Len(r) = n /\ \A i \in 1 .. n : r[i] = f[i]
  BY <1>1, <1>4
<1>6. \A i \in 1 .. n : r[i] = g[s[i]]
  BY <1>5 DEF n
<1>7. ASSUME NEW x \in G PROVE \E i \in 1 .. Len(r) : r[i] = x
  <2>1. PICK e \in E : x = g[e]
    BY DEF G, ImageOf
  <2>2. PICK i \in 1 .. n : s[i] = e
    BY ListPlaces DEF n
  <2>3. QED
    BY <1>5, <1>6, <2>1, <2>2
<1>8. List(r, G)
  BY <1>4, <1>7, MakesList
<1>9. QED
  BY <1>5, <1>6, <1>8 DEF r, n, G

\* Lists joined to one.
LEMMA ListFlat ==
  ASSUME NEW S, NEW EE, NEW ss, List(ss, EE), EE \subseteq Seq(S)
  PROVE  List(FlattenSeq(ss), UNION {ToSet(e) : e \in EE})
<1> DEFINE n == Len(ss)
           F == UNION {ToSet(e) : e \in EE}
           V == Seq(F)
           next == [p \in V \X (1 .. n) |-> IF p[2] = 1 THEN ss[1] ELSE p[1] \o ss[p[2]]]
           Rec(f) == f = [i \in 1 .. n |-> IF i = 1 THEN ss[i] ELSE f[i - 1] \o ss[i]]
           Upto(m) == UNION {ToSet(ss[i]) : i \in 1 .. m}
<1>1. ss \in Seq(EE) /\ n \in Nat /\ \A i \in 1 .. n : ss[i] \in EE
  BY ListPlaces
<1>2. ASSUME NEW i \in 1 .. n PROVE ss[i] \in V /\ List(ss[i], ToSet(ss[i]))
  <2>1. ss[i] \in Seq(S)
    BY <1>1
  <2>2. List(ss[i], ToSet(ss[i]))
    BY <2>1, SeqLists
  <2>3. ToSet(ss[i]) \subseteq F
    BY <1>1
  <2>4. QED
    BY <2>2, <2>3, SeqMonotonic DEF List
<1>3. CASE n = 0
  <2>1. FlattenSeq(ss) = ss /\ ss = << >>
    BY <1>1, <1>3, EmptySeq DEF FlattenSeq
  <2>2. EE = {}
    BY <2>1, ListHead
  <2>3. F = {}
    BY <2>2
  <2> HIDE DEF F
  <2>4. QED
    BY <2>1, <2>3, ListNone DEF F
<1>4. CASE n # 0
  <2>1. 1 \in 1 .. n /\ n \in 1 .. n
    BY <1>1, <1>4
  <2>2. << >> \in V
    OBVIOUS
  <2>3. next \in [V \X (1 .. n) -> V]
    <3>1. ASSUME NEW p \in V \X (1 .. n) PROVE (IF p[2] = 1 THEN ss[1] ELSE p[1] \o ss[p[2]]) \in V
      <4>1. p[1] \in V /\ ss[p[2]] \in V /\ ss[1] \in V
        BY <1>2, <2>1
      <4> HIDE DEF F
      <4>2. p[1] \o ss[p[2]] \in V
        BY <4>1, ConcatProperties
      <4>3. QED
        BY <4>1, <4>2
    <3>2. QED
      BY <3>1
  <2> HIDE DEF next
  <2>4. PICK f : Steps(f, V, n, << >>, next)
    <3> HIDE DEF V
    <3>1. QED
      BY <1>1, <2>2, <2>3, StepsExist
  <2>5. f \in [0 .. n -> V] /\ f[0] = << >> /\ \A i \in 1 .. n : f[i] = next[<<f[i - 1], i>>]
    BY <2>4 DEF Steps
  <2>6. ASSUME NEW i \in 1 .. n PROVE f[i] = IF i = 1 THEN ss[i] ELSE f[i - 1] \o ss[i]
    <3> HIDE DEF V
    <3>1. i - 1 \in 0 .. n /\ f[i] = next[<<f[i - 1], i>>]
      BY <1>1, <2>5
    <3>4. f[i - 1] \in V
      BY <2>5, <3>1
    <3>2. f[i] = IF i = 1 THEN ss[1] ELSE f[i - 1] \o ss[i]
      BY <3>1, <3>4 DEF next
    <3>3. QED
      BY <3>2
  <2>7. \E g : Rec(g)
    <3> DEFINE h == [i \in 1 .. n |-> f[i]]
    <3>1. ASSUME NEW i \in 1 .. n PROVE h[i] = IF i = 1 THEN ss[i] ELSE h[i - 1] \o ss[i]
      <4>1. i # 1 => i - 1 \in 1 .. n
        BY <1>1, <3>1
      <4>2. h[i] = f[i] /\ (i # 1 => h[i - 1] = f[i - 1])
        BY <4>1
      <4> HIDE DEF h
      <4>3. QED
        BY <2>6, <4>2
    <3>2. DOMAIN h = 1 .. n /\ h = [i \in 1 .. n |-> h[i]]
      OBVIOUS
    <3> HIDE DEF h
    <3>3. Rec(h)
      BY <3>1, <3>2
    <3>4. QED
      BY <3>3
  <2> DEFINE flatten == CHOOSE g : Rec(g)
  <2>8. FlattenSeq(ss) = flatten[n] /\ Rec(flatten)
    BY <1>4, <2>7 DEF FlattenSeq
  <2> HIDE DEF flatten
  <2>9. \A i \in 1 .. n : flatten[i] = IF i = 1 THEN ss[i] ELSE flatten[i - 1] \o ss[i]
    BY <2>8
  <2> DEFINE T == {m \in Nat : m + 1 <= n => List(flatten[m + 1], Upto(m + 1))}
  <2>10. 0 \in T
    <3>1. flatten[1] = ss[1]
      BY <2>1, <2>9
    <3>2. Upto(1) = ToSet(ss[1])
      OBVIOUS
    <3>3. List(flatten[1], Upto(1))
      BY <1>2, <2>1, <3>1, <3>2
    <3>4. QED
      BY <3>3
  <2>11. ASSUME NEW m \in Nat, m \in T PROVE m + 1 \in T
    <3>1. SUFFICES ASSUME (m + 1) + 1 <= n PROVE List(flatten[(m + 1) + 1], Upto((m + 1) + 1))
      OBVIOUS
    <3>2. (m + 1) + 1 \in 1 .. n /\ ((m + 1) + 1) - 1 = m + 1 /\ (m + 1) + 1 # 1 /\ m + 1 <= n
      BY <1>1, <3>1
    <3>3. flatten[(m + 1) + 1] = flatten[m + 1] \o ss[(m + 1) + 1]
      BY <2>9, <3>2
    <3>4. List(flatten[m + 1], Upto(m + 1)) /\ List(ss[(m + 1) + 1], ToSet(ss[(m + 1) + 1]))
      BY <1>2, <2>11, <3>2
    <3>5. Upto((m + 1) + 1) = Upto(m + 1) \union ToSet(ss[(m + 1) + 1])
      <4>1. 1 .. (m + 1) + 1 = (1 .. m + 1) \union {(m + 1) + 1}
        OBVIOUS
      <4>2. QED
        BY <4>1
    <3> HIDE DEF Upto
    <3>6. QED
      BY <3>3, <3>4, <3>5, ListConcat
  <2> HIDE DEF T
  <2>12. \A m \in Nat : m \in T
    BY <2>10, <2>11, NatSetInduction
  <2>13. n - 1 \in Nat /\ (n - 1) + 1 = n
    BY <1>1, <1>4
  <2>14. List(flatten[n], Upto(n))
    <3>1. n - 1 \in T
      BY <2>12, <2>13
    <3> HIDE DEF Upto
    <3>2. List(flatten[(n - 1) + 1], Upto((n - 1) + 1))
      BY <2>13, <3>1 DEF T
    <3>3. QED
      BY <2>13, <3>2
  <2>15. Upto(n) = F
    <3>1. \A e \in EE : \E i \in 1 .. n : ss[i] = e
      BY ListPlaces
    <3>2. QED
      BY <1>1, <3>1
  <2>16. QED
    BY <2>8, <2>14, <2>15
<1>5. QED
  BY <1>3, <1>4

\* The elements of a finite set in some order.
LEMMA SetListed ==
  ASSUME NEW E, IsFiniteSet(E)
  PROVE  List(SetToSeq(E), E) /\ Len(SetToSeq(E)) = Cardinality(E)
<1> DEFINE n == Cardinality(E)
<1>1. n \in Nat /\ \E f : ExistsBijection(1 .. n, E)
  BY FS_CardinalityType
<1>2. PICK f \in Bijection(1 .. n, E) : TRUE
  BY <1>1 DEF ExistsBijection
<1>3. f \in [1 .. n -> E] /\ IsInjective(f)
  BY <1>2 DEF Bijection, Injection, IsInjective
<1>4. SetToSeq(E) \in [1 .. n -> E] /\ IsInjective(SetToSeq(E))
  BY <1>3 DEF SetToSeq
<1> DEFINE s == SetToSeq(E)
<1> HIDE DEF s
<1>5. s \in [1 .. n -> E] /\ \A i, j \in 1 .. n : s[i] = s[j] => i = j
  BY <1>4 DEF s, IsInjective
<1>6. s \in Seq(E) /\ Len(s) = n
  BY <1>1, <1>5, SeqDef
<1>9. s \in Injection(1 .. n, E)
  BY <1>5 DEF Injection, IsInjective
<1>10. Cardinality(1 .. n) = n
  BY <1>1, FS_Interval
<1>11. s \in Surjection(1 .. n, E)
  BY <1>9, <1>10, FS_Injection
<1>7. ASSUME NEW e \in E PROVE \E i \in 1 .. n : s[i] = e
  BY <1>11 DEF Surjection
<1>8. QED
  <2>1. List(s, E) /\ Len(s) = n
    BY <1>6, <1>7, MakesList
  <2>2. QED
    BY <2>1 DEF s

----------------------------------------------------------------------------
(* Nodes.                                                                  *)

\* The children a node has under a name.
LEMMA ListChildren ==
  ASSUME NEW tag, NEW attrs, NEW children, NEW E, List(children, E), NEW name
  PROVE  List(getBinaryNodeChildren(node(tag, attrs, children), name), {c \in E : c.tag = name})
<1> DEFINE K == {c \in E : c.tag = name}
           places == {i \in DOMAIN children : children[i].tag = name}
<1>1. getBinaryNodeChildren(node(tag, attrs, children), name) = Only(children, places)
  BY DEF getBinaryNodeChildren, node, HasChildren
<1>2. \A i \in DOMAIN children : i \in places <=> children[i] \in K
  BY ListPlaces
<1>3. E \intersect K = K
  OBVIOUS
<1> HIDE DEF K, places
<1>4. List(Only(children, places), E \intersect K)
  BY <1>2, ListOnly
<1>5. QED
  BY <1>1, <1>3, <1>4 DEF K

\* The one child of a name, or none.
LEMMA OneChild ==
  ASSUME NEW tag, NEW attrs, NEW children, NEW E, List(children, E), NEW x \in E, \A c \in E : c.tag = x.tag => c = x
  PROVE  getBinaryNodeChild(node(tag, attrs, children), x.tag) = x
<1> DEFINE named == getBinaryNodeChildren(node(tag, attrs, children), x.tag)
           K == {c \in E : c.tag = x.tag}
<1>1. List(named, K)
  BY ListChildren
<1>2. K = {x}
  OBVIOUS
<1> HIDE DEF named, K
<1>3. named # << >> /\ Head(named) = x
  BY <1>1, <1>2, ListHead
<1>4. QED
  BY <1>3 DEF getBinaryNodeChild, named

\* A child that is not there is read as no node.
LEMMA NoChild ==
  ASSUME NEW tag, NEW attrs, NEW children, NEW E, List(children, E), NEW name, \A c \in E : c.tag # name
  PROVE  /\ getBinaryNodeChildren(node(tag, attrs, children), name) = << >>
         /\ getBinaryNodeChild(node(tag, attrs, children), name) = NoNode
<1> DEFINE named == getBinaryNodeChildren(node(tag, attrs, children), name)
           K == {c \in E : c.tag = name}
<1>1. List(named, K)
  BY ListChildren
<1>2. K = {}
  OBVIOUS
<1> HIDE DEF named, K
<1>3. named = << >>
  BY <1>1, <1>2, ListHead
<1>4. QED
  BY <1>3 DEF getBinaryNodeChild, named

\* The children of the nodes of a list.
LEMMA ListBelow ==
  ASSUME NEW nodes, NEW E, List(nodes, E), NEW name, NEW F,
         \A n \in E : getBinaryNodeChildren(n, name) \in Seq(F),
         \A x \in F : \E n \in E : x \in ToSet(getBinaryNodeChildren(n, name))
  PROVE  List(Below(nodes, name), F)
<1> DEFINE f == [i \in 1 .. Len(nodes) |-> getBinaryNodeChildren(nodes[i], name)]
           g == [n \in E |-> getBinaryNodeChildren(n, name)]
           EE == ImageOf(g, E)
<1>1. \A i \in 1 .. Len(nodes) : f[i] = g[nodes[i]]
  BY ListPlaces
<1>2. Below(nodes, name) = FlattenSeq(SubSeq(f, 1, Len(nodes)))
  BY DEF Below, Each
<1>3. List(SubSeq(f, 1, Len(nodes)), EE)
  <2> HIDE DEF f, g
  <2>1. QED
    BY <1>1, ListEach
<1>4. EE \subseteq Seq(F)
  BY DEF ImageOf
<1>5. UNION {ToSet(e) : e \in EE} = F
  <2>1. \A n \in E : ToSet(g[n]) \subseteq F
    BY SeqLists
  <2>2. QED
    BY <2>1 DEF ImageOf
<1> HIDE DEF f, g, EE
<1>6. List(FlattenSeq(SubSeq(f, 1, Len(nodes))), UNION {ToSet(e) : e \in EE})
  BY <1>3, <1>4, ListFlat
<1>7. QED
  BY <1>2, <1>5, <1>6

\* The children of one node.
LEMMA ListBelowOne ==
  ASSUME NEW nodes, NEW tag, NEW attrs, NEW children, NEW E, List(nodes, {node(tag, attrs, children)}), List(children, E), NEW name
  PROVE  List(Below(nodes, name), {c \in E : c.tag = name})
<1> DEFINE F == {c \in E : c.tag = name}
           n == node(tag, attrs, children)
<1>1. List(getBinaryNodeChildren(n, name), F)
  BY ListChildren
<1> HIDE DEF F, n
<1>2. getBinaryNodeChildren(n, name) \in Seq(F) /\ ToSet(getBinaryNodeChildren(n, name)) = F
  BY <1>1 DEF List
<1>3. List(nodes, {n})
  BY DEF n
<1>4. List(Below(nodes, name), F)
  BY <1>2, <1>3, ListBelow
<1>5. QED
  BY <1>4 DEF F

----------------------------------------------------------------------------
(* The devices a text goes to.                                             *)

\* The only hypothesis the code does not establish: all devices are of one domain.
OneServer == \A d \in Devices : d.server = S_WHATSAPP_NET

\* A device as a list of devices names it.
Wire(d) == [user |-> d.user, device |-> DeviceId(d), server |-> S_WHATSAPP_NET]

\* What a device query and its answer are made of.
LEMMA UsersOf ==
  ASSUME NEW attrs, NEW items, NEW E, List(items, E), \A e \in E : e.tag = "user"
  PROVE  List(Below(Below(getBinaryNodeChildren(
                node("iq", attrs, <<node("usync", NoAttrs, <<node("list", NoAttrs, items)>>)>>), "usync"), "list"), "user"), E)
<1> DEFINE L == node("list", NoAttrs, items)
           U == node("usync", NoAttrs, <<L>>)
<1>1. List(<<U>>, {U}) /\ List(<<L>>, {L})
  BY ListOne
<1>2. {c \in {U} : c.tag = "usync"} = {U} /\ {c \in {L} : c.tag = "list"} = {L} /\ {c \in E : c.tag = "user"} = E
  BY DEF node
<1>3. List(getBinaryNodeChildren(node("iq", attrs, <<U>>), "usync"), {c \in {U} : c.tag = "usync"})
  BY <1>1, ListChildren
<1>4. List(getBinaryNodeChildren(node("iq", attrs, <<U>>), "usync"), {U})
  BY <1>2, <1>3
<1>5. List(Below(getBinaryNodeChildren(node("iq", attrs, <<U>>), "usync"), "list"), {c \in {L} : c.tag = "list"})
  <2> HIDE DEF L
  <2>1. QED
    BY <1>1, <1>4, ListBelowOne DEF U
<1>6. List(Below(getBinaryNodeChildren(node("iq", attrs, <<U>>), "usync"), "list"), {L})
  BY <1>2, <1>5
<1>7. List(Below(Below(getBinaryNodeChildren(node("iq", attrs, <<U>>), "usync"), "list"), "user"), {c \in E : c.tag = "user"})
  <2> HIDE DEF U
  <2>1. QED
    BY <1>6, ListBelowOne DEF L
<1>8. QED
  BY <1>2, <1>7

\* One part of the answer: the devices of an account.
Listed(account) ==
  Each(LAMBDA d : bare("device", [id |-> DeviceId(d)]), SetToSeq({d \in Devices : Account(d) = account}))
Listing(user) ==
  node("user", user.attrs, <<node("devices", NoAttrs, <<node("device-list", NoAttrs, Listed(user.attrs.jid))>>)>>)
AsListed(account) == Listing(bare("user", [jid |-> account]))
Answer(items) == node("iq", NoAttrs, <<node("usync", NoAttrs, <<node("list", NoAttrs, items)>>)>>)
DevicesIn(account) == {d \in Devices : Account(d) = account}

\* What the server lists of an account is read as its devices.
LEMMA DevicesListed ==
  ASSUME NEW account
  PROVE  List(DevicesBelow(AsListed(account)), {bare("device", [id |-> DeviceId(d)]) : d \in DevicesIn(account)})
<1> DEFINE D == DevicesIn(account)
           B == {bare("device", [id |-> DeviceId(d)]) : d \in D}
           s == SetToSeq(D)
           f == [i \in 1 .. Len(s) |-> bare("device", [id |-> DeviceId(s[i])])]
           g == [d \in D |-> bare("device", [id |-> DeviceId(d)])]
           L == node("device-list", NoAttrs, Listed(account))
           V == node("devices", NoAttrs, <<L>>)
<1>1. List(s, D)
  <2>1. IsFiniteSet(D)
    BY DevicesAssumption, FS_Subset DEF DevicesIn
  <2>2. QED
    BY <2>1, SetListed
<1>2. Listed(account) = SubSeq(f, 1, Len(s))
  BY DEF Listed, Each, DevicesIn
<1>3. \A i \in 1 .. Len(s) : f[i] = g[s[i]]
  <2> HIDE DEF s, D
  <2>1. QED
    BY <1>1, ListPlaces
<1>4. List(SubSeq(f, 1, Len(s)), ImageOf(g, D))
  <2> HIDE DEF f, g, s, D
  <2>1. QED
    BY <1>1, <1>3, ListEach
<1>5. ImageOf(g, D) = B
  BY DEF ImageOf
<1>6. List(Listed(account), B)
  BY <1>2, <1>4, <1>5
<1>7. AsListed(account) = node("user", [jid |-> account], <<V>>)
  BY DEF AsListed, Listing, bare
<1>8. List(<<V>>, {V}) /\ List(<<L>>, {L})
  BY ListOne
<1>9. {c \in {V} : c.tag = "devices"} = {V} /\ {c \in {L} : c.tag = "device-list"} = {L} /\ {c \in B : c.tag = "device"} = B
  BY DEF node, bare
<1> HIDE DEF B
<1>10. List(getBinaryNodeChildren(AsListed(account), "devices"), {V})
  <2>1. List(getBinaryNodeChildren(node("user", [jid |-> account], <<V>>), "devices"), {c \in {V} : c.tag = "devices"})
    BY <1>8, ListChildren
  <2>2. QED
    BY <1>7, <1>9, <2>1
<1>11. List(Below(getBinaryNodeChildren(AsListed(account), "devices"), "device-list"), {L})
  <2>1. List(Below(getBinaryNodeChildren(AsListed(account), "devices"), "device-list"), {c \in {L} : c.tag = "device-list"})
    <3> HIDE DEF L
    <3>1. QED
      BY <1>8, <1>10, ListBelowOne DEF V
  <2>2. QED
    BY <1>9, <2>1
<1>12. List(Below(Below(getBinaryNodeChildren(AsListed(account), "devices"), "device-list"), "device"), {c \in B : c.tag = "device"})
  <2> HIDE DEF V
  <2>1. QED
    BY <1>6, <1>11, ListBelowOne DEF L
<1>13. QED
  BY <1>9, <1>12 DEF DevicesBelow, B

\* The devices read of an account are its devices as a list names them.
LEMMA WiresListed ==
  ASSUME OneServer, NEW account
  PROVE  List(deviceJids(AsListed(account)), {Wire(d) : d \in DevicesIn(account)})
<1> DEFINE D == DevicesIn(account)
           B == {bare("device", [id |-> DeviceId(d)]) : d \in D}
           devices == DevicesBelow(AsListed(account))
           places == {i \in DOMAIN devices : Has(devices[i], "id") /\ Has(AsListed(account), "jid")}
           Jid(device) == [user |-> account.user, device |-> device.attrs.id, server |-> S_WHATSAPP_NET]
           s == Only(devices, places)
           f == [i \in 1 .. Len(s) |-> Jid(s[i])]
           g == [b \in B |-> Jid(b)]
<1>1. List(devices, B)
  BY DevicesListed
<1>2. Has(AsListed(account), "jid") /\ AsListed(account).attrs.jid = account /\ \A b \in B : Has(b, "id")
  BY DEF AsListed, Listing, node, bare, Has
<1>3. List(s, B)
  <2> HIDE DEF B, devices
  <2>1. \A i \in DOMAIN devices : i \in places <=> devices[i] \in B
    BY <1>1, <1>2, ListPlaces
  <2> HIDE DEF places
  <2>2. List(s, B \intersect B)
    BY <1>1, <2>1, ListOnly
  <2>3. QED
    BY <2>2
<1>4. deviceJids(AsListed(account)) = SubSeq(f, 1, Len(s))
  BY <1>2 DEF deviceJids, Each
<1>5. \A i \in 1 .. Len(s) : f[i] = g[s[i]]
  <2> HIDE DEF s, B, Jid
  <2>1. QED
    BY <1>3, ListPlaces
<1>6. List(SubSeq(f, 1, Len(s)), ImageOf(g, B))
  <2> HIDE DEF f, g, s, B
  <2>1. QED
    BY <1>3, <1>5, ListEach
<1>7. ImageOf(g, B) = {Wire(d) : d \in D}
  <2>1. ASSUME NEW d \in D PROVE Jid(bare("device", [id |-> DeviceId(d)])) = Wire(d)
    BY DEF DevicesIn, Account, jidNormalizedUser, User, Wire, bare
  <2>2. QED
    BY <2>1 DEF ImageOf
<1>8. QED
  BY <1>4, <1>6, <1>7

\* The accounts of a chat are listed.
LEMMA AccountsListed ==
  ASSUME NEW t \in Texts
  PROVE  /\ List(Accounts(t), ToSet(Accounts(t)))
         /\ ToSet(Accounts(t)) = IF isJidGroup(t.to) THEN Members ELSE {jidNormalizedUser(t.to), Account(t.author)}
<1> DEFINE A == IF isJidGroup(t.to) THEN Members ELSE {jidNormalizedUser(t.to), Account(t.author)}
<1>1. IsFiniteSet(Members) /\ IsFiniteSet({jidNormalizedUser(t.to), Account(t.author)})
  <2>1. IsFiniteSet({jidNormalizedUser(t.to)} \union {Account(t.author)})
    BY FS_Singleton, FS_AddElement
  <2>2. {jidNormalizedUser(t.to)} \union {Account(t.author)} = {jidNormalizedUser(t.to), Account(t.author)}
    OBVIOUS
  <2>3. QED
    BY <2>1, <2>2, DevicesAssumption
<1>2. List(Accounts(t), A)
  BY <1>1, SetListed DEF Accounts
<1>3. QED
  BY <1>2 DEF List

\* Asking for the devices of accounts gives them all.
LEMMA QueryListed ==
  ASSUME OneServer, NEW accounts, NEW A, List(accounts, A)
  PROVE  List(parseDeviceQuery(DevicesOf(buildDeviceQuery(accounts))), {Wire(d) : d \in {e \in Devices : Account(e) \in A}})
<1> DEFINE Ask(jid) == bare("user", [jid |-> jid])
           q == [i \in 1 .. Len(accounts) |-> Ask(accounts[i])]
           asked == SubSeq(q, 1, Len(accounts))
           ask == [jid \in A |-> Ask(jid)]
           Q == ImageOf(ask, A)
           query == buildDeviceQuery(accounts)
           users == Below(Below(getBinaryNodeChildren(query, "usync"), "list"), "user")
<1>1. List(asked, Q)
  <2>1. \A i \in 1 .. Len(accounts) : q[i] = ask[accounts[i]]
    BY ListPlaces
  <2> HIDE DEF q, ask
  <2>2. QED
    BY <2>1, ListEach
<1>2. \A e \in Q : e.tag = "user"
  BY DEF ImageOf, bare
<1>3. query = node("iq", [to |-> S_WHATSAPP_NET, type |-> "get", xmlns |-> "usync"],
                   <<node("usync", NoAttrs, <<node("list", NoAttrs, asked)>>)>>)
  BY DEF buildDeviceQuery, Each
<1>4. List(users, Q)
  <2> HIDE DEF asked, Q, query
  <2>1. QED
    BY <1>1, <1>2, <1>3, UsersOf
<1> DEFINE h == [i \in 1 .. Len(users) |-> Listing(users[i])]
           listing == [user \in Q |-> Listing(user)]
           listings == SubSeq(h, 1, Len(users))
           R == ImageOf(listing, Q)
           result == DevicesOf(query)
           found == Below(Below(getBinaryNodeChildren(result, "usync"), "list"), "user")
<1>5. List(listings, R)
  <2> HIDE DEF Q, users
  <2>1. \A i \in 1 .. Len(users) : h[i] = listing[users[i]]
    BY <1>4, ListPlaces
  <2> HIDE DEF h, listing
  <2>2. QED
    BY <1>4, <2>1, ListEach
<1>6. R = {AsListed(account) : account \in A}
  BY DEF ImageOf, AsListed
<1>7. \A e \in R : e.tag = "user"
  <2>1. \A account \in A : AsListed(account).tag = "user"
    BY DEF AsListed, Listing, node
  <2> HIDE DEF R
  <2>2. QED
    BY <1>6, <2>1
<1>8. result = node("iq", NoAttrs, <<node("usync", NoAttrs, <<node("list", NoAttrs, listings)>>)>>)
  <2> HIDE DEF query
  <2>1. QED
    BY DEF DevicesOf, Each, Listing, Listed
<1>9. List(found, R)
  <2> HIDE DEF result, listings, R
  <2>1. QED
    BY <1>5, <1>7, <1>8, UsersOf
<1> DEFINE k == [i \in 1 .. Len(found) |-> deviceJids(found[i])]
           jids == [user \in R |-> deviceJids(user)]
           W == {Wire(d) : d \in Devices}
           EE == ImageOf(jids, R)
           lists == SubSeq(k, 1, Len(found))
<1>10. List(lists, EE)
  <2> HIDE DEF R, found
  <2>1. \A i \in 1 .. Len(found) : k[i] = jids[found[i]]
    BY <1>9, ListPlaces
  <2> HIDE DEF k, jids
  <2>2. QED
    BY <1>9, <2>1, ListEach
<1>11. \A account \in A : jids[AsListed(account)] = deviceJids(AsListed(account))
  BY <1>6
<1>12. EE = {deviceJids(AsListed(account)) : account \in A}
  BY <1>6 DEF ImageOf
<1>13. \A account \in A : List(deviceJids(AsListed(account)), {Wire(d) : d \in DevicesIn(account)})
  BY WiresListed
<1>14. EE \subseteq Seq(W)
  <2>1. ASSUME NEW account \in A PROVE deviceJids(AsListed(account)) \in Seq(W)
    <3> DEFINE X == {Wire(d) : d \in DevicesIn(account)}
    <3>1. X \subseteq W
      BY DEF DevicesIn
    <3>2. deviceJids(AsListed(account)) \in Seq(X)
      BY <1>13 DEF List
    <3> HIDE DEF X, W
    <3>3. QED
      BY <3>1, <3>2, SeqMonotonic
  <2>2. QED
    BY <1>12, <2>1
<1>15. UNION {ToSet(e) : e \in EE} = {Wire(d) : d \in {e \in Devices : Account(e) \in A}}
  <2>1. \A account \in A : ToSet(deviceJids(AsListed(account))) = {Wire(d) : d \in DevicesIn(account)}
    BY <1>13 DEF List
  <2> HIDE DEF EE
  <2>2. UNION {ToSet(e) : e \in EE} = UNION {ToSet(deviceJids(AsListed(account))) : account \in A}
    BY <1>12
  <2>3. QED
    BY <2>1, <2>2 DEF DevicesIn
<1>16. parseDeviceQuery(result) = FlattenSeq(lists)
  BY DEF parseDeviceQuery, Each
<1> HIDE DEF EE, W, lists, result
<1>17. List(FlattenSeq(lists), UNION {ToSet(e) : e \in EE})
  BY <1>10, <1>14, ListFlat
<1>18. QED
  BY <1>15, <1>16, <1>17 DEF result

\* Where a device is known by its address.
LEMMA Addresses ==
  ASSUME OneServer, NEW d \in Devices
  PROVE  /\ sessionAddress(Wire(d)) = sessionAddress(d) /\ OverTheWire(Wire(d)) = d
         /\ jidNormalizedUser(Wire(d)) = Account(d) /\ Account(d) = User(d.user, S_WHATSAPP_NET)
         /\ \A e \in Devices : sessionAddress(d) = sessionAddress(e) => d = e
         /\ d = [user |-> d.user, device |-> d.device, server |-> S_WHATSAPP_NET]
<1>1. \A e \in Devices : /\ e = [user |-> e.user, device |-> e.device, server |-> S_WHATSAPP_NET]
                         /\ e.device = None \/ e.device \in Nat \ {0}
  BY DevicesAssumption DEF OneServer
<1>2. None \notin Nat
  BY NoneAssumption
<1>3. \A e \in Devices : (IF e.device = None THEN 0 ELSE e.device) = (IF d.device = None THEN 0 ELSE d.device) => e.device = d.device
  BY <1>1, <1>2
<1>4. \A e \in Devices : sessionAddress(d) = sessionAddress(e) => d = e
  BY <1>1, <1>3 DEF sessionAddress
<1>5. OverTheWire(Wire(d)) = d
  BY <1>1, <1>2 DEF OverTheWire, Wire, DeviceId
<1>6. sessionAddress(Wire(d)) = sessionAddress(d)
  BY <1>1, <1>2 DEF sessionAddress, Wire, DeviceId
<1>7. jidNormalizedUser(Wire(d)) = Account(d) /\ Account(d) = User(d.user, S_WHATSAPP_NET)
  BY <1>1 DEF jidNormalizedUser, Wire, Account, S_WHATSAPP_NET
<1>8. QED
  BY <1>1, <1>4, <1>5, <1>6, <1>7

\* A text goes to its audience.
LEMMA TargetsListed ==
  ASSUME OneServer, NEW t \in Texts
  PROVE  List(TargetsOf(t), {Wire(d) : d \in Audience(t)})
<1> DEFINE A == ToSet(Accounts(t))
           D == {e \in Devices : Account(e) \in A}
           devices == parseDeviceQuery(DevicesOf(buildDeviceQuery(Accounts(t))))
           places == {i \in DOMAIN devices : sessionAddress(devices[i]) # sessionAddress(t.author)}
           W == {Wire(d) : d \in D}
           K == {Wire(d) : d \in Devices \ {t.author}}
<1>1. List(devices, W)
  <2> HIDE DEF A
  <2>1. List(Accounts(t), A)
    BY AccountsListed DEF A
  <2>2. QED
    BY <2>1, QueryListed
<1>2. TargetsOf(t) = Only(devices, places)
  BY DEF TargetsOf
<1>3. t.author \in Devices
  BY TextsAssumption
<1> HIDE DEF devices
<1>4. \A i \in DOMAIN devices : \E d \in D : devices[i] = Wire(d)
  BY <1>1, ListPlaces
<1>5. ASSUME NEW d \in Devices PROVE sessionAddress(Wire(d)) # sessionAddress(t.author) <=> Wire(d) \in K
  <2>1. \A e \in Devices : Wire(d) = Wire(e) => d = e
    BY Addresses
  <2>2. QED
    BY <1>3, <2>1, Addresses
<1>6. \A i \in DOMAIN devices : i \in places <=> devices[i] \in K
  BY <1>4, <1>5
<1>7. W \intersect K = {Wire(d) : d \in Audience(t)}
  <2>1. Audience(t) = D \ {t.author}
    BY DEF Audience
  <2>2. \A d, e \in Devices : Wire(d) = Wire(e) => d = e
    BY Addresses
  <2>3. QED
    BY <2>1, <2>2
<1> HIDE DEF places, W, K
<1>8. List(Only(devices, places), W \intersect K)
  BY <1>1, <1>6, ListOnly
<1>9. QED
  BY <1>2, <1>7, <1>8

----------------------------------------------------------------------------
(* The bundles a session is opened from.                                   *)

\* Division with a remainder.
LEMMA DivMod ==
  ASSUME NEW x \in Nat, NEW b \in Nat, b > 0
  PROVE  x \div b \in Nat /\ x % b \in Nat /\ x % b < b /\ x = (x \div b) * b + (x % b)
OBVIOUS

\* A number below another times a third, divided.
LEMMA DivBelow ==
  ASSUME NEW x \in Nat, NEW b \in Nat, b > 0, NEW c \in Nat, x < c * b
  PROVE  x \div b < c
<1>1. x \div b \in Nat /\ x % b \in Nat /\ x = (x \div b) * b + (x % b)
  BY DivMod
<1>2. (x \div b) * b <= x
  BY <1>1
<1>3. SUFFICES ASSUME c <= x \div b PROVE FALSE
  BY <1>1
<1> DEFINE y == x \div b
<1>4. y \in Nat /\ y * b <= x /\ c <= y
  BY <1>1, <1>2, <1>3
<1> HIDE DEF y
<1>5. PICK k \in Nat : y = c + k
  <2>1. y - c \in Nat /\ y = c + (y - c)
    BY <1>4
  <2>2. QED
    BY <2>1
<1>6. y * b = c * b + k * b /\ k * b \in Nat /\ c * b \in Nat
  BY <1>5
<1>7. QED
  BY <1>4, <1>6

\* What fits three bytes is read as it was written.
LEMMA BigEndian ==
  ASSUME NEW v \in Nat, v < Base * Base * Base
  PROVE  encodeBigEndian(v, 3) \in Seq(Nat) /\ decodeBigEndian(encodeBigEndian(v, 3)) = v
<1>1. Base \in Nat /\ Base > 0
  BY BoundsAssumption DEF MAX_PAD
<1> DEFINE Shifts(f) == f = [i \in 0 .. 3 |-> IF i = 0 THEN v ELSE f[i - 1] \div Base]
           shifted == CHOOSE f : Shifts(f)
           bytes == encodeBigEndian(v, 3)
<1>2. \E f : Shifts(f)
  <2> DEFINE v1 == v \div Base
             v2 == v1 \div Base
             v3 == v2 \div Base
             h == [i \in 0 .. 3 |-> IF i = 0 THEN v ELSE IF i = 1 THEN v1 ELSE IF i = 2 THEN v2 ELSE v3]
  <2>1. h[0] = v /\ h[1] = v1 /\ h[2] = v2 /\ h[3] = v3
    OBVIOUS
  <2>2. DOMAIN h = 0 .. 3 /\ h = [i \in 0 .. 3 |-> h[i]]
    OBVIOUS
  <2> HIDE DEF h
  <2>3. ASSUME NEW i \in 0 .. 3 PROVE h[i] = IF i = 0 THEN v ELSE h[i - 1] \div Base
    <3>1. i = 0 \/ i = 1 \/ i = 2 \/ i = 3
      OBVIOUS
    <3>2. CASE i = 0
      BY <2>1, <3>2
    <3>3. CASE i = 1
      BY <2>1, <3>3
    <3>4. CASE i = 2
      BY <2>1, <3>4
    <3>5. CASE i = 3
      BY <2>1, <3>5
    <3>6. QED
      BY <3>1, <3>2, <3>3, <3>4, <3>5
  <2>4. Shifts(h)
    BY <2>2, <2>3
  <2>5. QED
    BY <2>4
<1>3. Shifts(shifted) /\ bytes = [i \in 1 .. 3 |-> shifted[3 - i] % Base]
  BY <1>2 DEF encodeBigEndian
<1> HIDE DEF shifted, bytes
<1> DEFINE v1 == v \div Base
           v2 == v1 \div Base
<1>4. \A i \in 0 .. 3 : shifted[i] = IF i = 0 THEN v ELSE shifted[i - 1] \div Base
  BY <1>3
<1>5. shifted[0] = v /\ shifted[1] = v1 /\ shifted[2] = v2
  <2>1. shifted[0] = v
    BY <1>4
  <2>2. shifted[1] = v1
    BY <1>4, <2>1
  <2>3. shifted[2] = v2
    BY <1>4, <2>2
  <2>4. QED
    BY <2>1, <2>2, <2>3
<1>6. bytes[1] = v2 % Base /\ bytes[2] = v1 % Base /\ bytes[3] = v % Base /\ DOMAIN bytes = 1 .. 3
  <2>1. DOMAIN bytes = 1 .. 3 /\ \A i \in 1 .. 3 : bytes[i] = shifted[3 - i] % Base
    BY <1>3
  <2>2. bytes[1] = shifted[2] % Base /\ bytes[2] = shifted[1] % Base /\ bytes[3] = shifted[0] % Base
    BY <2>1
  <2>3. QED
    BY <1>5, <2>1, <2>2
<1>7. /\ v1 \in Nat /\ v2 \in Nat /\ v % Base \in Nat /\ v1 % Base \in Nat /\ v2 % Base \in Nat
      /\ v = v1 * Base + (v % Base) /\ v1 = v2 * Base + (v1 % Base)
  <2>1. v1 \in Nat /\ v % Base \in Nat /\ v = v1 * Base + (v % Base)
    BY <1>1, DivMod
  <2> HIDE DEF v1
  <2>2. v2 \in Nat /\ v1 % Base \in Nat /\ v1 = v2 * Base + (v1 % Base)
    BY <1>1, <2>1, DivMod
  <2> HIDE DEF v2
  <2>3. v2 % Base \in Nat
    BY <1>1, <2>2, DivMod
  <2>4. QED
    BY <2>1, <2>2, <2>3
<1>8. v2 % Base = v2
  <2>1. Base * Base \in Nat
    BY <1>1
  <2>2. v1 < Base * Base
    BY <1>1, <2>1, DivBelow
  <2>3. v1 \in Nat
    BY <1>7
  <2> HIDE DEF v1
  <2>4. v2 < Base
    BY <1>1, <2>2, <2>3, DivBelow
  <2>5. v2 \in Nat
    BY <1>7
  <2> HIDE DEF v2
  <2>6. QED
    BY <1>1, <2>4, <2>5
<1> HIDE DEF v1, v2
<1>9. bytes \in Seq(Nat) /\ Len(bytes) = 3
  <2>1. \A i \in 1 .. 3 : bytes[i] \in Nat
    <3>1. \A i \in 1 .. 3 : i = 1 \/ i = 2 \/ i = 3
      OBVIOUS
    <3>2. QED
      BY <1>6, <1>7, <3>1
  <2>2. bytes = [i \in 1 .. 3 |-> bytes[i]]
    BY <1>3
  <2>3. bytes \in [1 .. 3 -> Nat]
    BY <2>1, <2>2
  <2>4. \E n \in Nat : bytes \in [1 .. n -> Nat]
    BY <2>3
  <2>5. bytes \in Seq(Nat)
    BY <2>4, SeqDef
  <2>6. Len(bytes) = 3
    BY <1>6, <2>5, LenProperties
  <2>7. QED
    BY <2>5, <2>6
<1> DEFINE Values(f) == f = [i \in 0 .. 3 |-> IF i = 0 THEN 0 ELSE f[i - 1] * Base + bytes[i]]
           value == CHOOSE f : Values(f)
<1>10. \E f : Values(f)
  <2> DEFINE w1 == 0 * Base + bytes[1]
             w2 == w1 * Base + bytes[2]
             w3 == w2 * Base + bytes[3]
             h == [i \in 0 .. 3 |-> IF i = 0 THEN 0 ELSE IF i = 1 THEN w1 ELSE IF i = 2 THEN w2 ELSE w3]
  <2>1. h[0] = 0 /\ h[1] = w1 /\ h[2] = w2 /\ h[3] = w3
    OBVIOUS
  <2>2. DOMAIN h = 0 .. 3 /\ h = [i \in 0 .. 3 |-> h[i]]
    OBVIOUS
  <2> HIDE DEF h
  <2>3. ASSUME NEW i \in 0 .. 3 PROVE h[i] = IF i = 0 THEN 0 ELSE h[i - 1] * Base + bytes[i]
    <3>1. i = 0 \/ i = 1 \/ i = 2 \/ i = 3
      OBVIOUS
    <3>2. CASE i = 0
      BY <2>1, <3>2
    <3>3. CASE i = 1
      BY <2>1, <3>3
    <3>4. CASE i = 2
      BY <2>1, <3>4
    <3>5. CASE i = 3
      BY <2>1, <3>5
    <3>6. QED
      BY <3>1, <3>2, <3>3, <3>4, <3>5
  <2>4. Values(h)
    BY <2>2, <2>3
  <2>5. QED
    BY <2>4
<1>11. Values(value) /\ decodeBigEndian(bytes) = value[3]
  BY <1>9, <1>10 DEF decodeBigEndian
<1> HIDE DEF value
<1>12. \A i \in 0 .. 3 : value[i] = IF i = 0 THEN 0 ELSE value[i - 1] * Base + bytes[i]
  BY <1>11
<1>13. value[0] = 0 /\ value[1] = value[0] * Base + bytes[1] /\ value[2] = value[1] * Base + bytes[2]
       /\ value[3] = value[2] * Base + bytes[3]
  BY <1>12
<1>14. value[1] = v2
  BY <1>1, <1>6, <1>7, <1>8, <1>13
<1>15. value[2] = v1
  BY <1>6, <1>7, <1>13, <1>14
<1>16. value[3] = v
  BY <1>6, <1>7, <1>13, <1>15
<1>17. QED
  BY <1>9, <1>11, <1>16 DEF bytes

\* A one-time key as the server keeps it.
PostedKey(d, id) == keyNode("key", [keyId |-> id, public |-> <<d, id>>])

\* A key node: its id and its value.
IdLeaf(id) == leaf("id", NoAttrs, encodeBigEndian(id, 3))
ValueLeaf(public) == leaf("value", NoAttrs, public)

\* What is read from the node of a key.
LEMMA KeyNodes ==
  ASSUME NEW name, NEW key, NEW last, NEW L, List(last, L), \A c \in L : c.tag \notin {"id", "value"}
  PROVE  LET n == node(name, NoAttrs, keyNode(name, key).content.value \o last)
         IN  /\ getBinaryNodeChild(n, "id") = IdLeaf(key.keyId)
             /\ getBinaryNodeChild(n, "value") = ValueLeaf(key.public)
             /\ \A c \in L : (\A e \in L : e.tag = c.tag => e = c) => getBinaryNodeChild(n, c.tag) = c
<1> DEFINE a == IdLeaf(key.keyId)
           b == ValueLeaf(key.public)
           E == {a, b} \union L
           s == keyNode(name, key).content.value
<1>1. s = <<a, b>>
  BY DEF keyNode, node, IdLeaf, ValueLeaf
<1>2. List(<<a, b>>, {a, b})
  <2>1. <<a, b>> = <<a>> \o <<b>>
    OBVIOUS
  <2> HIDE DEF a, b
  <2>2. List(<<a>>, {a}) /\ List(<<b>>, {b})
    BY ListOne
  <2>3. List(<<a>> \o <<b>>, {a} \union {b})
    BY <2>2, ListConcat
  <2>4. {a} \union {b} = {a, b}
    OBVIOUS
  <2>5. QED
    BY <2>1, <2>3, <2>4
<1>3. a.tag = "id" /\ b.tag = "value"
  BY DEF IdLeaf, ValueLeaf, leaf
<1> HIDE DEF a, b, s
<1>4. List(s \o last, E)
  BY <1>1, <1>2, ListConcat
<1>5. a \in E /\ b \in E /\ \A c \in E : c.tag = "id" => c = a
  BY <1>3
<1>6. \A c \in E : c.tag = "value" => c = b
  BY <1>3
<1>7. \A c \in L : c \in E /\ ((\A e \in L : e.tag = c.tag => e = c) => \A e \in E : e.tag = c.tag => e = c)
  BY <1>3
<1> HIDE DEF E
<1>8. getBinaryNodeChild(node(name, NoAttrs, s \o last), a.tag) = a
  BY <1>3, <1>4, <1>5, OneChild
<1>9. getBinaryNodeChild(node(name, NoAttrs, s \o last), b.tag) = b
  BY <1>3, <1>4, <1>5, <1>6, OneChild
<1>10. ASSUME NEW c \in L, \A e \in L : e.tag = c.tag => e = c
       PROVE  getBinaryNodeChild(node(name, NoAttrs, s \o last), c.tag) = c
  BY <1>4, <1>7, <1>10, OneChild
<1>11. QED
  BY <1>3, <1>8, <1>9, <1>10 DEF a, b, s

\* The parts of an upload.
Registration(d) == leaf("registration", NoAttrs, encodeBigEndian(Creds(d).registrationId, 4))
Identity(d) == leaf("identity", NoAttrs, d)
Signature(d) == leaf("signature", NoAttrs, Creds(d).signedPreKey.signature)
Skey(d) == node("skey", NoAttrs, keyNode("skey", Creds(d).signedPreKey).content.value \o <<Signature(d)>>)
Parts(d) == buildPreKeyUploadNode(Creds(d), << >>).content.value

\* What the server keeps of a device.
UserNode(d, keys) ==
  node("user", [jid |-> d], Only(Parts(d), {i \in DOMAIN Parts(d) : Parts(d)[i].tag # "list"}) \o keys)

\* The parts of an upload, each under its own tag.
LEMMA PartsListed ==
  ASSUME NEW d
  PROVE  List(Only(Parts(d), {i \in DOMAIN Parts(d) : Parts(d)[i].tag # "list"}), {Registration(d), Identity(d), Skey(d)})
<1> DEFINE a == Registration(d)
           b == Identity(d)
           l == node("list", NoAttrs, Each(LAMBDA key : keyNode("key", key), << >>))
           c == Skey(d)
           s == Parts(d)
           E == {a, b, c}
           places == {i \in DOMAIN s : s[i].tag # "list"}
<1>1. s = <<a, b, l, c>>
  BY DEF Parts, buildPreKeyUploadNode, node, Registration, Identity, Skey, Signature, Creds
<1>2. l.tag = "list" /\ a.tag = "registration" /\ b.tag = "identity" /\ c.tag = "skey"
  BY DEF node, Registration, Identity, Skey, leaf
<1> HIDE DEF a, b, c, l, s
<1> DEFINE u == <<a, b, l, c>>
<1>3. u \in Seq({a, b, l, c}) /\ Len(u) = 4 /\ u[1] = a /\ u[2] = b /\ u[3] = l /\ u[4] = c
  OBVIOUS
<1> HIDE DEF u
<1>4. \A e \in {a, b, l, c} : \E i \in 1 .. Len(u) : u[i] = e
  BY <1>3
<1>12. List(u, {a, b, l, c})
  BY <1>3, <1>4, MakesList
<1>5. List(s, {a, b, l, c})
  BY <1>1, <1>12 DEF u
<1>6. {a, b, l, c} \intersect E = E
  OBVIOUS
<1>7. \A e \in {a, b, l, c} : e.tag # "list" <=> e \in E
  BY <1>2
<1>8. \A i \in DOMAIN s : i \in places <=> s[i] \in E
  BY <1>5, <1>7, ListPlaces
<1> HIDE DEF E, places
<1>9. List(Only(s, places), {a, b, l, c} \intersect E)
  BY <1>5, <1>8, ListOnly
<1>10. List(Only(s, places), E)
  BY <1>6, <1>9
<1>11. QED
  BY <1>10 DEF a, b, c, E, s, places

\* The bundle made of it.
LEMMA BundleMade ==
  ASSUME NEW d, NEW keys, NEW K, List(keys, K), \A k \in K : k.tag = "key", \A k, l \in K : k = l
  PROVE  LET n == UserNode(d, keys)
         IN  /\ n.tag = "user" /\ Has(n, "jid") /\ n.attrs.jid = d
             /\ Complete(n) /\ verifyPreKeyBundle(bundleOf(n)) /\ bundleOf(n).identityKeyPublic = d
             /\ K = {} => bundleOf(n).preKeyId = None
             /\ \A id \in Nat : id < Base * Base * Base /\ PostedKey(d, id) \in K =>
                  bundleOf(n).preKeyId = id /\ bundleOf(n).preKeyPublic = <<d, id>>
<1> DEFINE rest == Only(Parts(d), {i \in DOMAIN Parts(d) : Parts(d)[i].tag # "list"})
           E == {Registration(d), Identity(d), Skey(d)} \union K
           n == UserNode(d, keys)
           at == [jid |-> d]
<1>1. n = node("user", at, rest \o keys)
  BY DEF UserNode
<1>2. List(rest \o keys, E)
  <2>1. List(rest, {Registration(d), Identity(d), Skey(d)})
    BY PartsListed
  <2> HIDE DEF rest
  <2>2. QED
    BY <2>1, ListConcat
<1>3. n.tag = "user" /\ Has(n, "jid") /\ n.attrs.jid = d
  BY <1>1 DEF node, Has
<1> HIDE DEF rest, at, n
<1>4. Registration(d).tag = "registration" /\ Identity(d).tag = "identity" /\ Skey(d).tag = "skey"
  BY DEF node, leaf, Registration, Identity, Skey
<1>5. /\ Registration(d) \in E /\ Identity(d) \in E /\ Skey(d) \in E
      /\ \A c \in E : /\ c.tag = Registration(d).tag => c = Registration(d)
                      /\ c.tag = Identity(d).tag => c = Identity(d)
                      /\ c.tag = Skey(d).tag => c = Skey(d)
                      /\ c.tag = "key" => c \in K
      /\ \A c \in K : c \in E
  BY <1>4
<1> HIDE DEF E
<1>6. getBinaryNodeChild(n, "registration") = Registration(d)
  BY <1>1, <1>2, <1>4, <1>5, OneChild
<1>7. getBinaryNodeChild(n, "identity") = Identity(d)
  BY <1>1, <1>2, <1>4, <1>5, OneChild
<1>8. getBinaryNodeChild(n, "skey") = Skey(d)
  BY <1>1, <1>2, <1>4, <1>5, OneChild
<1> DEFINE spk == Creds(d).signedPreKey
<1>9. /\ getBinaryNodeChild(Skey(d), "id") = IdLeaf(spk.keyId)
      /\ getBinaryNodeChild(Skey(d), "value") = ValueLeaf(spk.public)
      /\ getBinaryNodeChild(Skey(d), "signature") = Signature(d)
  <2>1. List(<<Signature(d)>>, {Signature(d)}) /\ Signature(d).tag = "signature"
    BY ListOne DEF Signature, leaf
  <2>2. \A c \in {Signature(d)} : c.tag \notin {"id", "value"}
    BY <2>1
  <2> DEFINE last == <<Signature(d)>>
             L == {Signature(d)}
  <2>3. Skey(d) = node("skey", NoAttrs, keyNode("skey", spk).content.value \o last)
    BY DEF Skey
  <2>4. List(last, L) /\ Signature(d) \in L /\ \A e \in L : e = Signature(d)
    BY <2>1
  <2>5. \A c \in L : c.tag \notin {"id", "value"}
    BY <2>2
  <2> HIDE DEF last, L, spk
  <2>6. /\ getBinaryNodeChild(Skey(d), "id") = IdLeaf(spk.keyId)
        /\ getBinaryNodeChild(Skey(d), "value") = ValueLeaf(spk.public)
        /\ \A c \in L : (\A e \in L : e.tag = c.tag => e = c) => getBinaryNodeChild(Skey(d), c.tag) = c
    BY <2>3, <2>4, <2>5, KeyNodes
  <2>7. QED
    BY <2>1, <2>4, <2>6
<1>10. /\ HasBuffer(Registration(d)) /\ HasBuffer(Identity(d)) /\ HasBuffer(Signature(d))
       /\ HasBuffer(IdLeaf(spk.keyId)) /\ HasBuffer(ValueLeaf(spk.public))
       /\ Identity(d).content.value = d /\ ValueLeaf(spk.public).content.value = <<d, 0>>
       /\ Signature(d).content.value = [by |-> d, over |-> <<d, 0>>]
  BY DEF HasBuffer, leaf, Registration, Identity, Signature, IdLeaf, ValueLeaf, Creds
<1> HIDE DEF spk
<1>11. Complete(n)
  BY <1>6, <1>7, <1>8, <1>9, <1>10 DEF Complete
<1>12. /\ getBinaryNodeChildBuffer(n, "identity") = d
       /\ getBinaryNodeChildBuffer(Skey(d), "value") = <<d, 0>>
       /\ getBinaryNodeChildBuffer(Skey(d), "signature") = [by |-> d, over |-> <<d, 0>>]
  BY <1>7, <1>9, <1>10 DEF getBinaryNodeChildBuffer
<1>13. bundleOf(n).identityKeyPublic = d /\ verifyPreKeyBundle(bundleOf(n))
  BY <1>8, <1>12 DEF bundleOf, verifyPreKeyBundle
<1>14. ASSUME K = {} PROVE bundleOf(n).preKeyId = None
  <2>1. \A c \in E : c.tag # "key"
    BY <1>5, <1>14
  <2>2. getBinaryNodeChild(n, "key") = NoNode
    BY <1>1, <1>2, <2>1, NoChild
  <2>3. getBinaryNodeChild(NoNode, "id") = NoNode /\ ~HasBuffer(NoNode)
    BY DEF NoNode, bare, getBinaryNodeChild, getBinaryNodeChildren, HasChildren, HasBuffer
  <2>4. QED
    BY <2>2, <2>3 DEF bundleOf
<1>15. ASSUME NEW id \in Nat, id < Base * Base * Base, PostedKey(d, id) \in K
       PROVE  bundleOf(n).preKeyId = id /\ bundleOf(n).preKeyPublic = <<d, id>>
  <2> DEFINE p == PostedKey(d, id)
             key == [keyId |-> id, public |-> <<d, id>>]
             last == << >>
             L == {}
  <2>1. p \in K /\ p.tag = "key" /\ p \in E
    BY <1>5, <1>15
  <2>2. \A c \in E : c.tag = p.tag => c = p
    BY <1>5, <2>1
  <2>3. p = node("key", NoAttrs, keyNode("key", key).content.value \o last)
    <3>1. p = node("key", NoAttrs, <<leaf("id", NoAttrs, encodeBigEndian(key.keyId, 3)), leaf("value", NoAttrs, key.public)>>)
      BY DEF PostedKey, keyNode
    <3>2. keyNode("key", key).content.value = <<leaf("id", NoAttrs, encodeBigEndian(key.keyId, 3)), leaf("value", NoAttrs, key.public)>>
      BY DEF keyNode, node
    <3>3. \A x, y : <<x, y>> \o << >> = <<x, y>>
      OBVIOUS
    <3>4. QED
      BY <3>1, <3>2, <3>3
  <2>4. List(last, L)
    BY ListNone
  <2>5. key.keyId = id /\ key.public = <<d, id>>
    OBVIOUS
  <2>6. \A c \in L : c.tag \notin {"id", "value"}
    OBVIOUS
  <2> HIDE DEF p, key, last, L
  <2>7. getBinaryNodeChild(n, "key") = p
    BY <1>1, <1>2, <2>1, <2>2, OneChild
  <2>8. getBinaryNodeChild(p, "id") = IdLeaf(id) /\ getBinaryNodeChild(p, "value") = ValueLeaf(<<d, id>>)
    BY <2>3, <2>4, <2>5, <2>6, KeyNodes
  <2>9. /\ HasBuffer(IdLeaf(id)) /\ IdLeaf(id).content.value = encodeBigEndian(id, 3)
        /\ HasBuffer(ValueLeaf(<<d, id>>)) /\ ValueLeaf(<<d, id>>).content.value = <<d, id>>
    BY DEF IdLeaf, ValueLeaf, leaf, HasBuffer
  <2>10. decodeBigEndian(encodeBigEndian(id, 3)) = id
    BY <1>15, BigEndian
  <2>11. /\ HasBuffer(getBinaryNodeChild(p, "id")) /\ getBinaryNodeChildBuffer(p, "id") = encodeBigEndian(id, 3)
         /\ getBinaryNodeChildBuffer(p, "value") = <<d, id>>
    BY <2>8, <2>9 DEF getBinaryNodeChildBuffer
  <2>12. QED
    BY <2>7, <2>10, <2>11 DEF bundleOf
<1>16. QED
  BY <1>3, <1>11, <1>13, <1>14, <1>15 DEF n

\* Of some places there is a last one.
LEMMA LastPlace ==
  ASSUME NEW n \in Nat, NEW I \in SUBSET (1 .. n), I # {}
  PROVE  \E i \in I : \A j \in I : j <= i
<1> DEFINE T == {n - i : i \in I}
<1>1. T \subseteq Nat /\ T # {}
  <2>1. \A i \in I : n - i \in Nat
    OBVIOUS
  <2>2. QED
    BY <2>1
<1>2. PICK x \in T : \A y \in T : ~(<<y, x>> \in OpToRel(<, Nat))
  BY <1>1, NatLessThanWellFounded, WFMin
<1>3. PICK i \in I : x = n - i
  BY <1>2
<1>4. ASSUME NEW j \in I PROVE j <= i
  <2>1. n - j \in T /\ n - j \in Nat /\ n - i \in Nat
    BY <1>1, <1>3
  <2>2. ~(n - j < n - i)
    BY <1>2, <1>3, <2>1 DEF OpToRel
  <2>3. QED
    BY <2>1, <2>2
<1>5. QED
  BY <1>4

\* A bundle for each device that is asked for.
LEMMA BundlesParsed ==
  ASSUME NEW D, NEW users, NEW N, List(users, ImageOf(N, D)),
         \A d \in D : N[d].tag = "user" /\ Has(N[d], "jid") /\ N[d].attrs.jid = d /\ Complete(N[d])
  PROVE  \E B : /\ parsePreKeyBundles(node("iq", NoAttrs, <<node("list", NoAttrs, users)>>)) = {B}
                /\ DOMAIN B = D /\ \A d \in D : B[d] = bundleOf(N[d])
<1> DEFINE E == ImageOf(N, D)
           L == node("list", NoAttrs, users)
           result == node("iq", NoAttrs, <<L>>)
           listed == getBinaryNodeChildren(L, "user")
           places == {i \in DOMAIN listed : Has(listed[i], "jid")}
           s == Only(listed, places)
           Chosen(jid) == CHOOSE i \in DOMAIN s : s[i].attrs.jid = jid /\ \A j \in DOMAIN s : s[j].attrs.jid = jid => j <= i
           B == [jid \in {s[i].attrs.jid : i \in DOMAIN s} |-> bundleOf(s[Chosen(jid)])]
<1>1. \A e \in E : \E d \in D : e = N[d] /\ e.tag = "user" /\ Has(e, "jid") /\ e.attrs.jid = d /\ Complete(e)
  BY DEF ImageOf
<1>2. \A d \in D : N[d] \in E
  BY DEF ImageOf
<1> HIDE DEF E
<1>3. getBinaryNodeChild(result, "list") = L
  <2>1. List(<<L>>, {L}) /\ L.tag = "list"
    BY ListOne DEF node
  <2> HIDE DEF L
  <2>2. L \in {L} /\ \A c \in {L} : c = L
    OBVIOUS
  <2>3. getBinaryNodeChild(result, L.tag) = L
    BY <2>1, <2>2, OneChild
  <2>4. QED
    BY <2>1, <2>3
<1>4. List(listed, E)
  <2>1. List(users, E)
    BY DEF E
  <2>2. List(listed, {c \in E : c.tag = "user"})
    BY <2>1, ListChildren
  <2>3. {c \in E : c.tag = "user"} = E
    BY <1>1
  <2>4. QED
    BY <2>2, <2>3
<1>5. List(s, E)
  <2> HIDE DEF listed
  <2>1. \A i \in DOMAIN listed : i \in places <=> listed[i] \in E
    BY <1>1, <1>4, ListPlaces
  <2> HIDE DEF places
  <2>2. List(s, E \intersect E)
    BY <1>4, <2>1, ListOnly
  <2>3. QED
    BY <2>2
<1>6. parsePreKeyBundles(result) = IF \E i \in DOMAIN s : ~Complete(s[i]) THEN {} ELSE {B}
  <2> HIDE DEF L
  <2> DEFINE Jidded(list) == Only(getBinaryNodeChildren(list, "user"),
                                 {i \in DOMAIN getBinaryNodeChildren(list, "user") : Has(getBinaryNodeChildren(list, "user")[i], "jid")})
             Parsed(list) ==
               IF \E i \in DOMAIN Jidded(list) : ~Complete(Jidded(list)[i]) THEN {}
               ELSE {[jid \in {Jidded(list)[i].attrs.jid : i \in DOMAIN Jidded(list)} |->
                        bundleOf(Jidded(list)[CHOOSE i \in DOMAIN Jidded(list) :
                          Jidded(list)[i].attrs.jid = jid /\ \A j \in DOMAIN Jidded(list) : Jidded(list)[j].attrs.jid = jid => j <= i])]}
  <2>1. parsePreKeyBundles(result) = Parsed(getBinaryNodeChild(result, "list"))
    BY DEF parsePreKeyBundles
  <2>2. Parsed(L) = IF \E i \in DOMAIN s : ~Complete(s[i]) THEN {} ELSE {B}
    OBVIOUS
  <2> HIDE DEF Parsed
  <2>3. QED
    BY <1>3, <2>1, <2>2
<1> HIDE DEF s, listed, result
<1>7. Len(s) \in Nat /\ DOMAIN s = 1 .. Len(s) /\ (\A i \in DOMAIN s : s[i] \in E) /\ \A e \in E : \E i \in DOMAIN s : s[i] = e
  <2>1. /\ Len(s) \in Nat /\ DOMAIN s = 1 .. Len(s)
        /\ \A i \in 1 .. Len(s) : s[i] \in E
        /\ \A e \in E : \E i \in 1 .. Len(s) : s[i] = e
    BY <1>5, ListPlaces
  <2>2. QED
    BY <2>1
<1>8. \A i \in DOMAIN s : Complete(s[i])
  BY <1>1, <1>7
<1>9. {s[i].attrs.jid : i \in DOMAIN s} = D
  BY <1>1, <1>2, <1>7
<1>10. ASSUME NEW d \in D PROVE s[Chosen(d)] = N[d]
  <2> DEFINE I == {i \in DOMAIN s : s[i].attrs.jid = d}
  <2>1. I \subseteq 1 .. Len(s) /\ I # {}
    BY <1>1, <1>2, <1>7
  <2>2. \E i \in I : \A j \in I : j <= i
    BY <1>7, <2>1, LastPlace
  <2>3. Chosen(d) \in DOMAIN s /\ s[Chosen(d)].attrs.jid = d
    BY <2>2
  <2> HIDE DEF Chosen
  <2>4. s[Chosen(d)] \in E
    BY <1>7, <2>3
  <2>5. QED
    BY <1>1, <2>3, <2>4
<1> HIDE DEF Chosen
<1>11. DOMAIN B = D /\ \A d \in D : B[d] = bundleOf(N[d])
  BY <1>9, <1>10
<1> HIDE DEF B
<1>12. QED
  BY <1>6, <1>8, <1>11 DEF result

\* The server's answer: of each device it knows, its parts and at most one key.
ServerNode(d) == UserNode(d, AtMostOne(posted[d]))

\* The server answers a fetch with a node for each device asked for.
LEMMA BundlesAnswered ==
  ASSUME OneServer, NEW D \in SUBSET Devices, NEW jids, List(jids, {Wire(d) : d \in D})
  PROVE  \E users : /\ BundlesOf(buildPreKeyFetchNode(jids)) = node("iq", NoAttrs, <<node("list", NoAttrs, users)>>)
                    /\ List(users, ImageOf([d \in D |-> ServerNode(d)], D))
<1> DEFINE W == {Wire(d) : d \in D}
           Ask(jid) == bare("user", [jid |-> jid])
           q == [i \in 1 .. Len(jids) |-> Ask(jids[i])]
           asked == SubSeq(q, 1, Len(jids))
           ask == [jid \in W |-> Ask(jid)]
           Q == ImageOf(ask, W)
           K == node("key", NoAttrs, asked)
           query == buildPreKeyFetchNode(jids)
           users == Below(getBinaryNodeChildren(query, "key"), "user")
           places == {i \in DOMAIN users : OverTheWire(users[i].attrs.jid) \in Devices}
           s == Only(users, places)
           Answering(user) == ServerNode(OverTheWire(user.attrs.jid))
           h == [i \in 1 .. Len(s) |-> Answering(s[i])]
           answering == [user \in Q |-> Answering(user)]
           listings == SubSeq(h, 1, Len(s))
<1>1. List(asked, Q)
  <2> HIDE DEF W
  <2>1. \A i \in 1 .. Len(jids) : q[i] = ask[jids[i]]
    BY ListPlaces DEF W
  <2>2. List(jids, W)
    BY DEF W
  <2> HIDE DEF q, ask
  <2>3. QED
    BY <2>1, <2>2, ListEach
<1>2. \A e \in Q : \E d \in D : e = Ask(Wire(d))
  BY DEF ImageOf
<1>3. \A d \in D : Ask(Wire(d)) \in Q
  BY DEF ImageOf
<1> HIDE DEF Q, W
<1>4. \A d \in D : /\ Ask(Wire(d)).tag = "user" /\ OverTheWire(Ask(Wire(d)).attrs.jid) = d
                   /\ Answering(Ask(Wire(d))) = ServerNode(d)
  <2>1. \A d \in D : OverTheWire(Wire(d)) = d
    BY Addresses
  <2>2. QED
    BY <2>1 DEF bare
<1> HIDE DEF Ask
<1>5. query = node("iq", [to |-> S_WHATSAPP_NET, type |-> "get", xmlns |-> "encrypt"], <<K>>)
  BY DEF buildPreKeyFetchNode, Each, Ask
<1>6. List(users, Q)
  <2>1. List(<<K>>, {K}) /\ {c \in {K} : c.tag = "key"} = {K} /\ {c \in Q : c.tag = "user"} = Q
    BY <1>2, <1>4, ListOne DEF node
  <2> HIDE DEF asked, query
  <2>2. List(getBinaryNodeChildren(query, "key"), {c \in {K} : c.tag = "key"})
    <3> HIDE DEF K
    <3>1. QED
      BY <1>5, <2>1, ListChildren
  <2>3. List(getBinaryNodeChildren(query, "key"), {K})
    BY <2>1, <2>2
  <2>4. List(users, {c \in Q : c.tag = "user"})
    BY <1>1, <2>3, ListBelowOne
  <2>5. QED
    BY <2>1, <2>4
<1> HIDE DEF query, users
<1>7. List(s, Q)
  <2>1. \A i \in DOMAIN users : i \in places <=> users[i] \in Q
    BY <1>2, <1>4, <1>6, ListPlaces
  <2> HIDE DEF places
  <2>2. List(s, Q \intersect Q)
    BY <1>6, <2>1, ListOnly
  <2>3. QED
    BY <2>2
<1>8. BundlesOf(query) = node("iq", NoAttrs, <<node("list", NoAttrs, listings)>>)
  BY DEF BundlesOf, Each, users, UserNode, ServerNode, Parts
<1> HIDE DEF s
<1>9. List(listings, ImageOf(answering, Q))
  <2>1. \A i \in 1 .. Len(s) : h[i] = answering[s[i]]
    BY <1>7, ListPlaces
  <2> HIDE DEF h, answering
  <2>2. QED
    BY <1>7, <2>1, ListEach
<1>10. ImageOf(answering, Q) = ImageOf([d \in D |-> ServerNode(d)], D)
  <2>1. \A d \in D : answering[Ask(Wire(d))] = ServerNode(d)
    BY <1>3, <1>4
  <2> HIDE DEF answering
  <2>2. QED
    BY <1>2, <1>3, <2>1 DEF ImageOf
<1> HIDE DEF listings
<1>11. QED
  BY <1>8, <1>9, <1>10 DEF query

----------------------------------------------------------------------------
(* The message that brings a text to a device.                             *)

\* What carries a text to a device, under which attributes.
Ciphertext(t, d, preKey) ==
  [by |-> t.author, to |-> d, id |-> t.id, preKey |-> preKey,
   plaintext |-> padMessage(encodeContent(ForDevice(t, d)), t.random)]
Enc(t, d, type, preKey) == leaf("enc", [type |-> type], Ciphertext(t, d, preKey))
AttrsOf(t) ==
  IF isJidGroup(t.to) THEN [id |-> t.id, from |-> t.to, participant |-> t.author] ELSE [id |-> t.id, from |-> t.author]

\* What a device is sent, by the session its author has with it.
SessionWith(t, d) == sessions[t.author][sessionAddress(d)]
EncFor(t, d) == Enc(t, d, IF SessionWith(t, d).pending THEN "pkmsg" ELSE "msg", SessionWith(t, d).preKey)

\* The message that is built of these.
Recipient(t, jid) == [jid |-> jid, encrypted |-> encrypt(t, jid)]
Outgoing(t, jids) ==
  buildOutgoingMessage(t.id, t.to, Each(LAMBDA jid : [jid |-> jid, encrypted |-> encrypt(t, jid)], jids))
encFor(recipient) == leaf("enc", [type |-> recipient.encrypted.type], recipient.encrypted.ciphertext)
ToNode(recipient) == node("to", [jid |-> recipient.jid], <<encFor(recipient)>>)

\* A ciphertext is made for each device a text goes to.
LEMMA RecipientsListed ==
  ASSUME OneServer, NEW t \in Texts, NEW jids, List(jids, {Wire(d) : d \in Audience(t)})
  PROVE  \E r : /\ List(r, {Recipient(t, Wire(d)) : d \in Audience(t)})
                /\ r = Each(LAMBDA jid : [jid |-> jid, encrypted |-> encrypt(t, jid)], jids)
<1> DEFINE W == {Wire(d) : d \in Audience(t)}
           f == [i \in 1 .. Len(jids) |-> Recipient(t, jids[i])]
           g == [jid \in W |-> Recipient(t, jid)]
           r == SubSeq(f, 1, Len(jids))
<1>1. r = Each(LAMBDA jid : [jid |-> jid, encrypted |-> encrypt(t, jid)], jids)
  BY DEF Each, Recipient
<1>2. List(r, ImageOf(g, W))
  <2> HIDE DEF W
  <2>1. List(jids, W)
    BY DEF W
  <2>2. \A i \in 1 .. Len(jids) : f[i] = g[jids[i]]
    BY <2>1, ListPlaces
  <2> HIDE DEF f, g
  <2>3. QED
    BY <2>1, <2>2, ListEach
<1>3. ImageOf(g, W) = {Recipient(t, Wire(d)) : d \in Audience(t)}
  BY DEF ImageOf
<1> HIDE DEF r
<1>4. QED
  BY <1>1, <1>2, <1>3

\* What a recipient is sent.
LEMMA Encrypted ==
  ASSUME OneServer, NEW t \in Texts, NEW d \in Devices, SessionWith(t, d).peer = d
  PROVE  encFor(Recipient(t, Wire(d))) = EncFor(t, d) /\ Recipient(t, Wire(d)).jid = Wire(d)
<1>1. sessionAddress(Wire(d)) = sessionAddress(d)
  BY Addresses
<1>2. sessions[t.author][sessionAddress(Wire(d))] = SessionWith(t, d)
  BY <1>1 DEF SessionWith
<1>3. encrypt(t, Wire(d)) = [type |-> IF SessionWith(t, d).pending THEN "pkmsg" ELSE "msg",
                             ciphertext |-> Ciphertext(t, d, SessionWith(t, d).preKey)]
  BY <1>2 DEF encrypt, Ciphertext
<1>4. QED
  BY <1>3 DEF encFor, Recipient, EncFor, Enc

\* A list read from nothing.
LEMMA BelowNothing ==
  ASSUME NEW nodes, List(nodes, {}), NEW name
  PROVE  Below(nodes, name) = << >>
<1>1. List(Below(nodes, name), {})
  BY ListBelow
<1>2. QED
  BY <1>1, ListHead

\* Each device of the audience is handed its own copy and no other device is handed one.
LEMMA CopiesMade ==
  ASSUME OneServer, NEW t \in Texts, NEW jids, List(jids, {Wire(d) : d \in Audience(t)}),
         \A d \in Audience(t) : SessionWith(t, d).peer = d,
         NEW message \in Outgoing(t, jids), NEW d \in Devices
  PROVE  /\ d \notin Audience(t) => Stanzas(t, message, d) = << >>
         /\ d \in Audience(t) => \E encs : /\ List(encs, {EncFor(t, d)})
                                           /\ Stanzas(t, message, d) = <<node("message", AttrsOf(t), encs)>>
<1> DEFINE A == Audience(t)
           Rec(e) == Recipient(t, Wire(e))
           at == [id |-> t.id, to |-> t.to]
<1>1. PICK r : List(r, {Rec(e) : e \in A}) /\ message \in buildOutgoingMessage(t.id, t.to, r)
  <2>1. PICK r : /\ List(r, {Rec(e) : e \in A})
                 /\ r = Each(LAMBDA jid : [jid |-> jid, encrypted |-> encrypt(t, jid)], jids)
    BY RecipientsListed
  <2>2. message \in buildOutgoingMessage(t.id, t.to, r)
    BY <2>1 DEF Outgoing
  <2>3. QED
    BY <2>1, <2>2
<1>2. A \subseteq Devices /\ t.author \in Devices
  BY TextsAssumption DEF Audience
<1>3. \A e \in A : encFor(Rec(e)) = EncFor(t, e) /\ Rec(e).jid = Wire(e)
  BY <1>2, Encrypted
<1>4. \A e, f \in A : Rec(e) = Rec(f) => e = f
  <2>1. \A e \in A : OverTheWire(Wire(e)) = e
    BY <1>2, Addresses
  <2> HIDE DEF Rec
  <2>2. QED
    BY <1>3, <2>1
<1> HIDE DEF Rec
<1>13. /\ \A i \in 1 .. Len(r) : \E e \in A : r[i] = Rec(e)
       /\ \A e \in A : \E i \in 1 .. Len(r) : r[i] = Rec(e)
  <2> DEFINE R == {Rec(e) : e \in A}
  <2>1. List(r, R)
    BY <1>1
  <2>2. (\A x \in R : \E e \in A : x = Rec(e)) /\ \A e \in A : Rec(e) \in R
    OBVIOUS
  <2> HIDE DEF R
  <2>3. QED
    BY <2>1, <2>2, ListPlaces
<1> DEFINE Direct == Len(r) = 1 /\ jidNormalizedUser(r[1].jid) = jidNormalizedUser(t.to)
           one == node("message", at, <<encFor(r[1])>>)
           s == Each(LAMBDA recipient : node("to", [jid |-> recipient.jid], <<encFor(recipient)>>), r)
           P == node("participants", NoAttrs, s)
           many == node("message", at, <<P>>)
<1>5. r # << >> /\ message = IF Direct THEN one ELSE many
  <2>1. r # << >>
    BY <1>1 DEF buildOutgoingMessage
  <2>2. buildOutgoingMessage(t.id, t.to, r) = {IF Direct THEN one ELSE many}
    BY <2>1 DEF buildOutgoingMessage, encFor
  <2>3. QED
    BY <1>1, <2>1, <2>2
<1> DEFINE direct == getBinaryNodeChildren(message, "enc")
           tos == Below(getBinaryNodeChildren(message, "participants"), "to")
           mine == Only(tos, {i \in DOMAIN tos : OverTheWire(tos[i].attrs.jid) = d})
           encs == IF direct = << >> THEN Below(mine, "enc")
                   ELSE IF Account(d) = jidNormalizedUser(message.attrs.to) /\ d # t.author THEN direct ELSE << >>
<1>6. message.attrs = at
  BY <1>5 DEF node
<1>7. Stanzas(t, message, d) = IF encs = << >> THEN << >> ELSE <<node("message", AttrsOf(t), encs)>>
  <2>1. message.attrs.id = t.id
    BY <1>6
  <2> HIDE DEF at
  <2>2. QED
    BY <2>1 DEF Stanzas, AttrsOf
<1>8. ASSUME Direct PROVE IF d \in A THEN List(encs, {EncFor(t, d)}) ELSE encs = << >>
  <2>1. PICK e \in A : r[1] = Rec(e)
    <3>1. 1 \in 1 .. Len(r)
      BY <1>8
    <3>2. QED
      BY <1>13, <3>1
  <2>2. \A f \in A : f = e
    <3>1. ASSUME NEW f \in A PROVE f = e
      <4>2. PICK i \in 1 .. Len(r) : r[i] = Rec(f)
        BY <1>13
      <4>3. i = 1
        BY <1>8, <4>2
      <4>4. QED
        BY <1>4, <2>1, <4>2, <4>3
    <3>2. QED
      BY <3>1
  <2>3. encFor(r[1]) = EncFor(t, e) /\ r[1].jid = Wire(e)
    BY <1>3, <2>1
  <2>4. Account(e) = jidNormalizedUser(t.to) /\ Account(e).server = S_WHATSAPP_NET
    <3>1. jidNormalizedUser(Wire(e)) = Account(e) /\ Account(e) = User(e.user, S_WHATSAPP_NET)
      BY <1>2, Addresses
    <3>2. QED
      BY <1>8, <2>3, <3>1 DEF User
  <2>5. ~isJidGroup(t.to)
    BY <2>4 DEF isJidGroup, jidNormalizedUser, User, GROUP_SERVER, S_WHATSAPP_NET
  <2>6. List(direct, {EncFor(t, e)})
    <3> DEFINE x == EncFor(t, e)
    <3>1. x.tag = "enc"
      BY DEF EncFor, Enc, leaf
    <3>2. message = node("message", at, <<x>>)
      BY <1>5, <1>8, <2>3
    <3> HIDE DEF x, at
    <3>3. List(<<x>>, {x}) /\ {c \in {x} : c.tag = "enc"} = {x}
      BY <3>1, ListOne
    <3>4. List(direct, {c \in {x} : c.tag = "enc"})
      BY <3>2, <3>3, ListChildren
    <3>5. QED
      BY <3>3, <3>4 DEF x
  <2>7. direct # << >>
    BY <2>6, ListHead
  <2>8. d \in A <=> Account(d) = jidNormalizedUser(t.to) /\ d # t.author
    <3>1. ASSUME Account(d) = jidNormalizedUser(t.to), d # t.author PROVE d \in A
      <4>1. ToSet(Accounts(t)) = {jidNormalizedUser(t.to), Account(t.author)}
        BY <2>5, AccountsListed
      <4>2. QED
        BY <3>1, <4>1 DEF Audience
    <3>2. ASSUME d \in A PROVE Account(d) = jidNormalizedUser(t.to) /\ d # t.author
      BY <2>2, <2>4, <3>2 DEF Audience
    <3>3. QED
      BY <3>1, <3>2
  <2>9. message.attrs.to = t.to
    BY <1>6
  <2> HIDE DEF A, direct
  <2>10. QED
    BY <2>2, <2>6, <2>7, <2>8, <2>9
<1>9. ASSUME ~Direct PROVE IF d \in A THEN List(encs, {EncFor(t, d)}) ELSE encs = << >>
  <2> DEFINE To(e) == node("to", [jid |-> Wire(e)], <<EncFor(t, e)>>)
             T == {To(e) : e \in A}
             R == {Rec(e) : e \in A}
             f == [i \in 1 .. Len(r) |-> ToNode(r[i])]
             g == [x \in R |-> ToNode(x)]
  <2>1. s = SubSeq(f, 1, Len(r))
    BY DEF Each, ToNode
  <2>2. List(SubSeq(f, 1, Len(r)), ImageOf(g, R))
    <3> HIDE DEF R
    <3>1. List(r, R)
      BY <1>1 DEF R
    <3>2. \A i \in 1 .. Len(r) : f[i] = g[r[i]]
      BY <3>1, ListPlaces
    <3> HIDE DEF f, g
    <3>3. QED
      BY <3>1, <3>2, ListEach
  <2>3. ImageOf(g, R) = T
    <3>1. \A e \in A : ToNode(Rec(e)) = To(e)
      BY <1>3 DEF ToNode
    <3>2. QED
      BY <3>1 DEF ImageOf
  <2>4. List(s, T)
    BY <2>1, <2>2, <2>3
  <2> HIDE DEF s, f, g
  <2>5. message = node("message", at, <<P>>)
    BY <1>5, <1>9
  <2>6. P.tag = "participants" /\ P = node("participants", NoAttrs, s)
    BY DEF node
  <2>7. List(<<P>>, {P}) /\ {c \in {P} : c.tag = "participants"} = {P} /\ \A c \in {P} : c.tag # "enc"
    <3> HIDE DEF P
    <3>1. QED
      BY <2>6, ListOne
  <2> HIDE DEF P, at
  <2>8. direct = << >>
    BY <2>5, <2>7, NoChild
  <2>9. List(getBinaryNodeChildren(message, "participants"), {P})
    <3>1. List(getBinaryNodeChildren(message, "participants"), {c \in {P} : c.tag = "participants"})
      BY <2>5, <2>7, ListChildren
    <3>2. QED
      BY <2>7, <3>1
  <2>10. List(tos, T)
    <3>1. List(tos, {c \in T : c.tag = "to"})
      <4> HIDE DEF T
      <4>1. QED
        BY <2>4, <2>6, <2>9, ListBelowOne
    <3>2. {c \in T : c.tag = "to"} = T
      BY DEF node
    <3>3. QED
      BY <3>1, <3>2
  <2>11. \A e \in A : OverTheWire(To(e).attrs.jid) = e
    <3>1. \A e \in A : OverTheWire(Wire(e)) = e
      BY <1>2, Addresses
    <3>2. QED
      BY <3>1 DEF node
  <2> HIDE DEF To, tos
  <2>12. List(mine, T \intersect {To(d)})
    <3> DEFINE places == {i \in DOMAIN tos : OverTheWire(tos[i].attrs.jid) = d}
    <3>1. \A i \in DOMAIN tos : \E e \in A : tos[i] = To(e)
      BY <2>10, ListPlaces
    <3>2. ASSUME NEW i \in DOMAIN tos PROVE i \in places <=> tos[i] \in T \intersect {To(d)}
      <4>1. PICK e \in A : tos[i] = To(e)
        BY <3>1
      <4>2. OverTheWire(tos[i].attrs.jid) = e
        BY <2>11, <4>1
      <4>3. d \in A => OverTheWire(To(d).attrs.jid) = d
        BY <2>11
      <4>4. To(e) = To(d) /\ d \in A => e = d
        BY <2>11, <4>3
      <4>5. ASSUME To(e) = To(d), d \notin A PROVE FALSE
        <5>1. OverTheWire(Wire(d)) = d /\ OverTheWire(Wire(e)) = e
          BY <1>2, Addresses
        <5>2. Wire(e) = Wire(d)
          BY <4>5 DEF To, node
        <5>3. QED
          BY <4>5, <5>1, <5>2
      <4>6. QED
        BY <4>1, <4>2, <4>4, <4>5
    <3> HIDE DEF places, T
    <3>3. List(Only(tos, places), T \intersect (T \intersect {To(d)}))
      BY <2>10, <3>2, ListOnly
    <3>4. T \intersect (T \intersect {To(d)}) = T \intersect {To(d)}
      OBVIOUS
    <3>5. QED
      BY <3>3, <3>4 DEF places
  <2> HIDE DEF mine
  <2>13. CASE d \in A
    <3>1. T \intersect {To(d)} = {To(d)}
      BY <2>13
    <3>2. List(mine, {To(d)})
      BY <2>12, <3>1
    <3> DEFINE x == EncFor(t, d)
    <3>3. List(<<x>>, {x}) /\ {c \in {x} : c.tag = "enc"} = {x}
      BY ListOne DEF EncFor, Enc, leaf
    <3>4. To(d) = node("to", [jid |-> Wire(d)], <<x>>)
      BY DEF To
    <3> HIDE DEF x
    <3>5. List(Below(mine, "enc"), {c \in {x} : c.tag = "enc"})
      BY <3>2, <3>3, <3>4, ListBelowOne
    <3>6. QED
      BY <2>8, <2>13, <3>3, <3>5 DEF x
  <2>14. CASE d \notin A
    <3>1. T \intersect {To(d)} = {}
      <4>1. ASSUME NEW e \in A, To(e) = To(d) PROVE FALSE
        <5>1. OverTheWire(Wire(d)) = d /\ OverTheWire(Wire(e)) = e
          BY <1>2, Addresses
        <5>2. Wire(e) = Wire(d)
          BY <4>1 DEF To, node
        <5>3. QED
          BY <2>14, <5>1, <5>2
      <4>2. QED
        BY <4>1
    <3>2. Below(mine, "enc") = << >>
      BY <2>12, <3>1, BelowNothing
    <3>3. QED
      BY <2>8, <2>14, <3>2
  <2>15. QED
    BY <2>13, <2>14
<1> HIDE DEF encs
<1>10. d \in A => List(encs, {EncFor(t, d)}) /\ encs # << >>
  <2>1. d \in A => List(encs, {EncFor(t, d)})
    BY <1>8, <1>9
  <2>2. QED
    BY <2>1, ListHead
<1>11. d \notin A => encs = << >>
  BY <1>8, <1>9
<1>12. QED
  BY <1>7, <1>10, <1>11

\* What a device reads of it, and its answers.
Incoming(t) ==
  [id |-> t.id, from |-> IF isJidGroup(t.to) THEN t.to ELSE t.author,
   participant |-> IF isJidGroup(t.to) THEN t.author ELSE None]
AckOf(t) == buildMessageAck(Incoming(t))
ReceiptOf(t) == buildDeliveryReceipt(Incoming(t))

\* An author is there, and is no group.
LEMMA AuthorsAreDevices ==
  ASSUME OneServer, NEW t \in Texts
  PROVE  t.author \in Devices /\ t.author # None /\ ~isJidGroup(t.author)
BY TextsAssumption, NoneAssumption DEF OneServer, isJidGroup, GROUP_SERVER, S_WHATSAPP_NET

\* What is read from it.
LEMMA CopyParsed ==
  ASSUME OneServer, NEW t \in Texts, NEW d, NEW type \in {"msg", "pkmsg"}, NEW preKey,
         NEW encs, List(encs, {Enc(t, d, type, preKey)})
  PROVE  \E m : /\ parseIncomingMessage(node("message", AttrsOf(t), encs)) = {m}
                /\ m.id = t.id /\ m.senderJid = t.author /\ Head(m.encs) = Enc(t, d, type, preKey)
                /\ buildMessageAck(m) = AckOf(t) /\ buildDeliveryReceipt(m) = ReceiptOf(t)
<1> DEFINE x == Enc(t, d, type, preKey)
           s == node("message", AttrsOf(t), encs)
           all == getBinaryNodeChildren(s, "enc")
           Readable(enc) == Has(enc, "type") /\ enc.attrs.type \in {"pkmsg", "msg", "skmsg"} /\ HasBuffer(enc)
           places == {i \in DOMAIN all : Readable(all[i])}
           m == [id |-> s.attrs.id, from |-> s.attrs.from, participant |-> Attr(s, "participant"),
                 senderJid |-> senderJid(s.attrs.from, Attr(s, "participant")), encs |-> Only(all, places)]
<1>1. x.tag = "enc" /\ Readable(x)
  BY DEF Enc, leaf, Has, HasBuffer
<1> HIDE DEF Readable
<1>2. s.attrs = AttrsOf(t)
  BY DEF node
<1>3. List(all, {x})
  <2> HIDE DEF x
  <2>1. List(encs, {x}) /\ {c \in {x} : c.tag = "enc"} = {x}
    BY <1>1 DEF x
  <2>2. List(all, {c \in {x} : c.tag = "enc"})
    BY <2>1, ListChildren
  <2>3. QED
    BY <2>1, <2>2
<1> HIDE DEF x, all
<1>4. List(Only(all, places), {x})
  <2>1. \A i \in DOMAIN all : i \in places <=> all[i] \in {x}
    BY <1>1, <1>3, ListPlaces
  <2> HIDE DEF places
  <2>2. List(Only(all, places), {x} \intersect {x})
    BY <1>3, <2>1, ListOnly
  <2>3. QED
    BY <2>2
<1>5. Head(Only(all, places)) = x
  BY <1>4, ListHead
<1>6. /\ Has(s, "id") /\ Has(s, "from") /\ s.attrs.id = t.id /\ s.attrs.from = (IF isJidGroup(t.to) THEN t.to ELSE t.author)
      /\ Attr(s, "participant") = IF isJidGroup(t.to) THEN t.author ELSE None
  <2>1. CASE isJidGroup(t.to)
    <3>1. s.attrs = [id |-> t.id, from |-> t.to, participant |-> t.author]
      BY <1>2, <2>1 DEF AttrsOf
    <3> HIDE DEF s
    <3>2. QED
      BY <2>1, <3>1 DEF Has, Attr
  <2>2. CASE ~isJidGroup(t.to)
    <3>1. s.attrs = [id |-> t.id, from |-> t.author]
      BY <1>2, <2>2 DEF AttrsOf
    <3> HIDE DEF s
    <3>2. QED
      BY <2>2, <3>1 DEF Has, Attr
  <2>3. QED
    BY <2>1, <2>2
<1>7. parseIncomingMessage(s) = {m}
  <2> HIDE DEF s
  <2>1. QED
    BY <1>6 DEF parseIncomingMessage, all, Readable
<1>8. /\ m.id = t.id /\ m.from = Incoming(t).from /\ m.participant = Incoming(t).participant
      /\ m.encs = Only(all, places) /\ m.senderJid = senderJid(m.from, m.participant)
  <2> HIDE DEF s, places
  <2>1. QED
    BY <1>6 DEF Incoming
<1> HIDE DEF m, s
<1>9. m.senderJid = t.author
  <2>1. t.author # None /\ ~isJidGroup(t.author)
    BY AuthorsAreDevices
  <2>2. QED
    BY <1>8, <2>1 DEF senderJid, Incoming
<1>10. answerAttrs(m) = answerAttrs(Incoming(t))
  <2>1. Incoming(t).id = t.id
    BY DEF Incoming
  <2>2. QED
    BY <1>8, <2>1 DEF answerAttrs
<1>11. buildMessageAck(m) = AckOf(t) /\ buildDeliveryReceipt(m) = ReceiptOf(t)
  BY <1>10 DEF buildMessageAck, buildDeliveryReceipt, AckOf, ReceiptOf
<1>12. Head(m.encs) = x
  BY <1>5, <1>8
<1>13. QED
  BY <1>7, <1>8, <1>9, <1>11, <1>12 DEF s, x

\* What an answer says, and which copies it settles.
LEMMA AnswersSay ==
  ASSUME OneServer, NEW t \in Texts
  PROVE  /\ AckOf(t).tag = "ack" /\ AckOf(t).attrs.id = t.id
         /\ ReceiptOf(t).tag = "receipt" /\ ReceiptOf(t).attrs.id = t.id
         /\ (IF Has(ReceiptOf(t), "participant") THEN ReceiptOf(t).attrs.participant ELSE ReceiptOf(t).attrs.to) = t.author
         /\ \A encs : Settled(node("message", AttrsOf(t), encs), AckOf(t))
<1> DEFINE m == Incoming(t)
           a == answerAttrs(m)
           k == Put(a, "class", "receipt")
<1>1. t.author # None
  BY AuthorsAreDevices
<1>2. AckOf(t).tag = "ack" /\ AckOf(t).attrs = k /\ ReceiptOf(t).tag = "receipt" /\ ReceiptOf(t).attrs = a
  BY DEF AckOf, ReceiptOf, buildMessageAck, buildDeliveryReceipt, bare
<1>3. CASE isJidGroup(t.to)
  <2>1. m = [id |-> t.id, from |-> t.to, participant |-> t.author]
    BY <1>3 DEF Incoming
  <2>2. a = Put([id |-> t.id, to |-> t.to], "participant", t.author)
    <3> HIDE DEF m
    <3>1. QED
      BY <1>1, <2>1 DEF answerAttrs
  <2>3. /\ DOMAIN a = {"id", "to", "participant"} /\ a["id"] = t.id /\ a["to"] = t.to /\ a["participant"] = t.author
    <3> HIDE DEF a
    <3>1. QED
      BY <2>2 DEF Put
  <2> HIDE DEF a
  <2>4. /\ "participant" \in DOMAIN k /\ k["id"] = t.id /\ k["to"] = t.to /\ k["participant"] = t.author
    BY <2>3 DEF Put
  <2> HIDE DEF k
  <2>5. Has(ReceiptOf(t), "participant") /\ ReceiptOf(t).attrs.participant = t.author /\ ReceiptOf(t).attrs.id = t.id
    BY <1>2, <2>3 DEF Has
  <2>6. AckOf(t).attrs.id = t.id /\ AckOf(t).attrs.to = t.to /\ Attr(AckOf(t), "participant") = t.author
    BY <1>2, <2>4 DEF Attr, Has
  <2>7. ASSUME NEW encs PROVE Settled(node("message", AttrsOf(t), encs), AckOf(t))
    <3> DEFINE s == node("message", AttrsOf(t), encs)
    <3>1. s.attrs = [id |-> t.id, from |-> t.to, participant |-> t.author]
      BY <1>3 DEF node, AttrsOf
    <3> HIDE DEF s
    <3>2. Attr(s, "participant") = t.author
      BY <3>1 DEF Attr, Has
    <3>3. Settled(s, AckOf(t))
      BY <1>2, <2>6, <3>1, <3>2 DEF Settled
    <3>4. QED
      BY <3>3 DEF s
  <2>8. QED
    BY <1>2, <2>5, <2>6, <2>7
<1>4. CASE ~isJidGroup(t.to)
  <2>1. m = [id |-> t.id, from |-> t.author, participant |-> None]
    BY <1>4 DEF Incoming
  <2>2. a = [id |-> t.id, to |-> t.author]
    <3> HIDE DEF m
    <3>1. QED
      BY <2>1 DEF answerAttrs
  <2>3. /\ "participant" \notin DOMAIN a /\ DOMAIN a = {"id", "to"} /\ a["id"] = t.id /\ a["to"] = t.author
    <3> HIDE DEF a
    <3>1. QED
      BY <2>2
  <2> HIDE DEF a
  <2>4. /\ "participant" \notin DOMAIN k /\ k["id"] = t.id /\ k["to"] = t.author
    BY <2>3 DEF Put
  <2> HIDE DEF k
  <2>5. ~Has(ReceiptOf(t), "participant") /\ ReceiptOf(t).attrs.to = t.author /\ ReceiptOf(t).attrs.id = t.id
    BY <1>2, <2>3 DEF Has
  <2>6. AckOf(t).attrs.id = t.id /\ AckOf(t).attrs.to = t.author /\ Attr(AckOf(t), "participant") = None
    BY <1>2, <2>4 DEF Attr, Has
  <2>7. ASSUME NEW encs PROVE Settled(node("message", AttrsOf(t), encs), AckOf(t))
    <3> DEFINE s == node("message", AttrsOf(t), encs)
    <3>1. s.attrs = [id |-> t.id, from |-> t.author]
      BY <1>4 DEF node, AttrsOf
    <3> HIDE DEF s
    <3>2. Attr(s, "participant") = None
      BY <3>1 DEF Attr, Has
    <3>3. Settled(s, AckOf(t))
      BY <1>2, <2>6, <3>1, <3>2 DEF Settled
    <3>4. QED
      BY <3>3 DEF s
  <2>8. QED
    BY <1>2, <2>5, <2>6, <2>7
<1>5. QED
  BY <1>3, <1>4

\* What was padded comes back.
LEMMA PaddingComesOff ==
  ASSUME NEW p \in Seq(Nat), NEW random \in Nat
  PROVE  unpadMessage(padMessage(p, random)) = {p}
<1> DEFINE k == padding(random)
           pad == [i \in 1 .. k |-> k]
           padded == p \o pad
<1>1. k \in 1 .. 16
  BY DEF padding, MIN_PAD
<1> HIDE DEF k
<1>2. Len(p) \in Nat
  BY LenProperties
<1>3. pad \in Seq(Nat) /\ Len(pad) = k /\ pad[k] = k
  <2>1. pad \in [1 .. k -> Nat] /\ k \in Nat /\ pad[k] = k
    BY <1>1
  <2>2. \E n \in Nat : pad \in [1 .. n -> Nat]
    BY <2>1
  <2>3. pad \in Seq(Nat)
    BY <2>2, SeqDef
  <2>4. Len(pad) = k
    BY <1>1, <2>3, LenProperties
  <2>5. QED
    BY <2>1, <2>3, <2>4
<1> HIDE DEF pad
<1>4. padded \in Seq(Nat) /\ Len(padded) = Len(p) + k /\ \A i \in 1 .. Len(p) + k : padded[i] = IF i <= Len(p) THEN p[i] ELSE pad[i - Len(p)]
  BY <1>3, ConcatProperties
<1> HIDE DEF padded
<1>5. padded # << >> /\ Last(padded) = k
  <2>1. Len(padded) \in 1 .. Len(p) + k /\ ~(Len(padded) <= Len(p)) /\ Len(padded) - Len(p) = k
    BY <1>1, <1>2, <1>4
  <2>2. padded[Len(padded)] = k
    BY <1>3, <1>4, <2>1
  <2>3. padded # << >>
    BY <2>1, EmptySeq
  <2>4. QED
    BY <2>2, <2>3 DEF Last
<1>6. SubSeq(padded, 1, Len(padded) - k) = p
  <2>1. Len(padded) - k = Len(p)
    BY <1>1, <1>2, <1>4
  <2>2. \A i \in 1 .. Len(p) : padded[i] = p[i] /\ padded[i] \in Nat
    <3>1. ASSUME NEW i \in 1 .. Len(p) PROVE padded[i] = p[i] /\ p[i] \in Nat
      <4>1. i \in 1 .. Len(p) + k /\ i <= Len(p)
        BY <1>1, <1>2
      <4>2. QED
        BY <1>4, <4>1, ElementOfSeq
    <3>2. QED
      BY <3>1
  <2> DEFINE n == Len(p)
             r == SubSeq(padded, 1, n)
  <2>3. n \in Int /\ 1 \in Int /\ \A i \in 1 .. n : padded[i] \in Nat
    BY <1>2, <2>2
  <2> HIDE DEF n
  <2>4. r \in Seq(Nat) /\ Len(r) = (IF 1 <= n THEN n - 1 + 1 ELSE 0) /\ \A i \in 1 .. n - 1 + 1 : r[i] = padded[1 + i - 1]
    BY <2>3, SubSeqProperties
  <2> HIDE DEF r
  <2>5. Len(r) = Len(p) /\ \A i \in 1 .. Len(p) : r[i] = p[i]
    BY <1>2, <2>2, <2>4 DEF n
  <2>6. r = p
    BY <2>4, <2>5, SeqEqual
  <2>7. QED
    BY <2>1, <2>6 DEF r, n
<1>7. padMessage(p, random) = padded
  BY DEF padMessage, padded, pad, k
<1>8. k \in MIN_PAD .. MAX_PAD /\ k <= Len(padded)
  BY <1>1, <1>2, <1>4 DEF MIN_PAD, MAX_PAD
<1>9. QED
  BY <1>5, <1>6, <1>7, <1>8 DEF unpadMessage

----------------------------------------------------------------------------
(* The stock of a device.                                                  *)

KeyOf(d, id) == [keyId |-> id, public |-> <<d, id>>]

\* The keys of a refill, one for each id.
LEMMA KeysGenerated ==
  ASSUME NEW d, NEW start \in Nat, NEW count \in Nat
  PROVE  LET keys == generatePreKeys(d, start, count)
         IN  /\ Len(keys) = count /\ keys \in Seq(ToSet(keys))
             /\ \A i \in 1 .. count : keys[i] = KeyOf(d, start + i - 1)
             /\ \A key \in ToSet(keys) : \E id \in start .. start + count - 1 : key = KeyOf(d, id)
             /\ \A id \in start .. start + count - 1 : KeyOf(d, id) \in ToSet(keys)
<1> DEFINE keys == generatePreKeys(d, start, count)
           K == ToSet(keys)
<1>1. /\ keys = [i \in 1 .. count |-> keys[i]] /\ DOMAIN keys = 1 .. count
      /\ \A i \in 1 .. count : keys[i] = KeyOf(d, start + i - 1)
  BY DEF generatePreKeys, KeyOf
<1> HIDE DEF keys
<1>2. keys \in [1 .. count -> K]
  BY <1>1 DEF ToSet
<1>3. keys \in Seq(K)
  <2>1. \E n \in Nat : keys \in [1 .. n -> K]
    BY <1>2
  <2> HIDE DEF K
  <2>2. QED
    BY <2>1, SeqDef
<1>4. Len(keys) = count
  <2> HIDE DEF K
  <2>1. Len(keys) \in Nat /\ DOMAIN keys = 1 .. Len(keys)
    BY <1>3, LenProperties
  <2>2. QED
    BY <1>1, <2>1
<1>5. ASSUME NEW key \in K
      PROVE  \E id \in start .. start + count - 1 : key = KeyOf(d, id)
  <2>1. PICK i \in 1 .. count : key = keys[i]
    BY <1>1 DEF ToSet
  <2>2. start + i - 1 \in start .. start + count - 1
    OBVIOUS
  <2>3. QED
    BY <1>1, <2>1, <2>2
<1>6. ASSUME NEW id \in start .. start + count - 1
      PROVE  KeyOf(d, id) \in K
  <2>1. id - start + 1 \in 1 .. count /\ start + (id - start + 1) - 1 = id
    OBVIOUS
  <2>2. keys[id - start + 1] = KeyOf(d, id)
    BY <1>1, <2>1
  <2>3. QED
    BY <1>1, <2>1, <2>2 DEF ToSet
<1>7. QED
  BY <1>1, <1>3, <1>4, <1>5, <1>6 DEF keys

\* Keys held under their own ids.
Owned(held, d) == \A id \in DOMAIN held : held[id] = <<d, id>>

\* Stored, each under its own id.
LEMMA KeysStored ==
  ASSUME NEW d, NEW held, NEW start \in Nat, NEW count \in Nat, Owned(held, d)
  PROVE  /\ DOMAIN storePreKeys(held, generatePreKeys(d, start, count)) = DOMAIN held \union (start .. start + count - 1)
         /\ Owned(storePreKeys(held, generatePreKeys(d, start, count)), d)
<1> DEFINE K == ToSet(generatePreKeys(d, start, count))
           ids == {key.keyId : key \in K}
           add == [id \in ids |-> (CHOOSE key \in K : key.keyId = id).public]
           new == storePreKeys(held, generatePreKeys(d, start, count))
<1>1. /\ \A key \in K : \E id \in start .. start + count - 1 : key = KeyOf(d, id)
      /\ \A id \in start .. start + count - 1 : KeyOf(d, id) \in K
  BY KeysGenerated
<1>2. new = [k \in DOMAIN held \union DOMAIN add |-> IF k \in DOMAIN add THEN add[k] ELSE held[k]]
  BY DEF storePreKeys, PutAll
<1> HIDE DEF K, new
<1>7. \A id : KeyOf(d, id).keyId = id /\ KeyOf(d, id).public = <<d, id>>
  BY DEF KeyOf
<1>3. ids = start .. start + count - 1
  <2>1. ASSUME NEW key \in K PROVE key.keyId \in start .. start + count - 1
    BY <1>1, <1>7
  <2>2. ASSUME NEW id \in start .. start + count - 1 PROVE \E key \in K : key.keyId = id
    BY <1>1, <1>7
  <2>3. QED
    BY <2>1, <2>2
<1>4. ASSUME NEW id \in ids PROVE add[id] = <<d, id>>
  <2>1. \E key \in K : key.keyId = id
    OBVIOUS
  <2>2. (CHOOSE key \in K : key.keyId = id) \in K /\ (CHOOSE key \in K : key.keyId = id).keyId = id
    BY <2>1
  <2>3. \A key \in K : key.keyId = id => key.public = <<d, id>>
    BY <1>1, <1>7
  <2>4. QED
    BY <2>2, <2>3
<1>5. DOMAIN add = start .. start + count - 1
  BY <1>3
<1> HIDE DEF add, ids
<1>6. QED
  BY <1>2, <1>3, <1>4, <1>5 DEF new, Owned

\* The one-time keys of an upload, in their order.
LEMMA KeysUploaded ==
  ASSUME NEW d, NEW start \in Nat, NEW count \in Nat
  PROVE  /\ Len(Uploaded(d, generatePreKeys(d, start, count))) = count
         /\ Uploaded(d, generatePreKeys(d, start, count)) \in Seq(ToSet(Uploaded(d, generatePreKeys(d, start, count))))
         /\ \A i \in 1 .. count : Uploaded(d, generatePreKeys(d, start, count))[i] = PostedKey(d, start + i - 1)
<1> DEFINE keys == generatePreKeys(d, start, count)
           K == ToSet(keys)
           f == [i \in 1 .. Len(keys) |-> keyNode("key", keys[i])]
           g == [key \in K |-> keyNode("key", key)]
           up == SubSeq(f, 1, Len(keys))
           a == Registration(d)
           b == Identity(d)
           l == node("list", NoAttrs, up)
           c == Skey(d)
           u == <<a, b, l, c>>
<1>1. Len(keys) = count /\ List(keys, K) /\ \A i \in 1 .. count : keys[i] = KeyOf(d, start + i - 1)
  BY KeysGenerated DEF List
<1>2. buildPreKeyUploadNode(Creds(d), keys).content.value = u /\ buildPreKeyUploadNode(Creds(d), keys).content.kind = "list"
  BY DEF buildPreKeyUploadNode, Each, node, Registration, Identity, Skey, Signature, Creds
<1>3. \E tag, attrs : buildPreKeyUploadNode(Creds(d), keys) = node(tag, attrs, u)
  BY DEF buildPreKeyUploadNode, Each, Registration, Identity, Skey, Signature, Creds
<1>4. l.tag = "list" /\ a.tag = "registration" /\ b.tag = "identity" /\ c.tag = "skey" /\ l.content.value = up
  BY DEF node, Registration, Identity, Skey, leaf
<1> HIDE DEF keys, K
<1>5. \A i \in 1 .. Len(keys) : f[i] = g[keys[i]]
  BY <1>1, ListPlaces
<1>6. List(up, ImageOf(g, K)) /\ Len(up) = Len(keys) /\ \A i \in 1 .. Len(keys) : up[i] = g[keys[i]]
  <2> HIDE DEF f, g
  <2>1. QED
    BY <1>1, <1>5, ListEach
<1>7. ASSUME NEW i \in 1 .. count PROVE up[i] = PostedKey(d, start + i - 1)
  <2>1. keys[i] \in K /\ up[i] = g[keys[i]]
    BY <1>1, <1>6, ListPlaces
  <2>2. up[i] = keyNode("key", keys[i])
    BY <2>1
  <2>3. QED
    BY <1>1, <2>2 DEF PostedKey, KeyOf
<1> HIDE DEF up, a, b, c, l
<1>8. u \in Seq({a, b, l, c}) /\ Len(u) = 4 /\ u[1] = a /\ u[2] = b /\ u[3] = l /\ u[4] = c
  OBVIOUS
<1> HIDE DEF u
<1>9. \A e \in {a, b, l, c} : \E i \in 1 .. Len(u) : u[i] = e
  BY <1>8
<1>10. List(u, {a, b, l, c})
  BY <1>8, <1>9, MakesList
<1>11. l \in {a, b, l, c} /\ \A e \in {a, b, l, c} : e.tag = l.tag => e = l
  BY <1>4
<1>12. \A tag, attrs : getBinaryNodeChild(node(tag, attrs, u), l.tag) = l
  BY <1>10, <1>11, OneChild
<1>13. Uploaded(d, keys) = up
  BY <1>3, <1>4, <1>12 DEF Uploaded
<1>14. Len(up) = count /\ up \in Seq(ToSet(up))
  BY <1>1, <1>6 DEF List
<1>15. QED
  BY <1>7, <1>13, <1>14 DEF keys

\* Two ids are two nodes.
LEMMA PostedKeysDiffer ==
  ASSUME NEW d, NEW i, NEW j, PostedKey(d, i) = PostedKey(d, j)
  PROVE  i = j
<1> DEFINE V(n) == n.content.value[2].content.value
<1>1. \A k : V(PostedKey(d, k)) = <<d, k>>
  BY DEF PostedKey, keyNode, node, leaf
<1> HIDE DEF V
<1>2. <<d, i>> = <<d, j>>
  BY <1>1
<1>3. QED
  BY <1>2

----------------------------------------------------------------------------
(* What is true of every state.                                            *)

\* Keys are held under their own ids; the last id there is not reached.
StockOf(d) ==
  /\ uploads[d] \in Nat /\ uploads[d] <= MaxUploads[d]
  /\ nextPreKeyId[d] \in Nat /\ FirstId <= nextPreKeyId[d]
  /\ nextPreKeyId[d] + (MaxUploads[d] - uploads[d]) * Batch <= Base * Base * Base
  /\ \A id \in DOMAIN stock[d] : id \in Nat /\ FirstId <= id /\ id < nextPreKeyId[d] /\ stock[d][id] = <<d, id>>
StockInv ==
  /\ DOMAIN stock = Devices /\ DOMAIN nextPreKeyId = Devices /\ DOMAIN uploads = Devices
  /\ \A d \in Devices : StockOf(d)

\* The server may hand out keys that are held and were not handed out, each once.
PostedOf(d) ==
  /\ posted[d] \in Seq(ToSet(posted[d]))
  /\ \A i \in 1 .. Len(posted[d]) : \E id \in DOMAIN stock[d] :
       posted[d][i] = PostedKey(d, id) /\ \A b \in served : b.device = d => b.id # id
  /\ \A i, j \in 1 .. Len(posted[d]) : posted[d][i] = posted[d][j] => i = j
PostedInv == DOMAIN posted = Devices /\ \A d \in Devices : PostedOf(d)

hasSessionWith(d, e) == sessionAddress(e) \in DOMAIN sessions[d]

\* A key handed out is its device's, for one other device that has a session since.
ServedInv ==
  /\ \A b \in served :
       /\ b = [device |-> b.device, to |-> b.to, id |-> b.id, public |-> <<b.device, b.id>>]
       /\ b.device \in Devices /\ b.to \in Devices /\ b.id \in Nat /\ b.id < nextPreKeyId[b.device]
       /\ <<b.device, b.id>> \in used \/ b.id \in DOMAIN stock[b.device]
       /\ hasSessionWith(b.to, b.device)
  /\ \A b, c \in served : b.device = c.device /\ (b.id = c.id \/ b.to = c.to) => b = c

\* A key is deleted when the text of the device it was handed to is opened.
UsedInv ==
  \A u \in used : \E b \in served, t \in sent :
    /\ u = <<b.device, b.id>> /\ b.to = t.author /\ <<b.device, t.id>> \in opened
    /\ b.id \notin DOMAIN stock[b.device]

\* What a session or a message names of a device: the key that was handed out, or
\* none if there was none.
Names(preKey, d, author) ==
  IF preKey = None THEN \A b \in served : ~(b.device = d /\ b.to = author)
  ELSE \E b \in served : b.device = d /\ b.to = author /\ preKey = [id |-> b.id, public |-> b.public]

\* A session is with the device of its address; once that has answered it has one too.
SessionOf(d, address) ==
  \E e \in Devices :
    /\ address = sessionAddress(e) /\ sessions[d][address].peer = e /\ sessions[d][address].pending \in BOOLEAN
    /\ IF sessions[d][address].pending THEN Names(sessions[d][address].preKey, e, d)
       ELSE sessions[d][address].preKey = None /\ hasSessionWith(e, d)
SessionsInv == DOMAIN sessions = Devices /\ \A d \in Devices : \A address \in DOMAIN sessions[d] : SessionOf(d, address)

TargetsInv ==
  /\ DOMAIN targets = Texts
  /\ \A t \in Texts : targets[t] = None \/ List(targets[t], {Wire(d) : d \in Audience(t)})

SentInv ==
  /\ sent \subseteq Texts
  /\ \A t \in sent : \A d \in Audience(t) : hasSessionWith(t.author, d)
  /\ \A o \in opened : \E t \in sent : \E d \in Audience(t) : o = <<d, t.id>>

\* A message is a copy of a text.
IsCopy(s, t, d, type, preKey) ==
  /\ s = node("message", AttrsOf(t), s.content.value)
  /\ List(s.content.value, {Enc(t, d, type, preKey)})
Type(s) == Head(s.content.value).attrs.type
Key(s) == Head(s.content.value).content.value.preKey

\* It can be opened as long as it was not, and a key it names is deleted then.
Carries(t, d, type, preKey) ==
  \/ type = "msg" /\ preKey = None /\ hasSessionWith(d, t.author)
  \/ /\ type = "pkmsg" /\ Names(preKey, d, t.author)
     /\ preKey # None /\ <<d, t.id>> \in opened => <<d, preKey.id>> \in used
Brings(s, t, d) == d \in Audience(t) /\ IsCopy(s, t, d, Type(s), Key(s)) /\ Carries(t, d, Type(s), Key(s))

\* What the server keeps for a device brings it texts, each of them once.
QueueOf(d) ==
  /\ queue[d] \in Seq(ToSet(queue[d])) /\ position[d] \in 1 .. Len(queue[d]) + 1
  /\ \A s \in ToSet(queue[d]) : \E t \in sent : Brings(s, t, d)
  /\ \A i, j \in 1 .. Len(queue[d]) : queue[d][i].attrs.id = queue[d][j].attrs.id => queue[d][i] = queue[d][j]
QueueInv == DOMAIN queue = Devices /\ DOMAIN position = Devices /\ \A d \in Devices : QueueOf(d)

ShownOn(d, t) == \E i \in 1 .. Len(shown[d]) : shown[d][i].id = t.id
Queued(d, t) == \E i \in 1 .. Len(queue[d]) : queue[d][i].attrs.id = t.id
KeyFor(d, author) == \E b \in served : b.device = d /\ b.to = author

Entry(t, d) ==
  [id |-> t.id, author |-> t.author, text |-> textOf(ForDevice(t, d)), content |-> contentOf(ForDevice(t, d))]

\* What is opened is shown, and again only if it named no key; what is not shown is
\* still to be brought.
ShownOf(d) ==
  /\ shown[d] \in Seq(ToSet(shown[d]))
  /\ \A e \in ToSet(shown[d]) : \E t \in sent : d \in Audience(t) /\ e = Entry(t, d)
  /\ \A author \in Devices : KeyFor(d, author) =>
       \A i, j \in 1 .. Len(shown[d]) : shown[d][i].id = shown[d][j].id /\ shown[d][i].author = author => i = j
  /\ \A t \in sent : <<d, t.id>> \in opened <=> ShownOn(d, t)
  /\ \A t \in sent : d \in Audience(t) => ShownOn(d, t) \/ Queued(d, t)
ShownInv == DOMAIN shown = Devices /\ \A d \in Devices : ShownOf(d)

\* Answers are to texts that are shown, and what was handled has its ack among them.
IsAnswer(answer, t, d) == d \in Audience(t) /\ ShownOn(d, t) /\ answer \in {AckOf(t), ReceiptOf(t)}
AnswersOf(d) ==
  /\ answers[d] \in Seq(ToSet(answers[d]))
  /\ \A answer \in ToSet(answers[d]) : \E t \in sent : IsAnswer(answer, t, d)
  /\ \A i \in 1 .. Len(queue[d]) :
       i < position[d] => \E j \in 1 .. Len(answers[d]) : Settled(queue[d][i], answers[d][j])
AnswersInv == DOMAIN answers = Devices /\ \A d \in Devices : AnswersOf(d)

TicksInv ==
  \A tick \in ticks : \E t \in sent, d \in Devices :
    tick = [id |-> t.id, by |-> d, author |-> t.author] /\ ShownOn(d, t)

Inv ==
  /\ StockInv /\ PostedInv /\ ServedInv /\ UsedInv /\ SessionsInv /\ TargetsInv /\ SentInv
  /\ QueueInv /\ ShownInv /\ AnswersInv /\ TicksInv /\ refused = {}

----------------------------------------------------------------------------
(* What a step leaves as it was.                                           *)

\* The items of a sequence.
LEMMA Items ==
  ASSUME NEW S, NEW s \in Seq(S)
  PROVE  /\ Len(s) \in Nat /\ s \in Seq(ToSet(s))
         /\ \A x : x \in ToSet(s) <=> \E i \in 1 .. Len(s) : x = s[i]
<1>1. Len(s) \in Nat /\ DOMAIN s = 1 .. Len(s)
  BY LenProperties
<1>2. QED
  BY <1>1, SeqLists DEF List, ToSet

\* A part of the invariant stays true where what it speaks of is unchanged.
LEMMA StockKept ==
  ASSUME StockInv, UNCHANGED <<stock, nextPreKeyId, uploads>>
  PROVE  StockInv'
BY DEF StockInv, StockOf

\* The keys posted.
LEMMA PostedKept ==
  ASSUME PostedInv, UNCHANGED <<stock, posted, served>>
  PROVE  PostedInv'
BY DEF PostedInv, PostedOf

\* The keys handed out.
LEMMA ServedKept ==
  ASSUME ServedInv, UNCHANGED <<served, nextPreKeyId, used, stock, sessions>>
  PROVE  ServedInv'
BY DEF ServedInv, hasSessionWith

\* The keys deleted, when more texts are sent and opened.
LEMMA UsedKept ==
  ASSUME UsedInv, UNCHANGED <<used, stock>>, served \subseteq served', sent \subseteq sent', opened \subseteq opened'
  PROVE  UsedInv'
BY DEF UsedInv

\* The sessions.
LEMMA SessionsKept ==
  ASSUME SessionsInv, UNCHANGED <<served, sessions>>
  PROVE  SessionsInv'
BY DEF SessionsInv, SessionOf, Names, hasSessionWith

\* The devices texts go to.
LEMMA TargetsKept ==
  ASSUME TargetsInv, UNCHANGED targets
  PROVE  TargetsInv'
BY DEF TargetsInv

\* The texts sent, when more sessions are opened.
LEMMA SentKept ==
  ASSUME SentInv, UNCHANGED <<sent, opened>>,
         \A d, e \in Devices : hasSessionWith(d, e) => hasSessionWith(d, e)'
  PROVE  SentInv'
<1>1. \A t \in sent : t.author \in Devices /\ Audience(t) \subseteq Devices
  BY TextsAssumption DEF SentInv, Audience
<1>2. QED
  BY <1>1 DEF SentInv

\* What is brought, when more sessions are opened and no more texts.
LEMMA BringsKept ==
  ASSUME NEW d \in Devices, NEW t \in Texts, NEW s, Brings(s, t, d),
         hasSessionWith(d, t.author) => hasSessionWith(d, t.author)',
         \A b \in served : b \in served',
         KeyFor(d, t.author)' => KeyFor(d, t.author),
         <<d, t.id>> \in opened' => <<d, t.id>> \in opened, \A u \in used : u \in used'
  PROVE  d \in Audience(t) /\ IsCopy(s, t, d, Type(s), Key(s)) /\ Carries(t, d, Type(s), Key(s))'
BY DEF Brings, Carries, Names, KeyFor

\* The queue of a device, when all that is brought is still brought.
LEMMA QueueOfKept ==
  ASSUME NEW d \in Devices, QueueOf(d), queue'[d] = queue[d], position'[d] = position[d], sent \subseteq sent',
         \A s : \A t \in sent : Brings(s, t, d) =>
            d \in Audience(t) /\ IsCopy(s, t, d, Type(s), Key(s)) /\ Carries(t, d, Type(s), Key(s))'
  PROVE  QueueOf(d)'
<1>1. \A s : \A t \in sent : Brings(s, t, d) => Brings(s, t, d)'
  BY DEF Brings
<1>2. QED
  BY <1>1 DEF QueueOf

\* The queues.
LEMMA QueueKept ==
  ASSUME QueueInv, UNCHANGED <<queue, position, sent, sessions, served, opened, used>>, sent \subseteq Texts
  PROVE  QueueInv'
<1>1. ASSUME NEW d \in Devices PROVE QueueOf(d)'
  <2>1. QueueOf(d) /\ queue'[d] = queue[d] /\ position'[d] = position[d]
    BY DEF QueueInv
  <2>2. ASSUME NEW s, NEW t \in sent, Brings(s, t, d)
        PROVE  d \in Audience(t) /\ IsCopy(s, t, d, Type(s), Key(s)) /\ Carries(t, d, Type(s), Key(s))'
    BY <2>2 DEF Brings, Carries, Names, hasSessionWith
  <2>3. QED
    BY <2>1, <2>2, QueueOfKept
<1>2. QED
  BY <1>1 DEF QueueInv

\* What a device has shown, when no more is opened and nothing taken from its queue.
LEMMA ShownOfKept ==
  ASSUME NEW d \in Devices, ShownOf(d), UNCHANGED <<sent, opened>>, shown'[d] = shown[d],
         \A t \in sent : d \in Audience(t) /\ KeyFor(d, t.author)' => KeyFor(d, t.author),
         \A t \in sent : Queued(d, t) => ShownOn(d, t) \/ Queued(d, t)'
  PROVE  ShownOf(d)'
<1>1. \A t : ShownOn(d, t)' <=> ShownOn(d, t)
  BY DEF ShownOn
<1>2. ASSUME NEW author \in Devices, KeyFor(d, author)',
             NEW i \in 1 .. Len(shown[d]), NEW j \in 1 .. Len(shown[d]),
             shown[d][i].id = shown[d][j].id, shown[d][i].author = author
      PROVE  i = j
  <2>1. shown[d][i] \in ToSet(shown[d])
    BY Items DEF ShownOf
  <2>2. PICK t \in sent : d \in Audience(t) /\ shown[d][i] = Entry(t, d)
    BY <2>1 DEF ShownOf
  <2>3. author = t.author
    BY <1>2, <2>2 DEF Entry
  <2>4. KeyFor(d, author)
    BY <1>2, <2>2, <2>3
  <2>5. QED
    BY <1>2, <2>4 DEF ShownOf
<1>3. QED
  BY <1>1, <1>2 DEF ShownOf

\* What is shown.
LEMMA ShownKept ==
  ASSUME ShownInv, UNCHANGED <<shown, sent, served, opened, queue>>
  PROVE  ShownInv'
<1>1. ASSUME NEW d \in Devices PROVE ShownOf(d)'
  <2>1. ShownOf(d) /\ shown'[d] = shown[d]
    BY DEF ShownInv
  <2>2. \A t : (Queued(d, t)' <=> Queued(d, t)) /\ \A author : KeyFor(d, author)' <=> KeyFor(d, author)
    BY DEF Queued, KeyFor
  <2>3. QED
    BY <2>1, <2>2, ShownOfKept
<1>2. QED
  BY <1>1 DEF ShownInv

\* The answers of a device, when more texts are sent and more is shown.
LEMMA AnswersOfKept ==
  ASSUME NEW d \in Devices, AnswersOf(d), answers'[d] = answers[d], queue'[d] = queue[d], position'[d] = position[d],
         sent \subseteq sent', \A t \in sent : ShownOn(d, t) => ShownOn(d, t)'
  PROVE  AnswersOf(d)'
<1>1. \A answer : \A t \in sent : IsAnswer(answer, t, d) => IsAnswer(answer, t, d)'
  BY DEF IsAnswer
<1>2. QED
  BY <1>1 DEF AnswersOf

\* The answers.
LEMMA AnswersKept ==
  ASSUME AnswersInv, UNCHANGED <<answers, sent, shown, queue, position>>
  PROVE  AnswersInv'
BY DEF AnswersInv, AnswersOf, IsAnswer, ShownOn

\* The ticks, when more texts are sent and more is shown.
LEMMA TicksKept ==
  ASSUME TicksInv, UNCHANGED ticks, sent \subseteq sent', \A d \in Devices, t \in sent : ShownOn(d, t) => ShownOn(d, t)'
  PROVE  TicksInv'
BY DEF TicksInv

\* The empty sequence has none.
LEMMA NoItems == << >> \in Seq(ToSet(<< >>)) /\ ToSet(<< >>) = {} /\ Len(<< >>) = 0 /\ \A i \in 1 .. Len(<< >>) : FALSE
BY DEF ToSet

\* A text is known by its id, and at a device by its author.
LEMMA OneText ==
  ASSUME NEW t \in Texts, NEW u \in Texts
  PROVE  /\ t.id = u.id => t = u
         /\ \A d : t.author = u.author /\ d \in Audience(t) /\ d \in Audience(u) => t = u
<1>1. ASSUME t # u PROVE t.id # u.id /\ (t.author = u.author => Audience(t) \intersect Audience(u) = {})
  <2>1. u \in Texts \ {t}
    BY <1>1
  <2>2. QED
    BY <2>1, TextsAssumption
<1>2. QED
  BY <1>1

----------------------------------------------------------------------------
(* It is true at first, and every step leaves it true.                     *)

\* Before anything is sent.
LEMMA InitInv ==
  ASSUME Init
  PROVE  Inv
<1> DEFINE first(d) == generatePreKeys(d, FirstId, Stocked[d])
<1>1. /\ DOMAIN stock = Devices /\ \A d \in Devices : stock[d] = storePreKeys(Nothing, first(d))
      /\ DOMAIN nextPreKeyId = Devices /\ \A d \in Devices : nextPreKeyId[d] = FirstId + Stocked[d]
      /\ DOMAIN posted = Devices /\ \A d \in Devices : posted[d] = Uploaded(d, first(d))
      /\ DOMAIN uploads = Devices /\ \A d \in Devices : uploads[d] = 0
  BY DEF Init
<1>2. /\ served = {} /\ used = {} /\ sent = {} /\ opened = {} /\ refused = {} /\ ticks = {}
      /\ DOMAIN targets = Texts /\ \A t \in Texts : targets[t] = None
      /\ DOMAIN sessions = Devices /\ \A d \in Devices : sessions[d] = Nothing
      /\ DOMAIN queue = Devices /\ \A d \in Devices : queue[d] = << >>
      /\ DOMAIN position = Devices /\ \A d \in Devices : position[d] = 1
      /\ DOMAIN answers = Devices /\ \A d \in Devices : answers[d] = << >>
      /\ DOMAIN shown = Devices /\ \A d \in Devices : shown[d] = << >>
  BY DEF Init
<1>3. DOMAIN Nothing = {}
  BY DEF Nothing
<1>4. /\ FirstId \in Nat /\ Batch \in Nat /\ \A d \in Devices : Stocked[d] \in Nat /\ MaxUploads[d] \in Nat
  BY BoundsAssumption
<1>5. \A d \in Devices : /\ DOMAIN stock[d] = FirstId .. FirstId + Stocked[d] - 1
                         /\ \A id \in DOMAIN stock[d] : stock[d][id] = <<d, id>>
  <2>1. SUFFICES ASSUME NEW d \in Devices
                 PROVE  /\ DOMAIN stock[d] = FirstId .. FirstId + Stocked[d] - 1
                        /\ \A id \in DOMAIN stock[d] : stock[d][id] = <<d, id>>
    OBVIOUS
  <2>2. Owned(Nothing, d)
    BY <1>3 DEF Owned
  <2>3. FirstId \in Nat /\ Stocked[d] \in Nat
    BY <1>4
  <2>4. /\ DOMAIN storePreKeys(Nothing, first(d)) = DOMAIN Nothing \union (FirstId .. FirstId + Stocked[d] - 1)
        /\ Owned(storePreKeys(Nothing, first(d)), d)
    BY <2>2, <2>3, KeysStored, Zenon
  <2>5. stock[d] = storePreKeys(Nothing, first(d))
    BY <1>1
  <2> HIDE DEF first
  <2>6. QED
    BY <1>3, <2>4, <2>5 DEF Owned
<1>6. StockInv
  <2>1. ASSUME NEW d \in Devices
        PROVE  nextPreKeyId[d] + (MaxUploads[d] - uploads[d]) * Batch <= Base * Base * Base
    BY <1>1, <1>4, BoundsAssumption
  <2>2. QED
    BY <1>1, <1>4, <1>5, <2>1 DEF StockInv, StockOf
<1>7. PostedInv
  <2>1. SUFFICES ASSUME NEW d \in Devices
                 PROVE  /\ posted[d] \in Seq(ToSet(posted[d]))
                        /\ \A i \in 1 .. Len(posted[d]) : \E id \in DOMAIN stock[d] : posted[d][i] = PostedKey(d, id)
                        /\ \A i, j \in 1 .. Len(posted[d]) : posted[d][i] = posted[d][j] => i = j
    BY <1>1, <1>2 DEF PostedInv, PostedOf
  <2>2. /\ Len(posted[d]) = Stocked[d] /\ posted[d] \in Seq(ToSet(posted[d]))
        /\ \A i \in 1 .. Stocked[d] : posted[d][i] = PostedKey(d, FirstId + i - 1)
    BY <1>1, <1>4, KeysUploaded
  <2>3. \A i \in 1 .. Stocked[d] : FirstId + i - 1 \in DOMAIN stock[d]
    BY <1>4, <1>5
  <2>4. ASSUME NEW i \in 1 .. Stocked[d], NEW j \in 1 .. Stocked[d], posted[d][i] = posted[d][j] PROVE i = j
    <3>1. FirstId + i - 1 = FirstId + j - 1
      BY <2>2, <2>4, PostedKeysDiffer
    <3>2. QED
      BY <1>4, <3>1
  <2>5. QED
    BY <2>2, <2>3, <2>4
<1>8. ServedInv /\ UsedInv /\ SentInv /\ TicksInv
  BY <1>2 DEF ServedInv, UsedInv, SentInv, TicksInv
<1>9. SessionsInv /\ TargetsInv
  BY <1>2, <1>3 DEF SessionsInv, TargetsInv
<1>10. QueueInv
  <2>1. SUFFICES ASSUME NEW d \in Devices PROVE QueueOf(d)
    BY <1>2 DEF QueueInv
  <2>2. queue[d] = << >> /\ position[d] = 1
    BY <1>2
  <2>3. QED
    BY <2>2, NoItems DEF QueueOf
<1>11. ShownInv
  BY <1>2, NoItems DEF ShownInv, ShownOf
<1>12. AnswersInv
  BY <1>2, NoItems DEF AnswersInv, AnswersOf
<1>13. QED
  BY <1>2, <1>6, <1>7, <1>8, <1>9, <1>10, <1>11, <1>12 DEF Inv

\* The devices of a text are asked for.
LEMMA AskDevicesInv ==
  ASSUME OneServer, Inv, NEW t \in Texts, AskDevices(t)
  PROVE  Inv'
<1>1. /\ UNCHANGED <<stock, nextPreKeyId, uploads, posted, served, used, sent, sessions, opened, refused, shown>>
      /\ UNCHANGED <<queue, position, answers, ticks>>
      /\ targets' = [targets EXCEPT ![t] = TargetsOf(t)]
  BY DEF AskDevices, stockVars, serverVars, receiveVars, queueVars
<1>2. TargetsInv'
  <2>1. DOMAIN targets = Texts /\ \A u \in Texts : targets[u] = None \/ List(targets[u], {Wire(d) : d \in Audience(u)})
    BY DEF Inv, TargetsInv
  <2>2. List(TargetsOf(t), {Wire(d) : d \in Audience(t)})
    BY TargetsListed
  <2>3. DOMAIN targets' = Texts /\ targets'[t] = TargetsOf(t) /\ \A u \in Texts \ {t} : targets'[u] = targets[u]
    BY <1>1, <2>1
  <2>4. ASSUME NEW u \in Texts PROVE targets'[u] = None \/ List(targets'[u], {Wire(d) : d \in Audience(u)})
    <3>1. CASE u = t
      BY <2>2, <2>3, <3>1
    <3>2. CASE u # t
      BY <2>1, <2>3, <3>2
    <3>3. QED
      BY <3>1, <3>2
  <2>5. QED
    BY <2>3, <2>4 DEF TargetsInv
<1>3. StockInv' /\ PostedInv' /\ ServedInv'
  BY <1>1, StockKept, PostedKept, ServedKept DEF Inv
<1>4. UsedInv' /\ SessionsInv'
  BY <1>1, UsedKept, SessionsKept DEF Inv
<1>5. SentInv' /\ TicksInv'
  BY <1>1, SentKept, TicksKept DEF Inv, hasSessionWith, ShownOn
<1>6. QueueInv'
  BY <1>1, QueueKept DEF Inv, SentInv
<1>7. ShownInv' /\ AnswersInv' /\ refused' = {}
  BY <1>1, ShownKept, AnswersKept DEF Inv
<1>8. QED
  BY <1>2, <1>3, <1>4, <1>5, <1>6, <1>7 DEF Inv

\* A connection is lost.
LEMMA DisconnectInv ==
  ASSUME Inv, NEW d \in Devices, Disconnect(d)
  PROVE  Inv'
<1>1. /\ UNCHANGED <<stock, nextPreKeyId, uploads, posted, served, used, sent, sessions, opened, refused, shown, targets>>
      /\ UNCHANGED <<queue, ticks>>
      /\ answers' = [answers EXCEPT ![d] = << >>] /\ position' = [position EXCEPT ![d] = 1]
  BY DEF Disconnect, stockVars, serverVars, sendVars, receiveVars
<1>2. /\ DOMAIN queue = Devices /\ DOMAIN position = Devices /\ DOMAIN answers = Devices
      /\ \A e \in Devices : QueueOf(e) /\ AnswersOf(e) /\ Len(queue[e]) \in Nat
  BY LenProperties DEF Inv, QueueInv, QueueOf, AnswersInv
<1>3. QueueInv'
  <2>1. SUFFICES ASSUME NEW e \in Devices PROVE QueueOf(e)'
    BY <1>1, <1>2 DEF QueueInv
  <2>2. position'[e] \in 1 .. Len(queue[e]) + 1
    BY <1>1, <1>2 DEF QueueOf
  <2>3. \A s : \A t \in sent : Brings(s, t, e) => Brings(s, t, e)'
    BY <1>1 DEF Brings, Carries, Names, hasSessionWith
  <2>4. QED
    BY <1>1, <1>2, <2>2, <2>3 DEF QueueOf
<1>4. AnswersInv'
  <2>1. SUFFICES ASSUME NEW e \in Devices PROVE AnswersOf(e)'
    BY <1>1, <1>2 DEF AnswersInv
  <2>2. CASE e = d
    <3>1. answers'[e] = << >> /\ position'[e] = 1 /\ queue'[e] = queue[e]
      BY <1>1, <1>2, <2>2
    <3>2. QED
      BY <1>2, <3>1, NoItems DEF AnswersOf
  <2>3. CASE e # d
    <3>1. answers'[e] = answers[e] /\ position'[e] = position[e] /\ queue'[e] = queue[e]
      BY <1>1, <1>2, <2>3
    <3>2. \A t \in sent : ShownOn(e, t) => ShownOn(e, t)'
      BY <1>1 DEF ShownOn
    <3>3. QED
      BY <1>1, <1>2, <3>1, <3>2, AnswersOfKept
  <2>4. QED
    BY <2>2, <2>3
<1>5. StockInv' /\ PostedInv' /\ ServedInv' /\ TargetsInv'
  BY <1>1, StockKept, PostedKept, ServedKept, TargetsKept DEF Inv
<1>6. UsedInv' /\ SessionsInv'
  BY <1>1, UsedKept, SessionsKept DEF Inv
<1>7. SentInv' /\ TicksInv'
  BY <1>1, SentKept, TicksKept DEF Inv, hasSessionWith, ShownOn
<1>8. ShownInv' /\ refused' = {}
  BY <1>1, ShownKept DEF Inv
<1>9. QED
  BY <1>3, <1>4, <1>5, <1>6, <1>7, <1>8 DEF Inv

----------------------------------------------------------------------------
(* Bundles are fetched.                                                    *)

\* The devices of a text there is no session with.
Strangers(t) == {d \in Audience(t) : ~hasSessionWith(t.author, d)}

\* What the bundle of a device offers: the first key the server has of it, if any.
Offer(bundle, d) ==
  /\ bundle.identityKeyPublic = d /\ verifyPreKeyBundle(bundle)
  /\ posted[d] = << >> => bundle.preKeyId = None
  /\ posted[d] # << >> => \E id \in DOMAIN stock[d] :
       /\ bundle.preKeyId = id /\ bundle.preKeyPublic = <<d, id>> /\ posted[d][1] = PostedKey(d, id)
       /\ \A b \in served : b.device = d => b.id # id

\* The ids of the stock are numbers of three bytes.
LEMMA IdsFit ==
  ASSUME StockInv, NEW d \in Devices
  PROVE  nextPreKeyId[d] <= Base * Base * Base
<1>1. /\ uploads[d] \in Nat /\ uploads[d] <= MaxUploads[d] /\ MaxUploads[d] \in Nat /\ Batch \in Nat /\ nextPreKeyId[d] \in Nat
      /\ nextPreKeyId[d] + (MaxUploads[d] - uploads[d]) * Batch <= Base * Base * Base
  BY BoundsAssumption DEF StockInv, StockOf
<1>2. MaxUploads[d] - uploads[d] \in Nat
  BY <1>1
<1>3. \A m, n \in Nat : m * n \in Nat
  OBVIOUS
<1>4. (MaxUploads[d] - uploads[d]) * Batch \in Nat
  BY <1>1, <1>2, <1>3
<1>5. Base * Base * Base \in Nat
  BY <1>3, BoundsAssumption
<1> DEFINE rest == (MaxUploads[d] - uploads[d]) * Batch
           top == Base * Base * Base
<1>6. nextPreKeyId[d] + rest <= top /\ rest \in Nat /\ top \in Nat
  BY <1>1, <1>4, <1>5
<1> HIDE DEF rest, top
<1>7. nextPreKeyId[d] <= top
  BY <1>1, <1>6
<1>8. QED
  BY <1>7 DEF top

\* The devices there is no session with are those that are asked for.
LEMMA UnopenedListed ==
  ASSUME OneServer, Inv, NEW t \in Texts, targets[t] # None
  PROVE  List(Unopened(t), {Wire(d) : d \in Strangers(t)})
<1> DEFINE E == {Wire(d) : d \in Audience(t)}
           K == {Wire(d) : d \in Strangers(t)}
           places == {i \in DOMAIN targets[t] : ~hasSession(t.author, targets[t][i])}
<1>1. List(targets[t], E)
  BY DEF Inv, TargetsInv
<1>2. Audience(t) \subseteq Devices /\ Strangers(t) \subseteq Audience(t) /\ t.author \in Devices
  BY TextsAssumption DEF Audience, Strangers
<1>3. \A d \in Devices : sessionAddress(Wire(d)) = sessionAddress(d) /\ OverTheWire(Wire(d)) = d
  BY Addresses
<1>4. ASSUME NEW d \in Audience(t) PROVE hasSession(t.author, Wire(d)) <=> Wire(d) \notin K
  <2>1. Wire(d) \in K <=> d \in Strangers(t)
    BY <1>2, <1>3
  <2>2. QED
    BY <1>2, <1>3, <2>1 DEF hasSession, hasSessionWith, Strangers
<1>5. \A i \in DOMAIN targets[t] : targets[t][i] \in E
  <2>1. /\ DOMAIN targets[t] = 1 .. Len(targets[t]) /\ \A i \in 1 .. Len(targets[t]) : targets[t][i] \in E
    <3> HIDE DEF E
    <3>1. QED
      BY <1>1, ListPlaces
  <2>2. QED
    BY <2>1
<1>6. \A i \in DOMAIN targets[t] : i \in places <=> targets[t][i] \in K
  <2>1. SUFFICES ASSUME NEW i \in DOMAIN targets[t] PROVE ~hasSession(t.author, targets[t][i]) <=> targets[t][i] \in K
    OBVIOUS
  <2>2. PICK d \in Audience(t) : targets[t][i] = Wire(d)
    BY <1>5
  <2> HIDE DEF K
  <2>3. QED
    BY <1>4, <2>2
<1>7. E \intersect K = K
  BY <1>2
<1>8. Unopened(t) = Only(targets[t], places)
  BY DEF Unopened
<1> HIDE DEF E, K, places
<1>9. List(Unopened(t), E \intersect K)
  BY <1>1, <1>6, <1>8, ListOnly
<1>10. QED
  BY <1>7, <1>9 DEF K

\* What the server keeps of a device makes the bundle.
LEMMA OfferMade ==
  ASSUME Inv, NEW d \in Devices
  PROVE  /\ ServerNode(d).tag = "user" /\ Has(ServerNode(d), "jid") /\ ServerNode(d).attrs.jid = d /\ Complete(ServerNode(d))
         /\ Offer(bundleOf(ServerNode(d)), d)
<1> DEFINE keys == AtMostOne(posted[d])
           K == ToSet(keys)
<1>1. PostedOf(d) /\ StockOf(d)
  BY DEF Inv, PostedInv, StockInv
<1>2. CASE posted[d] = << >>
  <2>1. List(keys, {})
    BY <1>2, ListNone DEF AtMostOne
  <2> HIDE DEF keys
  <2>2. LET n == UserNode(d, keys)
        IN  /\ n.tag = "user" /\ Has(n, "jid") /\ n.attrs.jid = d
            /\ Complete(n) /\ verifyPreKeyBundle(bundleOf(n)) /\ bundleOf(n).identityKeyPublic = d
            /\ bundleOf(n).preKeyId = None
    BY <2>1, BundleMade
  <2>3. QED
    BY <1>2, <2>2 DEF Offer, ServerNode, keys
<1>3. CASE posted[d] # << >>
  <2>1. Len(posted[d]) \in Nat /\ 1 \in 1 .. Len(posted[d]) /\ Head(posted[d]) = posted[d][1]
    BY <1>1, <1>3 DEF PostedOf
  <2>2. PICK id \in DOMAIN stock[d] : posted[d][1] = PostedKey(d, id) /\ \A b \in served : b.device = d => b.id # id
    BY <1>1, <2>1 DEF PostedOf
  <2>3. id \in Nat /\ id < nextPreKeyId[d] /\ nextPreKeyId[d] \in Nat
    BY <1>1 DEF StockOf
  <2>4. id < Base * Base * Base
    <3> DEFINE top == Base * Base * Base
    <3>1. nextPreKeyId[d] <= top /\ top \in Nat
      BY IdsFit, BoundsAssumption DEF Inv
    <3> HIDE DEF top
    <3>2. id < top
      BY <2>3, <3>1
    <3>3. QED
      BY <3>2 DEF top
  <2>5. keys = <<PostedKey(d, id)>>
    BY <1>3, <2>1, <2>2 DEF AtMostOne
  <2>6. List(keys, {PostedKey(d, id)})
    BY <2>5, ListOne
  <2>7. PostedKey(d, id).tag = "key"
    BY DEF PostedKey, keyNode, node
  <2> HIDE DEF keys
  <2>8. LET n == UserNode(d, keys)
        IN  /\ n.tag = "user" /\ Has(n, "jid") /\ n.attrs.jid = d
            /\ Complete(n) /\ verifyPreKeyBundle(bundleOf(n)) /\ bundleOf(n).identityKeyPublic = d
            /\ bundleOf(n).preKeyId = id /\ bundleOf(n).preKeyPublic = <<d, id>>
    <3> DEFINE L == {PostedKey(d, id)}
    <3>1. List(keys, L) /\ (\A k \in L : k.tag = "key") /\ (\A k, l \in L : k = l) /\ PostedKey(d, id) \in L
      BY <2>6, <2>7
    <3> HIDE DEF L
    <3>2. QED
      BY <2>3, <2>4, <3>1, BundleMade
  <2>9. QED
    BY <1>3, <2>2, <2>8 DEF Offer, ServerNode, keys
<1>4. QED
  BY <1>2, <1>3

\* There is a bundle for each of them.
LEMMA BundlesOffered ==
  ASSUME OneServer, Inv, NEW t \in Texts, targets[t] # None
  PROVE  \E B : /\ parsePreKeyBundles(BundlesOf(buildPreKeyFetchNode(Unopened(t)))) = {B}
                /\ DOMAIN B = Strangers(t) /\ \A d \in Strangers(t) : Offer(B[d], d)
<1> DEFINE D == Strangers(t)
           N == [d \in D |-> ServerNode(d)]
<1>1. D \in SUBSET Devices
  BY DEF Strangers, Audience
<1>2. List(Unopened(t), {Wire(d) : d \in D})
  BY UnopenedListed
<1>3. PICK users : /\ BundlesOf(buildPreKeyFetchNode(Unopened(t))) = node("iq", NoAttrs, <<node("list", NoAttrs, users)>>)
                   /\ List(users, ImageOf(N, D))
  <2> HIDE DEF D
  <2>1. QED
    BY <1>1, <1>2, BundlesAnswered
<1>4. ASSUME NEW d \in D
      PROVE  /\ N[d].tag = "user" /\ Has(N[d], "jid") /\ N[d].attrs.jid = d /\ Complete(N[d])
             /\ Offer(bundleOf(N[d]), d)
  <2>1. N[d] = ServerNode(d) /\ d \in Devices
    BY <1>1
  <2> HIDE DEF N, D
  <2>2. QED
    BY <2>1, OfferMade
<1> HIDE DEF N
<1>5. PICK B : /\ parsePreKeyBundles(node("iq", NoAttrs, <<node("list", NoAttrs, users)>>)) = {B}
               /\ DOMAIN B = D /\ \A d \in D : B[d] = bundleOf(N[d])
  <2> HIDE DEF D
  <2>1. QED
    BY <1>3, <1>4, BundlesParsed
<1>6. QED
  BY <1>3, <1>4, <1>5

\* The key a bundle offers, as it is named in the session.
KeyOffered(bundle) ==
  IF bundle.preKeyId = None THEN None ELSE [id |-> bundle.preKeyId, public |-> bundle.preKeyPublic]

\* A bundle handed out with a key.
Handed(B, d, author) == [device |-> d, to |-> author, id |-> B[d].preKeyId, public |-> B[d].preKeyPublic]

\* What fetching them does, with the bundles B for the devices D.
Fetched(t, D, B) ==
  /\ \A d \in D : Offer(B[d], d)
  /\ DOMAIN sessions' = Devices /\ \A e \in Devices \ {t.author} : sessions'[e] = sessions[e]
  /\ DOMAIN sessions'[t.author] = DOMAIN sessions[t.author] \union {sessionAddress(d) : d \in D}
  /\ \A address \in DOMAIN sessions[t.author] : sessions'[t.author][address] = sessions[t.author][address]
  /\ \A d \in D : sessions'[t.author][sessionAddress(d)] = [peer |-> d, pending |-> TRUE, preKey |-> KeyOffered(B[d])]
  /\ \A b : b \in served' <=> b \in served \/ \E d \in D : B[d].preKeyId # None /\ b = Handed(B, d, t.author)
  /\ DOMAIN posted' = Devices
  /\ \A d \in Devices : posted'[d] = IF d \in D THEN SubSeq(posted[d], 2, Len(posted[d])) ELSE posted[d]

\* Each of them is valid, and opens a session.
LEMMA FetchDoes ==
  ASSUME OneServer, Inv, NEW t \in Texts, FetchBundles(t)
  PROVE  \E B : Fetched(t, Strangers(t), B)
<1> DEFINE D == Strangers(t)
<1>1. targets[t] # None
  BY DEF FetchBundles
<1>2. PICK B : /\ parsePreKeyBundles(BundlesOf(buildPreKeyFetchNode(Unopened(t)))) = {B}
               /\ DOMAIN B = D /\ \A d \in D : Offer(B[d], d)
  BY <1>1, BundlesOffered
<1> DEFINE valid == {jid \in DOMAIN B : verifyPreKeyBundle(B[jid])}
           addresses == {sessionAddress(jid) : jid \in valid}
           new == [address \in addresses |-> outgoingSession(B[CHOOSE jid \in valid : sessionAddress(jid) = address])]
<1>3. /\ sessions' = [sessions EXCEPT ![t.author] = PutAll(@, new)]
      /\ served' = served \union
           {[device |-> jid, to |-> t.author, id |-> B[jid].preKeyId, public |-> B[jid].preKeyPublic] :
              jid \in {j \in valid : B[j].preKeyId # None}}
      /\ posted' = [d \in Devices |-> IF d \in DOMAIN B THEN SubSeq(posted[d], 2, Len(posted[d])) ELSE posted[d]]
  BY <1>2 DEF FetchBundles
<1>4. valid = D
  BY <1>2 DEF Offer
<1>5. D \subseteq Devices /\ t.author \in Devices
  BY TextsAssumption DEF Strangers, Audience
<1>6. DOMAIN sessions = Devices
  BY DEF Inv, SessionsInv
<1>7. ASSUME NEW d \in D PROVE new[sessionAddress(d)] = [peer |-> d, pending |-> TRUE, preKey |-> KeyOffered(B[d])]
  <2>1. \A e \in Devices : sessionAddress(d) = sessionAddress(e) => d = e
    BY <1>5, Addresses
  <2>2. (CHOOSE jid \in valid : sessionAddress(jid) = sessionAddress(d)) = d
    <3>1. \E jid \in valid : sessionAddress(jid) = sessionAddress(d)
      BY <1>4
    <3>2. \A jid \in valid : sessionAddress(jid) = sessionAddress(d) => jid = d
      BY <1>4, <1>5, <2>1
    <3> HIDE DEF valid
    <3>3. QED
      BY <3>1, <3>2
  <2>3. sessionAddress(d) \in addresses
    BY <1>4
  <2>4. new[sessionAddress(d)] = outgoingSession(B[d])
    <3> HIDE DEF valid, addresses
    <3>1. QED
      BY <2>2, <2>3
  <2>5. B[d].identityKeyPublic = d
    BY <1>2 DEF Offer
  <2>6. QED
    BY <2>4, <2>5 DEF outgoingSession, KeyOffered
<1>8. addresses = {sessionAddress(d) : d \in D} /\ DOMAIN new = addresses
  BY <1>4
<1>9. /\ DOMAIN sessions' = Devices /\ \A e \in Devices \ {t.author} : sessions'[e] = sessions[e]
      /\ sessions'[t.author] = PutAll(sessions[t.author], new)
  <2> HIDE DEF new
  <2>1. QED
    BY <1>3, <1>5, <1>6
<1>10. \A address \in DOMAIN sessions[t.author] : address \notin addresses
  <2>1. \A d \in D : sessionAddress(d) \notin DOMAIN sessions[t.author]
    BY DEF Strangers, hasSessionWith
  <2>2. QED
    BY <1>8, <2>1
<1>11. \A d \in D : sessionAddress(d) \in DOMAIN new
  BY <1>8
<1> HIDE DEF new, addresses
<1>12. /\ DOMAIN sessions'[t.author] = DOMAIN sessions[t.author] \union {sessionAddress(d) : d \in D}
       /\ \A address \in DOMAIN sessions[t.author] : sessions'[t.author][address] = sessions[t.author][address]
       /\ \A d \in D : sessions'[t.author][sessionAddress(d)] = new[sessionAddress(d)]
  <2> DEFINE old == sessions[t.author]
  <2>1. sessions'[t.author] = [k \in DOMAIN old \union addresses |-> IF k \in addresses THEN new[k] ELSE old[k]]
    BY <1>8, <1>9 DEF PutAll
  <2>2. DOMAIN sessions'[t.author] = DOMAIN old \union addresses
    BY <2>1
  <2>3. \A k \in DOMAIN old \union addresses : sessions'[t.author][k] = IF k \in addresses THEN new[k] ELSE old[k]
    BY <2>1
  <2> HIDE DEF old, D
  <2>4. QED
    BY <1>8, <1>10, <1>11, <2>2, <2>3 DEF old
<1>13. \A b : b \in served' <=> b \in served \/ \E d \in D : B[d].preKeyId # None /\ b = Handed(B, d, t.author)
  <2>1. served' = served \union {Handed(B, j, t.author) : j \in {k \in valid : B[k].preKeyId # None}}
    BY <1>3 DEF Handed
  <2> HIDE DEF valid, D
  <2>2. QED
    BY <1>4, <2>1
<1> HIDE DEF D, valid
<1>14. /\ DOMAIN posted' = Devices
       /\ \A d \in Devices : posted'[d] = IF d \in D THEN SubSeq(posted[d], 2, Len(posted[d])) ELSE posted[d]
  BY <1>2, <1>3
<1>15. Fetched(t, D, B)
  BY <1>2, <1>7, <1>9, <1>12, <1>13, <1>14 DEF Fetched
<1>16. QED
  BY <1>15 DEF D

\* What is left of a sequence without its first item.
Shifted(r, s) ==
  /\ r \in Seq(ToSet(r)) /\ Len(r) \in Nat
  /\ \A i \in 1 .. Len(r) : i + 1 \in 1 .. Len(s) /\ r[i] = s[i + 1]
  /\ s # << >> => Len(r) = Len(s) - 1

\* SubSeq leaves that.
LEMMA DropFirst ==
  ASSUME NEW S, NEW s \in Seq(S)
  PROVE  Shifted(SubSeq(s, 2, Len(s)), s)
<1> DEFINE r == SubSeq(s, 2, Len(s))
<1>1. Len(s) \in Nat /\ (s # << >> => Len(s) > 0)
  OBVIOUS
<1>2. CASE s = << >>
  <2>1. r = << >>
    BY <1>2
  <2>2. QED
    BY <1>2, <2>1, NoItems DEF Shifted
<1>3. CASE s # << >>
  <2>1. 2 \in Int /\ Len(s) \in Int /\ \A i \in 2 .. Len(s) : s[i] \in S
    BY <1>1
  <2>2. /\ r \in Seq(S) /\ \A i \in 1 .. Len(s) - 2 + 1 : r[i] = s[2 + i - 1]
        /\ Len(r) = IF 2 <= Len(s) THEN Len(s) - 2 + 1 ELSE 0
    BY <2>1, SubSeqProperties
  <2> HIDE DEF r
  <2>3. \A i \in 1 .. Len(s) - 1 : r[i] = s[i + 1]
    <3>1. SUFFICES ASSUME NEW i \in 1 .. Len(s) - 1 PROVE r[i] = s[i + 1]
      OBVIOUS
    <3>2. 2 + i - 1 = i + 1 /\ i \in 1 .. Len(s) - 2 + 1
      BY <1>1
    <3>3. QED
      BY <2>2, <3>2
  <2>4. r \in Seq(ToSet(r))
    BY <2>2, Items
  <2>5. Len(r) = IF 2 <= Len(s) THEN Len(s) - 2 + 1 ELSE 0
    BY <2>2
  <2>6. Len(r) = Len(s) - 1
    <3> DEFINE n == Len(s)
               m == Len(r)
    <3>1. n \in Nat /\ n > 0 /\ m = IF 2 <= n THEN n - 2 + 1 ELSE 0
      BY <1>1, <1>3, <2>5
    <3> HIDE DEF n, m
    <3>2. m = n - 1
      BY <3>1
    <3>3. QED
      BY <3>2 DEF m, n
  <2>7. QED
    BY <1>1, <1>3, <2>3, <2>4, <2>6 DEF Shifted, r
<1>4. QED
  BY <1>2, <1>3

\* The bundles of a text are fetched.
LEMMA FetchBundlesInv ==
  ASSUME OneServer, Inv, NEW t \in Texts, FetchBundles(t)
  PROVE  Inv'
<1> DEFINE D == Strangers(t)
           a == t.author
<1>1. /\ UNCHANGED <<stock, nextPreKeyId, uploads, targets, sent, used, opened, refused, shown>>
      /\ UNCHANGED <<queue, position, answers, ticks>>
  BY DEF FetchBundles, stockVars, sendVars, receiveVars, queueVars
<1>2. PICK B : Fetched(t, D, B)
  BY FetchDoes
<1>3. /\ D \subseteq Devices /\ a \in Devices /\ D \subseteq Audience(t)
      /\ \A d \in D : ~hasSessionWith(a, d)
  BY TextsAssumption DEF Strangers, Audience
<1> HIDE DEF D, a
<1>4. /\ \A d, e \in Devices : hasSessionWith(d, e) => hasSessionWith(d, e)'
      /\ \A d \in D : hasSessionWith(a, d)'
  <2>1. \A d \in Devices \ {a} : sessions'[d] = sessions[d]
    BY <1>2 DEF Fetched, a
  <2>2. DOMAIN sessions'[a] = DOMAIN sessions[a] \union {sessionAddress(d) : d \in D}
    BY <1>2 DEF Fetched, a
  <2>3. QED
    BY <1>3, <2>1, <2>2 DEF hasSessionWith
<1>5. ASSUME NEW b \in served', b \notin served
      PROVE  \E d \in D : \E id \in DOMAIN stock[d] :
               /\ b = Handed(B, d, a) /\ b = [device |-> d, to |-> a, id |-> id, public |-> <<d, id>>]
               /\ posted[d] # << >> /\ posted[d][1] = PostedKey(d, id) /\ \A c \in served : c.device = d => c.id # id
  <2>1. PICK d \in D : B[d].preKeyId # None /\ b = Handed(B, d, a)
    BY <1>2, <1>5 DEF Fetched, a
  <2>2. Offer(B[d], d)
    BY <1>2 DEF Fetched
  <2>3. QED
    BY <2>1, <2>2 DEF Offer, Handed
<1>6. /\ \A b \in served : b \in served'
      /\ \A d, author : KeyFor(d, author)' => KeyFor(d, author) \/ (d \in D /\ author = a)
  <2>1. \A b \in served : b \in served'
    BY <1>2 DEF Fetched
  <2>2. ASSUME NEW d, NEW author, KeyFor(d, author)' PROVE KeyFor(d, author) \/ (d \in D /\ author = a)
    <3>1. PICK b \in served' : b.device = d /\ b.to = author
      BY <2>2 DEF KeyFor
    <3>2. QED
      BY <1>5, <3>1 DEF KeyFor
  <2>3. QED
    BY <2>1, <2>2
<1>7. PostedInv'
  <2>1. DOMAIN posted' = Devices
    BY <1>2 DEF Fetched
  <2>2. SUFFICES ASSUME NEW d \in Devices PROVE PostedOf(d)'
    BY <2>1 DEF PostedInv
  <2>3. PostedOf(d)
    BY DEF Inv, PostedInv
  <2>4. CASE d \notin D
    <3>1. posted'[d] = posted[d] /\ stock'[d] = stock[d]
      BY <1>1, <1>2, <2>4 DEF Fetched
    <3>2. \A b \in served' : b.device = d => b \in served
      BY <1>5, <2>4
    <3>3. QED
      BY <2>3, <3>1, <3>2 DEF PostedOf
  <2>5. CASE d \in D
    <3> DEFINE r == SubSeq(posted[d], 2, Len(posted[d]))
    <3>1. posted'[d] = r /\ stock'[d] = stock[d]
      BY <1>1, <1>2, <2>5 DEF Fetched
    <3>0. r = SubSeq(posted[d], 2, Len(posted[d]))
      OBVIOUS
    <3> HIDE DEF r
    <3>2. r \in Seq(ToSet(r)) /\ Len(r) \in Nat /\ \A i \in 1 .. Len(r) : i + 1 \in 1 .. Len(posted[d]) /\ r[i] = posted[d][i + 1]
      <4>1. posted[d] \in Seq(ToSet(posted[d]))
        BY <2>3 DEF PostedOf
      <4>2. Shifted(r, posted[d])
        BY <3>0, <4>1, DropFirst
      <4>3. QED
        BY <4>2 DEF Shifted
    <3>3. ASSUME NEW i \in 1 .. Len(r)
          PROVE  \E id \in DOMAIN stock[d] : r[i] = PostedKey(d, id) /\ \A b \in served' : b.device = d => b.id # id
      <4>1. PICK id \in DOMAIN stock[d] : posted[d][i + 1] = PostedKey(d, id) /\ \A b \in served : b.device = d => b.id # id
        BY <2>3, <3>2 DEF PostedOf
      <4>2. ASSUME NEW b \in served', b \notin served, b.device = d PROVE b.id # id
        <5>1. posted[d][1] = PostedKey(d, b.id) /\ posted[d] # << >>
          BY <1>5, <4>2
        <5>2. 1 \in 1 .. Len(posted[d]) /\ i + 1 \in 1 .. Len(posted[d]) /\ 1 # i + 1
          BY <2>3, <3>2 DEF PostedOf
        <5>3. posted[d][1] # posted[d][i + 1]
          BY <2>3, <5>2 DEF PostedOf
        <5>4. QED
          BY <4>1, <5>1, <5>3
      <4>3. QED
        BY <3>2, <4>1, <4>2
    <3>4. ASSUME NEW i \in 1 .. Len(r), NEW j \in 1 .. Len(r), r[i] = r[j] PROVE i = j
      <4>1. PICK m \in 1 .. Len(posted[d]) : m = i + 1 /\ r[i] = posted[d][m]
        BY <3>2
      <4>2. PICK n \in 1 .. Len(posted[d]) : n = j + 1 /\ r[j] = posted[d][n]
        BY <3>2
      <4>3. m = n
        BY <2>3, <3>4, <4>1, <4>2 DEF PostedOf
      <4>4. QED
        BY <4>1, <4>2, <4>3
    <3>5. QED
      BY <3>1, <3>2, <3>3, <3>4 DEF PostedOf
  <2>6. QED
    BY <2>4, <2>5
<1>8. ServedInv'
  <2>1. ASSUME NEW b \in served'
        PROVE  /\ b = [device |-> b.device, to |-> b.to, id |-> b.id, public |-> <<b.device, b.id>>]
               /\ b.device \in Devices /\ b.to \in Devices /\ b.id \in Nat /\ b.id < nextPreKeyId[b.device]
               /\ <<b.device, b.id>> \in used \/ b.id \in DOMAIN stock[b.device]
               /\ hasSessionWith(b.to, b.device)'
    <3>1. CASE b \in served
      BY <1>4, <3>1 DEF Inv, ServedInv
    <3>2. CASE b \notin served
      <4>0. PICK d \in D : \E id \in DOMAIN stock[d] : b = [device |-> d, to |-> a, id |-> id, public |-> <<d, id>>]
        BY <1>5, <3>2
      <4>1. PICK id \in DOMAIN stock[d] : b = [device |-> d, to |-> a, id |-> id, public |-> <<d, id>>]
        BY <4>0
      <4>2. id \in Nat /\ id < nextPreKeyId[d]
        BY <1>3 DEF Inv, StockInv, StockOf
      <4>3. QED
        BY <1>3, <1>4, <4>1, <4>2
    <3>3. QED
      BY <3>1, <3>2
  <2>2. ASSUME NEW b \in served', NEW c \in served', b.device = c.device, b.id = c.id \/ b.to = c.to
        PROVE  b = c
    <3>1. ASSUME NEW x \in served', x \notin served, NEW y \in served, x.device = y.device PROVE x.id # y.id /\ x.to # y.to
      <4>1. PICK d \in D : x.device = d /\ x.to = a /\ \A k \in served : k.device = d => k.id # x.id
        BY <1>5, <3>1
      <4>2. hasSessionWith(y.to, y.device)
        BY DEF Inv, ServedInv
      <4>3. QED
        BY <1>3, <3>1, <4>1, <4>2
    <3>2. ASSUME b \notin served, c \notin served PROVE b = c
      <4>1. PICK d \in D : b = Handed(B, d, a) /\ b.device = d
        BY <1>5, <3>2
      <4>2. PICK e \in D : c = Handed(B, e, a) /\ c.device = e
        BY <1>5, <3>2
      <4>3. QED
        BY <2>2, <4>1, <4>2
    <3>3. CASE b \in served /\ c \in served
      BY <2>2, <3>3 DEF Inv, ServedInv
    <3>4. QED
      BY <2>2, <3>1, <3>2, <3>3
  <2>3. QED
    BY <1>1, <2>1, <2>2 DEF ServedInv
<1>9. UsedInv' /\ StockInv' /\ TargetsInv'
  BY <1>1, <1>6, UsedKept, StockKept, TargetsKept DEF Inv
<1>10. SessionsInv'
  <2>1. DOMAIN sessions' = Devices
    BY <1>2 DEF Fetched
  <2>2. SUFFICES ASSUME NEW e \in Devices, NEW address \in DOMAIN sessions'[e] PROVE SessionOf(e, address)'
    BY <2>1 DEF SessionsInv
  <2>3. CASE address \in DOMAIN sessions[e]
    <3>1. sessions'[e][address] = sessions[e][address]
      BY <1>2, <2>3 DEF Fetched, a
    <3>2. PICK f \in Devices :
            /\ address = sessionAddress(f) /\ sessions[e][address].peer = f /\ sessions[e][address].pending \in BOOLEAN
            /\ IF sessions[e][address].pending THEN Names(sessions[e][address].preKey, f, e)
               ELSE sessions[e][address].preKey = None /\ hasSessionWith(f, e)
      BY <2>3 DEF Inv, SessionsInv, SessionOf
    <3>3. ~(f \in D /\ e = a)
      BY <1>3, <2>3, <3>2 DEF hasSessionWith
    <3>4. KeyFor(f, e)' => KeyFor(f, e)
      BY <1>6, <3>3
    <3>5. ASSUME NEW key, Names(key, f, e) PROVE Names(key, f, e)'
      BY <1>6, <3>4, <3>5 DEF Names, KeyFor
    <3>6. QED
      BY <1>4, <3>1, <3>2, <3>5 DEF SessionOf
  <2>4. CASE address \notin DOMAIN sessions[e]
    <3>1. e = a
      BY <1>2, <2>4 DEF Fetched, a
    <3>2. PICK d \in D : address = sessionAddress(d)
      BY <1>2, <2>4, <3>1 DEF Fetched, a
    <3>3. sessions'[e][address] = [peer |-> d, pending |-> TRUE, preKey |-> KeyOffered(B[d])]
      BY <1>2, <3>1, <3>2 DEF Fetched, a
    <3>4. Names(KeyOffered(B[d]), d, a)'
      <4>1. CASE B[d].preKeyId = None
        <5>1. KeyOffered(B[d]) = None
          BY <4>1 DEF KeyOffered
        <5>2. ASSUME NEW b \in served', b.device = d, b.to = a PROVE FALSE
          <6>1. CASE b \in served
            BY <1>3, <5>2, <6>1 DEF Inv, ServedInv
          <6>2. CASE b \notin served
            <7>1. b.id = B[d].preKeyId /\ b.id \in DOMAIN stock[d]
              BY <1>5, <5>2, <6>2 DEF Handed
            <7>2. b.id \in Nat
              BY <1>3, <7>1 DEF Inv, StockInv, StockOf
            <7>3. QED
              BY <4>1, <7>1, <7>2, NoneAssumption
          <6>3. QED
            BY <6>1, <6>2
        <5>3. QED
          BY <5>1, <5>2 DEF Names
      <4>2. CASE B[d].preKeyId # None
        <5>1. Handed(B, d, a) \in served'
          BY <1>2, <4>2 DEF Fetched, a
        <5>2. Offer(B[d], d)
          BY <1>2 DEF Fetched
        <5>3. PICK id \in DOMAIN stock[d] : B[d].preKeyId = id /\ B[d].preKeyPublic = <<d, id>>
          BY <4>2, <5>2 DEF Offer
        <5>4. id \in Nat
          BY <1>3 DEF Inv, StockInv, StockOf
        <5>5. KeyOffered(B[d]) = [id |-> id, public |-> <<d, id>>] /\ KeyOffered(B[d]) # None
          BY <1>3, <4>2, <5>3, <5>4, NoneAssumption DEF KeyOffered
        <5>6. QED
          BY <5>1, <5>3, <5>5 DEF Names, Handed
      <4>3. QED
        BY <4>1, <4>2
    <3>5. QED
      BY <1>3, <3>1, <3>2, <3>3, <3>4 DEF SessionOf
  <2>5. QED
    BY <2>3, <2>4
<1>11. SentInv' /\ TicksInv' /\ AnswersInv'
  BY <1>1, <1>4, SentKept, TicksKept, AnswersKept DEF Inv, ShownOn
<1>12. ASSUME NEW u \in sent, NEW d \in Devices, d \in Audience(u)
       PROVE  u \in Texts /\ u.author \in Devices /\ (KeyFor(d, u.author)' => KeyFor(d, u.author))
  <2>1. hasSessionWith(u.author, d) /\ u \in Texts
    BY <1>12 DEF Inv, SentInv
  <2>2. QED
    BY <1>3, <1>6, <2>1, TextsAssumption
<1>13. QueueInv'
  <2>1. SUFFICES ASSUME NEW d \in Devices PROVE QueueOf(d)'
    BY <1>1 DEF Inv, QueueInv
  <2>2. ASSUME NEW s, NEW u \in sent, Brings(s, u, d)
        PROVE  d \in Audience(u) /\ IsCopy(s, u, d, Type(s), Key(s)) /\ Carries(u, d, Type(s), Key(s))'
    <3>1. d \in Audience(u)
      BY <2>2 DEF Brings
    <3>2. u \in Texts /\ u.author \in Devices /\ (KeyFor(d, u.author)' => KeyFor(d, u.author))
      BY <1>12, <3>1
    <3>3. QED
      BY <1>1, <1>4, <1>6, <2>2, <3>2, BringsKept
  <2>3. QED
    BY <1>1, <2>2, QueueOfKept DEF Inv, QueueInv
<1>14. ShownInv'
  <2>1. SUFFICES ASSUME NEW d \in Devices PROVE ShownOf(d)'
    BY <1>1 DEF Inv, ShownInv
  <2>2. ShownOf(d) /\ \A u : Queued(d, u)' <=> Queued(d, u)
    BY <1>1 DEF Inv, ShownInv, Queued
  <2>3. QED
    BY <1>1, <1>12, <2>2, ShownOfKept
<1>15. QED
  BY <1>1, <1>7, <1>8, <1>9, <1>10, <1>11, <1>13, <1>14 DEF Inv

----------------------------------------------------------------------------
(* A text is sent.                                                         *)

\* A sequence with one more item at its end.
Longer(r, s, x) ==
  /\ r \in Seq(ToSet(r)) /\ Len(s) \in Nat /\ Len(r) = Len(s) + 1 /\ ToSet(r) = ToSet(s) \union {x}
  /\ r[Len(r)] = x /\ \A i \in 1 .. Len(s) : r[i] = s[i]

\* Putting one there.
LEMMA OneMore ==
  ASSUME NEW S, NEW s \in Seq(S), NEW x
  PROVE  Longer(s \o <<x>>, s, x) /\ s \o << >> = s
<1> DEFINE r == s \o <<x>>
<1>1. List(s, ToSet(s)) /\ List(<<x>>, {x}) /\ Len(<<x>>) = 1
  BY SeqLists, ListOne
<1>2. List(r, ToSet(s) \union {x})
  BY <1>1, ListConcat
<1>3. Len(s) \in Nat /\ Len(r) = Len(s) + 1 /\ r[Len(s) + 1] = x /\ \A i \in 1 .. Len(s) : r[i] = s[i]
  <2>1. s \in Seq(S \union {x}) /\ <<x>> \in Seq(S \union {x})
    OBVIOUS
  <2>2. QED
    BY <2>1
<1>4. s \o << >> = s
  OBVIOUS
<1> HIDE DEF r
<1>5. Longer(r, s, x)
  BY <1>2, <1>3, Items DEF Longer, List
<1>6. QED
  BY <1>4, <1>5 DEF r

\* A copy bears the id of its text.
LEMMA CopyIds ==
  ASSUME NEW s, NEW t, NEW d, Brings(s, t, d)
  PROVE  s.attrs.id = t.id /\ d \in Audience(t)
BY DEF Brings, IsCopy, AttrsOf, node

\* What the session with a device is, when its author has one.
LEMMA SessionFound ==
  ASSUME OneServer, SessionsInv, NEW a \in Devices, NEW d \in Devices, hasSessionWith(a, d)
  PROVE  LET session == sessions[a][sessionAddress(d)]
         IN  /\ session.peer = d /\ session.pending \in BOOLEAN
             /\ IF session.pending THEN Names(session.preKey, d, a)
                ELSE session.preKey = None /\ hasSessionWith(d, a)
<1>1. SessionOf(a, sessionAddress(d))
  BY DEF SessionsInv, hasSessionWith
<1>2. \A e \in Devices : sessionAddress(d) = sessionAddress(e) => d = e
  BY Addresses
<1>3. QED
  BY <1>1, <1>2 DEF SessionOf

\* What is new in a queue brings the text.
LEMMA SendDoes ==
  ASSUME OneServer, Inv, NEW t \in Texts, SendText(t), NEW d \in Devices
  PROVE  /\ \A e \in Audience(t) : hasSessionWith(t.author, e)
         /\ d \notin Audience(t) => queue'[d] = queue[d]
         /\ d \in Audience(t) => \E s : Longer(queue'[d], queue[d], s) /\ Brings(s, t, d)
<1>1. targets[t] # None /\ t \notin sent /\ Unopened(t) = << >>
  BY DEF SendText
<1>2. PICK message \in Outgoing(t, targets[t]) : queue' = [e \in Devices |-> queue[e] \o Stanzas(t, message, e)]
  BY DEF SendText, Outgoing
<1>3. List(targets[t], {Wire(e) : e \in Audience(t)})
  BY <1>1 DEF Inv, TargetsInv
<1>4. Audience(t) \subseteq Devices /\ t.author \in Devices
  BY TextsAssumption DEF Audience
<1>5. \A e \in Audience(t) : hasSessionWith(t.author, e)
  <2> DEFINE K == {Wire(e) : e \in Strangers(t)}
  <2>1. List(Unopened(t), K)
    BY <1>1, UnopenedListed
  <2> HIDE DEF K
  <2>2. K = {}
    BY <1>1, <2>1, ListHead
  <2>3. Strangers(t) = {}
    BY <2>2 DEF K
  <2>4. QED
    BY <2>3 DEF Strangers
<1>6. ASSUME NEW e \in Audience(t)
      PROVE  LET session == SessionWith(t, e)
             IN  /\ session.peer = e /\ session.pending \in BOOLEAN
                 /\ IF session.pending THEN Names(session.preKey, e, t.author)
                    ELSE session.preKey = None /\ hasSessionWith(e, t.author)
  <2>1. SessionsInv /\ hasSessionWith(t.author, e) /\ e \in Devices
    BY <1>4, <1>5 DEF Inv
  <2>2. QED
    BY <1>4, <2>1, SessionFound DEF SessionWith
<1>7. queue[d] \in Seq(ToSet(queue[d])) /\ queue'[d] = queue[d] \o Stanzas(t, message, d)
  BY <1>2 DEF Inv, QueueInv, QueueOf
<1>8. ASSUME d \notin Audience(t) PROVE queue'[d] = queue[d]
  <2>1. Stanzas(t, message, d) = << >>
    BY <1>3, <1>6, <1>8, CopiesMade
  <2>2. QED
    BY <1>7, <2>1, OneMore
<1>9. ASSUME d \in Audience(t) PROVE \E s : Longer(queue'[d], queue[d], s) /\ Brings(s, t, d)
  <2>1. PICK encs : /\ List(encs, {EncFor(t, d)})
                    /\ Stanzas(t, message, d) = <<node("message", AttrsOf(t), encs)>>
    BY <1>3, <1>6, <1>9, CopiesMade
  <2> DEFINE s == node("message", AttrsOf(t), encs)
             session == SessionWith(t, d)
             type == IF session.pending THEN "pkmsg" ELSE "msg"
  <2>2. Longer(queue'[d], queue[d], s)
    BY <1>7, <2>1, OneMore
  <2>3. s.content.value = encs /\ s = node("message", AttrsOf(t), s.content.value)
    BY DEF node
  <2>4. Head(encs) = EncFor(t, d) /\ EncFor(t, d) = Enc(t, d, type, session.preKey)
    <3>1. Head(encs) = EncFor(t, d)
      <4> DEFINE E == {EncFor(t, d)}
      <4>1. List(encs, E) /\ E # {}
        BY <2>1
      <4> HIDE DEF E
      <4>2. Head(encs) \in E
        BY <4>1, ListHead
      <4>3. QED
        BY <4>2 DEF E
    <3>2. QED
      BY <3>1 DEF EncFor
  <2>5. Enc(t, d, type, session.preKey).attrs.type = type /\ Enc(t, d, type, session.preKey).content.value.preKey = session.preKey
    BY DEF Enc, leaf, Ciphertext
  <2> HIDE DEF s, type
  <2>6. Type(s) = type /\ Key(s) = session.preKey
    BY <2>3, <2>4, <2>5 DEF Type, Key
  <2>7. IsCopy(s, t, d, Type(s), Key(s))
    BY <2>1, <2>3, <2>4, <2>6 DEF IsCopy
  <2>8. <<d, t.id>> \notin opened
    <3>1. ASSUME <<d, t.id>> \in opened PROVE FALSE
      <4>1. PICK u \in sent : \E e \in Audience(u) : <<d, t.id>> = <<e, u.id>>
        BY <3>1 DEF Inv, SentInv
      <4>2. u \in Texts /\ u.id = t.id
        BY <4>1 DEF Inv, SentInv
      <4>3. QED
        BY <1>1, <4>1, <4>2, OneText
    <3>2. QED
      BY <3>1
  <2>9. Carries(t, d, Type(s), Key(s))
    <3>1. session.pending \in BOOLEAN /\ IF session.pending THEN Names(session.preKey, d, t.author)
                                         ELSE session.preKey = None /\ hasSessionWith(d, t.author)
      BY <1>6, <1>9
    <3>2. CASE session.pending = TRUE
      BY <2>6, <2>8, <3>1, <3>2 DEF Carries, type
    <3>3. CASE session.pending = FALSE
      BY <2>6, <3>1, <3>3 DEF Carries, type
    <3>4. QED
      BY <3>1, <3>2, <3>3
  <2>10. QED
    BY <1>9, <2>2, <2>7, <2>9 DEF Brings
<1>10. QED
  BY <1>5, <1>8, <1>9

\* A text is sent.
LEMMA SendTextInv ==
  ASSUME OneServer, Inv, NEW t \in Texts, SendText(t)
  PROVE  Inv'
<1>1. /\ UNCHANGED <<stock, nextPreKeyId, uploads, posted, served, targets, sessions, used, opened, refused, shown>>
      /\ UNCHANGED <<position, answers, ticks>> /\ sent' = sent \union {t} /\ t \notin sent
      /\ DOMAIN queue' = Devices
  BY DEF SendText, stockVars, serverVars, receiveVars
<1>2. ASSUME NEW d \in Devices
      PROVE  /\ d \notin Audience(t) => queue'[d] = queue[d]
             /\ d \in Audience(t) => \E s : Longer(queue'[d], queue[d], s) /\ Brings(s, t, d)
  BY SendDoes
<1>3. /\ sent \subseteq Texts /\ \A u \in sent : u.id # t.id
      /\ \A d : <<d, t.id>> \notin opened
  <2>1. sent \subseteq Texts /\ \A u \in sent : u.id # t.id
    BY <1>1, OneText DEF Inv, SentInv
  <2>2. ASSUME NEW d, <<d, t.id>> \in opened PROVE FALSE
    <3>1. PICK u \in sent : \E e \in Audience(u) : <<d, t.id>> = <<e, u.id>>
      BY <2>2 DEF Inv, SentInv
    <3>2. QED
      BY <2>1, <3>1
  <2>3. QED
    BY <2>1, <2>2
<1>4. \A s, u, d : Brings(s, u, d) => Brings(s, u, d)'
  BY <1>1 DEF Brings, Carries, Names, hasSessionWith
<1>5. QueueInv'
  <2>1. SUFFICES ASSUME NEW d \in Devices PROVE QueueOf(d)'
    BY <1>1 DEF Inv, QueueInv
  <2>2. QueueOf(d) /\ position'[d] = position[d]
    BY <1>1 DEF Inv, QueueInv
  <2>3. CASE d \notin Audience(t)
    <3>1. queue'[d] = queue[d]
      BY <1>2, <2>3
    <3>2. QED
      BY <1>1, <1>4, <2>2, <3>1 DEF QueueOf
  <2>4. CASE d \in Audience(t)
    <3>1. PICK s : Longer(queue'[d], queue[d], s) /\ Brings(s, t, d)
      BY <1>2, <2>4
    <3>2. ASSUME NEW x \in ToSet(queue'[d]) PROVE \E u \in sent' : Brings(x, u, d)'
      <4>1. CASE x = s
        BY <1>1, <1>4, <3>1, <4>1
      <4>2. CASE x \in ToSet(queue[d])
        BY <1>1, <1>4, <2>2, <4>2 DEF QueueOf
      <4>3. QED
        BY <3>1, <3>2, <4>1, <4>2 DEF Longer
    <3>3. \A i \in 1 .. Len(queue[d]) : queue'[d][i] = queue[d][i] /\ queue[d][i].attrs.id # t.id
      <4>1. SUFFICES ASSUME NEW i \in 1 .. Len(queue[d]) PROVE queue[d][i].attrs.id # t.id
        BY <3>1 DEF Longer
      <4>2. queue[d][i] \in ToSet(queue[d])
        BY <2>2, Items DEF QueueOf
      <4>3. PICK u \in sent : Brings(queue[d][i], u, d)
        BY <2>2, <4>2 DEF QueueOf
      <4>4. QED
        BY <1>3, <4>3, CopyIds
    <3>4. s.attrs.id = t.id
      BY <3>1, CopyIds
    <3> DEFINE n == Len(queue[d])
    <3>5. n \in Nat /\ Len(queue'[d]) = n + 1 /\ queue'[d][n + 1] = s
      BY <3>1 DEF Longer
    <3> HIDE DEF n
    <3>6. ASSUME NEW i \in 1 .. n + 1, NEW j \in 1 .. n + 1, queue'[d][i].attrs.id = queue'[d][j].attrs.id
          PROVE  queue'[d][i] = queue'[d][j]
      <4>1. CASE i = n + 1 /\ j = n + 1
        BY <4>1
      <4>2. CASE i = n + 1 /\ j # n + 1
        <5>1. j \in 1 .. Len(queue[d])
          BY <3>5, <4>2 DEF n
        <5>2. QED
          BY <3>3, <3>4, <3>5, <3>6, <4>2, <5>1
      <4>3. CASE i # n + 1 /\ j = n + 1
        <5>1. i \in 1 .. Len(queue[d])
          BY <3>5, <4>3 DEF n
        <5>2. QED
          BY <3>3, <3>4, <3>5, <3>6, <4>3, <5>1
      <4>4. CASE i # n + 1 /\ j # n + 1
        <5>1. i \in 1 .. Len(queue[d]) /\ j \in 1 .. Len(queue[d])
          BY <3>5, <4>4 DEF n
        <5>2. QED
          BY <2>2, <3>3, <3>6, <5>1 DEF QueueOf
      <4>5. QED
        BY <4>1, <4>2, <4>3, <4>4
    <3>7. queue'[d] \in Seq(ToSet(queue'[d])) /\ position'[d] \in 1 .. Len(queue'[d]) + 1
      <4>1. position[d] \in 1 .. n + 1
        BY <2>2 DEF QueueOf, n
      <4>2. QED
        BY <2>2, <3>1, <3>5, <4>1 DEF Longer
    <3>8. QED
      BY <3>2, <3>5, <3>6, <3>7 DEF QueueOf
  <2>5. QED
    BY <2>3, <2>4
<1>6. ShownInv'
  <2>1. SUFFICES ASSUME NEW d \in Devices PROVE ShownOf(d)'
    BY <1>1 DEF Inv, ShownInv
  <2>2. ShownOf(d) /\ QueueOf(d)
    BY DEF Inv, ShownInv, QueueInv
  <2>3. /\ \A u : ShownOn(d, u)' <=> ShownOn(d, u)
        /\ \A author : KeyFor(d, author)' <=> KeyFor(d, author)
    BY <1>1 DEF ShownOn, KeyFor
  <2>4. ~ShownOn(d, t)
    <3>1. ASSUME NEW i \in 1 .. Len(shown[d]) PROVE shown[d][i].id # t.id
      <4>1. shown[d][i] \in ToSet(shown[d])
        BY <2>2, Items DEF ShownOf
      <4>2. PICK u \in sent : shown[d][i] = Entry(u, d)
        BY <2>2, <4>1 DEF ShownOf
      <4>3. QED
        BY <1>3, <4>2 DEF Entry
    <3>2. QED
      BY <3>1 DEF ShownOn
  <2>5. /\ \A u : Queued(d, u) => Queued(d, u)'
        /\ d \in Audience(t) => Queued(d, t)'
    <3>1. CASE d \notin Audience(t)
      <4>1. queue'[d] = queue[d]
        BY <1>2, <3>1
      <4>2. QED
        BY <3>1, <4>1 DEF Queued
    <3>2. CASE d \in Audience(t)
      <4>1. PICK s : Longer(queue'[d], queue[d], s) /\ s.attrs.id = t.id
        BY <1>2, <3>2, CopyIds
      <4> DEFINE n == Len(queue[d])
      <4>2. n \in Nat /\ Len(queue'[d]) = n + 1 /\ queue'[d][n + 1] = s /\ \A i \in 1 .. n : queue'[d][i] = queue[d][i]
        BY <4>1 DEF Longer
      <4>3. QED
        BY <4>1, <4>2 DEF Queued
    <3>3. QED
      BY <3>1, <3>2
  <2>6. QED
    BY <1>1, <1>3, <2>2, <2>3, <2>4, <2>5 DEF ShownOf
<1>7. AnswersInv'
  <2>1. SUFFICES ASSUME NEW d \in Devices PROVE AnswersOf(d)'
    BY <1>1 DEF Inv, AnswersInv
  <2>2. AnswersOf(d) /\ position[d] \in 1 .. Len(queue[d]) + 1 /\ Len(queue[d]) \in Nat
    BY Items DEF Inv, AnswersInv, QueueInv, QueueOf
  <2>3. \A i \in 1 .. Len(queue'[d]) : i < position[d] => i \in 1 .. Len(queue[d]) /\ queue'[d][i] = queue[d][i]
    <3>1. CASE d \notin Audience(t)
      BY <1>2, <3>1
    <3>2. CASE d \in Audience(t)
      <4>1. PICK s : Longer(queue'[d], queue[d], s)
        BY <1>2, <3>2
      <4>2. Len(queue'[d]) = Len(queue[d]) + 1 /\ \A i \in 1 .. Len(queue[d]) : queue'[d][i] = queue[d][i]
        BY <4>1 DEF Longer
      <4>3. QED
        BY <2>2, <4>2
    <3>3. QED
      BY <3>1, <3>2
  <2>4. \A answer : \A u \in sent : IsAnswer(answer, u, d) => IsAnswer(answer, u, d)'
    BY <1>1 DEF IsAnswer, ShownOn
  <2>5. answers'[d] = answers[d] /\ position'[d] = position[d]
    BY <1>1
  <2>6. QED
    BY <1>1, <2>2, <2>3, <2>4, <2>5 DEF AnswersOf
<1>8. SentInv'
  <2>1. \A u \in sent' : \A d \in Audience(u) : hasSessionWith(u.author, d)'
    <3>1. \A d \in Audience(t) : hasSessionWith(t.author, d)
      BY <1>1, SendDoes DEF Audience
    <3>2. QED
      BY <1>1, <3>1 DEF Inv, SentInv, hasSessionWith
  <2>2. QED
    BY <1>1, <1>3, <2>1 DEF Inv, SentInv
<1>9. StockInv' /\ PostedInv' /\ ServedInv' /\ TargetsInv'
  BY <1>1, StockKept, PostedKept, ServedKept, TargetsKept DEF Inv
<1>10. UsedInv' /\ SessionsInv'
  BY <1>1, UsedKept, SessionsKept DEF Inv
<1>11. TicksInv' /\ refused' = {}
  BY <1>1, TicksKept DEF Inv, ShownOn
<1>12. QED
  BY <1>5, <1>6, <1>7, <1>8, <1>9, <1>10, <1>11 DEF Inv

----------------------------------------------------------------------------
(* A message is handled.                                                   *)

\* The sequence of a set of one element, or of none.
LEMMA SeqOfOne ==
  ASSUME NEW x
  PROVE  SetToSeq({x}) = <<x>> /\ SetToSeq({}) = << >>
<1>1. IsFiniteSet({x}) /\ Cardinality({x}) = 1 /\ IsFiniteSet({})
  BY FS_Singleton, FS_EmptySet
<1> DEFINE X == {x}
           s == SetToSeq(X)
<1>2. List(s, X) /\ Len(s) = 1
  BY <1>1, SetListed
<1>3. SetToSeq({}) = << >>
  <2>1. List(SetToSeq({}), {})
    BY <1>1, SetListed
  <2>2. QED
    BY <2>1, ListHead
<1> HIDE DEF s
<1>4. s \in Seq(X) /\ s[1] = x
  <2>1. s \in Seq(X) /\ \A i \in 1 .. Len(s) : s[i] \in X
    <3> HIDE DEF X
    <3>1. QED
      BY <1>2, ListPlaces
  <2>2. QED
    BY <1>2, <2>1
<1>5. s = <<x>>
  BY <1>2, <1>4
<1>6. QED
  BY <1>3, <1>5 DEF s

\* A message that is brought is read as it was written.
LEMMA BroughtParsed ==
  ASSUME OneServer, NEW t \in Texts, NEW d, NEW s, Brings(s, t, d)
  PROVE  /\ Type(s) \in {"msg", "pkmsg"}
         /\ \E m : /\ parseIncomingMessage(s) = {m}
                   /\ m.id = t.id /\ m.senderJid = t.author /\ Head(m.encs) = Enc(t, d, Type(s), Key(s))
                   /\ buildMessageAck(m) = AckOf(t) /\ buildDeliveryReceipt(m) = ReceiptOf(t)
         /\ Settled(s, AckOf(t))
<1>1. Type(s) \in {"msg", "pkmsg"}
  BY DEF Brings, Carries
<1>2. s = node("message", AttrsOf(t), s.content.value) /\ List(s.content.value, {Enc(t, d, Type(s), Key(s))})
  BY DEF Brings, IsCopy
<1>3. PICK encs : encs = s.content.value
  OBVIOUS
<1>4. s = node("message", AttrsOf(t), encs) /\ List(encs, {Enc(t, d, Type(s), Key(s))})
  BY <1>2, <1>3
<1>5. PICK m : /\ parseIncomingMessage(node("message", AttrsOf(t), encs)) = {m}
               /\ m.id = t.id /\ m.senderJid = t.author /\ Head(m.encs) = Enc(t, d, Type(s), Key(s))
               /\ buildMessageAck(m) = AckOf(t) /\ buildDeliveryReceipt(m) = ReceiptOf(t)
  BY <1>1, <1>4, CopyParsed
<1>6. Settled(node("message", AttrsOf(t), encs), AckOf(t))
  BY AnswersSay
<1>7. QED
  BY <1>1, <1>4, <1>5, <1>6

\* What a text is wrapped in for a device, once it is unpadded and decoded.
LEMMA ContentRead ==
  ASSUME NEW t \in Texts, NEW d
  PROVE  /\ unpadMessage(padMessage(encodeContent(ForDevice(t, d)), t.random)) = {encodeContent(ForDevice(t, d))}
         /\ decodeContent(encodeContent(ForDevice(t, d))) = {ForDevice(t, d)}
<1>1. /\ ForDevice(t, d) \in {t.message, DeviceSent(t.message)} /\ t.random \in Nat
  BY TextsAssumption DEF ForDevice
<1>2. encodeContent(ForDevice(t, d)) \in Seq(Nat) /\ decodeContent(encodeContent(ForDevice(t, d))) = {ForDevice(t, d)}
  BY <1>1, CodecAssumption
<1>3. QED
  BY <1>1, <1>2, PaddingComesOff

\* A message that is not opened was opened before; one that is opened again named no key.
LEMMA OpensOnce ==
  ASSUME OneServer, Inv, NEW d \in Devices, NEW t \in sent, NEW s, Brings(s, t, d),
         NEW plain, plain = decrypt(d, t.author, Enc(t, d, Type(s), Key(s)))
  PROVE  \/ plain = {} /\ <<d, t.id>> \in opened
         \/ /\ plain = {padMessage(encodeContent(ForDevice(t, d)), t.random)}
            /\ <<d, t.id>> \in opened => Key(s) = None /\ ~KeyFor(d, t.author)
<1> DEFINE enc == Enc(t, d, Type(s), Key(s))
           key == Key(s)
           opens == IF Type(s) = "msg"
                    THEN /\ hasSession(d, t.author) /\ sessions[d][sessionAddress(t.author)].peer = t.author
                         /\ <<d, t.id>> \notin opened
                    ELSE key # None => key.id \in DOMAIN stock[d] /\ stock[d][key.id] = key.public
<1>1. /\ enc.attrs.type = Type(s) /\ enc.content.value.by = t.author /\ enc.content.value.to = d
      /\ enc.content.value.id = t.id /\ enc.content.value.preKey = key
      /\ enc.content.value.plaintext = padMessage(encodeContent(ForDevice(t, d)), t.random)
  BY DEF Enc, leaf, Ciphertext
<1>2. plain = IF opens THEN {padMessage(encodeContent(ForDevice(t, d)), t.random)} ELSE {}
  <2> HIDE DEF enc, key
  <2>1. plain = decrypt(d, t.author, enc)
    BY DEF enc, key
  <2>2. QED
    BY <1>1, <2>1 DEF decrypt
<1>3. t \in Texts /\ t.author \in Devices /\ d \in Audience(t)
  BY TextsAssumption DEF Inv, SentInv, Brings
<1>4. Carries(t, d, Type(s), key)
  BY DEF Brings
<1> HIDE DEF enc, key
<1>5. CASE Type(s) = "msg"
  <2>1. key = None /\ hasSessionWith(d, t.author)
    BY <1>4, <1>5 DEF Carries
  <2>2. sessions[d][sessionAddress(t.author)].peer = t.author
    BY <1>3, <2>1, SessionFound DEF Inv
  <2>3. opens <=> <<d, t.id>> \notin opened
    BY <1>5, <2>1, <2>2 DEF hasSession, hasSessionWith
  <2> HIDE DEF opens
  <2>4. QED
    BY <1>2, <2>3
<1>6. CASE Type(s) # "msg"
  <2>1. Names(key, d, t.author) /\ (key # None /\ <<d, t.id>> \in opened => <<d, key.id>> \in used)
    BY <1>4, <1>6 DEF Carries
  <2>2. CASE key = None
    <3>1. ~KeyFor(d, t.author) /\ opens
      BY <1>6, <2>1, <2>2 DEF Names, KeyFor
    <3> HIDE DEF opens
    <3>2. QED
      BY <1>2, <2>2, <3>1 DEF key
  <2>3. CASE key # None
    <3>1. PICK b \in served : b.device = d /\ b.to = t.author /\ key = [id |-> b.id, public |-> b.public]
      BY <2>1, <2>3 DEF Names
    <3>2. b.public = <<d, b.id>> /\ (<<d, b.id>> \in used \/ b.id \in DOMAIN stock[d])
      BY <3>1 DEF Inv, ServedInv
    <3>3. b.id \in DOMAIN stock[d] => stock[d][b.id] = <<d, b.id>>
      BY DEF Inv, StockInv, StockOf
    <3>4. opens <=> b.id \in DOMAIN stock[d]
      BY <1>6, <2>3, <3>1, <3>2, <3>3
    <3>5. ASSUME <<d, b.id>> \in used PROVE <<d, t.id>> \in opened /\ b.id \notin DOMAIN stock[d]
      <4>1. PICK c \in served, u \in sent :
              /\ <<d, b.id>> = <<c.device, c.id>> /\ c.to = u.author /\ <<c.device, u.id>> \in opened
              /\ c.id \notin DOMAIN stock[c.device]
        BY <3>5 DEF Inv, UsedInv
      <4>2. c = b
        BY <3>1, <4>1 DEF Inv, ServedInv
      <4>3. PICK v \in sent : \E e \in Audience(v) : <<d, u.id>> = <<e, v.id>>
        BY <3>1, <4>1, <4>2 DEF Inv, SentInv
      <4>4. u \in Texts /\ v \in Texts /\ v.id = u.id /\ d \in Audience(v)
        BY <4>3 DEF Inv, SentInv
      <4>5. v = u
        BY <4>4, OneText
      <4>6. u = t
        BY <1>3, <3>1, <4>1, <4>2, <4>4, <4>5, OneText
      <4>7. QED
        BY <3>1, <4>1, <4>2, <4>6
    <3>6. <<d, t.id>> \in opened => <<d, b.id>> \in used
      BY <2>1, <2>3, <3>1
    <3> HIDE DEF opens
    <3>7. QED
      BY <1>2, <3>2, <3>4, <3>5, <3>6
  <2>4. QED
    BY <2>2, <2>3
<1>7. QED
  BY <1>5, <1>6

\* A message brought again: nothing is opened, and it is acknowledged.
BroughtAgain(t, d) ==
  /\ <<d, t.id>> \in opened /\ UNCHANGED <<stock, sessions, used, opened>>
  /\ shown'[d] = shown[d] /\ Longer(answers'[d], answers[d], AckOf(t))

\* A message opened: its key is deleted, its text shown, and there is a session.
OpenedAs(t, key, d) ==
  /\ <<d, t.id>> \in opened => key = None /\ ~KeyFor(d, t.author)
  /\ sessions' = [sessions EXCEPT ![d] = Put(@, sessionAddress(t.author), [peer |-> t.author, pending |-> FALSE, preKey |-> None])]
  /\ stock' = [stock EXCEPT ![d] = withoutUsed(@, key)]
  /\ used' = (IF key = None THEN used ELSE used \union {<<d, key.id>>}) /\ opened' = opened \union {<<d, t.id>>}
  /\ Longer(shown'[d], shown[d], Entry(t, d))
  /\ \E acked : Longer(acked, answers[d], AckOf(t)) /\ Longer(answers'[d], acked, ReceiptOf(t))

\* Handling a message is one or the other.
LEMMA HandleDoes ==
  ASSUME OneServer, Inv, NEW d \in Devices, Handle(d)
  PROVE  /\ refused' = {} /\ position' = [position EXCEPT ![d] = @ + 1]
         /\ DOMAIN shown' = Devices /\ DOMAIN answers' = Devices
         /\ \A e \in Devices \ {d} : shown'[e] = shown[e] /\ answers'[e] = answers[e]
         /\ \E s \in ToSet(queue[d]), t \in sent :
              /\ s = queue[d][position[d]] /\ Brings(s, t, d)
              /\ BroughtAgain(t, d) \/ OpenedAs(t, Key(s), d)
<1>1. /\ position[d] <= Len(queue[d]) /\ position' = [position EXCEPT ![d] = @ + 1]
      /\ QueueOf(d) /\ ShownOf(d) /\ AnswersOf(d)
      /\ DOMAIN shown = Devices /\ DOMAIN answers = Devices
  BY DEF Handle, Inv, QueueInv, ShownInv, AnswersInv
<1>2. PICK s \in ToSet(queue[d]) : s = queue[d][position[d]]
  <2>1. PICK i \in 1 .. Len(queue[d]) : i = position[d]
    BY <1>1 DEF QueueOf
  <2>2. queue[d][i] \in ToSet(queue[d])
    BY <1>1, Items DEF QueueOf
  <2>3. QED
    BY <2>1, <2>2
<1>3. PICK t \in sent : Brings(s, t, d)
  BY <1>1 DEF QueueOf
<1>4. t \in Texts /\ t.author \in Devices
  BY TextsAssumption DEF Inv, SentInv
<1>5. PICK m : /\ parseIncomingMessage(s) = {m}
               /\ m.id = t.id /\ m.senderJid = t.author /\ Head(m.encs) = Enc(t, d, Type(s), Key(s))
               /\ buildMessageAck(m) = AckOf(t) /\ buildDeliveryReceipt(m) = ReceiptOf(t)
  BY <1>3, <1>4, BroughtParsed
<1> DEFINE enc == Head(m.encs)
           ciphertext == enc.content.value
           plain == decrypt(d, m.senderJid, enc)
           contents == UNION {UNION {decodeContent(bytes) : bytes \in unpadMessage(padded)} : padded \in plain}
           entries == {[id |-> m.id, author |-> m.senderJid, text |-> textOf(content), content |-> contentOf(content)] :
                         content \in contents}
<1>6. /\ IF plain = {}
         THEN refused' = refused \union ({<<d, ciphertext.id>>} \ opened) /\ UNCHANGED <<stock, sessions, used, opened>>
         ELSE /\ sessions' = [sessions EXCEPT ![d] =
                   Put(@, sessionAddress(m.senderJid), [peer |-> ciphertext.by, pending |-> FALSE, preKey |-> None])]
              /\ stock' = [stock EXCEPT ![d] = withoutUsed(@, ciphertext.preKey)]
              /\ used' = IF ciphertext.preKey = None THEN used ELSE used \union {<<d, ciphertext.preKey.id>>}
              /\ opened' = opened \union {<<d, ciphertext.id>>}
              /\ UNCHANGED refused
      /\ shown' = [shown EXCEPT ![d] = @ \o SetToSeq(entries)]
      /\ answers' = [answers EXCEPT ![d] =
           @ \o <<buildMessageAck(m)>> \o (IF contents = {} THEN << >> ELSE <<buildDeliveryReceipt(m)>>)]
  <2>1. Receive(d, m)
    BY <1>2, <1>5 DEF Handle
  <2>2. QED
    BY <2>1 DEF Receive
<1>7. ciphertext.id = t.id /\ ciphertext.by = t.author /\ ciphertext.preKey = Key(s)
  BY <1>5 DEF Enc, leaf, Ciphertext
<1>8. plain = decrypt(d, t.author, Enc(t, d, Type(s), Key(s)))
  BY <1>5
<1>9. plain = {} => contents = {} /\ entries = {}
  OBVIOUS
<1> DEFINE padded == padMessage(encodeContent(ForDevice(t, d)), t.random)
<1>10. plain = {padded} => contents = {ForDevice(t, d)}
  <2>1. unpadMessage(padded) = {encodeContent(ForDevice(t, d))} /\ decodeContent(encodeContent(ForDevice(t, d))) = {ForDevice(t, d)}
    BY <1>4, ContentRead
  <2> HIDE DEF plain, padded
  <2>2. ASSUME plain = {padded} PROVE contents = UNION {decodeContent(bytes) : bytes \in unpadMessage(padded)}
    BY <2>2
  <2>3. UNION {decodeContent(bytes) : bytes \in unpadMessage(padded)} = {ForDevice(t, d)}
    BY <2>1
  <2>4. QED
    BY <2>2, <2>3
<1>11. contents = {ForDevice(t, d)} => entries = {Entry(t, d)}
  <2> HIDE DEF contents
  <2>1. ASSUME contents = {ForDevice(t, d)} PROVE entries = {Entry(t, d)}
    BY <1>5, <2>1 DEF Entry
  <2>2. QED
    BY <2>1
<1> HIDE DEF enc, ciphertext, plain, contents, entries, padded
<1>12. \/ plain = {} /\ <<d, t.id>> \in opened
       \/ plain = {padded} /\ (<<d, t.id>> \in opened => Key(s) = None /\ ~KeyFor(d, t.author))
  BY <1>3, <1>8, OpensOnce DEF padded
<1>13. /\ DOMAIN shown' = Devices /\ shown'[d] = shown[d] \o SetToSeq(entries)
       /\ DOMAIN answers' = Devices
       /\ answers'[d] = answers[d] \o <<AckOf(t)>> \o (IF contents = {} THEN << >> ELSE <<ReceiptOf(t)>>)
       /\ \A e \in Devices \ {d} : shown'[e] = shown[e] /\ answers'[e] = answers[e]
  BY <1>1, <1>5, <1>6
<1>14. /\ Longer(answers[d] \o <<AckOf(t)>>, answers[d], AckOf(t))
       /\ shown[d] \o << >> = shown[d]
       /\ Longer(shown[d] \o <<Entry(t, d)>>, shown[d], Entry(t, d))
  BY <1>1, OneMore DEF AnswersOf, ShownOf
<1>15. PICK acked : acked = answers[d] \o <<AckOf(t)>>
  OBVIOUS
<1>16. acked \o << >> = acked /\ Longer(acked \o <<ReceiptOf(t)>>, acked, ReceiptOf(t))
  <2>1. acked \in Seq(ToSet(acked))
    BY <1>14, <1>15 DEF Longer
  <2>2. QED
    BY <2>1, OneMore
<1>17. CASE plain = {} /\ <<d, t.id>> \in opened
  <2>1. contents = {} /\ SetToSeq(entries) = << >>
    BY <1>9, <1>17, SeqOfOne
  <2>2. shown'[d] = shown[d] /\ answers'[d] = acked
    BY <1>13, <1>14, <1>15, <1>16, <2>1
  <2>3. refused' = {} /\ UNCHANGED <<stock, sessions, used, opened>>
    BY <1>6, <1>7, <1>17 DEF Inv
  <2>4. BroughtAgain(t, d)
    BY <1>14, <1>15, <1>17, <2>2, <2>3 DEF BroughtAgain
  <2>5. QED
    BY <1>1, <1>2, <1>3, <1>13, <2>3, <2>4
<1>18. CASE plain = {padded} /\ (<<d, t.id>> \in opened => Key(s) = None /\ ~KeyFor(d, t.author))
  <2>1. contents # {} /\ SetToSeq(entries) = <<Entry(t, d)>> /\ plain # {}
    BY <1>10, <1>11, <1>18, SeqOfOne
  <2>2. Longer(shown'[d], shown[d], Entry(t, d)) /\ Longer(answers'[d], acked, ReceiptOf(t))
    BY <1>13, <1>14, <1>15, <1>16, <2>1
  <2>3. /\ refused' = {} /\ opened' = opened \union {<<d, t.id>>}
        /\ sessions' = [sessions EXCEPT ![d] = Put(@, sessionAddress(t.author), [peer |-> t.author, pending |-> FALSE, preKey |-> None])]
        /\ stock' = [stock EXCEPT ![d] = withoutUsed(@, Key(s))]
        /\ used' = (IF Key(s) = None THEN used ELSE used \union {<<d, Key(s).id>>})
    BY <1>5, <1>6, <1>7, <2>1 DEF Inv
  <2>4. OpenedAs(t, Key(s), d)
    BY <1>14, <1>15, <1>18, <2>2, <2>3 DEF OpenedAs
  <2>5. QED
    BY <1>1, <1>2, <1>3, <1>13, <2>3, <2>4
<1>19. QED
  BY <1>12, <1>17, <1>18

\* A longer sequence keeps its places and has one more.
LEMMA LongerPlaces ==
  ASSUME NEW r, NEW s, NEW x, Longer(r, s, x)
  PROVE  \A i \in 1 .. Len(r) : (i \in 1 .. Len(s) /\ r[i] = s[i]) \/ (i = Len(s) + 1 /\ r[i] = x)
<1> DEFINE m == Len(r)
           n == Len(s)
<1>1. n \in Nat /\ m = n + 1 /\ r[m] = x /\ \A i \in 1 .. n : r[i] = s[i]
  BY DEF Longer
<1> HIDE DEF m, n
<1>2. \A i \in 1 .. m : i \in 1 .. n \/ i = n + 1
  BY <1>1
<1>3. \A i \in 1 .. m : (i \in 1 .. n /\ r[i] = s[i]) \/ (i = n + 1 /\ r[i] = x)
  BY <1>1, <1>2
<1>4. QED
  BY <1>3 DEF m, n

\* The key a message names was handed out to its author.
LEMMA KeyServed ==
  ASSUME NEW s, NEW t, NEW d, Brings(s, t, d), Key(s) # None
  PROVE  \E b \in served : b.device = d /\ b.to = t.author /\ Key(s).id = b.id
BY DEF Brings, Carries, Names

\* What handling a message changes of the keys and the sessions.
LEMMA HandleKeys ==
  ASSUME OneServer, Inv, NEW d \in Devices, NEW t \in sent, NEW s, Brings(s, t, d), BroughtAgain(t, d) \/ OpenedAs(t, Key(s), d)
  PROVE  /\ DOMAIN stock' = Devices /\ \A e \in Devices \ {d} : stock'[e] = stock[e]
         /\ DOMAIN stock'[d] \subseteq DOMAIN stock[d] /\ \A id \in DOMAIN stock'[d] : stock'[d][id] = stock[d][id]
         /\ \A id \in DOMAIN stock[d] : id \in DOMAIN stock'[d] \/ (Key(s) # None /\ id = Key(s).id)
         /\ \A u \in used : u \in used'
         /\ \A u \in used' : u \in used \/ (Key(s) # None /\ u = <<d, Key(s).id>> /\ Key(s).id \notin DOMAIN stock'[d])
         /\ Key(s) # None => <<d, Key(s).id>> \in used'
         /\ opened' = opened \union {<<d, t.id>>}
         /\ DOMAIN sessions' = Devices
         /\ \A e, f \in Devices : hasSessionWith(e, f) => hasSessionWith(e, f)'
         /\ \A e \in Devices : \A address \in DOMAIN sessions'[e] :
              \/ address \in DOMAIN sessions[e] /\ sessions'[e][address] = sessions[e][address]
              \/ /\ e = d /\ address = sessionAddress(t.author)
                 /\ sessions'[e][address] = [peer |-> t.author, pending |-> FALSE, preKey |-> None]
<1>1. DOMAIN stock = Devices /\ DOMAIN sessions = Devices
  BY DEF Inv, StockInv, SessionsInv
<1>2. CASE BroughtAgain(t, d)
  <2>1. <<d, t.id>> \in opened /\ UNCHANGED <<stock, sessions, used, opened>>
    BY <1>2 DEF BroughtAgain
  <2>2. Key(s) # None => <<d, Key(s).id>> \in used
    BY <2>1 DEF Brings, Carries
  <2>3. QED
    BY <1>1, <2>1, <2>2 DEF hasSessionWith
<1>3. CASE OpenedAs(t, Key(s), d)
  <2> DEFINE address == sessionAddress(t.author)
             session == [peer |-> t.author, pending |-> FALSE, preKey |-> None]
             key == Key(s)
  <2>1. /\ sessions' = [sessions EXCEPT ![d] = Put(@, address, session)]
        /\ stock' = [stock EXCEPT ![d] = withoutUsed(@, key)]
        /\ used' = (IF key = None THEN used ELSE used \union {<<d, key.id>>}) /\ opened' = opened \union {<<d, t.id>>}
    BY <1>3 DEF OpenedAs
  <2> HIDE DEF address, session, key
  <2>2. /\ DOMAIN stock' = Devices /\ stock'[d] = withoutUsed(stock[d], key) /\ \A e \in Devices \ {d} : stock'[e] = stock[e]
        /\ DOMAIN sessions' = Devices /\ sessions'[d] = Put(sessions[d], address, session)
        /\ \A e \in Devices \ {d} : sessions'[e] = sessions[e]
    BY <1>1, <2>1
  <2>3. /\ DOMAIN stock'[d] = DOMAIN stock[d] \ (IF key = None THEN {} ELSE {key.id})
        /\ \A id \in DOMAIN stock'[d] : stock'[d][id] = stock[d][id]
    <3>1. CASE key = None
      BY <2>2, <3>1 DEF withoutUsed
    <3>2. CASE key # None
      <4> DEFINE left == DOMAIN stock[d] \ {key.id}
      <4>1. stock'[d] = [x \in left |-> stock[d][x]]
        BY <2>2, <3>2 DEF withoutUsed, Restrict
      <4>2. DOMAIN stock'[d] = left /\ \A id \in left : stock'[d][id] = stock[d][id]
        BY <4>1
      <4>3. QED
        BY <3>2, <4>2
    <3>3. QED
      BY <3>1, <3>2
  <2>4. /\ DOMAIN sessions'[d] = DOMAIN sessions[d] \union {address}
        /\ \A a \in DOMAIN sessions'[d] : sessions'[d][a] = IF a = address THEN session ELSE sessions[d][a]
    BY <2>2 DEF Put
  <2>5. \A e, f \in Devices : hasSessionWith(e, f) => hasSessionWith(e, f)'
    BY <2>2, <2>4 DEF hasSessionWith
  <2>6. \A e \in Devices : \A a \in DOMAIN sessions'[e] :
          \/ a \in DOMAIN sessions[e] /\ sessions'[e][a] = sessions[e][a]
          \/ e = d /\ a = address /\ sessions'[e][a] = session
    BY <2>2, <2>4
  <2>7. /\ \A id \in DOMAIN stock[d] : id \in DOMAIN stock'[d] \/ (key # None /\ id = key.id)
        /\ \A u \in used : u \in used'
        /\ \A u \in used' : u \in used \/ (key # None /\ u = <<d, key.id>> /\ key.id \notin DOMAIN stock'[d])
        /\ key # None => <<d, key.id>> \in used'
    BY <2>1, <2>3
  <2>8. QED
    BY <2>1, <2>2, <2>3, <2>5, <2>6, <2>7 DEF address, session, key
<1>4. QED
  BY <1>2, <1>3

\* What it changes of what is shown and answered.
LEMMA HandleShows ==
  ASSUME OneServer, Inv, NEW d \in Devices, NEW t \in sent, NEW s, Brings(s, t, d), BroughtAgain(t, d) \/ OpenedAs(t, Key(s), d)
  PROVE  /\ shown'[d] \in Seq(ToSet(shown'[d])) /\ ToSet(shown'[d]) \subseteq ToSet(shown[d]) \union {Entry(t, d)}
         /\ \A author \in Devices : KeyFor(d, author) =>
              \A i, j \in 1 .. Len(shown'[d]) : shown'[d][i].id = shown'[d][j].id /\ shown'[d][i].author = author => i = j
         /\ \A u : ShownOn(d, u)' <=> ShownOn(d, u) \/ u.id = t.id
         /\ answers'[d] \in Seq(ToSet(answers'[d])) /\ ToSet(answers'[d]) \subseteq ToSet(answers[d]) \union {AckOf(t), ReceiptOf(t)}
         /\ Len(answers[d]) \in Nat /\ Len(answers'[d]) \in Nat /\ Len(answers'[d]) > Len(answers[d])
         /\ answers'[d][Len(answers[d]) + 1] = AckOf(t) /\ \A i \in 1 .. Len(answers[d]) : answers'[d][i] = answers[d][i]
<1>1. ShownOf(d) /\ AnswersOf(d)
  BY DEF Inv, ShownInv, AnswersInv
<1>2. <<d, t.id>> \in opened <=> ShownOn(d, t)
  BY <1>1 DEF ShownOf
<1>3. CASE BroughtAgain(t, d)
  <2>1. <<d, t.id>> \in opened /\ shown'[d] = shown[d] /\ Longer(answers'[d], answers[d], AckOf(t))
    BY <1>3 DEF BroughtAgain
  <2>2. \A u : (ShownOn(d, u)' <=> ShownOn(d, u)) /\ (u.id = t.id => ShownOn(d, u))
    BY <1>2, <2>1 DEF ShownOn
  <2>3. /\ answers'[d] \in Seq(ToSet(answers'[d])) /\ ToSet(answers'[d]) \subseteq ToSet(answers[d]) \union {AckOf(t), ReceiptOf(t)}
        /\ Len(answers[d]) \in Nat /\ Len(answers'[d]) \in Nat /\ Len(answers'[d]) > Len(answers[d])
        /\ answers'[d][Len(answers[d]) + 1] = AckOf(t) /\ \A i \in 1 .. Len(answers[d]) : answers'[d][i] = answers[d][i]
    BY <2>1 DEF Longer
  <2>4. /\ shown'[d] \in Seq(ToSet(shown'[d])) /\ ToSet(shown'[d]) \subseteq ToSet(shown[d]) \union {Entry(t, d)}
        /\ \A author \in Devices : KeyFor(d, author) =>
             \A i, j \in 1 .. Len(shown'[d]) : shown'[d][i].id = shown'[d][j].id /\ shown'[d][i].author = author => i = j
    BY <1>1, <2>1 DEF ShownOf
  <2>5. \A u : ShownOn(d, u)' <=> ShownOn(d, u) \/ u.id = t.id
    BY <2>2
  <2>6. QED
    BY <2>3, <2>4, <2>5
<1>4. CASE OpenedAs(t, Key(s), d)
  <2>1. Longer(shown'[d], shown[d], Entry(t, d)) /\ (<<d, t.id>> \in opened => ~KeyFor(d, t.author))
    BY <1>4 DEF OpenedAs
  <2>2. PICK acked : Longer(acked, answers[d], AckOf(t)) /\ Longer(answers'[d], acked, ReceiptOf(t))
    BY <1>4 DEF OpenedAs
  <2>3. /\ answers'[d] \in Seq(ToSet(answers'[d])) /\ ToSet(answers'[d]) \subseteq ToSet(answers[d]) \union {AckOf(t), ReceiptOf(t)}
        /\ Len(answers[d]) \in Nat /\ Len(answers'[d]) \in Nat /\ Len(answers'[d]) > Len(answers[d])
        /\ answers'[d][Len(answers[d]) + 1] = AckOf(t) /\ \A i \in 1 .. Len(answers[d]) : answers'[d][i] = answers[d][i]
    <3>1. /\ Len(answers[d]) \in Nat /\ Len(acked) = Len(answers[d]) + 1 /\ ToSet(acked) = ToSet(answers[d]) \union {AckOf(t)}
          /\ acked[Len(acked)] = AckOf(t) /\ \A i \in 1 .. Len(answers[d]) : acked[i] = answers[d][i]
      BY <2>2 DEF Longer
    <3>2. /\ answers'[d] \in Seq(ToSet(answers'[d])) /\ Len(answers'[d]) = Len(acked) + 1
          /\ ToSet(answers'[d]) = ToSet(acked) \union {ReceiptOf(t)} /\ \A i \in 1 .. Len(acked) : answers'[d][i] = acked[i]
      BY <2>2 DEF Longer
    <3> DEFINE n == Len(answers[d])
               m == Len(acked)
               l == Len(answers'[d])
    <3>3. n \in Nat /\ m = n + 1 /\ l = m + 1 /\ \A i \in 1 .. m : answers'[d][i] = acked[i]
      BY <3>1, <3>2
    <3>4. acked[m] = AckOf(t) /\ \A i \in 1 .. n : acked[i] = answers[d][i]
      BY <3>1
    <3> HIDE DEF n, m, l
    <3>5. l \in Nat /\ l > n /\ answers'[d][n + 1] = AckOf(t) /\ \A i \in 1 .. n : answers'[d][i] = answers[d][i]
      BY <3>3, <3>4
    <3>6. answers'[d] \in Seq(ToSet(answers'[d])) /\ ToSet(answers'[d]) \subseteq ToSet(answers[d]) \union {AckOf(t), ReceiptOf(t)}
      BY <3>1, <3>2
    <3>7. QED
      BY <3>3, <3>5, <3>6 DEF n, l
  <2>4. \A i \in 1 .. Len(shown'[d]) : (i \in 1 .. Len(shown[d]) /\ shown'[d][i] = shown[d][i])
                                       \/ (i = Len(shown[d]) + 1 /\ shown'[d][i] = Entry(t, d))
    BY <2>1, LongerPlaces
  <2>5. Entry(t, d).id = t.id /\ Entry(t, d).author = t.author
    BY DEF Entry
  <2>6. \A u : ShownOn(d, u)' <=> ShownOn(d, u) \/ u.id = t.id
    <3>1. Len(shown[d]) \in Nat /\ Len(shown'[d]) = Len(shown[d]) + 1 /\ shown'[d][Len(shown'[d])] = Entry(t, d)
          /\ \A i \in 1 .. Len(shown[d]) : shown'[d][i] = shown[d][i]
      BY <2>1 DEF Longer
    <3>2. ASSUME NEW u, ShownOn(d, u)' PROVE ShownOn(d, u) \/ u.id = t.id
      BY <2>4, <2>5, <3>2 DEF ShownOn
    <3>3. ASSUME NEW u, ShownOn(d, u) PROVE ShownOn(d, u)'
      BY <3>1, <3>3 DEF ShownOn
    <3>4. ASSUME NEW u, u.id = t.id PROVE ShownOn(d, u)'
      BY <2>5, <3>1, <3>4 DEF ShownOn
    <3>5. QED
      BY <3>2, <3>3, <3>4
  <2>7. ASSUME NEW author \in Devices, KeyFor(d, author), NEW i \in 1 .. Len(shown'[d]), NEW j \in 1 .. Len(shown'[d]),
               shown'[d][i].id = shown'[d][j].id, shown'[d][i].author = author
        PROVE  i = j
    <3>1. ASSUME NEW k \in 1 .. Len(shown[d]), shown[d][k].id = t.id
          PROVE  shown[d][k].author = t.author /\ ~KeyFor(d, t.author)
      <4>1. shown[d][k] \in ToSet(shown[d])
        BY <1>1, Items DEF ShownOf
      <4>2. PICK u \in sent : shown[d][k] = Entry(u, d)
        BY <1>1, <4>1 DEF ShownOf
      <4>3. u.id = t.id /\ u \in Texts /\ t \in Texts /\ shown[d][k].author = u.author
        BY <3>1, <4>2 DEF Entry, Inv, SentInv
      <4>4. u = t
        BY <4>3, OneText
      <4>5. ShownOn(d, t)
        BY <3>1 DEF ShownOn
      <4>6. QED
        BY <1>2, <2>1, <4>3, <4>4, <4>5
    <3>2. CASE i \in 1 .. Len(shown[d]) /\ j \in 1 .. Len(shown[d]) /\ shown'[d][i] = shown[d][i] /\ shown'[d][j] = shown[d][j]
      BY <1>1, <2>7, <3>2 DEF ShownOf
    <3>3. CASE i \in 1 .. Len(shown[d]) /\ shown'[d][i] = shown[d][i] /\ shown'[d][j] = Entry(t, d)
      BY <2>5, <2>7, <3>1, <3>3
    <3>4. CASE j \in 1 .. Len(shown[d]) /\ shown'[d][j] = shown[d][j] /\ shown'[d][i] = Entry(t, d)
      BY <2>5, <2>7, <3>1, <3>4
    <3>5. CASE i = Len(shown[d]) + 1 /\ j = Len(shown[d]) + 1
      BY <3>5
    <3>6. QED
      BY <2>4, <3>2, <3>3, <3>4, <3>5
  <2>8. shown'[d] \in Seq(ToSet(shown'[d])) /\ ToSet(shown'[d]) \subseteq ToSet(shown[d]) \union {Entry(t, d)}
    BY <2>1 DEF Longer
  <2>9. QED
    BY <2>3, <2>6, <2>7, <2>8
<1>5. QED
  BY <1>3, <1>4

\* A message is handled.
LEMMA HandleInv ==
  ASSUME OneServer, Inv, NEW d \in Devices, Handle(d)
  PROVE  Inv'
<1>1. UNCHANGED <<nextPreKeyId, uploads, posted, served, targets, sent, queue, ticks>>
  BY DEF Handle, serverVars, sendVars
<1>2. /\ refused' = {} /\ position' = [position EXCEPT ![d] = @ + 1]
      /\ DOMAIN shown' = Devices /\ DOMAIN answers' = Devices
      /\ \A e \in Devices \ {d} : shown'[e] = shown[e] /\ answers'[e] = answers[e]
  BY HandleDoes
<1>3. PICK s \in ToSet(queue[d]), t \in sent :
             /\ s = queue[d][position[d]] /\ Brings(s, t, d)
             /\ BroughtAgain(t, d) \/ OpenedAs(t, Key(s), d)
  BY HandleDoes
<1>4. /\ t \in Texts /\ t.author \in Devices /\ d \in Audience(t) /\ position[d] <= Len(queue[d])
      /\ hasSessionWith(t.author, d)
  BY <1>3, TextsAssumption DEF Inv, SentInv, Brings, Handle
<1>5. /\ DOMAIN stock' = Devices /\ \A e \in Devices \ {d} : stock'[e] = stock[e]
      /\ DOMAIN stock'[d] \subseteq DOMAIN stock[d] /\ \A id \in DOMAIN stock'[d] : stock'[d][id] = stock[d][id]
      /\ \A id \in DOMAIN stock[d] : id \in DOMAIN stock'[d] \/ (Key(s) # None /\ id = Key(s).id)
      /\ \A u \in used : u \in used'
      /\ \A u \in used' : u \in used \/ (Key(s) # None /\ u = <<d, Key(s).id>> /\ Key(s).id \notin DOMAIN stock'[d])
      /\ Key(s) # None => <<d, Key(s).id>> \in used'
      /\ opened' = opened \union {<<d, t.id>>}
      /\ DOMAIN sessions' = Devices
      /\ \A e, f \in Devices : hasSessionWith(e, f) => hasSessionWith(e, f)'
      /\ \A e \in Devices : \A address \in DOMAIN sessions'[e] :
           \/ address \in DOMAIN sessions[e] /\ sessions'[e][address] = sessions[e][address]
           \/ /\ e = d /\ address = sessionAddress(t.author)
              /\ sessions'[e][address] = [peer |-> t.author, pending |-> FALSE, preKey |-> None]
  <2>1. Brings(s, t, d) /\ (BroughtAgain(t, d) \/ OpenedAs(t, Key(s), d))
    BY <1>3
  <2>2. QED
    BY ONLY OneServer, Inv, <2>1, HandleKeys
<1> DEFINE key == Key(s)
<1>6. /\ \A id \in DOMAIN stock[d] : id \in DOMAIN stock'[d] \/ (key # None /\ id = key.id)
      /\ \A u \in used : u \in used'
      /\ \A u \in used' : u \in used \/ (key # None /\ u = <<d, key.id>> /\ key.id \notin DOMAIN stock'[d])
      /\ key # None => <<d, key.id>> \in used'
      /\ opened' = opened \union {<<d, t.id>>}
  BY <1>5
<1>7. /\ DOMAIN sessions' = Devices
      /\ \A e, f \in Devices : hasSessionWith(e, f) => hasSessionWith(e, f)'
      /\ \A e \in Devices : \A address \in DOMAIN sessions'[e] :
           \/ address \in DOMAIN sessions[e] /\ sessions'[e][address] = sessions[e][address]
           \/ /\ e = d /\ address = sessionAddress(t.author)
              /\ sessions'[e][address] = [peer |-> t.author, pending |-> FALSE, preKey |-> None]
  BY <1>5
<1>8. key # None => \E b \in served : b.device = d /\ b.to = t.author /\ key.id = b.id
  BY <1>3, KeyServed
<1> HIDE DEF key
<1>9. StockInv'
  <2>1. SUFFICES ASSUME NEW e \in Devices PROVE StockOf(e)'
    BY <1>1, <1>5 DEF Inv, StockInv
  <2>2. StockOf(e) /\ DOMAIN stock'[e] \subseteq DOMAIN stock[e] /\ \A id \in DOMAIN stock'[e] : stock'[e][id] = stock[e][id]
    BY <1>5 DEF Inv, StockInv
  <2>3. QED
    BY <1>1, <2>2 DEF StockOf
<1>10. PostedInv'
  <2>1. SUFFICES ASSUME NEW e \in Devices PROVE PostedOf(e)'
    BY <1>1 DEF Inv, PostedInv
  <2>2. PostedOf(e)
    BY DEF Inv, PostedInv
  <2>3. ASSUME NEW id \in DOMAIN stock[e], \A b \in served : b.device = e => b.id # id PROVE id \in DOMAIN stock'[e]
    BY <1>5, <1>6, <1>8, <2>3
  <2>4. QED
    BY <1>1, <2>2, <2>3 DEF PostedOf
<1>11. ServedInv'
  <2>1. ASSUME NEW b \in served
        PROVE  /\ <<b.device, b.id>> \in used' \/ b.id \in DOMAIN stock'[b.device]
               /\ hasSessionWith(b.to, b.device)'
    <3>1. /\ b.device \in Devices /\ b.to \in Devices /\ hasSessionWith(b.to, b.device)
          /\ <<b.device, b.id>> \in used \/ b.id \in DOMAIN stock[b.device]
      BY DEF Inv, ServedInv
    <3>2. CASE b.device = d
      BY <1>5, <1>6, <1>7, <3>1, <3>2
    <3>3. CASE b.device # d
      BY <1>5, <1>6, <1>7, <3>1, <3>3
    <3>4. QED
      BY <3>2, <3>3
  <2>2. QED
    BY <1>1, <2>1 DEF Inv, ServedInv
<1>12. UsedInv'
  <2>1. SUFFICES ASSUME NEW u \in used'
                 PROVE  \E b \in served, v \in sent :
                          /\ u = <<b.device, b.id>> /\ b.to = v.author /\ <<b.device, v.id>> \in opened'
                          /\ b.id \notin DOMAIN stock'[b.device]
    BY <1>1 DEF UsedInv
  <2>2. CASE u \in used
    <3>1. PICK b \in served, v \in sent :
            /\ u = <<b.device, b.id>> /\ b.to = v.author /\ <<b.device, v.id>> \in opened
            /\ b.id \notin DOMAIN stock[b.device]
      BY <2>2 DEF Inv, UsedInv
    <3>2. b.device \in Devices
      BY DEF Inv, ServedInv
    <3>3. b.id \notin DOMAIN stock'[b.device] /\ <<b.device, v.id>> \in opened'
      BY <1>5, <1>6, <3>1, <3>2
    <3>4. QED
      BY <3>1, <3>3
  <2>3. CASE u \notin used
    <3>1. key # None /\ u = <<d, key.id>> /\ key.id \notin DOMAIN stock'[d]
      BY <1>6, <2>3
    <3>2. PICK b \in served : b.device = d /\ b.to = t.author /\ key.id = b.id
      BY <1>8, <3>1
    <3>3. <<d, t.id>> \in opened'
      BY <1>6
    <3>4. QED
      BY <3>1, <3>2, <3>3
  <2>4. QED
    BY <2>2, <2>3
<1>13. SessionsInv'
  <2>1. SUFFICES ASSUME NEW e \in Devices, NEW address \in DOMAIN sessions'[e] PROVE SessionOf(e, address)'
    BY <1>7 DEF SessionsInv
  <2>2. CASE address \in DOMAIN sessions[e] /\ sessions'[e][address] = sessions[e][address]
    <3>1. PICK f \in Devices :
            /\ address = sessionAddress(f) /\ sessions[e][address].peer = f /\ sessions[e][address].pending \in BOOLEAN
            /\ IF sessions[e][address].pending THEN Names(sessions[e][address].preKey, f, e)
               ELSE sessions[e][address].preKey = None /\ hasSessionWith(f, e)
      BY <2>2 DEF Inv, SessionsInv, SessionOf
    <3>2. \A k : Names(k, f, e) => Names(k, f, e)'
      BY <1>1 DEF Names
    <3>3. QED
      BY <1>7, <2>2, <3>1, <3>2 DEF SessionOf
  <2>3. CASE /\ e = d /\ address = sessionAddress(t.author)
             /\ sessions'[e][address] = [peer |-> t.author, pending |-> FALSE, preKey |-> None]
    <3>1. hasSessionWith(t.author, d)'
      BY <1>4, <1>7
    <3>2. QED
      BY <1>4, <2>3, <3>1 DEF SessionOf
  <2>4. QED
    BY <1>7, <2>2, <2>3
<1>14. SentInv'
  <2>1. \A u \in sent : \A e \in Audience(u) : hasSessionWith(u.author, e)'
    <3>1. \A u \in sent : u.author \in Devices /\ Audience(u) \subseteq Devices
      BY TextsAssumption DEF Inv, SentInv, Audience
    <3>2. QED
      BY <1>7, <3>1 DEF Inv, SentInv
  <2>2. \A o \in opened' : \E u \in sent : \E e \in Audience(u) : o = <<e, u.id>>
    BY <1>4, <1>6 DEF Inv, SentInv
  <2>3. QED
    BY <1>1, <2>1, <2>2 DEF Inv, SentInv
<1>15. QueueInv'
  <2>1. SUFFICES ASSUME NEW e \in Devices PROVE QueueOf(e)'
    BY <1>1, <1>2 DEF Inv, QueueInv
  <2>2. QueueOf(e) /\ queue'[e] = queue[e] /\ DOMAIN position = Devices
    BY <1>1 DEF Inv, QueueInv
  <2>3. position'[e] \in 1 .. Len(queue[e]) + 1
    <3>1. Len(queue[e]) \in Nat /\ position[e] \in 1 .. Len(queue[e]) + 1
      BY <2>2, Items DEF QueueOf
    <3>2. position'[e] = IF e = d THEN position[d] + 1 ELSE position[e]
      BY <1>2, <2>2
    <3>3. QED
      BY <1>4, <3>1, <3>2
  <2>4. ASSUME NEW x \in ToSet(queue[e]), NEW u \in sent, Brings(x, u, e) PROVE Brings(x, u, e)'
    <3>1. u \in Texts /\ u.author \in Devices /\ e \in Audience(u) /\ x.attrs.id = u.id /\ Carries(u, e, Type(x), Key(x))
      BY <2>4, CopyIds, TextsAssumption DEF Inv, SentInv, Brings
    <3>2. ASSUME Key(x) # None, <<e, u.id>> \in opened' PROVE <<e, Key(x).id>> \in used' \/ Type(x) = "msg"
      <4>1. CASE <<e, u.id>> \in opened
        BY <1>6, <3>1, <3>2, <4>1 DEF Carries
      <4>2. CASE <<e, u.id>> \notin opened
        <5>1. e = d /\ u.id = t.id
          BY <1>6, <3>2, <4>2
        <5>2. s.attrs.id = x.attrs.id
          BY <1>3, <3>1, <5>1, CopyIds
        <5>3. \A y \in ToSet(queue[e]) : \E i \in 1 .. Len(queue[e]) : y = queue[e][i]
          <6>1. queue[e] \in Seq(ToSet(queue[e]))
            BY <2>2 DEF QueueOf
          <6>2. QED
            BY <6>1, Items
        <5>4. ASSUME NEW y \in ToSet(queue[e]), NEW z \in ToSet(queue[e]), y.attrs.id = z.attrs.id PROVE y = z
          <6>1. PICK i \in 1 .. Len(queue[e]) : y = queue[e][i]
            BY <5>3
          <6>2. PICK j \in 1 .. Len(queue[e]) : z = queue[e][j]
            BY <5>3
          <6>3. QED
            BY <2>2, <5>4, <6>1, <6>2 DEF QueueOf
        <5>5. x = s
          BY <1>3, <5>1, <5>2, <5>4
        <5>6. QED
          BY <1>6, <3>2, <5>1, <5>5 DEF key
      <4>3. QED
        BY <4>1, <4>2
    <3>3. \A k : Names(k, e, u.author) => Names(k, e, u.author)'
      BY <1>1 DEF Names
    <3>4. hasSessionWith(e, u.author) => hasSessionWith(e, u.author)'
      BY <1>7, <3>1
    <3>5. Carries(u, e, Type(x), Key(x))'
      BY <3>1, <3>2, <3>3, <3>4 DEF Carries
    <3>6. QED
      BY <2>4, <3>5 DEF Brings
  <2>5. QED
    BY <1>1, <2>2, <2>3, <2>4 DEF QueueOf
<1>16. /\ \A author, e : KeyFor(e, author)' <=> KeyFor(e, author)
       /\ \A u, e : Queued(e, u)' <=> Queued(e, u)
       /\ \A u : \A e \in Devices \ {d} : ShownOn(e, u)' <=> ShownOn(e, u)
  BY <1>1, <1>2 DEF KeyFor, Queued, ShownOn
<1>17. /\ shown'[d] \in Seq(ToSet(shown'[d])) /\ ToSet(shown'[d]) \subseteq ToSet(shown[d]) \union {Entry(t, d)}
       /\ \A author \in Devices : KeyFor(d, author) =>
            \A i, j \in 1 .. Len(shown'[d]) : shown'[d][i].id = shown'[d][j].id /\ shown'[d][i].author = author => i = j
       /\ \A u : ShownOn(d, u)' <=> ShownOn(d, u) \/ u.id = t.id
  BY <1>3, HandleShows
<1>18. /\ answers'[d] \in Seq(ToSet(answers'[d])) /\ ToSet(answers'[d]) \subseteq ToSet(answers[d]) \union {AckOf(t), ReceiptOf(t)}
       /\ Len(answers[d]) \in Nat /\ Len(answers'[d]) \in Nat /\ Len(answers'[d]) > Len(answers[d])
       /\ answers'[d][Len(answers[d]) + 1] = AckOf(t) /\ \A i \in 1 .. Len(answers[d]) : answers'[d][i] = answers[d][i]
  BY <1>3, HandleShows
<1>19. ShownInv'
  <2>1. SUFFICES ASSUME NEW e \in Devices PROVE ShownOf(e)'
    BY <1>2 DEF ShownInv
  <2>2. ShownOf(e)
    BY DEF Inv, ShownInv
  <2>3. CASE e # d
    <3>1. shown'[e] = shown[e] /\ \A u : <<e, u.id>> \in opened' <=> <<e, u.id>> \in opened
      BY <1>2, <1>6, <2>3
    <3>2. QED
      BY <1>1, <1>16, <2>2, <2>3, <3>1 DEF ShownOf
  <2>4. CASE e = d
    <3>1. \A u : <<d, u.id>> \in opened' <=> <<d, u.id>> \in opened \/ u.id = t.id
      BY <1>6
    <3>2. \A x \in ToSet(shown'[d]) : \E u \in sent : d \in Audience(u) /\ x = Entry(u, d)
      BY <1>4, <1>17, <2>2, <2>4 DEF ShownOf
    <3>3. \A u \in sent : <<d, u.id>> \in opened' <=> ShownOn(d, u)'
      BY <1>17, <2>2, <2>4, <3>1 DEF ShownOf
    <3>4. \A u \in sent : d \in Audience(u) => ShownOn(d, u)' \/ Queued(d, u)'
      BY <1>16, <1>17, <2>2, <2>4 DEF ShownOf
    <3>5. QED
      BY <1>1, <1>16, <1>17, <2>4, <3>2, <3>3, <3>4 DEF ShownOf
  <2>5. QED
    BY <2>3, <2>4
<1>20. \A e \in Devices : \A u : ShownOn(e, u) => ShownOn(e, u)'
  BY <1>16, <1>17
<1>21. AnswersInv'
  <2>1. SUFFICES ASSUME NEW e \in Devices PROVE AnswersOf(e)'
    BY <1>2 DEF AnswersInv
  <2>2. AnswersOf(e) /\ queue'[e] = queue[e] /\ DOMAIN position = Devices
    BY <1>1 DEF Inv, AnswersInv, QueueInv
  <2>3. CASE e # d
    <3>1. answers'[e] = answers[e] /\ position'[e] = position[e]
      BY <1>2, <2>2, <2>3
    <3>2. QED
      BY <1>1, <1>20, <2>2, <3>1, AnswersOfKept
  <2>4. CASE e = d
    <3>1. ShownOn(d, t)'
      BY <1>17
    <3>2. \A answer : \A u \in sent : IsAnswer(answer, u, d) => IsAnswer(answer, u, d)'
      BY <1>20 DEF IsAnswer
    <3>3. IsAnswer(AckOf(t), t, d)' /\ IsAnswer(ReceiptOf(t), t, d)'
      BY <1>4, <3>1 DEF IsAnswer
    <3>4. \A answer \in ToSet(answers'[d]) : \E u \in sent : IsAnswer(answer, u, d)'
      BY <1>18, <2>2, <2>4, <3>2, <3>3 DEF AnswersOf
    <3>5. ASSUME NEW i \in 1 .. Len(queue[d]), i < position'[d]
          PROVE  \E j \in 1 .. Len(answers'[d]) : Settled(queue[d][i], answers'[d][j])
      <4>1. position'[d] = position[d] + 1 /\ position[d] \in Nat
        BY <1>2, <2>2, Items DEF Inv, QueueInv, QueueOf
      <4>2. CASE i < position[d]
        <5>1. PICK j \in 1 .. Len(answers[d]) : Settled(queue[d][i], answers[d][j])
          BY <2>2, <2>4, <4>2 DEF AnswersOf
        <5>2. j \in 1 .. Len(answers'[d]) /\ answers'[d][j] = answers[d][j]
          BY <1>18
        <5>3. QED
          BY <5>1, <5>2
      <4>3. CASE i = position[d]
        <5>1. Settled(queue[d][i], AckOf(t))
          BY <1>3, <1>4, <4>3, BroughtParsed
        <5>2. Len(answers[d]) + 1 \in 1 .. Len(answers'[d])
          BY <1>18
        <5>3. QED
          BY <1>18, <5>1, <5>2
      <4>4. QED
        BY <3>5, <4>1, <4>2, <4>3
    <3>6. QED
      BY <1>1, <1>18, <2>2, <2>4, <3>4, <3>5 DEF AnswersOf
  <2>5. QED
    BY <2>3, <2>4
<1>22. TicksInv'
  BY <1>1, <1>20, TicksKept DEF Inv
<1>23. TargetsInv'
  BY <1>1, TargetsKept DEF Inv
<1>24. QED
  BY <1>2, <1>9, <1>10, <1>11, <1>12, <1>13, <1>14, <1>15, <1>19, <1>21, <1>22, <1>23 DEF Inv

----------------------------------------------------------------------------
(* An answer comes.                                                        *)

Begins(r, s, m) == Len(r) = m /\ \A i \in 1 .. m : r[i] = s[i]
Agree(before, places, m) == \A i \in 1 .. m : i \in before <=> i \in places

\* The recursion of a beginning is the beginning of the recursion.
LEMMA SameSoFar ==
  ASSUME NEW S, NEW s \in Seq(S), NEW r \in Seq(S), NEW m \in 0 .. Len(s), Begins(r, s, m),
         NEW places, NEW before, Agree(before, places, m),
         NEW only, Keeps(only, s, places), NEW other, Keeps(other, r, before)
  PROVE  other[m] = only[m]
<1>1. m \in Nat /\ m <= Len(s) /\ Len(s) \in Nat
  BY LenProperties
<1> DEFINE T == {k \in Nat : k <= m => other[k] = only[k]}
<1>2. 0 \in T
  <2>1. other[0] = only[0]
    BY DEF Keeps
  <2>2. QED
    BY <2>1
<1>3. ASSUME NEW k \in Nat, k \in T PROVE k + 1 \in T
  <2>1. SUFFICES ASSUME k + 1 <= m PROVE other[k + 1] = only[k + 1]
    OBVIOUS
  <2> DEFINE j == k + 1
  <2>2. j \in 1 .. m /\ j \in 1 .. Len(s) /\ j \in 1 .. Len(r) /\ j - 1 = k /\ k <= m
    BY <1>1, <2>1 DEF Begins
  <2>3. other[k] = only[k] /\ r[j] = s[j] /\ (j \in before <=> j \in places)
    BY <1>3, <2>2 DEF Begins, Agree
  <2> HIDE DEF j
  <2>4. /\ other[j] = IF j \in before THEN Append(other[j - 1], r[j]) ELSE other[j - 1]
        /\ only[j] = IF j \in places THEN Append(only[j - 1], s[j]) ELSE only[j - 1]
    BY <2>2 DEF Keeps
  <2>5. other[j] = only[j]
    BY <2>2, <2>3, <2>4
  <2>6. QED
    BY <2>5 DEF j
<1> HIDE DEF T
<1>4. m \in T
  BY <1>1, <1>2, <1>3, NatSetInduction
<1>5. QED
  BY <1>4 DEF T

\* What is kept of a beginning is the beginning of what is kept.
LEMMA OnlyFirst ==
  ASSUME NEW S, NEW s \in Seq(S), NEW m \in 0 .. Len(s), NEW places, NEW before,
         \A i \in 1 .. m : i \in before <=> i \in places
  PROVE  /\ Len(Only(SubSeq(s, 1, m), before)) \in Nat
         /\ Len(Only(SubSeq(s, 1, m), before)) <= Len(Only(s, places))
         /\ \A i \in 1 .. Len(Only(SubSeq(s, 1, m), before)) :
              \E j \in 1 .. m : j \in places /\ Only(s, places)[i] = s[j]
<1> DEFINE r == SubSeq(s, 1, m)
<1>1. m \in Nat /\ m <= Len(s) /\ Len(s) \in Nat /\ \A i \in 1 .. Len(s) : s[i] \in S
  BY LenProperties, ElementOfSeq
<1>2. r \in Seq(S) /\ Len(r) = m /\ \A i \in 1 .. m : r[i] = s[i]
  BY <1>1
<1> HIDE DEF r
<1>3. PICK only \in [0 .. Len(s) -> Seq(S)] : Keeps(only, s, places) /\ Only(s, places) = only[Len(s)]
  BY OnlyIs
<1>4. PICK other \in [0 .. Len(r) -> Seq(S)] : Keeps(other, r, before) /\ Only(r, before) = other[Len(r)]
  BY <1>2, OnlyIs
<1>5. Only(r, before) = only[m]
  <2>1. Begins(r, s, m) /\ Agree(before, places, m)
    BY <1>2 DEF Begins, Agree
  <2>2. other[m] = only[m]
    BY <1>2, <1>3, <1>4, <2>1, SameSoFar
  <2>3. QED
    BY <1>2, <1>4, <2>2
<1>6. /\ ToSet(only[m]) = At(s, m, places)
      /\ \A k \in m .. Len(s) : Len(only[m]) <= Len(only[k]) /\ \A i \in 1 .. Len(only[m]) : only[k][i] = only[m][i]
  BY <1>3, KeptSoFar
<1>7. /\ Len(only[m]) <= Len(only[Len(s)])
      /\ \A i \in 1 .. Len(only[m]) : only[Len(s)][i] = only[m][i]
  <2>1. Len(s) \in m .. Len(s)
    BY <1>1
  <2>2. QED
    BY <1>6, <2>1
<1>8. only[m] \in Seq(S) /\ Len(only[m]) \in Nat /\ DOMAIN only[m] = 1 .. Len(only[m])
  BY <1>1, <1>3, LenProperties
<1>9. \A i \in 1 .. Len(only[m]) : \E j \in 1 .. m : j \in places /\ only[m][i] = s[j]
  <2>1. ASSUME NEW i \in 1 .. Len(only[m]) PROVE only[m][i] \in At(s, m, places)
    BY <1>6, <1>8 DEF ToSet
  <2>2. QED
    BY <2>1 DEF At
<1>10. QED
  BY <1>3, <1>5, <1>7, <1>8, <1>9 DEF r

\* What an answer leaves.
LeftBy(answer, stanzas) == Only(stanzas, {i \in DOMAIN stanzas : ~Settled(stanzas[i], answer)})

\* It leaves what it does not settle, in its order.
LEMMA WhatIsLeft ==
  ASSUME NEW S, NEW s \in Seq(S), NEW m \in 0 .. Len(s), NEW answer
  PROVE  /\ LeftBy(answer, s) \in Seq(ToSet(LeftBy(answer, s))) /\ Len(LeftBy(answer, s)) \in Nat
         /\ \A x : x \in ToSet(LeftBy(answer, s)) <=> x \in ToSet(s) /\ ~Settled(x, answer)
         /\ Len(LeftBy(answer, SubSeq(s, 1, m))) \in 0 .. Len(LeftBy(answer, s))
         /\ \A i \in 1 .. Len(LeftBy(answer, SubSeq(s, 1, m))) :
              \E j \in 1 .. m : LeftBy(answer, s)[i] = s[j] /\ ~Settled(s[j], answer)
<1> DEFINE r == SubSeq(s, 1, m)
           places == {i \in DOMAIN s : ~Settled(s[i], answer)}
           before == {i \in DOMAIN r : ~Settled(r[i], answer)}
<1>1. m \in Nat /\ m <= Len(s) /\ Len(s) \in Nat /\ DOMAIN s = 1 .. Len(s)
  BY LenProperties
<1>2. r \in Seq(S) /\ DOMAIN r = 1 .. m /\ \A i \in 1 .. m : r[i] = s[i]
  BY <1>1
<1>3. LeftBy(answer, s) = Only(s, places) /\ LeftBy(answer, r) = Only(r, before)
  BY DEF LeftBy
<1>4. \A i \in 1 .. m : i \in before <=> i \in places
  <2> HIDE DEF r
  <2>1. QED
    BY <1>1, <1>2
<1>5. \A i \in places : i \in 1 .. Len(s) /\ ~Settled(s[i], answer)
  BY <1>1
<1>6. \A i \in 1 .. Len(s) : i \in places \/ Settled(s[i], answer)
  BY <1>1
<1> HIDE DEF places, before
<1>7. /\ Len(Only(r, before)) \in Nat /\ Len(Only(r, before)) <= Len(Only(s, places))
      /\ \A i \in 1 .. Len(Only(r, before)) : \E j \in 1 .. m : j \in places /\ Only(s, places)[i] = s[j]
  BY <1>4, OnlyFirst
<1>8. Only(s, places) \in Seq(S) /\ ToSet(Only(s, places)) = At(s, Len(s), places)
  BY OnlyKeeps
<1>9. Only(s, places) \in Seq(ToSet(Only(s, places))) /\ Len(Only(s, places)) \in Nat
  BY <1>8, Items
<1>10. \A x : x \in At(s, Len(s), places) <=> x \in ToSet(s) /\ ~Settled(x, answer)
  BY <1>1, <1>5, <1>6 DEF At, ToSet
<1>11. Len(Only(r, before)) \in 0 .. Len(Only(s, places))
  BY <1>7, <1>9
<1>12. \A i \in 1 .. Len(Only(r, before)) : \E j \in 1 .. m : Only(s, places)[i] = s[j] /\ ~Settled(s[j], answer)
  BY <1>5, <1>7
<1> HIDE DEF r
<1>13. QED
  BY <1>3, <1>8, <1>9, <1>10, <1>11, <1>12 DEF r

\* Which answer it is, and what it settles.
LEMMA AnswerIs ==
  ASSUME OneServer, Inv, NEW d \in Devices, answers[d] # << >>
  PROVE  \E t \in sent :
           /\ IsAnswer(Head(answers[d]), t, d)
           /\ \A s \in ToSet(queue[d]) : Settled(s, Head(answers[d])) => s.attrs.id = t.id
           /\ Head(answers[d]).tag # "ack" =>
                /\ \A s : ~Settled(s, Head(answers[d]))
                /\ Head(answers[d]).attrs.id = t.id
                /\ (IF Has(Head(answers[d]), "participant") THEN Head(answers[d]).attrs.participant
                    ELSE Head(answers[d]).attrs.to) = t.author
<1> DEFINE answer == Head(answers[d])
<1>1. answers[d] \in Seq(ToSet(answers[d])) /\ \A x \in ToSet(answers[d]) : \E t \in sent : IsAnswer(x, t, d)
  BY DEF Inv, AnswersInv, AnswersOf
<1>2. answer \in ToSet(answers[d])
  BY <1>1, HeadTailProperties
<1> HIDE DEF answer
<1>3. PICK t \in sent : IsAnswer(answer, t, d)
  BY <1>1, <1>2
<1>4. t \in Texts /\ answer \in {AckOf(t), ReceiptOf(t)}
  BY <1>3 DEF IsAnswer, Inv, SentInv
<1>5. /\ AckOf(t).tag = "ack" /\ AckOf(t).attrs.id = t.id
      /\ ReceiptOf(t).tag = "receipt" /\ ReceiptOf(t).attrs.id = t.id
      /\ (IF Has(ReceiptOf(t), "participant") THEN ReceiptOf(t).attrs.participant ELSE ReceiptOf(t).attrs.to) = t.author
  BY <1>4, AnswersSay
<1>6. \A s : Settled(s, answer) => s.attrs.id = t.id
  BY <1>4, <1>5 DEF Settled
<1>7. answer.tag # "ack" =>
        /\ \A s : ~Settled(s, answer)
        /\ answer.attrs.id = t.id
        /\ (IF Has(answer, "participant") THEN answer.attrs.participant ELSE answer.attrs.to) = t.author
  BY <1>4, <1>5 DEF Settled
<1>8. QED
  BY <1>3, <1>6, <1>7 DEF answer

\* What an answer changes.
LEMMA AnswerDoes ==
  ASSUME Inv, NEW d \in Devices, AnswerArrives(d)
  PROVE  /\ UNCHANGED <<stock, nextPreKeyId, uploads, posted, served, targets, sent, sessions, used, opened, refused, shown>>
         /\ answers[d] # << >>
         /\ queue' = [queue EXCEPT ![d] = LeftBy(Head(answers[d]), queue[d])]
         /\ position' = [position EXCEPT ![d] = Len(LeftBy(Head(answers[d]), SubSeq(queue[d], 1, position[d] - 1))) + 1]
         /\ answers' = [answers EXCEPT ![d] = Tail(answers[d])]
         /\ \/ Head(answers[d]).tag = "ack" /\ ticks' = ticks
            \/ /\ Head(answers[d]).tag # "ack"
               /\ ticks' = ticks \union
                    {[id |-> Head(answers[d]).attrs.id, by |-> d,
                      author |-> IF Has(Head(answers[d]), "participant") THEN Head(answers[d]).attrs.participant
                                 ELSE Head(answers[d]).attrs.to]}
<1>1. DOMAIN queue = Devices /\ DOMAIN position = Devices /\ DOMAIN answers = Devices
  BY DEF Inv, QueueInv, AnswersInv
<1>2. UNCHANGED <<stock, nextPreKeyId, uploads, posted, served, targets, sent, sessions, used, opened, refused, shown>>
  BY DEF AnswerArrives, stockVars, serverVars, sendVars, receiveVars
<1>3. QED
  BY <1>1, <1>2 DEF AnswerArrives, LeftBy

\* An answer takes from the queue what it settles.
LEMMA AnswerArrivesInv ==
  ASSUME OneServer, Inv, NEW d \in Devices, AnswerArrives(d)
  PROVE  Inv'
<1> DEFINE answer == Head(answers[d])
           left == LeftBy(answer, queue[d])
           first == LeftBy(answer, SubSeq(queue[d], 1, position[d] - 1))
<1>1. /\ UNCHANGED <<stock, nextPreKeyId, uploads, posted, served, targets, sent, sessions, used, opened, refused, shown>>
      /\ answers[d] # << >>
  BY AnswerDoes
<1>2. DOMAIN queue = Devices /\ DOMAIN position = Devices /\ DOMAIN answers = Devices
  BY DEF Inv, QueueInv, AnswersInv
<1>3. /\ DOMAIN queue' = Devices /\ DOMAIN position' = Devices /\ DOMAIN answers' = Devices
      /\ queue'[d] = left /\ position'[d] = Len(first) + 1 /\ answers'[d] = Tail(answers[d])
      /\ \A e \in Devices \ {d} : queue'[e] = queue[e] /\ position'[e] = position[e] /\ answers'[e] = answers[e]
  <2>1. /\ queue' = [queue EXCEPT ![d] = left] /\ position' = [position EXCEPT ![d] = Len(first) + 1]
        /\ answers' = [answers EXCEPT ![d] = Tail(answers[d])]
    BY AnswerDoes
  <2> HIDE DEF left, first
  <2>2. QED
    BY <1>2, <2>1
<1>4. PICK t \in sent :
        /\ IsAnswer(answer, t, d)
        /\ \A s \in ToSet(queue[d]) : Settled(s, answer) => s.attrs.id = t.id
        /\ answer.tag # "ack" =>
             /\ \A s : ~Settled(s, answer)
             /\ answer.attrs.id = t.id
             /\ (IF Has(answer, "participant") THEN answer.attrs.participant ELSE answer.attrs.to) = t.author
  BY <1>1, AnswerIs
<1>5. ticks' = ticks \/ (answer.tag # "ack" /\ ticks' = ticks \union {[id |-> t.id, by |-> d, author |-> t.author]})
  BY <1>4, AnswerDoes
<1>6. QueueOf(d) /\ AnswersOf(d) /\ ShownOf(d)
  BY DEF Inv, QueueInv, AnswersInv, ShownInv
<1>7. /\ queue[d] \in Seq(ToSet(queue[d])) /\ Len(queue[d]) \in Nat /\ position[d] \in 1 .. Len(queue[d]) + 1
      /\ position[d] - 1 \in 0 .. Len(queue[d])
  <2>1. queue[d] \in Seq(ToSet(queue[d])) /\ position[d] \in 1 .. Len(queue[d]) + 1
    BY <1>6 DEF QueueOf
  <2>2. Len(queue[d]) \in Nat
    BY <2>1, LenProperties
  <2>3. QED
    BY <2>1, <2>2
<1>8. /\ left \in Seq(ToSet(left)) /\ Len(left) \in Nat
      /\ \A x : x \in ToSet(left) <=> x \in ToSet(queue[d]) /\ ~Settled(x, answer)
      /\ Len(first) \in 0 .. Len(left)
      /\ \A i \in 1 .. Len(first) : \E j \in 1 .. position[d] - 1 : left[i] = queue[d][j] /\ ~Settled(queue[d][j], answer)
  <2> DEFINE q == queue[d]
             m == position[d] - 1
  <2>1. q \in Seq(ToSet(q)) /\ m \in 0 .. Len(q)
    BY <1>7
  <2> HIDE DEF answer, q, m
  <2>2. /\ LeftBy(answer, q) \in Seq(ToSet(LeftBy(answer, q))) /\ Len(LeftBy(answer, q)) \in Nat
        /\ \A x : x \in ToSet(LeftBy(answer, q)) <=> x \in ToSet(q) /\ ~Settled(x, answer)
        /\ Len(LeftBy(answer, SubSeq(q, 1, m))) \in 0 .. Len(LeftBy(answer, q))
        /\ \A i \in 1 .. Len(LeftBy(answer, SubSeq(q, 1, m))) :
             \E j \in 1 .. m : LeftBy(answer, q)[i] = q[j] /\ ~Settled(q[j], answer)
    BY <2>1, WhatIsLeft
  <2>3. QED
    BY <2>2 DEF q, m
<1>9. /\ answers[d] \in Seq(ToSet(answers[d])) /\ Len(answers[d]) \in Nat
      /\ \A x : x \in ToSet(answers[d]) <=> \E i \in 1 .. Len(answers[d]) : x = answers[d][i]
  <2>1. answers[d] \in Seq(ToSet(answers[d]))
    BY <1>6 DEF AnswersOf
  <2>2. QED
    BY <2>1, Items
<1>10. /\ answer = answers[d][1] /\ Tail(answers[d]) \in Seq(ToSet(answers[d])) /\ Len(Tail(answers[d])) = Len(answers[d]) - 1
       /\ Len(Tail(answers[d])) \in Nat
       /\ \A i \in 1 .. Len(answers[d]) - 1 : Tail(answers[d])[i] = answers[d][i + 1]
  <2> DEFINE s == answers[d]
             S == ToSet(answers[d])
             r == Tail(s)
  <2>1. s \in Seq(S) /\ s # << >>
    BY <1>1, <1>9
  <2>2. answer = s[1]
    OBVIOUS
  <2> HIDE DEF s, S, answer
  <2>3. r \in Seq(S) /\ Len(r) = Len(s) - 1 /\ \A i \in 1 .. Len(r) : r[i] = s[i + 1]
    BY <2>1, HeadTailProperties
  <2> HIDE DEF r
  <2>4. Len(r) \in Nat
    BY <2>3, LenProperties
  <2>5. answer = s[1] /\ r \in Seq(S) /\ Len(r) = Len(s) - 1 /\ Len(r) \in Nat /\ \A i \in 1 .. Len(s) - 1 : r[i] = s[i + 1]
    BY <2>2, <2>3, <2>4
  <2>6. QED
    BY <2>5 DEF s, S, r
<1> HIDE DEF answer, left, first
<1>11. StockInv' /\ PostedInv' /\ ServedInv' /\ UsedInv' /\ SessionsInv' /\ TargetsInv'
  BY <1>1, StockKept, PostedKept, ServedKept, UsedKept, SessionsKept, TargetsKept DEF Inv
<1>12. \A e, f \in Devices : hasSessionWith(e, f)' <=> hasSessionWith(e, f)
  BY <1>1 DEF hasSessionWith
<1>13. SentInv'
  BY <1>1, <1>12, SentKept DEF Inv
<1>14. \A e \in Devices : \A s : \A u \in sent : Brings(s, u, e) => Brings(s, u, e)'
  BY <1>1 DEF Brings, Carries, Names, hasSessionWith
<1>15. QueueInv'
  <2>1. SUFFICES ASSUME NEW e \in Devices PROVE QueueOf(e)'
    BY <1>3 DEF QueueInv
  <2>2. CASE e # d
    <3>1. queue'[e] = queue[e] /\ position'[e] = position[e] /\ QueueOf(e)
      BY <1>3, <2>2 DEF Inv, QueueInv
    <3>2. QED
      BY <1>1, <1>14, <3>1 DEF QueueOf
  <2>3. CASE e = d
    <3>1. \A s \in ToSet(left) : \E u \in sent : Brings(s, u, d)'
      BY <1>6, <1>8, <1>14 DEF QueueOf
    <3>2. ASSUME NEW i \in 1 .. Len(left), NEW j \in 1 .. Len(left), left[i].attrs.id = left[j].attrs.id
          PROVE  left[i] = left[j]
      <4>1. left[i] \in ToSet(left) /\ left[j] \in ToSet(left)
        BY <1>8, Items
      <4>2. left[i] \in ToSet(queue[d]) /\ left[j] \in ToSet(queue[d])
        BY <1>8, <4>1
      <4>3. \A y \in ToSet(queue[d]) : \E k \in 1 .. Len(queue[d]) : y = queue[d][k]
        BY <1>7, Items
      <4>4. PICK k \in 1 .. Len(queue[d]) : left[i] = queue[d][k]
        BY <4>2, <4>3
      <4>5. PICK l \in 1 .. Len(queue[d]) : left[j] = queue[d][l]
        BY <4>2, <4>3
      <4>6. QED
        BY <1>6, <3>2, <4>4, <4>5 DEF QueueOf
    <3>3. position'[d] \in 1 .. Len(left) + 1
      BY <1>3, <1>8
    <3>4. QED
      BY <1>1, <1>3, <1>8, <2>3, <3>1, <3>2, <3>3 DEF QueueOf
  <2>4. QED
    BY <2>2, <2>3
<1>16. \A e \in Devices : \A u : (ShownOn(e, u)' <=> ShownOn(e, u)) /\ \A author : KeyFor(e, author)' <=> KeyFor(e, author)
  BY <1>1 DEF ShownOn, KeyFor
<1>17. ShownInv'
  <2>1. SUFFICES ASSUME NEW e \in Devices PROVE ShownOf(e)'
    BY <1>1 DEF Inv, ShownInv
  <2>2. ASSUME NEW u \in sent, Queued(e, u) PROVE ShownOn(e, u) \/ Queued(e, u)'
    <3>1. PICK i \in 1 .. Len(queue[e]) : queue[e][i].attrs.id = u.id
      BY <2>2 DEF Queued
    <3>2. CASE e # d
      <4>1. queue'[e] = queue[e]
        BY <1>3, <3>2
      <4>2. QED
        BY <3>1, <4>1 DEF Queued
    <3>3. CASE e = d
      <4>1. queue[d][i] \in ToSet(queue[d])
        BY <1>7, <3>1, <3>3, Items
      <4>2. CASE Settled(queue[d][i], answer)
        <5>1. u.id = t.id
          BY <1>4, <3>1, <3>3, <4>1, <4>2
        <5>2. ShownOn(d, t)
          BY <1>4 DEF IsAnswer
        <5>3. QED
          BY <3>3, <5>1, <5>2 DEF ShownOn
      <4>3. CASE ~Settled(queue[d][i], answer)
        <5>1. queue[d][i] \in ToSet(left)
          BY <1>8, <4>1, <4>3
        <5>2. \A y \in ToSet(left) : \E j \in 1 .. Len(left) : y = left[j]
          <6>1. left \in Seq(ToSet(left))
            BY <1>8
          <6>2. QED
            BY <6>1, Items
        <5>3. PICK j \in 1 .. Len(left) : queue[d][i] = left[j]
          BY <5>1, <5>2
        <5>4. QED
          BY <1>3, <3>1, <3>3, <5>3 DEF Queued
      <4>4. QED
        BY <4>2, <4>3
    <3>4. QED
      BY <3>2, <3>3
  <2>3. ShownOf(e) /\ shown'[e] = shown[e]
    BY <1>1 DEF Inv, ShownInv
  <2>4. QED
    BY <1>1, <1>16, <2>2, <2>3, ShownOfKept
<1>18. \A a : \A e \in Devices : \A u \in sent : IsAnswer(a, u, e) => IsAnswer(a, u, e)'
  BY <1>16 DEF IsAnswer
<1>19. AnswersInv'
  <2>1. SUFFICES ASSUME NEW e \in Devices PROVE AnswersOf(e)'
    BY <1>3 DEF AnswersInv
  <2>2. CASE e # d
    <3>1. queue'[e] = queue[e] /\ position'[e] = position[e] /\ answers'[e] = answers[e] /\ AnswersOf(e)
      BY <1>3, <2>2 DEF Inv, AnswersInv
    <3>2. QED
      BY <1>1, <1>16, <3>1, AnswersOfKept
  <2>3. CASE e = d
    <3> DEFINE tail == Tail(answers[d])
    <3>1. tail \in Seq(ToSet(tail)) /\ ToSet(tail) \subseteq ToSet(answers[d])
      BY <1>10, SeqLists, Items
    <3>2. \A a \in ToSet(tail) : \E u \in sent : IsAnswer(a, u, d)'
      BY <1>6, <1>18, <3>1 DEF AnswersOf
    <3>3. ASSUME NEW i \in 1 .. Len(left), i < position'[d]
          PROVE  \E k \in 1 .. Len(tail) : Settled(left[i], tail[k])
      <4>1. i \in 1 .. Len(first)
        BY <1>3, <1>8, <3>3
      <4>2. PICK j \in 1 .. position[d] - 1 : left[i] = queue[d][j] /\ ~Settled(queue[d][j], answer)
        BY <1>8, <4>1
      <4>3. j \in 1 .. Len(queue[d]) /\ j < position[d]
        BY <1>7
      <4>4. PICK k \in 1 .. Len(answers[d]) : Settled(queue[d][j], answers[d][k])
        BY <1>6, <4>3 DEF AnswersOf
      <4>5. k # 1
        BY <1>10, <4>2, <4>4
      <4>6. k - 1 \in 1 .. Len(answers[d]) - 1 /\ (k - 1) + 1 = k
        BY <1>9, <4>5
      <4>7. Tail(answers[d])[k - 1] = answers[d][k]
        BY <1>10, <4>6
      <4>8. QED
        BY <1>10, <4>2, <4>4, <4>6, <4>7
    <3> HIDE DEF tail
    <3>4. answers'[d] = tail /\ queue'[d] = left
      BY <1>3 DEF tail
    <3>5. QED
      BY <1>1, <2>3, <3>1, <3>2, <3>3, <3>4 DEF AnswersOf
  <2>4. QED
    BY <2>2, <2>3
<1>20. TicksInv'
  <2>1. ASSUME NEW tick \in ticks'
        PROVE  \E u \in sent, e \in Devices : tick = [id |-> u.id, by |-> e, author |-> u.author] /\ ShownOn(e, u)'
    <3>1. CASE tick \in ticks
      BY <1>16, <3>1 DEF Inv, TicksInv
    <3>2. CASE tick \notin ticks
      <4>1. tick = [id |-> t.id, by |-> d, author |-> t.author]
        BY <1>5, <3>2
      <4>2. ShownOn(d, t)'
        BY <1>4, <1>16 DEF IsAnswer
      <4>3. QED
        BY <4>1, <4>2
    <3>3. QED
      BY <3>1, <3>2
  <2>2. QED
    BY <1>1, <2>1 DEF TicksInv
<1>21. QED
  BY <1>1, <1>11, <1>13, <1>15, <1>17, <1>19, <1>20 DEF Inv

----------------------------------------------------------------------------
(* The stock is topped up.                                                 *)

\* The keys of a refill.
NewKeys(d, start) == generatePreKeys(d, start, Batch)

\* What a refill changes.
LEMMA RefillDoes ==
  ASSUME Inv, NEW d \in Devices, NEW lost \in BOOLEAN, Refill(d, lost)
  PROVE  /\ UNCHANGED <<served, targets, sent, sessions, used, opened, refused, shown, queue, position, answers, ticks>>
         /\ DOMAIN stock' = Devices /\ DOMAIN nextPreKeyId' = Devices /\ DOMAIN uploads' = Devices /\ DOMAIN posted' = Devices
         /\ \A e \in Devices \ {d} : /\ stock'[e] = stock[e] /\ nextPreKeyId'[e] = nextPreKeyId[e]
                                     /\ uploads'[e] = uploads[e] /\ posted'[e] = posted[e]
         /\ stock'[d] = storePreKeys(stock[d], NewKeys(d, nextPreKeyId[d]))
         /\ nextPreKeyId'[d] = nextPreKeyId[d] + Batch
         /\ uploads[d] < MaxUploads[d] /\ uploads'[d] = uploads[d] + 1
         /\ \/ posted'[d] = posted[d]
            \/ posted'[d] = posted[d] \o Uploaded(d, NewKeys(d, nextPreKeyId[d]))
<1>1. DOMAIN stock = Devices /\ DOMAIN nextPreKeyId = Devices /\ DOMAIN uploads = Devices /\ DOMAIN posted = Devices
  BY DEF Inv, StockInv, PostedInv
<1>2. UNCHANGED <<served, targets, sent, sessions, used, opened, refused, shown, queue, position, answers, ticks>>
  BY DEF Refill, sendVars, receiveVars, queueVars
<1>3. /\ stock' = [stock EXCEPT ![d] = storePreKeys(@, NewKeys(d, nextPreKeyId[d]))]
      /\ nextPreKeyId' = [nextPreKeyId EXCEPT ![d] = @ + Batch]
      /\ uploads[d] < MaxUploads[d] /\ uploads' = [uploads EXCEPT ![d] = @ + 1]
      /\ \/ posted' = posted
         \/ posted' = [posted EXCEPT ![d] = @ \o Uploaded(d, NewKeys(d, nextPreKeyId[d]))]
  BY DEF Refill, NewKeys
<1>4. QED
  BY <1>1, <1>2, <1>3

\* Room for one refill less.
LEMMA RoomLeft ==
  ASSUME NEW next \in Nat, NEW most \in Nat, NEW done \in Nat, done < most, NEW top \in Nat,
         next + (most - done) * Batch <= top
  PROVE  (next + Batch) + (most - (done + 1)) * Batch <= top
<1>1. Batch \in Nat
  BY BoundsAssumption
<1> DEFINE k == most - (done + 1)
<1>2. k \in Nat /\ most - done = k + 1
  OBVIOUS
<1> HIDE DEF k
<1>3. (k + 1) * Batch = k * Batch + Batch /\ k * Batch \in Nat
  BY <1>1, <1>2
<1> DEFINE rest == k * Batch
<1>4. next + (rest + Batch) <= top /\ rest \in Nat
  BY <1>2, <1>3
<1> HIDE DEF rest
<1>5. (next + Batch) + rest <= top
  BY <1>1, <1>4
<1>6. QED
  BY <1>5 DEF rest, k

\* New keys have new ids.
LEMMA RefillInv ==
  ASSUME Inv, NEW d \in Devices, NEW lost \in BOOLEAN, Refill(d, lost)
  PROVE  Inv'
<1> DEFINE start == nextPreKeyId[d]
           more == Uploaded(d, NewKeys(d, start))
<1>1. /\ UNCHANGED <<served, targets, sent, sessions, used, opened, refused, shown, queue, position, answers, ticks>>
      /\ DOMAIN stock' = Devices /\ DOMAIN nextPreKeyId' = Devices /\ DOMAIN uploads' = Devices /\ DOMAIN posted' = Devices
      /\ \A e \in Devices \ {d} : /\ stock'[e] = stock[e] /\ nextPreKeyId'[e] = nextPreKeyId[e]
                                  /\ uploads'[e] = uploads[e] /\ posted'[e] = posted[e]
      /\ stock'[d] = storePreKeys(stock[d], NewKeys(d, start))
      /\ nextPreKeyId'[d] = start + Batch
      /\ uploads[d] < MaxUploads[d] /\ uploads'[d] = uploads[d] + 1
      /\ posted'[d] = posted[d] \/ posted'[d] = posted[d] \o more
  BY RefillDoes
<1>2. /\ start \in Nat /\ FirstId <= start /\ uploads[d] \in Nat
      /\ start + (MaxUploads[d] - uploads[d]) * Batch <= Base * Base * Base
      /\ \A id \in DOMAIN stock[d] : id \in Nat /\ FirstId <= id /\ id < start /\ stock[d][id] = <<d, id>>
  BY DEF Inv, StockInv, StockOf
<1>3. Batch \in Nat /\ MaxUploads[d] \in Nat /\ FirstId \in Nat /\ Base * Base * Base \in Nat
  <2>1. \A m, n \in Nat : m * n \in Nat
    OBVIOUS
  <2>2. Batch \in Nat /\ MaxUploads[d] \in Nat /\ FirstId \in Nat /\ Base \in Nat
    BY BoundsAssumption
  <2>3. QED
    BY <2>1, <2>2
<1> HIDE DEF start, more
<1>4. /\ DOMAIN stock'[d] = DOMAIN stock[d] \union (start .. start + Batch - 1)
      /\ \A id \in DOMAIN stock'[d] : stock'[d][id] = <<d, id>>
  <2>1. Owned(stock[d], d)
    BY <1>2 DEF Owned
  <2>2. /\ DOMAIN storePreKeys(stock[d], NewKeys(d, start)) = DOMAIN stock[d] \union (start .. start + Batch - 1)
        /\ Owned(storePreKeys(stock[d], NewKeys(d, start)), d)
    BY <1>2, <1>3, <2>1, KeysStored DEF NewKeys
  <2>3. QED
    BY <1>1, <2>2 DEF Owned
<1>5. StockInv'
  <2>1. SUFFICES ASSUME NEW e \in Devices PROVE StockOf(e)'
    BY <1>1 DEF StockInv
  <2>2. CASE e # d
    <3>1. StockOf(e) /\ stock'[e] = stock[e] /\ nextPreKeyId'[e] = nextPreKeyId[e] /\ uploads'[e] = uploads[e]
      BY <1>1, <2>2 DEF Inv, StockInv
    <3>2. QED
      BY <3>1 DEF StockOf
  <2>3. CASE e = d
    <3> DEFINE top == Base * Base * Base
               M == MaxUploads[d]
               u == uploads[d]
    <3>1. (start + Batch) + (M - (u + 1)) * Batch <= top
      <4>1. M \in Nat /\ u \in Nat /\ u < M /\ top \in Nat /\ start + (M - u) * Batch <= top
        BY <1>1, <1>2, <1>3
      <4> HIDE DEF top, M, u
      <4>2. QED
        BY <1>2, <4>1, RoomLeft
    <3>2. nextPreKeyId'[d] + (MaxUploads[d] - uploads'[d]) * Batch <= Base * Base * Base
      BY <1>1, <3>1
    <3>3. /\ uploads'[d] \in Nat /\ uploads'[d] <= MaxUploads[d]
          /\ nextPreKeyId'[d] \in Nat /\ FirstId <= nextPreKeyId'[d]
      BY <1>1, <1>2, <1>3
    <3>4. \A id \in DOMAIN stock'[d] : id \in Nat /\ FirstId <= id /\ id < nextPreKeyId'[d] /\ stock'[d][id] = <<d, id>>
      BY <1>1, <1>2, <1>3, <1>4
    <3>5. QED
      BY <2>3, <3>2, <3>3, <3>4 DEF StockOf
  <2>4. QED
    BY <2>2, <2>3
<1>6. \A b \in served : /\ b.device \in Devices /\ b.id < nextPreKeyId[b.device] /\ b.id \in Nat
                        /\ b = [device |-> b.device, to |-> b.to, id |-> b.id, public |-> <<b.device, b.id>>]
                        /\ b.to \in Devices /\ hasSessionWith(b.to, b.device)
                        /\ <<b.device, b.id>> \in used \/ b.id \in DOMAIN stock[b.device]
  BY DEF Inv, ServedInv
<1>7. \A e \in Devices : \A id \in DOMAIN stock[e] : id \in DOMAIN stock'[e]
  BY <1>1, <1>4
<1>8. PostedInv'
  <2>1. SUFFICES ASSUME NEW e \in Devices PROVE PostedOf(e)'
    BY <1>1 DEF PostedInv
  <2>2. PostedOf(e)
    BY DEF Inv, PostedInv
  <2>3. CASE posted'[e] = posted[e]
    BY <1>1, <1>7, <2>2, <2>3 DEF PostedOf
  <2>4. CASE e = d /\ posted'[d] = posted[d] \o more
    <3> DEFINE old == posted[d]
               n == Len(old)
    <3>1. /\ Len(more) = Batch /\ more \in Seq(ToSet(more))
          /\ \A i \in 1 .. Batch : more[i] = PostedKey(d, start + i - 1)
      BY <1>2, <1>3, KeysUploaded DEF more, NewKeys
    <3>2. old \in Seq(ToSet(old)) /\ n \in Nat
      BY <2>2, <2>4, LenProperties DEF PostedOf
    <3>3. /\ posted'[d] \in Seq(ToSet(posted'[d])) /\ Len(posted'[d]) = n + Batch
          /\ \A i \in 1 .. n : posted'[d][i] = old[i]
          /\ \A i \in 1 .. Batch : posted'[d][n + i] = more[i]
      <4> DEFINE S == ToSet(old) \union ToSet(more)
      <4>1. old \in Seq(S) /\ more \in Seq(S)
        BY <3>1, <3>2, SeqMonotonic
      <4> HIDE DEF S, old
      <4>2. /\ old \o more \in Seq(S) /\ Len(old \o more) = n + Batch
            /\ \A i \in 1 .. n : (old \o more)[i] = old[i]
            /\ \A i \in 1 .. Batch : (old \o more)[n + i] = more[i]
        <5>1. /\ old \o more \in Seq(S) /\ Len(old \o more) = Len(old) + Len(more)
              /\ \A i \in 1 .. Len(old) + Len(more) : (old \o more)[i] = IF i <= Len(old) THEN old[i] ELSE more[i - Len(old)]
          BY <4>1, ConcatProperties
        <5>2. /\ \A i \in 1 .. n : i \in 1 .. n + Batch /\ i <= n
              /\ \A i \in 1 .. Batch : n + i \in 1 .. n + Batch /\ ~(n + i <= n) /\ (n + i) - n = i
          <6> HIDE DEF n
          <6>1. QED
            BY <1>3, <3>2
        <5>3. QED
          BY <3>1, <5>1, <5>2
      <4>3. old \o more \in Seq(ToSet(old \o more))
        BY <4>2, Items
      <4>4. posted'[d] = old \o more
        BY <2>4 DEF old
      <4>5. QED
        BY <4>2, <4>3, <4>4
    <3> HIDE DEF n
    <3>4. /\ \A i \in 1 .. n : \E id \in DOMAIN stock[d] : old[i] = PostedKey(d, id) /\ \A b \in served : b.device = d => b.id # id
          /\ \A i, j \in 1 .. n : old[i] = old[j] => i = j
      BY <2>2, <2>4 DEF PostedOf, n
    <3> HIDE DEF old
    <3>5. \A i \in 1 .. n + Batch : i \in 1 .. n \/ \E k \in 1 .. Batch : i = n + k
      <4>1. SUFFICES ASSUME NEW i \in 1 .. n + Batch, i \notin 1 .. n PROVE \E k \in 1 .. Batch : i = n + k
        OBVIOUS
      <4>2. i - n \in 1 .. Batch /\ i = n + (i - n)
        BY <1>3, <3>2, <4>1
      <4>3. QED
        BY <4>2
    <3>6. ASSUME NEW k \in 1 .. Batch
          PROVE  /\ posted'[d][n + k] = PostedKey(d, start + k - 1)
                 /\ start + k - 1 \in DOMAIN stock'[d] /\ start + k - 1 \notin DOMAIN stock[d]
                 /\ \A b \in served : b.device = d => b.id # start + k - 1
      <4>1. posted'[d][n + k] = PostedKey(d, start + k - 1)
        BY <3>1, <3>3
      <4>2. start + k - 1 \in start .. start + Batch - 1 /\ ~(start + k - 1 < start)
        BY <1>2, <1>3
      <4>3. \A b \in served : b.device = d => b.id < start
        BY <1>6 DEF start
      <4>4. QED
        BY <1>2, <1>4, <4>1, <4>2, <4>3
    <3>7. ASSUME NEW i \in 1 .. n + Batch
          PROVE  \E id \in DOMAIN stock'[d] : posted'[d][i] = PostedKey(d, id) /\ \A b \in served' : b.device = d => b.id # id
      <4>1. CASE i \in 1 .. n
        BY <1>1, <1>7, <3>3, <3>4, <4>1
      <4>2. CASE \E k \in 1 .. Batch : i = n + k
        BY <1>1, <3>6, <4>2
      <4>3. QED
        BY <3>5, <4>1, <4>2
    <3>8. ASSUME NEW i \in 1 .. n + Batch, NEW j \in 1 .. n + Batch, posted'[d][i] = posted'[d][j] PROVE i = j
      <4>1. CASE i \in 1 .. n /\ j \in 1 .. n
        BY <3>3, <3>4, <3>8, <4>1
      <4>2. ASSUME NEW p \in 1 .. n, NEW k \in 1 .. Batch, posted'[d][p] = posted'[d][n + k] PROVE FALSE
        <5>1. PICK id \in DOMAIN stock[d] : old[p] = PostedKey(d, id)
          BY <3>4
        <5>2. id = start + k - 1
          BY <3>3, <3>6, <4>2, <5>1, PostedKeysDiffer
        <5>3. QED
          BY <3>6, <5>2
      <4>3. ASSUME NEW k \in 1 .. Batch, NEW l \in 1 .. Batch, posted'[d][n + k] = posted'[d][n + l] PROVE k = l
        <5>1. start + k - 1 = start + l - 1
          BY <3>6, <4>3, PostedKeysDiffer
        <5>2. QED
          BY <1>2, <5>1
      <4>4. QED
        BY <3>5, <3>8, <4>1, <4>2, <4>3
    <3>9. Len(posted'[d]) = n + Batch
      BY <3>3
    <3>10. /\ \A i \in 1 .. Len(posted'[d]) : \E id \in DOMAIN stock'[d] :
                posted'[d][i] = PostedKey(d, id) /\ \A b \in served' : b.device = d => b.id # id
           /\ \A i, j \in 1 .. Len(posted'[d]) : posted'[d][i] = posted'[d][j] => i = j
      BY <3>7, <3>8, <3>9
    <3>11. QED
      BY <2>4, <3>3, <3>10 DEF PostedOf
  <2>5. QED
    BY <1>1, <2>3, <2>4
<1>9. \A e \in Devices : nextPreKeyId[e] \in Nat /\ nextPreKeyId'[e] \in Nat /\ nextPreKeyId[e] <= nextPreKeyId'[e]
  <2>1. \A e \in Devices : nextPreKeyId[e] \in Nat
    BY DEF Inv, StockInv, StockOf
  <2>2. ASSUME NEW e \in Devices PROVE nextPreKeyId'[e] \in Nat /\ nextPreKeyId[e] <= nextPreKeyId'[e]
    <3>1. nextPreKeyId'[e] = nextPreKeyId[e] \/ nextPreKeyId'[e] = nextPreKeyId[e] + Batch
      BY <1>1 DEF start
    <3> DEFINE m == nextPreKeyId[e]
               n == nextPreKeyId'[e]
    <3>2. m \in Nat /\ (n = m \/ n = m + Batch)
      BY <2>1, <3>1
    <3> HIDE DEF m, n
    <3>3. n \in Nat /\ m <= n
      BY <1>3, <3>2
    <3>4. QED
      BY <3>3 DEF m, n
  <2>3. QED
    BY <2>1, <2>2
<1>10. \A e, f \in Devices : hasSessionWith(e, f)' <=> hasSessionWith(e, f)
  BY <1>1 DEF hasSessionWith
<1>11. ServedInv'
  <2>1. ASSUME NEW b \in served PROVE b.id < nextPreKeyId'[b.device]
    <3> DEFINE m == nextPreKeyId[b.device]
               n == nextPreKeyId'[b.device]
               id == b.id
    <3>1. id \in Nat /\ m \in Nat /\ n \in Nat /\ id < m /\ m <= n
      BY <1>6, <1>9
    <3> HIDE DEF m, n, id
    <3>2. id < n
      BY <3>1
    <3>3. QED
      BY <3>2 DEF n, id
  <2>2. \A b \in served : (<<b.device, b.id>> \in used \/ b.id \in DOMAIN stock'[b.device]) /\ hasSessionWith(b.to, b.device)'
    BY <1>6, <1>7, <1>10
  <2>3. QED
    BY <1>1, <1>6, <2>1, <2>2 DEF Inv, ServedInv
<1>12. UsedInv'
  <2>1. ASSUME NEW b \in served, b.id \notin DOMAIN stock[b.device] PROVE b.id \notin DOMAIN stock'[b.device]
    <3>1. b.device \in Devices /\ b.id < nextPreKeyId[b.device]
      BY <1>6
    <3>2. CASE b.device # d
      BY <1>1, <2>1, <3>1, <3>2
    <3>3. CASE b.device = d
      <4>1. b.id < start /\ b.id \in Nat
        BY <1>6, <3>3 DEF start
      <4>2. b.id \notin start .. start + Batch - 1
        BY <1>2, <4>1
      <4>3. QED
        BY <1>4, <2>1, <3>3, <4>2
    <3>4. QED
      BY <3>2, <3>3
  <2>2. QED
    BY <1>1, <2>1 DEF Inv, UsedInv
<1>13. SessionsInv' /\ TargetsInv'
  BY <1>1, SessionsKept, TargetsKept DEF Inv
<1>14. SentInv'
  BY <1>1, <1>10, SentKept DEF Inv
<1>15. TicksInv'
  BY <1>1, TicksKept DEF Inv, ShownOn
<1>16. QueueInv'
  BY <1>1, QueueKept DEF Inv, SentInv
<1>17. ShownInv' /\ AnswersInv' /\ refused' = {}
  BY <1>1, ShownKept, AnswersKept DEF Inv
<1>18. QED
  BY <1>5, <1>8, <1>11, <1>12, <1>13, <1>14, <1>15, <1>16, <1>17 DEF Inv

----------------------------------------------------------------------------
(* The theorems.                                                           *)

\* Every step leaves the invariant true.
LEMMA NextInv ==
  ASSUME OneServer, Inv, [Next]_vars
  PROVE  Inv'
<1>1. ASSUME NEW t \in Texts, AskDevices(t) PROVE Inv'
  BY <1>1, AskDevicesInv
<1>2. ASSUME NEW t \in Texts, FetchBundles(t) PROVE Inv'
  BY <1>2, FetchBundlesInv
<1>3. ASSUME NEW t \in Texts, SendText(t) PROVE Inv'
  BY <1>3, SendTextInv
<1>4. ASSUME NEW d \in Devices, Handle(d) PROVE Inv'
  BY <1>4, HandleInv
<1>5. ASSUME NEW d \in Devices, AnswerArrives(d) PROVE Inv'
  BY <1>5, AnswerArrivesInv
<1>6. ASSUME NEW d \in Devices, Disconnect(d) PROVE Inv'
  BY <1>6, DisconnectInv
<1>7. ASSUME NEW d \in Devices, NEW lost \in BOOLEAN, Refill(d, lost) PROVE Inv'
  BY <1>7, RefillInv
<1>8. ASSUME UNCHANGED vars PROVE Inv'
  <2>1. /\ UNCHANGED <<stock, nextPreKeyId, uploads, posted, served, used, targets, sent, sessions, opened, refused, shown>>
        /\ UNCHANGED <<queue, position, answers, ticks>>
    BY <1>8 DEF vars, stockVars, serverVars, sendVars, receiveVars, queueVars
  <2>2. StockInv' /\ PostedInv' /\ ServedInv' /\ UsedInv' /\ SessionsInv' /\ TargetsInv'
    BY <2>1, StockKept, PostedKept, ServedKept, UsedKept, SessionsKept, TargetsKept DEF Inv
  <2>3. SentInv' /\ TicksInv'
    BY <2>1, SentKept, TicksKept DEF Inv, hasSessionWith, ShownOn
  <2>4. QueueInv'
    BY <2>1, QueueKept DEF Inv, SentInv
  <2>5. ShownInv' /\ AnswersInv' /\ refused' = {}
    BY <2>1, ShownKept, AnswersKept DEF Inv
  <2>6. QED
    BY <2>2, <2>3, <2>4, <2>5 DEF Inv
<1>9. QED
  BY <1>1, <1>2, <1>3, <1>4, <1>5, <1>6, <1>7, <1>8 DEF Next

\* Where all devices are of one domain, the invariant is true of every state: for any
\* devices, accounts and texts, any stock of keys and any connections lost.
THEOREM Invariance ==
  ASSUME OneServer
  PROVE  Spec => []Inv
<1>1. Init => Inv
  BY InitInv
<1>2. Inv /\ [Next]_vars => Inv'
  BY NextInv
<1>3. QED
  BY <1>1, <1>2, PTL DEF Spec

\* A text is known by its id.
LEMMA TextFound ==
  ASSUME NEW t \in Texts
  PROVE  TextOf(t.id) = t
<1>1. TextOf(t.id) \in Texts /\ TextOf(t.id).id = t.id
  BY DEF TextOf
<1>2. QED
  BY <1>1, OneText

\* How often a text is shown.
LEMMA ShownCounted ==
  ASSUME ShownInv, NEW d \in Devices, NEW t
  PROVE  /\ TimesShown(d, t) > 0 <=> ShownOn(d, t)
         /\ TimesShown(d, t) > 1 =>
              \E i, j \in 1 .. Len(shown[d]) : i # j /\ shown[d][i].id = t.id /\ shown[d][j].id = t.id
<1> DEFINE S == {i \in DOMAIN shown[d] : shown[d][i].id = t.id}
           n == Len(shown[d])
<1>1. n \in Nat /\ DOMAIN shown[d] = 1 .. n
  BY LenProperties DEF ShownInv, ShownOf
<1>2. S \subseteq 1 .. n /\ \A i : i \in S <=> i \in 1 .. n /\ shown[d][i].id = t.id
  BY <1>1
<1>3. TimesShown(d, t) = Cardinality(S)
  BY DEF TimesShown
<1>4. ShownOn(d, t) <=> \E i \in 1 .. n : shown[d][i].id = t.id
  BY DEF ShownOn
<1> HIDE DEF S, n
<1>5. IsFiniteSet(S)
  <2>1. IsFiniteSet(1 .. n)
    BY <1>1, FS_Interval
  <2>2. QED
    BY <1>2, <2>1, FS_Subset
<1>6. Cardinality(S) \in Nat /\ (Cardinality(S) = 0 <=> S = {})
  BY <1>5, FS_CardinalityType, FS_EmptySet
<1>7. Cardinality(S) > 0 <=> S # {}
  BY <1>6
<1>8. ASSUME Cardinality(S) > 1 PROVE \E i, j \in S : i # j
  <2>1. PICK i : i \in S
    BY <1>6, <1>8
  <2>2. S # {i}
    BY <1>8, FS_Singleton
  <2>3. QED
    BY <2>1, <2>2
<1>9. TimesShown(d, t) > 0 <=> ShownOn(d, t)
  BY <1>2, <1>3, <1>4, <1>7
<1>10. TimesShown(d, t) > 1 => \E i, j \in 1 .. n : i # j /\ shown[d][i].id = t.id /\ shown[d][j].id = t.id
  BY <1>2, <1>3, <1>8
<1>11. QED
  BY <1>9, <1>10 DEF n

\* parsePreKeyBundles, generatePreKeys and storePreKeys: a bundle gives a key its
\* device holds until a message has used it, and no two bundles give the same.
THEOREM BundlesHeld ==
  ASSUME OneServer
  PROVE  Spec => []BundlesAreHeld
<1>1. Inv => BundlesAreHeld
  <2>1. SUFFICES ASSUME Inv, NEW b \in served
                 PROVE  /\ \/ <<b.device, b.id>> \in used
                           \/ b.id \in DOMAIN stock[b.device] /\ stock[b.device][b.id] = b.public
                        /\ \A c \in served \ {b} : <<c.device, c.id>> # <<b.device, b.id>>
    BY DEF BundlesAreHeld
  <2>2. /\ b.device \in Devices /\ b.public = <<b.device, b.id>>
        /\ <<b.device, b.id>> \in used \/ b.id \in DOMAIN stock[b.device]
    BY <2>1 DEF Inv, ServedInv
  <2>3. b.id \in DOMAIN stock[b.device] => stock[b.device][b.id] = <<b.device, b.id>>
    BY <2>1, <2>2 DEF Inv, StockInv, StockOf
  <2>4. \A c \in served : c.device = b.device /\ c.id = b.id => c = b
    BY <2>1 DEF Inv, ServedInv
  <2>5. QED
    BY <2>2, <2>3, <2>4
<1>2. QED
  BY <1>1, Invariance, PTL

\* Whatever is lost and delivered again, a device opens every message that is brought
\* to it for the first time.
THEOREM CopiesOpen ==
  ASSUME OneServer
  PROVE  Spec => []EveryCopyOpens
<1>1. Inv => EveryCopyOpens
  BY DEF Inv, EveryCopyOpens
<1>2. QED
  BY <1>1, Invariance, PTL

\* What WAProto reads from the texts, bare or wrapped for the author's own devices:
\* the text, and a content that is unwrapped.
TextsRead ==
  \A t \in Texts : \A message \in {t.message, DeviceSent(t.message)} :
    /\ textOf(message) = {t.text} /\ textOf(contentOf(message)) = {t.text}
    /\ contentOf(contentOf(message)) = contentOf(message)

\* senderJid, unpadMessage and the attributes of a copy: where a text is read from what
\* it was put in, what a device shows is a text that was sent to it, whole and under its
\* author's own address.
THEOREM TextsUnharmed ==
  ASSUME OneServer, TextsRead
  PROVE  Spec => []TextsComeBack
<1>1. Inv => TextsComeBack
  <2>1. SUFFICES ASSUME Inv, NEW d \in Devices, NEW i \in DOMAIN shown[d], NEW entry, entry = shown[d][i]
                 PROVE  /\ d \in Audience(TextOf(entry.id)) /\ entry.author = TextOf(entry.id).author
                        /\ entry.text = {TextOf(entry.id).text} /\ textOf(entry.content) = {TextOf(entry.id).text}
                        /\ contentOf(entry.content) = entry.content
    BY DEF TextsComeBack
  <2>2. ShownOf(d) /\ entry \in ToSet(shown[d])
    BY <2>1 DEF Inv, ShownInv, ToSet
  <2>3. PICK t \in sent : d \in Audience(t) /\ entry = Entry(t, d)
    BY <2>2 DEF ShownOf
  <2>4. t \in Texts
    BY <2>1 DEF Inv, SentInv
  <2> DEFINE message == ForDevice(t, d)
  <2>5. message \in {t.message, DeviceSent(t.message)}
    BY DEF ForDevice
  <2>6. entry.id = t.id /\ entry.author = t.author /\ entry.text = textOf(message) /\ entry.content = contentOf(message)
    BY <2>3 DEF Entry
  <2> HIDE DEF message
  <2>7. textOf(message) = {t.text} /\ textOf(contentOf(message)) = {t.text} /\ contentOf(contentOf(message)) = contentOf(message)
    BY <2>4, <2>5 DEF TextsRead
  <2>8. TextOf(entry.id) = t
    BY <2>4, <2>6, TextFound
  <2>9. QED
    BY <2>3, <2>6, <2>7, <2>8
<1>2. QED
  BY <1>1, Invariance, PTL

\* withoutUsed: a message that is delivered again is shown again only if it named no
\* one-time key.
THEOREM ShownOnceWithKey ==
  ASSUME OneServer
  PROVE  Spec => []ShownAgainOnlyWithoutKey
<1>1. Inv => ShownAgainOnlyWithoutKey
  <2>1. SUFFICES ASSUME Inv, NEW d \in Devices, NEW t \in Texts, TimesShown(d, t) > 1, KeyFor(d, t.author)
                 PROVE  FALSE
    BY DEF ShownAgainOnlyWithoutKey, KeyFor
  <2>2. PICK i \in 1 .. Len(shown[d]) : \E j \in 1 .. Len(shown[d]) : i # j /\ shown[d][i].id = t.id /\ shown[d][j].id = t.id
    BY <2>1, ShownCounted DEF Inv
  <2>3. PICK j \in 1 .. Len(shown[d]) : i # j /\ shown[d][i].id = t.id /\ shown[d][j].id = t.id
    BY <2>2
  <2>4. ShownOf(d) /\ t.author \in Devices
    BY <2>1, TextsAssumption DEF Inv, ShownInv
  <2>5. shown[d][i] \in ToSet(shown[d])
    BY <2>4, Items DEF ShownOf
  <2>6. PICK u \in sent : shown[d][i] = Entry(u, d)
    BY <2>4, <2>5 DEF ShownOf
  <2>7. u \in Texts /\ u.id = t.id /\ shown[d][i].author = u.author
    BY <2>1, <2>3, <2>6 DEF Inv, SentInv, Entry
  <2>8. u = t
    BY <2>7, OneText
  <2>9. QED
    BY <2>1, <2>3, <2>4, <2>7, <2>8 DEF ShownOf
<1>2. QED
  BY <1>1, Invariance, PTL

\* buildDeliveryReceipt and answerAttrs: a tick names a device that has shown the text,
\* and comes to the text's author.
THEOREM TicksTrue ==
  ASSUME OneServer
  PROVE  Spec => []TicksAreTrue
<1>1. Inv => TicksAreTrue
  <2>1. SUFFICES ASSUME Inv, NEW tick \in ticks
                 PROVE  tick.author = TextOf(tick.id).author /\ TimesShown(tick.by, TextOf(tick.id)) > 0
    BY DEF TicksAreTrue
  <2>2. PICK t \in sent : \E d \in Devices : tick = [id |-> t.id, by |-> d, author |-> t.author] /\ ShownOn(d, t)
    BY <2>1 DEF Inv, TicksInv
  <2>3. PICK d \in Devices : tick = [id |-> t.id, by |-> d, author |-> t.author] /\ ShownOn(d, t)
    BY <2>2
  <2>4. TextOf(t.id) = t
    BY <2>1, TextFound DEF Inv, SentInv
  <2>5. TimesShown(d, t) > 0
    BY <2>1, <2>3, ShownCounted DEF Inv
  <2>6. QED
    BY <2>3, <2>4, <2>5
<1>2. QED
  BY <1>1, Invariance, PTL

\* buildDeviceQuery and parseDeviceQuery: a text goes to every device of its chat but the
\* one that sends, and to no other.
THEOREM TargetsRight ==
  ASSUME OneServer
  PROVE  Spec => []TargetsAreTheAudience
<1>1. Inv => TargetsAreTheAudience
  <2>1. SUFFICES ASSUME Inv, NEW t \in Texts, targets[t] # None
                 PROVE  {OverTheWire(jid) : jid \in ToSet(targets[t])} = Audience(t)
    BY DEF TargetsAreTheAudience
  <2>2. ToSet(targets[t]) = {Wire(d) : d \in Audience(t)}
    BY <2>1 DEF Inv, TargetsInv, List
  <2>3. Audience(t) \subseteq Devices
    BY DEF Audience
  <2>4. \A d \in Audience(t) : OverTheWire(Wire(d)) = d
    BY <2>3, Addresses
  <2>5. QED
    BY <2>2, <2>4
<1>2. QED
  BY <1>1, Invariance, PTL

\* buildMessageAck and what is kept for a device: once all that is on its way has come,
\* every text that was sent is shown on every device of its chat, and nothing is left
\* to be delivered again.
THEOREM NothingLeft ==
  ASSUME OneServer
  PROVE  Spec => []NothingIsLeft
<1>1. Inv => NothingIsLeft
  <2>1. SUFFICES ASSUME Inv, \A d \in Devices : position[d] > Len(queue[d]) /\ answers[d] = << >>
                 PROVE  /\ \A d \in Devices : queue[d] = << >>
                        /\ \A t \in sent : \A d \in Audience(t) : TimesShown(d, t) > 0
    BY DEF NothingIsLeft
  <2>2. ASSUME NEW d \in Devices PROVE queue[d] = << >> /\ Len(queue[d]) = 0
    <3>1. queue[d] \in Seq(ToSet(queue[d])) /\ position[d] > Len(queue[d])
      BY <2>1 DEF Inv, QueueInv, QueueOf
    <3>2. Len(queue[d]) \in Nat /\ position[d] \in 1 .. Len(queue[d]) + 1
      BY <2>1, <3>1, LenProperties DEF Inv, QueueInv, QueueOf
    <3>3. ASSUME 1 \in 1 .. Len(queue[d]) PROVE FALSE
      <4>1. 1 < position[d]
        BY <3>1, <3>2, <3>3
      <4>2. \E j \in 1 .. Len(answers[d]) : Settled(queue[d][1], answers[d][j])
        BY <2>1, <3>3, <4>1 DEF Inv, AnswersInv, AnswersOf
      <4>3. QED
        BY <2>1, <4>2, NoItems
    <3>4. Len(queue[d]) = 0
      BY <3>2, <3>3
    <3>5. QED
      BY <3>1, <3>4, EmptySeq
  <2>3. ASSUME NEW t \in sent, NEW d \in Audience(t) PROVE TimesShown(d, t) > 0
    <3>1. d \in Devices
      BY DEF Audience
    <3>2. ShownOn(d, t) \/ Queued(d, t)
      BY <2>1, <3>1 DEF Inv, ShownInv, ShownOf
    <3>3. ~Queued(d, t)
      BY <2>2, <3>1 DEF Queued
    <3>4. QED
      BY <2>1, <3>1, <3>2, <3>3, ShownCounted DEF Inv
  <2>4. QED
    BY <2>2, <2>3
<1>2. QED
  BY <1>1, Invariance, PTL

\* The connections lost are counted.
LEMMA DropsCounted == Spec => [](drops \in 0 .. MaxDrops)
<1>1. Init => drops \in 0 .. MaxDrops
  BY BoundsAssumption DEF Init
<1>2. ASSUME drops \in 0 .. MaxDrops, [Next]_vars PROVE (drops \in 0 .. MaxDrops)'
  <2>1. drops' = drops \/ (drops < MaxDrops /\ drops' = drops + 1)
    BY <1>2 DEF Next, vars, AskDevices, FetchBundles, SendText, Handle, AnswerArrives, Disconnect, Refill
  <2>2. QED
    BY <1>2, <2>1, BoundsAssumption
<1>3. QED
  BY <1>1, <1>2, PTL DEF Spec

\* The types of the model.
THEOREM TypeCorrect ==
  ASSUME OneServer
  PROVE  Spec => []TypeOK
<1>1. Inv /\ drops \in 0 .. MaxDrops => TypeOK
  <2>1. SUFFICES ASSUME Inv, drops \in 0 .. MaxDrops PROVE TypeOK
    OBVIOUS
  <2>2. \A d \in Devices : position[d] \in 1 .. Len(queue[d]) + 1
    BY <2>1 DEF Inv, QueueInv, QueueOf
  <2>3. \A d \in Devices : \A address \in DOMAIN sessions[d] : sessions[d][address].peer \in Devices
    BY <2>1 DEF Inv, SessionsInv, SessionOf
  <2>4. \A d \in Devices : DOMAIN stock[d] \subseteq FirstId .. nextPreKeyId[d] - 1
    BY <2>1, BoundsAssumption DEF Inv, StockInv, StockOf
  <2>5. opened \subseteq Devices \X {t.id : t \in Texts}
    BY <2>1 DEF Inv, SentInv, Audience
  <2>6. used \subseteq Devices \X Nat
    <3>1. SUFFICES ASSUME NEW u \in used PROVE u \in Devices \X Nat
      OBVIOUS
    <3>2. PICK b \in served : u = <<b.device, b.id>>
      BY <2>1 DEF Inv, UsedInv
    <3>3. b.device \in Devices /\ b.id \in Nat
      BY <2>1 DEF Inv, ServedInv
    <3>4. QED
      BY <3>2, <3>3
  <2>7. QED
    BY <2>1, <2>2, <2>3, <2>4, <2>5, <2>6 DEF TypeOK, Inv, SentInv
<1>2. QED
  BY <1>1, Invariance, DropsCounted, PTL
=============================================================================
