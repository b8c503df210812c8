------------------------- MODULE FrameStreamProofs -------------------------
(***************************************************************************)
(* What the frame decoder promises, for every size of a byte, every        *)
(* payload and every way to cut the stream: frames come out as they went   *)
(* in, in order, and as soon as they are complete.                         *)
(***************************************************************************)
EXTENDS FrameStream, SequenceTheorems, WellFoundedInduction, TLAPS

ByteSeq == Seq(0 .. Base - 1)
Payloads == {payload \in ByteSeq : Len(payload) <= MAX_FRAME_SIZE}

\* Concatenation is associative, for the two kinds of sequences at hand.
LEMMA Associative ==
  /\ \A s, t, u \in ByteSeq : (s \o t) \o u = s \o (t \o u)
  /\ \A s, t, u \in Seq(Payloads) : (s \o t) \o u = s \o (t \o u)
<1>1. \A s, t, u \in ByteSeq : (s \o t) \o u = s \o (t \o u)
  BY ConcatAssociative DEF ByteSeq
<1>2. \A s, t, u \in Seq(Payloads) : (s \o t) \o u = s \o (t \o u)
  BY ConcatAssociative
<1>3. QED
  BY <1>1, <1>2

----------------------------------------------------------------------------
(* One frame.                                                              *)

\* The two ways to divide by the two higher places agree, and three bytes hold
\* every size up to the maximum.
LEMMA Places ==
  ASSUME NEW size \in Nat, size <= MAX_FRAME_SIZE
  PROVE  /\ size \div (Base * Base) = (size \div Base) \div Base
         /\ (size \div Base) \div Base \in 0 .. Base - 1
         /\ (size \div Base) % Base \in 0 .. Base - 1 /\ size % Base \in 0 .. Base - 1
         /\ size \div Base = Base * ((size \div Base) \div Base) + ((size \div Base) % Base)
         /\ size = Base * (size \div Base) + (size % Base)
<1>1. Base \in Nat \ {0, 1} /\ size < Base * Base * Base
  BY FrameAssumption DEF MAX_FRAME_SIZE
<1>2. size \div Base \in Nat
  BY <1>1
<1>3. size \div (Base * Base) = (size \div Base) \div Base
  BY <1>1
<1>4. (size \div Base) \div Base \in Nat /\ (size \div Base) \div Base < Base
  BY <1>1
<1>5. /\ (size \div Base) % Base \in 0 .. Base - 1 /\ size % Base \in 0 .. Base - 1
      /\ size = Base * (size \div Base) + (size % Base)
  BY <1>1, <1>2
<1>6. size \div Base = Base * ((size \div Base) \div Base) + ((size \div Base) % Base)
  BY <1>1, <1>2
<1>7. QED
  BY <1>1, <1>3, <1>4, <1>5, <1>6

\* A prefix is three bytes, from which the size is read back.
LEMMA PrefixRead ==
  ASSUME NEW size \in Nat, size <= MAX_FRAME_SIZE
  PROVE  /\ LengthPrefix(size) \in ByteSeq /\ Len(LengthPrefix(size)) = 3
         /\ SizeAt(LengthPrefix(size)) = size
<1> DEFINE high == size \div (Base * Base)
           middle == (size \div Base) % Base
           low == size % Base
<1>1. high \in 0 .. Base - 1 /\ middle \in 0 .. Base - 1 /\ low \in 0 .. Base - 1
  BY Places
<1>2. (high * Base + middle) * Base + low = size
  <2> DEFINE upper == size \div Base
  <2>1. Base \in Nat /\ upper \in Nat
    BY FrameAssumption
  <2>2. upper = Base * high + middle /\ size = Base * upper + low
    BY Places
  <2> HIDE DEF high, middle, low, upper
  <2>3. QED
    BY <1>1, <2>1, <2>2
<1>3. LengthPrefix(size) = <<high, middle, low>>
  BY DEF LengthPrefix
<1> HIDE DEF high, middle, low
<1>4. QED
  BY <1>1, <1>2, <1>3 DEF SizeAt, ByteSeq

Encoded(payload) == LengthPrefix(Len(payload)) \o payload

\* An encoded payload has its size at its front, and the payload behind it.
LEMMA EncodedElements ==
  ASSUME NEW payload \in Payloads
  PROVE  /\ Encoded(payload) \in ByteSeq /\ Len(payload) \in Nat /\ Len(Encoded(payload)) = Len(payload) + 3
         /\ SizeAt(Encoded(payload)) = Len(payload)
         /\ \A i \in 1 .. Len(payload) : Encoded(payload)[i + 3] = payload[i]
<1> DEFINE prefix == LengthPrefix(Len(payload))
<1>1. payload \in ByteSeq /\ Len(payload) \in Nat
  BY LenProperties DEF Payloads, ByteSeq
<1>2. prefix \in ByteSeq /\ Len(prefix) = 3 /\ SizeAt(prefix) = Len(payload)
  BY <1>1, PrefixRead DEF Payloads
<1> HIDE DEF prefix
<1>3. /\ prefix \o payload \in ByteSeq /\ Len(prefix \o payload) = 3 + Len(payload)
      /\ \A i \in 1 .. 3 + Len(payload) : (prefix \o payload)[i] = IF i <= 3 THEN prefix[i] ELSE payload[i - 3]
  <2>1. /\ prefix \o payload \in ByteSeq /\ Len(prefix \o payload) = Len(prefix) + Len(payload)
        /\ \A i \in 1 .. Len(prefix) + Len(payload) :
             (prefix \o payload)[i] = IF i <= Len(prefix) THEN prefix[i] ELSE payload[i - Len(prefix)]
    BY <1>1, <1>2, ConcatProperties DEF ByteSeq
  <2>2. QED
    BY <1>2, <2>1
<1>4. SizeAt(prefix \o payload) = SizeAt(prefix)
  BY <1>1, <1>3 DEF SizeAt
<1>5. \A i \in 1 .. Len(payload) : (prefix \o payload)[i + 3] = payload[i]
  BY <1>1, <1>3
<1>6. Encoded(payload) = prefix \o payload
  BY DEF Encoded, prefix
<1>7. QED
  BY <1>1, <1>2, <1>3, <1>4, <1>5, <1>6

\* Bytes that begin with a frame, of which a first part has arrived: the decoder
\* finds the frame in that part when it is there, and leaves what follows.
LEMMA FrontFrame ==
  ASSUME NEW x \in ByteSeq, NEW y \in ByteSeq, NEW payload \in Payloads, NEW rest \in ByteSeq,
         x \o y = Encoded(payload) \o rest, HasFrame(x)
  PROVE  FirstFrame(x) = payload /\ AfterFrame(x) \in ByteSeq /\ AfterFrame(x) \o y = rest
         /\ Len(AfterFrame(x)) < Len(x)
<1> DEFINE S == 0 .. Base - 1
           frame == Encoded(payload)
           n == Len(payload)
<1>1. /\ frame \in Seq(S) /\ n \in Nat /\ Len(frame) = n + 3 /\ SizeAt(frame) = n
      /\ \A i \in 1 .. n : frame[i + 3] = payload[i]
  BY EncodedElements DEF ByteSeq
<1>2. /\ x \in Seq(S) /\ y \in Seq(S) /\ rest \in Seq(S) /\ payload \in Seq(S)
      /\ Len(x) \in Nat /\ Len(y) \in Nat /\ Len(rest) \in Nat /\ Len(x) >= 3
      /\ \A i \in 1 .. Len(x) : x[i] \in S
  BY LenProperties, ElementOfSeq DEF ByteSeq, Payloads, HasFrame, LENGTH_PREFIX_SIZE
<1> HIDE DEF S, frame, n
<1>3. /\ Len(x \o y) = Len(x) + Len(y)
      /\ \A i \in 1 .. Len(x) + Len(y) : (x \o y)[i] = IF i <= Len(x) THEN x[i] ELSE y[i - Len(x)]
  BY <1>2, ConcatProperties
<1>4. /\ Len(x \o y) = n + 3 + Len(rest)
      /\ \A i \in 1 .. n + 3 + Len(rest) : (x \o y)[i] = IF i <= n + 3 THEN frame[i] ELSE rest[i - (n + 3)]
  <2>1. /\ Len(frame \o rest) = Len(frame) + Len(rest)
        /\ \A i \in 1 .. Len(frame) + Len(rest) : (frame \o rest)[i] = IF i <= Len(frame) THEN frame[i] ELSE rest[i - Len(frame)]
    BY <1>1, <1>2, ConcatProperties
  <2>2. QED
    BY <1>1, <2>1 DEF frame
<1>5. SizeAt(x) = n
  <2>1. x[1] = frame[1] /\ x[2] = frame[2] /\ x[3] = frame[3]
    <3>1. \A i \in 1 .. 3 : i \in 1 .. Len(x) + Len(y) /\ i \in 1 .. n + 3 + Len(rest) /\ i <= Len(x) /\ i <= n + 3
      BY <1>1, <1>2
    <3>2. \A i \in 1 .. 3 : x[i] = frame[i]
      BY <1>3, <1>4, <3>1
    <3>3. 1 \in 1 .. 3 /\ 2 \in 1 .. 3 /\ 3 \in 1 .. 3
      OBVIOUS
    <3>4. QED
      BY <3>2, <3>3
  <2>2. QED
    BY <1>1, <2>1 DEF SizeAt
<1>6. Len(x) >= n + 3
  BY <1>5 DEF HasFrame, LENGTH_PREFIX_SIZE
<1>7. FirstFrame(x) = payload
  <2> DEFINE first == SubSeq(x, 4, n + 3)
  <2>1. /\ first \in Seq(S) /\ Len(first) = n
        /\ \A i \in 1 .. n : first[i] = x[4 + i - 1]
    <3>1. \A i \in 4 .. n + 3 : x[i] \in S
      BY <1>1, <1>2, <1>6
    <3>2. /\ first \in Seq(S) /\ Len(first) = IF 4 <= n + 3 THEN (n + 3) - 4 + 1 ELSE 0
          /\ \A i \in 1 .. (n + 3) - 4 + 1 : first[i] = x[4 + i - 1]
      BY <1>1, <3>1, SubSeqProperties
    <3>3. (n + 3) - 4 + 1 = n /\ (~(4 <= n + 3) => n = 0)
      BY <1>1
    <3> HIDE DEF first
    <3>4. QED
      BY <3>2, <3>3
  <2>2. FirstFrame(x) = first
    BY <1>5 DEF FirstFrame, LENGTH_PREFIX_SIZE
  <2> HIDE DEF first
  <2>3. \A i \in 1 .. n : first[i] = payload[i]
    <3>1. TAKE i \in 1 .. n
    <3> DEFINE j == i + 3
    <3>2. /\ j \in 1 .. Len(x) + Len(y) /\ j \in 1 .. n + 3 + Len(rest) /\ j <= Len(x) /\ j <= n + 3
          /\ 4 + i - 1 = j
      BY <1>1, <1>2, <1>6
    <3>3. first[i] = x[j] /\ frame[j] = payload[i]
      BY <1>1, <2>1, <3>2
    <3> HIDE DEF j
    <3>4. x[j] = frame[j]
      BY <1>3, <1>4, <3>2
    <3>5. QED
      BY <3>3, <3>4
  <2>4. first = payload
    BY <1>1, <1>2, <2>1, <2>3, SeqEqual DEF n
  <2>5. QED
    BY <2>2, <2>4
<1>8. AfterFrame(x) \in Seq(S) /\ Len(AfterFrame(x)) = Len(x) - (n + 3)
      /\ \A i \in 1 .. Len(x) - (n + 3) : AfterFrame(x)[i] = x[n + 3 + i]
  <2> DEFINE after == SubSeq(x, n + 3 + 1, Len(x))
  <2>1. \A i \in n + 3 + 1 .. Len(x) : x[i] \in S
    BY <1>1, <1>2
  <2>2. /\ after \in Seq(S) /\ Len(after) = IF n + 3 + 1 <= Len(x) THEN Len(x) - (n + 3 + 1) + 1 ELSE 0
        /\ \A i \in 1 .. Len(x) - (n + 3 + 1) + 1 : after[i] = x[n + 3 + 1 + i - 1]
    BY <1>1, <1>2, <2>1, SubSeqProperties
  <2>3. AfterFrame(x) = after
    BY <1>5 DEF AfterFrame, LENGTH_PREFIX_SIZE
  <2> HIDE DEF after
  <2>4. QED
    BY <1>1, <1>2, <1>6, <2>2, <2>3
<1>9. AfterFrame(x) \o y = rest
  <2> DEFINE after == AfterFrame(x)
  <2> HIDE DEF after
  <2>1. /\ after \in Seq(S) /\ Len(after) = Len(x) - (n + 3)
        /\ \A i \in 1 .. Len(x) - (n + 3) : after[i] = x[n + 3 + i]
    BY <1>8 DEF after
  <2>2. /\ after \o y \in Seq(S) /\ Len(after \o y) = Len(after) + Len(y)
        /\ \A i \in 1 .. Len(after) + Len(y) : (after \o y)[i] = IF i <= Len(after) THEN after[i] ELSE y[i - Len(after)]
    BY <1>2, <2>1, ConcatProperties
  <2>3. Len(after \o y) = Len(rest)
    BY <1>1, <1>2, <1>3, <1>4, <2>1, <2>2
  <2>4. \A i \in 1 .. Len(rest) : (after \o y)[i] = rest[i]
    <3>1. TAKE i \in 1 .. Len(rest)
    <3> DEFINE j == n + 3 + i
    <3>2. /\ j \in 1 .. n + 3 + Len(rest) /\ j \in 1 .. Len(x) + Len(y) /\ i \in 1 .. Len(after) + Len(y)
          /\ ~(j <= n + 3) /\ j - (n + 3) = i
      BY <1>1, <1>2, <1>3, <1>4, <2>1, <2>2, <2>3
    <3>3. /\ j <= Len(x) => i \in 1 .. Len(x) - (n + 3) /\ i <= Len(after) /\ n + 3 + i = j
          /\ ~(j <= Len(x)) => ~(i <= Len(after)) /\ i - Len(after) = j - Len(x)
      BY <1>1, <1>2, <2>1
    <3> HIDE DEF j
    <3>4. (x \o y)[j] = rest[i] /\ (x \o y)[j] = IF j <= Len(x) THEN x[j] ELSE y[j - Len(x)]
      BY <1>3, <1>4, <3>2
    <3>5. (after \o y)[i] = IF j <= Len(x) THEN x[j] ELSE y[j - Len(x)]
      BY <2>1, <2>2, <3>2, <3>3
    <3>6. QED
      BY <3>4, <3>5
  <2>5. after \o y = rest
    BY <1>2, <2>2, <2>3, <2>4, SeqEqual
  <2>6. QED
    BY <2>5 DEF after
<1>10. QED
  BY <1>1, <1>2, <1>6, <1>7, <1>8, <1>9 DEF ByteSeq, S

----------------------------------------------------------------------------
(* The loop of push.                                                       *)

\* Induction, as a set of numbers.
LEMMA NatSetInduction ==
  ASSUME NEW S, 0 \in S, \A n \in Nat : n \in S => n + 1 \in S
  PROVE  \A n \in Nat : n \in S
<1> SUFFICES ASSUME NEW k \in Nat, k \notin S PROVE FALSE
  OBVIOUS
<1> DEFINE T == {n \in Nat : n \notin S}
<1>1. T \subseteq Nat /\ T # {}
  OBVIOUS
<1>2. PICK x \in T : \A y \in T : ~(<<y, x>> \in OpToRel(<, Nat))
  BY <1>1, NatLessThanWellFounded, WFMin
<1>3. x \in Nat /\ x \notin S /\ x # 0
  OBVIOUS
<1>4. x - 1 \in Nat /\ x - 1 < x /\ (x - 1) + 1 = x
  BY <1>3
<1>5. x - 1 \in S
  BY <1>2, <1>4 DEF OpToRel
<1>6. QED
  BY <1>3, <1>4, <1>5

\* What a frame at the front leaves is shorter.
LEMMA AfterFrameIsShorter ==
  ASSUME NEW bytes \in ByteSeq, HasFrame(bytes)
  PROVE  AfterFrame(bytes) \in ByteSeq /\ Len(AfterFrame(bytes)) < Len(bytes)
<1> DEFINE S == 0 .. Base - 1
           from == SizeAt(bytes) + LENGTH_PREFIX_SIZE + 1
<1>1. bytes \in Seq(S) /\ Len(bytes) \in Nat /\ Len(bytes) >= 3 /\ \A i \in 1 .. Len(bytes) : bytes[i] \in S
  BY LenProperties, ElementOfSeq DEF ByteSeq, HasFrame, LENGTH_PREFIX_SIZE
<1>2. from \in Nat /\ from > 3
  <2>1. bytes[1] \in Nat /\ bytes[2] \in Nat /\ bytes[3] \in Nat /\ Base \in Nat
    BY <1>1, FrameAssumption
  <2>2. bytes[1] * Base \in Nat /\ (bytes[1] * Base + bytes[2]) * Base \in Nat
    BY <2>1
  <2>3. QED
    BY <2>1, <2>2 DEF SizeAt, LENGTH_PREFIX_SIZE
<1>3. AfterFrame(bytes) = SubSeq(bytes, from, Len(bytes))
  BY DEF AfterFrame
<1> HIDE DEF S, from
<1>4. \A i \in from .. Len(bytes) : bytes[i] \in S
  BY <1>1, <1>2
<1>5. /\ SubSeq(bytes, from, Len(bytes)) \in Seq(S)
      /\ Len(SubSeq(bytes, from, Len(bytes))) = IF from <= Len(bytes) THEN Len(bytes) - from + 1 ELSE 0
  BY <1>1, <1>2, <1>4, SubSeqProperties
<1>6. QED
  BY <1>1, <1>2, <1>3, <1>5 DEF ByteSeq, S

\* One turn of the loop, with the later turns left to a function.
Turn(later, bytes) ==
  IF ~HasFrame(bytes) THEN [frames |-> << >>, rest |-> bytes]
  ELSE [frames |-> <<FirstFrame(bytes)>> \o later[AfterFrame(bytes)].frames,
        rest |-> later[AfterFrame(bytes)].rest]

UpTo(n) == {bytes \in ByteSeq : Len(bytes) <= n}
LoopsUpTo(loop, n) == loop = [bytes \in UpTo(n) |-> Turn(loop, bytes)]

\* The loop ends, because every turn leaves less: it is defined up to any length.
LEMMA LoopExists == \A n \in Nat : \E loop : LoopsUpTo(loop, n)
<1> DEFINE S == {n \in Nat : \E loop : LoopsUpTo(loop, n)}
<1>1. 0 \in S
  <2> DEFINE loop == [bytes \in UpTo(0) |-> Turn(<< >>, bytes)]
  <2>1. \A bytes \in UpTo(0) : Turn(loop, bytes) = Turn(<< >>, bytes)
    <3>1. TAKE bytes \in UpTo(0)
    <3>2. Len(bytes) \in Nat /\ Len(bytes) <= 0
      BY LenProperties DEF UpTo, ByteSeq
    <3>3. ~HasFrame(bytes)
      BY <3>2 DEF HasFrame, LENGTH_PREFIX_SIZE
    <3>4. QED
      BY <3>3 DEF Turn
  <2>2. LoopsUpTo(loop, 0)
    BY <2>1 DEF LoopsUpTo
  <2>3. QED
    BY <2>2
<1>2. \A n \in Nat : n \in S => n + 1 \in S
  <2>1. SUFFICES ASSUME NEW n \in Nat, NEW shorter, LoopsUpTo(shorter, n)
                 PROVE  \E loop : LoopsUpTo(loop, n + 1)
    OBVIOUS
  <2> DEFINE loop == [bytes \in UpTo(n + 1) |-> Turn(shorter, bytes)]
  <2>2. \A bytes \in UpTo(n) : bytes \in UpTo(n + 1) /\ loop[bytes] = shorter[bytes]
    <3>1. TAKE bytes \in UpTo(n)
    <3>2. bytes \in UpTo(n + 1)
      BY <2>1, LenProperties DEF UpTo, ByteSeq
    <3>3. loop[bytes] = Turn(shorter, bytes)
      BY <3>2
    <3>4. shorter[bytes] = Turn(shorter, bytes)
      BY <2>1 DEF LoopsUpTo
    <3>5. QED
      BY <3>2, <3>3, <3>4
  <2>3. \A bytes \in UpTo(n + 1) : HasFrame(bytes) => AfterFrame(bytes) \in UpTo(n)
    BY <2>1, AfterFrameIsShorter, LenProperties DEF UpTo, ByteSeq
  <2> DEFINE final == loop
  <2> HIDE DEF final
  <2>4. \A bytes \in UpTo(n + 1) : Turn(final, bytes) = Turn(shorter, bytes)
    BY <2>2, <2>3 DEF Turn, final
  <2>5. LoopsUpTo(final, n + 1)
    BY <2>4 DEF LoopsUpTo, final
  <2>6. QED
    BY <2>5
<1> HIDE DEF S
<1>3. \A n \in Nat : n \in S
  BY <1>1, <1>2, NatSetInduction
<1>4. QED
  BY <1>3 DEF S

\* And there is one way to run it.
LEMMA LoopIsUnique ==
  ASSUME NEW p \in Nat, NEW q \in Nat, NEW one, NEW other, LoopsUpTo(one, p), LoopsUpTo(other, q),
         NEW bytes \in ByteSeq, Len(bytes) <= p, Len(bytes) <= q
  PROVE  one[bytes] = other[bytes]
<1> DEFINE S == {n \in Nat : n <= p /\ n <= q => \A b \in UpTo(n) : one[b] = other[b]}
<1>1. \A b \in UpTo(p) : one[b] = Turn(one, b)
  BY DEF LoopsUpTo
<1>2. \A b \in UpTo(q) : other[b] = Turn(other, b)
  BY DEF LoopsUpTo
<1>3. 0 \in S
  <2>1. \A b \in UpTo(0) : ~HasFrame(b) /\ b \in UpTo(p) /\ b \in UpTo(q)
    BY LenProperties DEF UpTo, ByteSeq, HasFrame, LENGTH_PREFIX_SIZE
  <2>2. \A b \in UpTo(0) : Turn(one, b) = Turn(other, b)
    BY <2>1 DEF Turn
  <2>3. QED
    BY <1>1, <1>2, <2>1, <2>2
<1>4. \A n \in Nat : n \in S => n + 1 \in S
  <2>1. SUFFICES ASSUME NEW n \in Nat, n \in S, n + 1 <= p, n + 1 <= q, NEW b \in UpTo(n + 1)
                 PROVE  one[b] = other[b]
    OBVIOUS
  <2>2. b \in UpTo(p) /\ b \in UpTo(q)
    BY <2>1, LenProperties DEF UpTo, ByteSeq
  <2>3. HasFrame(b) => AfterFrame(b) \in UpTo(n)
    BY <2>1, AfterFrameIsShorter, LenProperties DEF UpTo, ByteSeq
  <2>4. \A c \in UpTo(n) : one[c] = other[c]
    BY <2>1
  <2>5. Turn(one, b) = Turn(other, b)
    BY <2>3, <2>4 DEF Turn
  <2>6. QED
    BY <1>1, <1>2, <2>2, <2>5
<1> HIDE DEF S
<1>5. Len(bytes) \in S
  BY <1>3, <1>4, NatSetInduction, LenProperties DEF ByteSeq
<1>6. bytes \in UpTo(Len(bytes))
  BY LenProperties DEF UpTo, ByteSeq
<1>7. QED
  BY <1>5, <1>6 DEF S

\* So push does what its loop says.
LEMMA UnframeTurns == \A bytes \in ByteSeq : Unframe[bytes] = Turn(Unframe, bytes)
<1> DEFINE Upto(n) == CHOOSE loop : LoopsUpTo(loop, n)
           whole == [bytes \in ByteSeq |-> Upto(Len(bytes))[bytes]]
           Defines(loop) == loop = [bytes \in ByteSeq |-> Turn(loop, bytes)]
<1>1. \A n \in Nat : LoopsUpTo(Upto(n), n)
  BY LoopExists
<1> HIDE DEF Upto
<1>2. \A bytes \in ByteSeq : whole[bytes] = Turn(whole, bytes)
  <2>1. TAKE bytes \in ByteSeq
  <2> DEFINE n == Len(bytes)
             left == AfterFrame(bytes)
  <2>2. n \in Nat /\ bytes \in UpTo(n)
    BY LenProperties DEF UpTo, ByteSeq
  <2>3. whole[bytes] = Upto(n)[bytes]
    OBVIOUS
  <2>4. Upto(n)[bytes] = Turn(Upto(n), bytes)
    BY <1>1, <2>2 DEF LoopsUpTo
  <2>5. HasFrame(bytes) => Upto(n)[left] = whole[left]
    <3>1. SUFFICES ASSUME HasFrame(bytes) PROVE Upto(n)[left] = whole[left]
      OBVIOUS
    <3>2. left \in ByteSeq /\ Len(left) \in Nat /\ Len(left) <= n
      BY <2>2, <3>1, AfterFrameIsShorter, LenProperties DEF ByteSeq
    <3>3. whole[left] = Upto(Len(left))[left]
      BY <3>2
    <3>4. LoopsUpTo(Upto(n), n) /\ LoopsUpTo(Upto(Len(left)), Len(left))
      BY <1>1, <2>2, <3>2
    <3>5. Upto(n)[left] = Upto(Len(left))[left]
      <4> HIDE DEF n, left
      <4> QED BY <2>2, <3>2, <3>4, LoopIsUnique
    <3>6. QED
      BY <3>3, <3>5
  <2> HIDE DEF whole, n
  <2>6. Turn(Upto(n), bytes) = Turn(whole, bytes)
    BY <2>5 DEF Turn
  <2>7. QED
    BY <2>3, <2>4, <2>6
<1>3. Defines(whole)
  <2>1. whole = [bytes \in ByteSeq |-> whole[bytes]]
    OBVIOUS
  <2> HIDE DEF whole
  <2>2. QED
    BY <1>2, <2>1
<1>4. Unframe = CHOOSE loop : Defines(loop)
  BY DEF Unframe, Turn, ByteSeq
<1> HIDE DEF whole
<1>5. Defines(Unframe)
  BY <1>3, <1>4
<1>6. QED
  BY <1>5

----------------------------------------------------------------------------
(* Many frames.                                                            *)

\* The bytes are the encoded payloads, one after the other: left[i] is what remains
\* behind the first i of them.
Carries(bytes, payloads) ==
  \E left \in [0 .. Len(payloads) -> ByteSeq] :
    /\ left[0] = bytes /\ left[Len(payloads)] = << >>
    /\ \A i \in 1 .. Len(payloads) : left[i - 1] = Encoded(payloads[i]) \o left[i]

\* No bytes carry no payload, and only they do.
LEMMA CarriesNothing == \A bytes : Carries(bytes, << >>) <=> bytes = << >>
<1>1. ASSUME NEW bytes, Carries(bytes, << >>) PROVE bytes = << >>
  BY <1>1 DEF Carries
<1>2. Carries(<< >>, << >>)
  <2> DEFINE left == [i \in 0 .. 0 |-> << >>]
  <2>1. left \in [0 .. Len(<< >>) -> ByteSeq] /\ left[0] = << >> /\ left[Len(<< >>)] = << >>
    BY DEF ByteSeq
  <2>2. \A i \in 1 .. Len(<< >>) : FALSE
    OBVIOUS
  <2> HIDE DEF left
  <2>3. QED
    BY <2>1, <2>2 DEF Carries
<1>3. QED
  BY <1>1, <1>2

\* One more frame is written behind the others.
LEMMA CarriesOneMore ==
  ASSUME NEW bytes, NEW payloads \in Seq(Payloads), Carries(bytes, payloads), NEW payload \in Payloads
  PROVE  /\ bytes \o Encoded(payload) \in ByteSeq /\ Append(payloads, payload) \in Seq(Payloads)
         /\ Carries(bytes \o Encoded(payload), Append(payloads, payload))
<1> DEFINE n == Len(payloads)
           more == Append(payloads, payload)
           frame == Encoded(payload)
<1>1. PICK left \in [0 .. n -> ByteSeq] :
        /\ left[0] = bytes /\ left[n] = << >>
        /\ \A i \in 1 .. n : left[i - 1] = Encoded(payloads[i]) \o left[i]
  BY DEF Carries
<1>2. /\ n \in Nat /\ \A i \in 1 .. n : payloads[i] \in Payloads
      /\ more \in Seq(Payloads) /\ Len(more) = n + 1 /\ more[n + 1] = payload
      /\ \A i \in 1 .. n : more[i] = payloads[i]
  BY LenProperties, ElementOfSeq, AppendProperties
<1>3. frame \in ByteSeq /\ \A i \in 1 .. n : Encoded(payloads[i]) \in ByteSeq
  BY <1>2, EncodedElements
<1> HIDE DEF n, more, frame
<1>4. \A i \in 0 .. n : left[i] \in ByteSeq /\ left[i] \o frame \in ByteSeq
  BY <1>1, <1>3, ConcatProperties DEF ByteSeq
<1> DEFINE after == [i \in 0 .. n + 1 |-> IF i <= n THEN left[i] \o frame ELSE << >>]
<1>5. << >> \in ByteSeq /\ frame \o << >> = frame /\ << >> \o frame = frame
  BY <1>3, ConcatEmptySeq DEF ByteSeq
<1>6. after \in [0 .. n + 1 -> ByteSeq]
  BY <1>2, <1>4, <1>5
<1>7. after[0] = bytes \o frame /\ after[n + 1] = << >> /\ after[n] = frame
  <2>1. 0 \in 0 .. n + 1 /\ 0 <= n /\ n + 1 \in 0 .. n + 1 /\ ~(n + 1 <= n) /\ n \in 0 .. n + 1 /\ n <= n
    BY <1>2
  <2>2. QED
    BY <1>1, <1>5, <2>1
<1>8. \A i \in 1 .. n + 1 : after[i - 1] = Encoded(more[i]) \o after[i]
  <2>1. TAKE i \in 1 .. n + 1
  <2>2. CASE i = n + 1
    <3>1. i - 1 = n
      BY <1>2, <2>2
    <3>2. QED
      BY <1>2, <1>5, <1>7, <2>2, <3>1 DEF frame
  <2>3. CASE i # n + 1
    <3>1. i \in 1 .. n /\ i \in 0 .. n /\ i - 1 \in 0 .. n /\ i - 1 \in 0 .. n + 1 /\ i \in 0 .. n + 1 /\ i <= n /\ i - 1 <= n
      BY <1>2, <2>3
    <3>2. after[i - 1] = left[i - 1] \o frame /\ after[i] = left[i] \o frame
      BY <3>1
    <3>3. left[i - 1] = Encoded(payloads[i]) \o left[i] /\ more[i] = payloads[i]
      BY <1>1, <1>2, <3>1
    <3>4. (Encoded(payloads[i]) \o left[i]) \o frame = Encoded(payloads[i]) \o (left[i] \o frame)
      <4> DEFINE first == Encoded(payloads[i])
                 behind == left[i]
      <4>1. first \in ByteSeq /\ behind \in ByteSeq
        BY <1>3, <1>4, <3>1
      <4> HIDE DEF first, behind
      <4>2. (first \o behind) \o frame = first \o (behind \o frame)
        BY <1>3, <4>1, Associative
      <4>3. QED
        BY <4>2 DEF first, behind
    <3>5. QED
      BY <3>2, <3>3, <3>4
  <2>4. QED
    BY <2>2, <2>3
<1> HIDE DEF after
<1>9. Carries(bytes \o frame, more)
  BY <1>2, <1>6, <1>7, <1>8 DEF Carries
<1>10. bytes \o frame \in ByteSeq
  BY <1>1, <1>2, <1>4
<1>11. QED
  BY <1>2, <1>9, <1>10 DEF more, frame

\* The first frame is at the front, and what is behind it carries the others.
LEMMA CarriesFirst ==
  ASSUME NEW bytes, NEW payloads \in Seq(Payloads), payloads # << >>, Carries(bytes, payloads)
  PROVE  /\ Head(payloads) \in Payloads /\ Tail(payloads) \in Seq(Payloads)
         /\ \E rest \in ByteSeq : bytes = Encoded(Head(payloads)) \o rest /\ Carries(rest, Tail(payloads))
<1> DEFINE n == Len(payloads)
           others == Tail(payloads)
<1>1. PICK left \in [0 .. n -> ByteSeq] :
        /\ left[0] = bytes /\ left[n] = << >>
        /\ \A i \in 1 .. n : left[i - 1] = Encoded(payloads[i]) \o left[i]
  BY DEF Carries
<1>2. n \in Nat /\ n # 0
  BY LenProperties, EmptySeq
<1>3. /\ Head(payloads) \in Payloads /\ Head(payloads) = payloads[1]
      /\ others \in Seq(Payloads) /\ Len(others) = n - 1 /\ \A i \in 1 .. n - 1 : others[i] = payloads[i + 1]
  BY HeadTailProperties
<1> HIDE DEF n, others
<1> DEFINE after == [i \in 0 .. n - 1 |-> left[i + 1]]
<1>4. after \in [0 .. n - 1 -> ByteSeq]
  BY <1>1, <1>2
<1>5. after[0] = left[1] /\ after[n - 1] = << >>
  <2>1. 0 \in 0 .. n - 1 /\ n - 1 \in 0 .. n - 1 /\ (n - 1) + 1 = n /\ 0 + 1 = 1
    BY <1>2
  <2>2. QED
    BY <1>1, <2>1
<1>6. \A i \in 1 .. n - 1 : after[i - 1] = Encoded(others[i]) \o after[i]
  <2>1. TAKE i \in 1 .. n - 1
  <2>2. i - 1 \in 0 .. n - 1 /\ i \in 0 .. n - 1 /\ (i - 1) + 1 = i /\ i + 1 \in 1 .. n /\ (i + 1) - 1 = i
    BY <1>2
  <2>3. after[i - 1] = left[i] /\ after[i] = left[i + 1]
    BY <2>2
  <2>4. left[i] = Encoded(payloads[i + 1]) \o left[i + 1]
    BY <1>1, <2>2
  <2>5. QED
    BY <1>3, <2>3, <2>4
<1> HIDE DEF after
<1>7. Carries(left[1], others)
  BY <1>3, <1>4, <1>5, <1>6 DEF Carries
<1>8. left[1] \in ByteSeq /\ bytes = Encoded(payloads[1]) \o left[1]
  <2>1. 1 \in 0 .. n /\ 1 \in 1 .. n /\ 1 - 1 = 0
    BY <1>2
  <2>2. QED
    BY <1>1, <2>1
<1>9. QED
  BY <1>3, <1>7, <1>8 DEF others

\* Where bytes carry a payload, a frame stands at the front.
LEMMA NoFrameNoPayload ==
  ASSUME NEW bytes, NEW payloads \in Seq(Payloads), Carries(bytes, payloads), ~HasFrame(bytes)
  PROVE  bytes = << >> /\ payloads = << >>
<1>1. SUFFICES ASSUME payloads # << >> PROVE FALSE
  BY CarriesNothing
<1> DEFINE payload == Head(payloads)
<1>2. PICK rest \in ByteSeq : bytes = Encoded(payload) \o rest
  BY <1>1, CarriesFirst
<1>3. payload \in Payloads
  BY <1>1, CarriesFirst
<1>4. /\ Encoded(payload) \in ByteSeq /\ Len(payload) \in Nat /\ Len(Encoded(payload)) = Len(payload) + 3
      /\ SizeAt(Encoded(payload)) = Len(payload)
  BY <1>3, EncodedElements
<1> HIDE DEF payload
<1>5. /\ Len(bytes) = Len(payload) + 3 + Len(rest) /\ Len(rest) \in Nat
      /\ bytes[1] = Encoded(payload)[1] /\ bytes[2] = Encoded(payload)[2] /\ bytes[3] = Encoded(payload)[3]
  <2> DEFINE frame == Encoded(payload)
  <2>0. frame \in ByteSeq /\ Len(frame) = Len(payload) + 3
    BY <1>4
  <2> HIDE DEF frame
  <2>1. /\ Len(frame \o rest) = Len(frame) + Len(rest)
        /\ \A i \in 1 .. Len(frame) + Len(rest) : (frame \o rest)[i] = IF i <= Len(frame) THEN frame[i] ELSE rest[i - Len(frame)]
    BY <2>0, ConcatProperties DEF ByteSeq
  <2>2. Len(rest) \in Nat
    BY LenProperties DEF ByteSeq
  <2>3. \A i \in 1 .. 3 : i \in 1 .. Len(frame) + Len(rest) /\ i <= Len(frame)
    BY <1>4, <2>0, <2>2
  <2>4. \A i \in 1 .. 3 : bytes[i] = frame[i]
    BY <1>2, <2>1, <2>3 DEF frame
  <2>5. 1 \in 1 .. 3 /\ 2 \in 1 .. 3 /\ 3 \in 1 .. 3
    OBVIOUS
  <2>6. QED
    BY <1>2, <1>4, <2>0, <2>1, <2>2, <2>4, <2>5 DEF frame
<1>6. SizeAt(bytes) = Len(payload)
  BY <1>4, <1>5 DEF SizeAt
<1>7. QED
  BY <1>4, <1>5, <1>6 DEF HasFrame, LENGTH_PREFIX_SIZE

\* push takes off exactly the frames that are complete, whatever follows them on the
\* way, and what it keeps is what the others begin with.
LEMMA UnframeTakes ==
  ASSUME NEW x \in ByteSeq, NEW y \in ByteSeq, NEW payloads \in Seq(Payloads), Carries(x \o y, payloads)
  PROVE  /\ Unframe[x].rest \in ByteSeq /\ ~HasFrame(Unframe[x].rest) /\ Unframe[x].frames \in Seq(Payloads)
         /\ \E later \in Seq(Payloads) : /\ payloads = Unframe[x].frames \o later
                                         /\ Carries(Unframe[x].rest \o y, later)
<1> DEFINE Taken(bytes, carried) ==
             /\ Unframe[bytes].rest \in ByteSeq /\ ~HasFrame(Unframe[bytes].rest)
             /\ Unframe[bytes].frames \in Seq(Payloads)
             /\ \E later \in Seq(Payloads) : /\ carried = Unframe[bytes].frames \o later
                                             /\ Carries(Unframe[bytes].rest \o y, later)
           S == {n \in Nat : \A bytes \in ByteSeq, carried \in Seq(Payloads) :
                               Len(bytes) <= n /\ Carries(bytes \o y, carried) => Taken(bytes, carried)}
<1>1. ASSUME NEW bytes \in ByteSeq, NEW carried \in Seq(Payloads), Carries(bytes \o y, carried), ~HasFrame(bytes)
      PROVE  Taken(bytes, carried)
  <2>1. Unframe[bytes] = [frames |-> << >>, rest |-> bytes]
    BY <1>1, UnframeTurns DEF Turn
  <2>2. Unframe[bytes].frames = << >> /\ Unframe[bytes].rest = bytes
    BY <2>1
  <2>3. << >> \in Seq(Payloads) /\ << >> \o carried = carried
    BY <1>1, ConcatEmptySeq
  <2>4. QED
    BY <1>1, <2>2, <2>3
<1>2. 0 \in S
  <2>1. SUFFICES ASSUME NEW bytes \in ByteSeq, NEW carried \in Seq(Payloads), Len(bytes) <= 0, Carries(bytes \o y, carried)
                 PROVE  Taken(bytes, carried)
    OBVIOUS
  <2>2. ~HasFrame(bytes)
    BY <2>1, LenProperties DEF ByteSeq, HasFrame, LENGTH_PREFIX_SIZE
  <2> HIDE DEF Taken
  <2>3. QED
    BY <1>1, <2>1, <2>2
<1>3. \A n \in Nat : n \in S => n + 1 \in S
  <2>1. SUFFICES ASSUME NEW n \in Nat, n \in S, NEW bytes \in ByteSeq, NEW carried \in Seq(Payloads),
                        Len(bytes) <= n + 1, Carries(bytes \o y, carried), HasFrame(bytes)
                 PROVE  Taken(bytes, carried)
    <3> HIDE DEF Taken
    <3> QED BY <1>1
  <2> DEFINE left == AfterFrame(bytes)
             first == Head(carried)
             others == Tail(carried)
  <2>2. carried # << >>
    <3>1. SUFFICES ASSUME carried = << >> PROVE FALSE
      OBVIOUS
    <3>2. bytes \o y = << >>
      BY <2>1, <3>1, CarriesNothing
    <3>3. bytes = << >>
      BY <2>1, <3>2, ConcatEqualIffEmpty DEF ByteSeq
    <3>4. QED
      BY <2>1, <3>3 DEF HasFrame, LENGTH_PREFIX_SIZE
  <2>3. first \in Payloads /\ others \in Seq(Payloads)
    BY <2>1, <2>2, CarriesFirst
  <2>4. PICK rest \in ByteSeq : bytes \o y = Encoded(first) \o rest /\ Carries(rest, others)
    BY <2>1, <2>2, CarriesFirst
  <2> HIDE DEF left, first, others
  <2>5. FirstFrame(bytes) = first /\ left \in ByteSeq /\ left \o y = rest /\ Len(left) < Len(bytes)
    BY <2>1, <2>3, <2>4, FrontFrame DEF left
  <2>6. Len(left) <= n
    BY <2>1, <2>5, LenProperties DEF ByteSeq
  <2>7. Taken(left, others)
    <3> HIDE DEF Taken
    <3> QED BY <2>1, <2>3, <2>4, <2>5, <2>6
  <2>8. PICK later \in Seq(Payloads) : others = Unframe[left].frames \o later /\ Carries(Unframe[left].rest \o y, later)
    BY <2>7
  <2>9. Unframe[bytes] = [frames |-> <<first>> \o Unframe[left].frames, rest |-> Unframe[left].rest]
    BY <2>1, <2>5, UnframeTurns DEF Turn, left
  <2>10. Unframe[bytes].frames = <<first>> \o Unframe[left].frames /\ Unframe[bytes].rest = Unframe[left].rest
    BY <2>9
  <2>11. <<first>> \in Seq(Payloads)
    BY <2>3
  <2>12. <<first>> \o Unframe[left].frames \in Seq(Payloads)
    BY <2>7, <2>11, ConcatProperties
  <2>13. (<<first>> \o Unframe[left].frames) \o later = <<first>> \o (Unframe[left].frames \o later)
    <3> DEFINE taken == Unframe[left].frames
               one == <<first>>
    <3>1. taken \in Seq(Payloads) /\ one \in Seq(Payloads)
      BY <2>7, <2>11
    <3> HIDE DEF taken, one
    <3>2. (one \o taken) \o later = one \o (taken \o later)
      BY <2>8, <3>1, Associative
    <3>3. QED
      BY <3>2 DEF taken, one
  <2>14. carried = <<first>> \o others
    <3>1. Len(carried) \in Nat /\ Len(carried) # 0
      BY <2>1, <2>2, LenProperties, EmptySeq
    <3>2. SubSeq(carried, 1, Len(carried)) = <<carried[1]>> \o SubSeq(carried, 1 + 1, Len(carried))
      BY <2>1, <3>1, SubSeqRecursiveFirst
    <3>3. SubSeq(carried, 1, Len(carried)) = carried /\ Tail(carried) = SubSeq(carried, 2, Len(carried)) /\ 1 + 1 = 2
      BY <2>1, <2>2, SubSeqFull, TailIsSubSeq
    <3>4. QED
      BY <3>2, <3>3 DEF first, others
  <2>15. carried = Unframe[bytes].frames \o later
    BY <2>8, <2>10, <2>13, <2>14
  <2>16. QED
    BY <2>7, <2>8, <2>10, <2>12, <2>15
<1> HIDE DEF S
<1>4. Len(x) \in S
  BY <1>2, <1>3, NatSetInduction, LenProperties DEF ByteSeq
<1> HIDE DEF Taken
<1>5. Taken(x, payloads)
  BY <1>4, LenProperties DEF S, ByteSeq
<1>6. QED
  BY <1>5 DEF Taken

----------------------------------------------------------------------------
(* The intro.                                                              *)

\* What precedes something is its prefix, and something is what is behind it.
LEMMA BehindPrefix ==
  ASSUME NEW S, NEW s \in Seq(S), NEW t \in Seq(S)
  PROVE  /\ s \o t \in Seq(S) /\ IsPrefix(s, s \o t)
         /\ SubSeq(s \o t, Len(s) + 1, Len(s \o t)) = t
<1> DEFINE both == s \o t
<1>1. /\ both \in Seq(S) /\ Len(both) = Len(s) + Len(t) /\ Len(s) \in Nat /\ Len(t) \in Nat
      /\ \A i \in 1 .. Len(s) + Len(t) : both[i] = IF i <= Len(s) THEN s[i] ELSE t[i - Len(s)]
  BY ConcatProperties, LenProperties
<1>2. \A i \in 1 .. Len(both) : both[i] \in S
  BY <1>1, ElementOfSeq
<1> HIDE DEF both
<1>3. SubSeq(both, 1, Len(s)) = SubSeq(s, 1, Len(s))
  <2>1. /\ SubSeq(both, 1, Len(s)) \in Seq(S) /\ Len(SubSeq(both, 1, Len(s))) = Len(s)
        /\ \A i \in 1 .. Len(s) : SubSeq(both, 1, Len(s))[i] = both[i]
    <3>1. \A i \in 1 .. Len(s) : both[i] \in S
      BY <1>1, <1>2
    <3>2. /\ SubSeq(both, 1, Len(s)) \in Seq(S)
          /\ Len(SubSeq(both, 1, Len(s))) = IF 1 <= Len(s) THEN Len(s) - 1 + 1 ELSE 0
          /\ \A i \in 1 .. Len(s) - 1 + 1 : SubSeq(both, 1, Len(s))[i] = both[1 + i - 1]
      BY <1>1, <3>1, SubSeqProperties
    <3>3. QED
      BY <1>1, <3>2
  <2>2. \A i \in 1 .. Len(s) : SubSeq(both, 1, Len(s))[i] = s[i]
    BY <1>1, <2>1
  <2>3. SubSeq(both, 1, Len(s)) = s
    BY <2>1, <2>2, SeqEqual
  <2>4. QED
    BY <2>3, SubSeqFull
<1>4. SubSeq(both, Len(s) + 1, Len(both)) = t
  <2> DEFINE m == Len(s) + 1
             behind == SubSeq(both, m, Len(both))
  <2>1. m \in Int /\ \A i \in m .. Len(both) : both[i] \in S
    BY <1>1, <1>2
  <2>2. /\ behind \in Seq(S) /\ Len(behind) = IF m <= Len(both) THEN Len(both) - m + 1 ELSE 0
        /\ \A i \in 1 .. Len(both) - m + 1 : behind[i] = both[m + i - 1]
    BY <1>1, <2>1, SubSeqProperties
  <2> HIDE DEF behind
  <2>3. Len(behind) = Len(t)
    BY <1>1, <2>2
  <2>4. \A i \in 1 .. Len(t) : behind[i] = t[i]
    <3>1. TAKE i \in 1 .. Len(t)
    <3> DEFINE j == Len(s) + i
    <3>2. /\ j \in 1 .. Len(s) + Len(t) /\ ~(j <= Len(s)) /\ j - Len(s) = i
          /\ i \in 1 .. Len(both) - m + 1 /\ m + i - 1 = j
      BY <1>1
    <3> HIDE DEF j, m
    <3>3. QED
      BY <1>1, <2>2, <3>2
  <2>5. behind = t
    BY <2>2, <2>3, <2>4, SeqEqual
  <2>6. QED
    BY <2>5 DEF behind
<1>5. QED
  BY <1>1, <1>3, <1>4 DEF both, IsPrefix

\* A prefix by its elements.
LEMMA PrefixElements ==
  ASSUME NEW S, NEW s \in Seq(S), NEW t \in Seq(S)
  PROVE  IsPrefix(s, t) <=> Len(s) <= Len(t) /\ \A i \in 1 .. Len(s) : s[i] = t[i]
<1>1. Len(s) \in Nat /\ Len(t) \in Nat /\ \A i \in 1 .. Len(t) : t[i] \in S
  BY LenProperties, ElementOfSeq
<1>2. SubSeq(s, 1, Len(s)) = s
  BY SubSeqFull
<1>3. SUFFICES ASSUME Len(s) <= Len(t) PROVE s = SubSeq(t, 1, Len(s)) <=> \A i \in 1 .. Len(s) : s[i] = t[i]
  BY <1>2 DEF IsPrefix
<1> DEFINE front == SubSeq(t, 1, Len(s))
<1>4. front \in Seq(S) /\ Len(front) = Len(s) /\ \A i \in 1 .. Len(s) : front[i] = t[i]
  <2>1. \A i \in 1 .. Len(s) : t[i] \in S
    BY <1>1, <1>3
  <2>2. /\ front \in Seq(S) /\ Len(front) = IF 1 <= Len(s) THEN Len(s) - 1 + 1 ELSE 0
        /\ \A i \in 1 .. Len(s) - 1 + 1 : front[i] = t[1 + i - 1]
    BY <1>1, <2>1, SubSeqProperties
  <2> HIDE DEF front
  <2>3. QED
    BY <1>1, <2>2
<1> HIDE DEF front
<1>5. s = front <=> \A i \in 1 .. Len(s) : s[i] = front[i]
  BY <1>4, SeqEqual
<1>6. QED
  BY <1>4, <1>5 DEF front

\* The intro is made of bytes.
LEMMA IntroIsBytes ==
  ASSUME NEW routingInfo \in RoutingInfos
  PROVE  /\ buildIntro(routingInfo) \in ByteSeq /\ buildIntro(routingInfo) # None
         /\ EdgeMark \in ByteSeq /\ WaHeader \in ByteSeq /\ routingInfo \in ByteSeq
         /\ LengthPrefix(Len(routingInfo)) \in ByteSeq /\ Len(LengthPrefix(Len(routingInfo))) = 3
         /\ SizeAt(LengthPrefix(Len(routingInfo))) = Len(routingInfo) /\ Len(routingInfo) \in Nat
<1> DEFINE prefix == LengthPrefix(Len(routingInfo))
<1>1. /\ EdgeMark \in ByteSeq /\ WaHeader \in ByteSeq /\ routingInfo \in ByteSeq
      /\ Len(routingInfo) <= MAX_FRAME_SIZE /\ buildIntro(routingInfo) # None
  BY FrameAssumption, RoutingAssumption DEF ByteSeq
<1>2. Len(routingInfo) \in Nat
  BY <1>1, LenProperties DEF ByteSeq
<1>3. prefix \in ByteSeq /\ Len(prefix) = 3 /\ SizeAt(prefix) = Len(routingInfo)
  BY <1>1, <1>2, PrefixRead
<1> HIDE DEF prefix
<1>4. EdgeMark \o prefix \in ByteSeq
  BY <1>1, <1>3, ConcatProperties DEF ByteSeq
<1>5. (EdgeMark \o prefix) \o routingInfo \in ByteSeq
  BY <1>1, <1>4, ConcatProperties DEF ByteSeq
<1>6. ((EdgeMark \o prefix) \o routingInfo) \o WaHeader \in ByteSeq
  BY <1>1, <1>5, ConcatProperties DEF ByteSeq
<1>7. buildIntro(routingInfo) \in ByteSeq
  BY <1>1, <1>6 DEF buildIntro, prefix
<1>8. QED
  BY <1>1, <1>2, <1>3, <1>7 DEF prefix

\* The edge takes off its header when there is one, and nothing when there is none.
LEMMA RoutedHeader ==
  ASSUME NEW routingInfo \in RoutingInfos, NEW body \in ByteSeq
  PROVE  Routed(buildIntro(routingInfo) \o body) = WaHeader \o body
<1> DEFINE prefix == LengthPrefix(Len(routingInfo))
           behind == WaHeader \o body
<1>1. /\ EdgeMark \in ByteSeq /\ WaHeader \in ByteSeq /\ routingInfo \in ByteSeq
      /\ prefix \in ByteSeq /\ Len(prefix) = 3 /\ SizeAt(prefix) = Len(routingInfo) /\ Len(routingInfo) \in Nat
  BY IntroIsBytes
<1>2. behind \in ByteSeq /\ Len(behind) = Len(WaHeader) + Len(body)
      /\ \A i \in 1 .. Len(WaHeader) + Len(body) : behind[i] = IF i <= Len(WaHeader) THEN WaHeader[i] ELSE body[i - Len(WaHeader)]
  BY <1>1, ConcatProperties DEF ByteSeq
<1>3. Len(EdgeMark) \in Nat /\ Len(WaHeader) \in Nat /\ Len(body) \in Nat
  BY <1>1, LenProperties DEF ByteSeq
<1> HIDE DEF prefix, behind
<1>4. CASE routingInfo = << >>
  <2>1. ~IsPrefix(EdgeMark, behind)
    <3>1. SUFFICES ASSUME IsPrefix(EdgeMark, behind) PROVE FALSE
      OBVIOUS
    <3>2. Len(EdgeMark) <= Len(behind) /\ \A i \in 1 .. Len(EdgeMark) : EdgeMark[i] = behind[i]
      BY <1>1, <1>2, <3>1, PrefixElements DEF ByteSeq
    <3>3. \A i \in 1 .. Len(EdgeMark) : i <= Len(WaHeader) => EdgeMark[i] = WaHeader[i]
      BY <1>2, <1>3, <3>2
    <3>4. CASE Len(EdgeMark) <= Len(WaHeader)
      <4>1. \A i \in 1 .. Len(EdgeMark) : EdgeMark[i] = WaHeader[i]
        BY <1>3, <3>3, <3>4
      <4>2. IsPrefix(EdgeMark, WaHeader)
        BY <1>1, <3>4, <4>1, PrefixElements DEF ByteSeq
      <4>3. QED
        BY <4>2, FrameAssumption
    <3>5. CASE ~(Len(EdgeMark) <= Len(WaHeader))
      <4>1. Len(WaHeader) <= Len(EdgeMark) /\ \A i \in 1 .. Len(WaHeader) : WaHeader[i] = EdgeMark[i]
        BY <1>3, <3>3, <3>5
      <4>2. IsPrefix(WaHeader, EdgeMark)
        BY <1>1, <4>1, PrefixElements DEF ByteSeq
      <4>3. QED
        BY <4>2, FrameAssumption
    <3>6. QED
      BY <3>4, <3>5
  <2>2. buildIntro(routingInfo) \o body = behind
    BY <1>4 DEF buildIntro, behind
  <2>3. QED
    BY <2>1, <2>2 DEF Routed, behind
<1>5. CASE routingInfo # << >>
  <2> DEFINE info == routingInfo \o behind
             tail == prefix \o info
             bytes == EdgeMark \o tail
             header == (EdgeMark \o prefix) \o routingInfo
  <2>1. info \in ByteSeq /\ tail \in ByteSeq
    BY <1>1, <1>2, ConcatProperties DEF ByteSeq
  <2>2. /\ EdgeMark \o prefix \in ByteSeq /\ Len(EdgeMark \o prefix) = Len(EdgeMark) + 3
    <3>1. EdgeMark \o prefix \in ByteSeq /\ Len(EdgeMark \o prefix) = Len(EdgeMark) + Len(prefix)
      BY <1>1, ConcatProperties DEF ByteSeq
    <3>2. QED
      BY <1>1, <3>1
  <2>3. header \in ByteSeq /\ Len(header) = Len(EdgeMark) + 3 + Len(routingInfo)
    <3> DEFINE mark == EdgeMark \o prefix
    <3>1. mark \in ByteSeq /\ Len(mark) = Len(EdgeMark) + 3
      BY <2>2
    <3> HIDE DEF mark
    <3>2. mark \o routingInfo \in ByteSeq /\ Len(mark \o routingInfo) = Len(mark) + Len(routingInfo)
      BY <1>1, <3>1, ConcatProperties DEF ByteSeq
    <3>3. QED
      BY <3>1, <3>2 DEF mark
  <2>4. header \o behind = bytes
    <3> DEFINE mark == EdgeMark \o prefix
    <3>1. (mark \o routingInfo) \o behind = mark \o info
      <4> HIDE DEF mark
      <4>1. mark \in ByteSeq
        BY <2>2 DEF mark
      <4>2. routingInfo \in ByteSeq /\ behind \in ByteSeq
        BY <1>1, <1>2
      <4>3. (mark \o routingInfo) \o behind = mark \o (routingInfo \o behind)
        BY <4>1, <4>2, Associative
      <4>4. QED
        BY <4>3 DEF info
    <3>2. mark \o info = EdgeMark \o (prefix \o info)
      <4> HIDE DEF info
      <4> QED BY <1>1, <2>1, Associative
    <3>3. QED
      BY <3>1, <3>2
  <2>5. buildIntro(routingInfo) \o body = header \o behind
    <3>1. buildIntro(routingInfo) = header \o WaHeader
      BY <1>5 DEF buildIntro, prefix
    <3> HIDE DEF header
    <3>2. (header \o WaHeader) \o body = header \o (WaHeader \o body)
      BY <1>1, <2>3, Associative
    <3>3. QED
      BY <3>1, <3>2 DEF behind
  <2>6. SizeAt(tail) = Len(routingInfo)
    <3> HIDE DEF info
    <3>0. prefix \in ByteSeq /\ info \in ByteSeq
      BY <1>1, <2>1
    <3>1. Len(prefix \o info) = Len(prefix) + Len(info) /\ Len(info) \in Nat
          /\ \A i \in 1 .. Len(prefix) + Len(info) : (prefix \o info)[i] = IF i <= Len(prefix) THEN prefix[i] ELSE info[i - Len(prefix)]
      BY <3>0, ConcatProperties, LenProperties DEF ByteSeq
    <3>2. (prefix \o info)[1] = prefix[1] /\ (prefix \o info)[2] = prefix[2] /\ (prefix \o info)[3] = prefix[3]
      BY <1>1, <3>1
    <3>3. QED
      BY <1>1, <3>2 DEF SizeAt
  <2> HIDE DEF header, info, tail
  <2>7. IsPrefix(EdgeMark, bytes) /\ SubSeq(bytes, Len(EdgeMark) + 1, Len(bytes)) = tail
    BY <1>1, <2>1, BehindPrefix DEF ByteSeq
  <2>8. SubSeq(bytes, Len(header) + 1, Len(bytes)) = behind
    BY <1>2, <2>3, <2>4, BehindPrefix DEF ByteSeq
  <2> HIDE DEF bytes
  <2>9. Routed(bytes) = SubSeq(bytes, Len(EdgeMark) + LENGTH_PREFIX_SIZE + Len(routingInfo) + 1, Len(bytes))
    BY <2>6, <2>7 DEF Routed
  <2>10. QED
    BY <2>3, <2>4, <2>5, <2>8, <2>9 DEF LENGTH_PREFIX_SIZE, behind
<1>6. QED
  BY <1>4, <1>5

----------------------------------------------------------------------------
(* The stream.                                                             *)

FrameTypes ==
  /\ stream \in ByteSeq /\ buffered \in ByteSeq /\ stripped \in BOOLEAN
  /\ sent \in Seq(Payloads) /\ frames \in Seq(Payloads)

\* Nothing is on the way before the intro is.
NothingYet == intro = None => ~stripped /\ stream = << >> /\ sent = << >>

\* Until the receiver has taken the intro off, the stream is the intro and the frames.
IntroFirst ==
  ~stripped =>
    /\ frames = << >> /\ buffered = << >>
    /\ intro # None => \E routingInfo \in RoutingInfos, body \in ByteSeq :
                          stream = buildIntro(routingInfo) \o body /\ Carries(body, sent)

\* From then on, what is buffered and what is on the way are the frames not yet out,
\* and none of them is complete in the buffer.
TheRestOnTheWay ==
  /\ ~HasFrame(buffered)
  /\ stripped => \E later \in Seq(Payloads) : sent = frames \o later /\ Carries(buffered \o stream, later)

FrameInv == FrameTypes /\ NothingYet /\ IntroFirst /\ TheRestOnTheWay

\* Nothing is sent and nothing is buffered in an initial state.
LEMMA FrameInitInv == FrameInit => FrameInv
<1> SUFFICES ASSUME FrameInit PROVE FrameInv
  OBVIOUS
<1>1. /\ stream = << >> /\ buffered = << >> /\ sent = << >> /\ frames = << >> /\ stripped \in BOOLEAN
      /\ (intro = None /\ ~stripped) \/ (intro = << >> /\ stripped)
  BY DEF FrameInit
<1>2. << >> \in ByteSeq /\ << >> \in Seq(Payloads) /\ None # << >>
  BY RoutingAssumption DEF ByteSeq
<1>3. ~HasFrame(<< >>)
  BY DEF HasFrame, LENGTH_PREFIX_SIZE
<1>4. << >> \o << >> = << >>
  BY <1>2, ConcatEmptySeq
<1>5. Carries(<< >>, << >>)
  BY CarriesNothing
<1>6. TheRestOnTheWay
  BY <1>1, <1>2, <1>3, <1>4, <1>5 DEF TheRestOnTheWay
<1>7. QED
  BY <1>1, <1>2, <1>6 DEF FrameInv, FrameTypes, NothingYet, IntroFirst

\* A frame is written behind everything that is on the way.
LEMMA SendKeeps ==
  ASSUME FrameInv, NEW payload \in ByteSeq, NEW routingInfo \in RoutingInfos, SendRawFrame(payload, routingInfo)
  PROVE  FrameInv'
<1> DEFINE frame == Encoded(payload)
           first == IF intro = None THEN buildIntro(routingInfo) ELSE << >>
<1>1. payload \in Payloads
  BY DEF SendRawFrame, Encodable, Payloads
<1>2. frame \in ByteSeq /\ buildIntro(routingInfo) \in ByteSeq /\ buildIntro(routingInfo) # None
  BY <1>1, EncodedElements, IntroIsBytes
<1>3. first \in ByteSeq
  <2>1. << >> \in ByteSeq
    BY DEF ByteSeq
  <2>2. QED
    BY <1>2, <2>1
<1>4. encodeFrame(payload, first) = first \o frame
  <2>1. LengthPrefix(Len(payload)) \in ByteSeq /\ payload \in ByteSeq
    BY <1>1, PrefixRead, LenProperties DEF Payloads, ByteSeq
  <2> HIDE DEF first
  <2>2. (first \o LengthPrefix(Len(payload))) \o payload = first \o (LengthPrefix(Len(payload)) \o payload)
    BY <1>3, <2>1, Associative
  <2>3. QED
    BY <2>2 DEF encodeFrame, Encoded
<1>5. /\ stream' = stream \o (first \o frame) /\ sent' = Append(sent, payload)
      /\ intro' = (IF intro = None THEN buildIntro(routingInfo) ELSE intro)
      /\ stripped' = stripped /\ buffered' = buffered /\ frames' = frames
  BY <1>4 DEF SendRawFrame
<1>6. /\ stream \in ByteSeq /\ buffered \in ByteSeq /\ stripped \in BOOLEAN
      /\ sent \in Seq(Payloads) /\ frames \in Seq(Payloads)
  BY DEF FrameInv, FrameTypes
<1>7. first \o frame \in ByteSeq /\ (intro # None => first \o frame = frame)
  <2>1. << >> \o frame = frame
    BY <1>2, ConcatEmptySeq DEF ByteSeq
  <2>2. first \o frame \in ByteSeq
    <3> HIDE DEF first, frame
    <3> QED BY <1>2, <1>3, ConcatProperties DEF ByteSeq
  <2>3. QED
    BY <2>1, <2>2
<1> HIDE DEF frame, first
<1>8. FrameTypes'
  <2>1. stream \o (first \o frame) \in ByteSeq
    BY <1>6, <1>7, ConcatProperties DEF ByteSeq
  <2>2. Append(sent, payload) \in Seq(Payloads)
    BY <1>1, <1>6, AppendProperties
  <2>3. QED
    BY <1>5, <1>6, <2>1, <2>2 DEF FrameTypes
<1>9. intro' # None
  BY <1>2, <1>5
<1>10. IntroFirst'
  <2>1. SUFFICES ASSUME ~stripped
                 PROVE  /\ frames = << >> /\ buffered = << >>
                        /\ \E info \in RoutingInfos, body \in ByteSeq :
                             stream' = buildIntro(info) \o body /\ Carries(body, sent')
    BY <1>5, <1>9 DEF IntroFirst
  <2>2. frames = << >> /\ buffered = << >>
    BY <2>1 DEF FrameInv, IntroFirst
  <2>3. CASE intro = None
    <3>1. stream = << >> /\ sent = << >>
      BY <2>3 DEF FrameInv, NothingYet
    <3>2. Carries(<< >> \o frame, Append(<< >>, payload))
      <4>1. << >> \in Seq(Payloads) /\ Carries(<< >>, << >>)
        BY CarriesNothing
      <4>2. QED
        BY <1>1, <4>1, CarriesOneMore DEF frame
    <3>3. << >> \o frame = frame /\ << >> \o (first \o frame) = first \o frame
      BY <1>2, <1>7, ConcatEmptySeq DEF ByteSeq
    <3>4. stream' = buildIntro(routingInfo) \o frame
      BY <1>5, <2>3, <3>1, <3>3 DEF first
    <3>5. Carries(frame, sent')
      BY <1>5, <3>1, <3>2, <3>3
    <3>6. QED
      BY <1>2, <2>2, <3>4, <3>5
  <2>4. CASE intro # None
    <3>1. PICK info \in RoutingInfos, body \in ByteSeq : stream = buildIntro(info) \o body /\ Carries(body, sent)
      BY <2>1, <2>4 DEF FrameInv, IntroFirst
    <3>2. body \o frame \in ByteSeq /\ Carries(body \o frame, Append(sent, payload))
      BY <1>1, <1>6, <3>1, CarriesOneMore DEF frame
    <3>3. (buildIntro(info) \o body) \o frame = buildIntro(info) \o (body \o frame)
      <4>1. buildIntro(info) \in ByteSeq
        BY <3>1, IntroIsBytes
      <4>2. QED
        BY <1>2, <3>1, <4>1, Associative
    <3>4. stream' = buildIntro(info) \o (body \o frame)
      BY <1>5, <1>7, <2>4, <3>1, <3>3
    <3>5. QED
      BY <1>5, <2>2, <3>1, <3>2, <3>4
  <2>5. QED
    BY <2>3, <2>4
<1>11. TheRestOnTheWay'
  <2>1. ~HasFrame(buffered)
    BY DEF FrameInv, TheRestOnTheWay
  <2>2. SUFFICES ASSUME stripped
                 PROVE  \E later \in Seq(Payloads) : sent' = frames \o later /\ Carries(buffered \o stream', later)
    BY <1>5, <2>1 DEF TheRestOnTheWay
  <2>3. intro # None
    BY <2>2 DEF FrameInv, NothingYet
  <2>4. PICK later \in Seq(Payloads) : sent = frames \o later /\ Carries(buffered \o stream, later)
    BY <2>2 DEF FrameInv, TheRestOnTheWay
  <2>5. Append(later, payload) \in Seq(Payloads) /\ Carries((buffered \o stream) \o frame, Append(later, payload))
    BY <1>1, <2>4, CarriesOneMore DEF frame
  <2>6. (buffered \o stream) \o frame = buffered \o (stream \o frame)
    BY <1>2, <1>6, Associative
  <2>7. Append(sent, payload) = frames \o Append(later, payload)
    <3> DEFINE one == <<payload>>
    <3>1. one \in Seq(Payloads)
      BY <1>1
    <3>2. Append(sent, payload) = sent \o one /\ Append(later, payload) = later \o one
      BY <1>1, <1>6, AppendIsConcat
    <3> HIDE DEF one
    <3>3. (frames \o later) \o one = frames \o (later \o one)
      BY <1>6, <3>1, Associative
    <3>4. QED
      BY <2>4, <3>2, <3>3
  <2>8. sent' = frames \o Append(later, payload) /\ Carries(buffered \o stream', Append(later, payload))
    BY <1>5, <1>7, <2>3, <2>5, <2>6, <2>7
  <2>9. QED
    BY <2>5, <2>8
<1>12. QED
  BY <1>8, <1>9, <1>10, <1>11 DEF FrameInv, NothingYet

\* The receiver takes off the intro and nothing else.
LEMMA StripKeeps ==
  ASSUME FrameInv, StripIntro
  PROVE  FrameInv'
<1>1. /\ stream # << >> /\ ~stripped /\ stripped' = TRUE
      /\ stream' = SubSeq(Routed(stream), Len(WaHeader) + 1, Len(Routed(stream)))
      /\ intro' = intro /\ buffered' = buffered /\ sent' = sent /\ frames' = frames
  BY DEF StripIntro
<1>2. intro # None
  BY <1>1 DEF FrameInv, NothingYet
<1>3. frames = << >> /\ buffered = << >>
  BY <1>1 DEF FrameInv, IntroFirst
<1>4. PICK routingInfo \in RoutingInfos, body \in ByteSeq :
        stream = buildIntro(routingInfo) \o body /\ Carries(body, sent)
  BY <1>1, <1>2 DEF FrameInv, IntroFirst
<1>5. Routed(stream) = WaHeader \o body
  BY <1>4, RoutedHeader
<1>6. stream' = body
  <2>1. WaHeader \in ByteSeq
    BY <1>4, IntroIsBytes
  <2>2. SubSeq(WaHeader \o body, Len(WaHeader) + 1, Len(WaHeader \o body)) = body
    BY <1>4, <2>1, BehindPrefix DEF ByteSeq
  <2>3. QED
    BY <1>1, <1>5, <2>2
<1>7. /\ buffered \in ByteSeq /\ sent \in Seq(Payloads) /\ frames \in Seq(Payloads) /\ ~HasFrame(buffered)
  BY DEF FrameInv, FrameTypes, TheRestOnTheWay
<1>8. << >> \o sent = sent /\ << >> \o body = body
  BY <1>4, <1>7, ConcatEmptySeq DEF ByteSeq
<1>9. sent' = frames' \o sent /\ Carries(buffered' \o stream', sent)
  BY <1>1, <1>3, <1>4, <1>6, <1>8
<1>10. TheRestOnTheWay'
  BY <1>1, <1>7, <1>9 DEF TheRestOnTheWay
<1>11. FrameTypes' /\ NothingYet' /\ IntroFirst'
  BY <1>1, <1>2, <1>4, <1>6, <1>7 DEF FrameTypes, NothingYet, IntroFirst
<1>12. QED
  BY <1>10, <1>11 DEF FrameInv

\* A chunk, however long it is.
LEMMA PushKeeps ==
  ASSUME FrameInv, NEW n \in Chunks, Push(n)
  PROVE  FrameInv'
<1> DEFINE chunk == SubSeq(stream, 1, n)
           behind == SubSeq(stream, n + 1, Len(stream))
           x == buffered \o chunk
<1>1. /\ stripped /\ buffered' = Unframe[x].rest /\ frames' = frames \o Unframe[x].frames
      /\ stream' = behind /\ intro' = intro /\ stripped' = stripped /\ sent' = sent
  BY DEF Push
<1>2. /\ stream \in ByteSeq /\ buffered \in ByteSeq /\ sent \in Seq(Payloads) /\ frames \in Seq(Payloads)
  BY DEF FrameInv, FrameTypes
<1>3. chunk \in ByteSeq /\ behind \in ByteSeq /\ chunk \o behind = stream
  <2>1. n \in 1 .. Len(stream) /\ Len(stream) \in Nat /\ \A i \in 1 .. Len(stream) : stream[i] \in 0 .. Base - 1
    BY <1>2, LenProperties, ElementOfSeq DEF Chunks, ByteSeq
  <2>2. chunk \in ByteSeq
    <3>1. \A i \in 1 .. n : stream[i] \in 0 .. Base - 1
      BY <2>1
    <3>2. QED
      BY <2>1, <3>1, SubSeqProperties DEF ByteSeq
  <2>3. behind \in ByteSeq
    <3>1. n + 1 \in Int /\ \A i \in n + 1 .. Len(stream) : stream[i] \in 0 .. Base - 1
      BY <2>1
    <3>2. QED
      BY <2>1, <3>1, SubSeqProperties DEF ByteSeq
  <2>4. chunk \o behind = SubSeq(stream, 1, Len(stream))
    <3>1. 1 \in 1 .. Len(stream) + 1 /\ n \in 1 - 1 .. Len(stream) /\ Len(stream) \in n .. Len(stream)
      BY <2>1
    <3>2. QED
      BY <1>2, <3>1, ConcatAdjacentSubSeq DEF ByteSeq
  <2>5. SubSeq(stream, 1, Len(stream)) = stream
    BY <1>2, SubSeqFull DEF ByteSeq
  <2>6. QED
    BY <2>2, <2>3, <2>4, <2>5
<1> HIDE DEF chunk, behind
<1>4. x \in ByteSeq
  BY <1>2, <1>3, ConcatProperties DEF ByteSeq
<1>5. x \o behind = buffered \o stream
  <2>1. (buffered \o chunk) \o behind = buffered \o (chunk \o behind)
    BY <1>2, <1>3, Associative
  <2>2. QED
    BY <1>3, <2>1
<1>6. PICK waiting \in Seq(Payloads) : sent = frames \o waiting /\ Carries(buffered \o stream, waiting)
  BY <1>1 DEF FrameInv, TheRestOnTheWay
<1> HIDE DEF x
<1>7. Carries(x \o behind, waiting)
  BY <1>5, <1>6
<1>8. Unframe[x].rest \in ByteSeq /\ ~HasFrame(Unframe[x].rest) /\ Unframe[x].frames \in Seq(Payloads)
  BY <1>3, <1>4, <1>6, <1>7, UnframeTakes
<1>9. PICK later \in Seq(Payloads) : waiting = Unframe[x].frames \o later /\ Carries(Unframe[x].rest \o behind, later)
  BY <1>3, <1>4, <1>6, <1>7, UnframeTakes
<1> DEFINE out == Unframe[x].frames
<1>10. out \in Seq(Payloads) /\ waiting = out \o later
  BY <1>8, <1>9
<1>11. frames' = frames \o out
  BY <1>1
<1> HIDE DEF out
<1>12. (frames \o out) \o later = frames \o (out \o later)
  BY <1>2, <1>9, <1>10, Associative
<1>13. sent' = frames' \o later /\ Carries(buffered' \o stream', later)
  BY <1>1, <1>6, <1>9, <1>10, <1>11, <1>12
<1>14. TheRestOnTheWay'
  BY <1>1, <1>8, <1>9, <1>13 DEF TheRestOnTheWay
<1>15. frames \o out \in Seq(Payloads)
  BY <1>2, <1>10, ConcatProperties
<1>16. FrameTypes'
  BY <1>1, <1>2, <1>3, <1>8, <1>11, <1>15 DEF FrameTypes, FrameInv
<1>17. NothingYet' /\ IntroFirst'
  BY <1>1 DEF FrameInv, NothingYet, IntroFirst
<1>18. QED
  BY <1>14, <1>16, <1>17 DEF FrameInv

\* What the invariant says of the frames that are out.
LEMMA FramesAreInOrder == FrameInv => FramesInOrder
<1> SUFFICES ASSUME FrameInv PROVE FramesInOrder
  OBVIOUS
<1>1. /\ stream \in ByteSeq /\ buffered \in ByteSeq /\ sent \in Seq(Payloads) /\ frames \in Seq(Payloads)
      /\ ~HasFrame(buffered)
  BY DEF FrameInv, FrameTypes, TheRestOnTheWay
<1>2. CASE ~stripped
  <2>1. frames = << >> /\ << >> \o sent = sent
    BY <1>1, <1>2, ConcatEmptySeq DEF FrameInv, IntroFirst
  <2>2. IsPrefix(<< >>, << >> \o sent)
    <3>1. << >> \in Seq(Payloads)
      OBVIOUS
    <3>2. QED
      BY <1>1, <3>1, BehindPrefix
  <2>3. QED
    BY <1>2, <2>1, <2>2 DEF FramesInOrder
<1>3. CASE stripped
  <2>1. PICK later \in Seq(Payloads) : sent = frames \o later /\ Carries(buffered \o stream, later)
    BY <1>3 DEF FrameInv, TheRestOnTheWay
  <2>2. IsPrefix(frames, sent)
    BY <1>1, <2>1, BehindPrefix
  <2>3. ASSUME stream = << >> PROVE frames = sent /\ buffered = << >>
    <3>1. buffered \o stream = buffered
      BY <1>1, <2>3, ConcatEmptySeq DEF ByteSeq
    <3>2. buffered = << >> /\ later = << >>
      BY <1>1, <2>1, <3>1, NoFrameNoPayload
    <3>3. frames \o << >> = frames
      BY <1>1, ConcatEmptySeq
    <3>4. QED
      BY <2>1, <3>2, <3>3
  <2>4. QED
    BY <1>1, <2>2, <2>3 DEF FramesInOrder
<1>4. QED
  BY <1>2, <1>3

\* However the stream is cut, and whatever it carries: the frames that come out are
\* the first of those that went in, and no complete one stays behind in the decoder.
THEOREM FramesComeInOrder == FrameSpec => []FramesInOrder
<1>1. FrameInit => FrameInv
  BY FrameInitInv
<1>2. FrameInv /\ [FrameNext]_vars => FrameInv'
  <2> SUFFICES ASSUME FrameInv, [FrameNext]_vars PROVE FrameInv'
    OBVIOUS
  <2>1. ASSUME NEW payload \in ByteSeq, NEW routingInfo \in RoutingInfos, SendRawFrame(payload, routingInfo)
        PROVE  FrameInv'
    BY <2>1, SendKeeps
  <2>2. CASE StripIntro
    BY <2>2, StripKeeps
  <2>3. ASSUME NEW n \in Chunks, Push(n) PROVE FrameInv'
    BY <2>3, PushKeeps
  <2>4. CASE UNCHANGED vars
    BY <2>4 DEF vars, FrameInv, FrameTypes, NothingYet, IntroFirst, TheRestOnTheWay
  <2>5. QED
    BY <2>1, <2>2, <2>3, <2>4 DEF FrameNext, ByteSeq
<1>3. QED
  BY <1>1, <1>2, FramesAreInOrder, PTL DEF FrameSpec
=============================================================================
