----------------------------- MODULE ProtoWire -----------------------------
(***************************************************************************)
(* The protobuf runtime: the wire format, and on top of it messages that   *)
(* are described by tables of fields.                                      *)
(*                                                                         *)
(* Pure operators.  The widths are constants, in the proportions of the    *)
(* code: a varint group of GroupBits bits in a byte of one more, a short   *)
(* word and a long one of so many bytes.  A string is its UTF-8, a float   *)
(* its bit pattern.  A reader is the set of its outcomes, each a value and *)
(* the bytes left: empty when it throws.                                   *)
(***************************************************************************)
EXTENDS Integers, SequencesExt

CONSTANTS
  GroupBits,  \* 7
  Short,      \* bytes of a 32-bit word: 4
  Long        \* bytes of a 64-bit word: 8

ASSUME WireAssumption ==
  /\ GroupBits \in Nat /\ GroupBits >= 3    \* a group holds a wire type
  /\ Short \in Nat \ {0} /\ Long >= Short

VARINT == 0
FIXED64 == 1
LENGTH_DELIMITED == 2
FIXED32 == 5

Group == 2 ^ GroupBits
Byte == 2 * Group
LongBits == Long * (GroupBits + 1)
ShortMod == Byte ^ Short
LongMod == Byte ^ Long

----------------------------------------------------------------------------
(* The wire.                                                               *)

Got(value, rest) == {[value |-> value, rest |-> rest]}
Drop(n, bytes) == SubSeq(bytes, n + 1, Len(bytes))

\* Groups from the low one on, each but the last with the high bit set.
groups[v \in Nat] == IF v < Group THEN <<v>> ELSE <<(v % Group) + Group>> \o groups[v \div Group]

\* "Negative integers are encoded as two's complement over 64 bits."
varint(value) == groups[IF value < 0 THEN value + LongMod ELSE value]

\* It throws at the end of the bytes, and when a group starts past the long word.
readVarint(bytes) ==
  LET last == SelectInSeq(bytes, LAMBDA b : b < Group)
  IN  IF last = 0 \/ (last - 1) * GroupBits > LongBits - 1 THEN {}
      ELSE Got(FoldRight(LAMBDA b, v : v * Group + (b % Group), SubSeq(bytes, 1, last), 0), Drop(last, bytes))

\* Little-endian words.
fixed(value, size) == [i \in 1 .. size |-> (value \div Byte ^ (i - 1)) % Byte]
readFixed(size, bytes) ==
  IF Len(bytes) < size THEN {}
  ELSE Got(FoldRight(LAMBDA b, v : v * Byte + b, SubSeq(bytes, 1, size), 0), Drop(size, bytes))

sized(bytes) == varint(Len(bytes)) \o bytes

\* A slip in readSized: the end of the bytes is not looked at.
Overrunning(bytes) ==
  UNION {Got(SubSeq(length.rest, 1, Min({length.value, Len(length.rest)})), Drop(length.value, length.rest)) :
           length \in readVarint(bytes)}

readSized(bytes) ==
  UNION {IF length.value > Len(length.rest) THEN {}
         ELSE Got(SubSeq(length.rest, 1, length.value), Drop(length.value, length.rest)) :
           length \in readVarint(bytes)}

\* "Skips an unknown field while keeping the stream aligned."  The words are not
\* checked against the end.
skip(wireType, bytes) ==
  CASE wireType = VARINT           -> {read.rest : read \in readVarint(bytes)}
    [] wireType = FIXED64          -> {Drop(Long, bytes)}
    [] wireType = LENGTH_DELIMITED -> {read.rest : read \in readSized(bytes)}
    [] wireType = FIXED32          -> {Drop(Short, bytes)}
    [] OTHER                       -> {}

\* (fieldNumber << 3) | wireType, and back with >>> 3, which keeps a short word.
tag(fieldNumber, wireType) == varint(fieldNumber * 8 + wireType)
readTag(bytes) ==
  {[read EXCEPT !.value = <<(@ % ShortMod) \div 8, @ % 8>>] : read \in readVarint(bytes)}

\* v ^ (v >> 63) of a doubled v; and back.
zigzagEncode(v) == IF v >= 0 THEN 2 * v ELSE -(2 * v) - 1
zigzagDecode(v) == IF v % 2 = 0 THEN v \div 2 ELSE -(v \div 2) - 1

\* BigInt.asIntN, and | 0.
Signed(v, modulus) == IF v % modulus < modulus \div 2 THEN v % modulus ELSE (v % modulus) - modulus

----------------------------------------------------------------------------
(* Messages.  A table gives the fields of each message by its name; the    *)
(* type of a field is a scalar or the name of a message.                   *)

f(key, id, type) == [key |-> key, id |-> id, type |-> type, repeated |-> FALSE]
r(key, id, type) == [key |-> key, id |-> id, type |-> type, repeated |-> TRUE]

VARINT_TYPES == {"uint32", "uint64", "int32", "int64", "bool", "enum"}
ZIGZAG_TYPES == {"sint32", "sint64"}
FIXED32_TYPES == {"fixed32", "sfixed32", "float"}
FIXED64_TYPES == {"fixed64", "sfixed64", "double"}
IsMessage(table, type) == type \in DOMAIN table

wireTypeOf(type) ==
  CASE type \in VARINT_TYPES \union ZIGZAG_TYPES -> VARINT
    [] type \in FIXED32_TYPES                    -> FIXED32
    [] type \in FIXED64_TYPES                    -> FIXED64
    [] OTHER                                     -> LENGTH_DELIMITED

writeScalar(type, value) ==
  CASE type \in {"bytes", "string"} -> sized(value)
    [] type \in ZIGZAG_TYPES        -> varint(zigzagEncode(value))
    [] type \in FIXED32_TYPES       -> fixed(value % ShortMod, Short)
    [] type \in FIXED64_TYPES       -> fixed(value, Long)
    [] type = "bool"                -> varint(IF value THEN 1 ELSE 0)
    [] OTHER                        -> varint(value)

\* Fields in the order of the table; absent ones are left out, and a repeated one
\* has a tag for each item.
RECURSIVE encode(_, _, _)
writeValue(table, type, value) == IF IsMessage(table, type) THEN sized(encode(table, type, value)) ELSE writeScalar(type, value)

encode(table, name, value) ==
  FlattenSeq([i \in DOMAIN table[name] |->
    LET field == table[name][i]
        items == IF field.key \notin DOMAIN value THEN << >>
                 ELSE IF field.repeated THEN value[field.key] ELSE <<value[field.key]>>
    IN  FlattenSeq([j \in DOMAIN items |->
          tag(field.id, wireTypeOf(field.type)) \o writeValue(table, field.type, items[j])])])

\* A slip in readInt32: the value is taken as it is written.
UnsignedInt32(v) == v

readInt32(v) == Signed(v, LongMod)

readScalar(type, wireType, bytes) ==
  CASE type \in {"bytes", "string"} -> readSized(bytes)
    [] type = "bool"                -> {[read EXCEPT !.value = (@ # 0)] : read \in readVarint(bytes)}
    [] type \in {"uint64", "int64", "fixed64", "sfixed64"} ->
         IF wireType = FIXED64 THEN readFixed(Long, bytes) ELSE readVarint(bytes)
    [] type \in ZIGZAG_TYPES        -> {[read EXCEPT !.value = zigzagDecode(@)] : read \in readVarint(bytes)}
    [] type = "int32"               -> {[read EXCEPT !.value = readInt32(@)] : read \in readVarint(bytes)}
    [] type = "double"              -> readFixed(Long, bytes)
    [] type \in {"float", "fixed32"} -> readFixed(Short, bytes)
    [] type = "sfixed32"            -> {[read EXCEPT !.value = Signed(@, ShortMod)] : read \in readFixed(Short, bytes)}
    [] OTHER                        -> readVarint(bytes)

\* "repeated scalar fields may arrive packed into a single block."
IsPacked(table, field, wireType) ==
  /\ ~IsMessage(table, field.type)
  /\ wireType = LENGTH_DELIMITED /\ wireTypeOf(field.type) # LENGTH_DELIMITED

RECURSIVE readPacked(_, _, _)
readPacked(type, items, bytes) ==
  IF bytes = << >> THEN {items}
  ELSE UNION {readPacked(type, Append(items, read.value), read.rest) :
                read \in readScalar(type, wireTypeOf(type), bytes)}

\* The value with the key set.
Set(out, key, value) == [k \in DOMAIN out \union {key} |-> IF k = key THEN value ELSE out[k]]
Items(out, key) == IF key \in DOMAIN out THEN out[key] ELSE << >>

RECURSIVE decodeFields(_, _, _, _)
decode(table, name, bytes) == decodeFields(table, name, [k \in {} |-> 0], bytes)

readValue(table, type, wireType, bytes) ==
  IF IsMessage(table, type)
  THEN UNION {UNION {Got(value, block.rest) : value \in decode(table, type, block.value)} : block \in readSized(bytes)}
  ELSE readScalar(type, wireType, bytes)

\* One field into the value read so far: its outcomes are the values it may become.
decodeField(table, field, wireType, out, bytes) ==
  IF ~field.repeated
  THEN {[read EXCEPT !.value = Set(out, field.key, @)] : read \in readValue(table, field.type, wireType, bytes)}
  ELSE IF IsPacked(table, field, wireType)
  THEN UNION {UNION {Got(Set(out, field.key, items), block.rest) :
                       items \in readPacked(field.type, Items(out, field.key), block.value)} :
                block \in readSized(bytes)}
  ELSE {[read EXCEPT !.value = Set(out, field.key, Append(Items(out, field.key), @))] :
          read \in readValue(table, field.type, wireType, bytes)}

\* Fields to the end of the bytes; those the table does not know are skipped.
decodeFields(table, name, out, bytes) ==
  IF bytes = << >> THEN {out}
  ELSE UNION {LET fields == {i \in DOMAIN table[name] : table[name][i].id = head.value[1]}
              IN  IF fields = {}
                  THEN UNION {decodeFields(table, name, out, rest) : rest \in skip(head.value[2], head.rest)}
                  ELSE UNION {decodeFields(table, name, read.value, read.rest) :
                                read \in decodeField(table, table[name][CHOOSE i \in fields : \A j \in fields : i >= j],
                                                     head.value[2], out, head.rest)} :
              head \in readTag(bytes)}
=============================================================================
