----------------------------- MODULE BinaryNode -----------------------------
(***************************************************************************)
(* The binary form of a node: token dictionary, JIDs, packed strings,      *)
(* length classes, lists, and the decoder that reads it back.              *)
(*                                                                         *)
(* Pure operators.  A byte has Nibble * Nibble values and the tags sit at  *)
(* the top of them as in the code, so that every length class is reached   *)
(* by short inputs.  A string is a sequence of characters.  A reader is    *)
(* the set of its outcomes, each a value and the bytes left: empty when    *)
(* it throws.                                                              *)
(***************************************************************************)
EXTENDS Integers, SequencesExt

CONSTANTS
  Nibble,      \* values of half a byte: 16
  Digits,      \* the decimal digits, in order
  HexLetters,  \* the letters that follow them in hexadecimal: A to F
  Letters,     \* other characters of one byte in UTF-8
  Accented,    \* characters of two bytes
  Single,      \* the primary tokens, from index 1 on
  Double,      \* the secondary dictionaries
  NaN,         \* what Number makes of a string that is no number
  Absent       \* an absent optional value

Byte == Nibble * Nibble

ASSUME BinaryAssumption ==
  /\ Nibble \in Nat /\ Nibble % 2 = 0 /\ Byte > 20
  /\ Len(Digits) + Len(HexLetters) = Nibble
  /\ Len(Digits) + 2 < Nibble          \* the pad is no character
  /\ Len(Single) < Byte - 20           \* primary tokens end below the tags
  /\ Len(Double) <= 4 /\ \A d \in DOMAIN Double : Len(Double[d]) <= Byte

----------------------------------------------------------------------------
(* Constants of the format.                                                *)

LIST_EMPTY == 0
DICTIONARY_0 == Byte - 20
AD_JID == Byte - 9
LIST_8 == Byte - 8
LIST_16 == Byte - 7
JID_PAIR == Byte - 6
HEX_8 == Byte - 5
BINARY_8 == Byte - 4
BINARY_20 == Byte - 3
BINARY_32 == Byte - 2
NIBBLE_8 == Byte - 1

PACKED_MAX_LENGTH == Byte \div 2 - 1
PACKED_PAD == Nibble - 1

NIBBLE_CHARS == Digits \o <<"-", ".">>
HEX_CHARS == Digits \o HexLetters

S_WHATSAPP_NET == <<"s">>
LID_SERVER == <<"l">>
C_US == <<"c">>
GROUP_SERVER == <<"g">>

\* UTF-8, cut down to characters of one byte and of two.
Alphabet == Digits \o HexLetters \o Letters \o Accented
code(c) == SelectInSeq(Alphabet, LAMBDA x : x = c)
utf8(string) ==
  FlattenSeq([i \in DOMAIN string |->
    IF Contains(Accented, string[i]) THEN <<Byte - 1, code(string[i])>> ELSE <<code(string[i])>>])
fromUtf8(bytes) ==
  LET codes == SelectSeq(bytes, LAMBDA b : b # Byte - 1) IN [i \in DOMAIN codes |-> Alphabet[codes[i]]]

----------------------------------------------------------------------------
(* Tokens.                                                                 *)

\* "First occurrence wins": the index of a token, 0 when it is not one.
lookupSingleToken(string) ==
  IF string = << >> THEN 0 ELSE SelectInSeq(Single, LAMBDA token : token = string)

DoublePlaces(string) ==
  {p \in (DOMAIN Double) \X (1 .. Byte) : p[2] \in DOMAIN Double[p[1]] /\ Double[p[1]][p[2]] = string}

\* The dictionary and the index in it, counted from 0.
lookupDoubleToken(string) ==
  IF string = << >> \/ DoublePlaces(string) = {} THEN Absent
  ELSE LET first == CHOOSE p \in DoublePlaces(string) :
                      \A q \in DoublePlaces(string) : p[1] < q[1] \/ (p[1] = q[1] /\ p[2] <= q[2])
       IN  <<first[1] - 1, first[2] - 1>>

singleTokenAt(index) == IF Single[index] = Absent THEN {} ELSE {Single[index]}
doubleTokenAt(dictionary, index) ==
  IF dictionary + 1 \in DOMAIN Double /\ index + 1 \in DOMAIN Double[dictionary + 1]
  THEN {Double[dictionary + 1][index + 1]} ELSE {}

----------------------------------------------------------------------------
(* JIDs.                                                                   *)

at(string, c) == SelectInSeq(string, LAMBDA x : x = c)
Before(string, c) == IF at(string, c) = 0 THEN string ELSE SubSeq(string, 1, at(string, c) - 1)
After(string, c) == IF at(string, c) = 0 THEN << >> ELSE SubSeq(string, at(string, c) + 1, Len(string))

IsNumber(string) == string # << >> /\ ToSet(string) \subseteq ToSet(Digits)
digit(c) == at(Digits, c) - 1

\* Number and String, for natural numbers.
Number(string) ==
  IF IsNumber(string) THEN FoldLeft(LAMBDA n, c : n * Len(Digits) + digit(c), 0, string) ELSE NaN
decimal[n \in Nat] ==
  (IF n < Len(Digits) THEN << >> ELSE decimal[n \div Len(Digits)]) \o <<Digits[(n % Len(Digits)) + 1]>>

\* A device, or an agent, of 0 is left out.
Suffix(mark, n) == IF n \in {Absent, 0} THEN << >> ELSE <<mark>> \o decimal[n]
jidEncode(user, server, device, agent) ==
  user \o Suffix("_", agent) \o Suffix(":", device) \o <<"@">> \o server

jidDecode(jid) ==
  IF at(jid, "@") = 0 THEN Absent
  ELSE LET combined  == Before(jid, "@")
           userAgent == Before(combined, ":")
           deviceStr == Before(After(combined, ":"), ":")
           agentStr  == Before(After(userAgent, "_"), "_")
           optional(string) == IF string = << >> THEN Absent ELSE Number(string)
       IN  [user   |-> Before(userAgent, "_"), server |-> After(jid, "@"),
            device |-> optional(deviceStr), agent |-> optional(agentStr)]

jidNormalizedUser(jid) ==
  LET decoded == jidDecode(jid)
  IN  IF decoded = Absent THEN << >>
      ELSE jidEncode(decoded.user, IF decoded.server = C_US THEN S_WHATSAPP_NET ELSE decoded.server,
                     Absent, Absent)

areJidsSameUser(a, b) == jidNormalizedUser(a) = jidNormalizedUser(b)

serverToDomainType(server) ==
  CASE server = S_WHATSAPP_NET -> 0 [] server = LID_SERVER -> 1 [] OTHER -> Absent
domainTypeToServer(domainType) == IF domainType = 1 THEN LID_SERVER ELSE S_WHATSAPP_NET

----------------------------------------------------------------------------
(* The encoder.                                                            *)

\* Big-endian, cut to size bytes.
int(value, size) == [i \in 1 .. size |-> (value \div Byte ^ (size - i)) % Byte]
int20(value) == <<(value \div Byte ^ 2) % Nibble, (value \div Byte) % Byte, value % Byte>>

writeListStart(size) ==
  CASE size = 0               -> <<LIST_EMPTY>>
    [] size \in 1 .. Byte - 1 -> <<LIST_8, size>>
    [] OTHER                  -> <<LIST_16>> \o int(size, 2)

\* It throws from Byte ^ 4 on.
writeByteLength(length) ==
  CASE length >= Byte ^ 2 * Nibble -> <<BINARY_32>> \o int(length, 4)
    [] length < Byte               -> <<BINARY_8, length>>
    [] OTHER                       -> <<BINARY_20>> \o int20(length)

writeBytes(bytes) == writeByteLength(Len(bytes)) \o bytes

\* A slip in writePacked: an odd length is not marked.
PackedUnmarked(string, tag, chars) ==
  LET half == (Len(string) + 1) \div 2
      pack(i) == IF i > Len(string) THEN PACKED_PAD ELSE at(chars, string[i]) - 1
  IN  <<tag, half>> \o [i \in 1 .. half |-> pack(2 * i - 1) * Nibble + pack(2 * i)]

\* Two characters in a byte; the high bit of the length says that the last half
\* is padding.
writePacked(string, tag, chars) ==
  LET half == (Len(string) + 1) \div 2
      pack(i) == IF i > Len(string) THEN PACKED_PAD ELSE at(chars, string[i]) - 1
  IN  <<tag, half + (Len(string) % 2) * (Byte \div 2)>>
        \o [i \in 1 .. half |-> pack(2 * i - 1) * Nibble + pack(2 * i)]

Packs(string, chars) ==
  string # << >> /\ Len(string) <= PACKED_MAX_LENGTH /\ ToSet(string) \subseteq ToSet(chars)

writeStringRaw(string) ==
  CASE Packs(string, NIBBLE_CHARS) -> writePacked(string, NIBBLE_8, NIBBLE_CHARS)
    [] Packs(string, HEX_CHARS) /\ ~Packs(string, NIBBLE_CHARS) -> writePacked(string, HEX_8, HEX_CHARS)
    [] OTHER -> writeBytes(utf8(string))

\* A device number is cut to a byte.
deviceByte(device) == IF device = NaN THEN 0 ELSE device % Byte

\* A token, or a JID, or plain text.  The parts of a JID are strings themselves;
\* only a device of the two domains has the short form.
RECURSIVE writeString(_)
writeString(string) ==
  LET single == lookupSingleToken(string)
      double == lookupDoubleToken(string)
      jid    == jidDecode(string)
      domain == serverToDomainType(jid.server)
  IN  IF single # 0 THEN <<single>>
      ELSE IF double # Absent THEN <<DICTIONARY_0 + double[1], double[2]>>
      ELSE IF jid = Absent THEN writeStringRaw(string)
      ELSE IF jid.device # Absent /\ domain # Absent
      THEN <<AD_JID, domain, deviceByte(jid.device)>> \o writeString(jid.user)
      ELSE <<JID_PAIR>> \o (IF jid.user = << >> THEN <<LIST_EMPTY>> ELSE writeString(jid.user))
             \o writeString(jid.server)

\* A node is a list: the tag, keys and values in turn, and the content.
\* Attributes without a value are left out.
Present(attrs) == SelectSeq(attrs, LAMBDA attr : attr[2] # Absent)

RECURSIVE writeNode(_)
writeContent(content) ==
  CASE content.kind = "text"  -> writeString(content.value)
    [] content.kind = "bytes" -> writeBytes(content.value)
    [] content.kind = "list"  -> writeListStart(Len(content.value))
         \o FlattenSeq([i \in DOMAIN content.value |-> writeNode(content.value[i])])

writeNode(node) ==
  LET attrs == Present(node.attrs)
      items == 2 * Len(attrs) + 1 + (IF node.content = Absent THEN 0 ELSE 1)
  IN  writeListStart(items) \o writeString(node.tag)
        \o FlattenSeq([i \in DOMAIN attrs |-> writeString(attrs[i][1]) \o writeString(attrs[i][2])])
        \o (IF node.content = Absent THEN << >> ELSE writeContent(node.content))

\* The flag byte says that the rest is not compressed.
encodeBinaryNode(node) == <<0>> \o writeNode(node)

----------------------------------------------------------------------------
(* The decoder.                                                            *)

Got(value, rest) == {[value |-> value, rest |-> rest]}

\* A slip in byte: past the end it reads 0.
ByteOrZero(bytes) == IF bytes = << >> THEN Got(0, << >>) ELSE Got(Head(bytes), Tail(bytes))

byte(bytes) == IF bytes = << >> THEN {} ELSE Got(Head(bytes), Tail(bytes))
readBytes(length, bytes) ==
  IF length > Len(bytes) THEN {}
  ELSE Got(SubSeq(bytes, 1, length), SubSeq(bytes, length + 1, Len(bytes)))

\* int, and int20, whose first byte has four bits that count.
BigEndian(digits) == FoldLeft(LAMBDA n, b : n * Byte + b, 0, digits)
readInt(size, bytes) == {[read EXCEPT !.value = BigEndian(@)] : read \in readBytes(size, bytes)}
readInt20(bytes) ==
  {[read EXCEPT !.value = BigEndian([@ EXCEPT ![1] = @ % Nibble])] : read \in readBytes(3, bytes)}

readListSize(tag, bytes) ==
  CASE tag = LIST_EMPTY -> Got(0, bytes)
    [] tag = LIST_8     -> byte(bytes)
    [] tag = LIST_16    -> readInt(2, bytes)
    [] OTHER            -> {}

\* Length-delimited bytes.
readSized(tag, bytes) ==
  UNION {readBytes(length.value, length.rest) :
           length \in CASE tag = BINARY_8  -> byte(bytes)
                        [] tag = BINARY_20 -> readInt20(bytes)
                        [] tag = BINARY_32 -> readInt(4, bytes)}

\* unpackNibble and unpackHex; a pad in the middle is the NUL character.
unpack(tag, value) ==
  LET chars == IF tag = NIBBLE_8 THEN NIBBLE_CHARS ELSE HEX_CHARS
  IN  IF value < Len(chars) THEN {chars[value + 1]} ELSE IF value = PACKED_PAD THEN {"NUL"} ELSE {}

readPacked(tag, bytes) ==
  UNION {LET half  == start.value % (Byte \div 2)
             odd   == start.value \div (Byte \div 2)
             value(b) == [i \in 1 .. 2 * half |->
                            unpack(tag, IF i % 2 = 1 THEN b[(i + 1) \div 2] \div Nibble
                                        ELSE b[i \div 2] % Nibble)]
         IN  {[value |-> [i \in 1 .. 2 * half - odd |-> CHOOSE c \in value(read.value)[i] : TRUE],
               rest  |-> read.rest] :
                read \in {r \in readBytes(half, start.rest) :
                            \A i \in 1 .. 2 * half : value(r.value)[i] # {}}} :
           start \in byte(bytes)}

\* A string whose tag has been read, and one whose tag has not.
RECURSIVE readString(_, _)
readTagged(bytes) == UNION {readString(tag.value, tag.rest) : tag \in byte(bytes)}

readJidPair(bytes) ==
  UNION {{[server EXCEPT !.value = jidEncode(user.value, @, Absent, Absent)] :
            server \in {s \in readTagged(user.rest) : s.value # << >>}} :
           user \in readTagged(bytes)}

readAdJid(bytes) ==
  UNION {{[user EXCEPT !.value = jidEncode(@, domainTypeToServer(head.value[1]), head.value[2], Absent)] :
            user \in readTagged(head.rest)} :
           head \in readBytes(2, bytes)}

readString(tag, bytes) ==
  CASE tag \in DOMAIN Single -> UNION {Got(token, bytes) : token \in singleTokenAt(tag)}
    [] tag \in DICTIONARY_0 .. DICTIONARY_0 + 3 ->
         UNION {UNION {Got(token, index.rest) : token \in doubleTokenAt(tag - DICTIONARY_0, index.value)} :
                  index \in byte(bytes)}
    [] tag = LIST_EMPTY -> Got(<< >>, bytes)
    [] tag \in {BINARY_8, BINARY_20, BINARY_32} ->
         {[read EXCEPT !.value = fromUtf8(@)] : read \in readSized(tag, bytes)}
    [] tag = JID_PAIR -> readJidPair(bytes)
    [] tag = AD_JID -> readAdJid(bytes)
    [] tag \in {HEX_8, NIBBLE_8} -> readPacked(tag, bytes)
    [] OTHER -> {}

\* count keys and values; a key that comes again replaces its value.
Assign(attrs, key, value) ==
  LET place == SelectInSeq(attrs, LAMBDA attr : attr[1] = key)
  IN  IF place = 0 THEN Append(attrs, <<key, value>>) ELSE [attrs EXCEPT ![place][2] = value]

RECURSIVE readAttrs(_, _, _)
readAttrs(count, attrs, bytes) ==
  IF count = 0 THEN Got(attrs, bytes)
  ELSE UNION {UNION {readAttrs(count - 1, Assign(attrs, key.value, value.value), value.rest) :
                       value \in readTagged(key.rest)} : key \in readTagged(bytes)}

RECURSIVE readNode(_)
RECURSIVE readNodes(_, _, _)
readNodes(count, nodes, bytes) ==
  IF count = 0 THEN Got(nodes, bytes)
  ELSE UNION {readNodes(count - 1, Append(nodes, node.value), node.rest) : node \in readNode(bytes)}

\* "Length-delimited content always comes back as a Buffer, never a string."
readContent(tag, bytes) ==
  CASE tag \in {LIST_EMPTY, LIST_8, LIST_16} ->
         UNION {{[read EXCEPT !.value = [kind |-> "list", value |-> @]] :
                   read \in readNodes(size.value, << >>, size.rest)} : size \in readListSize(tag, bytes)}
    [] tag \in {BINARY_8, BINARY_20, BINARY_32} ->
         {[read EXCEPT !.value = [kind |-> "bytes", value |-> @]] : read \in readSized(tag, bytes)}
    [] OTHER -> {[read EXCEPT !.value = [kind |-> "text", value |-> @]] : read \in readString(tag, bytes)}

\* The list size, the tag, and (size - 1) div 2 attributes.
readHeader(bytes) ==
  UNION {UNION {UNION {{[attrs EXCEPT !.value = [size |-> size.value, tag |-> tag.value, attrs |-> @]] :
                          attrs \in readAttrs((size.value - 1) \div 2, << >>, tag.rest)} :
                         tag \in {t \in readTagged(size.rest) : size.value # 0 /\ t.value # << >>}} :
                  size \in readListSize(first.value, first.rest)} :
           first \in byte(bytes)}

\* A list of even size ends with the content.
readNode(bytes) ==
  UNION {LET node(content) == [tag |-> header.value.tag, attrs |-> header.value.attrs, content |-> content]
         IN  IF header.value.size % 2 = 1 THEN Got(node(Absent), header.rest)
             ELSE UNION {{[read EXCEPT !.value = node(@)] : read \in readContent(tag.value, tag.rest)} :
                           tag \in byte(header.rest)} :
           header \in readHeader(bytes)}

\* zlib is a library: any pair of inverse functions.
deflateSync(bytes) == Reverse(bytes)
inflateSync(bytes) == Reverse(bytes)

\* The outcomes of decodeBinaryNode, with what it leaves unread.
decodeBinaryNode(frame) ==
  IF frame = << >> THEN {}
  ELSE readNode(IF (frame[1] \div 2) % 2 = 1 THEN inflateSync(Tail(frame)) ELSE Tail(frame))
=============================================================================
