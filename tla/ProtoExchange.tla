--------------------------- MODULE ProtoExchange ---------------------------
(***************************************************************************)
(* Protobuf messages from a writer to a reader.  The writer may be another *)
(* implementation, which knows fields the reader does not, packs its       *)
(* repeated numbers and has an order of its own; the bytes may be cut      *)
(* short.  Signal messages are also sealed, and opened by whoever gets     *)
(* them with whatever key they try.                                        *)
(***************************************************************************)
EXTENDS SignalWire

CONSTANTS
  Subjects,    \* [name, value]: messages that are sent
  Own,         \* tables beside those of the program, as the tests define
  Seals,       \* [key, sender, receiver]: a MAC key and the two identities
  LongestCut   \* bound: messages of which every prefix is tried

Known == Tables @@ Own

VARIABLES
  subject,  \* what is sent
  unknown,  \* ids of its fields the reader does not know
  wire,     \* [version, body, mac]: the bytes
  whole,    \* nothing is cut off
  seal,     \* history: what the MAC was made with
  tried,    \* what the reader checks it with
  read      \* what the reader makes of it: a set of outcomes
vars == <<subject, unknown, wire, whole, seal, tried, read>>

Plain(body) == [version |-> None, body |-> body, mac |-> None]
FieldOf(key) == CHOOSE i \in DOMAIN Known[subject.name] : Known[subject.name][i].key = key
Present == {Known[subject.name][FieldOf(key)] : key \in DOMAIN subject.value}

\* The tables of a reader that lacks some fields of the message.
Older == ("older" :> SelectSeq(Known[subject.name], LAMBDA field : field.id \notin unknown)) @@ Known

Init ==
  /\ subject \in Subjects
  /\ unknown \in {{}} \union {{field.id} : field \in Present} \union {{field.id : field \in Present}}
  /\ wire = None /\ whole = TRUE /\ seal = None /\ tried = None /\ read = None

----------------------------------------------------------------------------
Write ==
  /\ wire = None
  /\ wire' = Plain(encode(Known, subject.name, subject.value))
  /\ UNCHANGED <<subject, unknown, whole, seal, tried, read>>

\* Another implementation: fields from the last to the first, repeated numbers in
\* one block.
PeerField(field) ==
  LET items  == IF field.repeated THEN subject.value[field.key] ELSE <<subject.value[field.key]>>
      values == [i \in DOMAIN items |-> writeValue(Known, field.type, items[i])]
  IN  IF field.repeated /\ wireTypeOf(field.type) # LENGTH_DELIMITED
      THEN IF items = << >> THEN << >> ELSE tag(field.id, LENGTH_DELIMITED) \o sized(FlattenSeq(values))
      ELSE FlattenSeq([i \in DOMAIN values |-> tag(field.id, wireTypeOf(field.type)) \o values[i]])

PeerWrites ==
  /\ wire = None
  /\ LET fields == Reverse(SelectSeq(Known[subject.name], LAMBDA field : field \in Present))
     IN  wire' = Plain(FlattenSeq([i \in DOMAIN fields |-> PeerField(fields[i])]))
  /\ UNCHANGED <<subject, unknown, whole, seal, tried, read>>

Seal(with) ==
  /\ wire = None /\ subject.name = "SignalMessage" /\ DOMAIN subject.value = {field.key : field \in Range(SignalMessage)}
  /\ wire' = serializeSignalMessage(subject.value, with.key, with.sender, with.receiver)
  /\ seal' = with
  /\ UNCHANGED <<subject, unknown, whole, tried, read>>

SealPreKey ==
  /\ wire = None /\ subject.name = "PreKeySignalMessage"
  /\ {"baseKey", "identityKey", "message", "registrationId", "signedPreKeyId"} \subseteq DOMAIN subject.value
  /\ wire' = serializePreKeySignalMessage(subject.value)
  /\ UNCHANGED <<subject, unknown, whole, seal, tried, read>>

\* What is left of a MAC is not one.
Cut(n) ==
  /\ wire # None /\ whole /\ read = None
  /\ n < Len(wire.body)
  /\ wire' = [wire EXCEPT !.body = SubSeq(@, 1, n), !.mac = None]
  /\ whole' = FALSE
  /\ UNCHANGED <<subject, unknown, seal, tried, read>>

\* A peer of a later version.
Upgrade ==
  /\ wire # None /\ wire.version = CIPHERTEXT_VERSION /\ whole /\ read = None
  /\ wire' = [wire EXCEPT !.version = @ + 1]
  /\ whole' = FALSE
  /\ UNCHANGED <<subject, unknown, seal, tried, read>>

Read ==
  /\ wire # None /\ wire.version = None /\ read = None
  /\ read' = decode(Older, "older", wire.body)
  /\ UNCHANGED <<subject, unknown, wire, whole, seal, tried>>

Open(with) ==
  /\ wire # None /\ seal # None /\ read = None
  /\ tried' = with
  /\ read' = parseSignalMessage(wire, with.key, with.sender, with.receiver)
  /\ UNCHANGED <<subject, unknown, wire, whole, seal>>

OpenPreKey ==
  /\ wire # None /\ wire.version # None /\ seal = None /\ read = None
  /\ read' = parsePreKeySignalMessage(wire)
  /\ UNCHANGED <<subject, unknown, wire, whole, seal, tried>>

Next ==
  \/ Write \/ PeerWrites \/ SealPreKey \/ Upgrade \/ Read \/ OpenPreKey
  \/ \E with \in Seals : Seal(with) \/ Open(with)
  \/ \E n \in 0 .. LongestCut : Cut(n)

Spec == Init /\ [][Next]_vars

----------------------------------------------------------------------------
IsRead == read # None

\* What of a value a reader can see: a repeated field without items is not there.
Visible(value, keys) ==
  [key \in {k \in DOMAIN value \ keys : Known[subject.name][FieldOf(k)].repeated => value[k] # << >>} |-> value[key]]
UnknownKeys == {Known[subject.name][i].key :
                  i \in {j \in DOMAIN Known[subject.name] : Known[subject.name][j].id \in unknown}}

\* Keys come back with their type in front.
Typed(value) ==
  [key \in DOMAIN value |-> IF key \in {"ratchetKey", "baseKey", "identityKey"} THEN addKeyType(value[key]) ELSE value[key]]

Identified(with) == <<with.key, addKeyType(with.sender), addKeyType(with.receiver)>>

TypeOK ==
  /\ unknown \subseteq Nat /\ whole \in BOOLEAN
  /\ wire # None => wire.body \in Seq(0 .. Byte - 1)
  /\ IsRead => Cardinality(read) <= 1

\* The reader gets the fields it knows, whoever wrote them, packed or one by one
\* and in any order, beside fields it does not know: signed and unsigned numbers
\* at the limits of their words, nested and repeated messages, and no others.
FieldsComeBack ==
  IsRead /\ whole /\ wire.version = None => read = {Visible(subject.value, UnknownKeys)}

\* What is cut off is lost, or noticed: the fields that are read are whole, and in
\* a list the first ones.
CutLosesOnlyTheTail ==
  IsRead /\ wire.version = None =>
    \A value \in read : \A key \in DOMAIN value :
      /\ key \in DOMAIN subject.value \ UnknownKeys
      /\ \/ value[key] = subject.value[key]
         \/ /\ Known[subject.name][FieldOf(key)].repeated
            /\ IsPrefix(value[key], subject.value[key])

\* A sealed message opens with its own key between its own two parties in that
\* order, uncut and in its version, and with nothing else; then it has the fields
\* it was sealed with, and the peek before it told its key and counter.  The message
\* of a session's opening, which has no MAC, names the same keys at the other end,
\* and is refused in a later version.
OpensOnlyWhereSealed ==
  /\ IsRead /\ seal # None =>
       /\ (read # {}) = (whole /\ Identified(tried) = Identified(seal))
       /\ \A value \in read : /\ value = Typed(subject.value)
                              /\ peekSignalMessage(wire) = {[counter |-> value.counter, ratchetKey |-> value.ratchetKey]}
  /\ IsRead /\ seal = None /\ wire.version # None /\ (whole \/ wire.version # CIPHERTEXT_VERSION) =>
       read = IF whole THEN {Typed(subject.value)} ELSE {}
=============================================================================
