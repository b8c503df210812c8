-------------------------- MODULE MCProtoExchange --------------------------
(* Groups of 3 bits in bytes of 4, words of 3 and 6 bytes: a long varint has 8  *)
(* groups, one less than the bits of the next would fit.  Every message of the *)
(* program is sent with each of its fields alone at the limits of its type, and*)
(* with all of them at once; beside them one message with every type there is. *)
EXTENDS ProtoExchange

MCOwn ==
  [Outer |-> <<f("id", 1, "uint32"), f("big", 2, "uint64"), f("blob", 3, "bytes"), f("inner", 4, "Inner"),
               r("tags", 5, "string"), r("numbers", 6, "uint32"), f("signed", 7, "sint32"), f("negative", 8, "int32"),
               f("long", 9, "int64"), f("longSigned", 10, "sint64"), f("word", 11, "fixed32"),
               f("signedWord", 12, "sfixed32"), f("longWord", 13, "fixed64"), f("signedLongWord", 14, "sfixed64"),
               f("real", 15, "float"), f("longReal", 31, "double"), r("flags", 32, "bool"), r("sints", 33, "sint32"),
               r("words", 34, "sfixed32"), r("inners", 60, "Inner")>>,
   Inner |-> <<f("value", 1, "string"), f("flag", 2, "bool")>>,
   Node |-> <<f("name", 1, "string"), f("child", 2, "Node")>>]

Half(modulus) == modulus \div 2
Text == <<<<1, Byte - 1>>, << >>, [i \in 1 .. Group |-> i % Byte]>>

\* Values of a type, the first ones the most telling.
RECURSIVE Value(_, _, _)
Whole(name, depth, n) ==
  LET fields == {i \in DOMAIN Known[name] : depth > 0 \/ ~IsMessage(Known, Known[name][i].type)}
  IN  [key \in {Known[name][i].key : i \in fields} |->
         LET field == Known[name][CHOOSE i \in fields : Known[name][i].key = key]
             one   == Value(field.type, depth, n)
         IN  IF field.repeated THEN <<one, Value(field.type, depth, n + 1)>> ELSE one]
Value(type, depth, n) ==
  LET Pick(values) == values[(n % Len(values)) + 1]
  IN  CASE type \in {"uint32", "enum"}    -> Pick(<<ShortMod - 1, 0, Group, Group - 1>>)
        [] type = "uint64"                -> Pick(<<LongMod - 1, 0, Group>>)
        [] type \in {"int32", "sint32", "sfixed32"} -> Pick(<<-1, Half(ShortMod) - 1, -Half(ShortMod), 0>>)
        [] type = "sint64"                -> Pick(<<-Half(LongMod), Half(LongMod) - 1, 1>>)
        [] type \in {"int64", "sfixed64"} -> Pick(<<Half(LongMod) - 1, 0>>)
        [] type \in {"fixed32", "float"}  -> Pick(<<ShortMod - 1, 1>>)
        [] type \in {"fixed64", "double"} -> Pick(<<LongMod - 1, Byte>>)
        [] type = "bool"                  -> Pick(<<TRUE, FALSE>>)
        [] type \in {"bytes", "string"}   -> Pick(Text)
        [] OTHER                          -> Whole(type, depth - 1, n)

Alone(name, i, n) ==
  LET field == Known[name][i]
      one   == Value(field.type, 1, n)
  IN  field.key :> (IF field.repeated THEN [j \in 1 .. n |-> Value(field.type, 1, j)] ELSE one)

MCSubjects ==
  {[name |-> name, value |-> Whole(name, 2, n)] : name \in DOMAIN Known, n \in 0 .. 1}
    \union UNION {{[name |-> name, value |-> Alone(name, i, n)] : i \in DOMAIN Known[name], n \in 0 .. 3} :
                    name \in DOMAIN Known}
    \union {[name |-> "Node", value |-> Whole("Node", 4, 0)]}
    \union {[name |-> "Message", value |-> Whole("Message", 3, 0)]}
    \union {[name |-> "PreKeySignalMessage", value |-> [Whole("PreKeySignalMessage", 0, 0) EXCEPT !.baseKey = <<1, 2>>]]}

MCSeals == {[key |-> key, sender |-> sender, receiver |-> receiver] :
              key \in {1, 2}, sender \in {<<1, 2>>, <<3, 4>>}, receiver \in {<<1, 2>>, <<3, 4>>, <<5, 1, 2>>}}
=============================================================================
