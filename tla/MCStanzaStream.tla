--------------------------- MODULE MCStanzaStream ---------------------------
(* 36 values of a byte, and a character of the alphabet for each kind the      *)
(* codec tells apart: strings of 17 characters are the longest packed, lists   *)
(* of 36 need LIST_16, contents of 36 and of 7776 bytes the longer lengths.    *)
EXTENDS StanzaStream

MCDigits == <<"0", "1">>
MCHexLetters == <<"A", "B", "C", "D">>
MCLetters == <<"-", ".", "@", ":", "_", "s", "l", "c", "g", "x", "y">>
MCAccented == <<"e">>

\* A hole, a token that comes twice, and one in both dictionaries.
MCSingle == <<<<"x">>, Absent, <<"s">>, <<"x">>, <<"x", "y">>, <<"0", "1">>>>
MCDouble == <<<<<<"x", "y">>, <<"y", "y">>>>, << >>, <<<<"l">>, <<"y", "y">>, <<"y", "-">>>>>>

MCWaHeader == <<11, 6, 3>>
MCEdgeMark == <<7, 6, 0, 1>>
MCRoutingInfos == {<< >>, <<7, 6, 0, 1, 2>>}

Repeat(x, n) == [i \in 1 .. n |-> x]
Plain(tag) == [tag |-> tag, attrs |-> << >>, content |-> Absent]
To(string) == [tag |-> <<"x">>, attrs |-> <<<<<<"y">>, string>>>>, content |-> Absent]
Holding(kind, value) == [Plain(<<"y">>) EXCEPT !.content = [kind |-> kind, value |-> value]]

Strings ==
  {<< >>, <<"x">>, <<"x", "y">>, <<"y", "y">>, <<"l">>, <<"y", "-">>, <<"x", "e", "y">>}
    \union {Repeat("1", n) : n \in {1, 2, 3, 17, 18}}
    \union {Repeat("A", n) : n \in {2, 3, 17, 18}}
    \union {<<"0", "-", ".">>, <<"A", "-">>, <<"-", "0">>, <<"0", "1">>}

Jids == {jidEncode(user, server, device, agent) :
           user \in {<<"0", "1">>, <<"x">>, << >>}, server \in {<<"s">>, <<"l">>, <<"c">>, <<"g">>},
           device \in {Absent, 1, 35, 36, 37}, agent \in {Absent, 1}}
OddJids == {<<"1", ":", "0", "@", "s">>, <<"1", ":", "x", "@", "s">>, <<"1", "@">>, <<"@">>,
            <<"1", "@", "y", "@", "l">>, <<"1", "-", "0", "@", "g">>, <<"1", ":", "1", ":", "x", "@", "l">>}

Contents ==
  {[kind |-> "bytes", value |-> Repeat(1, n)] : n \in {0, 1, 35, 36, 7775, 7776}}
    \union {[kind |-> "list", value |-> Repeat(Plain(<<"x">>), n)] : n \in {0, 1, 35, 36, 71}}
    \union {[kind |-> "text", value |-> string] : string \in Strings \union OddJids}

Many(n) == [Holding("text", <<"e">>) EXCEPT !.attrs = [i \in 1 .. n |-> <<<<"A", "g">> \o decimal[i], <<"s">>>>]]
Nested == Holding("list", <<To(<<"1", ":", "1", "@", "l">>), Holding("list", <<Holding("text", <<"e">>), Plain(<<"s">>)>>),
                            Holding("bytes", <<0, 35>>)>>)
Missing == [tag |-> <<"g">>, content |-> Absent,
            attrs |-> <<<<<<"y">>, Absent>>, <<<<"g">>, <<"1">>>>, <<<<"c">>, Absent>>>>]

MCConversations ==
  {<<To(string)>> : string \in Strings \union Jids \union OddJids}
    \union {<<[Plain(<<"y">>) EXCEPT !.content = content]>> : content \in Contents}
    \union {<<Many(16)>>, <<Many(17)>>, <<Many(18)>>, <<Nested, Missing, Plain(<<"x">>)>>, <<Plain(<<"x">>), To(<<"1", "@">>), Nested>>}
=============================================================================
