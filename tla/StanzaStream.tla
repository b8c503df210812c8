---------------------------- MODULE StanzaStream ----------------------------
(***************************************************************************)
(* Nodes from one end to the other: encoded by the binary codec, framed,   *)
(* cut into chunks, reassembled and decoded.  One direction at a time: the *)
(* client's, with its intro, or the server's, which may compress.  The     *)
(* encryption in between, and the handshake before, are NoiseXX's.         *)
(***************************************************************************)
EXTENDS FrameStream, BinaryNode

CONSTANTS
  Conversations,  \* sequences of nodes that one end sends
  LongestTried    \* bound: bodies of which every prefix is tried

ASSUME StanzaAssumption == Base = Byte

VARIABLES
  script,      \* nodes still to be sent
  fromServer,  \* who sends
  nodes,       \* history: nodes sent
  received,    \* history: nodes emitted at the other end
  closed       \* the receiver has met a frame it cannot decode

stanzaVars == <<vars, script, fromServer, nodes, received, closed>>

Init ==
  /\ script \in Conversations /\ fromServer \in BOOLEAN
  /\ intro = (IF fromServer THEN << >> ELSE None) /\ stripped = fromServer
  /\ stream = << >> /\ buffered = << >> /\ sent = << >> /\ frames = << >>
  /\ nodes = << >> /\ received = << >> /\ closed = FALSE

----------------------------------------------------------------------------
\* sendNode.
SendNode(routingInfo) ==
  /\ script # << >> /\ ~fromServer
  /\ SendRawFrame(encodeBinaryNode(Head(script)), routingInfo)
  /\ nodes' = Append(nodes, Head(script)) /\ script' = Tail(script)
  /\ UNCHANGED <<fromServer, received, closed>>

\* "The client never compresses; the server may."
ServerSends(compressed) ==
  /\ script # << >> /\ fromServer
  /\ LET plain == encodeBinaryNode(Head(script))
     IN  SendRawFrame(IF compressed THEN <<2>> \o deflateSync(Tail(plain)) ELSE plain, << >>)
  /\ nodes' = Append(nodes, Head(script)) /\ script' = Tail(script)
  /\ UNCHANGED <<fromServer, received, closed>>

ServerStripsIntro == StripIntro /\ UNCHANGED <<script, fromServer, nodes, received, closed>>

\* onData: the frames of a chunk in turn, up to one that throws.
Receive(n) ==
  /\ ~closed
  /\ Push(n)
  /\ LET fresh    == [i \in 1 .. Len(frames') - Len(frames) |-> decodeBinaryNode(frames'[Len(frames) + i])]
         bad      == SelectInSeq(fresh, LAMBDA outcomes : outcomes = {})
         readable == IF bad = 0 THEN fresh ELSE SubSeq(fresh, 1, bad - 1)
     IN  /\ received' = received \o [i \in DOMAIN readable |-> (CHOOSE r \in readable[i] : TRUE).value]
         /\ closed' = (bad # 0)
  /\ UNCHANGED <<script, fromServer, nodes>>

Next ==
  \/ \E routingInfo \in RoutingInfos : SendNode(routingInfo)
  \/ \E compressed \in BOOLEAN : ServerSends(compressed)
  \/ ServerStripsIntro
  \/ \E n \in Chunks : Receive(n)

Spec == Init /\ [][Next]_stanzaVars

----------------------------------------------------------------------------
(* What the two ends promise each other about strings.                     *)

\* A JID comes back as it was if it has its canonical form: a server, no agent,
\* and a device only where a byte of AD_JID holds it.
Canonical(string) ==
  LET jid == jidDecode(string)
  IN  jid # Absent =>
        /\ jid.server # << >>
        /\ \/ string = jidEncode(jid.user, jid.server, Absent, Absent)
           \/ /\ serverToDomainType(jid.server) # Absent /\ jid.device \in 1 .. Byte - 1
              /\ string = jidEncode(jid.user, jid.server, jid.device, Absent)

\* Any other JID names the same account.
SameString(sentString, string) ==
  IF Canonical(sentString) THEN string = sentString ELSE areJidsSameUser(string, sentString)

RECURSIVE SameNode(_, _)
SameContent(before, after) ==
  IF before = Absent \/ after = Absent THEN before = after
  ELSE CASE before.kind = "bytes" -> after = before
         [] before.kind = "text"  ->
              \/ after.kind = "text" /\ SameString(before.value, after.value)
              \/ after.kind = "bytes" /\ fromUtf8(after.value) = before.value
         [] before.kind = "list"  ->
              /\ after.kind = "list" /\ Len(after.value) = Len(before.value)
              /\ \A i \in DOMAIN before.value : SameNode(before.value[i], after.value[i])

SameNode(before, after) ==
  LET attrs == Present(before.attrs)
  IN  /\ SameString(before.tag, after.tag)
      /\ Len(after.attrs) = Len(attrs)
      /\ \A i \in DOMAIN attrs : /\ after.attrs[i][1] = attrs[i][1]
                                 /\ SameString(attrs[i][2], after.attrs[i][2])
      /\ SameContent(before.content, after.content)

\* A JID with nothing behind its @.
RECURSIVE Unaddressed(_)
Unaddressed(node) ==
  LET strings == {node.tag} \union {node.attrs[i][2] : i \in DOMAIN node.attrs}
                   \union (IF node.content # Absent /\ node.content.kind = "text" THEN {node.content.value} ELSE {})
  IN  \/ \E string \in strings \ {Absent} : string # << >> /\ Last(string) = "@"
      \/ /\ node.content # Absent /\ node.content.kind = "list"
         /\ \E i \in DOMAIN node.content.value : Unaddressed(node.content.value[i])

----------------------------------------------------------------------------
TypeOK ==
  /\ stream \in Seq(0 .. Base - 1) /\ buffered \in Seq(0 .. Base - 1)
  /\ stripped \in BOOLEAN /\ (stripped => intro # None)
  /\ Len(nodes) = Len(sent) /\ Len(received) <= Len(frames) /\ closed \in BOOLEAN

\* Every frame that arrives is emitted as the node that went into the encoder,
\* whatever tokens, JIDs, packed strings and length classes it is made of: its
\* strings, its bytes, its children and their order.  The one string a peer writes
\* and cannot be read is a JID without a server.
NodesComeBack ==
  /\ \A i \in DOMAIN received : SameNode(nodes[i], received[i])
  /\ IF closed THEN Unaddressed(nodes[Len(received) + 1]) ELSE Len(received) = Len(frames)

\* A body says itself where it ends: the decoder reads all of it and nothing less
\* than all of it.
SelfDelimiting ==
  \A i \in DOMAIN frames :
    LET frame == frames[i]
    IN  Len(frame) <= LongestTried /\ frame[1] = 0 /\ stream = << >> =>
          /\ \A read \in decodeBinaryNode(frame) : read.rest = << >>
          /\ \A n \in 0 .. Len(frame) - 1 : decodeBinaryNode(SubSeq(frame, 1, n)) = {}
=============================================================================
