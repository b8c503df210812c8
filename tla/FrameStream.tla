---------------------------- MODULE FrameStream ----------------------------
(***************************************************************************)
(* Framing: encodeFrame at one end, the streaming FrameDecoder at the      *)
(* other, and between them a stream the transport cuts into chunks as it   *)
(* likes.  A length takes three bytes, written in base Base so that small  *)
(* frames already need all of them.                                        *)
(***************************************************************************)
EXTENDS Integers, SequencesExt

CONSTANTS
  Base,          \* values of a byte: 256
  WaHeader,      \* what precedes the first frame: 'W', 'A' and two versions
  EdgeMark,      \* 'E', 'D', version 0 and type 1
  RoutingInfos,  \* routing infos the server may have given; empty for none
  MaxReads,      \* bound: bytes in one chunk
  LongStream,    \* bound: a stream longer than this first comes in one chunk
                 \* up to its last MaxReads bytes
  None           \* no intro written yet

ASSUME FrameAssumption ==
  /\ Base \in Nat \ {0, 1}
  /\ \A bytes \in {WaHeader, EdgeMark} \union RoutingInfos : bytes \in Seq(0 .. Base - 1)
  /\ ~IsPrefix(EdgeMark, WaHeader) /\ ~IsPrefix(WaHeader, EdgeMark)
  /\ MaxReads \in Nat \ {0} /\ LongStream \in Nat

LENGTH_PREFIX_SIZE == 3
MAX_FRAME_SIZE == Base * Base * Base - 1

VARIABLES
  stream,    \* bytes written and not yet delivered
  intro,     \* what preceded the first frame; None before it is written
  stripped,  \* the receiver has taken the intro off
  buffered,  \* FrameDecoder.buffered
  sent,      \* history: payloads framed
  frames     \* history: frames returned by push

vars == <<stream, intro, stripped, buffered, sent, frames>>

----------------------------------------------------------------------------
\* The prefix: one byte, then two, big-endian.
LengthPrefix(size) == <<size \div (Base * Base), (size \div Base) % Base, size % Base>>

\* With routing info, a header tells the edge which shard to forward to.
buildIntro(routingInfo) ==
  IF routingInfo = << >> THEN WaHeader
  ELSE EdgeMark \o LengthPrefix(Len(routingInfo)) \o routingInfo \o WaHeader

SizeAt(bytes) == (bytes[1] * Base + bytes[2]) * Base + bytes[3]

ASSUME RoutingAssumption ==
  /\ None # << >> /\ << >> \in RoutingInfos
  /\ \A routingInfo \in RoutingInfos : Len(routingInfo) <= MAX_FRAME_SIZE /\ buildIntro(routingInfo) # None

\* encodeFrame; it throws when the payload is too large.
Encodable(payload) == Len(payload) <= MAX_FRAME_SIZE
encodeFrame(payload, before) == before \o LengthPrefix(Len(payload)) \o payload

\* A slip in HasFrame: the prefix itself is not counted.
HasPayload(bytes) ==
  Len(bytes) >= LENGTH_PREFIX_SIZE /\ Len(bytes) > SizeAt(bytes) + LENGTH_PREFIX_SIZE

\* A complete frame stands at the front of the buffer.
HasFrame(bytes) ==
  /\ Len(bytes) >= LENGTH_PREFIX_SIZE
  /\ Len(bytes) >= SizeAt(bytes) + LENGTH_PREFIX_SIZE

FirstFrame(bytes) == SubSeq(bytes, LENGTH_PREFIX_SIZE + 1, SizeAt(bytes) + LENGTH_PREFIX_SIZE)
AfterFrame(bytes) == SubSeq(bytes, SizeAt(bytes) + LENGTH_PREFIX_SIZE + 1, Len(bytes))

\* The loop of push: the frames taken off, and the bytes that stay.
Unframe[bytes \in Seq(0 .. Base - 1)] ==
  IF ~HasFrame(bytes) THEN [frames |-> << >>, rest |-> bytes]
  ELSE LET later == Unframe[AfterFrame(bytes)]
       IN  [frames |-> <<FirstFrame(bytes)>> \o later.frames, rest |-> later.rest]

----------------------------------------------------------------------------
\* sendRawFrame: the intro precedes the first frame of the connection only.
SendRawFrame(payload, routingInfo) ==
  /\ Encodable(payload)
  /\ stream' = stream \o encodeFrame(payload, IF intro = None THEN buildIntro(routingInfo) ELSE << >>)
  /\ intro' = IF intro = None THEN buildIntro(routingInfo) ELSE intro
  /\ sent' = Append(sent, payload)
  /\ UNCHANGED <<stripped, buffered, frames>>

\* The edge takes the routing header off, and the server the WA header; the intro
\* comes in one chunk with the first frame.
Routed(bytes) ==
  LET header == Len(EdgeMark) + LENGTH_PREFIX_SIZE
      after  == SubSeq(bytes, Len(EdgeMark) + 1, Len(bytes))
  IN  IF IsPrefix(EdgeMark, bytes) THEN SubSeq(bytes, header + SizeAt(after) + 1, Len(bytes)) ELSE bytes

StripIntro ==
  /\ stream # << >> /\ ~stripped
  /\ IsPrefix(WaHeader, Routed(stream))
  /\ stripped' = TRUE
  /\ stream' = SubSeq(Routed(stream), Len(WaHeader) + 1, Len(Routed(stream)))
  /\ UNCHANGED <<intro, buffered, sent, frames>>

\* The sizes of the next chunk.
Chunks ==
  {n \in 1 .. Len(stream) :
     \/ Len(stream) - n \in 0 .. MaxReads
     \/ (n <= MaxReads /\ Len(stream) <= LongStream)}

\* push, with the next n bytes of the stream.
Push(n) ==
  /\ stripped
  /\ LET all == Unframe[buffered \o SubSeq(stream, 1, n)]
     IN  buffered' = all.rest /\ frames' = frames \o all.frames
  /\ stream' = SubSeq(stream, n + 1, Len(stream))
  /\ UNCHANGED <<intro, stripped, sent>>

----------------------------------------------------------------------------
\* The frames by themselves, whatever their payloads: the client's, which an intro
\* precedes, or the server's.
FrameInit ==
  /\ \/ intro = None /\ stripped = FALSE
     \/ intro = << >> /\ stripped = TRUE
  /\ stream = << >> /\ buffered = << >> /\ sent = << >> /\ frames = << >>

FrameNext ==
  \/ \E payload \in Seq(0 .. Base - 1), routingInfo \in RoutingInfos : SendRawFrame(payload, routingInfo)
  \/ StripIntro
  \/ \E n \in Chunks : Push(n)

FrameSpec == FrameInit /\ [][FrameNext]_vars

----------------------------------------------------------------------------
\* However the stream is cut, the frames that come out are the first of those
\* that went in, and push leaves no complete frame behind: once every byte is in,
\* every frame is out and nothing is left over.
FramesInOrder ==
  /\ IsPrefix(frames, sent)
  /\ stripped => /\ ~HasFrame(buffered)
                 /\ stream = << >> => frames = sent /\ buffered = << >>
=============================================================================
