---------------------------- MODULE JesterSocket ----------------------------
(***************************************************************************)
(* The connection: connect, the handshake frame, node routing, queries,    *)
(* QR rotation, keep-alive and shutdown of one JesterSocket.               *)
(*                                                                         *)
(* JavaScript runs a handler to completion, so a chunk of frames (rx) is   *)
(* processed before any timer or transport event.  But emit() calls the    *)
(* application's listeners in the middle of a handler, and a listener may  *)
(* call end() or query() there.  The stack holds what remains of the       *)
(* interrupted handlers, innermost first; every handler is cut exactly     *)
(* where it emits.                                                         *)
(***************************************************************************)
EXTENDS Integers, Sequences, FiniteSets

CONSTANTS
  Queries,       \* calls of query() by the application
  Pings,         \* calls of query() by the keep-alive
  IdOf,          \* the id each query carries: [Queries \union Pings -> ids]
  Frames,        \* what the server may send once the handshake is done
  Refs,          \* how many refs a pair-device may bring
  InitialCreds,  \* the credentials the socket starts from
  ListenersAct,  \* whether listeners call back into the socket
  EndsEarly,     \* whether end() may be called before connect()
  MaxChunks,     \* bound: chunks received
  ChunkFrames,   \* bound: frames in one chunk
  None           \* no query under an id

ASSUME ConstantsAssumption ==
  /\ Queries \cap Pings = {}
  /\ None \notin Queries \union Pings
  /\ ListenersAct \in BOOLEAN /\ EndsEarly \in BOOLEAN
  /\ Refs \subseteq Nat
  /\ MaxChunks \in Nat /\ ChunkFrames \in Nat \ {0}

VARIABLES
  connection,   \* state.connection
  closed,       \* closed
  transport,    \* readyState of the transport: none until connect()
  connectCall,  \* where the promise of connect() stands
  noise,        \* none, started, or finished
  pending,      \* pendingRequests: the query waiting under each id
  status,       \* the reply promise of each query
  awaited,      \* the queries whose reply promise query() went on to await
  keepAlive,    \* keepAliveTimer is armed
  qrTimer,      \* qrTimer is armed
  qrRefs,       \* how many qrRefs are left
  creds,        \* the facts auth.creds has learned
  rx,           \* frames of the current chunk not yet processed
  stack,        \* what remains of the handlers now emitting
  received,     \* chunks received so far
  closes        \* history: close updates emitted

conn == <<connection, closed, closes, keepAlive, qrTimer, pending, status>>
vars == <<conn, transport, connectCall, noise, awaited, qrRefs, creds, rx, stack, received>>

AllQueries == Queries \union Pings
Ids == {IdOf[q] : q \in AllQueries}

\* A reply frame carries an id; every other frame is named by its tag.
Reply(id) == [tag |-> "reply", id |-> id]
Tagged(tag) == [tag |-> tag]
Garbage == Tagged("undecodable")

Init ==
  /\ connection = "close" /\ closed = FALSE /\ closes = 0
  /\ keepAlive = FALSE /\ qrTimer = FALSE /\ qrRefs = 0
  /\ pending = [id \in Ids |-> None]
  /\ status = [q \in AllQueries |-> "unused"]
  /\ awaited = {}
  /\ transport = "none" /\ connectCall = "none" /\ noise = "none"
  /\ creds = InitialCreds
  /\ rx = << >> /\ stack = << >> /\ received = 0

----------------------------------------------------------------------------
(* Turns of the event loop.                                                *)

Quiet      == stack = << >> /\ rx = << >>      \* timers and transport events
FrameTurn  == stack = << >> /\ rx # << >>      \* the loop of onData
Resumes(at) == stack # << >> /\ Head(stack).at = at
CallerTurn == Quiet \/ (ListenersAct /\ stack # << >>)

\* emit(), then go on with the rest of the handler.
Emitting(at, rest) == <<[at |-> at]>> \o rest

\* Slips in the parts of onClose: only the QR timer is cleared; queries are
\* forgotten and left waiting.
StopQrOnly == qrTimer' = FALSE /\ UNCHANGED keepAlive
ForgetPending == pending' = [id \in Ids |-> None] /\ UNCHANGED status

StopTimers == keepAlive' = FALSE /\ qrTimer' = FALSE

RejectPending ==
  /\ status' = [q \in AllQueries |-> IF pending[IdOf[q]] = q THEN "rejected" ELSE status[q]]
  /\ pending' = [id \in Ids |-> None]

Shutdown(rest) ==
  /\ closed' = TRUE /\ connection' = "close" /\ closes' = closes + 1
  /\ StopTimers
  /\ RejectPending
  /\ stack' = Emitting("close", rest)

\* A slip in OnClose: it closes again.
OnCloseAgain(rest, qr) == Shutdown(rest)

\* onClose, called by a handler whose remainder is rest; qr is what the handler
\* has made of the QR timer.  The transport is closed after the update is out.
OnClose(rest, qr) ==
  IF closed
  THEN /\ qrTimer' = qr /\ stack' = rest
       /\ UNCHANGED <<connection, closed, closes, keepAlive, pending, status>>
  ELSE Shutdown(rest)

\* A slip in CloseTransport: a transport still connecting is left alone.
CloseOpenTransport ==
  /\ Resumes("close")
  /\ stack' = Tail(stack)
  /\ transport' = IF transport = "open" THEN "closing" ELSE transport
  /\ UNCHANGED <<conn, connectCall, noise, awaited, qrRefs, creds, rx, received>>

\* transport.close()
CloseTransport ==
  /\ Resumes("close")
  /\ stack' = Tail(stack)
  /\ transport' = IF transport \in {"connecting", "open"} THEN "closing" ELSE transport
  /\ UNCHANGED <<conn, connectCall, noise, awaited, qrRefs, creds, rx, received>>

End ==
  /\ CallerTurn
  /\ connectCall # "none" \/ EndsEarly
  /\ OnClose(stack, qrTimer)
  /\ UNCHANGED <<transport, connectCall, noise, awaited, qrRefs, creds, rx, received>>

----------------------------------------------------------------------------
(* connect() and the transport.                                            *)

\* The update goes out before the transport exists.  closed is not looked at.
Connect ==
  /\ Quiet /\ connectCall = "none"
  /\ connection' = "connecting" /\ connectCall' = "begun"
  /\ stack' = Emitting("connect", stack)
  /\ UNCHANGED <<closed, closes, keepAlive, qrTimer, pending, status, transport, noise, awaited,
                 qrRefs, creds, rx, received>>

\* An injected transport may be open already; a WebSocket has to be waited for.
\* startHandshake sends the ClientHello.
OpenTransport ==
  /\ Resumes("connect")
  /\ stack' = Tail(stack)
  /\ \/ transport' = "connecting" /\ connectCall' = "waiting" /\ UNCHANGED noise
     \/ transport' = "open" /\ connectCall' = "done" /\ noise' = "started"
  /\ UNCHANGED <<conn, awaited, qrRefs, creds, rx, received>>

TransportOpens ==
  /\ Quiet /\ transport = "connecting"
  /\ transport' = "open"
  /\ IF connectCall = "waiting" THEN connectCall' = "done" /\ noise' = "started"
     ELSE UNCHANGED <<connectCall, noise>>
  /\ UNCHANGED <<conn, awaited, qrRefs, creds, rx, stack, received>>

\* waitForEvent rejects; nothing else notices.
ConnectTimesOut ==
  /\ Quiet /\ connectCall = "waiting"
  /\ connectCall' = "failed"
  /\ UNCHANGED <<conn, transport, noise, awaited, qrRefs, creds, rx, stack, received>>

FailWaiting == connectCall' = IF connectCall = "waiting" THEN "failed" ELSE connectCall

\* The transport emits error, and will emit close.
TransportError ==
  /\ Quiet /\ transport \in {"connecting", "open"}
  /\ transport' = "closing"
  /\ FailWaiting
  /\ OnClose(stack, qrTimer)
  /\ UNCHANGED <<noise, awaited, qrRefs, creds, rx, received>>

\* The peer starts closing: the transport stops being open before it says so.
PeerCloses ==
  /\ Quiet /\ transport = "open"
  /\ transport' = "closing"
  /\ UNCHANGED <<conn, connectCall, noise, awaited, qrRefs, creds, rx, stack, received>>

\* A slip in TransportCloses: nobody listens to the close event.
TransportClosesUnheard ==
  /\ Quiet /\ transport = "closing"
  /\ transport' = "closed"
  /\ FailWaiting
  /\ UNCHANGED <<conn, noise, awaited, qrRefs, creds, rx, stack, received>>

\* The transport emits close (after error, when it never opened).
TransportCloses ==
  /\ Quiet /\ transport = "closing"
  /\ transport' = "closed"
  /\ FailWaiting
  /\ OnClose(stack, qrTimer)
  /\ UNCHANGED <<noise, awaited, qrRefs, creds, rx, received>>

\* A chunk arrives.  What was in flight still arrives while the transport closes.
Chunks == IF noise = "started" THEN {<<Tagged("ServerHello")>>, <<Garbage>>}
          ELSE UNION {[1 .. n -> Frames \union {Reply(IdOf[q]) : q \in awaited}] : n \in 1 .. ChunkFrames}

Receive ==
  /\ Quiet /\ transport \in {"open", "closing"} /\ noise # "none"
  /\ received < MaxChunks
  /\ received' = received + 1
  /\ rx' \in Chunks
  /\ UNCHANGED <<conn, transport, connectCall, noise, awaited, qrRefs, creds, stack>>

----------------------------------------------------------------------------
(* sendNode and query().                                                   *)

CanSend == noise = "finished" /\ transport = "open"

\* waitForReply registers the query, then sendNode throws if it cannot send:
\* nobody awaits the registered promise then.
Register(q) ==
  /\ status[q] = "unused"
  /\ status' = [status EXCEPT ![q] = "waiting"]
  /\ pending' = [pending EXCEPT ![IdOf[q]] = q]
  /\ awaited' = IF CanSend THEN awaited \union {q} ELSE awaited

Query(q) ==
  /\ CallerTurn
  /\ Register(q)
  /\ UNCHANGED <<connection, closed, closes, keepAlive, qrTimer, transport, connectCall, noise,
                 qrRefs, creds, rx, stack, received>>

KeepAliveFires(q) ==
  /\ Quiet /\ keepAlive /\ ~closed
  /\ Register(q)
  /\ UNCHANGED <<connection, closed, closes, keepAlive, qrTimer, transport, connectCall, noise,
                 qrRefs, creds, rx, stack, received>>

\* A slip in QueryTimesOut: the timer goes with the table entry.
TimesOutWhilePending(q) ==
  /\ Quiet /\ status[q] = "waiting" /\ pending[IdOf[q]] = q
  /\ status' = [status EXCEPT ![q] = "rejected"]
  /\ pending' = [pending EXCEPT ![IdOf[q]] = None]
  /\ UNCHANGED <<connection, closed, closes, keepAlive, qrTimer, transport, connectCall, noise,
                 awaited, qrRefs, creds, rx, stack, received>>

\* The timer of a waiting query fires: whatever waits under its id is forgotten.
QueryTimesOut(q) ==
  /\ Quiet /\ status[q] = "waiting"
  /\ status' = [status EXCEPT ![q] = "rejected"]
  /\ pending' = [pending EXCEPT ![IdOf[q]] = None]
  /\ UNCHANGED <<connection, closed, closes, keepAlive, qrTimer, transport, connectCall, noise,
                 awaited, qrRefs, creds, rx, stack, received>>

----------------------------------------------------------------------------
(* The QR code.                                                            *)

\* Slips in EmitNextQr: the last ref is not noticed; running out does not close.
EmitAnyQr(refs, rest) ==
  /\ qrRefs' = refs - 1 /\ qrTimer' = FALSE
  /\ stack' = Emitting("armQr", rest)
  /\ UNCHANGED <<connection, closed, closes, keepAlive, pending, status>>

EmitQrOrStop(refs, rest) ==
  IF refs = 0
  THEN /\ qrRefs' = 0 /\ qrTimer' = FALSE /\ stack' = rest
       /\ UNCHANGED <<connection, closed, closes, keepAlive, pending, status>>
  ELSE EmitAnyQr(refs, rest)

\* emitNextQr, with refs left: out of refs it closes, else it emits the QR and
\* only then arms the timer of the next one.
EmitNextQr(refs, rest) ==
  IF refs = 0
  THEN qrRefs' = 0 /\ OnClose(rest, FALSE)
  ELSE /\ qrRefs' = refs - 1 /\ qrTimer' = FALSE
       /\ stack' = Emitting("armQr", rest)
       /\ UNCHANGED <<connection, closed, closes, keepAlive, pending, status>>

ArmQr ==
  /\ Resumes("armQr")
  /\ qrTimer' = TRUE
  /\ stack' = Tail(stack)
  /\ UNCHANGED <<connection, closed, closes, keepAlive, pending, status, transport, connectCall,
                 noise, awaited, qrRefs, creds, rx, received>>

QrTimerFires ==
  /\ Quiet /\ qrTimer
  /\ EmitNextQr(qrRefs, stack)
  /\ UNCHANGED <<transport, connectCall, noise, awaited, creds, rx, received>>

----------------------------------------------------------------------------
(* Frames.  An exception in onFrame drops the rest of the chunk.           *)

Throws(rest) == OnClose(rest, qrTimer) /\ rx' = << >>

\* The frame taken for the ServerHello: the ClientFinish goes out and the
\* keep-alive starts.
HandshakeFrame ==
  /\ FrameTurn /\ noise = "started"
  /\ IF Head(rx) = Garbage
     THEN Throws(stack) /\ UNCHANGED noise
     ELSE /\ noise' = "finished"
          /\ IF transport = "open"
             THEN /\ keepAlive' = TRUE /\ rx' = Tail(rx)
                  /\ UNCHANGED <<connection, closed, closes, qrTimer, pending, status, stack>>
             ELSE Throws(stack)
  /\ UNCHANGED <<transport, connectCall, awaited, qrRefs, creds, received>>

UndecodableFrame ==
  /\ FrameTurn /\ noise = "finished" /\ Head(rx) = Garbage
  /\ Throws(stack)
  /\ UNCHANGED <<transport, connectCall, noise, awaited, qrRefs, creds, received>>

\* A slip in Answer: the entry stays in the table.
AnswerOnly(q) == status' = [status EXCEPT ![q] = "answered"] /\ UNCHANGED pending

Answer(q) ==
  /\ status' = [status EXCEPT ![q] = "answered"]
  /\ pending' = [pending EXCEPT ![IdOf[q]] = None]

\* onNode: a reply settles the query waiting under its id, and every node is
\* emitted before it is routed.
NodeFrame ==
  /\ FrameTurn /\ noise = "finished" /\ Head(rx) # Garbage
  /\ LET frame == Head(rx)
         q == IF frame.tag = "reply" /\ frame.id \in Ids THEN pending[frame.id] ELSE None
     IN  /\ IF q = None THEN UNCHANGED <<status, pending>> ELSE Answer(q)
         /\ stack' = <<[at |-> "route", tag |-> frame.tag]>> \o stack
  /\ rx' = Tail(rx)
  /\ UNCHANGED <<connection, closed, closes, keepAlive, qrTimer, transport, connectCall, noise,
                 awaited, qrRefs, creds, received>>

Routes(tags) == Resumes("route") /\ Head(stack).tag \in tags

\* A reply, or a node the socket does not act on; and a handler that emitted last.
HandlerEnds ==
  /\ Routes({"reply", "other"}) \/ Resumes("done")
  /\ stack' = Tail(stack)
  /\ UNCHANGED <<conn, transport, connectCall, noise, awaited, qrRefs, creds, rx, received>>

\* onFailure, onStreamError and the end of the stream.
OnEnd ==
  /\ Routes({"failure", "stream:error", "xmlstreamend"})
  /\ OnClose(Tail(stack), qrTimer)
  /\ UNCHANGED <<transport, connectCall, noise, awaited, qrRefs, creds, rx, received>>

\* onIb: the routing info of the edge.
OnIb ==
  /\ Routes({"ib"})
  /\ creds' = creds \union {"routingInfo"}
  /\ stack' = Emitting("done", Tail(stack))
  /\ UNCHANGED <<conn, transport, connectCall, noise, awaited, qrRefs, rx, received>>

\* onSuccess: news in the credentials are emitted before the state is open.
Learned == {"platform"} \union (IF "me" \in creds THEN {"lid"} ELSE {})

OnSuccess ==
  /\ Routes({"success"})
  /\ creds' = creds \union Learned
  /\ IF Learned \subseteq creds
     THEN connection' = "open" /\ stack' = Emitting("done", Tail(stack))
     ELSE stack' = Emitting("open", Tail(stack)) /\ UNCHANGED connection
  /\ UNCHANGED <<closed, closes, keepAlive, qrTimer, pending, status, transport, connectCall,
                 noise, awaited, qrRefs, rx, received>>

Opens ==
  /\ Resumes("open")
  /\ connection' = "open"
  /\ stack' = Emitting("done", Tail(stack))
  /\ UNCHANGED <<closed, closes, keepAlive, qrTimer, pending, status, transport, connectCall,
                 noise, awaited, qrRefs, creds, rx, received>>

\* onPairDevice: the ack goes out first.
OnPairDevice ==
  /\ Routes({"pair-device"})
  /\ IF CanSend
     THEN UNCHANGED rx /\ \E refs \in Refs : EmitNextQr(refs, Tail(stack))
     ELSE Throws(Tail(stack)) /\ UNCHANGED qrRefs
  /\ UNCHANGED <<transport, connectCall, noise, awaited, creds, received>>

\* onPairSuccess: the credentials are applied and emitted before the reply is
\* sent; a pairing that does not verify closes the socket.
OnPairSuccess ==
  /\ Routes({"pair-success"})
  /\ creds' = creds \union {"me"}
  /\ qrTimer' = FALSE
  /\ stack' = Emitting("pairReply", Tail(stack))
  /\ UNCHANGED <<connection, closed, closes, keepAlive, pending, status, transport, connectCall,
                 noise, awaited, qrRefs, rx, received>>

OnForgedPairSuccess ==
  /\ Routes({"forged-pair-success"})
  /\ OnClose(Tail(stack), FALSE)
  /\ UNCHANGED <<transport, connectCall, noise, awaited, qrRefs, creds, rx, received>>

\* sendNode(reply), whose exception onPairSuccess catches.
PairReply ==
  /\ Resumes("pairReply")
  /\ IF CanSend THEN stack' = Emitting("done", Tail(stack)) /\ UNCHANGED conn
     ELSE OnClose(Tail(stack), qrTimer)
  /\ UNCHANGED <<transport, connectCall, noise, awaited, qrRefs, creds, rx, received>>

----------------------------------------------------------------------------
\* The running handler and the chunk being processed.
Run ==
  \/ CloseTransport \/ OpenTransport \/ ArmQr \/ Opens \/ PairReply
  \/ HandshakeFrame \/ UndecodableFrame \/ NodeFrame
  \/ HandlerEnds \/ OnEnd \/ OnIb \/ OnSuccess
  \/ OnPairDevice \/ OnPairSuccess \/ OnForgedPairSuccess

Environment ==
  \/ TransportOpens \/ TransportError \/ PeerCloses \/ Receive

Next ==
  \/ Connect \/ End \/ \E q \in Queries : Query(q)
  \/ Environment
  \/ Run
  \/ ConnectTimesOut \/ TransportCloses \/ QrTimerFires
  \/ \E q \in Pings : KeepAliveFires(q)
  \/ \E q \in AllQueries : QueryTimesOut(q)

\* A handler runs to its end; an armed timer fires; a closing transport closes.
Fairness ==
  /\ WF_vars(Run)
  /\ WF_vars(ConnectTimesOut) /\ WF_vars(TransportCloses) /\ WF_vars(QrTimerFires)
  /\ \A q \in AllQueries : WF_vars(QueryTimesOut(q))

Spec == Init /\ [][Next]_vars
FairSpec == Spec /\ Fairness

----------------------------------------------------------------------------
TypeOK ==
  /\ connection \in {"close", "connecting", "open"}
  /\ closed \in BOOLEAN /\ keepAlive \in BOOLEAN /\ qrTimer \in BOOLEAN
  /\ closes \in Nat /\ qrRefs \in Nat /\ received \in Nat
  /\ transport \in {"none", "connecting", "open", "closing", "closed"}
  /\ connectCall \in {"none", "begun", "waiting", "done", "failed"}
  /\ noise \in {"none", "started", "finished"}
  /\ pending \in [Ids -> AllQueries \union {None}]
  /\ status \in [AllQueries -> {"unused", "waiting", "answered", "rejected"}]
  /\ awaited \subseteq AllQueries

\* A request is in the table under its own id and only while it waits: a
\* settled query leaves nothing behind that a later reply could reach.
PendingRequestsWait ==
  \A id \in Ids : pending[id] # None => IdOf[pending[id]] = id /\ status[pending[id]] = "waiting"

\* "A dropped transport rejects pending queries": once the socket is closed no
\* caller of query() is left waiting.
ClosedSettlesQueries == closed => \A q \in awaited : status[q] # "waiting"

\* A closed socket has let go of its transport, whichever way it was closed.
ClosedDisconnects == closed /\ stack = << >> => transport \notin {"connecting", "open"}

\* "onClose clears the timer": nothing keeps a closed socket busy.
ClosedStopsTimers == closed /\ stack = << >> => ~keepAlive /\ ~qrTimer

\* An application that reconnects on every close update starts one socket per
\* socket that ended: the update is emitted at most once, and not before.
OneCloseUpdate == closes = IF closed THEN 1 ELSE 0

\* connection.update reported the end, and the state says so ever after.
ClosedStaysClosed == closed => connection = "close"

\* No reply promise is rejected without query() awaiting it.
NoUnhandledRejection == \A q \in AllQueries : status[q] = "rejected" => q \in awaited

\* A connect() that failed leaves no socket that still says it is connecting.
FailedConnectCloses == connectCall = "failed" /\ stack = << >> => connection # "connecting"

\* Every query ends, answered or not, even two under one id.
EveryQuerySettles == \A q \in AllQueries : status[q] = "waiting" ~> status[q] # "waiting"

\* A transport that goes down is reported.
DroppedTransportReported == transport = "closing" ~> closed

\* A QR code on display is not refreshed for ever: it is scanned or the socket
\* closes.
PairingAttemptEnds == qrTimer ~> (closed \/ "me" \in creds)
=============================================================================
