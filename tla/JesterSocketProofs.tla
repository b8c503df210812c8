------------------------- MODULE JesterSocketProofs -------------------------
(***************************************************************************)
(* The connection, for any queries, ids, server and listeners: the close   *)
(* is told once, and the table of pending requests holds what waits under  *)
(* its own id, however handlers, timers and callbacks interleave.  Where   *)
(* listeners do not call back, a closed socket is idle, disconnected and   *)
(* waited for by nobody.                                                   *)
(***************************************************************************)
EXTENDS JesterSocket, SequenceTheorems, TLAPS

USE ConstantsAssumption

\* The part of the state onClose acts on, and the rest.
ConnType ==
  /\ connection \in {"close", "connecting", "open"}
  /\ closed \in BOOLEAN /\ keepAlive \in BOOLEAN /\ qrTimer \in BOOLEAN
  /\ closes \in Nat
  /\ pending \in [Ids -> AllQueries \union {None}]
  /\ status \in [AllQueries -> {"unused", "waiting", "answered", "rejected"}]

ConnInv == ConnType /\ PendingRequestsWait /\ OneCloseUpdate

RestType ==
  /\ qrRefs \in Nat /\ received \in Nat
  /\ transport \in {"none", "connecting", "open", "closing", "closed"}
  /\ connectCall \in {"none", "begun", "waiting", "done", "failed"}
  /\ noise \in {"none", "started", "finished"}
  /\ awaited \subseteq AllQueries

IInv == ConnInv /\ RestType

LEMMA InitIInv == Init => IInv
<1>1. SUFFICES ASSUME Init PROVE IInv
  OBVIOUS
<1>2. ConnType
  BY <1>1 DEF Init, ConnType
<1>3. PendingRequestsWait /\ OneCloseUpdate
  BY <1>1 DEF Init, PendingRequestsWait, OneCloseUpdate
<1>4. RestType
  BY <1>1 DEF Init, RestType
<1>5. QED
  BY <1>2, <1>3, <1>4 DEF IInv, ConnInv

----------------------------------------------------------------------------
(* What the operators of the handlers do to the invariant.                 *)

LEMMA ConnUnchanged ==
  ASSUME ConnInv, UNCHANGED <<connection, closed, closes, pending, status>>,
         keepAlive' \in BOOLEAN, qrTimer' \in BOOLEAN
  PROVE  ConnInv'
  BY DEF ConnInv, ConnType, PendingRequestsWait, OneCloseUpdate

\* The state moves on; nothing is closed and no request settles.
LEMMA ConnectionMoves ==
  ASSUME ConnInv, connection' \in {"connecting", "open"},
         UNCHANGED <<closed, closes, keepAlive, qrTimer, pending, status>>
  PROVE  ConnInv'
  BY DEF ConnInv, ConnType, PendingRequestsWait, OneCloseUpdate

\* Closing empties the table, and only the first close is told.
LEMMA OnCloseKeeps ==
  ASSUME ConnInv, NEW rest, NEW qr \in BOOLEAN, OnClose(rest, qr)
  PROVE  ConnInv'
<1>1. CASE closed
  BY <1>1, ConnUnchanged DEF OnClose, ConnInv, ConnType
<1>2. CASE ~closed
  <2>1. Shutdown(rest)
    BY <1>2 DEF OnClose
  <2>2. /\ closed' = TRUE /\ connection' = "close" /\ closes' = 1
        /\ keepAlive' = FALSE /\ qrTimer' = FALSE
    BY <1>2, <2>1 DEF Shutdown, StopTimers, ConnInv, OneCloseUpdate
  <2>3. /\ pending' = [id \in Ids |-> None]
        /\ status' \in [AllQueries -> {"unused", "waiting", "answered", "rejected"}]
    BY <2>1 DEF Shutdown, RejectPending, ConnInv, ConnType
  <2>4. QED
    BY <2>2, <2>3 DEF ConnInv, ConnType, PendingRequestsWait, OneCloseUpdate
<1>3. QED
  BY <1>1, <1>2 DEF ConnInv, ConnType

LEMMA ThrowsKeeps ==
  ASSUME ConnInv, NEW rest, Throws(rest)
  PROVE  ConnInv'
  BY OnCloseKeeps DEF Throws, ConnInv, ConnType

LEMMA EmitNextQrKeeps ==
  ASSUME ConnInv, NEW refs \in Nat, NEW rest, EmitNextQr(refs, rest)
  PROVE  ConnInv' /\ qrRefs' \in Nat
<1>1. CASE refs = 0
  BY <1>1, OnCloseKeeps DEF EmitNextQr
<1>2. CASE refs # 0
  <2>1. qrRefs' \in Nat /\ qrTimer' = FALSE
        /\ UNCHANGED <<connection, closed, closes, keepAlive, pending, status>>
    BY <1>2 DEF EmitNextQr
  <2>2. QED
    BY <2>1, ConnUnchanged DEF ConnInv, ConnType
<1>3. QED
  BY <1>1, <1>2

\* Whatever happens to one request leaves its id to nobody, or to itself.
LEMMA SettleKeeps ==
  ASSUME ConnInv, NEW q, NEW end \in {"answered", "rejected"},
         status' = [status EXCEPT ![q] = end],
         pending' = [pending EXCEPT ![IdOf[q]] = None],
         UNCHANGED <<connection, closed, closes, keepAlive, qrTimer>>
  PROVE  ConnInv'
<1>1. ConnType'
  BY DEF ConnInv, ConnType
<1>2. ASSUME NEW id \in Ids, pending'[id] # None
      PROVE  IdOf[pending'[id]] = id /\ status'[pending'[id]] = "waiting"
  <2>1. pending'[id] = pending[id] /\ id # IdOf[q]
    BY <1>2 DEF ConnInv, ConnType
  <2>2. /\ pending[id] \in AllQueries
        /\ IdOf[pending[id]] = id /\ status[pending[id]] = "waiting"
    BY <1>2, <2>1 DEF ConnInv, ConnType, PendingRequestsWait
  <2>3. pending[id] # q
    BY <2>1, <2>2
  <2>4. QED
    BY <2>1, <2>2, <2>3 DEF ConnInv, ConnType
<1>3. QED
  BY <1>1, <1>2 DEF ConnInv, PendingRequestsWait, OneCloseUpdate

LEMMA RegisterKeeps ==
  ASSUME IInv, NEW q \in AllQueries, Register(q),
         UNCHANGED <<connection, closed, closes, keepAlive, qrTimer>>
  PROVE  ConnInv' /\ awaited' \subseteq AllQueries
<1>1. ConnType' /\ awaited' \subseteq AllQueries
  BY DEF Register, IInv, ConnInv, ConnType, RestType
<1>2. ASSUME NEW id \in Ids, pending'[id] # None
      PROVE  IdOf[pending'[id]] = id /\ status'[pending'[id]] = "waiting"
  <2>1. status[q] = "unused" /\ status' = [status EXCEPT ![q] = "waiting"]
        /\ pending' = [pending EXCEPT ![IdOf[q]] = q]
    BY DEF Register
  <2>2. CASE id = IdOf[q]
    BY <2>1, <2>2 DEF IInv, ConnInv, ConnType
  <2>3. CASE id # IdOf[q]
    BY <1>2, <2>1, <2>3 DEF IInv, ConnInv, ConnType, PendingRequestsWait
  <2>4. QED
    BY <2>2, <2>3
<1>3. QED
  BY <1>1, <1>2 DEF IInv, ConnInv, PendingRequestsWait, OneCloseUpdate

----------------------------------------------------------------------------
(* Every action.                                                           *)

LEMMA TransportKeepsIInv ==
  ASSUME IInv,
         Connect \/ OpenTransport \/ TransportOpens \/ ConnectTimesOut \/ TransportError
           \/ PeerCloses \/ TransportCloses \/ CloseTransport \/ End \/ Receive
  PROVE  IInv'
<1> USE DEF IInv, RestType
<1>1. CASE Connect
  BY <1>1, ConnectionMoves DEF Connect
<1>2. CASE OpenTransport
  BY <1>2, ConnUnchanged DEF OpenTransport, conn, ConnInv, ConnType
<1>3. CASE TransportOpens
  BY <1>3, ConnUnchanged DEF TransportOpens, conn, ConnInv, ConnType
<1>4. CASE ConnectTimesOut
  BY <1>4, ConnUnchanged DEF ConnectTimesOut, conn, ConnInv, ConnType
<1>5. CASE TransportError
  BY <1>5, OnCloseKeeps DEF TransportError, FailWaiting, ConnInv, ConnType
<1>6. CASE PeerCloses
  BY <1>6, ConnUnchanged DEF PeerCloses, conn, ConnInv, ConnType
<1>7. CASE TransportCloses
  BY <1>7, OnCloseKeeps DEF TransportCloses, FailWaiting, ConnInv, ConnType
<1>8. CASE CloseTransport
  BY <1>8, ConnUnchanged DEF CloseTransport, conn, ConnInv, ConnType
<1>9. CASE End
  BY <1>9, OnCloseKeeps DEF End, ConnInv, ConnType
<1>10. CASE Receive
  BY <1>10, ConnUnchanged DEF Receive, conn, ConnInv, ConnType
<1>11. QED
  BY <1>1, <1>2, <1>3, <1>4, <1>5, <1>6, <1>7, <1>8, <1>9, <1>10

LEMMA QueriesKeepIInv ==
  ASSUME IInv,
         \/ \E q \in Queries : Query(q)
         \/ \E q \in Pings : KeepAliveFires(q)
         \/ \E q \in AllQueries : QueryTimesOut(q)
  PROVE  IInv'
<1>1. ASSUME NEW q \in Queries, Query(q) PROVE IInv'
  BY <1>1, RegisterKeeps DEF Query, AllQueries, IInv, RestType
<1>2. ASSUME NEW q \in Pings, KeepAliveFires(q) PROVE IInv'
  BY <1>2, RegisterKeeps DEF KeepAliveFires, AllQueries, IInv, RestType
<1>3. ASSUME NEW q \in AllQueries, QueryTimesOut(q) PROVE IInv'
  BY <1>3, SettleKeeps DEF QueryTimesOut, IInv, RestType
<1>4. QED
  BY <1>1, <1>2, <1>3

LEMMA QrKeepsIInv ==
  ASSUME IInv, ArmQr \/ QrTimerFires \/ OnPairDevice
  PROVE  IInv'
<1>1. CASE ArmQr
  BY <1>1, ConnUnchanged DEF ArmQr, IInv, RestType, ConnInv, ConnType
<1>2. CASE QrTimerFires
  BY <1>2, EmitNextQrKeeps DEF QrTimerFires, IInv, RestType
<1>3. CASE OnPairDevice
  <2>1. CASE CanSend
    <3>1. PICK refs \in Refs : EmitNextQr(refs, Tail(stack))
      BY <1>3, <2>1 DEF OnPairDevice
    <3>2. QED
      BY <1>3, <3>1, EmitNextQrKeeps DEF OnPairDevice, IInv, RestType
  <2>2. CASE ~CanSend
    BY <1>3, <2>2, ThrowsKeeps DEF OnPairDevice, IInv, RestType
  <2>3. QED
    BY <2>1, <2>2
<1>4. QED
  BY <1>1, <1>2, <1>3

LEMMA FramesKeepIInv ==
  ASSUME IInv, HandshakeFrame \/ UndecodableFrame \/ NodeFrame
  PROVE  IInv'
<1>1. CASE HandshakeFrame
  <2>1. ConnInv'
    <3>1. CASE Throws(stack)
      BY <3>1, ThrowsKeeps DEF IInv
    <3>2. CASE ~Throws(stack)
      BY <1>1, <3>2, ConnUnchanged DEF HandshakeFrame, IInv, ConnInv, ConnType
    <3>3. QED
      BY <3>1, <3>2
  <2>2. QED
    BY <1>1, <2>1 DEF HandshakeFrame, IInv, RestType
<1>2. CASE UndecodableFrame
  BY <1>2, ThrowsKeeps DEF UndecodableFrame, IInv, RestType
<1>3. CASE NodeFrame
  <2> DEFINE q == IF Head(rx).tag = "reply" /\ Head(rx).id \in Ids THEN pending[Head(rx).id] ELSE None
  <2>1. /\ IF q = None THEN UNCHANGED <<status, pending>> ELSE Answer(q)
        /\ UNCHANGED <<connection, closed, closes, keepAlive, qrTimer>>
    BY <1>3 DEF NodeFrame
  <2> HIDE DEF q
  <2>2. ASSUME q = None PROVE ConnInv'
    BY <2>1, <2>2, ConnUnchanged DEF IInv, ConnInv, ConnType
  <2>3. ASSUME q # None PROVE ConnInv'
    BY <2>1, <2>3, SettleKeeps DEF Answer, IInv
  <2>4. ConnInv'
    BY <2>2, <2>3
  <2>5. QED
    BY <1>3, <2>4 DEF NodeFrame, IInv, RestType
<1>4. QED
  BY <1>1, <1>2, <1>3

LEMMA NodesKeepIInv ==
  ASSUME IInv,
         HandlerEnds \/ OnEnd \/ OnIb \/ OnSuccess \/ Opens \/ OnPairSuccess
           \/ OnForgedPairSuccess \/ PairReply
  PROVE  IInv'
<1> USE DEF IInv, RestType
<1>1. CASE HandlerEnds
  BY <1>1, ConnUnchanged DEF HandlerEnds, conn, ConnInv, ConnType
<1>2. CASE OnEnd
  BY <1>2, OnCloseKeeps DEF OnEnd, ConnInv, ConnType
<1>3. CASE OnIb
  BY <1>3, ConnUnchanged DEF OnIb, conn, ConnInv, ConnType
<1>4. CASE OnSuccess
  <2>1. ConnInv'
    <3>1. CASE connection' = "open"
      BY <1>4, <3>1, ConnectionMoves DEF OnSuccess
    <3>2. CASE connection' = connection
      BY <1>4, <3>2, ConnUnchanged DEF OnSuccess, ConnInv, ConnType
    <3>3. QED
      BY <1>4, <3>1, <3>2 DEF OnSuccess
  <2>2. QED
    BY <1>4, <2>1 DEF OnSuccess
<1>5. CASE Opens
  BY <1>5, ConnectionMoves DEF Opens
<1>6. CASE OnPairSuccess
  BY <1>6, ConnUnchanged DEF OnPairSuccess, ConnInv, ConnType
<1>7. CASE OnForgedPairSuccess
  BY <1>7, OnCloseKeeps DEF OnForgedPairSuccess
<1>8. CASE PairReply
  <2>1. UNCHANGED conn \/ OnClose(Tail(stack), qrTimer)
    BY <1>8 DEF PairReply
  <2>2. ConnInv'
    BY <2>1, ConnUnchanged, OnCloseKeeps DEF conn, ConnInv, ConnType
  <2>3. QED
    BY <1>8, <2>2 DEF PairReply
<1>9. QED
  BY <1>1, <1>2, <1>3, <1>4, <1>5, <1>6, <1>7, <1>8

LEMMA NextIInv == IInv /\ [Next]_vars => IInv'
<1>1. SUFFICES ASSUME IInv, [Next]_vars PROVE IInv'
  OBVIOUS
<1>2. CASE UNCHANGED vars
  BY <1>1, <1>2, ConnUnchanged DEF vars, conn, IInv, RestType, ConnInv, ConnType
<1>3. CASE Next
  BY <1>1, <1>3, TransportKeepsIInv, QueriesKeepIInv, QrKeepsIInv, FramesKeepIInv, NodesKeepIInv
     DEF Next, Run, Environment
<1>4. QED
  BY <1>1, <1>2, <1>3

----------------------------------------------------------------------------
THEOREM Invariance == Spec => []IInv
  BY InitIInv, NextIInv, PTL DEF Spec

\* The types of the model, for any queries, ids, frames and listeners.
THEOREM TypeCorrect == Spec => []TypeOK
<1>1. IInv => TypeOK
  BY DEF IInv, ConnInv, ConnType, RestType, TypeOK
<1>2. QED
  BY <1>1, Invariance, PTL

\* onClose tells listeners of the close once, also when they call end() from
\* inside of it, and nothing but onClose tells them.
THEOREM CloseToldOnce == Spec => []OneCloseUpdate
<1>1. IInv => OneCloseUpdate
  BY DEF IInv, ConnInv
<1>2. QED
  BY <1>1, Invariance, PTL

\* A reply, a timeout and a close each leave in pendingRequests only requests
\* that wait, also when two queries share an id.
THEOREM TableHoldsWaiting == Spec => []PendingRequestsWait
<1>1. IInv => PendingRequestsWait
  BY DEF IInv, ConnInv
<1>2. QED
  BY <1>1, Invariance, PTL

----------------------------------------------------------------------------
(* What a close leaves behind, where listeners do not call back, end()     *)
(* comes after connect(), and no two queries share an id.                  *)

Orderly ==
  /\ ~ListenersAct /\ ~EndsEarly
  /\ \A p, q \in AllQueries : IdOf[p] = IdOf[q] => p = q

At(at) == stack # << >> /\ Head(stack).at = at

\* One handler runs at a time, and the last thing it does is to emit.
OneHandler == stack = << >> \/ \E step : stack = <<step>>

\* Before connect() there is nothing that could close the socket.
NothingBegun ==
  connectCall = "none" => transport = "none" /\ stack = << >> /\ rx = << >> /\ ~qrTimer

\* Once closed, no handler is left that would go on connecting or arm the QR timer;
\* the transport is let go before anything else happens.
NothingGoesOn ==
  closed => /\ connectCall # "none" /\ ~At("connect") /\ ~At("armQr")
            /\ transport \in {"connecting", "open"} => At("close")
            /\ ~keepAlive /\ ~qrTimer

\* An awaited request has been registered, and is in the table while it waits.
AwaitedInTable ==
  \A q \in awaited : status[q] # "unused" /\ (status[q] = "waiting" => pending[IdOf[q]] = q)

HandlerInv == OneHandler /\ NothingBegun /\ NothingGoesOn
TableInv == AwaitedInTable /\ ClosedSettlesQueries

LEMMA InitHandler == Init => HandlerInv /\ TableInv
  BY DEF Init, HandlerInv, OneHandler, NothingBegun, NothingGoesOn, TableInv, AwaitedInTable,
         ClosedSettlesQueries

\* The innermost handler has nothing below it.
LEMMA NothingBelow ==
  ASSUME OneHandler, stack # << >>
  PROVE  Tail(stack) = << >>
<1>1. PICK step : stack = <<step>>
  BY DEF OneHandler
<1>2. stack \in Seq({step}) /\ Len(stack) = 1
  BY <1>1
<1>3. Tail(stack) \in Seq({step}) /\ Len(Tail(stack)) = 0
  BY <1>2, HeadTailProperties
<1>4. QED
  BY <1>3, EmptySeq

LEMMA EmittingAlone ==
  ASSUME NEW at, stack' = Emitting(at, << >>)
  PROVE  OneHandler' /\ stack' # << >> /\ Head(stack').at = at
<1>1. stack' = <<[at |-> at]>>
  BY DEF Emitting
<1>2. QED
  BY <1>1 DEF OneHandler

LEMMA OnCloseStops ==
  ASSUME IInv, HandlerInv, NEW qr \in {FALSE, qrTimer}, OnClose(<< >>, qr),
         connectCall' # "none",
         closed => transport' \notin {"connecting", "open"}
  PROVE  HandlerInv'
<1>1. CASE closed
  <2>1. /\ stack' = << >> /\ closed' = closed /\ keepAlive' = keepAlive /\ qrTimer' = qr
        /\ ~keepAlive /\ ~qrTimer
    BY <1>1 DEF OnClose, HandlerInv, NothingGoesOn
  <2>2. qr = FALSE
    BY <2>1 DEF IInv, ConnInv, ConnType
  <2>3. QED
    BY <1>1, <2>1, <2>2 DEF HandlerInv, OneHandler, NothingBegun, NothingGoesOn, At
<1>2. CASE ~closed
  <2>1. Shutdown(<< >>)
    BY <1>2 DEF OnClose
  <2>2. closed' /\ ~keepAlive' /\ ~qrTimer' /\ OneHandler' /\ stack' # << >> /\ Head(stack').at = "close"
    BY <2>1, EmittingAlone DEF Shutdown, StopTimers
  <2>3. QED
    BY <2>2 DEF HandlerInv, NothingBegun, NothingGoesOn, At
<1>3. QED
  BY <1>1, <1>2

\* A handler that does not close, nor arm a timer of a closed socket.
LEMMA HandlerGoesOn ==
  ASSUME HandlerInv, UNCHANGED <<closed>>,
         connectCall' # "none",
         OneHandler',
         closed => /\ ~At("connect")' /\ ~At("armQr")'
                   /\ transport' \notin {"connecting", "open"}
                   /\ ~keepAlive' /\ ~qrTimer'
  PROVE  HandlerInv'
  BY DEF HandlerInv, NothingBegun, NothingGoesOn

LEMMA OnCloseSettles ==
  ASSUME IInv, TableInv, NEW rest, NEW qr, OnClose(rest, qr), UNCHANGED awaited
  PROVE  TableInv'
<1>1. CASE closed
  BY <1>1 DEF OnClose, TableInv, AwaitedInTable, ClosedSettlesQueries
<1>2. CASE ~closed
  <2>1. status' = [q \in AllQueries |-> IF pending[IdOf[q]] = q THEN "rejected" ELSE status[q]]
    BY <1>2 DEF OnClose, Shutdown, RejectPending
  <2>2. ASSUME NEW q \in awaited PROVE status'[q] \notin {"unused", "waiting"}
    BY <2>1, <2>2 DEF TableInv, AwaitedInTable, IInv, RestType
  <2>3. QED
    BY <2>2 DEF TableInv, AwaitedInTable, ClosedSettlesQueries
<1>3. QED
  BY <1>1, <1>2

LEMMA TableUnchanged ==
  ASSUME TableInv, UNCHANGED <<closed, pending, status, awaited>>
  PROVE  TableInv'
  BY DEF TableInv, AwaitedInTable, ClosedSettlesQueries

\* The transport and its owner.
LEMMA TransportKeepsHandler ==
  ASSUME Orderly, IInv, HandlerInv,
         Connect \/ OpenTransport \/ TransportOpens \/ ConnectTimesOut \/ TransportError
           \/ PeerCloses \/ TransportCloses \/ CloseTransport \/ End \/ Receive
  PROVE  HandlerInv'
<1> USE DEF HandlerInv, NothingBegun, NothingGoesOn, At
<1>1. CASE Connect
  <2>1. stack' = Emitting("connect", << >>) /\ ~closed /\ ~closed' /\ connectCall' = "begun"
    BY <1>1 DEF Connect, Quiet
  <2>2. QED
    BY <2>1, EmittingAlone
<1>2. CASE OpenTransport
  <2>1. stack' = << >> /\ ~closed /\ ~closed' /\ connectCall' # "none"
    BY <1>2, NothingBelow DEF OpenTransport, Resumes, conn
  <2>2. QED
    BY <2>1 DEF OneHandler
<1>3. CASE TransportOpens
  BY <1>3 DEF TransportOpens, Quiet, conn, OneHandler
<1>4. CASE ConnectTimesOut
  BY <1>4 DEF ConnectTimesOut, Quiet, conn, OneHandler
<1>5. CASE TransportError
  <2>1. stack = << >> /\ OnClose(<< >>, qrTimer) /\ connectCall' # "none" /\ transport' = "closing"
    BY <1>5 DEF TransportError, FailWaiting, Quiet
  <2>2. QED
    BY <2>1, OnCloseStops
<1>6. CASE PeerCloses
  BY <1>6 DEF PeerCloses, Quiet, conn, OneHandler
<1>7. CASE TransportCloses
  <2>1. stack = << >> /\ OnClose(<< >>, qrTimer) /\ connectCall' # "none" /\ transport' = "closed"
    BY <1>7 DEF TransportCloses, FailWaiting, Quiet
  <2>2. QED
    BY <2>1, OnCloseStops
<1>8. CASE CloseTransport
  <2>1. /\ stack' = << >> /\ transport' \notin {"connecting", "open"}
        /\ UNCHANGED <<closed, keepAlive, qrTimer, connectCall>>
    BY <1>8, NothingBelow DEF CloseTransport, Resumes, conn
  <2>2. connectCall # "none"
    BY <1>8 DEF CloseTransport, Resumes
  <2>3. QED
    BY <2>1, <2>2 DEF OneHandler
<1>9. CASE End
  <2>1. stack = << >> /\ OnClose(<< >>, qrTimer) /\ connectCall' # "none" /\ transport' = transport
    BY <1>9 DEF End, CallerTurn, Quiet, Orderly
  <2>2. QED
    BY <2>1, OnCloseStops
<1>10. CASE Receive
  BY <1>10 DEF Receive, Quiet, conn, OneHandler
<1>11. QED
  BY <1>1, <1>2, <1>3, <1>4, <1>5, <1>6, <1>7, <1>8, <1>9, <1>10

LEMMA QueriesKeepHandler ==
  ASSUME HandlerInv,
         \/ \E q \in Queries : Query(q)
         \/ \E q \in Pings : KeepAliveFires(q)
         \/ \E q \in AllQueries : QueryTimesOut(q)
  PROVE  HandlerInv'
<1>1. UNCHANGED <<closed, keepAlive, qrTimer, transport, connectCall, rx, stack>>
  BY DEF Query, KeepAliveFires, QueryTimesOut
<1>2. QED
  BY <1>1 DEF HandlerInv, OneHandler, NothingBegun, NothingGoesOn, At

\* A QR is emitted by a socket that is open, and only then its timer is armed.
LEMMA EmitNextQrStops ==
  ASSUME IInv, HandlerInv, NEW refs, EmitNextQr(refs, << >>), ~closed, connectCall' # "none"
  PROVE  HandlerInv'
<1>1. CASE refs = 0
  BY <1>1, OnCloseStops DEF EmitNextQr
<1>2. CASE refs # 0
  <2>1. ~closed' /\ OneHandler' /\ stack' # << >>
    BY <1>2, EmittingAlone DEF EmitNextQr
  <2>2. QED
    BY <2>1 DEF HandlerInv, NothingBegun, NothingGoesOn
<1>3. QED
  BY <1>1, <1>2

LEMMA QrKeepsHandler ==
  ASSUME IInv, HandlerInv, ArmQr \/ QrTimerFires \/ OnPairDevice
  PROVE  HandlerInv'
<1>1. CASE ArmQr
  <2>1. stack' = << >> /\ ~closed /\ ~closed' /\ connectCall' # "none"
    BY <1>1, NothingBelow DEF ArmQr, Resumes, HandlerInv, NothingBegun, NothingGoesOn, At
  <2>2. QED
    BY <2>1 DEF HandlerInv, OneHandler, NothingBegun, NothingGoesOn
<1>2. CASE QrTimerFires
  <2>1. EmitNextQr(qrRefs, << >>) /\ ~closed /\ connectCall' # "none"
    BY <1>2 DEF QrTimerFires, Quiet, HandlerInv, NothingBegun, NothingGoesOn
  <2>2. QED
    BY <2>1, EmitNextQrStops
<1>3. CASE OnPairDevice
  <2>1. Tail(stack) = << >> /\ connectCall' # "none" /\ ~At("close") /\ transport' = transport
    BY <1>3, NothingBelow DEF OnPairDevice, Routes, Resumes, HandlerInv, NothingBegun, At
  <2>2. CASE CanSend
    <3>1. PICK refs \in Refs : EmitNextQr(refs, << >>)
      BY <1>3, <2>1, <2>2 DEF OnPairDevice
    <3>2. ~closed
      BY <2>1, <2>2 DEF CanSend, HandlerInv, NothingGoesOn
    <3>3. QED
      BY <2>1, <3>1, <3>2, EmitNextQrStops
  <2>3. CASE ~CanSend
    <3>1. OnClose(<< >>, qrTimer)
      BY <1>3, <2>1, <2>3 DEF OnPairDevice, Throws
    <3>2. closed => transport \notin {"connecting", "open"}
      BY <2>1 DEF HandlerInv, NothingGoesOn
    <3>3. QED
      BY <2>1, <3>1, <3>2, OnCloseStops
  <2>4. QED
    BY <2>2, <2>3
<1>4. QED
  BY <1>1, <1>2, <1>3

LEMMA FramesKeepHandler ==
  ASSUME IInv, HandlerInv, HandshakeFrame \/ UndecodableFrame \/ NodeFrame
  PROVE  HandlerInv'
<1>1. /\ stack = << >> /\ connectCall' # "none" /\ transport' = transport
      /\ closed => transport \notin {"connecting", "open"}
  BY DEF HandshakeFrame, UndecodableFrame, NodeFrame, FrameTurn, HandlerInv, NothingBegun,
         NothingGoesOn, At
<1>2. ASSUME Throws(stack) PROVE HandlerInv'
  BY <1>1, <1>2, OnCloseStops DEF Throws
<1>3. CASE HandshakeFrame /\ ~Throws(stack)
  <2>1. transport = "open" /\ UNCHANGED <<closed, qrTimer, stack>>
    BY <1>3 DEF HandshakeFrame
  <2>2. QED
    BY <1>1, <2>1 DEF HandlerInv, OneHandler, NothingBegun, NothingGoesOn
<1>4. CASE UndecodableFrame
  BY <1>2, <1>4 DEF UndecodableFrame
<1>5. CASE NodeFrame
  <2>1. /\ stack' = <<[at |-> "route", tag |-> Head(rx).tag]>>
        /\ UNCHANGED <<closed, keepAlive, qrTimer>>
    BY <1>1, <1>5 DEF NodeFrame
  <2>2. OneHandler' /\ Head(stack').at = "route"
    BY <2>1 DEF OneHandler
  <2>3. QED
    BY <1>1, <2>1, <2>2 DEF HandlerInv, NothingBegun, NothingGoesOn, At
<1>6. QED
  BY <1>2, <1>3, <1>4, <1>5

LEMMA NodesKeepHandler ==
  ASSUME IInv, HandlerInv,
         HandlerEnds \/ OnEnd \/ OnIb \/ OnSuccess \/ Opens \/ OnPairSuccess
           \/ OnForgedPairSuccess \/ PairReply
  PROVE  HandlerInv'
<1>1. /\ stack # << >> /\ UNCHANGED <<transport, connectCall>>
      /\ Head(stack).at \in {"route", "done", "open", "pairReply"}
  BY DEF HandlerEnds, OnEnd, OnIb, OnSuccess, Opens, OnPairSuccess, OnForgedPairSuccess, PairReply,
         Routes, Resumes
<1>2. /\ Tail(stack) = << >> /\ connectCall' # "none"
      /\ closed => transport' \notin {"connecting", "open"}
  BY <1>1, NothingBelow DEF HandlerInv, NothingBegun, NothingGoesOn, At
<1>3. ASSUME NEW qr \in {FALSE, qrTimer}, OnClose(Tail(stack), qr) PROVE HandlerInv'
  BY <1>2, <1>3, OnCloseStops
<1>4. ASSUME NEW at \in {"done", "open", "pairReply"}, stack' = Emitting(at, Tail(stack)),
             UNCHANGED <<closed, keepAlive>>, qrTimer' \in {FALSE, qrTimer}
      PROVE  HandlerInv'
  <2>1. OneHandler' /\ stack' # << >> /\ Head(stack').at = at
    BY <1>2, <1>4, EmittingAlone
  <2>2. closed => ~qrTimer'
    BY <1>4 DEF HandlerInv, NothingGoesOn, IInv, ConnInv, ConnType
  <2>3. QED
    BY <1>2, <1>4, <2>1, <2>2 DEF HandlerInv, NothingBegun, NothingGoesOn, At
<1>5. CASE HandlerEnds
  <2>1. stack' = << >> /\ UNCHANGED <<closed, keepAlive, qrTimer>>
    BY <1>2, <1>5 DEF HandlerEnds, conn
  <2>2. QED
    BY <1>2, <2>1 DEF HandlerInv, OneHandler, NothingBegun, NothingGoesOn, At
<1>6. CASE OnEnd
  BY <1>3, <1>6 DEF OnEnd
<1>7. CASE OnIb
  BY <1>4, <1>7 DEF OnIb, conn
<1>8. CASE OnSuccess
  BY <1>4, <1>8 DEF OnSuccess
<1>9. CASE Opens
  BY <1>4, <1>9 DEF Opens
<1>10. CASE OnPairSuccess
  BY <1>4, <1>10 DEF OnPairSuccess
<1>11. CASE OnForgedPairSuccess
  BY <1>3, <1>11 DEF OnForgedPairSuccess
<1>12. CASE PairReply
  BY <1>3, <1>4, <1>12 DEF PairReply, conn
<1>13. QED
  BY <1>5, <1>6, <1>7, <1>8, <1>9, <1>10, <1>11, <1>12

----------------------------------------------------------------------------
(* The table of requests, under the same hypotheses.                       *)

\* Requests are sent only while the transport is open and no handler is on, so not
\* by a closed socket.
LEMMA OpenIsNotClosed ==
  ASSUME HandlerInv, Quiet, CanSend
  PROVE  ~closed
  BY DEF HandlerInv, NothingGoesOn, Quiet, CanSend, At

LEMMA RegisterKeepsTable ==
  ASSUME Orderly, IInv, HandlerInv, TableInv, NEW q \in AllQueries, Quiet, Register(q),
         UNCHANGED closed
  PROVE  TableInv'
<1>1. /\ status' = [status EXCEPT ![q] = "waiting"] /\ status[q] = "unused"
      /\ pending' = [pending EXCEPT ![IdOf[q]] = q]
      /\ awaited' = IF CanSend THEN awaited \union {q} ELSE awaited
  BY DEF Register
<1>2. pending \in [Ids -> AllQueries \union {None}] /\ awaited \subseteq AllQueries
      /\ status \in [AllQueries -> {"unused", "waiting", "answered", "rejected"}]
  BY DEF IInv, ConnInv, ConnType, RestType
<1>3. ASSUME NEW p \in awaited'
      PROVE  status'[p] # "unused" /\ (status'[p] = "waiting" => pending'[IdOf[p]] = p)
  <2>1. IdOf[p] \in Ids /\ p \in AllQueries
    BY <1>1, <1>2 DEF Ids
  <2>2. CASE p = q
    BY <1>1, <1>2, <2>1, <2>2
  <2>3. CASE p # q
    <3>1. p \in awaited /\ status'[p] = status[p] /\ IdOf[p] # IdOf[q]
      BY <1>1, <1>2, <1>3, <2>1, <2>3 DEF Orderly
    <3>2. QED
      BY <1>1, <1>2, <3>1 DEF TableInv, AwaitedInTable
  <2>4. QED
    BY <2>2, <2>3
<1>4. ASSUME closed', NEW p \in awaited' PROVE status'[p] # "waiting"
  <2>1. ~CanSend /\ awaited' = awaited
    BY <1>1, <1>4, OpenIsNotClosed
  <2>2. p # q
    BY <1>1, <1>4, <2>1 DEF TableInv, AwaitedInTable
  <2>3. QED
    BY <1>1, <1>2, <1>4, <2>1, <2>2 DEF TableInv, ClosedSettlesQueries
<1>5. QED
  BY <1>3, <1>4 DEF TableInv, AwaitedInTable, ClosedSettlesQueries

LEMMA SettleKeepsTable ==
  ASSUME Orderly, IInv, TableInv, NEW q \in AllQueries, NEW end \in {"answered", "rejected"},
         status' = [status EXCEPT ![q] = end],
         pending' = [pending EXCEPT ![IdOf[q]] = None],
         UNCHANGED <<closed, awaited>>
  PROVE  TableInv'
<1>1. ASSUME NEW p \in awaited, status'[p] \in {"unused", "waiting"}
      PROVE  status[p] = status'[p] /\ pending'[IdOf[p]] = pending[IdOf[p]]
  <2>1. p # q /\ p \in AllQueries /\ status[p] = status'[p]
    BY <1>1 DEF IInv, ConnInv, ConnType, RestType
  <2>2. IdOf[p] # IdOf[q]
    BY <2>1 DEF Orderly
  <2>3. QED
    BY <2>1, <2>2 DEF IInv, ConnInv, ConnType
<1>2. QED
  BY <1>1 DEF TableInv, AwaitedInTable, ClosedSettlesQueries

LEMMA NextKeepsTable ==
  ASSUME Orderly, IInv, HandlerInv, TableInv, Next
  PROVE  TableInv'
<1>1. ASSUME NEW rest, NEW qr, OnClose(rest, qr), UNCHANGED awaited PROVE TableInv'
  BY <1>1, OnCloseSettles
<1>2. ASSUME NEW refs, NEW rest, EmitNextQr(refs, rest), UNCHANGED awaited PROVE TableInv'
  BY <1>1, <1>2, TableUnchanged DEF EmitNextQr
<1>3. CASE \/ Connect \/ OpenTransport \/ TransportOpens \/ ConnectTimesOut \/ PeerCloses
           \/ CloseTransport \/ Receive \/ ArmQr \/ HandlerEnds \/ OnIb \/ OnSuccess \/ Opens
           \/ OnPairSuccess
  <2>1. UNCHANGED <<closed, pending, status, awaited>>
    BY <1>3 DEF Connect, OpenTransport, TransportOpens, ConnectTimesOut, PeerCloses,
         CloseTransport, Receive, ArmQr, HandlerEnds, OnIb, OnSuccess, Opens, OnPairSuccess, conn
  <2>2. QED
    BY <2>1, TableUnchanged
<1>4. CASE TransportError \/ TransportCloses \/ End \/ OnEnd \/ OnForgedPairSuccess \/ UndecodableFrame
  BY <1>1, <1>4 DEF TransportError, TransportCloses, End, OnEnd, OnForgedPairSuccess,
       UndecodableFrame, Throws
<1>5. CASE PairReply
  BY <1>1, <1>5, TableUnchanged DEF PairReply, conn
<1>6. CASE QrTimerFires
  BY <1>2, <1>6 DEF QrTimerFires
<1>7. CASE OnPairDevice
  BY <1>1, <1>2, <1>7 DEF OnPairDevice, Throws
<1>8. CASE HandshakeFrame
  BY <1>1, <1>8, TableUnchanged DEF HandshakeFrame, Throws
<1>9. CASE NodeFrame
  <2> DEFINE q == IF Head(rx).tag = "reply" /\ Head(rx).id \in Ids THEN pending[Head(rx).id] ELSE None
  <2>1. /\ IF q = None THEN UNCHANGED <<status, pending>> ELSE Answer(q)
        /\ UNCHANGED <<closed, awaited>>
    BY <1>9 DEF NodeFrame
  <2>2. q \in AllQueries \union {None}
    BY DEF IInv, ConnInv, ConnType
  <2> HIDE DEF q
  <2>3. CASE q = None
    BY <2>1, <2>3, TableUnchanged
  <2>4. CASE q # None
    BY <2>1, <2>2, <2>4, SettleKeepsTable DEF Answer
  <2>5. QED
    BY <2>3, <2>4
<1>10. ASSUME NEW q \in Queries, Query(q) PROVE TableInv'
  <2>1. q \in AllQueries /\ Quiet /\ Register(q) /\ UNCHANGED closed
    BY <1>10 DEF Query, AllQueries, CallerTurn, Orderly
  <2>2. QED
    BY <2>1, RegisterKeepsTable
<1>11. ASSUME NEW q \in Pings, KeepAliveFires(q) PROVE TableInv'
  <2>1. q \in AllQueries /\ Quiet /\ Register(q) /\ UNCHANGED closed
    BY <1>11 DEF KeepAliveFires, AllQueries
  <2>2. QED
    BY <2>1, RegisterKeepsTable
<1>12. ASSUME NEW q \in AllQueries, QueryTimesOut(q) PROVE TableInv'
  BY <1>12, SettleKeepsTable DEF QueryTimesOut
<1>13. QED
  BY <1>3, <1>4, <1>5, <1>6, <1>7, <1>8, <1>9, <1>10, <1>11, <1>12 DEF Next, Run, Environment

LEMMA NextKeepsClosed ==
  Orderly /\ IInv /\ HandlerInv /\ TableInv /\ [Next]_vars => HandlerInv' /\ TableInv'
<1>1. SUFFICES ASSUME Orderly, IInv, HandlerInv, TableInv, [Next]_vars PROVE HandlerInv' /\ TableInv'
  OBVIOUS
<1>2. CASE UNCHANGED vars
  <2>1. HandlerInv'
    BY <1>1, <1>2 DEF vars, conn, HandlerInv, OneHandler, NothingBegun, NothingGoesOn, At
  <2>2. TableInv'
    BY <1>1, <1>2, TableUnchanged DEF vars, conn
  <2>3. QED
    BY <2>1, <2>2
<1>3. CASE Next
  <2>1. HandlerInv'
    BY <1>1, <1>3, TransportKeepsHandler, QueriesKeepHandler, QrKeepsHandler, FramesKeepHandler,
       NodesKeepHandler DEF Next, Run, Environment
  <2>2. TableInv'
    BY <1>1, <1>3, NextKeepsTable
  <2>3. QED
    BY <2>1, <2>2
<1>4. QED
  BY <1>1, <1>2, <1>3

THEOREM ClosedInvariance == Orderly => (Spec => [](HandlerInv /\ TableInv))
<1>1. SUFFICES ASSUME Orderly PROVE Spec => [](HandlerInv /\ TableInv)
  OBVIOUS
<1>2. IInv /\ (HandlerInv /\ TableInv) /\ [Next]_vars => (HandlerInv /\ TableInv)'
  BY <1>1, NextKeepsClosed
<1>3. QED
  BY <1>2, InitHandler, Invariance, PTL DEF Spec

\* onClose clears both timers, and nothing arms one of them again: neither the rest
\* of a handshake nor that of a handler that shows a QR.
THEOREM ClosedIsIdle == Orderly => (Spec => []ClosedStopsTimers)
<1>1. HandlerInv /\ TableInv => ClosedStopsTimers
  BY DEF HandlerInv, NothingGoesOn, ClosedStopsTimers
<1>2. QED
  BY <1>1, ClosedInvariance, PTL

\* onClose closes the transport, in whatever state it is, and none is opened after.
THEOREM ClosedIsDisconnected == Orderly => (Spec => []ClosedDisconnects)
<1>1. HandlerInv /\ TableInv => ClosedDisconnects
  BY DEF HandlerInv, NothingGoesOn, At, ClosedDisconnects
<1>2. QED
  BY <1>1, ClosedInvariance, PTL

\* onClose rejects every request somebody waits for, since all are in the table.
THEOREM ClosedLeavesNobodyWaiting == Orderly => (Spec => []ClosedSettlesQueries)
<1>1. HandlerInv /\ TableInv => ClosedSettlesQueries
  BY DEF TableInv
<1>2. QED
  BY <1>1, ClosedInvariance, PTL
=============================================================================
