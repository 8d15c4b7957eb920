-------------------------- MODULE StratumConnection --------------------------
(***************************************************************************)
(* EthStratumClient (libpoolprotocols/stratum): how a connection comes up, *)
(* logs in, is watched by the one-second work loop timer and goes down.    *)
(*                                                                         *)
(* All handlers run on the io_service thread.  ioq is what is queued for   *)
(* it: posted functions and completed asynchronous operations, in order.   *)
(* An operation that completed stays queued when the socket is cancelled   *)
(* or closed afterwards; one that did not is queued as an error.           *)
(*                                                                         *)
(* Time is one bit: "overdue" says that the oldest plea (request that      *)
(* waits for an answer) is older than m_responsetimeout.  Jobs and share   *)
(* results are left out; a share is a request that waits for an answer.    *)
(***************************************************************************)
EXTENDS Integers, Sequences, FiniteSets

CONSTANTS
  Resolved,     \* number of addresses the pool's name resolves to
  MaxShares,    \* bound: shares submitted and not answered yet
  MaxQueue,     \* bound: lines in m_txQueue when a keep-alive is sent
  MaxInFlight   \* bound: handlers queued when an operation or timer completes

ASSUME StratumAssumption ==
  /\ Resolved \in Nat \ {0}
  /\ MaxShares \in Nat /\ MaxQueue \in Nat /\ MaxInFlight \in Nat

VARIABLES
  uri,       \* the definition m_conn points to
  hasConn,   \* is m_conn not null?
  m_connecting, m_connected, m_disconnecting,
  socket,    \* m_socket: null, or an object that is closed or open
  session,   \* m_session: none, or how far the login got
  pleas, overdue,   \* m_response_pleas_count; is the oldest plea too old?
  endpoints, \* size of m_endpoints
  timer,     \* is m_workloop_timer waiting with a finite expiry?
  op,        \* outstanding asynchronous operations but for the write
  tx,        \* m_txQueue's size, m_txPending, outstanding async_write
  asked,     \* login request that the pool has received and not answered
  shares,    \* shares that the pool has not answered
  ioq,       \* queue of the io_service thread
  crashed    \* a null m_conn, a null m_socket or a destroyed client was used

flags == <<m_connecting, m_connected, m_disconnecting>>
net == <<socket, op, tx, asked, shares>>
watch == <<pleas, overdue, timer>>
vars == <<uri, hasConn, m_connecting, m_connected, m_disconnecting, socket,
          session, pleas, overdue, endpoints, timer, op, tx, asked, shares,
          ioq, crashed>>

\* Definitions: TLS or not; with a scheme that fixes the mode or "autodetect".
Definition ==
  [secure : BOOLEAN, fixed : BOOLEAN, mode : 0..3, confirmed : BOOLEAN,
   responds : BOOLEAN, unrecoverable : BOOLEAN]
Fresh ==
  {d \in Definition : /\ ~d.confirmed /\ ~d.responds /\ ~d.unrecoverable
                      /\ ~d.fixed => d.mode = 3}

Session == {"none", "subscribing", "authorizing", "authorized"}
Request == {"none", "login", "subscribe", "authorize"}
Operation == {"resolve", "connect", "read", "shutdown"}

\* Handlers.  A received line is a share's answer, a line that is no valid
\* JSON-RPC, or the answer to a login request; "999" is the id under which
\* some pools refuse one.
Handler ==
  [h : {"resolve_handler", "connect_handler", "onSend"}, id : {"none"}, ok : BOOLEAN]
  \cup [h : {"onRecv", "processResponse"},
        id : {"none", "invalid", "share", "999"} \cup Request, ok : BOOLEAN]
  \cup [h : {"start_connect", "disconnect", "disconnect_finalize", "onSSLShutdown",
             "workloop_timer", "rotateConnect"}, id : {"none"}, ok : {TRUE}]

Posted(f) == [h |-> f, id |-> "none", ok |-> TRUE]
Completed(f, ok) == [h |-> f, id |-> "none", ok |-> ok]
Line(id, ok) == [h |-> "onRecv", id |-> id, ok |-> ok]

\* Every variable ranges over its type; m_endpoints, popped by the timer and
\* by failed attempts, is never popped when empty.
TypeOK ==
  /\ uri \in Definition /\ hasConn \in BOOLEAN
  /\ m_connecting \in BOOLEAN /\ m_connected \in BOOLEAN /\ m_disconnecting \in BOOLEAN
  /\ socket \in {"null", "closed", "open"}
  /\ session \in Session
  /\ pleas \in Nat /\ overdue \in BOOLEAN
  /\ endpoints \in Nat
  /\ timer \in BOOLEAN
  /\ op \subseteq Operation
  /\ tx \in [queue : Nat, pending : BOOLEAN, write : BOOLEAN]
  /\ asked \in Request /\ shares \in 0..MaxShares
  /\ ioq \in Seq(Handler)
  /\ crashed \in BOOLEAN

\* connect(): a host name is resolved, an address is the only end point.
Connect(o, n, q) ==
  \/ o = {"resolve"} /\ n = 0 /\ q = <<>>
  \/ o = {} /\ n = 1 /\ q = <<Posted("start_connect")>>

\* A new client after connect(); the timer waits one second.
NewClient ==
  /\ hasConn' = TRUE
  /\ m_connecting' = FALSE /\ m_connected' = FALSE /\ m_disconnecting' = FALSE
  /\ socket' = "closed"
  /\ session' = "none"
  /\ pleas' = 0 /\ overdue' = FALSE
  /\ timer' = TRUE
  /\ Connect(op', endpoints', ioq')
  /\ tx' = [queue |-> 0, pending |-> FALSE, write |-> FALSE]
  /\ asked' = "none" /\ shares' = 0

Init ==
  /\ uri \in Fresh
  /\ hasConn = TRUE
  /\ m_connecting = FALSE /\ m_connected = FALSE /\ m_disconnecting = FALSE
  /\ socket = "closed"
  /\ session = "none"
  /\ pleas = 0 /\ overdue = FALSE
  /\ timer = TRUE
  /\ Connect(op, endpoints, ioq)
  /\ tx = [queue |-> 0, pending |-> FALSE, write |-> FALSE]
  /\ asked = "none" /\ shares = 0
  /\ crashed = FALSE

-----------------------------------------------------------------------------
isPendingState == m_connecting \/ m_disconnecting
isConnected == m_connected /\ ~isPendingState

\* Pleas: enqueue starts the clock when there was none; a clear resets it.
EnqueuePlea == pleas' = pleas + 1 /\ overdue' = (pleas > 0 /\ overdue)
DequeuePlea == pleas' = (IF pleas > 0 THEN pleas - 1 ELSE 0) /\ overdue' = (pleas > 1 /\ overdue)
ReplacePlea == pleas' = (IF pleas > 0 THEN pleas ELSE 1) /\ overdue' = (pleas > 1 /\ overdue)
ClearPleas == pleas' = 0 /\ overdue' = FALSE

\* Mutant of Sent: m_txPending is not tested.
SentUnguarded(n, up) ==
  IF n > 0 /\ up THEN [queue |-> n - 1, pending |-> TRUE, write |-> TRUE] ELSE tx

\* m_txQueue after n calls of send(): the first starts a write if none is
\* pending; without a connection the queue is thrown away.
Sent(n, up) ==
  CASE n = 0 -> tx
    [] n > 0 /\ tx.pending -> [tx EXCEPT !.queue = @ + n]
    [] n > 0 /\ ~tx.pending /\ up ->
         [queue |-> n - 1, pending |-> TRUE, write |-> TRUE]
    [] OTHER -> [tx EXCEPT !.queue = 0]

\* m_socket->cancel() or close(): what was outstanding is queued as an error.
Aborted ==
  (IF "read" \in op THEN <<Line("none", FALSE)>> ELSE <<>>)
  \o (IF tx.write THEN <<Completed("onSend", FALSE)>> ELSE <<>>)
  \o (IF "connect" \in op THEN <<Completed("connect_handler", FALSE)>> ELSE <<>>)

\* The handler at the head of the queue is f; the program goes on.
Runs(f) == ~crashed /\ ioq # <<>> /\ Head(ioq).h = f

\* A null pointer or a destroyed client is used: the program ends.
Crash ==
  /\ crashed' = TRUE
  /\ UNCHANGED <<uri, hasConn, m_connecting, m_disconnecting, net, session, watch,
                 endpoints, ioq>>

(***************************************************************************)
(* disconnect() and disconnect_finalize(); q is the rest of the queue.     *)
(***************************************************************************)
\* Tries the next lower mode if the login was still being detected, gives the
\* definition up when no mode is left, and otherwise tells the manager.
DisconnectFinalize(q) ==
  LET detecting == ~uri.unrecoverable /\ ~uri.confirmed /\ uri.responds
      retry == detecting /\ uri.mode > 0
  IN
  \/ ~hasConn /\ Crash
  \/ /\ hasConn
     /\ socket' = "null"
     /\ session' = "none"
     /\ m_disconnecting' = FALSE
     /\ tx' = [tx EXCEPT !.pending = FALSE, !.write = FALSE]
     /\ op' = op \ {"connect", "read"}
     /\ asked' = "none" /\ shares' = 0
     /\ \/ /\ retry
           /\ uri' = [uri EXCEPT !.mode = @ - 1]
           /\ ioq' = q \o Aborted \o <<Posted("start_connect")>>
           /\ UNCHANGED <<hasConn, watch>>
        \/ /\ ~retry
           /\ uri' = [uri EXCEPT !.unrecoverable = @ \/ detecting]
           /\ ClearPleas
           /\ timer' = FALSE
           /\ hasConn' = FALSE
           /\ ioq' = q \o Aborted \o <<Posted("rotateConnect")>>
     /\ UNCHANGED <<m_connecting, endpoints, crashed>>

\* A plain connection is closed and finalized, a TLS one first exchanges
\* close_notify with the pool.
Disconnect(q) ==
  \/ /\ m_disconnecting
     /\ ioq' = q
     /\ UNCHANGED <<uri, hasConn, flags, net, session, watch, endpoints, crashed>>
  \/ /\ ~m_disconnecting /\ socket = "open" /\ uri.secure
     /\ m_disconnecting' = TRUE
     /\ m_connected' = FALSE
     /\ op' = (op \ {"connect", "read"}) \cup {"shutdown"}
     /\ tx' = [tx EXCEPT !.write = FALSE]
     /\ EnqueuePlea
     /\ ioq' = q \o Aborted
     /\ UNCHANGED <<uri, hasConn, m_connecting, socket, session, endpoints, timer,
                    asked, shares, crashed>>
  \/ /\ ~m_disconnecting /\ ~(socket = "open" /\ uri.secure)
     /\ m_connected' = FALSE
     /\ DisconnectFinalize(q)

RunDisconnect == Runs("disconnect") /\ Disconnect(Tail(ioq))

\* failover or setActiveConnection: the manager calls disconnect() in a session
ManagerDisconnects ==
  /\ ~crashed /\ isConnected /\ session # "none"
  /\ Disconnect(ioq)

RunDisconnectFinalize ==
  /\ Runs("disconnect_finalize")
  /\ DisconnectFinalize(Tail(ioq))
  /\ UNCHANGED m_connected

OnSSLShutdownCompleted ==
  /\ Runs("onSSLShutdown")
  /\ ClearPleas
  /\ ioq' = Append(Tail(ioq), Posted("disconnect_finalize"))
  /\ UNCHANGED <<uri, hasConn, flags, net, session, timer, endpoints, crashed>>

\* The manager destroys the client and makes one for the same definition or
\* another.  What the old one has left in the queue would run without it.
RotateConnect ==
  /\ Runs("rotateConnect")
  /\ \/ /\ Tail(ioq) # <<>> \/ op # {} \/ tx.write
        /\ Crash
        /\ UNCHANGED m_connected
     \/ /\ Tail(ioq) = <<>> /\ op = {} /\ ~tx.write
        /\ \/ uri' \in Fresh
           \/ ~uri.unrecoverable /\ uri' = [uri EXCEPT !.responds = FALSE]
        /\ NewClient
        /\ UNCHANGED crashed

(***************************************************************************)
(* Resolving and connecting.                                               *)
(***************************************************************************)
ResolveHandler ==
  /\ Runs("resolve_handler")
  /\ \/ /\ Head(ioq).ok
        /\ endpoints' = Resolved
        /\ ioq' = Append(Tail(ioq), Posted("start_connect"))
        /\ UNCHANGED <<uri, hasConn, flags, net, session, watch, crashed>>
     \/ /\ ~Head(ioq).ok
        /\ DisconnectFinalize(Tail(ioq))
        /\ UNCHANGED m_connected

\* The next end point, if there is one; a plea makes the timer watch it.
StartConnect ==
  /\ Runs("start_connect")
  /\ \/ /\ m_connecting
        /\ ioq' = Tail(ioq)
        /\ UNCHANGED <<uri, hasConn, flags, net, session, watch, endpoints, crashed>>
     \/ /\ ~m_connecting /\ endpoints > 0
        /\ m_connecting' = TRUE
        /\ socket' = "open"
        /\ op' = op \cup {"connect"}
        /\ pleas' = 1 /\ overdue' = FALSE
        /\ ioq' = Tail(ioq)
        /\ UNCHANGED <<uri, hasConn, m_connected, m_disconnecting, tx, asked, shares,
                       session, timer, endpoints, crashed>>
     \/ /\ ~m_connecting /\ endpoints = 0
        /\ DisconnectFinalize(Tail(ioq))
        /\ UNCHANGED m_connected

\* Mutant of ConnectFailed: m_connecting stays set.
ConnectFailedStuck ==
  /\ Runs("connect_handler")
  /\ socket # "null" /\ (~Head(ioq).ok \/ socket = "closed")
  /\ socket' = "closed"
  /\ endpoints' = endpoints - 1
  /\ ioq' = Append(Tail(ioq), Posted("start_connect"))
  /\ UNCHANGED <<uri, hasConn, flags, op, tx, asked, shares, session, watch, crashed>>

\* Error, or the timer has closed the socket: on to the next end point.
ConnectFailed ==
  /\ Runs("connect_handler")
  /\ socket # "null" /\ (~Head(ioq).ok \/ socket = "closed")
  /\ m_connecting' = FALSE
  /\ socket' = "closed"
  /\ endpoints' = endpoints - 1
  /\ ioq' = Append(Tail(ioq), Posted("start_connect"))
  /\ UNCHANGED <<uri, hasConn, m_connected, m_disconnecting, op, tx, asked, shares,
                 session, watch, crashed>>

\* clear_response_pleas, and a plea for the login request
LoginPleaForgotten == ClearPleas
LoginPlea == pleas' = 1 /\ overdue' = FALSE

\* Connected: read, and send the login request of the mode to try.
ConnectSucceeded ==
  /\ Runs("connect_handler")
  /\ Head(ioq).ok /\ socket = "open" /\ hasConn
  /\ m_connecting' = FALSE /\ m_connected' = TRUE
  /\ uri' = [uri EXCEPT !.responds = TRUE, !.confirmed = @ \/ uri.fixed]
  /\ op' = op \cup {"read"}
  /\ LoginPlea
  /\ tx' = CASE tx.pending -> [tx EXCEPT !.queue = 1]
             [] ~tx.pending /\ ~m_disconnecting ->
                  [queue |-> 0, pending |-> TRUE, write |-> TRUE]
             [] OTHER -> [tx EXCEPT !.queue = 0]
  /\ asked' = "login"
  /\ ioq' = Tail(ioq)
  /\ UNCHANGED <<hasConn, m_disconnecting, socket, shares, session, timer, endpoints, crashed>>

\* Connected, but the TLS handshake fails: the definition is given up.
HandshakeFailed ==
  /\ Runs("connect_handler")
  /\ Head(ioq).ok /\ socket = "open" /\ hasConn /\ uri.secure
  /\ m_connecting' = FALSE /\ m_connected' = TRUE
  /\ uri' = [uri EXCEPT !.responds = TRUE, !.unrecoverable = TRUE]
  /\ tx' = [tx EXCEPT !.queue = 0]
  /\ ioq' = Append(Tail(ioq), Posted("disconnect"))
  /\ UNCHANGED <<hasConn, m_disconnecting, socket, op, asked, shares, session, watch,
                 endpoints, crashed>>

(***************************************************************************)
(* The work loop timer.                                                    *)
(***************************************************************************)
\* In EthereumStratum/2.0.0 a keep-alive may be due first.
Noops == IF uri.mode = 3 /\ session # "none" /\ tx.queue < MaxQueue THEN {0, 1} ELSE {0}

\* The condition under which a pending operation's socket is closed: the
\* code compares m_responsetimeout >= the plea's age.
ClosesPending == pleas > 0 /\ isPendingState /\ ~overdue

\* The timer is started again; mutant: it is not.
ResubmitForgotten == timer' = FALSE
Resubmit == timer' = TRUE

WorkloopTimer ==
  /\ Runs("workloop_timer") /\ hasConn
  /\ \E n \in Noops : tx' = Sent(n, isConnected)
  /\ UNCHANGED <<hasConn, flags, session, shares, asked, crashed, uri>>

\* A socket that is connecting or shutting TLS down is closed; the timer is
\* not started again.
TimerClosesSocket ==
  /\ WorkloopTimer
  /\ ClosesPending
  /\ \/ m_connecting /\ socket # "null"
     \/ ~m_connecting /\ uri.secure /\ socket = "open"
  /\ socket' = "closed"
  /\ op' = op \ {"connect", "shutdown"}
  /\ ioq' = Tail(ioq) \o Aborted
            \o (IF "shutdown" \in op THEN <<Posted("onSSLShutdown")>> ELSE <<>>)
  /\ UNCHANGED <<watch, endpoints>>

\* An answer is overdue.  To a login during detection an error is simulated,
\* otherwise the end point is dropped and the connection closed.
TimerNoResponse ==
  /\ WorkloopTimer
  /\ pleas > 0 /\ isConnected /\ overdue
  /\ \/ /\ ~uri.confirmed /\ ~uri.unrecoverable
        /\ ioq' = Append(Tail(ioq), [h |-> "processResponse", id |-> "login", ok |-> FALSE])
        /\ UNCHANGED endpoints
     \/ /\ uri.confirmed \/ uri.unrecoverable
        /\ endpoints' = endpoints - 1
        /\ ioq' = Append(Tail(ioq), Posted("disconnect"))
  /\ ClearPleas /\ Resubmit
  /\ UNCHANGED <<socket, op>>

\* No new work for m_worktimeout seconds, noticed only if a plea waits.
TimerNoWork ==
  /\ WorkloopTimer
  /\ pleas > 0 /\ isConnected /\ ~overdue /\ session # "none"
  /\ endpoints' = endpoints - 1
  /\ ioq' = Append(Tail(ioq), Posted("disconnect"))
  /\ ClearPleas /\ Resubmit
  /\ UNCHANGED <<socket, op>>

\* Nothing to do.
TimerTicks ==
  /\ WorkloopTimer
  /\ ~(pleas > 0 /\ isConnected /\ overdue)
  /\ ~(ClosesPending /\ (m_connecting \/ (uri.secure /\ socket = "open")))
  /\ Resubmit
  /\ ioq' = Tail(ioq)
  /\ UNCHANGED <<pleas, overdue, socket, op, endpoints>>

\* Answers that processResponse uses m_session for.
NeedsSession(m) ==
  \/ m.id = "subscribe" /\ m.ok
  \/ m.id = "authorize" /\ (m.ok \/ uri.mode # 3)

\* A handler that was queued before the connection was given up uses m_conn,
\* m_socket or m_session after it.
LateHandler ==
  /\ ~crashed /\ ioq # <<>>
  /\ \/ Head(ioq).h = "workloop_timer"
        /\ (~hasConn \/ (ClosesPending /\ m_connecting /\ socket = "null"))
     \/ Head(ioq).h = "connect_handler" /\ (socket = "null" \/ (Head(ioq).ok /\ socket = "open" /\ ~hasConn))
     \/ Head(ioq).h \in {"onRecv", "processResponse"} /\ Head(ioq).id \notin {"none", "invalid"}
        /\ (~hasConn \/ (NeedsSession(Head(ioq)) /\ session = "none"))
  /\ Crash
  /\ UNCHANGED m_connected

(***************************************************************************)
(* Lines from the pool.                                                    *)
(***************************************************************************)
\* The session after a successful login request, the next request and how
\* many lines are sent for it.
LoginStep(mode) ==
  CASE mode = 3 -> [session |-> "subscribing", next |-> "subscribe", lines |-> 1]
    [] mode = 2 -> [session |-> "authorizing", next |-> "authorize", lines |-> 2]
    [] mode = 1 -> [session |-> "authorized", next |-> "none", lines |-> 1]
    [] mode = 0 -> [session |-> "authorizing", next |-> "authorize", lines |-> 1]

\* Not JSON-RPC: the connection is dropped.
InvalidResponse(m, q) ==
  /\ m.id = "invalid"
  /\ ioq' = Append(q, Posted("disconnect"))
  /\ UNCHANGED <<uri, session, pleas, overdue, tx, asked>>

\* Mutant of LoginResponse: the mode is not confirmed.
LoginResponseUnconfirmed(m, q) ==
  /\ m.id = "login" /\ hasConn /\ m.ok
  /\ LET s == LoginStep(uri.mode) IN
       /\ session' = s.session
       /\ asked' = s.next
       /\ tx' = Sent(s.lines, isConnected)
       /\ IF s.next = "none" THEN DequeuePlea ELSE ReplacePlea
  /\ ioq' = q
  /\ UNCHANGED uri

\* The login succeeds: the mode is confirmed, the session starts and the next
\* request is sent.
LoginResponse(m, q) ==
  /\ m.id = "login" /\ hasConn /\ m.ok
  /\ LET s == LoginStep(uri.mode) IN
       /\ session' = s.session
       /\ asked' = s.next
       /\ tx' = Sent(s.lines, isConnected)
       /\ IF s.next = "none" THEN DequeuePlea ELSE ReplacePlea
  /\ uri' = [uri EXCEPT !.confirmed = TRUE]
  /\ ioq' = q

\* EthereumStratum/2.0.0: subscribed, ask for authorization
SubscribeResponse(m, q) ==
  /\ m.id = "subscribe" /\ hasConn /\ session # "none" /\ m.ok
  /\ session' = "authorizing"
  /\ asked' = "authorize"
  /\ tx' = Sent(1, isConnected)
  /\ ReplacePlea
  /\ ioq' = q
  /\ UNCHANGED uri

AuthorizeResponse(m, q) ==
  /\ m.id = "authorize" /\ hasConn /\ session # "none" /\ m.ok
  /\ session' = "authorized"
  /\ DequeuePlea
  /\ ioq' = q
  /\ UNCHANGED <<uri, tx, asked>>

\* A request of the login is refused: the definition is given up, unless its
\* mode is still being detected, and then the next one is tried.
RefusedResponse(m, q) ==
  /\ m.id \in {"login", "subscribe", "authorize"} /\ ~m.ok
  /\ hasConn /\ (NeedsSession(m) => session # "none")
  /\ uri' = [uri EXCEPT !.unrecoverable = @ \/ uri.confirmed \/ m.id # "login"]
  /\ DequeuePlea
  /\ ioq' = Append(q, Posted("disconnect"))
  /\ UNCHANGED <<session, tx, asked>>

\* A refusal under the id 999: whether it is meant for the login is guessed
\* from the state of the session.  The definition is not given up, and the
\* plea stays.
UnnamedRefusal(m, q) ==
  /\ m.id = "999" /\ hasConn
  /\ ioq' = IF uri.confirmed /\ session = "authorized" THEN q
            ELSE Append(q, Posted("disconnect"))
  /\ UNCHANGED <<uri, session, pleas, overdue, tx, asked>>

ShareResponse(m, q) ==
  /\ m.id = "share" /\ hasConn
  /\ DequeuePlea
  /\ ioq' = q
  /\ UNCHANGED <<uri, session, tx, asked>>

\* processResponse(): m is the message, q what is queued after it.
ProcessResponse(m, q) ==
  \/ InvalidResponse(m, q)
  \/ LoginResponse(m, q) \/ SubscribeResponse(m, q) \/ AuthorizeResponse(m, q)
  \/ RefusedResponse(m, q) \/ UnnamedRefusal(m, q)
  \/ ShareResponse(m, q)

\* onRecvSocketDataCompleted: process the line, and read on while connected.
OnRecv ==
  /\ Runs("onRecv") /\ Head(ioq).id # "none"
  /\ ProcessResponse(Head(ioq), Tail(ioq))
  /\ op' = IF isConnected THEN op \cup {"read"} ELSE op
  /\ UNCHANGED <<hasConn, flags, socket, shares, timer, endpoints, crashed>>

\* Mutant of FakeResponse: it reads on as onRecvSocketDataCompleted does.
FakeResponseReads ==
  /\ Runs("processResponse")
  /\ ProcessResponse(Head(ioq), Tail(ioq))
  /\ op' = IF isConnected THEN op \cup {"read"} ELSE op
  /\ UNCHANGED <<hasConn, flags, socket, shares, timer, endpoints, crashed>>

\* The answer simulated by the timer.
FakeResponse ==
  /\ Runs("processResponse")
  /\ ProcessResponse(Head(ioq), Tail(ioq))
  /\ UNCHANGED <<hasConn, flags, socket, op, shares, timer, endpoints, crashed>>

\* The read failed or was aborted.
OnRecvError ==
  /\ Runs("onRecv") /\ Head(ioq).id = "none"
  /\ uri' = [uri EXCEPT !.unrecoverable = @ \/ (isConnected /\ session = "authorizing")]
  /\ ioq' = Tail(ioq) \o (IF isConnected THEN <<Posted("disconnect")>> ELSE <<>>)
  /\ UNCHANGED <<hasConn, flags, net, session, watch, endpoints, crashed>>

(***************************************************************************)
(* Lines to the pool.                                                      *)
(***************************************************************************)
\* submitSolution, which the manager calls while isConnected(); it returns
\* unless isAuthorized().
SubmitSolution ==
  /\ ~crashed /\ isConnected /\ session = "authorized" /\ shares < MaxShares
  /\ shares' = shares + 1
  /\ EnqueuePlea
  /\ tx' = Sent(1, isConnected)
  /\ UNCHANGED <<uri, hasConn, flags, socket, session, endpoints, timer, op, asked, ioq, crashed>>

\* submitHashrate, which the manager's timer calls while isConnected(), during
\* a login too; EthereumStratum/2.0.0 names the worker of the session.  The
\* answer, with the id 9, is not waited for.
SubmitHashrate ==
  /\ ~crashed /\ isConnected /\ tx.queue < MaxQueue
  /\ \/ /\ uri.mode # 3 \/ session # "none"
        /\ tx' = Sent(1, isConnected)
        /\ UNCHANGED <<uri, hasConn, flags, socket, session, watch, endpoints, op, asked,
                       shares, ioq, crashed>>
     \/ /\ uri.mode = 3 /\ session = "none"
        /\ Crash
        /\ UNCHANGED m_connected

OnSend ==
  /\ Runs("onSend") /\ Head(ioq).ok
  /\ tx' = IF tx.queue > 0 /\ isConnected
           THEN [queue |-> 0, pending |-> TRUE, write |-> TRUE]
           ELSE [tx EXCEPT !.queue = 0, !.pending = FALSE]
  /\ ioq' = Tail(ioq)
  /\ UNCHANGED <<uri, hasConn, flags, socket, session, watch, endpoints, op, asked, shares, crashed>>

\* A TLS stream that was shut down asks for disconnect() twice.
OnSendError ==
  /\ Runs("onSend") /\ ~Head(ioq).ok
  /\ tx' = [tx EXCEPT !.queue = 0, !.pending = FALSE]
  /\ \E twice \in {FALSE, uri.secure} :
       ioq' = Tail(ioq) \o (IF twice THEN <<Posted("disconnect")>> ELSE <<>>)
                        \o (IF isConnected THEN <<Posted("disconnect")>> ELSE <<>>)
  /\ UNCHANGED <<uri, hasConn, flags, socket, session, watch, endpoints, op, asked, shares, crashed>>

(***************************************************************************)
(* The network, the pool and the clock.                                    *)
(***************************************************************************)
Room == ~crashed /\ Len(ioq) < MaxInFlight

Completes(o, handler) ==
  /\ Room /\ o \in op
  /\ op' = op \ {o}
  /\ ioq' = Append(ioq, handler)
  /\ UNCHANGED <<uri, hasConn, flags, socket, session, watch, endpoints, tx, crashed>>

ResolveCompletes ==
  /\ \E ok \in BOOLEAN : Completes("resolve", Completed("resolve_handler", ok))
  /\ UNCHANGED <<asked, shares>>

ConnectCompletes ==
  /\ \E ok \in BOOLEAN : Completes("connect", Completed("connect_handler", ok))
  /\ UNCHANGED <<asked, shares>>

ShutdownCompletes ==
  /\ Completes("shutdown", Posted("onSSLShutdown"))
  /\ UNCHANGED <<asked, shares>>

ReadFails ==
  /\ Completes("read", Line("none", FALSE))
  /\ UNCHANGED <<asked, shares>>

InvalidLine ==
  /\ Completes("read", Line("invalid", TRUE))
  /\ UNCHANGED <<asked, shares>>

LoginAnswered ==
  /\ asked # "none" /\ ~tx.write /\ tx.queue = 0
  /\ \E answer \in {Line(asked, TRUE), Line(asked, FALSE), Line("999", FALSE)} :
       Completes("read", answer)
  /\ asked' = "none"
  /\ UNCHANGED shares

ShareAnswered ==
  /\ shares > 0 /\ ~tx.write
  /\ Completes("read", Line("share", TRUE))
  /\ shares' = shares - 1
  /\ UNCHANGED asked

WriteCompletes ==
  /\ Room /\ tx.write
  /\ tx' = [tx EXCEPT !.write = FALSE]
  /\ \E ok \in BOOLEAN : ioq' = Append(ioq, Completed("onSend", ok))
  /\ UNCHANGED <<uri, hasConn, flags, socket, session, watch, endpoints, op, asked, shares, crashed>>

TimerExpires ==
  /\ Room /\ timer
  /\ timer' = FALSE
  /\ ioq' = Append(ioq, Posted("workloop_timer"))
  /\ UNCHANGED <<uri, hasConn, flags, net, session, pleas, overdue, endpoints, crashed>>

PleaAges ==
  /\ ~crashed /\ pleas > 0 /\ ~overdue
  /\ overdue' = TRUE
  /\ UNCHANGED <<uri, hasConn, flags, net, session, pleas, timer, endpoints, ioq, crashed>>

\* The program has ended.
Ended == crashed /\ UNCHANGED vars

HandlerStep ==
  \/ RunDisconnect \/ RunDisconnectFinalize \/ OnSSLShutdownCompleted \/ RotateConnect
  \/ ResolveHandler \/ StartConnect \/ ConnectFailed \/ ConnectSucceeded \/ HandshakeFailed
  \/ TimerClosesSocket \/ TimerNoResponse \/ TimerNoWork \/ TimerTicks
  \/ LateHandler \/ OnRecv \/ FakeResponse \/ OnRecvError \/ OnSend \/ OnSendError
CallStep == ManagerDisconnects \/ SubmitSolution \/ SubmitHashrate
PoolStep == ReadFails \/ InvalidLine \/ LoginAnswered \/ ShareAnswered
NetworkStep == ResolveCompletes \/ ConnectCompletes \/ ShutdownCompletes \/ WriteCompletes

Next ==
  HandlerStep \/ CallStep \/ PoolStep \/ NetworkStep \/ TimerExpires \/ PleaAges \/ Ended

Spec == Init /\ [][Next]_vars

(***************************************************************************)
(* Fairness.  Queued handlers run, timers expire, time passes; resolving,  *)
(* connecting and writing end, in an error of the operating system if      *)
(* nothing else.  The pool need neither answer a request nor the TLS       *)
(* shutdown, and nobody need call.                                         *)
(***************************************************************************)
Fairness ==
  /\ WF_vars(HandlerStep)
  /\ WF_vars(ResolveCompletes) /\ WF_vars(ConnectCompletes) /\ WF_vars(WriteCompletes)
  /\ WF_vars(TimerExpires) /\ WF_vars(PleaAges)

FairSpec == Spec /\ Fairness

-----------------------------------------------------------------------------
Queued(f) == \E i \in 1..Len(ioq) : ioq[i].h = f
QueuedCount(f) == Cardinality({i \in 1..Len(ioq) : ioq[i].h = f})

\* One operation per buffer: no second read into m_recvBuffer, which would
\* split lines (reads are started by connect_handler and after each line, also
\* while old completions are queued), and no second async_write from
\* m_sendBuffer, which m_txPending guards; nor is a line left in the queue with
\* nobody to send it.
OneOperationPerBuffer ==
  /\ (IF "read" \in op THEN 1 ELSE 0) + QueuedCount("onRecv") <= 1
  /\ tx.write => tx.pending /\ ~Queued("onSend")
  /\ ~crashed /\ tx.queue > 0 => tx.write \/ Queued("onSend")

\* m_connecting is never left set: the attempt it stands for is under way or its
\* result is queued, whatever the timer closes meanwhile.
ConnectingIsReal ==
  m_connecting /\ ~crashed => "connect" \in op \/ Queued("connect_handler")

\* Is the work loop timer waiting, or its handler queued?
TimerRuns == timer \/ Queued("workloop_timer")

\* A login request that waits for the pool's answer is watched: its plea was not
\* used up by other answers, after every retry in another mode, or its expiry
\* was acted upon; and the timer that looks at the plea runs, but over TLS or
\* once an end point was dropped (then the timer may have closed a socket, which
\* it does not survive).
LoginIsWatched ==
  asked = "login" /\ isConnected /\ ~crashed =>
    \/ Queued("processResponse") \/ Queued("disconnect")
    \/ pleas > 0 /\ (TimerRuns \/ uri.secure \/ endpoints < Resolved)

\* Where the timer runs, a login that the pool does not answer comes to an end,
\* in whatever mode, with whatever handlers of earlier attempts queued.
LoginTimesOut ==
  asked = "login" /\ isConnected /\ TimerRuns ~> asked # "login" \/ ~isConnected \/ crashed

\* --response-timeout: "If no response from pool to a stratum message after this
\* amount of time the connection is dropped", here of the login request.
UnansweredIsDropped ==
  asked = "login" /\ isConnected ~> asked # "login" \/ ~isConnected \/ crashed

\* disconnect(): "As there may be a connection issue we also endorse a timeout".
\* A TLS shutdown comes to an end although the pool does not answer it.  False: the
\* timer may have ended before.
DisconnectCompletes == m_disconnecting ~> ~m_disconnecting \/ crashed

\* How the client looks to the manager: up from startSession(), which calls
\* onConnected, to the end of the connection.
Phase ==
  CASE crashed -> "ended"
    [] ~crashed /\ ~hasConn -> "gone"
    [] ~crashed /\ hasConn /\ session # "none" -> "up"
    [] OTHER -> "trying"

Client == INSTANCE ClientLifecycle WITH
  phase <- Phase, rotations <- QueuedCount("rotateConnect")

\* The stratum client implements what the manager relies on: through all modes
\* and end points it tries, TLS shutdowns and late completions, it comes up at
\* most once, a session that was up is never silently tried again, and the
\* manager is told once that it is over (disconnect_finalize).
KeepsLifecycle == Client!Spec

=============================================================================
