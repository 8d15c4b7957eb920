---------------------------- MODULE GetworkClient ----------------------------
(***************************************************************************)
(* EthGetworkClient (libpoolprotocols/getwork): a pool that is polled over *)
(* HTTP/1.0, one connection per request.                                   *)
(*                                                                         *)
(* m_txPending lets one request at a time go through connect, write and    *)
(* read; the others wait in m_txQueue.  The poll is a chain: an eth_getWork*)
(* request, its answer, the timer the answer sets, the next request.       *)
(*                                                                         *)
(* Everything runs on the io_service thread; ioq is what is queued for it. *)
(* A client is replaced by the manager's rotateConnect; operations that    *)
(* are outstanding then end as aborted, which no handler acts upon.        *)
(***************************************************************************)
EXTENDS Integers, Sequences, SequencesExt, FiniteSets

CONSTANTS
  Resolved,     \* number of addresses the host name resolves to
  Headers,      \* header hashes of the jobs the node may hand out
  NoHeader,     \* m_current of a new client
  MaxQueue,     \* bound: lines in m_txQueue when a share or a hash rate is sent
  MaxInFlight   \* bound: handlers queued when an operation or the timer ends

ASSUME GetworkAssumption ==
  /\ Resolved \in Nat \ {0}
  /\ NoHeader \notin Headers
  /\ MaxQueue \in Nat /\ MaxInFlight \in Nat

VARIABLES
  hasConn,     \* is m_conn not null?
  connecting,  \* m_connecting: the first request's connection is not up yet
  session,     \* m_connected and m_session, which are set and reset together
  txPending, txQueue,
  pendingReq,  \* m_pendingJReq: the request that was written last
  endpoints,   \* size of m_endpoints
  op,          \* outstanding asynchronous operations
  timer,       \* is m_getwork_timer waiting?
  current,     \* m_current.header
  old,         \* is m_current_tstamp older than m_worktimeout?
  epochKnown,  \* has the manager got a job, from this client or an earlier one?
  ioq,         \* queue of the io_service thread
  crashed      \* a null m_session or m_conn or a destroyed client was used, or
               \* an exception left a handler

tx == <<txPending, txQueue>>
job == <<current, old, epochKnown>>
vars == <<hasConn, connecting, session, txPending, txQueue, pendingReq, endpoints,
          op, timer, current, old, epochKnown, ioq, crashed>>

Request == {"getwork", "hashrate", "share"}

\* What a read yields: a failure; no HTTP answer with status 200; nothing to
\* process (the body is not there yet, or is no JSON); JSON without an id, with
\* an error, without a result; JSON of a type that a conversion refuses, by an
\* exception that nothing catches; or a result, which for eth_getWork is a job.
Reply == {"fail", "bad", "nobody", "noid", "error", "noresult", "throws"} \cup Headers

Handler ==
  [h : {"handle_resolve", "handle_connect", "handle_write"}, r : {"ok", "fail"}]
  \cup [h : {"handle_read"}, r : Reply]
  \cup [h : {"getwork_timer", "rotateConnect"}, r : {"ok"}]

Completed(f, r) == [h |-> f, r |-> r]

\* Every variable ranges over its type; m_endpoints is never overdrawn.
TypeOK ==
  /\ hasConn \in BOOLEAN /\ connecting \in BOOLEAN /\ session \in BOOLEAN
  /\ txPending \in BOOLEAN /\ txQueue \in Seq(Request)
  /\ pendingReq \in Request
  /\ endpoints \in Nat
  /\ op \subseteq {"resolve", "connect", "write", "read"}
  /\ timer \in BOOLEAN
  /\ current \in Headers \cup {NoHeader} /\ old \in BOOLEAN /\ epochKnown \in BOOLEAN
  /\ ioq \in Seq(Handler)
  /\ crashed \in BOOLEAN

\* A new client after connect(): a host name is being resolved ...
Init ==
  /\ hasConn = TRUE /\ connecting = TRUE /\ session = FALSE
  /\ txPending = FALSE /\ txQueue = <<>> /\ pendingReq = "getwork"
  /\ endpoints = 0 /\ op = {"resolve"}
  /\ timer = FALSE
  /\ current = NoHeader /\ old = FALSE /\ epochKnown = FALSE
  /\ ioq = <<>> /\ crashed = FALSE

\* ... or the host is an address, to which the first request connects.
NewClient ==
  /\ hasConn' = TRUE /\ connecting' = TRUE /\ session' = FALSE
  /\ pendingReq' = "getwork"
  /\ timer' = FALSE
  /\ current' = NoHeader /\ old' = FALSE
  /\ ioq' = <<>>
  /\ \/ txPending' = FALSE /\ txQueue' = <<>> /\ endpoints' = 0 /\ op' = {"resolve"}
     \/ txPending' = TRUE /\ txQueue' = <<"getwork">> /\ endpoints' = 1 /\ op' = {"connect"}
  /\ UNCHANGED <<epochKnown, crashed>>

-----------------------------------------------------------------------------
\* The handler at the head of the queue is f; the program goes on.
Runs(f) == ~crashed /\ ioq # <<>> /\ Head(ioq).h = f

\* A null pointer or a destroyed client is used, or an exception leaves the
\* handler: the program ends.
Crash ==
  /\ crashed' = TRUE
  /\ UNCHANGED <<hasConn, connecting, session, tx, timer, ioq>>

\* Mutant of Disconnect: the manager does not unset m_conn.
DisconnectKeepsConn(q) ==
  \/ ~(session /\ hasConn) /\ Crash
  \/ /\ session /\ hasConn
     /\ session' = FALSE /\ connecting' = FALSE
     /\ txPending' = FALSE /\ txQueue' = <<>>
     /\ timer' = FALSE
     /\ ioq' = Append(q, Completed("rotateConnect", "ok"))
     /\ UNCHANGED <<hasConn, crashed>>

\* disconnect(): the session is closed, which there must be, and the manager
\* drops m_conn and posts rotateConnect.  q is the rest of the queue.
Disconnect(q) ==
  \/ ~(session /\ hasConn) /\ Crash
  \/ /\ session /\ hasConn
     /\ session' = FALSE /\ connecting' = FALSE /\ hasConn' = FALSE
     /\ txPending' = FALSE /\ txQueue' = <<>>
     /\ timer' = FALSE
     /\ ioq' = Append(q, Completed("rotateConnect", "ok"))
     /\ UNCHANGED crashed

\* begin_connect() with n end points left
BeginConnect(n, q) ==
  \/ /\ n > 0
     /\ op' = op \cup {"connect"}
     /\ ioq' = q
     /\ UNCHANGED <<hasConn, connecting, session, crashed>>
  \/ /\ n = 0
     /\ UNCHANGED op
     /\ Disconnect(q)

\* Mutant of Send: m_txPending is not tested.
SendAlways(r, n, q) ==
  /\ n > 0 => txQueue' = Append(txQueue, r) /\ txPending' = TRUE /\ UNCHANGED timer
  /\ BeginConnect(n, q)

\* send(): the first request connects, the others wait for it
Send(r, n, q) ==
  \/ /\ txPending
     /\ txQueue' = Append(txQueue, r)
     /\ ioq' = q
     /\ UNCHANGED <<txPending, timer, op, hasConn, connecting, session, crashed>>
  \/ /\ ~txPending
     /\ n > 0 => txQueue' = Append(txQueue, r) /\ txPending' = TRUE /\ UNCHANGED timer
     /\ BeginConnect(n, q)

(***************************************************************************)
(* Handlers.                                                               *)
(***************************************************************************)
HandleResolve ==
  /\ Runs("handle_resolve")
  /\ \/ /\ Head(ioq).r = "ok"
        /\ endpoints' = Resolved
        /\ Send("getwork", Resolved, Tail(ioq))
     \/ /\ Head(ioq).r = "fail"
        /\ Disconnect(Tail(ioq))
        /\ UNCHANGED <<endpoints, op>>
  /\ UNCHANGED <<pendingReq, job>>

\* Connected: on the first time the session starts; write the next request.
HandleConnect ==
  /\ Runs("handle_connect") /\ Head(ioq).r = "ok"
  /\ session' = (session \/ connecting)
  /\ connecting' = FALSE
  /\ old' = (old /\ ~connecting)
  /\ \/ /\ txQueue # <<>> /\ hasConn
        /\ pendingReq' = Head(txQueue)
        /\ txQueue' = Tail(txQueue)
        /\ op' = op \cup {"write"}
        /\ UNCHANGED txPending
     \/ /\ txQueue = <<>>
        /\ txPending' = FALSE
        /\ UNCHANGED <<pendingReq, txQueue, op>>
  /\ ioq' = Tail(ioq)
  /\ UNCHANGED <<hasConn, endpoints, timer, current, epochKnown, crashed>>

\* The end point is dropped and the next one tried, whether connecting or
\* writing failed; what was being written is not queued again.
NextEndpoint ==
  /\ endpoints' = endpoints - 1
  /\ endpoints > 1 => UNCHANGED <<tx, timer>>
  /\ BeginConnect(endpoints - 1, Tail(ioq))
  /\ UNCHANGED <<pendingReq, job>>

HandleConnectFails ==
  /\ Runs("handle_connect") /\ Head(ioq).r = "fail" /\ hasConn
  /\ NextEndpoint

HandleWrite ==
  /\ Runs("handle_write") /\ Head(ioq).r = "ok"
  /\ op' = op \cup {"read"}
  /\ ioq' = Tail(ioq)
  /\ UNCHANGED <<hasConn, connecting, session, tx, pendingReq, endpoints, timer, job, crashed>>

HandleWriteFails ==
  /\ Runs("handle_write") /\ Head(ioq).r = "fail" /\ hasConn
  /\ NextEndpoint

\* Mutant of PollsAgain: every answer sets the timer.
AlwaysPollsAgain(r) == r \in {"error"} \cup Headers

\* Does processResponse set the timer for the next eth_getWork?
PollsAgain(r) == pendingReq = "getwork" /\ r \in {"error"} \cup Headers

\* processResponse(): the answer is to the request that was written last.
ProcessResponse(r) ==
  /\ timer' = (timer \/ PollsAgain(r))
  /\ \/ /\ pendingReq = "getwork" /\ r \in Headers \ {current}
        /\ current' = r
        /\ old' = FALSE
        /\ epochKnown' = TRUE
     \/ /\ ~(pendingReq = "getwork" /\ r \in Headers \ {current})
        /\ UNCHANGED job

\* Does the handling of r use m_conn?  Warnings name the host, and the manager
\* asks a client that got a new job for its stratum mode.
UsesConn(r) ==
  \/ r = "noid"
  \/ pendingReq = "getwork" /\ r \in {"error", "noresult"}
  \/ pendingReq = "getwork" /\ epochKnown /\ r \in Headers \ {current}

\* Mutant of HandleRead: it does not go on with the queue.
HandleReadStops ==
  /\ Runs("handle_read") /\ Head(ioq).r \notin {"fail", "bad", "throws"}
  /\ hasConn \/ ~UsesConn(Head(ioq).r)
  /\ ProcessResponse(Head(ioq).r)
  /\ ioq' = Tail(ioq)
  /\ txPending' = (txQueue # <<>>)
  /\ UNCHANGED <<hasConn, connecting, session, txQueue, pendingReq, endpoints, op, crashed>>

\* An answer: process it, then connect for the next request in the queue.
HandleRead ==
  /\ Runs("handle_read") /\ Head(ioq).r \notin {"fail", "bad", "throws"}
  /\ hasConn \/ ~UsesConn(Head(ioq).r)
  /\ \/ /\ txQueue # <<>>
        /\ ProcessResponse(Head(ioq).r)
        /\ UNCHANGED tx
        /\ BeginConnect(endpoints, Tail(ioq))
     \/ /\ txQueue = <<>>
        /\ ProcessResponse(Head(ioq).r)
        /\ txPending' = FALSE
        /\ ioq' = Tail(ioq)
        /\ UNCHANGED <<hasConn, connecting, session, txQueue, op, crashed>>
  /\ UNCHANGED <<pendingReq, endpoints>>

\* isMember, get or asString of a value of another type throws.
HandleReadThrows ==
  /\ Runs("handle_read") /\ Head(ioq).r = "throws"
  /\ Crash
  /\ UNCHANGED <<pendingReq, endpoints, op, job>>

HandleReadFails ==
  /\ Runs("handle_read") /\ Head(ioq).r \in {"fail", "bad"} /\ hasConn
  /\ Disconnect(Tail(ioq))
  /\ UNCHANGED <<pendingReq, endpoints, op, job>>

\* The timer: no new work for too long drops the connection, else poll again.
GetworkTimerElapsed ==
  /\ Runs("getwork_timer")
  /\ \/ /\ old
        /\ endpoints' = (IF endpoints > 0 THEN endpoints - 1 ELSE 0)
        /\ Disconnect(Tail(ioq))
        /\ UNCHANGED op
     \/ /\ ~old
        /\ UNCHANGED endpoints
        /\ Send("getwork", endpoints, Tail(ioq))
  /\ UNCHANGED <<pendingReq, job>>

\* A handler queued before the disconnection uses m_conn after it.
LateHandler ==
  /\ ~crashed /\ ~hasConn /\ ioq # <<>>
  /\ \/ Head(ioq).h \in {"handle_connect", "handle_write"} /\ Head(ioq).r = "fail"
     \/ Head(ioq).h = "handle_connect" /\ Head(ioq).r = "ok" /\ txQueue # <<>>
     \/ Head(ioq).h = "handle_read"
        /\ (Head(ioq).r \in {"fail", "bad"} \/ UsesConn(Head(ioq).r))
  /\ Crash
  /\ UNCHANGED <<pendingReq, endpoints, op, job>>

\* The manager destroys the client and makes a new one.  A handler the old one
\* has left in the queue would run without it.
RotateConnect ==
  /\ Runs("rotateConnect")
  /\ \/ /\ Tail(ioq) = <<>>
        /\ NewClient
     \/ /\ Tail(ioq) # <<>>
        /\ Crash
        /\ UNCHANGED <<pendingReq, endpoints, op, job>>

(***************************************************************************)
(* Calls of the manager.                                                   *)
(***************************************************************************)
SubmitHashrate ==
  /\ ~crashed /\ session /\ Len(txQueue) < MaxQueue
  /\ Send("hashrate", endpoints, ioq)
  /\ UNCHANGED <<pendingReq, endpoints, job>>

SubmitSolution ==
  /\ ~crashed /\ session /\ Len(txQueue) < MaxQueue
  /\ Send("share", endpoints, ioq)
  /\ UNCHANGED <<pendingReq, endpoints, job>>

\* failover or setActiveConnection, in a session
ManagerDisconnects ==
  /\ ~crashed /\ session
  /\ Disconnect(ioq)
  /\ UNCHANGED <<pendingReq, endpoints, op, job>>

(***************************************************************************)
(* The network, the node and the clock.                                    *)
(***************************************************************************)
Completes(o, f, results) ==
  /\ ~crashed /\ o \in op /\ Len(ioq) < MaxInFlight
  /\ op' = op \ {o}
  /\ \E r \in results : ioq' = Append(ioq, Completed(f, r))
  /\ UNCHANGED <<hasConn, connecting, session, tx, pendingReq, endpoints, timer, job, crashed>>

ResolveCompletes == Completes("resolve", "handle_resolve", {"ok", "fail"})
ConnectCompletes == Completes("connect", "handle_connect", {"ok", "fail"})
WriteCompletes == Completes("write", "handle_write", {"ok", "fail"})
ReadCompletes == Completes("read", "handle_read", Reply)

TimerExpires ==
  /\ ~crashed /\ timer /\ Len(ioq) < MaxInFlight
  /\ timer' = FALSE
  /\ ioq' = Append(ioq, Completed("getwork_timer", "ok"))
  /\ UNCHANGED <<hasConn, connecting, session, tx, pendingReq, endpoints, op, job, crashed>>

WorkAges ==
  /\ ~crashed /\ session /\ ~old
  /\ old' = TRUE
  /\ UNCHANGED <<hasConn, connecting, session, tx, pendingReq, endpoints, op, timer,
                 current, epochKnown, ioq, crashed>>

\* The program has ended.
Ended == crashed /\ UNCHANGED vars

HandlerStep ==
  \/ HandleResolve \/ HandleConnect \/ HandleConnectFails
  \/ HandleWrite \/ HandleWriteFails \/ HandleRead \/ HandleReadThrows \/ HandleReadFails
  \/ GetworkTimerElapsed \/ LateHandler \/ RotateConnect
CallStep == SubmitHashrate \/ SubmitSolution \/ ManagerDisconnects
NetworkStep == ResolveCompletes \/ ConnectCompletes \/ WriteCompletes \/ ReadCompletes

Next == HandlerStep \/ CallStep \/ NetworkStep \/ TimerExpires \/ WorkAges \/ Ended

Spec == Init /\ [][Next]_vars

(***************************************************************************)
(* Fairness.  Queued handlers run, the timer expires, and resolving,       *)
(* connecting and writing end, in an error of the operating system if      *)
(* nothing else.  A read has no time-out: the node need not answer.        *)
(* Nobody need call.                                                       *)
(***************************************************************************)
Fairness ==
  /\ WF_vars(HandlerStep)
  /\ WF_vars(ResolveCompletes) /\ WF_vars(ConnectCompletes)
  /\ WF_vars(WriteCompletes)
  /\ WF_vars(TimerExpires)

FairSpec == Spec /\ Fairness

-----------------------------------------------------------------------------
QueuedCount(f) == Cardinality({i \in 1..Len(ioq) : ioq[i].h = f})
InFlight(o, f) == (IF o \in op THEN 1 ELSE 0) + QueuedCount(f)
Alive == hasConn /\ ~crashed

\* m_txPending is set exactly while one request is under way: never two at once
\* on the one socket, and never a set flag with nobody to clear it, after which
\* every request would only be queued.
OneRequestUnderWay ==
  Alive =>
    InFlight("connect", "handle_connect") + InFlight("write", "handle_write")
      + InFlight("read", "handle_read") = (IF txPending THEN 1 ELSE 0)

\* The poll never becomes two: one eth_getWork queued, under way or waiting for
\* the timer, although shares and hash rates share the queue, the timer is set
\* anew by answers and its expiry may already be queued then.
OnePollingChain ==
  Alive =>
    Cardinality({i \in 1..Len(txQueue) : txQueue[i] = "getwork"})
      + (IF pendingReq = "getwork"
         THEN InFlight("write", "handle_write") + InFlight("read", "handle_read") ELSE 0)
      + (IF timer THEN 1 ELSE 0) + QueuedCount("getwork_timer") <= 1

\* A request in the queue is not left there: a write follows, or the client goes,
\* unless the node leaves a request without answer and the connection open.
QueueMovesOn ==
  \/ <>[]("read" \in op)
  \/ txQueue # <<>> ~> "write" \in op \/ ~Alive

\* --work-timeout: "If no new work received from pool after this amount of time
\* the connection is dropped".  False: only the timer that an answer sets looks.
OldWorkIsDropped == session /\ old ~> ~session \/ ~old \/ crashed

\* How the client looks to the manager.
Phase ==
  CASE crashed -> "ended"
    [] ~crashed /\ ~hasConn -> "gone"
    [] ~crashed /\ hasConn /\ session -> "up"
    [] OTHER -> "trying"

Client == INSTANCE ClientLifecycle WITH
  phase <- Phase, rotations <- QueuedCount("rotateConnect")

\* The getwork client implements what the manager relies on: it comes up once,
\* a request that fails takes it down and does not begin a second attempt, and
\* the manager is told once (handle_connect, disconnect).
KeepsLifecycle == Client!Spec

\* README: "farm failover (getwork + stratum)".  A first connection that fails
\* ends in the manager's next choice, as one that succeeds ends in a session.
AttemptEnds == connecting ~> ~connecting

=============================================================================
