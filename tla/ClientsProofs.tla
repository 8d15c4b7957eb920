---------------------------- MODULE ClientsProofs ----------------------------
(***************************************************************************)
(* Proofs about the clients that need no login.                            *)
(*                                                                         *)
(* The getwork client: one request under way, one polling chain, and the   *)
(* lifecycle the manager relies on.  What is queued is counted, so the     *)
(* module begins with how a count changes when a queue does.               *)
(* The simulation client: the same lifecycle, with three threads in it.    *)
(***************************************************************************)
EXTENDS GetworkClient, SimulateClient, FiniteSetTheorems, TLAPS

Bit(b) == IF b THEN 1 ELSE 0

\* The positions of s that hold a member of T.
Marked(s, T) == {i \in 1..Len(s) : s[i] \in T}

(***************************************************************************)
(* Counting in queues.                                                     *)
(***************************************************************************)
\* A count is a number, and none for the empty queue.
LEMMA MarkedFinite ==
  ASSUME NEW S, NEW s \in Seq(S), NEW T
  PROVE  /\ IsFiniteSet(Marked(s, T)) /\ Cardinality(Marked(s, T)) \in Nat
         /\ s = <<>> => Cardinality(Marked(s, T)) = 0
<1>1. IsFiniteSet(1..Len(s))  BY FS_Interval
<1>2. Marked(s, T) \in SUBSET (1..Len(s))  BY DEF Marked
<1>3. IsFiniteSet(Marked(s, T))  BY <1>1, <1>2, FS_Subset
<1>4. s = <<>> => Marked(s, T) = {}  BY DEF Marked
<1>. QED  BY <1>3, <1>4, FS_CardinalityType, FS_EmptySet

\* An element that joins a queue (Append) is counted, and changes nothing else.
LEMMA MarkedAppend ==
  ASSUME NEW S, NEW s \in Seq(S), NEW x \in S, NEW T
  PROVE  Cardinality(Marked(Append(s, x), T)) = Cardinality(Marked(s, T)) + Bit(x \in T)
<1>1. IsFiniteSet(Marked(s, T))  BY MarkedFinite
<1>2. Len(s) + 1 \notin Marked(s, T)  BY DEF Marked
<1>3. CASE x \in T
  <2>1. Marked(Append(s, x), T) = Marked(s, T) \cup {Len(s) + 1}
    BY <1>3 DEF Marked
  <2>. QED  BY <1>1, <1>2, <1>3, <2>1, FS_AddElement DEF Bit
<1>4. CASE x \notin T
  <2>1. Marked(Append(s, x), T) = Marked(s, T)
    BY <1>4 DEF Marked
  <2>. QED  BY <1>4, <2>1, MarkedFinite DEF Bit
<1>. QED  BY <1>3, <1>4

\* An element that leaves a queue (Tail) is no longer counted.
LEMMA MarkedTail ==
  ASSUME NEW S, NEW s \in Seq(S), s # <<>>, NEW T
  PROVE  Cardinality(Marked(Tail(s), T)) = Cardinality(Marked(s, T)) - Bit(Head(s) \in T)
<1>. DEFINE R == Marked(s, T) \ {1}
            f == [i \in R |-> i - 1]
<1>1. IsFiniteSet(R)
      /\ Cardinality(R) = IF 1 \in Marked(s, T) THEN Cardinality(Marked(s, T)) - 1
                                                ELSE Cardinality(Marked(s, T))
  BY MarkedFinite, FS_RemoveElement
<1>2. 1 \in Marked(s, T) <=> Head(s) \in T
  BY DEF Marked
<1>3. f \in Bijection(R, Marked(Tail(s), T))
  <2>1. \A i \in R : i \in 2..Len(s) /\ s[i] \in T
    BY DEF Marked
  <2>2. \A i \in R : f[i] \in Marked(Tail(s), T)
    BY <2>1 DEF Marked
  <2>3. \A i, j \in R : f[i] = f[j] => i = j
    BY <2>1
  <2>4. \A k \in Marked(Tail(s), T) : k + 1 \in R /\ f[k + 1] = k
    BY DEF Marked
  <2>5. f \in [R -> Marked(Tail(s), T)]  BY <2>2
  <2>. HIDE DEF R, f
  <2>6. f \in Injection(R, Marked(Tail(s), T))  BY <2>3, <2>5 DEF Injection, IsInjective
  <2>7. f \in Surjection(R, Marked(Tail(s), T))  BY <2>4, <2>5 DEF Surjection
  <2>. QED  BY <2>6, <2>7 DEF Bijection
<1>4. Cardinality(Marked(Tail(s), T)) = Cardinality(R)
  <2>1. ExistsBijection(R, Marked(Tail(s), T))  BY <1>3 DEF ExistsBijection
  <2>. QED  BY <1>1, <2>1, FS_Bijection
<1>. QED  BY <1>1, <1>2, <1>4, MarkedFinite DEF Bit

\* The handlers of one kind in a queue of handlers.
Waiting(q, f) == Cardinality({i \in 1..Len(q) : q[i].h = f})

\* The same facts for handlers.
LEMMA WaitingFacts ==
  ASSUME NEW q \in Seq(Handler), NEW f
  PROVE  /\ Waiting(q, f) \in Nat
         /\ q = <<>> => Waiting(q, f) = 0
         /\ q # <<>> => Waiting(Tail(q), f) = Waiting(q, f) - Bit(Head(q).h = f)
         /\ \A m \in Handler : Waiting(Append(q, m), f) = Waiting(q, f) + Bit(m.h = f)
<1>. DEFINE T == {m \in Handler : m.h = f}
<1>1. ASSUME NEW s \in Seq(Handler) PROVE Waiting(s, f) = Cardinality(Marked(s, T))
  <2>1. {i \in 1..Len(s) : s[i].h = f} = Marked(s, T)  BY DEF Marked
  <2>. QED  BY <2>1 DEF Waiting
<1>2. Waiting(q, f) = Cardinality(Marked(q, T))  BY <1>1
<1>3. Waiting(q, f) \in Nat /\ (q = <<>> => Waiting(q, f) = 0)
  BY <1>2, MarkedFinite
<1>4. ASSUME q # <<>> PROVE Waiting(Tail(q), f) = Waiting(q, f) - Bit(Head(q).h = f)
  <2>1. Tail(q) \in Seq(Handler) /\ Head(q) \in Handler  BY <1>4
  <2>2. Waiting(Tail(q), f) = Cardinality(Marked(Tail(q), T))  BY <1>1, <2>1
  <2>3. Head(q) \in T <=> Head(q).h = f  BY <2>1
  <2>. HIDE DEF T
  <2>4. Cardinality(Marked(Tail(q), T)) = Cardinality(Marked(q, T)) - Bit(Head(q) \in T)
    BY <1>4, MarkedTail
  <2>. QED  BY <1>2, <2>2, <2>3, <2>4 DEF Bit
<1>5. ASSUME NEW m \in Handler PROVE Waiting(Append(q, m), f) = Waiting(q, f) + Bit(m.h = f)
  <2>1. Append(q, m) \in Seq(Handler)  OBVIOUS
  <2>2. Waiting(Append(q, m), f) = Cardinality(Marked(Append(q, m), T))  BY <1>1, <2>1
  <2>3. m \in T <=> m.h = f  OBVIOUS
  <2>. HIDE DEF T
  <2>4. Cardinality(Marked(Append(q, m), T)) = Cardinality(Marked(q, T)) + Bit(m \in T)
    BY MarkedAppend
  <2>. QED  BY <1>2, <2>2, <2>3, <2>4 DEF Bit
<1>. QED  BY <1>3, <1>4, <1>5

(***************************************************************************)
(* The getwork client: types.                                              *)
(***************************************************************************)
Flags == /\ hasConn \in BOOLEAN /\ connecting \in BOOLEAN /\ session \in BOOLEAN
         /\ txPending \in BOOLEAN /\ timer \in BOOLEAN /\ old \in BOOLEAN
         /\ epochKnown \in BOOLEAN /\ crashed \in BOOLEAN
Data == /\ txQueue \in Seq(Request) /\ pendingReq \in Request
        /\ endpoints \in Nat
        /\ op \subseteq {"resolve", "connect", "write", "read"}
        /\ current \in Headers \cup {NoHeader}
        /\ ioq \in Seq(Handler)

\* The handlers that are queued are handlers.
LEMMA HandlersAre ==
  /\ Completed("rotateConnect", "ok") \in Handler
  /\ Completed("getwork_timer", "ok") \in Handler
  /\ \A r \in {"ok", "fail"} : /\ Completed("handle_resolve", r) \in Handler
                               /\ Completed("handle_connect", r) \in Handler
                               /\ Completed("handle_write", r) \in Handler
  /\ \A r \in Reply : Completed("handle_read", r) \in Handler
BY DEF Completed, Handler

Operations == {"resolve", "connect", "write", "read"}

\* What disconnect() leaves in the queues.
LEMMA DisconnectData ==
  ASSUME Data, NEW q \in Seq(Handler), Disconnect(q)
  PROVE  txQueue' \in Seq(Request) /\ ioq' \in Seq(Handler)
<1>1. CASE UNCHANGED <<txQueue, ioq>>
  BY <1>1 DEF Data
<1>2. CASE txQueue' = <<>> /\ ioq' = Append(q, Completed("rotateConnect", "ok"))
  BY <1>2, HandlersAre
<1>. QED  BY <1>1, <1>2 DEF Disconnect, Crash, tx

\* What begin_connect() leaves in the queue, and which operations it starts.
LEMMA BeginConnectData ==
  ASSUME Data, NEW n, NEW q \in Seq(Handler), BeginConnect(n, q)
  PROVE  ioq' \in Seq(Handler) /\ op' \subseteq Operations
<1>1. CASE op' = op \cup {"connect"} /\ ioq' = q
  BY <1>1 DEF Data, Operations
<1>2. CASE UNCHANGED op /\ Disconnect(q)
  BY <1>2, DisconnectData DEF Data, Operations
<1>. QED  BY <1>1, <1>2 DEF BeginConnect

\* What send() leaves in the queues, and which operations it starts.
LEMMA SendData ==
  ASSUME Data, NEW r \in Request, NEW n, NEW q \in Seq(Handler), Send(r, n, q)
  PROVE  txQueue' \in Seq(Request) /\ ioq' \in Seq(Handler) /\ op' \subseteq Operations
<1>1. CASE txQueue' = Append(txQueue, r) /\ ioq' = q /\ UNCHANGED op
  BY <1>1 DEF Data, Operations
<1>2. CASE txQueue' = Append(txQueue, r) /\ BeginConnect(n, q)
  BY <1>2, BeginConnectData DEF Data
<1>3. CASE Disconnect(q) /\ UNCHANGED op
  BY <1>3, DisconnectData DEF Data, Operations
<1>. QED  BY <1>1, <1>2, <1>3 DEF Send, BeginConnect

\* Every variable of the getwork client keeps its type, m_endpoints included,
\* which is popped after each failure: the list is never popped when empty
\* (EthGetworkClient::handle_connect, getwork_timer_elapsed).
THEOREM GetworkTypeCorrect == Spec => []TypeOK
<1>0. TypeOK <=> Flags /\ Data  BY DEF TypeOK, Flags, Data
<1>1. Init => Flags /\ Data
  <2>. SUFFICES ASSUME Init PROVE Flags /\ Data  OBVIOUS
  <2>1. Flags  BY DEF Init, Flags
  <2>2. Data  BY DEF Init, Data, Request
  <2>. QED  BY <2>1, <2>2
<1>2. Flags /\ Data /\ [Next]_vars => Flags' /\ Data'
  <2>. SUFFICES ASSUME Flags, Data, [Next]_vars PROVE Flags' /\ Data'  OBVIOUS
  <2>0. /\ ioq \in Seq(Handler) /\ endpoints \in Nat
        /\ ioq # <<>> => Tail(ioq) \in Seq(Handler)
        /\ op \subseteq Operations
    BY DEF Data, Operations
  <2>1. CASE HandleResolve
    <3>0. ioq # <<>> /\ UNCHANGED <<pendingReq, job>>  BY <2>1 DEF HandleResolve, Runs
    <3>1. Flags'  BY <2>1 DEF HandleResolve, Flags, Send, BeginConnect, Disconnect, Crash, tx, job
    <3>2. CASE endpoints' = Resolved /\ Send("getwork", Resolved, Tail(ioq))
      <4>1. "getwork" \in Request /\ Resolved \in Nat  BY GetworkAssumption DEF Request
      <4>2. txQueue' \in Seq(Request) /\ ioq' \in Seq(Handler) /\ op' \subseteq Operations
        BY <2>0, <3>0, <3>2, <4>1, SendData
      <4>. QED  BY <3>0, <3>1, <3>2, <4>1, <4>2 DEF Data, Operations, job
    <3>3. CASE Disconnect(Tail(ioq)) /\ UNCHANGED <<endpoints, op>>
      <4>1. txQueue' \in Seq(Request) /\ ioq' \in Seq(Handler)
        BY <2>0, <3>0, <3>3, DisconnectData
      <4>. QED  BY <3>0, <3>1, <3>3, <4>1 DEF Data, job
    <3>. QED  BY <2>1, <3>2, <3>3 DEF HandleResolve
  <2>2. CASE HandleConnect
    <3>1. Flags'  BY <2>2 DEF HandleConnect, Flags
    <3>2. ioq' \in Seq(Handler) /\ UNCHANGED <<endpoints, current>>
      BY <2>0, <2>2 DEF HandleConnect, Runs
    <3>3. txQueue' \in Seq(Request) /\ pendingReq' \in Request /\ op' \subseteq Operations
      <4>1. CASE txQueue # <<>> /\ pendingReq' = Head(txQueue) /\ txQueue' = Tail(txQueue)
                 /\ op' = op \cup {"write"}
        BY <2>0, <4>1 DEF Data, Operations
      <4>2. CASE UNCHANGED <<pendingReq, txQueue, op>>  BY <2>0, <4>2 DEF Data
      <4>. QED  BY <2>2, <4>1, <4>2 DEF HandleConnect
    <3>. QED  BY <3>1, <3>2, <3>3 DEF Data, Operations
  <2>3. CASE NextEndpoint /\ ioq # <<>>
    <3>1. CASE endpoints > 1
      <4>1. UNCHANGED <<tx, timer, hasConn, connecting, session, crashed, pendingReq, job>>
        BY <2>0, <2>3, <3>1 DEF NextEndpoint, BeginConnect
      <4>2. Flags'  BY <4>1 DEF Flags, tx, job
      <4>3. endpoints' \in Nat  BY <2>0, <2>3, <3>1 DEF NextEndpoint
      <4>4. ioq' \in Seq(Handler) /\ op' \subseteq Operations
        BY <2>0, <2>3, BeginConnectData DEF NextEndpoint
      <4>. QED  BY <4>1, <4>2, <4>3, <4>4 DEF Data, Operations, tx, job
    <3>2. CASE ~(endpoints > 1)
      <4>1. endpoints' \in Nat  BY <2>0, <2>3, <3>2 DEF NextEndpoint, BeginConnect
      <4>2. Disconnect(Tail(ioq)) /\ UNCHANGED <<pendingReq, job>>
        BY <2>0, <2>3, <3>2 DEF NextEndpoint, BeginConnect
      <4>3. Flags'  BY <4>2 DEF Flags, Disconnect, Crash, tx, job
      <4>4. ioq' \in Seq(Handler) /\ op' \subseteq Operations
        BY <2>0, <2>3, BeginConnectData DEF NextEndpoint
      <4>5. txQueue' \in Seq(Request)  BY <2>0, <2>3, <4>2, DisconnectData
      <4>. QED  BY <4>1, <4>2, <4>3, <4>4, <4>5 DEF Data, Operations, job
    <3>. QED  BY <3>1, <3>2
  <2>4. CASE HandleWrite
    <3>1. Flags'  BY <2>4 DEF HandleWrite, Flags, tx, job
    <3>2. Data'  BY <2>4 DEF HandleWrite, Runs, Data, tx, job
    <3>. QED  BY <3>1, <3>2
  <2>5. CASE HandleConnectFails  BY <2>3, <2>5 DEF HandleConnectFails, Runs
  <2>6. CASE HandleWriteFails  BY <2>3, <2>6 DEF HandleWriteFails, Runs
  <2>7. CASE HandleRead
    <3>1. Flags'  BY <2>7 DEF HandleRead, Flags, ProcessResponse, PollsAgain, BeginConnect,
                             Disconnect, Crash, tx, job
    <3>2. current' \in Headers \cup {NoHeader}
      BY <2>7 DEF HandleRead, Data, ProcessResponse, job
    <3>3. ioq # <<>> /\ UNCHANGED <<pendingReq, endpoints, txQueue>>
      BY <2>7 DEF HandleRead, Runs, tx
    <3>4. ioq' \in Seq(Handler) /\ op' \subseteq Operations
      <4>1. CASE BeginConnect(endpoints, Tail(ioq))
        BY <2>0, <3>3, <4>1, BeginConnectData
      <4>2. CASE ioq' = Tail(ioq) /\ UNCHANGED op  BY <2>0, <3>3, <4>2
      <4>. QED  BY <2>7, <4>1, <4>2 DEF HandleRead
    <3>. QED  BY <3>1, <3>2, <3>3, <3>4 DEF Data, Operations
  <2>8. CASE Disconnect(ioq) /\ UNCHANGED <<pendingReq, endpoints, op, job>>
    <3>1. Flags'  BY <2>8 DEF Flags, Disconnect, Crash, tx, job
    <3>. QED  BY <2>8, <2>0, <3>1, DisconnectData DEF Data, job
  <2>9. CASE HandleReadFails
    <3>0. Disconnect(Tail(ioq)) /\ ioq # <<>> /\ UNCHANGED <<pendingReq, endpoints, op, job>>
      BY <2>9 DEF HandleReadFails, Runs
    <3>1. Flags'  BY <3>0 DEF Flags, Disconnect, Crash, tx, job
    <3>. QED  BY <3>0, <2>0, <3>1, DisconnectData DEF Data, job
  <2>10. CASE GetworkTimerElapsed
    <3>0. ioq # <<>> /\ UNCHANGED <<pendingReq, job>>  BY <2>10 DEF GetworkTimerElapsed, Runs
    <3>1. Flags'  BY <2>10 DEF GetworkTimerElapsed, Flags, Send, BeginConnect, Disconnect,
                              Crash, tx, job
    <3>2. endpoints' \in Nat  BY <2>10, <2>0 DEF GetworkTimerElapsed
    <3>3. CASE Disconnect(Tail(ioq)) /\ UNCHANGED op
      <4>1. txQueue' \in Seq(Request) /\ ioq' \in Seq(Handler)
        BY <2>0, <3>0, <3>3, DisconnectData
      <4>. QED  BY <3>0, <3>1, <3>2, <3>3, <4>1 DEF Data, job
    <3>4. CASE Send("getwork", endpoints, Tail(ioq))
      <4>1. "getwork" \in Request  BY DEF Request
      <4>2. txQueue' \in Seq(Request) /\ ioq' \in Seq(Handler) /\ op' \subseteq Operations
        BY <2>0, <3>0, <3>4, <4>1, SendData
      <4>. QED  BY <3>0, <3>1, <3>2, <4>2 DEF Data, Operations, job
    <3>. QED  BY <2>10, <3>3, <3>4 DEF GetworkTimerElapsed
  <2>11. CASE Crash /\ UNCHANGED <<pendingReq, endpoints, op, job>>
    <3>1. Flags'  BY <2>11 DEF Crash, Flags, tx, job
    <3>2. Data'  BY <2>11 DEF Crash, Data, tx, job
    <3>. QED  BY <3>1, <3>2
  <2>12. CASE NewClient
    <3>1. Flags'  BY <2>12 DEF NewClient, Flags
    <3>2. txQueue' \in Seq(Request) /\ endpoints' \in Nat /\ op' \subseteq Operations
      <4>1. CASE txQueue' = <<>> /\ endpoints' = 0 /\ op' = {"resolve"}
        BY <4>1 DEF Operations
      <4>2. CASE txQueue' = <<"getwork">> /\ endpoints' = 1 /\ op' = {"connect"}
        BY <4>2 DEF Operations, Request
      <4>. QED  BY <2>12, <4>1, <4>2 DEF NewClient
    <3>3. ioq' \in Seq(Handler) /\ pendingReq' \in Request /\ current' \in Headers \cup {NoHeader}
      BY <2>12 DEF NewClient, Request
    <3>. QED  BY <3>1, <3>2, <3>3 DEF Data, Operations
  <2>13. ASSUME NEW r \in Request, Send(r, endpoints, ioq), UNCHANGED <<pendingReq, endpoints, job>>
         PROVE  Flags' /\ Data'
    <3>1. Flags'  BY <2>13 DEF Flags, Send, BeginConnect, Disconnect, Crash, tx, job
    <3>2. txQueue' \in Seq(Request) /\ ioq' \in Seq(Handler) /\ op' \subseteq Operations
      BY <2>0, <2>13, SendData
    <3>. QED  BY <2>13, <3>1, <3>2 DEF Data, Operations, job
  <2>14. ASSUME NEW o \in Operations, NEW m \in Handler, ioq' = Append(ioq, m), op' = op \ {o},
                UNCHANGED <<hasConn, connecting, session, tx, pendingReq, endpoints, job, crashed>>,
                timer' \in BOOLEAN
         PROVE  Flags' /\ Data'
    <3>1. Flags'  BY <2>14 DEF Flags, tx, job
    <3>2. ioq' \in Seq(Handler)  BY <2>0, <2>14
    <3>3. op' \subseteq Operations  BY <2>0, <2>14
    <3>. QED  BY <2>14, <3>1, <3>2, <3>3 DEF Data, Operations, tx, job
  <2>15. CASE NetworkStep
    <3>1. \E o \in Operations : \E m \in Handler : op' = op \ {o} /\ ioq' = Append(ioq, m)
      BY <2>15, HandlersAre DEF Operations, NetworkStep, ResolveCompletes, ConnectCompletes, WriteCompletes,
                                ReadCompletes, Completes
    <3>2. UNCHANGED <<hasConn, connecting, session, tx, pendingReq, endpoints, timer, job, crashed>>
      BY <2>15 DEF NetworkStep, ResolveCompletes, ConnectCompletes, WriteCompletes,
                   ReadCompletes, Completes
    <3>3. timer' \in BOOLEAN  BY <3>2 DEF Flags
    <3>. QED  BY <2>14, <3>1, <3>2, <3>3
  <2>16. CASE TimerExpires
    <3>1. Flags'  BY <2>16 DEF TimerExpires, Flags, tx, job
    <3>2. Data'  BY <2>16, HandlersAre DEF TimerExpires, Data, tx, job
    <3>. QED  BY <3>1, <3>2
  <2>17. CASE WorkAges
    <3>1. Flags'  BY <2>17 DEF WorkAges, Flags, tx
    <3>2. Data'  BY <2>17 DEF WorkAges, Data, tx
    <3>. QED  BY <3>1, <3>2
  <2>18. CASE UNCHANGED vars
    <3>1. Flags'  BY <2>18 DEF vars, Flags
    <3>2. Data'  BY <2>18 DEF vars, Data
    <3>. QED  BY <3>1, <3>2
  <2>19. CASE CallStep
    <3>. USE DEF CallStep, SubmitHashrate, SubmitSolution, ManagerDisconnects, Request
    <3>. QED  BY <2>8, <2>13, <2>19
  <2>20. CASE LateHandler  BY <2>11, <2>20 DEF LateHandler
  <2>21. CASE RotateConnect  BY <2>11, <2>12, <2>21 DEF RotateConnect
  <2>22. CASE HandleReadThrows  BY <2>11, <2>22 DEF HandleReadThrows
  <2>. QED  BY <2>1, <2>2, <2>4, <2>5, <2>6, <2>7, <2>9, <2>10, <2>15, <2>16, <2>17, <2>18,
               <2>19, <2>20, <2>21, <2>22 DEF Next, HandlerStep, Ended
<1>. QED  BY <1>0, <1>1, <1>2, PTL DEF Spec

(***************************************************************************)
(* The getwork client: requests, polls and rotations.                      *)
(***************************************************************************)
Kinds == {"handle_resolve", "handle_connect", "handle_write", "handle_read",
          "getwork_timer", "rotateConnect"}

\* The numbers the invariant is about.
Resolves == InFlight("resolve", "handle_resolve")
Connects == InFlight("connect", "handle_connect")
Writes == InFlight("write", "handle_write")
Reads == InFlight("read", "handle_read")
Timers == Bit(timer) + QueuedCount("getwork_timer")
Rotations == QueuedCount("rotateConnect")
Pending == Bit(txPending)
Polls(s) == Cardinality({i \in 1..Len(s) : s[i] = "getwork"})

Busy == Alive => Connects + Writes + Reads = Pending

\* A name that is being resolved is the beginning of the chain.
Chain ==
  Alive =>
    Polls(txQueue) + (IF pendingReq = "getwork" THEN Writes + Reads ELSE 0)
      + Timers + Resolves <= 1

\* The manager's rotateConnect is queued exactly while there is no m_conn.
Rotating == ~crashed => Rotations = Bit(~hasConn)

\* What the counts of a queue are when a handler leaves it or joins it.
LEMMA QueueFacts ==
  ASSUME Data
  PROVE  /\ \A f \in Kinds : QueuedCount(f) \in Nat /\ QueuedCount(f) = Waiting(ioq, f)
         /\ \A f \in Kinds : QueuedCount(f)' = Waiting(ioq', f)
         /\ \A f \in Kinds : ioq = <<>> => QueuedCount(f) = 0
         /\ \A f \in Kinds : ioq # <<>> =>
              /\ Waiting(Tail(ioq), f) \in Nat
              /\ Waiting(Tail(ioq), f) = QueuedCount(f) - Bit(Head(ioq).h = f)
         /\ \A f \in Kinds : \A m \in Handler :
              Waiting(Append(ioq, m), f) = QueuedCount(f) + Bit(m.h = f)
<1>1. ioq \in Seq(Handler)  BY DEF Data
<1>2. ASSUME NEW f \in Kinds PROVE QueuedCount(f) = Waiting(ioq, f) /\ QueuedCount(f)' = Waiting(ioq', f)
  BY DEF QueuedCount, Waiting
<1>3. ASSUME ioq # <<>>, NEW f \in Kinds
      PROVE  /\ Waiting(Tail(ioq), f) \in Nat
             /\ Waiting(Tail(ioq), f) = QueuedCount(f) - Bit(Head(ioq).h = f)
  <2>1. Tail(ioq) \in Seq(Handler)  BY <1>1, <1>3
  <2>2. Waiting(Tail(ioq), f) \in Nat  BY <2>1, WaitingFacts
  <2>. QED  BY <1>1, <1>2, <1>3, <2>2, WaitingFacts
<1>. QED  BY <1>1, <1>2, <1>3, WaitingFacts

\* The counts when the handler at the head, of kind f, is all that leaves.
LEMMA PopCounts ==
  ASSUME Data, ioq # <<>>, NEW f \in Kinds, Head(ioq).h = f, ioq' = Tail(ioq)
  PROVE  /\ \A g \in Kinds \ {f} : QueuedCount(g)' = QueuedCount(g)
         /\ QueuedCount(f)' = QueuedCount(f) - 1 /\ QueuedCount(f) \in Nat \ {0}
<1>1. \A g \in Kinds : QueuedCount(g)' = Waiting(Tail(ioq), g)  BY QueueFacts
<1>2. ASSUME NEW g \in Kinds \ {f} PROVE QueuedCount(g)' = QueuedCount(g)
  <2>1. Waiting(Tail(ioq), g) = QueuedCount(g) - Bit(Head(ioq).h = g) /\ QueuedCount(g) \in Nat
    BY QueueFacts
  <2>. QED  BY <1>1, <2>1 DEF Bit
<1>3. Waiting(Tail(ioq), f) = QueuedCount(f) - Bit(Head(ioq).h = f)
      /\ QueuedCount(f) \in Nat /\ Waiting(Tail(ioq), f) \in Nat
  BY QueueFacts
<1>4. Bit(Head(ioq).h = f) = 1  BY DEF Bit
<1>. QED  BY <1>1, <1>2, <1>3, <1>4

\* The counts when one handler joins the queue.
LEMMA PushCounts ==
  ASSUME Data, NEW m \in Handler, NEW f \in Kinds, m.h = f, ioq' = Append(ioq, m)
  PROVE  /\ \A g \in Kinds \ {f} : QueuedCount(g)' = QueuedCount(g)
         /\ QueuedCount(f)' = QueuedCount(f) + 1 /\ QueuedCount(f) \in Nat
<1>1. \A g \in Kinds : QueuedCount(g)' = Waiting(Append(ioq, m), g)  BY QueueFacts
<1>2. ASSUME NEW g \in Kinds \ {f} PROVE QueuedCount(g)' = QueuedCount(g)
  <2>1. Waiting(Append(ioq, m), g) = QueuedCount(g) + Bit(m.h = g) /\ QueuedCount(g) \in Nat
    BY QueueFacts
  <2>. QED  BY <1>1, <2>1 DEF Bit
<1>3. Waiting(Append(ioq, m), f) = QueuedCount(f) + Bit(m.h = f) /\ QueuedCount(f) \in Nat
  BY QueueFacts
<1>4. Bit(m.h = f) = 1  BY DEF Bit
<1>. QED  BY <1>1, <1>2, <1>3, <1>4

\* The polls in m_txQueue when a request joins it or leaves it.
LEMMA PollsFacts ==
  ASSUME NEW s \in Seq(Request)
  PROVE  /\ Polls(s) \in Nat
         /\ Polls(<<>>) = 0 /\ Polls(<<"getwork">>) = 1
         /\ s # <<>> => Polls(Tail(s)) = Polls(s) - Bit(Head(s) = "getwork")
         /\ \A r \in Request : Polls(Append(s, r)) = Polls(s) + Bit(r = "getwork")
<1>1. ASSUME NEW u PROVE Polls(u) = Cardinality(Marked(u, {"getwork"}))
  <2>1. {i \in 1..Len(u) : u[i] = "getwork"} = Marked(u, {"getwork"})  BY DEF Marked
  <2>. QED  BY <2>1 DEF Polls
<1>2. \A r : r \in {"getwork"} <=> r = "getwork"  OBVIOUS
<1>3. <<>> \in Seq(Request) /\ Polls(<<>>) = 0
  <2>1. <<>> \in Seq(Request)  OBVIOUS
  <2>2. Cardinality(Marked(<<>>, {"getwork"})) = 0  BY <2>1, MarkedFinite
  <2>. QED  BY <1>1, <2>1, <2>2
<1>4. Polls(s) \in Nat  BY <1>1, MarkedFinite
<1>5. ASSUME s # <<>> PROVE Polls(Tail(s)) = Polls(s) - Bit(Head(s) = "getwork")
  <2>1. Cardinality(Marked(Tail(s), {"getwork"}))
          = Cardinality(Marked(s, {"getwork"})) - Bit(Head(s) \in {"getwork"})
    BY <1>5, MarkedTail
  <2>. QED  BY <1>1, <1>2, <2>1 DEF Bit
<1>6. ASSUME NEW u \in Seq(Request), NEW r \in Request
      PROVE  Polls(Append(u, r)) = Polls(u) + Bit(r = "getwork")
  <2>1. Cardinality(Marked(Append(u, r), {"getwork"}))
          = Cardinality(Marked(u, {"getwork"})) + Bit(r \in {"getwork"})
    BY MarkedAppend
  <2>. QED  BY <1>1, <1>2, <2>1 DEF Bit
<1>7. Polls(<<"getwork">>) = 1
  <2>1. Append(<<>>, "getwork") = <<"getwork">> /\ "getwork" \in Request  BY DEF Request
  <2>2. Polls(Append(<<>>, "getwork")) = Polls(<<>>) + Bit("getwork" = "getwork")
    BY <1>3, <1>6, <2>1
  <2>. QED  BY <1>3, <2>1, <2>2 DEF Bit
<1>. QED  BY <1>3, <1>4, <1>5, <1>6, <1>7

\* The numbers are numbers; none in flight means the operation is not started.
LEMMA Numbers ==
  ASSUME Data
  PROVE  /\ Resolves \in Nat /\ Connects \in Nat /\ Writes \in Nat /\ Reads \in Nat
         /\ Timers \in Nat /\ Rotations \in Nat /\ Polls(txQueue) \in Nat
         /\ Pending \in {0, 1}
         /\ Connects = 0 => "connect" \notin op
         /\ Writes = 0 => "write" \notin op
         /\ Reads = 0 => "read" \notin op
<1>1. \A f \in Kinds : QueuedCount(f) \in Nat  BY QueueFacts
<1>2. /\ QueuedCount("handle_resolve") \in Nat /\ QueuedCount("handle_connect") \in Nat
      /\ QueuedCount("handle_write") \in Nat /\ QueuedCount("handle_read") \in Nat
      /\ QueuedCount("getwork_timer") \in Nat /\ QueuedCount("rotateConnect") \in Nat
  BY <1>1 DEF Kinds
<1>3. Resolves \in Nat  BY <1>2 DEF Resolves, InFlight
<1>4. Connects \in Nat /\ (Connects = 0 => "connect" \notin op)  BY <1>2 DEF Connects, InFlight
<1>5. Writes \in Nat /\ (Writes = 0 => "write" \notin op)  BY <1>2 DEF Writes, InFlight
<1>6. Reads \in Nat /\ (Reads = 0 => "read" \notin op)  BY <1>2 DEF Reads, InFlight
<1>7. Timers \in Nat  BY <1>2 DEF Timers, Bit
<1>8. Rotations \in Nat  BY <1>2 DEF Rotations
<1>9. Polls(txQueue) \in Nat  BY PollsFacts DEF Data
<1>10. Pending \in {0, 1}  BY DEF Pending, Bit
<1>. QED  BY <1>3, <1>4, <1>5, <1>6, <1>7, <1>8, <1>9, <1>10

\* What is in flight of one kind stays, grows or shrinks with its two places.
LEMMA InFlightFacts ==
  ASSUME NEW o, NEW f, QueuedCount(f) \in Nat
  PROVE  /\ QueuedCount(f)' = QueuedCount(f) /\ (o \in op' <=> o \in op)
              => InFlight(o, f)' = InFlight(o, f)
         /\ QueuedCount(f)' = QueuedCount(f) /\ o \in op' /\ o \notin op
              => InFlight(o, f)' = InFlight(o, f) + 1
         /\ QueuedCount(f)' = QueuedCount(f) - 1 /\ (o \in op' <=> o \in op)
              => InFlight(o, f)' = InFlight(o, f) - 1
         /\ QueuedCount(f)' = QueuedCount(f) + 1 /\ o \in op /\ o \notin op'
              => InFlight(o, f)' = InFlight(o, f)
         /\ QueuedCount(f) # 0 => InFlight(o, f) >= 1
BY DEF InFlight

\* disconnect() leaves no client that is alive, and queues one rotation.
LEMMA DisconnectRotates ==
  ASSUME Data, Rotating, ~crashed, NEW q \in Seq(Handler),
         Waiting(q, "rotateConnect") = Rotations, Disconnect(q)
  PROVE  ~Alive' /\ Rotating'
<1>1. CASE Crash  BY <1>1 DEF Crash, Alive, Rotating
<1>2. CASE /\ hasConn /\ hasConn' = FALSE
           /\ ioq' = Append(q, Completed("rotateConnect", "ok"))
  <2>1. Waiting(ioq', "rotateConnect") = Waiting(q, "rotateConnect") + 1
    BY <1>2, HandlersAre, WaitingFacts DEF Completed, Bit
  <2>2. Rotations = 0  BY <1>2 DEF Rotating, Bit
  <2>3. Rotations' = 1
    BY <2>1, <2>2, QueueFacts DEF Kinds, Rotations
  <2>. QED  BY <1>2, <2>3 DEF Alive, Rotating, Bit
<1>. QED  BY <1>1, <1>2 DEF Disconnect

\* begin_connect() either starts the one connection or ends the client.
LEMMA BeginConnectRotates ==
  ASSUME Data, Rotating, ~crashed, NEW n, NEW q \in Seq(Handler),
         Waiting(q, "rotateConnect") = Rotations, BeginConnect(n, q)
  PROVE  /\ Rotating'
         /\ Alive' => /\ Alive /\ ioq' = q /\ op' = op \cup {"connect"}
                      /\ n > 0
<1>1. CASE /\ n > 0 /\ op' = op \cup {"connect"} /\ ioq' = q
           /\ UNCHANGED <<hasConn, connecting, session, crashed>>
  <2>1. Rotations' = Rotations
    BY <1>1, QueueFacts DEF Kinds, Rotations
  <2>. QED  BY <1>1, <2>1 DEF Alive, Rotating, Bit
<1>2. CASE Disconnect(q)  BY <1>2, DisconnectRotates
<1>. QED  BY <1>1, <1>2 DEF BeginConnect

\* send() queues one request and starts a connection if none is under way.
LEMMA SendRotates ==
  ASSUME Data, Rotating, ~crashed, NEW r \in Request, NEW n, NEW q \in Seq(Handler),
         Waiting(q, "rotateConnect") = Rotations, Send(r, n, q)
  PROVE  /\ Rotating'
         /\ Alive' => /\ Alive /\ ioq' = q /\ UNCHANGED timer
                      /\ \/ txPending /\ UNCHANGED <<txPending, op>>
                         \/ ~txPending /\ txPending' /\ op' = op \cup {"connect"}
                      /\ Polls(txQueue') = Polls(txQueue) + Bit(r = "getwork")
<1>0. txQueue \in Seq(Request)  BY DEF Data
<1>1. CASE txPending /\ txQueue' = Append(txQueue, r) /\ ioq' = q
           /\ UNCHANGED <<txPending, timer, op, hasConn, connecting, session, crashed>>
  <2>1. Rotations' = Rotations
    BY <1>1, QueueFacts DEF Kinds, Rotations
  <2>2. Rotating' /\ (Alive' => Alive)  BY <1>1, <2>1 DEF Rotating, Alive
  <2>. QED  BY <1>0, <1>1, <2>2, PollsFacts
<1>2. CASE /\ ~txPending /\ BeginConnect(n, q)
           /\ n > 0 => txQueue' = Append(txQueue, r) /\ txPending' = TRUE /\ UNCHANGED timer
  <2>1. /\ Rotating'
        /\ Alive' => /\ Alive /\ ioq' = q /\ op' = op \cup {"connect"} /\ n > 0
    BY <1>2, BeginConnectRotates
  <2>. QED  BY <1>0, <1>2, <2>1, PollsFacts
<1>. QED  BY <1>1, <1>2 DEF Send

\* The numbers when a handler of kind f has run that started the operations S.
LEMMA PopNumbers ==
  ASSUME Data, ioq # <<>>, NEW f \in Kinds, Head(ioq).h = f, ioq' = Tail(ioq),
         NEW S, op' = op \cup S
  PROVE  /\ Resolves' = Resolves - Bit(f = "handle_resolve") + Bit("resolve" \in S \ op)
         /\ Connects' = Connects - Bit(f = "handle_connect") + Bit("connect" \in S \ op)
         /\ Writes' = Writes - Bit(f = "handle_write") + Bit("write" \in S \ op)
         /\ Reads' = Reads - Bit(f = "handle_read") + Bit("read" \in S \ op)
         /\ timer' = timer => Timers' = Timers - Bit(f = "getwork_timer")
         /\ Rotations' = Rotations - Bit(f = "rotateConnect")
         /\ f = "handle_resolve" => Resolves >= 1
         /\ f = "handle_connect" => Connects >= 1
         /\ f = "handle_write" => Writes >= 1
         /\ f = "handle_read" => Reads >= 1
<1>1. ASSUME NEW g \in Kinds, NEW o
      PROVE  /\ InFlight(o, g)' = InFlight(o, g) - Bit(f = g) + Bit(o \in S \ op)
             /\ f = g => InFlight(o, g) >= 1
             /\ QueuedCount(g)' = QueuedCount(g) - Bit(f = g)
             /\ QueuedCount(g) \in Nat
  <2>1. QueuedCount(g) \in Nat  BY QueueFacts
  <2>2. CASE g = f
    <3>1. QueuedCount(g)' = QueuedCount(g) - 1 /\ QueuedCount(g) # 0  BY <2>2, PopCounts
    <3>. QED  BY <2>1, <2>2, <3>1 DEF InFlight, Bit
  <2>3. CASE g # f
    <3>1. QueuedCount(g)' = QueuedCount(g)  BY <2>3, PopCounts
    <3>. QED  BY <2>1, <2>3, <3>1 DEF InFlight, Bit
  <2>. QED  BY <2>2, <2>3
<1>2. timer' = timer => Timers' = Timers - Bit(f = "getwork_timer")
  <2>1. QueuedCount("getwork_timer")' = QueuedCount("getwork_timer") - Bit(f = "getwork_timer")
        /\ QueuedCount("getwork_timer") \in Nat
    BY <1>1 DEF Kinds
  <2>. QED  BY <2>1 DEF Timers, Bit
<1>. QED  BY <1>1, <1>2 DEF Resolves, Connects, Writes, Reads, Rotations, Kinds

\* Nothing in the queue and the operations S under way, as in a new client.
LEMMA FreshNumbers ==
  ASSUME Data, ioq' = <<>>, timer' = FALSE
  PROVE  /\ Resolves' = Bit("resolve" \in op') /\ Connects' = Bit("connect" \in op')
         /\ Writes' = Bit("write" \in op') /\ Reads' = Bit("read" \in op')
         /\ Timers' = 0 /\ Rotations' = 0
<1>2. ASSUME NEW g \in Kinds PROVE QueuedCount(g)' = 0
  <2>1. {i \in 1..Len(ioq') : ioq'[i].h = g} = {}  OBVIOUS
  <2>. QED  BY <2>1, FS_EmptySet DEF QueuedCount
<1>3. ASSUME NEW g \in Kinds, NEW o PROVE InFlight(o, g)' = Bit(o \in op')
  BY <1>2 DEF InFlight, Bit
<1>4. Timers' = 0  BY <1>2 DEF Timers, Bit, Kinds
<1>. QED  BY <1>2, <1>3, <1>4 DEF Resolves, Connects, Writes, Reads, Rotations, Kinds

\* OneRequestUnderWay is inductive, and the chain is with it: when
\* handle_connect runs nothing is being written or read.
LEMMA GetworkInv == Spec => [](Busy /\ Chain /\ Rotating)
<1>1. Init => Busy /\ Chain /\ Rotating
  <2>. SUFFICES ASSUME Init PROVE Busy /\ Chain /\ Rotating  OBVIOUS
  <2>1. ioq = <<>> /\ txQueue = <<>> /\ op = {"resolve"} /\ timer = FALSE /\ txPending = FALSE
        /\ hasConn = TRUE
    BY DEF Init
  <2>2. ASSUME NEW g \in Kinds PROVE QueuedCount(g) = 0
    <3>1. {i \in 1..Len(ioq) : ioq[i].h = g} = {}  BY <2>1
    <3>. QED  BY <3>1, FS_EmptySet DEF QueuedCount
  <2>3. Resolves = 1 /\ Connects = 0 /\ Writes = 0 /\ Reads = 0 /\ Rotations = 0
    BY <2>1, <2>2 DEF Kinds, Resolves, Connects, Writes, Reads, Rotations, InFlight
  <2>4. Timers = 0 /\ Pending = 0  BY <2>1, <2>2 DEF Kinds, Timers, Pending, Bit
  <2>5. Polls(txQueue) = 0
    <3>1. txQueue \in Seq(Request)  BY <2>1
    <3>. QED  BY <2>1, <3>1, PollsFacts
  <2>6. Busy  BY <2>3, <2>4 DEF Busy
  <2>7. Chain  BY <2>3, <2>4, <2>5 DEF Chain
  <2>8. Rotating  BY <2>1, <2>3 DEF Rotating, Bit
  <2>. QED  BY <2>6, <2>7, <2>8
<1>2. TypeOK /\ Busy /\ Chain /\ Rotating /\ [Next]_vars => Busy' /\ Chain' /\ Rotating'
  <2>. SUFFICES ASSUME TypeOK, Busy, Chain, Rotating, [Next]_vars
                PROVE  Busy' /\ Chain' /\ Rotating'
    OBVIOUS
  <2>0. Data  BY DEF TypeOK, Data
  <2>1. /\ ioq \in Seq(Handler) /\ (ioq # <<>> => Tail(ioq) \in Seq(Handler))
        /\ txQueue \in Seq(Request)
    BY <2>0 DEF Data
  <2>2. /\ Resolves \in Nat /\ Connects \in Nat /\ Writes \in Nat /\ Reads \in Nat
        /\ Timers \in Nat /\ Rotations \in Nat /\ Polls(txQueue) \in Nat /\ Pending \in {0, 1}
    BY <2>0, Numbers
  <2>3. ASSUME ioq # <<>>, Head(ioq).h # "rotateConnect"
        PROVE  Waiting(Tail(ioq), "rotateConnect") = Rotations
    BY <2>0, <2>2, <2>3, QueueFacts DEF Kinds, Rotations, Bit
  <2>4. Waiting(ioq, "rotateConnect") = Rotations  BY <2>0, QueueFacts DEF Kinds, Rotations
  <2>5. ASSUME ~Alive', Rotating' PROVE Busy' /\ Chain' /\ Rotating'
    BY <2>5 DEF Busy, Chain
  <2>6. ASSUME ioq # <<>>, ~crashed, Disconnect(Tail(ioq)), Head(ioq).h # "rotateConnect"
        PROVE  Busy' /\ Chain' /\ Rotating'
    BY <2>0, <2>1, <2>3, <2>5, <2>6, DisconnectRotates
  <2>7. ASSUME ioq' = ioq
        PROVE  /\ Rotations' = Rotations
               /\ timer' = timer => Timers' = Timers
               /\ op' = op => /\ Resolves' = Resolves /\ Connects' = Connects
                              /\ Writes' = Writes /\ Reads' = Reads
    BY <2>7 DEF Rotations, Timers, Resolves, Connects, Writes, Reads, InFlight, QueuedCount
  <2>8. ASSUME UNCHANGED <<hasConn, txPending, txQueue, pendingReq, op, timer, ioq, crashed>>
        PROVE  Busy' /\ Chain' /\ Rotating'
    BY <2>7, <2>8 DEF Busy, Chain, Rotating, Alive, Pending
  \* A poll is sent by a handler that is itself a link of the chain.
  <2>9. ASSUME ~crashed, ioq # <<>>, NEW f \in {"handle_resolve", "getwork_timer"},
               Head(ioq).h = f, NEW n, Send("getwork", n, Tail(ioq)), UNCHANGED pendingReq
        PROVE  Busy' /\ Chain' /\ Rotating'
    <3>1. "getwork" \in Request  BY DEF Request
    <3>2. /\ Rotating'
          /\ Alive' => /\ Alive /\ ioq' = Tail(ioq) /\ UNCHANGED timer
                       /\ \/ txPending /\ UNCHANGED <<txPending, op>>
                          \/ ~txPending /\ txPending' /\ op' = op \cup {"connect"}
                       /\ Polls(txQueue') = Polls(txQueue) + Bit("getwork" = "getwork")
      BY <2>0, <2>1, <2>3, <2>9, <3>1, SendRotates
    <3>3. ASSUME Alive' PROVE Busy' /\ Chain'
      <4>1. /\ Alive /\ ioq' = Tail(ioq) /\ timer' = timer /\ pendingReq' = pendingReq
            /\ Polls(txQueue') = Polls(txQueue) + 1 /\ f \in Kinds
        BY <2>9, <3>2, <3>3 DEF Bit, Kinds
      <4>2. /\ Writes' = Writes /\ Reads' = Reads
            /\ \/ Connects' = Connects /\ Pending' = Pending
               \/ Connects' = Connects + 1 /\ Pending' = Pending + 1
            /\ \/ Timers' = Timers - 1 /\ Resolves' = Resolves
               \/ Timers' = Timers /\ Resolves' = Resolves - 1
        <5>0. ASSUME NEW S \in {{}, {"connect"}}, op' = op \cup S
              PROVE  /\ Writes' = Writes /\ Reads' = Reads
                     /\ Connects' = Connects + Bit("connect" \in S \ op)
                     /\ \/ Timers' = Timers - 1 /\ Resolves' = Resolves
                        \/ Timers' = Timers /\ Resolves' = Resolves - 1
          <6>1. /\ Resolves' = Resolves - Bit(f = "handle_resolve") + Bit("resolve" \in S \ op)
                /\ Connects' = Connects - Bit(f = "handle_connect") + Bit("connect" \in S \ op)
                /\ Writes' = Writes - Bit(f = "handle_write") + Bit("write" \in S \ op)
                /\ Reads' = Reads - Bit(f = "handle_read") + Bit("read" \in S \ op)
                /\ Timers' = Timers - Bit(f = "getwork_timer")
            BY <2>0, <2>9, <4>1, <5>0, PopNumbers
          <6>. QED  BY <2>2, <6>1 DEF Bit
        <5>1. CASE txPending /\ UNCHANGED <<txPending, op>>
          <6>1. op' = op \cup {}  BY <5>1
          <6>2. Pending' = Pending  BY <5>1 DEF Pending
          <6>. QED  BY <2>2, <5>0, <6>1, <6>2 DEF Bit
        <5>2. CASE ~txPending /\ txPending' /\ op' = op \cup {"connect"}
          <6>1. Pending' = 1 /\ Pending = 0  BY <5>2 DEF Pending, Bit
          <6>2. Connects = 0  BY <2>2, <4>1, <6>1 DEF Busy
          <6>3. "connect" \notin op  BY <2>0, <6>2, Numbers
          <6>4. Bit("connect" \in {"connect"} \ op) = 1  BY <6>3 DEF Bit
          <6>. QED  BY <2>2, <5>0, <5>2, <6>1, <6>4
        <5>. QED  BY <3>2, <3>3, <5>1, <5>2
      <4>3. Busy'  BY <2>2, <4>1, <4>2 DEF Busy
      <4>4. Chain'  BY <2>2, <4>1, <4>2 DEF Chain
      <4>. QED  BY <4>3, <4>4
    <3>. QED  BY <2>5, <3>2, <3>3
  \* A share or a hash rate is no link of the chain.
  <2>10. ASSUME ~crashed, NEW r \in Request \ {"getwork"}, NEW n, Send(r, n, ioq),
                UNCHANGED pendingReq
         PROVE  Busy' /\ Chain' /\ Rotating'
    <3>1. /\ Rotating'
          /\ Alive' => /\ Alive /\ ioq' = ioq /\ UNCHANGED timer
                       /\ \/ txPending /\ UNCHANGED <<txPending, op>>
                          \/ ~txPending /\ txPending' /\ op' = op \cup {"connect"}
                       /\ Polls(txQueue') = Polls(txQueue) + Bit(r = "getwork")
      BY <2>0, <2>1, <2>4, <2>10, SendRotates
    <3>2. ASSUME Alive' PROVE Busy' /\ Chain'
      <4>1. /\ Alive /\ timer' = timer /\ pendingReq' = pendingReq /\ ioq' = ioq
            /\ Polls(txQueue') = Polls(txQueue)
        BY <2>2, <2>10, <3>1, <3>2 DEF Bit
      <4>2. Timers' = Timers  BY <2>7, <4>1
      <4>3. CASE txPending /\ UNCHANGED <<txPending, op>>
        <5>1. Pending' = Pending  BY <4>3 DEF Pending
        <5>2. Resolves' = Resolves /\ Connects' = Connects /\ Writes' = Writes /\ Reads' = Reads
          BY <2>7, <4>1, <4>3
        <5>. QED  BY <4>1, <4>2, <5>1, <5>2 DEF Busy, Chain
      <4>4. CASE ~txPending /\ txPending' /\ op' = op \cup {"connect"}
        <5>1. Pending' = 1 /\ Pending = 0  BY <4>4 DEF Pending, Bit
        <5>2. Connects = 0 /\ Writes = 0 /\ Reads = 0  BY <2>2, <4>1, <5>1 DEF Busy
        <5>3. "connect" \notin op  BY <2>0, <5>2, Numbers
        <5>4. Resolves' = Resolves /\ Writes' = Writes /\ Reads' = Reads
          BY <4>1, <4>4 DEF Resolves, Writes, Reads, InFlight, QueuedCount
        <5>5. Connects' = 1
          <6>1. QueuedCount("handle_connect")' = QueuedCount("handle_connect")
            BY <4>1 DEF QueuedCount
          <6>2. QueuedCount("handle_connect") \in Nat  BY <2>0, QueueFacts DEF Kinds
          <6>. QED  BY <4>4, <5>2, <5>3, <6>1, <6>2, InFlightFacts DEF Connects
        <5>6. Busy'  BY <5>1, <5>2, <5>4, <5>5 DEF Busy
        <5>7. Chain'  BY <4>1, <4>2, <5>4 DEF Chain
        <5>. QED  BY <5>6, <5>7
      <4>. QED  BY <3>1, <3>2, <4>3, <4>4
    <3>. QED  BY <2>5, <3>1, <3>2
  <2>11. ASSUME ioq # <<>>, NEW f \in {"handle_connect", "handle_write", "handle_read"},
                Head(ioq).h = f, ioq' = Tail(ioq),
                NEW S \in SUBSET {"connect", "write", "read"}, op' = op \cup S
         PROVE  /\ Resolves' = Resolves /\ Rotations' = Rotations
                /\ timer' = timer => Timers' = Timers
                /\ Connects' = Connects - Bit(f = "handle_connect") + Bit("connect" \in S \ op)
                /\ Writes' = Writes - Bit(f = "handle_write") + Bit("write" \in S \ op)
                /\ Reads' = Reads - Bit(f = "handle_read") + Bit("read" \in S \ op)
                /\ f = "handle_connect" => Connects >= 1
                /\ f = "handle_write" => Writes >= 1
                /\ f = "handle_read" => Reads >= 1
    <3>1. /\ Resolves' = Resolves - Bit(f = "handle_resolve") + Bit("resolve" \in S \ op)
          /\ timer' = timer => Timers' = Timers - Bit(f = "getwork_timer")
          /\ Rotations' = Rotations - Bit(f = "rotateConnect")
          /\ Connects' = Connects - Bit(f = "handle_connect") + Bit("connect" \in S \ op)
          /\ Writes' = Writes - Bit(f = "handle_write") + Bit("write" \in S \ op)
          /\ Reads' = Reads - Bit(f = "handle_read") + Bit("read" \in S \ op)
          /\ f = "handle_connect" => Connects >= 1
          /\ f = "handle_write" => Writes >= 1
          /\ f = "handle_read" => Reads >= 1
      <4>1. f \in Kinds  BY DEF Kinds
      <4>. QED  BY <2>0, <2>11, <4>1, PopNumbers
    <3>2. Bit(f = "handle_resolve") = 0 /\ Bit("resolve" \in S \ op) = 0
          /\ Bit(f = "getwork_timer") = 0 /\ Bit(f = "rotateConnect") = 0
      BY DEF Bit
    <3>. QED  BY <2>2, <3>1, <3>2
  <2>12. CASE HandleConnect
    <3>0. ~crashed /\ ioq # <<>> /\ Head(ioq).h = "handle_connect" /\ ioq' = Tail(ioq)
          /\ UNCHANGED <<hasConn, timer, crashed>>
      BY <2>12 DEF HandleConnect, Runs
    <3>1. CASE txQueue # <<>> /\ pendingReq' = Head(txQueue) /\ txQueue' = Tail(txQueue)
               /\ op' = op \cup {"write"} /\ UNCHANGED txPending
      <4>1. /\ Resolves' = Resolves /\ Rotations' = Rotations
            /\ Timers' = Timers
            /\ Connects' = Connects - Bit("handle_connect" = "handle_connect")
                             + Bit("connect" \in {"write"} \ op)
            /\ Writes' = Writes - Bit("handle_connect" = "handle_write")
                           + Bit("write" \in {"write"} \ op)
            /\ Reads' = Reads - Bit("handle_connect" = "handle_read")
                          + Bit("read" \in {"write"} \ op)
            /\ Connects >= 1
        BY <2>11, <3>0, <3>1
      <4>2. Rotating'  BY <3>0, <4>1 DEF Rotating
      <4>3. ASSUME Alive PROVE Busy' /\ Chain'
        <5>1. Connects = 1 /\ Writes = 0 /\ Reads = 0 /\ Pending = 1
          BY <2>2, <4>1, <4>3 DEF Busy
        <5>2. "write" \notin op  BY <2>0, <5>1, Numbers
        <5>3. Connects' = 0 /\ Writes' = 1 /\ Reads' = 0  BY <4>1, <5>1, <5>2 DEF Bit
        <5>4. Pending' = Pending  BY <3>1 DEF Pending
        <5>5. Busy'  BY <5>1, <5>3, <5>4 DEF Busy
        <5>6. Polls(txQueue') = Polls(txQueue) - Bit(pendingReq' = "getwork")
          BY <2>1, <3>1, PollsFacts
        <5>7. Polls(txQueue) + Timers + Resolves <= 1
          BY <2>2, <4>3, <5>1 DEF Chain
        <5>8. Chain'  BY <2>2, <4>1, <5>3, <5>6, <5>7 DEF Chain, Bit
        <5>. QED  BY <5>5, <5>8
      <4>. QED  BY <2>5, <3>0, <4>2, <4>3 DEF Alive
    <3>2. CASE txPending' = FALSE /\ UNCHANGED <<pendingReq, txQueue, op>>
      <4>0. op' = op \cup {}  BY <3>2
      <4>1. /\ Resolves' = Resolves /\ Rotations' = Rotations
            /\ Timers' = Timers
            /\ Connects' = Connects - Bit("handle_connect" = "handle_connect")
                             + Bit("connect" \in {} \ op)
            /\ Writes' = Writes - Bit("handle_connect" = "handle_write")
                           + Bit("write" \in {} \ op)
            /\ Reads' = Reads - Bit("handle_connect" = "handle_read")
                          + Bit("read" \in {} \ op)
            /\ Connects >= 1
        BY <2>11, <3>0, <4>0
      <4>2. Rotating'  BY <3>0, <4>1 DEF Rotating
      <4>3. ASSUME Alive PROVE Busy' /\ Chain'
        <5>1. Connects = 1 /\ Writes = 0 /\ Reads = 0 /\ Pending = 1
          BY <2>2, <4>1, <4>3 DEF Busy
        <5>2. Connects' = 0 /\ Writes' = 0 /\ Reads' = 0  BY <4>1, <5>1 DEF Bit
        <5>3. Pending' = 0  BY <3>2 DEF Pending, Bit
        <5>4. Busy'  BY <5>2, <5>3 DEF Busy
        <5>5. Chain'  BY <3>2, <4>1, <4>3, <5>1, <5>2 DEF Chain
        <5>. QED  BY <5>4, <5>5
      <4>. QED  BY <2>5, <3>0, <4>2, <4>3 DEF Alive
    <3>. QED  BY <2>12, <3>1, <3>2 DEF HandleConnect
  <2>13. ASSUME ~crashed, ioq # <<>>, NEW f \in {"handle_connect", "handle_write"},
                Head(ioq).h = f, NextEndpoint
         PROVE  Busy' /\ Chain' /\ Rotating'
    <3>0. Head(ioq).h # "rotateConnect"  BY <2>13
    <3>1. /\ Rotating'
          /\ Alive' => /\ Alive /\ ioq' = Tail(ioq) /\ op' = op \cup {"connect"}
                       /\ endpoints - 1 > 0
      BY <2>0, <2>1, <2>3, <2>13, <3>0, BeginConnectRotates DEF NextEndpoint
    <3>2. ASSUME Alive' PROVE Busy' /\ Chain'
      <4>0. endpoints \in Nat  BY <2>0 DEF Data
      <4>1. UNCHANGED <<txPending, txQueue, timer, pendingReq>>
        BY <2>13, <3>1, <3>2, <4>0 DEF NextEndpoint, tx
      <4>2. Alive /\ ioq' = Tail(ioq) /\ op' = op \cup {"connect"}  BY <3>1, <3>2
      <4>3. /\ Resolves' = Resolves /\ Timers' = Timers
            /\ Connects' = Connects - Bit(f = "handle_connect")
                             + Bit("connect" \in {"connect"} \ op)
            /\ Writes' = Writes - Bit(f = "handle_write") + Bit("write" \in {"connect"} \ op)
            /\ Reads' = Reads - Bit(f = "handle_read") + Bit("read" \in {"connect"} \ op)
            /\ f = "handle_connect" => Connects >= 1
            /\ f = "handle_write" => Writes >= 1
        BY <2>11, <2>13, <4>1, <4>2
      <4>4. /\ f = "handle_connect" => Connects = 1 /\ Writes = 0
            /\ f = "handle_write" => Connects = 0 /\ Writes = 1
            /\ Reads = 0 /\ Pending = 1
        BY <2>2, <4>2, <4>3 DEF Busy
      <4>5. Pending' = Pending  BY <4>1 DEF Pending
      <4>6. CASE f = "handle_write"
        <5>1. "connect" \notin op  BY <2>0, <4>4, <4>6, Numbers
        <5>2. Connects' = 1 /\ Writes' = 0 /\ Reads' = 0
          BY <4>3, <4>4, <4>6, <5>1 DEF Bit
        <5>3. Busy'  BY <4>4, <4>5, <5>2 DEF Busy
        <5>4. Polls(txQueue) + Timers + Resolves <= 1
          BY <2>2, <4>2, <4>4, <4>6 DEF Chain
        <5>5. Chain'  BY <2>2, <4>1, <4>3, <5>2, <5>4 DEF Chain
        <5>. QED  BY <5>3, <5>5
      <4>7. CASE f = "handle_connect"
        <5>1. "connect" \notin op
          <6>1. QueuedCount("handle_connect") \in Nat \ {0}
            BY <2>0, <2>13, <4>2, <4>7, PopCounts DEF Kinds
          <6>. QED  BY <4>4, <4>7, <6>1 DEF Connects, InFlight
        <5>2. Connects' = 1 /\ Writes' = 0 /\ Reads' = 0
          BY <4>3, <4>4, <4>7, <5>1 DEF Bit
        <5>3. Busy'  BY <4>4, <4>5, <5>2 DEF Busy
        <5>4. Chain'  BY <2>2, <4>1, <4>2, <4>3, <4>4, <4>7, <5>2 DEF Chain
        <5>. QED  BY <5>3, <5>4
      <4>. QED  BY <4>6, <4>7
    <3>. QED  BY <2>5, <3>1, <3>2
  <2>14. CASE HandleConnectFails
    BY <2>13, <2>14 DEF HandleConnectFails, Runs
  <2>15. CASE HandleWriteFails
    BY <2>13, <2>15 DEF HandleWriteFails, Runs
  <2>16. CASE HandleWrite
    <3>0. ~crashed /\ ioq # <<>> /\ Head(ioq).h = "handle_write" /\ ioq' = Tail(ioq)
          /\ op' = op \cup {"read"}
          /\ UNCHANGED <<hasConn, txPending, txQueue, pendingReq, timer, crashed>>
      BY <2>16 DEF HandleWrite, Runs, tx
    <3>1. /\ Resolves' = Resolves /\ Rotations' = Rotations /\ Timers' = Timers
          /\ Connects' = Connects - Bit("handle_write" = "handle_connect")
                           + Bit("connect" \in {"read"} \ op)
          /\ Writes' = Writes - Bit("handle_write" = "handle_write")
                         + Bit("write" \in {"read"} \ op)
          /\ Reads' = Reads - Bit("handle_write" = "handle_read") + Bit("read" \in {"read"} \ op)
          /\ Writes >= 1
      BY <2>11, <3>0
    <3>2. Rotating'  BY <3>0, <3>1 DEF Rotating
    <3>3. ASSUME Alive PROVE Busy' /\ Chain'
      <4>1. Connects = 0 /\ Writes = 1 /\ Reads = 0 /\ Pending = 1
        BY <2>2, <3>1, <3>3 DEF Busy
      <4>2. "read" \notin op  BY <2>0, <4>1, Numbers
      <4>3. Connects' = 0 /\ Writes' = 0 /\ Reads' = 1  BY <3>1, <4>1, <4>2 DEF Bit
      <4>4. Pending' = Pending  BY <3>0 DEF Pending
      <4>5. Busy'  BY <4>1, <4>3, <4>4 DEF Busy
      <4>6. UNCHANGED <<txQueue, pendingReq>>  BY <3>0
      <4>7. Chain'  BY <2>2, <3>1, <3>3, <4>1, <4>3, <4>6 DEF Chain
      <4>. QED  BY <4>5, <4>7
    <3>. QED  BY <2>5, <3>0, <3>2, <3>3 DEF Alive
  <2>17. CASE HandleRead
    <3>0. ~crashed /\ ioq # <<>> /\ Head(ioq).h = "handle_read" /\ UNCHANGED <<pendingReq, txQueue>>
      BY <2>17 DEF HandleRead, Runs, tx
    <3>1. timer' = timer \/ (pendingReq = "getwork" /\ timer' = TRUE)
      BY <2>17 DEF HandleRead, ProcessResponse, PollsAgain, TypeOK
    <3>2. ASSUME ioq' = Tail(ioq), Alive, NEW S \in {{}, {"connect"}}, op' = op \cup S,
                 Pending' = Bit("connect" \in S)
          PROVE  Busy' /\ Chain'
      <4>1. /\ Resolves' = Resolves /\ (timer' = timer => Timers' = Timers)
            /\ Connects' = Connects - Bit("handle_read" = "handle_connect")
                             + Bit("connect" \in S \ op)
            /\ Writes' = Writes - Bit("handle_read" = "handle_write") + Bit("write" \in S \ op)
            /\ Reads' = Reads - Bit("handle_read" = "handle_read") + Bit("read" \in S \ op)
            /\ Reads >= 1
        BY <2>11, <3>0, <3>2
      <4>2. Connects = 0 /\ Writes = 0 /\ Reads = 1 /\ Pending = 1
        BY <2>2, <3>2, <4>1 DEF Busy
      <4>3. "connect" \notin op  BY <2>0, <4>2, Numbers
      <4>4. Connects' = Bit("connect" \in S) /\ Writes' = 0 /\ Reads' = 0
        BY <4>1, <4>2, <4>3 DEF Bit
      <4>5. Busy'  BY <3>2, <4>4 DEF Busy, Bit
      <4>6. CASE timer' = timer
        <5>1. UNCHANGED <<txQueue, pendingReq>> /\ Timers' = Timers  BY <3>0, <4>1, <4>6
        <5>2. Chain'  BY <2>2, <3>2, <4>1, <4>2, <4>4, <5>1 DEF Chain
        <5>. QED  BY <4>5, <5>2
      <4>7. CASE pendingReq = "getwork" /\ timer' = TRUE
        <5>1. Polls(txQueue) + 1 + Timers + Resolves <= 1
          BY <2>2, <3>2, <4>2, <4>7 DEF Chain
        <5>2. Timers' = 1
          <6>1. Timers = 0  BY <2>2, <5>1
          <6>2. QueuedCount("getwork_timer") \in Nat  BY <2>0, QueueFacts DEF Kinds
          <6>3. QueuedCount("getwork_timer") = 0  BY <6>1, <6>2 DEF Timers, Bit
          <6>4. QueuedCount("getwork_timer")' = QueuedCount("getwork_timer")
            BY <2>0, <3>0, <3>2, PopCounts DEF Kinds
          <6>. QED  BY <4>7, <6>3, <6>4 DEF Timers, Bit
        <5>3. UNCHANGED <<txQueue, pendingReq>>  BY <3>0
        <5>4. Chain'  BY <2>2, <4>1, <4>4, <5>1, <5>2, <5>3 DEF Chain
        <5>. QED  BY <4>5, <5>4
      <4>. QED  BY <3>1, <4>5, <4>6, <4>7
    <3>3. CASE txPending' = txPending /\ BeginConnect(endpoints, Tail(ioq))
      <4>1. /\ Rotating'
            /\ Alive' => Alive /\ ioq' = Tail(ioq) /\ op' = op \cup {"connect"}
        BY <2>0, <2>1, <2>3, <3>0, <3>3, BeginConnectRotates
      <4>2. ASSUME Alive' PROVE Pending' = Bit("connect" \in {"connect"})
        <5>1. QueuedCount("handle_read") \in Nat \ {0}
          BY <2>0, <3>0, <4>1, <4>2, PopCounts DEF Kinds
        <5>2. Reads >= 1  BY <5>1, InFlightFacts DEF Reads
        <5>3. Pending = 1  BY <2>2, <4>1, <4>2, <5>2 DEF Busy
        <5>. QED  BY <3>3, <5>3 DEF Pending, Bit
      <4>. QED  BY <2>5, <3>2, <4>1, <4>2
    <3>4. CASE txPending' = FALSE /\ ioq' = Tail(ioq) /\ UNCHANGED <<hasConn, op, crashed>>
      <4>1. Rotations' = Rotations
        BY <2>0, <3>0, <3>4, PopCounts DEF Kinds, Rotations
      <4>2. Rotating'  BY <3>4, <4>1 DEF Rotating
      <4>3. Pending' = Bit("connect" \in {}) /\ op' = op \cup {}  BY <3>4 DEF Pending, Bit
      <4>. QED  BY <2>5, <3>2, <3>4, <4>2, <4>3 DEF Alive
    <3>. QED  BY <2>17, <3>3, <3>4 DEF HandleRead, tx
  <2>18. CASE HandleResolve
    <3>1. ~crashed /\ ioq # <<>> /\ Head(ioq).h = "handle_resolve" /\ UNCHANGED pendingReq
      BY <2>18 DEF HandleResolve, Runs
    <3>2. Send("getwork", Resolved, Tail(ioq)) \/ Disconnect(Tail(ioq))
      BY <2>18 DEF HandleResolve
    <3>. QED  BY <2>6, <2>9, <3>1, <3>2
  <2>19. CASE GetworkTimerElapsed
    <3>1. ~crashed /\ ioq # <<>> /\ Head(ioq).h = "getwork_timer" /\ UNCHANGED pendingReq
      BY <2>19 DEF GetworkTimerElapsed, Runs
    <3>2. Send("getwork", endpoints, Tail(ioq)) \/ Disconnect(Tail(ioq))
      BY <2>19 DEF GetworkTimerElapsed
    <3>. QED  BY <2>6, <2>9, <3>1, <3>2
  <2>20. CASE HandleReadFails
    <3>1. ~crashed /\ ioq # <<>> /\ Head(ioq).h = "handle_read" /\ Disconnect(Tail(ioq))
      BY <2>20 DEF HandleReadFails, Runs
    <3>. QED  BY <2>6, <3>1
  <2>21. CASE Crash
    BY <2>5, <2>21 DEF Crash, Alive, Rotating
  <2>22. CASE NewClient
    <3>1. ioq' = <<>> /\ timer' = FALSE /\ hasConn'  BY <2>22 DEF NewClient
    <3>2. /\ Resolves' = Bit("resolve" \in op') /\ Connects' = Bit("connect" \in op')
          /\ Writes' = Bit("write" \in op') /\ Reads' = Bit("read" \in op')
          /\ Timers' = 0 /\ Rotations' = 0
      BY <2>0, <3>1, FreshNumbers
    <3>3. Rotating'  BY <3>1, <3>2 DEF Rotating, Bit
    <3>4. Polls(<<>>) = 0 /\ Polls(<<"getwork">>) = 1  BY <2>1, PollsFacts
    <3>5. CASE txPending' = FALSE /\ txQueue' = <<>> /\ op' = {"resolve"}
      <4>1. Resolves' = 1 /\ Connects' = 0 /\ Writes' = 0 /\ Reads' = 0  BY <3>2, <3>5 DEF Bit
      <4>2. Pending' = 0  BY <3>5 DEF Pending, Bit
      <4>3. Polls(txQueue') = 0  BY <3>4, <3>5
      <4>4. Busy'  BY <4>1, <4>2 DEF Busy
      <4>5. Chain'  BY <3>2, <4>1, <4>3 DEF Chain
      <4>. QED  BY <3>3, <4>4, <4>5
    <3>6. CASE txPending' = TRUE /\ txQueue' = <<"getwork">> /\ op' = {"connect"}
      <4>1. Resolves' = 0 /\ Connects' = 1 /\ Writes' = 0 /\ Reads' = 0  BY <3>2, <3>6 DEF Bit
      <4>2. Pending' = 1  BY <3>6 DEF Pending, Bit
      <4>3. Polls(txQueue') = 1  BY <3>4, <3>6
      <4>4. Busy'  BY <4>1, <4>2 DEF Busy
      <4>5. Chain'  BY <3>2, <4>1, <4>3 DEF Chain
      <4>. QED  BY <3>3, <4>4, <4>5
    <3>. QED  BY <2>22, <3>5, <3>6 DEF NewClient
  <2>23. CASE CallStep
    <3>1. CASE SubmitHashrate
      BY <2>10, <3>1 DEF SubmitHashrate, Request
    <3>2. CASE SubmitSolution
      BY <2>10, <3>2 DEF SubmitSolution, Request
    <3>3. CASE ManagerDisconnects
      BY <2>0, <2>1, <2>4, <2>5, <3>3, DisconnectRotates DEF ManagerDisconnects
    <3>. QED  BY <2>23, <3>1, <3>2, <3>3 DEF CallStep
  <2>24. ASSUME UNCHANGED <<hasConn, txPending, txQueue, pendingReq, timer, crashed>>,
                NEW o, NEW f \in Kinds, NEW m \in Handler, m.h = f, o \in op, op' = op \ {o},
                ioq' = Append(ioq, m),
                \/ o = "resolve" /\ f = "handle_resolve"
                \/ o = "connect" /\ f = "handle_connect"
                \/ o = "write" /\ f = "handle_write"
                \/ o = "read" /\ f = "handle_read"
         PROVE  Busy' /\ Chain' /\ Rotating'
    <3>1. /\ \A g \in Kinds \ {f} : QueuedCount(g)' = QueuedCount(g)
          /\ QueuedCount(f)' = QueuedCount(f) + 1
      BY <2>0, <2>24, PushCounts
    <3>2. ASSUME NEW o1, NEW g \in Kinds, o1 = o <=> g = f PROVE InFlight(o1, g)' = InFlight(o1, g)
      <4>1. QueuedCount(g) \in Nat  BY <2>0, QueueFacts
      <4>2. CASE g = f
        <5>1. QueuedCount(g)' = QueuedCount(g) + 1  BY <3>1, <4>2
        <5>2. o1 \in op /\ o1 \notin op'  BY <2>24, <3>2, <4>2
        <5>. QED  BY <4>1, <5>1, <5>2, InFlightFacts
      <4>3. CASE g # f
        <5>1. QueuedCount(g)' = QueuedCount(g)  BY <3>1, <4>3
        <5>2. o1 \in op' <=> o1 \in op  BY <2>24, <3>2, <4>3
        <5>. QED  BY <4>1, <5>1, <5>2, InFlightFacts
      <4>. QED  BY <4>2, <4>3
    <3>3. "resolve" = o <=> "handle_resolve" = f  BY <2>24
    <3>4. "connect" = o <=> "handle_connect" = f  BY <2>24
    <3>5. "write" = o <=> "handle_write" = f  BY <2>24
    <3>6. "read" = o <=> "handle_read" = f  BY <2>24
    <3>7. Resolves' = Resolves  BY <3>2, <3>3 DEF Resolves, Kinds
    <3>8. Connects' = Connects  BY <3>2, <3>4 DEF Connects, Kinds
    <3>9. Writes' = Writes  BY <3>2, <3>5 DEF Writes, Kinds
    <3>10. Reads' = Reads  BY <3>2, <3>6 DEF Reads, Kinds
    <3>11. Timers' = Timers /\ Rotations' = Rotations
      BY <2>24, <3>1 DEF Kinds, Timers, Rotations
    <3>12. Pending' = Pending  BY <2>24 DEF Pending
    <3>. QED  BY <2>24, <3>7, <3>8, <3>9, <3>10, <3>11, <3>12 DEF Busy, Chain, Rotating, Alive
  <2>25. CASE NetworkStep
    <3>. USE DEF Completes, tx
    <3>1. CASE ResolveCompletes
      <4>1. PICK r \in {"ok", "fail"} : ioq' = Append(ioq, Completed("handle_resolve", r))
        BY <3>1 DEF ResolveCompletes
      <4>2. Completed("handle_resolve", r).h = "handle_resolve" /\ "handle_resolve" \in Kinds
        BY DEF Completed, Kinds
      <4>3. "resolve" \in op /\ op' = op \ {"resolve"} /\ Completed("handle_resolve", r) \in Handler
            /\ UNCHANGED <<hasConn, txPending, txQueue, pendingReq, timer, crashed>>
        BY <3>1, HandlersAre DEF ResolveCompletes
      <4>. QED  BY <2>24, <4>1, <4>2, <4>3
    <3>2. CASE ConnectCompletes
      <4>1. PICK r \in {"ok", "fail"} : ioq' = Append(ioq, Completed("handle_connect", r))
        BY <3>2 DEF ConnectCompletes
      <4>2. Completed("handle_connect", r).h = "handle_connect" /\ "handle_connect" \in Kinds
        BY DEF Completed, Kinds
      <4>3. "connect" \in op /\ op' = op \ {"connect"} /\ Completed("handle_connect", r) \in Handler
            /\ UNCHANGED <<hasConn, txPending, txQueue, pendingReq, timer, crashed>>
        BY <3>2, HandlersAre DEF ConnectCompletes
      <4>. QED  BY <2>24, <4>1, <4>2, <4>3
    <3>3. CASE WriteCompletes
      <4>1. PICK r \in {"ok", "fail"} : ioq' = Append(ioq, Completed("handle_write", r))
        BY <3>3 DEF WriteCompletes
      <4>2. Completed("handle_write", r).h = "handle_write" /\ "handle_write" \in Kinds
        BY DEF Completed, Kinds
      <4>3. "write" \in op /\ op' = op \ {"write"} /\ Completed("handle_write", r) \in Handler
            /\ UNCHANGED <<hasConn, txPending, txQueue, pendingReq, timer, crashed>>
        BY <3>3, HandlersAre DEF WriteCompletes
      <4>. QED  BY <2>24, <4>1, <4>2, <4>3
    <3>4. CASE ReadCompletes
      <4>1. PICK r \in Reply : ioq' = Append(ioq, Completed("handle_read", r))
        BY <3>4 DEF ReadCompletes
      <4>2. Completed("handle_read", r).h = "handle_read" /\ "handle_read" \in Kinds
        BY DEF Completed, Kinds
      <4>3. "read" \in op /\ op' = op \ {"read"} /\ Completed("handle_read", r) \in Handler
            /\ UNCHANGED <<hasConn, txPending, txQueue, pendingReq, timer, crashed>>
        BY <3>4, HandlersAre DEF ReadCompletes
      <4>. QED  BY <2>24, <4>1, <4>2, <4>3
    <3>. QED  BY <2>25, <3>1, <3>2, <3>3, <3>4 DEF NetworkStep
  <2>26. CASE TimerExpires
    <3>1. /\ timer /\ timer' = FALSE /\ ioq' = Append(ioq, Completed("getwork_timer", "ok"))
          /\ UNCHANGED <<hasConn, txPending, txQueue, pendingReq, op, crashed>>
      BY <2>26 DEF TimerExpires, tx
    <3>2. Completed("getwork_timer", "ok").h = "getwork_timer" /\ "getwork_timer" \in Kinds
      BY DEF Completed, Kinds
    <3>3. /\ \A g \in Kinds \ {"getwork_timer"} : QueuedCount(g)' = QueuedCount(g)
          /\ QueuedCount("getwork_timer")' = QueuedCount("getwork_timer") + 1
          /\ QueuedCount("getwork_timer") \in Nat
      BY <2>0, <3>1, <3>2, HandlersAre, PushCounts
    <3>4. Timers' = Timers  BY <3>1, <3>3 DEF Timers, Bit
    <3>5. Resolves' = Resolves /\ Connects' = Connects /\ Writes' = Writes /\ Reads' = Reads
          /\ Rotations' = Rotations
      BY <3>1, <3>3 DEF Kinds, Resolves, Connects, Writes, Reads, Rotations, InFlight
    <3>6. Pending' = Pending  BY <3>1 DEF Pending
    <3>. QED  BY <3>1, <3>4, <3>5, <3>6 DEF Busy, Chain, Rotating, Alive
  <2>27. CASE WorkAges  BY <2>8, <2>27 DEF WorkAges, tx
  <2>28. CASE UNCHANGED vars  BY <2>8, <2>28 DEF vars
  <2>. QED  BY <2>12, <2>14, <2>15, <2>16, <2>17, <2>18, <2>19, <2>20, <2>21, <2>22, <2>23,
               <2>25, <2>26, <2>27, <2>28
            DEF Next, HandlerStep, HandleReadThrows, LateHandler, RotateConnect, Ended
<1>. QED  BY <1>1, <1>2, GetworkTypeCorrect, PTL DEF Spec

\* m_txPending is set exactly while one request is under way, with any number of
\* end points, jobs and queued requests (send, handle_connect, handle_read).
THEOREM GetworkOneRequestUnderWay == Spec => []OneRequestUnderWay
<1>1. Busy => OneRequestUnderWay
  BY DEF Busy, OneRequestUnderWay, Connects, Writes, Reads, Pending, Bit
<1>. QED  BY <1>1, GetworkInv, PTL

\* The poll never becomes two, whatever the interleaving of answers, timer and
\* shares (processResponse, getwork_timer_elapsed).
THEOREM GetworkOnePollingChain == Spec => []OnePollingChain
<1>1. TypeOK /\ Chain => OnePollingChain
  <2>. SUFFICES ASSUME TypeOK, Chain, Alive
                PROVE  Polls(txQueue) + (IF pendingReq = "getwork" THEN Writes + Reads ELSE 0)
                         + (IF timer THEN 1 ELSE 0) + QueuedCount("getwork_timer") <= 1
    BY DEF OnePollingChain, Polls, Writes, Reads
  <2>1. Data  BY DEF TypeOK, Data
  <2>2. /\ Resolves \in Nat /\ Writes \in Nat /\ Reads \in Nat /\ Timers \in Nat
        /\ Polls(txQueue) \in Nat
    BY <2>1, Numbers
  <2>3. QueuedCount("getwork_timer") \in Nat  BY <2>1, QueueFacts DEF Kinds
  <2>4. Polls(txQueue) + (IF pendingReq = "getwork" THEN Writes + Reads ELSE 0)
          + Timers + Resolves <= 1
    BY DEF Chain
  <2>. QED  BY <2>2, <2>3, <2>4 DEF Timers, Bit
<1>. QED  BY <1>1, GetworkInv, GetworkTypeCorrect, PTL

(***************************************************************************)
(* The getwork client implements ClientLifecycle (its safety part).        *)
(***************************************************************************)
\* How a step looks to the manager: the program ends, the client goes, it is
\* replaced, or it is as it was and may have come up.
LEMMA GetworkStepKinds ==
  ASSUME TypeOK, Rotating, [Next]_vars
  PROVE  \/ UNCHANGED vars
         \/ ~crashed /\ Crash
         \/ ~crashed /\ ~crashed' /\ hasConn /\ ~hasConn'
         \/ ~crashed /\ ~crashed' /\ ~hasConn /\ hasConn' /\ ~session'
         \/ ~crashed /\ ~crashed' /\ hasConn' = hasConn /\ (session => session')
<1>. DEFINE Goal ==
         \/ UNCHANGED vars
         \/ ~crashed /\ Crash
         \/ ~crashed /\ ~crashed' /\ hasConn /\ ~hasConn'
         \/ ~crashed /\ ~crashed' /\ ~hasConn /\ hasConn' /\ ~session'
         \/ ~crashed /\ ~crashed' /\ hasConn' = hasConn /\ (session => session')
<1>1. ASSUME ~crashed, UNCHANGED <<hasConn, session, crashed>> PROVE Goal  BY <1>1
<1>2. ASSUME ~crashed, NEW q, Disconnect(q) PROVE Goal  BY <1>2 DEF Disconnect
<1>3. ASSUME ~crashed, NEW n, NEW q, BeginConnect(n, q) PROVE Goal
  BY <1>1, <1>2, <1>3 DEF BeginConnect
<1>4. ASSUME ~crashed, NEW r, NEW n, NEW q, Send(r, n, q) PROVE Goal
  BY <1>1, <1>3, <1>4 DEF Send
<1>5. CASE HandleResolve  BY <1>2, <1>4, <1>5 DEF HandleResolve, Runs
<1>6. CASE HandleConnect  BY <1>6 DEF HandleConnect, Runs
<1>7. CASE HandleConnectFails  BY <1>3, <1>7 DEF HandleConnectFails, NextEndpoint, Runs
<1>8. CASE HandleWriteFails  BY <1>3, <1>8 DEF HandleWriteFails, NextEndpoint, Runs
<1>9. CASE HandleWrite  BY <1>1, <1>9 DEF HandleWrite, Runs
<1>10. CASE HandleRead  BY <1>1, <1>3, <1>10 DEF HandleRead, Runs
<1>11. CASE HandleReadFails  BY <1>2, <1>11 DEF HandleReadFails, Runs
<1>12. CASE GetworkTimerElapsed  BY <1>2, <1>4, <1>12 DEF GetworkTimerElapsed, Runs
<1>13. CASE LateHandler  BY <1>13 DEF LateHandler
<1>14. CASE RotateConnect
  <2>1. CASE Crash  BY <1>14, <2>1 DEF RotateConnect, Runs
  <2>2. CASE NewClient
    <3>1. ~crashed /\ ioq # <<>> /\ Head(ioq).h = "rotateConnect" /\ hasConn' = TRUE
          /\ session' = FALSE /\ crashed' = crashed /\ Data
      BY <1>14, <2>2 DEF RotateConnect, Runs, NewClient, TypeOK, Data
    <3>2. Waiting(Tail(ioq), "rotateConnect") = Rotations - Bit(Head(ioq).h = "rotateConnect")
          /\ Waiting(Tail(ioq), "rotateConnect") \in Nat /\ Rotations \in Nat
      BY <3>1, QueueFacts DEF Kinds, Rotations
    <3>3. Rotations # 0  BY <3>1, <3>2 DEF Bit
    <3>4. ~hasConn  BY <3>1, <3>3 DEF Rotating, Bit
    <3>. QED  BY <3>1, <3>4
  <2>. QED  BY <1>14, <2>1, <2>2 DEF RotateConnect
<1>15. CASE CallStep
  BY <1>2, <1>4, <1>15 DEF CallStep, SubmitHashrate, SubmitSolution, ManagerDisconnects
<1>16. CASE NetworkStep
  BY <1>1, <1>16 DEF NetworkStep, ResolveCompletes, ConnectCompletes, WriteCompletes,
                     ReadCompletes, Completes
<1>17. CASE TimerExpires  BY <1>1, <1>17 DEF TimerExpires
<1>18. CASE WorkAges  BY <1>1, <1>18 DEF WorkAges
<1>19. CASE HandleReadThrows  BY <1>19 DEF HandleReadThrows, Runs
<1>. QED  BY <1>5, <1>6, <1>7, <1>8, <1>9, <1>10, <1>11, <1>12, <1>13, <1>14, <1>15, <1>16,
             <1>17, <1>18, <1>19 DEF Next, HandlerStep, Ended

\* The getwork client does only what the manager relies on (PoolClient.h): it
\* comes up at most once, a failure takes it down once and posts one
\* rotateConnect, and nothing but rotateConnect brings another client.
THEOREM GetworkImplementsLifecycle == Spec => Client!Safety
<1>1. Init /\ Rotating => Client!Init
  <2>. SUFFICES ASSUME Init, Rotating PROVE Client!Init  OBVIOUS
  <2>1. crashed = FALSE /\ hasConn = TRUE /\ session = FALSE  BY DEF Init
  <2>2. QueuedCount("rotateConnect") = 0  BY <2>1 DEF Rotating, Rotations, Bit
  <2>3. Phase = "trying"  BY <2>1 DEF Phase
  <2>. QED  BY <2>2, <2>3 DEF Client!Init
<1>2. TypeOK /\ Rotating /\ Rotating' /\ [Next]_vars => [Client!Next]_(Client!lifecycle)
  <2>. SUFFICES ASSUME TypeOK, Rotating, Rotating', [Next]_vars
                PROVE  [Client!Next]_(Client!lifecycle)
    OBVIOUS
  <2>. USE DEF Client!Next, Client!lifecycle
  <2>0. /\ crashed => Phase = "ended"
        /\ ~crashed /\ ~hasConn => Phase = "gone"
        /\ ~crashed /\ hasConn /\ session => Phase = "up"
        /\ ~crashed /\ hasConn /\ ~session => Phase = "trying"
    BY DEF Phase
  <2>1. /\ crashed' => Phase' = "ended"
        /\ ~crashed' /\ ~hasConn' => Phase' = "gone"
        /\ ~crashed' /\ hasConn' /\ session' => Phase' = "up"
        /\ ~crashed' /\ hasConn' /\ ~session' => Phase' = "trying"
    BY DEF Phase
  <2>2. CASE UNCHANGED vars
    <3>1. Phase' = Phase /\ Rotations' = Rotations
      BY <2>2 DEF vars, Phase, Rotations, QueuedCount
    <3>. QED  BY <3>1 DEF Rotations
  <2>3. CASE ~crashed /\ Crash
    <3>1. Rotations' = Rotations  BY <2>3 DEF Crash, Rotations, QueuedCount
    <3>2. Phase # "ended" /\ Phase' = "ended"  BY <2>0, <2>1, <2>3 DEF Crash
    <3>. QED  BY <3>1, <3>2 DEF Client!Fails, Rotations
  <2>4. CASE ~crashed /\ ~crashed' /\ hasConn /\ ~hasConn'
    <3>1. Rotations = 0 /\ Rotations' = 1  BY <2>4 DEF Rotating, Bit
    <3>2. Phase \in {"trying", "up"} /\ Phase' = "gone"  BY <2>0, <2>1, <2>4
    <3>. QED  BY <3>1, <3>2 DEF Client!GoesDown, Rotations
  <2>5. CASE ~crashed /\ ~crashed' /\ ~hasConn /\ hasConn' /\ ~session'
    <3>1. Rotations = 1 /\ Rotations' = 0  BY <2>5 DEF Rotating, Bit
    <3>2. Phase = "gone" /\ Phase' = "trying"  BY <2>0, <2>1, <2>5
    <3>. QED  BY <3>1, <3>2 DEF Client!Replaced, Rotations
  <2>6. CASE ~crashed /\ ~crashed' /\ hasConn' = hasConn /\ (session => session')
    <3>1. Rotations' = Rotations  BY <2>6 DEF Rotating, Bit
    <3>2. Phase' = Phase \/ (Phase = "trying" /\ Phase' = "up")  BY <2>0, <2>1, <2>6
    <3>. QED  BY <3>1, <3>2 DEF Client!ComesUp, Rotations
  <2>. QED  BY <2>2, <2>3, <2>4, <2>5, <2>6, GetworkStepKinds
<1>. QED  BY <1>1, <1>2, GetworkInv, GetworkTypeCorrect, PTL DEF Spec, Client!Safety

(***************************************************************************)
(* The simulation client implements ClientLifecycle (its safety part).     *)
(***************************************************************************)
\* While main has not begun to stop, the client without a definition has no
\* session and the io_service thread is at most about to destroy it; the thread
\* joins or connects only then.
SimControl ==
  /\ main = "running" /\ ~hasUri => ~hasSession /\ ~isUp /\ io \in {"idle", "joining"}
  /\ io = "joining" => ~isUp /\ main = "running" /\ ~hasUri
  /\ io = "connect" => ~hasSession /\ ~isUp /\ main = "running"

\* rotateConnect is posted exactly while the client has no definition.
SimPosted == main = "running" => posted = Bit(~hasUri)

\* How a step of one of the three threads looks to the manager.
SimKind ==
  \/ UNCHANGED <<failed, main, hasUri, hasSession, posted>>
  \/ ~failed /\ failed' /\ UNCHANGED posted
  \/ UNCHANGED <<failed, posted, hasUri, hasSession>> /\ main # "running" /\ main' # "running"
  \/ ~failed /\ ~failed' /\ main' # "running" /\ UNCHANGED posted
  \/ ~failed /\ UNCHANGED <<failed, main, hasUri, posted>> /\ hasSession'
  \/ /\ ~failed /\ UNCHANGED <<failed, main>> /\ main = "running"
     /\ hasUri /\ ~hasUri' /\ ~hasSession'
  \/ /\ ~failed /\ UNCHANGED <<failed, main>> /\ main = "running"
     /\ ~hasUri /\ hasUri' /\ ~hasSession'

\* The two hold together: each thread's step keeps them.
LEMMA SimInv == SimSpec => [](SimControl /\ SimPosted)
<1>1. SimInit => SimControl /\ SimPosted
  BY DEF SimInit, SimControl, SimPosted, Bit
<1>2. SimControl /\ SimPosted /\ [SimNext]_simVars => SimControl' /\ SimPosted'
  <2>. SUFFICES ASSUME SimControl, SimPosted, [SimNext]_simVars PROVE SimControl' /\ SimPosted'
    OBVIOUS
  <2>. USE DEF IoAt, ThreadAt, CloseSession
  <2>1. ASSUME UNCHANGED <<io, main, hasUri, isUp, hasSession, posted>>
        PROVE  SimControl' /\ SimPosted'
    BY <2>1 DEF SimControl, SimPosted
  <2>2. CASE Broken  BY <2>1, <2>2 DEF Broken
  <2>3. CASE ConnectSetsFlag \/ ConnectSetsSession \/ ConnectReports \/ StartWorking \/ StartReturns
    <3>1. CASE Broken  BY <2>2, <3>1
    <3>2. CASE ~Broken
      <4>1. UNCHANGED <<main, hasUri, posted>>
        BY <2>3, <3>2 DEF ConnectSetsFlag, ConnectSetsSession, ConnectReports, StartWorking, StartReturns
      <4>2. SimControl'
        BY <2>3, <3>2 DEF ConnectSetsFlag, ConnectSetsSession, ConnectReports, StartWorking,
                          StartReturns, SimControl
      <4>3. SimPosted'  BY <4>1 DEF SimPosted
      <4>. QED  BY <4>2, <4>3
    <3>. QED  BY <3>1, <3>2
  <2>4. CASE Rotate
    <3>1. CASE Broken  BY <2>2, <3>1
    <3>2. CASE ~Broken
      <4>1. /\ posted > 0 /\ ~isUp /\ main = "running" /\ io' = "joining"
            /\ UNCHANGED <<main, hasUri, isUp, hasSession, posted>>
        BY <2>4, <3>2 DEF Rotate
      <4>2. ~hasUri  BY <4>1 DEF SimPosted, Bit
      <4>3. SimControl'  BY <4>1, <4>2 DEF SimControl
      <4>4. SimPosted'  BY <4>1 DEF SimPosted
      <4>. QED  BY <4>3, <4>4
    <3>. QED  BY <3>1, <3>2
  <2>5. CASE JoinReturns
    <3>1. SimControl'  BY <2>5 DEF JoinReturns, SimControl
    <3>2. ~hasUri /\ main = "running" /\ hasUri' = TRUE /\ posted' = posted - 1
      BY <2>5 DEF JoinReturns, SimControl
    <3>3. posted = 1  BY <3>2 DEF SimPosted, Bit
    <3>4. SimPosted'  BY <3>2, <3>3 DEF SimPosted, Bit
    <3>. QED  BY <3>1, <3>4
  <2>6. CASE SimDisconnect
    <3>1. CASE Broken  BY <2>2, <3>1
    <3>2. CASE ~Broken
      <4>1. /\ hasUri /\ hasUri' = FALSE /\ isUp' = FALSE /\ hasSession' = FALSE /\ main = "running"
            /\ io = "idle" /\ UNCHANGED <<io, main>>
        BY <2>6, <3>2 DEF SimDisconnect
      <4>2. posted' = posted + 1  BY <2>6, <3>2 DEF SimDisconnect
      <4>3. SimControl'  BY <4>1 DEF SimControl
      <4>4. posted = 0  BY <4>1 DEF SimPosted, Bit
      <4>5. SimPosted'  BY <4>1, <4>2, <4>4 DEF SimPosted, Bit
      <4>. QED  BY <4>3, <4>5
    <3>. QED  BY <3>1, <3>2
  <2>7. CASE ThreadStep
    <3>1. CASE Broken  BY <2>2, <3>1
    <3>2. CASE ~Broken
      BY <2>1, <2>7, <3>2 DEF ThreadStep, ThreadStarts, WorkLoop, HandsJob, SamplingEnds
    <3>. QED  BY <3>1, <3>2
  <2>8. CASE StopDisconnects
    <3>1. CASE Broken  BY <2>2, <3>1
    <3>2. CASE ~Broken
      <4>1. isUp /\ main' = "destroying" /\ UNCHANGED io
        BY <2>8, <3>2 DEF StopDisconnects
      <4>2. SimControl'  BY <4>1 DEF SimControl
      <4>3. SimPosted'  BY <4>1 DEF SimPosted
      <4>. QED  BY <4>2, <4>3
    <3>. QED  BY <3>1, <3>2
  <2>9. CASE MainStep
    <3>1. CASE Broken  BY <2>2, <3>1
    <3>2. CASE ~Broken
      <4>1. main # "running" /\ main' # "running" /\ UNCHANGED io
        BY <2>9, <3>2 DEF MainStep, StopDestroys, StopReturns
      <4>2. SimControl'  BY <4>1 DEF SimControl
      <4>3. SimPosted'  BY <4>1 DEF SimPosted
      <4>. QED  BY <4>2, <4>3
    <3>. QED  BY <3>1, <3>2
  <2>10. CASE UNCHANGED simVars  BY <2>1, <2>10 DEF simVars
  <2>. QED  BY <2>3, <2>4, <2>5, <2>6, <2>7, <2>8, <2>9, <2>10 DEF SimNext, IoStep, SimEnded
<1>. QED  BY <1>1, <1>2, PTL DEF SimSpec

\* Every step is of one of the kinds.
LEMMA SimStepKinds ==
  ASSUME SimControl, [SimNext]_simVars PROVE SimKind
<1>. USE DEF SimKind, IoAt, ThreadAt, CloseSession
<1>1. CASE UNCHANGED simVars  BY <1>1 DEF simVars
<1>2. ASSUME ~failed, Broken PROVE SimKind  BY <1>2 DEF Broken
<1>3. CASE ConnectSetsFlag \/ StartWorking \/ StartReturns
  BY <1>3 DEF ConnectSetsFlag, StartWorking, StartReturns
<1>4. CASE ConnectSetsSession  BY <1>4 DEF ConnectSetsSession
<1>5. CASE ConnectReports  BY <1>2, <1>5 DEF ConnectReports
<1>6. CASE Rotate  BY <1>2, <1>6 DEF Rotate
<1>7. CASE JoinReturns  BY <1>7 DEF JoinReturns, SimControl
<1>8. CASE SimDisconnect  BY <1>2, <1>8 DEF SimDisconnect
<1>9. CASE ThreadStep
  BY <1>2, <1>9 DEF ThreadStep, ThreadStarts, WorkLoop, HandsJob, SamplingEnds
<1>10. CASE StopDisconnects  BY <1>2, <1>10 DEF StopDisconnects
<1>11. CASE MainStep  BY <1>2, <1>11 DEF MainStep, StopDestroys, StopReturns
<1>. QED  BY <1>1, <1>3, <1>4, <1>5, <1>6, <1>7, <1>8, <1>9, <1>10, <1>11
          DEF SimNext, IoStep, SimEnded

\* The simulation client does only what the manager relies on although connect,
\* its own thread and PoolManager::stop() interleave freely: it comes up once,
\* goes down once, and is replaced only by the one rotateConnect that was posted
\* (SimulateClient::connect, disconnect, workLoop).
THEOREM SimulationImplementsLifecycle == SimSpec => SimClient!Safety
<1>1. SimInit => SimClient!Init
  BY DEF SimInit, SimClient!Init, SimPhase
<1>2. SimControl /\ SimPosted /\ SimPosted' /\ [SimNext]_simVars
        => [SimClient!Next]_(SimClient!lifecycle)
  <2>. SUFFICES ASSUME SimControl, SimPosted, SimPosted', [SimNext]_simVars
                PROVE  [SimClient!Next]_(SimClient!lifecycle)
    OBVIOUS
  <2>. USE DEF SimClient!Next, SimClient!lifecycle
  <2>0. /\ failed \/ main # "running" => SimPhase = "ended"
        /\ ~failed /\ main = "running" /\ ~hasUri => SimPhase = "gone"
        /\ ~failed /\ main = "running" /\ hasUri /\ hasSession => SimPhase = "up"
        /\ ~failed /\ main = "running" /\ hasUri /\ ~hasSession => SimPhase = "trying"
    BY DEF SimPhase
  <2>1. /\ failed' \/ main' # "running" => SimPhase' = "ended"
        /\ ~failed' /\ main' = "running" /\ ~hasUri' => SimPhase' = "gone"
        /\ ~failed' /\ main' = "running" /\ hasUri' /\ hasSession' => SimPhase' = "up"
        /\ ~failed' /\ main' = "running" /\ hasUri' /\ ~hasSession' => SimPhase' = "trying"
    BY DEF SimPhase
  <2>2. CASE UNCHANGED <<failed, main, hasUri, hasSession, posted>>
    <3>1. SimPhase' = SimPhase  BY <2>2 DEF SimPhase
    <3>. QED  BY <2>2, <3>1
  <2>3. ASSUME SimPhase' = "ended", UNCHANGED posted
        PROVE  [SimClient!Next]_(SimClient!lifecycle)
    BY <2>3 DEF SimClient!Fails
  <2>4. CASE ~failed /\ UNCHANGED <<failed, main, hasUri, posted>> /\ hasSession'
    <3>1. SimPhase' = SimPhase \/ (SimPhase = "trying" /\ SimPhase' = "up")
      BY <2>0, <2>1, <2>4
    <3>. QED  BY <2>4, <3>1 DEF SimClient!ComesUp
  <2>5. CASE /\ ~failed /\ UNCHANGED <<failed, main>> /\ main = "running"
             /\ hasUri /\ ~hasUri' /\ ~hasSession'
    <3>1. posted = 0 /\ posted' = 1  BY <2>5 DEF SimPosted, Bit
    <3>2. SimPhase \in {"trying", "up"} /\ SimPhase' = "gone"  BY <2>0, <2>1, <2>5
    <3>. QED  BY <3>1, <3>2 DEF SimClient!GoesDown
  <2>6. CASE /\ ~failed /\ UNCHANGED <<failed, main>> /\ main = "running"
             /\ ~hasUri /\ hasUri' /\ ~hasSession'
    <3>1. posted = 1 /\ posted' = 0  BY <2>6 DEF SimPosted, Bit
    <3>2. SimPhase = "gone" /\ SimPhase' = "trying"  BY <2>0, <2>1, <2>6
    <3>. QED  BY <3>1, <3>2 DEF SimClient!Replaced
  <2>7. SimKind  BY SimStepKinds
  <2>. QED  BY <2>1, <2>2, <2>3, <2>4, <2>5, <2>6, <2>7 DEF SimKind
<1>. QED  BY <1>1, <1>2, SimInv, PTL DEF SimSpec, SimClient!Safety

=============================================================================
