-------------------------- MODULE PoolManagerProofs --------------------------
(***************************************************************************)
(* Proofs about PoolManager, for any set of pool definitions, any          *)
(* configuration, any settings and any number of stratum modes.            *)
(*                                                                         *)
(* What carries the proofs is the state of the strand's queue: at most one *)
(* rotateConnect is ever queued, only while no client is in use, and no    *)
(* expired failover timer is behind it, so that the failover handler never *)
(* meets a connection that is being made.                                  *)
(***************************************************************************)
EXTENDS PoolManager, SequenceTheorems, TLAPS

(***************************************************************************)
(* The queue of handlers                                                   *)
(***************************************************************************)
Handlers == {"rotateConnect", "failover", "hashrate"}
OneRotation(q) ==
  \A k, l \in 1..Len(q) : q[k] = "rotateConnect" /\ q[l] = "rotateConnect" => k = l
FailoverFirst(q) ==
  \A k, l \in 1..Len(q) : q[k] = "rotateConnect" /\ q[l] = "failover" => l < k
QueueOk(q) == q \in Seq(Handlers) /\ OneRotation(q) /\ FailoverFirst(q)

\* Running the first handler.
LEMMA QueuePops ==
  ASSUME NEW q, QueueOk(q), q # << >>
  PROVE  /\ QueueOk(Tail(q))
         /\ Contains(q, Head(q))
         /\ \A h : Contains(Tail(q), h) => Contains(q, h)
         /\ \A h : Contains(q, h) /\ Head(q) # h => Contains(Tail(q), h)
         /\ Head(q) = "rotateConnect" => /\ ~Contains(Tail(q), "rotateConnect")
                                         /\ ~Contains(Tail(q), "failover")
<1>. DEFINE t == Tail(q)
<1>1. q \in Seq(Handlers) /\ Len(q) \in Nat /\ Len(q) >= 1 /\ Head(q) = q[1]  BY DEF QueueOk
<1>2. t \in Seq(Handlers) /\ Len(t) = Len(q) - 1 /\ \A i \in 1..Len(t) : t[i] = q[i + 1]
  BY <1>1, HeadTailProperties
<1>. HIDE DEF t
<1>3. ASSUME NEW i \in 1..Len(t) PROVE i + 1 \in 1..Len(q) /\ t[i] = q[i + 1] /\ i + 1 # 1 /\ i \in Int
  BY <1>1, <1>2
<1>4. QueueOk(t)
  <2>1. ASSUME NEW k \in 1..Len(t), NEW l \in 1..Len(t),
               t[k] = "rotateConnect", t[l] = "rotateConnect"
        PROVE  k = l
    <3>1. k + 1 = l + 1  BY <1>3, <2>1 DEF QueueOk, OneRotation
    <3>. QED  BY <1>3, <3>1
  <2>2. ASSUME NEW k \in 1..Len(t), NEW l \in 1..Len(t),
               t[k] = "rotateConnect", t[l] = "failover"
        PROVE  l < k
    <3>1. l + 1 < k + 1  BY <1>3, <2>2 DEF QueueOk, FailoverFirst
    <3>. QED  BY <1>3, <3>1
  <2>. QED  BY <1>2, <2>1, <2>2 DEF QueueOk, OneRotation, FailoverFirst
<1>5. 1 \in 1..Len(q)  BY <1>1
<1>6. Contains(q, Head(q))  BY <1>1, <1>5 DEF Contains
<1>7. ASSUME NEW h, Contains(t, h) PROVE Contains(q, h)
  <2>1. PICK i \in 1..Len(t) : t[i] = h  BY <1>7 DEF Contains
  <2>. QED  BY <1>3, <2>1 DEF Contains
<1>8. ASSUME NEW h, Contains(q, h), Head(q) # h PROVE Contains(t, h)
  <2>1. PICK i \in 1..Len(q) : q[i] = h  BY <1>8 DEF Contains
  <2>2. i # 1  BY <1>1, <1>8, <2>1
  <2>3. i - 1 \in 1..Len(t) /\ (i - 1) + 1 = i  BY <1>1, <1>2, <2>2
  <2>4. t[i - 1] = h  BY <1>3, <2>1, <2>3
  <2>. QED  BY <2>3, <2>4 DEF Contains
<1>9. ASSUME Head(q) = "rotateConnect"
      PROVE  ~Contains(t, "rotateConnect") /\ ~Contains(t, "failover")
  <2>1. ASSUME NEW i \in 1..Len(t), t[i] = "rotateConnect" PROVE FALSE
    BY <1>1, <1>3, <1>5, <1>9, <2>1 DEF QueueOk, OneRotation
  <2>2. ASSUME NEW i \in 1..Len(t), t[i] = "failover" PROVE FALSE
    <3>1. i + 1 < 1  BY <1>1, <1>3, <1>5, <1>9, <2>2 DEF QueueOk, FailoverFirst
    <3>. QED  BY <1>3, <3>1
  <2>. QED  BY <2>1, <2>2 DEF Contains
<1>. QED  BY <1>4, <1>6, <1>7, <1>8, <1>9 DEF t

\* Queueing a handler: a rotateConnect or an expired failover timer may only
\* follow if no rotateConnect is queued.
LEMMA QueueGrows ==
  ASSUME NEW q, QueueOk(q), NEW x \in Handlers,
         x = "hashrate" \/ ~Contains(q, "rotateConnect")
  PROVE  /\ QueueOk(Append(q, x))
         /\ \A h : Contains(Append(q, x), h) <=> Contains(q, h) \/ h = x
<1>. DEFINE t == Append(q, x)
<1>1. q \in Seq(Handlers) /\ Len(q) \in Nat  BY DEF QueueOk
<1>2. /\ t \in Seq(Handlers) /\ Len(t) = Len(q) + 1 /\ t[Len(q) + 1] = x
      /\ \A i \in 1..Len(q) : t[i] = q[i]
  BY <1>1, AppendProperties
<1>. HIDE DEF t
<1>3. ASSUME NEW i \in 1..Len(t)
      PROVE  (i \in 1..Len(q) /\ t[i] = q[i]) \/ (i = Len(q) + 1 /\ t[i] = x)
  BY <1>1, <1>2
<1>4. ASSUME NEW i \in 1..Len(q) PROVE i \in 1..Len(t) /\ t[i] = q[i] /\ i \in Int /\ i < Len(q) + 1
  BY <1>1, <1>2
<1>5. Len(q) + 1 \in 1..Len(t)  BY <1>1, <1>2
<1>6. ASSUME NEW k \in 1..Len(t), t[k] = "rotateConnect", x # "hashrate"
      PROVE  k = Len(q) + 1 /\ x = "rotateConnect"
  <2>1. \A i \in 1..Len(q) : q[i] # "rotateConnect"  BY <1>6 DEF Contains
  <2>. QED  BY <1>3, <1>6, <2>1
<1>7. OneRotation(t)
  <2>. SUFFICES ASSUME NEW k \in 1..Len(t), NEW l \in 1..Len(t),
                       t[k] = "rotateConnect", t[l] = "rotateConnect"
                PROVE  k = l
    BY DEF OneRotation
  <2>1. CASE x # "hashrate"  BY <1>6, <2>1
  <2>2. CASE x = "hashrate"
    <3>1. k \in 1..Len(q) /\ l \in 1..Len(q) /\ q[k] = "rotateConnect" /\ q[l] = "rotateConnect"
      BY <1>3, <2>2
    <3>. QED  BY <3>1 DEF QueueOk, OneRotation
  <2>. QED  BY <2>1, <2>2
<1>8. FailoverFirst(t)
  <2>. SUFFICES ASSUME NEW k \in 1..Len(t), NEW l \in 1..Len(t),
                       t[k] = "rotateConnect", t[l] = "failover"
                PROVE  l < k
    BY DEF FailoverFirst
  <2>1. CASE x # "hashrate"
    <3>1. k = Len(q) + 1 /\ x = "rotateConnect"  BY <1>6, <2>1
    <3>2. l \in 1..Len(q)  BY <1>3, <3>1
    <3>. QED  BY <1>4, <3>1, <3>2
  <2>2. CASE x = "hashrate"
    <3>1. k \in 1..Len(q) /\ l \in 1..Len(q) /\ q[k] = "rotateConnect" /\ q[l] = "failover"
      BY <1>3, <2>2
    <3>. QED  BY <3>1 DEF QueueOk, FailoverFirst
  <2>. QED  BY <2>1, <2>2
<1>9. ASSUME NEW h PROVE Contains(t, h) <=> Contains(q, h) \/ h = x
  <2>1. ASSUME Contains(t, h) PROVE Contains(q, h) \/ h = x
    <3>1. PICK i \in 1..Len(t) : t[i] = h  BY <2>1 DEF Contains
    <3>. QED  BY <1>3, <3>1 DEF Contains
  <2>2. ASSUME Contains(q, h) PROVE Contains(t, h)
    <3>1. PICK i \in 1..Len(q) : q[i] = h  BY <2>2 DEF Contains
    <3>. QED  BY <1>4, <3>1 DEF Contains
  <2>3. ASSUME h = x PROVE Contains(t, h)  BY <1>2, <1>5, <2>3 DEF Contains
  <2>. QED  BY <2>1, <2>2, <2>3
<1>. QED  BY <1>2, <1>7, <1>8, <1>9 DEF QueueOk, t

(***************************************************************************)
(* The list of connections                                                 *)
(***************************************************************************)

\* erase: what follows moves up by one.
LEMMA Erased ==
  ASSUME NEW S, NEW s \in Seq(S), NEW i \in 1..Len(s)
  PROVE  /\ RemoveAt(s, i) \in Seq(S)
         /\ Len(RemoveAt(s, i)) = Len(s) - 1
         /\ \A k \in 1..(Len(s) - 1) : RemoveAt(s, i)[k] = IF k < i THEN s[k] ELSE s[k + 1]
<1>. DEFINE a == SubSeq(s, 1, i - 1)
            b == SubSeq(s, i + 1, Len(s))
<1>1. Len(s) \in Nat /\ i \in Int /\ i >= 1 /\ i <= Len(s)  OBVIOUS
<1>2. /\ a \in Seq(S) /\ Len(a) = i - 1
      /\ \A k \in 1..(i - 1) : a[k] = s[k]
  <2>1. \A k \in 1..(i - 1) : s[k] \in S  BY <1>1
  <2>2. 1 \in Int /\ i - 1 \in Int  BY <1>1
  <2>3. /\ a \in Seq(S) /\ Len(a) = (IF 1 <= i - 1 THEN (i - 1) - 1 + 1 ELSE 0)
        /\ \A k \in 1..((i - 1) - 1 + 1) : a[k] = s[1 + k - 1]
    BY <2>1, <2>2, SubSeqProperties
  <2>. HIDE DEF a
  <2>4. Len(a) = i - 1  BY <1>1, <2>3
  <2>5. ASSUME NEW k \in 1..(i - 1) PROVE a[k] = s[k]
    <3>1. k \in 1..((i - 1) - 1 + 1) /\ 1 + k - 1 = k  BY <1>1
    <3>. QED  BY <2>3, <3>1
  <2>. QED  BY <2>3, <2>4, <2>5
<1>3. /\ b \in Seq(S) /\ Len(b) = Len(s) - i
      /\ \A k \in 1..(Len(s) - i) : b[k] = s[i + k]
  <2>1. \A k \in (i + 1)..Len(s) : s[k] \in S  BY <1>1
  <2>2. i + 1 \in Int /\ Len(s) \in Int  BY <1>1
  <2>3. /\ b \in Seq(S) /\ Len(b) = (IF i + 1 <= Len(s) THEN Len(s) - (i + 1) + 1 ELSE 0)
        /\ \A k \in 1..(Len(s) - (i + 1) + 1) : b[k] = s[(i + 1) + k - 1]
    BY <2>1, <2>2, SubSeqProperties
  <2>. HIDE DEF b
  <2>4. Len(b) = Len(s) - i
    <3>1. CASE i + 1 <= Len(s)
      <4>1. Len(b) = Len(s) - (i + 1) + 1  BY <2>3, <3>1
      <4>. QED  BY <1>1, <4>1
    <3>2. CASE ~(i + 1 <= Len(s))
      <4>1. Len(b) = 0  BY <2>3, <3>2
      <4>. QED  BY <1>1, <3>2, <4>1
    <3>. QED  BY <3>1, <3>2
  <2>5. ASSUME NEW k \in 1..(Len(s) - i) PROVE b[k] = s[i + k]
    <3>1. k \in 1..(Len(s) - (i + 1) + 1) /\ (i + 1) + k - 1 = i + k  BY <1>1
    <3>. QED  BY <2>3, <3>1
  <2>. QED  BY <2>3, <2>4, <2>5
<1>4. RemoveAt(s, i) = a \o b  BY DEF RemoveAt
<1>. HIDE DEF a, b
<1>5. /\ a \o b \in Seq(S) /\ Len(a \o b) = Len(a) + Len(b)
      /\ \A k \in 1..(Len(a) + Len(b)) : (a \o b)[k] = IF k <= Len(a) THEN a[k] ELSE b[k - Len(a)]
  BY <1>2, <1>3, ConcatProperties
<1>6. ASSUME NEW k \in 1..(Len(s) - 1) PROVE (a \o b)[k] = IF k < i THEN s[k] ELSE s[k + 1]
  <2>1. k \in 1..(Len(a) + Len(b))  BY <1>1, <1>2, <1>3
  <2>2. CASE k < i
    <3>1. k \in 1..(i - 1) /\ k <= Len(a)  BY <1>1, <1>2, <2>2
    <3>. QED  BY <1>2, <1>5, <2>1, <2>2, <3>1
  <2>3. CASE ~(k < i)
    <3>1. ~(k <= Len(a)) /\ k - Len(a) \in 1..(Len(s) - i) /\ i + (k - Len(a)) = k + 1
      BY <1>1, <1>2, <2>3
    <3>2. (a \o b)[k] = b[k - Len(a)]  BY <1>5, <2>1, <3>1
    <3>. QED  BY <1>3, <2>3, <3>1, <3>2
  <2>. QED  BY <2>2, <2>3
<1>. QED  BY <1>1, <1>2, <1>3, <1>4, <1>5, <1>6

\* What the list and the index are like: the index is inside a list that is
\* not empty, and 0 in an empty one, to which the API may add a definition.
ListOk(list, idx) ==
  /\ list \in Seq(URIs) /\ idx \in Nat
  /\ list # << >> => idx < Len(list)
  /\ list = << >> => idx = 0

\* rotateConnect's choice is a good list with a good index.
LEMMA RotationOk ==
  ASSUME ListOk(connections, active), connections # << >>, attempt \in Nat
  PROVE  /\ ListOk(Rotation.list, Rotation.idx)
         /\ Rotation.attempt \in Nat
         /\ Rotation.list # << >> => Rotation.list[Rotation.idx + 1] \in URIs
<1>. DEFINE n == Len(connections)
            others == RemoveAt(connections, active + 1)
<1>1. /\ connections \in Seq(URIs) /\ active \in Nat /\ active < n /\ n \in Nat /\ n >= 1
      /\ ~(active >= n) /\ active + 1 \in 1..n
  BY DEF ListOk
<1>2. others \in Seq(URIs) /\ Len(others) = n - 1  BY <1>1, Erased
<1>3. (IF active >= n THEN 0 ELSE active) = active  BY <1>1
<1>4. \/ Rotation = [list |-> others, idx |-> IF active >= Len(others) THEN 0 ELSE active, attempt |-> 0]
      \/ n = 1 /\ Rotation = [list |-> others, idx |-> active, attempt |-> attempt]
      \/ n # 1 /\ Rotation = [list |-> connections, idx |-> (active + 1) % n, attempt |-> 0]
      \/ Rotation = [list |-> connections, idx |-> active, attempt |-> attempt]
  BY <1>3 DEF Rotation
<1>. HIDE DEF others
<1>5. ASSUME NEW r, ListOk(r.list, r.idx), r.list # << >> PROVE r.list[r.idx + 1] \in URIs
  <2>1. r.list \in Seq(URIs) /\ r.idx + 1 \in 1..Len(r.list)  BY <1>5 DEF ListOk
  <2>. QED  BY <2>1
<1>6. CASE Rotation = [list |-> others, idx |-> IF active >= Len(others) THEN 0 ELSE active, attempt |-> 0]
  <2>. DEFINE k == IF active >= Len(others) THEN 0 ELSE active
  <2>1. ListOk(others, k)
    <3>1. others # << >> => Len(others) > 0  BY <1>2
    <3>2. others = << >> => Len(others) = 0  BY <1>2
    <3>. QED  BY <1>1, <1>2, <3>1, <3>2 DEF ListOk
  <2>. HIDE DEF k
  <2>2. Rotation.list = others /\ Rotation.idx = k /\ Rotation.attempt = 0  BY <1>6 DEF k
  <2>. QED  BY <1>5, <2>1, <2>2
<1>7. CASE n = 1 /\ Rotation = [list |-> others, idx |-> active, attempt |-> attempt]
  <2>1. others = << >> /\ active = 0  BY <1>1, <1>2, <1>7
  <2>2. ListOk(others, active)  BY <1>2, <2>1 DEF ListOk
  <2>3. Rotation.list = others /\ Rotation.idx = active /\ Rotation.attempt = attempt  BY <1>7
  <2>. QED  BY <1>5, <2>2, <2>3
<1>8. CASE n # 1 /\ Rotation = [list |-> connections, idx |-> (active + 1) % n, attempt |-> 0]
  <2>. DEFINE k == (active + 1) % n
  <2>1. k \in Nat /\ k < n  BY <1>1
  <2>. HIDE DEF k
  <2>2. ListOk(connections, k)  BY <1>1, <2>1 DEF ListOk
  <2>3. Rotation.list = connections /\ Rotation.idx = k /\ Rotation.attempt = 0  BY <1>8 DEF k
  <2>. QED  BY <1>5, <2>2, <2>3
<1>9. CASE Rotation = [list |-> connections, idx |-> active, attempt |-> attempt]
  <2>1. Rotation.list = connections /\ Rotation.idx = active /\ Rotation.attempt = attempt  BY <1>9
  <2>. QED  BY <1>5, <2>1
<1>. QED  BY <1>4, <1>6, <1>7, <1>8, <1>9

(***************************************************************************)
(* The inductive invariant.  q is the queue without the handler that is    *)
(* running.                                                                *)
(***************************************************************************)
NoClient == client \in {"none", "down"}

\* A connection is being made, or is closed before the pool answered a login:
\* autodetection may go on with it.
Trying == client \in {"connecting", "handshake"} \/ (client = "closing" /\ conn \notin confirmed)

\* A queued rotateConnect finds no client, a list to choose from and miners
\* without work, and the manager pending.
RotationInv(q) ==
  Contains(q, "rotateConnect") =>
    NoClient /\ connections # << >> /\ asyncPending /\ ~hasJob /\ running

\* m_conn is null exactly between two clients; the failover timer only runs
\* for a session, and neither it nor its handler meets a connection that is
\* being made.
ClientInv(q) ==
  /\ client \in ClientState
  /\ NoClient => conn = NoURI /\ ~failTimer
  /\ ~NoClient => conn \in URIs /\ connections # << >> /\ running
  /\ client = "down" => ~hasJob
  /\ client = "session" => conn \in confirmed
  /\ Trying => asyncPending /\ ~hasJob /\ ~failTimer /\ ~Contains(q, "failover")

\* Miners are suspended only by a pause of the farm, and never in a session.
FarmInv ==
  /\ suspended => farmPaused
  /\ client = "session" /\ ~stopping => isMining /\ ~suspended

\* HashrateReported, crashed or not.
ReportInv(q) ==
  client = "session" /\ settings.reportHr /\ ~stopping => hrTimer \/ Contains(q, "hashrate")

\* m_stopping is set when main leaves its loop.
StopInv == stopping => mpc \notin {"check", "enter", "wait", "isRunning"}

Control(q) == RotationInv(q) /\ ClientInv(q) /\ FarmInv /\ ReportInv(q)

\* The connection in use, or being made, is the one the index says.
Settled == client = "session" \/ Trying
ActiveInv == Settled => conn = activeURI

PoolInv ==
  /\ ListOk(connections, active) /\ attempt \in Nat
  /\ QueueOk(ioq)
  /\ Control(ioq)
  /\ ActiveInv
  /\ StopInv

(***************************************************************************)
(* Disconnecting                                                           *)
(***************************************************************************)

\* disconnect_finalize(): if the connection lives on, it was being made.
LEMMA FinalizeKeeps ==
  ASSUME NEW unrec, NEW q, QueueOk(q), Control(q), DisconnectFinalize(unrec, q),
         UNCHANGED <<connections, settings>>
  PROVE  /\ QueueOk(ioq') /\ Control(ioq)' /\ UNCHANGED stopping
         /\ Settled' => Trying /\ conn' = conn
<1>0. NoURI \notin URIs  BY PoolAssumption
<1>1. CASE conn = NoURI /\ ioq' = q /\ UNCHANGED <<flags, clientVars, uriVars, failTimer, hrTimer, farm>>
  <2>1. NoClient  BY <1>0, <1>1 DEF Control, ClientInv
  <2>2. Control(ioq)'
    BY <1>1 DEF Control, RotationInv, ClientInv, FarmInv, ReportInv, NoClient, Trying,
                flags, clientVars, uriVars, farm
  <2>. QED  BY <1>1, <2>1, <2>2 DEF NoClient, Settled, Trying, clientVars, flags
<1>2. CASE /\ conn # NoURI /\ conn \notin confirmed /\ client' = "connecting" /\ ioq' = q
           /\ UNCHANGED <<flags, conn, confirmed, failTimer, hrTimer, farm>>
  <2>1. ~NoClient /\ Trying  BY <1>2 DEF Control, ClientInv, NoClient, Trying, ClientState
  <2>2. /\ asyncPending /\ ~hasJob /\ ~failTimer /\ ~Contains(q, "failover")
        /\ ~Contains(q, "rotateConnect") /\ conn \in URIs /\ connections # << >> /\ running
    BY <2>1 DEF Control, ClientInv, RotationInv
  <2>3. RotationInv(ioq)'  BY <1>2, <2>2 DEF RotationInv
  <2>4. ClientInv(ioq)'  BY <1>2, <2>2 DEF ClientInv, NoClient, Trying, ClientState, flags, farm
  <2>5. FarmInv'  BY <1>2 DEF Control, FarmInv, flags, farm
  <2>6. ReportInv(ioq)'  BY <1>2 DEF ReportInv
  <2>. QED  BY <1>2, <2>1, <2>3, <2>4, <2>5, <2>6 DEF Control, flags
<1>3. CASE conn # NoURI /\ OnDisconnected(q)
  <2>1. ~NoClient  BY <1>3 DEF Control, ClientInv
  <2>2. /\ ~Contains(q, "rotateConnect") /\ connections # << >> /\ running
    BY <2>1 DEF Control, ClientInv, RotationInv
  <2>3. client' = "down" /\ conn' = NoURI /\ failTimer' = FALSE /\ UNCHANGED stopping
    BY <1>3 DEF OnDisconnected
  <2>4. hasJob' = FALSE  BY <1>3 DEF OnDisconnected, FarmStop, FarmPause
  <2>5. ClientInv(ioq)'  BY <2>3, <2>4 DEF ClientInv, NoClient, Trying, ClientState
  <2>6. ReportInv(ioq)'  BY <2>3 DEF ReportInv
  <2>7. FarmInv'
    <3>1. suspended' => farmPaused'
      BY <1>3 DEF OnDisconnected, FarmStop, FarmPause
    <3>. QED  BY <2>3, <3>1 DEF FarmInv
  <2>8. QueueOk(ioq') /\ RotationInv(ioq)'
    <3>1. CASE stopping
      <4>1. ioq' = q  BY <1>3, <3>1 DEF OnDisconnected
      <4>. QED  BY <2>2, <4>1 DEF RotationInv
    <3>2. CASE ~stopping
      <4>1. ioq' = Append(q, "rotateConnect") /\ asyncPending' = TRUE /\ UNCHANGED running
        BY <1>3, <3>2 DEF OnDisconnected, PostRotateConnect
      <4>2. "rotateConnect" \in Handlers  BY DEF Handlers
      <4>3. QueueOk(ioq')  BY <2>2, <4>1, <4>2, QueueGrows
      <4>4. RotationInv(ioq)'  BY <2>2, <2>3, <2>4, <4>1 DEF RotationInv, NoClient
      <4>. QED  BY <4>3, <4>4
    <3>. QED  BY <3>1, <3>2
  <2>9. ~Settled'  BY <2>3 DEF Settled, Trying
  <2>. QED  BY <2>3, <2>5, <2>6, <2>7, <2>8, <2>9 DEF Control
<1>. QED  BY <1>1, <1>2, <1>3 DEF DisconnectFinalize, Autodetecting

\* disconnect()
LEMMA DisconnectKeeps ==
  ASSUME NEW unrec, NEW q, QueueOk(q), Control(q), Disconnect(unrec, q),
         UNCHANGED <<connections, settings>>
  PROVE  /\ QueueOk(ioq') /\ Control(ioq)' /\ UNCHANGED stopping
         /\ Settled' => Trying /\ conn' = conn
<1>1. CASE client = "closing" /\ ioq' = q /\ UNCHANGED discVars
  <2>1. Control(ioq)'
    BY <1>1 DEF Control, RotationInv, ClientInv, FarmInv, ReportInv, NoClient, Trying,
                discVars, flags, clientVars, uriVars, farm
  <2>. QED  BY <1>1, <2>1 DEF Settled, Trying, discVars, clientVars, uriVars, flags
<1>2. CASE /\ isConnected /\ client' = "closing" /\ ioq' = q
           /\ UNCHANGED <<flags, conn, confirmed, failTimer, hrTimer, farm>>
  <2>1. ~NoClient /\ client \in {"handshake", "session"}  BY <1>2 DEF isConnected, NoClient
  <2>2. /\ ~Contains(q, "rotateConnect") /\ conn \in URIs /\ connections # << >> /\ running
    BY <2>1 DEF Control, ClientInv, RotationInv
  <2>3. Trying' => Trying  BY <1>2, <2>1 DEF Control, ClientInv, Trying
  <2>4. RotationInv(ioq)'  BY <1>2, <2>2 DEF RotationInv
  <2>5. ClientInv(ioq)'
    <3>1. Trying' => asyncPending /\ ~hasJob /\ ~failTimer /\ ~Contains(q, "failover")
      BY <2>3 DEF Control, ClientInv
    <3>2. ~NoClient' /\ client' \in ClientState  BY <1>2 DEF NoClient, ClientState
    <3>. QED  BY <1>2, <2>2, <3>1, <3>2 DEF ClientInv, flags, farm
  <2>6. FarmInv'  BY <1>2 DEF Control, FarmInv, flags, farm
  <2>7. ReportInv(ioq)'  BY <1>2 DEF ReportInv
  <2>8. Settled' => Trying'  BY <1>2 DEF Settled
  <2>. QED  BY <1>2, <2>3, <2>4, <2>5, <2>6, <2>7, <2>8 DEF Control, flags
<1>3. CASE DisconnectFinalize(unrec, q)  BY <1>3, FinalizeKeeps
<1>. QED  BY <1>1, <1>2, <1>3 DEF Disconnect

(***************************************************************************)
(* The steps                                                               *)
(***************************************************************************)

\* Steps that leave list and index alone and no connection but one that was.
LEMMA SamePool ==
  ASSUME PoolInv, UNCHANGED pool, QueueOk(ioq'), Control(ioq)', StopInv',
         Settled' => Settled /\ conn' = conn
  PROVE  PoolInv'
<1>1. UNCHANGED <<connections, active, attempt>>  BY DEF pool
<1>2. ActiveInv'  BY <1>1 DEF PoolInv, ActiveInv, activeURI
<1>. QED  BY <1>1, <1>2 DEF PoolInv

\* The handler that runs is taken off the queue; nothing else has changed yet.
LEMMA Dequeued ==
  ASSUME PoolInv, NEW h, Dequeue(h), h # "hashrate"
  PROVE  QueueOk(Tail(ioq)) /\ Control(Tail(ioq)) /\ Contains(ioq, h)
<1>1. QueueOk(ioq) /\ ioq # << >> /\ Head(ioq) = h  BY DEF PoolInv, Dequeue
<1>2. /\ QueueOk(Tail(ioq)) /\ Contains(ioq, h)
      /\ \A f : Contains(Tail(ioq), f) => Contains(ioq, f)
      /\ Contains(ioq, "hashrate") => Contains(Tail(ioq), "hashrate")
  BY <1>1, QueuePops
<1>3. Control(Tail(ioq))
  BY <1>2 DEF PoolInv, Control, RotationInv, ClientInv, ReportInv
<1>. QED  BY <1>2, <1>3

\* The client's steps.
LEMMA ClientSteps ==
  ASSUME PoolInv, ClientStep
  PROVE  PoolInv'
<1>0. QueueOk(ioq) /\ Control(ioq) /\ StopInv  BY DEF PoolInv
<1>1. CASE SocketUp
  <2>1. /\ client = "connecting" /\ client' = "handshake"
        /\ UNCHANGED <<settings, pool, flags, conn, uriVars, timers, farm, main>>
    BY <1>1 DEF SocketUp
  <2>2. /\ asyncPending /\ ~hasJob /\ ~failTimer /\ ~Contains(ioq, "failover")
        /\ ~Contains(ioq, "rotateConnect") /\ conn \in URIs /\ connections # << >> /\ running
    BY <1>0, <2>1 DEF Control, ClientInv, RotationInv, NoClient, Trying
  <2>3. Control(ioq)'
    BY <1>0, <2>1, <2>2 DEF Control, RotationInv, ClientInv, FarmInv, ReportInv, NoClient, Trying,
                     ClientState, pool, flags, uriVars, timers, farm
  <2>4. Settled /\ conn' = conn  BY <2>1 DEF Settled, Trying
  <2>5. StopInv' /\ QueueOk(ioq')  BY <1>0, <2>1 DEF StopInv, flags, main, timers
  <2>. QED  BY <2>1, <2>3, <2>4, <2>5, SamePool
<1>2. CASE OnConnected
  <2>1. /\ client = "handshake" /\ client' = "session" /\ confirmed' = confirmed \cup {conn}
        /\ hrTimer' = settings.reportHr
        /\ UNCHANGED <<settings, pool, running, stopping, conn, ioq, main>>
    BY <1>2 DEF OnConnected
  <2>2. /\ ~Contains(ioq, "rotateConnect") /\ conn \in URIs /\ connections # << >> /\ running
    BY <1>0, <2>1 DEF Control, ClientInv, RotationInv, NoClient, Trying
  <2>3. FarmInv'
    <3>1. (suspended' => farmPaused') /\ isMining' /\ ~suspended'
      <4>1. CASE FarmStart  BY <1>0, <4>1 DEF FarmStart, Control, FarmInv
      <4>2. CASE isMining /\ FarmResume  BY <4>2 DEF FarmResume
      <4>3. CASE isMining /\ ~farmPaused /\ UNCHANGED farm
        BY <1>0, <4>3 DEF farm, Control, FarmInv
      <4>. QED  BY <1>2, <4>1, <4>2, <4>3 DEF OnConnected
    <3>. QED  BY <3>1 DEF FarmInv
  <2>4. RotationInv(ioq)'  BY <2>1, <2>2 DEF RotationInv
  <2>5. ClientInv(ioq)'  BY <2>1, <2>2 DEF ClientInv, NoClient, Trying, ClientState, pool
  <2>6. ReportInv(ioq)'  BY <2>1 DEF ReportInv
  <2>7. Settled /\ conn' = conn  BY <2>1 DEF Settled, Trying
  <2>8. StopInv' /\ QueueOk(ioq')  BY <1>0, <2>1 DEF StopInv, main
  <2>. QED  BY <2>1, <2>3, <2>4, <2>5, <2>6, <2>7, <2>8, SamePool DEF Control
<1>3. CASE OnWorkReceived
  <2>1. /\ client = "session"
        /\ UNCHANGED <<settings, pool, flags, clientVars, uriVars, timers, isMining, farmPaused,
                       suspended, main>>
    BY <1>3 DEF OnWorkReceived
  <2>2. ~Contains(ioq, "rotateConnect")  BY <1>0, <2>1 DEF Control, RotationInv, NoClient
  <2>3. Control(ioq)'
    BY <1>0, <2>1, <2>2 DEF Control, RotationInv, ClientInv, FarmInv, ReportInv, NoClient, Trying,
                            ClientState, pool, flags, clientVars, uriVars, timers
  <2>4. Settled /\ conn' = conn  BY <2>1 DEF Settled, clientVars
  <2>5. StopInv' /\ QueueOk(ioq')  BY <1>0, <2>1 DEF StopInv, flags, main, timers
  <2>. QED  BY <2>1, <2>3, <2>4, <2>5, SamePool
<1>4. CASE /\ \E unrec : Disconnect(unrec, ioq) \/ DisconnectFinalize(unrec, ioq)
           /\ UNCHANGED <<settings, pool, main>>
  <2>1. PICK unrec : Disconnect(unrec, ioq) \/ DisconnectFinalize(unrec, ioq)  BY <1>4
  <2>2. UNCHANGED <<connections, settings>>  BY <1>4 DEF pool
  <2>3. /\ QueueOk(ioq') /\ Control(ioq)' /\ UNCHANGED stopping
        /\ Settled' => Trying /\ conn' = conn
    BY <1>0, <2>1, <2>2, DisconnectKeeps, FinalizeKeeps
  <2>4. StopInv'  BY <1>0, <1>4, <2>3 DEF StopInv, main
  <2>. QED  BY <1>4, <2>3, <2>4, SamePool DEF Settled
<1>. QED
  BY <1>1, <1>2, <1>3, <1>4
  DEF ClientStep, ConnectFails, LoginRefused, ConnectionLost, ShutdownCompletes

\* Expiring timers, and the handlers of the manager.
LEMMA TimerSteps ==
  ASSUME PoolInv, FailoverTimerExpires \/ HashrateTimerExpires \/ HashrateTimerElapsed
  PROVE  PoolInv'
<1>0. QueueOk(ioq) /\ Control(ioq) /\ StopInv  BY DEF PoolInv
<1>1. "failover" \in Handlers /\ "hashrate" \in Handlers  BY DEF Handlers
<1>2. CASE FailoverTimerExpires
  <2>1. /\ failTimer /\ failTimer' = FALSE /\ ioq' = Append(ioq, "failover")
        /\ UNCHANGED <<settings, pool, flags, clientVars, uriVars, hrTimer, farm, main>>
    BY <1>2 DEF FailoverTimerExpires
  <2>2. ~NoClient /\ ~Trying  BY <1>0, <2>1 DEF Control, ClientInv
  <2>3. ~Contains(ioq, "rotateConnect")  BY <1>0, <2>2 DEF Control, RotationInv
  <2>4. QueueOk(ioq') /\ \A h : Contains(ioq', h) <=> Contains(ioq, h) \/ h = "failover"
    BY <1>0, <1>1, <2>1, <2>3, QueueGrows
  <2>5. ~Contains(ioq', "rotateConnect") /\ (Contains(ioq, "hashrate") => Contains(ioq', "hashrate"))
    BY <2>3, <2>4
  <2>6. Control(ioq)'
    BY <1>0, <2>1, <2>2, <2>5 DEF Control, RotationInv, ClientInv, FarmInv, ReportInv, NoClient, Trying,
                     ClientState, pool, flags, clientVars, uriVars, farm
  <2>7. StopInv'  BY <1>0, <2>1 DEF StopInv, flags, main
  <2>8. Settled' => Settled /\ conn' = conn  BY <2>1 DEF Settled, Trying, clientVars, uriVars
  <2>. QED  BY <2>1, <2>4, <2>6, <2>7, <2>8, SamePool
<1>3. CASE HashrateTimerExpires
  <2>1. /\ ioq' = Append(ioq, "hashrate")
        /\ UNCHANGED <<settings, pool, flags, clientVars, uriVars, failTimer, farm, main>>
    BY <1>3 DEF HashrateTimerExpires
  <2>2. QueueOk(ioq') /\ \A h : Contains(ioq', h) <=> Contains(ioq, h) \/ h = "hashrate"
    BY <1>0, <1>1, <2>1, QueueGrows
  <2>3. /\ Contains(ioq', "rotateConnect") <=> Contains(ioq, "rotateConnect")
        /\ Contains(ioq', "failover") <=> Contains(ioq, "failover")
        /\ Contains(ioq', "hashrate")
    BY <2>2
  <2>4. Control(ioq)'
    BY <1>0, <2>1, <2>3 DEF Control, RotationInv, ClientInv, FarmInv, ReportInv, NoClient, Trying,
                     ClientState, pool, flags, clientVars, uriVars, farm
  <2>5. StopInv'  BY <1>0, <2>1 DEF StopInv, flags, main
  <2>6. Settled' => Settled /\ conn' = conn  BY <2>1 DEF Settled, Trying, clientVars, uriVars
  <2>. QED  BY <2>1, <2>2, <2>4, <2>5, <2>6, SamePool
<1>4. CASE HashrateTimerElapsed
  <2>1. /\ ioq # << >> /\ ioq' = Tail(ioq) /\ hrTimer' = (hrTimer \/ running)
        /\ UNCHANGED <<settings, pool, flags, clientVars, uriVars, failTimer, farm, main>>
    BY <1>4 DEF HashrateTimerElapsed, Dequeue
  <2>2. QueueOk(ioq') /\ \A h : Contains(ioq', h) => Contains(ioq, h)
    BY <1>0, <2>1, QueuePops
  <2>3. /\ Contains(ioq', "rotateConnect") => Contains(ioq, "rotateConnect")
        /\ Contains(ioq', "failover") => Contains(ioq, "failover")
    BY <2>2
  <2>4. RotationInv(ioq)' /\ ClientInv(ioq)' /\ FarmInv'
    BY <1>0, <2>1, <2>3 DEF Control, RotationInv, ClientInv, FarmInv, NoClient, Trying,
                     ClientState, pool, flags, clientVars, uriVars, farm
  <2>5. ReportInv(ioq)'
    <3>1. client = "session" /\ ~stopping => running
      BY <1>0 DEF Control, ClientInv, NoClient
    <3>. QED  BY <2>1, <3>1 DEF ReportInv, clientVars, flags
  <2>6. StopInv'  BY <1>0, <2>1 DEF StopInv, flags, main
  <2>7. Settled' => Settled /\ conn' = conn  BY <2>1 DEF Settled, Trying, clientVars, uriVars
  <2>. QED  BY <2>1, <2>2, <2>4, <2>5, <2>6, <2>7, SamePool DEF Control
<1>. QED  BY <1>2, <1>3, <1>4

\* The failover handler: if it disconnects, there is a session to leave.
LEMMA FailoverStep ==
  ASSUME PoolInv, FailoverTimerElapsed
  PROVE  PoolInv'
<1>1. /\ Dequeue("failover") /\ UNCHANGED <<settings, connections, main>>
  BY DEF FailoverTimerElapsed
<1>2. /\ QueueOk(Tail(ioq)) /\ Control(Tail(ioq)) /\ Contains(ioq, "failover")
  BY <1>1, Dequeued
<1>3. Control(ioq) /\ StopInv /\ ListOk(connections, active) /\ attempt \in Nat  BY DEF PoolInv
<1>4. ~Trying  BY <1>2, <1>3 DEF Control, ClientInv
<1>5. CASE active' = 0 /\ attempt' = 0 /\ Disconnect(unrecoverable, Tail(ioq))
  <2>1. /\ QueueOk(ioq') /\ Control(ioq)' /\ UNCHANGED stopping
        /\ Settled' => Trying /\ conn' = conn
    BY <1>1, <1>2, <1>5, DisconnectKeeps
  <2>2. ActiveInv'  BY <1>4, <2>1 DEF ActiveInv
  <2>3. StopInv'  BY <1>1, <1>3, <2>1 DEF StopInv, main
  <2>4. ListOk(connections', active') /\ attempt' \in Nat
    <3>1. connections # << >> => Len(connections) > 0  BY <1>3 DEF ListOk
    <3>. QED  BY <1>1, <1>3, <1>5, <3>1 DEF ListOk
  <2>. QED  BY <2>1, <2>2, <2>3, <2>4 DEF PoolInv
<1>6. CASE ioq' = Tail(ioq) /\ UNCHANGED <<active, attempt, discVars>>
  <2>1. UNCHANGED pool  BY <1>1, <1>6 DEF pool
  <2>2. Control(ioq)'
    BY <1>1, <1>2, <1>6 DEF Control, RotationInv, ClientInv, FarmInv, ReportInv, NoClient, Trying,
                discVars, flags, clientVars, uriVars, farm
  <2>3. StopInv'  BY <1>1, <1>3, <1>6 DEF StopInv, discVars, flags, main
  <2>4. Settled' => Settled /\ conn' = conn
    BY <1>6 DEF Settled, Trying, discVars, clientVars, uriVars
  <2>. QED  BY <1>2, <1>6, <2>1, <2>2, <2>3, <2>4, SamePool
<1>. QED  BY <1>5, <1>6 DEF FailoverTimerElapsed

\* rotateConnect: it never finds a client that is connected.
LEMMA RotateStep ==
  ASSUME PoolInv, RotateConnect
  PROVE  PoolInv'
<1>1. /\ Dequeue("rotateConnect") /\ ioq' = Tail(ioq)
      /\ UNCHANGED <<settings, stopping, asyncPending, uriVars, failTimer, hrTimer>>
  BY DEF RotateConnect
<1>2. QueueOk(ioq) /\ Control(ioq) /\ StopInv /\ ListOk(connections, active) /\ attempt \in Nat
  BY DEF PoolInv
<1>3. /\ QueueOk(ioq') /\ Contains(ioq, "rotateConnect")
      /\ ~Contains(ioq', "rotateConnect") /\ ~Contains(ioq', "failover")
  BY <1>1, <1>2, QueuePops DEF Dequeue
<1>4. NoClient /\ connections # << >> /\ asyncPending /\ ~hasJob /\ running
  BY <1>2, <1>3 DEF Control, RotationInv
<1>5. conn = NoURI /\ ~failTimer /\ ~isConnected
  BY <1>2, <1>4 DEF Control, ClientInv, NoClient, isConnected
<1>6. ConnectTo(Rotation)  BY <1>5 DEF RotateConnect
<1>7. /\ ListOk(Rotation.list, Rotation.idx) /\ Rotation.attempt \in Nat
      /\ Rotation.list # << >> => Rotation.list[Rotation.idx + 1] \in URIs
  BY <1>2, <1>4, RotationOk
<1>8. connections' = Rotation.list /\ active' = Rotation.idx /\ attempt' = Rotation.attempt
  BY <1>6 DEF ConnectTo
<1>9. RotationInv(ioq)'  BY <1>3 DEF RotationInv
<1>10. CASE /\ Rotation.list # << >> /\ client' = "connecting"
            /\ conn' = Rotation.list[Rotation.idx + 1] /\ UNCHANGED <<farm, running, main>>
  <2>1. ActiveInv'  BY <1>8, <1>10 DEF ActiveInv, activeURI
  <2>2. ClientInv(ioq)'
    BY <1>1, <1>3, <1>4, <1>5, <1>7, <1>8, <1>10 DEF ClientInv, NoClient, Trying, ClientState, farm
  <2>3. FarmInv' /\ ReportInv(ioq)'  BY <1>2, <1>10 DEF Control, FarmInv, ReportInv, farm
  <2>4. StopInv'  BY <1>1, <1>2, <1>10 DEF StopInv, main
  <2>. QED  BY <1>3, <1>7, <1>8, <1>9, <2>1, <2>2, <2>3, <2>4 DEF PoolInv, Control
<1>11. CASE FarmStop /\ Signalled /\ UNCHANGED clientVars
  <2>1. NoClient' /\ ~Settled' /\ client' \in ClientState /\ conn' = NoURI
    BY <1>4, <1>5, <1>11 DEF NoClient, Settled, Trying, clientVars, ClientState
  <2>2. ClientInv(ioq)'
    BY <1>1, <1>5, <1>11, <2>1 DEF ClientInv, Settled, FarmStop
  <2>3. FarmInv' /\ ReportInv(ioq)'
    BY <1>11, <2>1 DEF Settled, FarmInv, ReportInv, FarmStop
  <2>4. StopInv'
    <3>1. mpc' = mpc \/ (mpc = "wait" /\ mpc' = "check")  BY <1>11 DEF Signalled
    <3>. QED  BY <1>1, <1>2, <3>1 DEF StopInv
  <2>5. ActiveInv'  BY <2>1 DEF ActiveInv
  <2>. QED  BY <1>3, <1>7, <1>8, <1>9, <2>2, <2>3, <2>4, <2>5 DEF PoolInv, Control
<1>. QED  BY <1>6, <1>10, <1>11 DEF ConnectTo

\* The API appends a pool.
LEMMA AddStep ==
  ASSUME PoolInv, NEW u \in URIs, AddConnection(u)
  PROVE  PoolInv'
<1>0. QueueOk(ioq) /\ Control(ioq) /\ StopInv /\ ListOk(connections, active) /\ attempt \in Nat
  BY DEF PoolInv
<1>1. /\ u # conn /\ connections' = Append(connections, u) /\ confirmed' = confirmed \ {u}
      /\ UNCHANGED <<settings, active, attempt, flags, clientVars, timers, farm, main>>
  BY DEF AddConnection
<1>2. /\ connections' \in Seq(URIs) /\ Len(connections') = Len(connections) + 1
      /\ \A k \in 1..Len(connections) : connections'[k] = connections[k]
      /\ Len(connections) \in Nat /\ active \in Nat
  BY <1>0, <1>1, AppendProperties DEF ListOk
<1>3. connections' # << >>  BY <1>2
<1>4. ListOk(connections', active')
  <2>1. active < Len(connections) + 1
    <3>1. connections = << >> => Len(connections) = 0  OBVIOUS
    <3>. QED  BY <1>0, <1>2, <3>1 DEF ListOk
  <2>. QED  BY <1>1, <1>2, <1>3, <2>1 DEF ListOk
<1>5. conn \in confirmed' <=> conn \in confirmed  BY <1>1
<1>6. Trying' <=> Trying  BY <1>1, <1>5 DEF Trying, clientVars
<1>7. Control(ioq)'
  BY <1>0, <1>1, <1>3, <1>5, <1>6
  DEF Control, RotationInv, ClientInv, FarmInv, ReportInv, NoClient, flags, clientVars, timers, farm
<1>8. ActiveInv'
  <2>1. ASSUME Settled' PROVE conn' = activeURI'
    <3>1. Settled  BY <1>1, <1>6, <2>1 DEF Settled, clientVars
    <3>2. ~NoClient  BY <3>1 DEF Settled, Trying, NoClient
    <3>3. connections # << >>  BY <1>0, <3>2 DEF Control, ClientInv
    <3>4. active + 1 \in 1..Len(connections)  BY <1>0, <1>2, <3>3 DEF ListOk
    <3>5. activeURI' = activeURI  BY <1>1, <1>2, <3>4 DEF activeURI
    <3>. QED  BY <1>1, <3>1, <3>5 DEF PoolInv, ActiveInv, clientVars
  <2>. QED  BY <2>1 DEF ActiveInv
<1>9. StopInv' /\ QueueOk(ioq') /\ attempt' \in Nat
  BY <1>0, <1>1 DEF StopInv, flags, main, timers
<1>. QED  BY <1>4, <1>7, <1>8, <1>9 DEF PoolInv

\* API remove: the active index follows the pool of the session when an entry
\* before it is erased.
LEMMA RemoveStep ==
  ASSUME PoolInv, NEW i \in Nat, RemoveConnection(i)
  PROVE  PoolInv'
<1>. DEFINE n == Len(connections)
<1>0. QueueOk(ioq) /\ Control(ioq) /\ StopInv /\ ListOk(connections, active) /\ attempt \in Nat
  BY DEF PoolInv
<1>1. /\ ~asyncPending /\ i < n /\ i # active
      /\ connections' = RemoveAt(connections, i + 1)
      /\ active' = IF active > i THEN active - 1 ELSE active
      /\ UNCHANGED <<settings, attempt, flags, clientVars, uriVars, timers, farm, main>>
  BY DEF RemoveConnection
<1>2. n \in Nat /\ connections \in Seq(URIs) /\ active \in Nat  BY <1>0 DEF ListOk
<1>3. i + 1 \in 1..n  BY <1>1, <1>2
<1>4. /\ connections' \in Seq(URIs) /\ Len(connections') = n - 1
      /\ \A k \in 1..(n - 1) : connections'[k] = IF k < i + 1 THEN connections[k] ELSE connections[k + 1]
  BY <1>1, <1>2, <1>3, Erased
<1>5. active < n
  <2>1. connections # << >>  BY <1>2, <1>3
  <2>. QED  BY <1>0, <2>1 DEF ListOk
<1>6. n - 1 > 0 /\ active' \in Nat /\ active' < n - 1
  BY <1>1, <1>2, <1>5
<1>7. connections' # << >>  BY <1>4, <1>6
<1>8. ListOk(connections', active')  BY <1>4, <1>6, <1>7 DEF ListOk
<1>9. activeURI' = activeURI
  <2>1. active' + 1 \in 1..(n - 1)
    <3>1. \A m, k \in Nat : k < m - 1 => k + 1 \in 1..(m - 1)  OBVIOUS
    <3>. HIDE DEF n
    <3>. QED  BY <1>2, <1>6, <3>1
  <2>2. CASE active > i
    <3>1. active' + 1 = active /\ ~(active' + 1 < i + 1)  BY <1>1, <1>2, <2>2
    <3>2. connections'[active' + 1] = connections[(active' + 1) + 1]  BY <1>4, <2>1, <3>1
    <3>. QED  BY <3>1, <3>2 DEF activeURI
  <2>3. CASE ~(active > i)
    <3>1. active' = active /\ active' + 1 < i + 1  BY <1>1, <1>2, <2>3
    <3>2. connections'[active' + 1] = connections[active' + 1]  BY <1>4, <2>1, <3>1
    <3>. QED  BY <3>1, <3>2 DEF activeURI
  <2>. QED  BY <2>2, <2>3
<1>10. Control(ioq)'
  BY <1>0, <1>1, <1>7
  DEF Control, RotationInv, ClientInv, FarmInv, ReportInv, NoClient, Trying, flags, clientVars,
      uriVars, timers, farm
<1>11. ActiveInv'  BY <1>1, <1>9 DEF PoolInv, ActiveInv, Settled, Trying, clientVars, uriVars
<1>12. StopInv' /\ QueueOk(ioq') /\ attempt' \in Nat
  BY <1>0, <1>1 DEF StopInv, flags, main, timers
<1>. QED  BY <1>8, <1>10, <1>11, <1>12 DEF PoolInv

\* The switch by the API: it is refused while a connection is being made.
LEMMA SetActiveStep ==
  ASSUME PoolInv, NEW i \in Nat, SetActiveConnection(i)
  PROVE  PoolInv'
<1>0. QueueOk(ioq) /\ Control(ioq) /\ StopInv /\ ListOk(connections, active)
  BY DEF PoolInv
<1>1. /\ ~asyncPending /\ i < Len(connections) /\ active' = i /\ attempt' = 0
      /\ UNCHANGED <<settings, connections, main>>
  BY DEF SetActiveConnection
<1>2. ~Trying  BY <1>0, <1>1 DEF Control, ClientInv
<1>3. ListOk(connections', active') /\ attempt' \in Nat
  <2>1. connections \in Seq(URIs) /\ (connections = << >> => Len(connections) = 0)
    BY <1>0 DEF ListOk
  <2>. QED  BY <1>1, <2>1 DEF ListOk
<1>4. SUFFICES QueueOk(ioq') /\ Control(ioq)' /\ UNCHANGED stopping /\ ~Settled'
  <2>1. StopInv'  BY <1>0, <1>1, <1>4 DEF StopInv, main
  <2>. QED  BY <1>3, <1>4, <2>1 DEF PoolInv, ActiveInv
<1>5. CASE /\ client = "closing" /\ asyncPending' = TRUE
           /\ UNCHANGED <<running, stopping, clientVars, uriVars, timers, farm>>
  <2>1. ~NoClient /\ ~Contains(ioq, "rotateConnect")
    BY <1>0, <1>5 DEF NoClient, Control, RotationInv
  <2>2. Control(ioq)'
    BY <1>0, <1>1, <1>5, <2>1
    DEF Control, RotationInv, ClientInv, FarmInv, ReportInv, NoClient, Trying, clientVars,
        uriVars, timers, farm
  <2>3. ~Settled'  BY <1>2, <1>5 DEF Settled, Trying, clientVars, uriVars
  <2>. QED  BY <1>0, <1>5, <2>2, <2>3 DEF timers
<1>6. CASE /\ isConnected /\ asyncPending' = TRUE /\ client' = "closing"
           /\ UNCHANGED <<running, stopping, conn, responds, uriVars, timers, farm>>
  <2>1. client = "session" /\ ~NoClient /\ ~Contains(ioq, "rotateConnect") /\ conn \in confirmed
    BY <1>0, <1>2, <1>6 DEF isConnected, Trying, NoClient, Control, RotationInv, ClientInv
  <2>2. Control(ioq)'
    BY <1>0, <1>1, <1>6, <2>1
    DEF Control, RotationInv, ClientInv, FarmInv, ReportInv, NoClient, Trying, ClientState,
        uriVars, timers, farm
  <2>3. ~Settled'  BY <1>6, <2>1 DEF Settled, Trying, uriVars
  <2>. QED  BY <1>0, <1>6, <2>2, <2>3 DEF timers
<1>7. CASE DisconnectFinalize(unrecoverable, ioq)
  <2>1. /\ QueueOk(ioq') /\ Control(ioq)' /\ UNCHANGED stopping
        /\ Settled' => Trying /\ conn' = conn
    BY <1>0, <1>1, <1>7, FinalizeKeeps
  <2>. QED  BY <1>2, <2>1
<1>. QED  BY <1>5, <1>6, <1>7 DEF SetActiveConnection

\* Restarts of the miners, signals, and the main thread.
LEMMA OtherSteps ==
  ASSUME PoolInv,
         RestartAsync \/ OnMinerRestart \/ Signal \/ MainStep \/ Ended \/ UNCHANGED vars
  PROVE  PoolInv'
<1>0. QueueOk(ioq) /\ Control(ioq) /\ StopInv  BY DEF PoolInv
<1>1. CASE UNCHANGED <<settings, pool, flags, clientVars, uriVars, timers, farm>> /\ StopInv'
  <2>1. Control(ioq)'
    BY <1>0, <1>1
    DEF Control, RotationInv, ClientInv, FarmInv, ReportInv, NoClient, Trying, pool, flags, clientVars,
        uriVars, timers, farm
  <2>2. Settled' => Settled /\ conn' = conn  BY <1>1 DEF Settled, Trying, clientVars, uriVars
  <2>3. QueueOk(ioq')  BY <1>0, <1>1 DEF timers
  <2>. QED  BY <1>1, <2>1, <2>2, <2>3, SamePool
<1>2. CASE RestartAsync \/ Ended \/ UNCHANGED vars
  <2>1. UNCHANGED <<settings, pool, flags, clientVars, uriVars, timers, farm, main>>
    BY <1>2 DEF RestartAsync, Ended, vars
  <2>2. StopInv'  BY <1>0, <2>1 DEF StopInv, flags, main
  <2>. QED  BY <1>1, <2>1, <2>2
<1>3. CASE Signal
  <2>1. /\ UNCHANGED <<settings, pool, flags, clientVars, uriVars, timers, farm>>
        /\ mpc' = mpc \/ (mpc = "wait" /\ mpc' = "check")
    BY <1>3 DEF Signal, Signalled
  <2>2. StopInv'  BY <1>0, <2>1 DEF StopInv, flags
  <2>. QED  BY <1>1, <2>1, <2>2
<1>4. CASE OnMinerRestart
  <2>1. /\ FarmStart
        /\ UNCHANGED <<settings, pool, flags, clientVars, uriVars, timers, main>>
    BY <1>4 DEF OnMinerRestart
  <2>2. Control(ioq)'
    BY <1>0, <2>1
    DEF Control, RotationInv, ClientInv, FarmInv, ReportInv, NoClient, Trying, pool, flags, clientVars,
        uriVars, timers, FarmStart
  <2>3. Settled' => Settled /\ conn' = conn  BY <2>1 DEF Settled, Trying, clientVars, uriVars
  <2>4. QueueOk(ioq') /\ StopInv'  BY <1>0, <2>1 DEF timers, StopInv, flags, main
  <2>. QED  BY <2>1, <2>2, <2>3, <2>4, SamePool
<1>5. CASE MainCheck \/ MainEnter \/ MainTerminates
  <2>1. /\ UNCHANGED <<settings, pool, flags, clientVars, uriVars, timers, farm>>
        /\ mpc \in {"check", "enter", "stopped"}
        /\ mpc \in {"check", "enter"} \/ mpc' = "terminated"
    BY <1>5 DEF MainCheck, MainEnter, MainTerminates, MainGoes
  <2>2. StopInv'  BY <1>0, <2>1 DEF StopInv, flags
  <2>. QED  BY <1>1, <2>1, <2>2
<1>6. CASE MainIsRunning
  <2>1. /\ UNCHANGED <<settings, pool, running, clientVars, uriVars, timers, farm>>
        /\ mpc = "isRunning" /\ mpc' = (IF running THEN "stop" ELSE "stopped")
        /\ asyncPending' = (asyncPending \/ running) /\ stopping' = running
    BY <1>6 DEF MainIsRunning, MainGoes
  <2>2. ~stopping  BY <1>0, <2>1 DEF StopInv
  <2>3. asyncPending => asyncPending'  BY <2>1
  <2>5. Control(ioq)'
    BY <1>0, <2>1, <2>2, <2>3
    DEF Control, RotationInv, ClientInv, FarmInv, ReportInv, NoClient, Trying, pool, clientVars,
        uriVars, timers, farm
  <2>6. Settled' => Settled /\ conn' = conn  BY <2>1 DEF Settled, Trying, clientVars, uriVars
  <2>7. QueueOk(ioq') /\ StopInv'  BY <1>0, <2>1 DEF timers, StopInv
  <2>. QED  BY <2>1, <2>5, <2>6, <2>7, SamePool
<1>7. CASE MainDisconnects
  <2>1. /\ Disconnect(unrecoverable, ioq) /\ mpc' = "spin" /\ UNCHANGED <<settings, pool>>
    BY <1>7 DEF MainDisconnects
  <2>2. UNCHANGED <<connections, settings>>  BY <2>1 DEF pool
  <2>3. /\ QueueOk(ioq') /\ Control(ioq)' /\ UNCHANGED stopping
        /\ Settled' => Trying /\ conn' = conn
    BY <1>0, <2>1, <2>2, DisconnectKeeps
  <2>4. StopInv'  BY <2>1 DEF StopInv
  <2>. QED  BY <2>1, <2>3, <2>4, SamePool DEF Settled
<1>8. CASE MainStopsFarm
  <2>1. /\ ~isConnected /\ mpc' = "stopped" /\ failTimer' = FALSE /\ FarmStop
        /\ UNCHANGED <<settings, pool, flags, clientVars, uriVars, ioq>>
    BY <1>8 DEF MainStopsFarm, MainGoes
  <2>2. Control(ioq)'
    BY <1>0, <2>1
    DEF Control, RotationInv, ClientInv, FarmInv, ReportInv, NoClient, Trying, isConnected, pool, flags,
        clientVars, uriVars, FarmStop
  <2>3. Settled' => Settled /\ conn' = conn  BY <2>1 DEF Settled, Trying, clientVars, uriVars
  <2>4. QueueOk(ioq') /\ StopInv'  BY <1>0, <2>1 DEF StopInv
  <2>. QED  BY <2>1, <2>2, <2>3, <2>4, SamePool
<1>9. CASE MainSpinEnds
  <2>1. /\ ~running /\ mpc = "spin" /\ mpc' = "stopped" /\ client' = "none" /\ conn' = NoURI
        /\ UNCHANGED <<settings, pool, flags, uriVars, timers, farm>>
    BY <1>9 DEF MainSpinEnds, MainGoes
  <2>2. NoClient /\ ~failTimer /\ ~Contains(ioq, "rotateConnect")
    BY <1>0, <2>1 DEF Control, ClientInv, RotationInv
  <2>3. Control(ioq)'
    BY <1>0, <2>1, <2>2
    DEF Control, RotationInv, ClientInv, FarmInv, ReportInv, NoClient, Trying, ClientState,
        flags, timers, farm
  <2>4. ~Settled'  BY <2>1 DEF Settled, Trying
  <2>5. QueueOk(ioq') /\ StopInv'  BY <1>0, <2>1 DEF StopInv, timers
  <2>. QED  BY <2>1, <2>3, <2>4, <2>5, SamePool
<1>. QED
  BY <1>2, <1>3, <1>4, <1>5, <1>6, <1>7, <1>8, <1>9 DEF MainStep

\* The invariant holds.
LEMMA PoolInvariant == Spec => []PoolInv
<1>1. Init => PoolInv
  <2>. SUFFICES ASSUME Init PROVE PoolInv  OBVIOUS
  <2>1. Configured \in Seq(URIs) /\ Configured # << >>  BY PoolAssumption
  <2>2. ListOk(connections, active) /\ attempt \in Nat
    <3>1. Len(Configured) > 0  BY <2>1
    <3>. QED  BY <2>1, <3>1 DEF Init, ListOk
  <2>3. /\ ioq = <<"rotateConnect">> /\ Len(ioq) = 1 /\ ioq[1] = "rotateConnect"
        /\ ioq \in Seq(Handlers)
    BY DEF Init, Handlers
  <2>4. QueueOk(ioq) /\ ~Contains(ioq, "failover")
    BY <2>3 DEF QueueOk, OneRotation, FailoverFirst, Contains
  <2>5. Control(ioq)
    BY <2>1, <2>4
    DEF Init, Control, RotationInv, ClientInv, FarmInv, ReportInv, NoClient, Trying, ClientState
  <2>6. ActiveInv /\ StopInv  BY DEF Init, ActiveInv, Settled, Trying, StopInv
  <2>. QED  BY <2>2, <2>4, <2>5, <2>6 DEF PoolInv
<1>2. PoolInv /\ [Next]_vars => PoolInv'
  <2>. SUFFICES ASSUME PoolInv, [Next]_vars PROVE PoolInv'  OBVIOUS
  <2>1. CASE ApiStep
    <3>1. CASE \E u \in URIs : AddConnection(u)  BY <3>1, AddStep
    <3>2. ASSUME NEW i \in 0..Len(connections), RemoveConnection(i) \/ SetActiveConnection(i)
          PROVE  PoolInv'
      <4>1. i \in Nat  OBVIOUS
      <4>. QED  BY <3>2, <4>1, RemoveStep, SetActiveStep
    <3>3. CASE RestartAsync  BY <3>3, OtherSteps
    <3>. QED  BY <2>1, <3>1, <3>2, <3>3 DEF ApiStep
  <2>2. CASE HandlerStep  BY <2>2, TimerSteps, FailoverStep, RotateStep DEF HandlerStep
  <2>. QED  BY <2>1, <2>2, ClientSteps, TimerSteps, OtherSteps DEF Next
<1>. QED  BY <1>1, <1>2, PTL DEF Spec

(***************************************************************************)
(* The theorems                                                            *)
(***************************************************************************)

\* The session is with the connection the index says, the index stays inside
\* the list, and rotateConnect, which indexes the list unchecked, never finds
\* it empty: for any list and any calls of the API.
THEOREM PoolSessionIsActive == Spec => []SessionIsActive
<1>1. PoolInv => SessionIsActive
  <2>. SUFFICES ASSUME PoolInv PROVE SessionIsActive  OBVIOUS
  <2>1. client = "session" => conn = activeURI  BY DEF PoolInv, ActiveInv, Settled
  <2>2. connections # << >> => active < Len(connections)  BY DEF PoolInv, ListOk
  <2>3. ASSUME ioq # << >>, Head(ioq) = "rotateConnect" PROVE connections # << >>
    <3>1. Contains(ioq, "rotateConnect")  BY <2>3, QueuePops DEF PoolInv
    <3>. QED  BY <3>1 DEF PoolInv, Control, RotationInv
  <2>. QED  BY <2>1, <2>2, <2>3 DEF SessionIsActive
<1>. QED  BY <1>1, PoolInvariant, PTL

\* Every session finds miners that are running and not suspended (the
\* onConnected handler starts or resumes them), until stop() is called.
THEOREM PoolSessionMines == Spec => []SessionMines
<1>1. PoolInv => SessionMines  BY DEF PoolInv, Control, FarmInv, SessionMines
<1>. QED  BY <1>1, PoolInvariant, PTL

\* Between two sessions no miner has a job, neither after autodetection's
\* retries nor when the API restarts the miners meanwhile.
THEOREM PoolNoStaleMining == Spec => []NoStaleMining
<1>1. PoolInv => NoStaleMining
  BY DEF PoolInv, Control, ClientInv, Trying, NoStaleMining
<1>. QED  BY <1>1, PoolInvariant, PTL

\* Reporting of the hash rate never stops during a session: m_running is set
\* whenever the handler of its timer runs.
THEOREM PoolHashrateReported == Spec => []HashrateReported
<1>1. PoolInv => HashrateReported  BY DEF PoolInv, Control, ReportInv, HashrateReported
<1>. QED  BY <1>1, PoolInvariant, PTL
=============================================================================
