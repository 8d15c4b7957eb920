---------------------------- MODULE StratumProofs ----------------------------
(***************************************************************************)
(* TLAPS proofs about StratumConnection, for any number of addresses, of   *)
(* shares, of lines that wait to be sent and of queued handlers.           *)
(*                                                                         *)
(* What is queued for the io_service thread decides everything: which      *)
(* handlers are queued (Names), that most of them are queued at most once, *)
(* and, for three of them, what may only be in front of them.              *)
(***************************************************************************)
EXTENDS StratumConnection, FiniteSetTheorems, SequenceTheorems, TLAPS

(***************************************************************************)
(* Queues                                                                  *)
(***************************************************************************)
Names(q) == {q[k].h : k \in 1..Len(q)}
Lines(q) == {q[k].id : k \in {l \in 1..Len(q) : q[l].h = "onRecv"}}

\* Handlers that are never queued twice.
Singles == {"resolve_handler", "connect_handler", "onSend", "onRecv", "disconnect_finalize",
            "onSSLShutdown", "workloop_timer", "rotateConnect"}
Once(q) == \A k, l \in 1..Len(q) : q[k].h = q[l].h /\ q[k].h \in Singles => k = l

\* The only answer that is simulated is a refused login.
Simulated(q) == \A k \in 1..Len(q) : q[k].h = "processResponse" => q[k].id = "login" /\ ~q[k].ok

Queue(q) == q \in Seq(Handler) /\ Once(q) /\ Simulated(q)

\* Handlers of F are only queued in front of g.
Ahead(q, F, g) == \A k, l \in 1..Len(q) : q[k].h = g /\ q[l].h \in F => l < k
Arrivals == {"start_connect", "onRecv", "onSend"}
Unfinished == {"resolve_handler", "connect_handler", "onSend", "onRecv", "processResponse",
               "start_connect", "disconnect_finalize", "rotateConnect"}
ShutdownLast(q) == Ahead(q, Unfinished, "onSSLShutdown")
FinalizeLast(q) == Ahead(q, {"disconnect"}, "disconnect_finalize")
ConnectLast(q) == Ahead(q, Arrivals, "connect_handler")

\* A disconnection is queued before the timer's next turn.
ClosedFirst(q) ==
  \E k \in 1..Len(q) :
    q[k].h = "disconnect" /\ \A l \in 1..Len(q) : q[l].h = "workloop_timer" => k < l

\* The first handler is taken from the queue.
LEMMA AheadPops ==
  ASSUME NEW q \in Seq(Handler), q # <<>>, NEW F, NEW g, g \notin F, Ahead(q, F, g)
  PROVE  /\ Ahead(Tail(q), F, g)
         /\ Head(q).h = g => Names(Tail(q)) \cap F = {}
<1>1. Len(q) \in Nat \ {0} /\ Len(Tail(q)) = Len(q) - 1 /\ Head(q) = q[1]
  BY HeadTailProperties, EmptySeq
<1>2. \A k \in 1..Len(Tail(q)) : Tail(q)[k] = q[k + 1] /\ k + 1 \in 1..Len(q)
  BY <1>1
<1>3. Ahead(Tail(q), F, g)
  BY <1>1, <1>2 DEF Ahead
<1>4. Head(q).h = g => Names(Tail(q)) \cap F = {}
  <2>. SUFFICES ASSUME Head(q).h = g, NEW k \in 1..Len(Tail(q)), Tail(q)[k].h \in F PROVE FALSE
    BY DEF Names
  <2>1. 1 \in 1..Len(q) /\ q[1].h = g /\ k + 1 \in 1..Len(q) /\ q[k + 1].h \in F
    BY <1>1, <1>2
  <2>2. k + 1 < 1
    BY <2>1 DEF Ahead
  <2>. QED  BY <2>2
<1>. QED  BY <1>3, <1>4

\* What is queued without the first handler.
LEMMA Pops ==
  ASSUME NEW q, Queue(q), q # <<>>
  PROVE  /\ Queue(Tail(q)) /\ Head(q) \in Handler
         /\ Names(q) = Names(Tail(q)) \cup {Head(q).h}
         /\ Head(q).h \in Singles => Head(q).h \notin Names(Tail(q))
         /\ Head(q).h = "onRecv" => Head(q).id \in Lines(q) /\ Lines(Tail(q)) = {}
         /\ Head(q).h # "onRecv" => Lines(Tail(q)) = Lines(q)
         /\ Head(q).h = "processResponse" => Head(q).id = "login" /\ ~Head(q).ok
<1>1. /\ q \in Seq(Handler) /\ Len(q) \in Nat \ {0} /\ Len(Tail(q)) = Len(q) - 1
      /\ Head(q) = q[1] /\ Tail(q) \in Seq(Handler) /\ q[1] \in Handler
  BY HeadTailProperties, EmptySeq DEF Queue
<1>2. \A k \in 1..Len(Tail(q)) : Tail(q)[k] = q[k + 1] /\ k + 1 \in 1..Len(q)
  BY <1>1
<1>3. \A k \in 1..Len(q) : k = 1 \/ (k - 1 \in 1..Len(Tail(q)) /\ Tail(q)[k - 1] = q[k])
  <2>. SUFFICES ASSUME NEW k \in 1..Len(q), k # 1
                PROVE  k - 1 \in 1..Len(Tail(q)) /\ Tail(q)[k - 1] = q[k]
    OBVIOUS
  <2>1. k - 1 \in 1..Len(Tail(q)) /\ (k - 1) + 1 = k
    BY <1>1
  <2>. QED  BY <1>2, <2>1
<1>4. Once(Tail(q))
  <2>. SUFFICES ASSUME NEW k \in 1..Len(Tail(q)), NEW l \in 1..Len(Tail(q)),
                       Tail(q)[k].h = Tail(q)[l].h, Tail(q)[k].h \in Singles
                PROVE  k = l
    BY DEF Once
  <2>1. k + 1 = l + 1
    BY <1>2 DEF Queue, Once
  <2>. QED  BY <2>1
<1>5. Simulated(Tail(q))
  BY <1>2 DEF Queue, Simulated
<1>6. Names(q) = Names(Tail(q)) \cup {Head(q).h}
  <2>1. ASSUME NEW k \in 1..Len(q) PROVE q[k].h \in Names(Tail(q)) \cup {Head(q).h}
    BY <1>1, <1>3 DEF Names
  <2>2. ASSUME NEW k \in 1..Len(Tail(q)) PROVE Tail(q)[k].h \in Names(q)
    BY <1>2 DEF Names
  <2>3. Head(q).h \in Names(q)
    BY <1>1 DEF Names
  <2>. QED  BY <2>1, <2>2, <2>3 DEF Names
<1>7. ASSUME Head(q).h \in Singles, NEW k \in 1..Len(Tail(q)), Tail(q)[k].h = Head(q).h
      PROVE  FALSE
  <2>1. 1 \in 1..Len(q) /\ k + 1 \in 1..Len(q) /\ q[k + 1].h = q[1].h /\ q[1].h \in Singles
    BY <1>1, <1>2, <1>7
  <2>2. k + 1 = 1
    BY <2>1 DEF Queue, Once
  <2>. QED  BY <2>2
<1>8. Head(q).h \in Singles => Head(q).h \notin Names(Tail(q))
  BY <1>7 DEF Names
<1>9. Head(q).h = "onRecv" => Head(q).id \in Lines(q) /\ Lines(Tail(q)) = {}
  <2>. SUFFICES ASSUME Head(q).h = "onRecv" PROVE Head(q).id \in Lines(q) /\ Lines(Tail(q)) = {}
    OBVIOUS
  <2>1. Head(q).id \in Lines(q)
    BY <1>1 DEF Lines
  <2>2. \A k \in 1..Len(Tail(q)) : Tail(q)[k].h # "onRecv"
    BY <1>7 DEF Singles
  <2>. QED  BY <2>1, <2>2 DEF Lines
<1>10. Head(q).h # "onRecv" => Lines(Tail(q)) = Lines(q)
  <2>. SUFFICES ASSUME Head(q).h # "onRecv" PROVE Lines(Tail(q)) = Lines(q)
    OBVIOUS
  <2>1. ASSUME NEW k \in 1..Len(q), q[k].h = "onRecv" PROVE q[k].id \in Lines(Tail(q))
    BY <1>1, <1>3, <2>1 DEF Lines
  <2>2. ASSUME NEW k \in 1..Len(Tail(q)), Tail(q)[k].h = "onRecv" PROVE Tail(q)[k].id \in Lines(q)
    BY <1>2, <2>2 DEF Lines
  <2>. QED  BY <2>1, <2>2 DEF Lines
<1>11. Head(q).h = "processResponse" => Head(q).id = "login" /\ ~Head(q).ok
  BY <1>1 DEF Queue, Simulated
<1>. QED  BY <1>1, <1>4, <1>5, <1>6, <1>8, <1>9, <1>10, <1>11 DEF Queue

\* A disconnection that is queued before the timer's next turn stays so.
LEMMA ClosedPops ==
  ASSUME NEW q \in Seq(Handler), q # <<>>, ClosedFirst(q)
  PROVE  /\ Head(q).h # "workloop_timer"
         /\ Head(q).h # "disconnect" => ClosedFirst(Tail(q))
<1>1. Len(q) \in Nat \ {0} /\ Len(Tail(q)) = Len(q) - 1 /\ Head(q) = q[1]
  BY HeadTailProperties, EmptySeq
<1>2. \A k \in 1..Len(Tail(q)) : Tail(q)[k] = q[k + 1] /\ k + 1 \in 1..Len(q)
  BY <1>1
<1>3. PICK k \in 1..Len(q) :
        q[k].h = "disconnect" /\ \A l \in 1..Len(q) : q[l].h = "workloop_timer" => k < l
  BY DEF ClosedFirst
<1>4. Head(q).h # "workloop_timer"
  BY <1>1, <1>3
<1>5. ASSUME Head(q).h # "disconnect" PROVE ClosedFirst(Tail(q))
  <2>1. k # 1
    BY <1>1, <1>3, <1>5
  <2>2. k - 1 \in 1..Len(Tail(q)) /\ (k - 1) + 1 = k
    BY <1>1, <2>1
  <2>3. Tail(q)[k - 1].h = "disconnect"
    BY <1>2, <1>3, <2>2
  <2>4. ASSUME NEW l \in 1..Len(Tail(q)), Tail(q)[l].h = "workloop_timer" PROVE k - 1 < l
    <3>1. k < l + 1
      BY <1>2, <1>3, <2>4
    <3>. QED  BY <3>1
  <2>. QED  BY <2>2, <2>3, <2>4 DEF ClosedFirst
<1>. QED  BY <1>4, <1>5

\* Handlers r are queued behind q.
LEMMA Joins ==
  ASSUME NEW q, Queue(q), NEW r, Queue(r), Names(q) \cap Names(r) \cap Singles = {}
  PROVE  /\ Queue(q \o r)
         /\ Names(q \o r) = Names(q) \cup Names(r)
         /\ Lines(q \o r) = Lines(q) \cup Lines(r)
         /\ ClosedFirst(q) => ClosedFirst(q \o r)
         /\ "workloop_timer" \notin Names(q) /\ ClosedFirst(r) => ClosedFirst(q \o r)
<1>. DEFINE t == q \o r
            n == Len(q)
            m == Len(r)
<1>1. /\ q \in Seq(Handler) /\ r \in Seq(Handler) /\ n \in Nat /\ m \in Nat
      /\ t \in Seq(Handler) /\ Len(t) = n + m
      /\ \A i \in 1..(n + m) : t[i] = IF i <= n THEN q[i] ELSE r[i - n]
  BY ConcatProperties DEF Queue
<1>. HIDE DEF t, n, m
<1>2. ASSUME NEW i \in 1..Len(t)
      PROVE  \/ i \in 1..n /\ t[i] = q[i]
             \/ i - n \in 1..m /\ t[i] = r[i - n] /\ i > n
  BY <1>1
<1>3. \A i \in 1..n : i \in 1..Len(t) /\ t[i] = q[i]
  BY <1>1
<1>4. \A i \in 1..m : i + n \in 1..Len(t) /\ t[i + n] = r[i]
  <2>. SUFFICES ASSUME NEW i \in 1..m PROVE i + n \in 1..Len(t) /\ t[i + n] = r[i]
    OBVIOUS
  <2>1. i + n \in 1..(n + m) /\ ~(i + n <= n) /\ (i + n) - n = i
    BY <1>1
  <2>. QED  BY <1>1, <2>1
<1>5. ASSUME NEW k \in 1..n, NEW l \in 1..m, q[k].h = r[l].h, q[k].h \in Singles PROVE FALSE
  BY <1>5 DEF Names, n, m
<1>6. Once(t)
  <2>. SUFFICES ASSUME NEW k \in 1..Len(t), NEW l \in 1..Len(t), t[k].h = t[l].h, t[k].h \in Singles
                PROVE  k = l
    BY DEF Once
  <2>1. CASE k \in 1..n /\ t[k] = q[k] /\ l \in 1..n /\ t[l] = q[l]
    BY <2>1 DEF Queue, Once, n
  <2>2. CASE k - n \in 1..m /\ t[k] = r[k - n] /\ l - n \in 1..m /\ t[l] = r[l - n]
    <3>1. k - n = l - n
      BY <2>2 DEF Queue, Once, m
    <3>. QED  BY <1>1, <3>1
  <2>. QED  BY <1>2, <1>5, <2>1, <2>2
<1>7. Simulated(t)
  <2>. SUFFICES ASSUME NEW k \in 1..Len(t), t[k].h = "processResponse"
                PROVE  t[k].id = "login" /\ ~t[k].ok
    BY DEF Simulated
  <2>1. CASE k \in 1..n /\ t[k] = q[k]
    BY <2>1 DEF Queue, Simulated, n
  <2>2. CASE k - n \in 1..m /\ t[k] = r[k - n]
    BY <2>2 DEF Queue, Simulated, m
  <2>. QED  BY <1>2, <2>1, <2>2
<1>8. Names(t) = Names(q) \cup Names(r)
  <2>1. ASSUME NEW k \in 1..Len(t) PROVE t[k].h \in Names(q) \cup Names(r)
    BY <1>2 DEF Names, n, m
  <2>2. ASSUME NEW k \in 1..n PROVE q[k].h \in Names(t)
    BY <1>3 DEF Names
  <2>3. ASSUME NEW k \in 1..m PROVE r[k].h \in Names(t)
    BY <1>4 DEF Names
  <2>. QED  BY <2>1, <2>2, <2>3 DEF Names, n, m
<1>9. Lines(t) = Lines(q) \cup Lines(r)
  <2>1. ASSUME NEW k \in 1..Len(t), t[k].h = "onRecv" PROVE t[k].id \in Lines(q) \cup Lines(r)
    BY <1>2, <2>1 DEF Lines, n, m
  <2>2. ASSUME NEW k \in 1..n, q[k].h = "onRecv" PROVE q[k].id \in Lines(t)
    BY <1>3, <2>2 DEF Lines
  <2>3. ASSUME NEW k \in 1..m, r[k].h = "onRecv" PROVE r[k].id \in Lines(t)
    BY <1>4, <2>3 DEF Lines
  <2>. QED  BY <2>1, <2>2, <2>3 DEF Lines, n, m
<1>10. ASSUME ClosedFirst(q) PROVE ClosedFirst(t)
  <2>1. PICK k \in 1..n :
          q[k].h = "disconnect" /\ \A l \in 1..n : q[l].h = "workloop_timer" => k < l
    BY <1>10 DEF ClosedFirst, n
  <2>2. ASSUME NEW l \in 1..Len(t), t[l].h = "workloop_timer" PROVE k < l
    BY <1>1, <1>2, <2>1, <2>2
  <2>. QED  BY <1>3, <2>1, <2>2 DEF ClosedFirst
<1>11. ASSUME "workloop_timer" \notin Names(q), ClosedFirst(r) PROVE ClosedFirst(t)
  <2>1. PICK k \in 1..m :
          r[k].h = "disconnect" /\ \A l \in 1..m : r[l].h = "workloop_timer" => k < l
    BY <1>11 DEF ClosedFirst, m
  <2>2. \A l \in 1..n : q[l].h # "workloop_timer"
    BY <1>11 DEF Names, n
  <2>3. ASSUME NEW l \in 1..Len(t), t[l].h = "workloop_timer" PROVE k + n < l
    <3>1. l - n \in 1..m /\ t[l] = r[l - n]
      BY <1>2, <2>2, <2>3
    <3>2. k < l - n
      BY <2>1, <2>3, <3>1
    <3>. QED  BY <1>1, <3>1, <3>2
  <2>. QED  BY <1>4, <2>1, <2>3 DEF ClosedFirst
<1>. QED  BY <1>1, <1>6, <1>7, <1>8, <1>9, <1>10, <1>11 DEF Queue, t

\* What is in front stays in front, unless something of F comes behind g.
LEMMA AheadJoins ==
  ASSUME NEW q \in Seq(Handler), NEW r \in Seq(Handler), NEW F, NEW g,
         Ahead(q, F, g), Ahead(r, F, g), g \notin Names(q) \/ Names(r) \cap F = {}
  PROVE  Ahead(q \o r, F, g)
<1>. DEFINE t == q \o r
            n == Len(q)
            m == Len(r)
<1>1. /\ n \in Nat /\ m \in Nat /\ Len(t) = n + m
      /\ \A i \in 1..(n + m) : t[i] = IF i <= n THEN q[i] ELSE r[i - n]
  BY ConcatProperties
<1>. HIDE DEF t, n, m
<1>2. ASSUME NEW i \in 1..Len(t)
      PROVE  \/ i \in 1..n /\ t[i] = q[i]
             \/ i - n \in 1..m /\ t[i] = r[i - n] /\ i > n
  BY <1>1
<1>. SUFFICES ASSUME NEW k \in 1..Len(t), NEW l \in 1..Len(t), t[k].h = g, t[l].h \in F
              PROVE  l < k
  BY DEF Ahead, t
<1>3. CASE k \in 1..n /\ t[k] = q[k] /\ l \in 1..n /\ t[l] = q[l]
  BY <1>3 DEF Ahead, n
<1>4. CASE k - n \in 1..m /\ t[k] = r[k - n] /\ l - n \in 1..m /\ t[l] = r[l - n]
  <2>1. l - n < k - n
    BY <1>4 DEF Ahead, m
  <2>. QED  BY <1>1, <2>1
<1>5. CASE k \in 1..n /\ t[k] = q[k] /\ l - n \in 1..m /\ t[l] = r[l - n]
  BY <1>5 DEF Names, n, m
<1>6. CASE k - n \in 1..m /\ k > n /\ l \in 1..n
  BY <1>1, <1>6
<1>. QED  BY <1>2, <1>3, <1>4, <1>5, <1>6

\* One handler, and none.
LEMMA Units ==
  /\ \A m \in Handler :
       (m.h = "processResponse" => m.id = "login" /\ ~m.ok) =>
         /\ Queue(<<m>>) /\ Names(<<m>>) = {m.h}
         /\ Lines(<<m>>) = IF m.h = "onRecv" THEN {m.id} ELSE {}
         /\ \A F, g : g \notin F => Ahead(<<m>>, F, g)
         /\ m.h = "disconnect" => ClosedFirst(<<m>>)
  /\ Queue(<<>>) /\ Names(<<>>) = {} /\ Lines(<<>>) = {} /\ \A F, g : Ahead(<<>>, F, g)
<1>1. ASSUME NEW m \in Handler, m.h = "processResponse" => m.id = "login" /\ ~m.ok
      PROVE  /\ Queue(<<m>>) /\ Names(<<m>>) = {m.h}
             /\ Lines(<<m>>) = IF m.h = "onRecv" THEN {m.id} ELSE {}
             /\ \A F, g : g \notin F => Ahead(<<m>>, F, g)
             /\ m.h = "disconnect" => ClosedFirst(<<m>>)
  <2>. DEFINE q == <<m>>
  <2>1. q \in Seq(Handler) /\ Len(q) = 1 /\ q[1] = m /\ 1..1 = {1}
    OBVIOUS
  <2>. HIDE DEF q
  <2>2. Queue(q)
    BY <1>1, <2>1 DEF Queue, Once, Simulated
  <2>3. Names(q) = {m.h}
    BY <2>1 DEF Names
  <2>4. Lines(q) = IF m.h = "onRecv" THEN {m.id} ELSE {}
    BY <2>1 DEF Lines
  <2>5. \A F, g : g \notin F => Ahead(q, F, g)
    BY <2>1 DEF Ahead
  <2>6. m.h = "disconnect" => ClosedFirst(q)
    BY <2>1 DEF ClosedFirst
  <2>. QED  BY <2>2, <2>3, <2>4, <2>5, <2>6 DEF q
<1>2. Queue(<<>>) /\ Names(<<>>) = {} /\ Lines(<<>>) = {} /\ \A F, g : Ahead(<<>>, F, g)
  BY DEF Queue, Once, Simulated, Names, Lines, Ahead
<1>. QED  BY <1>1, <1>2

\* The same for the orders that the proofs use: the first handler is taken ...
LEMMA OrderPops ==
  ASSUME NEW q, Queue(q), q # <<>>
  PROVE  /\ ShutdownLast(q) => /\ ShutdownLast(Tail(q))
                               /\ Head(q).h = "onSSLShutdown" => Names(Tail(q)) \cap Unfinished = {}
         /\ FinalizeLast(q) => /\ FinalizeLast(Tail(q))
                               /\ Head(q).h = "disconnect_finalize" => "disconnect" \notin Names(Tail(q))
         /\ ConnectLast(q) => /\ ConnectLast(Tail(q))
                              /\ Head(q).h = "connect_handler" => Names(Tail(q)) \cap Arrivals = {}
         /\ ClosedFirst(q) => /\ Head(q).h # "workloop_timer"
                              /\ Head(q).h # "disconnect" => ClosedFirst(Tail(q))
<1>. q \in Seq(Handler)
  BY DEF Queue
<1>1. ASSUME ShutdownLast(q)
      PROVE  /\ ShutdownLast(Tail(q))
             /\ Head(q).h = "onSSLShutdown" => Names(Tail(q)) \cap Unfinished = {}
  <2>1. "onSSLShutdown" \notin Unfinished
    BY DEF Unfinished
  <2>. QED  BY <1>1, <2>1, AheadPops DEF ShutdownLast
<1>2. ASSUME FinalizeLast(q)
      PROVE  /\ FinalizeLast(Tail(q))
             /\ Head(q).h = "disconnect_finalize" => "disconnect" \notin Names(Tail(q))
  <2>1. "disconnect_finalize" \notin {"disconnect"}
    OBVIOUS
  <2>2. /\ Ahead(Tail(q), {"disconnect"}, "disconnect_finalize")
        /\ Head(q).h = "disconnect_finalize" => Names(Tail(q)) \cap {"disconnect"} = {}
    BY <1>2, <2>1, AheadPops DEF FinalizeLast
  <2>. QED  BY <2>2 DEF FinalizeLast
<1>3. ASSUME ConnectLast(q)
      PROVE  /\ ConnectLast(Tail(q))
             /\ Head(q).h = "connect_handler" => Names(Tail(q)) \cap Arrivals = {}
  <2>1. "connect_handler" \notin Arrivals
    BY DEF Arrivals
  <2>. QED  BY <1>3, <2>1, AheadPops DEF ConnectLast
<1>. QED  BY <1>1, <1>2, <1>3, ClosedPops

\* ... and a handler m is queued.
LEMMA Adds ==
  ASSUME NEW q, Queue(q), NEW m \in Handler, m.h \in Singles => m.h \notin Names(q),
         m.h = "processResponse" => m.id = "login" /\ ~m.ok
  PROVE  /\ Queue(Append(q, m)) /\ Append(q, m) = q \o <<m>>
         /\ Names(Append(q, m)) = Names(q) \cup {m.h}
         /\ Lines(Append(q, m)) = IF m.h = "onRecv" THEN Lines(q) \cup {m.id} ELSE Lines(q)
         /\ ShutdownLast(q) /\ (m.h \notin Unfinished \/ "onSSLShutdown" \notin Names(q)) =>
              ShutdownLast(Append(q, m))
         /\ FinalizeLast(q) /\ (m.h # "disconnect" \/ "disconnect_finalize" \notin Names(q)) =>
              FinalizeLast(Append(q, m))
         /\ ConnectLast(q) /\ (m.h \notin Arrivals \/ "connect_handler" \notin Names(q)) =>
              ConnectLast(Append(q, m))
         /\ ClosedFirst(q) => ClosedFirst(Append(q, m))
         /\ m.h = "disconnect" /\ "workloop_timer" \notin Names(q) => ClosedFirst(Append(q, m))
<1>1. q \in Seq(Handler) /\ <<m>> \in Seq(Handler) /\ Append(q, m) = q \o <<m>>
  BY AppendIsConcat DEF Queue
<1>2. /\ Queue(<<m>>) /\ Names(<<m>>) = {m.h}
      /\ Lines(<<m>>) = IF m.h = "onRecv" THEN {m.id} ELSE {}
      /\ \A F, g : g \notin F => Ahead(<<m>>, F, g)
      /\ m.h = "disconnect" => ClosedFirst(<<m>>)
  BY Units
<1>3. Names(q) \cap Names(<<m>>) \cap Singles = {}
  BY <1>2
<1>4. /\ Queue(q \o <<m>>)
      /\ Names(q \o <<m>>) = Names(q) \cup {m.h}
      /\ Lines(q \o <<m>>) = Lines(q) \cup Lines(<<m>>)
      /\ ClosedFirst(q) => ClosedFirst(q \o <<m>>)
      /\ "workloop_timer" \notin Names(q) /\ ClosedFirst(<<m>>) => ClosedFirst(q \o <<m>>)
  BY <1>2, <1>3, Joins
<1>5. ASSUME ShutdownLast(q), m.h \notin Unfinished \/ "onSSLShutdown" \notin Names(q)
      PROVE  ShutdownLast(q \o <<m>>)
  <2>1. Ahead(<<m>>, Unfinished, "onSSLShutdown")
    BY <1>2 DEF Unfinished
  <2>. QED  BY <1>1, <1>2, <1>5, <2>1, AheadJoins DEF ShutdownLast
<1>6. ASSUME FinalizeLast(q), m.h # "disconnect" \/ "disconnect_finalize" \notin Names(q)
      PROVE  FinalizeLast(q \o <<m>>)
  <2>1. Ahead(<<m>>, {"disconnect"}, "disconnect_finalize")
    BY <1>2
  <2>. QED  BY <1>1, <1>2, <1>6, <2>1, AheadJoins DEF FinalizeLast
<1>7. ASSUME ConnectLast(q), m.h \notin Arrivals \/ "connect_handler" \notin Names(q)
      PROVE  ConnectLast(q \o <<m>>)
  <2>1. Ahead(<<m>>, Arrivals, "connect_handler")
    BY <1>2 DEF Arrivals
  <2>. QED  BY <1>1, <1>2, <1>7, <2>1, AheadJoins DEF ConnectLast
<1>. QED  BY <1>1, <1>2, <1>4, <1>5, <1>6, <1>7

\* A handler m is queued if b.
LEMMA Maybe ==
  ASSUME NEW q, Queue(q), NEW m \in Handler, NEW b \in BOOLEAN
  PROVE  q \o (IF b THEN <<m>> ELSE <<>>) = IF b THEN Append(q, m) ELSE q
<1>1. q \in Seq(Handler)
  BY DEF Queue
<1>. QED  BY <1>1, AppendIsConcat, ConcatEmptySeq

\* Nothing is in front of a handler that is not queued.
LEMMA Absent ==
  ASSUME NEW q
  PROVE  /\ "onSSLShutdown" \notin Names(q) => ShutdownLast(q)
         /\ "disconnect_finalize" \notin Names(q) => FinalizeLast(q)
         /\ "connect_handler" \notin Names(q) => ConnectLast(q)
BY DEF ShutdownLast, FinalizeLast, ConnectLast, Ahead, Names

\* The handlers that are queued are handlers.
LEMMA HandlersAre ==
  /\ \A f \in {"start_connect", "disconnect", "disconnect_finalize", "onSSLShutdown",
               "workloop_timer", "rotateConnect"} : Posted(f) \in Handler /\ Posted(f).h = f
  /\ \A f \in {"resolve_handler", "connect_handler", "onSend"}, ok \in BOOLEAN :
       Completed(f, ok) \in Handler /\ Completed(f, ok).h = f
  /\ \A id \in Request \cup {"invalid", "share", "999"}, ok \in BOOLEAN :
       Line(id, ok) \in Handler /\ Line(id, ok).h = "onRecv" /\ Line(id, ok).id = id
  /\ [h |-> "processResponse", id |-> "login", ok |-> FALSE] \in Handler
BY DEF Posted, Completed, Line, Handler, Request

\* Queues are joined in any order.
LEMMA Associates ==
  \A a, b, c \in Seq(Handler) : a \o (b \o c) = (a \o b) \o c
<1>. SUFFICES ASSUME NEW a \in Seq(Handler), NEW b \in Seq(Handler), NEW c \in Seq(Handler)
              PROVE  (a \o b) \o c = a \o (b \o c)
  OBVIOUS
<1>. QED  BY ConcatAssociative

\* What cancel() or close() queues.
LEMMA Aborts ==
  ASSUME NEW q, Queue(q), tx.write \in BOOLEAN,
         "read" \in op => "onRecv" \notin Names(q),
         tx.write => "onSend" \notin Names(q),
         "connect" \in op => "connect_handler" \notin Names(q)
  PROVE  /\ Queue(q \o Aborted)
         /\ \A f : f \in Names(q \o Aborted) <=> \/ f \in Names(q)
                                                 \/ f = "onRecv" /\ "read" \in op
                                                 \/ f = "onSend" /\ tx.write
                                                 \/ f = "connect_handler" /\ "connect" \in op
         /\ Lines(q) \subseteq Lines(q \o Aborted)
         /\ Lines(q \o Aborted) \subseteq Lines(q) \cup {"none"}
         /\ "read" \notin op /\ ~tx.write /\ "connect" \notin op => q \o Aborted = q
<1>. DEFINE mA == Line("none", FALSE)
            mB == Completed("onSend", FALSE)
            mC == Completed("connect_handler", FALSE)
            A == IF "read" \in op THEN <<mA>> ELSE <<>>
            B == IF tx.write THEN <<mB>> ELSE <<>>
            C == IF "connect" \in op THEN <<mC>> ELSE <<>>
            q1 == q \o A
            q2 == q1 \o B
            q3 == q2 \o C
<1>1. /\ mA \in Handler /\ mA.h = "onRecv" /\ mA.id = "none"
      /\ mB \in Handler /\ mB.h = "onSend" /\ mC \in Handler /\ mC.h = "connect_handler"
  BY HandlersAre DEF Request
<1>2. q \o Aborted = q3
  <2>2. Aborted = (A \o B) \o C
    BY DEF Aborted
  <2>. HIDE DEF mA, mB, mC
  <2>1. /\ q \in Seq(Handler) /\ A \in Seq(Handler)
        /\ B \in Seq(Handler) /\ C \in Seq(Handler)
    <3>1. <<mA>> \in Seq(Handler) /\ <<mB>> \in Seq(Handler) /\ <<mC>> \in Seq(Handler)
          /\ <<>> \in Seq(Handler)
      BY <1>1
    <3>. QED  BY <3>1 DEF Queue
  <2>. HIDE DEF A, B, C
  <2>3. A \o B \in Seq(Handler)
    BY <2>1, ConcatProperties
  <2>4. q \o ((A \o B) \o C) = (q \o (A \o B)) \o C
    BY <2>1, <2>3, Associates
  <2>5. q \o (A \o B) = (q \o A) \o B
    BY <2>1, Associates
  <2>. QED  BY <2>2, <2>4, <2>5
<1>3. q1 = IF "read" \in op THEN Append(q, mA) ELSE q
  BY <1>1, Maybe
<1>. HIDE DEF mA, mB, mC
<1>4. /\ Queue(q1)
      /\ \A f : f \in Names(q1) <=> f \in Names(q) \/ (f = "onRecv" /\ "read" \in op)
      /\ Lines(q) \subseteq Lines(q1) /\ Lines(q1) \subseteq Lines(q) \cup {"none"}
      /\ "read" \notin op => q1 = q
  <2>1. CASE "read" \in op
    <3>1. q1 = Append(q, mA)
      BY <1>3, <2>1
    <3>2. Queue(Append(q, mA)) /\ Names(Append(q, mA)) = Names(q) \cup {"onRecv"}
          /\ Lines(Append(q, mA)) = Lines(q) \cup {"none"}
      BY <1>1, <2>1, Adds
    <3>. QED  BY <2>1, <3>1, <3>2
  <2>2. CASE "read" \notin op
    <3>1. q1 = q
      BY <1>3, <2>2
    <3>. QED  BY <2>2, <3>1
  <2>. QED  BY <2>1, <2>2
<1>. HIDE DEF q1
<1>5. q2 = IF tx.write THEN Append(q1, mB) ELSE q1
  BY <1>1, <1>4, Maybe
<1>6. /\ Queue(q2)
      /\ \A f : f \in Names(q2) <=> f \in Names(q1) \/ (f = "onSend" /\ tx.write)
      /\ Lines(q2) = Lines(q1)
      /\ ~tx.write => q2 = q1
  <2>1. CASE tx.write
    <3>1. q2 = Append(q1, mB)
      BY <1>5, <2>1
    <3>2. "onSend" \notin Names(q1)
      BY <1>4, <2>1
    <3>3. Queue(Append(q1, mB)) /\ Names(Append(q1, mB)) = Names(q1) \cup {"onSend"}
          /\ Lines(Append(q1, mB)) = Lines(q1)
      BY <1>1, <1>4, <3>2, Adds
    <3>. QED  BY <2>1, <3>1, <3>3
  <2>2. CASE ~tx.write
    <3>1. q2 = q1
      BY <1>5, <2>2
    <3>. QED  BY <1>4, <2>2, <3>1
  <2>. QED  BY <2>1, <2>2
<1>. HIDE DEF q2
<1>7. q3 = IF "connect" \in op THEN Append(q2, mC) ELSE q2
  BY <1>1, <1>6, Maybe
<1>8. /\ Queue(q3)
      /\ \A f : f \in Names(q3) <=> f \in Names(q2) \/ (f = "connect_handler" /\ "connect" \in op)
      /\ Lines(q3) = Lines(q2)
      /\ "connect" \notin op => q3 = q2
  <2>1. CASE "connect" \in op
    <3>1. q3 = Append(q2, mC)
      BY <1>7, <2>1
    <3>2. "connect_handler" \notin Names(q2)
      BY <1>4, <1>6, <2>1
    <3>3. Queue(Append(q2, mC)) /\ Names(Append(q2, mC)) = Names(q2) \cup {"connect_handler"}
          /\ Lines(Append(q2, mC)) = Lines(q2)
      <4>1. Queue(q2) /\ mC \in Handler /\ mC.h = "connect_handler"
        BY <1>1, <1>6
      <4>. QED  BY <3>2, <4>1, Adds
    <3>. QED  BY <2>1, <3>1, <3>3
  <2>2. CASE "connect" \notin op
    <3>1. q3 = q2
      BY <1>7, <2>2
    <3>. QED  BY <1>6, <2>2, <3>1
  <2>. QED  BY <2>1, <2>2
<1>. HIDE DEF q3
<1>9. \A f : f \in Names(q3) <=> \/ f \in Names(q)
                                 \/ f = "onRecv" /\ "read" \in op
                                 \/ f = "onSend" /\ tx.write
                                 \/ f = "connect_handler" /\ "connect" \in op
  BY <1>4, <1>6, <1>8
<1>. QED  BY <1>2, <1>4, <1>6, <1>8, <1>9

(***************************************************************************)
(* The inductive invariant                                                 *)
(***************************************************************************)
Flags ==
  /\ hasConn \in BOOLEAN /\ m_connecting \in BOOLEAN /\ m_connected \in BOOLEAN
  /\ m_disconnecting \in BOOLEAN /\ overdue \in BOOLEAN /\ timer \in BOOLEAN
  /\ crashed \in BOOLEAN
Data ==
  /\ uri \in Definition
  /\ socket \in {"null", "closed", "open"}
  /\ session \in Session /\ asked \in Request
  /\ op \subseteq Operation
Counts == pleas \in Nat /\ endpoints \in Nat /\ shares \in 0..MaxShares
Buffer == [queue : Nat, pending : BOOLEAN, write : BOOLEAN]

\* m_connecting stands for one attempt, which is under way or has its result queued.
Attempt ==
  /\ m_connecting <=> "connect" \in op \/ "connect_handler" \in Names(ioq)
  /\ ~("connect" \in op /\ "connect_handler" \in Names(ioq))

\* An attempt that is made or about to be made finds no connection.
Starting == m_connecting \/ "start_connect" \in Names(ioq)
Apart == Starting => ~m_connected /\ "read" \notin op /\ ~tx.write

\* Until the name is resolved there is nothing but the timer.
Resolving == "resolve" \in op \/ "resolve_handler" \in Names(ioq)
Resolves ==
  /\ ~("resolve" \in op /\ "resolve_handler" \in Names(ioq))
  /\ Resolving =>
       /\ hasConn /\ ~m_connecting /\ ~m_connected /\ ~m_disconnecting
       /\ op \subseteq {"resolve"} /\ ~tx.write /\ ~tx.pending /\ tx.queue = 0
       /\ Names(ioq) \subseteq {"resolve_handler", "workloop_timer"}
       /\ shares = 0 /\ asked = "none" /\ session = "none"

\* m_disconnecting stands for one TLS shutdown, of a connection that is left alone
\* until then; what may be queued behind its steps is nothing that would touch it.
Finalizing == "onSSLShutdown" \in Names(ioq) \/ "disconnect_finalize" \in Names(ioq)
Closing ==
  /\ m_disconnecting <=> "shutdown" \in op \/ Finalizing
  /\ ~("shutdown" \in op /\ Finalizing)
  /\ ~("onSSLShutdown" \in Names(ioq) /\ "disconnect_finalize" \in Names(ioq))
  /\ m_disconnecting =>
       uri.secure /\ ~m_connected /\ ~Starting /\ "read" \notin op /\ ~tx.write
Order ==
  /\ ShutdownLast(ioq) /\ FinalizeLast(ioq)
  /\ "disconnect_finalize" \in Names(ioq) =>
       Names(ioq) \subseteq {"disconnect_finalize", "disconnect", "workloop_timer"}
  /\ socket = "open" => ConnectLast(ioq)

\* Over TLS nothing of a connection is left once it is gone.
Traffic ==
  \/ "read" \in op \/ tx.write
  \/ Names(ioq) \cap {"onRecv", "onSend", "processResponse", "disconnect"} # {}
Settled ==
  /\ m_connected => socket = "open"
  /\ ~crashed /\ uri.secure /\ ~m_disconnecting /\ Traffic =>
       m_connected /\ socket = "open" /\ ~Starting

Reads == ~("read" \in op /\ "onRecv" \in Names(ioq))
Writes ==
  /\ tx.write => tx.pending /\ "onSend" \notin Names(ioq)
  /\ tx.pending \/ tx.queue > 0 => tx.write \/ "onSend" \in Names(ioq)
  /\ ~tx.pending /\ "onSend" \in Names(ioq) => ~isConnected

\* A login request is answered once, and its plea is not used up by others.
Answers == {"login", "subscribe", "authorize", "999"}
Asked == Lines(ioq) \cap Answers # {} => asked = "none"
Unasked == Starting \/ Resolving => shares = 0
Bit(b) == IF b THEN 1 ELSE 0
Watched ==
  asked = "login" /\ isConnected /\ Names(ioq) \cap {"processResponse", "disconnect"} = {} =>
    pleas >= 1 + shares + Bit("share" \in Lines(ioq))

\* m_conn is unset until the manager's rotateConnect.
Owner == hasConn <=> "rotateConnect" \notin Names(ioq)

\* What is still to be answered in a session.
Progress ==
  /\ session # "none" => uri.confirmed
  /\ session = "authorized" /\ uri.mode # 1 =>
       asked \notin {"login", "subscribe"} /\ Lines(ioq) \cap {"login", "subscribe"} = {} /\ ~Starting
  /\ session = "authorized" /\ uri.mode = 1 => asked # "subscribe" /\ "subscribe" \notin Lines(ioq)
  /\ Starting /\ Lines(ioq) \cap {"login", "subscribe", "authorize"} # {} => session = "none"

\* An end point is popped only where there is one.
EndPoints ==
  /\ m_connecting => endpoints > 0
  /\ isConnected /\ endpoints = 0 => ClosedFirst(ioq)
Ticks == timer => "workloop_timer" \notin Names(ioq)

Types == Flags /\ Data /\ Counts /\ tx \in Buffer /\ Queue(ioq)
Connection == Attempt /\ Apart /\ Resolves /\ Closing /\ Order /\ Settled
Login == Asked /\ Unasked /\ Watched /\ Owner /\ Progress
IInv == Types /\ Connection /\ Reads /\ Writes /\ Login /\ EndPoints /\ Ticks


(***************************************************************************)
(* The invariant is inductive.                                             *)
(***************************************************************************)

\* send(): what it leaves in the send buffer.
LEMMA Sends ==
  ASSUME tx \in Buffer, NEW n \in Nat, NEW up \in BOOLEAN
  PROVE  /\ Sent(n, up) \in Buffer
         /\ Sent(n, up).write <=> tx.write \/ (n > 0 /\ ~tx.pending /\ up)
         /\ Sent(n, up).pending <=> tx.pending \/ (n > 0 /\ up)
         /\ Sent(n, up).queue > 0 => Sent(n, up).pending \/ (n = 0 /\ tx.queue > 0)
         /\ n = 0 => Sent(n, up) = tx
<1>1. tx.queue \in Nat /\ tx.pending \in BOOLEAN /\ tx.write \in BOOLEAN
  BY DEF Buffer
<1>2. CASE n = 0
  <2>1. Sent(n, up) = tx
    BY <1>2 DEF Sent
  <2>. QED  BY <1>1, <1>2, <2>1
<1>3. CASE n > 0 /\ tx.pending
  <2>1. Sent(n, up) = [tx EXCEPT !.queue = @ + n]
    BY <1>3 DEF Sent
  <2>2. tx.queue + n \in Nat
    BY <1>1
  <2>3. /\ Sent(n, up) \in Buffer /\ Sent(n, up).write = tx.write
        /\ Sent(n, up).pending = tx.pending
    BY <2>1, <2>2 DEF Buffer
  <2>. QED  BY <1>1, <1>3, <2>3
<1>4. CASE n > 0 /\ ~tx.pending /\ up
  <2>1. Sent(n, up) = [queue |-> n - 1, pending |-> TRUE, write |-> TRUE]
    BY <1>1, <1>4 DEF Sent
  <2>2. n - 1 \in Nat
    BY <1>4
  <2>3. Sent(n, up) \in Buffer /\ Sent(n, up).write = TRUE /\ Sent(n, up).pending = TRUE
    BY <2>1, <2>2 DEF Buffer
  <2>4. n > 0 /\ ~(n = 0)
    BY <1>4
  <2>. QED  BY <1>1, <1>4, <2>3, <2>4
<1>5. CASE n > 0 /\ ~tx.pending /\ ~up
  <2>1. Sent(n, up) = [tx EXCEPT !.queue = 0]
    BY <1>1, <1>5 DEF Sent
  <2>2. /\ Sent(n, up) \in Buffer /\ Sent(n, up).write = tx.write
        /\ Sent(n, up).pending = tx.pending /\ Sent(n, up).queue = 0
    BY <2>1 DEF Buffer
  <2>. QED  BY <1>1, <1>5, <2>2
<1>. QED  BY <1>1, <1>2, <1>3, <1>4, <1>5

\* The program ends: nothing changes but m_connected, perhaps.
LEMMA CrashKeeps ==
  ASSUME IInv, Crash, m_connected' \in BOOLEAN, m_connected' => m_connected
  PROVE  IInv'
<1>. USE DEF IInv, Crash, net, watch
<1>1. Types'
  <2>1. Flags'
    BY DEF Types, Flags
  <2>2. Data' /\ Counts' /\ tx' \in Buffer /\ Queue(ioq')
    BY DEF Types, Data, Counts
  <2>. QED  BY <2>1, <2>2 DEF Types
<1>2. isConnected' => isConnected
  BY DEF isConnected, isPendingState
<1>3. Connection'
  BY DEF Connection, Attempt, Apart, Resolves, Closing, Order, Settled, Starting, Resolving,
         Finalizing, Traffic
<1>4. Reads' /\ Writes'
  BY <1>2 DEF Reads, Writes
<1>5. Login'
  BY <1>2 DEF Login, Asked, Unasked, Watched, Owner, Progress, Starting, Resolving
<1>6. EndPoints' /\ Ticks'
  BY <1>2 DEF EndPoints, Ticks
<1>. QED  BY <1>1, <1>3, <1>4, <1>5, <1>6

\* What disconnect_finalize() needs to find: the TLS shutdown is over, and over
\* TLS nothing of the connection is left.  q is what is queued behind.
Finalizable(q) ==
  /\ Queue(q)
  /\ Names(q) \subseteq Names(ioq) /\ Lines(q) \subseteq Lines(ioq)
  /\ Names(ioq) \ Names(q) \subseteq
       {"disconnect", "disconnect_finalize", "resolve_handler", "start_connect"}
  /\ "shutdown" \notin op /\ "resolve" \notin op
  /\ Names(q) \cap {"onSSLShutdown", "disconnect_finalize", "resolve_handler"} = {}
  /\ uri.secure => /\ "read" \notin op /\ ~tx.write
                   /\ Names(q) \cap {"onRecv", "onSend", "processResponse", "disconnect"} = {}

\* disconnect_finalize(): the next mode is tried, or m_conn is unset and the manager told.
LEMMA FinalizeKeeps ==
  ASSUME IInv, ~crashed, NEW q, Finalizable(q), DisconnectFinalize(q), hasConn, ~m_connected',
         m_connected' \in BOOLEAN
  PROVE  IInv'
<1>. DEFINE r == q \o Aborted
            detecting == ~uri.unrecoverable /\ ~uri.confirmed /\ uri.responds
            retry == detecting /\ uri.mode > 0
<1>0. /\ socket' = "null" /\ session' = "none" /\ m_disconnecting' = FALSE
      /\ tx' = [tx EXCEPT !.pending = FALSE, !.write = FALSE]
      /\ op' = op \ {"connect", "read"}
      /\ asked' = "none" /\ shares' = 0
      /\ m_connecting' = m_connecting /\ endpoints' = endpoints /\ crashed' = crashed
      /\ \/ /\ retry
            /\ uri' = [uri EXCEPT !.mode = @ - 1]
            /\ ioq' = r \o <<Posted("start_connect")>>
            /\ hasConn' = hasConn /\ watch' = watch
         \/ /\ ~retry
            /\ uri' = [uri EXCEPT !.unrecoverable = @ \/ detecting]
            /\ pleas' = 0 /\ overdue' = FALSE /\ timer' = FALSE
            /\ hasConn' = FALSE
            /\ ioq' = r \o <<Posted("rotateConnect")>>
  BY DEF DisconnectFinalize, ClearPleas
<1>1. /\ uri \in Definition /\ tx \in Buffer /\ op \subseteq Operation
      /\ tx.queue \in Nat /\ tx.write \in BOOLEAN /\ tx.pending \in BOOLEAN
  BY DEF IInv, Types, Data, Buffer
<1>2. /\ "read" \in op => "onRecv" \notin Names(q)
      /\ tx.write => "onSend" \notin Names(q)
      /\ "connect" \in op => "connect_handler" \notin Names(q)
  BY DEF IInv, Connection, Attempt, Reads, Writes, Finalizable
<1>3. /\ Queue(r)
      /\ \A f : f \in Names(r) <=> \/ f \in Names(q)
                                   \/ f = "onRecv" /\ "read" \in op
                                   \/ f = "onSend" /\ tx.write
                                   \/ f = "connect_handler" /\ "connect" \in op
      /\ Lines(r) \subseteq Lines(q) \cup {"none"}
  BY <1>1, <1>2, Aborts DEF Finalizable
<1>4. "rotateConnect" \notin Names(r)
  BY <1>3 DEF IInv, Login, Owner, Finalizable
<1>. HIDE DEF r, detecting, retry
<1>5. PICK g \in {"start_connect", "rotateConnect"} : ioq' = r \o <<Posted(g)>>
      /\ (g = "rotateConnect" <=> ~hasConn') /\ (hasConn' => timer' = timer)
  BY <1>0 DEF watch
<1>6. Posted(g) \in Handler /\ Posted(g).h = g
  BY HandlersAre
<1>7. ioq' = Append(r, Posted(g))
  <2>1. r \in Seq(Handler)
    BY <1>3 DEF Queue
  <2>. QED  BY <1>5, <1>6, <2>1, AppendIsConcat
<1>8. /\ Queue(ioq') /\ Names(ioq') = Names(r) \cup {g} /\ Lines(ioq') = Lines(r)
  BY <1>3, <1>4, <1>6, <1>7, Adds DEF Singles
<1>9. /\ tx' \in Buffer /\ ~tx'.pending /\ ~tx'.write /\ tx'.queue = tx.queue
  BY <1>0, <1>1 DEF Buffer
<1>10. uri' \in Definition /\ uri'.secure = uri.secure
  <2>1. CASE retry /\ uri' = [uri EXCEPT !.mode = @ - 1]
    <3>1. uri.mode \in 0..3 /\ uri.mode > 0
      BY <1>1, <2>1 DEF retry, Definition
    <3>2. uri.mode - 1 \in 0..3
      BY <3>1
    <3>. QED  BY <1>1, <2>1, <3>2 DEF Definition
  <2>2. CASE uri' = [uri EXCEPT !.unrecoverable = @ \/ detecting]
    <3>1. (uri.unrecoverable \/ detecting) \in BOOLEAN
      OBVIOUS
    <3>. QED  BY <1>1, <2>2, <3>1 DEF Definition
  <2>. QED  BY <1>0, <2>1, <2>2
<1>11. Types'
  <2>0. /\ pleas' = pleas \/ pleas' = 0
        /\ overdue' = overdue \/ overdue' = FALSE
        /\ timer' = timer \/ timer' = FALSE
        /\ hasConn' = hasConn \/ hasConn' = FALSE
    BY <1>0 DEF watch
  <2>1. Flags'
    BY <1>0, <2>0 DEF IInv, Types, Flags
  <2>2. Data'
    BY <1>0, <1>1, <1>10 DEF Data, Session, Request
  <2>3. Counts'
    BY <1>0, <2>0, StratumAssumption DEF IInv, Types, Counts
  <2>. QED  BY <1>8, <1>9, <2>1, <2>2, <2>3 DEF Types
<1>12. ShutdownLast(ioq') /\ FinalizeLast(ioq')
  BY <1>3, <1>8, Absent DEF Finalizable
<1>13. Connection'
  BY <1>0, <1>3, <1>8, <1>9, <1>10, <1>12
     DEF IInv, Connection, Attempt, Apart, Resolves, Closing, Order, Settled,
         Starting, Resolving, Finalizing, Traffic, Finalizable
<1>14. ~isConnected'
  BY DEF isConnected
<1>15. Reads' /\ Writes'
  BY <1>0, <1>3, <1>8, <1>9, <1>14 DEF IInv, Reads, Writes, Finalizable
<1>16. Login'
  BY <1>0, <1>3, <1>4, <1>5, <1>8, <1>14
     DEF Login, Asked, Unasked, Watched, Owner, Progress
<1>17. EndPoints'
  BY <1>0, <1>14 DEF IInv, EndPoints
<1>18. Ticks'
  <2>1. timer' => timer
    BY <1>0 DEF watch
  <2>. QED  BY <1>3, <1>8, <2>1 DEF IInv, Ticks, Finalizable
<1>. QED  BY <1>11, <1>13, <1>15, <1>16, <1>17, <1>18 DEF IInv

\* The handler at the head of the queue runs: what is left in the queue.
LEMMA Running ==
  ASSUME IInv, NEW f, Runs(f)
  PROVE  /\ ~crashed /\ ioq # <<>> /\ Head(ioq).h = f /\ Head(ioq) \in Handler
         /\ Queue(Tail(ioq))
         /\ Names(ioq) = Names(Tail(ioq)) \cup {f}
         /\ f \in Singles => f \notin Names(Tail(ioq))
         /\ Lines(Tail(ioq)) \subseteq Lines(ioq)
         /\ f = "onRecv" => Head(ioq).id \in Lines(ioq) /\ Lines(Tail(ioq)) = {}
         /\ f # "onRecv" => Lines(Tail(ioq)) = Lines(ioq)
         /\ f = "processResponse" => Head(ioq).id = "login" /\ ~Head(ioq).ok
         /\ ShutdownLast(Tail(ioq)) /\ FinalizeLast(Tail(ioq))
         /\ socket = "open" => ConnectLast(Tail(ioq))
         /\ f = "onSSLShutdown" => Names(Tail(ioq)) \cap Unfinished = {}
         /\ f = "disconnect_finalize" => "disconnect" \notin Names(Tail(ioq))
         /\ f = "connect_handler" /\ socket = "open" => Names(Tail(ioq)) \cap Arrivals = {}
         /\ isConnected /\ endpoints = 0 =>
              f # "workloop_timer" /\ (f # "disconnect" => ClosedFirst(Tail(ioq)))
<1>1. ~crashed /\ ioq # <<>> /\ Head(ioq).h = f /\ Queue(ioq)
  BY DEF Runs, IInv, Types
<1>2. /\ Queue(Tail(ioq)) /\ Head(ioq) \in Handler
      /\ Names(ioq) = Names(Tail(ioq)) \cup {f}
      /\ f \in Singles => f \notin Names(Tail(ioq))
      /\ f = "onRecv" => Head(ioq).id \in Lines(ioq) /\ Lines(Tail(ioq)) = {}
      /\ f # "onRecv" => Lines(Tail(ioq)) = Lines(ioq)
      /\ f = "processResponse" => Head(ioq).id = "login" /\ ~Head(ioq).ok
  BY <1>1, Pops
<1>3. Lines(Tail(ioq)) \subseteq Lines(ioq)
  BY <1>2
<1>4. ShutdownLast(ioq) /\ FinalizeLast(ioq) /\ (socket = "open" => ConnectLast(ioq))
  BY DEF IInv, Connection, Order
<1>5. isConnected /\ endpoints = 0 => ClosedFirst(ioq)
  BY DEF IInv, EndPoints
<1>. QED  BY <1>1, <1>2, <1>3, <1>4, <1>5, OrderPops

\* disconnect() of a TLS connection: the shutdown starts.
LEMMA ShutdownKeeps ==
  ASSUME IInv, NEW q, Queue(q), Names(q) \subseteq Names(ioq), Lines(q) \subseteq Lines(ioq),
         Names(ioq) \ Names(q) \subseteq {"disconnect"},
         m_connected, ~m_disconnecting, socket = "open", uri.secure,
         m_disconnecting' = TRUE, m_connected' = FALSE,
         op' = (op \ {"connect", "read"}) \cup {"shutdown"},
         tx' = [tx EXCEPT !.write = FALSE],
         EnqueuePlea,
         ioq' = q \o Aborted,
         UNCHANGED <<uri, hasConn, m_connecting, socket, session, endpoints, timer,
                     asked, shares, crashed>>
  PROVE  IInv'
<1>1. /\ tx \in Buffer /\ op \subseteq Operation /\ pleas \in Nat
      /\ tx.queue \in Nat /\ tx.write \in BOOLEAN /\ tx.pending \in BOOLEAN
  BY DEF IInv, Types, Data, Buffer, Counts
<1>2. /\ "read" \in op => "onRecv" \notin Names(q)
      /\ tx.write => "onSend" \notin Names(q)
      /\ "connect" \notin op /\ ~m_connecting
      /\ Names(q) \cap {"connect_handler", "start_connect", "onSSLShutdown",
                        "disconnect_finalize", "resolve_handler"} = {}
      /\ "resolve" \notin op
  BY DEF IInv, Connection, Attempt, Reads, Writes, Apart, Starting, Closing, Finalizing, Resolves,
         Resolving
<1>3. /\ Queue(ioq')
      /\ \A f : f \in Names(ioq') <=> \/ f \in Names(q)
                                      \/ f = "onRecv" /\ "read" \in op
                                      \/ f = "onSend" /\ tx.write
                                      \/ f = "connect_handler" /\ "connect" \in op
      /\ Lines(ioq') \subseteq Lines(q) \cup {"none"}
  BY <1>1, <1>2, Aborts
<1>4. /\ tx' \in Buffer /\ tx'.pending = tx.pending /\ ~tx'.write /\ tx'.queue = tx.queue
  BY <1>1 DEF Buffer
<1>5. pleas' \in Nat /\ overdue' \in BOOLEAN
  BY <1>1 DEF EnqueuePlea
<1>6. Types'
  <2>1. Flags'
    BY <1>5 DEF IInv, Types, Flags
  <2>2. Data'
    BY <1>1 DEF IInv, Types, Data, Operation
  <2>3. Counts'
    BY <1>5 DEF IInv, Types, Counts
  <2>. QED  BY <1>3, <1>4, <2>1, <2>2, <2>3 DEF Types
<1>7. ShutdownLast(ioq') /\ FinalizeLast(ioq') /\ ConnectLast(ioq')
  BY <1>2, <1>3, Absent
<1>8. Connection'
  BY <1>1, <1>2, <1>3, <1>4, <1>7
     DEF Connection, Attempt, Apart, Resolves, Closing, Order, Settled,
         Starting, Resolving, Finalizing, Traffic
<1>9. ~isConnected'
  BY DEF isConnected
<1>10. Reads' /\ Writes'
  BY <1>1, <1>2, <1>3, <1>4, <1>9 DEF IInv, Reads, Writes
<1>11. Login'
  BY <1>2, <1>3, <1>9
     DEF IInv, Login, Asked, Unasked, Watched, Owner, Progress, Starting, Resolving, Answers
<1>12. EndPoints'
  BY <1>9 DEF IInv, EndPoints
<1>13. Ticks'
  BY <1>3 DEF IInv, Ticks
<1>. QED  BY <1>6, <1>8, <1>10, <1>11, <1>12, <1>13 DEF IInv

\* disconnect() that finds a disconnection under way.
LEMMA DisconnectAgainKeeps ==
  ASSUME IInv, Runs("disconnect"), m_disconnecting, ioq' = Tail(ioq),
         UNCHANGED <<uri, hasConn, flags, net, session, watch, endpoints, crashed>>
  PROVE  IInv'
<1>. USE DEF flags, net, watch
<1>1. /\ Queue(ioq') /\ Names(ioq) = Names(ioq') \cup {"disconnect"}
      /\ Lines(ioq') = Lines(ioq) /\ ShutdownLast(ioq') /\ FinalizeLast(ioq')
      /\ socket = "open" => ConnectLast(ioq')
  BY Running
<1>2. ~isConnected'
  BY DEF isConnected, isPendingState
<1>3. Types'
  <2>1. Flags'
    BY DEF IInv, Types, Flags
  <2>. QED  BY <1>1, <2>1 DEF IInv, Types, Data, Counts
<1>4. Connection'
  BY <1>1 DEF IInv, Connection, Attempt, Apart, Resolves, Closing, Order, Settled,
              Starting, Resolving, Finalizing, Traffic
<1>5. Reads' /\ Writes'
  BY <1>1, <1>2 DEF IInv, Reads, Writes
<1>6. Login'
  BY <1>1, <1>2 DEF IInv, Login, Asked, Unasked, Watched, Owner, Progress, Starting, Resolving
<1>7. EndPoints' /\ Ticks'
  BY <1>1, <1>2 DEF IInv, EndPoints, Ticks
<1>. QED  BY <1>3, <1>4, <1>5, <1>6, <1>7 DEF IInv

\* A posted disconnect() runs.
LEMMA RunDisconnectKeeps == IInv /\ RunDisconnect => IInv'
<1>. SUFFICES ASSUME IInv, Runs("disconnect"), Disconnect(Tail(ioq)) PROVE IInv'
  BY DEF RunDisconnect
<1>. DEFINE q == Tail(ioq)
<1>1. /\ ~crashed /\ Queue(q) /\ Names(ioq) = Names(q) \cup {"disconnect"}
      /\ Lines(q) = Lines(ioq)
  BY Running
<1>. HIDE DEF q
<1>2. CASE m_disconnecting
  BY <1>2, DisconnectAgainKeeps DEF Disconnect, DisconnectFinalize
<1>3. CASE ~m_disconnecting /\ socket = "open" /\ uri.secure
  <2>1. m_connected
    BY <1>1, <1>3 DEF IInv, Connection, Settled, Traffic
  <2>. QED  BY <1>1, <1>3, <2>1, ShutdownKeeps DEF Disconnect, q
<1>4. CASE ~m_disconnecting /\ ~(socket = "open" /\ uri.secure)
  <2>1. m_connected' = FALSE /\ DisconnectFinalize(q)
    BY <1>4 DEF Disconnect, q
  <2>2. CASE ~hasConn
    BY <2>1, <2>2, CrashKeeps DEF DisconnectFinalize
  <2>3. CASE hasConn
    <3>1. Finalizable(q)
      BY <1>1, <1>4 DEF Finalizable, IInv, Connection, Closing, Finalizing, Resolves, Resolving,
                        Settled, Traffic
    <3>. QED  BY <1>1, <2>1, <2>3, <3>1, FinalizeKeeps
  <2>. QED  BY <2>2, <2>3
<1>. QED  BY <1>2, <1>3, <1>4

\* The manager calls disconnect() (failover, setActiveConnection).
LEMMA ManagerDisconnectsKeeps == IInv /\ ManagerDisconnects => IInv'
<1>. SUFFICES ASSUME IInv, ManagerDisconnects PROVE IInv'
  OBVIOUS
<1>1. /\ ~crashed /\ m_connected /\ ~m_connecting /\ ~m_disconnecting /\ socket = "open"
      /\ Queue(ioq) /\ Disconnect(ioq)
  BY DEF ManagerDisconnects, isConnected, isPendingState, IInv, Connection, Settled, Types
<1>2. CASE uri.secure
  BY <1>1, <1>2, ShutdownKeeps DEF Disconnect
<1>3. CASE ~uri.secure
  <2>1. m_connected' = FALSE /\ DisconnectFinalize(ioq)
    BY <1>1, <1>3 DEF Disconnect
  <2>2. CASE ~hasConn
    BY <2>1, <2>2, CrashKeeps DEF DisconnectFinalize
  <2>3. CASE hasConn
    <3>1. Finalizable(ioq)
      BY <1>1, <1>3 DEF Finalizable, IInv, Connection, Closing, Finalizing, Resolves, Resolving
    <3>. QED  BY <1>1, <2>1, <2>3, <3>1, FinalizeKeeps
  <2>. QED  BY <2>2, <2>3
<1>. QED  BY <1>2, <1>3

\* A posted disconnect_finalize() runs.
LEMMA RunDisconnectFinalizeKeeps == IInv /\ RunDisconnectFinalize => IInv'
<1>. SUFFICES ASSUME IInv, Runs("disconnect_finalize"), DisconnectFinalize(Tail(ioq)),
                     m_connected' = m_connected
              PROVE  IInv'
  BY DEF RunDisconnectFinalize
<1>. DEFINE q == Tail(ioq)
<1>1. /\ ~crashed /\ Queue(q) /\ Names(ioq) = Names(q) \cup {"disconnect_finalize"}
      /\ Names(q) \cap {"disconnect_finalize", "disconnect"} = {}
      /\ Lines(q) = Lines(ioq)
  BY Running DEF Singles
<1>2. DisconnectFinalize(q)
  OBVIOUS
<1>. HIDE DEF q
<1>3. m_connected \in BOOLEAN
  BY DEF IInv, Types, Flags
<1>4. CASE ~hasConn
  BY <1>2, <1>3, <1>4, CrashKeeps DEF DisconnectFinalize
<1>5. CASE hasConn
  <2>1. Finalizable(q) /\ ~m_connected
    BY <1>1 DEF Finalizable, IInv, Connection, Closing, Finalizing, Resolves, Resolving, Order
  <2>. QED  BY <1>1, <1>2, <1>3, <1>5, <2>1, FinalizeKeeps
<1>. QED  BY <1>4, <1>5

\* onSSLShutdownCompleted posts disconnect_finalize.
LEMMA OnSSLShutdownCompletedKeeps == IInv /\ OnSSLShutdownCompleted => IInv'
<1>. SUFFICES ASSUME IInv, OnSSLShutdownCompleted PROVE IInv'
  OBVIOUS
<1>. DEFINE q == Tail(ioq)
            m == Posted("disconnect_finalize")
<1>. USE DEF OnSSLShutdownCompleted, ClearPleas, flags, net
<1>1. /\ Queue(q) /\ Names(ioq) = Names(q) \cup {"onSSLShutdown"}
      /\ "onSSLShutdown" \notin Names(q) /\ Lines(q) = Lines(ioq)
      /\ Names(q) \cap Unfinished = {}
      /\ ShutdownLast(q) /\ FinalizeLast(q) /\ (socket = "open" => ConnectLast(q))
  BY Running DEF Singles
<1>2. m \in Handler /\ m.h = "disconnect_finalize" /\ ioq' = Append(q, m)
  BY HandlersAre
<1>. HIDE DEF q, m
<1>3. "disconnect_finalize" \notin Names(q)
  BY <1>1 DEF Unfinished
<1>4. /\ Queue(ioq') /\ Names(ioq') = Names(q) \cup {"disconnect_finalize"} /\ Lines(ioq') = Lines(q)
      /\ ShutdownLast(ioq') /\ FinalizeLast(ioq') /\ (socket = "open" => ConnectLast(ioq'))
  <2>1. m.h \notin Arrivals /\ m.h # "onRecv" /\ m.h # "processResponse" /\ m.h # "disconnect"
        /\ m.h \notin Names(q)
    BY <1>2, <1>3 DEF Arrivals
  <2>2. /\ Queue(Append(q, m)) /\ Names(Append(q, m)) = Names(q) \cup {m.h}
        /\ Lines(Append(q, m)) = Lines(q)
        /\ ShutdownLast(Append(q, m)) /\ FinalizeLast(Append(q, m))
        /\ ConnectLast(q) => ConnectLast(Append(q, m))
    BY <1>1, <1>2, <2>1, Adds
  <2>. QED  BY <1>1, <1>2, <2>2
<1>5. m_disconnecting
  BY <1>1 DEF IInv, Connection, Closing, Finalizing
<1>6. ~isConnected'
  BY <1>5 DEF isConnected, isPendingState
<1>7. Types'
  <2>1. Flags'
    BY DEF IInv, Types, Flags
  <2>. QED  BY <1>4, <2>1 DEF IInv, Types, Data, Counts
<1>8. Names(ioq') \subseteq {"disconnect_finalize", "disconnect", "workloop_timer"}
  <2>1. \A f \in Names(ioq) : f \in Unfinished \cup {"disconnect", "workloop_timer", "onSSLShutdown"}
    <3>1. \A m1 \in Handler :
            m1.h \in Unfinished \cup {"disconnect", "workloop_timer", "onSSLShutdown"}
      BY DEF Handler, Unfinished
    <3>2. \A k \in 1..Len(ioq) : ioq[k] \in Handler
      BY DEF IInv, Types, Queue
    <3>. QED  BY <3>1, <3>2 DEF Names
  <2>. QED  BY <1>1, <1>4, <2>1
<1>9. Connection'
  BY <1>1, <1>3, <1>4, <1>5, <1>8
     DEF IInv, Connection, Attempt, Apart, Resolves, Closing, Order, Settled,
         Starting, Resolving, Finalizing, Traffic
<1>10. Reads' /\ Writes'
  BY <1>1, <1>4, <1>6 DEF IInv, Reads, Writes
<1>11. Login'
  BY <1>1, <1>4, <1>6 DEF IInv, Login, Asked, Unasked, Watched, Owner, Progress, Starting, Resolving
<1>12. EndPoints' /\ Ticks'
  BY <1>1, <1>4, <1>6 DEF IInv, EndPoints, Ticks
<1>. QED  BY <1>7, <1>9, <1>10, <1>11, <1>12 DEF IInv

\* connect(): the name is being resolved, or the address is there and start_connect posted.
LEMMA ConnectQueues ==
  ASSUME NEW o, NEW n, NEW q, Connect(o, n, q)
  PROVE  /\ Queue(q) /\ Lines(q) = {}
         /\ \/ o = {"resolve"} /\ n = 0 /\ Names(q) = {}
            \/ o = {} /\ n = 1 /\ Names(q) = {"start_connect"}
<1>. DEFINE m == Posted("start_connect")
<1>1. m \in Handler /\ m.h = "start_connect"
  BY HandlersAre
<1>. HIDE DEF m
<1>2. Queue(<<m>>) /\ Lines(<<m>>) = {} /\ Names(<<m>>) = {"start_connect"}
  BY <1>1, Units
<1>3. Queue(<<>>) /\ Names(<<>>) = {} /\ Lines(<<>>) = {}
  BY Units
<1>4. CASE o = {"resolve"} /\ n = 0 /\ q = <<>>
  BY <1>3, <1>4
<1>5. CASE o = {} /\ n = 1 /\ q = <<m>>
  BY <1>2, <1>5
<1>. QED  BY <1>4, <1>5 DEF Connect, m

\* A new client: nothing but the name to be resolved, or the address, and the timer.
LEMMA NewClientKeeps ==
  ASSUME uri' \in Definition, NewClient, crashed' \in BOOLEAN
  PROVE  IInv'
<1>. USE DEF NewClient
<1>1. /\ Queue(ioq') /\ Lines(ioq') = {}
      /\ \/ op' = {"resolve"} /\ endpoints' = 0 /\ Names(ioq') = {}
         \/ op' = {} /\ endpoints' = 1 /\ Names(ioq') = {"start_connect"}
  BY ConnectQueues
<1>2. ShutdownLast(ioq') /\ FinalizeLast(ioq') /\ ConnectLast(ioq')
  BY <1>1, Absent
<1>3. ~isConnected'
  BY DEF isConnected
<1>4. Types'
  <2>1. Flags'
    BY DEF Flags
  <2>2. Data' /\ tx' \in Buffer
    BY <1>1 DEF Data, Buffer, Session, Request, Operation
  <2>3. Counts'
    BY <1>1, StratumAssumption DEF Counts
  <2>. QED  BY <1>1, <2>1, <2>2, <2>3 DEF Types
<1>5. Connection'
  BY <1>1, <1>2 DEF Connection, Attempt, Apart, Resolves, Closing, Order, Settled,
                    Starting, Resolving, Finalizing, Traffic
<1>6. Reads' /\ Writes'
  BY <1>1, <1>3 DEF Reads, Writes
<1>7. Login'
  BY <1>1, <1>3 DEF Login, Asked, Unasked, Watched, Owner, Progress
<1>8. EndPoints' /\ Ticks'
  BY <1>1, <1>3 DEF EndPoints, Ticks
<1>. QED  BY <1>4, <1>5, <1>6, <1>7, <1>8 DEF IInv

\* rotateConnect: the new client starts with an empty queue.
LEMMA RotateConnectKeeps == IInv /\ RotateConnect => IInv'
<1>. SUFFICES ASSUME IInv, RotateConnect PROVE IInv'
  OBVIOUS
<1>0. uri \in Definition /\ m_connected \in BOOLEAN /\ crashed \in BOOLEAN
  BY DEF IInv, Types, Data, Flags
<1>1. CASE Crash /\ m_connected' = m_connected
  BY <1>0, <1>1, CrashKeeps
<1>2. CASE NewClient /\ crashed' = crashed
           /\ (uri' \in Fresh \/ uri' = [uri EXCEPT !.responds = FALSE])
  <2>1. uri' \in Definition
    BY <1>0, <1>2 DEF Fresh, Definition
  <2>. QED  BY <1>0, <1>2, <2>1, NewClientKeeps
<1>. QED  BY <1>1, <1>2 DEF RotateConnect

\* resolve_handler: end points are there, or the attempt is finalized.
LEMMA ResolveHandlerKeeps == IInv /\ ResolveHandler => IInv'
<1>. SUFFICES ASSUME IInv, ResolveHandler PROVE IInv'
  OBVIOUS
<1>. DEFINE q == Tail(ioq)
            m == Posted("start_connect")
<1>1. /\ ~crashed /\ Queue(q) /\ Names(ioq) = Names(q) \cup {"resolve_handler"}
      /\ "resolve_handler" \notin Names(q) /\ Lines(q) = Lines(ioq)
  BY Running DEF Singles, ResolveHandler
<1>2. m \in Handler /\ m.h = "start_connect"
  BY HandlersAre
<1>3. /\ hasConn /\ ~m_connecting /\ ~m_connected /\ ~m_disconnecting
      /\ op \subseteq {"resolve"} /\ "resolve" \notin op
      /\ ~tx.write /\ ~tx.pending /\ tx.queue = 0
      /\ Names(q) \subseteq {"workloop_timer"}
      /\ shares = 0 /\ asked = "none" /\ session = "none"
  BY <1>1 DEF IInv, Connection, Resolves, Resolving
<1>4. CASE /\ endpoints' = Resolved
           /\ ioq' = Append(q, m)
           /\ UNCHANGED <<uri, hasConn, flags, net, session, watch, crashed>>
  <2>. HIDE DEF q, m
  <2>. USE DEF flags, net, watch
  <2>1. /\ Queue(ioq') /\ Names(ioq') = Names(q) \cup {"start_connect"} /\ Lines(ioq') = Lines(q)
    BY <1>1, <1>2, <1>4, Adds DEF Singles
  <2>2. ShutdownLast(ioq') /\ FinalizeLast(ioq') /\ ConnectLast(ioq')
    BY <1>3, <2>1, Absent
  <2>3. ~isConnected'
    BY <1>3, <1>4 DEF isConnected
  <2>4. Types'
    <3>1. Flags'
      BY <1>4 DEF IInv, Types, Flags
    <3>. QED  BY <1>4, <2>1, <3>1, StratumAssumption DEF IInv, Types, Data, Counts
  <2>5. Connection'
    BY <1>1, <1>3, <1>4, <2>1, <2>2
       DEF IInv, Connection, Attempt, Apart, Resolves, Closing, Order, Settled,
           Starting, Resolving, Finalizing, Traffic
  <2>6. Reads' /\ Writes'
    BY <1>3, <1>4, <2>1, <2>3 DEF Reads, Writes
  <2>7. Login'
    BY <1>1, <1>3, <1>4, <2>1, <2>3 DEF IInv, Login, Asked, Unasked, Watched, Owner, Progress
  <2>8. EndPoints' /\ Ticks'
    BY <1>1, <1>3, <1>4, <2>1, <2>3 DEF IInv, EndPoints, Ticks
  <2>. QED  BY <2>4, <2>5, <2>6, <2>7, <2>8 DEF IInv
<1>5. CASE DisconnectFinalize(q) /\ m_connected' = m_connected
  <2>. HIDE DEF q, m
  <2>1. Finalizable(q)
    BY <1>1, <1>3 DEF Finalizable
  <2>2. m_connected \in BOOLEAN
    BY DEF IInv, Types, Flags
  <2>. QED  BY <1>1, <1>3, <1>5, <2>1, <2>2, FinalizeKeeps
<1>. QED  BY <1>4, <1>5 DEF ResolveHandler

\* start_connect: the one place where an attempt begins.
LEMMA StartConnectKeeps == IInv /\ StartConnect => IInv'
<1>. SUFFICES ASSUME IInv, StartConnect PROVE IInv'
  OBVIOUS
<1>. DEFINE q == Tail(ioq)
<1>1. /\ ~crashed /\ Queue(q) /\ Names(ioq) = Names(q) \cup {"start_connect"}
      /\ Lines(q) = Lines(ioq)
      /\ ShutdownLast(q) /\ FinalizeLast(q) /\ (socket = "open" => ConnectLast(q))
  BY Running DEF StartConnect
<1>2. /\ ~m_connected /\ ~m_disconnecting /\ "read" \notin op /\ ~tx.write
      /\ "shutdown" \notin op /\ "resolve" \notin op
      /\ Names(q) \cap {"onSSLShutdown", "disconnect_finalize", "resolve_handler"} = {}
      /\ uri.secure => Names(q) \cap {"onRecv", "onSend", "processResponse", "disconnect"} = {}
      /\ shares = 0
  BY <1>1 DEF IInv, Connection, Apart, Starting, Closing, Finalizing, Resolves, Resolving, Settled,
              Traffic, Login, Unasked
<1>3. CASE /\ m_connecting /\ ioq' = q
           /\ UNCHANGED <<uri, hasConn, flags, net, session, watch, endpoints, crashed>>
  <2>. HIDE DEF q
  <2>. USE DEF flags, net, watch
  <2>1. ~isConnected'
    BY <1>2, <1>3 DEF isConnected
  <2>2. Types'
    <3>1. Flags'
      BY <1>3 DEF IInv, Types, Flags
    <3>. QED  BY <1>1, <1>3, <3>1 DEF IInv, Types, Data, Counts
  <2>3. Connection'
    BY <1>1, <1>2, <1>3
       DEF IInv, Connection, Attempt, Apart, Resolves, Closing, Order, Settled,
           Starting, Resolving, Finalizing, Traffic
  <2>4. Reads' /\ Writes'
    BY <1>1, <1>3, <2>1 DEF IInv, Reads, Writes
  <2>5. Login'
    BY <1>1, <1>2, <1>3, <2>1
       DEF IInv, Login, Asked, Unasked, Watched, Owner, Progress, Starting
  <2>6. EndPoints' /\ Ticks'
    BY <1>1, <1>3, <2>1 DEF IInv, EndPoints, Ticks
  <2>. QED  BY <2>2, <2>3, <2>4, <2>5, <2>6 DEF IInv
<1>4. CASE /\ ~m_connecting /\ endpoints > 0
           /\ m_connecting' = TRUE /\ socket' = "open" /\ op' = op \cup {"connect"}
           /\ pleas' = 1 /\ overdue' = FALSE /\ ioq' = q
           /\ UNCHANGED <<uri, hasConn, m_connected, m_disconnecting, tx, asked, shares,
                          session, timer, endpoints, crashed>>
  <2>. HIDE DEF q
  <2>1. ~isConnected'
    BY <1>2, <1>4 DEF isConnected
  <2>2. "connect" \notin op /\ "connect_handler" \notin Names(q)
    BY <1>1, <1>4 DEF IInv, Connection, Attempt
  <2>3. ConnectLast(q)
    BY <2>2, Absent
  <2>4. Types'
    <3>1. Flags'
      BY <1>4 DEF IInv, Types, Flags
    <3>. QED  BY <1>1, <1>4, <3>1 DEF IInv, Types, Data, Counts, Operation
  <2>5. Connection'
    BY <1>1, <1>2, <1>4, <2>2, <2>3
       DEF IInv, Connection, Attempt, Apart, Resolves, Closing, Order, Settled,
           Starting, Resolving, Finalizing, Traffic
  <2>6. Reads' /\ Writes'
    BY <1>1, <1>2, <1>4, <2>1 DEF IInv, Reads, Writes
  <2>7. Login'
    BY <1>1, <1>2, <1>4, <2>1
       DEF IInv, Login, Asked, Unasked, Watched, Owner, Progress, Starting
  <2>8. EndPoints' /\ Ticks'
    BY <1>1, <1>4, <2>1 DEF IInv, EndPoints, Ticks
  <2>. QED  BY <2>4, <2>5, <2>6, <2>7, <2>8 DEF IInv
<1>5. CASE DisconnectFinalize(q) /\ m_connected' = m_connected
  <2>. HIDE DEF q
  <2>0. m_connected \in BOOLEAN
    BY DEF IInv, Types, Flags
  <2>1. CASE ~hasConn
    BY <1>5, <2>0, <2>1, CrashKeeps DEF DisconnectFinalize
  <2>2. CASE hasConn
    <3>1. Finalizable(q)
      BY <1>1, <1>2 DEF Finalizable
    <3>. QED  BY <1>1, <1>2, <1>5, <2>0, <2>2, <3>1, FinalizeKeeps
  <2>. QED  BY <2>1, <2>2
<1>. QED  BY <1>3, <1>4, <1>5 DEF StartConnect

\* connect_handler with an error: the next end point is tried.
LEMMA ConnectFailedKeeps == IInv /\ ConnectFailed => IInv'
<1>. SUFFICES ASSUME IInv, ConnectFailed PROVE IInv'
  OBVIOUS
<1>. DEFINE q == Tail(ioq)
            m == Posted("start_connect")
<1>. USE DEF ConnectFailed, watch
<1>1. /\ ~crashed /\ Queue(q) /\ Names(ioq) = Names(q) \cup {"connect_handler"}
      /\ "connect_handler" \notin Names(q) /\ Lines(q) = Lines(ioq)
  BY Running DEF Singles
<1>2. m \in Handler /\ m.h = "start_connect" /\ ioq' = Append(q, m)
  BY HandlersAre
<1>. HIDE DEF q, m
<1>3. Queue(ioq') /\ Names(ioq') = Names(q) \cup {"start_connect"} /\ Lines(ioq') = Lines(q)
  <2>1. m.h \notin Singles /\ m.h # "processResponse" /\ m.h # "onRecv"
    BY <1>2 DEF Singles
  <2>2. /\ Queue(Append(q, m)) /\ Names(Append(q, m)) = Names(q) \cup {m.h}
        /\ Lines(Append(q, m)) = Lines(q)
    BY <1>1, <1>2, <2>1, Adds
  <2>. QED  BY <1>2, <2>2
<1>4. /\ m_connecting /\ "connect" \notin op /\ ~m_connected /\ ~m_disconnecting
      /\ "shutdown" \notin op /\ "resolve" \notin op
      /\ Names(q) \cap {"onSSLShutdown", "disconnect_finalize", "resolve_handler"} = {}
      /\ shares = 0
  BY <1>1 DEF IInv, Connection, Attempt, Apart, Starting, Closing, Finalizing, Resolves, Resolving,
              Login, Unasked
<1>5. ShutdownLast(ioq') /\ FinalizeLast(ioq')
  BY <1>3, <1>4, Absent
<1>6. ~isConnected'
  BY <1>4 DEF isConnected
<1>7. Types'
  <2>1. Flags'
    BY DEF IInv, Types, Flags
  <2>2. endpoints \in Nat /\ endpoints > 0
    BY <1>4 DEF IInv, Types, Counts, EndPoints
  <2>3. endpoints' \in Nat
    BY <2>2
  <2>. QED  BY <1>3, <2>1, <2>3 DEF IInv, Types, Data, Counts
<1>8. Connection'
  BY <1>1, <1>3, <1>4, <1>5
     DEF IInv, Connection, Attempt, Apart, Resolves, Closing, Order, Settled,
         Starting, Resolving, Finalizing, Traffic
<1>9. Reads' /\ Writes'
  BY <1>1, <1>3, <1>6 DEF IInv, Reads, Writes
<1>10. Login'
  BY <1>1, <1>3, <1>4, <1>6
     DEF IInv, Login, Asked, Unasked, Watched, Owner, Progress, Starting
<1>11. EndPoints' /\ Ticks'
  BY <1>1, <1>3, <1>6 DEF IInv, EndPoints, Ticks
<1>. QED  BY <1>7, <1>8, <1>9, <1>10, <1>11 DEF IInv

\* connect_handler on an open socket: what it finds.
LEMMA Connects ==
  ASSUME IInv, Runs("connect_handler"), socket = "open"
  PROVE  /\ ~crashed /\ Queue(Tail(ioq)) /\ Names(ioq) = Names(Tail(ioq)) \cup {"connect_handler"}
         /\ Names(Tail(ioq)) \cap {"connect_handler", "start_connect", "onRecv", "onSend",
              "onSSLShutdown", "disconnect_finalize", "resolve_handler"} = {}
         /\ Lines(Tail(ioq)) = Lines(ioq) /\ Lines(ioq) = {}
         /\ m_connecting /\ ~m_connected /\ ~m_disconnecting
         /\ op \cap {"connect", "read", "shutdown", "resolve"} = {}
         /\ tx.pending = FALSE /\ tx.write = FALSE /\ tx.queue = 0
         /\ endpoints > 0 /\ shares = 0
         /\ session = "authorized" => uri.mode = 1
<1>. DEFINE q == Tail(ioq)
<1>1. /\ ~crashed /\ Queue(q) /\ Names(ioq) = Names(q) \cup {"connect_handler"}
      /\ "connect_handler" \notin Names(q) /\ Lines(q) = Lines(ioq)
      /\ Names(q) \cap Arrivals = {}
  BY Running DEF Singles
<1>. HIDE DEF q
<1>2. Lines(q) = {}
  <2>1. "onRecv" \notin Names(q)
    BY <1>1 DEF Arrivals
  <2>. QED  BY <2>1 DEF Lines, Names
<1>3. /\ m_connecting /\ "connect" \notin op /\ ~m_connected /\ "read" \notin op /\ ~tx.write
  BY <1>1 DEF IInv, Connection, Attempt, Apart, Starting
<1>4. /\ ~m_disconnecting /\ "shutdown" \notin op /\ "resolve" \notin op
      /\ Names(q) \cap {"onSSLShutdown", "disconnect_finalize", "resolve_handler"} = {}
  BY <1>1, <1>3 DEF IInv, Connection, Closing, Finalizing, Starting, Resolves, Resolving
<1>5. tx.pending = FALSE /\ tx.write = FALSE /\ tx.queue = 0
  <2>1. tx.pending \in BOOLEAN /\ tx.write \in BOOLEAN /\ tx.queue \in Nat
    BY DEF IInv, Types, Buffer
  <2>2. "onSend" \notin Names(ioq)
    BY <1>1 DEF Arrivals
  <2>3. ~tx.pending /\ ~(tx.queue > 0)
    BY <1>3, <2>2 DEF IInv, Writes
  <2>. QED  BY <1>3, <2>1, <2>3
<1>6. endpoints > 0 /\ shares = 0
  BY <1>3 DEF IInv, EndPoints, Login, Unasked, Starting
<1>7. session = "authorized" => uri.mode = 1
  BY <1>3 DEF IInv, Login, Progress, Starting
<1>. QED  BY <1>1, <1>2, <1>3, <1>4, <1>5, <1>6, <1>7 DEF q, Arrivals

\* connect_handler: the first read and the login request start.
LEMMA ConnectSucceededKeeps == IInv /\ ConnectSucceeded => IInv'
<1>. SUFFICES ASSUME IInv, ConnectSucceeded PROVE IInv'
  OBVIOUS
<1>. DEFINE q == Tail(ioq)
<1>1. /\ ~crashed /\ Queue(q) /\ Names(ioq) = Names(q) \cup {"connect_handler"}
      /\ Names(q) \cap {"connect_handler", "start_connect", "onRecv", "onSend",
           "onSSLShutdown", "disconnect_finalize", "resolve_handler"} = {}
      /\ Lines(q) = {}
      /\ m_connecting /\ ~m_connected /\ ~m_disconnecting
      /\ op \cap {"connect", "read", "shutdown", "resolve"} = {}
      /\ tx.pending = FALSE /\ tx.write = FALSE /\ tx.queue = 0
      /\ endpoints > 0 /\ shares = 0
      /\ session = "authorized" => uri.mode = 1
  BY Connects DEF ConnectSucceeded
<1>2. /\ socket' = "open" /\ hasConn /\ m_connecting' = FALSE /\ m_connected' = TRUE
      /\ uri' = [uri EXCEPT !.responds = TRUE, !.confirmed = @ \/ uri.fixed]
      /\ op' = op \cup {"read"}
      /\ pleas' = 1 /\ overdue' = FALSE
      /\ asked' = "login" /\ ioq' = q
      /\ UNCHANGED <<hasConn, m_disconnecting, shares, session, timer, endpoints, crashed>>
  BY DEF ConnectSucceeded, LoginPlea
<1>3. tx' = [queue |-> 0, pending |-> TRUE, write |-> TRUE]
  BY <1>1 DEF ConnectSucceeded
<1>. HIDE DEF q
<1>4. /\ uri' \in Definition /\ uri'.secure = uri.secure /\ uri'.mode = uri.mode
      /\ uri.confirmed => uri'.confirmed
  <2>1. uri \in Definition /\ (uri.confirmed \/ uri.fixed) \in BOOLEAN
    BY DEF IInv, Types, Data
  <2>. QED  BY <1>2, <2>1 DEF Definition
<1>5. Types'
  <2>1. Flags'
    BY <1>2 DEF IInv, Types, Flags
  <2>2. Data' /\ tx' \in Buffer
    BY <1>2, <1>3, <1>4 DEF IInv, Types, Data, Buffer, Request, Operation
  <2>. QED  BY <1>1, <1>2, <2>1, <2>2 DEF IInv, Types, Counts
<1>6. ShutdownLast(ioq') /\ FinalizeLast(ioq') /\ ConnectLast(ioq')
  BY <1>1, <1>2, Absent
<1>7. Connection'
  BY <1>1, <1>2, <1>3, <1>4, <1>6
     DEF Connection, Attempt, Apart, Resolves, Closing, Order, Settled,
         Starting, Resolving, Finalizing, Traffic
<1>8. Reads' /\ Writes'
  BY <1>1, <1>2, <1>3 DEF Reads, Writes
<1>9. Asked' /\ Unasked' /\ Owner' /\ Progress'
  BY <1>1, <1>2, <1>4 DEF IInv, Login, Asked, Unasked, Owner, Progress, Starting, Resolving
<1>10. Watched'
  BY <1>1, <1>2 DEF Watched, Bit
<1>11. EndPoints' /\ Ticks'
  BY <1>1, <1>2 DEF IInv, EndPoints, Ticks
<1>. QED  BY <1>5, <1>7, <1>8, <1>9, <1>10, <1>11 DEF IInv, Login

\* connect_handler whose TLS handshake failed posts disconnect.
LEMMA HandshakeFailedKeeps == IInv /\ HandshakeFailed => IInv'
<1>. SUFFICES ASSUME IInv, HandshakeFailed PROVE IInv'
  OBVIOUS
<1>. DEFINE q == Tail(ioq)
            m == Posted("disconnect")
<1>1. /\ ~crashed /\ Queue(q) /\ Names(ioq) = Names(q) \cup {"connect_handler"}
      /\ Names(q) \cap {"connect_handler", "start_connect", "onRecv", "onSend",
           "onSSLShutdown", "disconnect_finalize", "resolve_handler"} = {}
      /\ Lines(q) = {}
      /\ m_connecting /\ ~m_connected /\ ~m_disconnecting
      /\ op \cap {"connect", "read", "shutdown", "resolve"} = {}
      /\ tx.pending = FALSE /\ tx.write = FALSE /\ tx.queue = 0
      /\ endpoints > 0 /\ shares = 0
      /\ session = "authorized" => uri.mode = 1
  BY Connects DEF HandshakeFailed
<1>2. /\ socket' = "open" /\ hasConn /\ m_connecting' = FALSE /\ m_connected' = TRUE
      /\ uri' = [uri EXCEPT !.responds = TRUE, !.unrecoverable = TRUE]
      /\ tx' = [tx EXCEPT !.queue = 0]
      /\ ioq' = Append(q, m)
      /\ UNCHANGED <<hasConn, m_disconnecting, op, asked, shares, session, pleas, overdue, timer,
                     endpoints, crashed>>
  BY DEF HandshakeFailed, watch
<1>3. m \in Handler /\ m.h = "disconnect"
  BY HandlersAre
<1>. HIDE DEF q, m
<1>4. Queue(ioq') /\ Names(ioq') = Names(q) \cup {"disconnect"} /\ Lines(ioq') = Lines(q)
  BY <1>1, <1>2, <1>3, Adds DEF Singles
<1>5. /\ tx' \in Buffer /\ tx'.pending = FALSE /\ tx'.write = FALSE /\ tx'.queue = 0
  BY <1>1, <1>2 DEF IInv, Types, Buffer
<1>6. /\ uri' \in Definition /\ uri'.secure = uri.secure /\ uri'.mode = uri.mode
      /\ uri'.confirmed = uri.confirmed
  BY <1>2 DEF IInv, Types, Data, Definition
<1>7. Types'
  <2>1. Flags'
    BY <1>2 DEF IInv, Types, Flags
  <2>2. Data'
    BY <1>2, <1>6 DEF IInv, Types, Data
  <2>. QED  BY <1>2, <1>4, <1>5, <2>1, <2>2 DEF IInv, Types, Counts
<1>8. ShutdownLast(ioq') /\ FinalizeLast(ioq') /\ ConnectLast(ioq')
  BY <1>1, <1>4, Absent
<1>9. Connection'
  BY <1>1, <1>2, <1>4, <1>5, <1>6, <1>8
     DEF Connection, Attempt, Apart, Resolves, Closing, Order, Settled,
         Starting, Resolving, Finalizing, Traffic
<1>10. Reads' /\ Writes'
  BY <1>1, <1>2, <1>4, <1>5 DEF Reads, Writes
<1>11. Login'
  BY <1>1, <1>2, <1>4, <1>6
     DEF IInv, Login, Asked, Unasked, Watched, Owner, Progress, Starting, Resolving
<1>12. EndPoints' /\ Ticks'
  BY <1>1, <1>2, <1>4 DEF IInv, EndPoints, Ticks
<1>. QED  BY <1>7, <1>9, <1>10, <1>11, <1>12 DEF IInv

\* send() keeps the send buffer in order; it writes only to a connection.
LEMMA SendKeeps ==
  ASSUME IInv, NEW n \in Nat, tx' = Sent(n, isConnected)
  PROVE  /\ tx' \in Buffer
         /\ tx'.write => tx.write \/ isConnected
         /\ tx'.write => tx'.pending /\ "onSend" \notin Names(ioq)
         /\ tx'.pending \/ tx'.queue > 0 => tx'.write \/ "onSend" \in Names(ioq)
         /\ ~tx'.pending /\ "onSend" \in Names(ioq) => ~isConnected
         /\ n = 0 => tx' = tx
<1>1. tx \in Buffer /\ isConnected \in BOOLEAN
  BY DEF IInv, Types, Flags, isConnected, isPendingState
<1>2. /\ tx' \in Buffer
      /\ tx'.write <=> tx.write \/ (n > 0 /\ ~tx.pending /\ isConnected)
      /\ tx'.pending <=> tx.pending \/ (n > 0 /\ isConnected)
      /\ tx'.queue > 0 => tx'.pending \/ (n = 0 /\ tx.queue > 0)
      /\ n = 0 => tx' = tx
  BY <1>1, Sends
<1>3. Writes
  BY DEF IInv
<1>4. tx'.write => tx'.pending /\ "onSend" \notin Names(ioq)
  BY <1>2, <1>3 DEF Writes
<1>5. tx'.pending => tx'.write \/ "onSend" \in Names(ioq)
  BY <1>2, <1>3 DEF Writes
<1>6. tx'.queue > 0 => tx'.write \/ "onSend" \in Names(ioq)
  BY <1>2, <1>3, <1>5 DEF Writes
<1>7. ~tx'.pending /\ "onSend" \in Names(ioq) => ~isConnected
  BY <1>2, <1>3 DEF Writes
<1>. QED  BY <1>2, <1>4, <1>5, <1>6, <1>7

\* The work loop's turn: what is queued behind it, and the keep-alive.
LEMMA Turns ==
  ASSUME IInv, WorkloopTimer
  PROVE  /\ ~crashed /\ hasConn /\ Queue(Tail(ioq))
         /\ Names(ioq) = Names(Tail(ioq)) \cup {"workloop_timer"}
         /\ "workloop_timer" \notin Names(Tail(ioq)) /\ Lines(Tail(ioq)) = Lines(ioq)
         /\ ShutdownLast(Tail(ioq)) /\ FinalizeLast(Tail(ioq))
         /\ socket = "open" => ConnectLast(Tail(ioq))
         /\ isConnected => endpoints > 0
         /\ tx' \in Buffer
         /\ tx'.write => tx.write \/ isConnected
         /\ tx'.write => tx'.pending /\ "onSend" \notin Names(ioq)
         /\ tx'.pending \/ tx'.queue > 0 => tx'.write \/ "onSend" \in Names(ioq)
         /\ ~tx'.pending /\ "onSend" \in Names(ioq) => ~isConnected
         /\ session = "none" => tx' = tx
         /\ UNCHANGED <<hasConn, m_connecting, m_connected, m_disconnecting, session, shares,
                        asked, crashed, uri>>
<1>1. PICK n \in Noops : tx' = Sent(n, isConnected)
  BY DEF WorkloopTimer
<1>2. n \in Nat /\ (session = "none" => n = 0)
  BY DEF Noops
<1>3. isConnected => endpoints > 0
  <2>1. endpoints \in Nat
    BY DEF IInv, Types, Counts
  <2>2. isConnected => ~(endpoints = 0)
    BY Running DEF WorkloopTimer
  <2>. QED  BY <2>1, <2>2
<1>4. /\ ~crashed /\ hasConn /\ Queue(Tail(ioq))
      /\ Names(ioq) = Names(Tail(ioq)) \cup {"workloop_timer"}
      /\ "workloop_timer" \notin Names(Tail(ioq)) /\ Lines(Tail(ioq)) = Lines(ioq)
      /\ ShutdownLast(Tail(ioq)) /\ FinalizeLast(Tail(ioq))
      /\ socket = "open" => ConnectLast(Tail(ioq))
  BY Running DEF WorkloopTimer, Singles
<1>5. /\ tx' \in Buffer
      /\ tx'.write => tx.write \/ isConnected
      /\ tx'.write => tx'.pending /\ "onSend" \notin Names(ioq)
      /\ tx'.pending \/ tx'.queue > 0 => tx'.write \/ "onSend" \in Names(ioq)
      /\ ~tx'.pending /\ "onSend" \in Names(ioq) => ~isConnected
      /\ n = 0 => tx' = tx
  BY <1>1, <1>2, SendKeeps
<1>. QED  BY <1>2, <1>3, <1>4, <1>5 DEF WorkloopTimer, flags

\* workloop_timer_elapsed with nothing to do.
LEMMA TimerTicksKeeps == IInv /\ TimerTicks => IInv'
<1>. SUFFICES ASSUME IInv, TimerTicks PROVE IInv'
  OBVIOUS
<1>. DEFINE q == Tail(ioq)
<1>1. /\ Queue(q) /\ Names(ioq) = Names(q) \cup {"workloop_timer"}
      /\ "workloop_timer" \notin Names(q) /\ Lines(q) = Lines(ioq)
      /\ ShutdownLast(q) /\ FinalizeLast(q) /\ (socket = "open" => ConnectLast(q))
      /\ isConnected => endpoints > 0
      /\ tx' \in Buffer
      /\ tx'.write => tx.write \/ isConnected
      /\ tx'.write => tx'.pending /\ "onSend" \notin Names(ioq)
      /\ tx'.pending \/ tx'.queue > 0 => tx'.write \/ "onSend" \in Names(ioq)
      /\ ~tx'.pending /\ "onSend" \in Names(ioq) => ~isConnected
      /\ session = "none" => tx' = tx
  BY Turns DEF TimerTicks
<1>2. /\ ioq' = q /\ timer' = TRUE
      /\ UNCHANGED <<uri, hasConn, m_connecting, m_connected, m_disconnecting, socket, session,
                     pleas, overdue, endpoints, op, asked, shares, crashed>>
  BY DEF TimerTicks, WorkloopTimer, Resubmit, flags
<1>. HIDE DEF q
<1>3. isConnected' = isConnected
  BY <1>2 DEF isConnected, isPendingState
<1>4. isConnected => m_connected /\ ~m_disconnecting /\ ~m_connecting
  BY DEF isConnected, isPendingState
<1>5. Types'
  <2>1. Flags'
    BY <1>2 DEF IInv, Types, Flags
  <2>. QED  BY <1>1, <1>2, <2>1 DEF IInv, Types, Data, Counts
<1>6. Connection'
  BY <1>1, <1>2, <1>4
     DEF IInv, Connection, Attempt, Apart, Resolves, Closing, Order, Settled,
         Starting, Resolving, Finalizing, Traffic
<1>7. Reads' /\ Writes'
  BY <1>1, <1>2, <1>3 DEF IInv, Reads, Writes
<1>8. Login'
  BY <1>1, <1>2, <1>3 DEF IInv, Login, Asked, Unasked, Watched, Owner, Progress, Starting, Resolving
<1>9. EndPoints' /\ Ticks'
  BY <1>1, <1>2, <1>3 DEF IInv, EndPoints, Ticks
<1>. QED  BY <1>5, <1>6, <1>7, <1>8, <1>9 DEF IInv

\* The timer gives a connection up: by disconnect(), for which an end point is
\* dropped, or by a refusal that is simulated.
LEMMA GivesUpKeeps ==
  ASSUME IInv, WorkloopTimer, isConnected, ClearPleas, Resubmit, UNCHANGED <<socket, op>>,
         \/ /\ ioq' = Append(Tail(ioq), [h |-> "processResponse", id |-> "login", ok |-> FALSE])
            /\ UNCHANGED endpoints
         \/ /\ ioq' = Append(Tail(ioq), Posted("disconnect"))
            /\ endpoints' = endpoints - 1
  PROVE  IInv'
<1>. DEFINE q == Tail(ioq)
            fake == [h |-> "processResponse", id |-> "login", ok |-> FALSE]
            quit == Posted("disconnect")
<1>1. /\ ~crashed /\ Queue(q) /\ Names(ioq) = Names(q) \cup {"workloop_timer"}
      /\ "workloop_timer" \notin Names(q) /\ Lines(q) = Lines(ioq)
      /\ isConnected => endpoints > 0
      /\ tx' \in Buffer
      /\ tx'.write => tx.write \/ isConnected
      /\ tx'.write => tx'.pending /\ "onSend" \notin Names(ioq)
      /\ tx'.pending \/ tx'.queue > 0 => tx'.write \/ "onSend" \in Names(ioq)
      /\ ~tx'.pending /\ "onSend" \in Names(ioq) => ~isConnected
      /\ UNCHANGED <<uri, hasConn, m_connecting, m_connected, m_disconnecting, session,
                     asked, shares, crashed>>
  BY Turns
<1>2. /\ timer' = TRUE /\ pleas' = 0 /\ overdue' = FALSE
  BY DEF Resubmit, ClearPleas
<1>3. /\ fake \in Handler /\ fake.h = "processResponse" /\ fake.id = "login" /\ fake.ok = FALSE
      /\ quit \in Handler /\ quit.h = "disconnect"
  BY HandlersAre
<1>4. \/ ioq' = Append(q, fake) /\ endpoints' = endpoints
      \/ ioq' = Append(q, quit) /\ endpoints' = endpoints - 1
  OBVIOUS
<1>. HIDE DEF q, fake, quit
<1>5. PICK m \in {fake, quit} :
        /\ ioq' = Append(q, m)
        /\ \/ m = fake /\ endpoints' = endpoints
           \/ m = quit /\ endpoints' = endpoints - 1
  BY <1>4
<1>6. /\ m \in Handler /\ m.h \in {"processResponse", "disconnect"}
      /\ m.h = "processResponse" => m.id = "login" /\ ~m.ok
      /\ m.h \notin Singles /\ m.h # "onRecv"
  BY <1>3 DEF Singles
<1>7. /\ Queue(Append(q, m)) /\ Names(Append(q, m)) = Names(q) \cup {m.h}
      /\ Lines(Append(q, m)) = Lines(q)
      /\ m.h = "disconnect" => ClosedFirst(Append(q, m))
  BY <1>1, <1>6, Adds
<1>8. /\ m_connected /\ ~m_connecting /\ ~m_disconnecting /\ socket = "open"
      /\ "shutdown" \notin op /\ "resolve" \notin op /\ "connect" \notin op
      /\ Names(q) \cap {"onSSLShutdown", "disconnect_finalize", "resolve_handler",
                        "connect_handler", "start_connect"} = {}
  BY <1>1 DEF isConnected, isPendingState, IInv, Connection, Attempt, Apart, Starting, Closing,
              Finalizing, Resolves, Resolving, Settled
<1>9. ShutdownLast(ioq') /\ FinalizeLast(ioq') /\ ConnectLast(ioq')
  BY <1>5, <1>6, <1>7, <1>8, Absent
<1>10. isConnected'
  BY <1>1, <1>8 DEF isConnected, isPendingState
<1>11. endpoints \in Nat /\ endpoints > 0 /\ endpoints' \in Nat
       /\ (m.h = "processResponse" => endpoints' > 0)
  <2>1. endpoints \in Nat /\ endpoints > 0
    BY <1>1 DEF IInv, Types, Counts
  <2>2. quit.h # "processResponse"
    BY <1>3
  <2>. QED  BY <1>5, <2>1, <2>2
<1>12. Types'
  <2>1. Flags'
    BY <1>1, <1>2 DEF IInv, Types, Flags
  <2>. QED  BY <1>1, <1>2, <1>5, <1>7, <1>11, <2>1 DEF IInv, Types, Data, Counts
<1>13. Connection'
  BY <1>1, <1>5, <1>6, <1>7, <1>8, <1>9
     DEF IInv, Connection, Attempt, Apart, Resolves, Closing, Order, Settled,
         Starting, Resolving, Finalizing, Traffic
<1>14. Reads' /\ Writes'
  BY <1>1, <1>5, <1>6, <1>7, <1>10 DEF IInv, Reads, Writes
<1>15. Login'
  BY <1>1, <1>5, <1>6, <1>7, <1>8
     DEF IInv, Login, Asked, Unasked, Watched, Owner, Progress, Starting, Resolving
<1>16. EndPoints' /\ Ticks'
  BY <1>1, <1>5, <1>6, <1>7, <1>8, <1>11 DEF IInv, EndPoints, Ticks
<1>. QED  BY <1>12, <1>13, <1>14, <1>15, <1>16 DEF IInv

\* workloop_timer_elapsed: no answer in time.
LEMMA TimerNoResponseKeeps == IInv /\ TimerNoResponse => IInv'
BY GivesUpKeeps DEF TimerNoResponse

\* workloop_timer_elapsed: no new work in time.
LEMMA TimerNoWorkKeeps == IInv /\ TimerNoWork => IInv'
BY GivesUpKeeps DEF TimerNoWork

\* workloop_timer_elapsed closes the socket of a pending operation.
LEMMA TimerClosesSocketKeeps == IInv /\ TimerClosesSocket => IInv'
<1>. SUFFICES ASSUME IInv, TimerClosesSocket PROVE IInv'
  OBVIOUS
<1>. DEFINE q == Tail(ioq)
            r == q \o Aborted
            m == Posted("onSSLShutdown")
<1>1. /\ ~crashed /\ Queue(q) /\ Names(ioq) = Names(q) \cup {"workloop_timer"}
      /\ "workloop_timer" \notin Names(q) /\ Lines(q) = Lines(ioq)
      /\ ShutdownLast(q) /\ FinalizeLast(q)
      /\ tx' \in Buffer
      /\ tx'.write => tx.write \/ isConnected
      /\ tx'.write => tx'.pending /\ "onSend" \notin Names(ioq)
      /\ tx'.pending \/ tx'.queue > 0 => tx'.write \/ "onSend" \in Names(ioq)
      /\ ~tx'.pending /\ "onSend" \in Names(ioq) => ~isConnected
      /\ session = "none" => tx' = tx
      /\ UNCHANGED <<uri, hasConn, m_connecting, m_connected, m_disconnecting, session,
                     asked, shares, crashed>>
  BY Turns DEF TimerClosesSocket
<1>2. /\ isPendingState
      /\ socket' = "closed" /\ op' = op \ {"connect", "shutdown"}
      /\ ioq' = r \o (IF "shutdown" \in op THEN <<m>> ELSE <<>>)
      /\ pleas' = pleas /\ overdue' = overdue /\ timer' = timer /\ endpoints' = endpoints
  BY DEF TimerClosesSocket, ClosesPending, watch
<1>3. m \in Handler /\ m.h = "onSSLShutdown"
  BY HandlersAre
<1>4. /\ ~m_connected /\ "read" \notin op /\ ~tx.write /\ ~isConnected
      /\ m_connecting \/ m_disconnecting
      /\ "connect" \in op => m_connecting /\ "connect_handler" \notin Names(q)
      /\ "resolve" \notin op /\ "resolve_handler" \notin Names(q)
      /\ "shutdown" \in op => /\ m_disconnecting /\ "onSSLShutdown" \notin Names(q)
                              /\ "disconnect_finalize" \notin Names(q)
      /\ ~(m_connecting /\ m_disconnecting)
  BY <1>1, <1>2 DEF IInv, Connection, Attempt, Apart, Starting, Closing, Finalizing, Resolves,
                    Resolving, isConnected, isPendingState
<1>5. tx.write \in BOOLEAN
  BY DEF IInv, Types, Buffer
<1>. HIDE DEF q
<1>6. /\ Queue(r)
      /\ \A f : f \in Names(r) <=> \/ f \in Names(q)
                                   \/ f = "onRecv" /\ "read" \in op
                                   \/ f = "onSend" /\ tx.write
                                   \/ f = "connect_handler" /\ "connect" \in op
      /\ Lines(q) \subseteq Lines(r) /\ Lines(r) \subseteq Lines(q) \cup {"none"}
      /\ "read" \notin op /\ ~tx.write /\ "connect" \notin op => r = q
  BY <1>1, <1>4, <1>5, Aborts
<1>. HIDE DEF r, m
<1>7. ioq' = IF "shutdown" \in op THEN Append(r, m) ELSE r
  BY <1>2, <1>3, <1>6, Maybe
<1>8. /\ Queue(ioq')
      /\ \A f : f \in Names(ioq') <=> \/ f \in Names(q)
                                      \/ f = "connect_handler" /\ "connect" \in op
                                      \/ f = "onSSLShutdown" /\ "shutdown" \in op
      /\ Lines(q) \subseteq Lines(ioq') /\ Lines(ioq') \subseteq Lines(q) \cup {"none"}
      /\ ShutdownLast(ioq') /\ FinalizeLast(ioq')
  <2>1. CASE "shutdown" \in op
    <3>1. r = q /\ ioq' = Append(r, m) /\ "connect" \notin op
      BY <1>4, <1>6, <1>7, <2>1
    <3>2. m.h \notin Unfinished /\ m.h # "processResponse" /\ m.h # "onRecv" /\ m.h # "disconnect"
          /\ m.h \notin Names(q)
      BY <1>3, <1>4, <2>1 DEF Unfinished
    <3>3. /\ Queue(Append(q, m)) /\ Names(Append(q, m)) = Names(q) \cup {m.h}
          /\ Lines(Append(q, m)) = Lines(q)
          /\ ShutdownLast(Append(q, m)) /\ FinalizeLast(Append(q, m))
      BY <1>1, <1>3, <3>2, Adds
    <3>. QED  BY <1>3, <2>1, <3>1, <3>3
  <2>2. CASE "shutdown" \notin op /\ "connect" \in op
    <3>1. ioq' = r
      BY <1>7, <2>2
    <3>2. "onSSLShutdown" \notin Names(q) /\ "disconnect_finalize" \notin Names(q)
      BY <1>1, <1>4, <2>2 DEF IInv, Connection, Closing, Finalizing
    <3>3. ShutdownLast(r) /\ FinalizeLast(r)
      BY <1>6, <3>2, Absent
    <3>. QED  BY <1>4, <1>6, <2>2, <3>1, <3>3
  <2>3. CASE "shutdown" \notin op /\ "connect" \notin op
    <3>1. ioq' = q
      BY <1>4, <1>6, <1>7, <2>3
    <3>. QED  BY <1>1, <2>3, <3>1
  <2>. QED  BY <2>1, <2>2, <2>3
<1>9. ~isConnected'
  BY <1>1, <1>4 DEF isConnected
<1>10. Types'
  <2>1. Flags'
    BY <1>1, <1>2 DEF IInv, Types, Flags
  <2>2. Data'
    BY <1>1, <1>2 DEF IInv, Types, Data
  <2>. QED  BY <1>1, <1>2, <1>8, <2>1, <2>2 DEF IInv, Types, Counts
<1>11. Connection'
  BY <1>1, <1>2, <1>4, <1>8
     DEF IInv, Connection, Attempt, Apart, Resolves, Closing, Order, Settled,
         Starting, Resolving, Finalizing, Traffic
<1>12. Reads' /\ Writes'
  BY <1>1, <1>2, <1>4, <1>8, <1>9 DEF Reads, Writes
<1>13. Login'
  BY <1>1, <1>2, <1>4, <1>8, <1>9
     DEF IInv, Login, Asked, Unasked, Watched, Owner, Progress, Starting, Resolving, Answers
<1>14. EndPoints' /\ Ticks'
  BY <1>1, <1>2, <1>4, <1>8, <1>9 DEF IInv, EndPoints, Ticks
<1>. QED  BY <1>10, <1>11, <1>12, <1>13, <1>14 DEF IInv

\* A handler that finds m_conn or m_socket unset ends the program.
LEMMA LateHandlerKeeps == IInv /\ LateHandler => IInv'
<1>1. IInv => m_connected \in BOOLEAN
  BY DEF IInv, Types, Flags
<1>. QED  BY <1>1, CrashKeeps DEF LateHandler

\* The session and the request that follow a login, by mode.
LEMMA LoginSteps ==
  ASSUME NEW mode \in 0..3
  PROVE  /\ LoginStep(mode).session \in Session \ {"none"}
         /\ LoginStep(mode).next \in Request \ {"login"}
         /\ LoginStep(mode).lines \in Nat
         /\ LoginStep(mode).session = "authorized" => mode = 1 /\ LoginStep(mode).next = "none"
         /\ mode = 1 => LoginStep(mode).session = "authorized"
<1>1. CASE mode = 3
  BY <1>1 DEF LoginStep, Session, Request
<1>2. CASE mode = 2
  BY <1>2 DEF LoginStep, Session, Request
<1>3. CASE mode = 1
  BY <1>3 DEF LoginStep, Session, Request
<1>4. CASE mode = 0
  BY <1>4 DEF LoginStep, Session, Request
<1>. QED  BY <1>1, <1>2, <1>3, <1>4

\* What a response does, whichever it is, but for the login's own progress.
Effect ==
  /\ \/ ioq' = Tail(ioq)
     \/ ioq' = Append(Tail(ioq), Posted("disconnect"))
  /\ uri' \in Definition /\ uri'.secure = uri.secure /\ uri'.mode = uri.mode
  /\ session' \in Session /\ asked' \in Request
  /\ pleas' \in Nat /\ overdue' \in BOOLEAN
  /\ \E n \in Nat : tx' = Sent(n, isConnected)

\* The login's own progress.
Proceeds ==
  /\ session' # "none" => uri'.confirmed
  /\ asked' = asked \/ asked' # "login"
  /\ \/ session' = session
     \/ session' # "authorized"
     \/ session' = "authorized" /\ asked' = "none" /\ (uri.mode = 1 \/ ~Starting)
  /\ asked' = "subscribe" => asked = "subscribe" \/ session' # "authorized"

\* What processResponse does to the session, the pleas and the queue.
LEMMA ResponseEffect ==
  ASSUME IInv, NEW f \in {"onRecv", "processResponse"}, Runs(f),
         ProcessResponse(Head(ioq), Tail(ioq))
  PROVE  /\ Effect /\ Proceeds
         /\ f = "processResponse" =>
              /\ UNCHANGED <<session, asked>>
              /\ ioq' = Append(Tail(ioq), Posted("disconnect"))
         /\ \/ ioq' = Append(Tail(ioq), Posted("disconnect"))
            \/ asked' # "login"
            \/ "share" \in Lines(ioq) /\ asked' = asked /\ (pleas > 0 => pleas' = pleas - 1)
<1>. DEFINE m == Head(ioq)
            q == Tail(ioq)
            quit == Posted("disconnect")
<1>1. /\ f = "onRecv" => m.id \in Lines(ioq)
      /\ f = "processResponse" => m.id = "login" /\ ~m.ok
  BY Running
<1>2. /\ uri \in Definition /\ session \in Session /\ asked \in Request /\ pleas \in Nat
      /\ overdue \in BOOLEAN /\ uri.mode \in 0..3
  BY DEF IInv, Types, Data, Counts, Flags, Definition
<1>3. tx = Sent(0, isConnected)
  BY DEF Sent
<1>4. /\ DequeuePlea => pleas' \in Nat /\ overdue' \in BOOLEAN /\ (pleas > 0 => pleas' = pleas - 1)
      /\ ReplacePlea => pleas' \in Nat /\ overdue' \in BOOLEAN
  <2>1. ASSUME DequeuePlea PROVE pleas' \in Nat /\ (pleas > 0 => pleas' = pleas - 1)
    BY <1>2, <2>1 DEF DequeuePlea
  <2>2. ASSUME ReplacePlea PROVE pleas' \in Nat
    BY <1>2, <2>2 DEF ReplacePlea
  <2>3. (pleas > 1 /\ overdue) \in BOOLEAN
    OBVIOUS
  <2>4. DequeuePlea \/ ReplacePlea => overdue' \in BOOLEAN
    BY <2>3 DEF DequeuePlea, ReplacePlea
  <2>. QED  BY <2>1, <2>2, <2>4
<1>5. session # "none" => uri.confirmed
  BY DEF IInv, Login, Progress
<1>6. f = "onRecv" /\ m.id \in Answers => asked = "none"
  BY <1>1 DEF IInv, Login, Asked
<1>. HIDE DEF m, q, quit
<1>7. CASE InvalidResponse(m, q)
  BY <1>1, <1>2, <1>3, <1>5, <1>7 DEF InvalidResponse, Effect, Proceeds, q, quit
<1>8. CASE LoginResponse(m, q)
  <2>. DEFINE s == LoginStep(uri.mode)
  <2>1. /\ s.session \in Session \ {"none"} /\ s.next \in Request \ {"login"} /\ s.lines \in Nat
        /\ s.session = "authorized" => uri.mode = 1 /\ s.next = "none"
        /\ uri.mode = 1 => s.session = "authorized"
    BY <1>2, LoginSteps
  <2>2. /\ m.ok /\ session' = s.session /\ asked' = s.next /\ tx' = Sent(s.lines, isConnected)
        /\ uri' = [uri EXCEPT !.confirmed = TRUE] /\ ioq' = q
        /\ DequeuePlea \/ ReplacePlea
    BY <1>8 DEF LoginResponse
  <2>. HIDE DEF s
  <2>3. uri' \in Definition /\ uri'.secure = uri.secure /\ uri'.mode = uri.mode /\ uri'.confirmed = TRUE
    BY <1>2, <2>2 DEF Definition
  <2>4. Effect
    BY <1>4, <2>1, <2>2, <2>3 DEF Effect, q
  <2>5. Proceeds
    BY <2>1, <2>2, <2>3 DEF Proceeds
  <2>. QED  BY <1>1, <2>1, <2>2, <2>4, <2>5
<1>9. CASE SubscribeResponse(m, q)
  <2>1. /\ m.ok /\ session # "none" /\ session' = "authorizing" /\ asked' = "authorize"
        /\ tx' = Sent(1, isConnected) /\ uri' = uri /\ ioq' = q /\ ReplacePlea
    BY <1>9 DEF SubscribeResponse
  <2>2. Effect
    BY <1>2, <1>4, <2>1 DEF Effect, q, Session, Request
  <2>. QED  BY <1>1, <1>5, <2>1, <2>2 DEF Proceeds
<1>10. CASE AuthorizeResponse(m, q)
  <2>1. /\ m.ok /\ m.id = "authorize" /\ session # "none" /\ session' = "authorized"
        /\ DequeuePlea /\ ioq' = q /\ uri' = uri /\ tx' = tx /\ asked' = asked
    BY <1>10 DEF AuthorizeResponse
  <2>2. f = "onRecv" /\ asked = "none" /\ ~Starting
    BY <1>1, <1>6, <2>1 DEF Answers, IInv, Login, Progress
  <2>3. Effect
    BY <1>2, <1>3, <1>4, <2>1 DEF Effect, q, Session
  <2>. QED  BY <1>5, <2>1, <2>2, <2>3 DEF Proceeds
<1>11. CASE RefusedResponse(m, q)
  <2>1. /\ uri' = [uri EXCEPT !.unrecoverable = @ \/ uri.confirmed \/ m.id # "login"]
        /\ DequeuePlea /\ ioq' = Append(q, quit)
        /\ session' = session /\ tx' = tx /\ asked' = asked
    BY <1>11 DEF RefusedResponse, quit
  <2>2. (uri.unrecoverable \/ uri.confirmed \/ m.id # "login") \in BOOLEAN
    OBVIOUS
  <2>3. uri' \in Definition /\ uri'.secure = uri.secure /\ uri'.mode = uri.mode
        /\ uri'.confirmed = uri.confirmed
    BY <1>2, <2>1, <2>2 DEF Definition
  <2>4. Effect
    BY <1>2, <1>3, <1>4, <2>1, <2>3 DEF Effect, q, quit
  <2>. QED  BY <1>5, <2>1, <2>3, <2>4 DEF Proceeds, q, quit
<1>12. CASE UnnamedRefusal(m, q)
  <2>1. /\ m.id = "999" /\ (ioq' = q \/ ioq' = Append(q, quit))
        /\ UNCHANGED <<uri, session, pleas, overdue, tx, asked>>
    BY <1>12 DEF UnnamedRefusal, quit
  <2>2. f = "onRecv" /\ asked = "none"
    BY <1>1, <1>6, <2>1 DEF Answers
  <2>3. Effect
    BY <1>2, <1>3, <2>1 DEF Effect, q, quit
  <2>. QED  BY <1>5, <2>1, <2>2, <2>3 DEF Proceeds
<1>13. CASE ShareResponse(m, q)
  <2>1. /\ m.id = "share" /\ ioq' = q /\ DequeuePlea
        /\ UNCHANGED <<uri, session, tx, asked>>
    BY <1>13 DEF ShareResponse
  <2>2. Effect
    BY <1>2, <1>3, <1>4, <2>1 DEF Effect, q
  <2>. QED  BY <1>1, <1>4, <1>5, <2>1, <2>2 DEF Proceeds
<1>. QED
  <2>1. ProcessResponse(m, q)
    BY DEF m, q
  <2>. QED  BY <1>7, <1>8, <1>9, <1>10, <1>11, <1>12, <1>13, <2>1 DEF ProcessResponse, q, quit

\* disconnect() is posted, or not, while no disconnect_finalize is queued.
LEMMA Quits ==
  ASSUME NEW q, Queue(q), "disconnect_finalize" \notin Names(q), NEW r,
         r = q \/ r = Append(q, Posted("disconnect"))
  PROVE  /\ Queue(r) /\ Lines(r) = Lines(q)
         /\ Names(q) \subseteq Names(r) /\ Names(r) \subseteq Names(q) \cup {"disconnect"}
         /\ r = Append(q, Posted("disconnect")) => "disconnect" \in Names(r)
         /\ ShutdownLast(q) => ShutdownLast(r)
         /\ FinalizeLast(q) => FinalizeLast(r)
         /\ ConnectLast(q) => ConnectLast(r)
         /\ ClosedFirst(q) => ClosedFirst(r)
<1>. DEFINE m == Posted("disconnect")
<1>1. m \in Handler /\ m.h = "disconnect"
  BY HandlersAre
<1>. HIDE DEF m
<1>2. /\ m.h \notin Unfinished /\ m.h \notin Arrivals /\ m.h \notin Singles
      /\ m.h # "processResponse" /\ m.h # "onRecv"
  BY <1>1 DEF Unfinished, Arrivals, Singles
<1>3. /\ Queue(Append(q, m)) /\ Names(Append(q, m)) = Names(q) \cup {m.h}
      /\ Lines(Append(q, m)) = Lines(q)
      /\ ShutdownLast(q) => ShutdownLast(Append(q, m))
      /\ FinalizeLast(q) => FinalizeLast(Append(q, m))
      /\ ConnectLast(q) => ConnectLast(Append(q, m))
      /\ ClosedFirst(q) => ClosedFirst(Append(q, m))
  BY <1>1, <1>2, Adds
<1>4. CASE r = q /\ r # Append(q, m)
  BY <1>4 DEF m
<1>5. CASE r = Append(q, m)
  BY <1>1, <1>3, <1>5 DEF m
<1>. QED  BY <1>4, <1>5 DEF m

\* A response is processed; after a line that was received the next one is read.
LEMMA ResponseKeeps ==
  ASSUME IInv, NEW f \in {"onRecv", "processResponse"}, Runs(f),
         ProcessResponse(Head(ioq), Tail(ioq)),
         op' = IF f = "onRecv" /\ isConnected THEN op \cup {"read"} ELSE op,
         UNCHANGED <<hasConn, flags, socket, shares, timer, endpoints, crashed>>
  PROVE  IInv'
<1>. DEFINE q == Tail(ioq)
            m == Posted("disconnect")
<1>1. /\ ~crashed /\ Queue(q) /\ Names(ioq) = Names(q) \cup {f}
      /\ f = "onRecv" => "onRecv" \notin Names(q) /\ Lines(q) = {}
      /\ f = "processResponse" => Lines(q) = Lines(ioq)
      /\ ShutdownLast(q) /\ FinalizeLast(q) /\ (socket = "open" => ConnectLast(q))
      /\ isConnected /\ endpoints = 0 => ClosedFirst(q)
  BY Running DEF Singles
<1>2. /\ ioq' = q \/ ioq' = Append(q, m)
      /\ uri' \in Definition /\ uri'.secure = uri.secure /\ uri'.mode = uri.mode
      /\ session' \in Session /\ asked' \in Request
      /\ pleas' \in Nat /\ overdue' \in BOOLEAN
      /\ \E n \in Nat : tx' = Sent(n, isConnected)
      /\ Proceeds
      /\ f = "processResponse" => UNCHANGED <<session, asked>> /\ ioq' = Append(q, m)
      /\ \/ ioq' = Append(q, m)
         \/ asked' # "login"
         \/ "share" \in Lines(ioq) /\ asked' = asked /\ (pleas > 0 => pleas' = pleas - 1)
  BY ResponseEffect DEF Effect
<1>4. /\ hasConn' = hasConn /\ m_connecting' = m_connecting /\ m_connected' = m_connected
      /\ m_disconnecting' = m_disconnecting /\ socket' = socket /\ shares' = shares
      /\ timer' = timer /\ endpoints' = endpoints /\ crashed' = crashed
      /\ isConnected' = isConnected
  BY DEF flags, isConnected, isPendingState
<1>. HIDE DEF q, m
<1>5. /\ tx' \in Buffer
      /\ tx'.write => tx.write \/ isConnected
      /\ tx'.write => tx'.pending /\ "onSend" \notin Names(ioq)
      /\ tx'.pending \/ tx'.queue > 0 => tx'.write \/ "onSend" \in Names(ioq)
      /\ ~tx'.pending /\ "onSend" \in Names(ioq) => ~isConnected
  BY <1>2, SendKeeps
<1>6. "disconnect_finalize" \notin Names(q) /\ ~Resolving
  BY <1>1 DEF IInv, Connection, Order, Resolves, Resolving
<1>7. /\ Queue(ioq') /\ Lines(ioq') = Lines(q)
      /\ Names(q) \subseteq Names(ioq') /\ Names(ioq') \subseteq Names(q) \cup {"disconnect"}
      /\ ioq' = Append(q, m) => "disconnect" \in Names(ioq')
      /\ ShutdownLast(ioq') /\ FinalizeLast(ioq') /\ (socket = "open" => ConnectLast(ioq'))
      /\ isConnected /\ endpoints = 0 => ClosedFirst(ioq')
  BY <1>1, <1>2, <1>6, Quits DEF m
<1>8. isConnected => m_connected /\ ~m_connecting /\ ~m_disconnecting
  BY DEF isConnected, isPendingState
<1>9. Types'
  <2>1. Flags'
    BY <1>2, <1>4 DEF IInv, Types, Flags
  <2>2. Data'
    BY <1>2, <1>4 DEF IInv, Types, Data, Operation
  <2>. QED  BY <1>2, <1>4, <1>5, <1>7, <2>1, <2>2 DEF IInv, Types, Counts
<1>10. Connection'
  BY <1>1, <1>2, <1>4, <1>5, <1>6, <1>7, <1>8
     DEF IInv, Connection, Attempt, Apart, Resolves, Closing, Order, Settled,
         Starting, Resolving, Finalizing, Traffic
<1>11. Reads' /\ Writes'
  BY <1>1, <1>4, <1>5, <1>7 DEF IInv, Reads, Writes
<1>12. Unasked' /\ Owner' /\ (Starting' <=> Starting)
  BY <1>1, <1>4, <1>6, <1>7 DEF IInv, Login, Unasked, Owner, Starting, Resolving
<1>13. Asked'
  BY <1>1, <1>2, <1>7 DEF IInv, Login, Asked
<1>14. Progress'
  <2>1. Starting' <=> Starting
    BY <1>12
  <2>2. CASE f = "onRecv"
    <3>1. Lines(ioq') = {}
      BY <1>1, <1>7, <2>2
    <3>. QED  BY <1>2, <2>1, <3>1 DEF IInv, Login, Progress, Proceeds
  <2>3. CASE f = "processResponse"
    <3>1. Lines(ioq') = Lines(ioq) /\ session' = session /\ asked' = asked
      BY <1>1, <1>2, <1>7, <2>3
    <3>. QED  BY <1>2, <2>1, <3>1 DEF IInv, Login, Progress, Proceeds
  <2>. QED  BY <2>2, <2>3
<1>15. Watched'
  <2>. SUFFICES ASSUME asked' = "login", isConnected,
                       Names(ioq') \cap {"processResponse", "disconnect"} = {}
                PROVE  pleas' >= 1 + shares + Bit("share" \in Lines(ioq'))
    BY <1>4 DEF Watched
  <2>1. ~(ioq' = Append(q, m)) /\ f = "onRecv"
    BY <1>2, <1>7
  <2>2. "share" \in Lines(ioq) /\ asked = "login" /\ (pleas > 0 => pleas' = pleas - 1)
    BY <1>2, <2>1
  <2>3. Names(ioq) \cap {"processResponse", "disconnect"} = {}
    BY <1>1, <1>7, <2>1
  <2>4. pleas >= 1 + shares + 1
    BY <2>2, <2>3 DEF IInv, Login, Watched, Bit
  <2>5. Bit("share" \in Lines(ioq')) = 0
    BY <1>1, <1>7, <2>1 DEF Bit
  <2>6. pleas \in Nat /\ shares \in Nat
    BY DEF IInv, Types, Counts
  <2>. QED  BY <2>2, <2>4, <2>5, <2>6
<1>16. EndPoints' /\ Ticks'
  BY <1>1, <1>4, <1>7 DEF IInv, EndPoints, Ticks
<1>. QED  BY <1>9, <1>10, <1>11, <1>12, <1>13, <1>14, <1>15, <1>16 DEF IInv, Login

\* onRecvSocketDataCompleted with a line.
LEMMA OnRecvKeeps == IInv /\ OnRecv => IInv'
BY ResponseKeeps DEF OnRecv

\* The refusal that the timer simulates.
LEMMA FakeResponseKeeps == IInv /\ FakeResponse => IInv'
<1>. SUFFICES ASSUME IInv, FakeResponse PROVE IInv'
  OBVIOUS
<1>1. op' = IF "processResponse" = "onRecv" /\ isConnected THEN op \cup {"read"} ELSE op
  BY DEF FakeResponse
<1>. QED  BY <1>1, ResponseKeeps DEF FakeResponse

\* onRecvSocketDataCompleted with an error.
LEMMA OnRecvErrorKeeps == IInv /\ OnRecvError => IInv'
<1>. SUFFICES ASSUME IInv, OnRecvError PROVE IInv'
  OBVIOUS
<1>. DEFINE q == Tail(ioq)
            m == Posted("disconnect")
<1>1. /\ ~crashed /\ Queue(q) /\ Names(ioq) = Names(q) \cup {"onRecv"}
      /\ "onRecv" \notin Names(q) /\ Lines(q) = {}
      /\ ShutdownLast(q) /\ FinalizeLast(q) /\ (socket = "open" => ConnectLast(q))
      /\ isConnected /\ endpoints = 0 => ClosedFirst(q)
  BY Running DEF OnRecvError, Singles
<1>2. /\ uri' = [uri EXCEPT !.unrecoverable = @ \/ (isConnected /\ session = "authorizing")]
      /\ ioq' = q \o (IF isConnected THEN <<m>> ELSE <<>>)
      /\ UNCHANGED <<hasConn, m_connecting, m_connected, m_disconnecting, socket, op, tx, asked,
                     shares, session, pleas, overdue, timer, endpoints, crashed>>
  BY DEF OnRecvError, flags, net, watch
<1>3. m \in Handler
  BY HandlersAre
<1>. HIDE DEF q
<1>4. isConnected \in BOOLEAN /\ isConnected' = isConnected
  BY <1>2 DEF isConnected, isPendingState, IInv, Types, Flags
<1>5. ioq' = IF isConnected THEN Append(q, m) ELSE q
  <2>. HIDE DEF m
  <2>. QED  BY <1>1, <1>2, <1>3, <1>4, Maybe
<1>6. "disconnect_finalize" \notin Names(q) /\ ~Resolving
  BY <1>1 DEF IInv, Connection, Order, Resolves, Resolving
<1>7. /\ Queue(ioq') /\ Lines(ioq') = {}
      /\ Names(q) \subseteq Names(ioq') /\ Names(ioq') \subseteq Names(q) \cup {"disconnect"}
      /\ isConnected => "disconnect" \in Names(ioq')
      /\ ShutdownLast(ioq') /\ FinalizeLast(ioq') /\ (socket = "open" => ConnectLast(ioq'))
      /\ isConnected /\ endpoints = 0 => ClosedFirst(ioq')
  <2>1. ioq' = q \/ ioq' = Append(q, m)
    BY <1>5
  <2>. QED  BY <1>1, <1>5, <1>6, <2>1, Quits
<1>8. /\ uri' \in Definition /\ uri'.secure = uri.secure /\ uri'.mode = uri.mode
      /\ uri'.confirmed = uri.confirmed
  <2>1. (uri.unrecoverable \/ (isConnected /\ session = "authorizing")) \in BOOLEAN
    OBVIOUS
  <2>. QED  BY <1>2, <2>1 DEF IInv, Types, Data, Definition
<1>9. Types'
  <2>1. Flags'
    BY <1>2 DEF IInv, Types, Flags
  <2>. QED  BY <1>2, <1>7, <1>8, <2>1 DEF IInv, Types, Data, Counts
<1>10. Connection'
  BY <1>1, <1>2, <1>6, <1>7, <1>8
     DEF IInv, Connection, Attempt, Apart, Resolves, Closing, Order, Settled,
         Starting, Resolving, Finalizing, Traffic
<1>11. Reads' /\ Writes'
  BY <1>1, <1>2, <1>4, <1>7 DEF IInv, Reads, Writes
<1>12. Login'
  BY <1>1, <1>2, <1>4, <1>6, <1>7, <1>8
     DEF IInv, Login, Asked, Unasked, Watched, Owner, Progress, Starting, Resolving
<1>13. EndPoints' /\ Ticks'
  BY <1>1, <1>2, <1>4, <1>7 DEF IInv, EndPoints, Ticks
<1>. QED  BY <1>9, <1>10, <1>11, <1>12, <1>13 DEF IInv

\* A write has ended: the queue is sent or forgotten, and if it failed the
\* connection is given up.
LEMMA WriteEnds ==
  ASSUME IInv, Runs("onSend"), tx' \in Buffer, tx'.queue = 0, tx'.write => isConnected,
         tx'.pending <=> tx'.write,
         Queue(ioq'), Lines(ioq') = Lines(ioq),
         Names(Tail(ioq)) \subseteq Names(ioq'),
         Names(ioq') \subseteq Names(Tail(ioq)) \cup {"disconnect"},
         ShutdownLast(ioq'), FinalizeLast(ioq'), socket = "open" => ConnectLast(ioq'),
         isConnected /\ endpoints = 0 => ClosedFirst(ioq'),
         UNCHANGED <<uri, hasConn, flags, socket, session, watch, endpoints, op, asked, shares,
                     crashed>>
  PROVE  IInv'
<1>. USE DEF flags, watch
<1>1. Names(ioq) = Names(Tail(ioq)) \cup {"onSend"} /\ "onSend" \notin Names(Tail(ioq))
  BY Running DEF Singles
<1>2. isConnected' = isConnected
  BY DEF isConnected, isPendingState
<1>3. "disconnect_finalize" \notin Names(ioq) /\ ~Resolving
  BY <1>1 DEF IInv, Connection, Order, Resolves, Resolving
<1>4. Types'
  <2>1. Flags'
    BY DEF IInv, Types, Flags
  <2>. QED  BY <2>1 DEF IInv, Types, Data, Counts
<1>5. isConnected => m_connected /\ ~m_connecting /\ ~m_disconnecting
  BY DEF isConnected, isPendingState
<1>6. Connection'
  BY <1>1, <1>3, <1>5
     DEF IInv, Connection, Attempt, Apart, Resolves, Closing, Order, Settled,
         Starting, Resolving, Finalizing, Traffic
<1>7. Reads' /\ Writes'
  BY <1>1, <1>2 DEF IInv, Reads, Writes
<1>8. Login'
  BY <1>1, <1>2, <1>3
     DEF IInv, Login, Asked, Unasked, Watched, Owner, Progress, Starting, Resolving
<1>9. EndPoints' /\ Ticks'
  BY <1>1, <1>2 DEF IInv, EndPoints, Ticks
<1>. QED  BY <1>4, <1>6, <1>7, <1>8, <1>9 DEF IInv

\* onSendSocketDataCompleted: the rest of m_txQueue is sent.
LEMMA OnSendKeeps == IInv /\ OnSend => IInv'
<1>. SUFFICES ASSUME IInv, OnSend PROVE IInv'
  OBVIOUS
<1>1. /\ Queue(Tail(ioq)) /\ Lines(Tail(ioq)) = Lines(ioq)
      /\ ShutdownLast(Tail(ioq)) /\ FinalizeLast(Tail(ioq))
      /\ socket = "open" => ConnectLast(Tail(ioq))
      /\ isConnected /\ endpoints = 0 => ClosedFirst(Tail(ioq))
      /\ Names(ioq) = Names(Tail(ioq)) \cup {"onSend"}
  BY Running DEF OnSend
<1>2. /\ tx' \in Buffer /\ tx'.queue = 0 /\ (tx'.write => isConnected)
      /\ tx'.pending <=> tx'.write
  <2>0. tx \in Buffer /\ ~tx.write /\ tx.write \in BOOLEAN
    BY <1>1 DEF IInv, Types, Writes, Buffer
  <2>1. CASE isConnected /\ tx' = [queue |-> 0, pending |-> TRUE, write |-> TRUE]
    <3>1. tx' \in Buffer /\ tx'.queue = 0 /\ tx'.write = TRUE /\ tx'.pending = TRUE
      BY <2>1 DEF Buffer
    <3>. QED  BY <2>1, <3>1
  <2>2. CASE tx' = [tx EXCEPT !.queue = 0, !.pending = FALSE]
    <3>1. tx' \in Buffer /\ tx'.queue = 0 /\ tx'.write = tx.write /\ tx'.pending = FALSE
      BY <2>0, <2>2 DEF Buffer
    <3>. QED  BY <2>0, <3>1
  <2>. QED  BY <2>1, <2>2 DEF OnSend
<1>3. ioq' = Tail(ioq) /\ Runs("onSend")
      /\ UNCHANGED <<uri, hasConn, flags, socket, session, watch, endpoints, op, asked, shares,
                     crashed>>
  BY DEF OnSend
<1>. QED  BY <1>1, <1>2, <1>3, WriteEnds

\* onSendSocketDataCompleted with an error.
LEMMA OnSendErrorKeeps == IInv /\ OnSendError => IInv'
<1>. SUFFICES ASSUME IInv, OnSendError PROVE IInv'
  OBVIOUS
<1>. DEFINE q == Tail(ioq)
            m == Posted("disconnect")
<1>1. /\ Queue(q) /\ Lines(q) = Lines(ioq)
      /\ ShutdownLast(q) /\ FinalizeLast(q)
      /\ socket = "open" => ConnectLast(q)
      /\ isConnected /\ endpoints = 0 => ClosedFirst(q)
      /\ Names(ioq) = Names(q) \cup {"onSend"}
  BY Running DEF OnSendError
<1>2. /\ tx' \in Buffer /\ tx'.queue = 0 /\ (tx'.write => isConnected)
      /\ tx'.pending <=> tx'.write
  <2>0. tx \in Buffer /\ ~tx.write /\ tx.write \in BOOLEAN
    BY <1>1 DEF IInv, Types, Writes, Buffer
  <2>1. tx' \in Buffer /\ tx'.queue = 0 /\ tx'.write = tx.write /\ tx'.pending = FALSE
    BY <2>0 DEF Buffer, OnSendError
  <2>. QED  BY <2>0, <2>1
<1>3. "disconnect_finalize" \notin Names(q)
  BY <1>1 DEF IInv, Connection, Order
<1>4. m \in Handler
  BY HandlersAre
<1>5. isConnected \in BOOLEAN /\ uri.secure \in BOOLEAN
  BY DEF isConnected, isPendingState, IInv, Types, Flags, Data, Definition
<1>6. PICK twice \in {FALSE, uri.secure} :
        ioq' = q \o (IF twice THEN <<m>> ELSE <<>>) \o (IF isConnected THEN <<m>> ELSE <<>>)
  BY DEF OnSendError
<1>. DEFINE r == q \o (IF twice THEN <<m>> ELSE <<>>)
<1>. HIDE DEF q, m
<1>7. r = IF twice THEN Append(q, m) ELSE q
  BY <1>1, <1>4, <1>5, Maybe
<1>8. ioq' = r \o (IF isConnected THEN <<m>> ELSE <<>>)
  BY <1>6
<1>. HIDE DEF r
<1>9. /\ Queue(r) /\ Lines(r) = Lines(q)
      /\ Names(q) \subseteq Names(r) /\ Names(r) \subseteq Names(q) \cup {"disconnect"}
      /\ ShutdownLast(r) /\ FinalizeLast(r) /\ (ConnectLast(q) => ConnectLast(r))
      /\ ClosedFirst(q) => ClosedFirst(r)
  <2>1. r = q \/ r = Append(q, Posted("disconnect"))
    BY <1>7 DEF m
  <2>. QED  BY <1>1, <1>3, <2>1, Quits
<1>10. ioq' = IF isConnected THEN Append(r, m) ELSE r
  BY <1>4, <1>5, <1>8, <1>9, Maybe
<1>11. /\ Queue(ioq') /\ Lines(ioq') = Lines(r)
       /\ Names(r) \subseteq Names(ioq') /\ Names(ioq') \subseteq Names(r) \cup {"disconnect"}
       /\ ShutdownLast(ioq') /\ FinalizeLast(ioq') /\ (ConnectLast(r) => ConnectLast(ioq'))
       /\ ClosedFirst(r) => ClosedFirst(ioq')
  <2>1. ioq' = r \/ ioq' = Append(r, Posted("disconnect"))
    BY <1>10 DEF m
  <2>2. "disconnect_finalize" \notin Names(r)
    BY <1>3, <1>9
  <2>. QED  BY <1>9, <2>1, <2>2, Quits
<1>12. Runs("onSend")
       /\ UNCHANGED <<uri, hasConn, flags, socket, session, watch, endpoints, op, asked, shares,
                      crashed>>
  BY DEF OnSendError
<1>13. /\ Names(q) \subseteq Names(ioq') /\ Names(ioq') \subseteq Names(q) \cup {"disconnect"}
       /\ socket = "open" => ConnectLast(ioq')
       /\ isConnected /\ endpoints = 0 => ClosedFirst(ioq')
       /\ Lines(ioq') = Lines(ioq)
  BY <1>1, <1>9, <1>11
<1>. QED  BY <1>2, <1>11, <1>12, <1>13, WriteEnds DEF q

\* submitSolution: one more share and one more plea.
LEMMA SubmitSolutionKeeps == IInv /\ SubmitSolution => IInv'
<1>. SUFFICES ASSUME IInv, SubmitSolution PROVE IInv'
  OBVIOUS
<1>1. /\ isConnected /\ session = "authorized" /\ shares < MaxShares /\ shares' = shares + 1
      /\ pleas' = pleas + 1 /\ overdue' = (pleas > 0 /\ overdue)
      /\ UNCHANGED <<uri, hasConn, m_connecting, m_connected, m_disconnecting, socket, session,
                     endpoints, timer, op, asked, ioq, crashed>>
  BY DEF SubmitSolution, EnqueuePlea, flags
<1>2. /\ tx' \in Buffer
      /\ tx'.write => tx.write \/ isConnected
      /\ tx'.write => tx'.pending /\ "onSend" \notin Names(ioq)
      /\ tx'.pending \/ tx'.queue > 0 => tx'.write \/ "onSend" \in Names(ioq)
      /\ ~tx'.pending /\ "onSend" \in Names(ioq) => ~isConnected
  BY SendKeeps DEF SubmitSolution
<1>3. isConnected' = isConnected
  BY <1>1 DEF isConnected, isPendingState
<1>4. m_connected /\ ~m_connecting /\ ~m_disconnecting /\ ~Starting /\ ~Resolving
  BY <1>1 DEF isConnected, isPendingState, IInv, Connection, Apart, Resolves
<1>5. pleas \in Nat /\ shares \in 0..MaxShares /\ MaxShares \in Nat
  BY StratumAssumption DEF IInv, Types, Counts
<1>6. Types'
  <2>1. Flags'
    BY <1>1 DEF IInv, Types, Flags
  <2>2. Counts'
    BY <1>1, <1>5 DEF IInv, Types, Counts
  <2>. QED  BY <1>1, <1>2, <2>1, <2>2 DEF IInv, Types, Data
<1>7. Connection'
  BY <1>1, <1>2, <1>4
     DEF IInv, Connection, Attempt, Apart, Resolves, Closing, Order, Settled,
         Starting, Resolving, Finalizing, Traffic
<1>8. Reads' /\ Writes'
  BY <1>1, <1>2, <1>3 DEF IInv, Reads, Writes
<1>9. Asked' /\ Unasked' /\ Owner' /\ Progress'
  BY <1>1, <1>4 DEF IInv, Login, Asked, Unasked, Owner, Progress, Starting, Resolving
<1>10. Watched'
  <2>1. Bit("share" \in Lines(ioq)) \in Nat
    BY DEF Bit
  <2>2. asked = "login" /\ isConnected /\ Names(ioq) \cap {"processResponse", "disconnect"} = {} =>
          pleas' >= 1 + shares' + Bit("share" \in Lines(ioq))
    BY <1>1, <1>5, <2>1 DEF IInv, Login, Watched
  <2>. QED  BY <1>1, <1>3, <2>2 DEF Watched
<1>11. EndPoints' /\ Ticks'
  BY <1>1, <1>3 DEF IInv, EndPoints, Ticks
<1>. QED  BY <1>6, <1>7, <1>8, <1>9, <1>10, <1>11 DEF IInv, Login

\* submitHashrate: a line without a plea.
LEMMA SubmitHashrateKeeps == IInv /\ SubmitHashrate => IInv'
<1>. SUFFICES ASSUME IInv, SubmitHashrate PROVE IInv'
  OBVIOUS
<1>0. CASE Crash /\ m_connected' = m_connected
  <2>1. m_connected \in BOOLEAN
    BY DEF IInv, Types, Flags
  <2>. QED  BY <1>0, <2>1, CrashKeeps
<1>1. CASE /\ isConnected /\ tx' = Sent(1, isConnected)
           /\ UNCHANGED <<uri, hasConn, flags, socket, session, watch, endpoints, op, asked,
                          shares, ioq, crashed>>
  <2>. USE DEF flags, watch
  <2>2. /\ tx' \in Buffer
        /\ tx'.write => tx.write \/ isConnected
        /\ tx'.write => tx'.pending /\ "onSend" \notin Names(ioq)
        /\ tx'.pending \/ tx'.queue > 0 => tx'.write \/ "onSend" \in Names(ioq)
        /\ ~tx'.pending /\ "onSend" \in Names(ioq) => ~isConnected
    BY <1>1, SendKeeps
  <2>3. isConnected' = isConnected
    BY <1>1 DEF isConnected, isPendingState
  <2>4. m_connected /\ ~m_connecting /\ ~m_disconnecting /\ ~Starting /\ ~Resolving
    BY <1>1 DEF isConnected, isPendingState, IInv, Connection, Apart, Resolves
  <2>6. Types'
    <3>1. Flags'
      BY <1>1 DEF IInv, Types, Flags
    <3>. QED  BY <1>1, <2>2, <3>1 DEF IInv, Types, Data, Counts
  <2>7. Connection'
    BY <1>1, <2>2, <2>4
       DEF IInv, Connection, Attempt, Apart, Resolves, Closing, Order, Settled,
           Starting, Resolving, Finalizing, Traffic
  <2>8. Reads' /\ Writes'
    BY <1>1, <2>2, <2>3 DEF IInv, Reads, Writes
  <2>9. Login'
    BY <1>1, <2>3 DEF IInv, Login, Asked, Unasked, Watched, Owner, Progress, Starting, Resolving
  <2>11. EndPoints' /\ Ticks'
    BY <1>1, <2>3 DEF IInv, EndPoints, Ticks
  <2>. QED  BY <2>6, <2>7, <2>8, <2>9, <2>11 DEF IInv
<1>. QED  BY <1>0, <1>1 DEF SubmitHashrate

\* Resolving, connecting, the TLS shutdown or the timer's wait ends.
LEMMA CompletionKeeps ==
  ASSUME IInv, NEW o, NEW m \in Handler, ioq' = Append(ioq, m),
         \/ /\ o = "resolve" /\ m.h = "resolve_handler" /\ o \in op
            /\ op' = op \ {o} /\ UNCHANGED timer
         \/ /\ o = "connect" /\ m.h = "connect_handler" /\ o \in op
            /\ op' = op \ {o} /\ UNCHANGED timer
         \/ /\ o = "shutdown" /\ m.h = "onSSLShutdown" /\ o \in op
            /\ op' = op \ {o} /\ UNCHANGED timer
         \/ /\ o = "timer" /\ m.h = "workloop_timer" /\ timer
            /\ timer' = FALSE /\ UNCHANGED op,
         UNCHANGED <<uri, hasConn, flags, socket, session, pleas, overdue, endpoints, tx, asked,
                     shares, crashed>>
  PROVE  IInv'
<1>. USE DEF flags
<1>1. m.h \notin Names(ioq)
  BY DEF IInv, Connection, Attempt, Resolves, Closing, Finalizing, Ticks
<1>2. /\ m.h \in {"resolve_handler", "connect_handler", "onSSLShutdown", "workloop_timer"}
      /\ m.h \notin Arrivals /\ m.h # "disconnect" /\ m.h # "onRecv" /\ m.h # "processResponse"
      /\ m.h \in Unfinished => m.h \in {"resolve_handler", "connect_handler"}
  BY DEF Arrivals, Unfinished
<1>3. m.h \in {"resolve_handler", "connect_handler"} => "onSSLShutdown" \notin Names(ioq)
  BY DEF IInv, Connection, Attempt, Resolves, Resolving, Closing, Finalizing, Starting
<1>4. /\ Queue(ioq') /\ Names(ioq') = Names(ioq) \cup {m.h} /\ Lines(ioq') = Lines(ioq)
      /\ ShutdownLast(ioq') /\ FinalizeLast(ioq') /\ (socket = "open" => ConnectLast(ioq'))
      /\ ClosedFirst(ioq) => ClosedFirst(ioq')
  <2>1. Queue(ioq) /\ ShutdownLast(ioq) /\ FinalizeLast(ioq) /\ (socket = "open" => ConnectLast(ioq))
    BY DEF IInv, Types, Connection, Order
  <2>2. m.h \notin Unfinished \/ "onSSLShutdown" \notin Names(ioq)
    BY <1>2, <1>3
  <2>3. /\ Queue(Append(ioq, m)) /\ Names(Append(ioq, m)) = Names(ioq) \cup {m.h}
        /\ Lines(Append(ioq, m)) = Lines(ioq)
        /\ ShutdownLast(Append(ioq, m)) /\ FinalizeLast(Append(ioq, m))
        /\ ConnectLast(ioq) => ConnectLast(Append(ioq, m))
        /\ ClosedFirst(ioq) => ClosedFirst(Append(ioq, m))
    BY <1>1, <1>2, <2>1, <2>2, Adds
  <2>. QED  BY <2>1, <2>3
<1>5. isConnected' = isConnected
  BY DEF isConnected, isPendingState
<1>6. Types'
  <2>1. Flags'
    BY DEF IInv, Types, Flags
  <2>. QED  BY <1>4, <2>1 DEF IInv, Types, Data, Counts
<1>7. Connection'
  BY <1>2, <1>4
     DEF IInv, Connection, Attempt, Apart, Resolves, Closing, Order, Settled,
         Starting, Resolving, Finalizing, Traffic
<1>8. Reads' /\ Writes'
  BY <1>2, <1>4, <1>5 DEF IInv, Reads, Writes
<1>9. Login'
  BY <1>2, <1>4, <1>5
     DEF IInv, Login, Asked, Unasked, Watched, Owner, Progress, Starting, Resolving
<1>10. EndPoints'
  BY <1>4, <1>5 DEF IInv, EndPoints
<1>11. Ticks'
  BY <1>2, <1>4 DEF IInv, Ticks
<1>. QED  BY <1>6, <1>7, <1>8, <1>9, <1>10, <1>11 DEF IInv

\* The operations that are not reads or writes complete, and the timer expires.
LEMMA NetworkKeeps ==
  IInv /\ (ResolveCompletes \/ ConnectCompletes \/ ShutdownCompletes \/ TimerExpires) => IInv'
<1>. SUFFICES ASSUME IInv, ResolveCompletes \/ ConnectCompletes \/ ShutdownCompletes \/ TimerExpires
              PROVE  IInv'
  OBVIOUS
<1>1. CASE ResolveCompletes
  <2>1. PICK ok \in BOOLEAN : Completes("resolve", Completed("resolve_handler", ok))
    BY <1>1 DEF ResolveCompletes
  <2>2. Completed("resolve_handler", ok) \in Handler /\ Completed("resolve_handler", ok).h = "resolve_handler"
    BY HandlersAre
  <2>. QED  BY <1>1, <2>1, <2>2, CompletionKeeps DEF Completes, watch, ResolveCompletes
<1>2. CASE ConnectCompletes
  <2>1. PICK ok \in BOOLEAN : Completes("connect", Completed("connect_handler", ok))
    BY <1>2 DEF ConnectCompletes
  <2>2. Completed("connect_handler", ok) \in Handler /\ Completed("connect_handler", ok).h = "connect_handler"
    BY HandlersAre
  <2>. QED  BY <1>2, <2>1, <2>2, CompletionKeeps DEF Completes, watch, ConnectCompletes
<1>3. CASE ShutdownCompletes
  <2>2. Posted("onSSLShutdown") \in Handler /\ Posted("onSSLShutdown").h = "onSSLShutdown"
    BY HandlersAre
  <2>. QED  BY <1>3, <2>2, CompletionKeeps DEF Completes, watch, ShutdownCompletes
<1>4. CASE TimerExpires
  <2>2. Posted("workloop_timer") \in Handler /\ Posted("workloop_timer").h = "workloop_timer"
    BY HandlersAre
  <2>. QED  BY <1>4, <2>2, CompletionKeeps DEF TimerExpires, net
<1>. QED  BY <1>1, <1>2, <1>3, <1>4

\* A line is received, or the read fails.
LEMMA LineKeeps ==
  ASSUME IInv, NEW id \in Request \cup {"invalid", "share", "999"}, NEW ok \in BOOLEAN,
         Completes("read", Line(id, ok)),
         id \in Answers => asked' = "none",
         id \notin Answers => asked' = asked,
         id \in Answers => id \in {asked, "999"},
         id = "share" => shares > 0 /\ shares' = shares - 1,
         id # "share" => shares' = shares
  PROVE  IInv'
<1>. DEFINE m == Line(id, ok)
<1>1. /\ "read" \in op /\ op' = op \ {"read"} /\ ioq' = Append(ioq, m)
      /\ UNCHANGED <<uri, hasConn, m_connecting, m_connected, m_disconnecting, socket, session,
                     pleas, overdue, timer, endpoints, tx, crashed>>
  BY DEF Completes, flags, watch
<1>2. m \in Handler /\ m.h = "onRecv" /\ m.id = id
  BY HandlersAre
<1>. HIDE DEF m
<1>3. /\ ~m_disconnecting /\ ~Starting /\ ~Resolving /\ "onRecv" \notin Names(ioq)
      /\ "onSSLShutdown" \notin Names(ioq) /\ "disconnect_finalize" \notin Names(ioq)
      /\ "connect_handler" \notin Names(ioq)
  BY <1>1 DEF IInv, Connection, Attempt, Apart, Starting, Resolves, Closing, Finalizing, Reads
<1>4. Lines(ioq) = {}
  BY <1>3 DEF Lines, Names
<1>5. /\ Queue(ioq') /\ Names(ioq') = Names(ioq) \cup {"onRecv"} /\ Lines(ioq') = {id}
      /\ ClosedFirst(ioq) => ClosedFirst(ioq')
  <2>1. Queue(ioq)
    BY DEF IInv, Types
  <2>2. /\ Queue(Append(ioq, m)) /\ Names(Append(ioq, m)) = Names(ioq) \cup {m.h}
        /\ Lines(Append(ioq, m)) = Lines(ioq) \cup {m.id}
        /\ ClosedFirst(ioq) => ClosedFirst(Append(ioq, m))
    BY <1>2, <1>3, <2>1, Adds
  <2>. QED  BY <1>1, <1>2, <1>4, <2>2
<1>6. ShutdownLast(ioq') /\ FinalizeLast(ioq') /\ ConnectLast(ioq')
  BY <1>3, <1>5, Absent
<1>7. isConnected' = isConnected
  BY <1>1 DEF isConnected, isPendingState
<1>8. shares \in Nat /\ shares' \in 0..MaxShares /\ pleas \in Nat
  BY StratumAssumption DEF IInv, Types, Counts
<1>9. Types'
  <2>1. Flags'
    BY <1>1 DEF IInv, Types, Flags
  <2>2. Data'
    BY <1>1 DEF IInv, Types, Data, Request
  <2>. QED  BY <1>1, <1>5, <1>8, <2>1, <2>2 DEF IInv, Types, Counts
<1>10. Connection'
  BY <1>1, <1>3, <1>5, <1>6
     DEF IInv, Connection, Attempt, Apart, Resolves, Closing, Order, Settled,
         Starting, Resolving, Finalizing, Traffic
<1>11. Reads' /\ Writes'
  BY <1>1, <1>5, <1>7 DEF IInv, Reads, Writes
<1>12. Asked' /\ Unasked' /\ Owner'
  BY <1>1, <1>3, <1>5 DEF IInv, Login, Asked, Unasked, Owner, Starting, Resolving
<1>13. Progress'
  BY <1>1, <1>3, <1>5 DEF IInv, Login, Progress, Starting, Answers
<1>14. Watched'
  <2>. SUFFICES ASSUME asked' = "login", isConnected,
                       Names(ioq) \cap {"processResponse", "disconnect"} = {}
                PROVE  pleas' >= 1 + shares' + Bit("share" \in Lines(ioq'))
    BY <1>5, <1>7 DEF Watched
  <2>1. asked = "login"
    OBVIOUS
  <2>2. pleas >= 1 + shares + 0
    BY <1>4, <2>1 DEF IInv, Login, Watched, Bit
  <2>3. CASE id = "share"
    BY <1>1, <1>5, <1>8, <2>2, <2>3 DEF Bit
  <2>4. CASE id # "share"
    <3>1. Bit("share" \in Lines(ioq')) = 0
      BY <1>5, <2>4 DEF Bit
    <3>. QED  BY <1>1, <1>8, <2>2, <2>4, <3>1
  <2>. QED  BY <2>3, <2>4
<1>15. EndPoints' /\ Ticks'
  BY <1>1, <1>5, <1>7 DEF IInv, EndPoints, Ticks
<1>. QED  BY <1>9, <1>10, <1>11, <1>12, <1>13, <1>14, <1>15 DEF IInv, Login

\* The outstanding read completes.
LEMMA PoolKeeps == IInv /\ PoolStep => IInv'
<1>. SUFFICES ASSUME IInv, PoolStep PROVE IInv'
  OBVIOUS
<1>. USE DEF Request, Answers
<1>1. CASE ReadFails
  BY <1>1, LineKeeps DEF ReadFails
<1>2. CASE InvalidLine
  BY <1>2, LineKeeps DEF InvalidLine
<1>3. CASE LoginAnswered
  <2>1. asked \in Request /\ asked # "none" /\ asked' = "none" /\ shares' = shares
    BY <1>3 DEF LoginAnswered, IInv, Types, Data
  <2>2. PICK id \in {asked, "999"}, ok \in BOOLEAN : Completes("read", Line(id, ok))
    BY <1>3 DEF LoginAnswered
  <2>. QED  BY <2>1, <2>2, LineKeeps
<1>4. CASE ShareAnswered
  BY <1>4, LineKeeps DEF ShareAnswered
<1>. QED  BY <1>1, <1>2, <1>3, <1>4 DEF PoolStep

\* The outstanding write completes.
LEMMA WriteCompletesKeeps == IInv /\ WriteCompletes => IInv'
<1>. SUFFICES ASSUME IInv, WriteCompletes PROVE IInv'
  OBVIOUS
<1>1. PICK ok \in BOOLEAN : ioq' = Append(ioq, Completed("onSend", ok))
  BY DEF WriteCompletes
<1>. DEFINE m == Completed("onSend", ok)
<1>2. m \in Handler /\ m.h = "onSend"
  BY HandlersAre
<1>3. ioq' = Append(ioq, m)
  BY <1>1
<1>4. /\ tx.write /\ tx' = [tx EXCEPT !.write = FALSE]
      /\ UNCHANGED <<uri, hasConn, m_connecting, m_connected, m_disconnecting, socket, session,
                     pleas, overdue, timer, endpoints, op, asked, shares, crashed>>
  BY DEF WriteCompletes, flags, watch
<1>. HIDE DEF m
<1>5. /\ tx' \in Buffer /\ tx'.write = FALSE /\ tx'.pending = tx.pending /\ tx'.queue = tx.queue
  BY <1>4 DEF IInv, Types, Buffer
<1>6. /\ ~m_disconnecting /\ ~Starting /\ ~Resolving /\ "onSend" \notin Names(ioq) /\ tx.pending
      /\ "onSSLShutdown" \notin Names(ioq) /\ "disconnect_finalize" \notin Names(ioq)
      /\ "connect_handler" \notin Names(ioq)
  BY <1>4 DEF IInv, Connection, Attempt, Apart, Starting, Resolves, Closing, Finalizing, Writes
<1>7. /\ Queue(ioq') /\ Names(ioq') = Names(ioq) \cup {"onSend"} /\ Lines(ioq') = Lines(ioq)
      /\ ClosedFirst(ioq) => ClosedFirst(ioq')
  <2>1. Queue(ioq)
    BY DEF IInv, Types
  <2>2. /\ Queue(Append(ioq, m)) /\ Names(Append(ioq, m)) = Names(ioq) \cup {m.h}
        /\ Lines(Append(ioq, m)) = Lines(ioq)
        /\ ClosedFirst(ioq) => ClosedFirst(Append(ioq, m))
    BY <1>2, <1>6, <2>1, Adds
  <2>. QED  BY <1>2, <1>3, <2>2
<1>8. ShutdownLast(ioq') /\ FinalizeLast(ioq') /\ ConnectLast(ioq')
  BY <1>6, <1>7, Absent
<1>9. isConnected' = isConnected
  BY <1>4 DEF isConnected, isPendingState
<1>10. Types'
  <2>1. Flags'
    BY <1>4 DEF IInv, Types, Flags
  <2>. QED  BY <1>4, <1>5, <1>7, <2>1 DEF IInv, Types, Data, Counts
<1>11. Connection'
  BY <1>4, <1>5, <1>6, <1>7, <1>8
     DEF IInv, Connection, Attempt, Apart, Resolves, Closing, Order, Settled,
         Starting, Resolving, Finalizing, Traffic
<1>12. Reads' /\ Writes'
  BY <1>4, <1>5, <1>6, <1>7, <1>9 DEF IInv, Reads, Writes
<1>13. Login'
  BY <1>4, <1>6, <1>7, <1>9
     DEF IInv, Login, Asked, Unasked, Watched, Owner, Progress, Starting, Resolving
<1>14. EndPoints' /\ Ticks'
  BY <1>4, <1>7, <1>9 DEF IInv, EndPoints, Ticks
<1>. QED  BY <1>10, <1>11, <1>12, <1>13, <1>14 DEF IInv

\* Only the clock, or nothing, changes.
LEMMA NothingKeeps ==
  ASSUME IInv, overdue' \in BOOLEAN,
         UNCHANGED <<uri, hasConn, m_connecting, m_connected, m_disconnecting, socket, session,
                     pleas, endpoints, timer, op, tx, asked, shares, ioq, crashed>>
  PROVE  IInv'
<1>1. isConnected' = isConnected
  BY DEF isConnected, isPendingState
<1>2. Types'
  <2>1. Flags'
    BY DEF IInv, Types, Flags
  <2>. QED  BY <2>1 DEF IInv, Types, Data, Counts
<1>3. Connection'
  BY DEF IInv, Connection, Attempt, Apart, Resolves, Closing, Order, Settled,
         Starting, Resolving, Finalizing, Traffic
<1>4. Reads' /\ Writes'
  BY <1>1 DEF IInv, Reads, Writes
<1>5. Login'
  BY <1>1 DEF IInv, Login, Asked, Unasked, Watched, Owner, Progress, Starting, Resolving
<1>6. EndPoints' /\ Ticks'
  BY <1>1 DEF IInv, EndPoints, Ticks
<1>. QED  BY <1>2, <1>3, <1>4, <1>5, <1>6 DEF IInv

\* The initial state is the state of a new client.
LEMMA InitIInv == Init => IInv
<1>. SUFFICES ASSUME Init PROVE IInv
  OBVIOUS
<1>. USE DEF Init
<1>1. /\ Queue(ioq) /\ Lines(ioq) = {}
      /\ \/ op = {"resolve"} /\ endpoints = 0 /\ Names(ioq) = {}
         \/ op = {} /\ endpoints = 1 /\ Names(ioq) = {"start_connect"}
  BY ConnectQueues
<1>2. ShutdownLast(ioq) /\ FinalizeLast(ioq) /\ ConnectLast(ioq)
  BY <1>1, Absent
<1>3. ~isConnected
  BY DEF isConnected
<1>4. Types
  <2>1. Flags
    BY DEF Flags
  <2>2. Data /\ tx \in Buffer
    BY <1>1 DEF Data, Buffer, Session, Request, Operation, Fresh
  <2>3. Counts
    BY <1>1, StratumAssumption DEF Counts
  <2>. QED  BY <1>1, <2>1, <2>2, <2>3 DEF Types
<1>5. Connection
  BY <1>1, <1>2 DEF Connection, Attempt, Apart, Resolves, Closing, Order, Settled,
                    Starting, Resolving, Finalizing, Traffic
<1>6. Reads /\ Writes
  BY <1>1, <1>3 DEF Reads, Writes
<1>7. Login
  BY <1>1, <1>3 DEF Login, Asked, Unasked, Watched, Owner, Progress
<1>8. EndPoints /\ Ticks
  BY <1>1, <1>3 DEF EndPoints, Ticks
<1>. QED  BY <1>4, <1>5, <1>6, <1>7, <1>8 DEF IInv

\* Every step of the client keeps the inductive invariant.
LEMMA NextIInv == IInv /\ [Next]_vars => IInv'
<1>. SUFFICES ASSUME IInv, [Next]_vars PROVE IInv'
  OBVIOUS
<1>1. CASE HandlerStep
  BY <1>1, RunDisconnectKeeps, RunDisconnectFinalizeKeeps, OnSSLShutdownCompletedKeeps,
     RotateConnectKeeps, ResolveHandlerKeeps, StartConnectKeeps, ConnectFailedKeeps,
     ConnectSucceededKeeps, HandshakeFailedKeeps, TimerClosesSocketKeeps, TimerNoResponseKeeps,
     TimerNoWorkKeeps, TimerTicksKeeps, LateHandlerKeeps, OnRecvKeeps, FakeResponseKeeps,
     OnRecvErrorKeeps, OnSendKeeps, OnSendErrorKeeps DEF HandlerStep
<1>2. CASE CallStep
  BY <1>2, ManagerDisconnectsKeeps, SubmitSolutionKeeps, SubmitHashrateKeeps DEF CallStep
<1>3. CASE PoolStep
  BY <1>3, PoolKeeps
<1>4. CASE NetworkStep
  BY <1>4, NetworkKeeps, WriteCompletesKeeps DEF NetworkStep
<1>5. CASE TimerExpires
  BY <1>5, NetworkKeeps
<1>6. CASE PleaAges
  BY <1>6, NothingKeeps DEF PleaAges, flags, net
<1>7. CASE UNCHANGED vars
  <2>1. overdue \in BOOLEAN
    BY DEF IInv, Types, Flags
  <2>. QED  BY <1>7, <2>1, NothingKeeps DEF vars
<1>. QED  BY <1>1, <1>2, <1>3, <1>4, <1>5, <1>6, <1>7 DEF Next, Ended

\* The inductive invariant holds in every behaviour of the client.
THEOREM StratumInv == Spec => []IInv
<1>. QED  BY InitIInv, NextIInv, PTL DEF Spec

(***************************************************************************)
(* What follows.                                                           *)
(***************************************************************************)

\* A handler that is never queued twice is counted at most once.
LEMMA CountOnce ==
  ASSUME NEW q, Queue(q), NEW f \in Singles
  PROVE  Cardinality({i \in 1..Len(q) : q[i].h = f}) = Bit(f \in Names(q))
<1>. DEFINE S == {i \in 1..Len(q) : q[i].h = f}
<1>1. CASE f \in Names(q)
  <2>1. PICK k \in 1..Len(q) : q[k].h = f
    BY <1>1 DEF Names
  <2>2. S = {k}
    BY <2>1 DEF Queue, Once
  <2>3. Cardinality({k}) = 1
    BY FS_Singleton
  <2>. QED  BY <1>1, <2>2, <2>3 DEF Bit
<1>2. CASE f \notin Names(q)
  <2>1. S = {}
    BY <1>2 DEF Names
  <2>2. Cardinality({}) = 0
    BY FS_EmptySet
  <2>. QED  BY <1>2, <2>1, <2>2 DEF Bit
<1>. QED  BY <1>1, <1>2

\* Queued and Names say the same.
LEMMA QueuedIsNamed == \A f : Queued(f) <=> f \in Names(ioq)
BY DEF Queued, Names

\* Every variable keeps its type; m_endpoints, popped by the timer and by failed
\* attempts, is never popped when empty (workloop_timer_elapsed, connect_handler),
\* and no more shares wait than were submitted.
THEOREM StratumTypeCorrect == Spec => []TypeOK
<1>1. IInv => TypeOK
  <2>. SUFFICES ASSUME IInv PROVE TypeOK
    OBVIOUS
  <2>1. Flags /\ Data /\ Counts /\ tx \in Buffer /\ ioq \in Seq(Handler)
    BY DEF IInv, Types, Queue
  <2>. QED  BY <2>1 DEF TypeOK, Flags, Data, Counts, Buffer
<1>. QED  BY <1>1, StratumInv, PTL

\* m_recvBuffer and m_sendBuffer are used by one operation at a time, and no line is
\* left in m_txQueue with nobody to send it (recvSocketData, send, sendSocketData):
\* a read or write is started only where its last completion has been handled.
THEOREM StratumOneOperationPerBuffer == Spec => []OneOperationPerBuffer
<1>1. IInv => OneOperationPerBuffer
  <2>. SUFFICES ASSUME IInv PROVE OneOperationPerBuffer
    OBVIOUS
  <2>1. Queue(ioq) /\ "onRecv" \in Singles
    BY DEF IInv, Types, Singles
  <2>2. QueuedCount("onRecv") = Bit("onRecv" \in Names(ioq))
    BY <2>1, CountOnce DEF QueuedCount
  <2>3. (IF "read" \in op THEN 1 ELSE 0) + QueuedCount("onRecv") <= 1
    BY <2>2 DEF IInv, Reads, Bit
  <2>4. tx.write => tx.pending /\ ~Queued("onSend")
    BY QueuedIsNamed DEF IInv, Writes
  <2>5. tx.queue > 0 => tx.write \/ Queued("onSend")
    BY QueuedIsNamed DEF IInv, Writes
  <2>. QED  BY <2>3, <2>4, <2>5 DEF OneOperationPerBuffer
<1>. QED  BY <1>1, StratumInv, PTL

\* m_connecting is never left set: the attempt is under way or connect_handler is
\* queued, although the timer closes sockets and old attempts complete late.
THEOREM StratumConnectingIsReal == Spec => []ConnectingIsReal
<1>1. IInv => ConnectingIsReal
  BY QueuedIsNamed DEF IInv, Connection, Attempt, ConnectingIsReal
<1>. QED  BY <1>1, StratumInv, PTL

(***************************************************************************)
(* The work loop timer.  It stops where it closes a socket that is being   *)
(* connected (or shut down, over TLS); connect_handler then drops that end *)
(* point, so the timer runs while all end points are there.                *)
(***************************************************************************)
TimerInv ==
  /\ endpoints <= Resolved
  /\ hasConn /\ ~crashed /\ (Resolving \/ (~uri.secure /\ endpoints >= Resolved)) =>
       TimerRuns \/ (m_connecting /\ socket # "open")
  /\ m_connected => hasConn \/ crashed

\* What a step does that neither stops the timer nor finds new end points.
Ticking ==
  /\ TimerRuns => TimerRuns'
  /\ Resolving' => Resolving
Steady ==
  /\ Ticking
  /\ hasConn' = hasConn
  /\ m_connected' => m_connected \/ hasConn
  /\ crashed => crashed'
  /\ uri'.secure = uri.secure
  /\ endpoints' \in Nat /\ endpoints' <= endpoints
  /\ m_connecting /\ socket # "open" => \/ m_connecting' /\ socket' # "open"
                                        \/ endpoints' < endpoints

\* Such a step keeps the invariant.
LEMMA SteadyKeeps == IInv /\ TimerInv /\ Steady => TimerInv'
<1>. SUFFICES ASSUME IInv, TimerInv, Steady PROVE TimerInv'
  OBVIOUS
<1>1. endpoints \in Nat /\ endpoints' \in Nat /\ Resolved \in Nat /\ endpoints' <= endpoints
  BY StratumAssumption DEF IInv, Types, Counts, Steady
<1>2. Resolving => ~m_connecting
  BY DEF IInv, Connection, Resolves
<1>3. endpoints' <= Resolved
  BY <1>1 DEF TimerInv
<1>4. ASSUME hasConn', ~crashed', Resolving'
      PROVE  TimerRuns'
  BY <1>2, <1>4 DEF TimerInv, Steady, Ticking
<1>5. ASSUME hasConn', ~crashed', ~uri'.secure, endpoints' >= Resolved
      PROVE  TimerRuns' \/ (m_connecting' /\ socket' # "open")
  <2>1. endpoints >= Resolved /\ ~(endpoints' < endpoints)
    BY <1>1, <1>5 DEF TimerInv
  <2>2. TimerRuns \/ (m_connecting /\ socket # "open")
    BY <1>5, <2>1 DEF TimerInv, Steady
  <2>. QED  BY <2>1, <2>2 DEF Steady, Ticking
<1>6. m_connected' => hasConn' \/ crashed'
  BY DEF Steady, TimerInv
<1>. QED  BY <1>3, <1>4, <1>5, <1>6 DEF TimerInv

\* The names in a queue that is joined or appended to.
LEMMA NamesJoin ==
  ASSUME NEW q \in Seq(Handler)
  PROVE  /\ \A r \in Seq(Handler) : /\ q \o r \in Seq(Handler)
                                    /\ Names(q \o r) = Names(q) \cup Names(r)
         /\ \A m \in Handler : /\ Append(q, m) \in Seq(Handler)
                               /\ Names(Append(q, m)) = Names(q) \cup {m.h}
<1>1. ASSUME NEW r \in Seq(Handler)
      PROVE  q \o r \in Seq(Handler) /\ Names(q \o r) = Names(q) \cup Names(r)
  <2>. DEFINE t == q \o r
              n == Len(q)
              m == Len(r)
  <2>1. /\ n \in Nat /\ m \in Nat /\ t \in Seq(Handler) /\ Len(t) = n + m
        /\ \A i \in 1..(n + m) : t[i] = IF i <= n THEN q[i] ELSE r[i - n]
    BY ConcatProperties
  <2>. HIDE DEF t, n, m
  <2>2. ASSUME NEW i \in 1..Len(t)
        PROVE  \/ i \in 1..n /\ t[i] = q[i]
               \/ i - n \in 1..m /\ t[i] = r[i - n] /\ i > n
    BY <2>1
  <2>3. \A i \in 1..n : i \in 1..Len(t) /\ t[i] = q[i]
    BY <2>1
  <2>4. \A i \in 1..m : i + n \in 1..Len(t) /\ t[i + n] = r[i]
    <3>. SUFFICES ASSUME NEW i \in 1..m PROVE i + n \in 1..Len(t) /\ t[i + n] = r[i]
      OBVIOUS
    <3>1. i + n \in 1..(n + m) /\ ~(i + n <= n) /\ (i + n) - n = i
      BY <2>1
    <3>. QED  BY <2>1, <3>1
  <2>5. ASSUME NEW k \in 1..Len(t) PROVE t[k].h \in Names(q) \cup Names(r)
    BY <2>2 DEF Names, n, m
  <2>6. ASSUME NEW k \in 1..n PROVE q[k].h \in Names(t)
    BY <2>3 DEF Names
  <2>7. ASSUME NEW k \in 1..m PROVE r[k].h \in Names(t)
    BY <2>4 DEF Names
  <2>. QED  BY <2>1, <2>5, <2>6, <2>7 DEF Names, n, m, t
<1>2. ASSUME NEW m \in Handler
      PROVE  Append(q, m) \in Seq(Handler) /\ Names(Append(q, m)) = Names(q) \cup {m.h}
  <2>1. <<m>> \in Seq(Handler) /\ Append(q, m) = q \o <<m>>
    BY AppendIsConcat
  <2>2. Names(<<m>>) = {m.h}
    <3>. DEFINE r == <<m>>
    <3>1. Len(r) = 1 /\ r[1] = m /\ 1..1 = {1}
      OBVIOUS
    <3>. HIDE DEF r
    <3>2. Names(r) = {m.h}
      BY <3>1 DEF Names
    <3>. QED  BY <3>2 DEF r
  <2>. QED  BY <1>1, <2>1, <2>2
<1>. QED  BY <1>1, <1>2

\* What cancel() or close() queues, by name.
LEMMA AbortedNames ==
  Aborted \in Seq(Handler) /\ Names(Aborted) \subseteq {"onRecv", "onSend", "connect_handler"}
<1>. DEFINE mA == Line("none", FALSE)
            mB == Completed("onSend", FALSE)
            mC == Completed("connect_handler", FALSE)
            A == IF "read" \in op THEN <<mA>> ELSE <<>>
            B == IF tx.write THEN <<mB>> ELSE <<>>
            C == IF "connect" \in op THEN <<mC>> ELSE <<>>
<1>1. /\ mA \in Handler /\ mA.h = "onRecv" /\ mB \in Handler /\ mB.h = "onSend"
      /\ mC \in Handler /\ mC.h = "connect_handler"
  BY HandlersAre DEF Request
<1>. HIDE DEF mA, mB, mC
<1>2. <<>> \in Seq(Handler) /\ Names(<<>>) = {}
  BY Units
<1>3. ASSUME NEW m \in Handler PROVE <<m>> \in Seq(Handler) /\ Names(<<m>>) = {m.h}
  <2>1. Append(<<>>, m) = <<m>>
    OBVIOUS
  <2>. QED  BY <1>2, <2>1, NamesJoin
<1>4. A \in Seq(Handler) /\ Names(A) \subseteq {"onRecv"}
  BY <1>1, <1>2, <1>3
<1>5. B \in Seq(Handler) /\ Names(B) \subseteq {"onSend"}
  BY <1>1, <1>2, <1>3
<1>6. C \in Seq(Handler) /\ Names(C) \subseteq {"connect_handler"}
  BY <1>1, <1>2, <1>3
<1>7. Aborted = (A \o B) \o C
  BY DEF Aborted, mA, mB, mC
<1>. HIDE DEF A, B, C
<1>8. A \o B \in Seq(Handler) /\ Names(A \o B) = Names(A) \cup Names(B)
  BY <1>4, <1>5, NamesJoin
<1>9. (A \o B) \o C \in Seq(Handler) /\ Names((A \o B) \o C) = Names(A \o B) \cup Names(C)
  BY <1>6, <1>8, NamesJoin
<1>. QED  BY <1>4, <1>5, <1>6, <1>7, <1>8, <1>9

\* The rest q of the queue stays, nothing is resolved anew and the timer is not
\* stopped: q is all of it, or what follows a handler other than the timer's.
Rest(q) ==
  \/ q = ioq
  \/ ioq # <<>> /\ q = Tail(ioq) /\ Head(ioq).h # "workloop_timer"
LEMMA Keeping ==
  ASSUME IInv, NEW q, Rest(q), Names(q) \subseteq Names(ioq'),
         "resolve_handler" \in Names(ioq') => "resolve_handler" \in Names(q),
         "resolve" \in op' => "resolve" \in op, timer' \in {timer, TRUE}
  PROVE  Ticking
<1>1. Queue(ioq)
  BY DEF IInv, Types
<1>2. Names(q) \subseteq Names(ioq) /\ ("workloop_timer" \in Names(ioq) => "workloop_timer" \in Names(q))
  <2>1. CASE q = ioq
    BY <2>1
  <2>2. CASE ioq # <<>> /\ q = Tail(ioq) /\ Head(ioq).h # "workloop_timer"
    <3>1. Names(ioq) = Names(q) \cup {Head(ioq).h}
      BY <1>1, <2>2, Pops
    <3>. QED  BY <2>2, <3>1
  <2>. QED  BY <2>1, <2>2 DEF Rest
<1>3. /\ TimerRuns <=> timer \/ "workloop_timer" \in Names(ioq)
      /\ TimerRuns' <=> timer' \/ "workloop_timer" \in Names(ioq')
  BY DEF TimerRuns, Queued, Names
<1>4. TimerRuns => TimerRuns'
  BY <1>2, <1>3
<1>5. Resolving' => Resolving
  BY <1>2 DEF Resolving
<1>. QED  BY <1>4, <1>5 DEF Ticking

\* What follows a handler other than the timer's.
LEMMA RestOf ==
  ASSUME IInv, NEW f, Runs(f), f # "workloop_timer"
  PROVE  Tail(ioq) \in Seq(Handler) /\ Rest(Tail(ioq))
<1>1. Queue(Tail(ioq)) /\ ioq # <<>> /\ Head(ioq).h = f
  BY Running
<1>. QED  BY <1>1 DEF Queue, Rest

\* disconnect_finalize(): the timer is stopped only where m_conn is given up.
LEMMA FinalizeTicks ==
  ASSUME IInv, TimerInv, NEW q, Rest(q), q \in Seq(Handler), DisconnectFinalize(q), ~m_connected'
  PROVE  TimerInv'
<1>0. endpoints \in Nat /\ uri \in Definition /\ Resolved \in Nat
  BY StratumAssumption DEF IInv, Types, Counts, Data
<1>1. CASE Crash
  BY <1>1 DEF Crash, TimerInv
<1>2. CASE hasConn' = FALSE /\ endpoints' = endpoints
  BY <1>2 DEF TimerInv
<1>3. CASE /\ UNCHANGED <<hasConn, watch, endpoints, crashed, m_connecting>>
           /\ uri' = [uri EXCEPT !.mode = @ - 1] /\ socket' = "null"
           /\ op' = op \ {"connect", "read"}
           /\ ioq' = q \o Aborted \o <<Posted("start_connect")>>
  <2>. DEFINE m == Posted("start_connect")
  <2>1. m \in Handler /\ m.h = "start_connect"
    BY HandlersAre
  <2>. HIDE DEF m
  <2>2. q \o Aborted \in Seq(Handler) /\ Names(q \o Aborted) = Names(q) \cup Names(Aborted)
    BY AbortedNames, NamesJoin
  <2>3. Append(q \o Aborted, m) = (q \o Aborted) \o <<m>>
    BY <2>1, <2>2, AppendIsConcat
  <2>4. Names(ioq') = Names(q) \cup Names(Aborted) \cup {"start_connect"}
    BY <1>3, <2>1, <2>2, <2>3, NamesJoin DEF m
  <2>5. "resolve_handler" \in Names(ioq') => "resolve_handler" \in Names(q)
    BY <2>4, AbortedNames
  <2>6. Ticking
    BY <1>3, <2>4, <2>5, Keeping DEF watch
  <2>7. uri'.secure = uri.secure
    BY <1>0, <1>3 DEF Definition
  <2>8. Steady
    BY <1>0, <1>3, <2>6, <2>7 DEF Steady
  <2>. QED  BY <2>8, SteadyKeeps
<1>. QED  BY <1>1, <1>2, <1>3 DEF DisconnectFinalize

\* disconnect()
LEMMA DisconnectTicks ==
  ASSUME IInv, TimerInv, NEW q, Rest(q), q \in Seq(Handler), Disconnect(q)
  PROVE  TimerInv'
<1>1. CASE DisconnectFinalize(q) /\ m_connected' = FALSE
  BY <1>1, FinalizeTicks
<1>2. CASE /\ UNCHANGED <<uri, hasConn, m_connecting, socket, endpoints, timer, crashed>>
           /\ m_connected' => m_connected
           /\ "resolve" \in op' => "resolve" \in op
           /\ ioq' = q \/ ioq' = q \o Aborted
  <2>1. Names(ioq') = Names(q) \/ Names(ioq') = Names(q) \cup Names(Aborted)
    BY <1>2, AbortedNames, NamesJoin
  <2>2. "resolve_handler" \in Names(ioq') => "resolve_handler" \in Names(q)
    BY <2>1, AbortedNames
  <2>3. Ticking
    BY <1>2, <2>1, <2>2, Keeping
  <2>4. endpoints \in Nat
    BY DEF IInv, Types, Counts
  <2>5. Steady
    BY <1>2, <2>3, <2>4 DEF Steady
  <2>. QED  BY <2>5, SteadyKeeps
<1>3. CASE m_disconnecting
  BY <1>2, <1>3 DEF Disconnect, flags, net, watch
<1>4. CASE ~m_disconnecting /\ socket = "open" /\ uri.secure
  BY <1>2, <1>4 DEF Disconnect
<1>. QED  BY <1>1, <1>3, <1>4 DEF Disconnect

\* workloop_timer_elapsed stops the timer only where it closes a socket.
LEMMA TimerTicksOn ==
  ASSUME IInv, TimerInv, TimerClosesSocket \/ TimerNoResponse \/ TimerNoWork \/ TimerTicks
  PROVE  TimerInv'
<1>0. /\ endpoints \in Nat /\ endpoints <= Resolved /\ Resolved \in Nat
      /\ UNCHANGED <<hasConn, m_connecting, m_connected, m_disconnecting, crashed, uri>>
  BY StratumAssumption DEF IInv, Types, Counts, TimerInv, TimerClosesSocket, TimerNoResponse, TimerNoWork,
     TimerTicks, WorkloopTimer, flags
<1>1. CASE TimerClosesSocket
  <2>1. Runs("workloop_timer") /\ endpoints' = endpoints /\ socket' = "closed"
        /\ (m_connecting \/ (~m_connecting /\ uri.secure)) /\ ClosesPending
    BY <1>1 DEF TimerClosesSocket, WorkloopTimer
  <2>2. ASSUME ~m_connecting PROVE ~Resolving'
    <3>1. m_disconnecting /\ ~Resolving
      BY <2>1, <2>2 DEF ClosesPending, isPendingState, IInv, Connection, Resolves
    <3>. DEFINE m == Posted("onSSLShutdown")
                B == IF "shutdown" \in op THEN <<m>> ELSE <<>>
    <3>2. m \in Handler /\ m.h = "onSSLShutdown"
      BY HandlersAre
    <3>3. ioq' = Tail(ioq) \o Aborted \o B /\ op' = op \ {"connect", "shutdown"}
      BY <1>1 DEF TimerClosesSocket
    <3>. HIDE DEF m
    <3>4. Tail(ioq) \in Seq(Handler) /\ Names(Tail(ioq)) \subseteq Names(ioq)
      BY <2>1, Running DEF Queue
    <3>5. /\ Tail(ioq) \o Aborted \in Seq(Handler)
          /\ Names(Tail(ioq) \o Aborted) = Names(Tail(ioq)) \cup Names(Aborted)
      BY <3>4, AbortedNames, NamesJoin
    <3>6. B \in Seq(Handler) /\ Names(B) \subseteq {"onSSLShutdown"}
      <4>1. <<>> \in Seq(Handler) /\ Names(<<>>) = {}
        BY Units
      <4>2. <<m>> \in Seq(Handler) /\ Names(<<m>>) = {m.h}
        <5>1. Append(<<>>, m) = <<m>>
          OBVIOUS
        <5>. QED  BY <3>2, <4>1, <5>1, NamesJoin
      <4>. QED  BY <3>2, <4>1, <4>2
    <3>. HIDE DEF B
    <3>7. Names(ioq') = Names(Tail(ioq)) \cup Names(Aborted) \cup Names(B)
      BY <3>3, <3>5, <3>6, NamesJoin
    <3>8. "resolve_handler" \notin Names(ioq')
      BY <3>1, <3>4, <3>6, <3>7, AbortedNames DEF Resolving
    <3>. QED  BY <3>1, <3>3, <3>8 DEF Resolving
  <2>. QED  BY <1>0, <2>1, <2>2 DEF TimerInv
<1>2. CASE TimerNoResponse \/ TimerNoWork \/ TimerTicks
  <2>1. timer' = TRUE /\ (endpoints' = endpoints \/ endpoints' = endpoints - 1)
    BY <1>2 DEF TimerNoResponse, TimerNoWork, TimerTicks, Resubmit
  <2>. QED  BY <1>0, <2>1 DEF TimerInv, TimerRuns
<1>. QED  BY <1>1, <1>2

\* A completion or a call leaves the timer, m_endpoints and the attempt alone; a
\* completed resolution is still one.
LEMMA CallTicks ==
  ASSUME IInv, TimerInv,
         UNCHANGED <<uri, hasConn, m_connecting, m_connected, socket, endpoints, timer, crashed>>,
         "resolve" \in op' => "resolve" \in op,
         NEW m \in Handler, ioq' = ioq \/ ioq' = Append(ioq, m),
         m.h = "resolve_handler" => "resolve" \in op
  PROVE  TimerInv'
<1>0. ioq \in Seq(Handler) /\ endpoints \in Nat
  BY DEF IInv, Types, Queue, Counts
<1>1. Names(ioq) \subseteq Names(ioq')
  BY <1>0, NamesJoin
<1>2. "resolve_handler" \in Names(ioq') => Resolving
  <2>1. CASE ioq' = ioq
    BY <2>1 DEF Resolving
  <2>2. CASE ioq' = Append(ioq, m)
    <3>1. Names(ioq') = Names(ioq) \cup {m.h}
      BY <1>0, <2>2, NamesJoin
    <3>. QED  BY <3>1 DEF Resolving
  <2>. QED  BY <2>1, <2>2
<1>3. Resolving' => Resolving
  BY <1>2 DEF Resolving
<1>4. TimerRuns => TimerRuns'
  <2>1. /\ TimerRuns <=> timer \/ "workloop_timer" \in Names(ioq)
        /\ TimerRuns' <=> timer' \/ "workloop_timer" \in Names(ioq')
    BY DEF TimerRuns, Queued, Names
  <2>. QED  BY <1>1, <2>1
<1>5. Steady
  BY <1>0, <1>3, <1>4 DEF Steady, Ticking
<1>. QED  BY <1>5, SteadyKeeps

\* A handler that is neither the timer's nor ends the connection: it may drop an
\* end point, connect, and queue what is not the resolver's.
LEMMA HandlerTicks ==
  ASSUME IInv, TimerInv, NEW f, Runs(f), f # "workloop_timer",
         UNCHANGED <<hasConn, timer, crashed>>, uri'.secure = uri.secure,
         m_connected' => m_connected \/ hasConn,
         "resolve" \in op' => "resolve" \in op,
         \/ endpoints' \in Nat /\ endpoints' < endpoints
         \/ /\ endpoints' = endpoints
            /\ m_connecting /\ socket # "open" => m_connecting' /\ socket' # "open",
         NEW r \in Seq(Handler), Names(r) \cap {"resolve_handler"} = {},
         ioq' = Tail(ioq) \o r
  PROVE  TimerInv'
<1>0. endpoints \in Nat
  BY DEF IInv, Types, Counts
<1>1. Tail(ioq) \in Seq(Handler) /\ Rest(Tail(ioq))
  BY RestOf
<1>2. Names(ioq') = Names(Tail(ioq)) \cup Names(r)
  BY <1>1, NamesJoin
<1>3. "resolve_handler" \in Names(ioq') => "resolve_handler" \in Names(Tail(ioq))
  BY <1>2
<1>4. Ticking
  BY <1>1, <1>2, <1>3, Keeping
<1>5. Steady
  BY <1>0, <1>4 DEF Steady
<1>. QED  BY <1>5, SteadyKeeps

\* What handlers put behind the rest of the queue.
LEMMA Tails ==
  ASSUME IInv, NEW f, Runs(f)
  PROVE  /\ Tail(ioq) = Tail(ioq) \o <<>> /\ <<>> \in Seq(Handler) /\ Names(<<>>) = {}
         /\ \A m \in Handler : /\ Append(Tail(ioq), m) = Tail(ioq) \o <<m>>
                               /\ <<m>> \in Seq(Handler) /\ Names(<<m>>) = {m.h}
<1>1. Tail(ioq) \in Seq(Handler)
  BY Running DEF Queue
<1>2. <<>> \in Seq(Handler) /\ Names(<<>>) = {}
  BY Units
<1>3. Tail(ioq) = Tail(ioq) \o <<>>
  BY <1>1, ConcatEmptySeq
<1>4. ASSUME NEW m \in Handler
      PROVE  /\ Append(Tail(ioq), m) = Tail(ioq) \o <<m>>
             /\ <<m>> \in Seq(Handler) /\ Names(<<m>>) = {m.h}
  <2>1. Append(<<>>, m) = <<m>>
    OBVIOUS
  <2>2. <<m>> \in Seq(Handler) /\ Names(<<m>>) = {m.h}
    BY <1>2, <2>1, NamesJoin
  <2>. QED  BY <1>1, <2>2, AppendIsConcat
<1>. QED  BY <1>2, <1>3, <1>4

\* Resolving and connecting: a resolution ends while the timer runs, and an attempt
\* whose socket the timer closed drops its end point.
LEMMA ConnectTicks ==
  ASSUME IInv, TimerInv,
         ResolveHandler \/ StartConnect \/ ConnectFailed \/ ConnectSucceeded \/ HandshakeFailed
  PROVE  TimerInv'
<1>0. /\ endpoints \in Nat /\ Resolved \in Nat \ {0} /\ uri \in Definition
  BY StratumAssumption DEF IInv, Types, Counts, Data
<1>1. CASE ResolveHandler
  <2>. DEFINE m == Posted("start_connect")
  <2>0. Runs("resolve_handler")
    BY <1>1 DEF ResolveHandler
  <2>1. m \in Handler /\ m.h = "start_connect"
    BY HandlersAre
  <2>2. CASE DisconnectFinalize(Tail(ioq)) /\ m_connected' = m_connected
    <3>1. ~m_connected
      BY <2>0, Running DEF IInv, Connection, Resolves, Resolving
    <3>2. Tail(ioq) \in Seq(Handler) /\ Rest(Tail(ioq))
      BY <2>0, RestOf
    <3>. QED  BY <2>2, <3>1, <3>2, FinalizeTicks
  <2>3. CASE /\ endpoints' = Resolved /\ ioq' = Append(Tail(ioq), m)
             /\ UNCHANGED <<uri, hasConn, flags, net, session, watch, crashed>>
    <3>1. Resolving /\ hasConn /\ ~m_connecting /\ ~crashed
      BY <2>0, Running DEF Resolving, IInv, Connection, Resolves
    <3>2. TimerRuns
      BY <3>1 DEF TimerInv
    <3>3. timer \/ "workloop_timer" \in Names(Tail(ioq))
      BY <2>0, <3>2, Running DEF TimerRuns, Queued, Names
    <3>. HIDE DEF m
    <3>4. Names(ioq') = Names(Tail(ioq)) \cup {"start_connect"}
      BY <2>0, <2>1, <2>3, RestOf, NamesJoin
    <3>5. timer' \/ "workloop_timer" \in Names(ioq')
      BY <2>3, <3>3, <3>4 DEF watch
    <3>6. TimerRuns'
      BY <3>5 DEF TimerRuns, Queued, Names
    <3>. QED  BY <1>0, <2>3, <3>1, <3>6 DEF TimerInv, flags
  <2>. QED  BY <1>1, <2>2, <2>3 DEF ResolveHandler
<1>2. CASE StartConnect
  <2>0. Runs("start_connect")
    BY <1>2 DEF StartConnect
  <2>1. CASE DisconnectFinalize(Tail(ioq)) /\ m_connected' = m_connected
    <3>1. ~m_connected
      BY <2>0, Running DEF IInv, Connection, Apart, Starting
    <3>2. Tail(ioq) \in Seq(Handler) /\ Rest(Tail(ioq))
      BY <2>0, RestOf
    <3>. QED  BY <2>1, <3>1, <3>2, FinalizeTicks
  <2>2. CASE /\ UNCHANGED <<uri, hasConn, m_connected, timer, endpoints, crashed>>
             /\ ioq' = Tail(ioq) /\ ("resolve" \in op' => "resolve" \in op)
             /\ ~m_connecting \/ UNCHANGED <<m_connecting, socket>>
    <3>1. ioq' = Tail(ioq) \o <<>> /\ <<>> \in Seq(Handler) /\ Names(<<>>) = {}
      BY <2>0, <2>2, Tails
    <3>2. /\ m_connecting /\ socket # "open" => m_connecting' /\ socket' # "open"
          /\ m_connected' => m_connected \/ hasConn
          /\ uri'.secure = uri.secure /\ Names(<<>>) \cap {"resolve_handler"} = {}
      BY <2>2, <3>1
    <3>3. "resolve" \in op' => "resolve" \in op
      BY <2>2
    <3>. QED  BY <2>0, <2>2, <3>1, <3>2, <3>3, HandlerTicks
  <2>. QED  BY <1>2, <2>1, <2>2 DEF StartConnect, flags, net, watch
<1>3. CASE ConnectFailed
  <2>. DEFINE m == Posted("start_connect")
  <2>1. m \in Handler /\ m.h = "start_connect"
    BY HandlersAre
  <2>2. /\ Runs("connect_handler") /\ endpoints' = endpoints - 1 /\ ioq' = Append(Tail(ioq), m)
        /\ UNCHANGED <<uri, hasConn, m_connected, op, timer, crashed>>
    BY <1>3 DEF ConnectFailed, watch
  <2>. HIDE DEF m
  <2>3. endpoints > 0
    BY <2>2, Running DEF IInv, Connection, Attempt, EndPoints
  <2>4. endpoints' \in Nat /\ endpoints' < endpoints
    BY <1>0, <2>2, <2>3
  <2>5. ioq' = Tail(ioq) \o <<m>> /\ <<m>> \in Seq(Handler) /\ Names(<<m>>) = {"start_connect"}
    BY <2>1, <2>2, Tails
  <2>. QED  BY <2>2, <2>4, <2>5, HandlerTicks
<1>4. CASE ConnectSucceeded
  <2>1. /\ Runs("connect_handler") /\ socket = "open" /\ hasConn /\ ioq' = Tail(ioq)
        /\ UNCHANGED <<hasConn, timer, endpoints, crashed>>
        /\ op' = op \cup {"read"}
        /\ uri' = [uri EXCEPT !.responds = TRUE, !.confirmed = @ \/ uri.fixed]
    BY <1>4 DEF ConnectSucceeded
  <2>2. uri'.secure = uri.secure
    BY <1>0, <2>1 DEF Definition
  <2>3. ioq' = Tail(ioq) \o <<>> /\ <<>> \in Seq(Handler) /\ Names(<<>>) = {}
    BY <2>1, Tails
  <2>. QED  BY <1>0, <2>1, <2>2, <2>3, HandlerTicks
<1>5. CASE HandshakeFailed
  <2>. DEFINE m == Posted("disconnect")
  <2>1. m \in Handler /\ m.h = "disconnect"
    BY HandlersAre
  <2>2. /\ Runs("connect_handler") /\ socket = "open" /\ hasConn /\ ioq' = Append(Tail(ioq), m)
        /\ UNCHANGED <<hasConn, op, timer, endpoints, crashed>>
        /\ uri' = [uri EXCEPT !.responds = TRUE, !.unrecoverable = TRUE]
    BY <1>5 DEF HandshakeFailed, watch
  <2>. HIDE DEF m
  <2>3. uri'.secure = uri.secure
    BY <1>0, <2>2 DEF Definition
  <2>4. ioq' = Tail(ioq) \o <<m>> /\ <<m>> \in Seq(Handler) /\ Names(<<m>>) = {"disconnect"}
    BY <2>1, <2>2, Tails
  <2>. QED  BY <1>0, <2>2, <2>3, <2>4, HandlerTicks
<1>. QED  BY <1>1, <1>2, <1>3, <1>4, <1>5

\* Lines, and the end of a TLS shutdown.
LEMMA LineTicks ==
  ASSUME IInv, TimerInv,
         \/ OnSSLShutdownCompleted \/ OnRecv \/ FakeResponse \/ OnRecvError \/ OnSend \/ OnSendError
  PROVE  TimerInv'
<1>. DEFINE m == Posted("disconnect")
<1>0. /\ endpoints \in Nat /\ uri \in Definition /\ m \in Handler /\ m.h = "disconnect"
  BY HandlersAre DEF IInv, Types, Counts, Data
<1>. HIDE DEF m
<1>1. ASSUME NEW f, Runs(f), f # "workloop_timer",
             UNCHANGED <<hasConn, m_connecting, m_connected, socket, endpoints, timer, crashed>>,
             uri'.secure = uri.secure, "resolve" \in op' => "resolve" \in op,
             ioq' = Tail(ioq) \/ ioq' = Append(Tail(ioq), m)
      PROVE  TimerInv'
  <2>1. /\ Tail(ioq) = Tail(ioq) \o <<>> /\ <<>> \in Seq(Handler) /\ Names(<<>>) = {}
        /\ Append(Tail(ioq), m) = Tail(ioq) \o <<m>>
        /\ <<m>> \in Seq(Handler) /\ Names(<<m>>) = {"disconnect"}
    BY <1>0, <1>1, Tails
  <2>2. CASE ioq' = Tail(ioq)
    BY <1>0, <1>1, <2>1, <2>2, HandlerTicks
  <2>3. CASE ioq' = Append(Tail(ioq), m)
    BY <1>0, <1>1, <2>1, <2>3, HandlerTicks
  <2>. QED  BY <1>1, <2>2, <2>3
<1>2. CASE OnSSLShutdownCompleted
  <2>. DEFINE n == Posted("disconnect_finalize")
  <2>1. n \in Handler /\ n.h = "disconnect_finalize"
    BY HandlersAre
  <2>2. /\ Runs("onSSLShutdown") /\ ioq' = Append(Tail(ioq), n)
        /\ UNCHANGED <<uri, hasConn, m_connecting, m_connected, socket, op, endpoints, timer, crashed>>
    BY <1>2 DEF OnSSLShutdownCompleted, flags, net
  <2>. HIDE DEF n
  <2>3. ioq' = Tail(ioq) \o <<n>> /\ <<n>> \in Seq(Handler) /\ Names(<<n>>) = {"disconnect_finalize"}
    BY <2>1, <2>2, Tails
  <2>. QED  BY <1>0, <2>2, <2>3, HandlerTicks
<1>3. CASE OnRecv \/ FakeResponse
  <2>1. PICK f \in {"onRecv", "processResponse"} : Runs(f) /\ ProcessResponse(Head(ioq), Tail(ioq))
    BY <1>3 DEF OnRecv, FakeResponse
  <2>2. Effect
    BY <2>1, ResponseEffect
  <2>3. /\ uri'.secure = uri.secure /\ (ioq' = Tail(ioq) \/ ioq' = Append(Tail(ioq), m))
        /\ "resolve" \in op' => "resolve" \in op
        /\ UNCHANGED <<hasConn, m_connecting, m_connected, socket, endpoints, timer, crashed>>
    BY <1>3, <2>2 DEF Effect, OnRecv, FakeResponse, flags, m
  <2>. QED  BY <1>1, <2>1, <2>3
<1>4. CASE OnRecvError
  <2>1. /\ Runs("onRecv") /\ uri' = [uri EXCEPT !.unrecoverable = @ \/ (isConnected /\ session = "authorizing")]
        /\ ioq' = Tail(ioq) \o (IF isConnected THEN <<m>> ELSE <<>>)
        /\ UNCHANGED <<hasConn, m_connecting, m_connected, socket, op, endpoints, timer, crashed>>
    BY <1>4 DEF OnRecvError, flags, net, watch, m
  <2>2. uri'.secure = uri.secure
    BY <1>0, <2>1 DEF Definition
  <2>3. ioq' = Tail(ioq) \/ ioq' = Append(Tail(ioq), m)
    BY <1>0, <2>1, Tails
  <2>. QED  BY <1>1, <2>1, <2>2, <2>3
<1>5. CASE OnSend
  BY <1>1, <1>5 DEF OnSend, flags, watch
<1>6. CASE OnSendError
  <2>1. PICK twice \in {FALSE, uri.secure} :
          ioq' = Tail(ioq) \o (IF twice THEN <<m>> ELSE <<>>) \o (IF isConnected THEN <<m>> ELSE <<>>)
    BY <1>6 DEF OnSendError, m
  <2>2. /\ Runs("onSend")
        /\ UNCHANGED <<uri, hasConn, m_connecting, m_connected, socket, op, endpoints, timer, crashed>>
    BY <1>6 DEF OnSendError, flags, watch
  <2>. DEFINE A == IF twice THEN <<m>> ELSE <<>>
              B == IF isConnected THEN <<m>> ELSE <<>>
  <2>3. /\ <<>> \in Seq(Handler) /\ Names(<<>>) = {}
        /\ <<m>> \in Seq(Handler) /\ Names(<<m>>) = {"disconnect"}
    BY <1>0, <2>2, Tails
  <2>4. /\ A \in Seq(Handler) /\ Names(A) \subseteq {"disconnect"}
        /\ B \in Seq(Handler) /\ Names(B) \subseteq {"disconnect"}
    BY <2>3
  <2>5. Tail(ioq) \in Seq(Handler)
    BY <2>2, Running DEF Queue
  <2>. HIDE DEF A, B
  <2>6. A \o B \in Seq(Handler) /\ Names(A \o B) = Names(A) \cup Names(B)
    BY <2>4, NamesJoin
  <2>7. ioq' = Tail(ioq) \o (A \o B)
    <3>1. ioq' = (Tail(ioq) \o A) \o B
      BY <2>1 DEF A, B
    <3>. QED  BY <2>4, <2>5, <3>1, Associates
  <2>8. Names(A \o B) \cap {"resolve_handler"} = {}
    BY <2>4, <2>6
  <2>. QED  BY <1>0, <2>2, <2>6, <2>7, <2>8, HandlerTicks
<1>. QED  BY <1>2, <1>3, <1>4, <1>5, <1>6

\* The network, the pool, calls and the clock.
LEMMA WorldTicks ==
  ASSUME IInv, TimerInv, PoolStep \/ NetworkStep \/ SubmitSolution \/ SubmitHashrate
                         \/ TimerExpires \/ PleaAges
  PROVE  TimerInv'
<1>. DEFINE quit == Posted("disconnect")
<1>0. quit \in Handler /\ quit.h = "disconnect"
  BY HandlersAre
<1>. HIDE DEF quit
<1>1. ASSUME NEW o, NEW m \in Handler, Completes(o, m), m.h = "resolve_handler" => o = "resolve"
      PROVE  TimerInv'
  <2>1. /\ o \in op /\ op' = op \ {o} /\ ioq' = Append(ioq, m)
        /\ UNCHANGED <<uri, hasConn, m_connecting, m_connected, socket, endpoints, timer, crashed>>
    BY <1>1 DEF Completes, flags, watch
  <2>. QED  BY <1>1, <2>1, CallTicks
<1>2. CASE PoolStep
  <2>1. PICK id \in Request \cup {"invalid", "share", "999"}, ok \in BOOLEAN : Completes("read", Line(id, ok))
    BY <1>2 DEF PoolStep, ReadFails, InvalidLine, LoginAnswered, ShareAnswered, Request, IInv, Types, Data
  <2>2. Line(id, ok) \in Handler /\ Line(id, ok).h = "onRecv"
    BY HandlersAre
  <2>. QED  BY <1>1, <2>1, <2>2
<1>3. CASE ResolveCompletes \/ ConnectCompletes
  <2>1. PICK ok \in BOOLEAN, f \in {"resolve", "connect"} :
          Completes(f, Completed(IF f = "resolve" THEN "resolve_handler" ELSE "connect_handler", ok))
    BY <1>3 DEF ResolveCompletes, ConnectCompletes
  <2>2. CASE f = "resolve"
    BY <1>1, <2>1, <2>2, HandlersAre
  <2>3. CASE f = "connect"
    BY <1>1, <2>1, <2>3, HandlersAre
  <2>. QED  BY <2>2, <2>3
<1>4. CASE ShutdownCompletes
  BY <1>1, <1>4, HandlersAre DEF ShutdownCompletes
<1>5. CASE WriteCompletes
  <2>1. PICK ok \in BOOLEAN : ioq' = Append(ioq, Completed("onSend", ok))
    BY <1>5 DEF WriteCompletes
  <2>2. Completed("onSend", ok) \in Handler /\ Completed("onSend", ok).h = "onSend"
    BY HandlersAre
  <2>3. UNCHANGED <<uri, hasConn, m_connecting, m_connected, socket, op, endpoints, timer, crashed>>
    BY <1>5 DEF WriteCompletes, flags, watch
  <2>. QED  BY <2>1, <2>2, <2>3, CallTicks
<1>6. CASE SubmitSolution
  <2>1. UNCHANGED <<uri, hasConn, m_connecting, m_connected, socket, op, endpoints, timer, ioq, crashed>>
    BY <1>6 DEF SubmitSolution, flags
  <2>. QED  BY <1>0, <2>1, CallTicks
<1>7. CASE SubmitHashrate
  <2>1. CASE Crash
    BY <2>1 DEF Crash, TimerInv
  <2>2. CASE UNCHANGED <<uri, hasConn, flags, socket, session, watch, endpoints, op, asked,
                         shares, ioq, crashed>>
    BY <1>0, <2>2, CallTicks DEF flags, watch
  <2>. QED  BY <1>7, <2>1, <2>2 DEF SubmitHashrate
<1>8. CASE TimerExpires
  <2>1. /\ ioq' = Append(ioq, Posted("workloop_timer"))
        /\ UNCHANGED <<hasConn, m_connected, endpoints, crashed>>
    BY <1>8 DEF TimerExpires, flags
  <2>2. ioq \in Seq(Handler) /\ Posted("workloop_timer") \in Handler
        /\ Posted("workloop_timer").h = "workloop_timer"
    BY HandlersAre DEF IInv, Types, Queue
  <2>3. Names(ioq') = Names(ioq) \cup {"workloop_timer"}
    BY <2>1, <2>2, NamesJoin
  <2>4. TimerRuns'
    BY <2>3 DEF TimerRuns, Queued, Names
  <2>. QED  BY <2>1, <2>4 DEF TimerInv
<1>9. CASE PleaAges
  <2>1. UNCHANGED <<uri, hasConn, m_connecting, m_connected, socket, op, endpoints, timer, ioq, crashed>>
    BY <1>9 DEF PleaAges, flags, net
  <2>. QED  BY <1>0, <2>1, CallTicks
<1>. QED  BY <1>2, <1>3, <1>4, <1>5, <1>6, <1>7, <1>8, <1>9 DEF NetworkStep

\* Every step keeps the timer's invariant.
LEMMA NextTicks == IInv /\ TimerInv /\ [Next]_vars => TimerInv'
<1>. SUFFICES ASSUME IInv, TimerInv, [Next]_vars PROVE TimerInv'
  OBVIOUS
<1>0. /\ ioq \in Seq(Handler) /\ Rest(ioq) /\ Resolved \in Nat \ {0}
  BY StratumAssumption DEF IInv, Types, Queue, Rest
<1>1. CASE RunDisconnect
  <2>1. Runs("disconnect") /\ Disconnect(Tail(ioq))
    BY <1>1 DEF RunDisconnect
  <2>2. Tail(ioq) \in Seq(Handler) /\ Rest(Tail(ioq))
    BY <2>1, RestOf
  <2>. QED  BY <2>1, <2>2, DisconnectTicks
<1>2. CASE ManagerDisconnects
  BY <1>0, <1>2, DisconnectTicks DEF ManagerDisconnects
<1>3. CASE RunDisconnectFinalize
  <2>1. Runs("disconnect_finalize") /\ DisconnectFinalize(Tail(ioq)) /\ m_connected' = m_connected
    BY <1>3 DEF RunDisconnectFinalize
  <2>2. ~m_connected
    BY <2>1, Running DEF IInv, Connection, Closing, Finalizing
  <2>3. Tail(ioq) \in Seq(Handler) /\ Rest(Tail(ioq))
    BY <2>1, RestOf
  <2>. QED  BY <2>1, <2>2, <2>3, FinalizeTicks
<1>4. CASE RotateConnect
  <2>1. CASE Crash
    BY <2>1 DEF Crash, TimerInv
  <2>2. CASE NewClient
    <3>1. timer' = TRUE /\ endpoints' \in {0, 1} /\ m_connected' = FALSE
      BY <2>2 DEF NewClient, Connect
    <3>. QED  BY <1>0, <3>1 DEF TimerInv, TimerRuns
  <2>. QED  BY <1>4, <2>1, <2>2 DEF RotateConnect
<1>5. CASE LateHandler
  BY <1>5 DEF LateHandler, Crash, TimerInv
<1>6. CASE UNCHANGED vars
  <2>1. UNCHANGED <<uri, hasConn, m_connecting, m_connected, socket, op, endpoints, timer, ioq, crashed>>
    BY <1>6 DEF vars
  <2>2. Posted("disconnect") \in Handler /\ Posted("disconnect").h = "disconnect"
    BY HandlersAre
  <2>. QED  BY <2>1, <2>2, CallTicks
<1>. QED  BY <1>1, <1>2, <1>3, <1>4, <1>5, <1>6, ConnectTicks, LineTicks, WorldTicks, TimerTicksOn
          DEF Next, HandlerStep, CallStep, Ended

\* A login request without an answer is watched (workloop_timer_elapsed): its plea
\* is not taken by the answers of shares or of requests of an earlier attempt, and
\* until an end point was dropped the timer that looks at it runs.
THEOREM StratumLoginIsWatched == Spec => []LoginIsWatched
<1>1. IInv /\ TimerInv => LoginIsWatched
  <2>. SUFFICES ASSUME IInv, TimerInv, asked = "login", isConnected, ~crashed,
                       ~Queued("processResponse"), ~Queued("disconnect")
                PROVE  pleas > 0 /\ (TimerRuns \/ uri.secure \/ endpoints < Resolved)
    BY DEF LoginIsWatched
  <2>1. Names(ioq) \cap {"processResponse", "disconnect"} = {}
    BY QueuedIsNamed
  <2>2. pleas >= 1 + shares + Bit("share" \in Lines(ioq))
    BY <2>1 DEF IInv, Login, Watched
  <2>3. pleas \in Nat /\ shares \in Nat /\ Bit("share" \in Lines(ioq)) \in Nat
    BY DEF IInv, Types, Counts, Bit
  <2>4. pleas > 0
    BY <2>2, <2>3
  <2>5. hasConn
    BY DEF isConnected, TimerInv
  <2>6. endpoints \in Nat /\ Resolved \in Nat /\ ~m_connecting
    BY StratumAssumption DEF IInv, Types, Counts, isConnected, isPendingState
  <2>. QED  BY <2>4, <2>5, <2>6 DEF TimerInv
<1>2. Init => TimerInv
  <2>. SUFFICES ASSUME Init PROVE TimerInv
    OBVIOUS
  <2>1. timer = TRUE /\ endpoints \in {0, 1} /\ m_connected = FALSE
    BY DEF Init, Connect
  <2>. QED  BY <2>1, StratumAssumption DEF TimerInv, TimerRuns
<1>3. Spec => []TimerInv
  BY <1>2, NextTicks, StratumInv, PTL DEF Spec
<1>. QED  BY <1>1, <1>3, StratumInv, PTL

(***************************************************************************)
(* The client implements ClientLifecycle (its safety part).                *)
(***************************************************************************)

\* How a step may change what the manager sees.
Stays == UNCHANGED <<crashed, hasConn, session>>
Breaks == ~crashed /\ crashed' = TRUE /\ UNCHANGED hasConn
Falls == ~crashed /\ UNCHANGED crashed /\ hasConn /\ hasConn' = FALSE
Renews == ~crashed /\ UNCHANGED crashed /\ ~hasConn /\ hasConn' = TRUE /\ session' = "none"
Advances ==
  /\ ~crashed /\ UNCHANGED <<crashed, hasConn>> /\ hasConn
  /\ session # "none" => session' # "none"
Change == Stays \/ Breaks \/ Falls \/ Renews \/ Advances

\* disconnect_finalize() tries again only before the session was there.
LEMMA FinalizeChange ==
  ASSUME IInv, ~crashed, NEW q, DisconnectFinalize(q)
  PROVE  Change
<1>1. CASE Crash
  BY <1>1 DEF Crash, Change, Breaks
<1>2. CASE hasConn /\ UNCHANGED <<hasConn, crashed>> /\ ~uri.confirmed
  BY <1>2 DEF IInv, Login, Progress, Change, Advances
<1>3. CASE hasConn /\ hasConn' = FALSE /\ UNCHANGED crashed
  BY <1>3 DEF Change, Falls
<1>. QED  BY <1>1, <1>2, <1>3 DEF DisconnectFinalize

\* disconnect()
LEMMA DisconnectChange ==
  ASSUME IInv, ~crashed, NEW q, Disconnect(q)
  PROVE  Change
<1>1. CASE DisconnectFinalize(q)
  BY <1>1, FinalizeChange
<1>2. CASE UNCHANGED <<hasConn, session, crashed>>
  BY <1>2 DEF Change, Stays
<1>. QED  BY <1>1, <1>2 DEF Disconnect

\* A response takes no session back.
LEMMA ResponseChange ==
  ASSUME IInv, NEW f \in {"onRecv", "processResponse"}, Runs(f),
         ProcessResponse(Head(ioq), Tail(ioq)), UNCHANGED <<hasConn, crashed>>
  PROVE  Change
<1>. DEFINE m == Head(ioq)
            q == Tail(ioq)
<1>1. ~crashed /\ uri.mode \in 0..3
  BY DEF Runs, IInv, Types, Data, Definition
<1>2. ProcessResponse(m, q)
  OBVIOUS
<1>. HIDE DEF m, q
<1>3. CASE LoginResponse(m, q)
  <2>1. hasConn /\ session' = LoginStep(uri.mode).session
    BY <1>3 DEF LoginResponse
  <2>2. session' # "none"
    BY <1>1, <2>1, LoginSteps
  <2>. QED  BY <1>1, <2>1, <2>2 DEF Change, Advances
<1>4. CASE SubscribeResponse(m, q) \/ AuthorizeResponse(m, q)
  BY <1>1, <1>4 DEF SubscribeResponse, AuthorizeResponse, Change, Advances
<1>5. CASE InvalidResponse(m, q) \/ RefusedResponse(m, q) \/ UnnamedRefusal(m, q) \/ ShareResponse(m, q)
  BY <1>5 DEF InvalidResponse, RefusedResponse, UnnamedRefusal, ShareResponse, Change, Stays
<1>. QED  BY <1>2, <1>3, <1>4, <1>5 DEF ProcessResponse

\* rotateConnect finds m_conn unset.
LEMMA RotateChange == IInv /\ RotateConnect => Change
<1>. SUFFICES ASSUME IInv, RotateConnect PROVE Change
  OBVIOUS
<1>1. ~crashed /\ "rotateConnect" \in Names(ioq)
  BY Running DEF RotateConnect
<1>2. ~hasConn
  BY <1>1 DEF IInv, Login, Owner
<1>3. CASE Crash
  BY <1>1, <1>3 DEF Crash, Change, Breaks
<1>4. CASE NewClient /\ UNCHANGED crashed
  BY <1>1, <1>2, <1>4 DEF NewClient, Change, Renews
<1>. QED  BY <1>3, <1>4 DEF RotateConnect

\* The work loop timer leaves the session and m_conn alone (workloop_timer_elapsed).
LEMMA TimerChange ==
  TimerClosesSocket \/ TimerNoResponse \/ TimerNoWork \/ TimerTicks => Change
<1>1. WorkloopTimer => Stays
  BY DEF WorkloopTimer, Stays
<1>. QED  BY <1>1 DEF TimerClosesSocket, TimerNoResponse, TimerNoWork, TimerTicks, Change

\* Every step changes what the manager sees in one of the ways above.
LEMMA NextChange == IInv /\ [Next]_vars => Change
<1>. SUFFICES ASSUME IInv, [Next]_vars PROVE Change
  OBVIOUS
<1>1. CASE RunDisconnect \/ ManagerDisconnects
  BY <1>1, DisconnectChange DEF RunDisconnect, ManagerDisconnects, Runs
<1>2. CASE RunDisconnectFinalize
  BY <1>2, FinalizeChange DEF RunDisconnectFinalize, Runs
<1>3. CASE ResolveHandler
  <2>1. CASE DisconnectFinalize(Tail(ioq))
    BY <1>3, <2>1, FinalizeChange DEF ResolveHandler, Runs
  <2>2. CASE Stays
    BY <2>2 DEF Change
  <2>. QED  BY <1>3, <2>1, <2>2 DEF ResolveHandler, Stays
<1>4. CASE StartConnect
  <2>1. CASE DisconnectFinalize(Tail(ioq))
    BY <1>4, <2>1, FinalizeChange DEF StartConnect, Runs
  <2>2. CASE Stays
    BY <2>2 DEF Change
  <2>. QED  BY <1>4, <2>1, <2>2 DEF StartConnect, Stays
<1>5. CASE RotateConnect
  BY <1>5, RotateChange
<1>6. CASE OnRecv
  BY <1>6, ResponseChange DEF OnRecv
<1>7. CASE FakeResponse
  BY <1>7, ResponseChange DEF FakeResponse
<1>8. CASE LateHandler
  BY <1>8 DEF LateHandler, Crash, Change, Breaks
<1>9. CASE TimerClosesSocket \/ TimerNoResponse \/ TimerNoWork \/ TimerTicks
  BY <1>9, TimerChange
<1>10. CASE OnSSLShutdownCompleted \/ ConnectFailed \/ ConnectSucceeded \/ HandshakeFailed
  BY <1>10 DEF OnSSLShutdownCompleted, ConnectFailed, ConnectSucceeded, HandshakeFailed, Change, Stays
<1>11. CASE OnRecvError \/ OnSend \/ OnSendError
  BY <1>11 DEF OnRecvError, OnSend, OnSendError, Change, Stays
<1>12. CASE SubmitSolution
  BY <1>12 DEF SubmitSolution, Change, Stays
<1>13. CASE SubmitHashrate
  BY <1>13 DEF SubmitHashrate, Crash, Change, Breaks, Stays
<1>14. CASE PoolStep
  BY <1>14 DEF PoolStep, ReadFails, InvalidLine, LoginAnswered, ShareAnswered, Completes, Change, Stays
<1>15. CASE NetworkStep
  BY <1>15 DEF NetworkStep, ResolveCompletes, ConnectCompletes, ShutdownCompletes, WriteCompletes,
               Completes, Change, Stays
<1>16. CASE TimerExpires \/ PleaAges
  BY <1>16 DEF TimerExpires, PleaAges, Change, Stays
<1>17. CASE UNCHANGED vars
  BY <1>17 DEF vars, Change, Stays
<1>. QED  BY <1>1, <1>2, <1>3, <1>4, <1>5, <1>6, <1>7, <1>8, <1>9, <1>10, <1>11, <1>12, <1>13,
             <1>14, <1>15, <1>16, <1>17 DEF Next, HandlerStep, CallStep, Ended

\* rotateConnect is posted once while m_conn is unset, and else not at all.
Rotating == QueuedCount("rotateConnect") = Bit(~hasConn)

\* The queue and m_conn agree on it (disconnect_finalize, rotateConnect).
LEMMA RotationsCounted == IInv => Rotating
<1>. SUFFICES ASSUME IInv PROVE Rotating
  OBVIOUS
<1>1. Queue(ioq) /\ "rotateConnect" \in Singles
  BY DEF IInv, Types, Singles
<1>2. QueuedCount("rotateConnect") = Bit("rotateConnect" \in Names(ioq))
  BY <1>1, CountOnce DEF QueuedCount
<1>. QED  BY <1>2 DEF IInv, Login, Owner, Bit, Rotating

\* The stratum client does only what the manager relies on (PoolClient.h): through
\* all modes and end points, TLS shutdowns and late completions it comes up at most
\* once, a session that was up is never silently tried again, disconnect_finalize
\* tells the manager once, and nothing but rotateConnect brings another client.
THEOREM StratumImplementsLifecycle == Spec => Client!Safety
<1>1. Init => Client!Init
  <2>. SUFFICES ASSUME Init PROVE Client!Init
    OBVIOUS
  <2>1. crashed = FALSE /\ hasConn = TRUE /\ session = "none"
    BY DEF Init
  <2>2. QueuedCount("rotateConnect") = 0
    BY <2>1, InitIInv, RotationsCounted DEF Bit, Rotating
  <2>3. Phase = "trying"
    BY <2>1 DEF Phase
  <2>. QED  BY <2>2, <2>3 DEF Client!Init
<1>2. IInv /\ Rotating /\ Rotating' /\ [Next]_vars => [Client!Next]_(Client!lifecycle)
  <2>. SUFFICES ASSUME IInv, Rotating, Rotating', [Next]_vars
                PROVE  [Client!Next]_(Client!lifecycle)
    OBVIOUS
  <2>. DEFINE Rotations == QueuedCount("rotateConnect")
  <2>1. Rotations = Bit(~hasConn)
    BY DEF Rotating
  <2>2. Rotations' = Bit(~hasConn')
    BY DEF Rotating, Bit
  <2>. HIDE DEF Rotations
  <2>3. /\ crashed => Phase = "ended"
        /\ ~crashed /\ ~hasConn => Phase = "gone"
        /\ ~crashed /\ hasConn /\ session # "none" => Phase = "up"
        /\ ~crashed /\ hasConn /\ session = "none" => Phase = "trying"
    BY DEF Phase
  <2>4. /\ crashed' => Phase' = "ended"
        /\ ~crashed' /\ ~hasConn' => Phase' = "gone"
        /\ ~crashed' /\ hasConn' /\ session' # "none" => Phase' = "up"
        /\ ~crashed' /\ hasConn' /\ session' = "none" => Phase' = "trying"
    BY DEF Phase
  <2>5. \/ Phase' = Phase /\ Rotations' = Rotations
        \/ Phase # "ended" /\ Phase' = "ended" /\ Rotations' = Rotations
        \/ Phase \in {"trying", "up"} /\ Phase' = "gone" /\ Rotations' = Rotations + 1
        \/ Phase = "gone" /\ Rotations = 1 /\ Phase' = "trying" /\ Rotations' = 0
        \/ Phase = "trying" /\ Phase' = "up" /\ Rotations' = Rotations
    <3>1. CASE Stays
      <4>1. Phase' = Phase
        BY <3>1 DEF Stays, Phase
      <4>. QED  BY <2>1, <2>2, <3>1, <4>1 DEF Stays
    <3>2. CASE Breaks
      BY <2>1, <2>2, <2>3, <2>4, <3>2 DEF Breaks
    <3>3. CASE Falls
      BY <2>1, <2>2, <2>3, <2>4, <3>3 DEF Falls, Bit
    <3>4. CASE Renews
      BY <2>1, <2>2, <2>3, <2>4, <3>4 DEF Renews, Bit
    <3>5. CASE Advances
      BY <2>1, <2>2, <2>3, <2>4, <3>5 DEF Advances
    <3>. QED  BY <3>1, <3>2, <3>3, <3>4, <3>5, NextChange DEF Change
  <2>. QED  BY <2>5 DEF Rotations, Client!Next, Client!lifecycle, Client!ComesUp, Client!GoesDown,
                        Client!Replaced, Client!Fails
<1>. QED  BY <1>1, <1>2, StratumInv, RotationsCounted, PTL DEF Spec, Client!Safety

=============================================================================
