--------------------------- MODULE ApiServerProofs ---------------------------
(***************************************************************************)
(* Proofs about the API server, for any number of sessions and any set of  *)
(* requests: who may change the machine, when a session counts as          *)
(* authenticated, and that a session whose writes never overlapped gets    *)
(* every reply once, whole and in order.                                   *)
(***************************************************************************)
EXTENDS ApiServer, SequenceTheorems, TLAPS

(***************************************************************************)
(* Requests: what processRequest may do to the machine and the session.    *)
(***************************************************************************)
MachType == [scrambler : Int, width : Int, verbosity : Int, paused : SUBSET Int,
             pools : Int, active : Int, restart : BOOLEAN, reboot : BOOLEAN]
Request == [form : Forms, method : STRING, param : STRING, v : Int, w : Int]
Outcome == [mach : MachType, auth : BOOLEAN, code : Int]

\* The outcome of a request of an authenticated session: the session stays
\* authenticated, and an error has changed nothing but, perhaps, the pool.
Authorized(m, p) ==
  /\ p \in Outcome
  /\ p.auth = TRUE
  /\ \/ p.code = Answered
     \/ p.mach = m
     \/ \E k \in Int : p.mach = [m EXCEPT !.active = k]

\* A request that is carried out.
LEMMA OkAuthorized ==
  ASSUME NEW m, NEW n \in MachType PROVE Authorized(m, Ok(n, TRUE))
BY DEF Authorized, Ok, Outcome, Answered

\* A request that is refused, before or after it selected another pool.
LEMMA ErrorAuthorized ==
  ASSUME NEW m \in MachType, NEW c \in Int
  PROVE  /\ Authorized(m, Error(m, TRUE, c))
         /\ \A k \in Int : Authorized(m, Error([m EXCEPT !.active = k], TRUE, c))
<1>1. Authorized(m, Error(m, TRUE, c))  BY DEF Authorized, Error, Outcome
<1>2. ASSUME NEW k \in Int PROVE Authorized(m, Error([m EXCEPT !.active = k], TRUE, c))
  <2>1. [m EXCEPT !.active = k] \in MachType  BY DEF MachType
  <2>. QED  BY <2>1 DEF Authorized, Error, Outcome
<1>. QED  BY <1>1, <1>2

\* What the methods leave of the machine's type.
LEMMA MachUpdates ==
  ASSUME NEW m \in MachType, NEW k \in Int
  PROVE  /\ [m EXCEPT !.scrambler = k] \in MachType
         /\ [m EXCEPT !.verbosity = k] \in MachType
         /\ [m EXCEPT !.active = k] \in MachType
         /\ [m EXCEPT !.restart = TRUE] \in MachType
         /\ [m EXCEPT !.pools = m.pools + 1] \in MachType
         /\ \A j \in Int : [m EXCEPT !.scrambler = k, !.width = j] \in MachType
         /\ \A j \in Int : [m EXCEPT !.pools = m.pools - 1, !.active = j] \in MachType
         /\ \A P \in SUBSET Int : [m EXCEPT !.paused = P] \in MachType
         /\ \A b \in BOOLEAN : [m EXCEPT !.reboot = b] \in MachType
<1>1. [m EXCEPT !.scrambler = k] \in MachType /\ [m EXCEPT !.verbosity = k] \in MachType
  BY DEF MachType
<1>2. [m EXCEPT !.active = k] \in MachType  BY DEF MachType
<1>3. [m EXCEPT !.restart = TRUE] \in MachType  BY DEF MachType
<1>4. [m EXCEPT !.pools = m.pools + 1] \in MachType  BY DEF MachType
<1>5. ASSUME NEW j \in Int PROVE [m EXCEPT !.scrambler = k, !.width = j] \in MachType
  BY DEF MachType
<1>6. ASSUME NEW j \in Int PROVE [m EXCEPT !.pools = m.pools - 1, !.active = j] \in MachType
  <2>1. ASSUME NEW p \in Int PROVE [m EXCEPT !.pools = p, !.active = j] \in MachType
    BY DEF MachType
  <2>2. m.pools - 1 \in Int  BY DEF MachType
  <2>. QED  BY <2>1, <2>2, Zenon
<1>7. ASSUME NEW P \in SUBSET Int PROVE [m EXCEPT !.paused = P] \in MachType
  BY DEF MachType
<1>8. ASSUME NEW b \in BOOLEAN PROVE [m EXCEPT !.reboot = b] \in MachType
  BY DEF MachType
<1>. QED  BY <1>1, <1>2, <1>3, <1>4, <1>5, <1>6, <1>7, <1>8, Zenon

\* Every method that writes, called for an authenticated session.
LEMMA WriteAuthorized ==
  ASSUME NEW m \in MachType, NEW r \in Request, NEW busy \in BOOLEAN, r.method \in Writes
  PROVE  Authorized(m, Write(m, busy, r))
<1>0. r.v \in Int /\ r.w \in Int  BY DEF Request
<1>1. InvalidParams \in Int /\ Unprocessable \in Int /\ InternalError \in Int /\ NoCode \in Int
  BY DEF InvalidParams, Unprocessable, InternalError, NoCode
<1>2. ASSUME NEW c \in Int PROVE Authorized(m, Error(m, TRUE, c))  BY ErrorAuthorized
<1>3. Authorized(m, RemoveConnection(m, busy, r))
  <2>1. CASE busy \/ r.v >= m.pools \/ r.v = m.active
    BY <1>1, <1>2, <2>1 DEF RemoveConnection
  <2>2. CASE ~(busy \/ r.v >= m.pools \/ r.v = m.active)
    <3>. DEFINE j == IF m.active > r.v THEN m.active - 1 ELSE m.active
    <3>1. j \in Int  BY <1>0 DEF MachType
    <3>2. RemoveConnection(m, busy, r) = Ok([m EXCEPT !.pools = m.pools - 1, !.active = j], TRUE)
      BY <2>2 DEF RemoveConnection
    <3>. HIDE DEF j
    <3>. QED  BY <3>1, <3>2, MachUpdates, OkAuthorized
  <2>. QED  BY <2>1, <2>2
<1>4. Authorized(m, SetActiveConnection(m, busy, r))
  <2>1. CASE SetActiveConnection(m, busy, r) = Error(m, TRUE, Unprocessable)  BY <1>1, <1>2, <2>1
  <2>2. CASE SetActiveConnection(m, busy, r) = Ok([m EXCEPT !.active = r.v], TRUE)
    BY <1>0, <2>2, MachUpdates, OkAuthorized
  <2>3. CASE SetActiveConnection(m, busy, r) = Error([m EXCEPT !.active = r.w], TRUE, Unprocessable)
    BY <1>0, <1>1, <2>3, ErrorAuthorized
  <2>. QED  BY <2>1, <2>2, <2>3 DEF SetActiveConnection
<1>5. Authorized(m, SetScrambler(m, r))
  <2>. DEFINE k == IF r.v = -1 THEN m.scrambler ELSE r.v
              j == IF r.w = -1 THEN m.width
                   ELSE IF r.w < 10 THEN 10 ELSE IF r.w > 50 THEN 40 ELSE r.w
  <2>1. k \in Int /\ j \in Int  BY <1>0 DEF MachType
  <2>2. Authorized(m, Ok([m EXCEPT !.scrambler = k, !.width = j], TRUE))
    <3>. HIDE DEF k, j
    <3>. QED  BY <2>1, MachUpdates, OkAuthorized
  <2>3. \/ SetScrambler(m, r) = Ok([m EXCEPT !.scrambler = k, !.width = j], TRUE)
        \/ SetScrambler(m, r) = Error(m, TRUE, InvalidParams)
        \/ SetScrambler(m, r) = Error(m, TRUE, Unprocessable)
        \/ SetScrambler(m, r) = Error(m, TRUE, InternalError)
        \/ SetScrambler(m, r) = Error(m, TRUE, NoCode)
    BY DEF SetScrambler
  <2>. HIDE DEF k, j
  <2>. QED  BY <1>1, <1>2, <2>2, <2>3
<1>6. Authorized(m, PauseGpu(m, r))
  <2>. DEFINE P == IF r.w = 1 THEN m.paused \cup {r.v} ELSE m.paused \ {r.v}
  <2>1. P \in SUBSET Int  BY <1>0 DEF MachType
  <2>2. Authorized(m, Ok([m EXCEPT !.paused = P], TRUE))
    <3>. HIDE DEF P
    <3>. QED  BY <1>0, <2>1, MachUpdates, OkAuthorized
  <2>3. \/ PauseGpu(m, r) = Ok([m EXCEPT !.paused = P], TRUE)
        \/ PauseGpu(m, r) = Error(m, TRUE, InvalidParams)
        \/ PauseGpu(m, r) = Error(m, TRUE, Unprocessable)
    BY DEF PauseGpu
  <2>. HIDE DEF P
  <2>. QED  BY <1>1, <1>2, <2>2, <2>3
<1>7. Authorized(m, SetVerbosity(m, r))
  <2>1. \/ SetVerbosity(m, r) = Ok([m EXCEPT !.verbosity = r.v], TRUE)
        \/ SetVerbosity(m, r) = Error(m, TRUE, InvalidParams)
        \/ SetVerbosity(m, r) = Error(m, TRUE, Unprocessable)
    BY DEF SetVerbosity
  <2>. QED  BY <1>0, <1>1, <1>2, <2>1, MachUpdates, OkAuthorized
<1>8. Authorized(m, AddConnection(m, r))
  <2>1. \/ AddConnection(m, r) = Ok([m EXCEPT !.pools = m.pools + 1], TRUE)
        \/ AddConnection(m, r) = Error(m, TRUE, InvalidParams)
        \/ AddConnection(m, r) = Error(m, TRUE, Unprocessable)
    BY DEF AddConnection
  <2>. QED  BY <1>0, <1>1, <1>2, <2>1, MachUpdates, OkAuthorized
<1>9. Authorized(m, Reboot(m, r))
  <2>1. PICK b \in BOOLEAN : Reboot(m, r) = Ok([m EXCEPT !.reboot = b], TRUE)
    BY DEF Reboot
  <2>. QED  BY <1>0, <2>1, MachUpdates, OkAuthorized
<1>10. Authorized(m, Ok([m EXCEPT !.scrambler = r.v], TRUE))
  BY <1>0, MachUpdates, OkAuthorized
<1>11. Authorized(m, Ok([m EXCEPT !.restart = TRUE], TRUE))
  BY <1>0, MachUpdates, OkAuthorized
<1>. QED
  BY <1>1, <1>2, <1>3, <1>4, <1>5, <1>6, <1>7, <1>8, <1>9, <1>10, <1>11 DEF Write, Writes

\* What processRequest may do, whatever the request: a session is
\* authenticated after it only by the right password, or because it was and
\* the request was no api_authorize; the machine changes only for an
\* authenticated session of a port that is not read-only.
LEMMA RequestEffects ==
  ASSUME NEW m \in MachType, NEW a \in BOOLEAN, NEW readonly \in BOOLEAN,
         NEW busy \in BOOLEAN, NEW r \in Request
  PROVE  LET p == ProcessRequest(m, a, readonly, busy, r)
         IN /\ p \in Outcome
            /\ p.mach # m => ~readonly /\ a /\ Authorized(m, p)
            /\ p.auth => IF r.form = "ok" /\ r.method = "api_authorize"
                         THEN ~Missing(r) /\ r.v = 1
                         ELSE a
<1>. DEFINE p == ProcessRequest(m, a, readonly, busy, r)
            Sent == r.form = "ok" /\ r.method = "api_authorize"
            Effects == /\ p \in Outcome
                       /\ p.mach # m => ~readonly /\ a /\ Authorized(m, p)
                       /\ p.auth => IF Sent THEN ~Missing(r) /\ r.v = 1 ELSE a
<1>. SUFFICES Effects  OBVIOUS
<1>1. /\ EnvelopeError(r) \in Int
      /\ EnvelopeError(r) = Answered <=> r.form = "ok"
  BY DEF Request, Forms, EnvelopeError, Answered, ParseError, InternalError, InvalidRequest
<1>2. /\ InvalidParams \in Int /\ WrongPassword \in Int /\ NotAuthorized \in Int
      /\ MethodNotFound \in Int /\ Answered \in Int
  BY DEF InvalidParams, WrongPassword, NotAuthorized, MethodNotFound, Answered
<1>3. ASSUME NEW b \in BOOLEAN, NEW c \in Int PROVE Error(m, b, c) \in Outcome /\ Ok(m, b) \in Outcome
  BY <1>2 DEF Error, Ok, Outcome
<1>4. ASSUME NEW b, NEW c
      PROVE Error(m, b, c).mach = m /\ Error(m, b, c).auth = b /\ Ok(m, b).mach = m /\ Ok(m, b).auth = b
  BY DEF Error, Ok
<1>5. CASE EnvelopeError(r) # Answered
  <2>1. p = Error(m, a, EnvelopeError(r))  BY <1>5 DEF ProcessRequest
  <2>. QED  BY <1>1, <1>3, <1>4, <1>5, <2>1
<1>6. CASE EnvelopeError(r) = Answered /\ r.method = "api_authorize"
  <2>1. p = Authorize(m, r)  BY <1>6 DEF ProcessRequest
  <2>2. \/ p = Error(m, FALSE, InvalidParams)
        \/ p = Ok(m, TRUE) /\ ~Missing(r) /\ r.v = 1
        \/ p = Error(m, FALSE, WrongPassword)
    BY <2>1 DEF Authorize
  <2>. HIDE DEF p
  <2>3. Sent  BY <1>1, <1>6
  <2>4. CASE p = Error(m, FALSE, InvalidParams)  BY <1>2, <1>3, <1>4, <2>4, Zenon
  <2>5. CASE p = Ok(m, TRUE) /\ ~Missing(r) /\ r.v = 1  BY <1>2, <1>3, <1>4, <2>3, <2>5, Zenon
  <2>6. CASE p = Error(m, FALSE, WrongPassword)  BY <1>2, <1>3, <1>4, <2>6, Zenon
  <2>. QED  BY <2>2, <2>4, <2>5, <2>6
<1>7. CASE EnvelopeError(r) = Answered /\ r.method # "api_authorize" /\ ~a
  <2>1. p = Error(m, a, NotAuthorized)  BY <1>7 DEF ProcessRequest
  <2>. QED  BY <1>2, <1>3, <1>4, <1>7, <2>1
<1>8. CASE EnvelopeError(r) = Answered /\ r.method # "api_authorize" /\ a
  <2>1. \/ p = Ok(m, TRUE)
        \/ p = Error(m, TRUE, MethodNotFound)
        \/ r.method \in Writes /\ ~readonly /\ p = Write(m, busy, r)
    <3>1. p = CASE r.method \in Queries -> Ok(m, TRUE)
                [] r.method \in Writes  -> IF WriteAccess(readonly, r.method) THEN Write(m, busy, r)
                                           ELSE Error(m, TRUE, MethodNotFound)
                [] OTHER                -> Error(m, TRUE, MethodNotFound)
      BY <1>8 DEF ProcessRequest
    <3>2. r.method \in Queries => r.method \notin Writes  BY DEF Queries, Writes
    <3>. HIDE DEF p
    <3>. QED  BY <3>1, <3>2 DEF WriteAccess
  <2>. HIDE DEF p
  <2>2. ~Sent  BY <1>8
  <2>3. CASE p = Ok(m, TRUE)  BY <1>2, <1>3, <1>4, <1>8, <2>2, <2>3, Zenon
  <2>4. CASE p = Error(m, TRUE, MethodNotFound)  BY <1>2, <1>3, <1>4, <1>8, <2>2, <2>4, Zenon
  <2>5. CASE r.method \in Writes /\ ~readonly /\ p = Write(m, busy, r)
    <3>1. Authorized(m, p)  BY <2>5, WriteAuthorized
    <3>. QED  BY <1>8, <2>2, <2>5, <3>1 DEF Authorized
  <2>. QED  BY <2>1, <2>3, <2>4, <2>5
<1>. QED  BY <1>5, <1>6, <1>7, <1>8

(***************************************************************************)
(* Replies.                                                                *)
(***************************************************************************)

\* The reply to the next request follows those to the requests before it.
LEMMA RepliesGrow ==
  ASSUME NEW n \in Nat
  PROVE  /\ Replies(n) \in Seq(Nat)
         /\ Parts(n + 1) \in Seq(Nat)
         /\ Replies(n) \o Parts(n + 1) = Replies(n + 1)
<1>1. 2 * n \in Nat /\ 2 * (n + 1) = 2 * n + 2 /\ 2 * (n + 1) - 1 = 2 * n + 1  OBVIOUS
<1>. DEFINE d == 2 * n
            a == Replies(n)
            b == Parts(n + 1)
            c == Replies(n + 1)
<1>2. a = [k \in 1..d |-> k] /\ c = [k \in 1..(d + 2) |-> k] /\ b = <<d + 1, d + 2>>
  BY <1>1 DEF Replies, Parts
<1>3. d \in Nat  BY <1>1
<1>. HIDE DEF a, b, c, d
<1>4. /\ a \in Seq(Nat) /\ Len(a) = d /\ (\A k \in 1..d : a[k] = k)
      /\ c \in Seq(Nat) /\ Len(c) = d + 2 /\ (\A k \in 1..(d + 2) : c[k] = k)
      /\ b \in Seq(Nat) /\ Len(b) = 2 /\ b[1] = d + 1 /\ b[2] = d + 2
  BY <1>2, <1>3
<1>5. /\ a \o b \in Seq(Nat) /\ Len(a \o b) = d + 2
      /\ \A k \in 1..(d + 2) : (a \o b)[k] = IF k <= d THEN a[k] ELSE b[k - d]
  <2>1. /\ a \o b \in Seq(Nat) /\ Len(a \o b) = Len(a) + Len(b)
        /\ \A k \in 1..(Len(a) + Len(b)) : (a \o b)[k] = IF k <= Len(a) THEN a[k] ELSE b[k - Len(a)]
    BY <1>4, ConcatProperties
  <2>. QED  BY <1>3, <1>4, <2>1
<1>6. ASSUME NEW k \in 1..(d + 2) PROVE (a \o b)[k] = c[k]
  <2>1. CASE k <= d  BY <1>3, <1>4, <1>5, <2>1
  <2>2. CASE k = d + 1  BY <1>3, <1>4, <1>5, <2>2
  <2>3. CASE k = d + 2  BY <1>3, <1>4, <1>5, <2>3
  <2>4. k <= d \/ k = d + 1 \/ k = d + 2  BY <1>3
  <2>. QED  BY <2>1, <2>2, <2>3, <2>4
<1>7. a \o b = c  BY <1>4, <1>5, <1>6, SeqEqual
<1>. QED  BY <1>4, <1>7 DEF a, b, c

\* A part that goes from a write to the wire leaves what both hold together.
LEMMA PartMoves ==
  ASSUME NEW wire \in Seq(Nat), NEW left \in Seq(Nat), left # << >>
  PROVE  /\ Append(wire, Head(left)) \in Seq(Nat) /\ Tail(left) \in Seq(Nat)
         /\ Append(wire, Head(left)) \o Tail(left) = wire \o left
<1>. DEFINE h == Head(left)
            l == Tail(left)
<1>1. h \in Nat /\ l \in Seq(Nat) /\ left = <<h>> \o l
  <2>1. /\ h \in Nat /\ l \in Seq(Nat) /\ Len(l) = Len(left) - 1 /\ h = left[1]
        /\ \A i \in 1..Len(l) : l[i] = left[i + 1]
    BY HeadTailProperties
  <2>. HIDE DEF h, l
  <2>2. /\ <<h>> \in Seq(Nat) /\ Len(<<h>>) = 1 /\ <<h>>[1] = h /\ Len(left) \in Nat
    BY <2>1
  <2>3. /\ <<h>> \o l \in Seq(Nat) /\ Len(<<h>> \o l) = Len(left)
        /\ \A i \in 1..Len(left) : (<<h>> \o l)[i] = IF i <= 1 THEN <<h>>[i] ELSE l[i - 1]
    BY <2>1, <2>2, ConcatProperties
  <2>4. ASSUME NEW i \in 1..Len(left) PROVE left[i] = (<<h>> \o l)[i]
    <3>1. CASE i = 1  BY <2>1, <2>2, <2>3, <3>1
    <3>2. CASE i # 1
      <4>1. i - 1 \in 1..Len(l) /\ (i - 1) + 1 = i  BY <2>1, <2>2, <3>2
      <4>. QED  BY <2>1, <2>3, <3>2, <4>1
    <3>. QED  BY <3>1, <3>2
  <2>5. left = <<h>> \o l  BY <2>3, <2>4, SeqEqual
  <2>. QED  BY <2>1, <2>5
<1>. HIDE DEF h, l
<1>2. Append(wire, h) = wire \o <<h>> /\ <<h>> \in Seq(Nat)  BY <1>1, AppendIsConcat
<1>3. (wire \o <<h>>) \o l = wire \o (<<h>> \o l)  BY <1>1, <1>2, ConcatAssociative
<1>. QED  BY <1>1, <1>2, <1>3 DEF h, l

(***************************************************************************)
(* Sessions, and the invariant of the server.                              *)
(***************************************************************************)
WriteType == [left : Seq(Nat), n : Nat, disc : BOOLEAN]
SessionType == [state : {"none", "open", "destroyed"}, auth : BOOLEAN, reading : BOOLEAN,
                lines : Int, sendBuffer : Seq(Nat), writes : Seq(WriteType),
                wire : Seq(Nat), overlap : BOOLEAN, asked : Nat, code : Int,
                psw : {"none", "right", "wrong"}]

\* What holds of every session; 'guarded' says that a password is set.  While
\* no two writes have overlapped there is at most one, m_sendBuffer holds just
\* what that one was given, and wire and write together hold the replies: the
\* strengthening RepliesInTurn needs.
Silent(s) == s.writes = << >> /\ s.sendBuffer = << >> /\ s.wire = Replies(s.asked)
Writing(s) == /\ Len(s.writes) = 1
              /\ s.writes[1].n = Len(s.sendBuffer)
              /\ s.wire \o s.writes[1].left = Replies(s.asked)
InTurn(s) == s.overlap \/ Silent(s) \/ Writing(s)
Authentic(s, guarded) == guarded /\ s.auth => s.psw = "right"
Good(s, guarded) == /\ s \in SessionType
                    /\ s.state = "open" => InTurn(s) /\ Authentic(s, guarded)

\* The inductive invariant: the types, and every session good.
ApiInv == /\ config \in [readonly : BOOLEAN, password : BOOLEAN]
          /\ mach \in MachType
          /\ DOMAIN sess = Sessions
          /\ sess = [i \in Sessions |-> sess[i]]
          /\ \A i \in Sessions : Good(sess[i], config.password)

\* A session that does not exist, and a new one: the constructor sets
\* m_is_authenticated if there is no password.
LEMMA NoSessionGood ==
  ASSUME NEW guarded \in BOOLEAN
  PROVE  /\ Good(NoSession, guarded)
         /\ Good([NoSession EXCEPT !.state = "open", !.reading = TRUE, !.auth = ~guarded], guarded)
<1>. DEFINE t == [NoSession EXCEPT !.state = "open", !.reading = TRUE, !.auth = ~guarded]
<1>1. << >> \in Seq(Nat) /\ << >> \in Seq(WriteType) /\ Answered \in Int /\ Len(<< >>) = 0
  BY DEF Answered
<1>2. NoSession \in SessionType /\ NoSession.state # "open"
  BY <1>1 DEF NoSession, SessionType
<1>3. /\ t \in SessionType
      /\ t.wire = << >> /\ t.sendBuffer = << >> /\ t.writes = << >> /\ t.asked = 0
      /\ t.auth = ~guarded
  <2>1. ASSUME NEW a \in BOOLEAN
        PROVE  LET u == [NoSession EXCEPT !.state = "open", !.reading = TRUE, !.auth = a]
               IN /\ u \in SessionType
                  /\ u.wire = << >> /\ u.sendBuffer = << >> /\ u.writes = << >> /\ u.asked = 0
                  /\ u.auth = a
    BY <1>2 DEF NoSession, SessionType
  <2>2. (~guarded) \in BOOLEAN  OBVIOUS
  <2>. QED  BY <2>1, <2>2, Zenon
<1>. HIDE DEF t
<1>4. InTurn(t)
  <2>1. Replies(0) = << >>
    <3>1. Replies(0) \in Seq(Nat)  BY RepliesGrow
    <3>2. Len(Replies(0)) = 0  BY DEF Replies
    <3>. QED  BY <1>1, <3>1, <3>2, SeqEqual
  <2>. QED  BY <1>3, <2>1 DEF InTurn, Silent
<1>5. Authentic(t, guarded)  BY <1>3 DEF Authentic
<1>. QED  BY <1>2, <1>3, <1>4, <1>5 DEF Good, t

\* disconnect() leaves a session that is no longer open.
LEMMA DisconnectedGood ==
  ASSUME NEW s \in SessionType, NEW guarded
  PROVE  Good(Disconnected(s), guarded)
<1>1. << >> \in Seq(Nat) /\ Answered \in Int  BY DEF Answered
<1>2. s.asked \in Nat /\ s.reading \in BOOLEAN /\ s.writes \in Seq(WriteType)  BY DEF SessionType
<1>3. Disconnected(s) \in SessionType
  <2>1. ASSUME NEW n \in Nat, NEW b \in BOOLEAN, NEW w \in Seq(WriteType)
        PROVE  [NoSession EXCEPT !.state = "destroyed", !.asked = n, !.reading = b, !.writes = w]
                 \in SessionType
    <3>1. NoSession \in SessionType  BY <1>1 DEF NoSession, SessionType
    <3>. QED  BY <3>1 DEF SessionType
  <2>. QED  BY <1>2, <2>1 DEF Disconnected
<1>4. Disconnected(s).state # "open"  BY DEF Disconnected, NoSession
<1>. QED  BY <1>3, <1>4 DEF Good

\* sendSocketData: 'before' is the session before the request was counted.
LEMMA SendGood ==
  ASSUME NEW guarded, NEW before \in SessionType, NEW s \in SessionType,
         NEW disc \in BOOLEAN, NEW moved \in BOOLEAN,
         InTurn(before), s.state = "open", Authentic(s, guarded),
         s.wire = before.wire, s.sendBuffer = before.sendBuffer, s.writes = before.writes,
         s.overlap = before.overlap, s.asked = before.asked + 1
  PROVE  /\ Good(SendSocketData(s, s.asked, disc, moved), guarded)
         /\ SendSocketData(s, s.asked, disc, moved).code = s.code
<1>. DEFINE b == s.sendBuffer \o Parts(s.asked)
            m == [k \in 1..Len(s.writes) |->
                    [s.writes[k] EXCEPT !.left = [j \in 1..Len(@) |-> Garbage]]]
            others == IF moved THEN m ELSE s.writes
            v == [left |-> b, n |-> Len(b), disc |-> disc]
            o == Append(others, v)
            l == s.overlap \/ s.writes # << >>
            u == [s EXCEPT !.sendBuffer = b, !.overlap = l, !.writes = o]
<1>1. SendSocketData(s, s.asked, disc, moved) = u  BY DEF SendSocketData
<1>2. /\ s.wire \in Seq(Nat) /\ s.sendBuffer \in Seq(Nat) /\ s.asked \in Nat /\ before.asked \in Nat
      /\ s.writes \in Seq(WriteType) /\ s.overlap \in BOOLEAN
  BY DEF SessionType
<1>3. /\ Parts(s.asked) \in Seq(Nat)
      /\ Replies(before.asked) \o Parts(s.asked) = Replies(s.asked)
  BY <1>2, RepliesGrow
<1>4. b \in Seq(Nat) /\ Len(b) \in Nat
  <2>1. b \in Seq(Nat)  BY <1>2, <1>3, ConcatProperties
  <2>. HIDE DEF b
  <2>. QED  BY <2>1
<1>5. v \in WriteType  BY <1>4 DEF WriteType
<1>6. others \in Seq(WriteType) /\ (s.writes = << >> => others = << >>)
  <2>1. ASSUME NEW k \in 1..Len(s.writes)
        PROVE  [s.writes[k] EXCEPT !.left = [j \in 1..Len(@) |-> Garbage]] \in WriteType
    <3>. DEFINE w == s.writes[k]
                g == [j \in 1..Len(w.left) |-> Garbage]
    <3>1. w \in WriteType /\ w.left \in Seq(Nat)
      <4>1. w \in WriteType  BY <1>2
      <4>. HIDE DEF w
      <4>. QED  BY <4>1 DEF WriteType
    <3>2. g \in Seq(Nat)
      <4>1. Len(w.left) \in Nat /\ Garbage \in Nat  BY <3>1 DEF Garbage
      <4>. QED  BY <4>1
    <3>. HIDE DEF w, g
    <3>3. [w EXCEPT !.left = g] \in WriteType  BY <3>1, <3>2 DEF WriteType
    <3>. QED  BY <3>3 DEF w, g
  <2>2. Len(s.writes) \in Nat  BY <1>2
  <2>3. m \in Seq(WriteType) /\ Len(m) = Len(s.writes)  BY <2>1, <2>2
  <2>4. s.writes = << >> => m = << >>
    <3>1. s.writes = << >> => Len(m) = 0  BY <2>3
    <3>. QED  BY <2>3, <3>1, EmptySeq
  <2>. HIDE DEF m
  <2>. QED  BY <1>2, <2>3, <2>4
<1>. HIDE DEF b, others, v
<1>7. o \in Seq(WriteType)  BY <1>5, <1>6
<1>8. l \in BOOLEAN  BY <1>2
<1>9. ASSUME ~l PROVE Len(o) = 1 /\ o[1] = v /\ s.wire \o b = Replies(s.asked) /\ s.sendBuffer = << >>
  <2>1. others = << >> /\ Silent(before)
    <3>1. ~s.overlap /\ s.writes = << >>  BY <1>2, <1>9
    <3>2. Len(before.writes) = 0  BY <3>1
    <3>3. ~Writing(before)  BY <3>2 DEF Writing
    <3>. QED  BY <1>6, <3>1, <3>3 DEF InTurn
  <2>2. s.sendBuffer = << >> /\ s.wire = Replies(before.asked)  BY <2>1 DEF Silent
  <2>3. b = Parts(s.asked)  BY <1>3, <2>2, ConcatEmptySeq DEF b
  <2>4. Len(o) = 1 /\ o[1] = v  BY <1>5, <2>1
  <2>. QED  BY <1>3, <2>2, <2>3, <2>4
<1>. HIDE DEF o, l
<1>10. /\ u \in SessionType
       /\ u.wire = s.wire /\ u.sendBuffer = b /\ u.asked = s.asked /\ u.code = s.code
       /\ u.writes = o /\ u.overlap = l /\ u.auth = s.auth /\ u.psw = s.psw
  BY <1>4, <1>7, <1>8 DEF SessionType
<1>. HIDE DEF u
<1>11. InTurn(u)
  <2>1. CASE l  BY <1>10, <2>1 DEF InTurn
  <2>2. CASE ~l
    <3>1. v.left = b /\ v.n = Len(b)  BY DEF v
    <3>. QED  BY <1>9, <1>10, <2>2, <3>1 DEF InTurn, Writing
  <2>. QED  BY <2>1, <2>2
<1>. QED  BY <1>1, <1>10, <1>11 DEF Good, Authentic

\* A write hands a part of its buffer to the socket.
LEMMA WriteSomeGood ==
  ASSUME NEW guarded, NEW s \in SessionType, InTurn(s), Authentic(s, guarded),
         NEW k \in 1..Len(s.writes), s.writes[k].left # << >>
  PROVE  Good([s EXCEPT !.wire = Append(@, Head(s.writes[k].left)),
                        !.writes = [s.writes EXCEPT ![k] = [s.writes[k] EXCEPT !.left = Tail(@)]]],
              guarded)
<1>. DEFINE w == s.writes[k]
            a == Append(s.wire, Head(w.left))
            v == [w EXCEPT !.left = Tail(w.left)]
            o == [s.writes EXCEPT ![k] = v]
            t == [s EXCEPT !.wire = a, !.writes = o]
<1>1. s.wire \in Seq(Nat) /\ s.writes \in Seq(WriteType) /\ s.overlap \in BOOLEAN  BY DEF SessionType
<1>2. w \in WriteType /\ w.left \in Seq(Nat) /\ w.left # << >>
  <2>1. w \in WriteType /\ w.left # << >>  BY <1>1
  <2>. HIDE DEF w
  <2>. QED  BY <2>1 DEF WriteType
<1>3. a \in Seq(Nat) /\ Tail(w.left) \in Seq(Nat) /\ a \o Tail(w.left) = s.wire \o w.left
  BY <1>1, <1>2, PartMoves
<1>4. v \in WriteType /\ v.left = Tail(w.left) /\ v.n = w.n
  <2>. DEFINE l == Tail(w.left)
  <2>. HIDE DEF l, w
  <2>. QED  BY <1>2, <1>3 DEF WriteType, l
<1>. HIDE DEF v, a
<1>5. o \in Seq(WriteType) /\ Len(o) = Len(s.writes) /\ o[k] = v
  <2>. HIDE DEF w
  <2>. QED  BY <1>1, <1>4
<1>. HIDE DEF o
<1>6. /\ t \in SessionType /\ t.wire = a /\ t.writes = o /\ t.sendBuffer = s.sendBuffer
      /\ t.asked = s.asked /\ t.overlap = s.overlap /\ t.auth = s.auth /\ t.psw = s.psw
  BY <1>3, <1>5 DEF SessionType
<1>. HIDE DEF t
<1>7. InTurn(t)
  <2>1. CASE s.overlap  BY <1>6, <2>1 DEF InTurn
  <2>2. CASE ~s.overlap
    <3>1. Writing(s)  BY <2>2 DEF InTurn, Silent
    <3>2. k = 1  BY <3>1 DEF Writing
    <3>3. w = s.writes[1] /\ o[1] = v  BY <1>5, <3>2
    <3>4. s.wire \o w.left = Replies(s.asked) /\ w.n = Len(s.sendBuffer)  BY <3>1, <3>3 DEF Writing
    <3>5. Writing(t)  BY <1>3, <1>4, <1>5, <1>6, <3>1, <3>3, <3>4 DEF Writing
    <3>. QED  BY <3>5 DEF InTurn
  <2>. QED  BY <1>1, <2>1, <2>2
<1>8. Good(t, guarded)  BY <1>6, <1>7 DEF Good, Authentic
<1>. QED  BY <1>8 DEF t, a, o, v

\* A write that is done leaves, and takes its part off the front of the buffer.
LEMMA CompletedGood ==
  ASSUME NEW guarded, NEW s \in SessionType, InTurn(s), Authentic(s, guarded),
         NEW k \in 1..Len(s.writes)
  PROVE  LET t == [s EXCEPT !.writes = RemoveAt(s.writes, k),
                            !.sendBuffer = SubSeq(s.sendBuffer, s.writes[k].n + 1, Len(s.sendBuffer))]
         IN t \in SessionType /\ (s.writes[k].left = << >> => Good(t, guarded))
<1>. DEFINE w == s.writes[k]
            b == SubSeq(s.sendBuffer, w.n + 1, Len(s.sendBuffer))
            o == RemoveAt(s.writes, k)
            t == [s EXCEPT !.writes = o, !.sendBuffer = b]
<1>1. /\ s.wire \in Seq(Nat) /\ s.writes \in Seq(WriteType) /\ s.overlap \in BOOLEAN
      /\ s.sendBuffer \in Seq(Nat)
  BY DEF SessionType
<1>2. w \in WriteType /\ w.n \in Nat
  <2>1. w \in WriteType  BY <1>1
  <2>. HIDE DEF w
  <2>. QED  BY <2>1 DEF WriteType
<1>3. b \in Seq(Nat) /\ (w.n = Len(s.sendBuffer) => b = << >>)
  <2>. HIDE DEF w
  <2>1. Len(s.sendBuffer) \in Nat /\ \A i \in (w.n + 1)..Len(s.sendBuffer) : s.sendBuffer[i] \in Nat
    BY <1>1, <1>2
  <2>2. b \in Seq(Nat)  BY <1>2, <2>1, SubSeqProperties
  <2>3. w.n = Len(s.sendBuffer) => b = << >>  BY <1>2, <2>1, SubSeqEmpty
  <2>. QED  BY <2>2, <2>3
<1>4. o \in Seq(WriteType) /\ (Len(s.writes) = 1 => o = << >>)
  <2>. DEFINE f == SubSeq(s.writes, 1, k - 1)
              g == SubSeq(s.writes, k + 1, Len(s.writes))
  <2>1. /\ Len(s.writes) \in Nat
        /\ \A i \in 1..(k - 1) : s.writes[i] \in WriteType
        /\ \A i \in (k + 1)..Len(s.writes) : s.writes[i] \in WriteType
    BY <1>1
  <2>2. f \in Seq(WriteType) /\ g \in Seq(WriteType)  BY <2>1, SubSeqProperties
  <2>3. Len(s.writes) = 1 => f = << >> /\ g = << >>  BY <2>1, SubSeqEmpty
  <2>4. o = f \o g  BY DEF RemoveAt
  <2>. HIDE DEF f, g, o
  <2>5. o \in Seq(WriteType)  BY <2>2, <2>4, ConcatProperties
  <2>. QED  BY <2>2, <2>3, <2>4, <2>5, ConcatEmptySeq
<1>. HIDE DEF b, o
<1>5. /\ t \in SessionType /\ t.wire = s.wire /\ t.writes = o /\ t.sendBuffer = b
      /\ t.asked = s.asked /\ t.overlap = s.overlap /\ t.auth = s.auth /\ t.psw = s.psw
  BY <1>3, <1>4 DEF SessionType
<1>. HIDE DEF t
<1>6. ASSUME w.left = << >> PROVE InTurn(t)
  <2>1. CASE s.overlap  BY <1>5, <2>1 DEF InTurn
  <2>2. CASE ~s.overlap
    <3>1. Writing(s)  BY <2>2 DEF InTurn, Silent
    <3>2. k = 1 /\ Len(s.writes) = 1  BY <3>1 DEF Writing
    <3>3. w.n = Len(s.sendBuffer) /\ s.wire \o << >> = Replies(s.asked)
      BY <1>6, <3>1, <3>2 DEF Writing
    <3>4. s.wire = Replies(s.asked)  BY <1>1, <3>3, ConcatEmptySeq
    <3>. QED  BY <1>3, <1>4, <1>5, <3>2, <3>3, <3>4 DEF InTurn, Silent
  <2>. QED  BY <1>1, <2>1, <2>2
<1>7. w.left = << >> => Good(t, guarded)  BY <1>5, <1>6 DEF Good, Authentic
<1>. QED  BY <1>5, <1>7 DEF t, b, o, w

\* A step that leaves one session good leaves the invariant.
LEMMA SessionUpdate ==
  ASSUME ApiInv, NEW i \in Sessions, NEW t, Good(t, config.password),
         sess' = [sess EXCEPT ![i] = t], UNCHANGED config, mach' \in MachType
  PROVE  ApiInv'
<1>1. \A j \in Sessions : sess'[j] = IF j = i THEN t ELSE sess[j]  BY DEF ApiInv
<1>2. Sessions' = Sessions  BY DEF Sessions
<1>3. DOMAIN sess' = Sessions /\ sess' = [j \in Sessions |-> sess'[j]]  BY DEF ApiInv
<1>4. ASSUME NEW j \in Sessions PROVE Good(sess'[j], config.password)
  BY <1>1 DEF ApiInv
<1>. QED  BY <1>3, <1>4 DEF ApiInv

(***************************************************************************)
(* The steps                                                               *)
(***************************************************************************)

\* One line of JSON: the invariant, and who may change the machine.
LEMMA LineHandled ==
  ASSUME ApiInv, NEW i \in Sessions, HandleLine(i)
  PROVE  /\ ApiInv'
         /\ mach' # mach => /\ ~config.readonly
                            /\ strand = i /\ sess[i].auth
                            /\ \/ sess'[i].code = Answered
                               \/ mach' = [mach EXCEPT !.active = mach'.active]
<1>. DEFINE s == sess[i]
<1>1. PICK r \in Requests, busy \in BOOLEAN, moved \in BOOLEAN :
        LET p == ProcessRequest(mach, s.auth, config.readonly, busy, r)
        IN /\ mach' = p.mach
           /\ sess' = [sess EXCEPT ![i] =
                SendSocketData([s EXCEPT !.lines = @ - 1, !.auth = p.auth,
                                         !.asked = @ + 1, !.code = p.code,
                                         !.psw = IF r.form = "ok" /\ r.method = "api_authorize"
                                                 THEN IF ~Missing(r) /\ r.v = 1 THEN "right" ELSE "wrong"
                                                 ELSE @],
                               s.asked + 1, FALSE, moved)]
  BY DEF HandleLine
<1>. DEFINE p == ProcessRequest(mach, s.auth, config.readonly, busy, r)
            q == IF r.form = "ok" /\ r.method = "api_authorize"
                 THEN IF ~Missing(r) /\ r.v = 1 THEN "right" ELSE "wrong"
                 ELSE s.psw
            t == [s EXCEPT !.lines = s.lines - 1, !.auth = p.auth, !.asked = s.asked + 1,
                           !.code = p.code, !.psw = q]
            u == SendSocketData(t, s.asked + 1, FALSE, moved)
<1>2. mach' = p.mach /\ sess' = [sess EXCEPT ![i] = u]  BY <1>1
<1>3. /\ s \in SessionType /\ s.state = "open" /\ InTurn(s) /\ Authentic(s, config.password)
      /\ mach \in MachType /\ DOMAIN sess = Sessions /\ strand = i /\ UNCHANGED config
  BY DEF ApiInv, Good, HandleLine, SessUnchanged
<1>4. s.auth \in BOOLEAN /\ s.asked \in Nat /\ s.lines \in Int /\ s.psw \in {"none", "right", "wrong"}
  BY <1>3 DEF SessionType
<1>5. config.readonly \in BOOLEAN /\ config.password \in BOOLEAN  BY DEF ApiInv
<1>6. r \in Request  BY RequestsAssumption DEF Request
<1>7. /\ p \in Outcome
      /\ p.mach # mach => ~config.readonly /\ s.auth /\ Authorized(mach, p)
      /\ p.auth => IF r.form = "ok" /\ r.method = "api_authorize"
                   THEN ~Missing(r) /\ r.v = 1
                   ELSE s.auth
  BY <1>3, <1>4, <1>5, <1>6, RequestEffects
<1>. HIDE DEF p
<1>8. p.auth \in BOOLEAN /\ p.code \in Int /\ p.mach \in MachType  BY <1>7 DEF Outcome
<1>9. q \in {"none", "right", "wrong"}  BY <1>4
<1>10. config.password /\ p.auth => q = "right"
  BY <1>3, <1>7 DEF Authentic
<1>. HIDE DEF q, s
<1>11. s.lines - 1 \in Int /\ s.asked + 1 \in Nat  BY <1>4
<1>12. /\ t \in SessionType /\ t.state = "open" /\ t.auth = p.auth /\ t.psw = q /\ t.code = p.code
       /\ t.wire = s.wire /\ t.sendBuffer = s.sendBuffer /\ t.asked = s.asked + 1
       /\ t.writes = s.writes /\ t.overlap = s.overlap
  <2>. DEFINE l == s.lines - 1
              a == p.auth
              n == s.asked + 1
              c == p.code
  <2>1. l \in Int /\ a \in BOOLEAN /\ n \in Nat /\ c \in Int  BY <1>8, <1>11
  <2>2. t = [s EXCEPT !.lines = l, !.auth = a, !.asked = n, !.code = c, !.psw = q]  OBVIOUS
  <2>. HIDE DEF l, a, n, c, t
  <2>3. /\ t \in SessionType /\ t.state = s.state /\ t.auth = a /\ t.psw = q /\ t.code = c
        /\ t.wire = s.wire /\ t.sendBuffer = s.sendBuffer /\ t.asked = n
        /\ t.writes = s.writes /\ t.overlap = s.overlap
    BY <1>3, <1>9, <2>1, <2>2 DEF SessionType
  <2>. QED  BY <1>3, <2>3 DEF a, n, c
<1>. HIDE DEF t
<1>13. Authentic(t, config.password)  BY <1>10, <1>12 DEF Authentic
<1>14. Good(u, config.password) /\ u.code = p.code
  <2>1. u = SendSocketData(t, t.asked, FALSE, moved)  BY <1>12
  <2>. HIDE DEF u
  <2>. QED  BY <2>1, <1>3, <1>11, <1>12, <1>13, SendGood
<1>. HIDE DEF u
<1>15. ApiInv'  BY <1>2, <1>3, <1>8, <1>14, SessionUpdate
<1>16. sess'[i].code = p.code  BY <1>2, <1>3, <1>14
<1>17. ASSUME mach' # mach
       PROVE  sess'[i].code = Answered \/ mach' = [mach EXCEPT !.active = mach'.active]
  <2>1. Authorized(mach, p)  BY <1>2, <1>7, <1>17
  <2>2. CASE p.code = Answered  BY <1>16, <2>2
  <2>3. CASE \E k \in Int : p.mach = [mach EXCEPT !.active = k]
    BY <1>2, <1>3, <2>3 DEF MachType
  <2>. QED  BY <1>2, <1>17, <2>1, <2>2, <2>3 DEF Authorized
<1>. QED  BY <1>2, <1>3, <1>7, <1>15, <1>17 DEF s

\* A session whose read ends or starts, or whose lines are counted: nothing
\* the invariant is about changes.
LEMMA ReadingGood ==
  ASSUME NEW s \in SessionType, NEW guarded, s.state = "open" => InTurn(s) /\ Authentic(s, guarded),
         NEW b \in BOOLEAN
  PROVE  /\ Good([s EXCEPT !.reading = b], guarded)
         /\ \A k \in Int : Good([s EXCEPT !.reading = b, !.lines = k], guarded)
<1>. DEFINE t == [s EXCEPT !.reading = b]
<1>1. /\ t \in SessionType /\ t.state = s.state /\ t.wire = s.wire /\ t.sendBuffer = s.sendBuffer
      /\ t.asked = s.asked /\ t.auth = s.auth /\ t.psw = s.psw
      /\ t.writes = s.writes /\ t.overlap = s.overlap
  BY DEF SessionType
<1>2. Good(t, guarded)
  <2>. HIDE DEF t
  <2>. QED  BY <1>1 DEF Good, InTurn, Silent, Writing, Authentic
<1>3. ASSUME NEW k \in Int PROVE Good([s EXCEPT !.reading = b, !.lines = k], guarded)
  <2>. DEFINE u == [s EXCEPT !.reading = b, !.lines = k]
  <2>1. /\ u \in SessionType /\ u.state = s.state /\ u.wire = s.wire /\ u.sendBuffer = s.sendBuffer
        /\ u.asked = s.asked /\ u.auth = s.auth /\ u.psw = s.psw
        /\ u.writes = s.writes /\ u.overlap = s.overlap
    BY DEF SessionType
  <2>. HIDE DEF u
  <2>2. Good(u, guarded)  BY <2>1 DEF Good, InTurn, Silent, Writing, Authentic
  <2>. QED  BY <2>2 DEF u
<1>. QED  BY <1>2, <1>3, Zenon

\* The other handlers of a session leave the machine alone and the session
\* good.
LEMMA HandlersKeep ==
  ASSUME ApiInv, NEW i \in Sessions,
         \/ RecvShort(i) \/ RecvHttp(i) \/ RecvJson(i) \/ HandledLines(i)
         \/ RecvError(i) \/ WriteSome(i) \/ SendCompleted(i) \/ LateHandler(i)
  PROVE  ApiInv' /\ UNCHANGED mach
<1>. DEFINE s == sess[i]
            guarded == config.password
<1>1. /\ s \in SessionType /\ (s.state = "open" => InTurn(s) /\ Authentic(s, guarded))
      /\ mach \in MachType
  BY DEF ApiInv, Good
<1>2. UNCHANGED config /\ UNCHANGED mach
  BY DEF RecvShort, RecvHttp, RecvJson, HandledLines, RecvError, WriteSome,
         SendCompleted, LateHandler, SessUnchanged
<1>3. SUFFICES ASSUME TRUE PROVE \E t : Good(t, guarded) /\ sess' = [sess EXCEPT ![i] = t]
  BY <1>1, <1>2, SessionUpdate
<1>4. CASE RecvShort(i)
  <2>1. sess' = [sess EXCEPT ![i] = [s EXCEPT !.reading = FALSE]]  BY <1>4 DEF RecvShort
  <2>2. Good([s EXCEPT !.reading = FALSE], guarded)
    <3>. HIDE DEF s, guarded
    <3>. QED  BY <1>1, ReadingGood
  <2>. QED  BY <2>1, <2>2
<1>5. CASE RecvHttp(i)
  <2>. DEFINE n == s.asked + 1
              t == [s EXCEPT !.reading = FALSE, !.asked = n]
  <2>1. s.state = "open"  BY <1>5 DEF RecvHttp
  <2>2. PICK moved \in BOOLEAN : sess' = [sess EXCEPT ![i] = SendSocketData(t, n, TRUE, moved)]
    BY <1>5 DEF RecvHttp
  <2>3. n \in Nat  BY <1>1 DEF SessionType
  <2>4. n = s.asked + 1  OBVIOUS
  <2>. HIDE DEF s, guarded, n
  <2>5. /\ t \in SessionType /\ t.state = "open" /\ t.wire = s.wire /\ t.sendBuffer = s.sendBuffer
        /\ t.writes = s.writes /\ t.overlap = s.overlap
        /\ t.asked = n /\ t.auth = s.auth /\ t.psw = s.psw
    BY <1>1, <2>1, <2>3 DEF SessionType
  <2>. HIDE DEF t
  <2>6. Authentic(t, guarded)  BY <1>1, <2>1, <2>5 DEF Authentic
  <2>7. Good(SendSocketData(t, t.asked, TRUE, moved), guarded)
    BY <1>1, <2>1, <2>4, <2>5, <2>6, SendGood
  <2>. QED  BY <2>2, <2>5, <2>7
<1>6. CASE RecvJson(i)
  <2>1. PICK k \in 0..MaxRequests : sess' = [sess EXCEPT ![i].reading = FALSE, ![i].lines = k]
    BY <1>6 DEF RecvJson
  <2>2. sess' = [sess EXCEPT ![i] = [s EXCEPT !.reading = FALSE, !.lines = k]]
    BY <2>1 DEF ApiInv
  <2>3. k \in Int  OBVIOUS
  <2>4. Good([s EXCEPT !.reading = FALSE, !.lines = k], guarded)
    <3>. HIDE DEF s, guarded
    <3>. QED  BY <1>1, <2>3, ReadingGood
  <2>. QED  BY <2>2, <2>4
<1>7. CASE HandledLines(i)
  <2>1. sess' = [sess EXCEPT ![i] = [s EXCEPT !.reading = TRUE]]  BY <1>7 DEF HandledLines
  <2>2. Good([s EXCEPT !.reading = TRUE], guarded)
    <3>. HIDE DEF s, guarded
    <3>. QED  BY <1>1, ReadingGood
  <2>. QED  BY <2>1, <2>2
<1>8. CASE RecvError(i)
  <2>. DEFINE t == [s EXCEPT !.reading = FALSE]
  <2>1. sess' = [sess EXCEPT ![i] = Disconnected(t)]  BY <1>8 DEF RecvError
  <2>2. t \in SessionType
    <3>. HIDE DEF s
    <3>. QED  BY <1>1 DEF SessionType
  <2>. HIDE DEF t
  <2>. QED  BY <2>1, <2>2, DisconnectedGood
<1>9. CASE SendCompleted(i)
  <2>1. s.state = "open"  BY <1>9 DEF SendCompleted
  <2>2. PICK k \in 1..Len(s.writes), failed \in BOOLEAN :
          LET w == s.writes[k]
              t == [s EXCEPT !.writes = RemoveAt(@, k),
                             !.sendBuffer = SubSeq(@, w.n + 1, Len(@))]
          IN /\ failed \/ w.left = << >>
             /\ sess' = [sess EXCEPT ![i] = IF failed \/ w.disc THEN Disconnected(t) ELSE t]
    BY <1>9 DEF SendCompleted
  <2>. DEFINE t == [s EXCEPT !.writes = RemoveAt(s.writes, k),
                             !.sendBuffer = SubSeq(s.sendBuffer, s.writes[k].n + 1, Len(s.sendBuffer))]
  <2>3. \/ sess' = [sess EXCEPT ![i] = Disconnected(t)]
        \/ sess' = [sess EXCEPT ![i] = t] /\ s.writes[k].left = << >>
    BY <2>2
  <2>4. t \in SessionType /\ (s.writes[k].left = << >> => Good(t, guarded))
    <3>. HIDE DEF s, guarded
    <3>. QED  BY <1>1, <2>1, CompletedGood
  <2>. HIDE DEF t
  <2>5. Good(Disconnected(t), guarded)  BY <2>4, DisconnectedGood
  <2>. QED  BY <2>3, <2>4, <2>5
<1>10. CASE LateHandler(i)
  <2>. DEFINE o == IF s.writes = << >> THEN s.writes ELSE Tail(s.writes)
              t == [s EXCEPT !.reading = FALSE, !.lines = 0, !.writes = o]
  <2>1. s.state = "destroyed" /\ sess' = [sess EXCEPT ![i] = t]
    BY <1>10 DEF LateHandler, ApiInv
  <2>. HIDE DEF s, guarded
  <2>2. s.writes \in Seq(WriteType)  BY <1>1 DEF SessionType
  <2>3. o \in Seq(WriteType)  BY <2>2, HeadTailProperties
  <2>. HIDE DEF o
  <2>4. t \in SessionType /\ t.state = "destroyed"
    <3>. DEFINE k == 0
    <3>1. k \in Int /\ t = [s EXCEPT !.reading = FALSE, !.lines = k, !.writes = o]  OBVIOUS
    <3>. HIDE DEF k, t
    <3>2. t.state = "destroyed"  BY <1>1, <2>1, <3>1 DEF SessionType
    <3>. QED  BY <1>1, <2>3, <3>1, <3>2 DEF SessionType
  <2>. HIDE DEF t
  <2>5. Good(t, guarded)  BY <2>4 DEF Good
  <2>. QED  BY <2>1, <2>5
<1>11. CASE WriteSome(i)
  <2>1. s.state = "open"  BY <1>11 DEF WriteSome
  <2>2. PICK k \in 1..Len(s.writes) :
          /\ s.writes[k].left # << >>
          /\ sess' = [sess EXCEPT ![i].wire = Append(@, Head(s.writes[k].left)),
                                  ![i].writes[k].left = Tail(@)]
    BY <1>11 DEF WriteSome
  <2>. DEFINE t == [s EXCEPT !.wire = Append(@, Head(s.writes[k].left)),
                             !.writes = [s.writes EXCEPT ![k] = [s.writes[k] EXCEPT !.left = Tail(@)]]]
  <2>3. sess' = [sess EXCEPT ![i] = t]  BY <1>1, <2>2 DEF ApiInv, SessionType
  <2>4. Good(t, guarded)
    <3>. HIDE DEF s, guarded
    <3>. QED  BY <1>1, <2>1, <2>2, WriteSomeGood
  <2>. QED  BY <2>3, <2>4
<1>. QED  BY <1>4, <1>5, <1>6, <1>7, <1>8, <1>9, <1>10, <1>11

\* The steps of the listener and of main.
LEMMA ListenerKeeps ==
  ASSUME ApiInv, PeerConnects \/ HandleAccept \/ HandleAcceptError \/ ThreadBeginAccept \/ MainStep
  PROVE  ApiInv' /\ UNCHANGED mach
<1>1. UNCHANGED mach /\ UNCHANGED config
  BY DEF PeerConnects, HandleAccept, HandleAcceptError, ThreadBeginAccept, MainStep, StartListens, StartRuns,
         StopCloses, StopJoins, StopClears
<1>2. CASE UNCHANGED sess  BY <1>1, <1>2 DEF ApiInv, Sessions
<1>3. CASE HandleAccept
  <2>1. sess' = [sess EXCEPT ![accepting] = NewSession]  BY <1>3 DEF HandleAccept
  <2>2. config.password \in BOOLEAN /\ mach \in MachType  BY DEF ApiInv
  <2>3. Good(NewSession, config.password)  BY <2>2, NoSessionGood DEF NewSession
  <2>4. CASE accepting \in Sessions  BY <1>1, <2>1, <2>2, <2>3, <2>4, SessionUpdate
  <2>5. CASE accepting \notin Sessions
    <3>1. sess' = sess  BY <2>1, <2>5 DEF ApiInv
    <3>. QED  BY <1>2, <3>1
  <2>. QED  BY <2>4, <2>5
<1>4. CASE StopClears
  <2>1. sess' = [i \in Sessions |-> IF sess[i].state = "open" THEN Disconnected(sess[i]) ELSE sess[i]]
    BY <1>4 DEF StopClears
  <2>2. ASSUME NEW i \in Sessions PROVE Good(sess'[i], config.password)
    <3>1. Good(sess[i], config.password)  BY DEF ApiInv
    <3>2. sess[i] \in SessionType  BY <3>1 DEF Good
    <3>3. Good(Disconnected(sess[i]), config.password)  BY <3>2, DisconnectedGood
    <3>4. sess'[i] = Disconnected(sess[i]) \/ sess'[i] = sess[i]  BY <2>1
    <3>. QED  BY <3>1, <3>3, <3>4
  <2>3. DOMAIN sess' = Sessions /\ sess' = [i \in Sessions |-> sess'[i]]  BY <2>1
  <2>. QED  BY <1>1, <2>2, <2>3 DEF ApiInv, Sessions
<1>. QED
  BY <1>1, <1>2, <1>3, <1>4
  DEF PeerConnects, HandleAcceptError, ThreadBeginAccept, MainStep, StartListens, StartRuns, StopCloses, StopJoins

\* The invariant holds.
LEMMA ApiInvariant == Spec => []ApiInv
<1>1. Init => ApiInv
  <2>. SUFFICES ASSUME Init PROVE ApiInv  OBVIOUS
  <2>1. config.password \in BOOLEAN /\ config \in [readonly : BOOLEAN, password : BOOLEAN]
    BY DEF Init
  <2>2. mach \in MachType  BY DEF Init, MachType, DefaultSegmentWidth
  <2>3. Good(NoSession, config.password)  BY <2>1, NoSessionGood
  <2>. QED  BY <2>1, <2>2, <2>3 DEF Init, ApiInv
<1>2. ApiInv /\ [Next]_apiVars => ApiInv'
  <2>. SUFFICES ASSUME ApiInv, [Next]_apiVars PROVE ApiInv'  OBVIOUS
  <2>1. CASE UNCHANGED apiVars  BY <2>1 DEF ApiInv, apiVars, Sessions
  <2>2. CASE Next
    BY <2>2, LineHandled, HandlersKeep, ListenerKeeps DEF Next, StrandStep
  <2>. QED  BY <2>1, <2>2
<1>. QED  BY <1>1, <1>2, PTL DEF Spec

(***************************************************************************)
(* The theorems                                                            *)
(***************************************************************************)

\* On a server with a password a session is authenticated only while the
\* last password it sent with api_authorize was right, whatever else it
\* sends and whatever the other sessions do.
THEOREM ApiAuthenticatedByLastPassword == Spec => []AuthenticatedByLastPassword
<1>1. ApiInv => AuthenticatedByLastPassword
  BY DEF ApiInv, Good, Authentic, AuthenticatedByLastPassword
<1>. QED  BY <1>1, ApiInvariant, PTL

\* A session none of whose replies was sent while an earlier write was under
\* way has every reply once, whole and in order, in what its peer has read and
\* what the write under way still holds: sendSocketData and the consumption of
\* m_sendBuffer keep in step, whatever the other sessions and the listener do.
THEOREM ApiRepliesInTurn == Spec => []RepliesInTurn
<1>1. ApiInv => RepliesInTurn
  <2>. SUFFICES ASSUME ApiInv, NEW i \in Sessions, sess[i].state = "open", ~sess[i].overlap
                PROVE  IF sess[i].writes = << >> THEN sess[i].wire = Replies(sess[i].asked)
                       ELSE sess[i].wire \o sess[i].writes[1].left = Replies(sess[i].asked)
    BY DEF RepliesInTurn
  <2>1. Silent(sess[i]) \/ Writing(sess[i])  BY DEF ApiInv, Good, InTurn
  <2>2. Silent(sess[i]) => sess[i].writes = << >>  BY DEF Silent
  <2>3. Writing(sess[i]) => sess[i].writes # << >>
    <3>1. Len(<< >>) = 0  OBVIOUS
    <3>. QED  BY <3>1 DEF Writing
  <2>. QED  BY <2>1, <2>2, <2>3 DEF Silent, Writing
<1>. QED  BY <1>1, ApiInvariant, PTL

\* The machine changes only for a request of an authenticated session on a
\* port that is not read-only, and the reply reports it (but for the switch
\* to a pool by its URI): checkApiWriteAccess is on every path to a change.
THEOREM ApiOnlyAuthorizedWrites == Spec => OnlyAuthorizedWrites
<1>. DEFINE Write1 == mach' # mach =>
              /\ ~config.readonly
              /\ \E i \in Sessions :
                   /\ strand = i /\ sess[i].auth
                   /\ \/ sess'[i].code = Answered
                      \/ mach' = [mach EXCEPT !.active = mach'.active]
<1>1. ApiInv /\ [Next]_apiVars => [Write1]_apiVars
  <2>. SUFFICES ASSUME ApiInv, Next PROVE Write1  OBVIOUS
  <2>. QED  BY LineHandled, HandlersKeep, ListenerKeeps DEF Next, StrandStep
<1>. QED  BY <1>1, ApiInvariant, PTL DEF Spec, OnlyAuthorizedWrites

=============================================================================
