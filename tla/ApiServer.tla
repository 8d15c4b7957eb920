------------------------------ MODULE ApiServer ------------------------------
(***************************************************************************)
(* The API server of ethcoreminer (libapicore/ApiServer.cpp): the listener *)
(* with its accept loop, the sessions with their reads and writes, and the *)
(* JSON-RPC requests.  main calls start() and stop(); the first            *)
(* begin_accept runs on m_workThread; every other handler runs on          *)
(* m_io_strand, one at a time.  The lines of one transmission are handled  *)
(* by one handler, here one step per line ('strand' names the session).    *)
(*                                                                         *)
(* A request is the record of what processRequest looks at: 'form' is the  *)
(* state of the envelope, 'param' that of "params" and its members, v and  *)
(* w the values (-1 a member that is absent, -2 one of the wrong type).    *)
(* 'mach' is what requests change in Farm, PoolManager and the log.        *)
(* Texts, statistics and HTML are left out: a query changes nothing.       *)
(* Reply number r is two parts, 2r - 1 and 2r, that the socket may take    *)
(* apart; 'wire' is what the peer of the session reads.                    *)
(***************************************************************************)
EXTENDS Integers, Sequences, SequencesExt, FiniteSetsExt

CONSTANTS
  MaxSessions,  \* bound: sessions accepted
  MaxRequests,  \* bound: JSON lines and HTTP requests sent in all sessions
  Requests      \* the requests a client may send

ASSUME BoundsAssumption == MaxSessions \in Nat /\ MaxRequests \in Nat

\* The states of an envelope: right, or wrong in one of the ways that
\* processRequest tells apart.
Forms == {"ok", "nojson", "noobject", "noid", "badid", "norpc"}

ASSUME RequestsAssumption ==
  Requests \subseteq [form : Forms, method : STRING, param : STRING, v : Int, w : Int]

VARIABLES
  config,       \* m_readonly, and whether m_password is set
  main,         \* where main is: in start(), serving, in stop()
  workThread,   \* m_workThread: "none", "begin_accept", "done"
  running,      \* m_running
  listening,    \* the acceptor is open
  accepting,    \* id of the session of the pending async_accept, 0 none
  accepted,     \* a peer is there and handle_accept is queued
  lastSessionId,
  strand,       \* session whose received lines are being handled, 0 none
  sess,         \* the sessions
  mach,         \* what the requests change
  crashed       \* a handler ran on a destroyed session and ended the program

apiVars == <<config, main, workThread, running, listening, accepting,
             accepted, lastSessionId, strand, sess, mach, crashed>>

Sessions == 1..MaxSessions  \* the values of m_sessionId
Miners == 0..1
LOG_NEXT == 4
DefaultSegmentWidth == 32
Answered == 0         \* a result; every other code is an error
NoCode == 1           \* an error object without a code
InternalError == 500  \* an exception that processRequest let through
ParseError == -32700
InvalidRequest == -32600
MethodNotFound == -32601
InvalidParams == -32602
WrongPassword == -401
NotAuthorized == -403
Unprocessable == -422

Ok(m, a) == [mach |-> m, auth |-> a, code |-> Answered]
Error(m, a, c) == [mach |-> m, auth |-> a, code |-> c]

-----------------------------------------------------------------------------
(* Requests.  Each operator gives the state after the call and the reply.  *)

\* parseRequestId, then "jsonrpc" and "method": anything wrong is InvalidRequest; a
\* line that is JSON but no object raises.
EnvelopeError(r) ==
  CASE r.form = "nojson"                           -> ParseError
    [] r.form = "noobject"                         -> InternalError
    [] r.form \in {"noid", "badid", "norpc"}       -> InvalidRequest
    [] OTHER                                       -> Answered

\* getRequestValue for a member that is required: absent, of the wrong type.
Missing(r) == r.param \in {"noparams", "missing", "badtype"}

\* Mutant: m_is_authenticated is set before the password is looked at, and a wrong
\* one does not clear it.
AuthorizeKeeps(m, r) ==
  IF ~Missing(r) /\ r.v = 1 THEN Ok(m, TRUE) ELSE Error(m, TRUE, WrongPassword)

\* api_authorize: the session is unauthenticated until the password matches.
Authorize(m, r) ==
  CASE Missing(r)                                  -> Error(m, FALSE, InvalidParams)
    [] ~Missing(r) /\ r.v = 1                      -> Ok(m, TRUE)
    [] OTHER                                       -> Error(m, FALSE, WrongPassword)

\* PoolManager::removeConnection as the API sees it; 'busy' is m_async_pending.
RemoveConnection(m, busy, r) ==
  IF busy \/ r.v >= m.pools \/ r.v = m.active THEN Error(m, TRUE, Unprocessable)
  ELSE Ok([m EXCEPT !.pools = @ - 1,
                    !.active = IF @ > r.v THEN @ - 1 ELSE @], TRUE)

\* setActiveConnection by index, and by URI: the loop switches and then, as
\* 'found' is never set, the call raises "Not found." all the same.  Both are
\* refused while m_async_pending is set.
SetActiveConnection(m, busy, r) ==
  IF r.w = -1
  THEN IF busy \/ Missing(r) \/ r.v >= m.pools THEN Error(m, TRUE, Unprocessable)
       ELSE Ok([m EXCEPT !.active = r.v], TRUE)
  ELSE IF busy \/ Missing(r) \/ r.w >= m.pools THEN Error(m, TRUE, Unprocessable)
       ELSE Error([m EXCEPT !.active = r.w], TRUE, Unprocessable)

\* miner_setscramblerinfo: v the scrambler, w the width.  A value of the
\* wrong type for the scrambler leaves the code out of the reply.
SetScrambler(m, r) ==
  LET width == IF r.w = -1 THEN m.width
               ELSE IF r.w < 10 THEN 10 ELSE IF r.w > 50 THEN 40 ELSE r.w
  IN CASE r.param = "noparams"                     -> Error(m, TRUE, InvalidParams)
       [] r.param = "badhex"                       -> Error(m, TRUE, Unprocessable)
       [] r.param = "object"                       -> Error(m, TRUE, InternalError)
       [] r.param = "ok" /\ r.v = -2               -> Error(m, TRUE, NoCode)
       [] r.param = "ok" /\ r.v # -2 /\ r.w = -2   -> Error(m, TRUE, InvalidParams)
       [] r.param = "missing"                      -> Error(m, TRUE, InvalidParams)
       [] OTHER -> Ok([m EXCEPT !.scrambler = IF r.v = -1 THEN @ ELSE r.v,
                                !.width = width], TRUE)

\* miner_pausegpu: v the index, w whether to pause.
PauseGpu(m, r) ==
  CASE Missing(r)                                  -> Error(m, TRUE, InvalidParams)
    [] ~Missing(r) /\ r.v \notin Miners            -> Error(m, TRUE, Unprocessable)
    [] OTHER -> Ok([m EXCEPT !.paused = IF r.w = 1 THEN @ \cup {r.v}
                                                   ELSE @ \ {r.v}], TRUE)

SetVerbosity(m, r) ==
  CASE Missing(r)                                  -> Error(m, TRUE, InvalidParams)
    [] ~Missing(r) /\ r.v >= LOG_NEXT              -> Error(m, TRUE, Unprocessable)
    [] OTHER -> Ok([m EXCEPT !.verbosity = r.v], TRUE)

AddConnection(m, r) ==
  CASE Missing(r)                                  -> Error(m, TRUE, InvalidParams)
    [] ~Missing(r) /\ r.v # 1                      -> Error(m, TRUE, Unprocessable)
    [] OTHER -> Ok([m EXCEPT !.pools = @ + 1], TRUE)

Queries == {"miner_getstat1", "miner_getstatdetail", "miner_ping",
            "miner_getconnections", "miner_getscramblerinfo"}
Writes == {"miner_shuffle", "miner_restart", "miner_reboot",
           "miner_addconnection", "miner_setactiveconnection",
           "miner_removeconnection", "miner_setscramblerinfo",
           "miner_pausegpu", "miner_setverbosity"}

\* Farm::reboot: v is 1 if the script is there, not empty, executable and can
\* be spawned.  The result is false if not, which is no error.
Reboot(m, r) == Ok([m EXCEPT !.reboot = @ \/ r.v = 1], TRUE)

\* The methods that change something.  'r.v' stands for the random scrambler
\* that shuffle() draws.
Write(m, busy, r) ==
  CASE r.method = "miner_shuffle"  -> Ok([m EXCEPT !.scrambler = r.v], TRUE)
    [] r.method = "miner_restart"  -> Ok([m EXCEPT !.restart = TRUE], TRUE)
    [] r.method = "miner_reboot"   -> Reboot(m, r)
    [] r.method = "miner_addconnection"       -> AddConnection(m, r)
    [] r.method = "miner_setactiveconnection" ->
         IF r.param = "noparams" THEN Error(m, TRUE, InvalidParams)
         ELSE SetActiveConnection(m, busy, r)
    [] r.method = "miner_removeconnection"    ->
         IF Missing(r) THEN Error(m, TRUE, InvalidParams) ELSE RemoveConnection(m, busy, r)
    [] r.method = "miner_setscramblerinfo"    -> SetScrambler(m, r)
    [] r.method = "miner_pausegpu"            -> PauseGpu(m, r)
    [] r.method = "miner_setverbosity"        -> SetVerbosity(m, r)

\* Mutant: a method added without the test.
WriteAccessForgotten(readonly, method) ==
  ~readonly \/ method = "miner_setverbosity"

\* checkApiWriteAccess
WriteAccess(readonly, method) == ~readonly

\* processRequest on a session with authentication a.
ProcessRequest(m, a, readonly, busy, r) ==
  CASE EnvelopeError(r) # Answered       -> Error(m, a, EnvelopeError(r))
    [] EnvelopeError(r) = Answered /\ r.method = "api_authorize"
                                         -> Authorize(m, r)
    [] EnvelopeError(r) = Answered /\ r.method # "api_authorize" /\ ~a
                                         -> Error(m, a, NotAuthorized)
    [] OTHER ->
       CASE r.method \in Queries         -> Ok(m, TRUE)
         [] r.method \in Writes          ->
              IF WriteAccess(readonly, r.method) THEN Write(m, busy, r)
              ELSE Error(m, TRUE, MethodNotFound)
         [] OTHER                        -> Error(m, TRUE, MethodNotFound)

-----------------------------------------------------------------------------
(* Sessions *)

NoSession == [state |-> "none", auth |-> FALSE, reading |-> FALSE,
              lines |-> 0, sendBuffer |-> <<>>, writes |-> <<>>,
              wire |-> <<>>, overlap |-> FALSE, asked |-> 0,
              code |-> Answered, psw |-> "none"]

\* ApiConnection::ApiConnection, taken from m_sessions and started.
NewSession == [NoSession EXCEPT !.state = "open", !.reading = TRUE,
                                !.auth = ~config.password]

\* A reply as the socket takes it: in two parts.
Parts(reply) == <<2 * reply - 1, 2 * reply>>
Garbage == 0  \* what is read at an address the streambuf has left

\* sendSocketData: the reply joins m_sendBuffer and async_write starts on the
\* whole buffer.  Writes that are not done keep pointing at what they were
\* given; if the buffer has to move to make room ('moved'), what they have
\* not sent yet is no longer there.
SendSocketData(s, reply, disc, moved) ==
  IF s.state # "open" THEN s
  ELSE LET buffer == s.sendBuffer \o Parts(reply)
           others == IF moved
                     THEN [k \in 1..Len(s.writes) |->
                             [s.writes[k] EXCEPT !.left = [j \in 1..Len(@) |-> Garbage]]]
                     ELSE s.writes
       IN [s EXCEPT !.sendBuffer = buffer,
                    !.overlap = @ \/ s.writes # <<>>,
                    !.writes = Append(others, [left |-> buffer, n |-> Len(buffer), disc |-> disc])]

\* disconnect(): the socket is closed and onDisconnected drops the pointer in
\* m_sessions, the last one; operations under way still complete.
Disconnected(s) == [NoSession EXCEPT !.state = "destroyed", !.asked = s.asked,
                                     !.reading = s.reading, !.writes = s.writes]

SessUnchanged == UNCHANGED <<config, main, workThread, running, listening,
                             accepting, accepted, lastSessionId, crashed>>

\* onRecvSocketDataCompleted with less than four bytes in m_message: returns.
RecvShort(i) ==
  /\ strand = 0 /\ sess[i].state = "open" /\ sess[i].reading
  /\ sess' = [sess EXCEPT ![i].reading = FALSE]
  /\ UNCHANGED <<strand, mach>> /\ SessUnchanged

Requested == MapThenSumSet(LAMBDA j : sess[j].asked, Sessions)

\* ... with an HTTP request: whatever the method, the path and the outcome,
\* one answer that ends the session.
RecvHttp(i) ==
  /\ strand = 0 /\ sess[i].state = "open" /\ sess[i].reading
  /\ Requested < MaxRequests
  /\ \E moved \in BOOLEAN :
       LET s == sess[i]
       IN sess' = [sess EXCEPT ![i] =
            SendSocketData([s EXCEPT !.reading = FALSE, !.asked = @ + 1], s.asked + 1, TRUE, moved)]
  /\ UNCHANGED <<strand, mach>> /\ SessUnchanged

\* ... with lines of JSON (the last of which may be incomplete).
RecvJson(i) ==
  /\ strand = 0 /\ sess[i].state = "open" /\ sess[i].reading
  /\ \E k \in 0..MaxRequests :
       /\ Requested + k <= MaxRequests
       /\ sess' = [sess EXCEPT ![i].reading = FALSE, ![i].lines = k]
  /\ strand' = i
  /\ UNCHANGED mach /\ SessUnchanged

\* The body of the loop over the lines; the next line holds any request.
HandleLine(i) ==
  /\ strand = i /\ sess[i].state = "open" /\ sess[i].lines > 0
  /\ \E r \in Requests, busy \in BOOLEAN, moved \in BOOLEAN :
     LET s == sess[i]
         p == ProcessRequest(mach, s.auth, config.readonly, busy, r)
     IN /\ mach' = p.mach
        /\ sess' = [sess EXCEPT ![i] =
             SendSocketData([s EXCEPT !.lines = @ - 1, !.auth = p.auth,
                                      !.asked = @ + 1, !.code = p.code,
                                      !.psw = IF r.form = "ok" /\ r.method = "api_authorize"
                                              THEN IF ~Missing(r) /\ r.v = 1 THEN "right" ELSE "wrong"
                                              ELSE @],
                            s.asked + 1, FALSE, moved)]
  /\ UNCHANGED strand /\ SessUnchanged

\* After the loop: read on.
HandledLines(i) ==
  /\ strand = i /\ sess[i].state = "open" /\ sess[i].lines = 0
  /\ strand' = 0
  /\ sess' = [sess EXCEPT ![i].reading = TRUE]
  /\ UNCHANGED mach /\ SessUnchanged

\* The read ends with an error: the peer is gone.
RecvError(i) ==
  /\ strand = 0 /\ sess[i].state = "open" /\ sess[i].reading
  /\ sess' = [sess EXCEPT ![i] = Disconnected([@ EXCEPT !.reading = FALSE])]
  /\ UNCHANGED <<strand, mach>> /\ SessUnchanged

\* async_write hands a part of its buffer to the socket.  Which of several
\* writes under way comes next is undefined: asio asks for one at a time.
WriteSome(i) ==
  /\ sess[i].state = "open"
  /\ \E k \in 1..Len(sess[i].writes) :
       LET w == sess[i].writes[k]
       IN /\ w.left # <<>>
          /\ sess' = [sess EXCEPT ![i].wire = Append(@, Head(w.left)),
                                  ![i].writes[k].left = Tail(@)]
  /\ UNCHANGED <<strand, mach>> /\ SessUnchanged

\* Mutant: what was written stays in m_sendBuffer.
SendCompletedKeeps(i) ==
  /\ strand = 0 /\ sess[i].state = "open"
  /\ \E k \in 1..Len(sess[i].writes), failed \in BOOLEAN :
       /\ failed \/ sess[i].writes[k].left = <<>>
       /\ LET t == [sess[i] EXCEPT !.writes = RemoveAt(@, k)]
          IN sess' = [sess EXCEPT ![i] = IF failed \/ sess[i].writes[k].disc THEN Disconnected(t) ELSE t]
  /\ UNCHANGED <<strand, mach>> /\ SessUnchanged

\* A write is done, or failed: async_write takes the bytes it was given off the
\* front of m_sendBuffer (as many as are there), and its handler
\* onSendSocketDataCompleted runs.
SendCompleted(i) ==
  /\ strand = 0 /\ sess[i].state = "open"
  /\ \E k \in 1..Len(sess[i].writes), failed \in BOOLEAN :
       LET s == sess[i]
           w == s.writes[k]
           t == [s EXCEPT !.writes = RemoveAt(@, k),
                          !.sendBuffer = SubSeq(@, w.n + 1, Len(@))]
       IN /\ failed \/ w.left = <<>>
          /\ sess' = [sess EXCEPT ![i] = IF failed \/ w.disc THEN Disconnected(t) ELSE t]
  /\ UNCHANGED <<strand, mach>> /\ SessUnchanged

\* The completion of an operation of a session that is destroyed: undefined,
\* and in a build either without effect or the end of the program.
LateHandler(i) ==
  /\ strand \in {0, i} /\ sess[i].state = "destroyed"
  /\ sess[i].reading \/ sess[i].writes # <<>> \/ strand = i
  /\ strand' = 0
  /\ sess' = [sess EXCEPT ![i].reading = FALSE, ![i].lines = 0,
                          ![i].writes = IF @ = <<>> THEN @ ELSE Tail(@)]
  /\ crashed' \in BOOLEAN
  /\ UNCHANGED <<config, main, workThread, running, listening, accepting,
                 accepted, lastSessionId, mach>>

-----------------------------------------------------------------------------
(* The listener *)

\* begin_accept; the id of a session that was never accepted is taken again.
BeginAccept ==
  /\ accepted' = FALSE
  /\ IF running /\ lastSessionId < MaxSessions
     THEN lastSessionId' = lastSessionId + 1 /\ accepting' = lastSessionId + 1
     ELSE accepting' = 0 /\ UNCHANGED lastSessionId

ThreadBeginAccept ==
  /\ workThread = "begin_accept"
  /\ workThread' = "done"
  /\ BeginAccept
  /\ UNCHANGED <<config, main, running, listening, strand, sess, mach, crashed>>

\* A peer connects: the pending async_accept is done.
PeerConnects ==
  /\ listening /\ accepting # 0 /\ ~accepted
  /\ accepted' = TRUE
  /\ UNCHANGED <<config, main, workThread, running, listening, accepting,
                 lastSessionId, strand, sess, mach, crashed>>

\* handle_accept, for a peer (also one that came just before the acceptor was
\* closed), and for the error of a closed acceptor.
HandleAccept ==
  /\ strand = 0 /\ accepting # 0 /\ accepted
  /\ sess' = [sess EXCEPT ![accepting] = NewSession]
  /\ BeginAccept
  /\ UNCHANGED <<config, main, workThread, running, listening, strand, mach, crashed>>

\* Mutant: the accept loop does not look at m_running.
HandleAcceptErrorForever ==
  /\ strand = 0 /\ accepting # 0 /\ ~accepted /\ ~listening
  /\ UNCHANGED apiVars

HandleAcceptError ==
  /\ strand = 0 /\ accepting # 0 /\ ~accepted /\ ~listening
  /\ accepting' = IF running THEN accepting ELSE 0
  /\ UNCHANGED <<config, main, workThread, running, listening, accepted,
                 lastSessionId, strand, sess, mach, crashed>>

\* start(): bind and listen (or give up), start the thread, set m_running.
StartListens ==
  /\ main = "start"
  /\ \E bound \in BOOLEAN :
       /\ listening' = bound
       /\ workThread' = IF bound THEN "begin_accept" ELSE "none"
       /\ main' = IF bound THEN "spawned" ELSE "done"
  /\ UNCHANGED <<config, running, accepting, accepted, lastSessionId, strand, sess, mach, crashed>>

StartRuns ==
  /\ main = "spawned"
  /\ running' = TRUE /\ main' = "serving"
  /\ UNCHANGED <<config, workThread, listening, accepting, accepted, lastSessionId,
                 strand, sess, mach, crashed>>

\* stop(): close the acceptor, join, clear m_running, drop the sessions.
StopCloses ==
  /\ main = "serving"
  /\ listening' = FALSE /\ main' = "join"
  /\ UNCHANGED <<config, workThread, running, accepting, accepted, lastSessionId,
                 strand, sess, mach, crashed>>

StopJoins ==
  /\ main = "join" /\ workThread = "done"
  /\ running' = FALSE /\ main' = "clear"
  /\ UNCHANGED <<config, workThread, listening, accepting, accepted, lastSessionId,
                 strand, sess, mach, crashed>>

StopClears ==
  /\ main = "clear"
  /\ main' = "done"
  /\ sess' = [i \in Sessions |-> IF sess[i].state = "open" THEN Disconnected(sess[i]) ELSE sess[i]]
  /\ UNCHANGED <<config, workThread, running, listening, accepting,
                 accepted, lastSessionId, strand, mach, crashed>>

-----------------------------------------------------------------------------
Init ==
  /\ config \in [readonly : BOOLEAN, password : BOOLEAN]
  /\ main = "start" /\ workThread = "none"
  /\ running = FALSE /\ listening = FALSE
  /\ accepting = 0 /\ accepted = FALSE /\ lastSessionId = 0 /\ strand = 0
  /\ sess = [i \in Sessions |-> NoSession]
  /\ mach = [scrambler |-> 0, width |-> DefaultSegmentWidth, verbosity |-> 0,
             paused |-> {}, pools |-> 2, active |-> 0,
             restart |-> FALSE, reboot |-> FALSE]
  /\ crashed = FALSE

StrandStep ==
  \/ \E i \in Sessions : \/ RecvShort(i) \/ RecvHttp(i) \/ RecvJson(i)
                         \/ HandleLine(i) \/ HandledLines(i) \/ RecvError(i)
                         \/ WriteSome(i) \/ SendCompleted(i) \/ LateHandler(i)
  \/ HandleAccept
  \/ HandleAcceptError

MainStep == StartListens \/ StartRuns \/ StopCloses \/ StopJoins \/ StopClears

Next == ~crashed /\ (StrandStep \/ PeerConnects \/ ThreadBeginAccept \/ MainStep)

\* Threads run; handlers run in the order in which the strand has them queued,
\* so that of the accept gets its turn between those of busy sessions.  Peers
\* need not connect, send or take anything.
Fairness ==
  /\ WF_apiVars(~crashed /\ ThreadBeginAccept)
  /\ WF_apiVars(~crashed /\ (StartRuns \/ StopJoins \/ StopClears))
  /\ SF_apiVars(~crashed /\ (HandleAccept \/ HandleAcceptError))
  /\ \A i \in Sessions : WF_apiVars(~crashed /\ (HandleLine(i) \/ HandledLines(i) \/ LateHandler(i)))

Spec == Init /\ [][Next]_apiVars /\ Fairness

-----------------------------------------------------------------------------
(* Properties *)

\* The machine changes only by a request of an authenticated session on a
\* port that is not read-only, and the reply says so (processRequest,
\* checkApiWriteAccess): a request that is refused, whatever for, has changed
\* nothing.  The one exception is the switch to a pool by its URI, which
\* setActiveConnection makes and then answers with "Not found.".
OnlyAuthorizedWrites ==
  [][mach' # mach =>
       /\ ~config.readonly
       /\ \E i \in Sessions :
            /\ strand = i /\ sess[i].auth
            /\ \/ sess'[i].code = Answered
               \/ mach' = [mach EXCEPT !.active = mach'.active]]_apiVars

\* On a server with a password a session counts as authenticated only if the
\* last password it sent was right.
AuthenticatedByLastPassword ==
  \A i \in Sessions :
    sess[i].state = "open" /\ config.password /\ sess[i].auth => sess[i].psw = "right"

\* The replies to n requests, each once, whole and in order.
Replies(n) == [k \in 1..(2 * n) |-> k]

\* A session none of whose replies was sent while an earlier write was still
\* under way gets every reply once, whole and in order: what its peer has read,
\* followed by what the write under way still holds, is the replies to all the
\* requests handled (sendSocketData; async_write consumes m_sendBuffer).
RepliesInTurn ==
  \A i \in Sessions :
    LET s == sess[i]
    IN s.state = "open" /\ ~s.overlap =>
         IF s.writes = <<>> THEN s.wire = Replies(s.asked)
         ELSE s.wire \o s.writes[1].left = Replies(s.asked)

\* What docs/API_DOCUMENTATION.md says of every session, "you will issue
\* requests and will get back responses": a request has one response, so the
\* peer reads no part of a reply twice.  It does not hold if a transmission
\* has two lines: the second sendSocketData hands m_sendBuffer, which still
\* holds the first reply, to a write of its own.
OneReplyPerRequest ==
  \A i \in Sessions :
    LET wire == sess[i].wire
    IN \A j, k \in 1..Len(wire) : wire[j] = wire[k] => j = k \/ wire[j] = Garbage

\* Once stop() has returned the accept loop ends: handle_accept resubmits
\* itself after the error of the closed acceptor only while m_running is set.
AcceptLoopEnds == main = "done" ~> (accepting = 0 \/ crashed)
=============================================================================
