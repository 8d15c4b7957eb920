--------------------------- MODULE StratumSession ---------------------------
(***************************************************************************)
(* A stratum session after its login: notifications from the pool, jobs,   *)
(* shares and their answers (EthStratumClient::processResponse,            *)
(* submitSolution, the response pleas), what PoolManager does with a job   *)
(* and an answer (onWorkReceived, onSolutionAccepted, onSolutionRejected)  *)
(* and what Farm does with them (setWork's nonce segments,                 *)
(* submitProofAsync, accountSolution).  StratumConnection models the       *)
(* connection and the login this session starts from.                      *)
(*                                                                         *)
(* One transmission is handled in one call; a step handles one line of it, *)
(* 'lines' counts those left.  Jobs, seeds and boundaries are small        *)
(* numbers; nonces have NonceNibbles hex digits instead of 16.             *)
(***************************************************************************)
EXTENDS Integers, Sequences, FiniteSets, FiniteSetsExt, SequencesExt

CONSTANTS
  Modes,         \* the flavours considered
  Miners,        \* number of miners of the farm
  NonceNibbles,  \* hex digits of a nonce
  Places,        \* the random places a search may start from
  Messages(_),   \* the lines a pool may send in a mode
  MaxEvents,     \* bound: lines received and shares found
  MaxTime        \* bound: ticks of the clock

STRATUM == 0
ETHPROXY == 1
ETHEREUMSTRATUM == 2
ETHEREUMSTRATUM2 == 3

\* A line: its kind, and the members the kinds have, -1 one that is absent.
\* An extra nonce is a text of n characters: "digits" if all are hex digits, of
\* the value v; "part" if stoul reads the value v and stops before the end of
\* the text (or meets a sign); "none" if it reads nothing and throws.
Line == [kind : STRING, job : Nat, text : STRING, seed : Int, block : Int,
         boundary : Int, epoch : Int, ok : BOOLEAN, result : STRING,
         ex : [v : Nat, n : Nat, text : {"digits", "part", "none"}]]

ASSUME SessionAssumption ==
  /\ Modes \subseteq {STRATUM, ETHPROXY, ETHEREUMSTRATUM, ETHEREUMSTRATUM2}
  /\ Miners \in Nat \ {0} /\ NonceNibbles \in Nat \ {0}
  /\ Places \subseteq Nat
  /\ MaxEvents \in Nat /\ MaxTime \in Nat
  /\ \A md \in Modes : Messages(md) \subseteq Line

\* The default segments (half of a nonce's bits) fit in the nonces, and a pool
\* that assigns digits leaves at least one nonce per miner: setWork takes the
\* logarithm of that number and makes it unsigned.
ASSUME SpaceAssumption ==
  /\ Miners <= 2 ^ (2 * NonceNibbles)
  /\ \A md \in Modes : \A m \in Messages(md) :
       /\ m.ex.n <= NonceNibbles
       /\ m.ex.text = "digits" => m.ex.v < 2 ^ (4 * m.ex.n)
       /\ Miners <= 2 ^ (4 * (NonceNibbles - m.ex.n))

VARIABLES
  mode,      \* m_conn->StratumMode(), confirmed by the login
  session,   \* m_session: authorized, extra nonce, boundary, epoch, mining.set
             \* seen; 'whole': the last extra nonce was all digits (history)
  current,   \* m_current of the client
  newjob,    \* m_newjobprocessed
  lines,     \* lines of the transmission not yet handled
  wp,        \* PoolManager::m_currentWp
  farm,      \* Farm: nonce scrambler, segment width, start nonce per miner
  pleas,     \* m_response_plea_times, _count, _older
  now,       \* the clock
  shares,    \* shares the pool has not answered: miner and time of sending
  inOrder,   \* the pool has answered in the order it was asked (history)
  maxId,     \* m_solution_submitted_max_id
  answered,  \* answers the pool gave, per miner (history)
  account,   \* Farm's solution accounts
  state,     \* "up", "leaving" (disconnect posted) or "crashed"
  events     \* lines and shares so far

clientVars == <<session, current, newjob>>
shareVars == <<shares, inOrder, maxId, answered, account>>
sessionVars == <<mode, session, current, newjob, lines, wp, farm, pleas, now,
                 shares, inOrder, maxId, answered, account, state, events>>

MinerIds == 0..(Miners - 1)
NonceSpace == 2 ^ (4 * NonceNibbles)
NoJob == 0
Default == 0      \* the boundary a session starts with
TooHigh == 99     \* a block number above 0x9660180
FirstShareId == 40

-----------------------------------------------------------------------------
(* Response pleas *)

\* enqueue_response_plea
Enqueued == [times |-> Append(pleas.times, now), count |-> pleas.count + 1,
             older |-> IF pleas.count = 0 THEN now ELSE pleas.older]

\* Mutant: the newest plea is taken for the oldest.
DequeuedNewest == [times |-> IF pleas.times = <<>> THEN <<>> ELSE Tail(pleas.times),
                   count |-> IF pleas.count > 0 THEN pleas.count - 1 ELSE 0,
                   older |-> now]

\* dequeue_response_plea: the plea that was answered stays the oldest one.
Dequeued == [times |-> IF pleas.times = <<>> THEN <<>> ELSE Tail(pleas.times),
             count |-> IF pleas.count > 0 THEN pleas.count - 1 ELSE 0,
             older |-> IF pleas.times = <<>> THEN pleas.older ELSE Head(pleas.times)]

-----------------------------------------------------------------------------
(* Jobs *)

\* processExtranonce: the text's length is stored first; then its value, padded
\* with zeros on the right, which a character that is no digit cuts off.  If
\* stoul throws the nonce stays what it was.
ProcessExtranonce(s, e) ==
  [s EXCEPT !.size = e.n, !.whole = e.text = "digits",
            !.nonce = CASE e.text = "digits" -> e.v * 2 ^ (4 * (NonceNibbles - e.n))
                        [] e.text = "part"   -> e.v
                        [] e.text = "none"   -> @]

\* mining.notify.  The name of the job is taken first; 'm.text' says what in
\* the rest is absent or does not convert (the conversion throws and the
\* line ends there).
Kept(c) == [cur |-> c, new |-> newjob]
Taken(c) == [cur |-> c, new |-> TRUE]

\* EthereumStratum/1: boundary and extra nonce are those of the session.
NotifyNiceHash(m) ==
  LET named == [current EXCEPT !.job = m.job]
  IN IF m.text = "badhash" THEN Kept(named)
     ELSE Taken([named EXCEPT !.header = m.job, !.seed = m.seed,
                              !.block = IF m.text = "badblock" THEN 0 ELSE m.block,
                              !.boundary = session.boundary,
                              !.start = session.nonce, !.ex = session.size,
                              !.whole = session.whole])

\* Stratum and EthProxy: everything is in the message; a block number that
\* does not convert is none.
NotifyPlain(m) ==
  LET named == [current EXCEPT !.job = m.job,
                               !.block = IF m.text = "badblock" THEN -1 ELSE m.block]
  IN IF m.text = "badhash" THEN Kept(named)
     ELSE Taken([named EXCEPT !.header = m.job, !.seed = m.seed, !.boundary = m.boundary])

\* EthereumStratum/2: nothing before mining.set.
NotifyStratum2(m) ==
  LET named == [current EXCEPT !.job = m.job]
      block == [named EXCEPT !.block = m.block]
  IN CASE ~session.set                         -> Kept(current)
       [] session.set /\ m.text = "badblock"   -> Kept(named)
       [] session.set /\ m.text = "badhash"    -> Kept(block)
       [] OTHER -> Taken([block EXCEPT !.header = m.job,
                                       !.boundary = session.boundary,
                                       !.epoch = session.epoch,
                                       !.start = session.nonce, !.ex = session.size,
                                       !.whole = session.whole])

\* Before EthereumStratum/2 a job ends the interest in the transmission.
Notify(m) ==
  CASE mode = ETHEREUMSTRATUM2            -> NotifyStratum2(m)
    [] mode # ETHEREUMSTRATUM2 /\ newjob  -> Kept(current)
    [] mode = ETHEREUMSTRATUM /\ ~newjob  -> NotifyNiceHash(m)
    [] OTHER                              -> NotifyPlain(m)

\* mining.set_difficulty and mining.set_extranonce (EthereumStratum/1),
\* mining.set (EthereumStratum/2): members that are absent change nothing, one
\* that does not convert ends the line there ("badepoch": timeout or epoch).
SetSession(m) ==
  LET seen == [session EXCEPT !.set = TRUE]
      epoch == [seen EXCEPT !.epoch = IF m.epoch = -1 THEN @ ELSE m.epoch]
      target(s) == [s EXCEPT !.boundary = IF m.boundary = -1 THEN @ ELSE m.boundary]
      nonce(s) == IF m.ex.n = 0 THEN s ELSE ProcessExtranonce(s, m.ex)
  IN CASE m.kind = "set_difficulty" -> IF m.text = "badhash" THEN session ELSE target(session)
       [] m.kind = "set_extranonce" -> nonce(session)
       [] m.kind = "set" -> CASE m.text = "badepoch" -> seen
                              [] m.text = "badhash"  -> epoch
                              [] OTHER               -> nonce(target(epoch))

\* find_epoch_number, which knows no epoch for some seeds.
FindEpochNumber(seed) == IF seed \in {0, 1} THEN seed ELSE -1

\* onWorkReceived: a new epoch is recognised by its number in mode 3 and by
\* the seed otherwise; the number comes from the block or from the seed.
OnWorkReceived(w) ==
  LET newEpoch == \/ wp.epoch = -1
                  \/ IF mode = ETHEREUMSTRATUM2 THEN w.epoch # wp.epoch
                                                ELSE w.seed # wp.seed
  IN IF ~newEpoch THEN [w EXCEPT !.epoch = wp.epoch]
     ELSE IF w.epoch # -1 THEN w
     ELSE [w EXCEPT !.epoch = IF w.block > 0 THEN w.block \div 2147483647
                              ELSE FindEpochNumber(w.seed)]

\* Mutant: the number of miners is not considered.
SegmentWidthWhole(ex) == 4 * (NonceNibbles - ex)

\* (unsigned)log2(2^bits / miners)
SegmentWidth(ex) ==
  CHOOSE k \in 0..(4 * NonceNibbles) :
    /\ 2 ^ k * Miners <= 2 ^ (4 * (NonceNibbles - ex))
    /\ 2 ^ (k + 1) * Miners > 2 ^ (4 * (NonceNibbles - ex))

\* With --ergodicity 2 a job without extra nonce is searched from a new place.
Scramblers(w) == {farm.scrambler} \cup (IF w.ex = 0 THEN Places ELSE {})

\* Farm::setWork: the start nonce of each miner, in NonceNibbles digits.
SetWork(w, scrambler) ==
  LET width == IF w.ex > 0 THEN SegmentWidth(w.ex) ELSE farm.width
      start == IF w.ex > 0 THEN w.start ELSE scrambler
  IN [farm EXCEPT !.width = width, !.scrambler = scrambler,
                  !.start = [i \in MinerIds |-> (start + i * 2 ^ width) % NonceSpace]]

-----------------------------------------------------------------------------
(* Actions *)

\* A transmission arrives.
Receive ==
  /\ state = "up" /\ lines = 0 /\ events < MaxEvents
  /\ \E k \in 1..Min({3, MaxEvents - events}) : lines' = k
  /\ newjob' = FALSE
  /\ UNCHANGED <<mode, session, current, wp, farm, now, state, events>>
  /\ UNCHANGED shareVars /\ UNCHANGED pleas

\* A notification of a job; in EthProxy the answer to the first request for
\* work (id 5) is one too.  A block number out of range throws a pointer, which
\* no handler catches.
HandleNotify(m) ==
  /\ m.kind = "notify" \/ (m.kind = "work" /\ mode = ETHPROXY)
  /\ IF mode \in {STRATUM, ETHPROXY} /\ ~newjob /\ m.block = TooHigh
     THEN state' = "crashed" /\ UNCHANGED <<current, newjob>>
     ELSE /\ current' = Notify(m).cur /\ newjob' = Notify(m).new
          /\ UNCHANGED state
  /\ UNCHANGED session /\ UNCHANGED shareVars /\ UNCHANGED pleas

HandleSet(m) ==
  /\ m.kind \in {"set_difficulty", "set_extranonce", "set"}
  /\ session' = SetSession(m)
  /\ UNCHANGED <<current, newjob, state>>
  /\ UNCHANGED shareVars /\ UNCHANGED pleas

\* The answer to a hash rate (id 9), the refusal (id 999) of nothing that is
\* pending, work (id 5) outside EthProxy and unknown ids change nothing.
HandleIgnored(m) ==
  /\ \/ m.kind \in {"hashrate", "unknown"}
     \/ m.kind = "work" /\ mode # ETHPROXY
     \/ m.kind = "999" /\ session.authorized
  /\ UNCHANGED clientVars /\ UNCHANGED shareVars /\ UNCHANGED <<pleas, state>>

\* mining.bye, and a message that is no JSON-RPC: disconnect is posted.
\* client.get_version and unknown methods change nothing.
HandleOther(m) ==
  /\ m.kind \in {"bye", "invalid", "get_version"}
  /\ state' = IF m.kind = "get_version" THEN state ELSE "leaving"
  /\ UNCHANGED clientVars /\ UNCHANGED shareVars /\ UNCHANGED pleas

\* The answer to mining.authorize (id 3).
HandleAuthorized(m) ==
  /\ m.kind = "authorized" /\ ~session.authorized /\ state = "up"
  /\ pleas' = Dequeued
  /\ session' = [session EXCEPT !.authorized = m.ok]
  /\ state' = IF m.ok THEN state ELSE "leaving"
  /\ UNCHANGED <<current, newjob>> /\ UNCHANGED shareVars

\* A refusal under the id 999 while the answer to mining.authorize is pending
\* is taken for that answer, but its plea stays and the session is as it was.
HandleUnnamedRefusal(m) ==
  /\ m.kind = "999" /\ ~session.authorized
  /\ state' = "leaving"
  /\ UNCHANGED clientVars /\ UNCHANGED shareVars /\ UNCHANGED pleas

\* accountSolution
Account(a, i, what) == [a EXCEPT ![what][i] = @ + 1, ![what][Miners] = @ + 1]

\* PoolManager's handlers: the second only logs.
OnSolutionAccepted(i) == Account(account, i, "accepted")
OnSolutionRejected == account

\* The answer to a share: the id says the miner, not the share.  In
\* EthereumStratum/2 an error 2xx is an acceptance of a stale share.
HandleShareAnswer(m) ==
  /\ m.kind = "share"
  /\ \E k \in DOMAIN shares :
     LET i  == shares[k].miner
         ok == m.result = "true" \/ (m.result = "stale" /\ mode = ETHEREUMSTRATUM2)
     IN /\ shares' = RemoveAt(shares, k)
        /\ inOrder' = (inOrder /\ k = 1)
        /\ answered' = [answered EXCEPT ![ok][i] = @ + 1]
        /\ IF FirstShareId + i \in FirstShareId..maxId
           THEN /\ pleas' = Dequeued
                /\ account' = IF ok THEN OnSolutionAccepted(i) ELSE OnSolutionRejected
           ELSE UNCHANGED <<pleas, account>>
  /\ UNCHANGED maxId /\ UNCHANGED clientVars /\ UNCHANGED state

\* The next line of the transmission; after the last one the job it brought,
\* if any, goes to PoolManager and the farm.
HandleLine(m) ==
  /\ state # "crashed" /\ lines > 0
  /\ \/ HandleNotify(m) \/ HandleSet(m) \/ HandleIgnored(m) \/ HandleOther(m)
     \/ HandleAuthorized(m) \/ HandleUnnamedRefusal(m) \/ HandleShareAnswer(m)
  /\ IF lines = 1 /\ newjob' /\ state' # "crashed"
     THEN /\ wp' = OnWorkReceived(current')
          /\ \E n \in Scramblers(current') : farm' = SetWork(current', n)
     ELSE UNCHANGED <<wp, farm>>
  /\ lines' = lines - 1 /\ events' = events + 1
  /\ UNCHANGED <<mode, now>>

\* Mutant: the id of the last share.
LastShareId(i) == FirstShareId + i

\* m_solution_submitted_max_id
MaxShareId(i) == Max({maxId, FirstShareId + i})

\* Farm::submitProofAsync and PoolManager's onSolutionFound: a wrong result
\* is accounted as failed, a right one goes to the pool if authorized.
\* (lines = 0: a handler of the strand that is under way comes first.)
SubmitSolution(i) ==
  /\ state = "up" /\ lines = 0 /\ events < MaxEvents /\ wp.job # NoJob
  /\ events' = events + 1
  /\ \/ /\ account' = Account(account, i, "failed")
        /\ UNCHANGED <<shares, maxId>> /\ UNCHANGED pleas
     \/ /\ session.authorized
        /\ shares' = Append(shares, [miner |-> i, at |-> now])
        /\ maxId' = MaxShareId(i)
        /\ pleas' = Enqueued
        /\ UNCHANGED account
  /\ UNCHANGED <<mode, answered, inOrder, lines, wp, farm, now, state>> /\ UNCHANGED clientVars

\* miner_shuffle, or --ergodicity 1: a new start place for the jobs to come.
Shuffle(n) ==
  /\ state = "up" /\ lines = 0 /\ events < MaxEvents
  /\ farm.scrambler # n
  /\ farm' = [farm EXCEPT !.scrambler = n]
  /\ events' = events + 1
  /\ UNCHANGED <<mode, wp, lines, now, state>> /\ UNCHANGED clientVars
  /\ UNCHANGED shareVars /\ UNCHANGED pleas

Tick ==
  /\ now < MaxTime /\ state = "up" /\ lines = 0
  /\ now' = now + 1
  /\ UNCHANGED <<mode, wp, farm, lines, state, events>> /\ UNCHANGED clientVars
  /\ UNCHANGED shareVars /\ UNCHANGED pleas

-----------------------------------------------------------------------------
\* After startSession and the request to authorize (EthProxy needs none).
Init ==
  /\ mode \in Modes
  /\ session = [authorized |-> mode = ETHPROXY, nonce |-> 0, size |-> 0,
                boundary |-> Default, epoch |-> 0, set |-> FALSE, whole |-> TRUE]
  /\ current = [job |-> NoJob, header |-> NoJob, seed |-> 0, block |-> -1,
                boundary |-> Default, epoch |-> -1, start |-> 0, ex |-> 0, whole |-> TRUE]
  /\ wp = current
  /\ newjob = FALSE /\ lines = 0
  /\ \E n \in Places :
       farm = [scrambler |-> n, width |-> 2 * NonceNibbles,
               start |-> [i \in MinerIds |-> (n + i * 2 ^ (2 * NonceNibbles)) % NonceSpace]]
  /\ pleas = [times |-> IF mode = ETHPROXY THEN <<>> ELSE <<0>>,
              count |-> IF mode = ETHPROXY THEN 0 ELSE 1, older |-> 0]
  /\ now = 0
  /\ shares = <<>> /\ inOrder = TRUE /\ maxId = FirstShareId - 1
  /\ answered = [b \in BOOLEAN |-> [i \in MinerIds |-> 0]]
  /\ account = [w \in {"accepted", "failed"} |-> [i \in 0..Miners |-> 0]]
  /\ state = "up" /\ events = 0

Next ==
  \/ Receive
  \/ \E m \in Messages(mode) : HandleLine(m)
  \/ \E i \in MinerIds : SubmitSolution(i)
  \/ \E n \in Places : Shuffle(n)
  \/ Tick

Spec == Init /\ [][Next]_sessionVars

-----------------------------------------------------------------------------
(* Properties *)

Segment(i) == {(farm.start[i] + k) % NonceSpace : k \in 0..(2 ^ farm.width - 1)}

\* The nonces that begin with the digits the pool assigned for the job.
Residual(n) == n \div 2 ^ (4 * (NonceNibbles - wp.ex)) = wp.start \div 2 ^ (4 * (NonceNibbles - wp.ex))

\* No two miners search the same nonce, whatever the lines; and under an extra
\* nonce, if the last one was all digits when the job came, every nonce a miner
\* searches begins with them (Farm::setWork, processExtranonce).
SegmentsApartWithinExtranonce ==
  /\ \A i, j \in MinerIds : i # j => Segment(i) \cap Segment(j) = {}
  /\ wp.ex > 0 /\ wp.whole => \A i \in MinerIds : \A n \in Segment(i) : Residual(n)

\* "Equally divide the residual segment among miners" (Farm.cpp, setWork),
\* whatever the pool sent: it does not hold after an extra nonce that stoul does
\* not read to its end, whose length processExtranonce has stored all the same.
ResidualSegmentDivided ==
  wp.ex > 0 => \A i \in MinerIds : \A n \in Segment(i) : Residual(n)

\* As long as the pool answers in order, the time the work loop measures the
\* delay from is not later than the oldest unanswered request: no delay is
\* underestimated (enqueue_response_plea, dequeue_response_plea).
OldestPleaNotLater ==
  inOrder /\ state = "up" =>
    /\ pleas.count = Len(shares) + IF session.authorized THEN 0 ELSE 1
    /\ pleas.count > 0 => \A k \in DOMAIN shares : pleas.older <= shares[k].at

\* Every acceptance the pool sent is in the account of its miner, and the
\* farm's account is the sum over the miners, in whatever order answers come.
AcceptancesAccounted ==
  /\ \A i \in MinerIds : account["accepted"][i] = answered[TRUE][i]
  /\ \A w \in DOMAIN account :
       account[w][Miners] = MapThenSumSet(LAMBDA i : account[w][i], MinerIds)

=============================================================================
