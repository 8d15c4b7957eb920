----------------------------- MODULE PoolManager -----------------------------
(***************************************************************************)
(* dev::eth::PoolManager (libpoolprotocols/PoolManager.{h,cpp}) with the   *)
(* shutdown path of main.cpp.                                              *)
(*                                                                         *)
(* Two threads act.  The io_service thread runs, one at a time, the        *)
(* handlers of the manager, of the pool client, of the API and of the two  *)
(* timers; the main thread waits for a signal and then runs stop().  A     *)
(* handler is one step of the model; stop() is split where it reads what   *)
(* the io thread writes.                                                   *)
(*                                                                         *)
(* The client is EthStratumClient seen from here: what connect(),          *)
(* disconnect() and disconnect_finalize() do to m_conn and m_connected and *)
(* when they call back.  The Farm is its two flags.  Wire protocol, work   *)
(* packages and counters for display are in other modules or left out.     *)
(***************************************************************************)
EXTENDS Naturals, Sequences, SequencesExt

CONSTANTS
  URIs,             \* pool definitions that may ever be in the list
  ExitURI,          \* the definition whose Host() is "exit"
  NoURI,            \* m_conn is null
  Secure,           \* the definitions with a TLS transport
  Configured,       \* the -P arguments: a sequence of definitions
  Settings,         \* the settings to consider: records of the type PoolSettings
  TopMode           \* highest stratum mode of autodetection (3 in the code)

\* connectionMaxRetries (--farm-retries); is poolFailoverTimeout set? reportHashrate
PoolSettings == [maxRetries : Nat, failover : BOOLEAN, reportHr : BOOLEAN]

ASSUME PoolAssumption ==
  /\ ExitURI \in URIs /\ NoURI \notin URIs
  /\ Secure \subseteq URIs
  /\ Configured \in Seq(URIs) /\ Configured # <<>> /\ Head(Configured) # ExitURI
  /\ Settings \subseteq PoolSettings
  /\ TopMode \in Nat

VARIABLES
  connections,   \* m_Settings.connections
  active,        \* m_activeConnectionIdx, counted from 0
  attempt,       \* m_connectionAttempt
  settings,      \* the other fields of m_Settings, fixed at start
  running, stopping, asyncPending,   \* the three atomic flags
  client,        \* state of *p_client
  conn,          \* p_client->m_conn
  responds,      \* m_conn->Responds()
  mode,          \* StratumMode() of each definition
  confirmed,     \* definitions with StratumModeConfirmed()
  unrecoverable, \* definitions with IsUnrecoverable()
  failTimer,     \* is m_failovertimer waiting?
  hrTimer,       \* is m_submithrtimer waiting?
  ioq,           \* handlers queued on the manager's strand
  isMining, farmPaused,              \* Farm::m_isMining, Farm::m_paused
  suspended,     \* do the miners carry the flag PauseDueToFarmPaused?
  restartPosted, \* is Farm::restart queued on the farm's strand?
  hasJob,        \* have the miners a work package (a header that is not null)?
  gRunning,      \* g_running: no signal has arrived
  mpc,           \* where the main thread is
  crashed        \* a null m_conn was dereferenced

pool == <<connections, active, attempt>>
flags == <<running, stopping, asyncPending>>
clientVars == <<client, conn, responds>>
uriVars == <<mode, confirmed, unrecoverable>>
timers == <<failTimer, hrTimer, ioq>>
farm == <<isMining, farmPaused, suspended, hasJob>>
rest == <<restartPosted, crashed>>
main == <<gRunning, mpc>>
\* what disconnect() may change, but for the handler queue
discVars == <<flags, clientVars, uriVars, failTimer, hrTimer, farm, crashed>>
vars == <<settings, pool, flags, clientVars, uriVars, timers, farm, main,
          restartPosted, crashed>>

ClientState ==
  {"none",        \* p_client is null
   "connecting",  \* resolving or connecting a socket
   "handshake",   \* m_connected, no session yet: login in progress
   "session",     \* m_connected, onConnected was called
   "closing",     \* m_disconnecting, waiting for the TLS shutdown
   "down"}        \* onDisconnected was called

\* The main thread: the wait loop on g_shouldstop, stop(), ~MinerCLI.
MainPC == {"check", "enter", "wait", "isRunning", "stop", "spin", "stopped",
           "terminated"}

\* Every variable ranges over its type; idle definitions keep their mode.
TypeOK ==
  /\ connections \in Seq(URIs) /\ active \in Nat /\ attempt \in Nat
  /\ settings \in PoolSettings
  /\ running \in BOOLEAN /\ stopping \in BOOLEAN /\ asyncPending \in BOOLEAN
  /\ client \in ClientState /\ conn \in URIs \cup {NoURI} /\ responds \in BOOLEAN
  /\ mode \in [URIs -> 0..TopMode]
  /\ confirmed \subseteq URIs /\ unrecoverable \subseteq URIs
  /\ failTimer \in BOOLEAN /\ hrTimer \in BOOLEAN
  /\ ioq \in Seq({"rotateConnect", "failover", "hashrate"})
  /\ isMining \in BOOLEAN /\ farmPaused \in BOOLEAN
  /\ suspended \in BOOLEAN /\ hasJob \in BOOLEAN /\ restartPosted \in BOOLEAN
  /\ gRunning \in BOOLEAN /\ mpc \in MainPC
  /\ crashed \in BOOLEAN

\* After PoolManager::start(): the first rotateConnect is posted.
Init ==
  /\ connections = Configured /\ active = 0 /\ attempt = 0
  /\ settings \in Settings
  /\ running = TRUE /\ stopping = FALSE /\ asyncPending = TRUE
  /\ client = "none" /\ conn = NoURI /\ responds = FALSE
  /\ mode = [u \in URIs |-> TopMode]
  /\ confirmed = {} /\ unrecoverable = {}
  /\ failTimer = FALSE /\ hrTimer = FALSE /\ ioq = <<"rotateConnect">>
  /\ isMining = FALSE /\ farmPaused = FALSE /\ suspended = FALSE /\ hasJob = FALSE
  /\ restartPosted = FALSE
  /\ gRunning = TRUE /\ mpc = "check"
  /\ crashed = FALSE

-----------------------------------------------------------------------------
isConnected == client \in {"handshake", "session"}
activeURI == connections[active + 1]

\* The io thread runs handlers until ~MinerCLI stops the io_service.
IoAlive == ~crashed /\ mpc # "terminated"
ApiAlive == ~crashed /\ mpc \in {"check", "enter", "wait", "isRunning"}

(***************************************************************************)
(* The Farm's operations, as far as they concern all miners.               *)
(***************************************************************************)
\* Fresh miners: no work, no pause flags; Farm::m_paused keeps its value.
FarmStart ==
  /\ isMining' = TRUE /\ suspended' = FALSE /\ hasJob' = FALSE
  /\ UNCHANGED farmPaused

FarmStop ==
  /\ isMining' = FALSE /\ suspended' = FALSE /\ hasJob' = FALSE
  /\ UNCHANGED farmPaused

\* Mutant of FarmPause: the miners keep their work.
FarmPauseKeepsWork ==
  /\ farmPaused' = TRUE /\ suspended' = isMining
  /\ UNCHANGED <<isMining, hasJob>>

\* The flag is set on the farm and on every miner it has, whose work is voided.
FarmPause ==
  /\ farmPaused' = TRUE /\ suspended' = isMining /\ hasJob' = FALSE
  /\ UNCHANGED isMining

\* Mutant of FarmResume: only the farm's flag is cleared.
FarmResumeForgetsMiners ==
  /\ farmPaused' = FALSE
  /\ UNCHANGED <<isMining, suspended, hasJob>>

FarmResume ==
  /\ farmPaused' = FALSE /\ suspended' = FALSE
  /\ UNCHANGED <<isMining, hasJob>>

(***************************************************************************)
(* The client's disconnect path and the onDisconnected handler.  q is the  *)
(* strand's queue without the handler that is being run, unrec the         *)
(* definitions marked unrecoverable so far.                                *)
(***************************************************************************)
\* g_io_service.post(rotateConnect)
PostNothing(q) == q
PostRotateConnect(q) == Append(q, "rotateConnect")

\* While stopping: stop the farm and tell main; otherwise suspend mining and
\* post a new connection request.
OnDisconnected(q) ==
  /\ client' = "down"
  /\ conn' = NoURI
  /\ failTimer' = FALSE
  /\ hrTimer' = FALSE
  /\ \/ /\ stopping
        /\ FarmStop
        /\ running' = FALSE
        /\ ioq' = q
        /\ UNCHANGED asyncPending
     \/ /\ ~stopping
        /\ asyncPending' = TRUE
        /\ FarmPause
        /\ ioq' = PostRotateConnect(q)
        /\ UNCHANGED running
  /\ UNCHANGED <<stopping, responds>>

\* Is the connection lost while the stratum mode is still being detected?
Autodetecting(unrec) ==
  conn \notin unrec /\ conn \notin confirmed /\ responds

\* disconnect_finalize(): with no m_conn it crashes; during autodetection the
\* next lower mode is tried, with mode 0 exhausted the definition is given up.
DisconnectFinalize(unrec, q) ==
  \/ /\ conn = NoURI
     /\ crashed' = TRUE
     /\ ioq' = q
     /\ UNCHANGED <<flags, clientVars, uriVars, failTimer, hrTimer, farm>>
  \/ /\ conn # NoURI /\ Autodetecting(unrec) /\ mode[conn] > 0
     /\ mode' = [mode EXCEPT ![conn] = @ - 1]
     /\ client' = "connecting"
     /\ unrecoverable' = unrec
     /\ ioq' = q
     /\ UNCHANGED <<flags, conn, responds, confirmed, failTimer, hrTimer, farm, crashed>>
  \/ /\ conn # NoURI /\ ~(Autodetecting(unrec) /\ mode[conn] > 0)
     /\ unrecoverable' = IF Autodetecting(unrec) THEN unrec \cup {conn} ELSE unrec
     /\ OnDisconnected(q)
     /\ UNCHANGED <<mode, confirmed, crashed>>

\* disconnect(): ignored while a TLS shutdown is under way; a TLS connection
\* starts one, any other is finalized at once.
Disconnect(unrec, q) ==
  \/ /\ client = "closing"
     /\ ioq' = q
     /\ UNCHANGED discVars
  \/ /\ isConnected /\ conn \in Secure
     /\ client' = "closing"
     /\ unrecoverable' = unrec
     /\ ioq' = q
     /\ UNCHANGED <<flags, conn, responds, mode, confirmed, failTimer, hrTimer, farm, crashed>>
  \/ /\ client # "closing" /\ ~(isConnected /\ conn \in Secure)
     /\ DisconnectFinalize(unrec, q)

(***************************************************************************)
(* What the network makes the client do (io thread).                       *)
(***************************************************************************)
\* A socket connects: Responds(true), m_connected.
SocketUp ==
  /\ IoAlive /\ client = "connecting"
  /\ client' = "handshake"
  /\ responds' = TRUE
  /\ UNCHANGED <<settings, pool, flags, conn, uriVars, timers, farm, main, rest>>

\* No (more) end points: the client simulates a disconnect.
ConnectFails ==
  /\ IoAlive /\ client = "connecting"
  /\ DisconnectFinalize(unrecoverable, ioq)
  /\ UNCHANGED <<settings, pool, main, restartPosted>>

\* The pool answers the login: startSession() and the onConnected handler.
OnConnected ==
  /\ IoAlive /\ client = "handshake"
  /\ client' = "session"
  /\ confirmed' = confirmed \cup {conn}
  /\ failTimer' = (active # 0 /\ settings.failover)
  /\ \/ ~isMining /\ FarmStart
     \/ isMining /\ farmPaused /\ FarmResume
     \/ isMining /\ ~farmPaused /\ UNCHANGED farm
  /\ hrTimer' = settings.reportHr
  /\ asyncPending' = FALSE
  /\ UNCHANGED <<settings, pool, running, stopping, conn, responds, mode,
                 unrecoverable, ioq, main, restartPosted, crashed>>

\* A job arrives: Farm::setWork gives it to the miners, a paused one voids it.
OnWorkReceived ==
  /\ IoAlive /\ client = "session"
  /\ hasJob' = (isMining /\ ~suspended)
  /\ UNCHANGED <<settings, pool, flags, clientVars, uriVars, timers, isMining,
                 farmPaused, suspended, main, rest>>

\* The pool refuses the login, or the worker's authorization in a session, for
\* good: the client marks the definition unrecoverable and disconnects.
LoginRefused ==
  /\ IoAlive /\ isConnected
  /\ Disconnect(unrecoverable \cup {conn}, ioq)
  /\ UNCHANGED <<settings, pool, main, restartPosted>>

\* The peer closes, a read or write fails, or a response is overdue.
ConnectionLost ==
  /\ IoAlive /\ isConnected
  /\ Disconnect(unrecoverable, ioq)
  /\ UNCHANGED <<settings, pool, main, restartPosted>>

\* onSSLShutdownCompleted
ShutdownCompletes ==
  /\ IoAlive /\ client = "closing"
  /\ DisconnectFinalize(unrecoverable, ioq)
  /\ UNCHANGED <<settings, pool, main, restartPosted>>

(***************************************************************************)
(* Timers.  An expired timer's handler is queued; a later cancel() does    *)
(* not take it back.  Bound: a timer, set for seconds or minutes, does not *)
(* expire again before the handler of its last expiry has run.             *)
(***************************************************************************)
FailoverTimerExpires ==
  /\ IoAlive /\ failTimer /\ ~Contains(ioq, "failover")
  /\ failTimer' = FALSE
  /\ ioq' = Append(ioq, "failover")
  /\ UNCHANGED <<settings, pool, flags, clientVars, uriVars, hrTimer, farm, main, rest>>

HashrateTimerExpires ==
  /\ IoAlive /\ hrTimer /\ ~Contains(ioq, "hashrate")
  /\ hrTimer' = FALSE
  /\ ioq' = Append(ioq, "hashrate")
  /\ UNCHANGED <<settings, pool, flags, clientVars, uriVars, failTimer, farm, main, rest>>

Dequeue(h) == IoAlive /\ ioq # <<>> /\ Head(ioq) = h

\* failovertimer_elapsed: return to the primary pool
FailoverTimerElapsed ==
  /\ Dequeue("failover")
  /\ \/ /\ running /\ active # 0
        /\ active' = 0 /\ attempt' = 0
        /\ Disconnect(unrecoverable, Tail(ioq))
     \/ /\ ~running \/ active = 0
        /\ ioq' = Tail(ioq)
        /\ UNCHANGED <<active, attempt, discVars>>
  /\ UNCHANGED <<settings, connections, main, restartPosted>>

\* Mutant of HashrateTimerElapsed: the timer is not set again.
HashrateTimerOnce ==
  /\ Dequeue("hashrate")
  /\ ioq' = Tail(ioq)
  /\ UNCHANGED <<settings, pool, flags, clientVars, uriVars, hrTimer, failTimer, farm, main, rest>>

\* submithrtimer_elapsed: report when connected, and always wait again
HashrateTimerElapsed ==
  /\ Dequeue("hashrate")
  /\ ioq' = Tail(ioq)
  /\ hrTimer' = (hrTimer \/ running)
  /\ UNCHANGED <<settings, pool, flags, clientVars, uriVars, failTimer, farm, main, rest>>

(***************************************************************************)
(* rotateConnect                                                           *)
(***************************************************************************)
\* Which list, index and attempt count the next connection uses: an
\* unrecoverable definition is erased; one that used up its attempts is left
\* for the next one, or erased if it is the only one.
Rotation ==
  LET a == IF active >= Len(connections) THEN 0 ELSE active
      others == RemoveAt(connections, a + 1)
  IN  CASE connections[a + 1] \in unrecoverable ->
             [list |-> others, idx |-> IF a >= Len(others) THEN 0 ELSE a,
              attempt |-> 0]
        [] connections[a + 1] \notin unrecoverable /\ attempt >= settings.maxRetries ->
             IF Len(connections) = 1
             THEN [list |-> others, idx |-> a, attempt |-> attempt]
             ELSE [list |-> connections, idx |-> (a + 1) % Len(connections),
                   attempt |-> 0]
        [] OTHER ->
             [list |-> connections, idx |-> a, attempt |-> attempt]

\* SIGINT or SIGTERM: the handler clears g_running and notifies g_shouldstop,
\* which only a main thread that already waits can hear.
Signalled ==
  /\ gRunning' = FALSE
  /\ mpc' = IF mpc = "wait" THEN "check" ELSE mpc

\* A new client for the chosen definition, or the end of the program when the
\* list is exhausted or the "exit" definition is reached.
ConnectTo(r) ==
  LET found == r.list # <<>> /\ r.list[r.idx + 1] # ExitURI IN
  /\ connections' = r.list /\ active' = r.idx /\ attempt' = r.attempt
  /\ \/ /\ found
        /\ client' = "connecting"
        /\ conn' = r.list[r.idx + 1]
        /\ responds' = FALSE
        /\ UNCHANGED <<farm, running, main>>
     \/ /\ ~found
        /\ FarmStop
        /\ running' = FALSE
        /\ Signalled
        /\ UNCHANGED <<clientVars>>

\* rotateConnect does nothing while a client is connected
RotateConnect ==
  /\ Dequeue("rotateConnect")
  /\ ioq' = Tail(ioq)
  /\ IF isConnected THEN UNCHANGED <<pool, clientVars, farm, running, main>>
                    ELSE ConnectTo(Rotation)
  /\ UNCHANGED <<settings, stopping, asyncPending, uriVars, failTimer, hrTimer,
                 restartPosted, crashed>>

(***************************************************************************)
(* The API's requests (io thread), until main stops the API server.        *)
(***************************************************************************)
\* addConnection: a new URI object at the end of the list
AddConnection(u) ==
  /\ ApiAlive /\ u # conn /\ ~Contains(connections, u)
  /\ connections' = Append(connections, u)
  /\ mode' = [mode EXCEPT ![u] = TopMode]
  /\ confirmed' = confirmed \ {u}
  /\ unrecoverable' = unrecoverable \ {u}
  /\ UNCHANGED <<settings, active, attempt, flags, clientVars, timers, farm, main, rest>>

\* Mutants of RemoveConnection: the index is not adjusted, or the active
\* connection may be removed.
RemoveKeepsIndex(i) ==
  /\ ApiAlive /\ ~asyncPending
  /\ i < Len(connections) /\ i # active
  /\ connections' = RemoveAt(connections, i + 1)
  /\ UNCHANGED <<settings, active, attempt, flags, clientVars, uriVars, timers, farm, main, rest>>

RemoveActiveToo(i) ==
  /\ ApiAlive /\ ~asyncPending
  /\ i < Len(connections) - 1
  /\ connections' = RemoveAt(connections, i + 1)
  /\ active' = IF active > i THEN active - 1 ELSE active
  /\ UNCHANGED <<settings, attempt, flags, clientVars, uriVars, timers, farm, main, rest>>

\* removeConnection, when it does not throw
RemoveConnection(i) ==
  /\ ApiAlive /\ ~asyncPending
  /\ i < Len(connections) /\ i # active
  /\ connections' = RemoveAt(connections, i + 1)
  /\ active' = IF active > i THEN active - 1 ELSE active
  /\ UNCHANGED <<settings, attempt, flags, clientVars, uriVars, timers, farm, main, rest>>

\* setActiveConnection, when it does not throw and changes the index
SetActiveConnection(i) ==
  /\ ApiAlive /\ ~asyncPending
  /\ i < Len(connections) /\ i # active
  /\ active' = i /\ attempt' = 0
  /\ \/ /\ client = "closing"
        /\ asyncPending' = TRUE
        /\ UNCHANGED <<running, stopping, clientVars, uriVars, timers, farm, crashed>>
     \/ /\ isConnected /\ conn \in Secure
        /\ asyncPending' = TRUE
        /\ client' = "closing"
        /\ UNCHANGED <<running, stopping, conn, responds, uriVars, timers, farm, crashed>>
     \/ /\ client # "closing" /\ ~(isConnected /\ conn \in Secure)
        /\ DisconnectFinalize(unrecoverable, ioq)
  /\ UNCHANGED <<settings, connections, main, restartPosted>>

\* miner_restart posts Farm::restart ...
RestartAsync ==
  /\ ApiAlive /\ ~restartPosted
  /\ restartPosted' = TRUE
  /\ UNCHANGED <<settings, pool, flags, clientVars, uriVars, timers, farm, main, crashed>>

\* ... which stops the miners, if any, and starts new ones
OnMinerRestart ==
  /\ IoAlive /\ restartPosted
  /\ restartPosted' = FALSE
  /\ FarmStart
  /\ UNCHANGED <<settings, pool, flags, clientVars, uriVars, timers, main, crashed>>

(***************************************************************************)
(* The main thread: while (g_running) g_shouldstop.wait(), then stop().    *)
(***************************************************************************)
MainGoes(from, to) ==
  /\ ~crashed
  /\ mpc = from
  /\ mpc' = to
  /\ UNCHANGED <<settings, pool, uriVars, gRunning, restartPosted>>

MainCheck ==
  /\ MainGoes("check", IF gRunning THEN "enter" ELSE "isRunning")
  /\ UNCHANGED <<flags, clientVars, timers, farm, crashed>>

MainEnter ==
  /\ MainGoes("enter", "wait")
  /\ UNCHANGED <<flags, clientVars, timers, farm, crashed>>

Signal ==
  /\ ~crashed /\ mpc \in {"check", "enter", "wait"}
  /\ Signalled
  /\ UNCHANGED <<settings, pool, flags, clientVars, uriVars, timers, farm, rest>>

\* Mutant of MainIsRunning: m_stopping is not set.
MainForgetsStopping ==
  /\ MainGoes("isRunning", IF running THEN "stop" ELSE "stopped")
  /\ asyncPending' = (asyncPending \/ running)
  /\ UNCHANGED <<stopping, running, clientVars, timers, farm, crashed>>

\* isRunning(), then the two stores at the top of stop()
MainIsRunning ==
  /\ MainGoes("isRunning", IF running THEN "stop" ELSE "stopped")
  /\ asyncPending' = (asyncPending \/ running)
  /\ stopping' = running
  /\ UNCHANGED <<running, clientVars, timers, farm, crashed>>

\* p_client && p_client->isConnected(): disconnect from this thread, then spin
MainDisconnects ==
  /\ ~crashed /\ mpc = "stop" /\ isConnected
  /\ mpc' = "spin"
  /\ Disconnect(unrecoverable, ioq)
  /\ UNCHANGED <<settings, pool, gRunning, restartPosted>>

\* otherwise cancel the timers and stop the miners; the client is left alone
MainStopsFarm ==
  /\ ~isConnected
  /\ MainGoes("stop", "stopped")
  /\ failTimer' = FALSE /\ hrTimer' = FALSE
  /\ FarmStop
  /\ UNCHANGED <<flags, clientVars, ioq, crashed>>

\* while (m_running) sleep; p_client = nullptr
MainSpinEnds ==
  /\ ~running
  /\ MainGoes("spin", "stopped")
  /\ client' = "none" /\ conn' = NoURI
  /\ UNCHANGED <<flags, responds, timers, farm, crashed>>

\* ~MinerCLI: the io_service is stopped and its thread joined
MainTerminates ==
  /\ MainGoes("stopped", "terminated")
  /\ UNCHANGED <<flags, clientVars, timers, farm, crashed>>

\* The process has ended, normally or not.
Ended ==
  /\ crashed \/ mpc = "terminated"
  /\ UNCHANGED vars

ClientStep ==
  SocketUp \/ ConnectFails \/ OnConnected \/ OnWorkReceived \/ LoginRefused \/ ConnectionLost \/ ShutdownCompletes
HandlerStep == FailoverTimerElapsed \/ HashrateTimerElapsed \/ RotateConnect
ApiStep ==
  \/ \E u \in URIs : AddConnection(u)
  \/ \E i \in 0..Len(connections) : RemoveConnection(i) \/ SetActiveConnection(i)
  \/ RestartAsync
MainStep ==
  MainCheck \/ MainEnter \/ MainIsRunning \/ MainDisconnects \/ MainStopsFarm
  \/ MainSpinEnds \/ MainTerminates

Next ==
  \/ ClientStep
  \/ FailoverTimerExpires \/ HashrateTimerExpires
  \/ HandlerStep
  \/ OnMinerRestart
  \/ ApiStep
  \/ Signal
  \/ MainStep
  \/ Ended

Spec == Init /\ [][Next]_vars

(***************************************************************************)
(* Fairness.  Queued handlers run, the main thread is scheduled, and a     *)
(* connection attempt ends (with success or an error): the operating       *)
(* system's time-outs see to that.  The pool need not answer a login or a  *)
(* TLS shutdown, and no signal, timer or API request need come.            *)
(***************************************************************************)
Fairness ==
  /\ WF_vars(HandlerStep)
  /\ WF_vars(OnMinerRestart)
  /\ WF_vars(MainStep)
  /\ WF_vars(SocketUp \/ ConnectFails)

FairSpec == Spec /\ Fairness

-----------------------------------------------------------------------------
\* The connection the API reports as active (getConnectionsJson) is the one the
\* session is with, after removals, additions and failed removals of others.
\* m_activeConnectionIdx stays inside the list through every erase, switch and
\* failover, and a posted rotateConnect, which indexes the list unchecked,
\* always finds a definition in it.
SessionIsActive ==
  /\ client = "session" /\ ~crashed => conn = activeURI
  /\ connections # <<>> => active < Len(connections)
  /\ ioq # <<>> /\ Head(ioq) = "rotateConnect" => connections # <<>>

\* In a session the miners take jobs: no order of failed first attempts,
\* reconnects, restarts by the API and failovers leaves them suspended.
SessionMines == client = "session" /\ ~stopping => isMining /\ ~suspended

\* Once a pool is left no miner works on a job of it, not even when the API
\* restarts the miners between two connections.
NoStaleMining == client \in {"down", "connecting", "handshake"} => ~hasJob

\* Hash rate reporting never stops during a session: the timer is waiting or
\* its handler, which sets it again, is queued.
HashrateReported ==
  client = "session" /\ settings.reportHr /\ ~stopping /\ ~crashed =>
    hrTimer \/ Contains(ioq, "hashrate")

\* A lost connection is followed by a new attempt, or by the end of the program
\* when the list is used up.
ReconnectsOrEnds ==
  client = "down" ~> client # "down" \/ stopping \/ ~running \/ crashed

\* stop() called during a session ends the program with the miners stopped,
\* whatever the timers, the API and the pool do meanwhile, unless the pool is one
\* that never answers a TLS shutdown.
StopInSessionEnds ==
  \/ <>[](client = "closing")
  \/ mpc = "stop" /\ client = "session" /\ ~restartPosted
       ~> (mpc = "terminated" /\ ~isMining) \/ crashed

\* stop(): "Wait for async operations to complete".  The wait comes to an end, or
\* to a pool that does not answer a login or a TLS shutdown.  False while the mode
\* is being detected: the client connects again and no one disconnects it.
StopEnds ==
  mpc = "spin" ~> mpc = "terminated" \/ crashed \/ client \in {"handshake", "closing"}

=============================================================================
