--------------------------- MODULE SimulateClient ---------------------------
(***************************************************************************)
(* SimulateClient (libpoolprotocols/testing): the "pool" of a benchmark.   *)
(* connect() and disconnect() are plain calls, there is no network; the    *)
(* one job comes from a thread of its own, a Worker, which then samples    *)
(* the hash rate for as long as there is a session.                        *)
(*                                                                         *)
(* Three threads meet here: the io_service thread (rotateConnect, connect, *)
(* disconnect, the destructor), the client's thread (workLoop) and main,   *)
(* whose PoolManager::stop() disconnects and destroys the client.  Worker  *)
(* models the thread's states; here it is how far workLoop has got.        *)
(***************************************************************************)
EXTENDS Naturals

VARIABLES
  io,          \* where the io_service thread is
  main,        \* where main is
  thread,      \* where the client's thread is
  hasUri,      \* is m_conn not null?
  isUp,        \* m_connected
  hasSession,  \* is m_session not null?
  posted,      \* calls of rotateConnect that are posted
  workSeen,    \* has the manager had a job, from this client or an earlier one?
  failed       \* a null pointer was used, a pure virtual function called

simVars == <<io, main, thread, hasUri, isUp, hasSession, posted, workSeen, failed>>

SimInit ==
  /\ io = "connect" /\ main = "running" /\ thread = "none"
  /\ hasUri = TRUE /\ isUp = FALSE /\ hasSession = FALSE
  /\ posted = 0 /\ workSeen = FALSE /\ failed = FALSE

Broken ==
  /\ failed' = TRUE
  /\ UNCHANGED <<io, main, thread, hasUri, isUp, hasSession, posted, workSeen>>

IoAt(pc) == ~failed /\ io = pc

(***************************************************************************)
(* The io_service thread.                                                  *)
(***************************************************************************)
\* connect(): the flag first, ...
ConnectSetsFlag ==
  /\ IoAt("connect")
  /\ io' = "session" /\ isUp' = TRUE
  /\ UNCHANGED <<main, thread, hasUri, hasSession, posted, workSeen, failed>>

\* ... then the session, ...
ConnectSetsSession ==
  /\ IoAt("session")
  /\ io' = "onConnected" /\ hasSession' = TRUE
  /\ UNCHANGED <<main, thread, hasUri, isUp, posted, workSeen, failed>>

\* ... m_onConnected, which asks for the definition and starts the farm, ...
ConnectReports ==
  /\ IoAt("onConnected")
  /\ \/ ~hasUri /\ Broken
     \/ /\ hasUri /\ io' = "startWorking"
        /\ UNCHANGED <<main, thread, hasUri, isUp, hasSession, posted, workSeen, failed>>

\* ... and startWorking, which waits for the thread to say Started.
StartWorking ==
  /\ IoAt("startWorking")
  /\ io' = "starting" /\ thread' = "starting"
  /\ UNCHANGED <<main, hasUri, isUp, hasSession, posted, workSeen, failed>>

StartReturns ==
  /\ IoAt("starting") /\ thread # "starting"
  /\ io' = "idle"
  /\ UNCHANGED <<main, thread, hasUri, isUp, hasSession, posted, workSeen, failed>>

\* Mutant of CloseSession: m_session stays.
CloseSessionNot == hasUri' = FALSE /\ isUp' = FALSE /\ UNCHANGED hasSession

\* disconnect() and what onDisconnected does to the client
CloseSession == hasUri' = FALSE /\ isUp' = FALSE /\ hasSession' = FALSE

\* failover or setActiveConnection: the manager disconnects, and is told.
SimDisconnect ==
  /\ IoAt("idle") /\ isUp /\ main = "running"
  /\ \/ ~(hasUri /\ hasSession) /\ Broken
     \/ /\ hasUri /\ hasSession
        /\ CloseSession
        /\ posted' = posted + 1
        /\ UNCHANGED <<io, main, thread, workSeen, failed>>

\* rotateConnect destroys the client: a thread that has said Started and has
\* not yet called workLoop calls a function that is no longer there; any other
\* is joined ...
Rotate ==
  /\ IoAt("idle") /\ posted > 0 /\ ~isUp /\ main = "running"
  /\ \/ thread = "entering" /\ Broken
     \/ /\ thread # "entering" /\ io' = "joining"
        /\ UNCHANGED <<main, thread, hasUri, isUp, hasSession, posted, workSeen, failed>>

\* ... and a new client connects.
JoinReturns ==
  /\ IoAt("joining") /\ thread = "stopped"
  /\ io' = "connect" /\ thread' = "none" /\ hasUri' = TRUE
  /\ posted' = posted - 1
  /\ UNCHANGED <<main, isUp, hasSession, workSeen, failed>>

(***************************************************************************)
(* The client's thread.                                                    *)
(***************************************************************************)
ThreadAt(pc) == ~failed /\ thread = pc

ThreadStarts ==
  /\ ThreadAt("starting")
  /\ thread' = "entering"
  /\ UNCHANGED <<io, main, hasUri, isUp, hasSession, posted, workSeen, failed>>

WorkLoop ==
  /\ ThreadAt("entering")
  /\ thread' = "working"
  /\ UNCHANGED <<io, main, hasUri, isUp, hasSession, posted, workSeen, failed>>

\* m_onWorkReceived, on this thread: after a first job the manager asks the
\* client for its definition.
HandsJob ==
  /\ ThreadAt("working")
  /\ \/ workSeen /\ ~hasUri /\ Broken
     \/ /\ ~workSeen \/ hasUri
        /\ thread' = "sampling" /\ workSeen' = TRUE
        /\ UNCHANGED <<io, main, hasUri, isUp, hasSession, posted, failed>>

\* while (m_session)
SamplingEnds ==
  /\ ThreadAt("sampling") /\ ~hasSession
  /\ thread' = "stopped"
  /\ UNCHANGED <<io, main, hasUri, isUp, hasSession, posted, workSeen, failed>>

(***************************************************************************)
(* PoolManager::stop() on main.                                            *)
(***************************************************************************)
StopDisconnects ==
  /\ ~failed /\ main = "running" /\ isUp
  /\ \/ ~(hasUri /\ hasSession) /\ Broken
     \/ /\ hasUri /\ hasSession
        /\ CloseSession
        /\ main' = "destroying"
        /\ UNCHANGED <<io, thread, posted, workSeen, failed>>

\* The client is destroyed, whatever the other threads do with it.
StopDestroys ==
  /\ ~failed /\ main = "destroying"
  /\ \/ (io # "idle" \/ thread = "entering") /\ Broken
     \/ /\ io = "idle" /\ thread # "entering" /\ main' = "joining"
        /\ UNCHANGED <<io, thread, hasUri, isUp, hasSession, posted, workSeen, failed>>

StopReturns ==
  /\ ~failed /\ main = "joining" /\ thread = "stopped"
  /\ main' = "ended"
  /\ UNCHANGED <<io, thread, hasUri, isUp, hasSession, posted, workSeen, failed>>

-----------------------------------------------------------------------------
IoStep ==
  \/ ConnectSetsFlag \/ ConnectSetsSession \/ ConnectReports
  \/ StartWorking \/ StartReturns \/ Rotate \/ JoinReturns
ThreadStep == ThreadStarts \/ WorkLoop \/ HandsJob \/ SamplingEnds
MainStep == StopDestroys \/ StopReturns

\* The program has ended.
SimEnded == (failed \/ main = "ended") /\ UNCHANGED simVars

SimNext ==
  IoStep \/ SimDisconnect \/ ThreadStep \/ StopDisconnects \/ MainStep \/ SimEnded

SimSpec == SimInit /\ [][SimNext]_simVars

\* The three threads are scheduled; nobody need disconnect.
SimFairness == WF_simVars(IoStep) /\ WF_simVars(ThreadStep) /\ WF_simVars(MainStep)

-----------------------------------------------------------------------------
SimPhase ==
  CASE failed \/ main # "running" -> "ended"
    [] ~failed /\ main = "running" /\ ~hasUri -> "gone"
    [] ~failed /\ main = "running" /\ hasUri /\ hasSession -> "up"
    [] OTHER -> "trying"

SimClient == INSTANCE ClientLifecycle WITH phase <- SimPhase, rotations <- posted

=============================================================================
