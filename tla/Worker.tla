------------------------------- MODULE Worker -------------------------------
(***************************************************************************)
(* dev::Worker (libdevcore/Worker.h, Worker.cpp): an object that owns one  *)
(* thread and lets other threads start it, ask it to stop, wait for it to  *)
(* stop and finally destroy it.  Miners (libethcore/Miner.h) and the       *)
(* simulation client are Workers.                                          *)
(*                                                                         *)
(* Every atomic access to m_state is one step.  The three public methods   *)
(* run under the mutex x_work, which startWorking and stopWorking keep     *)
(* while they spin; the worker thread never takes it.  workLoop(), the     *)
(* virtual method the thread runs, is abstracted to "it may return or      *)
(* throw at any time, and does so once shouldStop() holds".                *)
(***************************************************************************)
EXTENDS Naturals

CONSTANTS
  Callers,          \* threads that call the public methods
  NoCaller,         \* x_work is free
  WeakCASMayFail,   \* may compare_exchange_weak fail spuriously on this CPU?
  ExitOnError       \* g_exitOnError: an exception in workLoop raises SIGTERM

ASSUME WorkerAssumption ==
  /\ NoCaller \notin Callers
  /\ WeakCASMayFail \in BOOLEAN
  /\ ExitOnError \in BOOLEAN

WorkerState == {"Starting", "Started", "Stopping", "Stopped", "Killing"}

VARIABLES
  m_state,    \* the atomic WorkerState
  m_work,     \* does the std::thread object exist?
  x_work,     \* holder of the mutex
  cpc,        \* where each caller is
  tpc,        \* where the worker thread is
  ex,         \* the thread's local copy of the state it exchanged for Stopped
  sigterm,    \* has SIGTERM been raised by the thread?
  quiet       \* history: a stopWorking returned and no startWorking came since

vars == <<m_state, m_work, x_work, cpc, tpc, ex, sigterm, quiet>>

CallerPC == {"idle", "startWorking", "stopWorking", "join", "destroyed"}
ThreadPC == {"none", "while", "claim", "workLoop", "exchange", "restore",
             "sleep", "exited"}

\* Every variable ranges over what its declaration in Worker.h allows.
TypeOK ==
  /\ m_state \in WorkerState
  /\ m_work \in BOOLEAN
  /\ x_work \in Callers \cup {NoCaller}
  /\ cpc \in [Callers -> CallerPC]
  /\ tpc \in ThreadPC
  /\ ex \in WorkerState
  /\ sigterm \in BOOLEAN
  /\ quiet \in BOOLEAN

Init ==
  /\ m_state = "Starting"
  /\ m_work = FALSE
  /\ x_work = NoCaller
  /\ cpc = [c \in Callers |-> "idle"]
  /\ tpc = "none"
  /\ ex = "Starting"
  /\ sigterm = FALSE
  /\ quiet = FALSE

-----------------------------------------------------------------------------
\* m_state.compare_exchange_weak(old, new)
CompareExchangeWeak(old, new) ==
  \/ m_state = old /\ m_state' = new
  \/ (m_state # old \/ WeakCASMayFail) /\ m_state' = m_state

shouldStop == m_state # "Started"

(***************************************************************************)
(* The methods of the object's users.                                      *)
(***************************************************************************)
Lock(c) ==
  /\ cpc[c] = "idle"
  /\ x_work = NoCaller

Enter(c, pc) ==
  /\ x_work' = c
  /\ cpc' = [cpc EXCEPT ![c] = pc]

Return(c) ==
  /\ x_work' = NoCaller
  /\ cpc' = [cpc EXCEPT ![c] = "idle"]

\* startWorking() up to its final spin: a thread that exists is asked to start
\* again, otherwise one is created.
StartWorking(c) ==
  /\ Lock(c)
  /\ \/ /\ m_work
        /\ CompareExchangeWeak("Stopped", "Starting")
        /\ UNCHANGED tpc
     \/ /\ ~m_work
        /\ m_state' = "Starting"
        /\ tpc' = "while"
  /\ m_work' = TRUE
  /\ Enter(c, "startWorking")
  /\ quiet' = FALSE
  /\ UNCHANGED <<ex, sigterm>>

\* while (m_state == Starting) sleep;  then the guard is released
StartReturns(c) ==
  /\ cpc[c] = "startWorking"
  /\ m_state # "Starting"
  /\ Return(c)
  /\ UNCHANGED <<m_state, m_work, tpc, ex, sigterm, quiet>>

\* triggerStopWorking() does not wait
TriggerStopWorking(c) ==
  /\ Lock(c)
  /\ m_work
  /\ CompareExchangeWeak("Started", "Stopping")
  /\ UNCHANGED <<m_work, x_work, cpc, tpc, ex, sigterm, quiet>>

\* Mutant of StopWorking: it expects the wrong state.
StopWorkingExpectsStarting(c) ==
  /\ Lock(c)
  /\ m_work
  /\ CompareExchangeWeak("Starting", "Stopping")
  /\ Enter(c, "stopWorking")
  /\ UNCHANGED <<m_work, tpc, ex, sigterm, quiet>>

\* stopWorking() up to its spin
StopWorking(c) ==
  /\ Lock(c)
  /\ m_work
  /\ CompareExchangeWeak("Started", "Stopping")
  /\ Enter(c, "stopWorking")
  /\ UNCHANGED <<m_work, tpc, ex, sigterm, quiet>>

\* Mutant of StopReturns: it does not wait.
StopReturnsAtOnce(c) ==
  /\ cpc[c] = "stopWorking"
  /\ Return(c)
  /\ quiet' = TRUE
  /\ UNCHANGED <<m_state, m_work, tpc, ex, sigterm>>

\* while (m_state != Stopped) sleep
StopReturns(c) ==
  /\ cpc[c] = "stopWorking"
  /\ m_state = "Stopped"
  /\ Return(c)
  /\ quiet' = TRUE
  /\ UNCHANGED <<m_state, m_work, tpc, ex, sigterm>>

\* ~Worker(): run by the owner when no other call is in progress
Destroy(c) ==
  /\ Lock(c)
  /\ \A d \in Callers : cpc[d] = "idle"
  /\ \/ /\ m_work
        /\ m_state' = "Killing"
        /\ x_work' = c
        /\ cpc' = [cpc EXCEPT ![c] = "join"]
     \/ /\ ~m_work
        /\ cpc' = [d \in Callers |-> "destroyed"]
        /\ UNCHANGED <<m_state, x_work>>
  /\ UNCHANGED <<m_work, tpc, ex, sigterm, quiet>>

\* m_work->join() returns; m_work.reset()
DestroyReturns(c) ==
  /\ cpc[c] = "join"
  /\ tpc = "exited"
  /\ m_work' = FALSE
  /\ x_work' = NoCaller
  /\ cpc' = [d \in Callers |-> "destroyed"]
  /\ UNCHANGED <<m_state, tpc, ex, sigterm, quiet>>

(***************************************************************************)
(* The worker thread.                                                      *)
(***************************************************************************)
\* Mutant of ThreadWhile: Killing does not end the loop.
ThreadWhileForever ==
  /\ tpc = "while"
  /\ tpc' = "claim"
  /\ UNCHANGED <<m_state, m_work, x_work, cpc, ex, sigterm, quiet>>

\* while (m_state != Killing)
ThreadWhile ==
  /\ tpc = "while"
  /\ tpc' = IF m_state = "Killing" THEN "exited" ELSE "claim"
  /\ UNCHANGED <<m_state, m_work, x_work, cpc, ex, sigterm, quiet>>

\* compare_exchange_weak(Starting, Started), the result of which is ignored
ThreadClaim ==
  /\ tpc = "claim"
  /\ CompareExchangeWeak("Starting", "Started")
  /\ tpc' = "workLoop"
  /\ UNCHANGED <<m_work, x_work, cpc, ex, sigterm, quiet>>

\* workLoop() returns, because shouldStop() or on its own
WorkLoopReturns ==
  /\ tpc = "workLoop"
  /\ tpc' = "exchange"
  /\ UNCHANGED <<m_state, m_work, x_work, cpc, ex, sigterm, quiet>>

\* workLoop() throws a std::exception
WorkLoopThrows ==
  /\ tpc = "workLoop"
  /\ tpc' = "exchange"
  /\ sigterm' = (sigterm \/ ExitOnError)
  /\ UNCHANGED <<m_state, m_work, x_work, cpc, ex, quiet>>

\* Mutant of ThreadExchange: what was exchanged is not put back.
ThreadExchangeForgets ==
  /\ tpc = "exchange"
  /\ ex' = m_state
  /\ m_state' = "Stopped"
  /\ tpc' = "sleep"
  /\ UNCHANGED <<m_work, x_work, cpc, sigterm, quiet>>

\* ex = m_state.exchange(Stopped)
ThreadExchange ==
  /\ tpc = "exchange"
  /\ ex' = m_state
  /\ m_state' = "Stopped"
  /\ tpc' = IF m_state \in {"Killing", "Starting"} THEN "restore" ELSE "sleep"
  /\ UNCHANGED <<m_work, x_work, cpc, sigterm, quiet>>

\* m_state.exchange(ex)
ThreadRestore ==
  /\ tpc = "restore"
  /\ m_state' = ex
  /\ tpc' = "sleep"
  /\ UNCHANGED <<m_work, x_work, cpc, ex, sigterm, quiet>>

\* Mutant of ThreadSleepEnds: only Killing wakes the thread.
ThreadSleepsUntilKilled ==
  /\ tpc = "sleep"
  /\ m_state = "Killing"
  /\ tpc' = "while"
  /\ UNCHANGED <<m_state, m_work, x_work, cpc, ex, sigterm, quiet>>

\* while (m_state == Stopped) sleep
ThreadSleepEnds ==
  /\ tpc = "sleep"
  /\ m_state # "Stopped"
  /\ tpc' = "while"
  /\ UNCHANGED <<m_state, m_work, x_work, cpc, ex, sigterm, quiet>>

\* The object is gone: nothing is left to happen.
Gone ==
  /\ \A c \in Callers : cpc[c] = "destroyed"
  /\ UNCHANGED vars

CallerStep(c) ==
  \/ StartWorking(c) \/ StartReturns(c)
  \/ TriggerStopWorking(c)
  \/ StopWorking(c) \/ StopReturns(c)
  \/ Destroy(c) \/ DestroyReturns(c)

ThreadStep ==
  \/ ThreadWhile \/ ThreadClaim \/ WorkLoopReturns \/ WorkLoopThrows
  \/ ThreadExchange \/ ThreadRestore \/ ThreadSleepEnds

Next ==
  \/ \E c \in Callers : CallerStep(c)
  \/ ThreadStep
  \/ Gone

Spec == Init /\ [][Next]_vars

(***************************************************************************)
(* Fairness.  A runnable thread is scheduled: the worker thread outside    *)
(* workLoop, and a caller that spins or joins.  Inside workLoop it is only *)
(* assumed that every implementation leaves the loop once shouldStop()     *)
(* holds; while it does not hold the loop may run for ever.                *)
(***************************************************************************)
Fairness ==
  /\ WF_vars(ThreadWhile \/ ThreadClaim \/ ThreadExchange \/ ThreadRestore
             \/ ThreadSleepEnds)
  /\ WF_vars(shouldStop /\ (WorkLoopReturns \/ WorkLoopThrows))
  /\ \A c \in Callers : WF_vars(StartReturns(c) \/ StopReturns(c) \/ DestroyReturns(c))

FairSpec == Spec /\ Fairness

-----------------------------------------------------------------------------
\* Worker.h: stopWorking "waits till thread has stopped".  From its return
\* until the next startWorking the thread does not run workLoop(), whatever
\* the thread was doing when it was asked and whoever triggered a stop before.
StoppedMeansQuiet == quiet => tpc # "workLoop"

\* The thread's two exchanges do not lose the destructor's request: while
\* ~Worker waits in join(), Killing is in m_state or in the thread's hand.
KillNotLost ==
  \A c \in Callers : cpc[c] = "join" =>
     m_state = "Killing" \/ (tpc = "restore" /\ ex = "Killing") \/ tpc = "exited"

\* The destructor, called at any time, joins: no exchange, spin or sleep of
\* the thread keeps it waiting for ever.
DestroyCompletes ==
  \A c \in Callers : cpc[c] = "join" ~> cpc[c] = "destroyed"

\* stopWorking returns, also when the thread left workLoop() by itself, when a
\* stop was already triggered, and when the thread is just being restarted.
StopCompletes ==
  \A c \in Callers : cpc[c] = "stopWorking" ~> cpc[c] = "idle"

\* A start that found the worker stopped (or absent) makes it enter workLoop():
\* the request is not swallowed by the thread that is going to sleep.
StartRuns ==
  \A c \in Callers :
    (cpc[c] = "startWorking" /\ m_state = "Starting") ~> tpc = "workLoop"

\* Every method of Worker that waits for the thread gets what it waits for.
CallsReturn == DestroyCompletes /\ StopCompletes /\ StartRuns

=============================================================================
