-------------------------------- MODULE Farm --------------------------------
(***************************************************************************)
(* Farm (libethcore/Farm.cpp) handing work to its Miners (Miner.cpp), each *)
(* with the work loop of CUDAMiner::workLoop on a thread of its own.       *)
(*                                                                         *)
(* The Farm's operations run one after the other (x_minerWork), but        *)
(* Miner::setWork is two steps per miner, the test of paused() and the     *)
(* store, since a miner may pause itself in between; and a miner's thread  *)
(* runs between any two steps.  Miner::pause and resume do not take that   *)
(* lock: the API and collectData call them on the io_service thread, which *)
(* is also the one that hands out a pool's jobs.  The simulation client    *)
(* hands out its job on a thread of its own: with it (Simulation) a miner  *)
(* may be paused within setWork's walk.                                    *)
(* A job is its number, 0 the null header (half a header, read while       *)
(* Miner::pause clears it, is not modelled).                               *)
(* An epoch is a number, 0 an EpochContext that was never set, or a DAG    *)
(* that is not there or was built from two contexts.  The flag "memory"    *)
(* stands for the two pauses a miner gives itself when it cannot build a   *)
(* DAG, insufficient memory and an error of the device: they are set and   *)
(* cleared at the same places.  Jobs come only while there are miners:     *)
(* PoolManager starts them before the session's first job (SessionMines).  *)
(***************************************************************************)
EXTENDS Naturals, Sequences

CONSTANTS
  N,            \* number of miners
  JobEpoch,     \* the epoch of each job, in the order the pool sends them
  Reasons,      \* reasons to pause one miner: API request, overheating
  TooSmall,     \* <<miner, epoch>>: the device cannot build this epoch's DAG
  Simulation,   \* does setWork run on the thread of a SimulateClient?
  Modes,        \* DAG load modes to consider: subset of {"parallel", "sequential"}
  MaxStarts     \* bound: number of Farm::start() calls that create miners

Miners == 0..(N - 1)
Jobs == 1..Len(JobEpoch)
Epochs == {JobEpoch[j] : j \in Jobs}
Flags == Reasons \cup {"farm", "memory"}

ASSUME FarmAssumption ==
  /\ N \in Nat \ {0}
  /\ JobEpoch \in Seq(Nat \ {0})
  /\ {"farm", "memory"} \cap Reasons = {}
  /\ TooSmall \subseteq Miners \X Epochs
  /\ Simulation \in BOOLEAN
  /\ Modes \subseteq {"parallel", "sequential"}
  /\ MaxStarts \in Nat

VARIABLES
  dagMode,      \* s_dagLoadMode
  mining,       \* Farm::m_isMining
  farmPaused,   \* Farm::m_paused
  latest,       \* Farm::m_currentWp: number of the latest job
  io, ioM,      \* what the Farm is doing, and for which miner
  starts,       \* how often miners were created
  dagIndex,     \* s_dagLoadIndex
  flags,        \* m_pauseFlags of each miner
  work,         \* m_work of each miner
  ctx,          \* m_epochContext of each miner
  newWork,      \* m_new_work
  stopReq,      \* shouldStop()
  tpc,          \* where the miner's thread is
  w,            \* its local copy of the work
  oldEpoch,     \* its local old_epoch
  ctxIn,        \* the context with which it began to build the DAG
  dag           \* the epoch of the DAG on the device

farmVars == <<mining, farmPaused, latest, starts>>
ioVars == <<io, ioM>>
shared == <<flags, work, newWork>>
local == <<tpc, w, oldEpoch, ctxIn, dag>>
vars == <<dagMode, farmVars, ioVars, dagIndex, shared, ctx, stopReq, local>>

EpochOf(j) == IF j = 0 THEN 0 ELSE JobEpoch[j]

\* A chain that only grows; a pool of another chain, or a deep reorganisation, may
\* break it.
EpochsGoForward == \A i, j \in Jobs : i <= j => JobEpoch[i] <= JobEpoch[j]

\* Every variable ranges over its type.
TypeOK ==
  /\ dagMode \in Modes
  /\ mining \in BOOLEAN /\ farmPaused \in BOOLEAN
  /\ latest \in 0..Len(JobEpoch)
  /\ io \in {"idle", "check", "store", "stopping"} /\ ioM \in 0..N
  /\ starts \in 0..MaxStarts
  /\ dagIndex \in Miners
  /\ flags \in [Miners -> SUBSET Flags]
  /\ work \in [Miners -> Jobs \cup {0}] /\ w \in [Miners -> Jobs \cup {0}]
  /\ newWork \in [Miners -> BOOLEAN] /\ stopReq \in [Miners -> BOOLEAN]
  /\ tpc \in [Miners -> {"initDevice", "loop", "initEpoch", "building", "search", "done"}]
  /\ ctx \in [Miners -> Epochs \cup {0}] /\ ctxIn \in [Miners -> Epochs \cup {0}]
  /\ oldEpoch \in [Miners -> Epochs \cup {0}] /\ dag \in [Miners -> Epochs \cup {0}]

Each(v) == [m \in Miners |-> v]

Init ==
  /\ dagMode \in Modes
  /\ mining = FALSE /\ farmPaused = FALSE /\ latest = 0
  /\ io = "idle" /\ ioM = 0
  /\ starts = 0
  /\ dagIndex = 0
  /\ flags = Each({}) /\ work = Each(0) /\ newWork = Each(FALSE)
  /\ ctx = Each(0) /\ stopReq = Each(FALSE)
  /\ tpc = Each("done") /\ w = Each(0) /\ oldEpoch = Each(0)
  /\ ctxIn = Each(0) /\ dag = Each(0)

-----------------------------------------------------------------------------
\* The members of miners that were just created, or are gone.
NewMiners(pc) ==
  /\ flags' = Each({}) /\ work' = Each(0) /\ newWork' = Each(FALSE)
  /\ ctx' = Each(0) /\ stopReq' = Each(FALSE)
  /\ tpc' = Each(pc) /\ w' = Each(0) /\ oldEpoch' = Each(0)
  /\ ctxIn' = Each(0) /\ dag' = Each(0)

\* start(): new miners with no work, no flags and no epoch context
Start ==
  /\ io = "idle" /\ ~mining /\ starts < MaxStarts
  /\ mining' = TRUE
  /\ starts' = starts + 1
  /\ dagIndex' = 0
  /\ NewMiners("initDevice")
  /\ UNCHANGED <<dagMode, farmPaused, latest, ioVars>>

\* Mutant of Stop: the miners are only kicked.
StopOnlyKicks ==
  /\ io = "idle" /\ mining
  /\ newWork' = Each(TRUE)
  /\ io' = "stopping"
  /\ UNCHANGED <<dagMode, farmVars, ioM, dagIndex, flags, work, ctx, stopReq, local>>

\* stop(): every miner is asked to stop and kicked; then the destructors wait
Stop ==
  /\ io = "idle" /\ mining
  /\ stopReq' = Each(TRUE)
  /\ newWork' = Each(TRUE)
  /\ io' = "stopping"
  /\ UNCHANGED <<dagMode, farmVars, ioM, dagIndex, flags, work, ctx, local>>

\* ... and the miners are gone
StopDone ==
  /\ io = "stopping"
  /\ \A m \in Miners : tpc[m] = "done"
  /\ mining' = FALSE
  /\ io' = "idle"
  /\ NewMiners("done")
  /\ UNCHANGED <<dagMode, farmPaused, latest, starts, ioM, dagIndex>>

\* Mutant of SetWork: only the first epoch's context is handed out.
SetWorkKeepsContext ==
  /\ io = "idle" /\ mining
  /\ latest < Len(JobEpoch)
  /\ latest' = latest + 1
  /\ ctx' = IF latest = 0 THEN Each(EpochOf(1)) ELSE ctx
  /\ io' = "check" /\ ioM' = 0
  /\ UNCHANGED <<dagMode, mining, farmPaused, starts, dagIndex, shared, stopReq, local>>

\* setWork(): a new epoch's context goes to the miners first ...
SetWork ==
  /\ io = "idle" /\ mining
  /\ latest < Len(JobEpoch)
  /\ latest' = latest + 1
  /\ ctx' = IF EpochOf(latest) # EpochOf(latest + 1) THEN Each(EpochOf(latest + 1)) ELSE ctx
  /\ io' = "check" /\ ioM' = 0
  /\ UNCHANGED <<dagMode, mining, farmPaused, starts, dagIndex, shared, stopReq, local>>

NextMiner ==
  /\ ioM' = ioM + 1
  /\ io' = IF ioM + 1 = N THEN "idle" ELSE "check"

\* Mutant of Kick: the search is not interrupted.
KickForgotten(m) == UNCHANGED newWork

Kick(m) == newWork' = [newWork EXCEPT ![m] = TRUE]

\* Mutant of SetWorkPaused: a paused miner gets the job too.
SetWorkAlways ==
  /\ io = "check" /\ flags[ioM] # {}
  /\ work' = [work EXCEPT ![ioM] = latest]
  /\ Kick(ioM)
  /\ NextMiner
  /\ UNCHANGED <<dagMode, farmVars, dagIndex, flags, ctx, stopReq, local>>

\* ... then the job: Miner::setWork voids the work of a paused miner ...
SetWorkPaused ==
  /\ io = "check" /\ flags[ioM] # {}
  /\ work' = [work EXCEPT ![ioM] = 0]
  /\ Kick(ioM)
  /\ NextMiner
  /\ UNCHANGED <<dagMode, farmVars, dagIndex, flags, ctx, stopReq, local>>

SetWorkNotPaused ==
  /\ io = "check" /\ flags[ioM] = {}
  /\ io' = "store"
  /\ UNCHANGED <<dagMode, farmVars, ioM, dagIndex, shared, ctx, stopReq, local>>

\* ... and stores the job for one that was not paused.
SetWorkStore ==
  /\ io = "store"
  /\ work' = [work EXCEPT ![ioM] = latest]
  /\ Kick(ioM)
  /\ NextMiner
  /\ UNCHANGED <<dagMode, farmVars, dagIndex, flags, ctx, stopReq, local>>

Pause ==
  /\ io = "idle"
  /\ farmPaused' = TRUE
  /\ \/ /\ mining
        /\ flags' = [m \in Miners |-> flags[m] \cup {"farm"}]
        /\ work' = Each(0)
        /\ newWork' = Each(TRUE)
     \/ ~mining /\ UNCHANGED shared
  /\ UNCHANGED <<dagMode, mining, latest, starts, ioVars, dagIndex, ctx, stopReq, local>>

Resume ==
  /\ io = "idle" /\ farmPaused
  /\ farmPaused' = FALSE
  /\ flags' = [m \in Miners |-> flags[m] \ {"farm"}]
  /\ UNCHANGED <<dagMode, mining, latest, starts, ioVars, dagIndex, work, newWork, ctx, stopReq, local>>

\* The io_service thread is free to serve the API and to collect data: it is not
\* the one that hands out the work, or has nothing to hand out.
IoThreadFree == io = "idle" \/ (Simulation /\ io \in {"check", "store"})

\* Miner::pause by the API or by collectData when the device is too hot
PauseMiner(m, r) ==
  /\ IoThreadFree /\ mining
  /\ flags' = [flags EXCEPT ![m] = @ \cup {r}]
  /\ work' = [work EXCEPT ![m] = 0]
  /\ Kick(m)
  /\ UNCHANGED <<dagMode, farmVars, ioVars, dagIndex, ctx, stopReq, local>>

\* Miner::resume only clears the flag: the miner waits for the next job
ResumeMiner(m, r) ==
  /\ IoThreadFree /\ mining /\ r \in flags[m]
  /\ flags' = [flags EXCEPT ![m] = @ \ {r}]
  /\ UNCHANGED <<dagMode, farmVars, ioVars, dagIndex, work, newWork, ctx, stopReq, local>>

(***************************************************************************)
(* The thread of miner m: CUDAMiner::workLoop, Miner::initEpoch, search.   *)
(***************************************************************************)
\* initDevice() succeeds, or the work loop is over before it began.
InitDevice(m) ==
  /\ tpc[m] = "initDevice"
  /\ \E pc \in {"loop", "done"} : tpc' = [tpc EXCEPT ![m] = pc]
  /\ UNCHANGED <<dagMode, farmVars, ioVars, dagIndex, shared, ctx, stopReq, w, oldEpoch, ctxIn, dag>>

\* A call of the device fails: the error leaves the work loop, and the Worker
\* catches it.
DeviceFails(m) ==
  /\ tpc[m] = "search"
  /\ tpc' = [tpc EXCEPT ![m] = "done"]
  /\ w' = [w EXCEPT ![m] = 0]
  /\ UNCHANGED <<dagMode, farmVars, ioVars, dagIndex, shared, ctx, stopReq, oldEpoch, ctxIn, dag>>

\* work() and the test of the epoch; without work the thread waits
ReadWork(m) ==
  /\ tpc[m] = "loop"
  /\ \/ /\ stopReq[m]
        /\ tpc' = [tpc EXCEPT ![m] = "done"]
        /\ UNCHANGED w
     \/ /\ ~stopReq[m] /\ work[m] # 0
        /\ w' = [w EXCEPT ![m] = work[m]]
        /\ tpc' = [tpc EXCEPT ![m] =
                     IF EpochOf(work[m]) # oldEpoch[m] THEN "initEpoch" ELSE "search"]
  /\ UNCHANGED <<dagMode, farmVars, ioVars, dagIndex, shared, ctx, stopReq, oldEpoch, ctxIn, dag>>

\* The next iteration of the loop: w leaves its scope.
Iterate(m) ==
  /\ tpc' = [tpc EXCEPT ![m] = "loop"]
  /\ w' = [w EXCEPT ![m] = 0]
  /\ ctxIn' = [ctxIn EXCEPT ![m] = 0]

\* Sequential mode: wait for this miner's turn, and only then look at
\* shouldStop(); then lift the pause of an earlier failure and build.
InitEpochBegin(m) ==
  /\ tpc[m] = "initEpoch"
  /\ dagMode = "sequential" => dagIndex >= m
  /\ \/ /\ dagMode = "sequential" /\ stopReq[m]
        /\ tpc' = [tpc EXCEPT ![m] = "done"]
        /\ UNCHANGED <<flags, ctxIn, dag>>
     \/ /\ ~(dagMode = "sequential" /\ stopReq[m])
        /\ tpc' = [tpc EXCEPT ![m] = "building"]
        /\ flags' = [flags EXCEPT ![m] = @ \ {"memory"}]
        /\ ctxIn' = [ctxIn EXCEPT ![m] = ctx[m]]
        /\ dag' = [dag EXCEPT ![m] = 0]
  /\ UNCHANGED <<dagMode, farmVars, ioVars, dagIndex, work, newWork, ctx, stopReq, w, oldEpoch>>

\* while (s_dagLoadIndex < m_index) timed_wait: the thread looks again
InitEpochWaits(m) ==
  /\ tpc[m] = "initEpoch" /\ dagMode = "sequential" /\ dagIndex < m
  /\ UNCHANGED vars

\* The turn passes to the next miner, or back to the first.
DagTurn(m) ==
  dagIndex' = IF dagMode = "parallel" THEN dagIndex
              ELSE IF m + 1 = N THEN 0 ELSE m + 1

\* initEpoch() returns; the DAG is of the context the Farm had set, unless that
\* was changed meanwhile
InitEpochDone(m) ==
  /\ tpc[m] = "building" /\ <<m, ctxIn[m]>> \notin TooSmall
  /\ dag' = [dag EXCEPT ![m] = IF ctx[m] = ctxIn[m] THEN ctx[m] ELSE 0]
  /\ oldEpoch' = [oldEpoch EXCEPT ![m] = EpochOf(w[m])]
  /\ Iterate(m)
  /\ DagTurn(m)
  /\ UNCHANGED <<dagMode, farmVars, ioVars, shared, ctx, stopReq>>

\* Not enough memory, or an error of the device: the miner pauses itself
InitEpochNoMemory(m) ==
  /\ tpc[m] = "building" /\ <<m, ctxIn[m]>> \in TooSmall
  /\ flags' = [flags EXCEPT ![m] = @ \cup {"memory"}]
  /\ work' = [work EXCEPT ![m] = 0]
  /\ Kick(m)
  /\ oldEpoch' = [oldEpoch EXCEPT ![m] = EpochOf(w[m])]
  /\ Iterate(m)
  /\ DagTurn(m)
  /\ UNCHANGED <<dagMode, farmVars, ioVars, ctx, stopReq, dag>>

\* search() ends: new work, paused or shouldStop()
SearchEnds(m) ==
  /\ tpc[m] = "search"
  /\ newWork[m] \/ flags[m] # {} \/ stopReq[m]
  /\ newWork' = [newWork EXCEPT ![m] = FALSE]
  /\ Iterate(m)
  /\ UNCHANGED <<dagMode, farmVars, ioVars, dagIndex, flags, work, ctx, stopReq, oldEpoch, dag>>

\* The miners are gone and none will be started again.
Ended ==
  /\ ~mining /\ starts = MaxStarts
  /\ UNCHANGED vars

FarmStep ==
  \/ Start \/ Stop \/ StopDone
  \/ SetWork \/ SetWorkPaused \/ SetWorkNotPaused \/ SetWorkStore
  \/ Pause \/ Resume
  \/ \E m \in Miners, r \in Reasons : PauseMiner(m, r) \/ ResumeMiner(m, r)

MinerStep(m) ==
  \/ InitDevice(m) \/ ReadWork(m) \/ InitEpochBegin(m) \/ InitEpochWaits(m)
  \/ InitEpochDone(m) \/ InitEpochNoMemory(m)
  \/ SearchEnds(m)

Next ==
  \/ FarmStep
  \/ \E m \in Miners : MinerStep(m) \/ DeviceFails(m)
  \/ Ended

Spec == Init /\ [][Next]_vars

(***************************************************************************)
(* Fairness.  A miner's thread is scheduled, a batch of hashes and the     *)
(* building of a DAG end, and an operation of the Farm that has begun goes *)
(* on.  Nothing is assumed about when an operation is called.              *)
(***************************************************************************)
Fairness ==
  /\ \A m \in Miners : WF_vars(MinerStep(m))
  /\ WF_vars(StopDone \/ SetWorkPaused \/ SetWorkNotPaused \/ SetWorkStore)

FairSpec == Spec /\ Fairness

-----------------------------------------------------------------------------
\* "Void work if this miner is paused" (Miner::setWork) for the pauses that other
\* threads make: whatever the order of pauses, jobs and resumes, a miner that the
\* farm, the API or the temperature control holds has no work to go on with.  (With
\* Simulation it is false: the pause may fall between setWork's test and its store.)
HeldMinerHasNoWork ==
  \A m \in Miners : flags[m] \ {"memory"} # {} => work[m] = 0

\* A miner that has room for the DAG and got an epoch context searches a job
\* only on the DAG of the job's epoch, but for the moments in which a new job
\* is on its way or the kick for it was not noticed yet.
SearchUsesEpochDag ==
  \A m \in Miners :
    tpc[m] = "search" /\ ctx[m] # 0 /\ "memory" \notin flags[m]
      => dag[m] = EpochOf(w[m]) \/ newWork[m] \/ io \in {"check", "store"}

\* A job stored for a miner is searched, or another or none takes its place:
\* the kick is noticed wherever the thread is, also when it comes twice, before
\* the search begins or while the DAG is built; or the miner's work loop is over.
JobsAreSearched ==
  \A m \in Miners, j \in Jobs :
    work[m] = j /\ dagMode = "parallel"
      ~> (tpc[m] = "search" /\ w[m] = j) \/ work[m] # j \/ io = "stopping" \/ tpc[m] = "done"

\* stop() returns when DAGs are loaded in parallel.
StopCompletes == io = "stopping" /\ dagMode = "parallel" ~> io = "idle"

\* Farm::stop: "Stop all mining activities" in every load mode.
StopReturns == io = "stopping" ~> io = "idle"

=============================================================================
