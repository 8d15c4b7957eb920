------------------------------ MODULE CpuMiner ------------------------------
(***************************************************************************)
(* CPUMiner: the work loop and search(), which hashes blocks of nonces in  *)
(* the miner's own thread and looks at m_new_work and shouldStop() between *)
(* two blocks.  ethash::search returns the first solution of a block only. *)
(***************************************************************************)
EXTENDS DeviceMiner

CONSTANT BlockSize   \* blocksize

VARIABLES
  newWork,   \* m_new_work
  pc,        \* where the miner's thread is
  w,         \* the job searched
  last,      \* current: the job read before
  start,     \* nonce, relative to the job's first nonce
  found      \* the job of the solution just submitted, if any

cpuVars == <<shared, newWork, pc, w, last, start, found>>

Init ==
  /\ SharedInit
  /\ newWork = FALSE
  /\ pc = "init" /\ w = 0 /\ last = 0
  /\ start = 0 /\ found = 0

-----------------------------------------------------------------------------
\* Mutant of Kicked: kick_miner() only wakes a waiting thread.
KickedOnlyWakes ==
  /\ SetWork \/ Pause \/ Stop
  /\ UNCHANGED <<newWork, pc, w, last, start, found>>

\* The operations of other threads, each followed by kick_miner().
Kicked ==
  /\ SetWork \/ Pause \/ Stop
  /\ newWork' = TRUE
  /\ UNCHANGED <<pc, w, last, start, found>>

Resumed ==
  /\ Resume
  /\ UNCHANGED <<newWork, pc, w, last, start, found>>

\* initDevice() binds the thread to its processor, and only warns if it cannot.
InitDevice ==
  /\ pc = "init"
  /\ pc' = "loop"
  /\ UNCHANGED <<shared, newWork, w, last, start, found>>

\* A job of another epoch is read a second time, since initEpoch() takes a while.
ReadWork ==
  /\ pc = "loop" /\ ~stopReq /\ work # 0
  /\ last' = work
  /\ \/ /\ EpochOf(last) # EpochOf(work)
        /\ UNCHANGED <<pc, w>>
     \/ /\ EpochOf(last) = EpochOf(work)
        /\ w' = work /\ pc' = "search"
  /\ start' = 0
  /\ UNCHANGED <<shared, newWork, found>>

LoopEnds ==
  /\ pc = "loop" /\ stopReq
  /\ pc' = "done"
  /\ UNCHANGED <<shared, newWork, w, last, start, found>>

\* search() returns for new work, which it then takes note of, or for a stop.
SearchEnds ==
  /\ pc = "search" /\ (newWork \/ stopReq)
  /\ newWork' = FALSE
  /\ pc' = "loop" /\ w' = 0
  /\ UNCHANGED <<shared, last, start, found>>

\* A block of nonces, with a solution or not.
SearchBlock ==
  /\ pc = "search" /\ ~newWork /\ ~stopReq
  /\ found' \in {0, w}
  /\ start' = (start + BlockSize) % NonceSpace
  /\ UNCHANGED <<shared, newWork, pc, w, last>>

MinerStep == InitDevice \/ ReadWork \/ LoopEnds \/ SearchEnds \/ SearchBlock

Next == Kicked \/ Resumed \/ MinerStep

\* job j is searched
Launched(j) == pc = "search" /\ w = j

(***************************************************************************)
(* Fairness: the miner's thread is scheduled.                              *)
(***************************************************************************)
Fairness == WF_cpuVars(MinerStep)

Spec == Init /\ [][Next]_cpuVars /\ Fairness
=============================================================================
