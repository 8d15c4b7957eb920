----------------------------- MODULE DeviceMiner -----------------------------
(***************************************************************************)
(* What the three device miners (CUDAMiner, CLMiner, CPUMiner) share with  *)
(* the Farm: the work package, the epoch context, the pause flags and the  *)
(* request to stop.  The Farm and the API call the operations below on     *)
(* other threads; how the calls of several miners interleave is the        *)
(* subject of module Farm, here each is one step.                          *)
(*                                                                         *)
(* A job is its number in the order the pool sends them, 0 the null        *)
(* header; an epoch is a number, 0 a context that was never set.           *)
(***************************************************************************)
EXTENDS Integers, Sequences

CONSTANTS
  JobBlock, JobEpoch,  \* block number and epoch of each job
  PROGPOW_PERIOD,      \* blocks that share one generated kernel
  TooLarge,            \* epochs whose DAG does not fit the device
  NonceSpace           \* nonces are counted modulo this (2^64 in the code)

\* What the nonces, the periods and the jobs of the pool may be.
DeviceConstants ==
  /\ NonceSpace \in Nat \ {0} /\ PROGPOW_PERIOD \in Nat \ {0}
  /\ JobBlock \in Seq(Nat) /\ JobEpoch \in Seq(Nat) /\ Len(JobEpoch) = Len(JobBlock)

VARIABLES
  latest,    \* number of the latest job the Farm was given
  work,      \* Miner::m_work
  ctx,       \* Miner::m_epochContext
  flags,     \* Miner::m_pauseFlags
  stopReq    \* Worker::shouldStop()

shared == <<latest, work, ctx, flags, stopReq>>

Jobs == 1..Len(JobBlock)
EpochOf(j) == IF j = 0 THEN 0 ELSE JobEpoch[j]
PeriodOf(j) == JobBlock[j] \div PROGPOW_PERIOD

\* A chain that only grows; a pool of another chain, or a deep reorganisation, may
\* break it.
EpochsGoForward == \A i, j \in Jobs : i <= j => JobEpoch[i] <= JobEpoch[j]

SharedInit ==
  /\ latest = 0 /\ work = 0 /\ ctx = 0
  /\ flags = {} /\ stopReq = FALSE

\* Farm::setWork: a new epoch's context first, then the job, void if paused
SetWork ==
  /\ latest < Len(JobBlock) /\ ~stopReq
  /\ latest' = latest + 1
  /\ ctx' = IF EpochOf(latest) # EpochOf(latest + 1) THEN EpochOf(latest + 1) ELSE ctx
  /\ work' = IF flags = {} THEN latest + 1 ELSE 0
  /\ UNCHANGED <<flags, stopReq>>

\* pause() sets the flag and voids the work ...
SetPause(why) ==
  /\ flags' = flags \cup {why}
  /\ work' = 0

\* ... called by the API, Farm::pause or collectData ...
Pause ==
  /\ "other" \notin flags /\ ~stopReq
  /\ SetPause("other")
  /\ UNCHANGED <<latest, ctx, stopReq>>

\* ... and resume(), which brings no work back.
Resume ==
  /\ "other" \in flags
  /\ flags' = flags \ {"other"}
  /\ UNCHANGED <<latest, work, ctx, stopReq>>

\* triggerStopWorking()
Stop ==
  /\ ~stopReq
  /\ stopReq' = TRUE
  /\ UNCHANGED <<latest, work, ctx, flags>>
=============================================================================
