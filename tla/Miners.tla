------------------------------- MODULE Miners -------------------------------
(***************************************************************************)
(* The three device miners side by side.  The Farm creates each miner with *)
(* one of the three drivers (Farm::start): a behaviour is one of a CUDA,   *)
(* an OpenCL or a CPU miner, and the variables of the others keep their    *)
(* first value.                                                            *)
(***************************************************************************)
EXTENDS Integers, Sequences

CONSTANTS
  JobBlock, JobEpoch, PROGPOW_PERIOD, TooLarge, NonceSpace,   \* see DeviceMiner
  Streams, BatchSize, GlobalWorkSize, BlockSize               \* see the drivers

VARIABLES
  kind,
  latest, work, ctx, flags, stopReq,
  newWork, pc, w, oldEpoch, oldPeriod, nextPeriod, compiler, kernel, compIx, execIx,
  recovered, allocated, start, cur, done, stream, share,
  next, current, nextKernel, searchKernel, failed, dag, device, buffer, results,
  last, found

Cuda == INSTANCE CudaMiner
OpenCl == INSTANCE OpenClMiner
Cpu == INSTANCE CpuMiner

ASSUME MinersAssumption == Cuda!CudaConstants /\ OpenCl!ClConstants

notCuda == <<next, current, nextKernel, searchKernel, failed, dag, device, buffer, results, last, found>>
notOpenCl == <<newWork, w, kernel, compIx, execIx, recovered, allocated, cur, done, stream, last, found>>
notCpu == <<oldEpoch, oldPeriod, nextPeriod, compiler, kernel, compIx, execIx, recovered,
            allocated, cur, done, stream, share,
            next, current, nextKernel, searchKernel, failed, dag, device, buffer, results>>
vars == <<kind, Cuda!cudaVars, notCuda>>

Init == kind \in {"cuda", "cl", "cpu"} /\ Cuda!Init /\ OpenCl!Init /\ Cpu!Init

Next ==
  \/ kind = "cuda" /\ Cuda!Next /\ UNCHANGED <<kind, notCuda>>
  \/ kind = "cl" /\ OpenCl!Next /\ UNCHANGED <<kind, notOpenCl>>
  \/ kind = "cpu" /\ Cpu!Next /\ UNCHANGED <<kind, notCpu>>

\* The fairness of the three modules, each for its own kind.
MinerStep ==
  \/ kind = "cuda" /\ Cuda!MinerStep /\ UNCHANGED <<kind, notCuda>>
  \/ kind = "cl" /\ OpenCl!MinerStep /\ UNCHANGED <<kind, notOpenCl>>
  \/ kind = "cpu" /\ Cpu!MinerStep /\ UNCHANGED <<kind, notCpu>>
AsyncCompile ==
  \/ kind = "cuda" /\ Cuda!AsyncCompile /\ UNCHANGED <<kind, notCuda>>
  \/ kind = "cl" /\ OpenCl!AsyncCompile /\ UNCHANGED <<kind, notOpenCl>>
KernelEnds == kind = "cl" /\ OpenCl!KernelEnds /\ UNCHANGED <<kind, notOpenCl>>
BatchEnds(i) == kind = "cuda" /\ Cuda!BatchEnds(i) /\ UNCHANGED <<kind, notCuda>>

Spec ==
  /\ Init /\ [][Next]_vars
  /\ WF_vars(MinerStep) /\ WF_vars(AsyncCompile)
  /\ WF_vars(KernelEnds) /\ \A i \in Cuda!StreamIds : WF_vars(BatchEnds(i))

-----------------------------------------------------------------------------
\* CUDAMiner::search and CLMiner::workLoop submit only what the device found.
SharesAreFound ==
  /\ kind = "cuda" => Cuda!SharesAreFound
  /\ kind = "cl" => OpenCl!SharesAreFound

\* CUDAMiner::search leaves no batch running and no result behind.
NothingLeftRunning == kind = "cuda" => Cuda!NothingLeftRunning

\* The kernel on the device is of the job's ProgPoW period (CUDA: until a period is
\* skipped; OpenCL: also then, unless a build failed), and the DAG that CLMiner
\* searches is of the job's epoch.
KernelOfPeriod ==
  /\ kind = "cuda" => Cuda!KernelOfPeriod
  /\ kind = "cl" => OpenCl!KernelOfPeriod /\ OpenCl!DagOfEpoch

\* CUDAMiner::workLoop, "sanity check the next kernel ... Try to recover": the kernel
\* on the device is of the job's period also after a period was skipped.  False:
\* the kernel compiled again is in the slot that is not used.
KernelIsRecovered == kind = "cuda" => Cuda!KernelIsRecovered

\* Miner::initEpoch "Initializes miner to current (or changed) epoch": the kernel of
\* the job in force is compiled for the number of DAG elements of its epoch.
\* False for the first job of an epoch, whose kernel was compiled ahead.
KernelOfEpoch ==
  /\ kind = "cuda" => Cuda!KernelOfEpoch
  /\ kind = "cl" => OpenCl!KernelOfEpoch

Launched(j) ==
  \/ kind = "cuda" /\ Cuda!Launched(j)
  \/ kind = "cl" /\ OpenCl!Launched(j)
  \/ kind = "cpu" /\ Cpu!Launched(j)

\* With each of the three drivers a job handed to the miner is started on the
\* device or replaced by another or by none, unless the miner stops or fails:
\* the kick is noticed wherever the thread is.
JobsAreLaunched ==
  \A j \in 1..Len(JobBlock) :
    work = j ~> Launched(j) \/ work # j \/ stopReq \/ pc = "done"
=============================================================================
