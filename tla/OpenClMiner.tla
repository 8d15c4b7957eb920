----------------------------- MODULE OpenClMiner -----------------------------
(***************************************************************************)
(* CLMiner: the work loop with one kernel on the device at a time.  An     *)
(* iteration reads what the last kernel found, looks at the work, brings   *)
(* period, epoch and arguments up to date and starts the next kernel; what *)
(* was found is reported, for the job that kernel had, while the next one  *)
(* runs.  The next period's kernel is compiled by a thread of its own.     *)
(*                                                                         *)
(* kick_miner() sets the kernel's abort flag: an aborted kernel ends early *)
(* and finds nothing, which KernelEnds allows at any time, so the flag and *)
(* m_kickEnabled are not variables.                                        *)
(***************************************************************************)
EXTENDS DeviceMiner

CONSTANT GlobalWorkSize   \* m_settings.globalWorkSize

ClConstants == DeviceConstants /\ GlobalWorkSize \in Nat \ {0}

VARIABLES
  pc,          \* where the miner's thread is
  next,        \* the work package just read
  current,     \* the work package of the last kernel: job and startNonce
  oldEpoch, oldPeriod,
  start,       \* startNonce, relative to the job's first nonce
  nextPeriod,  \* m_nextProgpowPeriod
  compiler,    \* the compile thread
  nextKernel,  \* m_nextSearchKernel: the period and the epoch it was compiled for
  searchKernel, \* m_searchKernel
  failed,      \* history: a kernel could not be built
  dag,         \* epoch of the DAG buffer
  device,      \* the kernel on the device
  buffer,      \* m_searchBuffer: gid, and where it was really found
  results,     \* what the host has read of it
  share        \* the share just submitted, with what the device found

clLocal == <<pc, next, current, oldEpoch, oldPeriod, start, results>>
compile == <<nextPeriod, compiler, nextKernel, searchKernel, failed>>
clVars == <<shared, clLocal, compile, dag, device, buffer, share>>

Nothing == [gid |-> -1, job |-> 0, nonce |-> 0]
NoKernel == [period |-> -1, epoch |-> 0]
IdleDevice == [busy |-> FALSE, job |-> 0, first |-> 0, kernel |-> NoKernel, dag |-> 0]
NoShare == [job |-> 0, nonce |-> 0, foundJob |-> 0, foundNonce |-> 0]

Init ==
  /\ SharedInit
  /\ pc = "init" /\ next = 0 /\ current = [job |-> 0, start |-> 0]
  /\ oldEpoch = 0 /\ oldPeriod = -1 /\ start = 0
  /\ nextPeriod = 0 /\ compiler = "none"
  /\ nextKernel = NoKernel /\ searchKernel = NoKernel /\ failed = FALSE
  /\ dag = 0
  /\ device = IdleDevice /\ buffer = Nothing /\ results = Nothing
  /\ share = NoShare

-----------------------------------------------------------------------------
\* The operations of other threads.
Called ==
  /\ SetWork \/ Pause \/ Stop \/ Resume
  /\ share' = NoShare
  /\ UNCHANGED <<clLocal, compile, dag, device, buffer>>

\* initDevice(): no platform or no device, and the thread returns.
InitDevice ==
  /\ pc = "init"
  /\ pc' \in {"read", "done"}
  /\ UNCHANGED <<shared, next, current, oldEpoch, oldPeriod, start, results, compile, dag,
                 device, buffer, share>>

\* Mutant of ReadResults: the count is not cleared.
ReadResultsKeeps ==
  /\ pc = "read" /\ ~device.busy
  /\ results' = buffer
  /\ pc' = IF stopReq THEN "done" ELSE "work"
  /\ share' = NoShare
  /\ UNCHANGED <<shared, next, current, oldEpoch, oldPeriod, start, compile, dag, device, buffer>>

\* The blocking read waits for the kernel; then the buffer is cleared.
ReadResults ==
  /\ pc = "read" /\ ~device.busy
  /\ results' = buffer
  /\ buffer' = Nothing
  /\ pc' = IF stopReq THEN "done" ELSE "work"
  /\ share' = NoShare
  /\ UNCHANGED <<shared, next, current, oldEpoch, oldPeriod, start, compile, dag, device>>

\* No work: wait at most 3 seconds and try again (and forget the results).
NoWork ==
  /\ pc = "work" /\ work = 0
  /\ pc' = "read"
  /\ UNCHANGED <<shared, next, current, oldEpoch, oldPeriod, start, results, compile, dag,
                 device, buffer, share>>

\* A new header may mean a new period, then a new epoch, then new arguments.
NewHeader ==
  /\ pc = "work" /\ work \notin {0, current.job}
  /\ next' = work
  /\ IF nextPeriod = 0
     THEN nextPeriod' = PeriodOf(work) /\ compiler' = "started"
     ELSE UNCHANGED <<nextPeriod, compiler>>
  /\ \/ /\ oldPeriod # PeriodOf(work)
        /\ pc' = "join" /\ UNCHANGED start
     \/ /\ oldPeriod = PeriodOf(work) /\ oldEpoch # EpochOf(work)
        /\ pc' = "initEpoch" /\ UNCHANGED start
     \/ /\ oldPeriod = PeriodOf(work) /\ oldEpoch = EpochOf(work)
        /\ pc' = "launch" /\ start' = 0
  /\ UNCHANGED <<shared, current, oldEpoch, oldPeriod, results, nextKernel, searchKernel, failed,
                 dag, device, buffer, share>>

SameHeader ==
  /\ pc = "work" /\ work = current.job /\ work # 0
  /\ next' = work
  /\ pc' = "launch"
  /\ UNCHANGED <<shared, current, oldEpoch, oldPeriod, start, results, compile, dag,
                 device, buffer, share>>

\* The kernel that was compiled ahead is taken and the next one begun.
TakeKernel(period) ==
  /\ searchKernel' = nextKernel
  /\ oldPeriod' = period
  /\ nextPeriod' = period + 1
  /\ compiler' = "started"
  /\ pc' = "read"

\* Mutant of JoinCompiler: no "sanity check the next kernel".
JoinCompilerTrusts ==
  /\ pc = "join" /\ compiler = "ended"
  /\ TakeKernel(PeriodOf(next))
  /\ UNCHANGED <<shared, next, current, oldEpoch, start, results, nextKernel, failed, dag,
                 device, buffer, share>>

\* join() and the sanity check: a kernel of another period is compiled anew
JoinCompiler ==
  /\ pc = "join" /\ compiler = "ended"
  /\ \/ /\ PeriodOf(next) = nextPeriod
        /\ TakeKernel(PeriodOf(next))
     \/ /\ PeriodOf(next) # nextPeriod
        /\ nextPeriod' = PeriodOf(next) /\ compiler' = "started"
        /\ pc' = "rejoin"
        /\ UNCHANGED <<searchKernel, oldPeriod>>
  /\ UNCHANGED <<shared, next, current, oldEpoch, start, results, nextKernel, failed, dag,
                 device, buffer, share>>

RejoinCompiler ==
  /\ pc = "rejoin" /\ compiler = "ended"
  /\ TakeKernel(PeriodOf(next))
  /\ UNCHANGED <<shared, next, current, oldEpoch, start, results, nextKernel, failed, dag,
                 device, buffer, share>>

\* asyncCompile(): a kernel for the period, with the number of DAG elements of the
\* context at that time; on a build error the miner is paused and the kernel stays.
AsyncCompile ==
  /\ compiler = "started"
  /\ compiler' = "ended"
  /\ \/ /\ nextKernel' = [period |-> nextPeriod, epoch |-> ctx]
        /\ UNCHANGED <<flags, work, failed>>
     \/ /\ ~failed
        /\ SetPause("error")
        /\ failed' = TRUE
        /\ UNCHANGED nextKernel
  /\ UNCHANGED <<latest, ctx, stopReq, clLocal, nextPeriod, searchKernel, dag, device, buffer, share>>

\* Any other error of the OpenCL library leaves the compile thread as an exception
\* that nothing catches: the program ends.
AsyncCompileThrows ==
  /\ compiler = "started" /\ pc # "done"
  /\ compiler' = "none" /\ pc' = "done"
  /\ UNCHANGED <<shared, next, current, oldEpoch, oldPeriod, start, results, nextPeriod,
                 nextKernel, searchKernel, failed, dag, device, buffer, share>>

\* A call of the device fails: the error leaves the work loop.
WorkLoopThrows ==
  /\ pc \in {"read", "launch"}
  /\ pc' = "done"
  /\ UNCHANGED <<shared, next, current, oldEpoch, oldPeriod, start, results, compile, dag,
                 device, buffer, share>>

\* initEpoch_internal(): too little memory or a buffer that cannot be created
\* pauses the miner; a later error pauses it and ends the thread.
InitEpoch ==
  /\ pc = "initEpoch"
  /\ \/ /\ ctx \notin TooLarge
        /\ flags' = flags \ {"memory", "error"}
        /\ dag' = ctx /\ pc' = "read" /\ oldEpoch' = EpochOf(next)
        /\ UNCHANGED work
     \/ /\ ctx \in TooLarge
        /\ flags' = (flags \ {"error"}) \cup {"memory"} /\ work' = 0
        /\ pc' = "read" /\ oldEpoch' = EpochOf(next)
        /\ UNCHANGED dag
     \/ /\ ctx \notin TooLarge
        /\ flags' = (flags \ {"memory"}) \cup {"error"} /\ work' = 0
        /\ dag' = 0
        /\ \/ pc' = "read" /\ oldEpoch' = EpochOf(next)
           \/ pc' = "done" /\ UNCHANGED oldEpoch
  /\ UNCHANGED <<latest, ctx, stopReq, next, current, oldPeriod, start, results, compile, device,
                 buffer, share>>

\* Mutant of Launch: the results are reported for the new work.
LaunchReportsNext ==
  /\ pc = "launch"
  /\ device' = [busy |-> TRUE, job |-> next, first |-> start, kernel |-> searchKernel, dag |-> dag]
  /\ share' = IF results.gid = -1 THEN NoShare
              ELSE [job |-> next, nonce |-> (start + results.gid) % NonceSpace,
                    foundJob |-> results.job, foundNonce |-> results.nonce]
  /\ current' = [job |-> next, start |-> start]
  /\ start' = (start + GlobalWorkSize) % NonceSpace
  /\ pc' = "read"
  /\ UNCHANGED <<shared, next, oldEpoch, oldPeriod, results, compile, dag, buffer>>

\* The next kernel is started, then the last one's results are reported.
Launch ==
  /\ pc = "launch"
  /\ device' = [busy |-> TRUE, job |-> next, first |-> start, kernel |-> searchKernel, dag |-> dag]
  /\ share' = IF results.gid = -1 THEN NoShare
              ELSE [job |-> current.job, nonce |-> (current.start + results.gid) % NonceSpace,
                    foundJob |-> results.job, foundNonce |-> results.nonce]
  /\ current' = [job |-> next, start |-> start]
  /\ start' = (start + GlobalWorkSize) % NonceSpace
  /\ pc' = "read"
  /\ UNCHANGED <<shared, next, oldEpoch, oldPeriod, results, compile, dag, buffer>>

\* The kernel ends and has left a result in the buffer, or none.
KernelEnds ==
  /\ device.busy
  /\ device' = IdleDevice
  /\ \E gid \in -1..(GlobalWorkSize - 1) :
       buffer' = IF gid = -1 THEN buffer
                 ELSE [gid |-> gid, job |-> device.job,
                       nonce |-> (device.first + gid) % NonceSpace]
  /\ share' = NoShare
  /\ UNCHANGED <<shared, clLocal, compile, dag>>

MinerStep ==
  \/ InitDevice \/ ReadResults \/ NoWork \/ NewHeader \/ SameHeader
  \/ JoinCompiler \/ RejoinCompiler \/ InitEpoch \/ Launch

Next ==
  \/ Called \/ MinerStep \/ WorkLoopThrows
  \/ AsyncCompile \/ AsyncCompileThrows \/ KernelEnds

\* job j is on the device
Launched(j) == device.job = j

(***************************************************************************)
(* Fairness: the threads are scheduled and a kernel ends.                  *)
(***************************************************************************)
Fairness == WF_clVars(MinerStep) /\ WF_clVars(AsyncCompile) /\ WF_clVars(KernelEnds)

Spec == Init /\ [][Next]_clVars /\ Fairness

-----------------------------------------------------------------------------
\* A share that is reported while the next kernel runs is one that the last
\* kernel found, with its job and nonce, whatever came between the two:
\* new work, a pause, a new period or a new epoch.
SharesAreFound ==
  share.job = share.foundJob /\ share.nonce = share.foundNonce

\* Unless a build failed, the kernel on the device was generated for the period
\* of its job, also when periods are skipped or go back.
KernelOfPeriod == device.busy /\ ~failed => device.kernel.period = PeriodOf(device.job)

\* A kernel of the job in force was compiled for the DAG of the job's epoch.  False.
KernelOfEpoch ==
  device.busy /\ ~failed /\ EpochOf(device.job) = EpochOf(latest)
    => device.kernel.epoch = EpochOf(device.job)

\* The DAG that a kernel reads is of the epoch of its job, or the job is not the
\* latest any more.
DagOfEpoch ==
  device.busy => device.dag = EpochOf(device.job) \/ EpochOf(latest) # EpochOf(device.job)
=============================================================================
