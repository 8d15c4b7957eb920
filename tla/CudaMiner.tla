------------------------------ MODULE CudaMiner ------------------------------
(***************************************************************************)
(* CUDAMiner: the work loop, the thread that compiles the next period's    *)
(* ProgPoW kernel into one of two slots while the other slot is executed,  *)
(* and search(), which keeps a batch of nonces running on every stream,    *)
(* reads what a finished batch found and starts the stream again.          *)
(*                                                                         *)
(* A launched batch remembers the job, the first nonce and the kernel it   *)
(* was launched with: what it finds is a solution of that job at that      *)
(* place, whatever the host makes of it.  A batch finds at most one nonce  *)
(* ("It is virtually impossible to get more than one solution per stream   *)
(* hash calculation"), so the cap MAX_SEARCH_RESULTS is never met.         *)
(***************************************************************************)
EXTENDS DeviceMiner

CONSTANTS
  Streams,     \* m_settings.streams
  BatchSize    \* m_batch_size

\* What --cu-streams and the batch size may be.
CudaConstants == DeviceConstants /\ Streams \in Nat \ {0} /\ BatchSize \in Nat \ {0}

VARIABLES
  newWork,     \* m_new_work
  pc,          \* where the miner's thread is
  w,           \* the local copy of the work
  oldEpoch, oldPeriod,
  nextPeriod,  \* m_nextProgpowPeriod
  compiler,    \* the compile thread
  kernel,      \* m_kernel: period and epoch each slot was compiled for
  compIx, execIx,
  recovered,   \* history: the "Try to recover" branch was taken
  allocated,   \* m_allocated_memory_dag: epoch the buffers were allocated for
  start,       \* start_nonce, relative to the job's first nonce
  cur,         \* current_index
  done,        \* done
  stream,      \* what each stream runs, and its result buffer
  share        \* the share just submitted, with what the device found

local == <<newWork, pc, w, oldEpoch, oldPeriod>>
compile == <<nextPeriod, compiler, kernel, compIx, execIx, recovered>>
searching == <<start, cur, done, stream>>
cudaVars == <<shared, local, compile, allocated, searching, share>>

StreamIds == 0..(Streams - 1)
Empty == [period |-> -1, epoch |-> 0]
NoShare == [job |-> 0, nonce |-> 0, foundJob |-> 0, foundNonce |-> 0]
IdleStream == [busy |-> FALSE, job |-> 0, first |-> 0, kernel |-> Empty, gid |-> -1]

Init ==
  /\ SharedInit
  /\ newWork = FALSE
  /\ pc = "init" /\ w = 0 /\ oldEpoch = 0 /\ oldPeriod = -1
  /\ nextPeriod = 0 /\ compiler = "none"
  /\ kernel = [i \in 0..1 |-> Empty] /\ compIx = 0 /\ execIx = 1
  /\ recovered = FALSE
  /\ allocated = 0
  /\ start = 0 /\ cur = 0 /\ done = FALSE
  /\ stream = [i \in StreamIds |-> IdleStream]
  /\ share = NoShare

-----------------------------------------------------------------------------
\* The operations of other threads, each followed by kick_miner().
Kicked ==
  /\ SetWork \/ Pause \/ Stop
  /\ newWork' = TRUE
  /\ share' = NoShare
  /\ UNCHANGED <<pc, w, oldEpoch, oldPeriod, compile, allocated, searching>>

Resumed ==
  /\ Resume
  /\ share' = NoShare
  /\ UNCHANGED <<local, compile, allocated, searching>>

(***************************************************************************)
(* The work loop.                                                          *)
(***************************************************************************)
\* initDevice(): a device that cannot be set ends the thread.
InitDevice ==
  /\ pc = "init"
  /\ pc' \in {"loop", "done"}
  /\ UNCHANGED <<shared, newWork, w, oldEpoch, oldPeriod, compile, allocated, searching, share>>

\* Without work the thread waits; a new epoch comes before a new period.
\* The first job starts the compile thread.
ReadWork ==
  /\ pc = "loop" /\ ~stopReq /\ work # 0
  /\ w' = work
  /\ \/ /\ EpochOf(work) # oldEpoch
        /\ pc' = "initEpoch"
        /\ UNCHANGED <<nextPeriod, compiler>>
     \/ /\ EpochOf(work) = oldEpoch
        /\ pc' = IF PeriodOf(work) # oldPeriod THEN "join" ELSE "prime"
        /\ IF nextPeriod = 0
           THEN nextPeriod' = PeriodOf(work) /\ compiler' = "started"
           ELSE UNCHANGED <<nextPeriod, compiler>>
  /\ share' = NoShare
  /\ UNCHANGED <<shared, newWork, oldEpoch, oldPeriod, kernel, compIx, execIx,
                 recovered, allocated, searching>>

LoopEnds ==
  /\ pc = "loop" /\ stopReq
  /\ pc' = "done"
  /\ UNCHANGED <<shared, newWork, w, oldEpoch, oldPeriod, compile, allocated, searching, share>>

\* initEpoch_internal(): larger buffers only when the old ones are too small;
\* without room for them the miner pauses itself.
InitEpoch ==
  /\ pc = "initEpoch"
  /\ \/ /\ ctx \in TooLarge /\ allocated < ctx
        /\ flags' = (flags \ {"memory", "error"}) \cup {"memory"}
        /\ work' = 0 /\ newWork' = TRUE
        /\ UNCHANGED allocated
     \/ /\ ctx \notin TooLarge \/ allocated >= ctx
        /\ flags' = flags \ {"memory", "error"}
        /\ allocated' = IF allocated < ctx THEN ctx ELSE allocated
        /\ UNCHANGED <<work, newWork>>
  /\ oldEpoch' = EpochOf(w)
  /\ pc' = "loop" /\ w' = 0
  /\ UNCHANGED <<latest, ctx, stopReq, oldPeriod, compile, searching, share>>

\* A call of the device fails: the miner pauses itself.
InitEpochError ==
  /\ pc = "initEpoch" /\ "error" \notin flags
  /\ flags' = (flags \ {"memory"}) \cup {"error"}
  /\ work' = 0 /\ newWork' = TRUE
  /\ oldEpoch' = EpochOf(w)
  /\ pc' = "loop" /\ w' = 0
  /\ UNCHANGED <<latest, ctx, stopReq, oldPeriod, compile, allocated, searching, share>>

\* Mutant of TakeKernel: the slot in use is kept.
TakeKernelKeepsSlot(period) ==
  /\ oldPeriod' = period
  /\ nextPeriod' = period + 1
  /\ compiler' = "started"
  /\ pc' = "prime"
  /\ UNCHANGED execIx

\* The other slot is executed from now on and the next period is compiled.
TakeKernel(period) ==
  /\ oldPeriod' = period
  /\ execIx' = 1 - execIx
  /\ nextPeriod' = period + 1
  /\ compiler' = "started"
  /\ pc' = "prime"

\* m_compileThread->join(); "sanity check the next kernel"
JoinCompiler ==
  /\ pc = "join" /\ compiler = "ended"
  /\ \/ /\ PeriodOf(w) = nextPeriod
        /\ TakeKernel(PeriodOf(w))
        /\ UNCHANGED recovered
     \/ /\ PeriodOf(w) # nextPeriod
        /\ nextPeriod' = PeriodOf(w) /\ compiler' = "started"
        /\ pc' = "rejoin"
        /\ recovered' = TRUE
        /\ UNCHANGED <<oldPeriod, execIx>>
  /\ UNCHANGED <<shared, newWork, w, oldEpoch, kernel, compIx, allocated, searching, share>>

RejoinCompiler ==
  /\ pc = "rejoin" /\ compiler = "ended"
  /\ TakeKernel(PeriodOf(w))
  /\ UNCHANGED <<shared, newWork, w, oldEpoch, kernel, compIx, recovered, allocated,
                 searching, share>>

\* asyncCompile(): the slot gets a kernel for the period and the DAG size of the
\* context at that time.
AsyncCompile ==
  /\ compiler = "started"
  /\ kernel' = [kernel EXCEPT ![compIx] = [period |-> nextPeriod, epoch |-> ctx]]
  /\ compIx' = 1 - compIx
  /\ compiler' = "ended"
  /\ UNCHANGED <<shared, local, nextPeriod, execIx, recovered, allocated, searching, share>>

\* An error leaves the thread as an exception that nothing catches: the program ends.
AsyncCompileThrows ==
  /\ compiler = "started" /\ pc # "done"
  /\ compiler' = "none"
  /\ pc' = "done"
  /\ UNCHANGED <<shared, newWork, w, oldEpoch, oldPeriod, nextPeriod, kernel, compIx, execIx,
                 recovered, allocated, searching, share>>

(***************************************************************************)
(* search()                                                                *)
(***************************************************************************)
Batch(first) ==
  [busy |-> TRUE, job |-> w, first |-> first % NonceSpace, kernel |-> kernel[execIx], gid |-> -1]

\* Every stream is started on a batch of its own.
Prime ==
  /\ pc = "prime"
  /\ stream' = [i \in StreamIds |-> Batch(i * BatchSize)]
  /\ start' = (Streams * BatchSize) % NonceSpace
  /\ pc' = "round"
  /\ UNCHANGED <<shared, newWork, w, oldEpoch, oldPeriod, compile, allocated, cur, done, share>>

\* The device ends a batch and has found a nonce, or nothing.
BatchEnds(i) ==
  /\ stream[i].busy
  /\ \E gid \in -1..(BatchSize - 1) :
       stream' = [stream EXCEPT ![i].busy = FALSE, ![i].gid = gid]
  /\ share' = NoShare
  /\ UNCHANGED <<shared, local, compile, allocated, start, cur, done>>

\* "Exit next time around if there's new work awaiting", or when paused
Round ==
  /\ pc = "round"
  /\ done' = (newWork \/ flags # {})
  /\ newWork' = FALSE
  /\ cur' = 0
  /\ pc' = "stream"
  /\ share' = NoShare
  /\ UNCHANGED <<shared, w, oldEpoch, oldPeriod, compile, allocated, start, stream>>

\* Mutant of SolutionNonce: the place of the batch just started.
SolutionNonceOfNext(gid) == (start + gid) % NonceSpace

\* nonce_base = start_nonce - m_streams_batch_size
SolutionNonce(gid) == (start - Streams * BatchSize + gid) % NonceSpace

\* Mutant of StreamEnds: a round that is the last one does not wait for the batches.
StreamEndsAtOnce ==
  /\ pc = "stream"
  /\ ~stream[cur].busy \/ done
  /\ done' = (done \/ stopReq)
  /\ newWork' = IF stopReq THEN FALSE ELSE newWork
  /\ share' = NoShare
  /\ stream' = [stream EXCEPT ![cur] = IF done' THEN @ ELSE Batch(start)]
  /\ start' = (start + BatchSize) % NonceSpace
  /\ cur' = cur + 1
  /\ pc' = IF cur + 1 = Streams THEN "roundEnds" ELSE "stream"
  /\ UNCHANGED <<shared, w, oldEpoch, oldPeriod, compile, allocated>>

\* One pass of the inner loop: wait for the stream, take its result, start it
\* again unless this was the last round, and submit what was found.
StreamEnds ==
  /\ pc = "stream" /\ ~stream[cur].busy
  /\ done' = (done \/ stopReq)
  /\ newWork' = IF stopReq THEN FALSE ELSE newWork
  /\ share' = IF stream[cur].gid = -1 THEN NoShare
              ELSE [job |-> w, nonce |-> SolutionNonce(stream[cur].gid),
                    foundJob |-> stream[cur].job,
                    foundNonce |-> (stream[cur].first + stream[cur].gid) % NonceSpace]
  /\ stream' = [stream EXCEPT ![cur] = IF done' THEN IdleStream ELSE Batch(start)]
  /\ start' = (start + BatchSize) % NonceSpace
  /\ cur' = cur + 1
  /\ pc' = IF cur + 1 = Streams THEN "roundEnds" ELSE "stream"
  /\ UNCHANGED <<shared, w, oldEpoch, oldPeriod, compile, allocated>>

\* "Bail out if it's shutdown time", or go on with the next round
RoundEnds ==
  /\ pc = "roundEnds"
  /\ IF stopReq \/ done
     THEN pc' = "loop" /\ w' = 0 /\ start' = 0 /\ done' = FALSE
     ELSE pc' = "round" /\ UNCHANGED <<w, start, done>>
  /\ newWork' = IF stopReq THEN FALSE ELSE newWork
  /\ cur' = 0
  /\ share' = NoShare
  /\ UNCHANGED <<shared, oldEpoch, oldPeriod, compile, allocated, stream>>

\* A call of the device fails: the error leaves the work loop.
WorkLoopThrows ==
  /\ pc \in {"prime", "stream"}
  /\ pc' = "done"
  /\ share' = NoShare
  /\ UNCHANGED <<shared, newWork, w, oldEpoch, oldPeriod, compile, allocated, searching>>

MinerStep ==
  \/ InitDevice \/ ReadWork \/ LoopEnds \/ InitEpoch \/ InitEpochError
  \/ JoinCompiler \/ RejoinCompiler
  \/ Prime \/ Round \/ StreamEnds \/ RoundEnds

Next ==
  \/ Kicked \/ Resumed
  \/ MinerStep \/ WorkLoopThrows
  \/ AsyncCompile \/ AsyncCompileThrows
  \/ \E i \in StreamIds : BatchEnds(i)

\* job j is on the device
Launched(j) == \E i \in StreamIds : stream[i].job = j

(***************************************************************************)
(* Fairness: the miner's and the compiler's threads are scheduled and a    *)
(* batch ends.                                                             *)
(***************************************************************************)
Fairness ==
  /\ WF_cudaVars(MinerStep)
  /\ WF_cudaVars(AsyncCompile)
  /\ \A i \in StreamIds : WF_cudaVars(BatchEnds(i))

Spec == Init /\ [][Next]_cudaVars /\ Fairness

-----------------------------------------------------------------------------
\* A share that search() submits is one a batch found, with the job of that
\* batch and its nonce: the counters of the host and the batches of the device
\* stay in step over streams, rounds and the wrap of the nonce.
SharesAreFound ==
  share.job = share.foundJob /\ share.nonce = share.foundNonce

\* When search() returns every stream was waited for and its result taken:
\* nothing found is lost at a change of work or a pause, and no batch writes
\* into a buffer of the next search.  (A stop in the middle of a round does
\* leave the streams running that were started before it.)
NothingLeftRunning ==
  ~stopReq /\ pc \in {"loop", "initEpoch", "join", "rejoin", "prime"} =>
    \A i \in StreamIds : stream[i] = IdleStream

\* As long as every new period is the one compiled ahead, a batch runs the kernel
\* that was generated for the period of its job, though the next one is compiled
\* at the same time.  After a skipped period this is false: see KernelIsRecovered.
KernelOfPeriod ==
  \A i \in StreamIds :
    stream[i].busy /\ ~recovered => stream[i].kernel.period = PeriodOf(stream[i].job)

\* "sanity check the next kernel ... Try to recover" (workLoop): also when a period
\* was skipped, a batch runs the kernel of the period of its job.  False.
KernelIsRecovered ==
  \A i \in StreamIds :
    stream[i].busy => stream[i].kernel.period = PeriodOf(stream[i].job)

\* A batch of the job in force runs a kernel compiled for the DAG of the job's epoch.
\* False.
KernelOfEpoch ==
  \A i \in StreamIds :
    stream[i].busy /\ EpochOf(stream[i].job) = EpochOf(latest)
      => stream[i].kernel.epoch = EpochOf(stream[i].job)
=============================================================================
