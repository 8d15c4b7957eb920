---------------------------- MODULE MinersProofs ----------------------------
(***************************************************************************)
(* TLAPS proofs about the device miners, for every number of streams,      *)
(* batch and work size, width of the nonce, sequence of jobs and set of    *)
(* epochs whose DAG does not fit the device.                               *)
(*                                                                         *)
(* A behaviour of Miners is one of a single driver.  The module proves the *)
(* properties for a behaviour of CudaMiner, then for one of OpenClMiner,   *)
(* and combines them at the end.                                           *)
(***************************************************************************)
EXTENDS Miners, TLAPS

(***************************************************************************)
(* The CUDA miner                                                          *)
(***************************************************************************)
CudaSafety == Cuda!Init /\ [][Cuda!Next]_(Cuda!cudaVars)

Searching == {"round", "stream", "roundEnds"}
Working == Searching \cup {"initEpoch", "join", "rejoin", "prime"}
Span == Streams * BatchSize       \* m_streams_batch_size

StreamType ==
  [busy : BOOLEAN, job : Cuda!Jobs \cup {0}, first : Int,
   kernel : [period : Int, epoch : Nat], gid : Int]
ShareType == [job : Cuda!Jobs \cup {0}, nonce : Int, foundJob : Cuda!Jobs \cup {0}, foundNonce : Int]

\* The type invariant, with the bounds of the walk over the streams.
SharedType ==
  /\ latest \in Cuda!Jobs \cup {0} /\ work \in Cuda!Jobs \cup {0}
  /\ ctx \in Nat /\ stopReq \in BOOLEAN
LocalType ==
  /\ newWork \in BOOLEAN /\ w \in Cuda!Jobs \cup {0}
  /\ oldEpoch \in Nat /\ oldPeriod \in Nat \cup {-1}
  /\ pc \in Working \cup {"init", "loop", "done"}
  /\ pc \in Working => w \in Cuda!Jobs
CompileType ==
  /\ nextPeriod \in Nat /\ compiler \in {"none", "started", "ended"}
  /\ kernel \in [0..1 -> [period : Int, epoch : Nat]]
  /\ compIx \in 0..1 /\ execIx \in 0..1 /\ recovered \in BOOLEAN
WalkType ==
  /\ cur \in 0..Streams
  /\ pc = "stream" => cur \in Cuda!StreamIds
  /\ pc = "roundEnds" => cur = Streams
  /\ pc \notin {"stream", "roundEnds", "done"} => cur = 0
SearchType ==
  /\ allocated \in Nat /\ start \in Int /\ done \in BOOLEAN
  /\ stream \in [Cuda!StreamIds -> StreamType]
  /\ share \in ShareType
CudaTypes == SharedType /\ LocalType /\ CompileType /\ WalkType /\ SearchType

\* The nonce stream i was last started at, seen from where search() is in its
\* round, when it was started so many nonces back.
Place(i, back) == (start + (i - cur) * BatchSize - back) % NonceSpace
Started(i, back) == stream[i].job = w /\ stream[i].first = Place(i, back)

\* The streams search() has not reached yet in a round were started one span of
\* nonces back; the others were started again, unless this is the last round,
\* which leaves them idle.
Ahead == pc \in Searching => \A i \in Cuda!StreamIds : i >= cur => Started(i, Span)
Behind == pc \in Searching /\ ~done => \A i \in Cuda!StreamIds : i < cur => Started(i, 0)
LastRound ==
  pc \in Searching /\ done /\ ~stopReq =>
    \A i \in Cuda!StreamIds : i < cur => stream[i] = Cuda!IdleStream
Fresh == pc = "init" => \A i \in Cuda!StreamIds : stream[i] = Cuda!IdleStream
SearchInv == Ahead /\ Behind /\ LastRound /\ Fresh /\ Cuda!SharesAreFound /\ Cuda!NothingLeftRunning

\* The two kernel slots: while the compiler runs it has the slot that is not
\* executed; when it has ended the other slot holds the next period's kernel.
SlotsInv ==
  /\ compiler = "started" => compIx = 1 - execIx
  /\ compiler = "ended" => compIx = execIx /\ kernel[1 - execIx].period = nextPeriod
  /\ oldPeriod # -1 => kernel[execIx].period = oldPeriod

\* Where the thread is between the first job and the next period: before the
\* first job nothing is compiled, from then on always one period ahead.
NotCompiled == nextPeriod = 0 /\ oldPeriod = -1 /\ compiler = "none" /\ compIx = 1 - execIx
OneAhead == oldPeriod # -1 /\ nextPeriod = oldPeriod + 1 /\ compiler # "none"
PeriodInv ==
  /\ pc \in Searching \cup {"prime"} => OneAhead /\ Cuda!PeriodOf(w) = oldPeriod
  /\ pc \in {"init", "loop", "initEpoch"} => NotCompiled \/ OneAhead
  /\ pc = "join" => compiler # "none"
  /\ pc = "rejoin" => recovered

CudaKernels ==
  /\ pc # "done" => PeriodInv
  /\ pc # "done" /\ ~recovered => SlotsInv
  /\ Cuda!KernelOfPeriod

-----------------------------------------------------------------------------
\* Two remainders of the same number are the same.
LEMMA RemainderUnique ==
  ASSUME NEW m \in Nat \ {0}, NEW q \in Int, NEW p \in Int,
         NEW r \in Int, NEW s \in Int, 0 <= r, r < m, 0 <= s, s < m, m * q + r = m * p + s
  PROVE  r = s
<1>1. CASE q = p
  BY <1>1
<1>2. CASE q > p
  <2>1. m * (q - p) = s - r
    OBVIOUS
  <2>2. q - p >= 1 /\ q - p \in Int
    BY <1>2
  <2>3. m * (q - p) >= m
    BY <2>2
  <2>4. QED
    BY <2>1, <2>3
<1>3. CASE q < p
  <2>1. m * (p - q) = r - s
    OBVIOUS
  <2>2. p - q >= 1 /\ p - q \in Int
    BY <1>3
  <2>3. m * (p - q) >= m
    BY <2>2
  <2>4. QED
    BY <2>1, <2>3
<1>4. QED
  BY <1>1, <1>2, <1>3

\* A quotient of natural numbers is one.
LEMMA QuotientType ==
  ASSUME NEW m \in Nat \ {0}, NEW n \in Nat
  PROVE  n \div m \in Nat
OBVIOUS

\* A remainder is an integer, also that of a negative number.
LEMMA RemainderType ==
  ASSUME NEW m \in Nat \ {0}, NEW n \in Int
  PROVE  n % m \in Int
OBVIOUS

\* A number is some multiple of m and its remainder.
LEMMA Division ==
  ASSUME NEW m \in Nat \ {0}, NEW a \in Int
  PROVE  \E q \in Int, r \in Int : a = m * q + r /\ r = a % m /\ 0 <= r /\ r < m
<1>1. a \div m \in Int /\ a % m \in Int
  OBVIOUS
<1>2. a = m * (a \div m) + (a % m) /\ 0 <= a % m /\ a % m < m
  OBVIOUS
<1>3. QED
  BY <1>1, <1>2

\* The nonce counter may be reduced before or after it is advanced.
LEMMA ModAdd ==
  ASSUME NEW m \in Nat \ {0}, NEW a \in Int, NEW b \in Int
  PROVE  ((a % m) + b) % m = (a + b) % m
<1>1. PICK q \in Int, s \in Int : a = m * q + s /\ s = a % m
  BY Division
<1> s + b \in Int /\ a + b \in Int
  OBVIOUS
<1>2. PICK k \in Int, r \in Int : s + b = m * k + r /\ r = (s + b) % m /\ 0 <= r /\ r < m
  BY Division, Zenon
<1>3. PICK p \in Int, t \in Int : a + b = m * p + t /\ t = (a + b) % m /\ 0 <= t /\ t < m
  BY Division, Zenon
<1>4. a + b = m * (q + k) + r
  <2>1. /\ m \in Nat \ {0} /\ a \in Int /\ b \in Int /\ q \in Int /\ k \in Int
        /\ r \in Int /\ s \in Int /\ a = m * q + s /\ s + b = m * k + r
    BY <1>1, <1>2, Zenon
  <2>2. QED
    BY <2>1, SMTT(60)
<1>5. q + k \in Int /\ m * (q + k) + r = m * p + t
  BY <1>3, <1>4
<1>6. r = t
  BY <1>2, <1>3, <1>5, RemainderUnique
<1>7. QED
  BY <1>1, <1>2, <1>3, <1>6

\* What the pool's jobs say.
LEMMA CudaJobFacts ==
  ASSUME Cuda!CudaConstants
  PROVE  /\ Len(JobBlock) \in Nat
         /\ \A j \in Cuda!Jobs \cup {0} : Cuda!EpochOf(j) \in Nat
         /\ \A j \in Cuda!Jobs : Cuda!PeriodOf(j) \in Nat
<1>1. \A j \in Cuda!Jobs : JobBlock[j] \in Nat /\ JobEpoch[j] \in Nat
  BY DEF Cuda!CudaConstants, Cuda!DeviceConstants, Cuda!Jobs
<1>2. \A j \in Cuda!Jobs : Cuda!PeriodOf(j) \in Nat
  <2> SUFFICES ASSUME NEW j \in Cuda!Jobs PROVE JobBlock[j] \div PROGPOW_PERIOD \in Nat
    BY DEF Cuda!PeriodOf
  <2>1. JobBlock[j] \in Nat /\ PROGPOW_PERIOD \in Nat \ {0}
    BY <1>1 DEF Cuda!CudaConstants, Cuda!DeviceConstants
  <2>2. QED
    BY <2>1, QuotientType, Zenon
<1>3. QED
  BY <1>1, <1>2 DEF Cuda!CudaConstants, Cuda!DeviceConstants, Cuda!EpochOf, Cuda!Jobs

\* Every variable keeps its type, and the walk over the streams stays inside
\* them, in the order search() visits them.
THEOREM CudaTypeCorrect ==
  ASSUME Cuda!CudaConstants
  PROVE  CudaSafety => []CudaTypes
<1>1. /\ Streams \in Nat \ {0} /\ BatchSize \in Nat \ {0} /\ NonceSpace \in Nat \ {0}
      /\ Len(JobBlock) \in Nat
  BY CudaJobFacts DEF Cuda!CudaConstants, Cuda!DeviceConstants
<1>2. \A j \in Cuda!Jobs \cup {0} : Cuda!EpochOf(j) \in Nat
  BY CudaJobFacts
<1>3. \A j \in Cuda!Jobs : Cuda!PeriodOf(j) \in Nat
  BY CudaJobFacts
<1>4. /\ Cuda!NoShare \in ShareType /\ Cuda!IdleStream \in StreamType
      /\ Cuda!Empty \in [period : Int, epoch : Nat]
  BY DEF Cuda!NoShare, ShareType, Cuda!IdleStream, StreamType, Cuda!Empty
<1>5. Cuda!Init => CudaTypes
  <2> SUFFICES ASSUME Cuda!Init PROVE CudaTypes
    OBVIOUS
  <2>1. SharedType
    BY DEF Cuda!Init, Cuda!SharedInit, SharedType
  <2>2. LocalType
    BY DEF Cuda!Init, LocalType, Working, Searching
  <2>3. CompileType
    <3>1. kernel \in [0..1 -> [period : Int, epoch : Nat]]
      BY <1>4 DEF Cuda!Init
    <3>2. nextPeriod \in Nat /\ compiler = "none" /\ compIx \in 0..1 /\ execIx \in 0..1
      BY DEF Cuda!Init
    <3>3. recovered \in BOOLEAN
      BY DEF Cuda!Init
    <3>4. QED
      BY <3>1, <3>2, <3>3 DEF CompileType
  <2>4. WalkType
    BY <1>1 DEF Cuda!Init, WalkType
  <2>5. SearchType
    <3>1. stream \in [Cuda!StreamIds -> StreamType]
      BY <1>4 DEF Cuda!Init
    <3>2. allocated \in Nat /\ start \in Int /\ share = Cuda!NoShare
      BY DEF Cuda!Init
    <3>3. done \in BOOLEAN
      BY DEF Cuda!Init
    <3>4. QED
      BY <1>4, <3>1, <3>2, <3>3 DEF SearchType
  <2>6. QED
    BY <2>1, <2>2, <2>3, <2>4, <2>5 DEF CudaTypes
<1>6. CudaTypes /\ [Cuda!Next]_(Cuda!cudaVars) => CudaTypes'
  <2> SUFFICES ASSUME CudaTypes, [Cuda!Next]_(Cuda!cudaVars) PROVE CudaTypes'
    OBVIOUS
  <2>0. SharedType /\ LocalType /\ CompileType /\ WalkType /\ SearchType
    BY DEF CudaTypes
  <2>19. ASSUME NEW f \in Int, pc \in {"prime", "stream"} PROVE Cuda!Batch(f) \in StreamType
    <3>1. w \in Cuda!Jobs /\ kernel[execIx] \in [period : Int, epoch : Nat]
      BY <2>0, <2>19 DEF LocalType, CompileType, Working, Searching
    <3>2. f % NonceSpace \in Int
      BY <1>1, RemainderType
    <3>3. QED
      BY <3>1, <3>2 DEF Cuda!Batch, StreamType
  <2>1. ASSUME Cuda!Kicked PROVE CudaTypes'
    <3>1. CompileType' /\ WalkType'
      BY <2>0, <2>1 DEF Cuda!Kicked, CompileType, WalkType, Cuda!compile, Cuda!searching,
         Cuda!local
    <3>2. SharedType'
      <4>1. CASE Cuda!SetWork
        <5>1. latest + 1 \in Cuda!Jobs
          BY <1>1, <2>0, <4>1 DEF Cuda!SetWork, SharedType, Cuda!Jobs
        <5>2. QED
          BY <1>2, <2>0, <4>1, <5>1 DEF Cuda!SetWork, SharedType
      <4>2. CASE Cuda!Pause
        BY <2>0, <4>2 DEF Cuda!Pause, Cuda!SetPause, SharedType
      <4>3. CASE Cuda!Stop
        BY <2>0, <4>3 DEF Cuda!Stop, SharedType
      <4>4. QED
        BY <2>1, <4>1, <4>2, <4>3 DEF Cuda!Kicked
    <3>3. LocalType'
      BY <2>0, <2>1 DEF Cuda!Kicked, Cuda!SetWork, Cuda!Pause, Cuda!Stop, Cuda!SetPause,
         LocalType, Working,
         Searching, Cuda!local
    <3>4. SearchType'
      BY <1>4, <2>0, <2>1 DEF Cuda!Kicked, Cuda!SetWork, Cuda!Pause, Cuda!Stop, Cuda!SetPause,
         SearchType,
         SharedType, Cuda!searching
    <3>5. QED
      BY <3>1, <3>2, <3>3, <3>4 DEF CudaTypes
  <2>2. ASSUME Cuda!Resumed PROVE CudaTypes'
    <3>1. LocalType' /\ CompileType' /\ WalkType'
      BY <2>0, <2>2 DEF Cuda!Resumed, Cuda!Resume, LocalType, CompileType, WalkType, Cuda!local,
         Cuda!compile, Cuda!searching
    <3>2. SharedType'
      BY <2>0, <2>2 DEF Cuda!Resumed, Cuda!Resume, SharedType, Cuda!shared
    <3>3. SearchType'
      BY <1>4, <2>0, <2>2 DEF Cuda!Resumed, Cuda!Resume, SearchType, SharedType, Cuda!searching
    <3>4. QED
      BY <3>1, <3>2, <3>3 DEF CudaTypes
  <2>3. ASSUME Cuda!InitDevice PROVE CudaTypes'
    <3>1. SharedType' /\ CompileType' /\ SearchType'
      BY <2>0, <2>3 DEF Cuda!InitDevice, SharedType, CompileType, SearchType, Cuda!shared,
         Cuda!compile, Cuda!searching
    <3>2. LocalType'
      BY <2>0, <2>3 DEF Cuda!InitDevice, LocalType, Working, Searching, Cuda!local
    <3>3. WalkType'
      BY <2>0, <2>3 DEF Cuda!InitDevice, WalkType, LocalType, Working, Searching,
         Cuda!StreamIds,
         Cuda!searching
    <3>4. QED
      BY <3>1, <3>2, <3>3 DEF CudaTypes
  <2>4. ASSUME Cuda!ReadWork PROVE CudaTypes'
    <3>1. SharedType'
      BY <2>0, <2>4 DEF Cuda!ReadWork, SharedType, Cuda!shared
    <3>2. LocalType'
      BY <1>3, <2>0, <2>4 DEF Cuda!ReadWork, LocalType, Working, Searching, SharedType,
         Cuda!local
    <3>3. CompileType'
      BY <1>3, <2>0, <2>4 DEF Cuda!ReadWork, CompileType, LocalType, Working, Searching,
         SharedType, Cuda!compile
    <3>4. WalkType'
      BY <2>0, <2>4 DEF Cuda!ReadWork, WalkType, LocalType, Working, Searching, Cuda!StreamIds,
         Cuda!searching
    <3>5. SearchType'
      BY <1>4, <2>0, <2>4 DEF Cuda!ReadWork, SearchType, SharedType, Cuda!searching
    <3>6. QED
      BY <3>1, <3>2, <3>3, <3>4, <3>5 DEF CudaTypes
  <2>5. ASSUME Cuda!LoopEnds PROVE CudaTypes'
    <3>1. SharedType' /\ CompileType' /\ SearchType'
      BY <2>0, <2>5 DEF Cuda!LoopEnds, SharedType, CompileType, SearchType, Cuda!shared,
         Cuda!compile,
         Cuda!searching
    <3>2. LocalType'
      BY <2>0, <2>5 DEF Cuda!LoopEnds, LocalType, Working, Searching, Cuda!local
    <3>3. WalkType'
      BY <2>0, <2>5 DEF Cuda!LoopEnds, WalkType, LocalType, Working, Searching, Cuda!StreamIds,
         Cuda!searching
    <3>4. QED
      BY <3>1, <3>2, <3>3 DEF CudaTypes
  <2>6. ASSUME Cuda!InitEpoch PROVE CudaTypes'
    <3>1. CompileType'
      BY <2>0, <2>6 DEF Cuda!InitEpoch, CompileType, Cuda!compile
    <3>2. SharedType'
      BY <2>0, <2>6 DEF Cuda!InitEpoch, SharedType, Cuda!shared
    <3>3. LocalType'
      BY <1>2, <2>0, <2>6 DEF Cuda!InitEpoch, LocalType, Working, Searching, Cuda!local
    <3>4. WalkType'
      BY <2>0, <2>6 DEF Cuda!InitEpoch, WalkType, LocalType, Working, Searching, Cuda!StreamIds,
         Cuda!searching
    <3>5. SearchType'
      BY <1>4, <2>0, <2>6 DEF Cuda!InitEpoch, SearchType, SharedType, Cuda!searching
    <3>6. QED
      BY <3>1, <3>2, <3>3, <3>4, <3>5 DEF CudaTypes
  <2>7. ASSUME Cuda!InitEpochError PROVE CudaTypes'
    <3>1. CompileType'
      BY <2>0, <2>7 DEF Cuda!InitEpochError, CompileType, Cuda!compile
    <3>2. SharedType'
      BY <2>0, <2>7 DEF Cuda!InitEpochError, SharedType, Cuda!shared
    <3>3. LocalType'
      BY <1>2, <2>0, <2>7 DEF Cuda!InitEpochError, LocalType, Working, Searching, Cuda!local
    <3>4. WalkType'
      BY <2>0, <2>7 DEF Cuda!InitEpochError, WalkType, LocalType, Working, Searching,
         Cuda!StreamIds, Cuda!searching
    <3>5. SearchType'
      BY <1>4, <2>0, <2>7 DEF Cuda!InitEpochError, SearchType, SharedType, Cuda!searching
    <3>6. QED
      BY <3>1, <3>2, <3>3, <3>4, <3>5 DEF CudaTypes
  <2>8. ASSUME Cuda!JoinCompiler PROVE CudaTypes'
    <3>1. SharedType' /\ SearchType'
      BY <2>0, <2>8 DEF Cuda!JoinCompiler, SharedType, SearchType, Cuda!shared, Cuda!searching
    <3>2. LocalType'
      BY <1>3, <2>0, <2>8 DEF Cuda!JoinCompiler, Cuda!TakeKernel, LocalType, Working, Searching,
         Cuda!local
    <3>3. CompileType'
      <4>1. nextPeriod' \in Nat /\ compiler' = "started" /\ execIx' \in 0..1
        BY <1>3, <2>0, <2>8 DEF Cuda!JoinCompiler, Cuda!TakeKernel, LocalType, CompileType,
           Working
      <4>2. recovered' \in BOOLEAN
        BY <2>0, <2>8 DEF Cuda!JoinCompiler, CompileType
      <4>3. QED
        BY <2>0, <2>8, <4>1, <4>2 DEF Cuda!JoinCompiler, CompileType
    <3>4. WalkType'
      BY <2>0, <2>8 DEF Cuda!JoinCompiler, Cuda!TakeKernel, WalkType, LocalType, Working,
         Searching, Cuda!StreamIds, Cuda!searching
    <3>5. QED
      BY <3>1, <3>2, <3>3, <3>4 DEF CudaTypes
  <2>9. ASSUME Cuda!RejoinCompiler PROVE CudaTypes'
    <3>1. SharedType' /\ SearchType'
      BY <2>0, <2>9 DEF Cuda!RejoinCompiler, SharedType, SearchType, Cuda!shared, Cuda!searching
    <3>2. LocalType'
      BY <1>3, <2>0, <2>9 DEF Cuda!RejoinCompiler, Cuda!TakeKernel, LocalType, Working,
         Searching,
         Cuda!local
    <3>3. CompileType'
      BY <1>3, <2>0, <2>9 DEF Cuda!RejoinCompiler, Cuda!TakeKernel, CompileType, LocalType,
         Working, Searching, Cuda!compile
    <3>4. WalkType'
      BY <2>0, <2>9 DEF Cuda!RejoinCompiler, Cuda!TakeKernel, WalkType, LocalType, Working,
         Searching, Cuda!StreamIds, Cuda!searching
    <3>5. QED
      BY <3>1, <3>2, <3>3, <3>4 DEF CudaTypes
  <2>10. ASSUME Cuda!Prime PROVE CudaTypes'
    <3>1. SharedType' /\ CompileType'
      BY <2>0, <2>10 DEF Cuda!Prime, SharedType, CompileType, Cuda!shared, Cuda!compile
    <3>2. LocalType'
      BY <2>0, <2>10 DEF Cuda!Prime, LocalType, Working, Searching, Cuda!local
    <3>3. WalkType'
      BY <2>0, <2>10 DEF Cuda!Prime, WalkType, LocalType, Working, Searching, Cuda!StreamIds,
         Cuda!searching
    <3>4. SearchType'
      <4>1. ASSUME NEW i \in Cuda!StreamIds PROVE Cuda!Batch(i * BatchSize) \in StreamType
        <5>1. i * BatchSize \in Int
          BY <1>1 DEF Cuda!StreamIds
        <5>2. QED
          BY <2>10, <2>19, <5>1 DEF Cuda!Prime
      <4>2. stream' \in [Cuda!StreamIds -> StreamType]
        BY <2>10, <4>1 DEF Cuda!Prime
      <4>3. start' \in Int
        BY <1>1, <2>10, RemainderType DEF Cuda!Prime
      <4>4. QED
        BY <2>0, <2>10, <4>2, <4>3 DEF Cuda!Prime, SearchType
    <3>5. QED
      BY <3>1, <3>2, <3>3, <3>4 DEF CudaTypes
  <2>11. ASSUME Cuda!Round PROVE CudaTypes'
    <3>1. SharedType' /\ CompileType'
      BY <2>0, <2>11 DEF Cuda!Round, SharedType, CompileType, Cuda!shared, Cuda!compile
    <3>2. LocalType'
      BY <2>0, <2>11 DEF Cuda!Round, LocalType, Working, Searching, Cuda!local
    <3>3. WalkType'
      BY <1>1, <2>0, <2>11 DEF Cuda!Round, WalkType, LocalType, Working, Searching,
         Cuda!StreamIds, Cuda!searching
    <3>4. SearchType'
      BY <1>4, <2>0, <2>11 DEF Cuda!Round, SearchType, SharedType, Cuda!searching
    <3>5. QED
      BY <3>1, <3>2, <3>3, <3>4 DEF CudaTypes
  <2>12. ASSUME Cuda!StreamEnds PROVE CudaTypes'
    <3>1. SharedType' /\ CompileType'
      BY <2>0, <2>12 DEF Cuda!StreamEnds, SharedType, CompileType, Cuda!shared, Cuda!compile
    <3>2. LocalType'
      BY <2>0, <2>12 DEF Cuda!StreamEnds, LocalType, Working, Searching, Cuda!local
    <3>3. WalkType'
      BY <1>1, <2>0, <2>12 DEF Cuda!StreamEnds, WalkType, LocalType, Working, Searching,
         Cuda!StreamIds, Cuda!searching
    <3>4. SearchType'
      <4>1. stream[cur] \in StreamType
        BY <2>0, <2>12 DEF Cuda!StreamEnds, WalkType, SearchType
      <4>2. share' \in ShareType
        <5>1. Cuda!SolutionNonce(stream[cur].gid) \in Int
          <6>1. start - Streams * BatchSize + stream[cur].gid \in Int
            BY <1>1, <2>0, <4>1 DEF StreamType, SearchType
          <6>2. QED
            BY <1>1, <6>1, RemainderType DEF Cuda!SolutionNonce
        <5>2. (stream[cur].first + stream[cur].gid) % NonceSpace \in Int
          <6>1. stream[cur].first + stream[cur].gid \in Int
            BY <4>1 DEF StreamType
          <6>2. QED
            BY <1>1, <6>1, RemainderType
        <5>3. QED
          BY <1>4, <2>0, <2>12, <4>1, <5>1, <5>2 DEF Cuda!StreamEnds, LocalType, ShareType,
             StreamType
      <4>3. start \in Int /\ start' \in Int
        BY <1>1, <2>0, <2>12, RemainderType DEF Cuda!StreamEnds, SearchType
      <4>4. Cuda!Batch(start) \in StreamType
        BY <2>12, <2>19, <4>3 DEF Cuda!StreamEnds
      <4>5. stream' \in [Cuda!StreamIds -> StreamType]
        BY <1>4, <2>0, <2>12, <4>4 DEF Cuda!StreamEnds, SearchType
      <4>6. done' \in BOOLEAN
        BY <2>12 DEF Cuda!StreamEnds
      <4>7. QED
        BY <2>0, <2>12, <4>2, <4>3, <4>5, <4>6 DEF Cuda!StreamEnds, SearchType
    <3>5. QED
      BY <3>1, <3>2, <3>3, <3>4 DEF CudaTypes
  <2>13. ASSUME Cuda!RoundEnds PROVE CudaTypes'
    <3>1. SharedType' /\ CompileType'
      BY <2>0, <2>13 DEF Cuda!RoundEnds, SharedType, CompileType, Cuda!shared, Cuda!compile
    <3>2. LocalType'
      BY <2>0, <2>13 DEF Cuda!RoundEnds, LocalType, Working, Searching, Cuda!local
    <3>3. WalkType'
      BY <1>1, <2>0, <2>13 DEF Cuda!RoundEnds, WalkType, LocalType, Working, Searching,
         Cuda!StreamIds, Cuda!searching
    <3>4. SearchType'
      <4>1. start' \in Int
        BY <2>0, <2>13 DEF Cuda!RoundEnds, SearchType
      <4>2. done' \in BOOLEAN
        BY <2>0, <2>13 DEF Cuda!RoundEnds, SearchType
      <4>3. QED
        BY <1>4, <2>0, <2>13, <4>1, <4>2 DEF Cuda!RoundEnds, SearchType
    <3>5. QED
      BY <3>1, <3>2, <3>3, <3>4 DEF CudaTypes
  <2>14. ASSUME Cuda!AsyncCompile PROVE CudaTypes'
    <3>1. SharedType' /\ LocalType' /\ WalkType' /\ SearchType'
      BY <2>0, <2>14 DEF Cuda!AsyncCompile, SharedType, LocalType, WalkType, SearchType,
         Cuda!shared, Cuda!local, Cuda!searching
    <3>2. CompileType'
      <4>1. [period |-> nextPeriod, epoch |-> ctx] \in [period : Int, epoch : Nat]
        BY <2>0 DEF CompileType, SharedType
      <4>2. kernel' \in [0..1 -> [period : Int, epoch : Nat]]
        BY <2>0, <2>14, <4>1 DEF Cuda!AsyncCompile, CompileType
      <4>3. QED
        BY <2>0, <2>14, <4>2 DEF Cuda!AsyncCompile, CompileType
    <3>3. QED
      BY <3>1, <3>2 DEF CudaTypes
  <2>15. ASSUME Cuda!AsyncCompileThrows PROVE CudaTypes'
    <3>1. SharedType' /\ SearchType'
      BY <2>0, <2>15 DEF Cuda!AsyncCompileThrows, SharedType, SearchType, Cuda!shared,
         Cuda!searching
    <3>2. LocalType'
      BY <2>0, <2>15 DEF Cuda!AsyncCompileThrows, LocalType, Working, Searching, Cuda!local
    <3>3. CompileType'
      BY <2>0, <2>15 DEF Cuda!AsyncCompileThrows, CompileType, LocalType, Working, Searching,
         Cuda!compile
    <3>4. WalkType'
      BY <2>0, <2>15 DEF Cuda!AsyncCompileThrows, WalkType, LocalType, Working, Searching,
         Cuda!StreamIds, Cuda!searching
    <3>5. QED
      BY <3>1, <3>2, <3>3, <3>4 DEF CudaTypes
  <2>16. ASSUME NEW i \in Cuda!StreamIds, Cuda!BatchEnds(i) PROVE CudaTypes'
    <3>1. SharedType' /\ LocalType' /\ CompileType' /\ WalkType'
      BY <2>0, <2>16 DEF Cuda!BatchEnds, SharedType, LocalType, CompileType, WalkType,
         Cuda!shared, Cuda!local, Cuda!compile, Cuda!searching
    <3>2. SearchType'
      <4>1. \A g \in -1..(BatchSize - 1) : g \in Int
        BY <1>1
      <4>2. PICK gid \in Int : stream' = [stream EXCEPT ![i].busy = FALSE, ![i].gid = gid]
        BY <2>16, <4>1, Zenon DEF Cuda!BatchEnds
      <4>3. stream' \in [Cuda!StreamIds -> StreamType]
        BY <2>0, <4>2 DEF SearchType, StreamType
      <4>4. QED
        BY <1>4, <2>0, <2>16, <4>3 DEF Cuda!BatchEnds, SearchType
    <3>3. QED
      BY <3>1, <3>2 DEF CudaTypes
  <2>17. CASE UNCHANGED Cuda!cudaVars
    BY <2>0, <2>17 DEF CudaTypes, SharedType, LocalType, CompileType, WalkType, SearchType,
       Cuda!cudaVars, Cuda!shared, Cuda!local, Cuda!compile, Cuda!searching
  <2>18. ASSUME Cuda!WorkLoopThrows PROVE CudaTypes'
    <3>0. SearchType'
      BY <1>4, <2>0, <2>18 DEF Cuda!WorkLoopThrows, SearchType, Cuda!searching
    <3>1. SharedType' /\ CompileType'
      BY <2>0, <2>18 DEF Cuda!WorkLoopThrows, SharedType, CompileType, LocalType, Working,
         Searching, Cuda!shared, Cuda!compile
    <3>2. LocalType'
      BY <2>0, <2>18 DEF Cuda!WorkLoopThrows, LocalType, Working, Searching
    <3>3. WalkType'
      BY <2>0, <2>18 DEF Cuda!WorkLoopThrows, WalkType, LocalType, Working, Searching,
         Cuda!StreamIds, Cuda!searching
    <3>4. QED
      BY <3>0, <3>1, <3>2, <3>3 DEF CudaTypes
  <2>20. QED
    BY <2>1, <2>2, <2>3, <2>4, <2>5, <2>6, <2>7, <2>8, <2>9, <2>10, <2>11, <2>12,
       <2>13, <2>14, <2>15, <2>16, <2>17, <2>18 DEF Cuda!Next, Cuda!MinerStep
<1>7. QED
  BY <1>5, <1>6, PTL DEF CudaSafety
-----------------------------------------------------------------------------
\* A step of another thread, or one that only moves the place of search() between
\* rounds, leaves the streams where they are.
LEMMA SearchFrame ==
  ASSUME SearchInv,
         UNCHANGED <<pc, w, start, cur, done, stream>>,
         stopReq' = stopReq \/ stopReq' = TRUE,
         share' = share \/ share' = Cuda!NoShare
  PROVE  SearchInv'
<1>1. Ahead' /\ Behind'
  BY DEF SearchInv, Ahead, Behind, Started, Place
<1>2. LastRound' /\ Fresh' /\ Cuda!NothingLeftRunning'
  BY DEF SearchInv, LastRound, Fresh, Cuda!NothingLeftRunning
<1>3. Cuda!SharesAreFound'
  BY DEF SearchInv, Cuda!SharesAreFound, Cuda!NoShare
<1>4. QED
  BY <1>1, <1>2, <1>3 DEF SearchInv

\* A step of the work loop outside search() starts no batch.
LEMMA LoopFrame ==
  ASSUME SearchInv, UNCHANGED <<stream, stopReq>>,
         share' = share \/ share' = Cuda!NoShare,
         pc \in {"init", "loop", "initEpoch", "join", "rejoin"} \/ pc' = "done",
         pc' \in {"loop", "initEpoch", "join", "rejoin", "prime", "done"}
  PROVE  SearchInv'
<1>1. Ahead' /\ Behind' /\ LastRound' /\ Fresh'
  BY DEF Ahead, Behind, LastRound, Fresh, Searching
<1>2. Cuda!NothingLeftRunning'
  BY DEF SearchInv, Fresh, Cuda!NothingLeftRunning
<1>3. Cuda!SharesAreFound'
  BY DEF SearchInv, Cuda!SharesAreFound, Cuda!NoShare
<1>4. QED
  BY <1>1, <1>2, <1>3 DEF SearchInv

\* The places of the streams over one pass of the inner loop.
LEMMA StreamPlaces ==
  ASSUME Cuda!CudaConstants, CudaTypes, Cuda!StreamEnds, NEW i \in Cuda!StreamIds
  PROVE  /\ Place(i, Span)' = Place(i, Span)
         /\ Place(i, 0)' = Place(i, 0)
         /\ i = cur => Place(i, 0) = start % NonceSpace
         /\ i = cur => \A g \in Int : (Place(i, Span) + g) % NonceSpace = Cuda!SolutionNonce(g)
<1>1. /\ NonceSpace \in Nat \ {0} /\ BatchSize \in Int /\ Span \in Int /\ 0 \in Int
      /\ start \in Int /\ cur \in Int /\ i \in Int /\ i - cur \in Int
  BY DEF Cuda!CudaConstants, Cuda!DeviceConstants, CudaTypes, SearchType, WalkType,
     Cuda!StreamIds, Span
<1>2. start' = (start + BatchSize) % NonceSpace /\ cur' = cur + 1
  BY DEF Cuda!StreamEnds
<1>4. ASSUME NEW back \in Int PROVE Place(i, back)' = Place(i, back)
  <2> DEFINE a == start + BatchSize
             b == (i - (cur + 1)) * BatchSize - back
  <2>1. a \in Int /\ b \in Int /\ a + b = start + (i - cur) * BatchSize - back
    BY <1>1
  <2>2. a % NonceSpace \in Int
    BY <1>1, <2>1, RemainderType
  <2>3. start' + (i - cur') * BatchSize - back = (a % NonceSpace) + b
    BY <1>1, <1>2, <2>1, <2>2
  <2>4. ((a % NonceSpace) + b) % NonceSpace = (a + b) % NonceSpace
    <3> HIDE DEF a, b
    <3> QED
      BY <1>1, <2>1, ModAdd, Zenon
  <2>5. QED
    BY <2>1, <2>3, <2>4, Zenon DEF Place
<1>5. ASSUME i = cur PROVE Place(i, 0) = start % NonceSpace
  <2>1. start + (i - cur) * BatchSize - 0 = start
    BY <1>1, <1>5
  <2>2. QED
    BY <2>1, Zenon DEF Place
<1>6. ASSUME i = cur, NEW g \in Int
      PROVE  (Place(i, Span) + g) % NonceSpace = Cuda!SolutionNonce(g)
  <2>1. start - Span \in Int /\ start + (i - cur) * BatchSize - Span = start - Span
    BY <1>1, <1>6
  <2>2. (((start - Span) % NonceSpace) + g) % NonceSpace = (start - Span + g) % NonceSpace
    BY <1>1, <2>1, ModAdd, Zenon
  <2>3. QED
    BY <2>1, <2>2, Zenon DEF Place, Cuda!SolutionNonce, Span
<1>7. QED
  BY <1>1, <1>4, <1>5, <1>6, Zenon

\* The nonce counter of the host and the streams of the device stay in step.
LEMMA CudaSearchInv ==
  ASSUME Cuda!CudaConstants
  PROVE  CudaSafety => []SearchInv
<1>1. Cuda!Init => SearchInv
  <2> SUFFICES ASSUME Cuda!Init PROVE SearchInv
    OBVIOUS
  <2>1. pc = "init" /\ share = Cuda!NoShare /\ \A i \in Cuda!StreamIds : stream[i] = Cuda!IdleStream
    BY DEF Cuda!Init
  <2>2. QED
    BY <2>1 DEF SearchInv, Ahead, Behind, LastRound, Fresh, Cuda!SharesAreFound,
       Cuda!NothingLeftRunning, Searching, Cuda!NoShare
<1>2. CudaTypes /\ SearchInv /\ [Cuda!Next]_(Cuda!cudaVars) => SearchInv'
  <2> SUFFICES ASSUME CudaTypes, SearchInv, [Cuda!Next]_(Cuda!cudaVars) PROVE SearchInv'
    OBVIOUS
  <2>0. /\ stream \in [Cuda!StreamIds -> StreamType] /\ stopReq \in BOOLEAN /\ done \in BOOLEAN
        /\ cur \in 0..Streams /\ Streams \in Nat
    BY DEF CudaTypes, SharedType, WalkType, SearchType, Cuda!CudaConstants, Cuda!DeviceConstants
  <2>1. CASE Cuda!Kicked \/ Cuda!Resumed \/ Cuda!AsyncCompile
    <3>1. UNCHANGED <<pc, w, start, cur, done, stream>>
      BY <2>1 DEF Cuda!Kicked, Cuda!Resumed, Cuda!AsyncCompile, Cuda!local, Cuda!searching
    <3>2. share' = share \/ share' = Cuda!NoShare
      BY <2>1 DEF Cuda!Kicked, Cuda!Resumed, Cuda!AsyncCompile
    <3>3. stopReq' = stopReq \/ stopReq' = TRUE
      BY <2>1, Zenon DEF Cuda!Kicked, Cuda!Resumed, Cuda!AsyncCompile, Cuda!SetWork,
         Cuda!Pause, Cuda!Stop, Cuda!Resume, Cuda!shared
    <3>4. QED
      BY <3>1, <3>2, <3>3, SearchFrame
  <2>2. CASE \/ Cuda!InitDevice \/ Cuda!ReadWork \/ Cuda!LoopEnds \/ Cuda!InitEpoch \/ Cuda!InitEpochError
             \/ Cuda!JoinCompiler \/ Cuda!RejoinCompiler \/ Cuda!AsyncCompileThrows
             \/ Cuda!WorkLoopThrows
    <3>1. UNCHANGED <<stream, stopReq>> /\ (share' = share \/ share' = Cuda!NoShare)
      BY <2>2 DEF Cuda!InitDevice, Cuda!ReadWork, Cuda!LoopEnds, Cuda!InitEpoch,
         Cuda!InitEpochError,
         Cuda!JoinCompiler, Cuda!RejoinCompiler, Cuda!AsyncCompileThrows, Cuda!WorkLoopThrows, Cuda!searching,
         Cuda!shared
    <3>2. /\ pc \in {"init", "loop", "initEpoch", "join", "rejoin"} \/ pc' = "done"
          /\ pc' \in {"loop", "initEpoch", "join", "rejoin", "prime", "done"}
      BY <2>2 DEF Cuda!InitDevice, Cuda!ReadWork, Cuda!LoopEnds, Cuda!InitEpoch,
         Cuda!InitEpochError,
         Cuda!JoinCompiler, Cuda!RejoinCompiler, Cuda!TakeKernel, Cuda!AsyncCompileThrows,
         Cuda!WorkLoopThrows
    <3>3. QED
      BY <3>1, <3>2, LoopFrame
  <2>3. CASE Cuda!Prime
    <3>1. pc' = "round" /\ cur' = 0 /\ share' = share /\ w' = w
      BY <2>3 DEF Cuda!Prime, CudaTypes, WalkType
    <3>2. ASSUME NEW i \in Cuda!StreamIds PROVE Started(i, Span)'
      <4>1. stream'[i] = Cuda!Batch(i * BatchSize) /\ start' = Span % NonceSpace
        BY <2>3 DEF Cuda!Prime, Span
      <4>2. /\ NonceSpace \in Nat \ {0} /\ Span \in Int
            /\ i * BatchSize - Span \in Int /\ Span + (i * BatchSize - Span) = i * BatchSize
        BY DEF Cuda!CudaConstants, Cuda!DeviceConstants, Span, Cuda!StreamIds
      <4>3. ((Span % NonceSpace) + (i * BatchSize - Span)) % NonceSpace
            = (i * BatchSize) % NonceSpace
        BY <4>2, ModAdd, Zenon
      <4>4. Span % NonceSpace \in Int
        BY <4>2, RemainderType
      <4>5. start' + (i - cur') * BatchSize - Span = (Span % NonceSpace) + (i * BatchSize - Span)
        BY <3>1, <4>1, <4>2, <4>4 DEF Cuda!StreamIds, Cuda!CudaConstants, Cuda!DeviceConstants
      <4>6. Place(i, Span)' = (i * BatchSize) % NonceSpace
        BY <4>3, <4>5, Zenon DEF Place, Span
      <4>7. QED
        BY <3>1, <4>1, <4>6 DEF Started, Cuda!Batch
    <3>3. ASSUME NEW i \in Cuda!StreamIds PROVE ~(i < cur')
      BY <3>1 DEF Cuda!StreamIds, Cuda!CudaConstants, Cuda!DeviceConstants
    <3>4. QED
      BY <3>1, <3>2, <3>3 DEF SearchInv, Ahead, Behind, LastRound, Fresh, Cuda!SharesAreFound,
         Cuda!NothingLeftRunning
  <2>4. CASE Cuda!Round
    <3>1. pc = "round" /\ pc' = "stream" /\ cur' = 0 /\ cur = 0 /\ share' = Cuda!NoShare
      BY <2>4 DEF Cuda!Round, CudaTypes, WalkType
    <3>2. UNCHANGED <<w, start, stream>>
      BY <2>4 DEF Cuda!Round
    <3>3. ASSUME NEW i \in Cuda!StreamIds PROVE ~(i < cur') /\ i >= cur /\ Started(i, Span)'
      <4>1. ~(i < cur') /\ i >= cur
        BY <3>1 DEF Cuda!StreamIds, Cuda!CudaConstants, Cuda!DeviceConstants
      <4>2. Started(i, Span)
        BY <3>1, <4>1 DEF SearchInv, Ahead, Searching
      <4>3. QED
        BY <3>1, <3>2, <4>1, <4>2 DEF Started, Place, Span
    <3>4. QED
      BY <3>1, <3>3 DEF SearchInv, Ahead, Behind, LastRound, Fresh, Cuda!SharesAreFound,
         Cuda!NothingLeftRunning, Cuda!NoShare
  <2>5. CASE Cuda!StreamEnds
    <3>1. /\ pc = "stream" /\ pc' \in {"stream", "roundEnds"} /\ cur' = cur + 1
          /\ w' = w /\ stopReq' = stopReq /\ cur \in Cuda!StreamIds
      BY <2>5 DEF Cuda!StreamEnds, Cuda!shared, CudaTypes, WalkType
    <3>2. done' = (done \/ stopReq)
      BY <2>5 DEF Cuda!StreamEnds
    <3>3. stream' = [stream EXCEPT ![cur] = IF done' THEN Cuda!IdleStream ELSE Cuda!Batch(start)]
      BY <2>5 DEF Cuda!StreamEnds
    <3>4. ASSUME NEW i \in Cuda!StreamIds
          PROVE  /\ i >= cur' => i >= cur /\ i # cur
                 /\ i < cur' => i = cur \/ (i < cur /\ i # cur)
      BY <2>0, <3>1 DEF Cuda!StreamIds
    <3>5. Ahead'
      <4> SUFFICES ASSUME NEW i \in Cuda!StreamIds, i >= cur' PROVE Started(i, Span)'
        BY DEF Ahead
      <4>1. i # cur /\ Started(i, Span)
        BY <3>1, <3>4 DEF SearchInv, Ahead, Searching
      <4>2. stream'[i] = stream[i]
        BY <2>0, <3>3, <4>1
      <4>3. Place(i, Span)' = Place(i, Span)
        BY <2>5, StreamPlaces
      <4>4. QED
        BY <3>1, <4>1, <4>2, <4>3 DEF Started
    <3>6. Behind'
      <4> SUFFICES ASSUME ~done', NEW i \in Cuda!StreamIds, i < cur' PROVE Started(i, 0)'
        BY DEF Behind
      <4>1. Place(i, 0)' = Place(i, 0) /\ (i = cur => Place(i, 0) = start % NonceSpace)
        BY <2>5, StreamPlaces
      <4>2. CASE i = cur
        <5>1. stream'[i] = Cuda!Batch(start)
          BY <2>0, <3>3, <4>2
        <5>2. QED
          BY <3>1, <4>1, <4>2, <5>1 DEF Started, Cuda!Batch
      <4>3. CASE i < cur /\ i # cur
        <5>1. Started(i, 0)
          BY <3>1, <3>2, <4>3 DEF SearchInv, Behind, Searching
        <5>2. stream'[i] = stream[i]
          BY <2>0, <3>3, <4>3
        <5>3. QED
          BY <3>1, <4>1, <5>1, <5>2 DEF Started
      <4>4. QED
        BY <3>4, <4>2, <4>3
    <3>7. LastRound'
      <4> SUFFICES ASSUME done', ~stopReq', NEW i \in Cuda!StreamIds, i < cur'
                   PROVE  stream'[i] = Cuda!IdleStream
        BY DEF LastRound
      <4>1. CASE i = cur
        BY <2>0, <3>3, <4>1
      <4>2. CASE i < cur /\ i # cur
        <5>1. done
          BY <3>1, <3>2, Zenon
        <5>2. stream[i] = Cuda!IdleStream
          BY <3>1, <4>2, <5>1 DEF SearchInv, LastRound, Searching
        <5>3. QED
          BY <2>0, <3>3, <4>2, <5>2
      <4>3. QED
        BY <3>4, <4>1, <4>2
    <3>8. Cuda!SharesAreFound'
      <4>1. CASE stream[cur].gid = -1
        BY <2>5, <4>1 DEF Cuda!StreamEnds, Cuda!SharesAreFound, Cuda!NoShare
      <4>2. CASE stream[cur].gid # -1
        <5>1. Started(cur, Span)
          <6>1. cur >= cur
            BY <2>0
          <6>2. QED
            BY <3>1, <6>1 DEF SearchInv, Ahead, Searching
        <5>2. stream[cur].gid \in Int
          BY <2>0, <3>1 DEF StreamType
        <5>3. (Place(cur, Span) + stream[cur].gid) % NonceSpace
              = Cuda!SolutionNonce(stream[cur].gid)
          BY <2>5, <3>1, <5>2, StreamPlaces
        <5>4. share' = [job |-> w, nonce |-> Cuda!SolutionNonce(stream[cur].gid),
                        foundJob |-> stream[cur].job,
                        foundNonce |-> (stream[cur].first + stream[cur].gid) % NonceSpace]
          BY <2>5, <4>2 DEF Cuda!StreamEnds
        <5>5. QED
          BY <5>1, <5>3, <5>4 DEF Cuda!SharesAreFound, Started
      <4>3. QED
        BY <4>1, <4>2
    <3>9. Fresh' /\ Cuda!NothingLeftRunning'
      BY <3>1 DEF Fresh, Cuda!NothingLeftRunning
    <3>10. QED
      BY <3>5, <3>6, <3>7, <3>8, <3>9 DEF SearchInv
  <2>6. CASE Cuda!RoundEnds
    <3>1. /\ pc = "roundEnds" /\ cur = Streams /\ cur' = 0 /\ stream' = stream
          /\ stopReq' = stopReq /\ share' = Cuda!NoShare
      BY <2>6 DEF Cuda!RoundEnds, Cuda!shared, CudaTypes, WalkType
    <3>2. CASE stopReq \/ done
      <4>1. pc' = "loop"
        BY <2>6, <3>2, Zenon DEF Cuda!RoundEnds
      <4>2. ASSUME ~stopReq', NEW i \in Cuda!StreamIds PROVE stream'[i] = Cuda!IdleStream
        <5>1. done /\ ~stopReq
          BY <3>1, <3>2, <4>2, Zenon
        <5>2. i < cur
          BY <2>0, <3>1 DEF Cuda!StreamIds
        <5>3. QED
          BY <3>1, <5>1, <5>2 DEF SearchInv, LastRound, Searching
      <4>3. Ahead' /\ Behind' /\ LastRound' /\ Fresh'
        BY <4>1 DEF Ahead, Behind, LastRound, Fresh, Searching
      <4>4. Cuda!SharesAreFound' /\ Cuda!NothingLeftRunning'
        BY <3>1, <4>2 DEF Cuda!SharesAreFound, Cuda!NothingLeftRunning, Cuda!NoShare
      <4>5. QED
        BY <4>3, <4>4 DEF SearchInv
    <3>3. CASE ~(stopReq \/ done)
      <4>1. pc' = "round" /\ UNCHANGED <<w, start, done>>
        BY <2>6, <3>3, Zenon DEF Cuda!RoundEnds
      <4>2. ASSUME NEW i \in Cuda!StreamIds PROVE ~(i < cur') /\ Started(i, Span)'
        <5>1. i < cur /\ ~(i < cur')
          BY <2>0, <3>1 DEF Cuda!StreamIds
        <5>2. Started(i, 0)
          BY <3>1, <3>3, <5>1 DEF SearchInv, Behind, Searching
        <5>3. start' + (i - cur') * BatchSize - Span = start + (i - cur) * BatchSize - 0
          BY <2>0, <3>1, <4>1 DEF Span, Cuda!StreamIds, Cuda!CudaConstants,
             Cuda!DeviceConstants, CudaTypes, SearchType
        <5>4. Place(i, Span)' = Place(i, 0)
          BY <5>3, Zenon DEF Place, Span
        <5>5. QED
          BY <3>1, <4>1, <5>1, <5>2, <5>4 DEF Started
      <4>3. QED
        BY <3>1, <4>1, <4>2 DEF SearchInv, Ahead, Behind, LastRound, Fresh, Cuda!SharesAreFound,
           Cuda!NothingLeftRunning, Cuda!NoShare
    <3>4. QED
      BY <3>2, <3>3
  <2>7. ASSUME NEW j \in Cuda!StreamIds, Cuda!BatchEnds(j) PROVE SearchInv'
    <3>1. /\ UNCHANGED <<pc, w, start, cur, done, stopReq>>
          /\ share' = Cuda!NoShare /\ stream[j].busy
      BY <2>7 DEF Cuda!BatchEnds, Cuda!local, Cuda!shared
    <3>2. stream[j] # Cuda!IdleStream
      BY <3>1 DEF Cuda!IdleStream
    <3>3. PICK gid : stream' = [stream EXCEPT ![j].busy = FALSE, ![j].gid = gid]
      BY <2>7 DEF Cuda!BatchEnds
    <3>4. ASSUME NEW i \in Cuda!StreamIds
          PROVE  /\ stream'[i].job = stream[i].job /\ stream'[i].first = stream[i].first
                 /\ stream[i] = Cuda!IdleStream => stream'[i] = Cuda!IdleStream
      <4>1. CASE i = j
        BY <2>0, <3>2, <3>3, <4>1 DEF StreamType
      <4>2. CASE i # j
        BY <2>0, <3>3, <4>2
      <4>3. QED
        BY <4>1, <4>2
    <3>5. Ahead' /\ Behind'
      BY <3>1, <3>4 DEF SearchInv, Ahead, Behind, Started, Place, Span
    <3>6. LastRound' /\ Fresh' /\ Cuda!NothingLeftRunning'
      BY <3>1, <3>4 DEF SearchInv, LastRound, Fresh, Cuda!NothingLeftRunning
    <3>7. QED
      BY <3>1, <3>5, <3>6 DEF SearchInv, Cuda!SharesAreFound, Cuda!NoShare
  <2>8. CASE UNCHANGED Cuda!cudaVars
    BY <2>8, SearchFrame DEF Cuda!cudaVars, Cuda!shared, Cuda!local, Cuda!searching
  <2>9. QED
    BY <2>1, <2>2, <2>3, <2>4, <2>5, <2>6, <2>7, <2>8 DEF Cuda!Next, Cuda!MinerStep
<1>3. QED
  BY <1>1, <1>2, CudaTypeCorrect, PTL DEF CudaSafety

\* CUDAMiner::search submits only what a batch of the device found, with the job
\* and the nonce it was found at, also when the nonce wraps around.
LEMMA CudaSharesAreFound ==
  ASSUME Cuda!CudaConstants
  PROVE  CudaSafety => []Cuda!SharesAreFound
<1>1. SearchInv => Cuda!SharesAreFound
  BY DEF SearchInv
<1>2. QED
  BY <1>1, CudaSearchInv, PTL

\* CUDAMiner::search returns to the work loop with every stream waited for and
\* its result taken, unless the miner is being stopped.
LEMMA CudaNothingLeftRunning ==
  ASSUME Cuda!CudaConstants
  PROVE  CudaSafety => []Cuda!NothingLeftRunning
<1>1. SearchInv => Cuda!NothingLeftRunning
  BY DEF SearchInv
<1>2. QED
  BY <1>1, CudaSearchInv, PTL

-----------------------------------------------------------------------------
\* A step that leaves the compiler's slots alone and the thread where it is, or
\* in a place with the same obligations, keeps the kernels in step.
LEMMA KernelFrame ==
  ASSUME CudaKernels, UNCHANGED <<Cuda!compile, w, oldPeriod, stream>>,
         \/ pc' = pc \/ pc' = "done"
         \/ pc' \in {"loop", "initEpoch"} /\ pc \in {"init", "loop", "initEpoch"}
         \/ pc' \in Searching /\ pc \in Searching
  PROVE  CudaKernels'
<1>1. Cuda!KernelOfPeriod'
  BY DEF CudaKernels, Cuda!KernelOfPeriod, Cuda!compile
<1>2. ASSUME pc' # "done" PROVE PeriodInv' /\ (~recovered' => SlotsInv')
  <2>1. pc # "done"
    BY <1>2 DEF Searching
  <2>2. PeriodInv'
    BY <1>2, <2>1 DEF CudaKernels, PeriodInv, NotCompiled, OneAhead, Cuda!compile, Searching
  <2>3. ~recovered' => SlotsInv'
    BY <2>1 DEF CudaKernels, SlotsInv, Cuda!compile
  <2>4. QED
    BY <2>2, <2>3
<1>3. QED
  BY <1>1, <1>2 DEF CudaKernels

\* A batch that search() starts runs the kernel of its job's period.
LEMMA BatchKernel ==
  ASSUME Cuda!CudaConstants, CudaTypes, CudaKernels, pc \in {"prime", "stream"}, ~recovered, NEW f
  PROVE  Cuda!Batch(f).kernel.period = Cuda!PeriodOf(Cuda!Batch(f).job)
BY DEF CudaKernels, PeriodInv, SlotsInv, OneAhead, Searching, Cuda!Batch

\* The two slots of the kernel and the periods stay in step.
LEMMA CudaKernelInv ==
  ASSUME Cuda!CudaConstants
  PROVE  CudaSafety => []CudaKernels
<1>1. Cuda!Init => CudaKernels
  <2> SUFFICES ASSUME Cuda!Init PROVE CudaKernels
    OBVIOUS
  <2>1. \A i \in Cuda!StreamIds : ~stream[i].busy
    BY DEF Cuda!Init, Cuda!IdleStream
  <2>2. PeriodInv
    BY DEF Cuda!Init, PeriodInv, NotCompiled, Searching
  <2>3. SlotsInv
    BY DEF Cuda!Init, SlotsInv
  <2>4. QED
    BY <2>1, <2>2, <2>3 DEF CudaKernels, Cuda!KernelOfPeriod
<1>2. CudaTypes /\ CudaKernels /\ [Cuda!Next]_(Cuda!cudaVars) => CudaKernels'
  <2> SUFFICES ASSUME CudaTypes, CudaKernels, [Cuda!Next]_(Cuda!cudaVars) PROVE CudaKernels'
    OBVIOUS
  <2>0. /\ stream \in [Cuda!StreamIds -> StreamType] /\ compIx \in 0..1 /\ execIx \in 0..1
        /\ kernel \in [0..1 -> [period : Int, epoch : Nat]]
        /\ nextPeriod \in Nat /\ oldPeriod \in Nat \cup {-1}
    BY DEF CudaTypes, LocalType, CompileType, SearchType
  <2>1. CASE Cuda!Kicked \/ Cuda!Resumed
    BY <2>1, KernelFrame DEF Cuda!Kicked, Cuda!Resumed, Cuda!local, Cuda!searching
  <2>2. CASE Cuda!InitDevice \/ Cuda!LoopEnds \/ Cuda!AsyncCompileThrows \/ Cuda!WorkLoopThrows
    <3>1. Cuda!KernelOfPeriod'
      BY <2>2 DEF CudaKernels, Cuda!KernelOfPeriod, Cuda!InitDevice, Cuda!LoopEnds,
         Cuda!AsyncCompileThrows, Cuda!WorkLoopThrows, Cuda!compile, Cuda!searching
    <3>2. CASE Cuda!InitDevice \/ Cuda!LoopEnds
      BY <3>2, KernelFrame DEF Cuda!InitDevice, Cuda!LoopEnds, Cuda!searching
    <3>3. CASE Cuda!AsyncCompileThrows \/ Cuda!WorkLoopThrows
      BY <3>1, <3>3 DEF CudaKernels, Cuda!AsyncCompileThrows, Cuda!WorkLoopThrows
    <3>4. QED
      BY <2>2, <3>2, <3>3
  <2>3. CASE Cuda!InitEpoch \/ Cuda!InitEpochError
    <3>1. pc = "initEpoch" /\ pc' = "loop" /\ UNCHANGED <<Cuda!compile, oldPeriod, stream>>
      BY <2>3 DEF Cuda!InitEpoch, Cuda!InitEpochError, Cuda!searching
    <3>2. PeriodInv'
      BY <3>1 DEF CudaKernels, PeriodInv, NotCompiled, OneAhead, Cuda!compile, Searching
    <3>3. ~recovered' => SlotsInv'
      BY <3>1 DEF CudaKernels, SlotsInv, Cuda!compile
    <3>4. Cuda!KernelOfPeriod'
      BY <3>1 DEF CudaKernels, Cuda!KernelOfPeriod, Cuda!compile
    <3>5. QED
      BY <3>2, <3>3, <3>4 DEF CudaKernels
  <2>4. CASE Cuda!ReadWork
    <3>1. /\ pc = "loop" /\ work \in Cuda!Jobs /\ w' = work
          /\ UNCHANGED <<oldPeriod, kernel, compIx, execIx, recovered, stream>>
      BY <2>4 DEF Cuda!ReadWork, Cuda!searching, CudaTypes, SharedType
    <3>2. Cuda!PeriodOf(work) \in Nat
      BY <3>1, CudaJobFacts
    <3>3. (NotCompiled \/ OneAhead) /\ (~recovered => SlotsInv)
      BY <3>1 DEF CudaKernels, PeriodInv
    <3>4. Cuda!KernelOfPeriod'
      BY <3>1 DEF CudaKernels, Cuda!KernelOfPeriod
    <3>5. CASE Cuda!EpochOf(work) # oldEpoch
      <4>1. pc' = "initEpoch" /\ UNCHANGED <<nextPeriod, compiler>>
        BY <2>4, <3>5 DEF Cuda!ReadWork
      <4>2. PeriodInv'
        BY <3>1, <3>3, <4>1 DEF PeriodInv, NotCompiled, OneAhead, Searching
      <4>3. ~recovered' => SlotsInv'
        BY <3>1, <3>3, <4>1 DEF SlotsInv
      <4>4. QED
        BY <3>4, <4>2, <4>3 DEF CudaKernels
    <3>6. CASE Cuda!EpochOf(work) = oldEpoch /\ nextPeriod = 0
      <4>1. NotCompiled
        BY <2>0, <3>3, <3>6 DEF OneAhead
      <4>2. pc' = "join" /\ compiler' = "started"
        BY <2>4, <3>2, <3>6, <4>1 DEF Cuda!ReadWork, NotCompiled
      <4>3. PeriodInv'
        BY <4>2 DEF PeriodInv, Searching
      <4>4. SlotsInv'
        BY <3>1, <4>1, <4>2 DEF SlotsInv, NotCompiled
      <4>5. QED
        BY <3>4, <4>3, <4>4 DEF CudaKernels
    <3>7. CASE Cuda!EpochOf(work) = oldEpoch /\ nextPeriod # 0
      <4>1. OneAhead
        BY <3>3, <3>7 DEF NotCompiled
      <4>2. /\ pc' = IF Cuda!PeriodOf(work) # oldPeriod THEN "join" ELSE "prime"
            /\ UNCHANGED <<nextPeriod, compiler>>
        BY <2>4, <3>7 DEF Cuda!ReadWork
      <4>3. PeriodInv'
        BY <3>1, <4>1, <4>2 DEF PeriodInv, OneAhead, Searching, Cuda!PeriodOf
      <4>4. ~recovered' => SlotsInv'
        BY <3>1, <3>3, <4>2 DEF SlotsInv
      <4>5. QED
        BY <3>4, <4>3, <4>4 DEF CudaKernels
    <3>8. QED
      BY <3>5, <3>6, <3>7
  <2>5. CASE Cuda!JoinCompiler \/ Cuda!RejoinCompiler
    <3>1. /\ compiler = "ended" /\ UNCHANGED <<w, kernel, compIx, stream>>
          /\ pc \in {"join", "rejoin"} /\ w \in Cuda!Jobs
      BY <2>5 DEF Cuda!JoinCompiler, Cuda!RejoinCompiler, Cuda!searching, CudaTypes,
         LocalType, Working
    <3>2. Cuda!PeriodOf(w) \in Nat /\ Cuda!PeriodOf(w)' = Cuda!PeriodOf(w)
      BY <3>1, CudaJobFacts DEF Cuda!PeriodOf
    <3>3. Cuda!KernelOfPeriod'
      <4>1. recovered => recovered'
        BY <2>5 DEF Cuda!JoinCompiler, Cuda!RejoinCompiler
      <4>2. QED
        BY <3>1, <4>1 DEF CudaKernels, Cuda!KernelOfPeriod, Cuda!PeriodOf
    <3>4. CASE Cuda!TakeKernel(Cuda!PeriodOf(w)) /\ (~recovered' => Cuda!PeriodOf(w) = nextPeriod /\ ~recovered)
      <4>1. PeriodInv'
        BY <3>2, <3>4 DEF Cuda!TakeKernel, PeriodInv, OneAhead, Searching
      <4>2. ASSUME ~recovered' PROVE SlotsInv'
        <5>1. Cuda!PeriodOf(w) = nextPeriod /\ ~recovered /\ SlotsInv
          BY <3>1, <3>4, <4>2 DEF CudaKernels
        <5>2. QED
          BY <2>0, <3>1, <3>2, <3>4, <5>1 DEF SlotsInv, Cuda!TakeKernel
      <4>3. QED
        BY <3>3, <4>1, <4>2 DEF CudaKernels
    <3>5. CASE pc' = "rejoin" /\ recovered'
      BY <3>3, <3>5 DEF CudaKernels, PeriodInv, Searching
    <3>6. CASE Cuda!JoinCompiler
      <4>1. CASE Cuda!PeriodOf(w) = nextPeriod
        <5>1. Cuda!TakeKernel(Cuda!PeriodOf(w)) /\ recovered' = recovered
          BY <3>6, <4>1 DEF Cuda!JoinCompiler
        <5>2. QED
          BY <3>4, <4>1, <5>1, Zenon
      <4>2. CASE Cuda!PeriodOf(w) # nextPeriod
        <5>1. pc' = "rejoin" /\ recovered'
          BY <3>6, <4>2 DEF Cuda!JoinCompiler
        <5>2. QED
          BY <3>5, <5>1
      <4>3. QED
        BY <4>1, <4>2
    <3>7. CASE Cuda!RejoinCompiler
      <4>1. Cuda!TakeKernel(Cuda!PeriodOf(w)) /\ recovered' = recovered /\ pc = "rejoin"
        BY <3>7 DEF Cuda!RejoinCompiler
      <4>2. recovered
        BY <4>1 DEF CudaKernels, PeriodInv
      <4>3. QED
        BY <3>4, <4>1, <4>2, Zenon
    <3>8. QED
      BY <2>5, <3>6, <3>7
  <2>6. CASE Cuda!AsyncCompile
    <3>1. /\ compiler = "started" /\ compiler' = "ended" /\ compIx' = 1 - compIx
          /\ kernel' = [kernel EXCEPT ![compIx] = [period |-> nextPeriod, epoch |-> ctx]]
          /\ UNCHANGED <<pc, w, oldPeriod, nextPeriod, execIx, recovered, stream>>
      BY <2>6 DEF Cuda!AsyncCompile, Cuda!local, Cuda!searching
    <3>2. Cuda!KernelOfPeriod'
      BY <3>1 DEF CudaKernels, Cuda!KernelOfPeriod
    <3>3. ASSUME pc # "done" PROVE PeriodInv'
      BY <3>1, <3>3 DEF CudaKernels, PeriodInv, NotCompiled, OneAhead, Cuda!PeriodOf
    <3>4. ASSUME pc # "done", ~recovered PROVE SlotsInv'
      <4>1. SlotsInv /\ compIx = 1 - execIx /\ compIx # execIx
        BY <2>0, <3>1, <3>4 DEF CudaKernels, SlotsInv
      <4>2. kernel'[compIx].period = nextPeriod /\ kernel'[execIx] = kernel[execIx]
        BY <2>0, <3>1, <4>1
      <4>3. QED
        BY <2>0, <3>1, <4>1, <4>2 DEF SlotsInv
    <3>5. QED
      BY <3>1, <3>2, <3>3, <3>4 DEF CudaKernels
  <2>7. CASE Cuda!Prime \/ Cuda!StreamEnds
    <3>1. /\ pc \in {"prime", "stream"} /\ pc' \in Searching
          /\ UNCHANGED <<w, oldPeriod, Cuda!compile>>
      BY <2>7 DEF Cuda!Prime, Cuda!StreamEnds, Searching
    <3>2. PeriodInv'
      BY <3>1 DEF CudaKernels, PeriodInv, OneAhead, Cuda!PeriodOf, Cuda!compile, Searching
    <3>3. ~recovered' => SlotsInv'
      BY <3>1 DEF CudaKernels, SlotsInv, Cuda!compile
    <3>4. ASSUME NEW i \in Cuda!StreamIds, stream'[i].busy, ~recovered
          PROVE  stream'[i].kernel.period = Cuda!PeriodOf(stream'[i].job)
      <4>1. \/ stream'[i] = stream[i] \/ stream'[i] = Cuda!IdleStream
            \/ \E f : stream'[i] = Cuda!Batch(f)
        BY <2>0, <2>7 DEF Cuda!Prime, Cuda!StreamEnds
      <4>2. CASE stream'[i] = stream[i]
        BY <3>4, <4>2 DEF CudaKernels, Cuda!KernelOfPeriod
      <4>3. CASE stream'[i] = Cuda!IdleStream
        BY <3>4, <4>3 DEF Cuda!IdleStream
      <4>4. CASE \E f : stream'[i] = Cuda!Batch(f)
        BY <3>1, <3>4, <4>4, BatchKernel
      <4>5. QED
        BY <4>1, <4>2, <4>3, <4>4
    <3>5. Cuda!KernelOfPeriod'
      BY <3>1, <3>4 DEF Cuda!KernelOfPeriod, Cuda!compile, Cuda!PeriodOf
    <3>6. QED
      BY <3>2, <3>3, <3>5 DEF CudaKernels
  <2>8. CASE Cuda!Round
    BY <2>8, KernelFrame DEF Cuda!Round, Searching
  <2>9. CASE Cuda!RoundEnds
    <3>1. /\ pc = "roundEnds" /\ UNCHANGED <<Cuda!compile, oldPeriod, stream>>
          /\ (pc' = "loop" \/ (pc' = "round" /\ w' = w))
      BY <2>9, Zenon DEF Cuda!RoundEnds
    <3>2. PeriodInv'
      BY <3>1 DEF CudaKernels, PeriodInv, OneAhead, Cuda!compile, Searching, Cuda!PeriodOf
    <3>3. ~recovered' => SlotsInv'
      BY <3>1 DEF CudaKernels, SlotsInv, Cuda!compile
    <3>4. Cuda!KernelOfPeriod'
      BY <3>1 DEF CudaKernels, Cuda!KernelOfPeriod, Cuda!compile
    <3>5. QED
      BY <3>2, <3>3, <3>4 DEF CudaKernels
  <2>10. ASSUME NEW j \in Cuda!StreamIds, Cuda!BatchEnds(j) PROVE CudaKernels'
    <3>1. UNCHANGED <<pc, w, oldPeriod, Cuda!compile>>
      BY <2>10 DEF Cuda!BatchEnds, Cuda!local
    <3>2. PICK gid : stream' = [stream EXCEPT ![j].busy = FALSE, ![j].gid = gid]
      BY <2>10 DEF Cuda!BatchEnds
    <3>3. Cuda!KernelOfPeriod'
      <4> SUFFICES ASSUME NEW i \in Cuda!StreamIds, stream'[i].busy, ~recovered
                   PROVE  stream'[i].kernel.period = Cuda!PeriodOf(stream'[i].job)
        BY <3>1 DEF Cuda!KernelOfPeriod, Cuda!compile, Cuda!PeriodOf
      <4>1. CASE i = j
        BY <2>0, <3>2, <4>1 DEF StreamType
      <4>2. CASE i # j
        BY <2>0, <3>2, <4>2 DEF CudaKernels, Cuda!KernelOfPeriod
      <4>3. QED
        BY <4>1, <4>2
    <3>4. PeriodInv' = PeriodInv /\ SlotsInv' = SlotsInv
      BY <3>1, Zenon DEF PeriodInv, NotCompiled, OneAhead, Cuda!PeriodOf, SlotsInv, Cuda!compile
    <3>5. QED
      BY <3>1, <3>3, <3>4 DEF CudaKernels, Cuda!compile
  <2>11. CASE UNCHANGED Cuda!cudaVars
    BY <2>11, KernelFrame DEF Cuda!cudaVars, Cuda!local, Cuda!searching
  <2>12. QED
    BY <2>1, <2>2, <2>3, <2>4, <2>5, <2>6, <2>7, <2>8, <2>9, <2>10, <2>11
       DEF Cuda!Next, Cuda!MinerStep
<1>3. QED
  BY <1>1, <1>2, CudaTypeCorrect, PTL DEF CudaSafety

\* A batch runs the ProgPoW kernel of its job's period although the next one is
\* compiled into the other slot at the same time, unless a period was skipped.
LEMMA CudaKernelOfPeriod ==
  ASSUME Cuda!CudaConstants
  PROVE  CudaSafety => []Cuda!KernelOfPeriod
<1>1. CudaKernels => Cuda!KernelOfPeriod
  BY DEF CudaKernels
<1>2. QED
  BY <1>1, CudaKernelInv, PTL

(***************************************************************************)
(* The OpenCL miner                                                        *)
(***************************************************************************)
ClSafety == OpenCl!Init /\ [][OpenCl!Next]_(OpenCl!clVars)

\* Between two reads of the results: no kernel is on the device.
Between == {"work", "join", "rejoin", "initEpoch", "launch"}

JobType ==
  /\ latest \in OpenCl!Jobs \cup {0} /\ work \in {0, latest}
  /\ next \in 0..latest /\ current.job \in 0..next
  /\ pc \in Between \cup {"init", "read", "done"}
PeriodType ==
  /\ nextPeriod \in Nat /\ oldPeriod \in Nat \cup {-1}
  /\ failed \in BOOLEAN /\ compiler \in {"none", "started", "ended"}

\* The jobs go forward: a step that brings period or epoch up to date is made for
\* a job later than the one of the last kernel.
ForwardInv ==
  /\ pc \in {"join", "rejoin", "initEpoch"} => current.job < next
  /\ pc \in {"join", "rejoin", "initEpoch", "launch"} => next # 0
ClTypes == JobType /\ PeriodType /\ ForwardInv

\* A result of the last kernel that was started.
OfCurrent(r) ==
  r.gid # -1 => r.job = current.job /\ r.nonce = (current.start + r.gid) % NonceSpace

\* What is on the device, in its buffer and in the host's hand is of the last
\* kernel, and only while the host waits for it may something be in the buffer.
FoundInv ==
  /\ device.busy => pc \in {"read", "done"} /\ device.job = current.job /\ device.first = current.start
  /\ OfCurrent(buffer)
  /\ pc \in Between => buffer.gid = -1 /\ OfCurrent(results)
  /\ OpenCl!SharesAreFound

\* Without a failed build the kernel in use is of the period last seen, and the
\* one that was compiled is of the next period asked for; the period last seen
\* is the one of the latest job once that was started.
ClKernels ==
  /\ ~failed /\ compiler = "ended" => nextKernel.period = nextPeriod
  /\ ~failed /\ oldPeriod # -1 => searchKernel.period = oldPeriod
  /\ current.job # 0 /\ current.job = latest => oldPeriod = OpenCl!PeriodOf(latest)
  /\ pc = "rejoin" => nextPeriod = OpenCl!PeriodOf(next)
  /\ pc = "launch" => oldPeriod = OpenCl!PeriodOf(next)
  /\ OpenCl!KernelOfPeriod

\* The DAG in use is of the epoch last seen, unless the pool has gone on to
\* another one or the DAG could not be made, which keeps work away.
Paused == {"memory", "error"} \cap flags # {}
DagInv ==
  /\ ctx = OpenCl!EpochOf(latest)
  /\ work # 0 => flags = {}
  /\ oldEpoch <= OpenCl!EpochOf(latest) /\ oldEpoch \in Nat
  /\ dag = oldEpoch \/ oldEpoch # OpenCl!EpochOf(latest) \/ Paused
  /\ current.job # 0 /\ current.job = latest => oldEpoch = OpenCl!EpochOf(latest)
  /\ pc = "launch" => /\ oldEpoch = OpenCl!EpochOf(next)
                      /\ dag = OpenCl!EpochOf(next) \/ OpenCl!EpochOf(latest) # OpenCl!EpochOf(next)
  /\ device.busy => device.job \in 0..latest
  /\ OpenCl!DagOfEpoch

-----------------------------------------------------------------------------
\* What the pool's jobs say.
LEMMA ClJobFacts ==
  ASSUME OpenCl!ClConstants
  PROVE  /\ Len(JobBlock) \in Nat
         /\ \A j \in OpenCl!Jobs \cup {0} : j \in Nat /\ OpenCl!EpochOf(j) \in Nat
         /\ \A j \in OpenCl!Jobs : OpenCl!PeriodOf(j) \in Nat
<1>1. \A j \in OpenCl!Jobs : JobBlock[j] \in Nat /\ JobEpoch[j] \in Nat
  BY DEF OpenCl!ClConstants, OpenCl!DeviceConstants, OpenCl!Jobs
<1>2. ASSUME NEW m \in Nat \ {0}, NEW n \in Nat PROVE n \div m \in Nat
  OBVIOUS
<1>3. ASSUME NEW j \in OpenCl!Jobs PROVE OpenCl!PeriodOf(j) \in Nat
  <2>1. JobBlock[j] \in Nat /\ PROGPOW_PERIOD \in Nat \ {0}
    BY <1>1 DEF OpenCl!ClConstants, OpenCl!DeviceConstants
  <2>2. QED
    BY <1>2, <2>1, Zenon DEF OpenCl!PeriodOf
<1>4. QED
  BY <1>1, <1>3 DEF OpenCl!ClConstants, OpenCl!DeviceConstants, OpenCl!EpochOf, OpenCl!Jobs

\* The work is always the latest job or none, and the thread follows it forward.
LEMMA ClTypeCorrect ==
  ASSUME OpenCl!ClConstants
  PROVE  ClSafety => []ClTypes
<1> USE ClJobFacts
<1>1. OpenCl!Init => ClTypes
  <2> SUFFICES ASSUME OpenCl!Init PROVE ClTypes
    OBVIOUS
  <2>1. JobType
    BY DEF OpenCl!Init, OpenCl!SharedInit, JobType, Between
  <2>2. PeriodType
    BY DEF OpenCl!Init, PeriodType
  <2>3. ForwardInv
    BY DEF OpenCl!Init, ForwardInv
  <2>4. QED
    BY <2>1, <2>2, <2>3 DEF ClTypes
<1>2. ClTypes /\ [OpenCl!Next]_(OpenCl!clVars) => ClTypes'
  <2> SUFFICES ASSUME ClTypes, [OpenCl!Next]_(OpenCl!clVars) PROVE ClTypes'
    OBVIOUS
  <2>0. JobType /\ PeriodType /\ ForwardInv
    BY DEF ClTypes
  <2>1. CASE OpenCl!Called
    <3>1. UNCHANGED <<OpenCl!clLocal, OpenCl!compile>>
      BY <2>1 DEF OpenCl!Called
    <3>2. latest' \in OpenCl!Jobs \cup {0} /\ work' \in {0, latest'} /\ latest <= latest'
      <4>1. CASE OpenCl!SetWork
        BY <2>0, <4>1 DEF OpenCl!SetWork, JobType, OpenCl!Jobs
      <4>2. CASE OpenCl!Pause \/ OpenCl!Stop \/ OpenCl!Resume
        BY <2>0, <4>2 DEF OpenCl!Pause, OpenCl!SetPause, OpenCl!Stop, OpenCl!Resume, JobType
      <4>3. QED
        BY <2>1, <4>1, <4>2 DEF OpenCl!Called
    <3>3. JobType'
      BY <2>0, <3>1, <3>2 DEF JobType, OpenCl!clLocal
    <3>4. PeriodType' /\ ForwardInv'
      BY <2>0, <3>1 DEF PeriodType, ForwardInv, OpenCl!clLocal, OpenCl!compile
    <3>5. QED
      BY <3>3, <3>4 DEF ClTypes
  <2>2. CASE OpenCl!InitDevice \/ OpenCl!ReadResults \/ OpenCl!NoWork
    <3>1. JobType' /\ ForwardInv'
      BY <2>0, <2>2 DEF OpenCl!InitDevice, OpenCl!ReadResults, OpenCl!NoWork, JobType,
         ForwardInv, Between, OpenCl!shared
    <3>2. PeriodType'
      BY <2>0, <2>2 DEF OpenCl!InitDevice, OpenCl!ReadResults, OpenCl!NoWork, PeriodType,
         OpenCl!compile
    <3>3. QED
      BY <3>1, <3>2 DEF ClTypes
  <2>3. CASE OpenCl!NewHeader
    <3>1. work \in OpenCl!Jobs /\ work = latest
      BY <2>0, <2>3 DEF OpenCl!NewHeader, JobType
    <3>2. JobType'
      BY <2>0, <2>3, <3>1 DEF OpenCl!NewHeader, JobType, Between, OpenCl!shared
    <3>3. PeriodType'
      BY <2>0, <2>3, <3>1 DEF OpenCl!NewHeader, PeriodType
    <3>4. ForwardInv'
      BY <2>0, <2>3, <3>1 DEF OpenCl!NewHeader, JobType, ForwardInv
    <3>5. QED
      BY <3>2, <3>3, <3>4 DEF ClTypes
  <2>4. CASE OpenCl!SameHeader
    <3>1. JobType' /\ ForwardInv'
      BY <2>0, <2>4 DEF OpenCl!SameHeader, JobType, ForwardInv, Between, OpenCl!shared
    <3>2. PeriodType'
      BY <2>0, <2>4 DEF OpenCl!SameHeader, PeriodType, OpenCl!compile
    <3>3. QED
      BY <3>1, <3>2 DEF ClTypes
  <2>5. CASE OpenCl!JoinCompiler \/ OpenCl!RejoinCompiler
    <3>1. next \in OpenCl!Jobs /\ pc \in {"join", "rejoin"}
      BY <2>0, <2>5 DEF OpenCl!JoinCompiler, OpenCl!RejoinCompiler, JobType, ForwardInv,
         OpenCl!Jobs
    <3>2. JobType' /\ ForwardInv'
      BY <2>0, <2>5, <3>1 DEF OpenCl!JoinCompiler, OpenCl!RejoinCompiler, OpenCl!TakeKernel,
         JobType, ForwardInv,
         Between, OpenCl!shared
    <3>3. PeriodType'
      BY <2>0, <2>5, <3>1 DEF OpenCl!JoinCompiler, OpenCl!RejoinCompiler, OpenCl!TakeKernel,
         PeriodType
    <3>4. QED
      BY <3>2, <3>3 DEF ClTypes
  <2>6. CASE OpenCl!AsyncCompile
    <3>1. JobType' /\ ForwardInv'
      BY <2>0, <2>6 DEF OpenCl!AsyncCompile, OpenCl!SetPause, JobType, ForwardInv,
         OpenCl!clLocal
    <3>2. PeriodType'
      BY <2>0, <2>6 DEF OpenCl!AsyncCompile, PeriodType, OpenCl!clLocal
    <3>3. QED
      BY <3>1, <3>2 DEF ClTypes
  <2>7. CASE OpenCl!InitEpoch
    <3>1. JobType' /\ ForwardInv'
      BY <2>0, <2>7 DEF OpenCl!InitEpoch, JobType, ForwardInv, Between
    <3>2. PeriodType'
      BY <2>0, <2>7 DEF OpenCl!InitEpoch, PeriodType, OpenCl!compile
    <3>3. QED
      BY <3>1, <3>2 DEF ClTypes
  <2>8. CASE OpenCl!Launch
    <3>1. JobType' /\ ForwardInv'
      BY <2>0, <2>8 DEF OpenCl!Launch, JobType, ForwardInv, Between, OpenCl!shared
    <3>2. PeriodType'
      BY <2>0, <2>8 DEF OpenCl!Launch, PeriodType, OpenCl!compile
    <3>3. QED
      BY <3>1, <3>2 DEF ClTypes
  <2>9. CASE OpenCl!KernelEnds \/ UNCHANGED OpenCl!clVars
    <3>1. UNCHANGED <<OpenCl!shared, OpenCl!clLocal, OpenCl!compile>>
      BY <2>9 DEF OpenCl!KernelEnds, OpenCl!clVars
    <3>2. JobType' /\ PeriodType' /\ ForwardInv'
      BY <2>0, <3>1 DEF JobType, PeriodType, ForwardInv, OpenCl!shared, OpenCl!clLocal,
         OpenCl!compile
    <3>3. QED
      BY <3>2 DEF ClTypes
  <2>10. CASE OpenCl!AsyncCompileThrows \/ OpenCl!WorkLoopThrows
    <3>1. JobType' /\ ForwardInv'
      BY <2>0, <2>10 DEF OpenCl!AsyncCompileThrows, OpenCl!WorkLoopThrows, JobType, ForwardInv,
         Between, OpenCl!shared
    <3>2. PeriodType'
      BY <2>0, <2>10 DEF OpenCl!AsyncCompileThrows, OpenCl!WorkLoopThrows, PeriodType,
         OpenCl!compile
    <3>3. QED
      BY <3>1, <3>2 DEF ClTypes
  <2>11. QED
    BY <2>1, <2>2, <2>3, <2>4, <2>5, <2>6, <2>7, <2>8, <2>9, <2>10
       DEF OpenCl!Next, OpenCl!MinerStep
<1>3. QED
  BY <1>1, <1>2, PTL DEF ClSafety

\* CLMiner::workLoop reports what the last kernel found with the job and the
\* nonce of that kernel, whatever it did between the read and the report.
LEMMA ClSharesAreFound == ClSafety => []OpenCl!SharesAreFound
<1>1. OpenCl!Init => FoundInv
  BY DEF OpenCl!Init, FoundInv, OfCurrent, OpenCl!SharesAreFound, Between, OpenCl!Nothing,
     OpenCl!NoShare, OpenCl!IdleDevice
<1>2. FoundInv /\ [OpenCl!Next]_(OpenCl!clVars) => FoundInv'
  <2> SUFFICES ASSUME FoundInv, [OpenCl!Next]_(OpenCl!clVars) PROVE FoundInv'
    OBVIOUS
  <2> USE DEF FoundInv
  <2>1. CASE OpenCl!Called \/ OpenCl!AsyncCompile \/ UNCHANGED OpenCl!clVars
    <3>1. UNCHANGED <<pc, current, results, device, buffer>>
      BY <2>1 DEF OpenCl!Called, OpenCl!AsyncCompile, OpenCl!clVars, OpenCl!clLocal
    <3>2. share' = share \/ share' = OpenCl!NoShare
      BY <2>1 DEF OpenCl!Called, OpenCl!AsyncCompile, OpenCl!clVars
    <3>3. QED
      BY <3>1, <3>2 DEF OfCurrent, OpenCl!SharesAreFound, OpenCl!NoShare
  <2>2. CASE OpenCl!InitDevice
    BY <2>2 DEF OpenCl!InitDevice, OfCurrent, OpenCl!SharesAreFound, Between
  <2>3. CASE OpenCl!ReadResults
    BY <2>3 DEF OpenCl!ReadResults, OfCurrent, OpenCl!SharesAreFound, Between, OpenCl!Nothing,
       OpenCl!NoShare
  <2>4. CASE OpenCl!NoWork \/ OpenCl!InitEpoch
    BY <2>4 DEF OpenCl!NoWork, OpenCl!InitEpoch, OfCurrent, OpenCl!SharesAreFound, Between
  <2>5. CASE OpenCl!NewHeader \/ OpenCl!SameHeader
    BY <2>5 DEF OpenCl!NewHeader, OpenCl!SameHeader, OfCurrent, OpenCl!SharesAreFound, Between
  <2>6. CASE OpenCl!JoinCompiler \/ OpenCl!RejoinCompiler
    BY <2>6 DEF OpenCl!JoinCompiler, OpenCl!RejoinCompiler, OpenCl!TakeKernel, OfCurrent,
       OpenCl!SharesAreFound, Between
  <2>7. CASE OpenCl!Launch
    <3>1. pc = "launch" /\ pc' = "read" /\ buffer' = buffer /\ buffer.gid = -1
      BY <2>7 DEF OpenCl!Launch, Between
    <3>2. device' = [busy |-> TRUE, job |-> next, first |-> start,
                     kernel |-> searchKernel, dag |-> dag]
          /\ current' = [job |-> next, start |-> start]
      BY <2>7 DEF OpenCl!Launch
    <3>3. OpenCl!SharesAreFound'
      <4>1. CASE results.gid = -1
        BY <2>7, <4>1 DEF OpenCl!Launch, OpenCl!SharesAreFound, OpenCl!NoShare
      <4>2. CASE results.gid # -1
        BY <2>7, <3>1, <4>2 DEF OpenCl!Launch, OpenCl!SharesAreFound, OfCurrent, Between
      <4>3. QED
        BY <4>1, <4>2
    <3>4. QED
      BY <3>1, <3>2, <3>3 DEF OfCurrent, Between
  <2>8. CASE OpenCl!KernelEnds
    <3>1. /\ device.busy /\ ~device'.busy /\ pc \in {"read", "done"}
          /\ UNCHANGED <<pc, current>> /\ share' = OpenCl!NoShare
      BY <2>8 DEF OpenCl!KernelEnds, OpenCl!IdleDevice, OpenCl!clLocal
    <3>2. PICK gid : buffer' = IF gid = -1 THEN buffer
                               ELSE [gid |-> gid, job |-> device.job,
                                     nonce |-> (device.first + gid) % NonceSpace]
      BY <2>8 DEF OpenCl!KernelEnds
    <3>3. OfCurrent(buffer)'
      <4>1. CASE gid = -1
        BY <3>1, <3>2, <4>1 DEF OfCurrent
      <4>2. CASE gid # -1
        BY <3>1, <3>2, <4>2 DEF OfCurrent
      <4>3. QED
        BY <4>1, <4>2
    <3>4. QED
      BY <3>1, <3>3 DEF OpenCl!SharesAreFound, OpenCl!NoShare, Between
  <2>9. CASE OpenCl!AsyncCompileThrows \/ OpenCl!WorkLoopThrows
    <3>1. pc' = "done" /\ UNCHANGED <<current, results, device, buffer, share>>
      BY <2>9 DEF OpenCl!AsyncCompileThrows, OpenCl!WorkLoopThrows
    <3>2. device.busy => device.job = current.job /\ device.first = current.start
      OBVIOUS
    <3>3. QED
      BY <3>1, <3>2 DEF OfCurrent, OpenCl!SharesAreFound, Between
  <2>10. QED
    BY <2>1, <2>2, <2>3, <2>4, <2>5, <2>6, <2>7, <2>8, <2>9 DEF OpenCl!Next, OpenCl!MinerStep
<1>3. FoundInv => OpenCl!SharesAreFound
  BY DEF FoundInv
<1>4. QED
  BY <1>1, <1>2, <1>3, PTL DEF ClSafety

\* The kernel on the device is of its job's period although the next one is
\* compiled meanwhile, in whatever order the periods come, unless a build failed.
LEMMA ClKernelOfPeriod ==
  ASSUME OpenCl!ClConstants
  PROVE  ClSafety => []OpenCl!KernelOfPeriod
<1>1. OpenCl!Init => ClKernels
  BY DEF OpenCl!Init, ClKernels, OpenCl!KernelOfPeriod, OpenCl!IdleDevice
<1>2. ClTypes /\ ClKernels /\ [OpenCl!Next]_(OpenCl!clVars) => ClKernels'
  <2> SUFFICES ASSUME ClTypes, ClKernels, [OpenCl!Next]_(OpenCl!clVars) PROVE ClKernels'
    OBVIOUS
  <2>0. JobType /\ PeriodType /\ ForwardInv
    BY DEF ClTypes
  <2>00. \A j \in OpenCl!Jobs : OpenCl!PeriodOf(j) \in Nat
    BY ClJobFacts
  <2> USE DEF ClKernels
  <2>1. CASE OpenCl!Called
    <3>1. UNCHANGED <<OpenCl!clLocal, OpenCl!compile, device>>
      BY <2>1 DEF OpenCl!Called
    <3>2. latest' = latest \/ current.job < latest'
      BY <2>0, <2>1, ClJobFacts DEF OpenCl!Called, OpenCl!SetWork, OpenCl!Pause, OpenCl!Stop,
         OpenCl!Resume, JobType
    <3>3. QED
      BY <2>0, <3>1, <3>2, ClJobFacts DEF OpenCl!clLocal, OpenCl!compile,
         OpenCl!KernelOfPeriod, JobType, OpenCl!PeriodOf
  <2>2. CASE OpenCl!InitDevice \/ OpenCl!ReadResults \/ OpenCl!NoWork \/ OpenCl!InitEpoch
    <3>1. /\ UNCHANGED <<latest, next, current, oldPeriod, OpenCl!compile, device>>
          /\ pc' \notin {"launch", "rejoin"}
      BY <2>2 DEF OpenCl!InitDevice, OpenCl!ReadResults, OpenCl!NoWork, OpenCl!InitEpoch,
         OpenCl!shared
    <3>2. QED
      BY <3>1 DEF OpenCl!compile, OpenCl!KernelOfPeriod
  <2>3. CASE OpenCl!NewHeader
    <3>1. /\ work = latest /\ next' = work
          /\ UNCHANGED <<latest, current, oldPeriod, nextKernel, searchKernel, failed, device>>
          /\ (pc' = "launch" => oldPeriod = OpenCl!PeriodOf(work)) /\ pc' # "rejoin"
          /\ (compiler' = "started" \/ UNCHANGED <<nextPeriod, compiler>>)
      BY <2>0, <2>3 DEF OpenCl!NewHeader, JobType, OpenCl!shared
    <3>2. QED
      BY <3>1 DEF OpenCl!KernelOfPeriod, OpenCl!PeriodOf
  <2>4. CASE OpenCl!SameHeader
    <3>1. /\ work = latest /\ work = current.job /\ work # 0 /\ next' = work /\ pc' = "launch"
          /\ UNCHANGED <<latest, current, oldPeriod, OpenCl!compile, device>>
      BY <2>0, <2>4 DEF OpenCl!SameHeader, JobType, OpenCl!shared
    <3>2. QED
      BY <3>1 DEF OpenCl!compile, OpenCl!KernelOfPeriod, OpenCl!PeriodOf
  <2>5. CASE OpenCl!JoinCompiler \/ OpenCl!RejoinCompiler
    <3>1. /\ compiler = "ended" /\ compiler' = "started" /\ current.job # latest
          /\ UNCHANGED <<latest, current, next, nextKernel, failed, device>>
      BY <2>0, <2>5, ClJobFacts
         DEF OpenCl!JoinCompiler, OpenCl!RejoinCompiler, OpenCl!TakeKernel, JobType,
         ForwardInv, OpenCl!shared
    <3>2. \/ /\ oldPeriod' = oldPeriod /\ searchKernel' = searchKernel
             /\ pc' = "rejoin" /\ nextPeriod' = OpenCl!PeriodOf(next)
          \/ /\ oldPeriod' = nextPeriod /\ searchKernel' = nextKernel
             /\ pc' = "read"
      BY <2>5 DEF OpenCl!JoinCompiler, OpenCl!RejoinCompiler, OpenCl!TakeKernel
    <3>3. QED
      BY <3>1, <3>2 DEF OpenCl!KernelOfPeriod, OpenCl!PeriodOf
  <2>6. CASE OpenCl!AsyncCompile
    <3>1. /\ compiler = "started" /\ UNCHANGED <<latest, OpenCl!clLocal, nextPeriod, searchKernel, device>>
          /\ (nextKernel'.period = nextPeriod /\ failed' = failed) \/ failed'
      BY <2>6 DEF OpenCl!AsyncCompile
    <3>2. QED
      BY <3>1 DEF OpenCl!KernelOfPeriod, OpenCl!clLocal, OpenCl!PeriodOf
  <2>7. CASE OpenCl!Launch
    <3>1. /\ pc = "launch" /\ pc' = "read" /\ next \in OpenCl!Jobs /\ next = current'.job
          /\ UNCHANGED <<latest, next, oldPeriod, OpenCl!compile>>
          /\ device' = [busy |-> TRUE, job |-> next, first |-> start,
                        kernel |-> searchKernel, dag |-> dag]
      BY <2>0, <2>7, ClJobFacts DEF OpenCl!Launch, OpenCl!shared, JobType, ForwardInv,
         OpenCl!Jobs
    <3>2. oldPeriod = OpenCl!PeriodOf(next) /\ oldPeriod # -1
      BY <2>00, <3>1
    <3>3. OpenCl!KernelOfPeriod'
      BY <3>1, <3>2 DEF OpenCl!KernelOfPeriod, OpenCl!compile, OpenCl!PeriodOf
    <3>4. QED
      BY <3>1, <3>2, <3>3 DEF OpenCl!compile, OpenCl!PeriodOf
  <2>8. CASE OpenCl!KernelEnds
    <3>1. UNCHANGED <<OpenCl!shared, OpenCl!clLocal, OpenCl!compile>> /\ ~device'.busy
      BY <2>8 DEF OpenCl!KernelEnds, OpenCl!IdleDevice
    <3>2. QED
      BY <3>1 DEF OpenCl!KernelOfPeriod, OpenCl!shared, OpenCl!clLocal, OpenCl!compile,
         OpenCl!PeriodOf
  <2>9. CASE UNCHANGED OpenCl!clVars
    BY <2>9 DEF OpenCl!clVars, OpenCl!KernelOfPeriod, OpenCl!shared, OpenCl!clLocal,
       OpenCl!compile, OpenCl!PeriodOf
  <2>10. CASE OpenCl!AsyncCompileThrows \/ OpenCl!WorkLoopThrows
    <3>1. /\ UNCHANGED <<latest, next, current, oldPeriod, nextPeriod, nextKernel, searchKernel,
                        failed, device>>
          /\ pc' = "done" /\ (compiler' = compiler \/ compiler' = "none")
      BY <2>10 DEF OpenCl!AsyncCompileThrows, OpenCl!WorkLoopThrows, OpenCl!shared, OpenCl!compile
    <3>2. QED
      BY <3>1 DEF OpenCl!KernelOfPeriod, OpenCl!PeriodOf
  <2>11. QED
    BY <2>1, <2>2, <2>3, <2>4, <2>5, <2>6, <2>7, <2>8, <2>9, <2>10
       DEF OpenCl!Next, OpenCl!MinerStep
<1>3. ClKernels => OpenCl!KernelOfPeriod
  BY DEF ClKernels
<1>4. QED
  BY <1>1, <1>2, <1>3, ClTypeCorrect, PTL DEF ClSafety

\* Epochs that do not go back from job to job do not go back at all.
LEMMA EpochsOrdered ==
  ASSUME OpenCl!ClConstants, OpenCl!EpochsGoForward,
         NEW i \in OpenCl!Jobs \cup {0}, NEW j \in OpenCl!Jobs \cup {0}, i <= j
  PROVE  OpenCl!EpochOf(i) <= OpenCl!EpochOf(j)
<1>1. OpenCl!EpochOf(j) \in Nat /\ i \in Nat /\ j \in Nat
  BY ClJobFacts
<1>2. CASE i = 0
  BY <1>1, <1>2 DEF OpenCl!EpochOf
<1>3. CASE i \in OpenCl!Jobs /\ i # 0
  BY <1>1, <1>3 DEF OpenCl!EpochOf, OpenCl!EpochsGoForward
<1>4. QED
  BY <1>2, <1>3 DEF OpenCl!Jobs

\* As long as the pool does not go back to an earlier epoch, the DAG that a kernel
\* reads is of the epoch of its job, or the job is not the latest any more.
LEMMA ClDagOfEpoch ==
  ASSUME OpenCl!ClConstants, OpenCl!EpochsGoForward
  PROVE  ClSafety => []OpenCl!DagOfEpoch
<1>1. OpenCl!Init => DagInv
  BY DEF OpenCl!Init, OpenCl!SharedInit, DagInv, OpenCl!DagOfEpoch, OpenCl!EpochOf,
     OpenCl!IdleDevice
<1>2. ClTypes /\ DagInv /\ [OpenCl!Next]_(OpenCl!clVars) => DagInv'
  <2> SUFFICES ASSUME ClTypes, DagInv, [OpenCl!Next]_(OpenCl!clVars) PROVE DagInv'
    OBVIOUS
  <2>0. JobType /\ PeriodType /\ ForwardInv
    BY DEF ClTypes
  <2>00. \A j \in OpenCl!Jobs \cup {0} : OpenCl!EpochOf(j) \in Nat /\ j \in Nat
    BY ClJobFacts
  <2> USE DEF DagInv
  <2>1. CASE OpenCl!Called
    <3>1. UNCHANGED <<OpenCl!clLocal, dag, device>>
      BY <2>1 DEF OpenCl!Called
    <3>2. CASE OpenCl!SetWork
      <4>1. latest' = latest + 1 /\ latest' \in OpenCl!Jobs /\ flags' = flags
        BY <2>0, <3>2, ClJobFacts DEF OpenCl!SetWork, JobType, OpenCl!Jobs
      <4>2. ctx' = OpenCl!EpochOf(latest') /\ (work' # 0 => flags' = {})
        BY <3>2, <4>1 DEF OpenCl!SetWork
      <4>3. ASSUME NEW j \in 0..latest
            PROVE  /\ OpenCl!EpochOf(j) <= OpenCl!EpochOf(latest)
                   /\ OpenCl!EpochOf(latest) <= OpenCl!EpochOf(latest')
        <5>1. j \in OpenCl!Jobs \cup {0} /\ j <= latest /\ latest <= latest' /\ latest \in OpenCl!Jobs \cup {0}
          BY <2>0, <2>00, <4>1, ClJobFacts DEF JobType, OpenCl!Jobs
        <5>2. QED
          BY <4>1, <5>1, EpochsOrdered
      <4>4. OpenCl!EpochOf(latest) \in Nat /\ OpenCl!EpochOf(latest') \in Nat /\ latest \in Nat
            /\ OpenCl!EpochOf(latest) <= OpenCl!EpochOf(latest')
        BY <2>0, <2>00, <4>1, <4>3 DEF JobType
      <4>5. oldEpoch' <= OpenCl!EpochOf(latest') /\ oldEpoch' \in Nat
            /\ (dag' = oldEpoch' \/ oldEpoch' # OpenCl!EpochOf(latest') \/ Paused')
        BY <3>1, <4>1, <4>4 DEF OpenCl!clLocal, Paused
      <4>6. ~(current'.job = latest')
        BY <2>0, <3>1, <4>1, <4>4 DEF OpenCl!clLocal, JobType
      <4>7. pc' = "launch" => /\ oldEpoch' = OpenCl!EpochOf(next')
                              /\ dag' = OpenCl!EpochOf(next') \/ OpenCl!EpochOf(latest') # OpenCl!EpochOf(next')
        <5>1. OpenCl!EpochOf(next) <= OpenCl!EpochOf(latest) /\ OpenCl!EpochOf(next) \in Nat
          BY <2>0, <2>00, <4>3, ClJobFacts DEF JobType, OpenCl!Jobs
        <5>2. QED
          BY <3>1, <4>4, <5>1 DEF OpenCl!clLocal
      <4>8. device'.busy => device'.job \in 0..latest'
        BY <3>1, <4>1, <4>4
      <4>9. OpenCl!DagOfEpoch'
        <5>1. ASSUME device.busy
              PROVE  /\ OpenCl!EpochOf(device.job) <= OpenCl!EpochOf(latest)
                     /\ OpenCl!EpochOf(device.job) \in Nat
          <6>1. device.job \in 0..latest /\ device.job \in OpenCl!Jobs \cup {0}
            BY <2>0, <5>1, ClJobFacts DEF JobType, OpenCl!Jobs
          <6>2. QED
            BY <2>00, <4>3, <6>1
        <5>2. QED
          BY <3>1, <4>4, <5>1 DEF OpenCl!DagOfEpoch
      <4>10. QED
        BY <4>2, <4>5, <4>6, <4>7, <4>8, <4>9
    <3>3. CASE OpenCl!Pause \/ OpenCl!Stop \/ OpenCl!Resume
      <4>1. UNCHANGED <<latest, ctx>> /\ (Paused => Paused')
        BY <3>3 DEF OpenCl!Pause, OpenCl!SetPause, OpenCl!Stop, OpenCl!Resume, Paused
      <4>2. work' # 0 => flags' = {}
        BY <3>3 DEF OpenCl!Pause, OpenCl!SetPause, OpenCl!Stop, OpenCl!Resume
      <4>3. QED
        BY <3>1, <4>1, <4>2 DEF OpenCl!clLocal, OpenCl!DagOfEpoch
    <3>4. QED
      BY <2>1, <3>2, <3>3 DEF OpenCl!Called
  <2>2. CASE OpenCl!InitDevice \/ OpenCl!ReadResults \/ OpenCl!NoWork \/ OpenCl!JoinCompiler \/ OpenCl!RejoinCompiler
    <3>1. /\ UNCHANGED <<OpenCl!shared, next, current, oldEpoch, dag, device>>
          /\ pc' # "launch"
      BY <2>2 DEF OpenCl!InitDevice, OpenCl!ReadResults, OpenCl!NoWork, OpenCl!JoinCompiler,
         OpenCl!RejoinCompiler, OpenCl!TakeKernel
    <3>2. QED
      BY <3>1 DEF OpenCl!shared, OpenCl!DagOfEpoch, Paused
  <2>3. CASE OpenCl!NewHeader \/ OpenCl!SameHeader
    <3>1. /\ work = latest /\ next' = work /\ work # 0
          /\ UNCHANGED <<OpenCl!shared, current, oldEpoch, dag, device>>
      BY <2>0, <2>3 DEF OpenCl!NewHeader, OpenCl!SameHeader, JobType
    <3>2. pc' = "launch" => oldEpoch = OpenCl!EpochOf(latest)
      BY <2>3, <3>1 DEF OpenCl!NewHeader, OpenCl!SameHeader
    <3>3. ~Paused
      BY <3>1 DEF Paused
    <3>4. QED
      BY <3>1, <3>2, <3>3 DEF OpenCl!shared, OpenCl!DagOfEpoch, Paused
  <2>4. CASE OpenCl!AsyncCompile
    <3>1. UNCHANGED <<latest, ctx, OpenCl!clLocal, dag, device>> /\ (Paused => Paused')
      BY <2>4 DEF OpenCl!AsyncCompile, OpenCl!SetPause, Paused
    <3>2. work' # 0 => flags' = {}
      BY <2>4 DEF OpenCl!AsyncCompile, OpenCl!SetPause
    <3>3. QED
      BY <3>1, <3>2 DEF OpenCl!clLocal, OpenCl!DagOfEpoch
  <2>5. CASE OpenCl!InitEpoch
    <3>1. /\ pc = "initEpoch" /\ pc' # "launch" /\ UNCHANGED <<latest, ctx, next, current, device>>
      BY <2>5 DEF OpenCl!InitEpoch
    <3>2. next \in OpenCl!Jobs /\ next <= latest /\ current.job # latest /\ latest \in OpenCl!Jobs
      BY <2>0, <3>1, ClJobFacts DEF JobType, ForwardInv, OpenCl!Jobs
    <3>3. OpenCl!EpochOf(next) <= OpenCl!EpochOf(latest) /\ OpenCl!EpochOf(next) \in Nat
      BY <2>00, <3>2, EpochsOrdered
    <3>4. work' # 0 => flags' = {}
      BY <2>5 DEF OpenCl!InitEpoch
    <3>5. /\ oldEpoch' \in {oldEpoch, OpenCl!EpochOf(next)}
          /\ (dag' = ctx /\ oldEpoch' = OpenCl!EpochOf(next)) \/ Paused'
      <4>1. CASE /\ flags' = flags \ {"memory", "error"}
                 /\ dag' = ctx /\ pc' = "read" /\ oldEpoch' = OpenCl!EpochOf(next)
        BY <4>1
      <4>2. CASE /\ flags' = (flags \ {"error"}) \cup {"memory"} /\ work' = 0
                 /\ pc' = "read" /\ oldEpoch' = OpenCl!EpochOf(next)
        BY <4>2 DEF Paused
      <4>3. CASE /\ flags' = (flags \ {"memory"}) \cup {"error"} /\ work' = 0
                 /\ (oldEpoch' = OpenCl!EpochOf(next) \/ oldEpoch' = oldEpoch)
        BY <4>3 DEF Paused
      <4>4. QED
        BY <2>5, <4>1, <4>2, <4>3, Zenon DEF OpenCl!InitEpoch
    <3>6. QED
      BY <3>1, <3>2, <3>3, <3>4, <3>5 DEF OpenCl!DagOfEpoch
  <2>6. CASE OpenCl!Launch
    <3>1. /\ pc = "launch" /\ pc' = "read" /\ next \in 0..latest
          /\ UNCHANGED <<OpenCl!shared, next, oldEpoch, dag>>
          /\ current'.job = next
          /\ device' = [busy |-> TRUE, job |-> next, first |-> start,
                        kernel |-> searchKernel, dag |-> dag]
      BY <2>0, <2>6 DEF OpenCl!Launch, JobType
    <3>2. QED
      BY <3>1 DEF OpenCl!shared, OpenCl!DagOfEpoch, Paused
  <2>7. CASE OpenCl!KernelEnds
    <3>1. UNCHANGED <<OpenCl!shared, OpenCl!clLocal, dag>> /\ ~device'.busy
      BY <2>7 DEF OpenCl!KernelEnds, OpenCl!IdleDevice
    <3>2. QED
      BY <3>1 DEF OpenCl!shared, OpenCl!clLocal, OpenCl!DagOfEpoch, Paused
  <2>8. CASE UNCHANGED OpenCl!clVars
    BY <2>8 DEF OpenCl!clVars, OpenCl!shared, OpenCl!clLocal, OpenCl!DagOfEpoch, Paused
  <2>9. CASE OpenCl!AsyncCompileThrows \/ OpenCl!WorkLoopThrows
    <3>1. UNCHANGED <<OpenCl!shared, next, current, oldEpoch, dag, device>> /\ pc' = "done"
      BY <2>9 DEF OpenCl!AsyncCompileThrows, OpenCl!WorkLoopThrows
    <3>2. QED
      BY <3>1 DEF OpenCl!shared, OpenCl!DagOfEpoch, Paused
  <2>10. QED
    BY <2>1, <2>2, <2>3, <2>4, <2>5, <2>6, <2>7, <2>8, <2>9 DEF OpenCl!Next, OpenCl!MinerStep
<1>3. DagInv => OpenCl!DagOfEpoch
  BY DEF DagInv
<1>4. QED
  BY <1>1, <1>2, <1>3, ClTypeCorrect, PTL DEF ClSafety

(***************************************************************************)
(* The composition: a behaviour whose driver is CUDA or OpenCL is one of   *)
(* that module, and the driver never changes.                              *)
(***************************************************************************)
\* A CUDA miner's behaviour.
LEMMA CudaBehaviour == Spec /\ kind = "cuda" => CudaSafety /\ [](kind = "cuda")
<1>1. Init => Cuda!Init
  BY DEF Init
<1>2. kind = "cuda" /\ [Next]_vars => (kind = "cuda")' /\ [Cuda!Next]_(Cuda!cudaVars)
  BY DEF Next, vars
<1>3. QED
  BY <1>1, <1>2, PTL DEF Spec, CudaSafety

\* An OpenCL miner's behaviour.
LEMMA ClBehaviour == Spec /\ kind = "cl" => ClSafety /\ [](kind = "cl")
<1>1. Init => OpenCl!Init
  BY DEF Init
<1>2. kind = "cl" /\ [Next]_vars => (kind = "cl")' /\ [OpenCl!Next]_(OpenCl!clVars)
  <2>1. CASE UNCHANGED vars
    BY <2>1 DEF vars, notCuda, Cuda!cudaVars, Cuda!shared, Cuda!local, Cuda!compile,
       Cuda!searching, OpenCl!clVars, OpenCl!shared, OpenCl!clLocal, OpenCl!compile
  <2>2. QED
    BY <2>1 DEF Next
<1>3. QED
  BY <1>1, <1>2, PTL DEF Spec, ClSafety

\* No other behaviour becomes one.
LEMMA OtherKinds ==
  /\ Spec => kind = "cuda" \/ []~(kind = "cuda")
  /\ Spec => kind = "cl" \/ []~(kind = "cl")
<1>1. [Next]_vars => kind' = kind
  BY DEF Next, vars
<1>2. /\ ~(kind = "cuda") /\ [Next]_vars => ~(kind = "cuda")'
      /\ ~(kind = "cl") /\ [Next]_vars => ~(kind = "cl")'
  BY <1>1
<1>3. QED
  BY <1>2, PTL DEF Spec

\* CUDAMiner::search and CLMiner::workLoop submit only nonces that the device
\* found, for the job it found them for.
THEOREM MinersSharesAreFound == Spec => []SharesAreFound
<1>1. Spec /\ kind = "cuda" => []Cuda!SharesAreFound
  BY CudaBehaviour, CudaSharesAreFound, MinersAssumption, PTL
<1>2. Spec /\ kind = "cl" => []OpenCl!SharesAreFound
  BY ClBehaviour, ClSharesAreFound, PTL
<1>3. /\ ~(kind = "cuda") \/ Cuda!SharesAreFound
      /\ ~(kind = "cl") \/ OpenCl!SharesAreFound
      => SharesAreFound
  BY DEF SharesAreFound
<1>4. QED
  BY <1>1, <1>2, <1>3, OtherKinds, PTL

\* When CUDAMiner::search returns, unless because the miner is to stop, every
\* stream was waited for and its result taken.
THEOREM MinersNothingLeftRunning == Spec => []NothingLeftRunning
<1>1. Spec /\ kind = "cuda" => []Cuda!NothingLeftRunning
  BY CudaBehaviour, CudaNothingLeftRunning, MinersAssumption, PTL
<1>2. ~(kind = "cuda") \/ Cuda!NothingLeftRunning => NothingLeftRunning
  BY DEF NothingLeftRunning
<1>3. QED
  BY <1>1, <1>2, OtherKinds, PTL

\* The kernel on the device is of its job's period, with CUDA until a period is
\* skipped and with OpenCL also then, unless a build failed; and the DAG CLMiner
\* searches is of its job's epoch if epochs do not go back.
THEOREM MinersKernelOfPeriod ==
  ASSUME OpenCl!EpochsGoForward
  PROVE  Spec => []KernelOfPeriod
<1>1. Spec /\ kind = "cuda" => []Cuda!KernelOfPeriod
  BY CudaBehaviour, CudaKernelOfPeriod, MinersAssumption, PTL
<1>2. Spec /\ kind = "cl" => []OpenCl!KernelOfPeriod /\ []OpenCl!DagOfEpoch
  BY ClBehaviour, ClKernelOfPeriod, ClDagOfEpoch, MinersAssumption, PTL
<1>3. /\ ~(kind = "cuda") \/ Cuda!KernelOfPeriod
      /\ ~(kind = "cl") \/ (OpenCl!KernelOfPeriod /\ OpenCl!DagOfEpoch)
      => KernelOfPeriod
  BY DEF KernelOfPeriod
<1>4. QED
  BY <1>1, <1>2, <1>3, OtherKinds, PTL

=============================================================================
