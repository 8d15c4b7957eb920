--------------------------- MODULE ThreadsProofs ---------------------------
(***************************************************************************)
(* TLAPS proofs about Worker, for every set of callers.  The weak          *)
(* compare-exchanges are assumed not to fail spuriously, as on x86, the    *)
(* architecture the miner is built for: a spurious failure of the thread's *)
(* claim really can lose the destructor's request.                         *)
(*                                                                         *)
(* The second part is about EpochContexts, for every set of threads,       *)
(* addresses, items and epochs.                                            *)
(***************************************************************************)
EXTENDS Worker, EpochContexts, FiniteSetTheorems, TLAPS

\* The mutex x_work is held exactly by the caller that spins or joins, and the
\* object is destroyed for all its users at once.
MutexInv ==
  /\ \A c \in Callers : cpc[c] \in {"startWorking", "stopWorking", "join"} => x_work = c
  /\ x_work # NoCaller => cpc[x_work] \in {"startWorking", "stopWorking", "join"}
  /\ \A c, d \in Callers : cpc[c] = "destroyed" => cpc[d] = "destroyed"

\* Which values of m_state the thread can find at each of its steps; only
\* Killing is ever put back, and a thread object stands for a created thread.
ThreadInv ==
  /\ tpc = "none" => m_state = "Starting" /\ ~m_work
  /\ tpc \in {"while", "claim"} => m_state \in {"Starting", "Killing"}
  /\ tpc \in {"workLoop", "exchange"} => m_state \in {"Started", "Stopping", "Killing"}
  /\ tpc = "restore" => m_state = "Stopped" /\ ex = "Killing"
  /\ tpc = "sleep" => m_state \in {"Stopped", "Starting", "Killing"}
  /\ tpc = "exited" => m_state = "Killing"

\* Killing is in m_state, or in the thread's hand, exactly from the destructor's
\* exchange on: nobody but the destructor is then inside the object.
KillInv ==
  /\ m_state = "Killing" \/ tpc = "restore" =>
       \/ x_work # NoCaller /\ cpc[x_work] = "join"
       \/ \A c \in Callers : cpc[c] = "destroyed"
  /\ \A c \in Callers : cpc[c] = "join" => m_state = "Killing" \/ tpc = "restore"

\* After stopWorking returned the thread sleeps, or is on its way out.
QuietInv ==
  quiet => \/ m_state = "Stopped" /\ tpc = "sleep"
           \/ m_state = "Killing" /\ tpc \in {"sleep", "while", "exited"}

IInv == TypeOK /\ MutexInv /\ ThreadInv /\ KillInv /\ QuietInv

-----------------------------------------------------------------------------
\* Every variable keeps the type its declaration in Worker.h gives it, whatever
\* the callers do and also when compare_exchange_weak fails spuriously.
THEOREM WorkerTypeCorrect == Spec => []TypeOK
<1>1. Init => TypeOK
  BY WorkerAssumption DEF Init, TypeOK, WorkerState, CallerPC, ThreadPC
<1>2. TypeOK /\ [Next]_vars => TypeOK'
  <2> SUFFICES ASSUME TypeOK, [Next]_vars PROVE TypeOK'
    OBVIOUS
  <2> USE WorkerAssumption DEF TypeOK, WorkerState, CallerPC, ThreadPC
  <2>1. ASSUME NEW c \in Callers, StartWorking(c) PROVE TypeOK'
    BY <2>1 DEF StartWorking, Enter, CompareExchangeWeak
  <2>2. ASSUME NEW c \in Callers, StartReturns(c) PROVE TypeOK'
    BY <2>2 DEF StartReturns, Return
  <2>3. ASSUME NEW c \in Callers, TriggerStopWorking(c) PROVE TypeOK'
    BY <2>3 DEF TriggerStopWorking, CompareExchangeWeak
  <2>4. ASSUME NEW c \in Callers, StopWorking(c) PROVE TypeOK'
    BY <2>4 DEF StopWorking, Enter, CompareExchangeWeak
  <2>5. ASSUME NEW c \in Callers, StopReturns(c) PROVE TypeOK'
    BY <2>5 DEF StopReturns, Return
  <2>6. ASSUME NEW c \in Callers, Destroy(c) PROVE TypeOK'
    BY <2>6 DEF Destroy
  <2>7. ASSUME NEW c \in Callers, DestroyReturns(c) PROVE TypeOK'
    BY <2>7 DEF DestroyReturns
  <2>8. CASE ThreadWhile
    BY <2>8 DEF ThreadWhile
  <2>9. CASE ThreadClaim
    BY <2>9 DEF ThreadClaim, CompareExchangeWeak
  <2>10. CASE WorkLoopReturns
    BY <2>10 DEF WorkLoopReturns
  <2>11. CASE WorkLoopThrows
    BY <2>11 DEF WorkLoopThrows
  <2>12. CASE ThreadExchange
    BY <2>12 DEF ThreadExchange
  <2>13. CASE ThreadRestore
    BY <2>13 DEF ThreadRestore
  <2>14. CASE ThreadSleepEnds
    BY <2>14 DEF ThreadSleepEnds
  <2>15. CASE Gone \/ UNCHANGED vars
    BY <2>15 DEF Gone, vars
  <2>16. QED
    BY <2>1, <2>2, <2>3, <2>4, <2>5, <2>6, <2>7, <2>8, <2>9, <2>10, <2>11,
       <2>12, <2>13, <2>14, <2>15 DEF Next, CallerStep, ThreadStep
<1>3. QED
  BY <1>1, <1>2, PTL DEF Spec

\* The strengthening is inductive: each step of a caller or of the thread keeps
\* the mutex, thread, kill and quiet parts together.
LEMMA WorkerInductive ==
  ASSUME WeakCASMayFail = FALSE
  PROVE  Spec => []IInv
<1>1. Init => IInv
  BY WorkerAssumption DEF Init, IInv, TypeOK, MutexInv, ThreadInv, KillInv, QuietInv,
     WorkerState, CallerPC, ThreadPC
<1>2. TypeOK' /\ IInv /\ [Next]_vars => IInv'
  <2> SUFFICES ASSUME TypeOK', IInv, [Next]_vars PROVE MutexInv' /\ ThreadInv' /\ KillInv' /\ QuietInv'
    BY DEF IInv
  <2> USE WorkerAssumption DEF IInv, TypeOK, WorkerState, CallerPC, ThreadPC
  <2>1. ASSUME NEW c \in Callers, StartWorking(c)
        PROVE  MutexInv' /\ ThreadInv' /\ KillInv' /\ QuietInv'
    <3>1. MutexInv'
      BY <2>1 DEF StartWorking, Lock, Enter, CompareExchangeWeak, MutexInv
    <3>2. ThreadInv'
      BY <2>1 DEF StartWorking, Lock, Enter, CompareExchangeWeak, ThreadInv, KillInv, MutexInv
    <3>3. KillInv'
      BY <2>1 DEF StartWorking, Lock, Enter, CompareExchangeWeak, KillInv, ThreadInv, MutexInv
    <3>4. QuietInv'
      BY <2>1 DEF StartWorking, Lock, Enter, CompareExchangeWeak, QuietInv, ThreadInv, KillInv, MutexInv
    <3>5. QED BY <3>1, <3>2, <3>3, <3>4
  <2>2. ASSUME NEW c \in Callers, StartReturns(c)
        PROVE  MutexInv' /\ ThreadInv' /\ KillInv' /\ QuietInv'
    <3>1. MutexInv'
      BY <2>2 DEF StartReturns, Return, MutexInv
    <3>2. ThreadInv'
      BY <2>2 DEF StartReturns, Return, ThreadInv, KillInv, MutexInv
    <3>3. KillInv'
      BY <2>2 DEF StartReturns, Return, KillInv, ThreadInv, MutexInv
    <3>4. QuietInv'
      BY <2>2 DEF StartReturns, Return, QuietInv, ThreadInv, KillInv, MutexInv
    <3>5. QED BY <3>1, <3>2, <3>3, <3>4
  <2>3. ASSUME NEW c \in Callers, TriggerStopWorking(c)
        PROVE  MutexInv' /\ ThreadInv' /\ KillInv' /\ QuietInv'
    <3>1. MutexInv'
      BY <2>3 DEF TriggerStopWorking, Lock, CompareExchangeWeak, MutexInv
    <3>2. ThreadInv'
      BY <2>3 DEF TriggerStopWorking, Lock, CompareExchangeWeak, ThreadInv, KillInv, MutexInv
    <3>3. KillInv'
      BY <2>3 DEF TriggerStopWorking, Lock, CompareExchangeWeak, KillInv, ThreadInv, MutexInv
    <3>4. QuietInv'
      BY <2>3 DEF TriggerStopWorking, Lock, CompareExchangeWeak, QuietInv, ThreadInv, KillInv, MutexInv
    <3>5. QED BY <3>1, <3>2, <3>3, <3>4
  <2>4. ASSUME NEW c \in Callers, StopWorking(c)
        PROVE  MutexInv' /\ ThreadInv' /\ KillInv' /\ QuietInv'
    <3>1. MutexInv'
      BY <2>4 DEF StopWorking, Lock, Enter, CompareExchangeWeak, MutexInv
    <3>2. ThreadInv'
      BY <2>4 DEF StopWorking, Lock, Enter, CompareExchangeWeak, ThreadInv, KillInv, MutexInv
    <3>3. KillInv'
      BY <2>4 DEF StopWorking, Lock, Enter, CompareExchangeWeak, KillInv, ThreadInv, MutexInv
    <3>4. QuietInv'
      BY <2>4 DEF StopWorking, Lock, Enter, CompareExchangeWeak, QuietInv, ThreadInv, KillInv, MutexInv
    <3>5. QED BY <3>1, <3>2, <3>3, <3>4
  <2>5. ASSUME NEW c \in Callers, StopReturns(c)
        PROVE  MutexInv' /\ ThreadInv' /\ KillInv' /\ QuietInv'
    <3>1. MutexInv'
      BY <2>5 DEF StopReturns, Return, MutexInv
    <3>2. ThreadInv'
      BY <2>5 DEF StopReturns, Return, ThreadInv, KillInv, MutexInv
    <3>3. KillInv'
      BY <2>5 DEF StopReturns, Return, KillInv, ThreadInv, MutexInv
    <3>4. QuietInv'
      BY <2>5 DEF StopReturns, Return, QuietInv, ThreadInv, KillInv, MutexInv
    <3>5. QED BY <3>1, <3>2, <3>3, <3>4
  <2>6. ASSUME NEW c \in Callers, Destroy(c)
        PROVE  MutexInv' /\ ThreadInv' /\ KillInv' /\ QuietInv'
    <3>1. MutexInv'
      BY <2>6 DEF Destroy, Lock, MutexInv
    <3>2. ThreadInv'
      BY <2>6 DEF Destroy, Lock, ThreadInv, KillInv, MutexInv
    <3>3. KillInv'
      BY <2>6 DEF Destroy, Lock, KillInv, ThreadInv, MutexInv
    <3>4. QuietInv'
      BY <2>6 DEF Destroy, Lock, QuietInv, ThreadInv, KillInv, MutexInv
    <3>5. QED BY <3>1, <3>2, <3>3, <3>4
  <2>7. ASSUME NEW c \in Callers, DestroyReturns(c)
        PROVE  MutexInv' /\ ThreadInv' /\ KillInv' /\ QuietInv'
    <3>1. MutexInv'
      BY <2>7 DEF DestroyReturns, MutexInv
    <3>2. ThreadInv'
      BY <2>7 DEF DestroyReturns, ThreadInv, KillInv, MutexInv
    <3>3. KillInv'
      BY <2>7 DEF DestroyReturns, KillInv, ThreadInv, MutexInv
    <3>4. QuietInv'
      BY <2>7 DEF DestroyReturns, QuietInv, ThreadInv, KillInv, MutexInv
    <3>5. QED BY <3>1, <3>2, <3>3, <3>4
  <2>8. ASSUME ThreadWhile
        PROVE  MutexInv' /\ ThreadInv' /\ KillInv' /\ QuietInv'
    <3>1. MutexInv'
      BY <2>8 DEF ThreadWhile, MutexInv
    <3>2. ThreadInv'
      BY <2>8 DEF ThreadWhile, ThreadInv, KillInv, MutexInv
    <3>3. KillInv'
      BY <2>8 DEF ThreadWhile, KillInv, ThreadInv, MutexInv
    <3>4. QuietInv'
      BY <2>8 DEF ThreadWhile, QuietInv, ThreadInv, KillInv, MutexInv
    <3>5. QED BY <3>1, <3>2, <3>3, <3>4
  <2>9. ASSUME ThreadClaim
        PROVE  MutexInv' /\ ThreadInv' /\ KillInv' /\ QuietInv'
    <3>1. MutexInv'
      BY <2>9 DEF ThreadClaim, CompareExchangeWeak, MutexInv
    <3>2. ThreadInv'
      BY <2>9 DEF ThreadClaim, CompareExchangeWeak, ThreadInv, KillInv, MutexInv
    <3>3. KillInv'
      BY <2>9 DEF ThreadClaim, CompareExchangeWeak, KillInv, ThreadInv, MutexInv
    <3>4. QuietInv'
      BY <2>9 DEF ThreadClaim, CompareExchangeWeak, QuietInv, ThreadInv, KillInv, MutexInv
    <3>5. QED BY <3>1, <3>2, <3>3, <3>4
  <2>10. ASSUME WorkLoopReturns
        PROVE  MutexInv' /\ ThreadInv' /\ KillInv' /\ QuietInv'
    <3>1. MutexInv'
      BY <2>10 DEF WorkLoopReturns, MutexInv
    <3>2. ThreadInv'
      BY <2>10 DEF WorkLoopReturns, ThreadInv, KillInv, MutexInv
    <3>3. KillInv'
      BY <2>10 DEF WorkLoopReturns, KillInv, ThreadInv, MutexInv
    <3>4. QuietInv'
      BY <2>10 DEF WorkLoopReturns, QuietInv, ThreadInv, KillInv, MutexInv
    <3>5. QED BY <3>1, <3>2, <3>3, <3>4
  <2>11. ASSUME WorkLoopThrows
        PROVE  MutexInv' /\ ThreadInv' /\ KillInv' /\ QuietInv'
    <3>1. MutexInv'
      BY <2>11 DEF WorkLoopThrows, MutexInv
    <3>2. ThreadInv'
      BY <2>11 DEF WorkLoopThrows, ThreadInv, KillInv, MutexInv
    <3>3. KillInv'
      BY <2>11 DEF WorkLoopThrows, KillInv, ThreadInv, MutexInv
    <3>4. QuietInv'
      BY <2>11 DEF WorkLoopThrows, QuietInv, ThreadInv, KillInv, MutexInv
    <3>5. QED BY <3>1, <3>2, <3>3, <3>4
  <2>12. ASSUME ThreadExchange
        PROVE  MutexInv' /\ ThreadInv' /\ KillInv' /\ QuietInv'
    <3>1. MutexInv'
      BY <2>12 DEF ThreadExchange, MutexInv
    <3>2. ThreadInv'
      BY <2>12 DEF ThreadExchange, ThreadInv, KillInv, MutexInv
    <3>3. KillInv'
      BY <2>12 DEF ThreadExchange, KillInv, ThreadInv, MutexInv
    <3>4. QuietInv'
      BY <2>12 DEF ThreadExchange, QuietInv, ThreadInv, KillInv, MutexInv
    <3>5. QED BY <3>1, <3>2, <3>3, <3>4
  <2>13. ASSUME ThreadRestore
        PROVE  MutexInv' /\ ThreadInv' /\ KillInv' /\ QuietInv'
    <3>1. MutexInv'
      BY <2>13 DEF ThreadRestore, MutexInv
    <3>2. ThreadInv'
      BY <2>13 DEF ThreadRestore, ThreadInv, KillInv, MutexInv
    <3>3. KillInv'
      BY <2>13 DEF ThreadRestore, KillInv, ThreadInv, MutexInv
    <3>4. QuietInv'
      BY <2>13 DEF ThreadRestore, QuietInv, ThreadInv, KillInv, MutexInv
    <3>5. QED BY <3>1, <3>2, <3>3, <3>4
  <2>14. ASSUME ThreadSleepEnds
        PROVE  MutexInv' /\ ThreadInv' /\ KillInv' /\ QuietInv'
    <3>1. MutexInv'
      BY <2>14 DEF ThreadSleepEnds, MutexInv
    <3>2. ThreadInv'
      BY <2>14 DEF ThreadSleepEnds, ThreadInv, KillInv, MutexInv
    <3>3. KillInv'
      BY <2>14 DEF ThreadSleepEnds, KillInv, ThreadInv, MutexInv
    <3>4. QuietInv'
      BY <2>14 DEF ThreadSleepEnds, QuietInv, ThreadInv, KillInv, MutexInv
    <3>5. QED BY <3>1, <3>2, <3>3, <3>4
  <2>15. CASE Gone \/ UNCHANGED vars
    BY <2>15 DEF Gone, vars, MutexInv, ThreadInv, KillInv, QuietInv
  <2>16. QED
    BY <2>1, <2>2, <2>3, <2>4, <2>5, <2>6, <2>7, <2>8, <2>9, <2>10, <2>11,
       <2>12, <2>13, <2>14, <2>15 DEF Next, CallerStep, ThreadStep
<1>3. QED
  BY <1>1, <1>2, WorkerTypeCorrect, PTL DEF Spec

\* stopWorking "waits till thread has stopped": once it has returned, and until
\* the next startWorking, no interleaving of any number of callers has the
\* thread inside workLoop().
THEOREM WorkerQuiet ==
  ASSUME WeakCASMayFail = FALSE
  PROVE  Spec => []StoppedMeansQuiet
<1>1. IInv => StoppedMeansQuiet
  BY DEF IInv, QuietInv, StoppedMeansQuiet
<1>2. QED
  BY <1>1, WorkerInductive, PTL

\* The thread's exchange(Stopped) and its putting back never lose the
\* destructor's Killing, so join() waits for a thread that will see it.
THEOREM WorkerKillNotLost ==
  ASSUME WeakCASMayFail = FALSE
  PROVE  Spec => []KillNotLost
<1>1. IInv => KillNotLost
  BY DEF IInv, KillInv, ThreadInv, KillNotLost
<1>2. QED
  BY <1>1, WorkerInductive, PTL

-----------------------------------------------------------------------------
(* The epoch contexts, for any number of hashing threads, addresses, items *)
(* and epochs.                                                             *)

ItemStates == {"zero", "torn", "whole"}
Contexts == [epoch : Int, item : [Items -> ItemStates]]

\* The types of the contexts and of the threads that use them.
ContextsTypeOK ==
  /\ ctx \in [Addresses -> Contexts]
  /\ shared \in Addresses \cup {Null} /\ mutex \in Threads \cup {Null}
  /\ local \in [Threads -> Addresses \cup {Null}]
  /\ pc \in [Threads -> {"idle", "wait", "build", "use", "write", "writing", "null", "ended"}]
  /\ want \in [Threads -> Epochs] /\ at \in [Threads -> Items]

\* The mutex is held by the thread that builds, while there is no shared
\* context; a thread on the slow path has given up its own.
LockInv ==
  /\ \A t \in Threads : pc[t] = "build" => mutex = t /\ shared = Null
  /\ mutex # Null => pc[mutex] = "build"
  /\ \A t \in Threads : pc[t] \in {"wait", "build"} => local[t] = Null

\* A thread that hashes has a context of its epoch.
UseInv ==
  \A t \in Threads : Hashing(t) => local[t] \in Addresses /\ ctx[local[t]].epoch = want[t]

\* The shared context is some thread's too, or some thread has none.
SharedInv ==
  shared # Null => \E t \in Threads : local[t] = shared \/ local[t] = Null

\* An item with a first word and no others has a thread that stores it.
ItemsInv ==
  \A a \in Addresses, i \in Items :
    \/ a \notin Alive
    \/ ctx[a].item[i] \in {"zero", "whole"}
    \/ \E t \in Threads : pc[t] = "writing" /\ local[t] = a /\ at[t] = i

\* The items of the L1 cache are there from the start.
L1Inv == \A a \in Addresses, i \in L1 : a \in Alive => ctx[a].item[i] = "whole"

\* What find_epoch_number remembers is a pair.
FindInv ==
  /\ cachedSeed \in Int /\ cachedEpoch = cachedSeed
  /\ \/ answer.epoch = answer.seed
     \/ answer.epoch = -1 /\ answer.seed \notin Epochs

ContextsInv == ContextsTypeOK /\ LockInv /\ UseInv /\ SharedInv /\ ItemsInv /\ L1Inv /\ FindInv

\* What is reached from a finite set is not more than it.
LEMMA ImageBound ==
  ASSUME NEW S, IsFiniteSet(S), NEW f, NEW T, T \subseteq {f[x] : x \in S}
  PROVE  IsFiniteSet(T) /\ Cardinality(T) \in Nat /\ Cardinality(T) <= Cardinality(S)
<1> DEFINE U == {f[x] : x \in S}
           g == [x \in S |-> f[x]]
<1>1. g \in Surjection(S, U)
  BY DEF Surjection
<1>2. IsFiniteSet(U) /\ Cardinality(U) <= Cardinality(S)
  BY <1>1, FS_Surjection
<1>3. T \in SUBSET U
  OBVIOUS
<1>4. IsFiniteSet(T) /\ Cardinality(T) <= Cardinality(U)
  BY <1>2, <1>3, FS_Subset
<1>5. Cardinality(T) \in Nat /\ Cardinality(U) \in Nat /\ Cardinality(S) \in Nat
  BY <1>2, <1>4, FS_CardinalityType
<1>. QED  BY <1>2, <1>4, <1>5

\* The invariant bounds the contexts that exist: the one that builds has none,
\* and the shared one stands for a thread that has it or has none.
LEMMA ContextsBounded ==
  ContextsInv => Cardinality(Alive) + Cardinality(Building) <= Cardinality(Threads)
<1> SUFFICES ASSUME ContextsInv
             PROVE  Cardinality(Alive) + Cardinality(Building) <= Cardinality(Threads)
  OBVIOUS
<1>1. IsFiniteSet(Threads) /\ Cardinality(Threads) \in Nat /\ Null \notin Addresses \cup Threads
  BY EpochAssumption, FS_CardinalityType
<1>2. CASE \E t \in Threads : pc[t] = "build"
  <2>1. PICK t \in Threads : pc[t] = "build"
    BY <1>2
  <2>2. mutex = t /\ shared = Null /\ local[t] = Null
    BY <2>1 DEF ContextsInv, LockInv
  <2>3. Building = {t}
    BY <2>1, <2>2 DEF Building, ContextsInv, LockInv
  <2>4. Cardinality(Building) = 1
    BY <2>3, FS_Singleton
  <2> DEFINE R == Threads \ {t}
  <2>5. IsFiniteSet(R) /\ Cardinality(R) = Cardinality(Threads) - 1
    BY <1>1, FS_RemoveElement
  <2>6. Alive \subseteq {local[x] : x \in R}
    BY <2>2 DEF Alive, Held
  <2>7. Cardinality(Alive) \in Nat /\ Cardinality(Alive) <= Cardinality(R)
    BY <2>5, <2>6, ImageBound
  <2>. QED  BY <1>1, <2>4, <2>5, <2>7
<1>3. CASE ~\E t \in Threads : pc[t] = "build"
  <2>1. Building = {}
    BY <1>3 DEF Building
  <2>2. Cardinality(Building) = 0
    BY <2>1, FS_EmptySet
  <2>3. \E f : Alive \subseteq {f[x] : x \in Threads}
    <3>1. CASE shared = Null \/ \E t \in Threads : local[t] = shared
      <4>1. Alive \subseteq {local[x] : x \in Threads}
        BY <3>1 DEF Alive, Held
      <4>. QED  BY <4>1
    <3>2. CASE shared # Null /\ ~\E t \in Threads : local[t] = shared
      <4>1. PICK t \in Threads : local[t] = Null
        BY <3>2 DEF ContextsInv, SharedInv
      <4> DEFINE f == [x \in Threads |-> IF x = t THEN shared ELSE local[x]]
      <4>2. Alive \subseteq {f[x] : x \in Threads}
        <5> SUFFICES ASSUME NEW a \in Alive PROVE \E x \in Threads : f[x] = a
          OBVIOUS
        <5>1. CASE a = shared
          BY <5>1
        <5>2. CASE a # shared
          <6>1. PICK x \in Threads : local[x] = a
            BY <5>2 DEF Alive, Held
          <6>2. a # Null
            BY DEF Alive
          <6>3. x # t /\ f[x] = a
            BY <4>1, <6>1, <6>2
          <6>. QED  BY <6>3
        <5>. QED  BY <5>1, <5>2
      <4>. QED  BY <4>2
    <3>. QED  BY <3>1, <3>2
  <2>4. PICK f : Alive \subseteq {f[x] : x \in Threads}
    BY <2>3
  <2>5. Cardinality(Alive) \in Nat /\ Cardinality(Alive) <= Cardinality(Threads)
    BY <1>1, <2>4, ImageBound
  <2>. QED  BY <1>1, <2>2, <2>5
<1>. QED  BY <1>2, <1>3

\* The invariant says what the property says.
LEMMA ContextsFollow == ContextsInv => ContextsInOrder
<1> SUFFICES ASSUME ContextsInv PROVE ContextsInOrder
  OBVIOUS
<1>1. Null \notin Addresses
  BY EpochAssumption
<1>2. \A t \in Threads : Hashing(t) => local[t] \in Alive /\ ctx[local[t]].epoch = want[t]
  BY <1>1 DEF ContextsInv, UseInv, Alive, Held
<1>3. Alive \subseteq Addresses
  BY DEF ContextsInv, ContextsTypeOK, Alive, Held
<1>4. \A a \in Alive, i \in Items :
         \/ ctx[a].item[i] \in {"zero", "whole"}
         \/ \E t \in Threads : pc[t] = "writing" /\ local[t] = a /\ at[t] = i
  BY <1>3 DEF ContextsInv, ItemsInv
<1>5. answer.epoch = answer.seed \/ (answer.epoch = -1 /\ answer.seed \notin Epochs)
  BY DEF ContextsInv, FindInv
<1>6. \A a \in Alive, i \in L1 : ctx[a].item[i] = "whole"
  BY <1>3 DEF ContextsInv, L1Inv
<1>. QED  BY <1>2, <1>4, <1>5, <1>6, ContextsBounded DEF ContextsInOrder

\* At the start nobody has a context.
LEMMA ContextsInitially == ContextsInit => ContextsInv
<1> SUFFICES ASSUME ContextsInit PROVE ContextsInv
  OBVIOUS
<1>1. 0 \in Epochs
  BY EpochAssumption DEF Epochs
<1>2. (CHOOSE i \in Items : TRUE) \in Items
  BY EpochAssumption
<1>3. ContextsTypeOK
  BY <1>1, <1>2 DEF ContextsInit, ContextsTypeOK, Contexts, ItemStates
<1>4. LockInv /\ SharedInv
  BY DEF ContextsInit, LockInv, SharedInv
<1>5. UseInv
  BY DEF ContextsInit, UseInv, Hashing
<1>6. ItemsInv
  BY DEF ContextsInit, ItemsInv
<1>7. FindInv
  BY DEF ContextsInit, FindInv
<1>8. L1Inv
  BY DEF ContextsInit, L1Inv, Alive, Held
<1>. QED  BY <1>3, <1>4, <1>5, <1>6, <1>7, <1>8 DEF ContextsInv

\* What the threads' steps leave alone is still a pair.
LEMMA FindKept ==
  ASSUME FindInv, UNCHANGED findVars
  PROVE  FindInv'
BY DEF FindInv, findVars

\* The parts of the invariant that are about the contexts.
HashingInv == ContextsTypeOK /\ LockInv /\ UseInv /\ SharedInv /\ ItemsInv /\ L1Inv

\* An own context of the epoch is used; any other is given up.
LEMMA GetContextStep ==
  ASSUME HashingInv, NEW t \in Threads, NEW e \in Epochs, GetContext(t, e)
  PROVE  HashingInv'
<1> USE DEF HashingInv
<1>1. /\ pc[t] = "idle" /\ want' = [want EXCEPT ![t] = e]
      /\ ctx' = ctx /\ shared' = shared /\ mutex' = mutex /\ at' = at
  BY DEF GetContext
<1>2. CASE LocalIs(t, e) /\ pc' = [pc EXCEPT ![t] = "use"] /\ local' = local
  <2>1. ContextsTypeOK'
    BY <1>1, <1>2 DEF ContextsTypeOK
  <2>2. LockInv'
    BY <1>1, <1>2, EpochAssumption DEF ContextsTypeOK, LockInv
  <2>3. UseInv'
    BY <1>1, <1>2 DEF ContextsTypeOK, UseInv, Hashing, LocalIs
  <2>4. SharedInv'
    BY <1>1, <1>2 DEF SharedInv
  <2>5. ItemsInv'
    BY <1>1, <1>2 DEF ContextsTypeOK, ItemsInv, Alive, Held
  <2>6. L1Inv'
    BY <1>1, <1>2 DEF L1Inv, Alive, Held
  <2>. QED  BY <2>1, <2>2, <2>3, <2>4, <2>5, <2>6
<1>3. CASE pc' = [pc EXCEPT ![t] = "wait"] /\ local' = [local EXCEPT ![t] = Null]
  <2>1. ContextsTypeOK'
    BY <1>1, <1>3 DEF ContextsTypeOK
  <2>2. LockInv'
    BY <1>1, <1>3, EpochAssumption DEF ContextsTypeOK, LockInv
  <2>3. UseInv'
    BY <1>1, <1>3 DEF ContextsTypeOK, UseInv, Hashing
  <2>4. SharedInv'
    BY <1>1, <1>3 DEF ContextsTypeOK, SharedInv
  <2>5. Alive' \subseteq Alive
    BY <1>1, <1>3 DEF ContextsTypeOK, Alive, Held
  <2>6. ItemsInv'
    BY <1>1, <1>3, <2>5 DEF ContextsTypeOK, ItemsInv
  <2>7. L1Inv'
    BY <1>1, <2>5 DEF L1Inv
  <2>. QED  BY <2>1, <2>2, <2>3, <2>4, <2>6, <2>7
<1>. QED  BY <1>2, <1>3 DEF GetContext

\* The shared context is taken, or given up for a new one.
LEMMA LockContextStep ==
  ASSUME HashingInv, NEW t \in Threads, LockContext(t)
  PROVE  HashingInv'
<1> USE DEF HashingInv
<1>1. /\ pc[t] = "wait" /\ mutex = Null /\ ctx' = ctx /\ want' = want /\ at' = at
      /\ local[t] = Null
  BY DEF LockContext, LockInv
<1>2. CASE /\ SharedIs(want[t]) /\ local' = [local EXCEPT ![t] = shared]
           /\ pc' = [pc EXCEPT ![t] = "use"] /\ shared' = shared /\ mutex' = mutex
  <2>1. ContextsTypeOK'
    BY <1>1, <1>2 DEF ContextsTypeOK
  <2>2. LockInv'
    BY <1>1, <1>2, EpochAssumption DEF ContextsTypeOK, LockInv
  <2>3. UseInv'
    BY <1>1, <1>2 DEF ContextsTypeOK, UseInv, Hashing, SharedIs
  <2>4. SharedInv'
    BY <1>1, <1>2 DEF ContextsTypeOK, SharedInv
  <2>5. Alive' \subseteq Alive
    BY <1>1, <1>2 DEF ContextsTypeOK, Alive, Held
  <2>6. ItemsInv'
    BY <1>1, <1>2, <2>5 DEF ContextsTypeOK, ItemsInv
  <2>7. L1Inv'
    BY <1>1, <2>5 DEF L1Inv
  <2>. QED  BY <2>1, <2>2, <2>3, <2>4, <2>6, <2>7
<1>3. CASE /\ shared' = Null /\ mutex' = t /\ pc' = [pc EXCEPT ![t] = "build"]
           /\ local' = local
  <2>1. ContextsTypeOK'
    BY <1>1, <1>3 DEF ContextsTypeOK
  <2>2. \A u \in Threads : pc[u] # "build"
    BY <1>1, EpochAssumption DEF LockInv
  <2>3. LockInv'
    BY <1>1, <1>3, <2>2 DEF ContextsTypeOK, LockInv
  <2>4. UseInv'
    BY <1>1, <1>3 DEF ContextsTypeOK, UseInv, Hashing
  <2>5. SharedInv'
    BY <1>1, <1>3 DEF SharedInv
  <2>6. Alive' \subseteq Alive
    BY <1>1, <1>3 DEF ContextsTypeOK, Alive, Held
  <2>7. ItemsInv'
    BY <1>1, <1>3, <2>6 DEF ContextsTypeOK, ItemsInv
  <2>8. L1Inv'
    BY <1>1, <2>6 DEF L1Inv
  <2>. QED  BY <2>1, <2>3, <2>4, <2>5, <2>7, <2>8
<1>. QED  BY <1>2, <1>3 DEF LockContext

\* The new context is at an address nobody refers to.
LEMMA CreateContextStep ==
  ASSUME HashingInv, NEW t \in Threads, CreateContext(t)
  PROVE  HashingInv'
<1> USE DEF HashingInv
<1> DEFINE new == NewContext(want[t])
<1>1. PICK a \in Addresses \ Alive :
         /\ ctx' = [ctx EXCEPT ![a] = new] /\ shared' = a
         /\ local' = [local EXCEPT ![t] = a]
  BY DEF CreateContext
<1>2. /\ pc[t] = "build" /\ mutex' = Null /\ pc' = [pc EXCEPT ![t] = "use"]
      /\ want' = want /\ at' = at /\ shared = Null /\ mutex = t
  BY DEF CreateContext, LockInv
<1>3. a # Null /\ \A u \in Threads : local[u] # a
  BY <1>1, EpochAssumption DEF Alive, Held
<1>4. /\ new \in Contexts /\ new.epoch = want[t]
      /\ \A i \in Items : new.item[i] \in {"zero", "whole"}
      /\ \A i \in L1 : new.item[i] = "whole"
  <2>1. want[t] \in Int /\ L1 \subseteq Items
    BY EpochAssumption DEF ContextsTypeOK, Epochs
  <2>. QED  BY <2>1 DEF Contexts, ItemStates, NewContext
<1> HIDE DEF new
<1>5. ContextsTypeOK'
  BY <1>1, <1>2, <1>4 DEF ContextsTypeOK
<1>6. LockInv'
  <2>1. \A u \in Threads : u # t => pc[u] # "build"
    BY <1>2 DEF LockInv
  <2>. QED  BY <1>1, <1>2, <2>1 DEF ContextsTypeOK, LockInv
<1>7. UseInv'
  <2> SUFFICES ASSUME NEW u \in Threads, Hashing(u)'
               PROVE  local'[u] \in Addresses /\ ctx'[local'[u]].epoch = want'[u]
    BY DEF UseInv
  <2>1. CASE u = t
    BY <2>1, <1>1, <1>2, <1>4 DEF ContextsTypeOK
  <2>2. CASE u # t
    <3>1. Hashing(u)
      BY <2>2, <1>2 DEF ContextsTypeOK, Hashing
    <3>2. local[u] \in Addresses /\ ctx[local[u]].epoch = want[u]
      BY <3>1 DEF UseInv
    <3>3. local'[u] = local[u] /\ local[u] # a
      BY <2>2, <1>1, <1>3 DEF ContextsTypeOK
    <3>. QED  BY <3>2, <3>3, <1>1, <1>2 DEF ContextsTypeOK
  <2>. QED  BY <2>1, <2>2
<1>8. SharedInv'
  BY <1>1 DEF ContextsTypeOK, SharedInv
<1>9. ItemsInv'
  <2> SUFFICES ASSUME NEW b \in Addresses, NEW i \in Items, b \in Alive'
               PROVE  \/ ctx'[b].item[i] \in {"zero", "whole"}
                      \/ \E u \in Threads : pc'[u] = "writing" /\ local'[u] = b /\ at'[u] = i
    BY DEF ItemsInv
  <2>1. CASE b = a
    BY <2>1, <1>1, <1>4 DEF ContextsTypeOK
  <2>2. CASE b # a
    <3>1. b \in Alive
      BY <2>2, <1>1 DEF ContextsTypeOK, Alive, Held
    <3>2. ctx'[b] = ctx[b]
      BY <2>2, <1>1 DEF ContextsTypeOK
    <3>3. CASE ctx[b].item[i] \in {"zero", "whole"}
      BY <3>2, <3>3
    <3>4. CASE \E u \in Threads : pc[u] = "writing" /\ local[u] = b /\ at[u] = i
      <4>1. PICK u \in Threads : pc[u] = "writing" /\ local[u] = b /\ at[u] = i
        BY <3>4
      <4>2. u # t
        BY <4>1, <1>2
      <4>3. pc'[u] = "writing" /\ local'[u] = b /\ at'[u] = i
        BY <4>1, <4>2, <1>1, <1>2 DEF ContextsTypeOK
      <4>. QED  BY <4>3
    <3>. QED  BY <3>1, <3>3, <3>4 DEF ItemsInv
  <2>. QED  BY <2>1, <2>2
<1>10. L1Inv'
  <2> SUFFICES ASSUME NEW b \in Addresses, NEW i \in L1, b \in Alive'
               PROVE  ctx'[b].item[i] = "whole"
    BY DEF L1Inv
  <2>1. CASE b = a
    BY <2>1, <1>1, <1>4 DEF ContextsTypeOK
  <2>2. CASE b # a
    <3>1. b \in Alive /\ ctx'[b] = ctx[b]
      BY <2>2, <1>1 DEF ContextsTypeOK, Alive, Held
    <3>. QED  BY <3>1 DEF L1Inv
  <2>. QED  BY <2>1, <2>2
<1>. QED  BY <1>5, <1>6, <1>7, <1>8, <1>9, <1>10

\* A failed allocation leaves no shared context and frees the mutex; the
\* program that uses the null pointer has nothing left.
LEMMA NullStep ==
  ASSUME HashingInv, NEW t \in Threads, CreateContextFails(t) \/ UseNull(t)
  PROVE  HashingInv'
<1> USE DEF HashingInv
<1>1. CASE CreateContextFails(t)
  <2>1. /\ pc[t] = "build" /\ mutex = t /\ shared' = Null /\ mutex' = Null
        /\ local' = [local EXCEPT ![t] = Null] /\ pc' = [pc EXCEPT ![t] = "null"]
        /\ ctx' = ctx /\ want' = want /\ at' = at
    BY <1>1 DEF CreateContextFails, LockInv
  <2>2. ContextsTypeOK'
    BY <2>1 DEF ContextsTypeOK
  <2>3. \A u \in Threads : u # t => pc[u] # "build"
    BY <2>1 DEF LockInv
  <2>4. LockInv'
    BY <2>1, <2>3 DEF ContextsTypeOK, LockInv
  <2>5. UseInv'
    BY <2>1 DEF ContextsTypeOK, UseInv, Hashing
  <2>6. SharedInv'
    BY <2>1 DEF SharedInv
  <2>7. Alive' \subseteq Alive
    BY <2>1 DEF ContextsTypeOK, Alive, Held
  <2>8. ItemsInv'
    BY <2>1, <2>7 DEF ContextsTypeOK, ItemsInv
  <2>9. L1Inv'
    BY <2>1, <2>7 DEF L1Inv
  <2>. QED  BY <2>2, <2>4, <2>5, <2>6, <2>8, <2>9
<1>2. CASE UseNull(t)
  <2>1. /\ shared' = Null /\ mutex' = Null /\ local' = [u \in Threads |-> Null]
        /\ pc' = [u \in Threads |-> "ended"]
        /\ ctx' = ctx /\ want' = want /\ at' = at
    BY <1>2 DEF UseNull
  <2>2. ContextsTypeOK'
    BY <2>1 DEF ContextsTypeOK
  <2>3. LockInv' /\ UseInv' /\ SharedInv'
    BY <2>1 DEF LockInv, UseInv, Hashing, SharedInv
  <2>4. Alive' = {}
    BY <2>1 DEF Alive, Held
  <2>5. ItemsInv' /\ L1Inv'
    BY <2>4 DEF ItemsInv, L1Inv
  <2>. QED  BY <2>2, <2>3, <2>5
<1>. QED  BY <1>1, <1>2

\* Looking an item up, and returning from the search.
LEMMA LookupStep ==
  ASSUME HashingInv, NEW t \in Threads,
         (\E i \in Items : LazyLookup(t, i)) \/ SearchReturns(t)
  PROVE  HashingInv'
<1> USE DEF HashingInv
<1>1. /\ pc[t] = "use" /\ ctx' = ctx /\ shared' = shared /\ mutex' = mutex /\ local' = local
      /\ want' = want
      /\ \E p \in {"write", "use", "idle"} : pc' = [pc EXCEPT ![t] = p]
      /\ \E i \in Items : at' = [at EXCEPT ![t] = i]
  <2>1. CASE \E i \in Items : LazyLookup(t, i)
    BY <2>1 DEF LazyLookup
  <2>2. CASE SearchReturns(t)
    <3>1. at' = [at EXCEPT ![t] = at[t]] /\ at[t] \in Items
      BY <2>2 DEF SearchReturns, ContextsTypeOK
    <3>. QED  BY <2>2, <3>1 DEF SearchReturns
  <2>. QED  BY <2>1, <2>2
<1>2. PICK p \in {"write", "use", "idle"} : pc' = [pc EXCEPT ![t] = p]
  BY <1>1
<1>3. PICK j \in Items : at' = [at EXCEPT ![t] = j]
  BY <1>1
<1>4. ContextsTypeOK'
  BY <1>1, <1>2, <1>3 DEF ContextsTypeOK
<1>5. LockInv'
  BY <1>1, <1>2, EpochAssumption DEF ContextsTypeOK, LockInv
<1>6. UseInv'
  BY <1>1, <1>2 DEF ContextsTypeOK, UseInv, Hashing
<1>7. SharedInv'
  BY <1>1 DEF SharedInv
<1>8. Alive' = Alive
  BY <1>1 DEF Alive, Held
<1>9. \A u \in Threads : pc[u] = "writing" => pc'[u] = "writing" /\ at'[u] = at[u]
  BY <1>1, <1>2, <1>3 DEF ContextsTypeOK
<1>10. ItemsInv'
  BY <1>1, <1>8, <1>9 DEF ItemsInv
<1>11. L1Inv'
  BY <1>1, <1>8 DEF L1Inv
<1>. QED  BY <1>4, <1>5, <1>6, <1>7, <1>10, <1>11

\* The stores: the thread that wrote the first word writes the others.
LEMMA StoreStep ==
  ASSUME HashingInv, NEW t \in Threads, StoreFirst(t) \/ StoreRest(t)
  PROVE  HashingInv'
<1> USE DEF HashingInv
<1> DEFINE a == local[t]
           i == at[t]
<1>1. /\ pc[t] \in {"write", "writing"} /\ shared' = shared /\ mutex' = mutex /\ local' = local
      /\ want' = want /\ at' = at
  BY DEF StoreFirst, StoreRest
<1>2. a \in Addresses /\ i \in Items
  BY <1>1 DEF UseInv, Hashing, ContextsTypeOK
<1>3. PICK v \in ItemStates :
         /\ ctx' = [ctx EXCEPT ![a].item[i] = v]
         /\ ctx[a].item[i] = "whole" => v = "whole"
         /\ \/ pc' = [pc EXCEPT ![t] = "writing"] /\ pc[t] = "write"
            \/ pc' = [pc EXCEPT ![t] = "use"] /\ v = "whole"
  <2>1. CASE StoreFirst(t)
    <3>1. ctx[a].item[i] \in ItemStates
      BY <1>2 DEF ContextsTypeOK, Contexts
    <3>2. (IF ctx[a].item[i] = "zero" THEN "torn" ELSE ctx[a].item[i]) \in ItemStates
      BY <3>1 DEF ItemStates
    <3>. QED  BY <2>1, <3>2 DEF StoreFirst
  <2>2. CASE StoreRest(t)
    BY <2>2 DEF StoreRest, ItemStates
  <2>. QED  BY <2>1, <2>2
<1>4. /\ ctx' \in [Addresses -> Contexts]
      /\ \A b \in Addresses : ctx'[b].epoch = ctx[b].epoch
      /\ \A b \in Addresses, j \in Items :
           ctx'[b].item[j] = IF b = a /\ j = i THEN v ELSE ctx[b].item[j]
  <2> HIDE DEF a, i
  <2>1. ctx \in [Addresses -> Contexts]
    BY DEF ContextsTypeOK
  <2>2. ctx[a] \in Contexts /\ ctx[a].item \in [Items -> ItemStates]
    BY <2>1, <1>2 DEF Contexts
  <2> DEFINE n == [ctx[a] EXCEPT !.item = [ctx[a].item EXCEPT ![i] = v]]
  <2>3. ctx' = [ctx EXCEPT ![a] = n]
    BY <1>3
  <2>4. n \in Contexts /\ n.epoch = ctx[a].epoch
        /\ \A j \in Items : n.item[j] = IF j = i THEN v ELSE ctx[a].item[j]
    BY <2>2, <1>2 DEF Contexts
  <2> HIDE DEF n
  <2>. QED  BY <2>1, <2>3, <2>4, <1>2
<1>5. ContextsTypeOK'
  BY <1>1, <1>3, <1>4 DEF ContextsTypeOK
<1>6. LockInv'
  BY <1>1, <1>3, EpochAssumption DEF ContextsTypeOK, LockInv
<1>7. UseInv'
  BY <1>1, <1>3, <1>4 DEF ContextsTypeOK, UseInv, Hashing
<1>8. SharedInv'
  BY <1>1 DEF SharedInv
<1>9. Alive' = Alive
  BY <1>1 DEF Alive, Held
<1>10. ItemsInv'
  <2> SUFFICES ASSUME NEW b \in Addresses, NEW j \in Items, b \in Alive
               PROVE  \/ ctx'[b].item[j] \in {"zero", "whole"}
                      \/ \E u \in Threads : pc'[u] = "writing" /\ local'[u] = b /\ at'[u] = j
    BY <1>9 DEF ItemsInv
  <2>1. CASE b = a /\ j = i
    <3>1. CASE v = "whole"
      BY <2>1, <3>1, <1>4
    <3>2. CASE pc' = [pc EXCEPT ![t] = "writing"]
      <4>1. pc'[t] = "writing" /\ local'[t] = b /\ at'[t] = j
        BY <2>1, <3>2, <1>1 DEF ContextsTypeOK
      <4>. QED  BY <4>1
    <3>. QED  BY <3>1, <3>2, <1>3
  <2>2. CASE ~(b = a /\ j = i)
    <3>1. ctx'[b].item[j] = ctx[b].item[j]
      BY <2>2, <1>4
    <3>2. CASE ctx[b].item[j] \in {"zero", "whole"}
      BY <3>1, <3>2
    <3>3. CASE \E u \in Threads : pc[u] = "writing" /\ local[u] = b /\ at[u] = j
      <4>1. PICK u \in Threads : pc[u] = "writing" /\ local[u] = b /\ at[u] = j
        BY <3>3
      <4>2. u # t
        BY <2>2, <4>1
      <4>3. pc'[u] = "writing" /\ local'[u] = b /\ at'[u] = j
        BY <4>1, <4>2, <1>1, <1>3 DEF ContextsTypeOK
      <4>. QED  BY <4>3
    <3>. QED  BY <3>2, <3>3 DEF ItemsInv
  <2>. QED  BY <2>1, <2>2
<1>11. L1Inv'
  BY <1>3, <1>4, <1>9, EpochAssumption DEF L1Inv
<1>. QED  BY <1>5, <1>6, <1>7, <1>8, <1>10, <1>11

\* A search for an epoch keeps the pair.
LEMMA FindStep ==
  ASSUME FindInv, NEW seed \in -1..NumTries, find_epoch_number(seed)
  PROVE  FindInv'
<1>1. cachedSeed \in Int /\ cachedEpoch = cachedSeed /\ NumTries \in Nat
  BY EpochAssumption DEF FindInv
<1>2. seed \in Int
  BY <1>1
<1>3. CASE seed = cachedSeed /\ Answers(seed, cachedEpoch) /\ UNCHANGED <<cachedSeed, cachedEpoch>>
  BY <1>1, <1>3 DEF FindInv, Answers
<1>4. CASE /\ seed = Keccak256(cachedSeed)
           /\ cachedSeed' = seed /\ cachedEpoch' = cachedEpoch + 1
           /\ Answers(seed, cachedEpoch + 1)
  BY <1>1, <1>2, <1>4 DEF FindInv, Answers, Keccak256
<1>5. CASE /\ cachedSeed' = seed /\ cachedEpoch' = seed /\ Answers(seed, seed)
  BY <1>1, <1>2, <1>5 DEF FindInv, Answers
<1>6. CASE /\ seed \notin {cachedSeed, Keccak256(cachedSeed)} \cup Epochs
           /\ Answers(seed, -1) /\ UNCHANGED <<cachedSeed, cachedEpoch>>
  BY <1>1, <1>6 DEF FindInv, Answers
<1>. QED  BY <1>3, <1>4, <1>5, <1>6 DEF find_epoch_number

\* Every step keeps the invariant.
LEMMA ContextsStep == ContextsInv /\ [ContextsNext]_<<ctxVars, findVars>> => ContextsInv'
<1> SUFFICES ASSUME ContextsInv, [ContextsNext]_<<ctxVars, findVars>>
             PROVE  ContextsInv'
  OBVIOUS
<1>1. HashingInv /\ FindInv
  BY DEF ContextsInv, HashingInv
<1>2. CASE \E t \in Threads : HashingStep(t)
  <2>1. PICK t \in Threads : HashingStep(t)
    BY <1>2
  <2>2. FindInv'
    BY <1>1, <2>1, FindKept DEF HashingStep
  <2>3. HashingInv'
    <3>1. CASE \E e \in Epochs : GetContext(t, e)
      BY <1>1, <3>1, GetContextStep
    <3>2. CASE LockContext(t)
      BY <1>1, <3>2, LockContextStep
    <3>3. CASE CreateContext(t)
      BY <1>1, <3>3, CreateContextStep
    <3>4. CASE (\E i \in Items : LazyLookup(t, i)) \/ SearchReturns(t)
      BY <1>1, <3>4, LookupStep
    <3>5. CASE StoreFirst(t) \/ StoreRest(t)
      BY <1>1, <3>5, StoreStep
    <3>6. CASE CreateContextFails(t) \/ UseNull(t)
      BY <1>1, <3>6, NullStep
    <3>. QED  BY <2>1, <3>1, <3>2, <3>3, <3>4, <3>5, <3>6 DEF HashingStep
  <2>. QED  BY <2>2, <2>3 DEF ContextsInv, HashingInv
<1>3. CASE \E seed \in -1..NumTries : find_epoch_number(seed)
  <2>1. PICK seed \in -1..NumTries : find_epoch_number(seed)
    BY <1>3
  <2>2. FindInv'
    BY <1>1, <2>1, FindStep
  <2>3. UNCHANGED ctxVars
    BY <2>1 DEF find_epoch_number
  <2>4. HashingInv'
    BY <1>1, <2>3 DEF HashingInv, ctxVars, ContextsTypeOK, LockInv, UseInv, Hashing,
                      SharedInv, ItemsInv, L1Inv, Alive, Held
  <2>. QED  BY <2>2, <2>4 DEF ContextsInv, HashingInv
<1>4. CASE UNCHANGED <<ctxVars, findVars>>
  <2>1. FindInv'
    BY <1>1, <1>4, FindKept
  <2>2. UNCHANGED ctxVars
    BY <1>4
  <2>3. HashingInv'
    BY <1>1, <2>2 DEF HashingInv, ctxVars, ContextsTypeOK, LockInv, UseInv, Hashing,
                      SharedInv, ItemsInv, L1Inv, Alive, Held
  <2>. QED  BY <2>1, <2>3 DEF ContextsInv, HashingInv
<1>. QED  BY <1>2, <1>3, <1>4 DEF ContextsNext

\* However the threads interleave, whichever epochs they ask for and whichever
\* allocations fail: who hashes has a context of its epoch, no more contexts exist than threads, the unlocked
\* stores leave no item half written, and a search answers the seed it was
\* asked (get_global_epoch_context_full, lazy_lookup, find_epoch_number).
THEOREM EpochContextsInOrder == ContextsSpec => []ContextsInOrder
<1>1. ContextsInit => ContextsInv
  BY ContextsInitially
<1>2. ContextsInv /\ [ContextsNext]_<<ctxVars, findVars>> => ContextsInv'
  BY ContextsStep
<1>3. ContextsInv => ContextsInOrder
  BY ContextsFollow
<1>. QED  BY <1>1, <1>2, <1>3, PTL DEF ContextsSpec

============================================================================
