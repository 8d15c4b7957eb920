----------------------------- MODULE FarmProofs -----------------------------
(***************************************************************************)
(* TLAPS proofs about Farm, for every number of miners, every sequence of  *)
(* jobs and epochs, every set of pause reasons and both DAG load modes.    *)
(***************************************************************************)
EXTENDS Farm, TLAPS

\* The work of job j's epoch is one of the epochs of the instance, or none.
LEMMA EpochOfType == \A j \in Jobs \cup {0} : EpochOf(j) \in Epochs \cup {0}
BY FarmAssumption DEF EpochOf, Epochs, Jobs

\* The pool's jobs can be counted.
LEMMA JobsCounted == Len(JobEpoch) \in Nat
BY FarmAssumption

\* Farm::setWork walks over existing miners only.
WalkInv == io \in {"check", "store"} => ioM \in Miners

\* Between Miner::setWork's test of paused() and its store only the miner itself
\* may have set a flag, and that is the one of a DAG that does not fit.
StoreInv == io = "store" => flags[ioM] \subseteq {"memory"}

\* The type invariant, with the walk it needs to be inductive.
TypeInv == TypeOK /\ WalkInv

-----------------------------------------------------------------------------
\* The type invariant is inductive together with the bounds of setWork's walk.
LEMMA FarmTypeInductive == Spec => []TypeInv
<1>1. Init => TypeInv
  <2> SUFFICES ASSUME Init PROVE TypeInv
    OBVIOUS
  <2>1. 0 \in Miners /\ 0 \in 0..Len(JobEpoch) /\ 0 \in 0..N /\ 0 \in 0..MaxStarts
    BY FarmAssumption, JobsCounted DEF Miners
  <2>2. flags \in [Miners -> SUBSET Flags]
    BY DEF Init, Each
  <2>3. QED
    BY <2>1, <2>2 DEF Init, TypeInv, TypeOK, WalkInv, Each
<1>2. TypeInv /\ [Next]_vars => TypeInv'
  <2> SUFFICES ASSUME TypeInv, [Next]_vars PROVE TypeInv'
    OBVIOUS
  <2> USE FarmAssumption, EpochOfType DEF TypeInv, TypeOK, WalkInv, Miners, Flags, Jobs
  <2>1. ASSUME Start PROVE TypeInv'
    BY <2>1 DEF Start, NewMiners, Each, farmVars, ioVars, shared, local
  <2>2. ASSUME Stop PROVE TypeInv'
    BY <2>2 DEF Stop, Each, farmVars, ioVars, shared, local
  <2>3. ASSUME StopDone PROVE TypeInv'
    BY <2>3 DEF StopDone, NewMiners, Each, farmVars, ioVars, shared, local
  <2>4. ASSUME SetWork PROVE TypeInv'
    BY <2>4 DEF SetWork, Each, farmVars, ioVars, shared, local
  <2>5. ASSUME SetWorkPaused PROVE TypeInv'
    BY <2>5 DEF SetWorkPaused, Kick, NextMiner, farmVars, ioVars, shared, local
  <2>6. ASSUME SetWorkNotPaused PROVE TypeInv'
    BY <2>6 DEF SetWorkNotPaused, farmVars, ioVars, shared, local
  <2>7. ASSUME SetWorkStore PROVE TypeInv'
    BY <2>7 DEF SetWorkStore, Kick, NextMiner, farmVars, ioVars, shared, local
  <2>8. ASSUME Pause PROVE TypeInv'
    <3>0. \A m \in Miners : flags[m] \cup {"farm"} \in SUBSET Flags
      OBVIOUS
    <3>1. CASE UNCHANGED shared
      BY <2>8, <3>1 DEF Pause, ioVars, shared, local
    <3>2. CASE /\ flags' = [m \in Miners |-> flags[m] \cup {"farm"}]
               /\ work' = Each(0) /\ newWork' = Each(TRUE)
      <4>1. flags' \in [Miners -> SUBSET Flags]
        BY <3>0, <3>2
      <4>2. work' \in [Miners -> Jobs \cup {0}] /\ newWork' \in [Miners -> BOOLEAN]
        BY <3>2 DEF Each
      <4>3. QED
        BY <2>8, <4>1, <4>2 DEF Pause, ioVars, local
    <3>3. QED
      BY <2>8, <3>1, <3>2, Zenon DEF Pause
  <2>9. ASSUME Resume PROVE TypeInv'
    BY <2>9 DEF Resume, farmVars, ioVars, shared, local
  <2>10. ASSUME NEW m \in Miners, NEW r \in Reasons, PauseMiner(m, r) PROVE TypeInv'
    BY <2>10 DEF PauseMiner, Kick, farmVars, ioVars, shared, local
  <2>11. ASSUME NEW m \in Miners, NEW r \in Reasons, ResumeMiner(m, r) PROVE TypeInv'
    BY <2>11 DEF ResumeMiner, farmVars, ioVars, shared, local
  <2>12. ASSUME NEW m \in Miners, ReadWork(m) PROVE TypeInv'
    BY <2>12 DEF ReadWork, farmVars, ioVars, shared, local
  <2>13. ASSUME NEW m \in Miners, InitEpochBegin(m) PROVE TypeInv'
    <3>1. flags' \in [Miners -> SUBSET Flags]
      <4>1. flags[m] \ {"memory"} \in SUBSET Flags  OBVIOUS
      <4>2. flags' = flags \/ flags' = [flags EXCEPT ![m] = flags[m] \ {"memory"}]
        BY <2>13 DEF InitEpochBegin
      <4>3. QED
        BY <4>1, <4>2
    <3>2. /\ tpc' \in [Miners -> {"initDevice", "loop", "initEpoch", "building", "search", "done"}]
          /\ ctxIn' \in [Miners -> Epochs \cup {0}]
          /\ dag' \in [Miners -> Epochs \cup {0}]
      <4>1. CASE tpc' = [tpc EXCEPT ![m] = "done"] /\ UNCHANGED <<flags, ctxIn, dag>>
        BY <4>1
      <4>2. CASE /\ tpc' = [tpc EXCEPT ![m] = "building"]
                 /\ ctxIn' = [ctxIn EXCEPT ![m] = ctx[m]]
                 /\ dag' = [dag EXCEPT ![m] = 0]
        BY <4>2
      <4>3. QED
        BY <2>13, <4>1, <4>2, Zenon DEF InitEpochBegin
    <3>3. QED
      BY <2>13, <3>1, <3>2 DEF InitEpochBegin, farmVars, ioVars
  <2>14. ASSUME NEW m \in Miners, InitEpochWaits(m) PROVE TypeInv'
    BY <2>14 DEF InitEpochWaits, vars, farmVars, ioVars, shared, local
  <2>15. ASSUME NEW m \in Miners, InitEpochDone(m) PROVE TypeInv'
    <3>1. EpochOf(w[m]) \in Epochs \cup {0}
      BY EpochOfType
    <3>2. dagIndex' \in Miners
      BY <2>15 DEF InitEpochDone, DagTurn
    <3>3. /\ tpc' \in [Miners -> {"initDevice", "loop", "initEpoch", "building", "search", "done"}]
          /\ w' \in [Miners -> Jobs \cup {0}]
          /\ ctxIn' \in [Miners -> Epochs \cup {0}]
      BY <2>15 DEF InitEpochDone, Iterate
    <3>4. oldEpoch' \in [Miners -> Epochs \cup {0}] /\ dag' \in [Miners -> Epochs \cup {0}]
      BY <2>15, <3>1 DEF InitEpochDone
    <3>5. QED
      BY <2>15, <3>2, <3>3, <3>4 DEF InitEpochDone, farmVars, ioVars, shared
  <2>16. ASSUME NEW m \in Miners, InitEpochNoMemory(m) PROVE TypeInv'
    <3>1. EpochOf(w[m]) \in Epochs \cup {0}
      BY EpochOfType
    <3>2. dagIndex' \in Miners
      BY <2>16 DEF InitEpochNoMemory, DagTurn
    <3>3. /\ tpc' \in [Miners -> {"initDevice", "loop", "initEpoch", "building", "search", "done"}]
          /\ w' \in [Miners -> Jobs \cup {0}]
          /\ ctxIn' \in [Miners -> Epochs \cup {0}]
      BY <2>16 DEF InitEpochNoMemory, Iterate
    <3>4. oldEpoch' \in [Miners -> Epochs \cup {0}] /\ dag' \in [Miners -> Epochs \cup {0}]
      BY <2>16, <3>1 DEF InitEpochNoMemory
    <3>5. /\ flags' \in [Miners -> SUBSET Flags]
          /\ work' \in [Miners -> Jobs \cup {0}]
          /\ newWork' \in [Miners -> BOOLEAN]
      BY <2>16 DEF InitEpochNoMemory, Kick
    <3>6. QED
      BY <2>16, <3>2, <3>3, <3>4, <3>5 DEF InitEpochNoMemory, farmVars, ioVars
  <2>17. ASSUME NEW m \in Miners, SearchEnds(m) PROVE TypeInv'
    BY <2>17 DEF SearchEnds, Iterate, farmVars, ioVars, shared, local
  <2>18. CASE Ended \/ UNCHANGED vars
    BY <2>18 DEF Ended, vars, farmVars, ioVars, shared, local
  <2>20. ASSUME NEW m \in Miners, InitDevice(m) PROVE TypeInv'
    BY <2>20 DEF InitDevice, farmVars, ioVars, shared, local
  <2>21. ASSUME NEW m \in Miners, DeviceFails(m) PROVE TypeInv'
    BY <2>21 DEF DeviceFails, farmVars, ioVars, shared, local
  <2>19. QED
    BY <2>1, <2>2, <2>3, <2>4, <2>5, <2>6, <2>7, <2>8, <2>9, <2>10,
       <2>11, <2>12, <2>13, <2>14, <2>15, <2>16, <2>17, <2>18, <2>20, <2>21
       DEF Next, FarmStep, MinerStep
<1>3. QED
  BY <1>1, <1>2, PTL DEF Spec

\* Every variable keeps its type: the DAG turn stays the index of a miner, and
\* setWork's walk never leaves the list of miners.
THEOREM FarmTypeCorrect == Spec => []TypeOK
<1>1. TypeInv => TypeOK
  BY DEF TypeInv
<1>2. QED
  BY <1>1, FarmTypeInductive, PTL

\* With a pool's client, whose jobs and the pauses come on one thread: a miner
\* that the farm, the API or the temperature control holds has no work, although
\* Miner::setWork tests paused() and stores the work in two steps and the miner's
\* own thread runs, and may pause itself, in between.  With the simulation client
\* this is false (run farm_simulation).
THEOREM FarmHeldMinerHasNoWork ==
  ASSUME ~Simulation
  PROVE  Spec => []HeldMinerHasNoWork
<1> DEFINE Inv == HeldMinerHasNoWork /\ StoreInv
<1>1. Init => Inv
  BY FarmAssumption DEF Init, HeldMinerHasNoWork, StoreInv, Each
<1>2. TypeInv /\ Inv /\ [Next]_vars => Inv'
  <2> SUFFICES ASSUME TypeInv, Inv, [Next]_vars PROVE Inv'
    OBVIOUS
  <2> USE FarmAssumption DEF TypeInv, TypeOK, WalkInv, HeldMinerHasNoWork, StoreInv, Miners, Flags
  <2>1. ASSUME Start PROVE Inv'
    BY <2>1 DEF Start, NewMiners, Each, farmVars, ioVars, shared, local
  <2>2. ASSUME Stop PROVE Inv'
    BY <2>2 DEF Stop, Each, farmVars, ioVars, shared, local
  <2>3. ASSUME StopDone PROVE Inv'
    BY <2>3 DEF StopDone, NewMiners, Each, farmVars, ioVars, shared, local
  <2>4. ASSUME SetWork PROVE Inv'
    BY <2>4 DEF SetWork, Each, farmVars, ioVars, shared, local
  <2>5. ASSUME SetWorkPaused PROVE Inv'
    BY <2>5 DEF SetWorkPaused, Kick, NextMiner, farmVars, ioVars, shared, local
  <2>6. ASSUME SetWorkNotPaused PROVE Inv'
    BY <2>6 DEF SetWorkNotPaused, farmVars, ioVars, shared, local
  <2>7. ASSUME SetWorkStore PROVE Inv'
    BY <2>7 DEF SetWorkStore, Kick, NextMiner, farmVars, ioVars, shared, local
  <2>8. ASSUME Pause PROVE Inv'
    BY <2>8 DEF Pause, Each, farmVars, ioVars, shared, local
  <2>9. ASSUME Resume PROVE Inv'
    BY <2>9 DEF Resume, farmVars, ioVars, shared, local
  <2>10. ASSUME NEW m \in Miners, NEW r \in Reasons, PauseMiner(m, r) PROVE Inv'
    BY <2>10 DEF PauseMiner, IoThreadFree, Kick, farmVars, ioVars, shared, local
  <2>11. ASSUME NEW m \in Miners, NEW r \in Reasons, ResumeMiner(m, r) PROVE Inv'
    BY <2>11 DEF ResumeMiner, IoThreadFree, farmVars, ioVars, shared, local
  <2>12. ASSUME NEW m \in Miners, ReadWork(m) PROVE Inv'
    BY <2>12 DEF ReadWork, farmVars, ioVars, shared, local
  <2>13. ASSUME NEW m \in Miners, InitEpochBegin(m) PROVE Inv'
    <3>1. \A n \in Miners : flags'[n] \subseteq flags[n]
      BY <2>13 DEF InitEpochBegin
    <3>2. work' = work /\ io' = io /\ ioM' = ioM
      BY <2>13 DEF InitEpochBegin, ioVars
    <3>3. QED
      BY <3>1, <3>2
  <2>14. ASSUME NEW m \in Miners, InitEpochWaits(m) PROVE Inv'
    BY <2>14 DEF InitEpochWaits, vars, farmVars, ioVars, shared, local
  <2>15. ASSUME NEW m \in Miners, InitEpochDone(m) PROVE Inv'
    BY <2>15 DEF InitEpochDone, Iterate, DagTurn, farmVars, ioVars, shared, local
  <2>16. ASSUME NEW m \in Miners, InitEpochNoMemory(m) PROVE Inv'
    BY <2>16 DEF InitEpochNoMemory, Iterate, DagTurn, Kick, farmVars, ioVars, shared, local
  <2>17. ASSUME NEW m \in Miners, SearchEnds(m) PROVE Inv'
    BY <2>17 DEF SearchEnds, Iterate, farmVars, ioVars, shared, local
  <2>18. CASE Ended \/ UNCHANGED vars
    BY <2>18 DEF Ended, vars, farmVars, ioVars, shared, local
  <2>20. ASSUME NEW m \in Miners, InitDevice(m) PROVE Inv'
    BY <2>20 DEF InitDevice, farmVars, ioVars, shared, local
  <2>21. ASSUME NEW m \in Miners, DeviceFails(m) PROVE Inv'
    BY <2>21 DEF DeviceFails, farmVars, ioVars, shared, local
  <2>19. QED
    BY <2>1, <2>2, <2>3, <2>4, <2>5, <2>6, <2>7, <2>8, <2>9, <2>10,
       <2>11, <2>12, <2>13, <2>14, <2>15, <2>16, <2>17, <2>18, <2>20, <2>21
       DEF Next, FarmStep, MinerStep
<1>3. QED
  BY <1>1, <1>2, FarmTypeInductive, PTL DEF Spec

-----------------------------------------------------------------------------
\* setWork's walk has passed miner m, or there is no walk.
Served(m) == io \in {"check", "store"} => m < ioM

\* What each miner knows of the jobs: once the walk has passed it, its work is the
\* latest job or none, and so is what it searches, unless it was kicked.
JobInv ==
  \A m \in Miners :
    /\ work[m] \in 0..latest /\ w[m] \in 0..latest
    /\ Served(m) => work[m] \in {0, latest}
    /\ tpc[m] = "search" => EpochOf(w[m]) = oldEpoch[m]
    /\ tpc[m] = "search" /\ Served(m) /\ ~newWork[m] => w[m] = latest

\* What each miner has of the epochs: a DAG of the epoch last seen, unless the
\* Farm has gone on to another epoch, or there was no context or no room.
EpochInv ==
  \A m \in Miners :
    /\ ctx[m] \in {0, EpochOf(latest)}
    /\ oldEpoch[m] \in Nat /\ oldEpoch[m] <= EpochOf(latest)
    /\ tpc[m] = "building" => ctxIn[m] = ctx[m] \/ EpochOf(w[m]) # EpochOf(latest)
    /\ tpc[m] # "building" /\ ctx[m] # 0 /\ "memory" \notin flags[m] =>
         dag[m] = oldEpoch[m] \/ oldEpoch[m] # EpochOf(latest)

\* Epochs of jobs are positive numbers, and do not go back over several jobs.
LEMMA EpochFacts ==
  /\ \A j \in Jobs \cup {0} : j \in Nat /\ EpochOf(j) \in Nat /\ (j # 0 => EpochOf(j) # 0)
  /\ EpochsGoForward =>
       \A i, j \in Jobs \cup {0} : i <= j => EpochOf(i) <= EpochOf(j)
<1>1. \A j \in Jobs : JobEpoch[j] \in Nat \ {0} /\ j \in Nat \ {0}
  BY FarmAssumption DEF Jobs
<1>2. QED
  BY <1>1 DEF EpochOf, EpochsGoForward

\* After setWork's walk a miner has the latest job or none, and searches no
\* other unless it was kicked.
LEMMA FarmJobInv == Spec => []JobInv
<1>1. Init => JobInv
  BY FarmAssumption DEF Init, JobInv, Each
<1>2. TypeInv /\ JobInv /\ [Next]_vars => JobInv'
  <2> SUFFICES ASSUME TypeInv, JobInv, [Next]_vars PROVE JobInv'
    OBVIOUS
  <2>0. /\ N \in Nat \ {0} /\ latest \in Nat /\ latest \in Jobs \cup {0} /\ ioM \in Nat
        /\ work \in [Miners -> Jobs \cup {0}] /\ w \in [Miners -> Jobs \cup {0}]
        /\ newWork \in [Miners -> BOOLEAN] /\ oldEpoch \in [Miners -> Epochs \cup {0}]
        /\ tpc \in [Miners -> {"initDevice", "loop", "initEpoch", "building", "search", "done"}]
    BY FarmAssumption, JobsCounted DEF TypeInv, TypeOK, Jobs
  <2>00. io \in {"check", "store"} => ioM \in Miners
    BY DEF TypeInv, WalkInv
  <2>1. ASSUME Start PROVE JobInv'
    BY <2>0, <2>1 DEF Start, NewMiners, Each, JobInv, Served, ioVars
  <2>2. ASSUME Stop PROVE JobInv'
    BY <2>0, <2>2 DEF Stop, Each, JobInv, Served, farmVars, local
  <2>3. ASSUME StopDone PROVE JobInv'
    BY <2>0, <2>3 DEF StopDone, NewMiners, Each, JobInv, Served
  <2>4. ASSUME SetWork PROVE JobInv'
    BY <2>0, <2>4 DEF SetWork, JobInv, Served, Miners, shared, local
  <2>5. ASSUME SetWorkPaused PROVE JobInv'
    BY <2>0, <2>00, <2>5 DEF SetWorkPaused, Kick, NextMiner, JobInv, Served, Miners, farmVars, local
  <2>6. ASSUME SetWorkNotPaused PROVE JobInv'
    BY <2>0, <2>6 DEF SetWorkNotPaused, JobInv, Served, farmVars, shared, local
  <2>7. ASSUME SetWorkStore PROVE JobInv'
    BY <2>0, <2>00, <2>7 DEF SetWorkStore, Kick, NextMiner, JobInv, Served, Miners, farmVars, local
  <2>8. ASSUME Pause PROVE JobInv'
    BY <2>0, <2>8 DEF Pause, Each, JobInv, Served, ioVars, shared, local
  <2>9. ASSUME Resume PROVE JobInv'
    BY <2>0, <2>9 DEF Resume, JobInv, Served, ioVars, local
  <2>10. ASSUME NEW m \in Miners, NEW r \in Reasons, PauseMiner(m, r) PROVE JobInv'
    BY <2>0, <2>10 DEF PauseMiner, Kick, JobInv, Served, farmVars, ioVars, local
  <2>11. ASSUME NEW m \in Miners, NEW r \in Reasons, ResumeMiner(m, r) PROVE JobInv'
    BY <2>0, <2>11 DEF ResumeMiner, JobInv, Served, farmVars, ioVars, local
  <2>12. ASSUME NEW m \in Miners, ReadWork(m) PROVE JobInv'
    BY <2>0, <2>12 DEF ReadWork, JobInv, Served, farmVars, ioVars, shared
  <2>13. ASSUME NEW m \in Miners, InitEpochBegin(m) PROVE JobInv'
    BY <2>0, <2>13 DEF InitEpochBegin, JobInv, Served, farmVars, ioVars
  <2>14. ASSUME NEW m \in Miners, InitEpochWaits(m) PROVE JobInv'
    BY <2>0, <2>14 DEF InitEpochWaits, vars, JobInv, Served, farmVars, ioVars, shared, local
  <2>15. ASSUME NEW m \in Miners, InitEpochDone(m) PROVE JobInv'
    BY <2>0, <2>15 DEF InitEpochDone, Iterate, JobInv, Served, farmVars, ioVars, shared
  <2>16. ASSUME NEW m \in Miners, InitEpochNoMemory(m) PROVE JobInv'
    BY <2>0, <2>16 DEF InitEpochNoMemory, Iterate, Kick, JobInv, Served, farmVars, ioVars
  <2>17. ASSUME NEW m \in Miners, SearchEnds(m) PROVE JobInv'
    BY <2>0, <2>17 DEF SearchEnds, Iterate, Kick, JobInv, Served, farmVars, ioVars
  <2>18. CASE Ended \/ UNCHANGED vars
    BY <2>18 DEF Ended, vars, JobInv, Served, farmVars, ioVars, shared, local
  <2>20. ASSUME NEW m \in Miners, InitDevice(m) PROVE JobInv'
    BY <2>0, <2>20 DEF InitDevice, JobInv, Served, farmVars, ioVars, shared
  <2>21. ASSUME NEW m \in Miners, DeviceFails(m) PROVE JobInv'
    BY <2>0, <2>21 DEF DeviceFails, JobInv, Served, farmVars, ioVars, shared
  <2>19. QED
    BY <2>1, <2>2, <2>3, <2>4, <2>5, <2>6, <2>7, <2>8, <2>9, <2>10,
       <2>11, <2>12, <2>13, <2>14, <2>15, <2>16, <2>17, <2>18, <2>20, <2>21
       DEF Next, FarmStep, MinerStep
<1>3. QED
  BY <1>1, <1>2, FarmTypeInductive, PTL DEF Spec

\* While epochs do not go back, a miner that is not building a DAG has the one of
\* the epoch it last saw, or the Farm has gone on to another epoch.
LEMMA FarmEpochInv ==
  ASSUME EpochsGoForward
  PROVE  Spec => []EpochInv
<1>1. Init => EpochInv
  BY FarmAssumption DEF Init, EpochInv, Each, EpochOf
<1>2. TypeInv /\ JobInv /\ EpochInv /\ [Next]_vars => EpochInv'
  <2> SUFFICES ASSUME TypeInv, JobInv, EpochInv, [Next]_vars PROVE EpochInv'
    OBVIOUS
  <2>0. /\ latest \in Nat /\ latest \in Jobs \cup {0}
        /\ flags \in [Miners -> SUBSET Flags]
        /\ ctx \in [Miners -> Epochs \cup {0}] /\ ctxIn \in [Miners -> Epochs \cup {0}]
        /\ work \in [Miners -> Jobs \cup {0}] /\ w \in [Miners -> Jobs \cup {0}]
        /\ oldEpoch \in [Miners -> Epochs \cup {0}] /\ dag \in [Miners -> Epochs \cup {0}]
        /\ tpc \in [Miners -> {"initDevice", "loop", "initEpoch", "building", "search", "done"}]
    BY FarmAssumption, JobsCounted DEF TypeInv, TypeOK, Jobs
  <2>00. /\ EpochOf(latest) \in Nat
         /\ \A m \in Miners : /\ w[m] \in Jobs \cup {0} /\ EpochOf(w[m]) \in Nat
                              /\ EpochOf(w[m]) <= EpochOf(latest)
    BY <2>0, EpochFacts DEF JobInv
  <2>1. ASSUME Start PROVE EpochInv'
    BY <2>00, <2>1 DEF Start, NewMiners, Each, EpochInv
  <2>2. ASSUME Stop PROVE EpochInv'
    BY <2>2 DEF Stop, Each, EpochInv, farmVars, local
  <2>3. ASSUME StopDone PROVE EpochInv'
    BY <2>00, <2>3 DEF StopDone, NewMiners, Each, EpochInv
  <2>4. ASSUME SetWork PROVE EpochInv'
    <3>1. latest' = latest + 1 /\ latest' \in Jobs /\ UNCHANGED <<shared, local>>
      BY <2>0, <2>4, JobsCounted DEF SetWork, Jobs
    <3>2. EpochOf(latest) <= EpochOf(latest') /\ EpochOf(latest') \in Nat
      BY <2>0, <3>1, EpochFacts
    <3>3. CASE EpochOf(latest') = EpochOf(latest)
      <4>1. ctx' = ctx
        BY <2>4, <3>1, <3>3 DEF SetWork
      <4>2. QED
        BY <3>1, <3>3, <4>1 DEF EpochInv, shared, local
    <3>4. CASE EpochOf(latest) < EpochOf(latest')
      <4>1. ctx' = Each(EpochOf(latest'))
        BY <2>00, <2>4, <3>1, <3>2, <3>4 DEF SetWork
      <4>2. ASSUME NEW m \in Miners
            PROVE  /\ ctx'[m] = EpochOf(latest')
                   /\ oldEpoch'[m] \in Nat /\ oldEpoch'[m] < EpochOf(latest')
                   /\ EpochOf(w'[m]) < EpochOf(latest')
        BY <2>00, <3>1, <3>2, <3>4, <4>1 DEF EpochInv, Each, local
      <4>3. QED
        BY <3>2, <4>2 DEF EpochInv
    <3>5. QED
      BY <2>00, <3>2, <3>3, <3>4
  <2>5. ASSUME SetWorkPaused PROVE EpochInv'
    BY <2>5 DEF SetWorkPaused, EpochInv, farmVars, local
  <2>6. ASSUME SetWorkNotPaused PROVE EpochInv'
    BY <2>6 DEF SetWorkNotPaused, EpochInv, farmVars, shared, local
  <2>7. ASSUME SetWorkStore PROVE EpochInv'
    BY <2>7 DEF SetWorkStore, EpochInv, farmVars, local
  <2>8. ASSUME Pause PROVE EpochInv'
    <3>1. \A k \in Miners : "memory" \in flags[k] => "memory" \in flags'[k]
      BY <2>8 DEF Pause, shared
    <3>2. QED
      BY <2>8, <3>1 DEF Pause, EpochInv, local
  <2>9. ASSUME Resume PROVE EpochInv'
    <3>1. \A k \in Miners : "memory" \in flags[k] => "memory" \in flags'[k]
      BY <2>9 DEF Resume
    <3>2. QED
      BY <2>9, <3>1 DEF Resume, EpochInv, local
  <2>10. ASSUME NEW m \in Miners, NEW r \in Reasons, PauseMiner(m, r) PROVE EpochInv'
    <3>1. \A k \in Miners : "memory" \in flags[k] => "memory" \in flags'[k]
      BY <2>0, <2>10 DEF PauseMiner
    <3>2. QED
      BY <2>10, <3>1 DEF PauseMiner, EpochInv, farmVars, local
  <2>11. ASSUME NEW m \in Miners, NEW r \in Reasons, ResumeMiner(m, r) PROVE EpochInv'
    <3>1. \A k \in Miners : "memory" \in flags[k] => "memory" \in flags'[k]
      BY <2>0, <2>11, FarmAssumption DEF ResumeMiner
    <3>2. QED
      BY <2>11, <3>1 DEF ResumeMiner, EpochInv, farmVars, local
  <2>12. ASSUME NEW m \in Miners, ReadWork(m) PROVE EpochInv'
    BY <2>0, <2>12 DEF ReadWork, EpochInv, farmVars, shared
  <2>13. ASSUME NEW m \in Miners, InitEpochBegin(m) PROVE EpochInv'
    <3>1. UNCHANGED <<latest, ctx, oldEpoch, w>>
      BY <2>13 DEF InitEpochBegin, farmVars
    <3>2. ASSUME NEW k \in Miners, k # m PROVE UNCHANGED <<tpc[k], ctxIn[k], flags[k], dag[k]>>
      BY <2>0, <2>13, <3>2 DEF InitEpochBegin
    <3>3. \/ tpc'[m] = "building" /\ ctxIn'[m] = ctx[m]
          \/ tpc[m] = "initEpoch" /\ tpc'[m] = "done" /\ UNCHANGED <<flags, dag>>
      BY <2>0, <2>13 DEF InitEpochBegin
    <3>4. QED
      BY <3>1, <3>2, <3>3 DEF EpochInv
  <2>14. ASSUME NEW m \in Miners, InitEpochWaits(m) PROVE EpochInv'
    BY <2>14 DEF InitEpochWaits, vars, EpochInv, farmVars, shared, local
  <2>15. ASSUME NEW m \in Miners, InitEpochDone(m) PROVE EpochInv'
    <3>1. UNCHANGED <<latest, ctx, flags>> /\ tpc[m] = "building"
      BY <2>15 DEF InitEpochDone, farmVars, shared
    <3>2. ASSUME NEW k \in Miners, k # m PROVE UNCHANGED <<tpc[k], ctxIn[k], oldEpoch[k], w[k], dag[k]>>
      BY <2>0, <2>15, <3>2 DEF InitEpochDone, Iterate
    <3>3. /\ tpc'[m] = "loop" /\ oldEpoch'[m] = EpochOf(w[m])
          /\ dag'[m] = IF ctx[m] = ctxIn[m] THEN ctx[m] ELSE 0
      BY <2>0, <2>15 DEF InitEpochDone, Iterate
    <3>4. QED
      BY <2>00, <3>1, <3>2, <3>3 DEF EpochInv
  <2>16. ASSUME NEW m \in Miners, InitEpochNoMemory(m) PROVE EpochInv'
    <3>1. UNCHANGED <<latest, ctx, dag>> /\ tpc[m] = "building"
      BY <2>16 DEF InitEpochNoMemory, farmVars
    <3>2. ASSUME NEW k \in Miners, k # m PROVE UNCHANGED <<tpc[k], ctxIn[k], oldEpoch[k], w[k], flags[k]>>
      BY <2>0, <2>16, <3>2 DEF InitEpochNoMemory, Iterate
    <3>3. tpc'[m] = "loop" /\ oldEpoch'[m] = EpochOf(w[m]) /\ "memory" \in flags'[m]
      BY <2>0, <2>16 DEF InitEpochNoMemory, Iterate
    <3>4. QED
      BY <2>00, <3>1, <3>2, <3>3 DEF EpochInv
  <2>17. ASSUME NEW m \in Miners, SearchEnds(m) PROVE EpochInv'
    BY <2>0, <2>17 DEF SearchEnds, Iterate, EpochInv, farmVars
  <2>18. CASE Ended \/ UNCHANGED vars
    BY <2>18 DEF Ended, vars, EpochInv, farmVars, shared, local
  <2>20. ASSUME NEW m \in Miners, InitDevice(m) PROVE EpochInv'
    BY <2>0, <2>20 DEF InitDevice, EpochInv, farmVars, shared
  <2>21. ASSUME NEW m \in Miners, DeviceFails(m) PROVE EpochInv'
    BY <2>0, <2>21 DEF DeviceFails, EpochInv, farmVars, shared
  <2>19. QED
    BY <2>1, <2>2, <2>3, <2>4, <2>5, <2>6, <2>7, <2>8, <2>9, <2>10,
       <2>11, <2>12, <2>13, <2>14, <2>15, <2>16, <2>17, <2>18, <2>20, <2>21
       DEF Next, FarmStep, MinerStep
<1>3. QED
  BY <1>1, <1>2, FarmTypeInductive, FarmJobInv, PTL DEF Spec

\* While epochs do not go back, a miner with a context and room for the DAG
\* searches a job only on the DAG of the job's epoch, but for the moments in which
\* a new job is on its way or its kick was not noticed yet: setEpoch and setWork
\* may run while the miner's thread builds a DAG or is about to search.
THEOREM FarmSearchUsesEpochDag ==
  ASSUME EpochsGoForward
  PROVE  Spec => []SearchUsesEpochDag
<1>1. JobInv /\ EpochInv => SearchUsesEpochDag
  BY DEF JobInv, EpochInv, SearchUsesEpochDag, Served
<1>2. QED
  BY <1>1, FarmJobInv, FarmEpochInv, PTL
=============================================================================
