---------------------------- MODULE EpochContexts ----------------------------
(***************************************************************************)
(* The epoch contexts of libethash (managed.cpp), shared by the threads    *)
(* that hash: a context is reference counted, each thread keeps the one it *)
(* used last, and a global one is replaced under a mutex when a thread     *)
(* asks for another epoch.  A full context fills its dataset lazily and    *)
(* without a lock (lazy_lookup in ethash.cpp and progpow.cpp).             *)
(* Also find_epoch_number with its thread-local memory of the last search. *)
(*                                                                         *)
(* Contexts are addresses, which are used again once nobody refers to      *)
(* them.  An item of the dataset is "zero", "torn" (its first word has     *)
(* been written, the others not yet) or "whole".                           *)
(***************************************************************************)
EXTENDS Integers, FiniteSets

CONSTANTS Threads,    \* threads that hash: the CPU miners
          Addresses,  \* where contexts can be
          NumTries,   \* num_tries of find_epoch_number (30000)
          Items,      \* items of a dataset
          L1,         \* those in the first l1_cache_size bytes
          Null        \* a null pointer, a free mutex

ASSUME EpochAssumption ==
  /\ NumTries \in Nat \ {0} /\ Null \notin Addresses \cup Threads
  /\ IsFiniteSet(Threads) /\ Items # {} /\ L1 \subseteq Items

Epochs == 0..NumTries - 1

VARIABLES ctx,     \* the epoch and the items at each address
          shared,  \* shared_context
          mutex,   \* shared_context_mutex: the thread that holds it
          local,   \* thread_local_context of each thread
          pc, want, \* what each thread does ("null": it has been given a reference
                    \* to null; "ended": the program is no more), for which epoch
          at,      \* the item it calculates
          cachedSeed, cachedEpoch,  \* the last search that succeeded
          answer   \* the last search: the seed asked for and the epoch found

ctxVars == <<ctx, shared, mutex, local, pc, want, at>>
findVars == <<cachedSeed, cachedEpoch, answer>>

ContextsInit ==
  /\ ctx = [a \in Addresses |-> [epoch |-> -1, item |-> [i \in Items |-> "zero"]]]
  /\ shared = Null /\ mutex = Null
  /\ local = [t \in Threads |-> Null]
  /\ pc = [t \in Threads |-> "idle"]
  /\ want = [t \in Threads |-> 0]
  /\ at = [t \in Threads |-> CHOOSE i \in Items : TRUE]
  /\ cachedSeed = 0 /\ cachedEpoch = 0 /\ answer = [seed |-> 0, epoch |-> 0]

Held == {shared} \cup {local[t] : t \in Threads}
Alive == Held \ {Null}

-----------------------------------------------------------------------------
(* get_global_epoch_context(_full): the local context, or the slow path,   *)
(* which first releases the local one.                                     *)
LocalIs(t, e) == local[t] # Null /\ ctx[local[t]].epoch = e
SharedIs(e) == shared # Null /\ ctx[shared].epoch = e

(* The old context kept until the thread has the new one. *)
GetContextKeeping(t, e) ==
  /\ pc[t] = "idle"
  /\ want' = [want EXCEPT ![t] = e]
  /\ pc' = [pc EXCEPT ![t] = IF LocalIs(t, e) THEN "use" ELSE "wait"]
  /\ UNCHANGED <<ctx, shared, mutex, local, at>>

GetContext(t, e) ==
  /\ pc[t] = "idle"
  /\ want' = [want EXCEPT ![t] = e]
  /\ \/ /\ LocalIs(t, e)
        /\ pc' = [pc EXCEPT ![t] = "use"]
        /\ UNCHANGED local
     \/ /\ ~LocalIs(t, e)
        /\ pc' = [pc EXCEPT ![t] = "wait"]
        /\ local' = [local EXCEPT ![t] = Null]
  /\ UNCHANGED <<ctx, shared, mutex, at>>

(* The lock is taken; a shared context of this epoch is used as it is, any *)
(* other one is released before the new one is built.                      *)
LockContext(t) ==
  /\ pc[t] = "wait" /\ mutex = Null
  /\ \/ /\ SharedIs(want[t])
        /\ local' = [local EXCEPT ![t] = shared]
        /\ pc' = [pc EXCEPT ![t] = "use"]
        /\ UNCHANGED <<shared, mutex>>
     \/ /\ ~SharedIs(want[t])
        /\ shared' = Null /\ mutex' = t
        /\ pc' = [pc EXCEPT ![t] = "build"]
        /\ UNCHANGED local
  /\ UNCHANGED <<ctx, want, at>>

(* create_epoch_context: calloc leaves every item zero, and the L1 cache,   *)
(* where a full dataset has its first items, is filled before anyone else  *)
(* sees the context.                                                       *)
NewContext(e) ==
  [epoch |-> e, item |-> [i \in Items |-> IF i \in L1 THEN "whole" ELSE "zero"]]

CreateContext(t) ==
  /\ pc[t] = "build"
  /\ \E a \in Addresses \ Alive :
        /\ ctx' = [ctx EXCEPT ![a] = NewContext(want[t])]
        /\ shared' = a
        /\ local' = [local EXCEPT ![t] = a]
  /\ mutex' = Null
  /\ pc' = [pc EXCEPT ![t] = "use"]
  /\ UNCHANGED <<want, at>>

(* calloc fails: the null pointer becomes the shared and the local context. *)
CreateContextFails(t) ==
  /\ pc[t] = "build"
  /\ shared' = Null /\ local' = [local EXCEPT ![t] = Null]
  /\ mutex' = Null
  /\ pc' = [pc EXCEPT ![t] = "null"]
  /\ UNCHANGED <<ctx, want, at>>

(* return *thread_local_context_full, and search() reads through it: the    *)
(* program ends, and its memory with it.                                   *)
UseNull(t) ==
  /\ pc[t] = "null"
  /\ pc' = [u \in Threads |-> "ended"]
  /\ shared' = Null /\ mutex' = Null
  /\ local' = [u \in Threads |-> Null]
  /\ UNCHANGED <<ctx, want, at>>

(* lazy_lookup: an item whose first word is not zero is returned as it is. *)
LazyLookup(t, i) ==
  /\ pc[t] = "use"
  /\ at' = [at EXCEPT ![t] = i]
  /\ pc' = [pc EXCEPT ![t] = IF ctx[local[t]].item[i] = "zero" THEN "write" ELSE "use"]
  /\ UNCHANGED <<ctx, shared, mutex, local, want>>

(* item = calculate_dataset_item(...): its words are stored one by one, the *)
(* same values whichever thread stores them.                               *)
StoreFirst(t) ==
  /\ pc[t] = "write"
  /\ ctx' = [ctx EXCEPT ![local[t]].item[at[t]] = IF @ = "zero" THEN "torn" ELSE @]
  /\ pc' = [pc EXCEPT ![t] = "writing"]
  /\ UNCHANGED <<shared, mutex, local, want, at>>

StoreRest(t) ==
  /\ pc[t] = "writing"
  /\ ctx' = [ctx EXCEPT ![local[t]].item[at[t]] = "whole"]
  /\ pc' = [pc EXCEPT ![t] = "use"]
  /\ UNCHANGED <<shared, mutex, local, want, at>>

(* search() returns; the thread keeps its reference. *)
SearchReturns(t) ==
  /\ pc[t] = "use"
  /\ pc' = [pc EXCEPT ![t] = "idle"]
  /\ UNCHANGED <<ctx, shared, mutex, local, want, at>>

-----------------------------------------------------------------------------
(* find_epoch_number on the io thread.  A seed is the number of times zero  *)
(* was hashed to get it, -1 one that is on no epoch's chain; only its first *)
(* 32 bits are compared, which tell the seeds of the chain apart.           *)
Keccak256(s) == s + 1

Running == \A t \in Threads : pc[t] # "ended"

Answers(seed, e) == answer' = [seed |-> seed, epoch |-> e]

(* The step to the next epoch remembers the seed and not its number. *)
find_epoch_number_next_forgets(seed) ==
  /\ Running
  /\ \/ seed = cachedSeed /\ Answers(seed, cachedEpoch) /\ UNCHANGED <<cachedSeed, cachedEpoch>>
     \/ /\ seed # cachedSeed
        /\ Answers(seed, IF seed \in Epochs THEN seed ELSE -1)
        /\ cachedSeed' = IF seed \in Epochs THEN seed ELSE cachedSeed
        /\ cachedEpoch' = IF seed \in Epochs /\ seed # Keccak256(cachedSeed) THEN seed
                          ELSE cachedEpoch
  /\ UNCHANGED ctxVars

(* The remembered seed, the one after it, then all from epoch 0. *)
find_epoch_number(seed) ==
  /\ Running
  /\ \/ /\ seed = cachedSeed
        /\ Answers(seed, cachedEpoch)
        /\ UNCHANGED <<cachedSeed, cachedEpoch>>
     \/ /\ seed = Keccak256(cachedSeed)
        /\ cachedSeed' = seed /\ cachedEpoch' = cachedEpoch + 1
        /\ Answers(seed, cachedEpoch + 1)
     \/ /\ seed \notin {cachedSeed, Keccak256(cachedSeed)}
        /\ seed \in Epochs
        /\ cachedSeed' = seed /\ cachedEpoch' = seed
        /\ Answers(seed, seed)
     \/ /\ seed \notin {cachedSeed, Keccak256(cachedSeed)} \cup Epochs
        /\ Answers(seed, -1)
        /\ UNCHANGED <<cachedSeed, cachedEpoch>>
  /\ UNCHANGED ctxVars

HashingStep(t) ==
  /\ \/ \E e \in Epochs : GetContext(t, e)
     \/ LockContext(t) \/ CreateContext(t)
     \/ CreateContextFails(t) \/ UseNull(t)
     \/ \E i \in Items : LazyLookup(t, i)
     \/ StoreFirst(t) \/ StoreRest(t)
     \/ SearchReturns(t)
  /\ UNCHANGED findVars

ContextsNext ==
  \/ \E t \in Threads : HashingStep(t)
  \/ \E seed \in -1..NumTries : find_epoch_number(seed)

ContextsSpec == ContextsInit /\ [][ContextsNext]_<<ctxVars, findVars>>

-----------------------------------------------------------------------------
Building == {t \in Threads : pc[t] = "build"}
Hashing(t) == pc[t] \in {"use", "write", "writing"}

(* A thread that hashes has a context of the epoch it asked for, whatever   *)
(* the others asked for since: the reference it got stays valid, and one    *)
(* whose allocation failed (OutOfMemoryIsHandled) leaves nothing behind     *)
(* that another thread would take for a context; no more                    *)
(* contexts (gigabytes each) exist at once, the one under construction      *)
(* counted, than threads that hash, because each gives up its own before    *)
(* another one is built, by whichever thread; and the unlocked              *)
(* stores into a shared dataset end well: an item that nobody is storing is *)
(* untouched or whole, and those of the L1 cache are whole from the start.  *)
(* Whatever seed was asked for before, a search for                         *)
(* one answers its epoch, and -1 only beyond the epochs it tries: the pair  *)
(* remembered between calls stays a pair.                                   *)
(* (get_global_epoch_context_full, lazy_lookup, find_epoch_number)          *)
ContextsInOrder ==
  /\ \A t \in Threads : Hashing(t) => local[t] \in Alive /\ ctx[local[t]].epoch = want[t]
  /\ Cardinality(Alive) + Cardinality(Building) <= Cardinality(Threads)
  /\ \A a \in Alive, i \in Items :
       \/ ctx[a].item[i] \in {"zero", "whole"}
       \/ \E t \in Threads : pc[t] = "writing" /\ local[t] = a /\ at[t] = i
  /\ \A a \in Alive, i \in L1 : ctx[a].item[i] = "whole"
  /\ \/ answer.epoch = answer.seed
     \/ answer.epoch = -1 /\ answer.seed \notin Epochs

(* The null pointer with which create_epoch_context signals that there is   *)
(* no memory is looked at before it is used: the program goes on.  False:   *)
(* update_local_context stores it and its caller dereferences it.           *)
(* (create_epoch_context, get_global_epoch_context_full)                    *)
OutOfMemoryIsHandled == Running
=============================================================================
