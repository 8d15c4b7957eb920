------------------------------ MODULE Dataset -------------------------------
(***************************************************************************)
(* The light cache and the DAG: how libethash computes them (ethash.cpp,   *)
(* primes.c) and how the OpenCL and CUDA miners fill the DAG on the device *)
(* (the launch loops of initEpoch_internal and ethash_generate_dag, and    *)
(* the kernels ethash_calculate_dag_item).                                 *)
(*                                                                         *)
(* A node (hash512, hash64_t) is a tuple of four words of W bits, one for  *)
(* each uint4 of the kernels; Keccak512 is any function of nodes.          *)
(***************************************************************************)
EXTENDS Integers, Sequences, Bitwise

CONSTANTS W,             \* bits of a word               (32)
          Parents,       \* ETHASH_DATASET_PARENTS       (256)
          CacheRounds,   \* light_cache_rounds           (3)
          ChunkLocals,   \* local work sizes in a chunk  (10000)
          Keccak512(_)   \* the hash of a node

Size == 2^W
FnvPrime == 16777619 % Size
fnv(x, y) == ((x * FnvPrime) % Size) ^^ y
Node(f(_)) == <<f(1), f(2), f(3), f(4)>>
NodeWords == 4

-----------------------------------------------------------------------------
(* primes.c *)
RECURSIVE is_odd_prime(_, _)
is_odd_prime(number, d) ==
  \/ d * d > number
  \/ number % d # 0 /\ is_odd_prime(number, d + 2)

RECURSIVE OddPrimeBelow(_)
OddPrimeBelow(n) == IF is_odd_prime(n, 3) THEN n ELSE OddPrimeBelow(n - 2)

find_largest_prime(upper_bound) ==
  CASE upper_bound < 2 -> 0
    [] upper_bound = 2 -> 2
    [] upper_bound > 2 -> OddPrimeBelow(IF upper_bound % 2 = 0 THEN upper_bound - 1
                                        ELSE upper_bound)

(* calculate_light_cache_num_items, calculate_full_dataset_num_items *)
NumItems(init, growth, epoch_number) == find_largest_prime(init + epoch_number * growth)

-----------------------------------------------------------------------------
(* The reference: libethash.                                               *)

RECURSIVE Chain(_, _)
Chain(cache, n) ==
  IF Len(cache) = n THEN cache ELSE Chain(Append(cache, Keccak512(cache[Len(cache)])), n)

(* One pass over the cache: item i is replaced using the items it names. *)
RECURSIVE CachePass(_, _)
CachePass(cache, i) ==
  LET n == Len(cache)
      v == cache[i + 1][1] % n
      w == (n + (i - 1)) % n
      x(k) == cache[v + 1][k] ^^ cache[w + 1][k]
  IN  IF i = n THEN cache
      ELSE CachePass([cache EXCEPT ![i + 1] = Keccak512(Node(x))], i + 1)

RECURSIVE CachePasses(_, _)
CachePasses(cache, q) == IF q = 0 THEN cache ELSE CachePasses(CachePass(cache, 0), q - 1)

build_light_cache(num_items, seed) == CachePasses(Chain(<<Keccak512(seed)>>, num_items), CacheRounds)

(* item_state: construction, update(round), final(). *)
ItemStart(cache, index) ==
  LET c == cache[(index % Len(cache)) + 1]
  IN  Keccak512([c EXCEPT ![1] = @ ^^ (index % Size)])

ItemUpdate(cache, seed, round, mix) ==
  LET t == fnv((seed ^^ round) % Size, mix[(round % NodeWords) + 1])
      parent == cache[(t % Len(cache)) + 1]
      word(k) == fnv(mix[k], parent[k])
  IN  Node(word)

RECURSIVE ItemUpdates(_, _, _, _)
ItemUpdates(cache, seed, round, mix) ==
  IF round = Parents THEN mix
  ELSE ItemUpdates(cache, seed, round + 1, ItemUpdate(cache, seed, round, mix))

calculate_dataset_item_512(cache, index) ==
  Keccak512(ItemUpdates(cache, index % Size, 0, ItemStart(cache, index)))

(* The interleaved versions: 2 nodes of an item of the dataset, 4 of two. *)
calculate_dataset_item(n, cache, index) ==
  [k \in 0..n - 1 |-> calculate_dataset_item_512(cache, index * n + k)]

-----------------------------------------------------------------------------
(* calculate_fast_mod_data and the kernel's fast_mod: remainders by a      *)
(* multiplication with a reciprocal, in 2W bits.                           *)
clz(d) == CHOOSE k \in 0..W - 1 : 2^(W - 1 - k) <= d /\ d < 2^(W - k)

calculate_fast_mod_data(divisor) ==
  LET power == divisor & (divisor - 1) = 0
      shift == IF power THEN W - 1 - clz(divisor) ELSE 2 * W - 1 - clz(divisor)
      q == 2^shift \div divisor
      r == 2^shift - q * divisor
  IN  CASE power -> <<1, 0, shift, divisor>>
        [] ~power /\ r * 2 < divisor -> <<q % Size, 1, shift, divisor>>
        [] ~power /\ r * 2 >= divisor -> <<(q + 1) % Size, 0, shift, divisor>>

(* The increment left out: the quotient of a multiple may be one too small. *)
fast_mod_no_increment(a, d) == (a - (((a * d[1]) \div 2^d[3]) % Size) * d[4]) % Size

fast_mod(a, d) ==
  LET q == ((((a + d[2]) * d[1]) % (Size * Size)) \div 2^d[3]) % Size
  IN  (a - q * d[4]) % Size

-----------------------------------------------------------------------------
(* The OpenCL kernel for one node. *)
RECURSIVE ClParents(_, _, _, _, _)
ClParents(light, light_words, node_index, i, node) ==
  IF i = Parents THEN node
  ELSE LET parent == light[fast_mod(fnv((node_index ^^ i) % Size, node[(i % NodeWords) + 1]),
                                    light_words) + 1]
           word(w) == fnv(node[w], parent[w])
       IN  ClParents(light, light_words, node_index, i + 1, Node(word))

ClNode(light, node_index) ==
  LET light_words == calculate_fast_mod_data(Len(light))
      first == light[fast_mod(node_index, light_words) + 1]
  IN  Keccak512(ClParents(light, light_words, node_index, 0,
                          Keccak512([first EXCEPT ![1] = @ ^^ node_index])))

(* A launch of count work items: each beyond the DAG returns at once. *)
ClLaunch(g, count) ==
  [g EXCEPT !.dag = [n \in DOMAIN @ |->
                       IF n \in g.start..g.start + count - 1 /\ n < g.words
                       THEN ClNode(g.light, n) ELSE @[n]]]

(* The loop over whole chunks, with uint32_t start and workItems, and the  *)
(* launch for the rest, rounded up to the local work size.                 *)
ClChunk(g) == ChunkLocals * g.localSize
ClStep(g) ==
  LET chunk == ClChunk(g)
      left == g.words - g.start
      groups == (left + g.localSize - 1) \div g.localSize
  IN  CASE g.start <= (g.words - chunk) % Size ->
             [ClLaunch(g, chunk) EXCEPT !.start = (@ + chunk) % Size]
        [] g.start > (g.words - chunk) % Size /\ g.start < g.words ->
             [ClLaunch(g, groups * g.localSize) EXCEPT !.done = TRUE]
        [] OTHER -> [g EXCEPT !.done = TRUE]

-----------------------------------------------------------------------------
(* The CUDA kernel: four threads work together, each on a node of its own; *)
(* SHFL(x, t, 4) is thread t's x.  dag_node[t] is thread t's node.         *)
Quad == 0..3

RECURSIVE CudaParents(_, _, _, _)
CudaParents(light, base, i, dag_node) ==
  IF i = Parents THEN dag_node
  ELSE LET parent_index(t) == fnv(((base + t) ^^ i) % Size, dag_node[t + 1][(i % NodeWords) + 1])
                                % Len(light)
           (* what thread w loads for thread t, and what thread t makes of it *)
           p4(w, t) == light[parent_index(t) + 1][w]
           updated(t) == LET word(w) == fnv(dag_node[t + 1][w], p4(w, t)) IN Node(word)
       IN  CudaParents(light, base, i + 1, <<updated(0), updated(1), updated(2), updated(3)>>)

CudaQuad(light, base) ==
  LET first(t) == LET c == light[((base + t) % Len(light)) + 1]
                  IN  Keccak512([c EXCEPT ![1] = @ ^^ ((base + t) % Size)])
      mixed == CudaParents(light, base, 0, <<first(0), first(1), first(2), first(3)>>)
  IN  [t \in Quad |-> Keccak512(mixed[t + 1])]

(* A launch of blocks * threads from start: quads with no valid node       *)
(* return, and of the others only nodes within the DAG are stored.         *)
CudaLaunch(g, start) ==
  LET rounded == ((g.words + 3) \div 4) * 4
      base(n) == n - ((n - start) % 4)
  IN  [g EXCEPT !.dag = [n \in DOMAIN @ |->
                           IF /\ n \in start..start + g.blocks * g.threads - 1
                              /\ base(n) < rounded
                              /\ n < g.words
                           THEN CudaQuad(g.light, base(n))[n - base(n)] ELSE @[n]]]

(* One launch less when the last one would be partial. *)
FullRunsTruncated(g) == g.words \div (g.blocks * g.threads)

FullRuns(g) ==
  LET fullRuns == g.words \div (g.blocks * g.threads)
  IN  IF g.words % (g.blocks * g.threads) > 0 THEN fullRuns + 1 ELSE fullRuns

CudaStep(g) ==
  IF g.start < FullRuns(g)
  THEN [CudaLaunch(g, g.start * g.blocks * g.threads) EXCEPT !.start = @ + 1]
  ELSE [g EXCEPT !.done = TRUE]

-----------------------------------------------------------------------------
(* The generation of a DAG of items 1024-bit items on a device. *)
None == <<>>
Generation(dev, items, light, localSize, blocks, threads) ==
  [dev |-> dev, words |-> 2 * items, light |-> light, start |-> 0, done |-> FALSE,
   localSize |-> localSize, blocks |-> blocks, threads |-> threads,
   dag |-> [n \in 0..2 * items + 7 |-> None]]

GenerationStep(g) == IF g.dev = "CL" THEN ClStep(g) ELSE CudaStep(g)

Complete(g) ==
  \A n \in DOMAIN g.dag :
     g.dag[n] = IF n < g.words THEN calculate_dataset_item_512(g.light, n) ELSE None
=============================================================================
