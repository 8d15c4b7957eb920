------------------------------ MODULE ProgPow -------------------------------
(***************************************************************************)
(* ProgPoW twice: as libethash verifies it (progpow.cpp) and as the GPUs   *)
(* compute it, that is, the program ProgPow::getKern writes for a period   *)
(* (ProgPow.cpp) run inside the search kernels' loop over the lanes.       *)
(*                                                                         *)
(* The numbers are scaled down: W-bit words for 32-bit ones, and few       *)
(* registers, lanes, loads and loops.  The structure, the order of the     *)
(* random draws and the choice of operations are the source's.  The DAG is *)
(* an arbitrary function from word indices to words.                       *)
(***************************************************************************)
EXTENDS Integers, Sequences, Bitwise

CONSTANTS W,           \* bits of a word                    (32)
          Regs,        \* PROGPOW_REGS, num_regs            (32)
          NumLanes,    \* PROGPOW_LANES, num_lanes          (16)
          DagLoads,    \* PROGPOW_DAG_LOADS                 (4)
          CntCache,    \* PROGPOW_CNT_CACHE                 (11)
          CntMath,     \* PROGPOW_CNT_MATH                  (18)
          CntDag,      \* PROGPOW_CNT_DAG                   (64)
          CacheWords,  \* words of the cached part of the DAG (4096)
          DigestWords  \* words of the mix hash             (8)

Size == 2^W
Half == W \div 2
Scaled(n) == (n * W) \div 32
Words == 0..Size - 1
LaneIds == 0..NumLanes - 1
RegIds == 0..Regs - 1
Seeds == [lo : Words, hi : Words]

-----------------------------------------------------------------------------
(* bit_manipulation.h *)
Shl(x, n) == (x * 2^n) % Size
Shr(x, n) == x \div 2^n
rotl32(n, c) == Shl(n, c % W) | Shr(n, (W - (c % W)) % W)
rotr32(n, c) == Shr(n, c % W) | Shl(n, (W - (c % W)) % W)
clz32(x) == IF x = 0 THEN W ELSE CHOOSE k \in 0..W - 1 : 2^(W - 1 - k) <= x /\ x < 2^(W - k)
Bit(x, i) == (x \div 2^i) % 2
Popcount[p \in Words \X (0..W)] ==
  IF p[2] = 0 THEN 0 ELSE Bit(p[1], p[2] - 1) + Popcount[<<p[1], p[2] - 1>>]
popcount32(x) == Popcount[<<x, W>>]
mul_hi32(x, y) == (x * y) \div Size

fnv_prime == 16777619 % Size
fnv_offset_basis == 40389 % Size      \* the low half of 0x811c9dc5: W <= 16
fnv1a(u, v) == ((u ^^ v) * fnv_prime) % Size

(* kiss99.hpp, and the same generator in ProgPow.cpp and in the kernels:   *)
(* the next state, and the number it yields.                               *)
XorShift(j) ==
  LET a == j ^^ Shl(j, Scaled(17))
      b == a ^^ Shr(a, Scaled(13))
  IN  b ^^ Shl(b, Scaled(5))

kiss99(st) ==
  [z |-> (((36969 % Size) * (st.z % 2^Half)) + Shr(st.z, Half)) % Size,
   w |-> (((18000 % Size) * (st.w % 2^Half)) + Shr(st.w, Half)) % Size,
   jsr |-> XorShift(st.jsr),
   jcong |-> (((69069 % Size) * st.jcong) + (1234567 % Size)) % Size]

Drawn(st) == ((((Shl(st.z, Half) + st.w) % Size) ^^ st.jcong) + st.jsr) % Size

-----------------------------------------------------------------------------
(* The verifier.                                                           *)

random_math(a, b, selector) ==
  CASE selector % 11 = 0 -> (a + b) % Size
    [] selector % 11 = 1 -> (a * b) % Size
    [] selector % 11 = 2 -> mul_hi32(a, b)
    [] selector % 11 = 3 -> IF a < b THEN a ELSE b
    [] selector % 11 = 4 -> rotl32(a, b)
    [] selector % 11 = 5 -> rotr32(a, b)
    [] selector % 11 = 6 -> a & b
    [] selector % 11 = 7 -> a | b
    [] selector % 11 = 8 -> a ^^ b
    [] selector % 11 = 9 -> clz32(a) + clz32(b)
    [] selector % 11 = 10 -> popcount32(a) + popcount32(b)

random_merge(a, b, selector) ==
  LET x == (Shr(selector, Half) % (W - 1)) + 1
  IN  CASE selector % 4 = 0 -> ((a * 33) + b) % Size
        [] selector % 4 = 1 -> ((a ^^ b) * 33) % Size
        [] selector % 4 = 2 -> rotl32(a, x) ^^ b
        [] selector % 4 = 3 -> rotr32(a, x) ^^ b

Swap(f, i, j) == [f EXCEPT ![i] = f[j], ![j] = f[i]]
Identity == [r \in RegIds |-> r]

(* mix_rng_state: the generator and two shuffles, i going down to 2. *)
RECURSIVE Shuffle(_, _)
Shuffle(i, s) ==
  IF i <= 1 THEN s
  ELSE LET k1 == kiss99(s.rng)
           k2 == kiss99(k1)
       IN  Shuffle(i - 1, [s EXCEPT !.dst = Swap(@, i - 1, Drawn(k1) % i),
                                    !.src = Swap(@, i - 1, Drawn(k2) % i),
                                    !.rng = k2])

mix_rng_state(seed) ==
  LET z == fnv1a(fnv_offset_basis, seed.lo)
      w == fnv1a(z, seed.hi)
      jsr == fnv1a(w, seed.lo)
      jcong == fnv1a(jsr, seed.hi)
  IN  Shuffle(Regs, [rng |-> [z |-> z, w |-> w, jsr |-> jsr, jcong |-> jcong],
                     dst |-> Identity, src |-> Identity, dc |-> 0, sc |-> 0])

next_dst(s) == s.dst[s.dc % Regs]
next_src(s) == s.src[s.sc % Regs]

(* Random access to cached memory, in every lane's row of registers. *)
CacheAccess(s, mix, dag) ==
  LET k == kiss99(s.rng)
      merged(row) == [row EXCEPT ![next_dst(s)] =
                        random_merge(@, dag[row[next_src(s)] % CacheWords], Drawn(k))]
  IN  [s |-> [s EXCEPT !.sc = @ + 1, !.dc = @ + 1, !.rng = k],
       mix |-> [l \in LaneIds |-> merged(mix[l])]]

(* Random math: two different sources from one number. *)
RandomMath(s, mix) ==
  LET k1 == kiss99(s.rng)
      k2 == kiss99(k1)
      k3 == kiss99(k2)
      src_rnd == Drawn(k1) % (Regs * (Regs - 1))
      src1 == src_rnd % Regs
      src2 == IF src_rnd \div Regs >= src1 THEN src_rnd \div Regs + 1 ELSE src_rnd \div Regs
      merged(row) == [row EXCEPT ![next_dst(s)] =
                        random_merge(@, random_math(row[src1], row[src2], Drawn(k2)), Drawn(k3))]
  IN  [s |-> [s EXCEPT !.dc = @ + 1, !.rng = k3],
       mix |-> [l \in LaneIds |-> merged(mix[l])]]

RECURSIVE Operations(_, _, _)
Operations(i, m, dag) ==
  IF i >= CntCache /\ i >= CntMath THEN m
  ELSE LET a == IF i < CntCache THEN CacheAccess(m.s, m.mix, dag) ELSE m
           b == IF i < CntMath THEN RandomMath(a.s, a.mix) ELSE a
       IN  Operations(i + 1, b, dag)

(* The DAG words i.. of the item, merged into a new destination each. *)
RECURSIVE DagAccess(_, _, _, _, _)
DagAccess(i, s, mix, item, r) ==
  IF i = DagLoads THEN mix
  ELSE LET dst == IF i = 0 THEN 0 ELSE next_dst(s)
           k == kiss99(s.rng)
           offset(l) == ((l ^^ r) % NumLanes) * DagLoads
           merged(row, l) == [row EXCEPT ![dst] =
                                random_merge(@, item[offset(l) + i], Drawn(k))]
       IN  DagAccess(i + 1,
                     [s EXCEPT !.dc = IF i = 0 THEN @ ELSE @ + 1, !.rng = k],
                     [l \in LaneIds |-> merged(mix[l], l)],
                     item, r)

(* round(): the state is passed by value, so every round runs one program. *)
VerifierRound(num_items, r, mix, s, dag) ==
  LET index == mix[r % NumLanes][0] % num_items
      item == [k \in 0..NumLanes * DagLoads - 1 |-> dag[index * NumLanes * DagLoads + k]]
      m == Operations(0, [s |-> s, mix |-> mix], dag)
  IN  DagAccess(0, m.s, m.mix, item, r)

RECURSIVE FillRegs(_, _, _)
FillRegs(i, k, row) ==
  IF i = Regs THEN row
  ELSE FillRegs(i + 1, kiss99(k), [row EXCEPT ![i] = Drawn(kiss99(k))])

init_mix(seed) ==
  LET z == fnv1a(fnv_offset_basis, seed.lo)
      w == fnv1a(z, seed.hi)
  IN  [l \in LaneIds |->
         LET jsr == fnv1a(w, l)
             jcong == fnv1a(jsr, l)
         IN  FillRegs(0, [z |-> z, w |-> w, jsr |-> jsr, jcong |-> jcong],
                      [r \in RegIds |-> 0])]

RECURSIVE FnvFold(_, _, _)
FnvFold(h, f, ixs) == IF ixs = <<>> THEN h ELSE FnvFold(fnv1a(h, f[Head(ixs)]), f, Tail(ixs))
UpTo(n) == [i \in 1..n |-> i - 1]

RECURSIVE ReduceLanes(_, _, _)
ReduceLanes(l, hash, lane_hash) ==
  IF l = NumLanes THEN hash
  ELSE ReduceLanes(l + 1, [hash EXCEPT ![l % DigestWords] = fnv1a(@, lane_hash[l])], lane_hash)

Reduced(mix) ==
  ReduceLanes(0, [d \in 0..DigestWords - 1 |-> fnv_offset_basis],
              [l \in LaneIds |-> FnvFold(fnv_offset_basis, mix[l], UpTo(Regs))])

RECURSIVE VerifierRounds(_, _, _, _, _)
VerifierRounds(i, num_items, mix, s, dag) ==
  IF i = CntDag THEN mix
  ELSE VerifierRounds(i + 1, num_items, VerifierRound(num_items, i, mix, s, dag), s, dag)

(* hash_mix for the period whose number is prog_seed; dataset_items is     *)
(* full_dataset_num_items, the 1024-bit items of the dataset.              *)
hash_mix(prog_seed, seed, dataset_items, dag) ==
  Reduced(VerifierRounds(0, dataset_items \div 2, init_mix(seed), mix_rng_state(prog_seed), dag))

-----------------------------------------------------------------------------
(* The generator: getKern as the list of the instructions it writes.       *)

(* ProgPow::merge chooses the statement when the kernel is written. *)
merge(r) == [op |-> r % 4, n |-> (Shr(r, Half) % (W - 1)) + 1]
math(r) == r % 11

(* The two shuffles again, with i one lower. *)
RECURSIVE MixSeqs(_, _)
MixSeqs(i, g) ==
  IF i = 0 THEN g
  ELSE LET k1 == kiss99(g.rnd)
           k2 == kiss99(k1)
       IN  MixSeqs(i - 1, [g EXCEPT !.seq_dst = Swap(@, i, Drawn(k1) % (i + 1)),
                                    !.seq_cache = Swap(@, i, Drawn(k2) % (i + 1)),
                                    !.rnd = k2])

KernStart(prog_seed) ==
  LET z == fnv1a(fnv_offset_basis, prog_seed.lo)
      w == fnv1a(z, prog_seed.hi)
      jsr == fnv1a(w, prog_seed.lo)
  IN  MixSeqs(Regs - 1,
              [rnd |-> [z |-> z, w |-> w, jsr |-> jsr, jcong |-> fnv1a(jsr, prog_seed.hi)],
               seq_dst |-> Identity, seq_cache |-> Identity, dst_cnt |-> 0, cache_cnt |-> 0,
               code |-> <<>>])

mix_dst(g) == g.seq_dst[g.dst_cnt % Regs]
mix_cache(g) == g.seq_cache[g.cache_cnt % Regs]

WriteCacheLoad(g) ==
  LET k == kiss99(g.rnd)
  IN  [g EXCEPT !.cache_cnt = @ + 1, !.dst_cnt = @ + 1, !.rnd = k,
                !.code = Append(@, [is |-> "cache", src |-> mix_cache(g), dst |-> mix_dst(g),
                                    merge |-> merge(Drawn(k))])]

(* The destination drawn before the operation instead of after it. *)
WriteMathSwapped(g) ==
  LET k1 == kiss99(g.rnd)
      k2 == kiss99(k1)
      k3 == kiss99(k2)
      src1 == (Drawn(k1) % ((Regs - 1) * Regs)) % Regs
      src2 == (Drawn(k1) % ((Regs - 1) * Regs)) \div Regs
  IN  [g EXCEPT !.dst_cnt = @ + 1, !.rnd = k3,
                !.code = Append(@, [is |-> "math", src1 |-> src1,
                                    src2 |-> IF src2 >= src1 THEN src2 + 1 ELSE src2,
                                    op |-> math(Drawn(k3)), dst |-> mix_dst(g),
                                    merge |-> merge(Drawn(k2))])]

WriteMath(g) ==
  LET k1 == kiss99(g.rnd)
      k2 == kiss99(k1)
      k3 == kiss99(k2)
      src_rnd == Drawn(k1) % ((Regs - 1) * Regs)
      src1 == src_rnd % Regs
      src2 == src_rnd \div Regs
  IN  [g EXCEPT !.dst_cnt = @ + 1, !.rnd = k3,
                !.code = Append(@, [is |-> "math", src1 |-> src1,
                                    src2 |-> IF src2 >= src1 THEN src2 + 1 ELSE src2,
                                    op |-> math(Drawn(k2)), dst |-> mix_dst(g),
                                    merge |-> merge(Drawn(k3))])]

WriteDagLoad(g, i) ==
  LET k == kiss99(g.rnd)
  IN  [g EXCEPT !.dst_cnt = IF i = 0 THEN @ ELSE @ + 1, !.rnd = k,
                !.code = Append(@, [is |-> "dag", word |-> i, merge |-> merge(Drawn(k)),
                                    dst |-> IF i = 0 THEN 0 ELSE mix_dst(g)])]

RECURSIVE WriteLoop(_, _)
WriteLoop(i, g) ==
  IF i >= CntCache /\ i >= CntMath THEN g
  ELSE LET a == IF i < CntCache THEN WriteCacheLoad(g) ELSE g
       IN  WriteLoop(i + 1, IF i < CntMath THEN WriteMath(a) ELSE a)

RECURSIVE WriteConsume(_, _)
WriteConsume(i, g) == IF i = DagLoads THEN g ELSE WriteConsume(i + 1, WriteDagLoad(g, i))

getKern(prog_seed) == WriteConsume(0, WriteLoop(0, KernStart(prog_seed))).code

-----------------------------------------------------------------------------
(* What the kernels do with it.  kern is "CL", "CUDA" or "OldCUDA"         *)
(* (__CUDA_ARCH__ < 350).                                                  *)
Rotate(x, n) == rotl32(x, n)                \* OpenCL's rotate
Funnel(x, n) == rotl32(x, n)                \* __funnelshift_l(x, x, n)
ShiftOut(x, n) == IF n >= W THEN 0 ELSE Shr(x, n)
ShiftIn(x, n) == IF n >= W THEN 0 ELSE Shl(x, n)

ROTL32(kern, x, n) ==
  CASE kern = "CL" -> Rotate(x, n)
    [] kern = "CUDA" -> Funnel(x, n)
    [] kern = "OldCUDA" -> Shl(x, n % W) | ShiftOut(x, W - (n % W))

ROTR32(kern, x, n) ==
  CASE kern = "CL" -> Rotate(x, W - n)
    [] kern = "CUDA" -> rotr32(x, n)
    [] kern = "OldCUDA" -> Shr(x, n % W) | ShiftIn(x, W - (n % W))

RunMerge(kern, a, b, m) ==
  CASE m.op = 0 -> ((a * 33) + b) % Size
    [] m.op = 1 -> ((a ^^ b) * 33) % Size
    [] m.op = 2 -> ROTL32(kern, a, m.n) ^^ b
    [] m.op = 3 -> ROTR32(kern, a, m.n) ^^ b

RunMath(kern, a, b, op) ==
  CASE op = 0 -> (a + b) % Size
    [] op = 1 -> (a * b) % Size
    [] op = 2 -> mul_hi32(a, b)
    [] op = 3 -> IF a < b THEN a ELSE b
    [] op = 4 -> ROTL32(kern, a, b % W)
    [] op = 5 -> ROTR32(kern, a, b % W)
    [] op = 6 -> a & b
    [] op = 7 -> a | b
    [] op = 8 -> a ^^ b
    [] op = 9 -> clz32(a) + clz32(b)
    [] op = 10 -> popcount32(a) + popcount32(b)

(* The statements of one lane's loop body, in order. *)
RECURSIVE RunCode(_, _, _, _, _)
RunCode(kern, code, mix, data_dag, c_dag) ==
  IF code = <<>> THEN mix
  ELSE LET i == Head(code)
           data == CASE i.is = "cache" -> c_dag[mix[i.src] % CacheWords]
                     [] i.is = "math" -> RunMath(kern, mix[i.src1], mix[i.src2], i.op)
                     [] i.is = "dag" -> data_dag[i.word]
       IN  RunCode(kern, Tail(code), [mix EXCEPT ![i.dst] = RunMerge(kern, @, data, i.merge)],
                   data_dag, c_dag)

(* One turn of the loop: lane loop % PROGPOW_LANES shares its mix[0]; the  *)
(* DAG is an array of dag_t, DagLoads words each.                          *)
KernelRound(kern, code, dag_elements, loop, mix, dag) ==
  LET shared == mix[loop % NumLanes][0] % dag_elements
      at(lane) == shared * NumLanes + ((lane ^^ loop) % NumLanes)
  IN  [lane \in LaneIds |->
         RunCode(kern, code, mix[lane],
                 [k \in 0..DagLoads - 1 |-> dag[at(lane) * DagLoads + k]], dag)]

RECURSIVE KernelRounds(_, _, _, _, _, _)
KernelRounds(kern, code, dag_elements, loop, mix, dag) ==
  IF loop = CntDag THEN mix
  ELSE KernelRounds(kern, code, dag_elements, loop + 1,
                    KernelRound(kern, code, dag_elements, loop, mix, dag), dag)

(* fill_mix, run by each lane for itself. *)
fill_mix(seed, lane_id) ==
  LET z == fnv1a(fnv_offset_basis, seed.lo)
      w == fnv1a(z, seed.hi)
      jsr == fnv1a(w, lane_id)
  IN  FillRegs(0, [z |-> z, w |-> w, jsr |-> jsr, jcong |-> fnv1a(jsr, lane_id)],
               [r \in RegIds |-> 0])

(* The lanes' digests, DigestWords at a time (CUDA), or one by one (CL). *)
DigestOf(kern, digest_lane) ==
  IF kern = "CL"
  THEN ReduceLanes(0, [d \in 0..DigestWords - 1 |-> fnv_offset_basis], digest_lane)
  ELSE [j \in 0..DigestWords - 1 |->
          FnvFold(fnv_offset_basis, digest_lane,
                  [q \in 1..NumLanes \div DigestWords |-> (q - 1) * DigestWords + j])]

(* ethash_search / progpow_search: a group of lanes computes the hash of   *)
(* each of its threads' seeds in turn, and thread h keeps the h-th digest. *)
KernelDigests(kern, prog_seed, seeds, dataset_items, dag) ==
  LET code == getKern(prog_seed)
  IN  [h \in LaneIds |->
         LET mix == KernelRounds(kern, code, dataset_items \div 2, 0,
                                 [lane \in LaneIds |-> fill_mix(seeds[h], lane)], dag)
         IN  DigestOf(kern, [lane \in LaneIds |->
                               FnvFold(fnv_offset_basis, mix[lane], UpTo(Regs))])]
=============================================================================
