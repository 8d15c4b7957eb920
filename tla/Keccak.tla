------------------------------- MODULE Keccak -------------------------------
(***************************************************************************)
(* The Keccak permutations of the miner: the unrolled C versions of        *)
(* libethash (keccakf800.c, keccakf1600.c), the table-driven ones of the   *)
(* search kernels and of the CUDA DAG kernel, the one on pairs of 32-bit   *)
(* words of the OpenCL DAG kernel, and the sponge of keccak.c.             *)
(*                                                                         *)
(* A lane of W bits is the set of the positions of its one bits, so that   *)
(* 64-bit lanes need no 64-bit arithmetic.  A state is a function from     *)
(* 0..24 to lanes; lane 5*y + x is FIPS 202's lane (x, y).                 *)
(***************************************************************************)
EXTENDS Integers, Sequences, FiniteSets

Lanes == 0..24
Xor(a, b) == (a \ b) \cup (b \ a)
Bits(W) == 0..W - 1

(* rol(x, s), ROTL32 / ROTL64 with the counts the hardware takes modulo W *)
Rol(W, a, s) == {(i + s) % W : i \in a}

-----------------------------------------------------------------------------
(* The reference: the step mappings of FIPS 202, section 3.2.              *)

(* rc(t): the linear feedback shift register as the list of bits R[0..7].  *)
LfsrStep(R) ==
  LET S == <<0>> \o R
      b(i) == (S[i] + S[9]) % 2
  IN  <<b(1), S[2], S[3], S[4], b(5), b(6), b(7), S[8]>>

Lfsr[t \in Nat] == IF t = 0 THEN <<1, 0, 0, 0, 0, 0, 0, 0>> ELSE LfsrStep(Lfsr[t - 1])

RefRoundConstant(W, r) ==
  {2^j - 1 : j \in {k \in 0..6 : 2^k <= W /\ Lfsr[(k + 7 * r) % 255][1] = 1}}

(* Rho: the walk (x, y) -> (y, 2x + 3y) from (1, 0) numbers the lanes. *)
Walk[t \in Nat] == IF t = 0 THEN <<1, 0>>
                   ELSE LET p == Walk[t - 1] IN <<p[2], (2 * p[1] + 3 * p[2]) % 5>>

RefOffsets ==
  [l \in Lanes |->
     IF l = 0 THEN 0
     ELSE LET t == CHOOSE t \in 0..23 : 5 * Walk[t][2] + Walk[t][1] = l
          IN  ((t + 1) * (t + 2)) \div 2]

RefRound(W, A, r) ==
  LET C == [x \in 0..4 |->
              Xor(A[x], Xor(A[x + 5], Xor(A[x + 10], Xor(A[x + 15], A[x + 20]))))]
      D == [x \in 0..4 |-> Xor(C[(x + 4) % 5], Rol(W, C[(x + 1) % 5], 1))]
      T == [l \in Lanes |-> Xor(A[l], D[l % 5])]
      (* Rho and Pi: A'[x, y] = A[(x + 3y) mod 5, x] *)
      P == [l \in Lanes |-> LET x == l % 5
                                y == l \div 5
                                s == 5 * x + ((x + 3 * y) % 5)
                            IN  Rol(W, T[s], RefOffsets[s])]
      Q == [l \in Lanes |-> LET n(k) == 5 * (l \div 5) + ((l + k) % 5)
                            IN  Xor(P[l], (Bits(W) \ P[n(1)]) \cap P[n(2)])]
  IN  [Q EXCEPT ![0] = Xor(@, RefRoundConstant(W, r))]

-----------------------------------------------------------------------------
(* round_constants, keccakf_rndc and Keccak_f1600_RC: the bit positions.   *)
(* The 800-bit tables hold the low words of the 1600-bit one.              *)
RoundConstants ==
  << {0}, {1, 7, 15}, {1, 3, 7, 15, 63}, {15, 31, 63}, {0, 1, 3, 7, 15},
     {0, 31}, {0, 7, 15, 31, 63}, {0, 3, 15, 63}, {1, 3, 7}, {3, 7},
     {0, 3, 15, 31}, {1, 3, 31}, {0, 1, 3, 7, 15, 31}, {0, 1, 3, 7, 63},
     {0, 3, 7, 15, 63}, {0, 1, 15, 63}, {1, 15, 63}, {7, 63}, {1, 3, 15},
     {1, 3, 31, 63}, {0, 7, 15, 31, 63}, {7, 15, 63}, {0, 31}, {3, 15, 31, 63} >>

RoundConstant(W, r) == RoundConstants[r + 1] \cap Bits(W)
Rounds(W) == IF W = 32 THEN 22 ELSE 24

(* One unrolled round of ethash_keccakf800 / ethash_keccakf1600 (Axx -> Exx, *)
(* and Exx -> Axx): for each row of the result, the five lanes that are     *)
(* xored with their D and rotated into Ba, Be, Bi, Bo, Bu, as <<lane, count>>. *)
UnrolledRows800 ==
  << << <<0, 0>>, <<6, 12>>, <<12, 11>>, <<18, 21>>, <<24, 14>> >>,
     << <<3, 28>>, <<9, 20>>, <<10, 3>>, <<16, 13>>, <<22, 29>> >>,
     << <<1, 1>>, <<7, 6>>, <<13, 25>>, <<19, 8>>, <<20, 18>> >>,
     << <<4, 27>>, <<5, 4>>, <<11, 10>>, <<17, 15>>, <<23, 24>> >>,
     << <<2, 30>>, <<8, 23>>, <<14, 7>>, <<15, 9>>, <<21, 2>> >> >>

UnrolledRows1600 ==
  << << <<0, 0>>, <<6, 44>>, <<12, 43>>, <<18, 21>>, <<24, 14>> >>,
     << <<3, 28>>, <<9, 20>>, <<10, 3>>, <<16, 45>>, <<22, 61>> >>,
     << <<1, 1>>, <<7, 6>>, <<13, 25>>, <<19, 8>>, <<20, 18>> >>,
     << <<4, 27>>, <<5, 36>>, <<11, 10>>, <<17, 15>>, <<23, 56>> >>,
     << <<2, 62>>, <<8, 55>>, <<14, 39>>, <<15, 41>>, <<21, 2>> >> >>

UnrolledRows(W) == IF W = 32 THEN UnrolledRows800 ELSE UnrolledRows1600

(* Theta's column parities Ba..Bu and what is xored into column x. *)
Parity(A) == [x \in 0..4 |->
                Xor(A[x], Xor(A[x + 5], Xor(A[x + 10], Xor(A[x + 15], A[x + 20]))))]
Theta(W, A) ==
  LET B == Parity(A)
  IN  [x \in 0..4 |-> Xor(B[(x + 4) % 5], Rol(W, B[(x + 1) % 5], 1))]

UnrolledRound(W, A, r) ==
  LET D == Theta(W, A)
      B(row) == [k \in 0..4 |-> LET s == UnrolledRows(W)[row + 1][k + 1]
                                IN  Rol(W, Xor(A[s[1]], D[s[1] % 5]), s[2])]
      E == [row \in 0..4 |-> LET b == B(row)
                             IN  [k \in 0..4 |-> Xor(b[k], (Bits(W) \ b[(k + 1) % 5])
                                                           \cap b[(k + 2) % 5])]]
  IN  [l \in Lanes |-> IF l = 0 THEN Xor(E[0][0], RoundConstant(W, r))
                       ELSE E[l \div 5][l % 5]]

(* keccak_f800_round of both search kernels and keccak_f1600_round of the  *)
(* CUDA DAG kernel: Rho and Pi move the lanes along a chain, each into the *)
(* place of the next, through the temporary t.                             *)
keccakf_rotc == <<1, 3, 6, 10, 15, 21, 28, 36, 45, 55, 2, 14,
                  27, 41, 56, 8, 25, 43, 62, 18, 39, 61, 20, 44>>
keccakf_piln == <<10, 7, 11, 17, 18, 3, 5, 16, 8, 21, 24, 4,
                  15, 23, 19, 13, 12, 2, 20, 14, 22, 9, 6, 1>>

RECURSIVE RhoPi(_, _, _, _)
RhoPi(W, st, t, i) ==
  IF i > 24 THEN st
  ELSE LET j == keccakf_piln[i]
       IN  RhoPi(W, [st EXCEPT ![j] = Rol(W, t, keccakf_rotc[i])], st[j], i + 1)

TableChi(W, P) ==
  [l \in Lanes |-> LET bc(k) == P[5 * (l \div 5) + ((l + k) % 5)]
                   IN  Xor(P[l], (Bits(W) \ bc(1)) \cap bc(2))]

TableRound(W, A, r) ==
  LET D == Theta(W, A)
      T == [l \in Lanes |-> Xor(A[l], D[l % 5])]
  IN  [TableChi(W, RhoPi(W, T, T[1], 1)) EXCEPT ![0] = Xor(@, RoundConstant(W, r))]

-----------------------------------------------------------------------------
(* The OpenCL DAG kernel works on uint2 (x the low, y the high word).      *)
Low(a) == a \cap (0..31)
High(a) == {i - 32 : i \in a \cap (32..63)}
Lane64(v) == v.x \cup {i + 32 : i \in v.y}
Pair(a) == [x |-> Low(a), y |-> High(a)]

Shl(a, n) == {i + n : i \in {k \in a : k + n < 32}}
Shr(a, n) == {i - n : i \in {k \in a : k >= n}}

(* The words not exchanged for counts beyond 32. *)
ROL2Unswapped(v, n) ==
  [y |-> Shl(v.y, n % 32) \cup Shr(v.x, (64 - n) % 32),
   x |-> Shl(v.x, n % 32) \cup Shr(v.y, (64 - n) % 32)]

(* ROL2 by 1 to 63, the version without vendor instructions. *)
ROL2(v, n) ==
  IF n <= 32
  THEN [y |-> Shl(v.y, n) \cup Shr(v.x, 32 - n),
        x |-> Shl(v.x, n) \cup Shr(v.y, 32 - n)]
  ELSE [y |-> Shl(v.x, n - 32) \cup Shr(v.y, 64 - n),
        x |-> Shl(v.y, n - 32) \cup Shr(v.x, 64 - n)]

Xor2(v, w) == [x |-> Xor(v.x, w.x), y |-> Xor(v.y, w.y)]

(* bitselect(a, b, c): the bit of b where c is one, of a elsewhere. *)
Bitselect(a, b, c) == [x |-> (a.x \ c.x) \cup (b.x \cap c.x),
                       y |-> (a.y \ c.y) \cup (b.y \cap c.y)]

(* t[dst] = ROL2(a[src], count), in the order of the source. *)
PairRhoPi ==
  { <<10, 1, 1>>, <<20, 2, 62>>, <<5, 3, 28>>, <<15, 4, 27>>,
    <<16, 5, 36>>, <<1, 6, 44>>, <<11, 7, 6>>, <<21, 8, 55>>, <<6, 9, 20>>,
    <<7, 10, 3>>, <<17, 11, 10>>, <<2, 12, 43>>, <<12, 13, 25>>, <<22, 14, 39>>,
    <<23, 15, 41>>, <<8, 16, 45>>, <<18, 17, 15>>, <<3, 18, 21>>, <<13, 19, 8>>,
    <<14, 20, 18>>, <<24, 21, 2>>, <<9, 22, 61>>, <<19, 23, 56>>, <<4, 24, 14>> }

(* chi(a, n, t), for every row. *)
PairChi(t, l) ==
  LET k(i) == 5 * (l \div 5) + ((l + i) % 5)
  IN  Bitselect(Xor2(t[l], t[k(2)]), t[l], t[k(1)])

PairRound(a, r) ==
  LET t0 == [x \in 0..4 |->
               Xor2(a[x], Xor2(a[x + 5], Xor2(a[x + 10], Xor2(a[x + 15], a[x + 20]))))]
      u == [x \in 0..4 |-> Xor2(t0[(x + 4) % 5], ROL2(t0[(x + 1) % 5], 1))]
      b == [l \in Lanes |-> Xor2(a[l], u[l % 5])]
      t == [l \in Lanes |-> IF l = 0 THEN b[0]
                            ELSE LET m == CHOOSE m \in PairRhoPi : m[1] = l
                                 IN  ROL2(b[m[2]], m[3])]
      c == [l \in Lanes |-> PairChi(t, l)]
  IN  [c EXCEPT ![0] = Xor2(@, Pair(RoundConstant(64, r)))]

-----------------------------------------------------------------------------
(* The sponge.  A message is a sequence of bytes, each the set of its one  *)
(* bits; what matters is what each permutation is applied to: the blocks   *)
(* as functions from the words of the rate to 64-bit lanes.                *)

Word(bytes) == UNION {{8 * (k - 1) + i : i \in bytes[k]} : k \in DOMAIN bytes}
load_le(data, at) == Word(SubSeq(data, at + 1, at + 8))

(* keccak(out, bits, data, size): the full blocks, then the rest with the  *)
(* byte 0x01 after it and the last bit of the rate.                        *)
SpongeBlocks(bits, data) ==
  LET size == Len(data)
      block_size == (1600 - bits * 2) \div 8
      words == 0..block_size \div 8 - 1
      full == size \div block_size
      at(b) == b * block_size
      rest == size - at(full)
      whole == rest \div 8
      last_word == Word(SubSeq(data, at(full) + 8 * whole + 1, size) \o <<{0}>>)
      tail == [w \in words |->
                 Xor(CASE w < whole -> load_le(data, at(full) + 8 * w)
                       [] w = whole -> last_word
                       [] OTHER -> {},
                     IF w = block_size \div 8 - 1 THEN {63} ELSE {})]
  IN  [b \in 1..full |-> [w \in words |-> load_le(data, at(b - 1) + 8 * w)]]
        \o <<tail>>

(* The reference: the message, 1, as many 0 as needed and 1, cut into blocks. *)
RefBlocks(bits, data) ==
  LET rate == 1600 - bits * 2
      m == 8 * Len(data)
      n == (m + 2 + rate - 1) \div rate
      one(i) == \/ i < m /\ i % 8 \in data[i \div 8 + 1]
                \/ i = m
                \/ i = n * rate - 1
  IN  [b \in 1..n |-> [w \in 0..rate \div 64 - 1 |->
         {i \in 0..63 : one((b - 1) * rate + 64 * w + i)}]]

(* SHA3_512 of the OpenCL kernel and keccak_f1600 of the CUDA one: the     *)
(* first eight lanes are the node, lane 8 the padding, the others zero.    *)
KernelSha3State(node) ==
  [l \in Lanes |-> IF l < 8 THEN node[l] ELSE IF l = 8 THEN {0, 63} ELSE {}]

(* The three lockstep versions of one permutation of width W: ref, the C   *)
(* code, the table-driven kernels and (64-bit lanes only) the OpenCL one.  *)
Start(W, st) ==
  [W |-> W, round |-> 0, ref |-> st, unrolled |-> st, table |-> st,
   pair |-> [l \in Lanes |-> Pair(st[l])]]

Round(s) ==
  [s EXCEPT !.round = @ + 1,
            !.ref = RefRound(s.W, @, s.round),
            !.unrolled = UnrolledRound(s.W, @, s.round),
            !.table = TableRound(s.W, @, s.round),
            !.pair = IF s.W = 64 THEN PairRound(@, s.round) ELSE @]

Agree(s) ==
  /\ s.unrolled = s.ref
  /\ s.table = s.ref
  /\ s.W = 64 => \A l \in Lanes : Lane64(s.pair[l]) = s.ref[l]

(* keccak_progpow_256 and keccak_f800 of the kernels: header, nonce (low   *)
(* word first) and mix, with no padding.                                   *)
ProgPowState(header, nonce, mix) ==
  [l \in Lanes |-> CASE l < 8 -> header[l]
                     [] l = 8 -> Low(nonce)
                     [] l = 9 -> High(nonce)
                     [] l \in 10..17 -> mix[l - 10]
                     [] OTHER -> {}]
=============================================================================
