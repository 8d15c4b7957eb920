----------------------------- MODULE KeccakCuda -----------------------------
(***************************************************************************)
(* keccak.cuh, the permutations of the CUDA Ethash kernel: SHA3_512 for    *)
(* the DAG, keccak_f1600_init for the seed of a hash and                   *)
(* keccak_f1600_final for its result.  They work in place on pairs of      *)
(* words.  The first round of the seed and of the result leaves out of     *)
(* theta what the padding makes zero, and the last round of each works out *)
(* only the lanes its caller reads.                                        *)
(***************************************************************************)
EXTENDS Keccak, SequencesExt

\* xor3 and xor5: the exclusive or of some words.
XorWords(words) == {i \in 0..31 : Cardinality({l \in DOMAIN words : i \in words[l]}) % 2 = 1}

\* chi(a, b, c): lop3 with the table 0xD2
Chi2(a, b, c) == [x |-> Xor(a.x, c.x \ b.x), y |-> Xor(a.y, c.y \ b.y)]

\* __byte_perm(a, b, s): four of the eight bytes of b above a, s[1] the lowest.
BytePerm(a, b, s) ==
  LET bits == a \cup {i + 32 : i \in b}
  IN  {i \in 0..31 : 8 * s[i \div 8 + 1] + (i % 8) \in bits}

\* Mutant of ROL8: the words exchanged.
ROL8Swapped(a) == [x |-> BytePerm(a.x, a.y, <<3, 4, 5, 6>>), y |-> BytePerm(a.x, a.y, <<7, 0, 1, 2>>)]

ROL8(a) == [x |-> BytePerm(a.y, a.x, <<3, 4, 5, 6>>), y |-> BytePerm(a.y, a.x, <<7, 0, 1, 2>>)]
ROR8(a) == [x |-> BytePerm(a.y, a.x, <<5, 6, 7, 0>>), y |-> BytePerm(a.y, a.x, <<1, 2, 3, 4>>)]

\* ROL8 and ROR8 stand for two of the counts, except in SHA3_512.
Rotated(fn, v, n) ==
  IF fn = "SHA3_512" \/ n \notin {8, 56} THEN ROL2(v, n) ELSE IF n = 8 THEN ROL8(v) ELSE ROR8(v)

-----------------------------------------------------------------------------
\* The lanes whose low (x) and high (y) words theta sums: all, or in the first
\* round the ones that need not be zero.
InitParity == [x |-> 0..5, y |-> 0..4 \cup {8}]
FinalParity == [x |-> 0..12 \cup {16}, y |-> 0..12 \cup {16}]
FullParity == [x |-> Lanes, y |-> Lanes]

\* Theta, for the lanes that are worked on.
Theta2(a, parity, worked) ==
  LET column(S, x) == {l \in S : l % 5 = x}
      t == [x \in 0..4 |-> [x |-> XorWords([l \in column(parity.x, x) |-> a[l].x]),
                            y |-> XorWords([l \in column(parity.y, x) |-> a[l].y])]]
      u == [x \in 0..4 |-> Xor2(t[(x + 4) % 5], ROL2(t[(x + 1) % 5], 1))]
  IN  [l \in Lanes |-> IF l \in worked THEN Xor2(a[l], u[l % 5]) ELSE a[l]]

\* Rho and pi: s[to] = rotation of s[from], one after the other.
Cycle ==
  << <<1, 6, 44>>, <<6, 9, 20>>, <<9, 22, 61>>, <<22, 14, 39>>, <<14, 20, 18>>, <<20, 2, 62>>,
     <<2, 12, 43>>, <<12, 13, 25>>, <<13, 19, 8>>, <<19, 23, 56>>, <<23, 15, 41>>, <<15, 4, 27>>,
     <<4, 24, 14>>, <<24, 21, 2>>, <<21, 8, 55>>, <<8, 16, 45>>, <<16, 5, 36>>, <<5, 3, 28>>,
     <<3, 18, 21>>, <<18, 17, 15>>, <<17, 11, 10>>, <<11, 7, 6>>, <<7, 10, 3>> >>

Moves(fn, a, moves) ==
  FoldLeft(LAMBDA st, m : [st EXCEPT ![m[1]] = Rotated(fn, st[m[2]], m[3])], a, moves)

\* Chi, for the lanes that are worked on; u and v keep what a row overwrites.
ChiRows(a, worked) ==
  LET k(l, i) == 5 * (l \div 5) + ((l + i) % 5)
  IN  [l \in Lanes |-> IF l \in worked THEN Chi2(a[l], a[k(l, 1)], a[k(l, 2)]) ELSE a[l]]

Iota(a, r) == [a EXCEPT ![0] = Xor2(@, Pair(RoundConstant(64, r)))]

\* A round on all lanes; u keeps s[1] for the end of the cycle.
FullRound(fn, a, parity, r) ==
  LET t == Theta2(a, parity, Lanes)
      b == [Moves(fn, t, Cycle) EXCEPT ![10] = ROL2(t[1], 1)]
  IN  Iota(ChiRows(b, Lanes), r)

\* Mutant of NodeRound: lane 9 of theta is forgotten.
NodeRoundShort(fn, a) ==
  LET t == Theta2(a, FullParity, {0, 10, 6, 16, 12, 22, 3, 18, 24})
      moves == << <<1, 6, 44>>, <<6, 9, 20>>, <<9, 22, 61>>, <<2, 12, 43>>, <<4, 24, 14>>,
                  <<8, 16, 45>>, <<5, 3, 28>>, <<3, 18, 21>>, <<7, 10, 3>> >>
  IN  Iota(ChiRows(Moves(fn, t, moves), 0..7), 23)

\* The last round for the eight lanes of a node.
NodeRound(fn, a) ==
  LET t == Theta2(a, FullParity, {0, 10, 6, 16, 12, 22, 3, 18, 9, 24})
      moves == << <<1, 6, 44>>, <<6, 9, 20>>, <<9, 22, 61>>, <<2, 12, 43>>, <<4, 24, 14>>,
                  <<8, 16, 45>>, <<5, 3, 28>>, <<3, 18, 21>>, <<7, 10, 3>> >>
  IN  Iota(ChiRows(Moves(fn, t, moves), 0..7), 23)

\* The last round for the one lane that is compared with the target.
ResultRound(fn, a) ==
  LET t == Theta2(a, FullParity, {0, 6, 12})
  IN  Iota(ChiRows(Moves(fn, t, << <<1, 6, 44>>, <<2, 12, 43>> >>), {0}), 23)

-----------------------------------------------------------------------------
\* What each function permutes: the lanes it is given and the padding.
Padded(lanes, one, last) ==
  [l \in Lanes |-> Pair((IF l \in DOMAIN lanes THEN lanes[l] ELSE {})
                        \cup (IF l = one THEN {0} ELSE {}) \cup (IF l = last THEN {63} ELSE {}))]

keccak_f1600_init(a, r) ==
  IF r < 23 THEN FullRound("keccak_f1600_init", a, IF r = 0 THEN InitParity ELSE FullParity, r)
  ELSE NodeRound("keccak_f1600_init", a)

keccak_f1600_final(a, r) ==
  IF r < 23 THEN FullRound("keccak_f1600_final", a, IF r = 0 THEN FinalParity ELSE FullParity, r)
  ELSE ResultRound("keccak_f1600_final", a)

SHA3_512(a, r) ==
  IF r < 23 THEN FullRound("SHA3_512", a, FullParity, r) ELSE NodeRound("SHA3_512", a)

\* header and nonce; seed and compressed mix; a node
InputState(fn, in) ==
  CASE fn = "keccak_f1600_init" -> Padded([l \in 0..4 |-> in[l]], 5, 8)
    [] fn = "keccak_f1600_final" -> Padded([l \in 0..11 |-> in[l]], 12, 16)
    [] fn = "SHA3_512" -> Padded([l \in 0..7 |-> in[l]], 8, 8)

Apply(fn, a, r) ==
  CASE fn = "keccak_f1600_init" -> keccak_f1600_init(a, r)
    [] fn = "keccak_f1600_final" -> keccak_f1600_final(a, r)
    [] fn = "SHA3_512" -> SHA3_512(a, r)

\* The lanes the caller reads after the last round.
Outputs(fn) == IF fn = "keccak_f1600_final" THEN {0} ELSE 0..7

\* One of the functions in step with FIPS 202.
CudaStart(fn, in) ==
  [fn |-> fn, round |-> 0, cuda |-> InputState(fn, in),
   ref |-> [l \in Lanes |-> Lane64(InputState(fn, in)[l])]]

CudaRound(s) ==
  [s EXCEPT !.round = @ + 1, !.cuda = Apply(s.fn, @, s.round), !.ref = RefRound(64, @, s.round)]

CudaAgrees(s) ==
  \A l \in (IF s.round = 24 THEN Outputs(s.fn) ELSE Lanes) : Lane64(s.cuda[l]) = s.ref[l]
=============================================================================
