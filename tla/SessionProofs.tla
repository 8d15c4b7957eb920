---------------------------- MODULE SessionProofs ----------------------------
(***************************************************************************)
(* TLAPS proofs about StratumSession: for every number of miners, width of *)
(* nonces, set of lines the pool may send and length of the session.       *)
(*                                                                         *)
(* Induction goes by a least counterexample (NatMin).  The laws of powers  *)
(* of two come from the cardinality of the set of subsets.                 *)
(***************************************************************************)
EXTENDS StratumSession, FiniteSetTheorems, SequenceTheorems,
        WellFoundedInduction, TLAPS

-----------------------------------------------------------------------------
(* The inductive invariant *)

Job == [job : Int, header : Int, seed : Int, block : Int, boundary : Int,
        epoch : Int, start : Nat, ex : Nat, whole : BOOLEAN]

\* The types of the state.
TypeOK ==
  /\ mode \in Modes
  /\ session \in [authorized : BOOLEAN, nonce : Nat, size : Nat, boundary : Int,
                  epoch : Int, set : BOOLEAN, whole : BOOLEAN]
  /\ current \in Job /\ wp \in Job
  /\ newjob \in BOOLEAN /\ lines \in Nat /\ events \in Nat
  /\ farm \in [scrambler : Nat, width : Nat, start : [MinerIds -> Nat]]
  /\ pleas \in [times : Seq(Nat), count : Nat, older : Nat]
  /\ now \in Nat
  /\ shares \in Seq([miner : MinerIds, at : Nat])
  /\ inOrder \in BOOLEAN /\ maxId \in Int
  /\ answered \in [BOOLEAN -> [MinerIds -> Nat]]
  /\ account \in [{"accepted", "failed"} -> [0..Miners -> Nat]]
  /\ state \in {"up", "leaving", "crashed"}

\* What an extra nonce of 'ex' digits leaves to the miners.
Room(ex) == 2 ^ (4 * (NonceNibbles - ex))

\* The miners fit, and a start nonce from a text that was all digits is the
\* pool's digits, followed by zeros.
Placed(ex, start, whole) ==
  /\ ex <= NonceNibbles /\ Miners <= Room(ex)
  /\ whole = TRUE => \E v \in Nat : v < 2 ^ (4 * ex) /\ start = v * Room(ex)

\* The miners' segments are one after another, in a space they fit in.
SegmentsInv ==
  /\ Placed(session.size, session.nonce, session.whole)
  /\ Placed(current.ex, current.start, current.whole)
  /\ Placed(wp.ex, wp.start, wp.whole)
  /\ Miners * 2 ^ farm.width <= NonceSpace
  /\ \E base \in Nat :
       /\ \A i \in MinerIds : farm.start[i] = (base + i * 2 ^ farm.width) % NonceSpace
       /\ wp.ex > 0 => base = wp.start
  /\ wp.ex > 0 => Miners * 2 ^ farm.width <= Room(wp.ex)

\* While the pool answers in order, the queue of pleas is that of the shares,
\* after the request to authorize: the times grow, none is before the oldest.
PleasInv ==
  inOrder /\ state = "up" =>
    /\ pleas.count = Len(pleas.times)
    /\ session.authorized = FALSE => shares = <<>> /\ Len(pleas.times) = 1
    /\ session.authorized = TRUE =>
         /\ Len(pleas.times) = Len(shares)
         /\ \A k \in 1..Len(shares) : pleas.times[k] = shares[k].at
    /\ \A k \in 1..Len(pleas.times) : pleas.times[k] <= now /\ pleas.older <= pleas.times[k]
    /\ \A j, k \in 1..Len(pleas.times) : j <= k => pleas.times[j] <= pleas.times[k]

\* A share that waits has an id among those the answers are looked up by.
SharesInv ==
  /\ maxId >= FirstShareId - 1
  /\ \A k \in 1..Len(shares) : FirstShareId + shares[k].miner <= maxId

-----------------------------------------------------------------------------
(* Numbers *)

\* A nonempty set of naturals has a least element.
LEMMA NatMin ==
  ASSUME NEW T \in SUBSET Nat, T # {}
  PROVE  \E n \in T : \A m \in T : n <= m
<1>1. PICK n \in T : \A m \in T : <<m, n>> \notin OpToRel(<, Nat)
  BY NatLessThanWellFounded, WFMin
<1>2. \A m \in T : ~(m < n)
  BY <1>1 DEF OpToRel
<1>. QED  BY <1>2

\* A power of two counts the subsets of a set.
LEMMA PowCounts ==
  ASSUME NEW n \in Nat
  PROVE  IsFiniteSet(SUBSET (1..n)) /\ Cardinality(SUBSET (1..n)) = 2 ^ n
<1>1. IsFiniteSet(1..n) /\ Cardinality(1..n) = n
  BY FS_Interval
<1>. QED  BY <1>1, FS_SUBSET

\* Powers of two are positive: the empty set is one of the subsets.
LEMMA PowPos ==
  ASSUME NEW n \in Nat
  PROVE  2 ^ n \in Nat /\ 2 ^ n >= 1
<1>1. 2 ^ n \in Nat
  BY PowCounts, FS_CardinalityType
<1>2. 2 ^ n # 0
  <2>1. {} \in SUBSET (1..n)
    OBVIOUS
  <2>. QED  BY <2>1, PowCounts, FS_EmptySet
<1>. QED  BY <1>1, <1>2

\* A subset of 1..n+1 has n+1 or has it not.
LEMMA PowSucc ==
  ASSUME NEW n \in Nat
  PROVE  2 ^ (n + 1) = 2 * 2 ^ n
<1> DEFINE A == 1..n
           x == n + 1
           Ax == {B \cup {x} : B \in SUBSET A}
           f == [B \in SUBSET A |-> B \cup {x}]
<1>1. x \notin A /\ 1..(n + 1) = A \cup {x}
  OBVIOUS
<1>2. SUBSET (A \cup {x}) = (SUBSET A) \cup Ax
  <2>1. ASSUME NEW C \in SUBSET (A \cup {x})
        PROVE  C \in (SUBSET A) \cup Ax
    <3>1. CASE x \in C
      <4>1. C \ {x} \in SUBSET A /\ C = (C \ {x}) \cup {x}
        BY <3>1
      <4>. QED  BY <4>1
    <3>2. CASE x \notin C
      BY <3>2
    <3>. QED  BY <3>1, <3>2
  <2>. HIDE DEF A, x
  <2>2. ASSUME NEW C \in (SUBSET A) \cup Ax
        PROVE  C \in SUBSET (A \cup {x})
    OBVIOUS
  <2>. QED  BY <2>1, <2>2
<1> HIDE DEF A, x
<1>3. f \in Bijection(SUBSET A, Ax)
  <2>1. f \in [SUBSET A -> Ax]
    OBVIOUS
  <2>2. ASSUME NEW B \in SUBSET A, NEW C \in SUBSET A, f[B] = f[C]
        PROVE  B = C
    <3>1. B \cup {x} = C \cup {x} /\ x \notin B /\ x \notin C
      BY <2>2, <1>1
    <3>2. ASSUME NEW y PROVE y \in B <=> y \in C
      BY <3>1
    <3>. QED  BY <3>2
  <2>3. \A c \in Ax : \E B \in SUBSET A : f[B] = c
    OBVIOUS
  <2>. QED  BY <2>1, <2>2, <2>3 DEF Bijection, Injection, Surjection, IsInjective
<1>4. IsFiniteSet(SUBSET A) /\ Cardinality(SUBSET A) = 2 ^ n
  BY PowCounts DEF A
<1>5. IsFiniteSet(Ax) /\ Cardinality(Ax) = 2 ^ n
  BY <1>3, <1>4, FS_Bijection DEF ExistsBijection
<1>6. (SUBSET A) \cap Ax = {}
  BY <1>1
<1>7. Cardinality((SUBSET A) \cup Ax) = Cardinality(SUBSET A) + Cardinality(Ax) - 0
  <2>1. Cardinality((SUBSET A) \cup Ax) =
          Cardinality(SUBSET A) + Cardinality(Ax) - Cardinality((SUBSET A) \cap Ax)
    BY <1>4, <1>5, FS_Union, Zenon
  <2>. QED  BY <2>1, <1>6, FS_EmptySet, Zenon
<1>8. Cardinality(SUBSET (1..(n + 1))) = 2 ^ (n + 1)
  BY PowCounts
<1>9. 2 ^ n \in Nat
  BY PowPos
<1>10. 2 ^ (n + 1) = Cardinality((SUBSET A) \cup Ax)
  BY <1>1, <1>2, <1>8, Zenon
<1>11. 2 ^ (n + 1) = 2 ^ n + 2 ^ n - 0
  BY <1>10, <1>7, <1>4, <1>5, Zenon
<1>. QED  BY <1>11, <1>9

\* Powers of two multiply by adding exponents.
LEMMA PowAdd ==
  ASSUME NEW a \in Nat, NEW b \in Nat
  PROVE  2 ^ (a + b) = 2 ^ a * 2 ^ b
<1> DEFINE T == {n \in Nat : 2 ^ (a + n) # 2 ^ a * 2 ^ n}
<1>1. SUFFICES ASSUME T # {} PROVE FALSE
  OBVIOUS
<1>2. PICK n \in T : \A m \in T : n <= m
  BY <1>1, NatMin
<1>3. n # 0
  <2>1. 2 ^ 0 = 1 /\ 2 ^ a \in Nat /\ a + 0 = a
    BY PowPos
  <2>2. 2 ^ (a + 0) = 2 ^ a * 2 ^ 0
    BY <2>1
  <2>. QED  BY <2>2
<1>4. n - 1 \in Nat /\ n - 1 \notin T
  BY <1>2, <1>3
<1>5. 2 ^ (a + (n - 1)) = 2 ^ a * 2 ^ (n - 1)
  BY <1>4
<1>6. 2 ^ ((a + (n - 1)) + 1) = 2 * 2 ^ (a + (n - 1)) /\ 2 ^ ((n - 1) + 1) = 2 * 2 ^ (n - 1)
  BY <1>4, PowSucc
<1>7. (a + (n - 1)) + 1 = a + n /\ (n - 1) + 1 = n
  BY <1>4
<1>8. 2 ^ a \in Nat /\ 2 ^ (n - 1) \in Nat
  BY <1>4, PowPos
<1>9. 2 ^ (a + n) = 2 * (2 ^ a * 2 ^ (n - 1)) /\ 2 ^ n = 2 * 2 ^ (n - 1)
  BY <1>5, <1>6, <1>7
<1>10. 2 * (2 ^ a * 2 ^ (n - 1)) = 2 ^ a * (2 * 2 ^ (n - 1))
  BY <1>8
<1>. QED  BY <1>9, <1>10

\* Products keep the order of their factors.
LEMMA TimesMonotone ==
  ASSUME NEW a \in Nat, NEW b \in Nat, NEW c \in Nat, a <= b
  PROVE  a * c <= b * c
<1>1. (b - a) * c >= 0
  OBVIOUS
<1>2. (b - a) * c = b * c - a * c
  OBVIOUS
<1>. QED  BY <1>1, <1>2

\* A multiple of N is not between 0 and N.
LEMMA NoMultiple ==
  ASSUME NEW N \in Nat \ {0}, NEW q \in Int, 0 < N * q
  PROVE  N <= N * q
<1>1. q >= 1
  <2>1. ASSUME q <= 0 PROVE FALSE
    <3>1. N * (0 - q) >= 0
      BY <2>1
    <3>. QED  BY <3>1
  <2>. QED  BY <2>1
<1>2. N * (q - 1) >= 0
  BY <1>1
<1>. QED  BY <1>2

\* Reducing a nonce, and again after adding to it, takes multiples of N away.
LEMMA Reduced ==
  ASSUME NEW N \in Nat \ {0}, NEW a \in Nat, NEW k \in Nat
  PROVE  \E q \in Int : a + k = N * q + (((a % N) + k) % N)
<1>1. a % N \in Nat /\ a \div N \in Int /\ a = N * (a \div N) + (a % N)
  OBVIOUS
<1>2. (a % N) + k \in Nat
  BY <1>1
<1> DEFINE c == (a % N) + k
<1> HIDE DEF c
<1>3. c \div N \in Int /\ c % N \in Nat /\ c = N * (c \div N) + (c % N)
  BY <1>2 DEF c
<1> DEFINE p == a \div N
           q == c \div N
           r == c % N
           s == a % N
<1>4. p \in Int /\ q \in Int /\ r \in Nat /\ s \in Nat /\ a = N * p + s /\ c = N * q + r /\ c = s + k
  BY <1>1, <1>3 DEF c
<1> HIDE DEF p, q, r, s
<1>5. a + k = N * (p + q) + r /\ p + q \in Int
  <2>1. N * (p + q) = N * p + N * q
    BY <1>4
  <2>. QED  BY <2>1, <1>4
<1>. QED  BY <1>5 DEF r, c

\* Segments of W nonces that follow each other and fit in N nonces share none,
\* wherever the first one begins: setWork's start nonces wrap around.
LEMMA SegmentsDisjoint ==
  ASSUME NEW N \in Nat \ {0}, NEW W \in Nat \ {0}, NEW M \in Nat, M * W <= N,
         NEW base \in Nat, NEW i \in 0..(M - 1), NEW j \in 0..(M - 1), i < j,
         NEW k \in 0..(W - 1), NEW l \in 0..(W - 1)
  PROVE  (((base + i * W) % N) + k) % N # (((base + j * W) % N) + l) % N
<1> SUFFICES ASSUME (((base + i * W) % N) + k) % N = (((base + j * W) % N) + l) % N
             PROVE  FALSE
  OBVIOUS
<1>1. i * W \in Nat /\ j * W \in Nat /\ k \in Nat /\ l \in Nat /\ k < W /\ l < W
  OBVIOUS
<1>2. j * W - i * W >= W
  <2>1. (j - i - 1) * W >= 0
    OBVIOUS
  <2>2. (j - i - 1) * W = j * W - i * W - W
    OBVIOUS
  <2>. QED  BY <2>1, <2>2
<1>3. j * W + W <= N
  <2>1. (j + 1) * W <= M * W
    <3>1. j + 1 \in Nat /\ j + 1 <= M
      OBVIOUS
    <3>. QED  BY <3>1, TimesMonotone
  <2>2. (j + 1) * W = j * W + W
    OBVIOUS
  <2>3. M * W \in Nat
    OBVIOUS
  <2>. QED  BY <2>1, <2>2, <2>3, <1>1
<1> DEFINE a == base + i * W
           b == base + j * W
<1>4. a \in Nat /\ b \in Nat /\ b - a >= W /\ b - a <= N - W
  BY <1>1, <1>2, <1>3
<1> HIDE DEF a, b
<1> DEFINE r == ((a % N) + k) % N
<1>5. r = ((b % N) + l) % N
  BY DEF a, b
<1>6. r \in Nat
  <2>1. a % N \in Nat
    BY <1>4
  <2>2. (a % N) + k \in Nat
    BY <2>1, <1>1
  <2>. QED  BY <2>2
<1>7. PICK q \in Int : a + k = N * q + r
  BY <1>4, <1>1, Reduced
<1>8. PICK p \in Int : b + l = N * p + (((b % N) + l) % N)
  BY <1>4, <1>1, Reduced
<1> HIDE DEF r
<1>9. b + l = N * p + r
  BY <1>5, <1>8
<1>10. N * (p - q) = b + l - a - k
  <2>1. N * (p - q) = N * p - N * q
    OBVIOUS
  <2>. QED  BY <2>1, <1>1, <1>4, <1>6, <1>7, <1>9
<1>11. 0 < N * (p - q) /\ N * (p - q) < N
  BY <1>1, <1>4, <1>10
<1>12. p - q \in Int
  OBVIOUS
<1>. QED  BY <1>11, <1>12, NoMultiple

\* Below the next multiple, a number has the quotient of the multiple.
LEMMA QuotientOfPart ==
  ASSUME NEW E \in Nat \ {0}, NEW v \in Nat, NEW d \in Nat, d < E
  PROVE  (v * E + d) \div E = v
<1>1. v * E \in Nat
  OBVIOUS
<1> DEFINE n == v * E + d
<1>2. n \in Nat
  BY <1>1
<1> DEFINE q == n \div E
           r == n % E
<1>3. q \in Int /\ r \in Nat /\ r < E /\ n = E * q + r
  BY <1>2
<1>4. n = v * E + d
  OBVIOUS
<1> HIDE DEF n, q, r
<1>5. E * (q - v) = d - r /\ E * (v - q) = r - d
  BY <1>1, <1>3, <1>4
<1>6. q - v \in Int /\ v - q \in Int
  BY <1>3
<1>7. ~(0 < E * (q - v)) /\ ~(0 < E * (v - q))
  <2>1. ASSUME 0 < E * (q - v) PROVE FALSE
    <3>1. E <= E * (q - v)
      BY <2>1, <1>6, NoMultiple
    <3>. QED  BY <3>1, <1>3, <1>5
  <2>2. ASSUME 0 < E * (v - q) PROVE FALSE
    <3>1. E <= E * (v - q)
      BY <2>2, <1>6, NoMultiple
    <3>. QED  BY <3>1, <1>3, <1>5
  <2>. QED  BY <2>1, <2>2
<1>8. d = r
  BY <1>3, <1>5, <1>7
<1>9. q = v
  <2>1. ASSUME q > v PROVE FALSE
    <3>1. E * (q - v - 1) >= 0
      BY <2>1, <1>3
    <3>. QED  BY <3>1, <1>3, <1>5, <1>8
  <2>2. ASSUME q < v PROVE FALSE
    <3>1. E * (v - q - 1) >= 0
      BY <2>2, <1>3
    <3>. QED  BY <3>1, <1>3, <1>5, <1>8
  <2>. QED  BY <2>1, <2>2, <1>3
<1>. QED  BY <1>9 DEF q, n

-----------------------------------------------------------------------------
(* Nonce segments *)

\* The nonces under an extra nonce, times the extra nonces, are all nonces.
LEMMA RoomFacts ==
  ASSUME NEW ex \in Nat, ex <= NonceNibbles
  PROVE  /\ NonceSpace \in Nat \ {0} /\ Room(ex) \in Nat \ {0} /\ 2 ^ (4 * ex) \in Nat \ {0}
         /\ NonceSpace = 2 ^ (4 * ex) * Room(ex)
<1> DEFINE a == 4 * ex
           b == 4 * (NonceNibbles - ex)
<1>1. NonceNibbles \in Nat
  BY SessionAssumption
<1>2. a \in Nat /\ b \in Nat /\ a + b = 4 * NonceNibbles
  BY <1>1
<1>3. 2 ^ (a + b) = 2 ^ a * 2 ^ b
  BY <1>2, PowAdd
<1>4. 2 ^ a \in Nat \ {0} /\ 2 ^ b \in Nat \ {0} /\ 2 ^ (a + b) \in Nat \ {0}
  BY <1>2, PowPos
<1>. QED  BY <1>2, <1>3, <1>4 DEF NonceSpace, Room

\* The default width: half of the bits are left to the miners.
LEMMA DefaultWidth == Miners * 2 ^ (2 * NonceNibbles) <= NonceSpace
<1> DEFINE h == 2 * NonceNibbles
<1>1. Miners \in Nat /\ h \in Nat /\ h + h = 4 * NonceNibbles
  BY SessionAssumption
<1>2. 2 ^ h \in Nat /\ 2 ^ (h + h) = 2 ^ h * 2 ^ h
  BY <1>1, PowPos, PowAdd
<1>3. Miners <= 2 ^ h
  BY SpaceAssumption
<1> HIDE DEF h
<1>4. Miners * 2 ^ h <= 2 ^ h * 2 ^ h
  BY <1>1, <1>2, <1>3, TimesMonotone
<1>. QED  BY <1>1, <1>2, <1>4 DEF NonceSpace, h

\* The logarithm setWork takes exists, and the miners' segments fit in the
\* nonces of the extra nonce; one bit more and they would not.
LEMMA SegmentWidthFits ==
  ASSUME NEW ex \in Nat, ex <= NonceNibbles, Miners <= Room(ex)
  PROVE  /\ SegmentWidth(ex) \in Nat
         /\ Miners * 2 ^ SegmentWidth(ex) <= Room(ex)
         /\ Miners * 2 ^ (SegmentWidth(ex) + 1) > Room(ex)
<1> DEFINE b == 4 * (NonceNibbles - ex)
           T == {k \in Nat : 2 ^ (k + 1) * Miners > Room(ex)}
<1>1. NonceNibbles \in Nat /\ Miners \in Nat \ {0}
  BY SessionAssumption
<1>2. b \in Nat /\ b <= 4 * NonceNibbles
  BY <1>1
<1>3. Room(ex) = 2 ^ b /\ Room(ex) \in Nat \ {0}
  BY RoomFacts DEF Room
<1> HIDE DEF b
<1>4. b \in T
  <2>1. 2 ^ (b + 1) = 2 * Room(ex)
    BY <1>2, <1>3, PowSucc
  <2>2. (2 * Room(ex)) * Miners >= 2 * Room(ex)
    <3>1. (2 * Room(ex)) * (Miners - 1) >= 0
      BY <1>1, <1>3
    <3>. QED  BY <3>1, <1>1, <1>3
  <2>3. (2 * Room(ex)) * Miners > Room(ex)
    BY <2>2, <1>1, <1>3
  <2>. QED  BY <2>1, <2>3, <1>2
<1>5. PICK k \in T : \A m \in T : k <= m
  BY <1>4, NatMin
<1>6. k \in 0..(4 * NonceNibbles)
  <2>1. k \in Nat /\ k <= b
    BY <1>4, <1>5
  <2>. QED  BY <2>1, <1>1, <1>2
<1>7. 2 ^ k * Miners <= Room(ex)
  <2>1. CASE k = 0
    BY <2>1, <1>1
  <2>2. CASE k # 0
    <3>1. k - 1 \in Nat /\ k - 1 \notin T /\ (k - 1) + 1 = k
      BY <1>5, <2>2
    <3>2. 2 ^ k \in Nat
      BY PowPos
    <3>3. ~(2 ^ k * Miners > Room(ex))
      BY <3>1
    <3>4. 2 ^ k * Miners \in Nat
      BY <3>2, <1>1
    <3>. QED  BY <3>3, <3>4, <1>3
  <2>. QED  BY <2>1, <2>2
<1>8. \E n \in 0..(4 * NonceNibbles) :
         /\ 2 ^ n * Miners <= 2 ^ (4 * (NonceNibbles - ex))
         /\ 2 ^ (n + 1) * Miners > 2 ^ (4 * (NonceNibbles - ex))
  BY <1>6, <1>7, <1>5 DEF Room
<1> DEFINE w == SegmentWidth(ex)
<1>9. /\ w \in 0..(4 * NonceNibbles)
      /\ 2 ^ w * Miners <= Room(ex) /\ 2 ^ (w + 1) * Miners > Room(ex)
  BY <1>8, Zenon DEF SegmentWidth, Room
<1> HIDE DEF w
<1>10. w \in Nat
  BY <1>1, <1>9
<1>11. 2 ^ w \in Nat /\ 2 ^ (w + 1) \in Nat
  BY <1>10, PowPos
<1>12. 2 ^ w * Miners = Miners * 2 ^ w /\ 2 ^ (w + 1) * Miners = Miners * 2 ^ (w + 1)
  BY <1>1, <1>11
<1>. QED  BY <1>9, <1>10, <1>12 DEF w

\* The invariant says what the property says of the segments.
LEMMA SegmentsFollow == TypeOK /\ SegmentsInv => SegmentsApartWithinExtranonce
<1> SUFFICES ASSUME TypeOK, SegmentsInv PROVE SegmentsApartWithinExtranonce
  OBVIOUS
<1> DEFINE N == NonceSpace
           W == 2 ^ farm.width
<1>1. PICK base \in Nat :
         /\ \A i \in MinerIds : farm.start[i] = (base + i * W) % N
         /\ wp.ex > 0 => base = wp.start
  BY DEF SegmentsInv
<1>2. Miners \in Nat \ {0} /\ NonceNibbles \in Nat
  BY SessionAssumption
<1>3. farm.width \in Nat /\ wp.ex \in Nat /\ wp.start \in Nat /\ wp.whole \in BOOLEAN
  BY DEF TypeOK, Job
<1>4. W \in Nat \ {0} /\ N \in Nat \ {0} /\ Miners * W <= N
  <2>1. W \in Nat /\ W >= 1
    BY <1>3, PowPos
  <2>2. N \in Nat \ {0}
    BY <1>2, RoomFacts
  <2>3. Miners * W <= N
    BY DEF SegmentsInv
  <2>. QED  BY <2>1, <2>2, <2>3
<1>5. \A i \in MinerIds : \A n \in Segment(i) :
         \E k \in 0..(W - 1) : n = (((base + i * W) % N) + k) % N
  BY <1>1 DEF Segment
<1> HIDE DEF N, W
<1>6. ASSUME NEW i \in MinerIds, NEW j \in MinerIds, i # j
      PROVE  Segment(i) \cap Segment(j) = {}
  <2>1. SUFFICES ASSUME NEW n, n \in Segment(i), n \in Segment(j) PROVE FALSE
    OBVIOUS
  <2>2. PICK k \in 0..(W - 1) : n = (((base + i * W) % N) + k) % N
    BY <2>1, <1>5
  <2>3. PICK l \in 0..(W - 1) : n = (((base + j * W) % N) + l) % N
    BY <2>1, <1>5
  <2>4. i \in 0..(Miners - 1) /\ j \in 0..(Miners - 1) /\ Miners \in Nat
    BY <1>2 DEF MinerIds
  <2>5. CASE i < j
    BY <1>4, <2>2, <2>3, <2>4, <2>5, SegmentsDisjoint
  <2>6. CASE j < i
    BY <1>4, <2>2, <2>3, <2>4, <2>6, SegmentsDisjoint
  <2>. QED  BY <2>4, <2>5, <2>6, <1>6
<1>7. ASSUME wp.ex > 0, wp.whole, NEW i \in MinerIds, NEW n \in Segment(i)
      PROVE  n \div Room(wp.ex) = wp.start \div Room(wp.ex)
  <2> DEFINE E == Room(wp.ex)
             V == 2 ^ (4 * wp.ex)
  <2>1. wp.ex <= NonceNibbles /\ Miners * W <= E
    BY <1>7 DEF SegmentsInv, Placed, W
  <2>2. E \in Nat \ {0} /\ V \in Nat \ {0} /\ N = V * E
    BY <2>1, <1>3, RoomFacts DEF N
  <2>3. PICK v \in Nat : v < V /\ wp.start = v * E
    BY <1>3, <1>7 DEF SegmentsInv, Placed
  <2>4. PICK k \in 0..(W - 1) : n = (((base + i * W) % N) + k) % N
    BY <1>5
  <2>5. base = wp.start
    BY <1>1, <1>7
  <2> HIDE DEF E, V
  <2>6. i \in Nat /\ i + 1 <= Miners /\ k \in Nat /\ k < W
    BY <1>2, <1>4 DEF MinerIds
  <2>7. i * W \in Nat /\ i * W + k \in Nat /\ i * W + k < E
    <3>1. (i + 1) * W <= Miners * W
      BY <2>6, <1>2, <1>4, TimesMonotone
    <3>2. (i + 1) * W = i * W + W /\ i * W \in Nat /\ Miners * W \in Nat
      BY <2>6, <1>2, <1>4
    <3>. QED  BY <3>1, <3>2, <2>1, <2>2, <2>6, <1>4
  <2>8. v * E \in Nat /\ v * E + E <= N
    <3>1. (v + 1) * E <= V * E
      BY <2>2, <2>3, TimesMonotone
    <3>2. (v + 1) * E = v * E + E /\ v * E \in Nat
      BY <2>2
    <3>. QED  BY <3>1, <3>2, <2>2
  <2>9. (base + i * W) % N = base + i * W
    <3>1. base + i * W \in Nat /\ base + i * W < N
      BY <2>2, <2>3, <2>5, <2>6, <2>7, <2>8
    <3>. QED  BY <3>1, <1>4
  <2>10. n = v * E + (i * W + k)
    <3>1. base + i * W + k \in Nat /\ base + i * W + k < N
      BY <2>2, <2>3, <2>5, <2>6, <2>7, <2>8
    <3>2. (base + i * W + k) % N = base + i * W + k
      BY <3>1, <1>4
    <3>3. n = base + i * W + k
      BY <2>4, <2>9, <3>2
    <3>. QED  BY <3>3, <2>3, <2>5, <2>6, <2>7, <2>8
  <2>11. n \div E = v
    BY <2>10, <2>7, <2>2, QuotientOfPart
  <2>12. wp.start \div E = v
    <3>1. wp.start = v * E + 0
      BY <2>3, <2>8
    <3>2. 0 \in Nat /\ 0 < E
      BY <2>2
    <3>. QED  BY <3>1, <3>2, <2>2, QuotientOfPart
  <2>. QED  BY <2>11, <2>12 DEF E
<1>. QED  BY <1>6, <1>7 DEF SegmentsApartWithinExtranonce, Residual, Room

-----------------------------------------------------------------------------
(* What the operations return *)

SessionType == [authorized : BOOLEAN, nonce : Nat, size : Nat, boundary : Int,
                epoch : Int, set : BOOLEAN, whole : BOOLEAN]
FarmType == [scrambler : Nat, width : Nat, start : [MinerIds -> Nat]]
PleasType == [times : Seq(Nat), count : Nat, older : Nat]
Share == [miner : MinerIds, at : Nat]
AccountType == [{"accepted", "failed"} -> [0..Miners -> Nat]]

\* What the assumptions say of a line.
LEMMA LineFacts ==
  ASSUME mode \in Modes, NEW m \in Messages(mode)
  PROVE  /\ m \in Line /\ m.ex.n \in Nat /\ m.ex.v \in Nat
         /\ m.ex.text \in {"digits", "part", "none"}
         /\ m.ex.n <= NonceNibbles /\ Miners <= Room(m.ex.n)
         /\ m.ex.text = "digits" => m.ex.v < 2 ^ (4 * m.ex.n)
<1>1. m \in Line
  BY SessionAssumption
<1>2. m.ex.n \in Nat /\ m.ex.v \in Nat /\ m.ex.text \in {"digits", "part", "none"}
  BY <1>1 DEF Line
<1>3. /\ m.ex.n <= NonceNibbles /\ (m.ex.text = "digits" => m.ex.v < 2 ^ (4 * m.ex.n))
      /\ Miners <= 2 ^ (4 * (NonceNibbles - m.ex.n))
  BY SpaceAssumption
<1>. QED  BY <1>1, <1>2, <1>3 DEF Room

\* A notification makes a job, placed as the session is, or keeps the place of
\* the one before.
LEMMA NotifyFacts ==
  ASSUME TypeOK, NEW m \in Line
  PROVE  /\ Notify(m).cur \in Job /\ Notify(m).new \in BOOLEAN
         /\ \/ Notify(m).cur.ex = current.ex /\ Notify(m).cur.start = current.start /\ Notify(m).cur.whole = current.whole
            \/ Notify(m).cur.ex = session.size /\ Notify(m).cur.start = session.nonce /\ Notify(m).cur.whole = session.whole
<1>1. current \in Job /\ session \in SessionType /\ newjob \in BOOLEAN
  BY DEF TypeOK, SessionType
<1>2. /\ m.job \in Int /\ m.seed \in Int /\ m.block \in Int /\ m.boundary \in Int
  BY DEF Line
<1> DEFINE Good(r) == /\ r.cur \in Job /\ r.new \in BOOLEAN
                      /\ \/ r.cur.ex = current.ex /\ r.cur.start = current.start /\ r.cur.whole = current.whole
                         \/ r.cur.ex = session.size /\ r.cur.start = session.nonce /\ r.cur.whole = session.whole
<1>3. Good(Kept(current))
  BY <1>1 DEF Kept
<1>4. Good(NotifyNiceHash(m))
  <2> DEFINE b == IF m.text = "badblock" THEN 0 ELSE m.block
             named == [current EXCEPT !.job = m.job]
             taken == [named EXCEPT !.header = m.job, !.seed = m.seed, !.block = b,
                                    !.boundary = session.boundary,
                                    !.start = session.nonce, !.ex = session.size,
                                    !.whole = session.whole]
  <2>1. b \in Int
    BY <1>2
  <2>2. NotifyNiceHash(m) = IF m.text = "badhash" THEN Kept(named) ELSE Taken(taken)
    BY DEF NotifyNiceHash
  <2> HIDE DEF b
  <2>3. Good(Kept(named)) /\ Good(Taken(taken))
    BY <1>1, <1>2, <2>1 DEF Kept, Taken, Job, SessionType
  <2>. QED  BY <2>2, <2>3
<1>5. Good(NotifyPlain(m))
  <2> DEFINE b == IF m.text = "badblock" THEN -1 ELSE m.block
             named == [current EXCEPT !.job = m.job, !.block = b]
             taken == [named EXCEPT !.header = m.job, !.seed = m.seed, !.boundary = m.boundary]
  <2>1. b \in Int
    BY <1>2
  <2>2. NotifyPlain(m) = IF m.text = "badhash" THEN Kept(named) ELSE Taken(taken)
    BY DEF NotifyPlain
  <2> HIDE DEF b
  <2>3. Good(Kept(named)) /\ Good(Taken(taken))
    BY <1>1, <1>2, <2>1 DEF Kept, Taken, Job, SessionType
  <2>. QED  BY <2>2, <2>3
<1>6. Good(NotifyStratum2(m))
  BY <1>1, <1>2 DEF Kept, Taken, NotifyStratum2, Job, SessionType
<1> HIDE DEF Good
<1>7. Good(Notify(m))
  BY <1>3, <1>4, <1>5, <1>6 DEF Notify
<1>. QED  BY <1>7 DEF Good

\* The settings of a session keep its login, and place its extra nonce.
LEMMA SetSessionFacts ==
  ASSUME TypeOK, Placed(session.size, session.nonce, session.whole), NEW m \in Messages(mode),
         m.kind \in {"set_difficulty", "set_extranonce", "set"}
  PROVE  /\ SetSession(m) \in SessionType
         /\ SetSession(m).authorized = session.authorized
         /\ Placed(SetSession(m).size, SetSession(m).nonce, SetSession(m).whole)
<1>1. session \in SessionType /\ mode \in Modes
  BY DEF TypeOK, SessionType
<1>2. /\ m \in Line /\ m.ex.n \in Nat /\ m.ex.v \in Nat /\ m.ex.n <= NonceNibbles
      /\ m.ex.text \in {"digits", "part", "none"} /\ Miners <= Room(m.ex.n)
      /\ m.ex.text = "digits" => m.ex.v < 2 ^ (4 * m.ex.n)
  BY <1>1, LineFacts
<1>3. m.boundary \in Int /\ m.epoch \in Int
  BY <1>2 DEF Line
<1>4. Room(m.ex.n) \in Nat
  BY <1>2, RoomFacts
<1>5. ASSUME NEW s \in SessionType
      PROVE  /\ ProcessExtranonce(s, m.ex) \in SessionType
             /\ ProcessExtranonce(s, m.ex).authorized = s.authorized
             /\ Placed(ProcessExtranonce(s, m.ex).size, ProcessExtranonce(s, m.ex).nonce,
                       ProcessExtranonce(s, m.ex).whole)
  <2> DEFINE w == m.ex.text = "digits"
             n == CASE m.ex.text = "digits" -> m.ex.v * Room(m.ex.n)
                    [] m.ex.text = "part"   -> m.ex.v
                    [] m.ex.text = "none"   -> s.nonce
             u == [s EXCEPT !.size = m.ex.n, !.whole = w, !.nonce = n]
  <2>1. ProcessExtranonce(s, m.ex) = u
    BY DEF ProcessExtranonce, Room
  <2>2. m.ex.v * Room(m.ex.n) \in Nat /\ s.nonce \in Nat
    BY <1>2, <1>4 DEF SessionType
  <2>3. n \in Nat /\ w \in BOOLEAN /\ (w => n = m.ex.v * Room(m.ex.n) /\ m.ex.v < 2 ^ (4 * m.ex.n))
    BY <1>2, <2>2
  <2> HIDE DEF n, w
  <2>4. u \in SessionType /\ u.authorized = s.authorized /\ u.size = m.ex.n /\ u.nonce = n /\ u.whole = w
    BY <1>2, <2>3 DEF SessionType
  <2> HIDE DEF u
  <2>5. Placed(m.ex.n, n, w)
    BY <1>2, <2>3 DEF Placed
  <2>. QED  BY <2>1, <2>4, <2>5
<1> DEFINE a == [session EXCEPT !.set = TRUE]
           e == [a EXCEPT !.epoch = IF m.epoch = -1 THEN @ ELSE m.epoch]
           d(s) == [s EXCEPT !.boundary = IF m.boundary = -1 THEN @ ELSE m.boundary]
           Same(s) == /\ s \in SessionType /\ s.authorized = session.authorized
                      /\ s.size = session.size /\ s.nonce = session.nonce /\ s.whole = session.whole
<1>6. Same(session)
  BY <1>1
<1>7. Same(a)
  BY <1>1 DEF SessionType
<1>8. Same(e)
  <2> HIDE DEF a
  <2>. QED  BY <1>3, <1>7 DEF SessionType
<1>9. ASSUME NEW s, Same(s) PROVE Same(d(s))
  BY <1>3, <1>9 DEF SessionType
<1>10. \/ SetSession(m) \in {session, a, e, d(session), d(e)}
       \/ \E s : Same(s) /\ SetSession(m) = ProcessExtranonce(s, m.ex)
  <2>1. Same(d(e))
    <3> HIDE DEF Same, d, e, a
    <3>. QED  BY <1>8, <1>9
  <2>2. SetSession(m) \in {session, a, e, d(session), d(e), ProcessExtranonce(session, m.ex),
                           ProcessExtranonce(d(e), m.ex)}
    BY DEF SetSession
  <2> HIDE DEF Same, d, e, a
  <2>. QED  BY <1>6, <2>1, <2>2
<1>11. CASE SetSession(m) \in {session, a, e, d(session), d(e)}
  <2>1. Same(SetSession(m))
    <3> HIDE DEF Same, d, e, a
    <3>1. Same(d(session)) /\ Same(d(e))
      BY <1>6, <1>8, <1>9
    <3>. QED  BY <1>6, <1>7, <1>8, <1>11, <3>1
  <2>. QED  BY <2>1
<1>12. CASE \E s : Same(s) /\ SetSession(m) = ProcessExtranonce(s, m.ex)
  BY <1>5, <1>12
<1>. QED  BY <1>10, <1>11, <1>12

\* PoolManager's work package has the place of the job.
LEMMA OnWorkReceivedFacts ==
  ASSUME TypeOK, NEW w \in Job
  PROVE  /\ OnWorkReceived(w) \in Job
         /\ OnWorkReceived(w).ex = w.ex /\ OnWorkReceived(w).start = w.start
         /\ OnWorkReceived(w).whole = w.whole
<1>1. wp \in Job
  BY DEF TypeOK
<1>2. w.block \in Int /\ w.seed \in Int /\ wp.epoch \in Int
  BY <1>1 DEF Job
<1>3. w.block \div 2147483647 \in Int /\ FindEpochNumber(w.seed) \in Int
  BY <1>2 DEF FindEpochNumber
<1>4. \E e \in Int : OnWorkReceived(w) \in {w, [w EXCEPT !.epoch = e]}
  BY <1>2, <1>3 DEF OnWorkReceived
<1>. QED  BY <1>4 DEF Job

\* setWork gives segments that fit, from the start of the job or the scrambler.
LEMMA SetWorkFacts ==
  ASSUME TypeOK, Miners * 2 ^ farm.width <= NonceSpace,
         NEW w \in Job, Placed(w.ex, w.start, w.whole), NEW n \in Nat
  PROVE  LET f == SetWork(w, n)
         IN  /\ f \in FarmType
             /\ Miners * 2 ^ f.width <= NonceSpace
             /\ \E base \in Nat :
                  /\ \A i \in MinerIds : f.start[i] = (base + i * 2 ^ f.width) % NonceSpace
                  /\ w.ex > 0 => base = w.start
             /\ w.ex > 0 => Miners * 2 ^ f.width <= Room(w.ex)
<1> DEFINE width == IF w.ex > 0 THEN SegmentWidth(w.ex) ELSE farm.width
           start == IF w.ex > 0 THEN w.start ELSE n
           f == SetWork(w, n)
<1>1. farm \in FarmType /\ farm.width \in Nat /\ w.ex \in Nat /\ w.start \in Nat
  BY DEF TypeOK, FarmType, Job
<1>2. Miners \in Nat \ {0} /\ NonceNibbles \in Nat
  BY SessionAssumption
<1>3. w.ex <= NonceNibbles /\ Miners <= Room(w.ex)
  BY DEF Placed
<1>4. /\ SegmentWidth(w.ex) \in Nat /\ Miners * 2 ^ SegmentWidth(w.ex) <= Room(w.ex)
  BY <1>1, <1>3, SegmentWidthFits
<1>5. width \in Nat /\ start \in Nat
  BY <1>1, <1>4
<1>6. Room(w.ex) \in Nat /\ NonceSpace \in Nat \ {0} /\ Room(w.ex) <= NonceSpace
  <2>1. /\ NonceSpace \in Nat \ {0} /\ Room(w.ex) \in Nat \ {0} /\ 2 ^ (4 * w.ex) \in Nat \ {0}
        /\ NonceSpace = 2 ^ (4 * w.ex) * Room(w.ex)
    BY <1>1, <1>3, RoomFacts
  <2> DEFINE V == 2 ^ (4 * w.ex)
             E == Room(w.ex)
  <2> HIDE DEF V, E
  <2>2. (V - 1) * E >= 0
    BY <2>1 DEF V, E
  <2>3. (V - 1) * E = V * E - E
    BY <2>1 DEF V, E
  <2>4. NonceSpace = V * E /\ E \in Nat
    BY <2>1 DEF V, E
  <2>5. E <= NonceSpace
    BY <2>2, <2>3, <2>4, <2>1
  <2>. QED  BY <2>1, <2>5 DEF E
<1>7. w.ex > 0 => Miners * 2 ^ width <= Room(w.ex)
  BY <1>4
<1>8. Miners * 2 ^ width <= NonceSpace
  <2>1. 2 ^ width \in Nat
    BY <1>5, PowPos
  <2>2. Miners * 2 ^ width \in Nat
    BY <2>1, <1>2
  <2>3. CASE w.ex > 0
    BY <2>2, <2>3, <1>6, <1>7
  <2>4. CASE ~(w.ex > 0)
    BY <2>4
  <2>. QED  BY <2>3, <2>4
<1>9. w.ex > 0 => start = w.start
  OBVIOUS
<1>10. f = [farm EXCEPT !.width = width, !.scrambler = n,
                 !.start = [i \in MinerIds |-> (start + i * 2 ^ width) % NonceSpace]]
  BY DEF SetWork
<1> HIDE DEF width, start, f
<1>11. \A i \in MinerIds : (start + i * 2 ^ width) % NonceSpace \in Nat
  <2> SUFFICES ASSUME NEW i \in MinerIds PROVE (start + i * 2 ^ width) % NonceSpace \in Nat
    OBVIOUS
  <2>1. 2 ^ width \in Nat /\ i \in Nat
    BY <1>5, PowPos DEF MinerIds
  <2>2. i * 2 ^ width \in Nat
    BY <2>1
  <2>3. start + i * 2 ^ width \in Nat
    BY <2>2, <1>5
  <2>. QED  BY <2>3, <1>6
<1>12. f \in FarmType /\ f.width = width
  BY <1>1, <1>5, <1>10, <1>11 DEF FarmType
<1>13. \A i \in MinerIds : f.start[i] = (start + i * 2 ^ f.width) % NonceSpace
  BY <1>1, <1>10, <1>12 DEF FarmType
<1>. QED  BY <1>5, <1>7, <1>8, <1>9, <1>12, <1>13 DEF f

-----------------------------------------------------------------------------
(* Sums *)

Pick(s) == CHOOSE x \in s : TRUE

SumOver(g, S) == MapThenSumSet(LAMBDA i : g[i], S)

\* h sums g over the subsets of S, an element at a time.
IsSum(g, S, h) ==
  h = [s \in SUBSET S |-> IF s = {} THEN 0 ELSE g[Pick(s)] + h[s \ {Pick(s)}]]

\* Taking the picked element away.
LEMMA PickFacts ==
  ASSUME NEW S, IsFiniteSet(S), NEW s \in SUBSET S, s # {}
  PROVE  /\ Pick(s) \in s /\ s \ {Pick(s)} \in SUBSET S
         /\ Cardinality(s) \in Nat /\ Cardinality(s) >= 1
         /\ Cardinality(s \ {Pick(s)}) = Cardinality(s) - 1
<1>1. Pick(s) \in s
  BY DEF Pick
<1>2. IsFiniteSet(s)
  BY FS_Subset
<1>3. Cardinality(s) \in Nat /\ Cardinality(s) # 0
  BY <1>2, FS_CardinalityType, FS_EmptySet
<1>4. Cardinality(s \ {Pick(s)}) = Cardinality(s) - 1
  BY <1>1, <1>2, FS_RemoveElement
<1>. QED  BY <1>1, <1>3, <1>4

\* Such a function exists on the subsets of a finite set.
LEMMA SumExists ==
  ASSUME NEW S, IsFiniteSet(S), NEW D, S \subseteq D, NEW g \in [D -> Nat]
  PROVE  \E h : IsSum(g, S, h)
<1> DEFINE L(n) == {s \in SUBSET S : Cardinality(s) <= n}
           Sums(n, h) == \A s \in L(n) :
              h[s] = IF s = {} THEN 0 ELSE g[Pick(s)] + h[s \ {Pick(s)}]
           T == {n \in Nat : ~\E h \in [L(n) -> Nat] : Sums(n, h)}
<1>0. \A s \in SUBSET S : Cardinality(s) \in Nat
  BY FS_Subset, FS_CardinalityType
<1>1. T = {}
  <2>1. SUFFICES ASSUME T # {} PROVE FALSE
    OBVIOUS
  <2>2. PICK n \in T : \A m \in T : n <= m
    BY <2>1, NatMin
  <2>3. n # 0
    <3> DEFINE h == [s \in L(0) |-> 0]
    <3>1. ASSUME NEW s \in L(0), s # {} PROVE FALSE
      <4>1. Cardinality(s) \in Nat /\ Cardinality(s) >= 1
        BY <3>1, PickFacts
      <4>2. Cardinality(s) <= 0
        OBVIOUS
      <4>. QED  BY <4>1, <4>2
    <3>2. h \in [L(0) -> Nat] /\ Sums(0, h)
      BY <3>1
    <3>. QED  BY <3>2
  <2>4. n - 1 \in Nat /\ n - 1 \notin T
    <3>1. n \in Nat /\ ~(n <= n - 1)
      BY <2>2
    <3>2. n - 1 \notin T
      BY <2>2, <3>1, Zenon
    <3>3. n - 1 \in Nat
      BY <3>1, <2>3
    <3>. QED  BY <3>2, <3>3, Zenon
  <2>5. PICK h \in [L(n - 1) -> Nat] : Sums(n - 1, h)
    BY <2>4
  <2> DEFINE k == [s \in L(n) |-> IF s = {} THEN 0 ELSE g[Pick(s)] + h[s \ {Pick(s)}]]
  <2>6. \A s \in L(n) : s # {} => /\ s \ {Pick(s)} \in L(n - 1) /\ s \ {Pick(s)} \in L(n)
                                  /\ g[Pick(s)] \in Nat /\ h[s \ {Pick(s)}] \in Nat
    <3> SUFFICES ASSUME NEW s \in L(n), s # {}
                 PROVE  /\ s \ {Pick(s)} \in L(n - 1) /\ s \ {Pick(s)} \in L(n)
                        /\ g[Pick(s)] \in Nat /\ h[s \ {Pick(s)}] \in Nat
      OBVIOUS
    <3>1. /\ Pick(s) \in s /\ s \ {Pick(s)} \in SUBSET S /\ Cardinality(s) \in Nat
          /\ Cardinality(s \ {Pick(s)}) = Cardinality(s) - 1
      BY PickFacts
    <3>2. Cardinality(s) <= n
      OBVIOUS
    <3>3. s \ {Pick(s)} \in L(n - 1) /\ s \ {Pick(s)} \in L(n)
      BY <3>1, <3>2, <2>4
    <3>4. Pick(s) \in D
      BY <3>1
    <3>. QED  BY <3>3, <3>4
  <2>7. k \in [L(n) -> Nat]
    BY <2>6
  <2>8. \A s \in L(n - 1) : k[s] = h[s]
    <3>1. \A s \in L(n - 1) : s \in L(n)
      BY <1>0, <2>4
    <3>. QED  BY <3>1, <2>5
  <2>9. Sums(n, k)
    BY <2>6, <2>8
  <2>. QED  BY <2>2, <2>7, <2>9
<1>2. Cardinality(S) \in Nat
  BY FS_CardinalityType
<1>3. PICK h \in [L(Cardinality(S)) -> Nat] : Sums(Cardinality(S), h)
  BY <1>1, <1>2
<1>4. L(Cardinality(S)) = SUBSET S
  BY FS_Subset
<1>5. IsSum(g, S, h)
  BY <1>3, <1>4 DEF IsSum
<1>. QED  BY <1>5

\* What MapThenSumSet calculates is such a sum.
LEMMA SumIs ==
  ASSUME NEW S, IsFiniteSet(S), NEW D, S \subseteq D, NEW g \in [D -> Nat]
  PROVE  \E h : IsSum(g, S, h) /\ SumOver(g, S) = h[S]
<1>1. PICK k : IsSum(g, S, k)
  BY SumExists
<1> DEFINE h == CHOOSE h : IsSum(g, S, h)
<1>2. IsSum(g, S, h)
  BY <1>1
<1>3. SumOver(g, S) = h[S]
  BY DEF SumOver, MapThenSumSet, MapThenFoldSet, IsSum, Pick
<1>. QED  BY <1>2, <1>3

\* Sums of naturals are naturals.
LEMMA SumType ==
  ASSUME NEW S, IsFiniteSet(S), NEW D, S \subseteq D, NEW g \in [D -> Nat],
         NEW h, IsSum(g, S, h), NEW u \in SUBSET S
  PROVE  h[u] \in Nat
<1> DEFINE T == {n \in Nat : \E s \in SUBSET S : Cardinality(s) = n /\ h[s] \notin Nat}
<1>1. Cardinality(u) \in Nat
  BY FS_Subset, FS_CardinalityType
<1>2. SUFFICES ASSUME T # {} PROVE FALSE
  BY <1>1
<1>3. PICK n \in T : \A m \in T : n <= m
  BY <1>2, NatMin
<1>4. PICK s \in SUBSET S : Cardinality(s) = n /\ h[s] \notin Nat
  BY <1>3
<1>5. s # {}
  BY <1>4 DEF IsSum
<1>6. /\ Pick(s) \in D /\ s \ {Pick(s)} \in SUBSET S
      /\ Cardinality(s \ {Pick(s)}) = n - 1 /\ n - 1 \in Nat
  <2>1. /\ Pick(s) \in s /\ s \ {Pick(s)} \in SUBSET S
        /\ Cardinality(s) \in Nat /\ Cardinality(s) >= 1
        /\ Cardinality(s \ {Pick(s)}) = Cardinality(s) - 1
    BY <1>5, PickFacts
  <2>. QED  BY <2>1, <1>4
<1>7. h[s \ {Pick(s)}] \in Nat
  BY <1>3, <1>6
<1>8. h[s] = g[Pick(s)] + h[s \ {Pick(s)}]
  BY <1>5 DEF IsSum
<1>. QED  BY <1>4, <1>6, <1>7, <1>8

\* g is defined on S, and h is its sum.
Summed(S, D, g, h) == S \subseteq D /\ g \in [D -> Nat] /\ IsSum(g, S, h)

\* f has one more than g for i, and the same for the others.
OneMore(f, g, i, S) == f[i] = g[i] + 1 /\ \A j \in S : j # i => f[j] = g[j]

\* One more for an element is one more for the sums that have it.
LEMMA SumIncrement ==
  ASSUME NEW S, IsFiniteSet(S), NEW D, NEW g, NEW h, Summed(S, D, g, h),
         NEW f, NEW k, Summed(S, D, f, k), NEW i \in S, OneMore(f, g, i, S)
  PROVE  k[S] = h[S] + 1
<1> USE DEF Summed
<1> DEFINE Add(s) == IF i \in s THEN 1 ELSE 0
           T == {n \in Nat : \E s \in SUBSET S : Cardinality(s) = n /\ k[s] # h[s] + Add(s)}
<1>1. Cardinality(S) \in Nat
  BY FS_CardinalityType
<1>2. SUFFICES ASSUME T # {} PROVE FALSE
  BY <1>1
<1>3. PICK n \in T : \A m \in T : n <= m
  BY <1>2, NatMin
<1>4. PICK s \in SUBSET S : Cardinality(s) = n /\ k[s] # h[s] + Add(s)
  BY <1>3
<1>5. s # {}
  BY <1>4 DEF IsSum
<1> DEFINE x == Pick(s)
           t == s \ {x}
<1>6. /\ x \in s /\ x \in S /\ x \in D /\ t \in SUBSET S
      /\ Cardinality(t) = n - 1 /\ n - 1 \in Nat
  <2>1. /\ Pick(s) \in s /\ s \ {Pick(s)} \in SUBSET S
        /\ Cardinality(s) \in Nat /\ Cardinality(s) >= 1
        /\ Cardinality(s \ {Pick(s)}) = Cardinality(s) - 1
    BY <1>5, PickFacts
  <2>. QED  BY <2>1, <1>4
<1>7. h[s] = g[x] + h[t] /\ k[s] = f[x] + k[t]
  BY <1>5 DEF IsSum
<1> HIDE DEF x
<1>8. k[t] = h[t] + Add(t)
  BY <1>3, <1>6
<1>9. h[t] \in Nat /\ g[x] \in Nat
  BY <1>6, SumType
<1>10. f[x] + Add(t) = g[x] + Add(s)
  BY <1>6, <1>9 DEF OneMore
<1>11. Add(t) \in Nat /\ Add(s) \in Nat /\ f[x] \in Nat
  BY <1>6
<1> HIDE DEF t, Add
<1>12. k[s] = h[s] + Add(s)
  BY <1>7, <1>8, <1>9, <1>10, <1>11
<1>. QED  BY <1>4, <1>12

\* Nothing is in the sum of zeros.
LEMMA SumZero ==
  ASSUME NEW S, IsFiniteSet(S), NEW D, S \subseteq D, NEW g \in [D -> Nat],
         \A j \in S : g[j] = 0, NEW h, IsSum(g, S, h), NEW u \in SUBSET S
  PROVE  h[u] = 0
<1> DEFINE T == {n \in Nat : \E s \in SUBSET S : Cardinality(s) = n /\ h[s] # 0}
<1>1. Cardinality(u) \in Nat
  BY FS_Subset, FS_CardinalityType
<1>2. SUFFICES ASSUME T # {} PROVE FALSE
  BY <1>1
<1>3. PICK n \in T : \A m \in T : n <= m
  BY <1>2, NatMin
<1>4. PICK s \in SUBSET S : Cardinality(s) = n /\ h[s] # 0
  BY <1>3
<1>5. s # {}
  BY <1>4 DEF IsSum
<1>6. /\ Pick(s) \in S /\ s \ {Pick(s)} \in SUBSET S
      /\ Cardinality(s \ {Pick(s)}) = n - 1 /\ n - 1 \in Nat
  BY <1>4, <1>5, PickFacts
<1>7. h[s \ {Pick(s)}] = 0 /\ g[Pick(s)] = 0
  BY <1>3, <1>6
<1>8. h[s] = g[Pick(s)] + h[s \ {Pick(s)}]
  BY <1>5 DEF IsSum
<1>. QED  BY <1>4, <1>7, <1>8

-----------------------------------------------------------------------------
(* Accounts *)

SumOfMiners(g) == SumOver(g, MinerIds)

\* The sum of the miners' accounts, when one of them gets one more.
LEMMA SumOfMinersFacts ==
  ASSUME NEW g \in [0..Miners -> Nat]
  PROVE  /\ SumOfMiners(g) \in Nat
         /\ (\A j \in MinerIds : g[j] = 0) => SumOfMiners(g) = 0
         /\ \A f \in [0..Miners -> Nat], i \in MinerIds :
              OneMore(f, g, i, MinerIds) => SumOfMiners(f) = SumOfMiners(g) + 1
<1>1. Miners \in Nat \ {0}
  BY SessionAssumption
<1>2. IsFiniteSet(MinerIds) /\ MinerIds \subseteq 0..Miners /\ MinerIds \in SUBSET MinerIds
  <2>1. IsFiniteSet(0..(Miners - 1))
    BY <1>1, FS_Interval
  <2>. QED  BY <2>1, <1>1 DEF MinerIds
<1>3. PICK h : IsSum(g, MinerIds, h) /\ SumOfMiners(g) = h[MinerIds]
  BY <1>2, SumIs DEF SumOfMiners
<1>4. h[MinerIds] \in Nat
  BY <1>2, <1>3, SumType
<1>5. (\A j \in MinerIds : g[j] = 0) => h[MinerIds] = 0
  BY <1>2, <1>3, SumZero
<1>6. ASSUME NEW f \in [0..Miners -> Nat], NEW i \in MinerIds,
             OneMore(f, g, i, MinerIds)
      PROVE  SumOfMiners(f) = SumOfMiners(g) + 1
  <2>1. PICK k : IsSum(f, MinerIds, k) /\ SumOfMiners(f) = k[MinerIds]
    BY <1>2, SumIs DEF SumOfMiners
  <2>2. Summed(MinerIds, 0..Miners, g, h) /\ Summed(MinerIds, 0..Miners, f, k)
    BY <1>2, <1>3, <2>1 DEF Summed
  <2>3. k[MinerIds] = h[MinerIds] + 1
    BY <1>2, <1>6, <2>2, SumIncrement
  <2>. QED  BY <2>1, <2>3, <1>3
<1>. QED  BY <1>3, <1>4, <1>5, <1>6

\* accountSolution adds one to the miner's account and to the farm's.
LEMMA AccountFacts ==
  ASSUME NEW a \in AccountType, NEW i \in MinerIds, NEW what \in {"accepted", "failed"}
  PROVE  LET r == Account(a, i, what)
         IN  /\ r \in AccountType
             /\ r[what][i] = a[what][i] + 1 /\ r[what][Miners] = a[what][Miners] + 1
             /\ \A j \in MinerIds : j # i => r[what][j] = a[what][j]
             /\ \A w \in {"accepted", "failed"} : w # what => r[w] = a[w]
<1>1. Miners \in Nat \ {0}
  BY SessionAssumption
<1>2. i \in 0..Miners /\ Miners \in 0..Miners /\ i # Miners /\ MinerIds \subseteq 0..Miners
  BY <1>1 DEF MinerIds
<1>3. a[what] \in [0..Miners -> Nat]
  BY DEF AccountType
<1> DEFINE c == [a[what] EXCEPT ![i] = a[what][i] + 1, ![Miners] = a[what][Miners] + 1]
<1>4. \A j \in MinerIds : j # Miners
  BY <1>1 DEF MinerIds
<1>5. /\ c \in [0..Miners -> Nat] /\ c[i] = a[what][i] + 1 /\ c[Miners] = a[what][Miners] + 1
      /\ \A j \in MinerIds : j # i => c[j] = a[what][j]
  BY <1>2, <1>3, <1>4
<1>6. Account(a, i, what) = [a EXCEPT ![what] = c]
  BY <1>2 DEF Account, AccountType
<1> HIDE DEF c
<1>. QED  BY <1>5, <1>6 DEF AccountType

\* Accounted says that each of the farm's accounts is the sum over the miners.
Accounted(a) == \A w \in {"accepted", "failed"} : a[w][Miners] = SumOfMiners(a[w])

\* accountSolution keeps the farm's accounts sums.
LEMMA AccountKeepsSum ==
  ASSUME NEW a \in AccountType, Accounted(a), NEW i \in MinerIds, NEW what \in {"accepted", "failed"}
  PROVE  Accounted(Account(a, i, what))
<1> DEFINE r == Account(a, i, what)
<1>1. /\ r \in AccountType
      /\ r[what][i] = a[what][i] + 1 /\ r[what][Miners] = a[what][Miners] + 1
      /\ \A j \in MinerIds : j # i => r[what][j] = a[what][j]
      /\ \A w \in {"accepted", "failed"} : w # what => r[w] = a[w]
  BY AccountFacts
<1> HIDE DEF r
<1>2. a[what] \in [0..Miners -> Nat] /\ r[what] \in [0..Miners -> Nat]
  BY <1>1 DEF AccountType
<1>3. SumOfMiners(r[what]) = SumOfMiners(a[what]) + 1
  <2>1. OneMore(r[what], a[what], i, MinerIds)
    BY <1>1 DEF OneMore
  <2>. QED  BY <2>1, <1>2, SumOfMinersFacts
<1>4. \A w \in {"accepted", "failed"} : r[w][Miners] = SumOfMiners(r[w])
  BY <1>1, <1>3 DEF Accounted
<1>. QED  BY <1>4 DEF Accounted, r

\* The property, in the terms of these lemmas.
LEMMA AccountedIs ==
  ASSUME account \in AccountType
  PROVE  AcceptancesAccounted <=>
           /\ \A i \in MinerIds : account["accepted"][i] = answered[TRUE][i]
           /\ Accounted(account)
<1>1. DOMAIN account = {"accepted", "failed"}
  BY DEF AccountType
<1>. QED  BY <1>1 DEF AcceptancesAccounted, Accounted, SumOfMiners, SumOver

-----------------------------------------------------------------------------
(* Pleas and shares *)

\* Taking one out of a sequence.
LEMMA RemoveAtFacts ==
  ASSUME NEW S, NEW s \in Seq(S), NEW k \in 1..Len(s)
  PROVE  /\ RemoveAt(s, k) \in Seq(S) /\ Len(RemoveAt(s, k)) = Len(s) - 1
         /\ \A j \in 1..(Len(s) - 1) : RemoveAt(s, k)[j] = IF j < k THEN s[j] ELSE s[j + 1]
<1> DEFINE a == SubSeq(s, 1, k - 1)
           b == SubSeq(s, k + 1, Len(s))
<1>1. Len(s) \in Nat /\ k \in Nat /\ 1 <= k /\ k <= Len(s)
  OBVIOUS
<1>2. /\ a \in Seq(S) /\ Len(a) = k - 1
      /\ \A j \in 1..(k - 1) : a[j] = s[j]
  BY <1>1
<1>3. /\ b \in Seq(S) /\ Len(b) = Len(s) - k
      /\ \A j \in 1..(Len(s) - k) : b[j] = s[k + j]
  BY <1>1
<1>4. RemoveAt(s, k) = a \o b
  BY DEF RemoveAt
<1> HIDE DEF a, b
<1>5. a \o b \in Seq(S) /\ Len(a \o b) = Len(s) - 1
  <2>1. a \o b \in Seq(S) /\ Len(a \o b) = Len(a) + Len(b)
    BY <1>2, <1>3, ConcatProperties
  <2>. QED  BY <2>1, <1>1, <1>2, <1>3
<1>6. ASSUME NEW j \in 1..(Len(s) - 1)
      PROVE  (a \o b)[j] = IF j < k THEN s[j] ELSE s[j + 1]
  <2>1. CASE j < k
    BY <2>1, <1>1, <1>2, <1>3
  <2>2. CASE ~(j < k)
    <3>1. (a \o b)[j] = b[j - (k - 1)]
      BY <2>2, <1>1, <1>2, <1>3
    <3>2. j - (k - 1) \in 1..(Len(s) - k) /\ k + (j - (k - 1)) = j + 1
      BY <2>2, <1>1
    <3>. QED  BY <2>2, <3>1, <3>2, <1>3
  <2>. QED  BY <2>1, <2>2
<1>. QED  BY <1>4, <1>5, <1>6

\* dequeue_response_plea and enqueue_response_plea on a queue.
LEMMA PleaFacts ==
  ASSUME pleas \in PleasType, now \in Nat
  PROVE  /\ Dequeued \in PleasType /\ Enqueued \in PleasType
         /\ Enqueued.times = Append(pleas.times, now) /\ Enqueued.count = pleas.count + 1
         /\ Enqueued.older = IF pleas.count = 0 THEN now ELSE pleas.older
         /\ pleas.times # <<>> => /\ Dequeued.times = Tail(pleas.times)
                                  /\ Dequeued.older = pleas.times[1]
         /\ Dequeued.count = IF pleas.count > 0 THEN pleas.count - 1 ELSE 0
<1>1. pleas.times \in Seq(Nat) /\ pleas.count \in Nat /\ pleas.older \in Nat
  BY DEF PleasType
<1>2. pleas.times # <<>> => Head(pleas.times) = pleas.times[1] /\ pleas.times[1] \in Nat
                            /\ Tail(pleas.times) \in Seq(Nat)
  BY <1>1
<1>3. Append(pleas.times, now) \in Seq(Nat)
  BY <1>1
<1>. QED  BY <1>1, <1>2, <1>3 DEF Dequeued, Enqueued, PleasType

\* Each acceptance is in its miner's account, the sums in the farm's.
AccountInv ==
  /\ \A i \in MinerIds : account["accepted"][i] = answered[TRUE][i]
  /\ Accounted(account)

SessionInv == TypeOK /\ SegmentsInv /\ PleasInv /\ SharesInv /\ AccountInv

\* The part of the types that the handlers of lines are about.
ClientOK ==
  /\ session \in SessionType /\ current \in Job /\ newjob \in BOOLEAN
  /\ Placed(session.size, session.nonce, session.whole) /\ Placed(current.ex, current.start, current.whole)
  /\ state \in {"up", "leaving", "crashed"}

ShareOK ==
  /\ pleas \in PleasType /\ shares \in Seq(Share)
  /\ inOrder \in BOOLEAN /\ maxId \in Int
  /\ answered \in [BOOLEAN -> [MinerIds -> Nat]] /\ account \in AccountType
  /\ PleasInv /\ SharesInv /\ AccountInv

\* The parts of the invariant.
LEMMA Parts ==
  SessionInv <=> /\ ClientOK /\ ShareOK
                 /\ mode \in Modes /\ wp \in Job /\ farm \in FarmType
                 /\ lines \in Nat /\ events \in Nat /\ now \in Nat
                 /\ SegmentsInv
BY DEF SessionInv, TypeOK, ClientOK, ShareOK, SessionType, PleasType, Share, AccountType,
       FarmType, SegmentsInv

\* The parts after a step are the invariant after it.
LEMMA PartsNext ==
  ASSUME ClientOK', ShareOK', mode' \in Modes, wp' \in Job, farm' \in FarmType,
         lines' \in Nat, events' \in Nat, now' \in Nat, SegmentsInv'
  PROVE  SessionInv'
BY DEF SessionInv, TypeOK, ClientOK, ShareOK, SessionType, PleasType, Share, AccountType,
       FarmType, SegmentsInv

\* Steps that touch neither shares nor pleas, and leave the login as it is,
\* keep what is said of them; the clock may go on.
LEMMA QuietStep ==
  ASSUME SessionInv, UNCHANGED shareVars, UNCHANGED pleas,
         now' \in Nat, now' >= now, session'.authorized = session.authorized,
         state' = "up" => state = "up"
  PROVE  ShareOK'
<1>1. ShareOK /\ now \in Nat
  BY Parts
<1>2. /\ shares' = shares /\ inOrder' = inOrder /\ maxId' = maxId /\ pleas' = pleas
      /\ answered' = answered /\ account' = account
  BY DEF shareVars
<1>3. PleasInv'
  <2>1. SUFFICES ASSUME inOrder', state' = "up"
                 PROVE  PleasInv'
    BY DEF PleasInv
  <2>2. inOrder /\ state = "up"
    BY <2>1, <1>2
  <2>3. /\ pleas.count = Len(pleas.times)
        /\ session.authorized = FALSE => shares = <<>> /\ Len(pleas.times) = 1
        /\ session.authorized = TRUE =>
             /\ Len(pleas.times) = Len(shares)
             /\ \A k \in 1..Len(shares) : pleas.times[k] = shares[k].at
        /\ \A k \in 1..Len(pleas.times) : pleas.times[k] <= now /\ pleas.older <= pleas.times[k]
        /\ \A j, k \in 1..Len(pleas.times) : j <= k => pleas.times[j] <= pleas.times[k]
    BY <2>2, <1>1 DEF ShareOK, PleasInv
  <2>4. \A k \in 1..Len(pleas.times) : pleas.times[k] \in Nat
    BY <1>1 DEF ShareOK, PleasType
  <2>5. \A k \in 1..Len(pleas.times) : pleas.times[k] <= now'
    BY <2>3, <2>4, <1>1
  <2>. QED  BY <2>3, <2>5, <1>2 DEF PleasInv
<1>4. SharesInv'
  BY <1>1, <1>2 DEF ShareOK, SharesInv
<1>5. AccountInv'
  BY <1>1, <1>2 DEF ShareOK, AccountInv
<1>. QED  BY <1>1, <1>2, <1>3, <1>4, <1>5 DEF ShareOK

\* The answer to mining.authorize takes its plea, the only one.
LEMMA AuthorizedStep ==
  ASSUME SessionInv, NEW m \in Messages(mode), HandleAuthorized(m), now' = now
  PROVE  ClientOK' /\ ShareOK'
<1>1. ClientOK /\ ShareOK /\ now \in Nat /\ mode \in Modes
  BY Parts
<1>2. m.ok \in BOOLEAN
  BY <1>1, LineFacts DEF Line
<1>3. /\ session.authorized = FALSE /\ state = "up" /\ pleas' = Dequeued
      /\ session' = [session EXCEPT !.authorized = m.ok]
      /\ state' = IF m.ok THEN state ELSE "leaving"
      /\ current' = current /\ newjob' = newjob
      /\ shares' = shares /\ inOrder' = inOrder /\ maxId' = maxId
      /\ answered' = answered /\ account' = account
  BY <1>1 DEF HandleAuthorized, shareVars, ClientOK, SessionType
<1>4. ClientOK'
  <2>1. session' \in SessionType /\ session'.size = session.size /\ session'.nonce = session.nonce
    BY <1>1, <1>2, <1>3 DEF ClientOK, SessionType
  <2>2. state' \in {"up", "leaving", "crashed"}
    BY <1>3
  <2>. QED  BY <2>1, <2>2, <1>1, <1>3 DEF ClientOK
<1>5. pleas' \in PleasType
  BY <1>1, <1>3, PleaFacts DEF ShareOK
<1>6. PleasInv'
  <2>1. SUFFICES ASSUME inOrder', state' = "up" PROVE PleasInv'
    BY DEF PleasInv
  <2>2. inOrder /\ m.ok = TRUE
    BY <2>1, <1>2, <1>3
  <2>3. shares = <<>> /\ Len(pleas.times) = 1 /\ pleas.count = 1
    BY <2>2, <1>1, <1>3 DEF ShareOK, PleasInv
  <2>4. pleas.times \in Seq(Nat) /\ pleas.times # <<>>
    <3>1. pleas.times \in Seq(Nat)
      BY <1>1 DEF ShareOK, PleasType
    <3>2. Len(pleas.times) = 1
      BY <2>3
    <3>3. pleas.times # <<>>
      BY ONLY <3>1, <3>2
    <3>. QED  BY <3>1, <3>3
  <2>5. pleas'.times = Tail(pleas.times) /\ pleas'.count = 0
    BY <2>3, <2>4, <1>1, <1>3, PleaFacts DEF ShareOK
  <2>6. Len(pleas'.times) = 0
    BY <2>3, <2>4, <2>5
  <2>7. session'.authorized = TRUE
    BY <2>2, <1>1, <1>3 DEF ClientOK, SessionType
  <2>8. Len(shares') = 0 /\ 1..0 = {}
    BY <2>3, <1>3
  <2>. QED  BY <2>5, <2>6, <2>7, <2>8, <1>3 DEF PleasInv
<1>7. SharesInv'
  BY <1>1, <1>3 DEF ShareOK, SharesInv
<1>8. AccountInv'
  BY <1>1, <1>3 DEF ShareOK, AccountInv
<1>. QED  BY <1>1, <1>3, <1>4, <1>5, <1>6, <1>7, <1>8 DEF ShareOK

\* The answer to a share: its miner's id is known, so the plea is taken and an
\* acceptance is accounted; in order, it is the plea of that share.
LEMMA ShareAnswerStep ==
  ASSUME SessionInv, NEW m \in Messages(mode), HandleShareAnswer(m), now' = now
  PROVE  ClientOK' /\ ShareOK'
<1>1. ClientOK /\ ShareOK /\ now \in Nat /\ mode \in Modes
  BY Parts
<1>2. UNCHANGED <<session, current, newjob, state, maxId>>
  BY DEF HandleShareAnswer, clientVars
<1>3. ClientOK'
  BY <1>1, <1>2 DEF ClientOK
<1> DEFINE ok == m.result = "true" \/ (m.result = "stale" /\ mode = ETHEREUMSTRATUM2)
<1>4. PICK k \in DOMAIN shares :
         /\ shares' = RemoveAt(shares, k)
         /\ inOrder' = (inOrder /\ k = 1)
         /\ answered' = [answered EXCEPT ![ok][shares[k].miner] = @ + 1]
         /\ IF FirstShareId + shares[k].miner \in FirstShareId..maxId
            THEN /\ pleas' = Dequeued
                 /\ account' = IF ok THEN OnSolutionAccepted(shares[k].miner) ELSE OnSolutionRejected
            ELSE UNCHANGED <<pleas, account>>
  BY Zenon DEF HandleShareAnswer
<1> DEFINE i == shares[k].miner
<1>5. ok \in BOOLEAN
  OBVIOUS
<1> HIDE DEF ok
<1>6. /\ shares \in Seq(Share) /\ k \in 1..Len(shares) /\ i \in MinerIds /\ Len(shares) \in Nat
  <2>1. shares \in Seq(Share)
    BY <1>1 DEF ShareOK
  <2>2. k \in 1..Len(shares) /\ shares[k] \in Share
    BY <2>1
  <2>. QED  BY <2>1, <2>2 DEF Share
<1>7. /\ shares' \in Seq(Share) /\ Len(shares') = Len(shares) - 1
      /\ \A j \in 1..(Len(shares) - 1) : shares'[j] = IF j < k THEN shares[j] ELSE shares[j + 1]
  BY <1>4, <1>6, RemoveAtFacts
<1>8. FirstShareId + i \in FirstShareId..maxId
  <2>1. FirstShareId + i <= maxId /\ maxId \in Int
    BY <1>1, <1>6 DEF ShareOK, SharesInv
  <2>2. i \in Nat
    BY <1>6, SessionAssumption DEF MinerIds
  <2>. QED  BY <2>1, <2>2 DEF FirstShareId
<1>9. pleas' = Dequeued /\ account' = IF ok THEN OnSolutionAccepted(i) ELSE OnSolutionRejected
  BY <1>4, <1>8
<1>10. SharesInv'
  <2>1. maxId' = maxId /\ maxId >= FirstShareId - 1
    BY <1>1, <1>2 DEF ShareOK, SharesInv
  <2>2. ASSUME NEW j \in 1..Len(shares') PROVE FirstShareId + shares'[j].miner <= maxId
    <3>1. j \in 1..(Len(shares) - 1) /\ j \in 1..Len(shares) /\ j + 1 \in 1..Len(shares)
      BY <1>6, <1>7
    <3>2. shares'[j] \in {shares[j], shares[j + 1]}
      BY <3>1, <1>7
    <3>. QED  BY <3>1, <3>2, <1>1 DEF ShareOK, SharesInv
  <2>. QED  BY <2>1, <2>2 DEF SharesInv
<1>11. answered' \in [BOOLEAN -> [MinerIds -> Nat]]
       /\ \A j \in MinerIds : answered'[TRUE][j] =
            IF ok = TRUE /\ j = i THEN answered[TRUE][j] + 1 ELSE answered[TRUE][j]
  <2>1. answered \in [BOOLEAN -> [MinerIds -> Nat]]
    BY <1>1 DEF ShareOK
  <2>2. answered' = [answered EXCEPT ![ok] = [answered[ok] EXCEPT ![i] = answered[ok][i] + 1]]
    BY <1>4
  <2>3. [answered[ok] EXCEPT ![i] = answered[ok][i] + 1] \in [MinerIds -> Nat]
    BY <2>1, <1>5, <1>6
  <2>. QED  BY <2>1, <2>2, <2>3, <1>5, <1>6
<1>12. account' \in AccountType /\ AccountInv'
  <2>0. account \in AccountType /\ Accounted(account)
        /\ \A j \in MinerIds : account["accepted"][j] = answered[TRUE][j]
    BY <1>1 DEF ShareOK, AccountInv
  <2>1. CASE ok = TRUE
    <3>1. account' = Account(account, i, "accepted")
      BY <2>1, <1>9 DEF OnSolutionAccepted
    <3>2. /\ account' \in AccountType
          /\ account'["accepted"][i] = account["accepted"][i] + 1
          /\ \A j \in MinerIds : j # i => account'["accepted"][j] = account["accepted"][j]
      BY <2>0, <3>1, <1>6, AccountFacts
    <3>3. Accounted(account')
      BY <2>0, <3>1, <1>6, AccountKeepsSum
    <3>4. \A j \in MinerIds : account'["accepted"][j] = answered'[TRUE][j]
      BY <2>0, <2>1, <3>2, <1>6, <1>11
    <3>. QED  BY <3>2, <3>3, <3>4 DEF AccountInv
  <2>2. CASE ok = FALSE
    <3>1. account' = account
      BY <2>2, <1>9 DEF OnSolutionRejected
    <3>2. \A j \in MinerIds : answered'[TRUE][j] = answered[TRUE][j]
      BY <2>2, <1>11
    <3>. QED  BY <2>0, <3>1, <3>2 DEF AccountInv
  <2>. QED  BY <2>1, <2>2, <1>5
<1>13. pleas' \in PleasType
  BY <1>1, <1>9, PleaFacts DEF ShareOK
<1>14. PleasInv'
  <2>1. SUFFICES ASSUME inOrder', state' = "up" PROVE PleasInv'
    BY DEF PleasInv
  <2>2. inOrder /\ k = 1 /\ state = "up"
    BY <2>1, <1>2, <1>4
  <2>3. Len(shares) >= 1 /\ shares # <<>>
    BY <1>6
  <2> DEFINE t == pleas.times
             n == Len(shares)
  <2>4. /\ pleas.count = Len(t)
        /\ session.authorized = TRUE /\ Len(t) = n
        /\ \A j \in 1..n : t[j] = shares[j].at
        /\ \A j \in 1..n : t[j] <= now /\ pleas.older <= t[j]
        /\ \A j, l \in 1..n : j <= l => t[j] <= t[l]
    BY <2>2, <2>3, <1>1 DEF ShareOK, PleasInv, ClientOK, SessionType
  <2>5. t \in Seq(Nat) /\ t # <<>> /\ n \in Nat /\ 1 <= n
    <3>1. t \in Seq(Nat)
      BY <1>1 DEF ShareOK, PleasType
    <3>. QED  BY <3>1, <2>3, <2>4, <1>6, EmptySeq
  <2>6. pleas'.times = Tail(t) /\ pleas'.older = t[1] /\ pleas'.count = n - 1
    <3>1. pleas.count > 0 /\ pleas.count \in Nat
      BY <2>4, <2>5
    <3>. QED  BY <3>1, <2>4, <2>5, <1>1, <1>9, PleaFacts DEF ShareOK
  <2>7. Len(pleas'.times) = n - 1 /\ \A j \in 1..(n - 1) : pleas'.times[j] = t[j + 1]
    BY <2>4, <2>5, <2>6
  <2>8. \A j \in 1..(n - 1) : shares'[j] = shares[j + 1] /\ j + 1 \in 1..n
    BY <2>2, <2>5, <1>7
  <2>9. \A j \in 1..(n - 1) : pleas'.times[j] = shares'[j].at
    BY <2>4, <2>7, <2>8
  <2>10. \A j \in 1..(n - 1) : pleas'.times[j] <= now /\ pleas'.older <= pleas'.times[j]
    <3> SUFFICES ASSUME NEW j \in 1..(n - 1)
                 PROVE  pleas'.times[j] <= now /\ pleas'.older <= pleas'.times[j]
      OBVIOUS
    <3>1. j + 1 \in 1..n /\ 1 \in 1..n /\ 1 <= j + 1
      BY <2>5
    <3>. QED  BY <3>1, <2>4, <2>6, <2>7
  <2>11. \A j, l \in 1..(n - 1) : j <= l => pleas'.times[j] <= pleas'.times[l]
    <3> SUFFICES ASSUME NEW j \in 1..(n - 1), NEW l \in 1..(n - 1), j <= l
                 PROVE  pleas'.times[j] <= pleas'.times[l]
      OBVIOUS
    <3>1. j + 1 \in 1..n /\ l + 1 \in 1..n /\ j + 1 <= l + 1
      BY <2>5
    <3>. QED  BY <3>1, <2>4, <2>7
  <2>12. session'.authorized = TRUE /\ now' = now
    BY <2>4, <1>2
  <2> HIDE DEF t, n
  <2>13. Len(shares') = n - 1
    BY <1>7 DEF n
  <2>. QED  BY <2>6, <2>7, <2>9, <2>10, <2>11, <2>12, <2>13 DEF PleasInv
<1>15. inOrder' \in BOOLEAN /\ maxId' \in Int
  BY <1>1, <1>2, <1>4 DEF ShareOK
<1>. QED  BY <1>3, <1>7, <1>10, <1>11, <1>12, <1>13, <1>14, <1>15 DEF ShareOK

\* A right share of an authorized session is sent: its plea is the newest.
LEMMA SubmitStep ==
  ASSUME SessionInv, NEW i \in MinerIds, SubmitSolution(i)
  PROVE  ShareOK'
<1>1. ClientOK /\ ShareOK /\ now \in Nat
  BY Parts
<1>2. /\ state = "up" /\ state' = state /\ now' = now /\ session' = session
      /\ answered' = answered /\ inOrder' = inOrder
  BY DEF SubmitSolution, clientVars
<1>3. CASE /\ account' = Account(account, i, "failed")
           /\ UNCHANGED <<shares, maxId>> /\ UNCHANGED pleas
  <2>0. account \in AccountType /\ Accounted(account)
        /\ \A j \in MinerIds : account["accepted"][j] = answered[TRUE][j]
    BY <1>1 DEF ShareOK, AccountInv
  <2>1. /\ account' \in AccountType /\ Accounted(account')
        /\ account'["accepted"] = account["accepted"]
    <3>1. /\ account' \in AccountType
          /\ \A w \in {"accepted", "failed"} : w # "failed" => account'[w] = account[w]
      BY <2>0, <1>3, AccountFacts
    <3>2. Accounted(account')
      BY <2>0, <1>3, AccountKeepsSum
    <3>. QED  BY <3>1, <3>2
  <2>2. AccountInv'
    BY <2>0, <2>1, <1>2 DEF AccountInv
  <2>3. PleasInv'
    BY <1>1, <1>2, <1>3 DEF ShareOK, PleasInv
  <2>4. SharesInv'
    BY <1>1, <1>3 DEF ShareOK, SharesInv
  <2>. QED  BY <2>1, <2>2, <2>3, <2>4, <1>1, <1>2, <1>3 DEF ShareOK
<1>4. CASE /\ session.authorized = TRUE
           /\ shares' = Append(shares, [miner |-> i, at |-> now])
           /\ maxId' = MaxShareId(i) /\ pleas' = Enqueued /\ account' = account
  <2> DEFINE n == Len(shares)
             s == [miner |-> i, at |-> now]
  <2>1. s \in Share /\ shares \in Seq(Share)
    BY <1>1 DEF Share, ShareOK
  <2>2. /\ shares' \in Seq(Share) /\ Len(shares') = n + 1 /\ n \in Nat
        /\ \A j \in 1..n : shares'[j] = shares[j]
        /\ shares'[n + 1] = s
    BY <2>1, <1>4
  <2>3. /\ maxId' \in Int /\ maxId' >= maxId /\ maxId' >= FirstShareId + i
    <3>1. maxId \in Int /\ FirstShareId + i \in Int
      BY <1>1, SessionAssumption DEF ShareOK, MinerIds, FirstShareId
    <3>2. \E x \in {maxId, FirstShareId + i} : \A y \in {maxId, FirstShareId + i} : x >= y
      BY <3>1
    <3>3. /\ maxId' \in {maxId, FirstShareId + i}
          /\ \A y \in {maxId, FirstShareId + i} : maxId' >= y
      BY <3>2, <1>4 DEF MaxShareId, Max
    <3>. QED  BY <3>1, <3>3
  <2>4. SharesInv'
    <3>1. maxId >= FirstShareId - 1 /\ maxId \in Int
          /\ \A j \in 1..n : FirstShareId + shares[j].miner <= maxId
      BY <1>1 DEF ShareOK, SharesInv
    <3>2. FirstShareId + i \in Int /\ FirstShareId \in Int
      BY SessionAssumption DEF MinerIds, FirstShareId
    <3>3. ASSUME NEW j \in 1..n PROVE FirstShareId + shares'[j].miner <= maxId'
      <4>0. shares[j] \in Share
        BY <2>1
      <4>1. shares[j].miner \in Int
        BY <4>0, SessionAssumption DEF Share, MinerIds
      <4>. QED  BY <4>1, <3>1, <3>2, <2>2, <2>3 DEF FirstShareId
    <3>4. FirstShareId + shares'[n + 1].miner <= maxId'
      BY <2>2, <2>3, <3>2
    <3>5. \A j \in 1..(n + 1) : FirstShareId + shares'[j].miner <= maxId'
      <4>1. \A j \in 1..(n + 1) : j \in 1..n \/ j = n + 1
        BY <2>2
      <4>. QED  BY <4>1, <3>3, <3>4
    <3>6. maxId' >= FirstShareId - 1
      BY <3>1, <3>2, <2>3
    <3>. QED  BY <3>5, <3>6, <2>2 DEF SharesInv
  <2>5. AccountInv'
    BY <1>1, <1>2, <1>4 DEF ShareOK, AccountInv
  <2>6. pleas' \in PleasType
    BY <1>1, <1>4, PleaFacts DEF ShareOK
  <2>7. PleasInv'
    <3>1. SUFFICES ASSUME inOrder', state' = "up" PROVE PleasInv'
      BY DEF PleasInv
    <3> DEFINE t == pleas.times
    <3>2. /\ pleas.count = Len(t) /\ Len(t) = n
          /\ \A j \in 1..n : t[j] = shares[j].at
          /\ \A j \in 1..n : t[j] <= now /\ pleas.older <= t[j]
          /\ \A j, l \in 1..n : j <= l => t[j] <= t[l]
      BY <3>1, <1>1, <1>2, <1>4 DEF ShareOK, PleasInv
    <3>3. t \in Seq(Nat) /\ pleas.older \in Nat
      BY <1>1 DEF ShareOK, PleasType
    <3>4. /\ pleas'.times = Append(t, now) /\ pleas'.count = n + 1
          /\ pleas'.older = IF n = 0 THEN now ELSE pleas.older
      BY <3>2, <1>1, <1>4, PleaFacts DEF ShareOK
    <3> DEFINE u == pleas'.times
    <3>5. Len(u) = n + 1 /\ u[n + 1] = now /\ \A j \in 1..n : u[j] = t[j]
      BY <3>2, <3>3, <3>4, <1>1
    <3>6. \A j \in 1..(n + 1) : j \in 1..n \/ j = n + 1
      BY <2>2
    <3> HIDE DEF t, u, n, s
    <3>7. \A j \in 1..(n + 1) : u[j] = shares'[j].at
      <4>1. s.at = now
        BY DEF s
      <4>. QED  BY <4>1, <3>2, <3>5, <3>6, <2>2
    <3>8. \A j \in 1..(n + 1) : u[j] <= now
      BY <3>2, <3>5, <3>6, <1>1
    <3>9. \A j \in 1..(n + 1) : pleas'.older <= u[j]
      <4>1. CASE n = 0
        <5>1. \A j \in 1..(n + 1) : j = n + 1
          BY <4>1
        <5>. QED  BY <5>1, <3>4, <3>5, <4>1, <1>1
      <4>2. CASE n # 0
        <5>1. 1 \in 1..n
          BY <4>2, <2>2
        <5>2. t[1] \in Nat
          BY <3>2, <3>3, <5>1
        <5>3. pleas.older <= now
          BY <5>1, <5>2, <3>2, <3>3, <1>1
        <5>4. pleas'.older = pleas.older
          BY <4>2, <3>4
        <5>. QED  BY <5>3, <5>4, <3>2, <3>5, <3>6
      <4>. QED  BY <4>1, <4>2
    <3>10. \A j, l \in 1..(n + 1) : j <= l => u[j] <= u[l]
      <4> SUFFICES ASSUME NEW j \in 1..(n + 1), NEW l \in 1..(n + 1), j <= l
                   PROVE  u[j] <= u[l]
        OBVIOUS
      <4>1. CASE l = n + 1
        BY <4>1, <3>5, <3>8
      <4>2. CASE l \in 1..n
        <5>1. j \in 1..n
          BY <4>2, <2>2
        <5>. QED  BY <4>2, <5>1, <3>2, <3>5
      <4>. QED  BY <4>1, <4>2, <3>6
    <3>11. session'.authorized = TRUE
      BY <1>2, <1>4
    <3>. QED  BY <1>2, <2>2, <3>4, <3>5, <3>7, <3>8, <3>9, <3>10, <3>11 DEF PleasInv, u
  <2>. QED  BY <2>2, <2>3, <2>4, <2>5, <2>6, <2>7, <1>1, <1>2, <1>4 DEF ShareOK
<1>5. session.authorized \in BOOLEAN
  BY <1>1 DEF ClientOK, SessionType
<1>. QED  BY <1>3, <1>4, <1>5 DEF SubmitSolution

-----------------------------------------------------------------------------
(* The steps *)

\* Every handler of a line.
LEMMA HandlersStep ==
  ASSUME SessionInv, NEW m \in Messages(mode), now' = now,
         \/ HandleNotify(m) \/ HandleSet(m) \/ HandleIgnored(m) \/ HandleOther(m)
         \/ HandleAuthorized(m) \/ HandleUnnamedRefusal(m) \/ HandleShareAnswer(m)
  PROVE  ClientOK' /\ ShareOK'
<1>1. ClientOK /\ now \in Nat /\ mode \in Modes /\ TypeOK
  BY Parts DEF SessionInv
<1>2. now' \in Nat /\ now' >= now
  BY <1>1
<1>3. m \in Line
  BY <1>1, LineFacts
<1>4. CASE HandleNotify(m)
  <2>1. session' = session /\ UNCHANGED shareVars /\ UNCHANGED pleas
    BY <1>4 DEF HandleNotify
  <2>2. CASE state' = "crashed" /\ UNCHANGED <<current, newjob>>
    <3>1. ClientOK'
      BY <1>1, <2>1, <2>2 DEF ClientOK
    <3>2. ShareOK'
      BY <1>2, <2>1, <2>2, QuietStep
    <3>. QED  BY <3>1, <3>2
  <2>3. CASE current' = Notify(m).cur /\ newjob' = Notify(m).new /\ UNCHANGED state
    <3>1. /\ current' \in Job /\ newjob' \in BOOLEAN
          /\ \/ /\ current'.ex = current.ex /\ current'.start = current.start
                /\ current'.whole = current.whole
             \/ /\ current'.ex = session.size /\ current'.start = session.nonce
                /\ current'.whole = session.whole
      BY <1>1, <1>3, <2>3, NotifyFacts
    <3>2. ClientOK'
      BY <1>1, <2>1, <2>3, <3>1 DEF ClientOK
    <3>3. ShareOK'
      BY <1>2, <2>1, <2>3, QuietStep
    <3>. QED  BY <3>2, <3>3
  <2>. QED  BY <1>4, <2>2, <2>3 DEF HandleNotify
<1>5. CASE HandleSet(m)
  <2>1. /\ m.kind \in {"set_difficulty", "set_extranonce", "set"}
        /\ session' = SetSession(m) /\ UNCHANGED <<current, newjob, state>>
        /\ UNCHANGED shareVars /\ UNCHANGED pleas
    BY <1>5 DEF HandleSet
  <2>2. /\ session' \in SessionType /\ session'.authorized = session.authorized
        /\ Placed(session'.size, session'.nonce, session'.whole)
    BY <1>1, <2>1, SetSessionFacts DEF ClientOK
  <2>3. ClientOK'
    BY <1>1, <2>1, <2>2 DEF ClientOK
  <2>4. ShareOK'
    BY <1>2, <2>1, <2>2, QuietStep
  <2>. QED  BY <2>3, <2>4
<1>6. CASE HandleIgnored(m) \/ HandleOther(m) \/ HandleUnnamedRefusal(m)
  <2>1. /\ session' = session /\ current' = current /\ newjob' = newjob
        /\ UNCHANGED shareVars /\ UNCHANGED pleas
        /\ state' \in {state, "leaving"}
    BY <1>6 DEF HandleIgnored, HandleOther, HandleUnnamedRefusal, clientVars
  <2>2. ClientOK'
    BY <1>1, <2>1 DEF ClientOK
  <2>3. ShareOK'
    BY <1>2, <2>1, QuietStep
  <2>. QED  BY <2>2, <2>3
<1>7. CASE HandleAuthorized(m)
  BY <1>7, AuthorizedStep
<1>8. CASE HandleShareAnswer(m)
  BY <1>8, ShareAnswerStep
<1>. QED  BY <1>4, <1>5, <1>6, <1>7, <1>8

\* A line, with the job it may bring to PoolManager and the farm.
LEMMA HandleLineStep ==
  ASSUME SessionInv, NEW m \in Messages(mode), HandleLine(m)
  PROVE  SessionInv'
<1>1. /\ TypeOK /\ mode \in Modes /\ wp \in Job /\ farm \in FarmType /\ SegmentsInv
      /\ lines \in Nat /\ events \in Nat /\ now \in Nat
  BY Parts DEF SessionInv
<1>2. /\ mode' = mode /\ now' = now /\ lines' = lines - 1 /\ lines > 0 /\ events' = events + 1
      /\ \/ HandleNotify(m) \/ HandleSet(m) \/ HandleIgnored(m) \/ HandleOther(m)
         \/ HandleAuthorized(m) \/ HandleUnnamedRefusal(m) \/ HandleShareAnswer(m)
  BY DEF HandleLine
<1>3. ClientOK' /\ ShareOK'
  BY <1>2, HandlersStep
<1>4. /\ mode' \in Modes /\ now' \in Nat /\ lines' \in Nat /\ events' \in Nat
  BY <1>1, <1>2
<1>5. Placed(session'.size, session'.nonce, session'.whole) /\ Placed(current'.ex, current'.start, current'.whole) /\ current' \in Job
  BY <1>3 DEF ClientOK
<1>6. CASE UNCHANGED <<wp, farm>>
  <2>1. SegmentsInv'
    BY <1>1, <1>5, <1>6 DEF SegmentsInv
  <2>. QED  BY <1>1, <1>3, <1>4, <1>6, <2>1, PartsNext
<1>7. CASE /\ wp' = OnWorkReceived(current')
           /\ \E n \in Scramblers(current') : farm' = SetWork(current', n)
  <2>1. PICK n \in Scramblers(current') : farm' = SetWork(current', n)
    BY <1>7
  <2>2. n \in Nat
    BY <1>1, SessionAssumption DEF Scramblers, FarmType
  <2>3. wp' \in Job /\ wp'.ex = current'.ex /\ wp'.start = current'.start /\ wp'.whole = current'.whole
    BY <1>1, <1>5, <1>7, OnWorkReceivedFacts
  <2>4. Miners * 2 ^ farm.width <= NonceSpace
    BY <1>1 DEF SegmentsInv
  <2>5. /\ farm' \in FarmType
        /\ Miners * 2 ^ farm'.width <= NonceSpace
        /\ \E base \in Nat :
             /\ \A i \in MinerIds : farm'.start[i] = (base + i * 2 ^ farm'.width) % NonceSpace
             /\ current'.ex > 0 => base = current'.start
        /\ current'.ex > 0 => Miners * 2 ^ farm'.width <= Room(current'.ex)
    BY <1>1, <1>5, <2>1, <2>2, <2>4, SetWorkFacts
  <2>6. SegmentsInv'
    BY <1>5, <2>3, <2>5 DEF SegmentsInv
  <2>. QED  BY <1>3, <1>4, <2>3, <2>5, <2>6, PartsNext
<1>. QED  BY <1>6, <1>7 DEF HandleLine

\* The invariant after startSession.
LEMMA SessionInit == Init => SessionInv
<1> SUFFICES ASSUME Init PROVE SessionInv
  OBVIOUS
<1>1. Miners \in Nat \ {0} /\ NonceNibbles \in Nat \ {0} /\ Places \subseteq Nat
  BY SessionAssumption
<1>2. mode \in Modes /\ lines \in Nat /\ events \in Nat /\ now \in Nat /\ now = 0
  BY DEF Init
<1>3. /\ current \in Job /\ wp \in Job /\ current.ex = 0 /\ current.start = 0 /\ wp = current
      /\ current.whole = TRUE
  BY DEF Init, Job, NoJob, Default
<1>4. Placed(0, 0, TRUE)
  <2>1. 0 \in Nat /\ 0 <= NonceNibbles
    BY <1>1
  <2>2. Room(0) = NonceSpace /\ NonceSpace \in Nat
    <3>1. 4 * (NonceNibbles - 0) = 4 * NonceNibbles
      BY <1>1
    <3>2. NonceSpace \in Nat
      BY <2>1, RoomFacts
    <3>. QED  BY <3>1, <3>2 DEF Room, NonceSpace
  <2>3. Miners <= Room(0)
    <3>1. Miners * 2 ^ (2 * NonceNibbles) <= NonceSpace
      BY DefaultWidth
    <3> DEFINE w == 2 ^ (2 * NonceNibbles)
    <3>2. w \in Nat /\ w >= 1
      <4>1. 2 * NonceNibbles \in Nat
        BY <1>1
      <4>. QED  BY <4>1, PowPos
    <3> HIDE DEF w
    <3>3. Miners * (w - 1) >= 0
      BY <1>1, <3>2
    <3>4. Miners * (w - 1) = Miners * w - Miners
      BY <1>1, <3>2
    <3>5. Miners * w <= NonceSpace /\ Miners * w \in Nat
      BY <1>1, <3>1, <3>2 DEF w
    <3>. QED  BY <1>1, <2>2, <3>3, <3>4, <3>5
  <2>4. 0 < 2 ^ (4 * 0) /\ 0 = 0 * Room(0)
    <3>1. 2 ^ (4 * 0) = 1
      OBVIOUS
    <3>. QED  BY <3>1, <2>2
  <2>. QED  BY <2>1, <2>3, <2>4 DEF Placed
<1>5. session \in SessionType /\ session.size = 0 /\ session.nonce = 0 /\ session.whole = TRUE
      /\ session.authorized = (mode = ETHPROXY)
  BY DEF Init, SessionType, Default
<1>6. ClientOK
  BY <1>3, <1>4, <1>5 DEF Init, ClientOK
<1>7. farm \in FarmType /\ SegmentsInv
  <2> DEFINE h == 2 * NonceNibbles
  <2>1. PICK n \in Places :
          farm = [scrambler |-> n, width |-> h,
                  start |-> [i \in MinerIds |-> (n + i * 2 ^ h) % NonceSpace]]
    BY DEF Init
  <2>2. n \in Nat /\ h \in Nat
    BY <1>1
  <2>3. 2 ^ h \in Nat /\ NonceSpace \in Nat \ {0}
    <3>1. 0 \in Nat /\ 0 <= NonceNibbles
      BY <1>1
    <3>. QED  BY <2>2, <3>1, PowPos, RoomFacts
  <2>4. Miners * 2 ^ h <= NonceSpace
    BY DefaultWidth
  <2> HIDE DEF h
  <2>5. \A i \in MinerIds : (n + i * 2 ^ h) % NonceSpace \in Nat
    <3> SUFFICES ASSUME NEW i \in MinerIds PROVE (n + i * 2 ^ h) % NonceSpace \in Nat
      OBVIOUS
    <3>1. i \in Nat
      BY <1>1 DEF MinerIds
    <3>2. i * 2 ^ h \in Nat
      BY <2>3, <3>1
    <3>3. n + i * 2 ^ h \in Nat
      BY <2>2, <3>2
    <3>. QED  BY <2>3, <3>3
  <2>6. farm \in FarmType /\ farm.width = h
    BY <2>1, <2>2, <2>5 DEF FarmType
  <2>7. \A i \in MinerIds : farm.start[i] = (n + i * 2 ^ farm.width) % NonceSpace
    BY <2>1, <2>6
  <2>8. ~(wp.ex > 0) /\ wp.ex = 0 /\ wp.start = 0
    BY <1>3
  <2>. QED  BY <1>3, <1>4, <1>5, <2>2, <2>4, <2>6, <2>7, <2>8 DEF SegmentsInv
<1>8. /\ pleas \in PleasType /\ shares \in Seq(Share) /\ shares = <<>>
      /\ inOrder \in BOOLEAN /\ maxId \in Int /\ maxId = FirstShareId - 1
      /\ answered \in [BOOLEAN -> [MinerIds -> Nat]] /\ account \in AccountType
  BY DEF Init, PleasType, AccountType, FirstShareId
<1>9. SharesInv
  BY <1>8 DEF SharesInv, FirstShareId
<1>10. PleasInv
  <2>1. CASE mode = ETHPROXY
    <3>1. /\ pleas.times = <<>> /\ pleas.count = 0 /\ shares = <<>> /\ session.authorized = TRUE
      BY <2>1, <1>5, <1>8 DEF Init
    <3>2. Len(<<>>) = 0 /\ 1..0 = {}
      OBVIOUS
    <3>. QED  BY <3>1, <3>2 DEF PleasInv
  <2>2. CASE mode # ETHPROXY
    <3>1. /\ pleas.times = <<0>> /\ pleas.count = 1 /\ shares = <<>> /\ session.authorized = FALSE
          /\ pleas.older = 0
      BY <2>2, <1>5, <1>8 DEF Init
    <3>2. Len(<<0>>) = 1 /\ \A k \in 1..1 : <<0>>[k] = 0
      OBVIOUS
    <3>. QED  BY <3>1, <3>2, <1>2 DEF PleasInv
  <2>. QED  BY <2>1, <2>2
<1>11. AccountInv
  <2>1. \A w \in {"accepted", "failed"} : \A i \in 0..Miners : account[w][i] = 0
    BY DEF Init
  <2>2. Miners \in 0..Miners /\ MinerIds \subseteq 0..Miners
    BY <1>1 DEF MinerIds
  <2>3. \A w \in {"accepted", "failed"} : account[w] \in [0..Miners -> Nat]
    BY <1>8 DEF AccountType
  <2>4. \A w \in {"accepted", "failed"} : SumOfMiners(account[w]) = 0
    BY <2>1, <2>2, <2>3, SumOfMinersFacts
  <2>5. \A i \in MinerIds : answered[TRUE][i] = 0
    BY DEF Init
  <2>. QED  BY <2>1, <2>2, <2>4, <2>5 DEF AccountInv, Accounted
<1>12. ShareOK
  BY <1>8, <1>9, <1>10, <1>11 DEF ShareOK
<1>. QED  BY <1>2, <1>3, <1>6, <1>7, <1>12, Parts

\* Every step keeps the invariant.
LEMMA SessionStep == SessionInv /\ [Next]_sessionVars => SessionInv'
<1> SUFFICES ASSUME SessionInv, [Next]_sessionVars PROVE SessionInv'
  OBVIOUS
<1>1. /\ ClientOK /\ ShareOK /\ mode \in Modes /\ wp \in Job /\ farm \in FarmType
      /\ lines \in Nat /\ events \in Nat /\ now \in Nat /\ SegmentsInv
  BY Parts
<1>2. CASE Receive
  <2>1. /\ UNCHANGED <<mode, session, current, wp, farm, now, state, events>>
        /\ UNCHANGED shareVars /\ UNCHANGED pleas /\ newjob' = FALSE
        /\ \E k \in 1..Min({3, MaxEvents - events}) : lines' = k
    BY <1>2 DEF Receive
  <2>2. lines' \in Nat
    BY <2>1
  <2>3. ClientOK' /\ SegmentsInv'
    BY <1>1, <2>1 DEF ClientOK, SegmentsInv
  <2>4. now' \in Nat /\ now' >= now
    BY <1>1, <2>1
  <2>5. ShareOK'
    BY <2>1, <2>4, QuietStep
  <2>. QED  BY <1>1, <2>1, <2>2, <2>3, <2>4, <2>5, PartsNext
<1>3. CASE \E m \in Messages(mode) : HandleLine(m)
  BY <1>3, HandleLineStep
<1>4. CASE \E i \in MinerIds : SubmitSolution(i)
  <2>1. PICK i \in MinerIds : SubmitSolution(i)
    BY <1>4
  <2>2. ShareOK'
    BY <2>1, SubmitStep
  <2>3. /\ UNCHANGED <<mode, lines, wp, farm, now, state, session, current, newjob>>
        /\ events' = events + 1
    BY <2>1 DEF SubmitSolution, clientVars
  <2>4. ClientOK' /\ SegmentsInv'
    BY <1>1, <2>3 DEF ClientOK, SegmentsInv
  <2>. QED  BY <1>1, <2>2, <2>3, <2>4, PartsNext
<1>5. CASE \E n \in Places : Shuffle(n)
  <2>1. PICK n \in Places : Shuffle(n)
    BY <1>5
  <2>2. /\ UNCHANGED <<mode, wp, lines, now, state, session, current, newjob>>
        /\ farm' = [farm EXCEPT !.scrambler = n] /\ events' = events + 1
        /\ UNCHANGED shareVars /\ UNCHANGED pleas
    BY <2>1 DEF Shuffle, clientVars
  <2>3. n \in Nat
    BY SessionAssumption
  <2>4. farm' \in FarmType /\ farm'.width = farm.width /\ farm'.start = farm.start
    BY <1>1, <2>2, <2>3 DEF FarmType
  <2>5. ClientOK' /\ SegmentsInv'
    BY <1>1, <2>2, <2>4 DEF ClientOK, SegmentsInv
  <2>6. now' \in Nat /\ now' >= now
    BY <1>1, <2>2
  <2>7. ShareOK'
    BY <2>2, <2>6, QuietStep
  <2>. QED  BY <1>1, <2>2, <2>4, <2>5, <2>7, PartsNext
<1>6. CASE Tick
  <2>1. /\ UNCHANGED <<mode, wp, farm, lines, state, events, session, current, newjob>>
        /\ now' = now + 1 /\ UNCHANGED shareVars /\ UNCHANGED pleas
    BY <1>6 DEF Tick, clientVars
  <2>2. ClientOK' /\ SegmentsInv'
    BY <1>1, <2>1 DEF ClientOK, SegmentsInv
  <2>3. now' \in Nat /\ now' >= now
    BY <1>1, <2>1
  <2>4. ShareOK'
    BY <2>1, <2>3, QuietStep
  <2>. QED  BY <1>1, <2>1, <2>2, <2>3, <2>4, PartsNext
<1>7. CASE UNCHANGED sessionVars
  <2>1. /\ UNCHANGED <<mode, wp, farm, lines, state, events, session, current, newjob, now>>
        /\ UNCHANGED shareVars /\ UNCHANGED pleas
    BY <1>7 DEF sessionVars, shareVars
  <2>2. ClientOK' /\ SegmentsInv'
    BY <1>1, <2>1 DEF ClientOK, SegmentsInv
  <2>3. now' \in Nat /\ now' >= now
    BY <1>1, <2>1
  <2>4. ShareOK'
    BY <2>1, <2>3, QuietStep
  <2>. QED  BY <1>1, <2>1, <2>2, <2>3, <2>4, PartsNext
<1>. QED  BY <1>2, <1>3, <1>4, <1>5, <1>6, <1>7 DEF Next

\* The invariant of a session.
THEOREM SessionInvariant == Spec => []SessionInv
<1>1. Init => SessionInv
  BY SessionInit
<1>2. SessionInv /\ [Next]_sessionVars => SessionInv'
  BY SessionStep
<1>. QED  BY <1>1, <1>2, PTL DEF Spec

\* Whatever lines the pool sends (with extra nonces short enough to leave a
\* nonce per miner), convertible or not, and wherever the search was moved to,
\* no two miners search the same nonce; and for a job that came after an extra
\* nonce that was all digits none leaves the nonces the pool assigned
\* (Farm::setWork, processExtranonce).
THEOREM SessionSegmentsApart == Spec => []SegmentsApartWithinExtranonce
<1>1. SessionInv => SegmentsApartWithinExtranonce
  BY SegmentsFollow DEF SessionInv
<1>. QED  BY <1>1, SessionInvariant, PTL

\* While the pool answers in order, the delay the work loop measures is never
\* less than that of the oldest unanswered request (dequeue_response_plea).
THEOREM SessionOldestPleaNotLater == Spec => []OldestPleaNotLater
<1>1. SessionInv => OldestPleaNotLater
  <2> SUFFICES ASSUME SessionInv, inOrder, state = "up"
               PROVE  /\ pleas.count = Len(shares) + IF session.authorized THEN 0 ELSE 1
                      /\ pleas.count > 0 => \A k \in DOMAIN shares : pleas.older <= shares[k].at
    BY DEF OldestPleaNotLater
  <2>1. ClientOK /\ ShareOK
    BY Parts
  <2>2. session.authorized \in BOOLEAN /\ shares \in Seq(Share)
    BY <2>1 DEF ClientOK, SessionType, ShareOK
  <2>3. DOMAIN shares = 1..Len(shares) /\ Len(shares) \in Nat
    BY <2>2
  <2>4. CASE session.authorized = TRUE
    <3>1. /\ pleas.count = Len(shares)
          /\ \A k \in 1..Len(shares) : pleas.older <= shares[k].at
      BY <2>1, <2>4 DEF ShareOK, PleasInv
    <3>2. (IF session.authorized THEN 0 ELSE 1) = 0
      BY <2>4
    <3>3. \A k \in DOMAIN shares : pleas.older <= shares[k].at
      BY <2>3, <3>1
    <3>4. pleas.count = Len(shares) + 0
      BY <2>3, <3>1
    <3>. QED  BY <3>2, <3>3, <3>4, Zenon
  <2>5. CASE session.authorized = FALSE
    <3>1. pleas.count = 1 /\ shares = <<>>
      BY <2>1, <2>5 DEF ShareOK, PleasInv
    <3>2. Len(shares) = 0 /\ DOMAIN shares = {}
      BY <3>1
    <3>. QED  BY <2>5, <3>1, <3>2
  <2>. QED  BY <2>2, <2>4, <2>5
<1>. QED  BY <1>1, SessionInvariant, PTL

\* Each acceptance the pool sent, in whatever order, is in the account of its
\* miner and, summed over the miners, in the farm's (accountSolution).
THEOREM SessionAcceptancesAccounted == Spec => []AcceptancesAccounted
<1>1. SessionInv => AcceptancesAccounted
  <2> SUFFICES ASSUME SessionInv PROVE AcceptancesAccounted
    OBVIOUS
  <2>1. account \in AccountType /\ AccountInv
    BY Parts DEF ShareOK
  <2>. QED  BY <2>1, AccountedIs DEF AccountInv
<1>. QED  BY <1>1, SessionInvariant, PTL

=============================================================================
