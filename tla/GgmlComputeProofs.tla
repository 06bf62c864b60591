--------------------------- MODULE GgmlComputeProofs ---------------------------
(***************************************************************************)
(* The threads of ggml_graph_compute never disturb each other, and what    *)
(* they do together is an evaluation of the graph in order.  The proof is  *)
(* in two layers: the hand-over through n_active and node_n, which speaks  *)
(* of no data, and on top of it what the nodes and the work buffer hold.   *)
(* Both rest on what the kernels of one node owe to each other, for every  *)
(* number of threads and every shape: no unit of the destination is given  *)
(* to two threads, every unit to one, and the scratch areas in the work    *)
(* buffer neither overlap nor exceed what the plan adds up.                *)
(***************************************************************************)
EXTENDS GgmlCompute, TLAPS, WellFoundedInduction, FiniteSetTheorems

-----------------------------------------------------------------------------
(* Quotients, blocks and rests.                                            *)

\* Numbers have a least one among them.
LEMMA Minimum ==
  ASSUME NEW S \in SUBSET Nat, S # {}
  PROVE  \E m \in S : \A n \in S : m <= n
<1> DEFINE below == {ss \in Nat \X Nat : ss[1] < ss[2]}
<1>1. OpToRel(<, Nat) = below
  BY DEF OpToRel
<1>2. IsWellFoundedOn(below, Nat)
  BY <1>1, NatLessThanWellFounded, Zenon
<1>3. \E m \in S : \A n \in S : ~(<<n, m>> \in below)
  <2> HIDE DEF below
  <2> QED
    BY <1>2, WFMin
<1>4. \A m, n \in S : ~(<<n, m>> \in below) => m <= n
  OBVIOUS
<1> HIDE DEF below
<1> QED
  BY <1>3, <1>4

\* A number is its quotient and remainder.
LEMMA DivBounds ==
  ASSUME NEW a \in Nat, NEW b \in Nat \ {0}
  PROVE  /\ a \div b \in Nat /\ b * (a \div b) <= a /\ a < b * (a \div b) + b
         /\ a % b \in 0 .. b - 1 /\ a = b * (a \div b) + (a % b)
  OBVIOUS

\* One more of the same is at most the next multiple.
LEMMA MulMono ==
  ASSUME NEW a \in Nat, NEW s \in Nat, NEW t \in Nat, s < t
  PROVE  a * s + a <= a * t
<1>1. a * (t - s - 1) \in Nat /\ a * t = a * (t - s - 1) + a * s + a
  OBVIOUS
<1> QED BY <1>1

\* ggml rounds the rows per thread up: n of the quotients reach m.
LEMMA RoundedUp ==
  ASSUME NEW m \in Nat, NEW n \in Nat \ {0}
  PROVE  (m + n - 1) \div n \in Nat /\ m <= n * ((m + n - 1) \div n)
<1> DEFINE a == m + n - 1
           d == a \div n
<1>1. a \in Nat
  OBVIOUS
<1>a. a = m + n - 1
  OBVIOUS
<1> HIDE DEF a
<1>2. d \in Nat /\ a < n * d + n /\ n * d \in Nat
  BY <1>1, DivBounds
<1> QED
  <2> HIDE DEF d
  <2>1. m <= n * d
    BY <1>1, <1>2, <1>a
  <2> QED
    BY <2>1, <1>2 DEF a, d

\* A row index in its block.
LEMMA InBlock ==
  ASSUME NEW d \in Nat, NEW n \in Nat \ {0}, NEW i \in Nat, i < n * d
  PROVE  \E t \in 0 .. n - 1 : d * t <= i /\ i < d * t + d
<1>1. d \in Nat \ {0}
  OBVIOUS
<1> DEFINE t == i \div d
<1>2. t \in Nat /\ d * t <= i /\ i < d * t + d
  BY <1>1, DivBounds
<1> HIDE DEF t
<1>3. t < n
  <2> SUFFICES ASSUME ~(t < n) PROVE FALSE
    OBVIOUS
  <2>1. CASE t = n
    BY <1>1, <1>2, <2>1
  <2>2. CASE n < t
    <3>1. d * n + d <= d * t
      BY <1>1, <1>2, <2>2, MulMono
    <3> QED
      BY <1>1, <1>2, <3>1
  <2> QED
    BY <1>2, <2>1, <2>2
<1> QED
  BY <1>2, <1>3

\* Blocks of the same length, at multiples of it, do not meet.
LEMMA BlocksApart ==
  ASSUME NEW d \in Nat, NEW s \in Nat, NEW t \in Nat, s # t, NEW i \in Nat,
         d * s <= i, i < d * s + d, d * t <= i, i < d * t + d
  PROVE  FALSE
<1>1. d * s \in Nat /\ d * t \in Nat /\ (d * s + d <= d * t \/ d * t + d <= d * s)
  BY MulMono
<1> QED
  BY <1>1

\* Two multiples less than n apart, with one rest, are the same.
LEMMA SameRest ==
  ASSUME NEW n \in Nat \ {0}, NEW s \in 0 .. n - 1, NEW t \in 0 .. n - 1, NEW i \in Nat,
         s <= i, (i - s) % n = 0, t <= i, (i - t) % n = 0
  PROVE  s = t
<1> DEFINE p == (i - s) \div n
           q == (i - t) \div n
<1>1. i - s \in Nat /\ i - t \in Nat
  OBVIOUS
<1>2. p \in Nat /\ i - s = n * p
  <2> DEFINE a == i - s
  <2>1. a \in Nat /\ a % n = 0
    BY <1>1
  <2> HIDE DEF a
  <2>2. a \div n \in Nat /\ a = n * (a \div n) + (a % n)
    BY <2>1, DivBounds
  <2>3. a = n * (a \div n)
    BY <2>1, <2>2
  <2> QED
    BY <2>2, <2>3 DEF a
<1>3. q \in Nat /\ i - t = n * q
  <2> DEFINE a == i - t
  <2>1. a \in Nat /\ a % n = 0
    BY <1>1
  <2> HIDE DEF a
  <2>2. a \div n \in Nat /\ a = n * (a \div n) + (a % n)
    BY <2>1, DivBounds
  <2>3. a = n * (a \div n)
    BY <2>1, <2>2
  <2> QED
    BY <2>2, <2>3 DEF a
<1> HIDE DEF p, q
<1>4. n * p \in Nat /\ n * q \in Nat /\ n * p + s = n * q + t
  BY <1>1, <1>2, <1>3
<1>5. CASE p < q
  <2>1. n * p + n <= n * q
    BY <1>2, <1>3, <1>5, MulMono
  <2> QED
    BY <1>4, <2>1
<1>6. CASE q < p
  <2>1. n * q + n <= n * p
    BY <1>2, <1>3, <1>6, MulMono
  <2> QED
    BY <1>4, <2>1
<1> QED
  BY <1>2, <1>3, <1>4, <1>5, <1>6

\* A number below n is its own rest.
LEMMA OwnRest ==
  ASSUME NEW n \in Nat \ {0}, NEW i \in Nat
  PROVE  \E t \in 0 .. n - 1 : t <= i /\ (i - t) % n = 0
<1> DEFINE q == i \div n
           t == i % n
<1>1. q \in Nat /\ t \in 0 .. n - 1 /\ i = n * q + t
  BY DivBounds
<1> HIDE DEF q, t
<1>2. n * q \in Nat /\ i - t = n * q /\ t <= i
  BY <1>1
<1>3. (n * q) % n = 0
  <2> DEFINE a == n * q
  <2>1. a \in Nat /\ a = n * q
    BY <1>1
  <2> HIDE DEF a
  <2>2. a \div n \in Nat /\ a % n \in 0 .. n - 1 /\ a = n * (a \div n) + (a % n)
    BY <2>1, DivBounds
  <2> DEFINE r == a % n
             c == a \div n
  <2>3. r \in 0 .. n - 1 /\ c \in Nat /\ n * q = n * c + r
    BY <2>1, <2>2
  <2> HIDE DEF r, c
  <2>4. c = q
    <3>1. CASE c < q
      <4>1. n * c + n <= n * q
        BY <1>1, <2>3, <3>1, MulMono
      <4> QED
        BY <1>2, <2>3, <4>1
    <3>2. CASE q < c
      <4>1. n * q + n <= n * c
        BY <1>1, <2>3, <3>2, MulMono
      <4> QED
        BY <1>2, <2>3, <4>1
    <3> QED
      BY <1>1, <2>3, <3>1, <3>2
  <2>5. r = 0
    BY <1>2, <2>3, <2>4
  <2> QED
    BY <2>5 DEF r, a
<1> QED
  BY <1>1, <1>2, <1>3

\* Threads that take blocks of rows take different rows ...
LEMMA BlockApart ==
  ASSUME NEW n \in Nat \ {0}, NEW s \in 0 .. n - 1, NEW t \in 0 .. n - 1, s # t,
         NEW x, x.nr \in Nat, x.n1 \in Nat
  PROVE  Block(s, n, x) \cap Block(t, n, x) = {}
<1> DEFINE dr == (x.nr + n - 1) \div n
<1>1. dr \in Nat
  BY RoundedUp
<1>2. ASSUME NEW u \in Block(s, n, x), u \in Block(t, n, x)
      PROVE  FALSE
  <2>1. u[1] \in Nat
    BY <1>2 DEF Block, Units
  <2>2. /\ dr * s <= u[1] /\ u[1] < MIN(dr * s + dr, x.nr)
        /\ dr * t <= u[1] /\ u[1] < MIN(dr * t + dr, x.nr)
    BY <1>2 DEF Block
  <2> HIDE DEF dr
  <2>3. dr * s \in Nat /\ dr * t \in Nat
    BY <1>1
  <2>4. u[1] < dr * s + dr /\ u[1] < dr * t + dr
    BY <1>1, <2>1, <2>2, <2>3 DEF MIN
  <2> QED
    BY <1>1, <2>1, <2>2, <2>4, BlocksApart
<1> QED
  BY <1>2

\* ... and leave none.
LEMMA BlockCovers ==
  ASSUME NEW n \in Nat \ {0}, NEW x, x.nr \in Nat, x.n1 \in Nat, NEW u \in Units(x)
  PROVE  \E t \in 0 .. n - 1 : u \in Block(t, n, x)
<1> DEFINE dr == (x.nr + n - 1) \div n
<1>1. u[1] \in Nat /\ u[1] < x.nr
  BY DEF Units
<1>2. dr \in Nat /\ x.nr <= n * dr
  BY RoundedUp
<1> HIDE DEF dr
<1>3. PICK t \in 0 .. n - 1 : dr * t <= u[1] /\ u[1] < dr * t + dr
  <2>1. n * dr \in Nat /\ u[1] < n * dr
    BY <1>1, <1>2
  <2> QED
    BY <1>1, <1>2, <2>1, InBlock
<1>4. u[1] < MIN(dr * t + dr, x.nr)
  BY <1>1, <1>3 DEF MIN
<1> QED
  BY <1>3, <1>4 DEF Block, dr

\* Threads that take every n-th row take different rows ...
LEMMA StrideApart ==
  ASSUME NEW n \in Nat \ {0}, NEW s \in 0 .. n - 1, NEW t \in 0 .. n - 1, s # t,
         NEW x, x.nr \in Nat, x.n1 \in Nat
  PROVE  Stride(s, n, x) \cap Stride(t, n, x) = {}
<1>1. \A u \in Units(x) : u[1] \in Nat
  BY DEF Units
<1> QED
  BY <1>1, SameRest DEF Stride

\* ... and leave none.
LEMMA StrideCovers ==
  ASSUME NEW n \in Nat \ {0}, NEW x, x.nr \in Nat, x.n1 \in Nat, NEW u \in Units(x)
  PROVE  \E t \in 0 .. n - 1 : u \in Stride(t, n, x)
<1>1. u[1] \in Nat
  BY DEF Units
<1>2. PICK t \in 0 .. n - 1 : t <= u[1] /\ (u[1] - t) % n = 0
  BY <1>1, OwnRest
<1> QED
  BY <1>2 DEF Stride

Rank(rows, i) == Cardinality({j \in rows : j < i})

\* The rows that are routed to a matrix are counted without gaps.
LEMMA Ranks ==
  ASSUME NEW n \in Nat, NEW rows \in SUBSET (0 .. n - 1)
  PROVE  /\ Cardinality(rows) \in Nat
         /\ \A i \in rows : Rank(rows, i) \in Nat /\ Rank(rows, i) < Cardinality(rows)
<1>1. IsFiniteSet(rows)
  <2>1. IsFiniteSet(0 .. n - 1)
    BY FS_Interval
  <2> QED
    BY <2>1, FS_Subset
<1>2. Cardinality(rows) \in Nat
  BY <1>1, FS_CardinalityType
<1>3. ASSUME NEW i \in rows
      PROVE  Rank(rows, i) \in Nat /\ Rank(rows, i) < Cardinality(rows)
  <2> DEFINE below == {j \in rows : j < i}
  <2>1. below \subseteq rows /\ below # rows
    OBVIOUS
  <2>2. IsFiniteSet(below) /\ Cardinality(below) <= Cardinality(rows)
        /\ (Cardinality(below) = Cardinality(rows) => below = rows)
    BY <1>1, <2>1, FS_Subset
  <2>3. Cardinality(below) \in Nat
    BY <2>2, FS_CardinalityType
  <2> QED
    BY <1>2, <2>1, <2>2, <2>3 DEF Rank
<1> QED
  BY <1>2, <1>3

\* The two ways a product is split.
LEMMA ChunkSplit ==
  ASSUME NEW n \in Nat \ {0}, NEW t \in 0 .. n - 1, NEW x, x.nr \in Nat, x.n1 \in Nat,
         NEW rows \in SUBSET (0 .. x.n1 - 1), NEW u \in Units(x)
  PROVE  LET nr1 == Cardinality(rows)
             d0 == (x.nr + n - 1) \div n
             d1 == (nr1 + n - 1) \div n
         IN  u \in Chunk(t, n, x, rows) <=>
               /\ u[2] \in rows
               /\ IF x.nr > nr1 THEN d0 * t <= u[1] /\ u[1] < d0 * t + d0
                  ELSE d1 * t <= Rank(rows, u[2]) /\ Rank(rows, u[2]) < d1 * t + d1
<1> DEFINE nr1 == Cardinality(rows)
           d0 == (x.nr + n - 1) \div n
           d1 == (nr1 + n - 1) \div n
<1>1. nr1 \in Nat /\ \A i \in rows : Rank(rows, i) \in Nat /\ Rank(rows, i) < nr1
  BY Ranks
<1>2. u[1] \in Nat /\ u[1] < x.nr
  BY DEF Units
<1>3. d0 \in Nat /\ d1 \in Nat
  BY <1>1, RoundedUp
<1>4. t % n = t /\ t \div n = 0 /\ t % 1 = 0 /\ t \div 1 = t
  <2>1. t \div n = 0
    <3>1. t \div n \in Nat /\ n * (t \div n) <= t
      BY DivBounds
    <3> DEFINE q == t \div n
    <3>2. q \in Nat /\ n * q <= t
      BY <3>1
    <3> HIDE DEF q
    <3>3. CASE 0 < q
      <4>1. n * 0 + n <= n * q
        BY <3>2, <3>3, MulMono
      <4> QED
        BY <3>2, <4>1
    <3> QED
      BY <3>2, <3>3 DEF q
  <2> QED
    BY <2>1
<1>5. (x.nr + 1 - 1) \div 1 = x.nr /\ (nr1 + 1 - 1) \div 1 = nr1
  BY <1>1
<1>6. CASE x.nr > nr1
  <2>1. u \in Chunk(t, n, x, rows) <=>
          /\ u[2] \in rows
          /\ d0 * t <= u[1] /\ u[1] < MIN(d0 * t + d0, x.nr)
          /\ nr1 * 0 <= Rank(rows, u[2])
          /\ Rank(rows, u[2]) < MIN(nr1 * 0 + nr1, nr1)
    BY <1>4, <1>5, <1>6 DEF Chunk, Rank
  <2>2. u[2] \in rows => nr1 * 0 <= Rank(rows, u[2]) /\ Rank(rows, u[2]) < MIN(nr1 * 0 + nr1, nr1)
    <3>1. ASSUME NEW r \in Nat, r < nr1
          PROVE  nr1 * 0 <= r /\ r < MIN(nr1 * 0 + nr1, nr1)
      <4> HIDE DEF nr1
      <4> QED
        BY <1>1, <3>1 DEF MIN
    <3> QED
      BY <1>1, <3>1
  <2>3. u[1] < MIN(d0 * t + d0, x.nr) <=> u[1] < d0 * t + d0
    <3> HIDE DEF d0
    <3>1. d0 * t \in Nat
      BY <1>3
    <3> QED
      BY <1>2, <1>3, <3>1 DEF MIN
  <2> QED
    BY <1>6, <2>1, <2>2, <2>3
<1>7. CASE ~(x.nr > nr1)
  <2>1. u \in Chunk(t, n, x, rows) <=>
          /\ u[2] \in rows
          /\ x.nr * 0 <= u[1] /\ u[1] < MIN(x.nr * 0 + x.nr, x.nr)
          /\ d1 * t <= Rank(rows, u[2])
          /\ Rank(rows, u[2]) < MIN(d1 * t + d1, nr1)
    BY <1>4, <1>5, <1>7 DEF Chunk, Rank
  <2>2. x.nr * 0 <= u[1] /\ u[1] < MIN(x.nr * 0 + x.nr, x.nr)
    BY <1>2 DEF MIN
  <2>3. u[2] \in rows => (Rank(rows, u[2]) < MIN(d1 * t + d1, nr1) <=> Rank(rows, u[2]) < d1 * t + d1)
    <3>1. ASSUME NEW r \in Nat, r < nr1
          PROVE  r < MIN(d1 * t + d1, nr1) <=> r < d1 * t + d1
      <4> HIDE DEF d1, nr1
      <4>1. d1 * t \in Nat
        BY <1>3
      <4> QED
        BY <1>1, <1>3, <3>1, <4>1 DEF MIN
    <3> QED
      BY <1>1, <3>1
  <2> QED
    BY <1>7, <2>1, <2>2, <2>3
<1> QED
  BY <1>6, <1>7

\* Threads that take chunks of a product take different parts ...
LEMMA ChunkApart ==
  ASSUME NEW n \in Nat \ {0}, NEW s \in 0 .. n - 1, NEW t \in 0 .. n - 1, s # t,
         NEW x, x.nr \in Nat, x.n1 \in Nat, NEW rows \in SUBSET (0 .. x.n1 - 1)
  PROVE  Chunk(s, n, x, rows) \cap Chunk(t, n, x, rows) = {}
<1> DEFINE nr1 == Cardinality(rows)
           d0 == (x.nr + n - 1) \div n
           d1 == (nr1 + n - 1) \div n
<1>1. nr1 \in Nat /\ \A i \in rows : Rank(rows, i) \in Nat
  BY Ranks
<1>2. d0 \in Nat /\ d1 \in Nat
  BY <1>1, RoundedUp
<1>3. ASSUME NEW u \in Chunk(s, n, x, rows), u \in Chunk(t, n, x, rows)
      PROVE  FALSE
  <2>1. u \in Units(x) /\ u[1] \in Nat
    BY <1>3 DEF Chunk, Units
  <2>2. /\ u[2] \in rows
        /\ IF x.nr > nr1
             THEN d0 * s <= u[1] /\ u[1] < d0 * s + d0 /\ d0 * t <= u[1] /\ u[1] < d0 * t + d0
             ELSE /\ d1 * s <= Rank(rows, u[2]) /\ Rank(rows, u[2]) < d1 * s + d1
                  /\ d1 * t <= Rank(rows, u[2]) /\ Rank(rows, u[2]) < d1 * t + d1
    BY <1>3, <2>1, ChunkSplit
  <2>3. s \in Nat /\ t \in Nat /\ Rank(rows, u[2]) \in Nat
    <3>1. u[2] \in rows
      BY <1>3 DEF Chunk
    <3>2. Rank(rows, u[2]) \in Nat
      BY <1>1, <3>1, Zenon
    <3> QED
      BY <3>2
  <2> HIDE DEF nr1, d0, d1
  <2>4. CASE x.nr > nr1
    BY <1>2, <2>1, <2>2, <2>3, <2>4, BlocksApart
  <2>5. CASE ~(x.nr > nr1)
    BY <1>2, <2>2, <2>3, <2>5, BlocksApart
  <2> QED
    BY <2>4, <2>5
<1> QED
  BY <1>3

\* ... and leave none.
LEMMA ChunkCovers ==
  ASSUME NEW n \in Nat \ {0}, NEW x, x.nr \in Nat, x.n1 \in Nat,
         NEW rows \in SUBSET (0 .. x.n1 - 1), NEW u \in Units(x), u[2] \in rows
  PROVE  \E t \in 0 .. n - 1 : u \in Chunk(t, n, x, rows)
<1> DEFINE nr1 == Cardinality(rows)
           d0 == (x.nr + n - 1) \div n
           d1 == (nr1 + n - 1) \div n
           r == Rank(rows, u[2])
<1>1. nr1 \in Nat /\ r \in Nat /\ r < nr1
  BY Ranks
<1>2. d0 \in Nat /\ x.nr <= n * d0
  BY RoundedUp
<1>3. d1 \in Nat /\ nr1 <= n * d1
  BY <1>1, RoundedUp
<1>4. u[1] \in Nat /\ u[1] < x.nr
  BY DEF Units
<1> HIDE DEF nr1, d0, d1, r
<1>5. n * d0 \in Nat /\ n * d1 \in Nat
  BY <1>2, <1>3
<1>6. CASE x.nr > nr1
  <2>1. PICK t \in 0 .. n - 1 : d0 * t <= u[1] /\ u[1] < d0 * t + d0
    <3>1. u[1] < n * d0
      BY <1>2, <1>4, <1>5
    <3> QED
      BY <1>2, <1>4, <3>1, InBlock
  <2> QED
    BY <1>6, <2>1, ChunkSplit DEF nr1, d0
<1>7. CASE ~(x.nr > nr1)
  <2>1. PICK t \in 0 .. n - 1 : d1 * t <= r /\ r < d1 * t + d1
    <3>1. r < n * d1
      BY <1>1, <1>3, <1>5
    <3> QED
      BY <1>1, <1>3, <3>1, InBlock
  <2> QED
    BY <1>7, <2>1, ChunkSplit DEF nr1, d1, r
<1> QED
  BY <1>6, <1>7

\* The operations whose threads take blocks of rows, and those that take strides.
StrideOps == {"MUL", "DIV", "CONCAT", "NORM", "RMS_NORM", "RMS_NORM_BACK", "GROUP_NORM",
              "DIAG_MASK_INF", "DIAG_MASK_ZERO", "IM2COL", "UPSCALE", "PAD", "ARGSORT"}
BlockOps == SplitOps \ (StrideOps \cup {"MUL_MAT", "MUL_MAT_ID"})

\* What COMPUTE writes for the operations that take every n-th row.
LEMMA StrideKinds ==
  ASSUME NEW x, x.op \in StrideOps, NEW n, NEW t
  PROVE  compute_forward(t, n, x) = Stride(t, n, x)
  BY DEF compute_forward, UnaryOps, ViewOps, UnarySplit, UnarySerial, StrideOps, mul, div, concat,
     norm, rms_norm, rms_norm_back, group_norm, diag_mask_f32,
     diag_mask_inf, diag_mask_zero, im2col, upscale, pad, argsort

\* What COMPUTE writes for the operations that take blocks.
LEMMA BlockKinds ==
  ASSUME NEW x \in Tensors, x.op \in BlockOps, NEW n, NEW t
  PROVE  compute_forward(t, n, x) = Block(t, n, x)
<1> USE DEF compute_forward, UnaryOps, ViewOps, UnarySplit, UnarySerial
<1>1. x.type \in {"f32", "f16", "q"} /\ x.other \in {"f32", "f16", "q"}
  BY DEF Tensors, Types
<1>2. CASE x.op \in {"DUP", "CPY"}
  <2>1. x.type = "q" => x.other = "q"
    BY <1>2 DEF Tensors
  <2> QED
    BY <1>1, <1>2, <2>1 DEF dup, cpy, dup_bytes, dup_f16, dup_f32, dup_same_cont
<1>3. CASE x.op \in {"ADD", "ADD1", "OUT_PROD"}
  BY <1>1, <1>3 DEF add, add_f32, add_f16_f32, add_f16_f16, add_q_f32,
     add1, add1_f32, add1_f16_f32, add1_f16_f16, add1_q_f32, out_prod, out_prod_q_f32, out_prod_f32
<1>4. CASE x.op \in {"ACC", "SILU_BACK", "SOFT_MAX", "SOFT_MAX_BACK", "ADD_REL_POS",
                     "CONV_TRANSPOSE_2D", "FLASH_FF", "FLASH_ATTN_BACK",
                     "CROSS_ENTROPY_LOSS", "CROSS_ENTROPY_LOSS_BACK"}
  BY <1>4 DEF acc, silu_back, soft_max, soft_max_back, add_rel_pos, conv_transpose_2d,
     flash_ff, flash_attn_back, cross_entropy_loss, cross_entropy_loss_back
<1>5. CASE x.op \in {"ROPE", "ROPE_BACK", "CONV_TRANSPOSE_1D", "FLASH_ATTN"}
  BY <1>5 DEF rope, rope_f32, rope_f16, rope_back, conv_transpose_1d,
     conv_transpose_1d_f16_f32, conv_transpose_1d_f32, flash_attn, flash_attn_f32, flash_attn_f16
<1>6. CASE x.op \in UnarySplit
  BY <1>6 DEF unary, gelu, gelu_quick, silu
<1> QED
  BY <1>2, <1>3, <1>4, <1>5, <1>6 DEF BlockOps, StrideOps, SplitOps

\* An operation for one thread: that thread writes all of it.
LEMMA SerialKinds ==
  ASSUME NEW x \in Tensors, x.op \in SerialOps
  PROVE  compute_forward(0, 1, x) \in {Units(x), Block(0, 1, x), Stride(0, 1, x)}
<1> USE DEF compute_forward, UnaryOps, ViewOps, UnarySplit, UnarySerial
<1>1. x.type \in {"f32", "f16", "q"} /\ x.other \in {"f32", "f16", "q"}
  BY DEF Tensors, Types
<1>2. CASE x.op \in UnarySerial
  BY <1>2 DEF unary, abs, sgn, neg, step, tanh, elu, relu
<1>3. CASE x.op \in ViewOps
  BY <1>3 DEF view
<1>4. CASE x.op \in {"SUB", "SQR", "SQRT", "LOG", "SUM", "SUM_ROWS", "MEAN", "ARGMAX", "REPEAT",
                     "REPEAT_BACK"}
  BY <1>4 DEF sub, sqr, sqrt, log, sum, sum_f32, sum_f16, sum_rows, mean, argmax, repeat, repeat_back
<1>5. CASE x.op \in {"LEAKY_RELU", "SCALE", "SET", "DIAG", "ALIBI", "CLAMP", "POOL_1D", "POOL_2D"}
  BY <1>5 DEF leaky_relu, scale, set, diag, alibi, clamp, pool_1d, pool_2d
<1>6. CASE x.op \in {"WIN_PART", "WIN_UNPART", "GET_REL_POS", "MAP_UNARY", "MAP_BINARY"}
  BY <1>6 DEF win_part, win_unpart, get_rel_pos, map_unary, map_binary
<1>7. CASE x.op = "CONT"
  <2>1. x.type = "q" => x.other = "q"
    BY <1>7 DEF Tensors
  <2> QED
    BY <1>1, <1>7, <2>1 DEF cont, dup, dup_bytes, dup_f16, dup_f32, dup_same_cont
<1>8. CASE x.op \in {"GET_ROWS", "GET_ROWS_BACK"}
  BY <1>1, <1>8 DEF get_rows, get_rows_q, get_rows_f16, get_rows_f32,
     get_rows_back, get_rows_back_f32_f16, get_rows_back_f32
<1> QED
  BY <1>2, <1>3, <1>4, <1>5, <1>6, <1>7, <1>8 DEF SerialOps

-----------------------------------------------------------------------------
(* What the kernels owe each other: the shares of an operation's threads.  *)

\* The fields of a tensor.
LEMMA TensorFields ==
  ASSUME NEW x \in Tensors
  PROVE  /\ x.op \in SplitOps \cup SerialOps /\ x.nr \in Nat /\ x.n1 \in Nat /\ x.ne \in Nat \ {0}
         /\ x.type \in Types /\ x.other \in Types /\ x.conv \in BOOLEAN
         /\ x.op \in {"DUP", "CPY"} /\ x.type = "q" => x.other = "q"
         /\ x.op = "FLASH_ATTN_BACK" => x.ne >= 8
  BY DEF Tensors

\* As many tasks as threads at most, and one for an operation that one thread does whole.
LEMMA TasksBounded ==
  ASSUME NEW x \in Tensors, NEW n \in Nat \ {0}
  PROVE  /\ get_n_tasks(x, n) \in 0 .. n
         /\ x.op \in SerialOps => get_n_tasks(x, n) = 1
         /\ get_n_tasks(x, n) = 0 => Units(x) = {}
<1>1. CASE x.op \in SerialOps
  <2>1. x.op # "SOFT_MAX"
    BY <1>1 DEF SerialOps, UnarySerial, ViewOps
  <2>2. get_n_tasks(x, n) = 1
    BY <1>1, <2>1 DEF get_n_tasks
  <2> QED
    BY <1>1, <2>2
<1>2. CASE x.op = "SOFT_MAX"
  <2>1. x.op \notin SerialOps
    BY <1>2 DEF SerialOps, UnarySerial, ViewOps
  <2>2. get_n_tasks(x, n) = MIN(MIN(4, n), x.nr)
    BY <1>2, <2>1 DEF get_n_tasks
  <2>3. x.nr = 0 => Units(x) = {}
    BY DEF Units
  <2> QED
    BY <2>1, <2>2, <2>3, TensorFields DEF MIN
<1>3. CASE x.op \notin SerialOps \cup {"SOFT_MAX"}
  BY <1>3 DEF get_n_tasks
<1> QED
  BY <1>1, <1>2, <1>3

\* The rows of src1 of a product, by the matrix they are routed to.
LEMMA Routed ==
  ASSUME NEW x \in Tensors, NEW i \in 0 .. x.n1 - 1
  PROVE  \E a \in 0 .. n_as - 1 : i \in MatrixRows(a, x)
<1>1. i \in Nat
  BY TensorFields
<1>2. i % n_as \in 0 .. n_as - 1
  BY <1>1 DEF n_as
<1> QED
  BY <1>2 DEF MatrixRows

\* No unit of a node is given to two of its threads.
THEOREM SharesApart ==
  ASSUME NEW x \in Tensors, NEW n \in Nat, x.op \in SerialOps => n = 1,
         NEW s \in 0 .. n - 1, NEW t \in 0 .. n - 1, s # t
  PROVE  compute_forward(s, n, x) \cap compute_forward(t, n, x) = {}
<1>1. x.op \in SplitOps /\ n \in Nat \ {0} /\ x.nr \in Nat /\ x.n1 \in Nat
  BY TensorFields
<1>2. CASE x.op = "MUL_MAT"
  <2>1. 0 .. x.n1 - 1 \in SUBSET (0 .. x.n1 - 1)
    OBVIOUS
  <2>2. Chunk(s, n, x, 0 .. x.n1 - 1) \cap Chunk(t, n, x, 0 .. x.n1 - 1) = {}
    BY <1>1, <2>1, ChunkApart
  <2> QED
    BY <1>2, <2>2 DEF compute_forward, mul_mat, UnaryOps, ViewOps, UnarySplit, UnarySerial
<1>3. CASE x.op = "MUL_MAT_ID"
  <2>1. ASSUME NEW a \in 0 .. n_as - 1, NEW b \in 0 .. n_as - 1, NEW u,
               u \in Chunk(s, n, x, MatrixRows(a, x)), u \in Chunk(t, n, x, MatrixRows(b, x))
        PROVE  FALSE
    <3>1. a = b
      BY <2>1 DEF Chunk, MatrixRows
    <3>2. MatrixRows(a, x) \in SUBSET (0 .. x.n1 - 1)
      BY DEF MatrixRows
    <3> QED
      BY <1>1, <2>1, <3>1, <3>2, ChunkApart
  <2>2. mul_mat_id(s, n, x) \cap mul_mat_id(t, n, x) = {}
    BY <2>1 DEF mul_mat_id
  <2> QED
    BY <1>3, <2>2 DEF compute_forward, UnaryOps, ViewOps, UnarySplit, UnarySerial
<1>4. CASE x.op \notin {"MUL_MAT", "MUL_MAT_ID"}
  <2>1. \/ compute_forward(s, n, x) = Block(s, n, x) /\ compute_forward(t, n, x) = Block(t, n, x)
        \/ compute_forward(s, n, x) = Stride(s, n, x) /\ compute_forward(t, n, x) = Stride(t, n, x)
    <3>1. x.op \in BlockOps \/ x.op \in StrideOps
      BY <1>1, <1>4 DEF BlockOps
    <3> QED
      BY <3>1, BlockKinds, StrideKinds
  <2> QED
    BY <1>1, <2>1, BlockApart, StrideApart
<1> QED
  BY <1>2, <1>3, <1>4

\* Every unit of a node is given to one of its threads.
THEOREM SharesCover ==
  ASSUME NEW x \in Tensors, NEW n \in Nat \ {0}, x.op \in SerialOps => n = 1, NEW u \in Units(x)
  PROVE  \E t \in 0 .. n - 1 : u \in compute_forward(t, n, x)
<1>1. x.op \in SplitOps \cup SerialOps /\ x.nr \in Nat /\ x.n1 \in Nat
  BY TensorFields
<1>2. CASE x.op \in SerialOps
  <2>1. compute_forward(0, 1, x) \in {Units(x), Block(0, 1, x), Stride(0, 1, x)}
    BY <1>2, SerialKinds
  <2>2. 1 \in Nat \ {0} /\ \A t \in 0 .. 1 - 1 : t = 0
    OBVIOUS
  <2>3. u \in Block(0, 1, x) /\ u \in Stride(0, 1, x)
    BY <1>1, <2>2, BlockCovers, StrideCovers
  <2>4. u \in compute_forward(0, 1, x)
    BY <2>1, <2>3
  <2> QED
    BY <1>2, <2>4
<1>3. u[2] \in 0 .. x.n1 - 1
  BY DEF Units
<1>4. CASE x.op = "MUL_MAT"
  <2>1. \E t \in 0 .. n - 1 : u \in Chunk(t, n, x, 0 .. x.n1 - 1)
    BY <1>1, <1>3, ChunkCovers
  <2> QED
    BY <1>4, <2>1 DEF compute_forward, mul_mat, UnaryOps, ViewOps, UnarySplit, UnarySerial
<1>5. CASE x.op = "MUL_MAT_ID"
  <2>1. PICK a \in 0 .. n_as - 1 : u[2] \in MatrixRows(a, x)
    BY <1>3, Routed
  <2>2. MatrixRows(a, x) \in SUBSET (0 .. x.n1 - 1)
    BY DEF MatrixRows
  <2>3. PICK t \in 0 .. n - 1 : u \in Chunk(t, n, x, MatrixRows(a, x))
    BY <1>1, <2>1, <2>2, ChunkCovers
  <2>4. u \in mul_mat_id(t, n, x)
    BY <2>3 DEF mul_mat_id
  <2> QED
    BY <1>5, <2>4 DEF compute_forward, UnaryOps, ViewOps, UnarySplit, UnarySerial
<1>6. CASE x.op \in SplitOps \ {"MUL_MAT", "MUL_MAT_ID"}
  <2>1. \/ \A t : compute_forward(t, n, x) = Block(t, n, x)
        \/ \A t : compute_forward(t, n, x) = Stride(t, n, x)
    <3>1. x.op \in BlockOps \/ x.op \in StrideOps
      BY <1>6 DEF BlockOps
    <3> QED
      BY <3>1, BlockKinds, StrideKinds
  <2> QED
    BY <1>1, <2>1, BlockCovers, StrideCovers
<1> QED
  BY <1>1, <1>2, <1>4, <1>5, <1>6

-----------------------------------------------------------------------------
(* Scratch areas in the work buffer.                                       *)

\* Of any numbers w[0], ..., w[n - 1] one is the largest.
LEMMA Largest ==
  ASSUME NEW n \in Nat \ {0}, NEW w, \A k \in 0 .. n - 1 : w[k] \in Nat
  PROVE  \E m \in {w[k] : k \in 0 .. n - 1} : \A c \in {w[k] : k \in 0 .. n - 1} : c <= m
<1> DEFINE Has(j) == \E k \in 0 .. j - 1 : \A i \in 0 .. j - 1 : w[i] <= w[k]
           Without == {j \in 1 .. n : ~Has(j)}
<1>1. Without = {}
  <2> SUFFICES ASSUME Without # {} PROVE FALSE
    OBVIOUS
  <2>1. Without \in SUBSET Nat
    OBVIOUS
  <2>2. PICK j \in Without : \A i \in Without : j <= i
    <3> HIDE DEF Without
    <3> QED
      BY <2>1, Minimum
  <2>3. j \in 1 .. n /\ ~Has(j)
    BY <2>2
  <2>4. CASE j = 1
    <3>1. 0 \in 0 .. 1 - 1 /\ \A i \in 0 .. 1 - 1 : i = 0
      OBVIOUS
    <3>2. w[0] <= w[0]
      OBVIOUS
    <3> QED
      BY <2>3, <2>4, <3>1, <3>2
  <2>5. CASE j # 1
    <3>1. j - 1 \in 1 .. n /\ Has(j - 1)
      <4>1. j - 1 \in 1 .. n
        BY <2>3, <2>5
      <4>2. ASSUME ~Has(j - 1) PROVE FALSE
        <5>1. j - 1 \in Without
          BY <4>1, <4>2
        <5>2. j <= j - 1
          <6> HIDE DEF Without
          <6> QED
            BY <2>2, <5>1
        <5> QED
          BY <2>3, <5>2
      <4> QED
        BY <4>1, <4>2
    <3>2. PICK k \in 0 .. j - 2 : \A i \in 0 .. j - 2 : w[i] <= w[k]
      BY <2>3, <3>1
    <3>3. \A i \in 0 .. j - 1 : i = j - 1 \/ i \in 0 .. j - 2
      BY <2>3
    <3>4. k \in 0 .. j - 1 /\ j - 1 \in 0 .. j - 1 /\ w[k] \in Nat /\ w[j - 1] \in Nat
      BY <2>3, <3>2
    <3>5. \A i \in 0 .. j - 2 : w[i] \in Nat
      BY <2>3
    <3>6. CASE w[j - 1] <= w[k]
      BY <2>3, <3>2, <3>3, <3>4, <3>6
    <3>7. CASE w[k] <= w[j - 1]
      <4>1. \A i \in 0 .. j - 1 : w[i] <= w[j - 1]
        <5> SUFFICES ASSUME NEW i \in 0 .. j - 1 PROVE w[i] <= w[j - 1]
          OBVIOUS
        <5>1. CASE i = j - 1
          BY <3>4, <5>1
        <5>2. CASE i \in 0 .. j - 2
          <6>1. w[i] \in Nat /\ w[i] <= w[k]
            BY <3>2, <3>5, <5>2
          <6> QED
            BY <3>4, <3>7, <6>1
        <5> QED
          BY <3>3, <5>1, <5>2
      <4> QED
        BY <2>3, <3>4, <4>1
    <3> QED
      BY <3>4, <3>6, <3>7
  <2> QED
    BY <2>4, <2>5
<1>2. Has(n)
  <2>1. n \in 1 .. n
    OBVIOUS
  <2> QED
    BY <1>1, <2>1
<1> QED
  BY <1>2

\* An area of width floats for each thread, stride floats apart.
LEMMA AreasApart ==
  ASSUME NEW stride \in Nat, NEW width \in Nat, width <= stride,
         NEW s \in Nat, NEW t \in Nat, s # t
  PROVE  stride * s + width <= stride * t \/ stride * t + width <= stride * s
<1>1. stride * s \in Nat /\ stride * t \in Nat
      /\ (stride * s + stride <= stride * t \/ stride * t + stride <= stride * s)
  BY MulMono
<1> QED
  BY <1>1

SmallScratch(x) ==
    \/ x.op \in {"CPY", "DUP"} /\ x.type = "f16" /\ x.other = "q"
    \/ x.op \in {"ADD", "ADD1", "OUT_PROD"} /\ x.type = "q"
    \/ x.op = "SOFT_MAX"
    \/ x.op = "FLASH_ATTN" /\ x.type = "f32"
LargeScratch(x) == (x.op = "FLASH_ATTN" /\ x.type = "f16") \/ x.op = "FLASH_FF"

\* The scratch area of each kind of operation.
LEMMA SliceKinds ==
  ASSUME NEW x, NEW n, NEW t
  PROVE  /\ SmallScratch(x) => Slice(t, n, x) = <<(x.ne + 16) * t, (x.ne + 16) * t + x.ne>>
         /\ LargeScratch(x) => Slice(t, n, x) =
               <<(2 * x.ne + 16) * t, (2 * x.ne + 16) * t + (x.ne + (x.ne + 1) \div 2)>>
         /\ x.op = "FLASH_ATTN_BACK" => Slice(t, n, x) =
               <<(2 * (x.ne + 16)) * t, (2 * (x.ne + 16)) * t + (2 * x.ne + 16)>>
         /\ x.op = "CROSS_ENTROPY_LOSS" => Slice(t, n, x) = <<n + t * x.ne, n + t * x.ne + x.ne>>
         /\ ~SmallScratch(x) /\ ~LargeScratch(x)
            /\ x.op \notin {"FLASH_ATTN_BACK", "CROSS_ENTROPY_LOSS"} => Slice(t, n, x) = <<0, 0>>
  BY DEF Slice, SmallScratch, LargeScratch, CACHE_LINE_SIZE_F32

\* The scratch areas of two tasks of a node do not overlap.
LEMMA SlicesApart ==
  ASSUME NEW x \in Tensors, NEW n \in Nat, NEW s \in 0 .. n - 1, NEW t \in 0 .. n - 1, s # t
  PROVE  \/ Slice(s, n, x)[2] <= Slice(t, n, x)[1]
         \/ Slice(t, n, x)[2] <= Slice(s, n, x)[1]
         \/ Slice(s, n, x) = <<0, 0>>
<1> DEFINE ne == x.ne
<1>1. ne \in Nat \ {0} /\ s \in Nat /\ t \in Nat
  BY TensorFields
<1> HIDE DEF ne
<1>2. CASE SmallScratch(x)
  <2>1. ne + 16 \in Nat /\ ne <= ne + 16
    BY <1>1
  <2>2. (ne + 16) * s + ne <= (ne + 16) * t \/ (ne + 16) * t + ne <= (ne + 16) * s
    BY <1>1, <2>1, AreasApart
  <2> QED
    BY <1>2, <2>2, SliceKinds DEF ne
<1>3. CASE LargeScratch(x)
  <2> DEFINE width == ne + (ne + 1) \div 2
             stride == 2 * ne + 16
  <2>1. stride \in Nat /\ width \in Nat /\ width <= stride
    BY <1>1
  <2>2. stride * s + width <= stride * t \/ stride * t + width <= stride * s
    <3> HIDE DEF stride, width
    <3> QED
      BY <1>1, <2>1, AreasApart
  <2> QED
    BY <1>3, <2>2, SliceKinds DEF ne
<1>4. CASE x.op = "FLASH_ATTN_BACK"
  <2> DEFINE width == 2 * ne + 16
             stride == 2 * (ne + 16)
  <2>1. stride \in Nat /\ width \in Nat /\ width <= stride
    BY <1>1
  <2>2. stride * s + width <= stride * t \/ stride * t + width <= stride * s
    <3> HIDE DEF stride, width
    <3> QED
      BY <1>1, <2>1, AreasApart
  <2> QED
    BY <1>4, <2>2, SliceKinds DEF ne
<1>5. CASE x.op = "CROSS_ENTROPY_LOSS"
  <2>1. ne * s + ne <= ne * t \/ ne * t + ne <= ne * s
    BY <1>1, AreasApart
  <2>2. s * ne = ne * s /\ t * ne = ne * t /\ ne * s \in Nat /\ ne * t \in Nat
    BY <1>1
  <2>3. n + s * ne + ne <= n + t * ne \/ n + t * ne + ne <= n + s * ne
    BY <1>1, <2>1, <2>2
  <2> QED
    BY <1>5, <2>3, SliceKinds DEF ne
<1> QED
  BY <1>2, <1>3, <1>4, <1>5, SliceKinds

\* The plan counts enough for all the areas of a node, with a cache line for
\* each thread after the first.
THEOREM SliceFits ==
  ASSUME NEW x \in Tensors, NEW N \in Nat \ {0}, NEW n \in 1 .. N, NEW t \in 0 .. n - 1
  PROVE  /\ TasksWork(x, n) \in Nat
         /\ Slice(t, n, x)[2] = 0
            \/ (TasksWork(x, n) > 0 /\ Slice(t, n, x)[2] <= TasksWork(x, n) + 16 * (N - 1))
<1> DEFINE ne == x.ne
<1>1. ne \in Nat \ {0} /\ n \in Nat /\ t \in Nat /\ t < n /\ x.nr \in Nat /\ x.n1 \in Nat
  BY TensorFields
<1>2. TasksWork(x, n) \in Nat
  <2>1. x.conv \in BOOLEAN /\ x.ne \in Nat
    BY TensorFields
  <2> QED
    BY <1>1, <2>1 DEF TasksWork, n_as
<1> HIDE DEF ne
<1>3. /\ ne * n \in Nat /\ ne * t \in Nat /\ ne * t + ne <= ne * n
      /\ ne * n > 0
  BY <1>1, MulMono
<1>4. CASE SmallScratch(x)
  <2>1. TasksWork(x, n) \in {ne * n, 2 * ne * n}
    BY <1>4 DEF TasksWork, SmallScratch, ne
  <2>2. (ne + 16) * t = ne * t + 16 * t /\ 2 * ne * n = 2 * (ne * n)
    BY <1>1
  <2>3. Slice(t, n, x)[2] = (ne + 16) * t + ne
    BY <1>4, SliceKinds DEF ne
  <2>4. ne * t + 16 * t + ne <= ne * n + 16 * (N - 1)
    BY <1>1, <1>3
  <2>5. /\ ne * n > 0 /\ (ne + 16) * t + ne <= ne * n + 16 * (N - 1)
        /\ 2 * ne * n > 0 /\ (ne + 16) * t + ne <= 2 * ne * n + 16 * (N - 1)
    BY <1>1, <1>3, <2>2, <2>4
  <2> QED
    BY <1>2, <2>1, <2>3, <2>5
<1>5. CASE LargeScratch(x)
  <2>1. TasksWork(x, n) = 2 * ne * n
    BY <1>5 DEF TasksWork, LargeScratch, ne
  <2>2. (2 * ne + 16) * t = 2 * (ne * t) + 16 * t /\ 2 * ne * n = 2 * (ne * n)
        /\ ne + (ne + 1) \div 2 <= 2 * ne /\ (ne + 1) \div 2 \in Nat
    BY <1>1
  <2>3. Slice(t, n, x)[2] = (2 * ne + 16) * t + (ne + (ne + 1) \div 2)
    BY <1>5, SliceKinds DEF ne
  <2>4. (2 * ne + 16) * t + (ne + (ne + 1) \div 2) <= 2 * ne * n + 16 * (N - 1)
    BY <1>1, <1>3, <2>2
  <2> QED
    BY <1>2, <1>3, <2>1, <2>2, <2>3, <2>4
<1>6. CASE x.op = "FLASH_ATTN_BACK"
  <2>1. TasksWork(x, n) = 4 * ne * n
    BY <1>6 DEF TasksWork, ne
  <2>2. (2 * (ne + 16)) * t = 2 * (ne * t) + 32 * t /\ 4 * ne * n = 4 * (ne * n)
    BY <1>1
  <2>3. Slice(t, n, x)[2] = (2 * (ne + 16)) * t + (2 * ne + 16)
    BY <1>6, SliceKinds DEF ne
  <2>4. 8 * n <= ne * n
    <3>1. ne >= 8 /\ ne - 8 \in Nat
      BY <1>1, <1>6, TensorFields DEF ne
    <3>2. (ne - 8) * n \in Nat /\ (ne - 8) * n = ne * n - 8 * n
      BY <1>1, <3>1
    <3> QED
      BY <1>1, <1>3, <3>2
  <2>5. (2 * (ne + 16)) * t + (2 * ne + 16) <= 4 * ne * n + 16 * (N - 1)
    BY <1>1, <1>3, <2>2, <2>4
  <2> QED
    BY <1>2, <1>3, <2>1, <2>2, <2>3, <2>5
<1>7. CASE x.op = "CROSS_ENTROPY_LOSS"
  <2>1. TasksWork(x, n) = n + ne * n
    BY <1>7 DEF TasksWork, ne
  <2>2. t * ne = ne * t
    BY <1>1
  <2>3. Slice(t, n, x)[2] = n + t * ne + ne
    BY <1>7, SliceKinds DEF ne
  <2> QED
    BY <1>1, <1>2, <1>3, <2>1, <2>2, <2>3
<1>8. CASE ~SmallScratch(x) /\ ~LargeScratch(x)
           /\ x.op \notin {"FLASH_ATTN_BACK", "CROSS_ENTROPY_LOSS"}
  <2>1. Slice(t, n, x) = <<0, 0>>
    BY <1>8, SliceKinds
  <2> QED
    BY <1>2, <2>1
<1> QED
  BY <1>4, <1>5, <1>6, <1>7, <1>8

\* What a node needs of the buffer is a number.
LEMMA WorkNatural ==
  ASSUME NEW x \in Tensors, NEW n \in Nat
  PROVE  TasksWork(x, n) \in Nat
<1>1. x.conv \in BOOLEAN /\ x.ne \in Nat /\ x.nr \in Nat /\ x.n1 \in Nat
  BY TensorFields
<1> QED
  BY <1>1 DEF TasksWork, n_as

\* So is the end of a scratch area.
LEMMA SliceNatural ==
  ASSUME NEW x \in Tensors, NEW n \in Nat, NEW t \in Nat
  PROVE  Slice(t, n, x)[2] \in Nat
<1> DEFINE ne == x.ne
<1>1. ne \in Nat
  BY TensorFields
<1>2. /\ (ne + 16) * t + ne \in Nat
      /\ (2 * ne + 16) * t + (ne + (ne + 1) \div 2) \in Nat
      /\ (2 * (ne + 16)) * t + (2 * ne + 16) \in Nat
      /\ n + t * ne + ne \in Nat
  BY <1>1
<1>3. CASE SmallScratch(x)
  BY <1>2, <1>3, SliceKinds
<1>4. CASE LargeScratch(x)
  BY <1>2, <1>4, SliceKinds
<1>5. CASE x.op \in {"FLASH_ATTN_BACK", "CROSS_ENTROPY_LOSS"}
  BY <1>2, <1>5, SliceKinds
<1>6. CASE ~SmallScratch(x) /\ ~LargeScratch(x) /\ x.op \notin {"FLASH_ATTN_BACK", "CROSS_ENTROPY_LOSS"}
  BY <1>6, SliceKinds
<1> QED
  BY <1>3, <1>4, <1>5, <1>6

-----------------------------------------------------------------------------
(***************************************************************************)
(* The hand-over between two nodes.  A thread that found n_active at one   *)
(* is alone (Leading) until it publishes a node: every other thread waits  *)
(* for node_n to change.  While nobody is alone, n_active counts the       *)
(* threads that have not come to wait.  Once a thread has left after an    *)
(* abort, without having counted itself out, n_active cannot get down to   *)
(* one again, and nobody is alone ever after.                              *)
(***************************************************************************)
Leading == {"finalize", "distribute", "init", "solo", "soloFinalize", "soloCheck",
            "restore", "publish"}
Waiting(t) == pc[t] = "spin" /\ my_node[t] = node_n
Counted == {t \in Threads : pc[t] \notin Leading /\ ~Waiting(t)}
Left == {t \in Threads : status[t] = "aborted"}
Arriving == {t \in Threads : pc[t] = "arrive"}

ThreadType ==
    /\ cgraph \in Graphs /\ n_threads \in 1 .. MaxThreads
    /\ n_active \in Int /\ node_n \in Int
    /\ pc \in [Threads -> Labels] /\ my_node \in [Threads -> Int] /\ status \in [Threads -> Statuses]

DataType ==
    /\ compute_status \in {"none", "success", "aborted"} /\ aborting \in BOOLEAN
    /\ inited \subseteq Nodes /\ finalized \subseteq Nodes
    /\ DOMAIN written = Nodes /\ \A k \in Nodes : written[k] \in [Units(Node(k)) -> 0 .. 2]
    /\ wdata \in Nodes \cup {Scratch}

\* Where a thread is says which node it may be at.
PlaceInv ==
    /\ -1 <= node_n /\ node_n <= n_nodes + Cardinality(Left)
    /\ \A t \in Threads :
        /\ -1 <= my_node[t]
        /\ pc[t] \in Leading => my_node[t] <= n_nodes
        /\ pc[t] \notin Leading => my_node[t] <= node_n
        /\ pc[t] \in {"check", "arrive", "distribute"} => my_node[t] < n_nodes
        /\ pc[t] \in {"finalize", "init", "solo", "soloFinalize", "soloCheck", "compute"} =>
               my_node[t] \in Nodes
        /\ pc[t] \in {"restore", "publish", "go"} => 0 <= my_node[t]
        /\ pc[t] = "done" <=> status[t] # "running"

LeadInv ==
    /\ Left = {} => \A t \in Threads : pc[t] \in Leading =>
          /\ \A s \in Threads : s # t => Waiting(s)
          /\ IF pc[t] = "finalize" THEN my_node[t] = node_n
             ELSE IF pc[t] = "distribute" THEN node_n <= my_node[t]
             ELSE node_n < my_node[t]
    /\ Left = {} /\ (\A t \in Threads : pc[t] \notin Leading) =>
          \A t \in Threads : pc[t] = "spin" \/ my_node[t] = node_n
    /\ Left # {} => aborting /\ \A t \in Threads : pc[t] \notin Leading

CountInv ==
    /\ Left = {} => n_active = IF \E t \in Threads : pc[t] = "publish" THEN n_threads
                               ELSE Cardinality(Counted)
    /\ Left # {} => Cardinality(Arriving) < n_active /\ n_active <= n_threads

HandoverInv == ThreadType /\ PlaceInv /\ LeadInv /\ CountInv

(***************************************************************************)
(* The data that is handed over: what the nodes hold, by the place of the  *)
(* thread that is alone, or else by how far the threads have come with the *)
(* node in node_n.                                                         *)
(***************************************************************************)
Times(k, n) == \A u \in Units(Node(k)) : written[k][u] = n
Finished(k) == Times(k, 1) /\ Computed(k)
Ready(k) == Node(k).op \in HAS_INIT => k \in inited
Prepared(k) == Ready(k) /\ (PreparesWork(Node(k)) => wdata = k)
Share(t, k) == compute_forward(t, Tasks(k), Node(k))
Passed(t) == my_node[t] = node_n /\ pc[t] \in {"check", "arrive", "spin"}

\* Later nodes are untouched, also while an abort has been asked for.
ZeroInv == Left = {} =>
    /\ \A t \in Threads, k \in Nodes :
          pc[t] \in Leading /\ (my_node[t] < k \/ (pc[t] = "init" /\ my_node[t] = k)) => Times(k, 0)
    /\ (\A t \in Threads : pc[t] \notin Leading) => \A k \in Nodes : node_n < k => Times(k, 0)

\* The one thread that is alone.
AloneInv(t) ==
    LET m == my_node[t]
    IN  /\ \A j \in 0 .. m - 1 : Finished(j)
        /\ pc[t] \in {"distribute", "soloCheck"} /\ m \in Nodes => Finished(m)
        /\ pc[t] \in {"finalize", "soloFinalize"} => Times(m, 1) /\ Ready(m)
        /\ pc[t] = "solo" => Times(m, 0) /\ Prepared(m) /\ Tasks(m) = 1
        /\ pc[t] \in {"restore", "publish"} /\ m \in Nodes => Times(m, 0) /\ Prepared(m)

\* All threads, at the node they share.
SharedInv ==
    /\ \A j \in 0 .. node_n - 1 : Finished(j)
    /\ node_n \in Nodes =>
        /\ Prepared(node_n)
        /\ \A t \in Threads : pc[t] = "compute" => t < Tasks(node_n)
        /\ \A u \in Units(Node(node_n)) : written[node_n][u] =
              IF \E t \in Threads : Passed(t) /\ t < Tasks(node_n) /\ u \in Share(t, node_n)
                THEN 1 ELSE 0

OrderInv == ~aborting =>
    /\ \A t \in Threads : pc[t] \in Leading => AloneInv(t)
    /\ (\A t \in Threads : pc[t] \notin Leading) => SharedInv

ComputeInv == HandoverInv /\ DataType /\ ZeroInv /\ OrderInv

-----------------------------------------------------------------------------
(* The hand-over is kept.                                                  *)

\* There is a thread 0, and sets of threads are finite.
LEMMA ThreadFacts ==
  ASSUME ThreadType
  PROVE  /\ n_threads \in Nat \ {0} /\ 0 \in Threads /\ Threads \subseteq Nat
         /\ IsFiniteSet(Threads) /\ Cardinality(Threads) = n_threads
         /\ \A S \in SUBSET Threads : /\ IsFiniteSet(S) /\ Cardinality(S) \in 0 .. n_threads
                                      /\ Cardinality(S) = 0 <=> S = {}
<1>1. n_threads \in Nat \ {0} /\ 0 \in Threads /\ Threads \subseteq Nat
  BY ThreadsAssumption DEF ThreadType, Threads
<1>2. IsFiniteSet(Threads) /\ Cardinality(Threads) = n_threads
  BY <1>1, FS_Interval DEF Threads
<1>3. ASSUME NEW S \in SUBSET Threads
      PROVE  IsFiniteSet(S) /\ Cardinality(S) \in 0 .. n_threads /\ (Cardinality(S) = 0 <=> S = {})
  <2>1. IsFiniteSet(S) /\ Cardinality(S) <= n_threads
    BY <1>2, FS_Subset
  <2>2. Cardinality(S) \in Nat
    BY <2>1, FS_CardinalityType
  <2>3. Cardinality(S) = 0 <=> S = {}
    BY <2>1, FS_EmptySet
  <2> QED
    BY <1>1, <2>1, <2>2, <2>3
<1> QED
  BY <1>1, <1>2, <1>3

\* A graph has nodes, and they are tensors.
LEMMA GraphFacts ==
  ASSUME cgraph \in Graphs
  PROVE  /\ n_nodes \in 1 .. MaxNodes /\ n_nodes \in Nat \ {0} /\ Nodes \subseteq Nat
         /\ \A k \in Nodes : Node(k) \in Tensors
<1>1. cgraph \in Seq(Tensors) /\ n_nodes \in 1 .. MaxNodes
  BY GraphsAssumption DEF n_nodes
<1>2. n_nodes \in Nat \ {0}
  BY <1>1, ThreadsAssumption
<1>3. \A k \in Nodes : k + 1 \in 1 .. Len(cgraph)
  BY <1>2 DEF Nodes, n_nodes
<1> QED
  BY <1>1, <1>2, <1>3 DEF Node, Nodes

\* One thread moves to label l.
LEMMA Moved ==
  ASSUME ThreadType, NEW t \in Threads, NEW l \in Labels, Goto(t, l), UNCHANGED fixed
  PROVE  /\ pc' \in [Threads -> Labels] /\ pc'[t] = l /\ \A s \in Threads : s # t => pc'[s] = pc[s]
         /\ Threads' = Threads /\ n_nodes' = n_nodes /\ Nodes' = Nodes
         /\ cgraph' = cgraph /\ n_threads' = n_threads
         /\ \A k : Node(k)' = Node(k) /\ Tasks(k)' = Tasks(k)
  BY DEF ThreadType, Goto, fixed, Threads, n_nodes, Nodes, Node, Tasks

\* The thread that is alone goes on without touching the counters.
LEMMA AloneGoes ==
  ASSUME HandoverInv, NEW t \in Threads, pc[t] \in Leading \ {"publish"},
         NEW l \in Leading \ {"publish", "finalize"}, Goto(t, l),
         UNCHANGED <<fixed, shared, my_node, status>>,
         pc[t] \in {"finalize", "distribute"} => l = "distribute",
         l \in {"init", "solo", "soloFinalize", "soloCheck"} => my_node[t] \in Nodes,
         l = "distribute" => my_node[t] < n_nodes,
         l = "restore" => 0 <= my_node[t],
         aborting => aborting'
  PROVE  HandoverInv'
<1>1. ThreadType /\ l \in Labels /\ pc[t] \in Leading /\ l \in Leading
      /\ pc[t] \notin {"publish", "spin", "arrive"} /\ l # "publish" /\ l # "done"
      /\ l \notin {"check", "arrive", "spin", "go", "compute"}
  BY DEF HandoverInv, Leading, Labels
<1>2. /\ pc' \in [Threads -> Labels] /\ pc'[t] = l /\ \A s \in Threads : s # t => pc'[s] = pc[s]
      /\ Threads' = Threads /\ n_nodes' = n_nodes /\ Nodes' = Nodes
      /\ cgraph' = cgraph /\ n_threads' = n_threads
  BY <1>1, Moved
<1>3. n_active' = n_active /\ node_n' = node_n /\ my_node' = my_node /\ status' = status
  BY DEF shared
<1>4. ThreadType'
  BY <1>1, <1>2, <1>3 DEF ThreadType
<1>5. Left' = Left /\ pc[t] # "done" /\ my_node[t] \in Int /\ node_n \in Int /\ n_nodes \in Int
  BY <1>1, <1>2, <1>3, GraphFacts DEF Left, Leading, ThreadType
<1>6. PlaceInv'
  BY <1>1, <1>2, <1>3, <1>5 DEF PlaceInv, HandoverInv
<1>7. \A s \in Threads : Waiting(s)' = Waiting(s)
  BY <1>1, <1>2, <1>3 DEF Waiting
<1>8. LeadInv'
  BY <1>1, <1>2, <1>3, <1>5, <1>7 DEF LeadInv, HandoverInv
<1>9. Counted' = Counted /\ Arriving' = Arriving
  BY <1>1, <1>2, <1>7 DEF Counted, Arriving
<1>10. CountInv'
  BY <1>1, <1>2, <1>3, <1>5, <1>9 DEF CountInv, HandoverInv, LeadInv
<1> QED
  BY <1>4, <1>6, <1>8, <1>10 DEF HandoverInv

\* The thread that is alone turns to the next node.
LEMMA DistributeKeeps ==
  ASSUME HandoverInv, NEW t \in Threads, Distribute(t)
  PROVE  HandoverInv'
<1> DEFINE l == IF my_node[t] + 1 >= n_nodes THEN "restore"
                ELSE IF Node(my_node[t] + 1).op \in HAS_INIT THEN "init"
                ELSE AfterInit(my_node[t] + 1)
<1>1. l \in {"restore", "init", "solo"} /\ (l # "restore" => my_node[t] + 1 < n_nodes)
  <2>1. my_node[t] \in Int /\ n_nodes \in Nat
    BY GraphFacts DEF HandoverInv, ThreadType
  <2> QED
    BY <2>1 DEF AfterInit
<1>2. pc[t] = "distribute" /\ Goto(t, l) /\ UNCHANGED <<fixed, shared, status, aborting>>
      /\ my_node' = [my_node EXCEPT ![t] = my_node[t] + 1]
  BY DEF Distribute
<1> HIDE DEF l
<1>3. ThreadType /\ l \in Labels /\ l \in Leading /\ pc[t] \in Leading
  BY <1>1, <1>2 DEF HandoverInv, Leading, Labels
<1>4. /\ pc' \in [Threads -> Labels] /\ pc'[t] = l /\ \A s \in Threads : s # t => pc'[s] = pc[s]
      /\ Threads' = Threads /\ n_nodes' = n_nodes /\ Nodes' = Nodes
      /\ cgraph' = cgraph /\ n_threads' = n_threads
  BY <1>2, <1>3, Moved
<1>5. n_active' = n_active /\ node_n' = node_n /\ status' = status /\ my_node[t] \in Int /\ node_n \in Int
  BY <1>2, <1>3 DEF shared, ThreadType
<1>6. /\ my_node' \in [Threads -> Int] /\ my_node'[t] = my_node[t] + 1
      /\ \A s \in Threads : s # t => my_node'[s] = my_node[s]
  BY <1>2, <1>3 DEF ThreadType
<1>7. ThreadType'
  BY <1>3, <1>4, <1>5, <1>6 DEF ThreadType
<1>8. Left' = Left /\ n_nodes \in Nat
  BY <1>3, <1>4, <1>5, GraphFacts DEF Left, ThreadType
<1>9. -1 <= my_node[t] /\ my_node[t] < n_nodes
  BY <1>2 DEF HandoverInv, PlaceInv
<1>10. PlaceInv'
  BY <1>1, <1>2, <1>3, <1>4, <1>5, <1>6, <1>8, <1>9 DEF PlaceInv, HandoverInv, Nodes
<1>11. \A s \in Threads : Waiting(s)' = Waiting(s)
  BY <1>1, <1>2, <1>4, <1>5, <1>6 DEF Waiting
<1>12. LeadInv'
  BY <1>1, <1>2, <1>3, <1>4, <1>5, <1>6, <1>8, <1>11 DEF LeadInv, HandoverInv
<1>13. Counted' = Counted /\ Arriving' = Arriving
  BY <1>1, <1>2, <1>3, <1>4, <1>11 DEF Counted, Arriving
<1>14. CountInv'
  BY <1>1, <1>2, <1>4, <1>5, <1>8, <1>13 DEF CountInv, HandoverInv, LeadInv
<1> QED
  BY <1>7, <1>10, <1>12, <1>14 DEF HandoverInv

\* It restores n_active ...
LEMMA RestoreKeeps ==
  ASSUME HandoverInv, NEW t \in Threads, RestoreActive(t)
  PROVE  HandoverInv'
<1>1. pc[t] = "restore" /\ Goto(t, "publish") /\ UNCHANGED <<fixed, node_n, my_node, status, aborting>>
      /\ n_active' = n_threads
  BY DEF RestoreActive
<1>2. ThreadType /\ "publish" \in Labels /\ "publish" \in Leading /\ "restore" \in Leading
  BY DEF HandoverInv, Leading, Labels
<1>3. /\ pc' \in [Threads -> Labels] /\ pc'[t] = "publish" /\ \A s \in Threads : s # t => pc'[s] = pc[s]
      /\ Threads' = Threads /\ n_nodes' = n_nodes /\ Nodes' = Nodes
      /\ cgraph' = cgraph /\ n_threads' = n_threads
  BY <1>1, <1>2, Moved
<1>4. ThreadType' /\ Left' = Left
  BY <1>1, <1>2, <1>3, ThreadFacts DEF ThreadType, Left
<1>5. PlaceInv'
  BY <1>1, <1>2, <1>3, <1>4 DEF PlaceInv, HandoverInv
<1>6. \A s \in Threads : Waiting(s)' = Waiting(s)
  BY <1>1, <1>3 DEF Waiting
<1>7. LeadInv'
  BY <1>1, <1>2, <1>3, <1>4, <1>6 DEF LeadInv, HandoverInv
<1>8. CountInv'
  BY <1>1, <1>2, <1>3, <1>4 DEF CountInv, HandoverInv, LeadInv
<1> QED
  BY <1>4, <1>5, <1>7, <1>8 DEF HandoverInv

\* ... and publishes the node, which ends its being alone.
LEMMA PublishKeeps ==
  ASSUME HandoverInv, NEW t \in Threads, Publish(t)
  PROVE  HandoverInv'
<1>1. pc[t] = "publish" /\ Goto(t, "go") /\ UNCHANGED <<fixed, n_active, my_node, status, aborting>>
      /\ node_n' = my_node[t]
  BY DEF Publish
<1>2. ThreadType /\ "go" \in Labels /\ "go" \notin Leading /\ "publish" \in Leading
      /\ "spin" \notin Leading
  BY DEF HandoverInv, Leading, Labels
<1>3. /\ pc' \in [Threads -> Labels] /\ pc'[t] = "go" /\ \A s \in Threads : s # t => pc'[s] = pc[s]
      /\ Threads' = Threads /\ n_nodes' = n_nodes /\ Nodes' = Nodes
      /\ cgraph' = cgraph /\ n_threads' = n_threads
  BY <1>1, <1>2, Moved
<1>4. ThreadType' /\ Left' = Left
  BY <1>1, <1>2, <1>3 DEF ThreadType, Left
<1>5. /\ Left = {} /\ node_n < my_node[t] /\ my_node[t] <= n_nodes /\ 0 <= my_node[t]
      /\ \A s \in Threads : s # t => pc[s] = "spin" /\ my_node[s] = node_n
  BY <1>1, <1>2 DEF HandoverInv, LeadInv, PlaceInv, Waiting
<1>6. /\ my_node[t] \in Int /\ node_n \in Int /\ n_nodes \in Nat /\ n_active = n_threads
      /\ Cardinality(Left) = 0
  BY <1>1, <1>2, <1>5, GraphFacts, ThreadFacts DEF HandoverInv, ThreadType, CountInv
<1>7. PlaceInv'
  BY <1>1, <1>2, <1>3, <1>4, <1>5, <1>6 DEF PlaceInv, HandoverInv
<1>8. \A s \in Threads : ~Waiting(s)' /\ pc'[s] \notin Leading /\ pc'[s] # "publish"
  BY <1>1, <1>2, <1>3, <1>5, <1>6 DEF Waiting
<1>9. LeadInv'
  BY <1>1, <1>2, <1>3, <1>4, <1>5, <1>8 DEF LeadInv
<1>10. Counted' = Threads
  BY <1>3, <1>8 DEF Counted
<1>11. CountInv'
  BY <1>1, <1>2, <1>3, <1>4, <1>5, <1>6, <1>8, <1>10, ThreadFacts DEF CountInv
<1> QED
  BY <1>4, <1>7, <1>9, <1>11 DEF HandoverInv

\* A thread that waited sees the node.
LEMMA SpinKeeps ==
  ASSUME HandoverInv, NEW t \in Threads, Spin(t)
  PROVE  HandoverInv'
<1>1. pc[t] = "spin" /\ node_n # my_node[t] /\ Goto(t, "go") /\ UNCHANGED <<fixed, shared, status, aborting>>
      /\ my_node' = [my_node EXCEPT ![t] = node_n]
  BY DEF Spin
<1>2. ThreadType /\ "go" \in Labels /\ "go" \notin Leading /\ "spin" \notin Leading
  BY DEF HandoverInv, Leading, Labels
<1>3. /\ pc' \in [Threads -> Labels] /\ pc'[t] = "go" /\ \A s \in Threads : s # t => pc'[s] = pc[s]
      /\ Threads' = Threads /\ n_nodes' = n_nodes /\ Nodes' = Nodes
      /\ cgraph' = cgraph /\ n_threads' = n_threads
  BY <1>1, <1>2, Moved
<1>4. n_active' = n_active /\ node_n' = node_n /\ status' = status /\ my_node[t] \in Int /\ node_n \in Int
  BY <1>1, <1>2 DEF shared, ThreadType
<1>5. /\ my_node' \in [Threads -> Int] /\ my_node'[t] = node_n
      /\ \A s \in Threads : s # t => my_node'[s] = my_node[s]
  BY <1>1, <1>2 DEF ThreadType
<1>6. ThreadType' /\ Left' = Left
  BY <1>2, <1>3, <1>4, <1>5 DEF ThreadType, Left
<1>7. PlaceInv'
  BY <1>1, <1>2, <1>3, <1>4, <1>5, <1>6 DEF PlaceInv, HandoverInv
<1>8. ~Waiting(t) /\ \A s \in Threads : Waiting(s)' = Waiting(s)
  BY <1>1, <1>3, <1>4, <1>5 DEF Waiting
<1>9. LeadInv'
  BY <1>1, <1>2, <1>3, <1>4, <1>5, <1>6, <1>8 DEF LeadInv, HandoverInv
<1>10. Counted' = Counted /\ Arriving' = Arriving
  BY <1>1, <1>2, <1>3, <1>8 DEF Counted, Arriving
<1>11. CountInv'
  BY <1>1, <1>2, <1>3, <1>4, <1>6, <1>10 DEF CountInv, HandoverInv, LeadInv
<1> QED
  BY <1>6, <1>7, <1>9, <1>11 DEF HandoverInv

\* A thread that takes part in a node goes on.
LEMMA SharerGoes ==
  ASSUME HandoverInv, NEW t \in Threads, pc[t] \in {"go", "compute"},
         NEW l \in {"compute", "check"}, Goto(t, l),
         UNCHANGED <<fixed, shared, my_node, status, aborting>>,
         my_node[t] < n_nodes
  PROVE  HandoverInv'
<1>1. ThreadType /\ l \in Labels /\ {l, pc[t]} \cap (Leading \cup {"spin", "arrive", "done", "publish"}) = {}
  BY DEF HandoverInv, Leading, Labels
<1>2. /\ pc' \in [Threads -> Labels] /\ pc'[t] = l /\ \A s \in Threads : s # t => pc'[s] = pc[s]
      /\ Threads' = Threads /\ n_nodes' = n_nodes /\ Nodes' = Nodes
      /\ cgraph' = cgraph /\ n_threads' = n_threads
  BY <1>1, Moved
<1>3. n_active' = n_active /\ node_n' = node_n /\ status' = status /\ my_node' = my_node
  BY DEF shared
<1>4. ThreadType' /\ Left' = Left /\ n_nodes \in Nat /\ my_node[t] \in Int
  BY <1>1, <1>2, <1>3, GraphFacts DEF ThreadType, Left
<1>5. 0 <= my_node[t]
  BY <1>4 DEF HandoverInv, PlaceInv, Nodes
<1>6. PlaceInv'
  BY <1>1, <1>2, <1>3, <1>4, <1>5 DEF PlaceInv, HandoverInv, Nodes
<1>7. \A s \in Threads : Waiting(s)' = Waiting(s)
  BY <1>1, <1>2, <1>3 DEF Waiting
<1>8. LeadInv'
  BY <1>1, <1>2, <1>3, <1>4, <1>7 DEF LeadInv, HandoverInv
<1>9. Counted' = Counted /\ Arriving' = Arriving
  BY <1>1, <1>2, <1>7 DEF Counted, Arriving
<1>10. CountInv'
  BY <1>1, <1>2, <1>3, <1>4, <1>9 DEF CountInv, HandoverInv, LeadInv
<1> QED
  BY <1>4, <1>6, <1>8, <1>10 DEF HandoverInv

\* A thread that finds the graph finished leaves.
LEMMA SuccessKeeps ==
  ASSUME HandoverInv, NEW t \in Threads, pc[t] = "go", my_node[t] >= n_nodes, Exit(t, "success"),
         UNCHANGED <<fixed, shared, my_node, aborting>>
  PROVE  HandoverInv'
<1>1. Goto(t, "done") /\ status' = [status EXCEPT ![t] = "success"]
  BY DEF Exit
<1>2. ThreadType /\ "done" \in Labels /\ {"done", "go"} \cap (Leading \cup {"spin", "arrive", "publish"}) = {}
  BY DEF HandoverInv, Leading, Labels
<1>3. /\ pc' \in [Threads -> Labels] /\ pc'[t] = "done" /\ \A s \in Threads : s # t => pc'[s] = pc[s]
      /\ Threads' = Threads /\ n_nodes' = n_nodes /\ Nodes' = Nodes
      /\ cgraph' = cgraph /\ n_threads' = n_threads
  BY <1>1, <1>2, Moved
<1>4. n_active' = n_active /\ node_n' = node_n /\ my_node' = my_node
  BY DEF shared
<1>5. /\ status' \in [Threads -> Statuses] /\ status'[t] = "success"
      /\ \A s \in Threads : s # t => status'[s] = status[s]
  BY <1>1, <1>2 DEF ThreadType, Statuses
<1>6. status[t] = "running"
  BY DEF HandoverInv, PlaceInv
<1>7. ThreadType' /\ Left' = Left
  BY <1>2, <1>3, <1>4, <1>5, <1>6 DEF ThreadType, Left
<1>8. PlaceInv'
  BY <1>2, <1>3, <1>4, <1>5, <1>6, <1>7 DEF PlaceInv, HandoverInv
<1>9. \A s \in Threads : Waiting(s)' = Waiting(s)
  BY <1>2, <1>3, <1>4 DEF Waiting
<1>10. LeadInv'
  BY <1>2, <1>3, <1>4, <1>7, <1>9 DEF LeadInv, HandoverInv
<1>11. Counted' = Counted /\ Arriving' = Arriving
  BY <1>2, <1>3, <1>9 DEF Counted, Arriving
<1>12. CountInv'
  BY <1>2, <1>3, <1>4, <1>7, <1>11 DEF CountInv, HandoverInv, LeadInv
<1> QED
  BY <1>7, <1>8, <1>10, <1>12 DEF HandoverInv

\* One thread less is one less to count.
LEMMA CardOneLess ==
  ASSUME ThreadType, NEW S \in SUBSET Threads, NEW t \in S
  PROVE  Cardinality(S \ {t}) = Cardinality(S) - 1
  BY ThreadFacts, FS_RemoveElement

\* Fewer threads are no more to count.
LEMMA CardInside ==
  ASSUME ThreadType, NEW S \in SUBSET Threads, NEW R \in SUBSET S
  PROVE  Cardinality(R) <= Cardinality(S)
  BY ThreadFacts, FS_Subset

\* The last thread to arrive, and the others before it.
LEMMA ArriveKeeps ==
  ASSUME HandoverInv, NEW t \in Threads, Arrive(t)
  PROVE  HandoverInv'
<1> DEFINE l == IF n_active # 1 THEN "spin"
                ELSE IF my_node[t] # -1 /\ Node(my_node[t]).op \in HAS_FINALIZE THEN "finalize"
                ELSE "distribute"
<1>1. /\ l \in {"spin", "finalize", "distribute"} /\ (l = "spin" <=> n_active # 1)
      /\ (l = "finalize" => my_node[t] # -1)
  OBVIOUS
<1>2. pc[t] = "arrive" /\ Goto(t, l) /\ UNCHANGED <<fixed, node_n, my_node, status, aborting>>
      /\ n_active' = n_active - 1
  BY DEF Arrive
<1> HIDE DEF l
<1>3. ThreadType /\ l \in Labels /\ (l \in Leading <=> l # "spin") /\ pc[t] \notin Leading
      /\ "spin" \notin Leading
  BY <1>1, <1>2 DEF HandoverInv, Leading, Labels
<1>4. /\ pc' \in [Threads -> Labels] /\ pc'[t] = l /\ \A s \in Threads : s # t => pc'[s] = pc[s]
      /\ Threads' = Threads /\ n_nodes' = n_nodes /\ Nodes' = Nodes
      /\ cgraph' = cgraph /\ n_threads' = n_threads
  BY <1>2, <1>3, Moved
<1>5. node_n' = node_n /\ my_node' = my_node /\ status' = status /\ my_node[t] \in Int /\ n_nodes \in Nat
      /\ n_active \in Int /\ node_n \in Int
  BY <1>2, <1>3, GraphFacts DEF ThreadType
<1>6. ThreadType' /\ Left' = Left
  BY <1>2, <1>3, <1>4, <1>5 DEF ThreadType, Left
<1>7. PlaceInv'
  BY <1>1, <1>2, <1>3, <1>4, <1>5, <1>6 DEF PlaceInv, HandoverInv, Nodes
<1>8. t \in Counted /\ t \in Arriving /\ ~Waiting(t)
      /\ \A s \in Threads : s # t => Waiting(s)' = Waiting(s)
  BY <1>2, <1>3, <1>4, <1>5 DEF Counted, Arriving, Waiting
<1>9. Counted \in SUBSET Threads /\ Arriving \in SUBSET Threads
  BY DEF Counted, Arriving
<1>10. CASE Left = {}
  <2>1. \A s \in Threads : pc[s] \notin Leading /\ pc[s] # "publish"
    BY <1>3, <1>8, <1>10 DEF HandoverInv, LeadInv, Leading
  <2>2. my_node[t] = node_n /\ n_active = Cardinality(Counted)
    BY <1>2, <1>10, <2>1 DEF HandoverInv, LeadInv, CountInv
  <2>3. CASE n_active # 1
    <3>1. l = "spin" /\ Waiting(t)'
      BY <1>1, <1>4, <1>5, <2>2, <2>3 DEF Waiting
    <3>2. Counted' = Counted \ {t}
      BY <1>3, <1>4, <1>8, <3>1 DEF Counted
    <3>3. n_active' = Cardinality(Counted')
      BY <1>2, <1>3, <1>8, <1>9, <2>2, <3>2, CardOneLess
    <3>4. \A s \in Threads : pc'[s] \notin Leading /\ pc'[s] # "publish"
      BY <1>3, <1>4, <2>1, <3>1
    <3>5. LeadInv'
      BY <1>4, <1>5, <1>6, <1>10, <2>1, <3>1, <3>4 DEF LeadInv, HandoverInv
    <3>6. CountInv'
      BY <1>4, <1>6, <1>10, <3>3, <3>4 DEF CountInv
    <3> QED
      BY <1>6, <1>7, <3>5, <3>6 DEF HandoverInv
  <2>4. CASE n_active = 1
    <3>1. Counted \ {t} = {}
      <4>1. Cardinality(Counted \ {t}) = 0 /\ Counted \ {t} \in SUBSET Threads
        <5>1. Cardinality(Counted \ {t}) = Cardinality(Counted) - 1
          BY <1>3, <1>8, <1>9, CardOneLess
        <5> QED
          BY <1>9, <2>2, <2>4, <5>1
      <4> QED
        BY <1>3, <4>1, ThreadFacts
    <3>2. \A s \in Threads : s # t => Waiting(s) /\ Waiting(s)'
      BY <1>8, <2>1, <3>1 DEF Counted
    <3>3. l \in {"finalize", "distribute"} /\ l \in Leading
      BY <1>1, <1>3, <2>4
    <3>4. Counted' = {}
      BY <1>4, <3>2, <3>3 DEF Counted
    <3>5. n_active' = Cardinality(Counted')
      <4>1. Cardinality({}) = 0
        BY FS_EmptySet
      <4> QED
        BY <1>2, <2>4, <3>4, <4>1
    <3>6. \A s \in Threads : s # t => pc'[s] = "spin"
      BY <1>4, <3>2 DEF Waiting
    <3>7. LeadInv'
      BY <1>3, <1>4, <1>5, <1>6, <1>10, <2>2, <3>2, <3>3, <3>6 DEF LeadInv
    <3>8. CountInv'
      BY <1>4, <1>6, <1>10, <3>3, <3>5, <3>6 DEF CountInv
    <3> QED
      BY <1>6, <1>7, <3>7, <3>8 DEF HandoverInv
  <2> QED
    BY <2>3, <2>4
<1>11. CASE Left # {}
  <2>1. /\ Cardinality(Arriving) < n_active /\ n_active <= n_threads
        /\ aborting /\ \A s \in Threads : pc[s] \notin Leading
    BY <1>11 DEF HandoverInv, LeadInv, CountInv
  <2>2. Cardinality(Arriving \ {t}) = Cardinality(Arriving) - 1 /\ Cardinality(Arriving) \in Nat
        /\ Cardinality(Arriving \ {t}) \in Nat
    <3>1. Arriving \ {t} \in SUBSET Threads
      BY <1>9
    <3> QED
      BY <1>3, <1>8, <1>9, <3>1, CardOneLess, ThreadFacts
  <2>3. l = "spin"
    BY <1>1, <1>5, <2>1, <2>2
  <2>4. Arriving' = Arriving \ {t}
    BY <1>4, <2>3 DEF Arriving
  <2>5. CountInv'
    BY <1>2, <1>3, <1>4, <1>5, <1>6, <1>11, <2>1, <2>2, <2>4, ThreadFacts DEF CountInv
  <2>6. LeadInv'
    BY <1>2, <1>3, <1>4, <1>6, <1>11, <2>1, <2>3 DEF LeadInv
  <2> QED
    BY <1>6, <1>7, <2>5, <2>6 DEF HandoverInv
<1> QED
  BY <1>10, <1>11

\* While nobody wants to abort a thread goes on to arrive; otherwise it leaves.
LEMMA CheckKeeps ==
  ASSUME HandoverInv, NEW t \in Threads, Check(t)
  PROVE  HandoverInv'
<1>1. pc[t] = "check" /\ UNCHANGED <<fixed, n_active, my_node, aborting>>
  BY DEF Check
<1>2. ThreadType /\ {"check", "arrive", "done"} \subseteq Labels
      /\ {"check", "arrive", "done"} \cap (Leading \cup {"spin", "publish"}) = {}
  BY DEF HandoverInv, Leading, Labels
<1>3. status[t] = "running" /\ ~Waiting(t) /\ t \in Counted /\ t \notin Arriving /\ t \notin Left
      /\ my_node[t] \in Int /\ node_n \in Int /\ n_active \in Int /\ n_nodes \in Nat
  BY <1>1, <1>2, GraphFacts DEF HandoverInv, PlaceInv, Waiting, Counted, Arriving, Left, ThreadType
<1>4. CASE ~aborting
  <2>1. Goto(t, "arrive") /\ node_n' = node_n /\ status' = status
    BY <1>4 DEF Check
  <2>2. /\ pc' \in [Threads -> Labels] /\ pc'[t] = "arrive" /\ \A s \in Threads : s # t => pc'[s] = pc[s]
        /\ Threads' = Threads /\ n_nodes' = n_nodes /\ Nodes' = Nodes
        /\ cgraph' = cgraph /\ n_threads' = n_threads
    BY <1>1, <1>2, <2>1, Moved
  <2>3. ThreadType' /\ Left' = Left /\ Left = {}
    BY <1>1, <1>2, <1>4, <2>1, <2>2 DEF ThreadType, Left, HandoverInv, LeadInv
  <2>4. PlaceInv'
    BY <1>1, <1>2, <1>3, <2>1, <2>2, <2>3 DEF PlaceInv, HandoverInv
  <2>5. \A s \in Threads : Waiting(s)' = Waiting(s)
    BY <1>1, <2>1, <2>2 DEF Waiting
  <2>6. LeadInv'
    BY <1>1, <1>2, <2>1, <2>2, <2>3, <2>5 DEF LeadInv, HandoverInv
  <2>7. Counted' = Counted
    BY <1>1, <1>2, <2>2, <2>5 DEF Counted
  <2>8. CountInv'
    BY <1>1, <1>2, <2>2, <2>3, <2>7 DEF CountInv, HandoverInv, LeadInv
  <2> QED
    BY <2>3, <2>4, <2>6, <2>8 DEF HandoverInv
<1>5. CASE aborting
  <2>1. Goto(t, "done") /\ node_n' = node_n + 1 /\ status' = [status EXCEPT ![t] = "aborted"]
    BY <1>5 DEF Check, Exit
  <2>2. /\ pc' \in [Threads -> Labels] /\ pc'[t] = "done" /\ \A s \in Threads : s # t => pc'[s] = pc[s]
        /\ Threads' = Threads /\ n_nodes' = n_nodes /\ Nodes' = Nodes
        /\ cgraph' = cgraph /\ n_threads' = n_threads
    BY <1>1, <1>2, <2>1, Moved
  <2>3. /\ status' \in [Threads -> Statuses] /\ status'[t] = "aborted"
        /\ \A s \in Threads : s # t => status'[s] = status[s]
    BY <1>2, <2>1 DEF ThreadType, Statuses
  <2>4. ThreadType' /\ Left' = Left \cup {t} /\ Arriving' = Arriving
    BY <1>1, <1>2, <2>1, <2>2, <2>3 DEF ThreadType, Left, Arriving
  <2>5. \A s \in Threads : pc[s] \notin Leading
    BY <1>1, <1>2, <1>3 DEF HandoverInv, LeadInv
  <2>6. /\ Left \in SUBSET Threads /\ Left' \in SUBSET Threads /\ Left' \ {t} = Left
        /\ Counted \in SUBSET Threads /\ Arriving \in SUBSET (Counted \ {t}) /\ t \in Left'
        /\ Arriving \in SUBSET Threads
    BY <1>2, <1>3, <2>4, <2>5 DEF Left, Counted, Arriving, Waiting
  <2>7. Cardinality(Left) = Cardinality(Left') - 1 /\ Cardinality(Left) \in Nat /\ Cardinality(Left') \in Nat
    BY <1>2, <2>6, CardOneLess, ThreadFacts
  <2>8. PlaceInv'
    <3>1. -1 <= node_n /\ node_n <= n_nodes + Cardinality(Left)
      BY DEF HandoverInv, PlaceInv
    <3>2. -1 <= node_n' /\ node_n' <= n_nodes + Cardinality(Left')
      BY <1>3, <2>1, <2>7, <3>1
    <3>3. ASSUME NEW s \in Threads
          PROVE  /\ -1 <= my_node[s] /\ my_node[s] \in Int /\ my_node[s] <= node_n
                 /\ my_node'[s] = my_node[s]
                 /\ pc'[s] \notin Leading /\ my_node[s] <= node_n'
      BY <1>1, <1>2, <1>3, <2>1, <2>2, <2>5 DEF HandoverInv, PlaceInv, ThreadType
    <3>4. ASSUME NEW s \in Threads
          PROVE  /\ pc'[s] \in {"check", "arrive", "distribute"} => my_node[s] < n_nodes
                 /\ pc'[s] = "compute" => my_node[s] \in Nodes
                 /\ pc'[s] = "go" => 0 <= my_node[s]
                 /\ pc'[s] = "done" <=> status'[s] # "running"
      BY <1>1, <2>2, <2>3 DEF HandoverInv, PlaceInv
    <3>5. {"restore", "publish", "finalize", "init", "solo", "soloFinalize", "soloCheck"} \subseteq Leading
      BY DEF Leading
    <3> QED
      BY <2>2, <3>2, <3>3, <3>4, <3>5 DEF PlaceInv
  <2>9. LeadInv'
    BY <1>1, <1>2, <1>5, <2>2, <2>4, <2>5 DEF LeadInv
  <2>10. Cardinality(Arriving) < n_active /\ n_active <= n_threads
    <3>1. CASE Left = {}
      <4>1. n_active = Cardinality(Counted)
        BY <2>5, <3>1 DEF HandoverInv, CountInv, Leading
      <4>2. Cardinality(Counted \ {t}) = Cardinality(Counted) - 1 /\ Cardinality(Counted) \in 0 .. n_threads
        BY <1>2, <1>3, <2>6, CardOneLess, ThreadFacts
      <4>3. Cardinality(Arriving) <= Cardinality(Counted \ {t})
        <5>1. Counted \ {t} \in SUBSET Threads
          BY <2>6
        <5> QED
          BY <1>2, <2>6, <5>1, CardInside
      <4>4. Cardinality(Arriving) \in Nat /\ n_threads \in Nat
        BY <1>2, <2>6, ThreadFacts
      <4> QED
        BY <4>1, <4>2, <4>3, <4>4
    <3>2. CASE Left # {}
      BY <3>2 DEF HandoverInv, CountInv
    <3> QED
      BY <3>1, <3>2
  <2>11. CountInv'
    BY <1>1, <2>2, <2>4, <2>6, <2>10 DEF CountInv
  <2> QED
    BY <2>4, <2>8, <2>9, <2>11 DEF HandoverInv
<1> QED
  BY <1>4, <1>5

\* At the start nobody is alone and all threads are counted.
LEMMA HandoverInitially == Init => HandoverInv
<1> SUFFICES ASSUME Init PROVE HandoverInv
  OBVIOUS
<1>1. ThreadType
  BY ThreadsAssumption DEF Init, ThreadType, Labels, Statuses, Threads
<1>2. n_nodes \in Nat \ {0} /\ Left = {} /\ Counted = Threads /\ Cardinality(Left) \in Nat
      /\ "check" \notin Leading
  <2>1. n_nodes \in Nat \ {0}
    BY <1>1, GraphFacts DEF ThreadType
  <2>2. \A t \in Threads : status[t] = "running" /\ pc[t] = "check"
    BY DEF Init
  <2>3. Left = {} /\ Counted = Threads
    BY <2>2 DEF Left, Counted, Waiting, Leading
  <2>4. Cardinality({}) = 0
    BY FS_EmptySet
  <2> QED
    BY <2>1, <2>3, <2>4 DEF Leading
<1>3. PlaceInv
  BY <1>1, <1>2 DEF Init, PlaceInv
<1>4. LeadInv
  BY <1>2 DEF Init, LeadInv
<1>5. CountInv
  BY <1>1, <1>2, ThreadFacts DEF Init, CountInv
<1> QED
  BY <1>1, <1>3, <1>4, <1>5 DEF HandoverInv

\* What else may happen leaves the threads and counters alone.
LEMMA OthersKeep ==
  ASSUME HandoverInv, UNCHANGED <<fixed, shared, pc, my_node, status>>, aborting => aborting'
  PROVE  HandoverInv'
<1>1. ThreadType' /\ Threads' = Threads /\ n_nodes' = n_nodes /\ Nodes' = Nodes
  BY DEF HandoverInv, ThreadType, fixed, shared, Threads, n_nodes, Nodes
<1>2. /\ Left' = Left /\ Counted' = Counted /\ Arriving' = Arriving
      /\ \A s \in Threads : Waiting(s)' = Waiting(s)
  BY <1>1 DEF Left, Counted, Arriving, Waiting, shared
<1>3. PlaceInv' /\ LeadInv' /\ CountInv'
  BY <1>1, <1>2 DEF HandoverInv, PlaceInv, LeadInv, CountInv, shared, fixed
<1> QED
  BY <1>1, <1>3 DEF HandoverInv

\* Every step of the call keeps the hand-over.
LEMMA HandoverStep == HandoverInv /\ [Next]_vars => HandoverInv'
<1> SUFFICES ASSUME HandoverInv, [Next]_vars PROVE HandoverInv'
  OBVIOUS
<1>1. CASE Join \/ Abort \/ Returned \/ UNCHANGED vars
  BY <1>1, OthersKeep DEF Join, Abort, Returned, vars
<1>2. ASSUME NEW t \in Threads, Thread(t)
      PROVE  HandoverInv'
  <2>1. CASE Check(t)
    BY <2>1, CheckKeeps
  <2>2. CASE Arrive(t)
    BY <2>2, ArriveKeeps
  <2>3. CASE Distribute(t)
    BY <2>3, DistributeKeeps
  <2>4. CASE RestoreActive(t)
    BY <2>4, RestoreKeeps
  <2>5. CASE Publish(t)
    BY <2>5, PublishKeeps
  <2>6. CASE Spin(t)
    BY <2>6, SpinKeeps
  <2>7. CASE Go(t)
    <3>1. my_node[t] \in Int /\ n_nodes \in Nat
      BY GraphFacts DEF HandoverInv, ThreadType
    <3>2. CASE my_node[t] >= n_nodes
      BY <2>7, <3>2, SuccessKeeps DEF Go
    <3>3. CASE my_node[t] < n_nodes
      <4>1. PICK l \in {"compute", "check"} : Goto(t, l)
        BY <2>7, <3>1, <3>3 DEF Go
      <4> QED
        BY <2>7, <3>1, <3>3, <4>1, SharerGoes DEF Go
    <3> QED
      BY <3>1, <3>2, <3>3
  <2>8. CASE Compute(t)
    <3>1. my_node[t] < n_nodes
      BY <2>8, GraphFacts DEF Compute, HandoverInv, PlaceInv, ThreadType, Nodes
    <3> QED
      BY <2>8, <3>1, SharerGoes DEF Compute
  <2>9. CASE Finalize(t)
    <3>1. my_node[t] < n_nodes
      BY <2>9, GraphFacts DEF Finalize, HandoverInv, PlaceInv, ThreadType, Nodes
    <3> QED
      BY <2>9, <3>1, AloneGoes DEF Finalize, Leading
  <2>10. CASE InitPass(t) \/ Solo(t) \/ SoloFinalize(t) \/ SoloCheck(t)
    <3>1. pc[t] \in {"init", "solo", "soloFinalize", "soloCheck"}
      BY <2>10 DEF InitPass, Solo, SoloFinalize, SoloCheck
    <3>2. my_node[t] \in Nodes /\ 0 <= my_node[t] /\ my_node[t] < n_nodes
      BY <3>1, GraphFacts DEF HandoverInv, PlaceInv, ThreadType, Nodes
    <3>3. PICK l \in {"solo", "soloFinalize", "soloCheck", "restore", "distribute"} : Goto(t, l)
      BY <2>10 DEF InitPass, Solo, SoloFinalize, SoloCheck, AfterInit
    <3>4. UNCHANGED <<fixed, shared, my_node, status, aborting>>
      BY <2>10 DEF InitPass, Solo, SoloFinalize, SoloCheck
    <3> QED
      BY <3>1, <3>2, <3>3, <3>4, AloneGoes DEF Leading
  <2> QED
    BY <1>2, <2>1, <2>2, <2>3, <2>4, <2>5, <2>6, <2>7, <2>8, <2>9, <2>10 DEF Thread
<1> QED
  BY <1>1, <1>2 DEF Next

-----------------------------------------------------------------------------
(* What the passes of a node do to the data.                               *)

\* An operation that prepares the work buffer has an INIT pass.
LEMMA PreparationInInit ==
  ASSUME NEW x, PreparesWork(x)
  PROVE  x.op \in HAS_INIT
  BY DEF PreparesWork, HAS_INIT

\* The INIT pass of a node that was never written leaves its units unwritten.
LEMMA InitEffect ==
  ASSUME DataType, UNCHANGED fixed, NEW k \in Nodes, RunInit(k), Times(k, 0),
         UNCHANGED <<compute_status, aborting>>
  PROVE  /\ DataType' /\ Times(k, 0)' /\ Prepared(k)'
         /\ \A j \in Nodes : /\ \A n : Times(j, n)' = Times(j, n)
                             /\ Computed(j) => Computed(j)'
<1>1. \A j : Node(j)' = Node(j) /\ Nodes' = Nodes
  BY DEF fixed, Node, Nodes, n_nodes
<1>2. /\ DOMAIN written' = Nodes /\ \A j \in Nodes : written'[j] = written[j]
  <2>1. CASE InitFillsDst(Node(k))
    <3>1. written' = [written EXCEPT ![k] = [u \in Units(Node(k)) |-> 0]]
      BY <2>1 DEF RunInit
    <3>2. written[k] = [u \in Units(Node(k)) |-> 0]
      <4>1. written[k] \in [Units(Node(k)) -> 0 .. 2] /\ \A u \in Units(Node(k)) : written[k][u] = 0
        BY DEF DataType, Times
      <4> QED
        BY <4>1
    <3> QED
      BY <3>1, <3>2 DEF DataType
  <2>2. CASE ~InitFillsDst(Node(k))
    BY <2>2 DEF RunInit, DataType
  <2> QED
    BY <2>1, <2>2
<1>3. /\ inited' = inited \cup {k} /\ finalized' = finalized
      /\ wdata' = IF PreparesWork(Node(k)) THEN k ELSE wdata
  BY DEF RunInit
<1>4. DataType'
  BY <1>1, <1>2, <1>3 DEF DataType
<1>5. \A j \in Nodes : \A n : Times(j, n)' = Times(j, n)
  BY <1>1, <1>2 DEF Times
<1>6. \A j \in Nodes : Computed(j) => Computed(j)'
  BY <1>1, <1>2, <1>3 DEF Computed
<1>7. Prepared(k)'
  BY <1>1, <1>3 DEF Prepared, Ready
<1> QED
  BY <1>4, <1>5, <1>6, <1>7

\* The FINALIZE pass writes no unit, and completes the node.
LEMMA FinalizeEffect ==
  ASSUME DataType, UNCHANGED fixed, NEW k \in Nodes, RunFinalize(k), UNCHANGED <<compute_status, aborting>>
  PROVE  /\ DataType'
         /\ Times(k, 1) /\ Ready(k) => Finished(k)'
         /\ \A j \in Nodes : /\ \A n : Times(j, n)' = Times(j, n)
                             /\ Computed(j) => Computed(j)'
<1>1. \A j : Node(j)' = Node(j) /\ Nodes' = Nodes
  BY DEF fixed, Node, Nodes, n_nodes
<1>2. finalized' = finalized \cup {k} /\ UNCHANGED <<inited, written, wdata>>
  BY DEF RunFinalize
<1>3. DataType'
  BY <1>1, <1>2 DEF DataType
<1>4. \A j \in Nodes : /\ \A n : Times(j, n)' = Times(j, n)
                       /\ Computed(j) => Computed(j)'
  BY <1>1, <1>2 DEF Times, Computed
<1>5. Times(k, 1) /\ Ready(k) => Finished(k)'
  BY <1>1, <1>2, <1>4 DEF Times, Computed, Finished, Ready
<1> QED
  BY <1>3, <1>4, <1>5

\* The COMPUTE pass writes the share of one task, and takes no value away.
LEMMA ComputeEffect ==
  ASSUME DataType, UNCHANGED fixed, NEW k \in Nodes, NEW ith, NEW nth, RunCompute(k, ith, nth),
         UNCHANGED <<compute_status, aborting>>
  PROVE  /\ DataType'
         /\ \A u \in Units(Node(k)) : written'[k][u] =
               IF u \in compute_forward(ith, nth, Node(k)) THEN MIN(written[k][u] + 1, 2)
               ELSE written[k][u]
         /\ \A j \in Nodes : j # k => \A n : Times(j, n)' = Times(j, n)
         /\ \A j \in Nodes : Computed(j) => Computed(j)'
         /\ Ready(k) => Ready(k)'
         /\ Prepared(k) => Prepared(k)'
<1>1. \A j : Node(j)' = Node(j) /\ Nodes' = Nodes
  BY DEF fixed, Node, Nodes, n_nodes
<1> DEFINE fresh == [u \in Units(Node(k)) |->
                       IF u \in compute_forward(ith, nth, Node(k)) THEN MIN(written[k][u] + 1, 2)
                       ELSE written[k][u]]
<1>2. written' = [written EXCEPT ![k] = fresh] /\ UNCHANGED <<inited, finalized>>
      /\ wdata' \in {wdata, Scratch} /\ (wdata = k => wdata' = k)
  BY DEF RunCompute
<1>3. fresh \in [Units(Node(k)) -> 0 .. 2]
  <2>1. \A u \in Units(Node(k)) : written[k][u] \in 0 .. 2
    BY DEF DataType
  <2> QED
    BY <2>1 DEF MIN
<1>4. \A u \in Units(Node(k)) : fresh[u] = (IF u \in compute_forward(ith, nth, Node(k))
                                              THEN MIN(written[k][u] + 1, 2) ELSE written[k][u])
                                /\ (written[k][u] > 0 => fresh[u] > 0)
  <2>1. \A u \in Units(Node(k)) : written[k][u] \in 0 .. 2
    BY DEF DataType
  <2> QED
    BY <2>1 DEF MIN
<1> HIDE DEF fresh
<1>5. /\ DOMAIN written' = Nodes /\ written'[k] = fresh
      /\ \A j \in Nodes : j # k => written'[j] = written[j]
  BY <1>2 DEF DataType
<1>6. DataType'
  BY <1>1, <1>2, <1>3, <1>5 DEF DataType
<1>7. \A j \in Nodes : j # k => \A n : Times(j, n)' = Times(j, n)
  BY <1>1, <1>5 DEF Times
<1>8. \A j \in Nodes : Computed(j) => Computed(j)'
  BY <1>1, <1>2, <1>4, <1>5 DEF Computed
<1>9. (Ready(k) => Ready(k)') /\ (Prepared(k) => Prepared(k)')
  BY <1>1, <1>2 DEF Ready, Prepared
<1> QED
  BY <1>4, <1>5, <1>6, <1>7, <1>8, <1>9

\* A step without a pass changes no node.
LEMMA DataUntouched ==
  ASSUME DataType, UNCHANGED <<fixed, passes>>
  PROVE  /\ \A j : Node(j)' = Node(j) /\ Tasks(j)' = Tasks(j)
         /\ \A j : /\ \A n : Times(j, n)' = Times(j, n)
                   /\ Computed(j)' = Computed(j) /\ Finished(j)' = Finished(j)
                   /\ Ready(j)' = Ready(j) /\ Prepared(j)' = Prepared(j)
<1>1. \A j : Node(j)' = Node(j) /\ Tasks(j)' = Tasks(j)
  BY DEF fixed, Node, Tasks
<1> QED
  BY <1>1 DEF passes, Times, Computed, Finished, Ready, Prepared

-----------------------------------------------------------------------------
(* The data is handed over: a step of the thread that is alone.            *)

\* While a thread is alone nobody has left and all others wait.
LEMMA Roles ==
  ASSUME HandoverInv
  PROVE  /\ \A t \in Threads : pc[t] \in Leading =>
               Left = {} /\ \A s \in Threads : s # t => pc[s] = "spin" /\ my_node[s] = node_n
                                                        /\ pc[s] \notin Leading
         /\ ~aborting => Left = {}
         /\ \A t \in Threads, s \in Threads :
               pc[t] \notin Leading /\ ~Waiting(t) => pc[s] \notin Leading
         /\ Left = {} /\ (\A t \in Threads : pc[t] \notin Leading) =>
               \A t \in Threads : pc[t] = "spin" \/ my_node[t] = node_n
BY DEF HandoverInv, LeadInv, Waiting, Leading

\* A step after which the same thread is alone.
LEMMA StaysAlone ==
  ASSUME HandoverInv, NEW t \in Threads, pc[t] \in Leading, NEW l \in Leading, Goto(t, l),
         UNCHANGED <<fixed, shared, status, aborting>>,
         \A k \in Nodes : my_node'[t] < k \/ (l = "init" /\ my_node'[t] = k) => Times(k, 0)',
         ~aborting => AloneInv(t)'
  PROVE  ZeroInv' /\ OrderInv'
<1>1. ThreadType /\ l \in Labels
  BY DEF HandoverInv, Leading, Labels
<1>2. /\ pc'[t] = l /\ \A s \in Threads : s # t => pc'[s] = pc[s]
      /\ Threads' = Threads /\ Nodes' = Nodes
  BY <1>1, Moved
<1>3. \A s \in Threads : pc'[s] \in Leading => s = t
  BY <1>2, Roles
<1>4. ZeroInv'
  BY <1>2, <1>3 DEF ZeroInv
<1>5. OrderInv'
  BY <1>2, <1>3 DEF OrderInv
<1> QED
  BY <1>4, <1>5

\* The nodes after the one where the thread is.
LEMMA LaterZero ==
  ASSUME HandoverInv, ZeroInv, NEW t \in Threads, pc[t] \in Leading
  PROVE  \A k \in Nodes : my_node[t] < k \/ (pc[t] = "init" /\ my_node[t] = k) => Times(k, 0)
  BY Roles DEF ZeroInv

\* What is finished stays so, at every node whose units are not written.
LEMMA StaysFinished ==
  ASSUME NEW j, Times(j, 1)' = Times(j, 1), Computed(j) => Computed(j)', Finished(j)
  PROVE  Finished(j)'
  BY DEF Finished

\* The thread that is alone runs a FINALIZE pass.
LEMMA FinalizeData ==
  ASSUME ComputeInv, NEW t \in Threads, Finalize(t) \/ SoloFinalize(t)
  PROVE  DataType' /\ ZeroInv' /\ OrderInv'
<1>1. PICK l \in {"distribute", "soloCheck"} : Goto(t, l)
  BY DEF Finalize, SoloFinalize
<1>2. PICK m : m = my_node[t]
  OBVIOUS
<1>3. /\ pc[t] \in {"finalize", "soloFinalize"} /\ RunFinalize(m)
      /\ UNCHANGED fixed /\ UNCHANGED <<compute_status, aborting>>
      /\ UNCHANGED <<fixed, shared, status, aborting>> /\ my_node' = my_node
  BY <1>2 DEF Finalize, SoloFinalize
<1>4. HandoverInv /\ DataType /\ ZeroInv /\ OrderInv /\ pc[t] \in Leading /\ l \in Leading
      /\ l \in Labels /\ ThreadType
  BY <1>1, <1>3 DEF ComputeInv, Leading, HandoverInv, Labels
<1>5. m \in Nodes
  BY <1>2, <1>3, <1>4 DEF HandoverInv, PlaceInv
<1>6. pc'[t] = l /\ Nodes' = Nodes
  BY <1>1, <1>3, <1>4, Moved
<1>7. /\ DataType' /\ (Times(m, 1) /\ Ready(m) => Finished(m)')
      /\ \A j \in Nodes : /\ \A n : Times(j, n)' = Times(j, n)
                          /\ Computed(j) => Computed(j)'
  BY <1>3, <1>4, <1>5, FinalizeEffect
<1>8. \A j \in Nodes : Finished(j) => Finished(j)'
  BY <1>7, StaysFinished
<1>9. \A k \in Nodes : my_node'[t] < k \/ (l = "init" /\ my_node'[t] = k) => Times(k, 0)'
  BY <1>1, <1>3, <1>4, <1>7, LaterZero
<1>10. ASSUME ~aborting PROVE AloneInv(t)'
  <2>1. AloneInv(t)
    BY <1>4, <1>10 DEF OrderInv
  <2>2. \A j \in 0 .. m - 1 : j \in Nodes /\ Finished(j)
    <3>1. m \in 0 .. n_nodes - 1 /\ n_nodes \in Nat
      BY <1>4, <1>5, GraphFacts DEF ThreadType, Nodes
    <3> QED
      BY <1>2, <2>1, <3>1 DEF AloneInv, Nodes
  <2>3. Finished(m)'
    BY <1>2, <1>3, <1>7, <2>1 DEF AloneInv
  <2> QED
    BY <1>1, <1>2, <1>3, <1>6, <1>8, <2>2, <2>3 DEF AloneInv
<1> QED
  BY <1>1, <1>3, <1>4, <1>7, <1>9, <1>10, StaysAlone

\* It asks whether to stop, or restores n_active.
LEMMA SoloCheckData ==
  ASSUME ComputeInv, NEW t \in Threads, SoloCheck(t) \/ RestoreActive(t)
  PROVE  DataType' /\ ZeroInv' /\ OrderInv'
<1>1. PICK l \in {"distribute", "restore", "publish"} : Goto(t, l)
  BY DEF SoloCheck, RestoreActive
<1>2. /\ pc[t] \in {"soloCheck", "restore"} /\ UNCHANGED <<fixed, passes>>
      /\ UNCHANGED <<fixed, node_n, my_node, status, compute_status, aborting>>
      /\ (~aborting => <<pc[t], l>> \in {<<"soloCheck", "distribute">>, <<"restore", "publish">>})
  <2>1. CASE SoloCheck(t)
    <3>1. ThreadType
      BY DEF ComputeInv, HandoverInv
    <3>2. ~aborting => pc'[t] = "distribute"
      BY <2>1, <3>1 DEF SoloCheck, Goto, ThreadType
    <3>3. pc'[t] = l
      BY <1>1, <3>1 DEF Goto, ThreadType
    <3> QED
      BY <2>1, <3>2, <3>3 DEF SoloCheck, shared
  <2>2. CASE RestoreActive(t)
    <3>1. ThreadType
      BY DEF ComputeInv, HandoverInv
    <3>2. pc'[t] = "publish" /\ pc'[t] = l
      BY <1>1, <2>2, <3>1 DEF RestoreActive, Goto, ThreadType
    <3> QED
      BY <2>2, <3>2 DEF RestoreActive
  <2> QED
    BY <2>1, <2>2
<1>3. HandoverInv /\ DataType /\ ZeroInv /\ OrderInv /\ pc[t] \in Leading /\ l \in Leading
      /\ l \in Labels /\ ThreadType /\ l # "init" /\ l # "solo"
  BY <1>1, <1>2 DEF ComputeInv, Leading, HandoverInv, Labels
<1>4. /\ pc'[t] = l /\ Nodes' = Nodes /\ \A s \in Threads : s # t => pc'[s] = pc[s]
      /\ Threads' = Threads
  BY <1>1, <1>2, <1>3, Moved
<1>5. /\ \A j : Node(j)' = Node(j) /\ Tasks(j)' = Tasks(j)
      /\ \A j : /\ \A n : Times(j, n)' = Times(j, n)
                /\ Computed(j)' = Computed(j) /\ Finished(j)' = Finished(j)
                /\ Ready(j)' = Ready(j) /\ Prepared(j)' = Prepared(j)
  BY <1>2, <1>3, DataUntouched
<1>6. DataType'
  BY <1>2, <1>3, <1>4, <1>5 DEF DataType, passes
<1>7. \A s \in Threads : pc'[s] \in Leading => s = t
  BY <1>3, <1>4, Roles
<1>8. ZeroInv'
  <2>1. \A k \in Nodes : my_node[t] < k => Times(k, 0)
    BY <1>3, LaterZero
  <2> QED
    BY <1>2, <1>3, <1>4, <1>5, <1>7, <2>1 DEF ZeroInv
<1>9. OrderInv'
  <2>1. CASE aborting
    BY <1>2, <2>1 DEF OrderInv
  <2>2. CASE ~aborting
    <3>1. AloneInv(t)
      BY <1>3, <2>2 DEF OrderInv
    <3>2. AloneInv(t)'
      BY <1>2, <1>3, <1>4, <1>5, <2>2, <3>1 DEF AloneInv
    <3> QED
      BY <1>3, <1>4, <1>7, <3>2 DEF OrderInv
  <2> QED
    BY <2>1, <2>2
<1> QED
  BY <1>6, <1>8, <1>9

\* It turns to the next node.
LEMMA DistributeData ==
  ASSUME ComputeInv, NEW t \in Threads, Distribute(t)
  PROVE  DataType' /\ ZeroInv' /\ OrderInv'
<1>1. PICK k : k = my_node[t] + 1
  OBVIOUS
<1>2. PICK l : l = IF k >= n_nodes THEN "restore"
                   ELSE IF Node(k).op \in HAS_INIT THEN "init" ELSE AfterInit(k)
  OBVIOUS
<1>3. /\ pc[t] = "distribute" /\ Goto(t, l) /\ my_node' = [my_node EXCEPT ![t] = k]
      /\ UNCHANGED <<fixed, passes>> /\ UNCHANGED <<fixed, shared, status, aborting>>
      /\ UNCHANGED compute_status
  BY <1>1, <1>2 DEF Distribute
<1>4. HandoverInv /\ DataType /\ ZeroInv /\ OrderInv /\ pc[t] \in Leading /\ l \in Leading
      /\ l \in Labels /\ ThreadType /\ l \in {"restore", "init", "solo"}
  BY <1>2, <1>3 DEF ComputeInv, Leading, HandoverInv, Labels, AfterInit
<1>5. /\ pc'[t] = l /\ Nodes' = Nodes /\ my_node'[t] = k
  BY <1>3, <1>4, Moved DEF ThreadType
<1>6. /\ \A j : Node(j)' = Node(j) /\ Tasks(j)' = Tasks(j)
      /\ \A j : /\ \A n : Times(j, n)' = Times(j, n)
                /\ Computed(j)' = Computed(j) /\ Finished(j)' = Finished(j)
                /\ Ready(j)' = Ready(j) /\ Prepared(j)' = Prepared(j)
  BY <1>3, <1>4, DataUntouched
<1>7. DataType'
  BY <1>3, <1>4, <1>5, <1>6 DEF DataType, passes
<1>8. n_nodes \in Nat /\ k - 1 = my_node[t] /\ k \in 0 .. n_nodes /\ Nodes \subseteq Nat
  BY <1>1, <1>3, <1>4, GraphFacts DEF ThreadType, HandoverInv, PlaceInv
<1>9. \A j \in Nodes : k - 1 < j => Times(j, 0)
  BY <1>4, <1>8, LaterZero
<1>10. \A j \in Nodes : my_node'[t] < j \/ (l = "init" /\ my_node'[t] = j) => Times(j, 0)'
  BY <1>5, <1>6, <1>8, <1>9
<1>11. ASSUME ~aborting PROVE AloneInv(t)'
  <2>1. AloneInv(t)
    BY <1>4, <1>11 DEF OrderInv
  <2>2. \A j \in 0 .. k - 1 : Finished(j)
    <3>1. \A j \in 0 .. (k - 1) - 1 : Finished(j)
      BY <1>8, <2>1 DEF AloneInv
    <3>2. k - 1 \in Nodes => Finished(k - 1)
      BY <1>3, <1>8, <2>1 DEF AloneInv
    <3>3. \A j \in 0 .. k - 1 : j \in 0 .. (k - 1) - 1 \/ (j = k - 1 /\ k - 1 \in Nodes)
      BY <1>8 DEF Nodes
    <3> QED
      BY <3>1, <3>2, <3>3
  <2>3. ASSUME k \in Nodes, l # "init"
        PROVE  Times(k, 0) /\ Prepared(k) /\ (l = "solo" => Tasks(k) = 1)
    <3>1. ~(k >= n_nodes)
      BY <1>8, <2>3 DEF Nodes
    <3>2. Node(k).op \notin HAS_INIT /\ l = AfterInit(k)
      BY <1>2, <2>3, <3>1
    <3>3. Times(k, 0)
      BY <1>8, <1>9, <2>3
    <3> QED
      BY <3>2, <3>3, PreparationInInit DEF Prepared, Ready, AfterInit
  <2>4. l = "solo" => k \in Nodes
    BY <1>2, <1>8 DEF Nodes, AfterInit
  <2> QED
    BY <1>4, <1>5, <1>6, <2>2, <2>3, <2>4 DEF AloneInv
<1> QED
  BY <1>3, <1>4, <1>7, <1>10, <1>11, StaysAlone

\* It runs the INIT pass.
LEMMA InitPassData ==
  ASSUME ComputeInv, NEW t \in Threads, InitPass(t)
  PROVE  DataType' /\ ZeroInv' /\ OrderInv'
<1>1. PICK m : m = my_node[t]
  OBVIOUS
<1>2. PICK l : l = AfterInit(m)
  OBVIOUS
<1>3. /\ pc[t] = "init" /\ Goto(t, l) /\ RunInit(m)
      /\ UNCHANGED fixed /\ UNCHANGED <<compute_status, aborting>>
      /\ UNCHANGED <<fixed, shared, status, aborting>> /\ my_node' = my_node
  BY <1>1, <1>2 DEF InitPass
<1>4. HandoverInv /\ DataType /\ ZeroInv /\ OrderInv /\ pc[t] \in Leading /\ l \in Leading
      /\ l \in Labels /\ ThreadType /\ l \in {"solo", "restore"} /\ (l = "solo" => Tasks(m) = 1)
  BY <1>2, <1>3 DEF ComputeInv, Leading, HandoverInv, Labels, AfterInit
<1>5. m \in Nodes
  BY <1>1, <1>3, <1>4 DEF HandoverInv, PlaceInv
<1>6. /\ pc'[t] = l /\ Nodes' = Nodes /\ \A k : Node(k)' = Node(k) /\ Tasks(k)' = Tasks(k)
  BY <1>3, <1>4, Moved
<1>7. Times(m, 0)
  BY <1>1, <1>3, <1>4, <1>5, LaterZero
<1>8. /\ DataType' /\ Times(m, 0)' /\ Prepared(m)'
      /\ \A j \in Nodes : /\ \A n : Times(j, n)' = Times(j, n)
                          /\ Computed(j) => Computed(j)'
  BY <1>3, <1>4, <1>5, <1>7, InitEffect
<1>9. \A j \in Nodes : Finished(j) => Finished(j)'
  BY <1>8, StaysFinished
<1>10. \A k \in Nodes : my_node'[t] < k \/ (l = "init" /\ my_node'[t] = k) => Times(k, 0)'
  BY <1>3, <1>4, <1>8, LaterZero
<1>11. ASSUME ~aborting PROVE AloneInv(t)'
  <2>1. AloneInv(t)
    BY <1>4, <1>11 DEF OrderInv
  <2>2. \A j \in 0 .. m - 1 : j \in Nodes /\ Finished(j)
    <3>1. m \in 0 .. n_nodes - 1 /\ n_nodes \in Nat
      BY <1>4, <1>5, GraphFacts DEF ThreadType, Nodes
    <3> QED
      BY <1>1, <2>1, <3>1 DEF AloneInv, Nodes
  <2> QED
    BY <1>1, <1>3, <1>4, <1>6, <1>8, <1>9, <2>2 DEF AloneInv
<1> QED
  BY <1>3, <1>4, <1>8, <1>10, <1>11, StaysAlone

\* The only task of a node writes all of it.
LEMMA OneTask ==
  ASSUME ThreadType, NEW m \in Nodes, Tasks(m) = 1
  PROVE  \A u \in Units(Node(m)) : u \in compute_forward(0, 1, Node(m))
<1>1. Node(m) \in Tensors
  BY GraphFacts DEF ThreadType
<1>2. 1 \in Nat \ {0} /\ \A t \in 0 .. 1 - 1 : t = 0
  OBVIOUS
<1> QED
  BY <1>1, <1>2, SharesCover

\* It runs the COMPUTE pass of a node with a single task.
LEMMA SoloData ==
  ASSUME ComputeInv, NEW t \in Threads, Solo(t)
  PROVE  DataType' /\ ZeroInv' /\ OrderInv'
<1>1. PICK m : m = my_node[t]
  OBVIOUS
<1>2. PICK l : l = IF Node(m).op \in HAS_FINALIZE THEN "soloFinalize" ELSE "soloCheck"
  OBVIOUS
<1>3. /\ pc[t] = "solo" /\ Goto(t, l) /\ RunCompute(m, 0, 1)
      /\ UNCHANGED fixed /\ UNCHANGED <<compute_status, aborting>>
      /\ UNCHANGED <<fixed, shared, status, aborting>> /\ my_node' = my_node
  BY <1>1, <1>2 DEF Solo
<1>4. HandoverInv /\ DataType /\ ZeroInv /\ OrderInv /\ pc[t] \in Leading /\ l \in Leading
      /\ l \in Labels /\ ThreadType /\ l \in {"soloFinalize", "soloCheck"}
  BY <1>2, <1>3 DEF ComputeInv, Leading, HandoverInv, Labels
<1>5. m \in Nodes
  BY <1>1, <1>3, <1>4 DEF HandoverInv, PlaceInv
<1>6. /\ pc'[t] = l /\ Nodes' = Nodes /\ \A k : Node(k)' = Node(k) /\ Tasks(k)' = Tasks(k)
  BY <1>3, <1>4, Moved
<1>7. /\ DataType'
      /\ \A u \in Units(Node(m)) : written'[m][u] =
            IF u \in compute_forward(0, 1, Node(m)) THEN MIN(written[m][u] + 1, 2)
            ELSE written[m][u]
      /\ \A j \in Nodes : j # m => \A n : Times(j, n)' = Times(j, n)
      /\ \A j \in Nodes : Computed(j) => Computed(j)'
      /\ Ready(m) => Ready(m)'
  BY <1>3, <1>4, <1>5, ComputeEffect
<1>8. \A j \in Nodes : j # m /\ Finished(j) => Finished(j)'
  BY <1>7, StaysFinished
<1>9. n_nodes \in Nat /\ m \in Int /\ Nodes \subseteq Nat
  BY <1>4, <1>5, GraphFacts DEF ThreadType, Nodes
<1>10. \A k \in Nodes : my_node'[t] < k \/ (l = "init" /\ my_node'[t] = k) => Times(k, 0)'
  <2>1. \A k \in Nodes : m < k => Times(k, 0)
    BY <1>1, <1>4, LaterZero
  <2>2. \A k \in Nodes : m < k => k # m
    BY <1>9
  <2> QED
    BY <1>1, <1>3, <1>4, <1>7, <2>1, <2>2
<1>11. ASSUME ~aborting PROVE AloneInv(t)'
  <2>1. AloneInv(t)
    BY <1>4, <1>11 DEF OrderInv
  <2>2. \A j \in 0 .. m - 1 : j \in Nodes /\ j # m /\ Finished(j)
    <3>1. m \in 0 .. n_nodes - 1 /\ n_nodes \in Nat
      BY <1>5, <1>9 DEF Nodes
    <3> QED
      BY <1>1, <2>1, <3>1 DEF AloneInv, Nodes
  <2>3. Times(m, 0) /\ Ready(m) /\ Tasks(m) = 1
    BY <1>1, <1>3, <2>1 DEF AloneInv, Prepared
  <2>4. \A u \in Units(Node(m)) : written'[m][u] = 1
    BY <1>4, <1>5, <1>7, <2>3, OneTask DEF Times, MIN
  <2>5. Times(m, 1)' /\ Ready(m)'
    BY <1>6, <1>7, <2>3, <2>4 DEF Times
  <2>6. l = "soloCheck" => Finished(m)'
    BY <1>2, <1>6, <2>5 DEF Finished, Computed, Ready, Times
  <2> QED
    BY <1>1, <1>3, <1>4, <1>6, <1>8, <2>2, <2>5, <2>6 DEF AloneInv
<1> QED
  BY <1>3, <1>4, <1>7, <1>10, <1>11, StaysAlone

\* The node that the threads share is published.
LEMMA PublishData ==
  ASSUME ComputeInv, NEW t \in Threads, Publish(t)
  PROVE  DataType' /\ ZeroInv' /\ OrderInv'
<1>1. PICK m : m = my_node[t]
  OBVIOUS
<1>2. /\ pc[t] = "publish" /\ Goto(t, "go") /\ node_n' = m /\ my_node' = my_node
      /\ UNCHANGED <<fixed, passes>> /\ UNCHANGED <<fixed, status, compute_status, aborting>>
  BY <1>1 DEF Publish
<1>3. HandoverInv /\ DataType /\ ZeroInv /\ OrderInv /\ pc[t] \in Leading /\ "go" \notin Leading
      /\ "go" \in Labels /\ ThreadType
  BY <1>2 DEF ComputeInv, Leading, HandoverInv, Labels
<1>4. /\ pc'[t] = "go" /\ \A s \in Threads : s # t => pc'[s] = pc[s]
      /\ Nodes' = Nodes /\ Threads' = Threads
  BY <1>2, <1>3, Moved
<1>5. \A s \in Threads : s # t => pc[s] = "spin" /\ my_node[s] = node_n /\ pc[s] \notin Leading
  BY <1>3, Roles
<1>6. /\ \A j : Node(j)' = Node(j) /\ Tasks(j)' = Tasks(j)
      /\ \A j : /\ \A n : Times(j, n)' = Times(j, n)
                /\ Computed(j)' = Computed(j) /\ Finished(j)' = Finished(j)
                /\ Ready(j)' = Ready(j) /\ Prepared(j)' = Prepared(j)
  BY <1>2, <1>3, DataUntouched
<1>7. DataType'
  BY <1>2, <1>3, <1>4, <1>6 DEF DataType, passes
<1>8. node_n # m
  BY <1>1, <1>2, <1>3, Roles DEF HandoverInv, LeadInv, ThreadType
<1>9. ZeroInv'
  <2>1. \A k \in Nodes : m < k => Times(k, 0)
    BY <1>1, <1>3, LaterZero
  <2> QED
    BY <1>2, <1>3, <1>4, <1>5, <1>6, <2>1 DEF ZeroInv
<1>10. ASSUME ~aborting PROVE SharedInv'
  <2>1. AloneInv(t)
    BY <1>3, <1>10 DEF OrderInv
  <2>2. \A j \in 0 .. m - 1 : Finished(j)
    BY <1>1, <2>1 DEF AloneInv
  <2>3. m \in Nodes => Times(m, 0) /\ Prepared(m)
    BY <1>1, <1>2, <2>1 DEF AloneInv
  <2>4. \A s \in Threads : ~Passed(s)' /\ pc'[s] # "compute"
    BY <1>1, <1>2, <1>4, <1>5, <1>8 DEF Passed
  <2>5. ASSUME m \in Nodes
        PROVE  /\ Prepared(m)'
               /\ \A u \in Units(Node(m)) : written'[m][u] = 0
    BY <1>2, <1>6, <2>3, <2>5 DEF Times, passes
  <2> QED
    BY <1>2, <1>4, <1>6, <2>2, <2>4, <2>5 DEF SharedInv
<1>11. OrderInv'
  BY <1>2, <1>3, <1>4, <1>5, <1>10 DEF OrderInv
<1> QED
  BY <1>7, <1>9, <1>11

-----------------------------------------------------------------------------
(* The data is handed over: the threads that share a node.                 *)

\* A step that neither touches the data nor adds to the shares that were written.
LEMMA StaysShared ==
  ASSUME ComputeInv, NEW t \in Threads, pc[t] \notin Leading, ~Waiting(t),
         NEW l \in Labels \ Leading, Goto(t, l),
         UNCHANGED <<fixed, passes>>, UNCHANGED <<node_n, compute_status, aborting>>,
         \A s \in Threads : s # t => my_node'[s] = my_node[s],
         Left' = {} => Left = {},
         ~aborting => /\ l = "compute" => t < Tasks(node_n)
                      /\ t < Tasks(node_n) => Passed(t)' = Passed(t)
  PROVE  DataType' /\ ZeroInv' /\ OrderInv'
<1>1. HandoverInv /\ DataType /\ ZeroInv /\ OrderInv /\ ThreadType
  BY DEF ComputeInv, HandoverInv
<1>2. /\ pc'[t] = l /\ \A s \in Threads : s # t => pc'[s] = pc[s]
      /\ Nodes' = Nodes /\ Threads' = Threads
  BY <1>1, Moved
<1>3. \A s \in Threads : pc[s] \notin Leading /\ pc'[s] \notin Leading
  BY <1>1, <1>2, Roles
<1>4. /\ \A j : Node(j)' = Node(j) /\ Tasks(j)' = Tasks(j)
      /\ \A j : /\ \A n : Times(j, n)' = Times(j, n)
                /\ Computed(j)' = Computed(j) /\ Finished(j)' = Finished(j)
                /\ Ready(j)' = Ready(j) /\ Prepared(j)' = Prepared(j)
  BY <1>1, DataUntouched
<1>5. DataType'
  BY <1>1, <1>2, <1>4 DEF DataType, passes
<1>6. ZeroInv'
  BY <1>1, <1>2, <1>3, <1>4 DEF ZeroInv
<1>7. ASSUME ~aborting PROVE SharedInv'
  <2>1. SharedInv
    BY <1>1, <1>3, <1>7 DEF OrderInv
  <2>2. \A s \in Threads : s < Tasks(node_n) => Passed(s)' = Passed(s)
    <3>1. \A s \in Threads : s # t => Passed(s)' = Passed(s)
      BY <1>2 DEF Passed
    <3> QED
      BY <1>7, <3>1
  <2>3. \A s \in Threads : pc'[s] = "compute" /\ node_n \in Nodes => s < Tasks(node_n)
    BY <1>2, <1>7, <2>1 DEF SharedInv
  <2>4. PICK n : n = node_n /\ n = node_n'
    OBVIOUS
  <2>5. \A s \in Threads : Share(s, n)' = Share(s, n)
    BY <1>4 DEF Share
  <2>6. ASSUME n \in Nodes
        PROVE  /\ Prepared(n)'
               /\ \A u \in Units(Node(n)) : written'[n][u] =
                    IF \E s \in Threads : Passed(s)' /\ s < Tasks(n) /\ u \in Share(s, n)
                      THEN 1 ELSE 0
    <3>1. /\ Prepared(n)
          /\ \A u \in Units(Node(n)) : written[n][u] =
                    IF \E s \in Threads : Passed(s) /\ s < Tasks(n) /\ u \in Share(s, n)
                      THEN 1 ELSE 0
      BY <2>1, <2>4, <2>6 DEF SharedInv
    <3> QED
      BY <1>4, <2>2, <2>4, <3>1 DEF passes
  <2>7. \A j \in 0 .. n - 1 : Finished(j)'
    BY <1>4, <2>1, <2>4 DEF SharedInv
  <2> QED
    BY <1>2, <1>4, <2>3, <2>4, <2>5, <2>6, <2>7 DEF SharedInv
<1>8. OrderInv'
  BY <1>2, <1>3, <1>7 DEF OrderInv
<1> QED
  BY <1>5, <1>6, <1>8

\* A thread at the top of its loop leaves, or goes on to arrive.
LEMMA CheckData ==
  ASSUME ComputeInv, NEW t \in Threads, Check(t)
  PROVE  DataType' /\ ZeroInv' /\ OrderInv'
<1>1. ThreadType /\ pc[t] = "check" /\ UNCHANGED <<fixed, passes>>
      /\ UNCHANGED <<compute_status, aborting>> /\ UNCHANGED my_node
  BY DEF ComputeInv, HandoverInv, Check
<1>2. CASE aborting
  <2>1. Goto(t, "done") /\ status' = [status EXCEPT ![t] = "aborted"]
    BY <1>2 DEF Check, Exit
  <2>2. Threads' = Threads /\ Nodes' = Nodes
    BY <1>1 DEF fixed, Threads, Nodes, n_nodes
  <2>3. t \in Left'
    BY <1>1, <2>1, <2>2 DEF Left, ThreadType
  <2>4. DataType'
    BY <1>1, <2>2, DataUntouched DEF ComputeInv, DataType, passes
  <2> QED
    BY <1>1, <1>2, <2>3, <2>4 DEF ZeroInv, OrderInv
<1>3. CASE ~aborting
  <2>1. Goto(t, "arrive") /\ UNCHANGED <<node_n, status>>
    BY <1>3 DEF Check
  <2>2. "arrive" \in Labels \ Leading /\ pc[t] \notin Leading /\ ~Waiting(t)
    BY <1>1 DEF Leading, Labels, Waiting
  <2>3. Left' = Left /\ pc'[t] = "arrive"
    BY <1>1, <2>1 DEF Left, Threads, fixed, Goto, ThreadType
  <2>4. Passed(t)' = Passed(t)
    BY <1>1, <2>1, <2>3 DEF Passed
  <2> QED
    BY <1>1, <2>1, <2>2, <2>3, <2>4, StaysShared
<1> QED
  BY <1>2, <1>3

\* A thread that waited sees the node that was published.
LEMMA SpinData ==
  ASSUME ComputeInv, NEW t \in Threads, Spin(t)
  PROVE  DataType' /\ ZeroInv' /\ OrderInv'
<1>1. /\ ThreadType /\ pc[t] = "spin" /\ node_n # my_node[t] /\ Goto(t, "go")
      /\ UNCHANGED <<fixed, passes>> /\ UNCHANGED <<node_n, compute_status, aborting>> /\ UNCHANGED status
      /\ my_node' = [my_node EXCEPT ![t] = node_n]
  BY DEF ComputeInv, HandoverInv, Spin, shared
<1>2. "go" \in Labels \ Leading /\ pc[t] \notin Leading /\ ~Waiting(t)
  BY <1>1 DEF Leading, Labels, Waiting
<1>3. Left' = Left /\ pc'[t] = "go" /\ \A s \in Threads : s # t => my_node'[s] = my_node[s]
  BY <1>1 DEF Left, Threads, fixed, Goto, ThreadType
<1>4. Passed(t)' = Passed(t)
  BY <1>1, <1>3 DEF Passed
<1> QED
  BY <1>1, <1>2, <1>3, <1>4, StaysShared

\* A thread leaves after the last node, or takes part in the node if it has a share.
LEMMA GoData ==
  ASSUME ComputeInv, NEW t \in Threads, Go(t)
  PROVE  DataType' /\ ZeroInv' /\ OrderInv'
<1>1. /\ ThreadType /\ HandoverInv /\ pc[t] = "go"
      /\ UNCHANGED <<fixed, passes>> /\ UNCHANGED <<node_n, compute_status, aborting>> /\ UNCHANGED my_node
  BY DEF ComputeInv, HandoverInv, Go, shared
<1>2. pc[t] \notin Leading /\ ~Waiting(t)
  BY <1>1 DEF Leading, Waiting
<1>3. CASE my_node[t] >= n_nodes
  <2>1. Goto(t, "done") /\ status' = [status EXCEPT ![t] = "success"]
    BY <1>3 DEF Go, Exit
  <2>2. "done" \in Labels \ Leading
    BY DEF Leading, Labels
  <2>3. Threads' = Threads /\ pc'[t] = "done" /\ \A s \in Threads : s # t => status'[s] = status[s]
    BY <1>1, <2>1 DEF Threads, fixed, Goto, ThreadType
  <2>4. status[t] = "running"
    BY <1>1 DEF HandoverInv, PlaceInv
  <2>5. Left' = {} => Left = {}
    BY <2>3, <2>4 DEF Left
  <2>6. Passed(t)' = Passed(t)
    BY <1>1, <2>3 DEF Passed
  <2> QED
    BY <1>1, <1>2, <2>1, <2>2, <2>5, <2>6, StaysShared
<1>4. CASE ~(my_node[t] >= n_nodes)
  <2>1. PICK l : l = IF t < Tasks(my_node[t]) THEN "compute" ELSE "check"
    OBVIOUS
  <2>2. Goto(t, l) /\ status' = status /\ l \in {"compute", "check"}
    BY <1>4, <2>1 DEF Go
  <2>3. l \in Labels \ Leading
    BY <2>2 DEF Leading, Labels
  <2>4. Left' = Left /\ pc'[t] = l
    BY <1>1, <2>2, <2>3 DEF Left, Threads, fixed, Goto, ThreadType
  <2>5. ~aborting => my_node[t] = node_n
    BY <1>1, <1>2, Roles
  <2>6. ~aborting => /\ l = "compute" => t < Tasks(node_n)
                     /\ t < Tasks(node_n) => Passed(t)' = Passed(t)
    BY <1>1, <2>1, <2>4, <2>5 DEF Passed
  <2> QED
    BY <1>1, <1>2, <2>2, <2>3, <2>4, <2>6, StaysShared
<1> QED
  BY <1>3, <1>4

\* The tasks of a node.
LEMMA NodeTasks ==
  ASSUME ThreadType, NEW k \in Nodes
  PROVE  /\ Node(k) \in Tensors /\ Tasks(k) \in 0 .. n_threads /\ Tasks(k) \in Nat
         /\ Node(k).op \in SerialOps => Tasks(k) = 1
         /\ Tasks(k) = 0 => Units(Node(k)) = {}
<1>1. Node(k) \in Tensors /\ n_threads \in Nat \ {0}
  BY GraphFacts, ThreadFacts DEF ThreadType
<1>2. /\ Tasks(k) \in 0 .. n_threads
      /\ Node(k).op \in SerialOps => Tasks(k) = 1
      /\ Tasks(k) = 0 => Units(Node(k)) = {}
  BY <1>1, TasksBounded DEF Tasks
<1> QED
  BY <1>1, <1>2

\* Once all threads are through with a node, all of it is written.
LEMMA AllWritten ==
  ASSUME ThreadType, SharedInv, node_n \in Nodes, \A t \in Threads : Passed(t)
  PROVE  Times(node_n, 1)
<1>1. ASSUME NEW u \in Units(Node(node_n))
      PROVE  \E t \in Threads : Passed(t) /\ t < Tasks(node_n) /\ u \in Share(t, node_n)
  <2>1. /\ Node(node_n) \in Tensors /\ Tasks(node_n) \in Nat \ {0} /\ Tasks(node_n) \in 0 .. n_threads
        /\ Node(node_n).op \in SerialOps => Tasks(node_n) = 1
    BY <1>1, NodeTasks
  <2>2. PICK t \in 0 .. Tasks(node_n) - 1 : u \in compute_forward(t, Tasks(node_n), Node(node_n))
    BY <1>1, <2>1, SharesCover
  <2>3. t \in Threads /\ t < Tasks(node_n)
    BY <2>1, ThreadFacts DEF Threads
  <2> QED
    BY <2>2, <2>3 DEF Share
<1> QED
  BY <1>1 DEF SharedInv, Times

\* The last thread to arrive finds the node complete; the others wait for it.
LEMMA ArriveData ==
  ASSUME ComputeInv, NEW t \in Threads, Arrive(t)
  PROVE  DataType' /\ ZeroInv' /\ OrderInv'
<1>1. PICK m : m = my_node[t]
  OBVIOUS
<1>2. PICK l : l = IF n_active # 1 THEN "spin"
                   ELSE IF m # -1 /\ Node(m).op \in HAS_FINALIZE THEN "finalize" ELSE "distribute"
  OBVIOUS
<1>3. /\ ThreadType /\ HandoverInv /\ pc[t] = "arrive" /\ Goto(t, l)
      /\ UNCHANGED <<fixed, passes>> /\ UNCHANGED <<node_n, compute_status, aborting>>
      /\ my_node' = my_node /\ status' = status
      /\ DataType /\ ZeroInv /\ OrderInv
  BY <1>1, <1>2 DEF ComputeInv, HandoverInv, Arrive
<1>4. pc[t] \notin Leading /\ ~Waiting(t) /\ l \in Labels /\ l \in {"spin", "finalize", "distribute"}
  BY <1>2, <1>3 DEF Leading, Waiting, Labels
<1>5. /\ pc'[t] = l /\ \A s \in Threads : s # t => pc'[s] = pc[s]
      /\ Nodes' = Nodes /\ Threads' = Threads
  BY <1>3, <1>4, Moved
<1>6. Left' = Left
  BY <1>3, <1>5 DEF Left
<1>7. CASE l = "spin"
  <2>1. l \in Labels \ Leading /\ l # "compute"
    BY <1>4, <1>7 DEF Leading
  <2>2. Passed(t)' = Passed(t)
    BY <1>3, <1>5, <1>7 DEF Passed
  <2> QED
    BY <1>3, <1>4, <1>6, <2>1, <2>2, StaysShared
<1>8. CASE l # "spin"
  <2>1. HandoverInv' /\ l \in Leading /\ l # "spin" /\ l # "init"
    BY <1>3, <1>4, <1>8, ArriveKeeps DEF Leading
  <2>2. LeadInv'
    BY <2>1 DEF HandoverInv
  <2>3. /\ Left = {} /\ \A s \in Threads : s # t => pc'[s] = "spin" /\ my_node[s] = node_n
    BY <1>3, <1>5, <1>6, <2>1, <2>2 DEF LeadInv, Waiting
  <2>4. \A s \in Threads : pc[s] \notin Leading /\ (pc'[s] \in Leading => s = t)
    BY <1>3, <1>4, <2>3, Roles DEF Leading
  <2>5. m = node_n
    BY <1>1, <1>3, <1>4, <2>3, <2>4, Roles
  <2>6. /\ \A j : Node(j)' = Node(j) /\ Tasks(j)' = Tasks(j)
        /\ \A j : /\ \A n : Times(j, n)' = Times(j, n)
                  /\ Computed(j)' = Computed(j) /\ Finished(j)' = Finished(j)
                  /\ Ready(j)' = Ready(j) /\ Prepared(j)' = Prepared(j)
    BY <1>3, DataUntouched
  <2>7. DataType'
    BY <1>3, <1>5, <2>6 DEF DataType, passes
  <2>8. ZeroInv'
    <3>1. \A k \in Nodes : m < k => Times(k, 0)
      BY <1>3, <2>3, <2>4, <2>5 DEF ZeroInv
    <3> QED
      BY <1>1, <1>3, <1>5, <2>1, <2>4, <2>6, <3>1 DEF ZeroInv
  <2>9. ASSUME ~aborting PROVE AloneInv(t)'
    <3>1. SharedInv
      BY <1>3, <2>4, <2>9 DEF OrderInv
    <3>2. \A s \in Threads : Passed(s)
      BY <1>1, <1>3, <1>5, <2>3, <2>5 DEF Passed
    <3>3. \A j \in 0 .. m - 1 : Finished(j)
      BY <2>5, <3>1 DEF SharedInv
    <3>4. m \in Nodes => Times(m, 1) /\ Ready(m)
      BY <1>3, <2>5, <3>1, <3>2, AllWritten DEF SharedInv, Prepared
    <3>5. m \in Nodes /\ l = "distribute" => Finished(m)
      <4>1. -1 \notin Nodes
        BY <1>3, GraphFacts DEF ThreadType
      <4> QED
        BY <1>2, <1>8, <3>4, <4>1 DEF Finished, Computed, Times, Ready
    <3>6. l = "finalize" => m \in Nodes
      BY <1>1, <1>3, <1>5, <2>1 DEF HandoverInv, PlaceInv
    <3> QED
      BY <1>1, <1>3, <1>4, <1>5, <1>8, <2>6, <3>3, <3>4, <3>5, <3>6 DEF AloneInv
  <2>10. OrderInv'
    BY <1>3, <1>5, <2>1, <2>4, <2>9 DEF OrderInv
  <2> QED
    BY <2>7, <2>8, <2>10
<1> QED
  BY <1>7, <1>8

\* A thread computes its share of the node the threads are at.
LEMMA ComputeData ==
  ASSUME ComputeInv, NEW t \in Threads, Compute(t)
  PROVE  DataType' /\ ZeroInv' /\ OrderInv'
<1>1. PICK m : m = my_node[t]
  OBVIOUS
<1>2. PICK q : q = Tasks(m)
  OBVIOUS
<1>3. /\ HandoverInv /\ ThreadType /\ DataType /\ ZeroInv /\ OrderInv
      /\ pc[t] = "compute" /\ Goto(t, "check") /\ RunCompute(m, t, q)
      /\ UNCHANGED fixed /\ UNCHANGED <<compute_status, aborting>>
      /\ node_n' = node_n /\ my_node' = my_node /\ status' = status
  BY <1>1, <1>2 DEF ComputeInv, HandoverInv, Compute, shared
<1>4. pc[t] \notin Leading /\ ~Waiting(t) /\ "check" \in Labels \ Leading
  BY <1>3 DEF Leading, Waiting, Labels
<1>5. /\ pc'[t] = "check" /\ \A s \in Threads : s # t => pc'[s] = pc[s]
      /\ Nodes' = Nodes /\ Threads' = Threads
      /\ \A k : Node(k)' = Node(k) /\ Tasks(k)' = Tasks(k)
  BY <1>3, <1>4, Moved
<1>6. m \in Nodes
  BY <1>1, <1>3 DEF HandoverInv, PlaceInv
<1>7. \A s \in Threads : pc[s] \notin Leading /\ pc'[s] \notin Leading
  BY <1>3, <1>4, <1>5, Roles
<1>8. Left' = Left /\ (Left = {} => m = node_n)
  BY <1>1, <1>3, <1>5, <1>7, Roles DEF Left
<1>9. /\ DataType'
      /\ \A u \in Units(Node(m)) : written'[m][u] =
            IF u \in compute_forward(t, q, Node(m)) THEN MIN(written[m][u] + 1, 2)
            ELSE written[m][u]
      /\ \A j \in Nodes : j # m => \A n : Times(j, n)' = Times(j, n)
      /\ \A j \in Nodes : Computed(j) => Computed(j)'
      /\ Prepared(m) => Prepared(m)'
  BY <1>3, <1>6, ComputeEffect
<1>10. n_nodes \in Nat /\ m \in Int /\ Nodes \subseteq Nat
  BY <1>3, <1>6, GraphFacts DEF ThreadType
<1>11. ZeroInv'
  <2>1. \A k \in Nodes : m < k => k # m
    BY <1>10
  <2> QED
    BY <1>3, <1>5, <1>7, <1>8, <1>9, <2>1 DEF ZeroInv
<1>12. ASSUME ~aborting PROVE SharedInv'
  <2>1. SharedInv /\ m = node_n
    BY <1>3, <1>7, <1>8, <1>12, Roles DEF OrderInv
  <2>2. \A j \in 0 .. m - 1 : Finished(j)'
    <3>1. \A j \in 0 .. m - 1 : Finished(j)
      BY <2>1 DEF SharedInv
    <3>2. \A j \in 0 .. m - 1 : j \in Nodes /\ j # m
      BY <1>6, <1>10 DEF Nodes
    <3> QED
      BY <1>9, <3>1, <3>2, StaysFinished
  <2>3. /\ Prepared(m) /\ \A s \in Threads : pc[s] = "compute" => s < q
        /\ \A u \in Units(Node(m)) : written[m][u] =
              IF \E s \in Threads : Passed(s) /\ s < q /\ u \in compute_forward(s, q, Node(m))
                THEN 1 ELSE 0
    BY <1>2, <1>6, <2>1 DEF SharedInv, Share
  <2>4. t < q
    BY <1>3, <2>3
  <2>5. ~Passed(t) /\ Passed(t)' /\ \A s \in Threads : s # t => Passed(s)' = Passed(s)
    BY <1>1, <1>3, <1>5, <2>1 DEF Passed
  <2>6. Prepared(m)' /\ \A s \in Threads : pc'[s] = "compute" => s < q
    BY <1>5, <1>9, <2>3
  <2>7. ASSUME NEW u \in Units(Node(m))
        PROVE  written'[m][u] =
                 IF \E s \in Threads : Passed(s)' /\ s < q /\ u \in compute_forward(s, q, Node(m))
                   THEN 1 ELSE 0
    <3>1. CASE u \in compute_forward(t, q, Node(m))
      <4>1. ASSUME NEW s \in Threads, Passed(s), s < q, u \in compute_forward(s, q, Node(m))
            PROVE  FALSE
        <5>1. s # t
          BY <2>5, <4>1
        <5>2. Node(m) \in Tensors /\ q \in Nat /\ (Node(m).op \in SerialOps => q = 1)
          BY <1>2, <1>3, <1>6, NodeTasks
        <5>3. s \in 0 .. q - 1 /\ t \in 0 .. q - 1
          BY <1>3, <2>4, <4>1, <5>2, ThreadFacts
        <5>4. compute_forward(s, q, Node(m)) \cap compute_forward(t, q, Node(m)) = {}
          BY <5>1, <5>2, <5>3, SharesApart
        <5> QED
          BY <3>1, <4>1, <5>4
      <4>2. written[m][u] = 0
        BY <2>3, <4>1
      <4>3. written'[m][u] = 1
        BY <1>9, <3>1, <4>2 DEF MIN
      <4> QED
        BY <2>4, <2>5, <3>1, <4>3
    <3>2. CASE u \notin compute_forward(t, q, Node(m))
      <4>1. written'[m][u] = written[m][u]
        BY <1>9, <3>2
      <4> QED
        BY <2>3, <2>5, <3>2, <4>1
    <3> QED
      BY <3>1, <3>2
  <2>8. node_n' = m /\ Tasks(m)' = q /\ Node(m)' = Node(m)
        /\ \A s \in Threads : Share(s, m)' = compute_forward(s, q, Node(m))
    BY <1>2, <1>3, <1>5, <2>1 DEF Share
  <2> QED
    BY <1>5, <2>2, <2>6, <2>7, <2>8 DEF SharedInv
<1>13. OrderInv'
  BY <1>3, <1>5, <1>7, <1>12 DEF OrderInv
<1> QED
  BY <1>9, <1>11, <1>13

\* Steps of the caller, and the wish to abort, change no node.
LEMMA OthersData ==
  ASSUME ComputeInv, UNCHANGED <<fixed, passes>>, UNCHANGED <<node_n, pc, my_node, status>>,
         compute_status' \in {"none", "success", "aborted"}, aborting' \in BOOLEAN, aborting => aborting'
  PROVE  DataType' /\ ZeroInv' /\ OrderInv'
<1>1. Threads' = Threads /\ Nodes' = Nodes /\ Left' = Left
  BY DEF fixed, Threads, Nodes, n_nodes, Left
<1>2. DataType
  BY DEF ComputeInv
<1>3. /\ \A j : Node(j)' = Node(j) /\ Tasks(j)' = Tasks(j)
      /\ \A j : /\ \A n : Times(j, n)' = Times(j, n)
                /\ Computed(j)' = Computed(j) /\ Finished(j)' = Finished(j)
                /\ Ready(j)' = Ready(j) /\ Prepared(j)' = Prepared(j)
  BY <1>2, DataUntouched
<1>4. DataType'
  BY <1>1, <1>2, <1>3 DEF DataType, passes
<1>5. ZeroInv'
  BY <1>1, <1>3 DEF ComputeInv, ZeroInv
<1>6. ASSUME NEW t \in Threads, AloneInv(t)
      PROVE  AloneInv(t)'
  BY <1>1, <1>3, <1>6 DEF AloneInv
<1>7. ASSUME SharedInv
      PROVE  SharedInv'
  <2>1. \A s, k : Passed(s)' = Passed(s) /\ Share(s, k)' = Share(s, k)
    BY <1>3 DEF Passed, Share
  <2>2. PICK n : n = node_n /\ n = node_n'
    OBVIOUS
  <2>3. /\ \A j \in 0 .. n - 1 : Finished(j)'
        /\ n \in Nodes => /\ Prepared(n)' /\ \A s \in Threads : pc'[s] = "compute" => s < Tasks(n)
                          /\ \A u \in Units(Node(n)) : written'[n][u] =
                                IF \E s \in Threads : Passed(s) /\ s < Tasks(n) /\ u \in Share(s, n)
                                  THEN 1 ELSE 0
    BY <1>3, <1>7, <2>2 DEF SharedInv, passes
  <2> QED
    BY <1>1, <1>3, <2>1, <2>2, <2>3 DEF SharedInv
<1>8. OrderInv'
  BY <1>1, <1>6, <1>7 DEF ComputeInv, OrderInv
<1> QED
  BY <1>4, <1>5, <1>8

\* Every step keeps the whole invariant.
LEMMA ComputeStep == ComputeInv /\ [Next]_vars => ComputeInv'
<1> SUFFICES ASSUME ComputeInv, [Next]_vars PROVE ComputeInv'
  OBVIOUS
<1>1. HandoverInv'
  BY HandoverStep DEF ComputeInv
<1>2. DataType' /\ ZeroInv' /\ OrderInv'
  <2>1. CASE Join \/ Abort \/ Returned \/ UNCHANGED vars
    <3>1. compute_status \in {"none", "success", "aborted"} /\ aborting \in BOOLEAN /\ ThreadType
      BY DEF ComputeInv, DataType, HandoverInv
    <3>2. /\ UNCHANGED <<fixed, passes>> /\ UNCHANGED <<node_n, pc, my_node, status>>
          /\ aborting' \in BOOLEAN /\ (aborting => aborting')
      BY <2>1, <3>1 DEF Join, Abort, Returned, vars, shared
    <3>3. compute_status' \in {"none", "success", "aborted"}
      <4>1. CASE Join
        <5>1. pc[0] = "done" /\ 0 \in Threads
          BY <3>1, <4>1, ThreadFacts DEF Join
        <5>2. status[0] \in {"success", "aborted"}
          BY <3>1, <5>1 DEF ComputeInv, HandoverInv, PlaceInv, ThreadType, Statuses
        <5> QED
          BY <4>1, <5>2 DEF Join
      <4>2. CASE Abort \/ Returned \/ UNCHANGED vars
        BY <3>1, <4>2 DEF Abort, Returned, vars
      <4> QED
        BY <2>1, <4>1, <4>2
    <3> QED
      BY <3>2, <3>3, OthersData
  <2>2. ASSUME NEW t \in Threads, Thread(t)
        PROVE  DataType' /\ ZeroInv' /\ OrderInv'
    BY <2>2, CheckData, ArriveData, FinalizeData, DistributeData, InitPassData, SoloData,
       SoloCheckData, PublishData, SpinData, GoData, ComputeData DEF Thread
  <2> QED
    BY <2>1, <2>2 DEF Next
<1> QED
  BY <1>1, <1>2 DEF ComputeInv

\* It holds when the call begins.
LEMMA ComputeInitially == Init => ComputeInv
<1> SUFFICES ASSUME Init PROVE ComputeInv
  OBVIOUS
<1>1. HandoverInv
  BY HandoverInitially
<1>2. DataType
  <2>1. ASSUME NEW k \in Nodes
        PROVE  written[k] \in [Units(Node(k)) -> 0 .. 2]
    <3>1. written[k] = [u \in Units(Node(k)) |-> 0]
      BY DEF Init
    <3>2. 0 \in 0 .. 2
      OBVIOUS
    <3> QED
      BY <3>1, <3>2
  <2>2. DOMAIN written = Nodes
    BY DEF Init
  <2> QED
    BY <2>1, <2>2 DEF Init, DataType, Scratch
<1>3. \A t \in Threads : pc[t] = "check" /\ pc[t] \notin Leading
  BY DEF Init, Leading
<1>4. \A k \in Nodes : Times(k, 0)
  BY DEF Init, Times
<1>5. ZeroInv
  BY <1>3, <1>4 DEF ZeroInv
<1>6. -1 \notin Nodes /\ node_n = -1
  BY <1>1, GraphFacts DEF Init, HandoverInv, ThreadType
<1>7. SharedInv
  BY <1>6 DEF SharedInv
<1> QED
  BY <1>1, <1>2, <1>3, <1>5, <1>7 DEF ComputeInv, OrderInv

-----------------------------------------------------------------------------
(* What the threads may rely on.                                           *)

\* The invariant gives the types.
LEMMA InvTypes ==
  ASSUME ComputeInv
  PROVE  TypeOK
<1>1. HandoverInv /\ ThreadType /\ DataType /\ PlaceInv /\ CountInv
  BY DEF ComputeInv, HandoverInv
<1>2. n_nodes \in Nat \ {0} /\ n_threads \in Nat \ {0}
  BY <1>1, GraphFacts, ThreadFacts DEF ThreadType
<1>3. Left \in SUBSET Threads /\ Counted \in SUBSET Threads /\ Arriving \in SUBSET Threads
  BY DEF Left, Counted, Arriving
<1>4. Cardinality(Left) \in 0 .. n_threads /\ Cardinality(Counted) \in 0 .. n_threads
      /\ Cardinality(Arriving) \in 0 .. n_threads
  BY <1>1, <1>3, ThreadFacts
<1>5. n_active \in 0 .. n_threads
  <2>1. CASE Left = {}
    BY <1>1, <1>2, <1>4, <2>1 DEF CountInv
  <2>2. CASE Left # {}
    BY <1>1, <1>2, <1>4, <2>2 DEF CountInv, ThreadType
  <2> QED
    BY <2>1, <2>2
<1>6. node_n \in -1 .. n_nodes + n_threads
  BY <1>1, <1>2, <1>4 DEF ThreadType, PlaceInv
<1>7. ASSUME NEW t \in Threads
      PROVE  my_node[t] \in -1 .. n_nodes + n_threads
  <2>1. my_node[t] \in Int /\ -1 <= my_node[t] /\ (my_node[t] <= n_nodes \/ my_node[t] <= node_n)
    BY <1>1, <1>7 DEF ThreadType, PlaceInv
  <2> QED
    BY <1>2, <1>6, <2>1
<1>8. my_node \in [Threads -> -1 .. n_nodes + n_threads]
  BY <1>1, <1>7 DEF ThreadType
<1> QED
  BY <1>1, <1>5, <1>6, <1>8 DEF TypeOK, ThreadType, DataType

\* A thread in a kernel is alone, or all in kernels share node_n.
LEMMA InKernels ==
  ASSUME ComputeInv, ~aborting
  PROVE  \/ \E t \in Threads : pc[t] \in Leading /\ InKernel \subseteq {t} /\ AloneInv(t)
         \/ SharedInv /\ \A t \in InKernel : pc[t] = "compute" /\ my_node[t] = node_n
<1>1. HandoverInv /\ OrderInv /\ Left = {} /\ ThreadType
  BY Roles DEF ComputeInv, HandoverInv
<1>2. CASE \E t \in Threads : pc[t] \in Leading
  <2>1. PICK t \in Threads : pc[t] \in Leading
    BY <1>2
  <2>2. InKernel \subseteq {t}
    BY <1>1, <2>1, Roles DEF InKernel
  <2> QED
    BY <1>1, <2>1, <2>2 DEF OrderInv
<1>3. CASE \A t \in Threads : pc[t] \notin Leading
  <2>1. SharedInv
    BY <1>1, <1>3 DEF OrderInv
  <2>2. \A t \in InKernel : pc[t] = "compute" /\ t \in Threads
    BY <1>3 DEF InKernel, Leading
  <2> QED
    BY <1>1, <1>3, <2>1, <2>2, Roles
<1> QED
  BY <1>2, <1>3

\* It gives the order of the passes, and that no unit is written twice.
LEMMA InvOrders ==
  ASSUME ComputeInv
  PROVE  NodesInOrder
<1> SUFFICES ASSUME ~aborting PROVE SourcesReady /\ PassesExclusive /\ WrittenOnce
  BY DEF NodesInOrder
<1>1. HandoverInv /\ ThreadType /\ PlaceInv /\ DataType /\ ZeroInv /\ Left = {}
  BY Roles DEF ComputeInv, HandoverInv
<1>2. n_nodes \in Nat \ {0} /\ Nodes \subseteq Nat
  BY <1>1, GraphFacts DEF ThreadType
<1>3. CASE \E t \in Threads : pc[t] \in Leading /\ InKernel \subseteq {t} /\ AloneInv(t)
  <2>1. PICK t \in Threads : pc[t] \in Leading /\ InKernel \subseteq {t} /\ AloneInv(t)
    BY <1>3
  <2>2. PassesExclusive
    BY <2>1 DEF PassesExclusive
  <2>3. \A j \in 0 .. my_node[t] - 1 : Finished(j)
    BY <2>1 DEF AloneInv
  <2>4. SourcesReady
    <3>1. \A j \in 0 .. my_node[t] - 1 : Computed(j)
      BY <2>3 DEF Finished
    <3>2. t \in InKernel /\ pc[t] # "init" => Ready(my_node[t])
      <4>1. pc[t] \in {"finalize", "soloFinalize"} => Ready(my_node[t])
        BY <2>1 DEF AloneInv
      <4>2. pc[t] = "solo" => Ready(my_node[t])
        BY <2>1 DEF AloneInv, Prepared
      <4> QED
        BY <2>1, <4>1, <4>2 DEF InKernel, Leading
    <3> QED
      BY <2>1, <3>1, <3>2 DEF SourcesReady, Ready
  <2>5. WrittenOnce
    <3> SUFFICES ASSUME NEW k \in Nodes, NEW u \in Units(Node(k)) PROVE written[k][u] <= 1
      BY DEF WrittenOnce
    <3>1. my_node[t] \in Int /\ k \in Nat
      BY <1>1, <1>2 DEF ThreadType
    <3>2. CASE k < my_node[t]
      BY <2>3, <3>1, <3>2 DEF Finished, Times
    <3>3. CASE my_node[t] < k
      <4>1. Times(k, 0)
        BY <1>1, <2>1, <3>3, LaterZero
      <4> QED
        BY <4>1 DEF Times
    <3>4. CASE my_node[t] = k
      <4>1. Times(k, 0) \/ Times(k, 1)
        <5>1. pc[t] = "init" => Times(k, 0)
          BY <1>1, <2>1, <3>4, LaterZero
        <5>2. pc[t] \in {"distribute", "soloCheck", "finalize", "soloFinalize"} => Times(k, 1)
          BY <2>1, <3>4 DEF AloneInv, Finished
        <5>3. pc[t] \in {"solo", "restore", "publish"} => Times(k, 0)
          BY <2>1, <3>4 DEF AloneInv
        <5> QED
          BY <2>1, <5>1, <5>2, <5>3 DEF Leading
      <4> QED
        BY <4>1 DEF Times
    <3> QED
      BY <3>1, <3>2, <3>3, <3>4
  <2> QED
    BY <2>2, <2>4, <2>5
<1>4. CASE ~ \E t \in Threads : pc[t] \in Leading /\ InKernel \subseteq {t} /\ AloneInv(t)
  <2>1. SharedInv /\ \A t \in InKernel : pc[t] = "compute" /\ my_node[t] = node_n
    BY <1>4, InKernels
  <2>2. PassesExclusive
    BY <2>1 DEF PassesExclusive
  <2>3. \A j \in 0 .. node_n - 1 : Finished(j)
    BY <2>1 DEF SharedInv
  <2>4. SourcesReady
    <3>1. \A t \in InKernel : node_n \in Nodes /\ Ready(node_n)
      BY <1>1, <2>1 DEF InKernel, PlaceInv, SharedInv, Prepared
    <3>2. \A j \in 0 .. node_n - 1 : Computed(j)
      BY <2>3 DEF Finished
    <3> QED
      BY <2>1, <3>1, <3>2 DEF SourcesReady, Ready
  <2>5. \A t \in Threads : pc[t] \notin Leading
    <3>1. \A t \in Threads : pc[t] \in Leading => InKernel \subseteq {t} /\ AloneInv(t)
      BY <1>1, Roles DEF InKernel, ComputeInv, OrderInv
    <3> QED
      BY <1>4, <3>1
  <2>6. WrittenOnce
    <3> SUFFICES ASSUME NEW k \in Nodes, NEW u \in Units(Node(k)) PROVE written[k][u] <= 1
      BY DEF WrittenOnce
    <3>1. node_n \in Int /\ k \in Nat
      BY <1>1, <1>2 DEF ThreadType
    <3>2. CASE k < node_n
      BY <2>3, <3>1, <3>2 DEF Finished, Times
    <3>3. CASE node_n < k
      <4>1. Times(k, 0)
        BY <1>1, <2>5, <3>3 DEF ZeroInv
      <4> QED
        BY <4>1 DEF Times
    <3>4. CASE node_n = k
      BY <2>1, <3>4 DEF SharedInv
    <3> QED
      BY <3>1, <3>2, <3>3, <3>4
  <2> QED
    BY <2>2, <2>4, <2>6
<1> QED
  BY <1>3, <1>4

\* The buffer has room for the scratch area of every task of every node.
LEMMA BufferFits ==
  ASSUME ThreadType, NEW k \in Nodes, NEW t \in 0 .. Tasks(k) - 1
  PROVE  Slice(t, Tasks(k), Node(k))[2] <= wsize
<1> DEFINE w == [j \in Nodes |-> work_size(Node(j), n_threads)]
           cur == {work_size(Node(j), n_threads) : j \in Nodes}
           max == CHOOSE m \in cur : \A c \in cur : c <= m
<1>1. n_nodes \in Nat \ {0} /\ n_threads \in Nat \ {0} /\ Nodes = 0 .. n_nodes - 1
  BY GraphFacts, ThreadFacts DEF ThreadType, Nodes
<1>2. \A j \in Nodes : work_size(Node(j), n_threads) \in Nat
  <2> SUFFICES ASSUME NEW j \in Nodes PROVE work_size(Node(j), n_threads) \in Nat
    OBVIOUS
  <2>1. Node(j) \in Tensors /\ Tasks(j) \in 0 .. n_threads
    BY NodeTasks
  <2>2. TasksWork(Node(j), Tasks(j)) \in Nat
    BY <1>1, <2>1, WorkNatural
  <2> QED
    BY <2>2 DEF work_size, Tasks
<1>3. cur = {w[j] : j \in 0 .. n_nodes - 1} /\ \A j \in 0 .. n_nodes - 1 : w[j] \in Nat
  BY <1>1, <1>2
<1>4. max \in cur /\ \A c \in cur : c <= max
  <2>1. \E m \in cur : \A c \in cur : c <= m
    <3>1. \E m \in {w[j] : j \in 0 .. n_nodes - 1} : \A c \in {w[j] : j \in 0 .. n_nodes - 1} : c <= m
      <4> HIDE DEF w
      <4> QED
        BY <1>1, <1>3, Largest, Zenon
    <3> HIDE DEF w, cur
    <3> QED
      BY <1>3, <3>1
  <2> HIDE DEF cur
  <2> QED
    BY <2>1
<1>5. wsize = IF max > 0 THEN max + 16 * (n_threads - 1) ELSE 0
  BY DEF wsize, CACHE_LINE_SIZE_F32
<1>6. max \in Nat
  BY <1>2, <1>4
<1>7. PICK s : s = Slice(t, Tasks(k), Node(k))[2]
  OBVIOUS
<1>8. PICK need : need = TasksWork(Node(k), Tasks(k))
  OBVIOUS
<1>9. need \in cur
  BY <1>8 DEF work_size, Tasks
<1>10. need <= max
  BY <1>4, <1>9
<1>11. need \in Nat /\ (s = 0 \/ (need > 0 /\ s <= need + 16 * (n_threads - 1)))
  <2>1. Node(k) \in Tensors /\ Tasks(k) \in 1 .. n_threads
    BY <1>1, NodeTasks
  <2> QED
    BY <1>1, <1>7, <1>8, <2>1, SliceFits
<1>12. s \in Nat
  <2>1. Node(k) \in Tensors /\ Tasks(k) \in Nat
    BY NodeTasks
  <2> QED
    BY <1>7, <2>1, SliceNatural
<1> HIDE DEF max, cur, w
<1> QED
  BY <1>1, <1>5, <1>6, <1>7, <1>10, <1>11, <1>12

\* Thread t in a COMPUTE pass works as a task of the node it is at.
LEMMA TaskOf ==
  ASSUME ComputeInv, ~aborting, NEW t \in InKernel, pc[t] \in {"solo", "compute"}
  PROVE  /\ my_node[t] \in Nodes /\ Prepared(my_node[t])
         /\ MySlice(t)[2] <= wsize
<1>1. HandoverInv /\ PlaceInv /\ ThreadType /\ t \in Threads
  BY DEF ComputeInv, HandoverInv, InKernel
<1>2. PICK m : m = my_node[t]
  OBVIOUS
<1>3. m \in Nodes
  BY <1>1, <1>2 DEF PlaceInv
<1>4. CASE pc[t] = "solo"
  <2>1. AloneInv(t)
    BY <1>1, <1>4 DEF ComputeInv, OrderInv, Leading
  <2>2. Prepared(m) /\ Tasks(m) = 1
    BY <1>2, <1>4, <2>1 DEF AloneInv
  <2>3. Slice(0, Tasks(m), Node(m))[2] <= wsize
    <3>1. 0 \in 0 .. Tasks(m) - 1
      BY <2>2
    <3> QED
      BY <1>1, <1>3, <3>1, BufferFits
  <2>4. MySlice(t) = Slice(0, 1, Node(m))
    BY <1>2, <1>4 DEF MySlice
  <2> QED
    BY <1>2, <1>3, <2>2, <2>3, <2>4
<1>5. CASE pc[t] = "compute"
  <2>1. ~Waiting(t) /\ pc[t] \notin Leading
    BY <1>5 DEF Waiting, Leading
  <2>2. SharedInv /\ m = node_n
    BY <1>1, <1>2, <1>5, <2>1, Roles DEF ComputeInv, OrderInv
  <2>3. Prepared(m) /\ t < Tasks(m)
    BY <1>1, <1>3, <1>5, <2>2 DEF SharedInv
  <2>4. Slice(t, Tasks(m), Node(m))[2] <= wsize
    <3>1. t \in 0 .. Tasks(m) - 1
      BY <1>1, <1>3, <2>3, ThreadFacts, NodeTasks
    <3> QED
      BY <1>1, <1>3, <3>1, BufferFits
  <2>5. MySlice(t) = Slice(t, Tasks(m), Node(m))
    BY <1>2, <1>5 DEF MySlice
  <2> QED
    BY <1>2, <1>3, <2>3, <2>4, <2>5
<1> QED
  BY <1>4, <1>5

\* It gives what a thread relies on in the work buffer.
LEMMA InvBuffer ==
  ASSUME ComputeInv
  PROVE  WorkBufferKept
<1> SUFFICES ASSUME ~aborting, NEW t \in InKernel, pc[t] \in {"solo", "compute"}
             PROVE  /\ PreparesWork(Node(my_node[t])) => wdata = my_node[t]
                    /\ MySlice(t)[2] <= wsize
                    /\ \A s \in InKernel \ {t} :
                          MySlice(s)[2] <= MySlice(t)[1] \/ MySlice(t)[2] <= MySlice(s)[1]
                          \/ MySlice(s) = <<0, 0>>
  BY DEF WorkBufferKept
<1>1. Prepared(my_node[t]) /\ MySlice(t)[2] <= wsize
  BY TaskOf
<1>2. ASSUME NEW s \in InKernel \ {t}
      PROVE  MySlice(s)[2] <= MySlice(t)[1] \/ MySlice(t)[2] <= MySlice(s)[1]
             \/ MySlice(s) = <<0, 0>>
  <2>1. SharedInv /\ \A r \in InKernel : pc[r] = "compute" /\ my_node[r] = node_n
    BY <1>2, InKernels
  <2>2. PICK m : m = node_n
    OBVIOUS
  <2>3. MySlice(s) = Slice(s, Tasks(m), Node(m)) /\ MySlice(t) = Slice(t, Tasks(m), Node(m))
    BY <2>1, <2>2 DEF MySlice
  <2>4. ThreadType /\ m \in Nodes /\ s \in Threads /\ t \in Threads
    BY <2>1, <2>2, TaskOf DEF ComputeInv, HandoverInv, InKernel
  <2>5. Node(m) \in Tensors /\ Tasks(m) \in Nat /\ s < Tasks(m) /\ t < Tasks(m)
    BY <2>1, <2>2, <2>4, NodeTasks DEF SharedInv
  <2>6. s \in 0 .. Tasks(m) - 1 /\ t \in 0 .. Tasks(m) - 1 /\ s # t
    BY <1>2, <2>4, <2>5, ThreadFacts
  <2> QED
    BY <2>3, <2>5, <2>6, SlicesApart
<1> QED
  BY <1>1, <1>2 DEF Prepared

\* For every number of threads and every graph of tensors that the kernels accept, a
\* thread in a kernel finds its inputs finished and is in nobody's way, in the
\* destination and in the work buffer (ggml_graph_compute_thread, ggml.c).
THEOREM KernelsSafe == Spec => []KernelsUndisturbed
<1>1. Init => ComputeInv
  BY ComputeInitially
<1>2. ComputeInv /\ [Next]_vars => ComputeInv'
  BY ComputeStep
<1>3. ComputeInv => KernelsUndisturbed
  BY InvTypes, InvOrders, InvBuffer DEF KernelsUndisturbed
<1> QED
  BY <1>1, <1>2, <1>3, PTL DEF Spec

-----------------------------------------------------------------------------
(* The call is an evaluation of the graph in order.                        *)

ReturnInv ==
    /\ compute_status # "none" => \A t \in Threads : pc[t] = "done"
    /\ \A t \in Threads : status[t] = "success" => n_nodes <= my_node[t]

\* A step is of a thread that runs, and is the only one whose status it changes.
LEMMA ThreadGoes ==
  ASSUME HandoverInv, NEW t \in Threads, Thread(t)
  PROVE  /\ pc[t] # "done" /\ status[t] = "running"
         /\ UNCHANGED fixed /\ UNCHANGED <<compute_status, aborting>>
         /\ \A s \in Threads : s # t => my_node'[s] = my_node[s] /\ status'[s] = status[s]
         /\ status'[t] = "success" => n_nodes <= my_node'[t]
<1>1. ThreadType /\ PlaceInv
  BY DEF HandoverInv
<1>2. pc[t] # "done" /\ UNCHANGED fixed /\ UNCHANGED <<compute_status, aborting>>
  BY DEF Thread, Check, Arrive, Finalize, Distribute, InitPass, Solo, SoloFinalize, SoloCheck,
         RestoreActive, Publish, Spin, Go, Compute
<1>3. status[t] = "running"
  BY <1>1, <1>2 DEF PlaceInv
<1>4. CASE Go(t)
  <2>1. my_node[t] \in Int /\ n_nodes \in Int /\ my_node' = my_node
    BY <1>1, <1>4, GraphFacts DEF ThreadType, Go
  <2>2. \/ status' = status
        \/ my_node[t] >= n_nodes /\ status' = [status EXCEPT ![t] = "success"]
    BY <1>4 DEF Go, Exit
  <2> QED
    BY <1>1, <1>2, <1>3, <2>1, <2>2 DEF ThreadType
<1>5. CASE Distribute(t) \/ Spin(t)
  BY <1>1, <1>2, <1>3, <1>5 DEF Distribute, Spin, ThreadType
<1>6. CASE Check(t)
  BY <1>1, <1>2, <1>3, <1>6 DEF Check, Exit, ThreadType
<1>7. CASE Arrive(t) \/ Finalize(t) \/ InitPass(t) \/ Solo(t) \/ SoloFinalize(t) \/ SoloCheck(t)
           \/ RestoreActive(t) \/ Publish(t) \/ Compute(t)
  <2>1. UNCHANGED <<my_node, status>>
    BY <1>7 DEF Arrive, Finalize, InitPass, Solo, SoloFinalize, SoloCheck, RestoreActive, Publish, Compute
  <2> QED
    BY <1>2, <1>3, <2>1
<1> QED
  BY <1>4, <1>5, <1>6, <1>7 DEF Thread

\* The call returns after all threads have left, and they leave at the end of the graph.
LEMMA ReturnStep == ComputeInv /\ ReturnInv /\ [Next]_vars => ReturnInv'
<1> SUFFICES ASSUME ComputeInv, ReturnInv, [Next]_vars PROVE ReturnInv'
  OBVIOUS
<1>1. HandoverInv /\ ThreadType
  BY DEF ComputeInv, HandoverInv
<1>2. ASSUME NEW t \in Threads, Thread(t)
      PROVE  ReturnInv'
  <2>1. /\ pc[t] # "done" /\ status[t] = "running"
        /\ UNCHANGED fixed /\ UNCHANGED <<compute_status, aborting>>
        /\ \A s \in Threads : s # t => my_node'[s] = my_node[s] /\ status'[s] = status[s]
        /\ status'[t] = "success" => n_nodes <= my_node'[t]
    BY <1>1, <1>2, ThreadGoes
  <2>2. Threads' = Threads /\ n_nodes' = n_nodes /\ compute_status' = "none"
    BY <2>1 DEF fixed, Threads, n_nodes, ReturnInv
  <2> QED
    BY <2>1, <2>2 DEF ReturnInv
<1>3. CASE Join \/ Abort \/ Returned \/ UNCHANGED vars
  <2>1. UNCHANGED <<fixed, pc, my_node, status>>
        /\ (compute_status' # "none" => compute_status # "none" \/ \A t \in Threads : pc[t] = "done")
    BY <1>3 DEF Join, Abort, Returned, vars
  <2>2. Threads' = Threads /\ n_nodes' = n_nodes
    BY <2>1 DEF fixed, Threads, n_nodes
  <2> QED
    BY <2>1, <2>2 DEF ReturnInv
<1> QED
  BY <1>2, <1>3 DEF Next

\* A pass of node k is no pass of another node.
LEMMA PassOfOne ==
  ASSUME DataType, UNCHANGED fixed, NEW k \in Nodes,
         RunInit(k) \/ RunFinalize(k) \/ \E ith, nth : RunCompute(k, ith, nth)
  PROVE  \A j \in Nodes : j # k => Computed(j)' = Computed(j)
<1>1. \A j : Node(j)' = Node(j)
  BY DEF fixed, Node
<1>2. /\ \A j \in Nodes : j # k => written'[j] = written[j]
      /\ inited' \in {inited, inited \cup {k}} /\ finalized' \in {finalized, finalized \cup {k}}
  BY DEF RunInit, RunFinalize, RunCompute, DataType
<1> QED
  BY <1>1, <1>2 DEF Computed

\* A step of a thread leaves the values alone, or is a pass of the node it is at.
LEMMA PassOrNot ==
  ASSUME ComputeInv, NEW t \in Threads, Thread(t)
  PROVE  \/ UNCHANGED passes
         \/ \E k \in Nodes :
               /\ k = my_node[t] /\ t \in InKernel
               /\ RunInit(k) \/ RunFinalize(k) \/ \E ith, nth : RunCompute(k, ith, nth)
               /\ Computed(k) => Computed(k)'
<1>1. HandoverInv /\ ThreadType /\ PlaceInv /\ DataType /\ ZeroInv
  BY DEF ComputeInv, HandoverInv
<1>2. UNCHANGED fixed /\ UNCHANGED <<compute_status, aborting>>
  BY <1>1, ThreadGoes
<1>3. PICK k : k = my_node[t]
  OBVIOUS
<1>4. CASE Check(t) \/ Arrive(t) \/ Distribute(t) \/ SoloCheck(t) \/ RestoreActive(t)
           \/ Publish(t) \/ Spin(t) \/ Go(t)
  BY <1>4 DEF Check, Arrive, Distribute, SoloCheck, RestoreActive, Publish, Spin, Go
<1>5. CASE InitPass(t)
  <2>1. k \in Nodes /\ RunInit(k) /\ t \in InKernel /\ pc[t] = "init" /\ pc[t] \in Leading
    BY <1>1, <1>3, <1>5 DEF InitPass, PlaceInv, InKernel, Leading
  <2>2. Times(k, 0)
    BY <1>1, <1>3, <2>1, LaterZero
  <2>3. Computed(k) => Computed(k)'
    BY <1>1, <1>2, <2>1, <2>2, InitEffect
  <2> QED
    BY <1>3, <2>1, <2>3
<1>6. CASE Finalize(t) \/ SoloFinalize(t)
  <2>1. k \in Nodes /\ RunFinalize(k) /\ t \in InKernel
    BY <1>1, <1>3, <1>6 DEF Finalize, SoloFinalize, PlaceInv, InKernel
  <2>2. Computed(k) => Computed(k)'
    BY <1>1, <1>2, <2>1, FinalizeEffect
  <2> QED
    BY <1>3, <2>1, <2>2
<1>7. CASE Solo(t)
  <2>1. k \in Nodes /\ RunCompute(k, 0, 1) /\ t \in InKernel
    BY <1>1, <1>3, <1>7 DEF Solo, PlaceInv, InKernel
  <2>2. Computed(k) => Computed(k)'
    BY <1>1, <1>2, <2>1, ComputeEffect
  <2> QED
    BY <1>3, <2>1, <2>2
<1>8. CASE Compute(t)
  <2>1. PICK n : n = Tasks(k)
    OBVIOUS
  <2>2. k \in Nodes /\ RunCompute(k, t, n) /\ t \in InKernel
    BY <1>1, <1>3, <1>8, <2>1 DEF Compute, PlaceInv, InKernel
  <2>3. Computed(k) => Computed(k)'
    BY <1>1, <1>2, <2>2, ComputeEffect
  <2> QED
    BY <1>3, <2>2, <2>3
<1> QED
  BY <1>4, <1>5, <1>6, <1>7, <1>8 DEF Thread

\* When no thread is left and nobody asked to stop, every node has its value.
LEMMA DoneIsAll ==
  ASSUME ComputeInv, ReturnInv, ~aborting, \A t \in Threads : pc[t] = "done"
  PROVE  \A k \in Nodes : Computed(k)
<1>1. HandoverInv /\ ThreadType /\ PlaceInv /\ Left = {}
  BY Roles DEF ComputeInv, HandoverInv
<1>2. \A t \in Threads : pc[t] \notin Leading /\ pc[t] # "spin"
  BY DEF Leading
<1>3. 0 \in Threads /\ my_node[0] = node_n
  BY <1>1, <1>2, Roles, ThreadFacts
<1>4. status[0] = "success"
  BY <1>1, <1>3 DEF PlaceInv, Left, ThreadType, Statuses
<1>5. n_nodes <= node_n /\ n_nodes \in Nat /\ node_n \in Int
  BY <1>1, <1>3, <1>4, GraphFacts DEF ReturnInv, ThreadType
<1>6. \A j \in 0 .. node_n - 1 : Finished(j)
  BY <1>2 DEF ComputeInv, OrderInv, SharedInv
<1>7. \A k \in Nodes : k \in 0 .. node_n - 1
  BY <1>5 DEF Nodes
<1> QED
  BY <1>6, <1>7 DEF Finished

\* A step is an evaluation of one node, the abort, the return, or nothing.
LEMMA StepEvaluates == ComputeInv /\ ReturnInv /\ [Next]_vars => [Order!Next]_(Order!vars)
<1> SUFFICES ASSUME ComputeInv, ReturnInv, [Next]_vars PROVE [Order!Next]_(Order!vars)
  OBVIOUS
<1> DEFINE values == {k \in Nodes : Computed(k)}
<1>1. ThreadType /\ HandoverInv /\ DataType /\ n_nodes \in 1 .. MaxNodes /\ MaxNodes \in Nat
  BY GraphFacts, ThreadsAssumption DEF ComputeInv, HandoverInv, ThreadType
<1>2. ASSUME UNCHANGED fixed PROVE n_nodes' = n_nodes /\ Nodes' = Nodes
  BY <1>2 DEF fixed, n_nodes, Nodes
<1>3. ASSUME UNCHANGED fixed, UNCHANGED passes PROVE values' = values
  BY <1>1, <1>2, <1>3, DataUntouched
<1>4. ASSUME NEW t \in Threads, Thread(t) PROVE [Order!Next]_(Order!vars)
  <2>1. UNCHANGED fixed /\ UNCHANGED <<compute_status, aborting>> /\ pc[t] # "done"
    BY <1>1, <1>4, ThreadGoes
  <2>2. n_nodes' = n_nodes /\ Nodes' = Nodes /\ compute_status = "none" /\ compute_status' = "none"
        /\ aborting' = aborting
    BY <1>2, <2>1 DEF ReturnInv
  <2>3. CASE UNCHANGED passes
    <3>1. values' = values
      BY <1>3, <2>1, <2>3
    <3> QED
      BY <2>2, <3>1 DEF Order!vars
  <2>4. ASSUME NEW k \in Nodes, k = my_node[t], t \in InKernel,
               RunInit(k) \/ RunFinalize(k) \/ \E ith, nth : RunCompute(k, ith, nth),
               Computed(k) => Computed(k)'
        PROVE  [Order!Next]_(Order!vars)
    <3>1. \A j \in Nodes : j # k => Computed(j)' = Computed(j)
      BY <1>1, <2>1, <2>4, PassOfOne
    <3>2. aborting \/ \A j \in 0 .. k - 1 : Computed(j)
      BY <2>4, InvOrders DEF NodesInOrder, SourcesReady
    <3>3. k \in 0 .. n_nodes - 1 /\ k \in 0 .. MaxNodes - 1 /\ \A j \in 0 .. k - 1 : j \in Nodes
      BY <1>1 DEF Nodes
    <3>4. CASE Computed(k)' /\ ~Computed(k)
      <4>1. values' = values \cup {k} /\ k \notin values
        BY <2>2, <3>1, <3>4
      <4>2. aborting \/ \A j \in 0 .. k - 1 : j \in values
        BY <3>2, <3>3
      <4> HIDE DEF values
      <4>3. Order!Compute(k)
        BY <2>2, <3>3, <4>1, <4>2 DEF Order!Compute, values
      <4> QED
        BY <3>3, <4>3 DEF Order!Next
    <3>5. CASE Computed(k) \/ ~Computed(k)'
      <4>1. values' = values
        BY <2>2, <2>4, <3>1, <3>5
      <4> QED
        BY <2>2, <4>1 DEF Order!vars
    <3> QED
      BY <3>4, <3>5
  <2> QED
    BY <1>4, <2>3, <2>4, PassOrNot
<1>5. CASE Join
  <2>1. UNCHANGED fixed /\ UNCHANGED passes /\ UNCHANGED aborting /\ compute_status = "none"
        /\ \A t \in Threads : pc[t] = "done"
    BY <1>5 DEF Join
  <2>2. compute_status' # "none"
    <3>1. 0 \in Threads /\ status[0] \in Statuses /\ pc[0] = "done"
      BY <1>1, <2>1, ThreadFacts DEF ThreadType
    <3>2. status[0] # "running"
      BY <1>1, <3>1 DEF HandoverInv, PlaceInv
    <3> QED
      BY <1>5, <3>1, <3>2 DEF Join, Statuses
  <2>3. values' = values /\ n_nodes' = n_nodes
    BY <1>2, <1>3, <2>1
  <2>4. aborting \/ values = 0 .. n_nodes - 1
    BY <2>1, DoneIsAll DEF Nodes
  <2> HIDE DEF values
  <2>5. Order!Return
    BY <2>1, <2>2, <2>3, <2>4 DEF Order!Return, values
  <2> QED
    BY <2>5 DEF Order!Next
<1>6. CASE Abort
  <2>1. UNCHANGED fixed /\ UNCHANGED passes /\ UNCHANGED compute_status /\ ~aborting /\ aborting' = TRUE
    BY <1>6 DEF Abort
  <2>2. values' = values /\ n_nodes' = n_nodes
    BY <1>2, <1>3, <2>1
  <2>3. Order!Abort
    BY <2>1, <2>2 DEF Order!Abort
  <2> QED
    BY <2>3 DEF Order!Next
<1>7. CASE Returned \/ UNCHANGED vars
  <2>1. UNCHANGED fixed /\ UNCHANGED passes /\ UNCHANGED <<compute_status, aborting>>
    BY <1>7 DEF Returned, vars
  <2>2. values' = values /\ n_nodes' = n_nodes
    BY <1>2, <1>3, <2>1
  <2> QED
    BY <2>1, <2>2 DEF Order!vars
<1> QED
  BY <1>4, <1>5, <1>6, <1>7 DEF Next

\* A graph none of whose tensors is empty has no values to begin with.
LEMMA StartsEvaluation ==
  ASSUME Init, \A k \in Nodes : Units(Node(k)) # {}
  PROVE  Order!Init
<1>1. n_nodes \in 1 .. MaxNodes
  BY GraphFacts DEF Init
<1>2. \A k \in Nodes : ~Computed(k)
  BY DEF Init, Computed
<1> QED
  BY <1>1, <1>2 DEF Order!Init, Init

\* For graphs without empty tensors: the call computes the nodes one after another, each
\* after all nodes before it, and unless it was aborted it returns with all of them
\* computed (the safety part of Implements; that it returns is left to the model checker).
THEOREM EvaluatesInOrder ==
  ASSUME \A g \in Graphs : \A i \in 1 .. Len(g) : Units(g[i]) # {}
  PROVE  Spec => Order!Init /\ [][Order!Next]_(Order!vars)
<1>1. Init => ComputeInv /\ ReturnInv /\ Order!Init
  <2> SUFFICES ASSUME Init PROVE ComputeInv /\ ReturnInv /\ Order!Init
    OBVIOUS
  <2>1. ComputeInv /\ ReturnInv
    BY ComputeInitially DEF Init, ReturnInv
  <2>2. \A k \in Nodes : Units(Node(k)) # {}
    <3>1. n_nodes \in Nat
      BY GraphFacts DEF Init
    <3>2. \A k \in Nodes : k + 1 \in 1 .. Len(cgraph)
      BY <3>1 DEF Nodes, n_nodes
    <3> QED
      BY <3>2 DEF Init, Node
  <2> QED
    BY <2>1, <2>2, StartsEvaluation
<1>2. ComputeInv /\ ReturnInv /\ [Next]_vars => (ComputeInv /\ ReturnInv)'
  BY ComputeStep, ReturnStep
<1> QED
  BY <1>1, <1>2, StepEvaluates, PTL DEF Spec

===============================================================================
