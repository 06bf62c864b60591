------------------------------ MODULE GgmlAllocProofs ------------------------------
(***************************************************************************)
(* The graph allocator shares memory soundly, for every graph that ggml's  *)
(* constructors can build, every alignment and every size of the free list:*)
(* the list accounts for all memory once, and evaluating the graph in the  *)
(* shared memory gives what it would give had every tensor its own.        *)
(***************************************************************************)
EXTENDS GgmlAlloc, TLAPS, WellFoundedInduction, FiniteSetTheorems, SequenceTheorems

-----------------------------------------------------------------------------
(* Numbers and sequences.                                                  *)

\* Numbers have a least one among them.
LEMMA LeastNumber ==
  ASSUME NEW S \in SUBSET Nat, S # {}
  PROVE  \E m \in S : \A n \in S : m <= n
<1> DEFINE below == {ss \in Nat \X Nat : ss[1] < ss[2]}
<1>1. OpToRel(<, Nat) = below
  BY DEF OpToRel
<1>2. IsWellFoundedOn(below, Nat)
  BY <1>1, NatLessThanWellFounded, Zenon
<1>3. \E m \in S : \A n \in S : ~(<<n, m>> \in below)
  <2> HIDE DEF below
  <2> QED
    BY <1>2, WFMin
<1>4. \A m, n \in S : ~(<<n, m>> \in below) => m <= n
  OBVIOUS
<1> HIDE DEF below
<1> QED
  BY <1>3, <1>4

\* Numbers that have a bound have a greatest one among them.
LEMMA GreatestNumber ==
  ASSUME NEW b \in Nat, NEW S \in SUBSET (0 .. b), S # {}
  PROVE  \E m \in S : \A n \in S : n <= m
<1> DEFINE D == {y \in 0 .. b : b - y \in S}
<1>1. PICK x \in S : TRUE
  OBVIOUS
<1>2. b - x \in 0 .. b /\ b - (b - x) = x
  OBVIOUS
<1>3. D \in SUBSET Nat /\ D # {}
  BY <1>1, <1>2
<1>4. PICK m \in D : \A y \in D : m <= y
  <2> HIDE DEF D
  <2> QED
    BY <1>3, LeastNumber
<1>5. b - m \in S /\ \A n \in S : b - n \in D
  <2>1. \A n \in S : b - n \in 0 .. b /\ b - (b - n) = n
    OBVIOUS
  <2> QED
    BY <2>1
<1>6. \A n \in S : n <= b - m
  BY <1>4, <1>5
<1> QED
  BY <1>5, <1>6

\* What has no gaps from 1 on is counted by its last number.
LEMMA NoGaps ==
  ASSUME NEW n \in Nat, NEW S \in SUBSET (1 .. n),
         \A i \in S : \A j \in 1 .. n : j <= i => j \in S
  PROVE  S = 1 .. Cardinality(S) /\ Cardinality(S) \in 0 .. n
<1>1. \E m \in 0 .. n : S = 1 .. m
  <2>1. CASE S = {}
    <3>1. S = 1 .. 0
      BY <2>1
    <3> QED
      BY <3>1
  <2>2. CASE S # {}
    <3>1. S \in SUBSET (0 .. n)
      OBVIOUS
    <3>2. PICK m \in S : \A i \in S : i <= m
      BY <2>2, <3>1, GreatestNumber
    <3>3. m \in 1 .. n /\ \A i \in 1 .. m : i \in 1 .. n /\ i <= m
      OBVIOUS
    <3>4. \A i \in 1 .. m : i \in S
      BY <3>3
    <3>5. \A i \in S : i \in 1 .. m
      BY <3>2
    <3>6. S = 1 .. m
      BY <3>4, <3>5
    <3> QED
      BY <3>3, <3>6
  <2> QED
    BY <2>1, <2>2
<1>2. PICK m \in 0 .. n : S = 1 .. m
  BY <1>1
<1>3. Cardinality(1 .. m) = m
  BY FS_Interval
<1> QED
  BY <1>2, <1>3

\* Rounding up to the alignment.
LEMMA Aligned ==
  ASSUME NEW b \in Nat
  PROVE  aligned(b) \in Nat /\ b <= aligned(b)
<1> DEFINE a == b + Alignment - 1
           d == a \div Alignment
<1>1. Alignment \in Nat \ {0}
  BY AlignmentAssumption
<1>2. a \in Nat /\ a = b + Alignment - 1
  BY <1>1
<1> HIDE DEF a
<1>3. d \in Nat /\ a < Alignment * d + Alignment /\ Alignment * d \in Nat
  BY <1>1, <1>2
<1>4. d * Alignment = Alignment * d
  BY <1>1, <1>3
<1>5. b <= d * Alignment /\ d * Alignment \in Nat
  <2> HIDE DEF d
  <2> QED
    BY <1>1, <1>2, <1>3, <1>4
<1> QED
  BY <1>5 DEF aligned, a, d

LEMMA AlignedInOrder ==
  ASSUME NEW b \in Nat, NEW c \in Nat, b <= c
  PROVE  aligned(b) <= aligned(c)
<1> DEFINE x == b + Alignment - 1
           y == c + Alignment - 1
           d == x \div Alignment
           e == y \div Alignment
<1>1. Alignment \in Nat \ {0}
  BY AlignmentAssumption
<1>2. x \in Nat /\ y \in Nat /\ x <= y
  BY <1>1
<1> HIDE DEF x, y
<1>3. /\ d \in Nat /\ Alignment * d <= x /\ Alignment * d \in Nat
      /\ e \in Nat /\ y < Alignment * e + Alignment /\ Alignment * e \in Nat
  BY <1>1, <1>2
<1>4. d <= e
  <2> HIDE DEF d, e
  <2> SUFFICES ASSUME e < d PROVE FALSE
    BY <1>3
  <2>1. Alignment * (d - e - 1) \in Nat /\ Alignment * d = Alignment * (d - e - 1) + Alignment * e + Alignment
    BY <1>1, <1>3
  <2> QED
    BY <1>1, <1>2, <1>3, <2>1
<1>5. d * Alignment <= e * Alignment
  <2> HIDE DEF d, e
  <2>1. Alignment * (e - d) \in Nat /\ e * Alignment = Alignment * (e - d) + d * Alignment
    BY <1>1, <1>3, <1>4
  <2>2. d * Alignment \in Nat /\ e * Alignment \in Nat
    BY <1>1, <1>3
  <2> QED
    BY <2>1, <2>2
<1> QED
  BY <1>5 DEF aligned, d, e, x, y

\* A sequence with another i-th element.
LEMMA ReplacedAt ==
  ASSUME NEW S, NEW s \in Seq(S), NEW i \in DOMAIN s, NEW e \in S
  PROVE  /\ [s EXCEPT ![i] = e] \in Seq(S) /\ Len([s EXCEPT ![i] = e]) = Len(s)
         /\ DOMAIN [s EXCEPT ![i] = e] = DOMAIN s
         /\ \A j \in DOMAIN s : [s EXCEPT ![i] = e][j] = IF j = i THEN e ELSE s[j]
OBVIOUS

\* A sequence without its i-th element.
LEMMA RemovedAt ==
  ASSUME NEW S, NEW s \in Seq(S), NEW i \in DOMAIN s
  PROVE  /\ RemoveAt(s, i) \in Seq(S) /\ Len(RemoveAt(s, i)) = Len(s) - 1
         /\ \A j \in 1 .. Len(s) - 1 :
                RemoveAt(s, i)[j] = IF j < i THEN s[j] ELSE s[j + 1]
<1> DEFINE u == SubSeq(s, 1, i - 1)
           v == SubSeq(s, i + 1, Len(s))
<1>1. /\ Len(s) \in Nat /\ DOMAIN s = 1 .. Len(s) /\ i \in 1 .. Len(s)
      /\ \A j \in 1 .. Len(s) : s[j] \in S
  OBVIOUS
<1>2. /\ u \in Seq(S) /\ Len(u) = IF 1 <= i - 1 THEN i - 1 - 1 + 1 ELSE 0
      /\ \A j \in 1 .. i - 1 - 1 + 1 : u[j] = s[1 + j - 1]
  <2>1. \A j \in 1 .. i - 1 : s[j] \in S
    BY <1>1
  <2> QED
    BY <1>1, <2>1, SubSeqProperties
<1>3. /\ v \in Seq(S) /\ Len(v) = IF i + 1 <= Len(s) THEN Len(s) - (i + 1) + 1 ELSE 0
      /\ \A j \in 1 .. Len(s) - (i + 1) + 1 : v[j] = s[i + 1 + j - 1]
  <2>1. \A j \in i + 1 .. Len(s) : s[j] \in S
    BY <1>1
  <2> QED
    BY <1>1, <2>1, SubSeqProperties
<1> HIDE DEF u, v
<1>4. /\ u \o v \in Seq(S) /\ Len(u \o v) = Len(u) + Len(v)
      /\ \A j \in 1 .. Len(u) + Len(v) : (u \o v)[j] = IF j <= Len(u) THEN u[j] ELSE v[j - Len(u)]
  BY <1>2, <1>3, ConcatProperties
<1>5. Len(u) = i - 1 /\ Len(v) = Len(s) - i
  BY <1>1, <1>2, <1>3
<1>6. ASSUME NEW j \in 1 .. Len(s) - 1
      PROVE  (u \o v)[j] = IF j < i THEN s[j] ELSE s[j + 1]
  <2>1. CASE j < i
    <3>1. j <= Len(u) /\ j \in 1 .. Len(u) + Len(v) /\ j \in 1 .. i - 1 - 1 + 1 /\ 1 + j - 1 = j
      BY <1>1, <1>5, <2>1
    <3>2. (u \o v)[j] = u[j] /\ u[j] = s[1 + j - 1]
      BY <1>2, <1>4, <3>1
    <3> QED
      BY <2>1, <3>1, <3>2
  <2>2. CASE ~(j < i)
    <3> DEFINE q == j - (i - 1)
    <3>1. ~(j <= Len(u)) /\ j \in 1 .. Len(u) + Len(v)
      BY <1>1, <1>5, <2>2
    <3>2. q \in 1 .. Len(s) - (i + 1) + 1 /\ i + 1 + q - 1 = j + 1
      BY <1>1, <2>2
    <3>3. (u \o v)[j] = v[j - Len(u)] /\ j - Len(u) = q
      BY <1>4, <1>5, <3>1
    <3>4. v[q] = s[i + 1 + q - 1]
      BY <1>3, <3>2
    <3> HIDE DEF q
    <3> QED
      BY <2>2, <3>2, <3>3, <3>4
  <2> QED
    BY <2>1, <2>2
<1>7. Len(u) + Len(v) = Len(s) - 1
  BY <1>1, <1>5
<1>8. RemoveAt(s, i) = u \o v
  BY DEF RemoveAt, u, v
<1> QED
  BY <1>4, <1>6, <1>7, <1>8

\* A sequence with one more element as the i-th.
LEMMA InsertedAt ==
  ASSUME NEW S, NEW s \in Seq(S), NEW i \in 1 .. Len(s) + 1, NEW e \in S
  PROVE  /\ InsertAt(s, i, e) \in Seq(S) /\ Len(InsertAt(s, i, e)) = Len(s) + 1
         /\ \A j \in 1 .. Len(s) + 1 :
                InsertAt(s, i, e)[j] = IF j < i THEN s[j] ELSE IF j = i THEN e ELSE s[j - 1]
<1> DEFINE u == SubSeq(s, 1, i - 1)
           w == <<e>>
           v == SubSeq(s, i, Len(s))
<1>1. /\ Len(s) \in Nat /\ DOMAIN s = 1 .. Len(s) /\ i \in Nat /\ 1 <= i /\ i <= Len(s) + 1
      /\ \A j \in 1 .. Len(s) : s[j] \in S
  OBVIOUS
<1>2. /\ u \in Seq(S) /\ Len(u) = IF 1 <= i - 1 THEN i - 1 - 1 + 1 ELSE 0
      /\ \A j \in 1 .. i - 1 - 1 + 1 : u[j] = s[1 + j - 1]
  <2>1. \A j \in 1 .. i - 1 : s[j] \in S
    BY <1>1
  <2> QED
    BY <1>1, <2>1, SubSeqProperties
<1>3. /\ v \in Seq(S) /\ Len(v) = IF i <= Len(s) THEN Len(s) - i + 1 ELSE 0
      /\ \A j \in 1 .. Len(s) - i + 1 : v[j] = s[i + j - 1]
  <2>1. \A j \in i .. Len(s) : s[j] \in S
    BY <1>1
  <2> QED
    BY <1>1, <2>1, SubSeqProperties
<1>4. w \in Seq(S) /\ Len(w) = 1 /\ w[1] = e
  OBVIOUS
<1> HIDE DEF u, v, w
<1>5. /\ u \o w \in Seq(S) /\ Len(u \o w) = Len(u) + Len(w)
      /\ \A j \in 1 .. Len(u) + Len(w) : (u \o w)[j] = IF j <= Len(u) THEN u[j] ELSE w[j - Len(u)]
  BY <1>2, <1>4, ConcatProperties
<1> DEFINE x == u \o w
<1>6. Len(u) = i - 1 /\ Len(v) = Len(s) - i + 1 /\ Len(x) = i
  BY <1>1, <1>2, <1>3, <1>4, <1>5
<1>7. x[i] = e /\ \A j \in 1 .. i - 1 : x[j] = s[j]
  <2>1. x[i] = w[i - Len(u)] /\ i - Len(u) = 1
    <3>1. i \in 1 .. Len(u) + Len(w) /\ ~(i <= Len(u))
      BY <1>1, <1>4, <1>6
    <3> QED
      BY <1>1, <1>5, <1>6, <3>1
  <2>2. ASSUME NEW j \in 1 .. i - 1
        PROVE  x[j] = s[j]
    <3>1. j \in 1 .. Len(u) + Len(w) /\ j <= Len(u) /\ j \in 1 .. i - 1 - 1 + 1 /\ 1 + j - 1 = j
      BY <1>1, <1>4, <1>6
    <3>2. x[j] = u[j] /\ u[j] = s[1 + j - 1]
      BY <1>2, <1>5, <3>1
    <3> QED
      BY <3>1, <3>2
  <2> QED
    BY <1>4, <2>1, <2>2
<1>x. x \in Seq(S)
  BY <1>5
<1> HIDE DEF x
<1>8. /\ x \o v \in Seq(S) /\ Len(x \o v) = Len(x) + Len(v)
      /\ \A j \in 1 .. Len(x) + Len(v) : (x \o v)[j] = IF j <= Len(x) THEN x[j] ELSE v[j - Len(x)]
  BY <1>3, <1>x, ConcatProperties
<1>9. ASSUME NEW j \in 1 .. Len(s) + 1
      PROVE  (x \o v)[j] = IF j < i THEN s[j] ELSE IF j = i THEN e ELSE s[j - 1]
  <2>1. j \in 1 .. Len(x) + Len(v)
    BY <1>1, <1>6
  <2>2. CASE j <= i
    <3>1. (x \o v)[j] = x[j]
      BY <1>6, <1>8, <2>1, <2>2
    <3>2. CASE j = i
      BY <1>1, <1>7, <3>1, <3>2
    <3>3. CASE j < i
      <4>1. j \in 1 .. i - 1 /\ j < i
        BY <1>1, <3>3
      <4>2. (x \o v)[j] = s[j]
        BY <1>7, <3>1, <4>1, Zenon
      <4> QED
        BY <4>1, <4>2, Zenon
    <3>4. j = i \/ j < i
      BY <1>1, <2>2
    <3> QED
      BY <3>2, <3>3, <3>4, Zenon
  <2>3. CASE ~(j <= i)
    <3> DEFINE q == j - i
    <3>1. q \in 1 .. Len(s) - i + 1 /\ i + q - 1 = j - 1
      BY <1>1, <2>3
    <3>2. (x \o v)[j] = v[j - Len(x)] /\ j - Len(x) = q
      BY <1>6, <1>8, <2>1, <2>3
    <3>3. v[q] = s[i + q - 1]
      BY <1>3, <3>1
    <3>4. ~(j < i) /\ j # i
      BY <1>1, <2>3
    <3> HIDE DEF q
    <3> QED
      BY <3>1, <3>2, <3>3, <3>4
  <2> QED
    BY <2>2, <2>3
<1>10. Len(x) + Len(v) = Len(s) + 1
  BY <1>1, <1>6
<1>11. InsertAt(s, i, e) = x \o v
  BY DEF InsertAt, u, v, w, x
<1> QED
  BY <1>8, <1>9, <1>10, <1>11

-----------------------------------------------------------------------------
(* The free list.                                                          *)

\* Extents <<address, size>> that do not meet, and a free list in order.
Clear(e, f)      == e[1] + e[2] <= f[1] \/ f[1] + f[2] <= e[1]
Blocks           == [addr : Nat, size : Nat]
Extent(b)        == <<b.addr, b.size>>
Sorted(fb)       == \A i, j \in DOMAIN fb : i < j => End(fb[i]) < fb[j].addr
ClearOf(e, fb)   == \A i \in DOMAIN fb : Clear(e, Extent(fb[i]))
Sizes            == Nat \X (Nat \ {0})

\* What is clear of two adjacent extents is clear of both together.
LEMMA ClearOfBoth ==
  ASSUME NEW e \in Sizes, NEW a \in Nat, NEW m \in Nat, NEW n \in Nat,
         Clear(e, <<a, m>>), Clear(e, <<a + m, n>>)
  PROVE  Clear(e, <<a, m + n>>)
BY DEF Clear, Sizes

LEMMA BlocksOf ==
  ASSUME NEW fb \in Seq(Blocks)
  PROVE  /\ Len(fb) \in Nat /\ DOMAIN fb = 1 .. Len(fb)
         /\ \A j \in DOMAIN fb : fb[j] \in Blocks /\ fb[j].addr \in Nat /\ fb[j].size \in Nat
<1>1. Len(fb) \in Nat /\ DOMAIN fb = 1 .. Len(fb) /\ \A j \in DOMAIN fb : fb[j] \in Blocks
  OBVIOUS
<1>2. \A b \in Blocks : b.addr \in Nat /\ b.size \in Nat
  BY DEF Blocks
<1> QED
  BY <1>1, <1>2

\* The block found fits.
LEMMA BestFitFits ==
  ASSUME NEW fb \in Seq(Blocks), NEW bytes \in Nat, BestFit(fb, bytes) # None
  PROVE  BestFit(fb, bytes) \in DOMAIN fb /\ fb[BestFit(fb, bytes)].size >= bytes
<1> DEFINE fits == {i \in 1 .. Len(fb) - 1 : fb[i].size >= bytes}
           best == {i \in fits : \A j \in fits : fb[i].size <= fb[j].size}
<1>1. BestFit(fb, bytes) =
        IF best # {} THEN CHOOSE i \in best : \A j \in best : j <= i
        ELSE IF Len(fb) > 0 /\ fb[Len(fb)].size >= bytes THEN Len(fb) ELSE None
  BY DEF BestFit
<1>2. Len(fb) \in Nat /\ DOMAIN fb = 1 .. Len(fb)
  OBVIOUS
<1>3. CASE best # {}
  <2>1. best \in SUBSET (0 .. Len(fb)) /\ \A i \in best : i \in DOMAIN fb /\ fb[i].size >= bytes
    BY <1>2
  <2>2. \E m \in best : \A n \in best : n <= m
    <3> HIDE DEF best
    <3> QED
      BY <1>2, <1>3, <2>1, GreatestNumber
  <2>3. BestFit(fb, bytes) \in best
    <3> HIDE DEF best
    <3> QED
      BY <1>1, <1>3, <2>2
  <2> QED
    BY <2>1, <2>3
<1>4. CASE best = {}
  <2> HIDE DEF best
  <2>1. BestFit(fb, bytes) = Len(fb) /\ Len(fb) > 0 /\ fb[Len(fb)].size >= bytes
    BY <1>1, <1>4 DEF None
  <2>2. Len(fb) \in DOMAIN fb
    BY <1>2, <2>1
  <2> QED
    BY <2>1, <2>2
<1> QED
  BY <1>3, <1>4

\* Taking memory from a block leaves the list in order; what was clear of the
\* list still is, and so is what was taken.
LEMMA TakeKeeps ==
  ASSUME NEW fb \in Seq(Blocks), Sorted(fb), NEW bytes \in Nat \ {0},
         NEW i \in DOMAIN fb, fb[i].size >= bytes
  PROVE  /\ Take(fb, i, bytes) \in Seq(Blocks) /\ Sorted(Take(fb, i, bytes))
         /\ <<fb[i].addr, bytes>> \in Sizes /\ ClearOf(<<fb[i].addr, bytes>>, Take(fb, i, bytes))
         /\ \A e \in Sizes : ClearOf(e, fb) => /\ ClearOf(e, Take(fb, i, bytes))
                                              /\ Clear(e, <<fb[i].addr, bytes>>)
<1>1. /\ Len(fb) \in Nat /\ DOMAIN fb = 1 .. Len(fb)
      /\ \A j \in DOMAIN fb : fb[j] \in Blocks /\ fb[j].addr \in Nat /\ fb[j].size \in Nat
  BY BlocksOf
<1> DEFINE t == Take(fb, i, bytes)
           a == fb[i].addr
\* Every block of the new list lies in a block of the old one, behind a + bytes
\* if that is the i-th, and their order is the same.
<1>2. t \in Seq(Blocks) /\ \E o \in [DOMAIN t -> DOMAIN fb] :
          /\ \A j, l \in DOMAIN t : j < l => o[j] < o[l]
          /\ \A j \in DOMAIN t :
                /\ t[j].addr \in Nat /\ t[j].size \in Nat
                /\ o[j] # i => t[j] = fb[o[j]]
                /\ o[j] = i => t[j].addr = a + bytes /\ End(t[j]) = End(fb[i])
  <2>1. CASE fb[i].size = bytes
    <3> DEFINE o == [j \in 1 .. Len(fb) - 1 |-> IF j < i THEN j ELSE j + 1]
    <3>1. t = RemoveAt(fb, i)
      BY <2>1 DEF Take
    <3>2. /\ t \in Seq(Blocks) /\ Len(t) = Len(fb) - 1
          /\ \A j \in 1 .. Len(fb) - 1 : t[j] = IF j < i THEN fb[j] ELSE fb[j + 1]
      BY <3>1, RemovedAt
    <3> HIDE DEF t
    <3>3. DOMAIN t = 1 .. Len(fb) - 1
      BY <3>2
    <3>4. o \in [DOMAIN t -> DOMAIN fb] /\ \A j \in DOMAIN t : o[j] # i /\ t[j] = fb[o[j]]
      BY <1>1, <3>2, <3>3
    <3>5. \A j, l \in DOMAIN t : j < l => o[j] < o[l]
      BY <1>1, <3>3
    <3>6. \A j \in DOMAIN t : t[j].addr \in Nat /\ t[j].size \in Nat
      BY <1>1, <3>4
    <3> HIDE DEF o
    <3> QED
      BY <3>2, <3>4, <3>5, <3>6
  <2>2. CASE fb[i].size # bytes
    <3> DEFINE o == [j \in DOMAIN fb |-> j]
               b == Block(a + bytes, fb[i].size - bytes)
    <3>1. t = [fb EXCEPT ![i] = b]
      BY <2>2 DEF Take, ReplaceAt
    <3>2. b \in Blocks /\ b.addr = a + bytes /\ b.size \in Nat /\ End(b) = End(fb[i])
      BY <1>1 DEF Blocks, Block, End
    <3> HIDE DEF b
    <3>3. t \in Seq(Blocks) /\ DOMAIN t = DOMAIN fb /\ \A j \in DOMAIN fb : t[j] = IF j = i THEN b ELSE fb[j]
      BY <1>1, <3>1, <3>2
    <3> HIDE DEF t
    <3>4. o \in [DOMAIN t -> DOMAIN fb] /\ \A j \in DOMAIN t : o[j] = j
      BY <3>3
    <3>5. \A j, l \in DOMAIN t : j < l => o[j] < o[l]
      BY <3>4
    <3>6. \A j \in DOMAIN t : t[j].addr \in Nat /\ t[j].size \in Nat
      BY <1>1, <3>2, <3>3
    <3> HIDE DEF o
    <3> QED
      BY <3>2, <3>3, <3>4, <3>5, <3>6
  <2> QED
    BY <2>1, <2>2
<1>3. PICK o \in [DOMAIN t -> DOMAIN fb] :
          /\ \A j, l \in DOMAIN t : j < l => o[j] < o[l]
          /\ \A j \in DOMAIN t :
                /\ t[j].addr \in Nat /\ t[j].size \in Nat
                /\ o[j] # i => t[j] = fb[o[j]]
                /\ o[j] = i => t[j].addr = a + bytes /\ End(t[j]) = End(fb[i])
  BY <1>2
<1>t. t \in Seq(Blocks)
  BY <1>2
<1> HIDE DEF t
<1>4. \A j \in DOMAIN t : End(t[j]) = End(fb[o[j]]) /\ t[j].addr >= fb[o[j]].addr
  BY <1>1, <1>3
<1>5. Sorted(t)
  <2> SUFFICES ASSUME NEW j \in DOMAIN t, NEW l \in DOMAIN t, j < l
               PROVE  End(t[j]) < t[l].addr
    BY DEF Sorted
  <2>1. End(fb[o[j]]) < fb[o[l]].addr
    BY <1>3 DEF Sorted
  <2>2. End(fb[o[j]]) \in Nat /\ fb[o[l]].addr \in Nat /\ t[l].addr \in Nat
    BY <1>1, <1>3 DEF End
  <2> QED
    BY <1>4, <2>1, <2>2
<1>6. <<a, bytes>> \in Sizes /\ ClearOf(<<a, bytes>>, t)
  <2>1. a \in Nat
    BY <1>1
  <2>2. ASSUME NEW j \in DOMAIN t
        PROVE  Clear(<<a, bytes>>, Extent(t[j]))
    <3>1. CASE o[j] = i
      BY <1>3, <2>1, <3>1 DEF Clear, Extent
    <3>2. CASE o[j] # i
      <4>1. t[j] = fb[o[j]] /\ o[j] \in DOMAIN fb /\ (o[j] < i \/ i < o[j])
        BY <1>1, <1>3, <3>2
      <4>2. End(fb[o[j]]) < a \/ End(fb[i]) < fb[o[j]].addr
        BY <4>1 DEF Sorted
      <4> QED
        BY <1>1, <2>1, <4>1, <4>2 DEF Clear, Extent, End
    <3> QED
      BY <3>1, <3>2
  <2> QED
    BY <2>1, <2>2 DEF Sizes, ClearOf
<1>7. ASSUME NEW e \in Sizes, ClearOf(e, fb)
      PROVE  ClearOf(e, t) /\ Clear(e, <<a, bytes>>)
  <2>1. e[1] \in Nat /\ e[2] \in Nat
    BY DEF Sizes
  <2>2. ASSUME NEW j \in DOMAIN t
        PROVE  Clear(e, Extent(t[j]))
    <3>1. Clear(e, Extent(fb[o[j]]))
      BY <1>3, <1>7 DEF ClearOf
    <3>2. End(t[j]) = End(fb[o[j]]) /\ t[j].addr >= fb[o[j]].addr /\ o[j] \in DOMAIN fb
      BY <1>3, <1>4
    <3>3. /\ fb[o[j]].addr \in Nat /\ fb[o[j]].size \in Nat
          /\ t[j].addr \in Nat /\ t[j].size \in Nat
      BY <1>1, <1>3, <3>2
    <3> QED
      BY <2>1, <3>1, <3>2, <3>3 DEF Clear, Extent, End
  <2>3. Clear(e, Extent(fb[i]))
    BY <1>7 DEF ClearOf
  <2>4. Clear(e, <<a, bytes>>)
    BY <1>1, <2>1, <2>3 DEF Clear, Extent
  <2> QED
    BY <2>2, <2>4 DEF ClearOf
<1> QED
  BY <1>t, <1>5, <1>6, <1>7 DEF t

\* Merging restores the order where only blocks i and i + 1 may touch, and what
\* was clear of the list still is.
LEMMA MergeKeeps ==
  ASSUME NEW fb \in Seq(Blocks), NEW i \in Int,
         \A a, b \in DOMAIN fb : a < b => End(fb[a]) <= fb[b].addr,
         \A a, b \in DOMAIN fb : a < b /\ (a # i \/ b # i + 1) => End(fb[a]) < fb[b].addr
  PROVE  /\ Merge(fb, i) \in Seq(Blocks) /\ Sorted(Merge(fb, i))
         /\ \A e \in Sizes : ClearOf(e, fb) => ClearOf(e, Merge(fb, i))
<1>1. /\ Len(fb) \in Nat /\ DOMAIN fb = 1 .. Len(fb)
      /\ \A j \in DOMAIN fb : fb[j] \in Blocks /\ fb[j].addr \in Nat /\ fb[j].size \in Nat
  BY BlocksOf
<1> DEFINE touch == i \in 1 .. Len(fb) - 1 /\ End(fb[i]) = fb[i + 1].addr
<1>2. CASE ~touch
  <2>1. Merge(fb, i) = fb
    BY <1>2 DEF Merge
  <2>2. Sorted(fb)
    <3> SUFFICES ASSUME NEW a \in DOMAIN fb, NEW b \in DOMAIN fb, a < b
                 PROVE  End(fb[a]) < fb[b].addr
      BY DEF Sorted
    <3>1. CASE a # i \/ b # i + 1
      BY <3>1
    <3>2. CASE a = i /\ b = i + 1
      <4>1. i \in 1 .. Len(fb) - 1
        BY <1>1, <3>2
      <4>2. End(fb[i]) # fb[i + 1].addr /\ End(fb[a]) <= fb[b].addr /\ End(fb[a]) \in Nat /\ fb[b].addr \in Nat
        BY <1>1, <1>2, <4>1 DEF End
      <4> QED
        BY <3>2, <4>2
    <3> QED
      BY <3>1, <3>2
  <2> QED
    BY <2>1, <2>2
<1>3. CASE touch
  <2> DEFINE b == Block(fb[i].addr, fb[i].size + fb[i + 1].size)
             u == [fb EXCEPT ![i] = b]
             t == RemoveAt(u, i + 1)
  <2>1. Merge(fb, i) = t
    BY <1>3 DEF Merge, ReplaceAt
  <2>2. i \in DOMAIN fb /\ i + 1 \in DOMAIN fb /\ End(fb[i]) = fb[i + 1].addr
    BY <1>1, <1>3
  <2>3. /\ b \in Blocks /\ b.addr = fb[i].addr /\ End(b) = End(fb[i + 1])
        /\ b.size = fb[i].size + fb[i + 1].size
    <3>1. /\ fb[i].addr \in Nat /\ fb[i].size \in Nat /\ fb[i + 1].addr \in Nat
          /\ fb[i + 1].size \in Nat /\ fb[i].addr + fb[i].size = fb[i + 1].addr
      BY <1>1, <2>2 DEF End
    <3>2. b.addr = fb[i].addr /\ b.size = fb[i].size + fb[i + 1].size
      BY DEF Block
    <3>3. b \in Blocks
      <4>1. \A p, q \in Nat : p + q \in Nat
        OBVIOUS
      <4>2. fb[i].size + fb[i + 1].size \in Nat
        BY <3>1, <4>1, Zenon
      <4> QED
        BY <3>1, <4>2 DEF Block, Blocks
    <3> HIDE DEF b
    <3>4. b.addr + b.size = fb[i + 1].addr + fb[i + 1].size
      BY <3>1, <3>2
    <3> QED
      BY <3>2, <3>3, <3>4 DEF End
  <2> HIDE DEF b
  <2>4. /\ u \in Seq(Blocks) /\ Len(u) = Len(fb) /\ DOMAIN u = DOMAIN fb
        /\ \A j \in DOMAIN fb : u[j] = IF j = i THEN b ELSE fb[j]
    BY <2>2, <2>3, ReplacedAt
  <2> HIDE DEF u
  <2>5. /\ t \in Seq(Blocks) /\ Len(t) = Len(fb) - 1
        /\ \A j \in 1 .. Len(fb) - 1 : t[j] = IF j < i + 1 THEN u[j] ELSE u[j + 1]
    <3>1. i + 1 \in DOMAIN u
      BY <2>2, <2>4
    <3>2. /\ t \in Seq(Blocks) /\ Len(t) = Len(u) - 1
          /\ \A j \in 1 .. Len(u) - 1 : t[j] = IF j < i + 1 THEN u[j] ELSE u[j + 1]
      BY <2>4, <3>1, RemovedAt
    <3> HIDE DEF t
    <3> QED
      BY <2>4, <3>2
  <2> HIDE DEF t
  <2>6. DOMAIN t = 1 .. Len(fb) - 1
    BY <2>5
  <2>7. \A j \in DOMAIN t : t[j] = IF j = i THEN b ELSE IF j < i THEN fb[j] ELSE fb[j + 1]
    <3> SUFFICES ASSUME NEW j \in DOMAIN t
                 PROVE  t[j] = IF j = i THEN b ELSE IF j < i THEN fb[j] ELSE fb[j + 1]
      OBVIOUS
    <3>1. j \in DOMAIN fb /\ j + 1 \in DOMAIN fb /\ j \in Nat /\ i \in Nat
      BY <1>1, <2>2, <2>6
    <3>2. CASE j <= i
      BY <2>4, <2>5, <2>6, <3>1, <3>2
    <3>3. CASE ~(j <= i)
      <4>1. t[j] = u[j + 1] /\ j + 1 # i /\ ~(j < i) /\ j # i
        BY <2>5, <2>6, <3>1, <3>3
      <4> QED
        BY <2>4, <3>1, <4>1
    <3> QED
      BY <3>2, <3>3
  <2>8. Sorted(t)
    <3> SUFFICES ASSUME NEW j \in DOMAIN t, NEW l \in DOMAIN t, j < l
                 PROVE  End(t[j]) < t[l].addr
      BY DEF Sorted
    <3> DEFINE p == IF j < i THEN j ELSE j + 1
               q == IF l <= i THEN l ELSE l + 1
    <3>1. p \in DOMAIN fb /\ q \in DOMAIN fb /\ p < q /\ (p # i \/ q # i + 1)
      BY <1>1, <2>6, <2>2
    <3>2. End(t[j]) = End(fb[p])
      BY <1>1, <2>3, <2>6, <2>7
    <3>3. t[l].addr = fb[q].addr
      BY <1>1, <2>3, <2>6, <2>7
    <3> HIDE DEF p, q
    <3> QED
      BY <3>1, <3>2, <3>3
  <2>9. ASSUME NEW e \in Sizes, ClearOf(e, fb)
        PROVE  ClearOf(e, t)
    <3> SUFFICES ASSUME NEW j \in DOMAIN t
                 PROVE  Clear(e, Extent(t[j]))
      BY DEF ClearOf
    <3>1. CASE j = i
      <4>1. Clear(e, <<fb[i].addr, fb[i].size>>) /\ Clear(e, <<fb[i].addr + fb[i].size, fb[i + 1].size>>)
        BY <2>2, <2>9 DEF ClearOf, Extent, End
      <4>2. Clear(e, <<fb[i].addr, fb[i].size + fb[i + 1].size>>)
        BY <1>1, <2>2, <4>1, ClearOfBoth
      <4> QED
        BY <2>3, <2>7, <3>1, <4>2 DEF Extent
    <3>2. CASE j # i
      <4>1. \E l \in DOMAIN fb : t[j] = fb[l]
        BY <1>1, <2>6, <2>7, <3>2
      <4> QED
        BY <2>9, <4>1 DEF ClearOf
    <3> QED
      BY <3>1, <3>2
  <2> QED
    BY <2>1, <2>5, <2>8, <2>9
<1> QED
  BY <1>2, <1>3

\* Memory that is clear of the list is given back: the list stays in order, and
\* what is clear of the list and of that memory is clear of the new list.
LEMMA GiveBackKeeps ==
  ASSUME NEW fb \in Seq(Blocks), Sorted(fb), NEW addr \in Nat, NEW bytes \in Nat \ {0},
         ClearOf(<<addr, bytes>>, fb)
  PROVE  /\ GiveBack(fb, addr, bytes) \in Seq(Blocks) /\ Sorted(GiveBack(fb, addr, bytes))
         /\ \A e \in Sizes : ClearOf(e, fb) /\ Clear(e, <<addr, bytes>>)
                => ClearOf(e, GiveBack(fb, addr, bytes))
<1>1. /\ Len(fb) \in Nat /\ DOMAIN fb = 1 .. Len(fb)
      /\ \A j \in DOMAIN fb : fb[j] \in Blocks /\ fb[j].addr \in Nat /\ fb[j].size \in Nat
  BY BlocksOf
<1> DEFINE near == Touching(fb, addr, bytes)
           low  == {n \in DOMAIN fb : fb[n].addr < addr}
           pos  == Cardinality(low)
           i    == CHOOSE n \in near : \A m \in near : n <= m
           one  == Block(addr, bytes)
           up   == Block(fb[i].addr, fb[i].size + bytes)
           down == Block(addr, fb[i].size + bytes)
           new  == GiveBack(fb, addr, bytes)
<1>2. new = IF near = {} THEN InsertAt(fb, pos + 1, one)
            ELSE IF End(fb[i]) = addr THEN Merge([fb EXCEPT ![i] = up], i)
            ELSE Merge([fb EXCEPT ![i] = down], i - 1)
  BY DEF GiveBack, ReplaceAt
<1> HIDE DEF new
<1>3. /\ \A n \in DOMAIN fb : fb[n].addr + fb[n].size <= addr \/ addr + bytes <= fb[n].addr
      /\ \A n, m \in DOMAIN fb : n < m => fb[n].addr + fb[n].size < fb[m].addr
  BY DEF ClearOf, Clear, Extent, Sorted, End
<1>4. CASE near = {}
  <2>1. \A n \in DOMAIN fb : fb[n].addr + fb[n].size # addr /\ addr + bytes # fb[n].addr
    BY <1>4 DEF Touching, End
  <2>2. \A n \in low : \A m \in 1 .. Len(fb) : m <= n => m \in low
    BY <1>1, <1>3
  <2>3. low = 1 .. pos /\ pos \in 0 .. Len(fb)
    <3>1. low \in SUBSET (1 .. Len(fb))
      BY <1>1
    <3> HIDE DEF low
    <3> QED
      BY <1>1, <2>2, <3>1, NoGaps
  <2>4. \A n \in DOMAIN fb : n <= pos <=> fb[n].addr < addr
    <3>1. \A n \in DOMAIN fb : n \in low <=> fb[n].addr < addr
      OBVIOUS
    <3> HIDE DEF low, pos
    <3> QED
      BY <1>1, <2>3, <3>1
  <2> HIDE DEF low, pos
  <2>5. one \in Blocks /\ one.addr = addr /\ one.size = bytes
    BY DEF Block, Blocks
  <2> HIDE DEF one
  <2>6. /\ new \in Seq(Blocks) /\ Len(new) = Len(fb) + 1
        /\ \A j \in 1 .. Len(fb) + 1 :
             new[j] = IF j < pos + 1 THEN fb[j] ELSE IF j = pos + 1 THEN one ELSE fb[j - 1]
    <3>1. pos + 1 \in 1 .. Len(fb) + 1
      BY <1>1, <2>3
    <3>2. new = InsertAt(fb, pos + 1, one)
      BY <1>2, <1>4
    <3> QED
      <4>1. /\ InsertAt(fb, pos + 1, one) \in Seq(Blocks)
            /\ Len(InsertAt(fb, pos + 1, one)) = Len(fb) + 1
            /\ \A j \in 1 .. Len(fb) + 1 : InsertAt(fb, pos + 1, one)[j] =
                  IF j < pos + 1 THEN fb[j] ELSE IF j = pos + 1 THEN one ELSE fb[j - 1]
        <5> DEFINE ip == pos + 1
        <5>1. ip \in 1 .. Len(fb) + 1 /\ one \in Blocks
          BY <2>5, <3>1
        <5> HIDE DEF ip
        <5>2. /\ InsertAt(fb, ip, one) \in Seq(Blocks)
              /\ Len(InsertAt(fb, ip, one)) = Len(fb) + 1
              /\ \A j \in 1 .. Len(fb) + 1 : InsertAt(fb, ip, one)[j] =
                  IF j < ip THEN fb[j] ELSE IF j = ip THEN one ELSE fb[j - 1]
          BY <5>1, InsertedAt
        <5> QED
          BY <5>2 DEF ip
      <4> QED
        BY <3>2, <4>1
  <2>7. DOMAIN new = 1 .. Len(fb) + 1
    BY <2>6
  <2>8. \A n \in DOMAIN fb : /\ n <= pos => fb[n].addr + fb[n].size < addr
                             /\ n > pos => addr + bytes < fb[n].addr
    <3> SUFFICES ASSUME NEW n \in DOMAIN fb
                 PROVE  /\ n <= pos => fb[n].addr + fb[n].size < addr
                        /\ n > pos => addr + bytes < fb[n].addr
      OBVIOUS
    <3>1. /\ n \in Nat /\ pos \in Nat /\ fb[n].addr \in Nat /\ fb[n].size \in Nat
          /\ n <= pos <=> fb[n].addr < addr
      BY <1>1, <2>3, <2>4
    <3>2. /\ fb[n].addr + fb[n].size <= addr \/ addr + bytes <= fb[n].addr
          /\ fb[n].addr + fb[n].size # addr /\ addr + bytes # fb[n].addr
      BY <1>3, <2>1
    <3> QED
      BY <3>1, <3>2
  <2>9. Sorted(new)
    <3> SUFFICES ASSUME NEW a \in DOMAIN new, NEW b \in DOMAIN new, a < b
                 PROVE  End(new[a]) < new[b].addr
      BY DEF Sorted
    <3>1. a \in Nat /\ b \in Nat /\ pos \in Nat
      BY <2>3, <2>7
    <3>2. CASE a = pos + 1
      <4>1. new[a] = one /\ new[b] = fb[b - 1] /\ b - 1 \in DOMAIN fb /\ b - 1 > pos
        BY <1>1, <2>6, <2>7, <3>1, <3>2
      <4> QED
        BY <2>5, <2>8, <4>1 DEF End
    <3>3. CASE b = pos + 1
      <4>1. new[b] = one /\ new[a] = fb[a] /\ a \in DOMAIN fb /\ a <= pos
        BY <1>1, <2>3, <2>6, <2>7, <3>1, <3>3
      <4> QED
        BY <2>5, <2>8, <4>1 DEF End
    <3>4. CASE a # pos + 1 /\ b # pos + 1
      <4> DEFINE p == IF a < pos + 1 THEN a ELSE a - 1
                 q == IF b < pos + 1 THEN b ELSE b - 1
      <4>1. p \in DOMAIN fb /\ q \in DOMAIN fb /\ p < q
        BY <1>1, <2>3, <2>7, <3>1, <3>4
      <4>2. new[a] = fb[p] /\ new[b] = fb[q]
        BY <2>6, <2>7, <3>1, <3>4
      <4> HIDE DEF p, q
      <4> QED
        BY <1>3, <4>1, <4>2 DEF End
    <3> QED
      BY <3>2, <3>3, <3>4
  <2>10. ASSUME NEW e \in Sizes, ClearOf(e, fb), Clear(e, <<addr, bytes>>)
         PROVE  ClearOf(e, new)
    <3> SUFFICES ASSUME NEW j \in DOMAIN new
                 PROVE  Clear(e, Extent(new[j]))
      BY DEF ClearOf
    <3>1. new[j] = one \/ \E n \in DOMAIN fb : new[j] = fb[n]
      <4>1. j \in 1 .. Len(fb) + 1 /\ pos \in 0 .. Len(fb)
        BY <2>3, <2>7
      <4>2. CASE j < pos + 1
        <5>1. new[j] = fb[j] /\ j \in DOMAIN fb
          BY <1>1, <2>6, <4>1, <4>2
        <5> QED
          BY <5>1
      <4>3. CASE j > pos + 1
        <5>1. new[j] = fb[j - 1] /\ j - 1 \in DOMAIN fb
          BY <1>1, <2>6, <4>1, <4>3
        <5> QED
          BY <5>1
      <4>4. CASE j = pos + 1
        BY <1>1, <2>6, <4>1, <4>4
      <4> QED
        BY <1>1, <4>1, <4>2, <4>3, <4>4
    <3> QED
      BY <2>5, <2>10, <3>1 DEF ClearOf, Extent
  <2> QED
    BY <2>6, <2>9, <2>10 DEF new
<1>5. CASE near # {}
  <2>1. i \in near /\ \A m \in near : i <= m
    <3>1. near \in SUBSET Nat
      BY <1>1 DEF Touching
    <3>2. \E n \in near : \A m \in near : n <= m
      <4> HIDE DEF near
      <4> QED
        BY <1>5, <3>1, LeastNumber
    <3> HIDE DEF near
    <3> QED
      BY <3>2
  <2> HIDE DEF i
  <2>2. /\ i \in DOMAIN fb
        /\ fb[i].addr + fb[i].size = addr \/ addr + bytes = fb[i].addr
        /\ \A m \in DOMAIN fb : m < i => fb[m].addr + fb[m].size # addr
    BY <1>1, <2>1 DEF Touching, End
  <2>3. CASE fb[i].addr + fb[i].size = addr
    <3> DEFINE u == [fb EXCEPT ![i] = up]
    <3>1. new = Merge(u, i)
      BY <1>2, <1>5, <2>3 DEF End
    <3>2. up \in Blocks /\ up.addr = fb[i].addr /\ up.size = fb[i].size + bytes
      BY <1>1, <2>2 DEF Block, Blocks
    <3> HIDE DEF up
    <3>3. /\ u \in Seq(Blocks) /\ DOMAIN u = DOMAIN fb
          /\ \A j \in DOMAIN fb : u[j] = IF j = i THEN up ELSE fb[j]
      BY <1>1, <2>2, <3>2
    <3> HIDE DEF u
    <3>4. \A n \in DOMAIN fb : i < n => addr + bytes <= fb[n].addr /\ (n # i + 1 => addr + bytes < fb[n].addr)
      <4> SUFFICES ASSUME NEW n \in DOMAIN fb, i < n
                   PROVE  addr + bytes <= fb[n].addr /\ (n # i + 1 => addr + bytes < fb[n].addr)
        OBVIOUS
      <4>1. addr + bytes <= fb[n].addr
        BY <1>1, <1>3, <2>2, <2>3
      <4>2. ASSUME n # i + 1
            PROVE  addr + bytes < fb[n].addr
        <5>1. i + 1 \in DOMAIN fb /\ i < i + 1 /\ i + 1 < n
          BY <1>1, <2>2, <4>2
        <5>2. PICK m \in DOMAIN fb : m = i + 1
          BY <5>1
        <5>3. addr + bytes <= fb[m].addr
          BY <1>1, <1>3, <2>2, <2>3, <5>1, <5>2
        <5>4. fb[m].addr + fb[m].size < fb[n].addr
          BY <1>1, <1>3, <5>1, <5>2
        <5>5. fb[m].addr \in Nat /\ fb[m].size \in Nat /\ fb[n].addr \in Nat
          BY <1>1
        <5> QED
          BY <5>3, <5>4, <5>5
      <4> QED
        BY <4>1, <4>2
    <3>5. /\ \A a, b \in DOMAIN u : a < b => End(u[a]) <= u[b].addr
          /\ \A a, b \in DOMAIN u : a < b /\ (a # i \/ b # i + 1) => End(u[a]) < u[b].addr
      <4> SUFFICES ASSUME NEW a \in DOMAIN u, NEW b \in DOMAIN u, a < b
                   PROVE  /\ End(u[a]) <= u[b].addr
                          /\ (a # i \/ b # i + 1) => End(u[a]) < u[b].addr
        OBVIOUS
      <4>a. a < b
        OBVIOUS
      <4>1. /\ a \in DOMAIN fb /\ b \in DOMAIN fb /\ a \in Nat /\ b \in Nat /\ i \in Nat
            /\ fb[a].addr + fb[a].size < fb[b].addr /\ u[b].addr = fb[b].addr
        <5>1. a \in DOMAIN fb /\ b \in DOMAIN fb
          BY <3>3
        <5>2. a \in Nat /\ b \in Nat /\ i \in Nat
          BY <1>1, <2>2, <5>1
        <5>3. fb[a].addr + fb[a].size < fb[b].addr
          BY <1>3, <4>a, <5>1
        <5>4. u[b] = IF b = i THEN up ELSE fb[b]
          BY <3>3, <5>1
        <5>5. u[b].addr = fb[b].addr
          BY <3>2, <5>4
        <5> QED
          BY <5>1, <5>2, <5>3, <5>5
      <4>2. CASE a = i
        <5>1. u[a] = up /\ up.addr + up.size = addr + bytes
          <6>1. u[i] = up
            BY <2>2, <3>3
          <6>2. fb[i].addr \in Nat /\ fb[i].size \in Nat
            BY <1>1, <2>2
          <6>3. u[a] = up
            BY <4>2, <6>1
          <6>4. up.addr + up.size = addr + bytes
            <7> DEFINE x == fb[i].addr
                       y == fb[i].size
            <7>1. x \in Nat /\ y \in Nat /\ x + y = addr /\ up.addr = x /\ up.size = y + bytes
              BY <2>3, <3>2, <6>2
            <7> HIDE DEF x, y
            <7> QED
              BY <7>1
          <6> QED
            BY <6>3, <6>4
        <5>2. i < b
          BY <4>2
        <5>3. addr + bytes <= fb[b].addr /\ (b # i + 1 => addr + bytes < fb[b].addr)
          BY <3>4, <4>1, <5>2
        <5> QED
          BY <4>1, <4>2, <5>1, <5>3 DEF End
      <4>3. CASE a # i
        <5>1. u[a] = fb[a] /\ fb[a].addr + fb[a].size \in Nat /\ fb[b].addr \in Nat
          BY <1>1, <3>3, <4>1, <4>3
        <5> QED
          BY <4>1, <5>1 DEF End
      <4> QED
        BY <4>2, <4>3
    <3>6. ASSUME NEW e \in Sizes, ClearOf(e, fb), Clear(e, <<addr, bytes>>)
          PROVE  ClearOf(e, u)
      <4>1. Clear(e, <<fb[i].addr, fb[i].size>>) /\ Clear(e, <<fb[i].addr + fb[i].size, bytes>>)
        BY <2>2, <2>3, <3>6 DEF ClearOf, Extent
      <4>2. Clear(e, Extent(up))
        BY <1>1, <2>2, <3>2, <4>1, ClearOfBoth DEF Extent
      <4> QED
        BY <3>3, <3>6, <4>2 DEF ClearOf
    <3>7. i \in Int
      BY <1>1, <2>2
    <3> QED
      BY <3>1, <3>3, <3>5, <3>6, <3>7, MergeKeeps DEF new
  <2>4. CASE fb[i].addr + fb[i].size # addr
    <3> DEFINE u == [fb EXCEPT ![i] = down]
    <3>1. new = Merge(u, i - 1)
      BY <1>2, <1>5, <2>4 DEF End
    <3>2. down \in Blocks /\ down.addr = addr /\ down.size = fb[i].size + bytes
      BY <1>1, <2>2 DEF Block, Blocks
    <3> HIDE DEF down
    <3>3. /\ u \in Seq(Blocks) /\ DOMAIN u = DOMAIN fb
          /\ \A j \in DOMAIN fb : u[j] = IF j = i THEN down ELSE fb[j]
      BY <1>1, <2>2, <3>2
    <3> HIDE DEF u
    <3>a. addr + bytes = fb[i].addr
      BY <2>2, <2>4
    <3>4. \A n \in DOMAIN fb : n < i => fb[n].addr + fb[n].size < addr
      <4> SUFFICES ASSUME NEW n \in DOMAIN fb, n < i
                   PROVE  fb[n].addr + fb[n].size < addr
        OBVIOUS
      <4>1. fb[n].addr \in Nat /\ fb[n].size \in Nat
        BY <1>1
      <4>2. fb[n].addr + fb[n].size < fb[i].addr
        BY <1>3, <2>2
      <4>3. fb[n].addr + fb[n].size # addr
        BY <2>2
      <4>4. fb[n].addr + fb[n].size <= addr \/ addr + bytes <= fb[n].addr
        BY <1>3
      <4> QED
        BY <3>a, <4>1, <4>2, <4>3, <4>4
    <3>5. /\ \A a, b \in DOMAIN u : a < b => End(u[a]) <= u[b].addr
          /\ \A a, b \in DOMAIN u : a < b /\ (a # i - 1 \/ b # i - 1 + 1) => End(u[a]) < u[b].addr
      <4>1. ASSUME NEW a \in DOMAIN u, NEW b \in DOMAIN u, a < b
            PROVE  End(u[a]) < u[b].addr
        <5>1. /\ a \in DOMAIN fb /\ b \in DOMAIN fb /\ fb[a].addr + fb[a].size < fb[b].addr
              /\ fb[a].addr \in Nat /\ fb[a].size \in Nat
          BY <1>1, <1>3, <3>3, <4>1
        <5>2. u[a].addr + u[a].size = fb[a].addr + fb[a].size
          <6>1. u[a] = IF a = i THEN down ELSE fb[a]
            BY <3>3, <5>1
          <6>2. fb[i].addr \in Nat /\ fb[i].size \in Nat
            BY <1>1, <2>2
          <6> QED
            BY <3>a, <3>2, <6>1, <6>2
        <5>3. CASE b = i
          BY <3>2, <3>3, <3>4, <4>1, <5>1, <5>2, <5>3 DEF End
        <5>4. CASE b # i
          BY <3>3, <5>1, <5>2, <5>4 DEF End
        <5> QED
          BY <5>3, <5>4
      <4>2. \A a, b \in DOMAIN u : End(u[a]) \in Nat /\ u[b].addr \in Nat
        <5>1. \A a \in DOMAIN u : u[a] \in Blocks
          BY <3>3
        <5>2. \A c \in Blocks : c.addr \in Nat /\ c.size \in Nat
          BY DEF Blocks
        <5> QED
          BY <5>1, <5>2 DEF End
      <4>3. \A x, y \in Nat : x < y => x <= y
        OBVIOUS
      <4> QED
        BY <4>1, <4>2, <4>3
    <3>6. ASSUME NEW e \in Sizes, ClearOf(e, fb), Clear(e, <<addr, bytes>>)
          PROVE  ClearOf(e, u)
      <4>1. Clear(e, <<addr, bytes>>) /\ Clear(e, <<addr + bytes, fb[i].size>>)
        BY <2>2, <3>a, <3>6 DEF ClearOf, Extent
      <4>2. Clear(e, Extent(down)) 
        BY <1>1, <2>2, <3>2, <4>1, ClearOfBoth DEF Extent
      <4> QED
        BY <3>3, <3>6, <4>2 DEF ClearOf
    <3>7. i - 1 \in Int
      BY <1>1, <2>2
    <3> QED
      BY <3>1, <3>3, <3>5, <3>6, <3>7, MergeKeeps DEF new
  <2> QED
    BY <2>3, <2>4
<1> QED
  BY <1>4, <1>5

-----------------------------------------------------------------------------
(* The inductive invariant.                                                *)

\* The tensor that owns the memory t was built to lie in, and who lies there.
RootOf(t) == IF graph[t].view = None THEN t ELSE graph[t].view
Roots     == {t \in Tensors : graph[t].view = None}
OwnRoots  == {r \in Roots : op(r) # "WEIGHT"}
Family(r) == {t \in Tensors : RootOf(t) = r}
Placed(t) == data[t] # Null

\* What is still ahead while nodes are placed: a result that nobody reads
\* waits for ever, and a family as long as one of its members.
Unread(t)  == \A n \in Nodes : t \notin Parents(n)
Ahead(c)   == stage = "inputs" \/ c[1] > ind \/ (c[1] = ind /\ (stage = "update" => c[2] >= k))
Pending(t) == {c \in Readings(t) : Ahead(c)}
Waiting(t) == Unread(t) \/ Pending(t) # {}
Active(r)  == \E t \in Family(r) : Waiting(t)
InUse(v)   == {n \in Nodes : view_src[n] = v /\ Waiting(n)}

\* The free list is in order, and apart from what is handed out.
ListInv ==
    /\ free_blocks \in Seq(Blocks) /\ Sorted(free_blocks)
    /\ held \subseteq Sizes
    /\ \A h, g \in held : h = g \/ Clear(h, g)
    /\ \A h \in held : ClearOf(h, free_blocks)
    /\ max_size \in Nat /\ size \in Nat

\* Where the allocator is.
PlaceInv ==
    /\ plan \in Plans /\ measuring \in BOOLEAN /\ failed \in BOOLEAN
    /\ stage \in Stages /\ ind \in Nat \ {0} /\ k \in Nat \ {0}
    /\ stage \in {"allocate", "compute"} => ind \in Nodes \cup {Len(graph) + 1}
    /\ stage = "done" => ind = Len(graph) + 1
    /\ stage = "inputs" => ind <= Len(graph) + 1
    /\ stage = "update" => ind \in Nodes
    /\ stage \in {"compute", "done", "ready"} => ~measuring
    /\ failed => stage \in {"inputs", "allocate", "update"}

ShapeInv ==
    stage # "ready" => /\ data \in [Tensors -> Int] /\ buffer \in [Tensors -> Buffers]
                       /\ view_src \in [Tensors -> Tensors \cup {None}]
                       /\ n_children \in [Tensors -> Nat] /\ n_views \in [Tensors -> Nat]

\* Where tensors are: weights elsewhere, views in their roots, and a root that
\* took over the memory of another at the address of that one.
WeightInv == \A t \in Tensors : op(t) = "WEIGHT" => /\ data[t] = Foreign(t) /\ buffer[t] = "other"
                                                    /\ view_src[t] = None
ViewInv ==
    \A t \in Tensors : graph[t].view # None =>
        /\ view_src[t] = graph[t].view
        /\ Placed(t) => Placed(graph[t].view) /\ data[t] = data[graph[t].view] + graph[t].offs
RootInv ==
    \A r \in OwnRoots :
        /\ Placed(r) => data[r] \in Nat
        /\ view_src[r] # None => /\ r \in Nodes /\ Placed(r)
                                 /\ view_src[r] \in OwnRoots /\ data[view_src[r]] = data[r]
AddressInv == WeightInv /\ ViewInv /\ RootInv

\* Which tensors have been placed.
Past(n) == n < ind \/ (n = ind /\ stage = "update") \/ stage \in {"compute", "done"}
PlacedInv ==
    /\ stage = "inputs" => \A r \in OwnRoots : view_src[r] = None /\ (Placed(r) <=> op(r) = "INPUT" /\ r < ind)
    /\ stage # "inputs" => \A t \in Tensors : op(t) = "INPUT" => Placed(t)
    /\ stage # "inputs" => \A n \in Nodes : Past(n) => Placed(n)
    /\ stage # "inputs" => \A n \in Nodes : graph[n].view = None /\ Placed(n) => Past(n)
    /\ stage = "allocate" /\ ind \in Nodes => \A j \in DOMAIN src(ind) : j < k => Placed(src(ind)[j])
    /\ stage = "update" => \A j \in DOMAIN src(ind) : Placed(src(ind)[j])

\* The counts are of what is pending and in use.
CountInv ==
    stage \in {"allocate", "update"} =>
        \A t \in Tensors : /\ n_children[t] = Cardinality(Pending(t))
                           /\ n_views[t] >= Cardinality(InUse(t))

\* Node t has taken over the memory of family s, whose last reading it is.
Taken(t, s) ==
    /\ stage = "update" /\ t = ind /\ graph[t].view = None
    /\ \E i \in DOMAIN src(t) :
        /\ i >= k /\ RootOf(src(t)[i]) = s
        /\ view_src[t] = IF view_src[src(t)[i]] = None THEN src(t)[i] ELSE view_src[src(t)[i]]
        /\ \A u \in Family(s) : ~Unread(u) /\ Pending(u) \subseteq {<<t, i>>}

\* Families with something ahead have memory handed out to them, each its own.
HeldBy(r, h) ==
    /\ h[1] = data[r] /\ aligned(graph[r].size) <= h[2]
    /\ view_src[r] # None => aligned(graph[view_src[r]].size) <= h[2]
BackedInv == \A r \in OwnRoots : Placed(r) /\ Active(r) => \E h \in held : HeldBy(r, h)
ApartInv  == \A r, s \in OwnRoots : r # s /\ Placed(r) /\ Placed(s) /\ Active(r) /\ Active(s)
                 => data[r] # data[s] \/ Taken(r, s) \/ Taken(s, r)
HeldInv   == stage \in {"inputs", "allocate", "update"} => BackedInv /\ ApartInv

\* Node m writes, but not where a family lies that was filled before and is
\* needed after.
Filled(r, m) == op(r) \in {"INPUT", "WEIGHT"} \/ \E n \in Nodes : n < m /\ RootOf(n) = r
NeededFrom(r, m) ==
    \/ op(r) = "WEIGHT"
    \/ \E t \in Family(r) : Unread(t) \/ \E n \in Nodes : n >= m /\ t \in Parents(n)
Spares(m, r) == data[r] + graph[r].size <= data[m] \/ data[m] + graph[m].size <= data[r]
SparesAll(m) == \A r \in Roots : r # RootOf(m) /\ Filled(r, m) /\ NeededFrom(r, m + 1) => Spares(m, r)
SpareInv == stage # "inputs" => \A m \in Nodes : Past(m) => SparesAll(m)

\* Root r holds what it should.
Whole(r) == \A i \in Cells(r) : <<r, i>> \in DOMAIN ref =>
                data[r] + i \in DOMAIN mem /\ mem[data[r] + i] = ref[<<r, i>>]
ContentInv ==
    /\ ~measuring /\ stage \in {"inputs", "allocate", "update"} =>
          /\ \A c \in DOMAIN ref : /\ c[1] \in Roots /\ Placed(c[1]) /\ op(c[1]) \in {"INPUT", "WEIGHT"}
                                   /\ c = <<c[1], c[2]>>
          /\ \A r \in Roots : Whole(r)
    /\ stage \in {"compute", "done"} =>
          /\ \A c \in DOMAIN ref : c[1] \in Roots /\ Filled(c[1], ind) /\ c = <<c[1], c[2]>>
          /\ \A r \in Roots : NeededFrom(r, ind) => Whole(r)

RunInv == AddressInv /\ PlacedInv /\ CountInv /\ HeldInv /\ SpareInv /\ ContentInv
AllocInv == PlaceInv /\ ShapeInv /\ ListInv /\ (failed \/ stage = "ready" \/ RunInv)

-----------------------------------------------------------------------------
(* Graphs.                                                                 *)

USE DEF None, Null

\* What the graph being worked on is known to be.
LEMMA GraphFacts ==
  ASSUME PlaceInv
  PROVE  /\ WellFormed(graph) /\ Len(graph) \in Nat /\ Tensors = 1 .. Len(graph)
         /\ Nodes \in SUBSET Tensors
         /\ \A t \in Tensors : /\ t \in Nat \ {0} /\ graph[t].size \in Nat \ {0} /\ graph[t].offs \in Nat
                               /\ Len(src(t)) \in Nat /\ DOMAIN src(t) = 1 .. Len(src(t))
         /\ \A t \in Tensors : \A i \in DOMAIN src(t) : src(t)[i] \in Tensors /\ src(t)[i] < t
         /\ \A t \in Tensors \ Nodes : DOMAIN src(t) = {} /\ graph[t].view = None
<1>1. DOMAIN plan = 1 .. 2 /\ WellFormed(plan[1]) /\ WellFormed(plan[2])
  BY PlansAssumption DEF PlaceInv
<1>2. WellFormed(graph)
  BY <1>1 DEF graph
<1>3. Len(graph) \in Nat /\ Tensors = 1 .. Len(graph) /\ Nodes \in SUBSET Tensors
  BY <1>2 DEF WellFormed, Tensors, Nodes
<1>4. \A t \in Tensors : /\ t \in Nat \ {0} /\ graph[t].size \in Nat \ {0} /\ graph[t].offs \in Nat
                         /\ Len(src(t)) \in Nat /\ DOMAIN src(t) = 1 .. Len(src(t))
  BY <1>2, <1>3 DEF WellFormed, Tensors, src
<1>5. \A t \in Tensors : \A i \in DOMAIN src(t) : src(t)[i] \in 1 .. t - 1
  BY <1>2, <1>3 DEF WellFormed, Tensors, src
<1>6. \A t \in Tensors : \A i \in DOMAIN src(t) : src(t)[i] \in Tensors /\ src(t)[i] < t
  BY <1>3, <1>5
<1>7. \A t \in Tensors \ Nodes : DOMAIN src(t) = {} /\ graph[t].view = None
  <2> SUFFICES ASSUME NEW t \in Tensors, t \notin Nodes
               PROVE  DOMAIN src(t) = {} /\ graph[t].view = None
    OBVIOUS
  <2>1. op(t) \in {"INPUT", "WEIGHT", "LEAF"}
    BY DEF Nodes, IsNode
  <2>2. graph[t].src = << >> /\ graph[t].view = None
    BY <1>2, <2>1 DEF WellFormed, Tensors, op
  <2> QED
    BY <2>2 DEF src
<1> QED
  BY <1>2, <1>3, <1>4, <1>6, <1>7

\* Roots, and the views in them.
LEMMA RootFacts ==
  ASSUME PlaceInv
  PROVE  /\ OwnRoots \in SUBSET Roots /\ Roots \in SUBSET Tensors
         /\ \A t \in Tensors : /\ RootOf(t) \in Roots /\ RootOf(t) <= t
                               /\ graph[t].offs + graph[t].size <= graph[RootOf(t)].size
                               /\ t \in Family(RootOf(t))
         /\ \A r \in Roots : RootOf(r) = r /\ r \in Family(r) /\ graph[r].offs = 0 /\ graph[r].view = None
         /\ \A t \in Tensors : graph[t].view # None => /\ t \in Nodes /\ RootOf(t) = graph[t].view
                                                       /\ RootOf(t) < t
         /\ \A r : \A t \in Family(r) : t \in Tensors /\ RootOf(t) = r /\ (t = r \/ graph[t].view = r)
         /\ \A r \in Roots : r \notin OwnRoots <=> op(r) = "WEIGHT"
<1>1. OwnRoots \in SUBSET Roots /\ Roots \in SUBSET Tensors
  BY DEF OwnRoots, Roots
<1>2. ASSUME NEW t \in Tensors
      PROVE  /\ RootOf(t) \in Roots /\ RootOf(t) <= t
             /\ graph[t].offs + graph[t].size <= graph[RootOf(t)].size
             /\ t \in Family(RootOf(t))
             /\ graph[t].view # None => t \in Nodes /\ RootOf(t) = graph[t].view /\ RootOf(t) < t
  <2>1. /\ Len(graph) \in Nat /\ Tensors = 1 .. Len(graph) /\ graph[t].size \in Nat /\ graph[t].offs \in Nat
        /\ t \in Nat
    BY GraphFacts
  <2>2. \/ graph[t].view = None /\ graph[t].offs = 0
        \/ /\ graph[t].view \in 1 .. t - 1 /\ graph[graph[t].view].view = None
           /\ graph[t].offs + graph[t].size <= graph[graph[t].view].size
    BY GraphFacts DEF WellFormed, Tensors
  <2>3. CASE graph[t].view = None /\ graph[t].offs = 0
    BY <2>1, <2>3 DEF RootOf, Roots, Family
  <2>4. CASE /\ graph[t].view \in 1 .. t - 1 /\ graph[graph[t].view].view = None
             /\ graph[t].offs + graph[t].size <= graph[graph[t].view].size
    <3>1. RootOf(t) = graph[t].view /\ graph[t].view # None /\ graph[t].view \in Tensors /\ graph[t].view < t
      BY <2>1, <2>4 DEF RootOf
    <3>2. t \in Nodes
      BY <3>1, GraphFacts
    <3> QED
      BY <2>1, <2>4, <3>1, <3>2 DEF Roots, Family
  <2> QED
    BY <2>2, <2>3, <2>4
<1>3. ASSUME NEW r \in Roots
      PROVE  RootOf(r) = r /\ r \in Family(r) /\ graph[r].offs = 0 /\ graph[r].view = None
  <2>1. r \in Tensors /\ graph[r].view = None /\ RootOf(r) = r
    BY DEF Roots, RootOf
  <2>2. \/ graph[r].view = None /\ graph[r].offs = 0
        \/ graph[r].view \in 1 .. r - 1
    BY <2>1, GraphFacts DEF WellFormed, Tensors
  <2>3. graph[r].offs = 0
    BY <2>1, <2>2
  <2> QED
    BY <2>1, <2>3 DEF Family
<1>4. \A r : \A t \in Family(r) : t \in Tensors /\ RootOf(t) = r /\ (t = r \/ graph[t].view = r)
  BY DEF Family, RootOf
<1>5. \A r \in Roots : r \notin OwnRoots <=> op(r) = "WEIGHT"
  BY DEF OwnRoots
<1> QED
  BY <1>1, <1>2, <1>3, <1>4, <1>5

\* A view reads its root, or another view of that; whatever has a view is read.
LEMMA ViewReads ==
  ASSUME PlaceInv, NEW t \in Tensors, graph[t].view # None
  PROVE  /\ \E i \in DOMAIN src(t) : RootOf(src(t)[i]) = RootOf(t)
         /\ ~Unread(RootOf(t))
<1>1. ASSUME NEW u \in Tensors, graph[u].view # None
      PROVE  \E i \in DOMAIN src(u) : src(u)[i] = graph[u].view \/ graph[src(u)[i]].view = graph[u].view
  BY <1>1, GraphFacts DEF WellFormed, Tensors, src
<1>2. \E i \in DOMAIN src(t) : RootOf(src(t)[i]) = RootOf(t)
  <2>1. PICK i \in DOMAIN src(t) : src(t)[i] = graph[t].view \/ graph[src(t)[i]].view = graph[t].view
    BY <1>1
  <2>2. RootOf(t) = graph[t].view /\ RootOf(t) \in Roots
    BY RootFacts
  <2>3. RootOf(src(t)[i]) = RootOf(t)
    BY <2>1, <2>2, RootFacts DEF RootOf
  <2> QED
    BY <2>3
<1>3. ~Unread(RootOf(t))
  <2> DEFINE v == graph[t].view
             V == {u \in Tensors : graph[u].view = v}
  <2>1. V \in SUBSET Nat /\ V # {}
    BY GraphFacts
  <2>2. PICK u \in V : \A w \in V : u <= w
    <3> HIDE DEF V
    <3> QED
      BY <2>1, LeastNumber
  <2>3. PICK i \in DOMAIN src(u) : src(u)[i] = v \/ graph[src(u)[i]].view = v
    BY <1>1, <2>2
  <2>4. src(u)[i] \in Tensors /\ src(u)[i] < u /\ u \in Nat /\ src(u)[i] \in Nat
    BY <2>2, GraphFacts
  <2>5. src(u)[i] = v
    BY <2>2, <2>3, <2>4
  <2>6. u \in Nodes /\ v \in Parents(u)
    BY <2>2, <2>3, <2>5, RootFacts DEF Parents
  <2> QED
    BY <2>6, RootFacts DEF Unread
<1> QED
  BY <1>2, <1>3

\* The places where a tensor is read.
LEMMA ReadingFacts ==
  ASSUME PlaceInv
  PROVE  /\ \A t, c : c \in Readings(t) <=> \E n \in Nodes : \E i \in DOMAIN src(n) : c = <<n, i>> /\ src(n)[i] = t
         /\ \A t : IsFiniteSet(Readings(t))
         /\ \A t : Unread(t) <=> Readings(t) = {}
         /\ IsFiniteSet(Nodes)
<1>1. \A t, c : c \in Readings(t) <=> \E n \in Nodes : \E i \in DOMAIN src(n) : c = <<n, i>> /\ src(n)[i] = t
  BY DEF Readings
<1>2. \A t : Unread(t) <=> Readings(t) = {}
  <2> SUFFICES ASSUME NEW t
               PROVE  Unread(t) <=> Readings(t) = {}
    OBVIOUS
  <2>1. Unread(t) <=> \A n \in Nodes : \A i \in DOMAIN src(n) : src(n)[i] # t
    BY DEF Unread, Parents
  <2> QED
    BY <1>1, <2>1
<1>3. IsFiniteSet(Nodes)
  <2>1. IsFiniteSet(1 .. Len(graph))
    BY GraphFacts, FS_Interval
  <2> QED
    BY <2>1, GraphFacts, FS_Subset
<1>4. ASSUME NEW t
      PROVE  IsFiniteSet(Readings(t))
  <2> DEFINE J(n) == {j \in DOMAIN src(n) : src(n)[j] = t}
             R(n) == {<<n, i>> : i \in J(n)}
             f    == [n \in Nodes |-> R(n)]
  <2>1. ASSUME NEW n \in Nodes
        PROVE  IsFiniteSet(R(n))
    <3>1. IsFiniteSet(J(n))
      <4>1. DOMAIN src(n) = 1 .. Len(src(n)) /\ Len(src(n)) \in Nat
        BY GraphFacts
      <4>2. IsFiniteSet(1 .. Len(src(n)))
        BY <4>1, FS_Interval
      <4> QED
        BY <4>1, <4>2, FS_Subset
    <3> DEFINE g == [i \in J(n) |-> <<n, i>>]
    <3>2. g \in Surjection(J(n), R(n))
      BY DEF Surjection
    <3> HIDE DEF J, R, g
    <3> QED
      BY <3>1, <3>2, FS_Surjection
  <2>2. f \in Surjection(Nodes, {R(n) : n \in Nodes})
    <3> HIDE DEF R
    <3> QED
      BY DEF Surjection
  <2>3. IsFiniteSet({R(n) : n \in Nodes})
    <3> HIDE DEF R, f
    <3> QED
      BY <1>3, <2>2, FS_Surjection
  <2>4. \A S \in {R(n) : n \in Nodes} : IsFiniteSet(S)
    BY <2>1
  <2>5. IsFiniteSet(UNION {R(n) : n \in Nodes})
    <3> HIDE DEF R, f
    <3> QED
      BY <2>3, <2>4, FS_UNION
  <2> QED
    BY <2>5 DEF Readings
<1> QED
  BY <1>1, <1>2, <1>3, <1>4

\* The first node from i on.
LEMMA NextNodes ==
  ASSUME PlaceInv, NEW i \in Nat \ {0}
  PROVE  /\ NodeFrom(i) \in Nodes \cup {Len(graph) + 1}
         /\ \A n \in Nodes : n >= NodeFrom(i) <=> n >= i
         /\ NodeFrom(i) \in Nat \ {0}
         /\ i <= Len(graph) + 1 => NodeFrom(i) >= i
<1>1. Nodes \in SUBSET (1 .. Len(graph)) /\ Len(graph) \in Nat /\ \A n \in Nodes : n \in Nat \ {0} /\ n <= Len(graph)
  BY GraphFacts
<1>2. CASE \E n \in Nodes : n >= i
  <2> DEFINE S == {n \in Nodes : n >= i}
  <2>1. S \in SUBSET Nat /\ S # {}
    BY <1>1, <1>2
  <2>2. \E m \in S : \A n \in S : m <= n
    <3> HIDE DEF S
    <3> QED
      BY <2>1, LeastNumber
  <2>3. \E n \in Nodes : n >= i /\ \A m \in Nodes : m >= i => n <= m
    BY <2>2
  <2>4. NodeFrom(i) = CHOOSE n \in Nodes : n >= i /\ \A m \in Nodes : m >= i => n <= m
    BY <1>2 DEF NodeFrom
  <2>5. NodeFrom(i) \in Nodes /\ NodeFrom(i) >= i /\ \A m \in Nodes : m >= i => NodeFrom(i) <= m
    BY <2>3, <2>4
  <2> DEFINE x == NodeFrom(i)
  <2>6. x \in Nodes /\ x >= i /\ x \in Nat \ {0} /\ \A m \in Nodes : m >= i => x <= m
    BY <1>1, <2>5
  <2> HIDE DEF x
  <2>7. \A n \in Nodes : n >= x <=> n >= i
    BY <1>1, <2>6
  <2> QED
    BY <2>6, <2>7 DEF x
<1>3. CASE ~\E n \in Nodes : n >= i
  <2>1. NodeFrom(i) = Len(graph) + 1
    BY <1>3 DEF NodeFrom
  <2> QED
    BY <1>1, <1>3, <2>1
<1> QED
  BY <1>2, <1>3

\* A step with the same graph.
LEMMA SameGraph ==
  ASSUME UNCHANGED <<plan, measuring>>
  PROVE  /\ graph' = graph /\ Tensors' = Tensors /\ Nodes' = Nodes
         /\ Roots' = Roots /\ OwnRoots' = OwnRoots
         /\ \A t : RootOf(t)' = RootOf(t)
         /\ \A t : Readings(t)' = Readings(t)
         /\ \A t : Unread(t)' = Unread(t)
         /\ \A t : Family(t)' = Family(t)
         /\ \A r, m : Filled(r, m)' = Filled(r, m)
         /\ \A r, m : NeededFrom(r, m)' = NeededFrom(r, m)
<1>1. graph' = graph
  BY DEF graph
<1>2. Tensors' = Tensors /\ Nodes' = Nodes
  BY <1>1 DEF Tensors, Nodes, IsNode, op
<1>3. Roots' = Roots /\ OwnRoots' = OwnRoots
  BY <1>1, <1>2 DEF Roots, OwnRoots, op
<1>4. \A t : RootOf(t)' = RootOf(t)
  BY <1>1 DEF RootOf
<1>5. \A t : Readings(t)' = Readings(t)
  BY <1>1, <1>2 DEF Readings, src
<1>6. \A t : Unread(t)' = Unread(t)
  BY <1>1, <1>2 DEF Unread, Parents, src
<1>7. \A t : Family(t)' = Family(t)
  BY <1>2, <1>4 DEF Family
<1>8. \A r, m : Filled(r, m)' = Filled(r, m)
  BY <1>1, <1>2, <1>4 DEF Filled, op
<1>9. \A r, m : NeededFrom(r, m)' = NeededFrom(r, m)
  BY <1>1, <1>2, <1>6, <1>7 DEF NeededFrom, op, Parents, src
<1> QED
  BY <1>1, <1>2, <1>3, <1>4, <1>5, <1>6, <1>7, <1>8, <1>9

\* Readings are done one by one.
LEMMA FewerPending ==
  ASSUME UNCHANGED <<plan, measuring>>,
         \A t : \A c \in Readings(t) : Ahead(c)' => Ahead(c)
  PROVE  /\ \A t : Pending(t)' \subseteq Pending(t)
         /\ \A t : Waiting(t)' => Waiting(t)
         /\ \A r : Active(r)' => Active(r)
         /\ \A n, v : view_src'[n] = view_src[n] => (n \in InUse(v)' => n \in InUse(v))
<1>1. \A t : Pending(t)' \subseteq Pending(t)
  BY SameGraph DEF Pending
<1>2. \A t : Waiting(t)' => Waiting(t)
  BY <1>1, SameGraph DEF Waiting
<1>3. \A r : Active(r)' => Active(r)
  BY <1>2, SameGraph DEF Active
<1>4. \A n, v : view_src'[n] = view_src[n] => (n \in InUse(v)' => n \in InUse(v))
  BY <1>2, SameGraph DEF InUse
<1> QED
  BY <1>1, <1>2, <1>3, <1>4

LEMMA SamePending ==
  ASSUME UNCHANGED <<plan, measuring>>,
         \A t : \A c \in Readings(t) : Ahead(c)' <=> Ahead(c)
  PROVE  /\ \A t : Pending(t)' = Pending(t)
         /\ \A t : Waiting(t)' <=> Waiting(t)
         /\ \A r : Active(r)' <=> Active(r)
<1>1. \A t : Pending(t)' = Pending(t)
  BY SameGraph DEF Pending
<1>2. \A t : Waiting(t)' <=> Waiting(t)
  BY <1>1, SameGraph DEF Waiting
<1>3. \A r : Active(r)' <=> Active(r)
  BY <1>2, SameGraph DEF Active
<1> QED
  BY <1>1, <1>2, <1>3

\* Sizes of tensors in the buffer.
LEMMA Padded ==
  ASSUME PlaceInv, NEW t \in Tensors
  PROVE  aligned(graph[t].size) \in Nat \ {0} /\ graph[t].size <= aligned(graph[t].size)
<1> DEFINE b == graph[t].size
<1>1. b \in Nat \ {0}
  BY GraphFacts
<1>2. b \in Nat
  BY <1>1
<1> HIDE DEF b
<1>3. aligned(b) \in Nat /\ b <= aligned(b)
  BY <1>2, Aligned
<1>4. aligned(b) \in Nat \ {0} /\ b <= aligned(b)
  BY <1>1, <1>3
<1> QED
  BY <1>4 DEF b

\* Allocating tensor x either fails or hands out memory that was free.
LEMMA AllocEffect ==
  ASSUME PlaceInv, ListInv, NEW x \in Tensors, ~failed, tallocr_alloc(x), UNCHANGED size
  PROVE  /\ ListInv'
         /\ \/ failed' = TRUE /\ UNCHANGED <<data, buffer, held>>
            \/ /\ failed' = FALSE
               /\ \E addr \in Nat :
                    /\ data' = [data EXCEPT ![x] = addr]
                    /\ buffer' = [buffer EXCEPT ![x] = "own"]
                    /\ held' = held \cup {<<addr, aligned(graph[x].size)>>}
                    /\ \A h \in held : Clear(h, <<addr, aligned(graph[x].size)>>)
<1> DEFINE bytes == aligned(graph[x].size)
           i     == BestFit(free_blocks, bytes)
           addr  == free_blocks[i].addr
<1>1. bytes \in Nat \ {0} /\ bytes \in Nat
  BY Padded
<1>2. CASE i = None
  <2>1. failed' = TRUE /\ UNCHANGED <<data, buffer, space>>
    BY <1>2 DEF tallocr_alloc, Fail
  <2>2. UNCHANGED <<free_blocks, held, max_size, size>>
    BY <2>1 DEF space
  <2>3. ListInv'
    BY <2>2 DEF ListInv
  <2> QED
    BY <2>1, <2>2, <2>3
<1>3. CASE i # None
  <2>1. /\ free_blocks' = Take(free_blocks, i, bytes)
        /\ data' = [data EXCEPT ![x] = addr] /\ buffer' = [buffer EXCEPT ![x] = "own"]
        /\ max_size' = IF addr + bytes > max_size THEN addr + bytes ELSE max_size
        /\ held' = held \cup {<<addr, bytes>>}
        /\ failed' = FALSE
    BY <1>3 DEF tallocr_alloc
  <2> DEFINE fb == free_blocks
  <2>2. fb \in Seq(Blocks) /\ Sorted(fb)
    BY DEF ListInv
  <2>3. i \in DOMAIN fb /\ fb[i].size >= bytes
    <3> HIDE DEF fb, bytes
    <3> QED
      BY <1>1, <1>3, <2>2, BestFitFits DEF fb
  <2>4. /\ Take(fb, i, bytes) \in Seq(Blocks) /\ Sorted(Take(fb, i, bytes))
        /\ <<addr, bytes>> \in Sizes /\ ClearOf(<<addr, bytes>>, Take(fb, i, bytes))
        /\ \A e \in Sizes : ClearOf(e, fb) => /\ ClearOf(e, Take(fb, i, bytes))
                                              /\ Clear(e, <<addr, bytes>>)
    <3> HIDE DEF fb, bytes, i
    <3> QED
      BY <1>1, <2>2, <2>3, TakeKeeps DEF fb
  <2>5. addr \in Nat
    BY <2>4 DEF Sizes
  <2> HIDE DEF bytes, i, addr
  <2>6. \A h \in held : Clear(h, <<addr, bytes>>) /\ ClearOf(h, free_blocks')
    BY <2>1, <2>4 DEF ListInv
  <2>7. \A h, g \in held' : h = g \/ Clear(h, g)
    <3>1. \A h, g : Clear(h, g) => Clear(g, h)
      BY DEF Clear
    <3> QED
      BY <2>1, <2>6, <3>1 DEF ListInv
  <2>8. max_size' \in Nat /\ size' \in Nat
    BY <1>1, <2>1, <2>5 DEF ListInv
  <2>9. held' \subseteq Sizes /\ \A h \in held' : ClearOf(h, free_blocks')
    BY <2>1, <2>4, <2>6 DEF ListInv
  <2>10. ListInv'
    BY <2>1, <2>4, <2>7, <2>8, <2>9 DEF ListInv
  <2> QED
    BY <2>1, <2>5, <2>6, <2>10 DEF bytes
<1> QED
  BY <1>2, <1>3

\* Freeing tensor x, that lies at the front of what was handed out there, takes
\* that back.
LEMMA FreeEffect ==
  ASSUME PlaceInv, ListInv, NEW x \in Tensors, ~failed, tallocr_free(x), UNCHANGED size,
         is_own(x) => \E h \in held : h[1] = data[x] /\ aligned(graph[x].size) <= h[2]
  PROVE  /\ ListInv' /\ UNCHANGED <<data, buffer>>
         /\ \/ failed' = TRUE
            \/ failed' = FALSE /\ is_own(x) /\ held' = {g \in held : g[1] # data[x]}
            \/ failed' = FALSE /\ ~is_own(x) /\ held' = held
<1>a. failed = FALSE
  BY DEF PlaceInv
<1>1. CASE UNCHANGED space
  <2>1. UNCHANGED <<free_blocks, held, max_size, size>>
    BY <1>1 DEF space
  <2>2. ListInv'
    BY <2>1 DEF ListInv
  <2>3. CASE is_own(x)
    <3>1. \/ failed' = TRUE /\ UNCHANGED <<data, buffer>>
          \/ held' = {g \in held : g[1] # data[x]} /\ UNCHANGED <<failed, data, buffer>>
      BY <2>3 DEF tallocr_free, Fail
    <3> QED
      BY <1>a, <2>2, <2>3, <3>1
  <2>4. CASE ~is_own(x)
    BY <1>a, <2>1, <2>2, <2>4 DEF tallocr_free
  <2> QED
    BY <2>3, <2>4
<1>2. CASE ~(UNCHANGED space)
  <2> DEFINE bytes == aligned(graph[x].size)
             fb    == free_blocks
             addr  == data[x]
  <2>1. /\ is_own(x) /\ fb' = GiveBack(fb, addr, bytes)
        /\ held' = {g \in held : g[1] # addr}
        /\ UNCHANGED <<failed, data, buffer, max_size>>
    BY <1>2 DEF tallocr_free, Fail
  <2>2. PICK h \in held : h[1] = addr /\ bytes <= h[2]
    BY <2>1
  <2>3. bytes \in Nat \ {0} /\ h \in Sizes /\ h[1] \in Nat /\ h[2] \in Nat
    BY Padded DEF ListInv, Sizes
  <2>4. addr \in Nat /\ <<addr, bytes>> \in Sizes
    BY <2>2, <2>3 DEF Sizes
  <2>5. fb \in Seq(Blocks) /\ Sorted(fb) /\ ClearOf(h, fb)
    BY DEF ListInv
  <2>6. ClearOf(<<addr, bytes>>, fb)
    <3> SUFFICES ASSUME NEW j \in DOMAIN fb
                 PROVE  Clear(<<addr, bytes>>, Extent(fb[j]))
      BY DEF ClearOf
    <3>1. Clear(h, Extent(fb[j])) /\ fb[j].addr \in Nat /\ fb[j].size \in Nat
      BY <2>5, BlocksOf DEF ClearOf
    <3> HIDE DEF bytes, addr
    <3> QED
      BY <2>2, <2>3, <2>4, <3>1 DEF Clear, Extent
  <2>7. ASSUME NEW g \in held, g[1] # addr
        PROVE  Clear(g, <<addr, bytes>>)
    <3>1. Clear(g, h) /\ g[1] \in Nat /\ g[2] \in Nat
      BY <2>2, <2>7 DEF ListInv, Sizes
    <3> HIDE DEF bytes, addr
    <3> QED
      BY <2>2, <2>3, <2>4, <3>1 DEF Clear
  <2>8. /\ GiveBack(fb, addr, bytes) \in Seq(Blocks) /\ Sorted(GiveBack(fb, addr, bytes))
        /\ \A e \in Sizes : ClearOf(e, fb) /\ Clear(e, <<addr, bytes>>)
                => ClearOf(e, GiveBack(fb, addr, bytes))
    <3> HIDE DEF bytes, addr, fb
    <3> QED
      BY <2>3, <2>4, <2>5, <2>6, GiveBackKeeps
  <2> HIDE DEF bytes, addr
  <2>9. held' \subseteq Sizes /\ \A g \in held' : ClearOf(g, fb')
    BY <2>1, <2>7, <2>8 DEF ListInv
  <2>10. \A g, e \in held' : g = e \/ Clear(g, e)
    BY <2>1 DEF ListInv
  <2>11. max_size' \in Nat /\ size' \in Nat
    BY <2>1 DEF ListInv
  <2>12. ListInv'
    BY <2>1, <2>8, <2>9, <2>10, <2>11 DEF ListInv
  <2> QED
    BY <1>a, <2>1, <2>12 DEF addr
<1> QED
  BY <1>1, <1>2

\* The weights lie apart from each other and from the buffer.
LEMMA Foreigns ==
  ASSUME PlaceInv
  PROVE  /\ \A t \in Tensors : op(t) = "WEIGHT" =>
              /\ t \in Roots /\ t \notin Nodes /\ t \notin OwnRoots
              /\ Foreign(t) \in Int /\ Foreign(t) + graph[t].size < 0
         /\ \A t, u \in Tensors : op(t) = "WEIGHT" /\ op(u) = "WEIGHT" /\ t # u =>
              \/ Foreign(t) + graph[t].size <= Foreign(u)
              \/ Foreign(u) + graph[u].size <= Foreign(t)
<1>1. ASSUME NEW t \in Tensors, op(t) = "WEIGHT"
      PROVE  /\ t \in Roots /\ t \notin Nodes /\ t \notin OwnRoots
             /\ graph[t].size \in Nat \ {0} /\ graph[t].size < 1000 /\ t \in Nat \ {0}
             /\ Foreign(t) = -1000 * t
  <2>1. graph[t].view = None /\ graph[t].size < Far
    BY <1>1, GraphFacts DEF WellFormed, Tensors, op
  <2> QED
    BY <1>1, <2>1, GraphFacts DEF Roots, OwnRoots, Nodes, IsNode, Far, Foreign
<1>2. \A a, b, m, n \in Nat \ {0} : a # b /\ m < 1000 /\ n < 1000 =>
          /\ -1000 * a + m < 0
          /\ -1000 * a + m <= -1000 * b \/ -1000 * b + n <= -1000 * a
  OBVIOUS
<1>3. \A a \in Nat : -1000 * a \in Int
  OBVIOUS
<1>4. \A t \in Tensors : op(t) = "WEIGHT" => Foreign(t) \in Int /\ Foreign(t) + graph[t].size < 0
  BY <1>1, <1>2, <1>3
<1>5. \A t, u \in Tensors : op(t) = "WEIGHT" /\ op(u) = "WEIGHT" /\ t # u =>
              \/ Foreign(t) + graph[t].size <= Foreign(u)
              \/ Foreign(u) + graph[u].size <= Foreign(t)
  BY <1>1, <1>2
<1> QED
  BY <1>1, <1>4, <1>5

\* A tensor lies in its root.
LEMMA LiesInRoot ==
  ASSUME PlaceInv, ShapeInv, AddressInv, stage # "ready", NEW t \in Tensors, Placed(t)
  PROVE  /\ Placed(RootOf(t)) /\ data[t] = data[RootOf(t)] + graph[t].offs
         /\ data[t] \in Int /\ data[RootOf(t)] \in Int
<1>0. data \in [Tensors -> Int] /\ RootOf(t) \in Tensors
  BY RootFacts DEF ShapeInv
<1>1. CASE graph[t].view = None
  <2>1. RootOf(t) = t /\ t \in Roots
    BY <1>1 DEF RootOf, Roots
  <2> QED
    BY <1>0, <2>1, RootFacts
<1>2. CASE graph[t].view # None
  BY <1>0, <1>2, RootFacts DEF AddressInv, ViewInv
<1> QED
  BY <1>1, <1>2

\* Root x gets memory of its own.
LEMMA FreshRoot ==
  ASSUME PlaceInv, ShapeInv, ListInv, AddressInv, stage \in {"inputs", "allocate"}, HeldInv,
         UNCHANGED <<plan, measuring>>, UNCHANGED view_src,
         \A t : \A c \in Readings(t) : Ahead(c)' <=> Ahead(c),
         NEW x \in OwnRoots, ~Placed(x), view_src[x] = None,
         NEW addr \in Nat, data' = [data EXCEPT ![x] = addr], buffer' = [buffer EXCEPT ![x] = "own"],
         held' = held \cup {<<addr, aligned(graph[x].size)>>},
         \A h \in held : Clear(h, <<addr, aligned(graph[x].size)>>)
  PROVE  AddressInv' /\ BackedInv' /\ ApartInv'
<1>1. /\ x \in Tensors /\ x \in Roots /\ graph[x].view = None /\ op(x) # "WEIGHT"
      /\ data \in [Tensors -> Int] /\ buffer \in [Tensors -> Buffers]
      /\ data[x] = -1
  BY RootFacts DEF ShapeInv, Placed, OwnRoots
<1>2. /\ \A t \in Tensors : t # x => data'[t] = data[t] /\ buffer'[t] = buffer[t]
      /\ data'[x] = addr /\ addr # -1
  BY <1>1
<1>3. \A t \in Tensors : t # x => Placed(t)' = Placed(t)
  BY <1>2 DEF Placed
<1>s. /\ graph' = graph /\ Tensors' = Tensors /\ Nodes' = Nodes /\ OwnRoots' = OwnRoots
      /\ \A r : Active(r)' <=> Active(r)
  BY SameGraph, SamePending
<1>4. WeightInv'
  <2>1. \A t \in Tensors : op(t) = "WEIGHT" => t # x
    BY <1>1
  <2> QED
    BY <1>2, <1>s, <2>1 DEF AddressInv, WeightInv, op, Foreign
<1>5. ViewInv'
  <2>1. ASSUME NEW t \in Tensors, NEW v \in Tensors, graph[t].view = v, v # None
        PROVE  view_src[t] = v /\ (data'[t] # -1 => data'[v] # -1 /\ data'[t] = data'[v] + graph[t].offs)
    <3>1. t # x
      BY <1>1, <2>1
    <3>2. view_src[t] = v /\ (data[t] # -1 => data[v] # -1 /\ data[t] = data[v] + graph[t].offs)
      BY <2>1 DEF AddressInv, ViewInv, Placed
    <3>3. data[v] # -1 => v # x
      BY <1>1
    <3> QED
      BY <1>2, <3>1, <3>2, <3>3
  <2>2. \A t \in Tensors : graph[t].view # None => graph[t].view \in Tensors
    BY RootFacts
  <2>3. \A t \in Tensors : graph[t].view # None =>
           /\ view_src[t] = graph[t].view
           /\ data'[t] # -1 => data'[graph[t].view] # -1 /\ data'[t] = data'[graph[t].view] + graph[t].offs
    BY <2>1, <2>2
  <2> QED
    BY <1>s, <2>3 DEF ViewInv, Placed
<1>6. RootInv'
  <2> SUFFICES ASSUME NEW r \in OwnRoots
               PROVE  /\ Placed(r)' => data'[r] \in Nat
                      /\ view_src[r] # None => /\ r \in Nodes /\ Placed(r)'
                                 /\ view_src[r] \in OwnRoots /\ data'[view_src[r]] = data'[r]
    BY <1>s DEF RootInv, Placed
  <2>1. /\ Placed(r) => data[r] \in Nat
        /\ view_src[r] # None => /\ r \in Nodes /\ Placed(r)
                                 /\ view_src[r] \in OwnRoots /\ data[view_src[r]] = data[r]
    BY DEF AddressInv, RootInv
  <2>2. view_src[r] # None => r # x /\ view_src[r] # x
    BY <1>1, <2>1 DEF Placed
  <2>3. r \in Tensors /\ (view_src[r] # None => view_src[r] \in Tensors)
    BY <2>1, RootFacts
  <2> QED
    BY <1>2, <1>3, <2>1, <2>2, <2>3
<1>7. AddressInv'
  BY <1>4, <1>5, <1>6 DEF AddressInv
<1>8. BackedInv /\ ApartInv
  BY DEF HeldInv
<1>9. BackedInv'
  <2> SUFFICES ASSUME NEW r \in OwnRoots, Placed(r)', Active(r)
               PROVE  \E h \in held' : HeldBy(r, h)'
    BY <1>s DEF BackedInv
  <2>1. CASE r = x
    <3>0. <<addr, aligned(graph[x].size)>> \in held'
      OBVIOUS
    <3>1. PICK h \in held' : h[1] = addr /\ h[2] = aligned(graph[x].size)
      BY <3>0
    <3>2. aligned(graph[x].size) <= aligned(graph[x].size)
      BY <1>1, Padded
    <3>3. HeldBy(r, h)'
      BY <1>2, <1>s, <2>1, <3>1, <3>2 DEF HeldBy
    <3> QED
      BY <3>1, <3>3
  <2>2. CASE r # x
    <3>1. r \in Tensors /\ Placed(r)
      BY <1>3, <2>2, RootFacts
    <3>2. PICK h \in held : HeldBy(r, h)
      BY <1>8, <3>1 DEF BackedInv
    <3>3. HeldBy(r, h)'
      BY <1>2, <1>s, <2>2, <3>1, <3>2 DEF HeldBy
    <3> QED
      BY <3>2, <3>3
  <2> QED
    BY <2>1, <2>2
<1>10. \A r \in OwnRoots : r # x /\ Placed(r) /\ Active(r) => data[r] # addr
  <2> SUFFICES ASSUME NEW r \in OwnRoots, Placed(r), Active(r)
               PROVE  data[r] # addr
    OBVIOUS
  <2>1. PICK h \in held : h[1] = data[r]
    BY <1>8 DEF BackedInv, HeldBy
  <2>2. Clear(h, <<addr, aligned(graph[x].size)>>) /\ aligned(graph[x].size) \in Nat \ {0} /\ h \in Sizes
    BY <1>1, Padded DEF ListInv
  <2>3. h[1] \in Nat /\ h[2] \in Nat \ {0}
    BY <2>2 DEF Sizes
  <2> HIDE DEF Sizes
  <2> DEFINE b == aligned(graph[x].size)
  <2>4. h[1] + h[2] <= addr \/ addr + b <= h[1]
    BY <2>2 DEF Clear
  <2>5. b \in Nat \ {0}
    BY <2>2
  <2> HIDE DEF b
  <2> QED
    BY <2>1, <2>3, <2>4, <2>5
<1>11. ApartInv'
  <2> SUFFICES ASSUME NEW r \in OwnRoots, NEW s \in OwnRoots, r # s, Placed(r)', Placed(s)', Active(r), Active(s)
               PROVE  data'[r] # data'[s]
    BY <1>s DEF ApartInv
  <2>0. r \in Tensors /\ s \in Tensors
    BY RootFacts
  <2>1. CASE r = x
    <3>1. s # x /\ Placed(s) /\ data[s] # addr
      BY <1>3, <1>10, <2>0, <2>1
    <3> QED
      BY <1>2, <2>0, <2>1, <3>1
  <2>2. CASE s = x
    <3>1. r # x /\ Placed(r) /\ data[r] # addr
      BY <1>3, <1>10, <2>0, <2>2
    <3> QED
      BY <1>2, <2>0, <2>2, <3>1
  <2>3. CASE r # x /\ s # x
    <3>1. Placed(r) /\ Placed(s)
      BY <1>3, <2>0, <2>3
    <3>2. data[r] # data[s]
      BY <1>8, <3>1 DEF ApartInv, Taken
    <3> QED
      BY <1>2, <2>0, <2>3, <3>2
  <2> QED
    BY <2>1, <2>2, <2>3
<1> QED
  BY <1>7, <1>9, <1>11

\* A graph just built, and nothing allocated.
Built ==
    /\ stage = "inputs" /\ ind = 1
    /\ data = BuiltData(graph) /\ buffer = BuiltBuffer(graph)
    /\ view_src = [t \in DOMAIN graph |-> graph[t].view]
    /\ n_children = NoCount(graph) /\ n_views = NoCount(graph)
    /\ measuring \/ (mem = WeightMem(graph) /\ ref = WeightRef(graph))

LEMMA BuiltSound == PlaceInv /\ Built => ShapeInv /\ RunInv
<1> SUFFICES ASSUME PlaceInv, Built
             PROVE  ShapeInv /\ RunInv
  OBVIOUS
<1>1. /\ stage = "inputs" /\ ind = 1
      /\ data = BuiltData(graph) /\ buffer = BuiltBuffer(graph)
      /\ view_src = [t \in Tensors |-> graph[t].view]
      /\ n_children = [t \in Tensors |-> 0] /\ n_views = [t \in Tensors |-> 0]
      /\ measuring \/ (mem = WeightMem(graph) /\ ref = WeightRef(graph))
  BY DEF Built, NoCount, Tensors
<1>2. \A t \in Tensors :
        /\ op(t) = "WEIGHT" => data[t] = Foreign(t) /\ Foreign(t) \in Int /\ data[t] < 0 /\ graph[t].view = None
        /\ op(t) # "WEIGHT" /\ graph[t].view = None => data[t] = -1
        /\ op(t) # "WEIGHT" /\ graph[t].view # None /\ op(graph[t].view) # "WEIGHT" => data[t] = -1
        /\ op(t) # "WEIGHT" /\ graph[t].view # None /\ op(graph[t].view) = "WEIGHT" =>
              data[t] = Foreign(graph[t].view) + graph[t].offs
  <2>1. \A t \in Tensors : data[t] = IF op(t) = "WEIGHT" THEN Foreign(t)
             ELSE IF graph[t].view # None /\ op(graph[t].view) = "WEIGHT"
               THEN Foreign(graph[t].view) + graph[t].offs ELSE -1
    BY <1>1 DEF BuiltData, op, Tensors
  <2>2. \A t \in Tensors : op(t) = "WEIGHT" => Foreign(t) \in Int /\ Foreign(t) < 0
    <3>1. \A a \in Int, b \in Nat : a + b < 0 => a < 0
      OBVIOUS
    <3> QED
      BY <3>1, Foreigns, GraphFacts
  <2>3. \A t \in Tensors : op(t) = "WEIGHT" => graph[t].view = None
    BY Foreigns, RootFacts
  <2> QED
    BY <2>1, <2>2, <2>3
<1>3. \A t \in Tensors : graph[t].view # None =>
        graph[t].view \in Tensors /\ op(t) # "WEIGHT" /\ graph[t].view \in Roots
  <2>1. \A t \in Tensors : op(t) = "WEIGHT" => graph[t].view = None
    BY Foreigns, RootFacts
  <2> QED
    BY <2>1, RootFacts
<1>4. data \in [Tensors -> Int]
  <2>1. \A t \in Tensors : data[t] \in Int
    BY <1>2, <1>3, GraphFacts
  <2> QED
    BY <1>1, <2>1 DEF BuiltData, Tensors
<1>5. ShapeInv
  <2>1. buffer \in [Tensors -> Buffers]
    BY <1>1 DEF BuiltBuffer, Buffers, Tensors
  <2>2. view_src \in [Tensors -> Tensors \cup {None}]
    BY <1>1, <1>3
  <2> QED
    BY <1>1, <1>4, <2>1, <2>2 DEF ShapeInv
<1>6. \A r \in OwnRoots : data[r] = -1 /\ view_src[r] = None
  BY <1>1, <1>2, RootFacts DEF OwnRoots
<1>7. AddressInv
  <2>1. WeightInv
    BY <1>1, <1>2 DEF WeightInv, BuiltBuffer, op, Tensors
  <2>2. ViewInv
    <3> SUFFICES ASSUME NEW t \in Tensors, graph[t].view # None
                 PROVE  /\ view_src[t] = graph[t].view
                        /\ data[t] # -1 => data[graph[t].view] # -1 /\ data[t] = data[graph[t].view] + graph[t].offs
      BY DEF ViewInv, Placed
    <3>1. graph[t].view \in Tensors /\ op(t) # "WEIGHT" /\ view_src[t] = graph[t].view /\ graph[t].view \in Roots
      BY <1>1, <1>3
    <3>2. CASE op(graph[t].view) # "WEIGHT"
      BY <1>2, <3>1, <3>2
    <3>3. CASE op(graph[t].view) = "WEIGHT"
      <4> DEFINE v == graph[t].view
      <4>1. data[t] = data[v] + graph[t].offs
        BY <1>2, <3>1, <3>3
      <4>2. data[v] # -1
        <5>1. Foreign(v) = -1000 * v /\ v \in Nat \ {0}
          BY <3>1, GraphFacts DEF Foreign, Far
        <5>2. \A n \in Nat \ {0} : -1000 * n # -1
          OBVIOUS
        <5> QED
          BY <1>2, <3>1, <3>3, <5>1, <5>2
      <4> QED
        BY <3>1, <4>1, <4>2
    <3> QED
      BY <3>2, <3>3
  <2>3. RootInv
    BY <1>6 DEF RootInv, Placed
  <2> QED
    BY <2>1, <2>2, <2>3 DEF AddressInv
<1>8. PlacedInv
  <2>1. \A r \in OwnRoots : view_src[r] = None /\ (Placed(r) <=> op(r) = "INPUT" /\ r < ind)
    <3>1. \A r \in OwnRoots : ~(r < 1)
      BY RootFacts, GraphFacts
    <3> QED
      BY <1>1, <1>6, <3>1 DEF Placed
  <2> QED
    BY <1>1, <2>1 DEF PlacedInv
<1>9. CountInv /\ SpareInv
  BY <1>1 DEF CountInv, SpareInv
<1>10. HeldInv
  BY <1>6 DEF HeldInv, BackedInv, ApartInv, Placed
<1>11. ContentInv
  <2> SUFFICES ASSUME ~measuring
               PROVE  /\ \A c \in DOMAIN ref : /\ c[1] \in Roots /\ Placed(c[1]) /\ op(c[1]) \in {"INPUT", "WEIGHT"}
                                               /\ c = <<c[1], c[2]>>
                      /\ \A r \in Roots : Whole(r)
    BY <1>1 DEF ContentInv
  <2>1. mem = WeightMem(graph) /\ ref = WeightRef(graph)
    BY <1>1
  <2> DEFINE W == WeightCells(graph)
  <2>2. \A c : c \in W <=> \E t \in Tensors : op(t) = "WEIGHT" /\ \E i \in 0 .. graph[t].size - 1 : c = <<t, i>>
    BY DEF WeightCells, Tensors, op
  <2>3. DOMAIN ref = W /\ \A c \in W : ref[c] = c
    BY <2>1 DEF WeightRef
  <2>4. DOMAIN mem = {Foreign(c[1]) + c[2] : c \in W}
    BY <2>1 DEF WeightMem
  <2>5. \A a \in DOMAIN mem : mem[a] = CHOOSE c \in W : Foreign(c[1]) + c[2] = a
    BY <2>1 DEF WeightMem
  <2> HIDE DEF W
  <2>6. ASSUME NEW t \in Tensors, op(t) = "WEIGHT", NEW i \in 0 .. graph[t].size - 1,
               NEW u \in Tensors, op(u) = "WEIGHT", NEW j \in 0 .. graph[u].size - 1,
               Foreign(t) + i = Foreign(u) + j
        PROVE  t = u /\ i = j
    <3> DEFINE a == Foreign(t)
               b == Foreign(u)
               m == graph[t].size
               n == graph[u].size
    <3>1. a \in Int /\ b \in Int /\ m \in Nat /\ n \in Nat
      BY <2>6, Foreigns, GraphFacts
    <3>2. t # u => a + m <= b \/ b + n <= a
      BY <2>6, Foreigns
    <3>3. a + i = b + j /\ i \in 0 .. m - 1 /\ j \in 0 .. n - 1
      BY <2>6
    <3>4. t = u => a = b
      OBVIOUS
    <3> HIDE DEF a, b, m, n
    <3>5. t = u
      BY <3>1, <3>2, <3>3
    <3> QED
      BY <3>1, <3>3, <3>4, <3>5
  <2>7. \A c \in W, d \in W : Foreign(c[1]) + c[2] = Foreign(d[1]) + d[2] => c = d
    <3> SUFFICES ASSUME NEW c \in W, NEW d \in W, Foreign(c[1]) + c[2] = Foreign(d[1]) + d[2]
                 PROVE  c = d
      OBVIOUS
    <3>1. PICK t \in Tensors : op(t) = "WEIGHT" /\ \E i \in 0 .. graph[t].size - 1 : c = <<t, i>>
      BY <2>2
    <3>2. PICK i \in 0 .. graph[t].size - 1 : c = <<t, i>>
      BY <3>1
    <3>3. PICK u \in Tensors : op(u) = "WEIGHT" /\ \E j \in 0 .. graph[u].size - 1 : d = <<u, j>>
      BY <2>2
    <3>4. PICK j \in 0 .. graph[u].size - 1 : d = <<u, j>>
      BY <3>3
    <3>5. Foreign(t) + i = Foreign(u) + j
      BY <3>2, <3>4
    <3>6. t = u /\ i = j
      BY <2>6, <3>1, <3>3, <3>5
    <3> QED
      BY <3>2, <3>4, <3>6
  <2>8. \A c \in W : mem[Foreign(c[1]) + c[2]] = c /\ Foreign(c[1]) + c[2] \in DOMAIN mem
    <3> SUFFICES ASSUME NEW c \in W
                 PROVE  mem[Foreign(c[1]) + c[2]] = c /\ Foreign(c[1]) + c[2] \in DOMAIN mem
      OBVIOUS
    <3>1. Foreign(c[1]) + c[2] \in DOMAIN mem
      BY <2>4
    <3> DEFINE a == Foreign(c[1]) + c[2]
    <3>2. mem[a] = CHOOSE d \in W : Foreign(d[1]) + d[2] = a
      BY <2>5, <3>1
    <3>3. \A d \in W : Foreign(d[1]) + d[2] = a => d = c
      BY <2>7
    <3>4. c \in W /\ Foreign(c[1]) + c[2] = a
      OBVIOUS
    <3>5. mem[a] \in W /\ Foreign(mem[a][1]) + mem[a][2] = a
      <4> HIDE DEF a
      <4> QED
        BY <3>2, <3>4
    <3> QED
      BY <3>1, <3>3, <3>5
  <2>9. \A c \in W : /\ c[1] \in Tensors /\ op(c[1]) = "WEIGHT" /\ c = <<c[1], c[2]>>
    BY <2>2
  <2>10. \A c \in DOMAIN ref : /\ c[1] \in Roots /\ Placed(c[1]) /\ op(c[1]) \in {"INPUT", "WEIGHT"}
                               /\ c = <<c[1], c[2]>>
    <3> SUFFICES ASSUME NEW c \in W
                 PROVE  /\ c[1] \in Roots /\ Placed(c[1]) /\ op(c[1]) \in {"INPUT", "WEIGHT"}
                        /\ c = <<c[1], c[2]>>
      BY <2>3
    <3>1. c[1] \in Tensors /\ op(c[1]) = "WEIGHT" /\ c = <<c[1], c[2]>> /\ c[1] \in Roots
      BY <2>9, Foreigns
    <3>2. data[c[1]] # -1
      <4>1. data[c[1]] = -1000 * c[1] /\ c[1] \in Nat \ {0}
        BY <1>2, <3>1, GraphFacts DEF Foreign, Far
      <4>2. \A n \in Nat \ {0} : -1000 * n # -1
        OBVIOUS
      <4> QED
        BY <4>1, <4>2
    <3> QED
      BY <3>1, <3>2 DEF Placed
  <2>11. ASSUME NEW r \in Roots
         PROVE  Whole(r)
    <3> SUFFICES ASSUME NEW i \in Cells(r), <<r, i>> \in W
                 PROVE  data[r] + i \in DOMAIN mem /\ mem[data[r] + i] = ref[<<r, i>>]
      BY <2>3 DEF Whole
    <3>1. r \in Tensors /\ op(r) = "WEIGHT" /\ data[r] = Foreign(r)
      BY <1>2, <2>9
    <3> DEFINE c == <<r, i>>
    <3>2. mem[Foreign(c[1]) + c[2]] = c /\ Foreign(c[1]) + c[2] \in DOMAIN mem
      BY <2>8
    <3> QED
      BY <2>3, <3>1, <3>2
  <2> QED
    BY <2>10, <2>11
<1> QED
  BY <1>5, <1>7, <1>8, <1>9, <1>10, <1>11 DEF RunInv

-----------------------------------------------------------------------------
(* Contents.                                                               *)

\* What writing a tensor changes, in memory and in the reference.
LEMMA MemWritten ==
  ASSUME PlaceInv, NEW t \in Tensors, NEW m, NEW addr \in Int
  PROVE  /\ DOMAIN WriteMem(m, t, addr) = DOMAIN m \cup {addr + i : i \in Cells(t)}
         /\ \A i \in Cells(t) : WriteMem(m, t, addr)[addr + i] = <<t, i>>
         /\ \A a \in DOMAIN m : (\A i \in Cells(t) : addr + i # a) => WriteMem(m, t, addr)[a] = m[a]
<1> DEFINE C  == Cells(t)
           at == [i \in C |-> addr + i]
           w  == WriteMem(m, t, addr)
<1>0. C \in SUBSET Int
  BY GraphFacts DEF Cells
<1>1. w = [a \in DOMAIN m \cup {at[i] : i \in C} |->
             IF \E i \in C : at[i] = a THEN <<t, CHOOSE i \in C : at[i] = a>> ELSE m[a]]
  BY DEF WriteMem, Write
<1> HIDE DEF C, w
<1>2. \A i \in C : at[i] = addr + i
  OBVIOUS
<1>3. ASSUME NEW i \in C
      PROVE  w[addr + i] = <<t, i>>
  <2>1. \A j \in C : at[j] = addr + i => j = i
    BY <1>0, <1>2
  <2>2. at[i] = addr + i
    OBVIOUS
  <2> HIDE DEF at
  <2>3. (CHOOSE j \in C : at[j] = addr + i) = i
    BY <2>1, <2>2
  <2>4. addr + i \in {at[j] : j \in C}
    BY <2>2
  <2> QED
    BY <1>1, <2>2, <2>3, <2>4
<1>4. DOMAIN w = DOMAIN m \cup {addr + i : i \in C}
  <2>1. {at[i] : i \in C} = {addr + i : i \in C}
    OBVIOUS
  <2> HIDE DEF at
  <2> QED
    BY <1>1, <2>1
<1>5. \A a \in DOMAIN m : (\A i \in C : addr + i # a) => w[a] = m[a]
  BY <1>1
<1> QED
  BY <1>3, <1>4, <1>5 DEF C, w

LEMMA RefWritten ==
  ASSUME PlaceInv, NEW t \in Tensors, NEW m
  PROVE  /\ DOMAIN WriteRef(m, t) = DOMAIN m \cup {<<RootOf(t), graph[t].offs + i>> : i \in Cells(t)}
         /\ \A i \in Cells(t) : WriteRef(m, t)[<<RootOf(t), graph[t].offs + i>>] = <<t, i>>
         /\ \A a \in DOMAIN m : (\A i \in Cells(t) : <<RootOf(t), graph[t].offs + i>> # a)
                                  => WriteRef(m, t)[a] = m[a]
<1> DEFINE C  == Cells(t)
           o  == graph[t].offs
           r  == RootOf(t)
           at == [i \in C |-> RootCell(t, i)]
           w  == WriteRef(m, t)
<1>0. C \in SUBSET Int /\ o \in Int
  BY GraphFacts DEF Cells
<1>a. \A i \in C : RootCell(t, i) = <<r, o + i>>
  <2>1. CASE graph[t].view = None
    <3>1. t \in Roots /\ r = t
      BY <2>1 DEF Roots, RootOf
    <3>2. o = 0
      BY <3>1, RootFacts
    <3>3. \A i \in C : o + i = i
      BY <1>0, <3>2
    <3> QED
      BY <2>1, <3>1, <3>3 DEF RootCell
  <2>2. CASE graph[t].view # None
    BY <2>2 DEF RootCell, RootOf
  <2> QED
    BY <2>1, <2>2
<1>1. w = [a \in DOMAIN m \cup {at[i] : i \in C} |->
             IF \E i \in C : at[i] = a THEN <<t, CHOOSE i \in C : at[i] = a>> ELSE m[a]]
  BY DEF WriteRef, Write
<1> HIDE DEF C, w, o, r
<1>2. \A i \in C : at[i] = <<r, o + i>>
  BY <1>a
<1>3. ASSUME NEW i \in C
      PROVE  w[<<r, o + i>>] = <<t, i>>
  <2>1. \A j \in C : at[j] = <<r, o + i>> => j = i
    BY <1>0, <1>2
  <2>2. at[i] = <<r, o + i>>
    BY <1>2
  <2> HIDE DEF at
  <2>3. (CHOOSE j \in C : at[j] = <<r, o + i>>) = i
    BY <2>1, <2>2
  <2>4. <<r, o + i>> \in {at[j] : j \in C}
    BY <2>2
  <2> QED
    BY <1>1, <2>2, <2>3, <2>4
<1>4. DOMAIN w = DOMAIN m \cup {<<r, o + i>> : i \in C}
  <2>1. {at[i] : i \in C} = {<<r, o + i>> : i \in C}
    BY <1>2
  <2> HIDE DEF at
  <2> QED
    BY <1>1, <2>1
<1>5. \A a \in DOMAIN m : (\A i \in C : <<r, o + i>> # a) => w[a] = m[a]
  <2>1. \A a : (\A i \in C : <<r, o + i>> # a) => ~\E i \in C : at[i] = a
    BY <1>2
  <2> HIDE DEF at
  <2> QED
    BY <1>1, <2>1
<1> QED
  BY <1>3, <1>4, <1>5 DEF C, w, o, r

-----------------------------------------------------------------------------
(* The steps.                                                              *)

\* A step that leaves the cells alone, and all addresses but of what was not
\* placed yet, leaves the contents sound.
LEMMA ContentKept ==
  ASSUME PlaceInv, ContentInv, UNCHANGED <<plan, measuring>>, UNCHANGED cells,
         stage \in {"inputs", "allocate", "update"}, stage' \in {"inputs", "allocate", "update"},
         \A r \in Roots : Placed(r) => data'[r] = data[r]
  PROVE  ContentInv'
<1>1. mem' = mem /\ ref' = ref
  BY DEF cells
<1> SUFFICES ASSUME ~measuring
             PROVE  /\ \A c \in DOMAIN ref : /\ c[1] \in Roots /\ Placed(c[1])' /\ op(c[1]) \in {"INPUT", "WEIGHT"}
                                             /\ c = <<c[1], c[2]>>
                    /\ \A r \in Roots : Whole(r)'
  BY <1>1, SameGraph DEF ContentInv, op, Placed
<1>2. \A c \in DOMAIN ref : /\ c[1] \in Roots /\ Placed(c[1]) /\ op(c[1]) \in {"INPUT", "WEIGHT"}
                            /\ c = <<c[1], c[2]>>
  BY DEF ContentInv
<1>3. \A r \in Roots : Placed(r) => Placed(r)'
  BY DEF Placed
<1>4. ASSUME NEW r \in Roots
      PROVE  Whole(r)'
  <2> SUFFICES ASSUME NEW i \in Cells(r), <<r, i>> \in DOMAIN ref
               PROVE  data'[r] + i \in DOMAIN mem /\ mem[data'[r] + i] = ref[<<r, i>>]
    BY <1>1, SameGraph DEF Whole, Cells
  <2>1. Whole(r)
    BY DEF ContentInv
  <2>2. data'[r] = data[r]
    BY <1>2
  <2> QED
    BY <2>1, <2>2 DEF Whole
<1> QED
  BY <1>2, <1>3, <1>4

LEMMA AllocInputStep ==
  ASSUME AllocInv, ~failed, AllocInput
  PROVE  AllocInv'
<1>0. /\ stage = "inputs" /\ ind \in Tensors /\ ind' = ind + 1 /\ stage' = "inputs"
      /\ UNCHANGED <<plan, measuring>> /\ UNCHANGED size
      /\ k' = k /\ view_src' = view_src /\ n_children' = n_children /\ n_views' = n_views
  BY DEF AllocInput, graphs, counts
<1>1. PlaceInv /\ ShapeInv /\ ListInv /\ RunInv /\ failed = FALSE
  BY <1>0 DEF AllocInv, PlaceInv
<1>s. /\ graph' = graph /\ Tensors' = Tensors /\ Nodes' = Nodes /\ OwnRoots' = OwnRoots /\ Roots' = Roots
      /\ \A r : Active(r)' <=> Active(r)
      /\ \A t : \A c \in Readings(t) : Ahead(c)' <=> Ahead(c)
  <2>1. \A t : \A c \in Readings(t) : Ahead(c)' <=> Ahead(c)
    BY <1>0 DEF Ahead
  <2> QED
    BY <1>0, <2>1, SameGraph, SamePending
<1>2. PlaceInv' \/ failed' \notin BOOLEAN
  <2>1. ind \in Nat /\ ind + 1 <= Len(graph) + 1
    BY <1>0, <1>1, GraphFacts
  <2> QED
    BY <1>0, <1>1, <1>s, <2>1 DEF PlaceInv
<1>3. CountInv' /\ SpareInv'
  BY <1>0 DEF CountInv, SpareInv
<1>4. CASE op(ind) # "INPUT"
  <2>1. UNCHANGED <<failed, data, buffer, free_blocks, max_size, held>> /\ UNCHANGED cells
    BY <1>0, <1>4 DEF AllocInput, space
  <2>2. PlaceInv' /\ ShapeInv' /\ ListInv'
    BY <1>0, <1>1, <1>2, <1>s, <2>1 DEF ShapeInv, ListInv
  <2>3. AddressInv'
    BY <1>0, <1>1, <1>s, <2>1 DEF RunInv, AddressInv, WeightInv, ViewInv, RootInv, Placed, op, Foreign
  <2>4. PlacedInv'
    <3>1. \A r \in OwnRoots : view_src[r] = None /\ (Placed(r) <=> op(r) = "INPUT" /\ r < ind)
      BY <1>0, <1>1 DEF RunInv, PlacedInv
    <3>2. \A r \in OwnRoots : r \in Nat /\ ind \in Nat
      BY <1>0, <1>1, RootFacts, GraphFacts
    <3>3. \A r \in OwnRoots : op(r) = "INPUT" => (r < ind + 1 <=> r < ind)
      BY <1>4, <3>2
    <3> QED
      BY <1>0, <1>s, <2>1, <3>1, <3>3 DEF PlacedInv, Placed, op
  <2>5. HeldInv'
    BY <1>0, <1>1, <1>s, <2>1 DEF RunInv, HeldInv, BackedInv, ApartInv, HeldBy, Placed, Taken
  <2>6. ContentInv'
    BY <1>0, <1>1, <2>1, ContentKept DEF RunInv
  <2> QED
    BY <1>3, <2>2, <2>3, <2>4, <2>5, <2>6 DEF AllocInv, RunInv
<1>5. CASE op(ind) = "INPUT"
  <2>1. /\ tallocr_alloc(ind)
        /\ IF measuring \/ failed' THEN UNCHANGED cells
           ELSE mem' = WriteMem(mem, ind, data'[ind]) /\ ref' = WriteRef(ref, ind)
    BY <1>5 DEF AllocInput
  <2>2. ind \in OwnRoots /\ view_src[ind] = None /\ ~Placed(ind) /\ ind \in Roots
    <3>1. graph[ind].view = None
      BY <1>0, <1>1, <1>5, GraphFacts DEF WellFormed, Tensors, op
    <3>2. ind \in OwnRoots /\ ind \in Roots
      BY <1>0, <1>5, <3>1 DEF OwnRoots, Roots
    <3>3. ind \in Nat
      BY <1>0, <1>1, GraphFacts
    <3> QED
      BY <1>0, <1>1, <3>2, <3>3 DEF RunInv, PlacedInv
  <2>a. /\ ListInv'
        /\ \/ failed' = TRUE /\ UNCHANGED <<data, buffer, held>>
           \/ /\ failed' = FALSE
              /\ \E addr \in Nat :
                    /\ data' = [data EXCEPT ![ind] = addr]
                    /\ buffer' = [buffer EXCEPT ![ind] = "own"]
                    /\ held' = held \cup {<<addr, aligned(graph[ind].size)>>}
                    /\ \A h \in held : Clear(h, <<addr, aligned(graph[ind].size)>>)
    <3>1. PICK x \in Tensors : x = ind
      BY <1>0
    <3>2. tallocr_alloc(x)
      BY <2>1, <3>1
    <3> QED
      BY <1>0, <1>1, <3>1, <3>2, AllocEffect
  <2>3. CASE failed' = TRUE /\ UNCHANGED <<data, buffer, held>>
    <3>1. ShapeInv'
      BY <1>0, <1>1, <1>s, <2>3 DEF ShapeInv
    <3> QED
      BY <1>2, <2>a, <2>3, <3>1 DEF AllocInv
  <2>4. CASE failed' = FALSE /\ \E addr \in Nat :
                    /\ data' = [data EXCEPT ![ind] = addr]
                    /\ buffer' = [buffer EXCEPT ![ind] = "own"]
                    /\ held' = held \cup {<<addr, aligned(graph[ind].size)>>}
                    /\ \A h \in held : Clear(h, <<addr, aligned(graph[ind].size)>>)
    <3>1. PICK addr \in Nat :
                    /\ data' = [data EXCEPT ![ind] = addr]
                    /\ buffer' = [buffer EXCEPT ![ind] = "own"]
                    /\ held' = held \cup {<<addr, aligned(graph[ind].size)>>}
                    /\ \A h \in held : Clear(h, <<addr, aligned(graph[ind].size)>>)
      BY <2>4
    <3>2. PICK x \in OwnRoots : x = ind
      BY <2>2
    <3>3. ShapeInv'
      BY <1>0, <1>1, <1>s, <3>1 DEF ShapeInv, Buffers
    <3>4. AddressInv' /\ BackedInv' /\ ApartInv'
      BY <1>0, <1>1, <1>s, <2>2, <3>1, <3>2, FreshRoot DEF RunInv
    <3>d. /\ data'[ind] = addr /\ \A t \in Tensors : t # ind => data'[t] = data[t]
          /\ data[ind] = -1
      BY <1>0, <1>1, <2>2, <3>1 DEF ShapeInv, Placed
    <3>5. PlacedInv'
      <4>1. ASSUME NEW r \in OwnRoots
            PROVE  view_src[r] = None /\ (Placed(r)' <=> op(r) = "INPUT" /\ r < ind + 1)
        <5>1. view_src[r] = None /\ (Placed(r) <=> op(r) = "INPUT" /\ r < ind)
          BY <1>0, <1>1 DEF RunInv, PlacedInv
        <5>2. r \in Nat /\ ind \in Nat /\ r \in Tensors
          BY <1>0, <1>1, RootFacts, GraphFacts
        <5>3. r < ind + 1 <=> r < ind \/ r = ind
          BY <5>2
        <5>4. addr # -1
          OBVIOUS
        <5> QED
          BY <1>5, <3>d, <5>1, <5>2, <5>3, <5>4 DEF Placed
      <4> QED
        BY <1>0, <1>s, <4>1 DEF PlacedInv, op
    <3>6. ContentInv'
      <4>1. CASE measuring
        BY <1>0, <4>1 DEF ContentInv
      <4>2. CASE ~measuring
        <5>1. mem' = WriteMem(mem, ind, addr) /\ ref' = WriteRef(ref, ind)
          BY <2>1, <2>4, <3>d, <4>2
        <5>2. /\ DOMAIN mem' = DOMAIN mem \cup {addr + i : i \in Cells(ind)}
              /\ \A i \in Cells(ind) : mem'[addr + i] = <<ind, i>>
              /\ \A a \in DOMAIN mem : (\A i \in Cells(ind) : addr + i # a) => mem'[a] = mem[a]
          <6>1. addr \in Int
            OBVIOUS
          <6>2. PICK m : m = mem
            OBVIOUS
          <6>3. PICK t \in Tensors : t = ind
            BY <1>0
          <6>4. mem' = WriteMem(m, t, addr)
            BY <5>1, <6>2, <6>3
          <6>5. /\ DOMAIN WriteMem(m, t, addr) = DOMAIN m \cup {addr + i : i \in Cells(t)}
                /\ \A i \in Cells(t) : WriteMem(m, t, addr)[addr + i] = <<t, i>>
                /\ \A a \in DOMAIN m : (\A i \in Cells(t) : addr + i # a) => WriteMem(m, t, addr)[a] = m[a]
            BY <1>1, <6>1, MemWritten
          <6> QED
            BY <6>2, <6>3, <6>4, <6>5
        <5>3. /\ DOMAIN ref' = DOMAIN ref \cup {<<ind, i>> : i \in Cells(ind)}
              /\ \A i \in Cells(ind) : ref'[<<ind, i>>] = <<ind, i>>
              /\ \A a \in DOMAIN ref : (\A i \in Cells(ind) : <<ind, i>> # a) => ref'[a] = ref[a]
          <6>2. PICK m : m = ref
            OBVIOUS
          <6>3. PICK t \in Tensors : t = ind
            BY <1>0
          <6>4. ref' = WriteRef(m, t)
            BY <5>1, <6>2, <6>3
          <6>5. RootOf(t) = t /\ graph[t].offs = 0 /\ \A i \in Cells(t) : 0 + i = i
            BY <1>1, <2>2, <6>3, RootFacts, GraphFacts DEF Cells
          <6>6. /\ DOMAIN ref' = DOMAIN m \cup {<<t, 0 + i>> : i \in Cells(t)}
                /\ \A i \in Cells(t) : ref'[<<t, 0 + i>>] = <<t, i>>
                /\ \A a \in DOMAIN m : (\A i \in Cells(t) : <<t, 0 + i>> # a) => ref'[a] = m[a]
            <7>1. /\ DOMAIN WriteRef(m, t) = DOMAIN m \cup {<<RootOf(t), graph[t].offs + i>> : i \in Cells(t)}
                  /\ \A i \in Cells(t) : WriteRef(m, t)[<<RootOf(t), graph[t].offs + i>>] = <<t, i>>
                  /\ \A a \in DOMAIN m : (\A i \in Cells(t) : <<RootOf(t), graph[t].offs + i>> # a)
                                  => WriteRef(m, t)[a] = m[a]
              BY <1>1, RefWritten
            <7> QED
              BY <6>4, <6>5, <7>1
          <6>7. {<<t, 0 + i>> : i \in Cells(t)} = {<<t, i>> : i \in Cells(t)}
            BY <6>5
          <6> QED
            BY <6>2, <6>3, <6>5, <6>6, <6>7
        <5>4. /\ \A c \in DOMAIN ref : /\ c[1] \in Roots /\ Placed(c[1]) /\ op(c[1]) \in {"INPUT", "WEIGHT"}
                                       /\ c = <<c[1], c[2]>>
              /\ \A r \in Roots : Whole(r)
          BY <1>0, <1>1, <4>2 DEF RunInv, ContentInv
        <5>5. \A c \in DOMAIN ref' : /\ c[1] \in Roots /\ Placed(c[1])' /\ op(c[1]) \in {"INPUT", "WEIGHT"}
                                     /\ c = <<c[1], c[2]>>
          <6>1. \A r \in Roots : r \in Tensors /\ (Placed(r) => Placed(r)')
            BY <1>1, <3>d, RootFacts DEF Placed
          <6>3. \A c \in DOMAIN ref : /\ c[1] \in Roots /\ Placed(c[1])' /\ op(c[1]) \in {"INPUT", "WEIGHT"}
                                     /\ c = <<c[1], c[2]>>
            BY <5>4, <6>1
          <6>4. \A c \in {<<ind, i>> : i \in Cells(ind)} : c[1] = ind /\ c = <<c[1], c[2]>>
            OBVIOUS
          <6>5. \A c \in {<<ind, i>> : i \in Cells(ind)} : Placed(c[1])'
            BY <3>d, <6>4 DEF Placed
          <6> QED
            BY <1>5, <2>2, <5>3, <6>3, <6>4, <6>5
        <5>6. ASSUME NEW r \in Roots
              PROVE  Whole(r)'
          <6> SUFFICES ASSUME NEW i \in Cells(r), <<r, i>> \in DOMAIN ref'
                       PROVE  data'[r] + i \in DOMAIN mem' /\ mem'[data'[r] + i] = ref'[<<r, i>>]
            BY <1>s DEF Whole, Cells
          <6>1. CASE r = ind
            BY <3>d, <5>2, <5>3, <6>1
          <6>2. CASE r # ind
            <7>1. <<r, i>> \in DOMAIN ref /\ ref'[<<r, i>>] = ref[<<r, i>>]
              BY <5>3, <6>2
            <7>2. Placed(r) /\ r \in Tensors /\ data'[r] = data[r]
              BY <1>1, <3>d, <5>4, <6>2, <7>1, RootFacts
            <7>3. data[r] + i \in DOMAIN mem /\ mem[data[r] + i] = ref[<<r, i>>]
              BY <5>4, <7>1 DEF Whole
            <7>4. \A j \in Cells(ind) : addr + j # data[r] + i
              <8>1. i \in 0 .. graph[r].size - 1 /\ graph[r].size \in Nat \ {0} /\ graph[ind].size \in Nat
                BY <1>0, <1>1, <7>2, GraphFacts DEF Cells
              <8>2. CASE r \in OwnRoots
                <9>1. Active(r)
                  <10>1. r \in Family(r) /\ (Unread(r) \/ Readings(r) # {})
                    BY <1>1, RootFacts, ReadingFacts
                  <10>2. Waiting(r)
                    BY <1>0, <10>1 DEF Waiting, Pending, Ahead
                  <10> QED
                    BY <10>1, <10>2 DEF Active
                <9>2. PICK h \in held : HeldBy(r, h)
                  BY <1>0, <1>1, <7>2, <8>2, <9>1 DEF RunInv, HeldInv, BackedInv
                <9>3. Clear(h, <<addr, aligned(graph[ind].size)>>) /\ h \in Sizes
                  BY <1>1, <3>1 DEF ListInv
                <9> DEFINE b == aligned(graph[ind].size)
                           n == aligned(graph[r].size)
                <9>4. h[1] = data[r] /\ n <= h[2] /\ (h[1] + h[2] <= addr \/ addr + b <= h[1])
                  BY <9>2, <9>3 DEF HeldBy, Clear
                <9>5. h[1] \in Nat /\ h[2] \in Nat
                  BY <9>3 DEF Sizes
                <9>6. b \in Nat /\ n \in Nat /\ graph[ind].size <= b /\ graph[r].size <= n
                  BY <1>0, <1>1, <7>2, Padded
                <9>7. \A j \in Cells(ind) : j \in Nat /\ j < graph[ind].size
                  BY <1>0, <1>1, GraphFacts DEF Cells
                <9> HIDE DEF b, n, Sizes
                <9> QED
                  BY <8>1, <9>4, <9>5, <9>6, <9>7
              <8>3. CASE r \notin OwnRoots
                <9>1. op(r) = "WEIGHT"
                  BY <1>1, <8>3, RootFacts
                <9>2. data[r] = Foreign(r) /\ Foreign(r) \in Int /\ Foreign(r) + graph[r].size < 0
                  BY <1>1, <7>2, <9>1, Foreigns DEF RunInv, AddressInv, WeightInv
                <9>3. \A j \in Cells(ind) : j \in Nat
                  BY <1>0, <1>1, GraphFacts DEF Cells
                <9> QED
                  BY <8>1, <9>2, <9>3
              <8> QED
                BY <8>2, <8>3
            <7> QED
              BY <5>2, <7>1, <7>2, <7>3, <7>4
          <6> QED
            BY <6>1, <6>2
        <5> QED
          BY <1>0, <1>s, <5>5, <5>6 DEF ContentInv, op, Placed
      <4> QED
        BY <4>1, <4>2
    <3>7. HeldInv'
      BY <3>4 DEF HeldInv
    <3>8. PlaceInv'
      BY <1>2, <2>4
    <3> QED
      BY <1>3, <2>a, <3>3, <3>4, <3>5, <3>6, <3>7, <3>8 DEF AllocInv, RunInv
  <2> QED
    BY <2>a, <2>3, <2>4
<1> QED
  BY <1>4, <1>5

LEMMA CountStep ==
  ASSUME AllocInv, ~failed, Count
  PROVE  AllocInv'
<1> DEFINE preset == {t \in Nodes : view_src[t] # None /\ data[view_src[t]] # Null}
<1>0. /\ stage = "inputs" /\ ind \notin Tensors /\ stage' = "allocate" /\ ind' = NodeFrom(1) /\ k' = 1
      /\ UNCHANGED <<plan, measuring>> /\ size' = size
      /\ UNCHANGED <<free_blocks, max_size, held>> /\ UNCHANGED cells
      /\ failed' = failed /\ view_src' = view_src
      /\ n_children' = [t \in Tensors |-> Cardinality(Readings(t))]
      /\ n_views' = [t \in Tensors |-> Cardinality({n \in Nodes : view_src[n] = t})]
      /\ data' = [t \in Tensors |-> IF t \in preset THEN data[view_src[t]] + graph[t].offs ELSE data[t]]
      /\ buffer' = [t \in Tensors |-> IF t \in preset THEN "own" ELSE buffer[t]]
  BY DEF Count, graphs, space
<1>1. PlaceInv /\ ShapeInv /\ ListInv /\ RunInv /\ failed = FALSE
  BY <1>0 DEF AllocInv, PlaceInv
<1>t. /\ data \in [Tensors -> Int] /\ buffer \in [Tensors -> Buffers]
      /\ view_src \in [Tensors -> Tensors \cup {None}]
  BY <1>0, <1>1 DEF ShapeInv
<1>n. /\ ind' \in Nodes \cup {Len(graph) + 1} /\ ind' \in Nat \ {0}
      /\ \A n \in Nodes : n >= ind'
  <2>1. PICK one \in Nat \ {0} : one = 1
    OBVIOUS
  <2>2. \A n \in Nodes : n >= one
    BY <1>1, <2>1, GraphFacts
  <2>3. ind' = NodeFrom(one)
    BY <1>0, <2>1
  <2> QED
    BY <1>1, <2>2, <2>3, NextNodes
<1>s. /\ graph' = graph /\ Tensors' = Tensors /\ Nodes' = Nodes /\ OwnRoots' = OwnRoots /\ Roots' = Roots
      /\ \A t : \A c \in Readings(t) : Ahead(c) /\ Ahead(c)'
  <2>1. \A t : \A c \in Readings(t) : Ahead(c)
    BY <1>0 DEF Ahead
  <2>2. ASSUME NEW t, NEW c \in Readings(t)
        PROVE  Ahead(c)'
    <3>1. c[1] \in Nodes
      BY <1>1, ReadingFacts
    <3>2. c[1] >= ind' /\ c[1] \in Nat /\ ind' \in Nat
      BY <1>1, <1>n, <3>1, GraphFacts
    <3> QED
      BY <1>0, <3>2 DEF Ahead
  <2> QED
    BY <1>0, <2>1, <2>2, SameGraph
<1>a. \A r : Active(r)' <=> Active(r)
  BY <1>0, <1>s, SamePending
<1>2. PlaceInv'
  BY <1>0, <1>1, <1>n, <1>s DEF PlaceInv, Stages
<1>3. ListInv'
  BY <1>0, <1>1 DEF ListInv
\* Only views get an address, that of their root on.
<1>4. /\ \A t \in preset : graph[t].view # None /\ view_src[t] = graph[t].view /\ graph[t].view \in Roots
      /\ \A t \in preset : data[graph[t].view] # -1
      /\ \A r \in Roots : data'[r] = data[r]
      /\ \A t \in Tensors : t \notin preset => data'[t] = data[t]
  <2>1. ASSUME NEW t \in Nodes, view_src[t] # None
        PROVE  graph[t].view # None
    <3>1. t \in Tensors /\ op(t) # "WEIGHT"
      BY <1>1, GraphFacts DEF Nodes, IsNode
    <3>2. t \in Roots => t \in OwnRoots
      BY <3>1 DEF OwnRoots
    <3>3. t \notin Roots
      BY <1>0, <1>1, <2>1, <3>2 DEF RunInv, PlacedInv
    <3> QED
      BY <3>1, <3>3 DEF Roots
  <2>2. \A t \in preset : graph[t].view # None /\ view_src[t] = graph[t].view /\ graph[t].view \in Roots
    <3>1. \A t \in Tensors : graph[t].view # None => view_src[t] = graph[t].view
      BY <1>1 DEF RunInv, AddressInv, ViewInv
    <3>2. \A t \in Tensors : graph[t].view # None => graph[t].view \in Roots
      BY <1>1, RootFacts
    <3> QED
      BY <1>1, <2>1, <3>1, <3>2, GraphFacts
  <2>3. \A r \in Roots : r \notin preset /\ r \in Tensors
    BY <1>1, <2>2, RootFacts
  <2> QED
    BY <1>0, <2>2, <2>3
<1>5. ShapeInv'
  <2>1. data' \in [Tensors -> Int]
    <3>1. \A t \in preset : data[view_src[t]] + graph[t].offs \in Int
      <4> SUFFICES ASSUME NEW t \in preset
                   PROVE  data[view_src[t]] + graph[t].offs \in Int
        OBVIOUS
      <4>1. t \in Tensors /\ view_src[t] \in Tensors
        BY <1>1, <1>4, GraphFacts, RootFacts
      <4>2. data[view_src[t]] \in Int /\ graph[t].offs \in Nat
        BY <1>1, <1>t, <4>1, GraphFacts
      <4> QED
        BY <4>2
    <3> HIDE DEF preset
    <3> QED
      BY <1>0, <1>t, <3>1
  <2>2. buffer' \in [Tensors -> Buffers]
    BY <1>0, <1>t DEF Buffers
  <2>3. n_children' \in [Tensors -> Nat]
    <3>1. \A t : Cardinality(Readings(t)) \in Nat
      BY <1>1, ReadingFacts, FS_CardinalityType
    <3> QED
      BY <1>0, <3>1
  <2>4. n_views' \in [Tensors -> Nat]
    <3>1. \A t : IsFiniteSet({n \in Nodes : view_src[n] = t})
      BY <1>1, ReadingFacts, FS_Subset
    <3>2. \A t : Cardinality({n \in Nodes : view_src[n] = t}) \in Nat
      BY <3>1, FS_CardinalityType
    <3> QED
      BY <1>0, <3>2
  <2> QED
    BY <1>0, <1>s, <1>t, <2>1, <2>2, <2>3, <2>4 DEF ShapeInv
<1>6. AddressInv'
  <2>1. WeightInv'
    <3>1. \A t \in Tensors : op(t) = "WEIGHT" => t \notin preset /\ t \in Roots
      BY <1>1, Foreigns
    <3>2. \A t \in Tensors : op(t) = "WEIGHT" => data'[t] = data[t] /\ buffer'[t] = buffer[t]
      BY <1>0, <3>1
    <3> QED
      BY <1>0, <1>1, <1>s, <3>2 DEF RunInv, AddressInv, WeightInv, op, Foreign
  <2>2. ViewInv'
    <3>1. ASSUME NEW t \in Tensors, NEW v \in Tensors, graph[t].view = v, v # None
          PROVE  view_src[t] = v /\ (data'[t] # -1 => data'[v] # -1 /\ data'[t] = data'[v] + graph[t].offs)
      <4>1. view_src[t] = v /\ (data[t] # -1 => data[v] # -1 /\ data[t] = data[v] + graph[t].offs)
        BY <1>1, <3>1 DEF RunInv, AddressInv, ViewInv, Placed
      <4>2. data'[v] = data[v]
        BY <1>1, <1>4, <3>1, RootFacts
      <4>3. CASE t \in preset
        BY <1>0, <1>4, <3>1, <4>1, <4>2, <4>3
      <4>4. CASE t \notin preset
        BY <1>4, <4>1, <4>2, <4>4
      <4> QED
        BY <4>3, <4>4
    <3>2. \A t \in Tensors : graph[t].view # None => graph[t].view \in Tensors
      BY <1>1, RootFacts
    <3>3. \A t \in Tensors : graph[t].view # None =>
             /\ view_src[t] = graph[t].view
             /\ data'[t] # -1 => data'[graph[t].view] # -1 /\ data'[t] = data'[graph[t].view] + graph[t].offs
      BY <3>1, <3>2
    <3> QED
      BY <1>0, <1>s, <3>3 DEF ViewInv, Placed
  <2>3. RootInv'
    <3>1. \A r \in OwnRoots : view_src[r] = None /\ data'[r] = data[r]
      BY <1>0, <1>1, <1>4, RootFacts DEF RunInv, PlacedInv
    <3> QED
      BY <1>0, <1>1, <1>s, <3>1 DEF RunInv, AddressInv, RootInv, Placed
  <2> QED
    BY <2>1, <2>2, <2>3 DEF AddressInv
<1>7. PlacedInv'
  <2>1. \A r \in OwnRoots : r \in Roots /\ (Placed(r) <=> op(r) = "INPUT" /\ r < ind)
    BY <1>0, <1>1, RootFacts DEF RunInv, PlacedInv
  <2>2. \A n \in Nodes : ~Past(n)'
    <3>1. \A n \in Nodes : n \in Nat /\ ~(n < ind')
      BY <1>1, <1>n, GraphFacts
    <3> QED
      BY <1>0, <1>s, <3>1 DEF Past
  <2>3. \A t \in Tensors : op(t) = "INPUT" => data'[t] # -1
    <3>1. \A t \in Tensors : op(t) = "INPUT" => t \in OwnRoots
      BY <1>1, GraphFacts DEF WellFormed, Tensors, op, OwnRoots, Roots
    <3>2. \A t \in Tensors : t < ind
      BY <1>0, <1>1, GraphFacts DEF PlaceInv
    <3> QED
      BY <1>4, <2>1, <3>1, <3>2 DEF Placed
  <2>4. \A n \in Nodes : graph[n].view = None => data'[n] = -1
    <3>1. \A n \in Nodes : graph[n].view = None => n \in OwnRoots /\ op(n) # "INPUT"
      BY <1>1, GraphFacts DEF Nodes, IsNode, OwnRoots, Roots
    <3> QED
      BY <1>4, <2>1, <3>1 DEF Placed
  <2>5. \A t \in Tensors : \A j \in DOMAIN src(t) : ~(j < 1)
    BY <1>1, GraphFacts
  <2> QED
    BY <1>0, <1>1, <1>s, <2>2, <2>3, <2>4, <2>5, GraphFacts DEF PlacedInv, Placed, op, src
<1>8. CountInv'
  <2>1. ASSUME NEW t \in Tensors
        PROVE  n_children'[t] = Cardinality(Pending(t)') /\ n_views'[t] >= Cardinality(InUse(t)')
    <3>1. Pending(t)' = Readings(t)
      BY <1>0, <1>s, SameGraph DEF Pending
    <3>2. InUse(t)' \subseteq {n \in Nodes : view_src[n] = t}
      BY <1>0, <1>s DEF InUse
    <3>3. IsFiniteSet({n \in Nodes : view_src[n] = t})
      BY <1>1, ReadingFacts, FS_Subset
    <3>4. PICK S : S = InUse(t)'
      OBVIOUS
    <3>5. Cardinality({n \in Nodes : view_src[n] = t}) >= Cardinality(S)
      <4>1. S \in SUBSET {n \in Nodes : view_src[n] = t}
        BY <3>2, <3>4
      <4>2. PICK Z : Z = {n \in Nodes : view_src[n] = t}
        OBVIOUS
      <4>3. Cardinality(S) <= Cardinality(Z) /\ Cardinality(Z) \in Nat /\ IsFiniteSet(S)
        BY <3>3, <4>1, <4>2, FS_Subset, FS_CardinalityType
      <4>4. Cardinality(S) \in Nat
        BY <4>3, FS_CardinalityType
      <4> QED
        BY <4>2, <4>3, <4>4
    <3> QED
      BY <1>0, <3>1, <3>4, <3>5
  <2> QED
    BY <1>s, <2>1 DEF CountInv
<1>9. HeldInv'
  <2>1. \A r \in OwnRoots : data'[r] = data[r]
    BY <1>1, <1>4, RootFacts
  <2>2. BackedInv /\ ApartInv
    BY <1>0, <1>1 DEF RunInv, HeldInv
  <2>3. BackedInv'
    BY <1>0, <1>s, <1>a, <2>1, <2>2 DEF BackedInv, HeldBy, Placed
  <2>4. ApartInv'
    <3>1. \A r, s : ~Taken(r, s)
      BY <1>0 DEF Taken
    <3>2. \A r, s \in OwnRoots : r # s /\ Placed(r) /\ Placed(s) /\ Active(r) /\ Active(s) => data[r] # data[s]
      BY <2>2, <3>1 DEF ApartInv
    <3>3. \A r \in OwnRoots : (Placed(r)' <=> Placed(r)) /\ (Active(r)' <=> Active(r))
      BY <1>a, <2>1 DEF Placed
    <3>4. \A r, s \in OwnRoots : r # s /\ Placed(r)' /\ Placed(s)' /\ Active(r)' /\ Active(s)' => data'[r] # data'[s]
      BY <2>1, <3>2, <3>3
    <3> QED
      BY <1>s, <3>4 DEF ApartInv
  <2> QED
    BY <2>3, <2>4 DEF HeldInv
<1>10. SpareInv'
  <2>1. \A n \in Nodes : ~Past(n)'
    <3>1. \A n \in Nodes : n \in Nat /\ ~(n < ind')
      BY <1>1, <1>n, GraphFacts
    <3> QED
      BY <1>0, <1>s, <3>1 DEF Past
  <2> QED
    BY <1>s, <2>1 DEF SpareInv
<1>11. ContentInv'
  BY <1>0, <1>1, <1>4, ContentKept DEF RunInv
<1> QED
  BY <1>2, <1>3, <1>5, <1>6, <1>7, <1>8, <1>9, <1>10, <1>11 DEF AllocInv, RunInv

\* On to the next node: nothing but the place changes.
LEMMA NextNodeStep ==
  ASSUME AllocInv, ~failed, NextNode
  PROVE  AllocInv'
<1>0. /\ stage = "update" /\ k \notin DOMAIN src(ind)
      /\ stage' = "allocate" /\ ind' = NodeFrom(ind + 1) /\ k' = 1
      /\ UNCHANGED <<plan, measuring>> /\ size' = size /\ failed' = failed
      /\ data' = data /\ buffer' = buffer /\ view_src' = view_src
      /\ n_children' = n_children /\ n_views' = n_views
      /\ free_blocks' = free_blocks /\ max_size' = max_size /\ held' = held
      /\ UNCHANGED cells
  BY DEF NextNode, graphs, memory, counts, space
<1>1. PlaceInv /\ ShapeInv /\ ListInv /\ RunInv /\ failed = FALSE
  BY <1>0 DEF AllocInv, PlaceInv
<1>i. ind \in Nodes /\ ind \in Tensors /\ ind \in Nat \ {0} /\ k \in Nat \ {0}
  BY <1>0, <1>1, GraphFacts DEF PlaceInv
<1>n. /\ ind' \in Nodes \cup {Len(graph) + 1} /\ ind' \in Nat \ {0}
      /\ \A n \in Nodes : n \in Nat /\ (n >= ind' <=> n >= ind + 1)
  <2>1. PICK i \in Nat \ {0} : i = ind + 1
    BY <1>i
  <2>2. ind' = NodeFrom(i)
    BY <1>0, <2>1
  <2> QED
    BY <1>1, <2>1, <2>2, NextNodes, GraphFacts
<1>s. /\ graph' = graph /\ Tensors' = Tensors /\ Nodes' = Nodes /\ OwnRoots' = OwnRoots /\ Roots' = Roots
      /\ \A t : RootOf(t)' = RootOf(t)
  BY <1>0, SameGraph
<1>p. \A t : \A c \in Readings(t) : Ahead(c)' <=> Ahead(c)
  <2> SUFFICES ASSUME NEW t, NEW c \in Readings(t)
               PROVE  Ahead(c)' <=> Ahead(c)
    OBVIOUS
  <2>1. c[1] \in Nodes /\ c[2] \in DOMAIN src(c[1])
    BY <1>1, ReadingFacts
  <2>2. c[1] = ind => ~(c[2] >= k)
    BY <1>0, <1>1, <1>i, <2>1, GraphFacts
  <2>3. Ahead(c) <=> c[1] > ind
    BY <1>0, <2>2 DEF Ahead
  <2>4. Ahead(c)' <=> c[1] >= ind'
    <3>1. Ahead(c)' <=> c[1] > ind' \/ c[1] = ind'
      BY <1>0 DEF Ahead
    <3>2. c[1] \in Nat /\ ind' \in Nat
      BY <1>n, <2>1
    <3> QED
      BY <3>1, <3>2
  <2>5. c[1] \in Nat /\ (c[1] >= ind' <=> c[1] >= ind + 1)
    BY <1>n, <2>1
  <2> QED
    BY <1>i, <2>3, <2>4, <2>5
<1>a. /\ \A t : Pending(t)' = Pending(t)
      /\ \A t : Waiting(t)' <=> Waiting(t)
      /\ \A r : Active(r)' <=> Active(r)
  BY <1>0, <1>p, SamePending
<1>q. \A n \in Nodes : Past(n)' <=> Past(n)
  <2>1. \A n \in Nodes : n < ind' <=> n < ind \/ n = ind
    BY <1>i, <1>n
  <2> QED
    BY <1>0, <1>s, <2>1 DEF Past
<1>2. PlaceInv' /\ ShapeInv' /\ ListInv'
  BY <1>0, <1>1, <1>n, <1>s DEF PlaceInv, ShapeInv, ListInv, Stages
<1>3. AddressInv'
  BY <1>0, <1>1, <1>s DEF RunInv, AddressInv, WeightInv, ViewInv, RootInv, Placed, op, Foreign
<1>4. PlacedInv'
  <2>1. \A t \in Tensors : \A j \in DOMAIN src(t) : ~(j < 1)
    BY <1>1, GraphFacts
  <2> QED
    BY <1>0, <1>1, <1>q, <1>s, <2>1, GraphFacts DEF RunInv, PlacedInv, Placed, op, src
<1>5. CountInv'
  <2>1. \A t : InUse(t)' = InUse(t)
    BY <1>0, <1>s, <1>a DEF InUse
  <2> QED
    BY <1>0, <1>1, <1>s, <1>a, <2>1 DEF RunInv, CountInv
<1>6. HeldInv'
  <2>1. \A r, s : ~Taken(r, s)
    <3>1. \A i \in DOMAIN src(ind) : ~(i >= k)
      BY <1>0, <1>1, <1>i, GraphFacts
    <3> QED
      BY <3>1 DEF Taken
  <2>2. BackedInv /\ ApartInv
    BY <1>0, <1>1 DEF RunInv, HeldInv
  <2>3. BackedInv'
    BY <1>0, <1>s, <1>a, <2>2 DEF BackedInv, HeldBy, Placed
  <2>4. ApartInv'
    BY <1>0, <1>s, <1>a, <2>1, <2>2 DEF ApartInv, Placed
  <2> QED
    BY <2>3, <2>4 DEF HeldInv
<1>7. SpareInv'
  <2>1. \A m : SparesAll(m)' <=> SparesAll(m)
    BY <1>0, <1>s, SameGraph DEF SparesAll, Spares
  <2>2. \A m \in Nodes : Past(m) => SparesAll(m)
    BY <1>0, <1>1 DEF RunInv, SpareInv
  <2> QED
    BY <1>q, <1>s, <2>1, <2>2 DEF SpareInv
<1>8. ContentInv'
  BY <1>0, <1>1, ContentKept DEF RunInv
<1> QED
  BY <1>2, <1>3, <1>4, <1>5, <1>6, <1>7, <1>8 DEF AllocInv, RunInv

LEMMA ReallocStep ==
  ASSUME AllocInv, ~failed, Realloc
  PROVE  AllocInv'
<1>0. /\ stage' = "ready" /\ measuring' = FALSE /\ ind' = 1 /\ k' = k /\ plan' = plan /\ failed' = failed
      /\ size' = max_size /\ max_size' = 0 /\ free_blocks' = free_blocks /\ held' = held
      /\ stage = "allocate"
  BY DEF Realloc
<1>1. PlaceInv /\ ListInv /\ failed = FALSE
  BY <1>0 DEF AllocInv, PlaceInv
<1>2. PlaceInv'
  <2>1. plan' \in Plans /\ stage' \in Stages /\ ind' \in Nat \ {0} /\ k' \in Nat \ {0}
    BY <1>0, <1>1 DEF PlaceInv, Stages
  <2>2. measuring' = FALSE /\ failed' = FALSE
    BY <1>0, <1>1
  <2>3. measuring' \in BOOLEAN /\ failed' \in BOOLEAN
    BY <2>2
  <2> QED
    BY <1>0, <2>1, <2>2, <2>3 DEF PlaceInv
<1>3. ListInv'
  BY <1>0, <1>1 DEF ListInv
<1>4. ShapeInv'
  BY <1>0 DEF ShapeInv
<1> QED
  BY <1>0, <1>2, <1>3, <1>4 DEF AllocInv

\* A list of one block, with nothing handed out.
LEMMA OneBlock ==
  ASSUME NEW n \in Nat
  PROVE  <<Block(0, n)>> \in Seq(Blocks) /\ Sorted(<<Block(0, n)>>)
<1>1. Block(0, n) \in Blocks
  BY DEF Block, Blocks
<1> DEFINE b == Block(0, n)
<1>2. b \in Blocks
  BY <1>1
<1> HIDE DEF b
<1>3. <<b>> \in Seq(Blocks) /\ DOMAIN <<b>> = {1}
  BY <1>2
<1>4. Sorted(<<b>>)
  BY <1>3 DEF Sorted
<1> QED
  BY <1>3, <1>4 DEF b

LEMMA BuildStep ==
  ASSUME AllocInv, ~failed, Build
  PROVE  AllocInv'
<1>0. /\ stage \in {"ready", "done"} /\ stage' = "inputs" /\ ind' = 1 /\ k' = k
      /\ UNCHANGED <<plan, measuring>> /\ size' = size /\ failed' = failed /\ max_size' = max_size
      /\ free_blocks' = <<Block(0, size)>> /\ held' = {}
      /\ data' = BuiltData(plan[2]) /\ buffer' = BuiltBuffer(plan[2])
      /\ view_src' = [t \in DOMAIN plan[2] |-> plan[2][t].view]
      /\ n_children' = NoCount(plan[2]) /\ n_views' = NoCount(plan[2])
      /\ mem' = WeightMem(plan[2]) /\ ref' = WeightRef(plan[2])
  BY DEF Build, graphs
<1>1. PlaceInv /\ ListInv /\ failed = FALSE /\ measuring = FALSE
  BY <1>0 DEF AllocInv, PlaceInv
<1>2. graph' = graph /\ graph = plan[2]
  BY <1>0, <1>1 DEF graph
<1>3. PlaceInv'
  <2>1. 1 <= Len(graph) + 1
    BY <1>1, GraphFacts
  <2> QED
    BY <1>0, <1>1, <1>2, <2>1 DEF PlaceInv, Stages
<1>4. ListInv'
  <2>1. size \in Nat /\ max_size \in Nat
    BY <1>1 DEF ListInv
  <2>2. <<Block(0, size)>> \in Seq(Blocks) /\ Sorted(<<Block(0, size)>>)
    <3>1. PICK n \in Nat : n = size
      BY <2>1
    <3> QED
      BY <3>1, OneBlock
  <2> QED
    BY <1>0, <2>1, <2>2 DEF ListInv
<1>5. Built'
  BY <1>0, <1>2 DEF Built, BuiltData, BuiltBuffer, NoCount, WeightMem, WeightRef, WeightCells
<1>6. (PlaceInv /\ Built => ShapeInv /\ RunInv)'
  BY BuiltSound, PTL
<1> QED
  BY <1>3, <1>4, <1>5, <1>6 DEF AllocInv

LEMMA StartStep ==
  ASSUME AllocInv, ~failed, Start
  PROVE  AllocInv'
<1>0. /\ ~measuring /\ stage = "allocate" /\ ind \notin Tensors
      /\ stage' = "compute" /\ ind' = NodeFrom(1) /\ k' = k
      /\ UNCHANGED <<plan, measuring>> /\ size' = size /\ failed' = failed
      /\ data' = data /\ buffer' = buffer /\ view_src' = view_src
      /\ n_children' = n_children /\ n_views' = n_views
      /\ free_blocks' = free_blocks /\ max_size' = max_size /\ held' = held
      /\ mem' = mem /\ ref' = ref
  BY DEF Start, graphs, memory, counts, space, cells
<1>1. PlaceInv /\ ShapeInv /\ ListInv /\ RunInv /\ failed = FALSE
  BY <1>0 DEF AllocInv, PlaceInv
<1>n. ind' \in Nodes \cup {Len(graph) + 1} /\ ind' \in Nat \ {0}
  <2>1. PICK i \in Nat \ {0} : i = 1
    OBVIOUS
  <2>2. ind' = NodeFrom(i)
    BY <1>0, <2>1
  <2> QED
    BY <1>1, <2>1, <2>2, NextNodes
<1>s. /\ graph' = graph /\ Tensors' = Tensors /\ Nodes' = Nodes /\ OwnRoots' = OwnRoots /\ Roots' = Roots
  BY <1>0, SameGraph
<1>q. \A n \in Nodes : Past(n) /\ Past(n)'
  <2>1. \A n \in Nodes : n < ind
    BY <1>0, <1>1, GraphFacts DEF PlaceInv
  <2> QED
    BY <1>0, <1>s, <2>1 DEF Past
<1>2. PlaceInv' /\ ShapeInv' /\ ListInv'
  BY <1>0, <1>1, <1>n, <1>s DEF PlaceInv, ShapeInv, ListInv, Stages
<1>3. AddressInv'
  BY <1>0, <1>1, <1>s DEF RunInv, AddressInv, WeightInv, ViewInv, RootInv, Placed, op, Foreign
<1>4. PlacedInv'
  BY <1>0, <1>1, <1>q, <1>s DEF RunInv, PlacedInv, Placed, op
<1>5. CountInv' /\ HeldInv'
  BY <1>0 DEF CountInv, HeldInv
<1>6. SpareInv'
  <2>1. \A m : SparesAll(m)' <=> SparesAll(m)
    BY <1>0, <1>s, SameGraph DEF SparesAll, Spares
  <2> QED
    BY <1>0, <1>1, <1>q, <1>s, <2>1 DEF RunInv, SpareInv
<1>7. ContentInv'
  <2>1. /\ \A c \in DOMAIN ref : /\ c[1] \in Roots /\ op(c[1]) \in {"INPUT", "WEIGHT"}
                                 /\ c = <<c[1], c[2]>>
        /\ \A r \in Roots : Whole(r)
    BY <1>0, <1>1 DEF RunInv, ContentInv
  <2>2. \A r : Whole(r)' <=> Whole(r)
    BY <1>0, <1>s DEF Whole, Cells
  <2>3. \A c \in DOMAIN ref : Filled(c[1], ind)'
    BY <1>s, <2>1 DEF Filled, op
  <2> QED
    BY <1>0, <1>s, <2>1, <2>2, <2>3 DEF ContentInv
<1> QED
  BY <1>2, <1>3, <1>4, <1>5, <1>6, <1>7 DEF AllocInv, RunInv

LEMMA FinishStep ==
  ASSUME AllocInv, ~failed, Finish
  PROVE  AllocInv'
<1>0. /\ stage = "compute" /\ ind \notin Tensors
      /\ stage' = "done" /\ ind' = ind /\ k' = k
      /\ UNCHANGED <<plan, measuring>> /\ size' = size /\ failed' = failed
      /\ data' = data /\ buffer' = buffer /\ view_src' = view_src
      /\ n_children' = n_children /\ n_views' = n_views
      /\ free_blocks' = free_blocks /\ max_size' = max_size /\ held' = held
      /\ mem' = mem /\ ref' = ref
  BY DEF Finish, graphs, memory, counts, space, cells
<1>1. PlaceInv /\ ShapeInv /\ ListInv /\ RunInv /\ failed = FALSE
  BY <1>0 DEF AllocInv, PlaceInv
<1>s. /\ graph' = graph /\ Tensors' = Tensors /\ Nodes' = Nodes /\ OwnRoots' = OwnRoots /\ Roots' = Roots
  BY <1>0, SameGraph
<1>2. PlaceInv' /\ ShapeInv' /\ ListInv'
  <2>1. ind = Len(graph) + 1
    BY <1>0, <1>1, GraphFacts DEF PlaceInv
  <2> QED
    BY <1>0, <1>1, <1>s, <2>1 DEF PlaceInv, ShapeInv, ListInv, Stages
<1>3. AddressInv'
  BY <1>0, <1>1, <1>s DEF RunInv, AddressInv, WeightInv, ViewInv, RootInv, Placed, op, Foreign
<1>4. PlacedInv'
  BY <1>0, <1>1, <1>s DEF RunInv, PlacedInv, Placed, Past, op
<1>5. CountInv' /\ HeldInv'
  BY <1>0 DEF CountInv, HeldInv
<1>6. SpareInv'
  <2>1. \A m : SparesAll(m)' <=> SparesAll(m)
    BY <1>0, <1>s, SameGraph DEF SparesAll, Spares
  <2> QED
    BY <1>0, <1>1, <1>s, <2>1 DEF RunInv, SpareInv, Past
<1>7. ContentInv'
  <2>1. /\ \A c \in DOMAIN ref : c[1] \in Roots /\ Filled(c[1], ind) /\ c = <<c[1], c[2]>>
        /\ \A r \in Roots : NeededFrom(r, ind) => Whole(r)
    BY <1>0, <1>1 DEF RunInv, ContentInv
  <2>2. \A r : Whole(r)' <=> Whole(r)
    BY <1>0, <1>s DEF Whole, Cells
  <2>3. \A r : (Filled(r, ind)' <=> Filled(r, ind)) /\ (NeededFrom(r, ind)' <=> NeededFrom(r, ind))
    BY <1>0, SameGraph
  <2> QED
    BY <1>0, <1>s, <2>1, <2>2, <2>3 DEF ContentInv
<1> QED
  BY <1>2, <1>3, <1>4, <1>5, <1>6, <1>7 DEF AllocInv, RunInv

\* A node writes its own cells, and spares every family needed after it.
LEMMA ComputeStep ==
  ASSUME AllocInv, ~failed, Compute
  PROVE  AllocInv'
<1>0. /\ stage = "compute" /\ ind \in Nodes
      /\ stage' = "compute" /\ ind' = NodeFrom(ind + 1) /\ k' = k
      /\ UNCHANGED <<plan, measuring>> /\ size' = size /\ failed' = failed
      /\ data' = data /\ buffer' = buffer /\ view_src' = view_src
      /\ n_children' = n_children /\ n_views' = n_views
      /\ free_blocks' = free_blocks /\ max_size' = max_size /\ held' = held
  BY DEF Compute, graphs, memory, counts, space
<1>1. PlaceInv /\ ShapeInv /\ ListInv /\ RunInv /\ failed = FALSE
  BY <1>0 DEF AllocInv, PlaceInv
<1>i. ind \in Tensors /\ ind \in Nat \ {0} /\ \A n \in Nodes : n \in Nat /\ n \in Tensors
  BY <1>0, <1>1, GraphFacts
<1>n. /\ ind' \in Nodes \cup {Len(graph) + 1} /\ ind' \in Nat \ {0}
      /\ \A n \in Nodes : n >= ind' <=> n >= ind + 1
  <2>1. PICK i \in Nat \ {0} : i = ind + 1
    BY <1>i
  <2>2. ind' = NodeFrom(i)
    BY <1>0, <2>1
  <2> QED
    BY <1>1, <2>1, <2>2, NextNodes
<1>s. /\ graph' = graph /\ Tensors' = Tensors /\ Nodes' = Nodes /\ OwnRoots' = OwnRoots /\ Roots' = Roots
  BY <1>0, SameGraph
<1>2. PlaceInv' /\ ShapeInv' /\ ListInv'
  BY <1>0, <1>1, <1>n, <1>s DEF PlaceInv, ShapeInv, ListInv, Stages
<1>3. AddressInv'
  BY <1>0, <1>1, <1>s DEF RunInv, AddressInv, WeightInv, ViewInv, RootInv, Placed, op, Foreign
<1>4. PlacedInv'
  BY <1>0, <1>1, <1>s DEF RunInv, PlacedInv, Placed, Past, op
<1>5. CountInv' /\ HeldInv'
  BY <1>0 DEF CountInv, HeldInv
<1>6. SpareInv'
  <2>1. \A m : SparesAll(m)' <=> SparesAll(m)
    BY <1>0, <1>s, SameGraph DEF SparesAll, Spares
  <2> QED
    BY <1>0, <1>1, <1>s, <2>1 DEF RunInv, SpareInv, Past
<1>7. /\ \A c \in DOMAIN ref : c[1] \in Roots /\ Filled(c[1], ind) /\ c = <<c[1], c[2]>>
      /\ \A r \in Roots : NeededFrom(r, ind) => Whole(r)
  BY <1>0, <1>1 DEF RunInv, ContentInv
\* What is filled and what is needed, before and after this node.
<1>8. \A r : Filled(r, ind) => Filled(r, ind)'
  <2>1. \A n \in Nodes : n < ind => n < ind'
    BY <1>i, <1>n
  <2> QED
    BY <1>s, <2>1, <1>0, SameGraph DEF Filled, op
<1>9. Filled(RootOf(ind), NodeFrom(ind + 1))
  <2>1. ind < ind'
    BY <1>0, <1>i, <1>n
  <2> QED
    BY <1>0, <2>1 DEF Filled
<1>10. \A r : NeededFrom(r, ind)' => NeededFrom(r, ind + 1) /\ NeededFrom(r, ind)
  <2>1. \A n \in Nodes : n >= ind' => n >= ind + 1 /\ n >= ind
    BY <1>i, <1>n
  <2>2. \A r : NeededFrom(r, ind)' <=> \/ op(r) = "WEIGHT"
                       \/ \E t \in Family(r) : Unread(t) \/ \E n \in Nodes : n >= ind' /\ t \in Parents(n)
    BY <1>0, <1>s, SameGraph DEF NeededFrom, op, Parents, src
  <2> QED
    BY <2>1, <2>2 DEF NeededFrom
<1>11. ContentInv'
  <2> SUFFICES /\ \A c \in DOMAIN ref' : c[1] \in Roots /\ Filled(c[1], ind)' /\ c = <<c[1], c[2]>>
               /\ \A r \in Roots : NeededFrom(r, ind)' => Whole(r)'
    BY <1>0, <1>s DEF ContentInv
  <2>1. CASE UNCHANGED cells
    <3>1. mem' = mem /\ ref' = ref
      BY <2>1 DEF cells
    <3>2. \A r : Whole(r)' <=> Whole(r)
      BY <1>0, <1>s, <3>1 DEF Whole, Cells
    <3> QED
      BY <1>7, <1>8, <1>10, <3>1, <3>2
  <2>2. CASE ~UNCHANGED cells
    <3>0. PICK R \in Roots : R = RootOf(ind)
      BY <1>1, <1>i, RootFacts
    <3> DEFINE o == graph[ind].offs
               d == data[ind]
               C == Cells(ind)
    <3>1. mem' = WriteMem(mem, ind, d) /\ ref' = WriteRef(ref, ind)
      BY <2>2 DEF Compute
    <3>2. Placed(ind)
      BY <1>0, <1>1 DEF RunInv, PlacedInv, Past
    <3>3. R \in Roots /\ R \in Tensors /\ d = data[R] + o /\ d \in Int /\ data[R] \in Int /\ o \in Nat
      <4>1. PICK t \in Tensors : t = ind
        BY <1>i
      <4>2. data[t] = data[RootOf(t)] + graph[t].offs /\ data[t] \in Int /\ data[RootOf(t)] \in Int
        BY <1>0, <1>1, <3>2, <4>1, LiesInRoot DEF RunInv
      <4> QED
        BY <1>1, <1>i, <3>0, <4>1, <4>2, RootFacts, GraphFacts
    <3>4. /\ DOMAIN mem' = DOMAIN mem \cup {d + i : i \in C}
          /\ \A i \in C : mem'[d + i] = <<ind, i>>
          /\ \A a \in DOMAIN mem : (\A i \in C : d + i # a) => mem'[a] = mem[a]
      <4>1. PICK t \in Tensors : t = ind
        BY <1>i
      <4>2. PICK m : m = mem
        OBVIOUS
      <4>3. PICK a \in Int : a = d
        BY <3>3
      <4>4. /\ DOMAIN WriteMem(m, t, a) = DOMAIN m \cup {a + i : i \in Cells(t)}
            /\ \A i \in Cells(t) : WriteMem(m, t, a)[a + i] = <<t, i>>
            /\ \A b \in DOMAIN m : (\A i \in Cells(t) : a + i # b) => WriteMem(m, t, a)[b] = m[b]
        BY <1>1, MemWritten
      <4>5. mem' = WriteMem(m, t, a)
        BY <3>1, <4>1, <4>2, <4>3
      <4> HIDE DEF d
      <4> QED
        BY <4>1, <4>2, <4>3, <4>4, <4>5
    <3>5. /\ DOMAIN ref' = DOMAIN ref \cup {<<R, o + i>> : i \in C}
          /\ \A i \in C : ref'[<<R, o + i>>] = <<ind, i>>
          /\ \A a \in DOMAIN ref : (\A i \in C : <<R, o + i>> # a) => ref'[a] = ref[a]
      <4>1. PICK t \in Tensors : t = ind
        BY <1>i
      <4>2. PICK m : m = ref
        OBVIOUS
      <4>4. /\ DOMAIN WriteRef(m, t) = DOMAIN m \cup {<<RootOf(t), graph[t].offs + i>> : i \in Cells(t)}
            /\ \A i \in Cells(t) : WriteRef(m, t)[<<RootOf(t), graph[t].offs + i>>] = <<t, i>>
            /\ \A a \in DOMAIN m : (\A i \in Cells(t) : <<RootOf(t), graph[t].offs + i>> # a)
                                  => WriteRef(m, t)[a] = m[a]
        BY <1>1, RefWritten
      <4>5. ref' = WriteRef(m, t)
        BY <3>1, <4>1, <4>2
      <4> QED
        BY <3>0, <4>1, <4>2, <4>4, <4>5
    <3>6. C \in SUBSET Nat /\ (\A i \in C : i < graph[ind].size) /\ graph[ind].size \in Nat
      BY <1>1, <1>i, GraphFacts DEF Cells
    <3>f. Filled(R, ind)'
      <4>1. Filled(R, NodeFrom(ind + 1)) /\ NodeFrom(ind + 1) = ind'
        BY <1>0, <1>9, <3>0
      <4> QED
        BY <1>0, <1>s, <4>1, SameGraph DEF Filled, op
    <3> HIDE DEF o, d, C
    <3>7. \A c \in DOMAIN ref' : c[1] \in Roots /\ Filled(c[1], ind)' /\ c = <<c[1], c[2]>>
      <4>1. \A c \in {<<R, o + i>> : i \in C} : c[1] = R /\ c = <<c[1], c[2]>>
        OBVIOUS
      <4> QED
        BY <1>7, <1>8, <3>3, <3>5, <3>f, <4>1
    <3>8. ASSUME NEW r \in Roots, NeededFrom(r, ind)'
          PROVE  Whole(r)'
      <4> SUFFICES ASSUME NEW i \in Cells(r), <<r, i>> \in DOMAIN ref'
                   PROVE  data[r] + i \in DOMAIN mem' /\ mem'[data[r] + i] = ref'[<<r, i>>]
        BY <1>0, <1>s DEF Whole, Cells
      <4>1. Whole(r) /\ NeededFrom(r, ind + 1)
        BY <1>7, <1>10, <3>8
      <4>2. i \in Nat /\ i < graph[r].size /\ graph[r].size \in Nat /\ r \in Tensors
        BY <1>1, RootFacts, GraphFacts DEF Cells
      <4>3. CASE r = R
        <5>1. CASE \E j \in C : i = o + j
          <6>1. PICK j \in C : i = o + j
            BY <5>1
          <6>2. data[r] + i = d + j
            BY <3>3, <3>6, <4>3, <6>1
          <6> QED
            BY <3>4, <3>5, <4>3, <6>1, <6>2
        <5>2. CASE ~\E j \in C : i = o + j
          <6>1. \A j \in C : <<R, o + j>> # <<r, i>>
            BY <5>2
          <6>2. <<r, i>> \in DOMAIN ref /\ ref'[<<r, i>>] = ref[<<r, i>>]
            BY <3>5, <6>1
          <6>3. data[r] + i \in DOMAIN mem /\ mem[data[r] + i] = ref[<<r, i>>]
            BY <4>1, <6>2 DEF Whole
          <6>4. \A j \in C : d + j # data[r] + i
            <7> DEFINE e == data[R]
            <7>1. e \in Int /\ d = e + o /\ data[r] = e
              BY <3>3, <4>3
            <7>2. \A j \in C : j \in Nat /\ i # o + j
              BY <3>6, <5>2
            <7>3. o \in Nat /\ i \in Nat
              BY <3>3, <4>2
            <7> HIDE DEF e
            <7>4. ASSUME NEW j \in C
                  PROVE  e + o + j # e + i
              <8>1. j \in Nat /\ i # o + j
                BY <7>2
              <8> QED
                BY <7>1, <7>3, <8>1
            <7> QED
              BY <7>1, <7>4
          <6> QED
            BY <3>4, <6>2, <6>3, <6>4
        <5> QED
          BY <5>1, <5>2
      <4>4. CASE r # R
        <5>1. <<r, i>> \in DOMAIN ref /\ ref'[<<r, i>>] = ref[<<r, i>>]
          BY <3>5, <4>4
        <5>2. Filled(r, ind)
          BY <1>7, <5>1
        <5>3. Spares(ind, r)
          <6>1. SparesAll(ind)
            BY <1>0, <1>1 DEF RunInv, SpareInv, Past
          <6> QED
            BY <3>0, <4>1, <4>4, <5>2, <6>1 DEF SparesAll
        <5>4. data[r] + i \in DOMAIN mem /\ mem[data[r] + i] = ref[<<r, i>>]
          BY <4>1, <5>1 DEF Whole
        <5>5. \A j \in C : d + j # data[r] + i
          <6>1. data[r] \in Int
            BY <1>0, <1>1, <4>2 DEF ShapeInv
          <6>2. data[r] + graph[r].size <= d \/ d + graph[ind].size <= data[r]
            BY <5>3 DEF Spares, d
          <6> QED
            BY <3>3, <3>6, <4>2, <6>1, <6>2
        <5> QED
          BY <3>4, <5>1, <5>4, <5>5
      <4> QED
        BY <4>3, <4>4
    <3> QED
      BY <3>7, <3>8
  <2> QED
    BY <2>1, <2>2
<1> QED
  BY <1>2, <1>3, <1>4, <1>5, <1>6, <1>11 DEF AllocInv, RunInv

\* A tensor that waits is in use where it lies.
LEMMA WaitsInUse ==
  ASSUME PlaceInv, ShapeInv, RunInv, stage \in {"allocate", "update"},
         NEW p \in Tensors, Waiting(p), view_src[p] # None
  PROVE  /\ view_src[p] \in Tensors /\ p \in Nodes /\ p \in InUse(view_src[p])
         /\ IsFiniteSet(InUse(view_src[p])) /\ n_views[view_src[p]] \in Nat \ {0}
         /\ n_views[view_src[p]] >= Cardinality(InUse(view_src[p]))
<1>1. PICK v \in Tensors : v = view_src[p]
  BY DEF ShapeInv
<1>2. p \in Nodes
  <2>1. CASE graph[p].view # None
    BY <2>1, RootFacts
  <2>2. CASE graph[p].view = None
    <3>1. p \in OwnRoots
      BY <2>2 DEF Roots, OwnRoots, RunInv, AddressInv, WeightInv
    <3> QED
      BY <3>1 DEF RunInv, AddressInv, RootInv
  <2> QED
    BY <2>1, <2>2
<1>3. p \in InUse(v)
  BY <1>1, <1>2 DEF InUse
<1>4. IsFiniteSet(InUse(v))
  <2>1. InUse(v) \in SUBSET Nodes
    BY DEF InUse
  <2> QED
    BY <2>1, ReadingFacts, FS_Subset
<1>5. n_views[v] \in Nat /\ n_views[v] >= Cardinality(InUse(v))
  BY DEF ShapeInv, RunInv, CountInv
<1>6. Cardinality(InUse(v)) \in Nat /\ Cardinality(InUse(v)) # 0
  BY <1>3, <1>4, FS_CardinalityType, FS_EmptySet
<1>7. n_views[v] # 0
  BY <1>5, <1>6
<1> QED
  BY <1>1, <1>2, <1>3, <1>4, <1>5, <1>7

\* The last reading of p, a node's source: who of its family is done with then.
\* "vs" is where p lies; the counts say that nobody else is waiting there.
LEMMA LastReading ==
  ASSUME PlaceInv, ShapeInv, RunInv, stage \in {"allocate", "update"},
         NEW n \in Nodes, NEW i \in DOMAIN src(n), Ahead(<<n, i>>),
         NEW p \in Tensors, p = src(n)[i],
         n_children[p] = 1, n_views[p] = 0,
         view_src[p] # None => n_views[view_src[p]] = 1 /\ n_children[view_src[p]] = 0
  PROVE  /\ \A u \in Family(RootOf(p)) : ~Unread(u) /\ Pending(u) \subseteq {<<n, i>>}
         /\ InUse(p) = {}
         /\ view_src[p] # None => InUse(view_src[p]) = {p}
<1>0. /\ \A t : IsFiniteSet(Pending(t)) /\ IsFiniteSet(InUse(t))
      /\ \A t \in Tensors : n_children[t] = Cardinality(Pending(t)) /\ n_views[t] >= Cardinality(InUse(t))
      /\ view_src \in [Tensors -> Tensors \cup {None}]
      /\ \A t \in Tensors : n_views[t] \in Nat
  <2>1. \A t : Pending(t) \in SUBSET Readings(t) /\ InUse(t) \in SUBSET Nodes
    BY DEF Pending, InUse
  <2>2. \A t : IsFiniteSet(Pending(t)) /\ IsFiniteSet(InUse(t))
    BY <2>1, ReadingFacts, FS_Subset
  <2> QED
    BY <2>2 DEF RunInv, CountInv, ShapeInv
<1>1. <<n, i>> \in Pending(p) /\ Pending(p) = {<<n, i>>} /\ ~Unread(p)
  <2>1. <<n, i>> \in Readings(p)
    BY ReadingFacts
  <2>2. <<n, i>> \in Pending(p)
    BY <2>1 DEF Pending
  <2>3. Cardinality(Pending(p)) = 1
    BY <1>0
  <2>4. \E x : Pending(p) = {x}
    BY <1>0, <2>3, FS_Singleton
  <2>5. ~Unread(p)
    BY <2>1, ReadingFacts
  <2> QED
    BY <2>2, <2>4, <2>5
<1>2. InUse(p) = {}
  <2>1. Cardinality(InUse(p)) = 0
    <3>1. 0 >= Cardinality(InUse(p)) /\ Cardinality(InUse(p)) \in Nat
      BY <1>0, FS_CardinalityType
    <3> QED
      BY <3>1
  <2> QED
    BY <1>0, <2>1, FS_EmptySet
<1>3. \A u \in Tensors : graph[u].view # None => u \in Nodes /\ view_src[u] = graph[u].view
  BY RootFacts DEF RunInv, AddressInv, ViewInv
<1>4. \A u : ~Waiting(u) => ~Unread(u) /\ Pending(u) = {}
  BY DEF Waiting
<1>5. Waiting(p)
  BY <1>1 DEF Waiting
<1>6. view_src[p] # None => InUse(view_src[p]) = {p}
  <2> SUFFICES ASSUME view_src[p] # None
               PROVE  InUse(view_src[p]) = {p}
    OBVIOUS
  <2>1. PICK v \in Tensors : v = view_src[p]
    BY <1>0
  <2>3. p \in InUse(v)
    BY <1>5, <2>1, WaitsInUse
  <2>4. Cardinality(InUse(v)) <= 1 /\ Cardinality(InUse(v)) \in Nat /\ IsFiniteSet(InUse(v))
    <3>1. 1 >= Cardinality(InUse(v)) /\ Cardinality(InUse(v)) \in Nat
      BY <1>0, <2>1, FS_CardinalityType
    <3> QED
      BY <1>0, <3>1
  <2>5. Cardinality(InUse(v)) # 0
    BY <2>3, <2>4, FS_EmptySet
  <2>6. Cardinality(InUse(v)) = 1
    BY <2>4, <2>5
  <2>7. \E x : InUse(v) = {x}
    BY <2>4, <2>6, FS_Singleton
  <2> QED
    BY <2>1, <2>3, <2>7
<1>7. \A u \in Family(RootOf(p)) : ~Unread(u) /\ Pending(u) \subseteq {<<n, i>>}
  <2> SUFFICES ASSUME NEW u \in Family(RootOf(p)), u # p
               PROVE  ~Unread(u) /\ Pending(u) = {}
    BY <1>1
  <2>1. u \in Tensors /\ RootOf(u) = RootOf(p)
    BY RootFacts
  <2>2. CASE graph[p].view = None
    <3>1. graph[u].view = p
      BY <2>1, <2>2 DEF RootOf
    <3>2. u \in Nodes /\ view_src[u] = p
      BY <1>3, <2>1, <2>2, <3>1, GraphFacts
    <3>3. ~Waiting(u)
      BY <1>2, <3>2 DEF InUse
    <3> QED
      BY <1>4, <3>3
  <2>3. CASE graph[p].view # None
    <3>1. PICK v \in Tensors : v = graph[p].view /\ RootOf(p) = v /\ v # None
      BY <2>3, RootFacts
    <3>2. view_src[p] = v
      BY <1>3, <2>3, <3>1
    <3>3. CASE u = v
      <4>1. ~Unread(u)
        BY <2>3, <3>1, <3>3, ViewReads
      <4>2. Cardinality(Pending(v)) = 0
        BY <1>0, <3>1, <3>2
      <4>3. Pending(v) = {}
        BY <1>0, <4>2, FS_EmptySet
      <4> QED
        BY <3>3, <4>1, <4>3
    <3>4. CASE u # v
      <4>1. graph[u].view = v
        BY <2>1, <3>1, <3>4 DEF RootOf
      <4>2. u \in Nodes /\ view_src[u] = v
        BY <1>3, <2>1, <3>1, <4>1
      <4>3. InUse(v) = {p}
        BY <1>6, <3>1, <3>2
      <4>4. ~Waiting(u)
        BY <4>2, <4>3 DEF InUse
      <4> QED
        BY <1>4, <4>4
    <3> QED
      BY <3>3, <3>4
  <2> QED
    BY <2>2, <2>3
<1> QED
  BY <1>2, <1>6, <1>7

\* Where p lies, placed and own: the root of its family and what it took over
\* lie there too.
LEMMA SamePlace ==
  ASSUME PlaceInv, ShapeInv, AddressInv, stage # "ready",
         NEW p \in Tensors, Placed(p),
         buffer[IF view_src[p] = None THEN p ELSE view_src[p]] = "own"
  PROVE  /\ RootOf(p) \in OwnRoots /\ Placed(RootOf(p))
         /\ view_src[p] = None => RootOf(p) = p
         /\ view_src[p] # None => /\ view_src[p] \in OwnRoots
                                  /\ data[view_src[p]] = data[RootOf(p)]
                                  /\ view_src[p] = RootOf(p) \/ (RootOf(p) = p /\ view_src[RootOf(p)] = view_src[p])
<1>0. view_src \in [Tensors -> Tensors \cup {None}]
  BY DEF ShapeInv
<1>1. CASE graph[p].view = None
  <2>1. RootOf(p) = p /\ p \in Roots
    BY <1>1 DEF RootOf, Roots
  <2>2. op(p) # "WEIGHT"
    BY DEF AddressInv, WeightInv
  <2>3. p \in OwnRoots
    BY <2>1, <2>2 DEF OwnRoots
  <2> QED
    BY <2>1, <2>3 DEF AddressInv, RootInv
<1>2. CASE graph[p].view # None
  <2>1. PICK v \in Tensors : v = graph[p].view /\ RootOf(p) = v /\ v \in Roots /\ v # None
    BY <1>2, RootFacts
  <2>2. view_src[p] = v /\ Placed(v)
    BY <1>2, <2>1 DEF AddressInv, ViewInv
  <2>3. op(v) # "WEIGHT"
    BY <2>1, <2>2 DEF AddressInv, WeightInv
  <2> QED
    BY <2>1, <2>2, <2>3 DEF OwnRoots
<1> QED
  BY <1>1, <1>2

\* The counts are brought up to date.
LEMMA UpdateCounts ==
  ASSUME PlaceInv, ShapeInv, RunInv, Update
  PROVE  /\ ShapeInv' /\ CountInv'
         /\ \A t : \A c \in Readings(t) : Ahead(c)' <=> Ahead(c) /\ c # <<ind, k>>
         /\ Ahead(<<ind, k>>) /\ src(ind)[k] \in Tensors /\ Waiting(src(ind)[k])
<1>p. PICK p : p = src(ind)[k]
  OBVIOUS
<1> DEFINE last == n_children[p] = 1 /\ n_views[p] = 0
           vs   == view_src[p]
<1>0. /\ stage = "update" /\ k \in DOMAIN src(ind) /\ stage' = "update" /\ ind' = ind /\ k' = k + 1
      /\ UNCHANGED <<plan, measuring>> /\ view_src' = view_src
      /\ n_children' = [n_children EXCEPT ![p] = @ - 1]
      /\ n_views' = IF last /\ vs # None THEN [n_views EXCEPT ![vs] = @ - 1] ELSE n_views
      /\ data' = data /\ buffer' = buffer
  BY <1>p DEF Update, graphs, tallocr_free, Fail
<1>i. ind \in Nodes /\ ind \in Tensors /\ ind \in Nat \ {0} /\ k \in Nat \ {0} /\ p \in Tensors
  BY <1>0, <1>p, GraphFacts DEF PlaceInv
<1>s. /\ graph' = graph /\ Tensors' = Tensors /\ Nodes' = Nodes
      /\ \A t : Readings(t)' = Readings(t)
  BY <1>0, SameGraph
<1>1. ASSUME NEW t, NEW c \in Readings(t)
      PROVE  Ahead(c)' <=> Ahead(c) /\ c # <<ind, k>>
  <2>1. c[1] \in Nat /\ c[2] \in Nat /\ c = <<c[1], c[2]>>
    <3>1. PICK n \in Nodes : \E i \in DOMAIN src(n) : c = <<n, i>>
      BY ReadingFacts
    <3>2. PICK i \in DOMAIN src(n) : c = <<n, i>>
      BY <3>1
    <3> QED
      BY <3>1, <3>2, GraphFacts
  <2>2. Ahead(c) <=> c[1] > ind \/ (c[1] = ind /\ c[2] >= k)
    BY <1>0 DEF Ahead
  <2>3. Ahead(c)' <=> c[1] > ind \/ (c[1] = ind /\ c[2] >= k + 1)
    BY <1>0 DEF Ahead
  <2> QED
    BY <1>i, <2>1, <2>2, <2>3
<1>2. <<ind, k>> \in Readings(p) /\ Ahead(<<ind, k>>)
  <2>1. <<ind, k>> \in Readings(p)
    BY <1>0, <1>i, <1>p, ReadingFacts
  <2>2. k >= k
    BY <1>i
  <2> QED
    BY <1>0, <2>1, <2>2 DEF Ahead
<1>3. Waiting(p) /\ <<ind, k>> \in Pending(p)
  BY <1>2 DEF Waiting, Pending
<1>4. /\ Pending(p)' = Pending(p) \ {<<ind, k>>}
      /\ \A t : t # p => Pending(t)' = Pending(t)
  <2>1. \A t : Pending(t)' = {c \in Readings(t) : Ahead(c) /\ c # <<ind, k>>}
    BY <1>1, <1>s DEF Pending
  <2>2. \A t : t # p => <<ind, k>> \notin Readings(t)
    BY <1>p, ReadingFacts
  <2>3. Pending(p)' = {c \in Readings(p) : Ahead(c) /\ c # <<ind, k>>}
    BY <2>1
  <2>4. {c \in Readings(p) : Ahead(c) /\ c # <<ind, k>>} = Pending(p) \ {<<ind, k>>}
    BY DEF Pending
  <2>5. \A t : t # p => {c \in Readings(t) : Ahead(c) /\ c # <<ind, k>>} = Pending(t)
    BY <2>2 DEF Pending
  <2> QED
    BY <2>1, <2>3, <2>4, <2>5
<1>5. /\ \A t : IsFiniteSet(Pending(t)) /\ IsFiniteSet(InUse(t))
      /\ \A t : Cardinality(Pending(t)) \in Nat /\ Cardinality(InUse(t)) \in Nat
  <2>1. \A t : Pending(t) \in SUBSET Readings(t) /\ InUse(t) \in SUBSET Nodes
    BY DEF Pending, InUse
  <2>2. \A t : IsFiniteSet(Pending(t)) /\ IsFiniteSet(InUse(t))
    BY <2>1, ReadingFacts, FS_Subset
  <2> QED
    BY <2>2, FS_CardinalityType
<1>6. /\ \A t \in Tensors : n_children[t] = Cardinality(Pending(t)) /\ n_views[t] >= Cardinality(InUse(t))
      /\ n_children \in [Tensors -> Nat] /\ n_views \in [Tensors -> Nat]
      /\ view_src \in [Tensors -> Tensors \cup {None}]
  BY <1>0 DEF RunInv, CountInv, ShapeInv
<1>7. /\ n_children' \in [Tensors -> Nat]
      /\ \A t \in Tensors : t # p => n_children'[t] = n_children[t]
      /\ n_children'[p] = n_children[p] - 1 /\ n_children[p] - 1 = Cardinality(Pending(p) \ {<<ind, k>>})
  <2>1. Cardinality(Pending(p) \ {<<ind, k>>}) = Cardinality(Pending(p)) - 1
        /\ IsFiniteSet(Pending(p) \ {<<ind, k>>})
    BY <1>3, <1>5, FS_RemoveElement
  <2>2. n_children[p] - 1 = Cardinality(Pending(p) \ {<<ind, k>>})
    BY <1>6, <1>i, <2>1
  <2>3. n_children[p] - 1 \in Nat
    BY <2>1, <2>2, FS_CardinalityType
  <2> QED
    BY <1>0, <1>6, <1>i, <2>2, <2>3
<1>u. \A v : InUse(v)' \subseteq InUse(v)
  <2>1. \A t : \A c \in Readings(t) : Ahead(c)' => Ahead(c)
    BY <1>1
  <2>2. \A n, v : view_src'[n] = view_src[n] => (n \in InUse(v)' => n \in InUse(v))
    BY <1>0, <2>1, FewerPending
  <2> QED
    BY <1>0, <2>2
<1>8. /\ n_views' \in [Tensors -> Nat]
      /\ \A v \in Tensors : n_views'[v] >= Cardinality(InUse(v)')
  <2>1. \A v : IsFiniteSet(InUse(v)') /\ Cardinality(InUse(v)') \in Nat /\ Cardinality(InUse(v)') <= Cardinality(InUse(v))
    <3> SUFFICES ASSUME NEW v
                 PROVE  IsFiniteSet(InUse(v)') /\ Cardinality(InUse(v)') \in Nat /\ Cardinality(InUse(v)') <= Cardinality(InUse(v))
      OBVIOUS
    <3>1. PICK S : S = InUse(v)'
      OBVIOUS
    <3>2. PICK Z : Z = InUse(v)
      OBVIOUS
    <3>3. S \in SUBSET Z /\ IsFiniteSet(Z)
      BY <1>5, <1>u, <3>1, <3>2
    <3>4. IsFiniteSet(S) /\ Cardinality(S) <= Cardinality(Z)
      BY <3>3, FS_Subset
    <3>5. Cardinality(S) \in Nat
      BY <3>4, FS_CardinalityType
    <3> QED
      BY <3>1, <3>2, <3>4, <3>5
  <2>2. CASE last /\ vs # None
    <3>1. PICK v \in Tensors : v = vs
      BY <1>6, <1>i, <2>2
    <3>2. p \in InUse(v) /\ n_views[v] \in Nat \ {0} /\ n_views[v] >= Cardinality(InUse(v))
      BY <1>0, <1>3, <1>i, <2>2, <3>1, WaitsInUse
    <3>3. p \notin InUse(v)'
      <4>1. Pending(p)' = {}
        <5>1. Cardinality(Pending(p) \ {<<ind, k>>}) = 0
          BY <1>7, <2>2
        <5>2. IsFiniteSet(Pending(p) \ {<<ind, k>>})
          BY <1>5, FS_RemoveElement
        <5> QED
          BY <1>4, <5>1, <5>2, FS_EmptySet
      <4>2. ~Unread(p)'
        BY <1>0, <1>2, ReadingFacts, SameGraph
      <4>3. p \notin InUse(v)'
        BY <4>1, <4>2 DEF InUse, Waiting
      <4> QED
        BY <4>3
    <3>4. Cardinality(InUse(v)') <= Cardinality(InUse(v)) - 1
      <4>1. PICK S : S = InUse(v)'
        OBVIOUS
      <4>2. PICK Z : Z = InUse(v) \ {p}
        OBVIOUS
      <4>3. IsFiniteSet(Z) /\ Cardinality(Z) = Cardinality(InUse(v)) - 1
        BY <1>5, <3>2, <4>2, FS_RemoveElement
      <4>4. S \in SUBSET Z
        BY <1>u, <3>3, <4>1, <4>2
      <4>5. Cardinality(S) <= Cardinality(Z)
        BY <4>3, <4>4, FS_Subset
      <4> QED
        BY <4>1, <4>3, <4>5
    <3>5. n_views' = [n_views EXCEPT ![v] = @ - 1] 
      BY <1>0, <2>2, <3>1
    <3>6. n_views[v] - 1 \in Nat /\ n_views[v] - 1 >= Cardinality(InUse(v)')
      BY <1>5, <2>1, <3>2, <3>4
    <3>7. n_views' \in [Tensors -> Nat] /\ n_views'[v] = n_views[v] - 1
          /\ \A t \in Tensors : t # v => n_views'[t] = n_views[t]
      BY <1>6, <3>5, <3>6
    <3>8. ASSUME NEW t \in Tensors, t # v
          PROVE  n_views'[t] >= Cardinality(InUse(t)')
      <4>1. n_views'[t] = n_views[t] /\ n_views[t] \in Nat /\ n_views[t] >= Cardinality(InUse(t))
        BY <1>6, <3>7, <3>8
      <4> QED
        BY <1>5, <2>1, <4>1
    <3> QED
      BY <3>6, <3>7, <3>8
  <2>3. CASE ~(last /\ vs # None)
    <3>1. n_views' = n_views
      BY <1>0, <2>3
    <3>2. ASSUME NEW t \in Tensors
          PROVE  n_views[t] >= Cardinality(InUse(t)')
      <4>1. n_views[t] \in Nat /\ n_views[t] >= Cardinality(InUse(t))
        BY <1>6
      <4> QED
        BY <1>5, <2>1, <4>1
    <3> QED
      BY <1>6, <3>1, <3>2
  <2> QED
    BY <2>2, <2>3
<1>9. ShapeInv'
  BY <1>0, <1>7, <1>8, <1>s DEF ShapeInv
<1>10. CountInv'
  <2>1. ASSUME NEW t \in Tensors
        PROVE  n_children'[t] = Cardinality(Pending(t)')
    <3>1. CASE t = p
      <4>1. Pending(t)' = Pending(p) \ {<<ind, k>>}
        BY <1>4, <3>1
      <4> QED
        BY <1>7, <3>1, <4>1
    <3>2. CASE t # p
      BY <1>4, <1>6, <1>7, <3>2
    <3> QED
      BY <3>1, <3>2
  <2> QED
    BY <1>8, <1>s, <2>1 DEF CountInv
<1> QED
  BY <1>1, <1>2, <1>3, <1>9, <1>10, <1>i, <1>p

\* The last reading done, the memory of the family it was of is given back:
\* nobody else lies there any more.
LEMMA UpdateStep ==
  ASSUME AllocInv, ~failed, Update
  PROVE  AllocInv'
<1>p. PICK p : p = src(ind)[k]
  OBVIOUS
<1> DEFINE last == n_children[p] = 1 /\ n_views[p] = 0
           vs   == view_src[p]
<1>0. /\ stage = "update" /\ k \in DOMAIN src(ind) /\ stage' = "update" /\ ind' = ind /\ k' = k + 1
      /\ UNCHANGED <<plan, measuring>> /\ size' = size /\ view_src' = view_src /\ UNCHANGED cells
      /\ n_children' = [n_children EXCEPT ![p] = @ - 1]
      /\ n_views' = IF last /\ vs # None THEN [n_views EXCEPT ![vs] = @ - 1] ELSE n_views
      /\ data' = data /\ buffer' = buffer
      /\ IF ~last THEN UNCHANGED <<failed, data, buffer, space>>
         ELSE IF vs = None THEN tallocr_free(p)
         ELSE IF n_views'[vs] = 0 /\ n_children'[vs] = 0 THEN tallocr_free(vs)
         ELSE UNCHANGED <<failed, data, buffer, space>>
  BY <1>p DEF Update, graphs, tallocr_free, Fail
<1>1. PlaceInv /\ ShapeInv /\ ListInv /\ RunInv /\ failed = FALSE
  BY <1>0 DEF AllocInv, PlaceInv
<1>i. ind \in Nodes /\ ind \in Tensors /\ ind \in Nat \ {0} /\ k \in Nat \ {0} /\ p \in Tensors /\ p < ind /\ p \in Nat
  BY <1>0, <1>1, <1>p, GraphFacts DEF PlaceInv
<1>s. /\ graph' = graph /\ Tensors' = Tensors /\ Nodes' = Nodes /\ OwnRoots' = OwnRoots /\ Roots' = Roots
      /\ \A t : RootOf(t)' = RootOf(t)
      /\ \A t : Unread(t)' = Unread(t)
      /\ \A t : Family(t)' = Family(t)
  BY <1>0, SameGraph
<1>2. /\ ShapeInv' /\ CountInv'
      /\ \A t : \A c \in Readings(t) : Ahead(c)' <=> Ahead(c) /\ c # <<ind, k>>
      /\ Ahead(<<ind, k>>) /\ Waiting(p)
  BY <1>1, <1>p, UpdateCounts
<1>a. /\ \A t : Pending(t)' \subseteq Pending(t) /\ Pending(t)' \subseteq Readings(t) \ {<<ind, k>>}
      /\ \A r : Active(r)' => Active(r)
  <2>1. \A t : \A c \in Readings(t) : Ahead(c)' => Ahead(c)
    BY <1>2
  <2>2. \A t : Pending(t)' \subseteq Readings(t) \ {<<ind, k>>}
    BY <1>0, <1>2, SameGraph DEF Pending
  <2> QED
    BY <1>0, <2>1, <2>2, FewerPending
\* A family of which nothing but this reading is ahead is done with.
<1>d. ASSUME NEW r, \A u \in Family(r) : ~Unread(u) /\ Pending(u) \subseteq {<<ind, k>>}
      PROVE  ~Active(r)'
  <2>1. \A u \in Family(r) : ~Waiting(u)'
    <3>1. \A u \in Family(r) : Pending(u)' = {}
      BY <1>a, <1>d
    <3> QED
      BY <1>d, <1>s, <3>1 DEF Waiting
  <2> QED
    BY <1>s, <2>1 DEF Active
<1>n. view_src[p] # None /\ last =>
        view_src[p] \in Tensors /\ view_src[p] # p /\ n_views[view_src[p]] \in Nat \ {0}
  <2> SUFFICES ASSUME view_src[p] # None, last
               PROVE  view_src[p] \in Tensors /\ view_src[p] # p /\ n_views[view_src[p]] \in Nat \ {0}
    OBVIOUS
  <2>1. view_src[p] \in Tensors /\ n_views[view_src[p]] \in Nat \ {0}
    BY <1>0, <1>1, <1>2, <1>i, WaitsInUse
  <2> QED
    BY <2>1
\* What is freed, if anything: a tensor x that lies where the family S of p does.
<1> DEFINE x == IF vs = None THEN p ELSE vs
           freed == tallocr_free(x) /\ last /\ (vs # None => n_views[vs] = 1 /\ n_children[vs] = 0)
<1>f. UNCHANGED <<failed, data, buffer, space>> \/ freed
  <2>1. CASE last /\ vs # None /\ n_views'[vs] = 0 /\ n_children'[vs] = 0
    <3>1. vs \in Tensors /\ vs # p /\ n_views[vs] \in Nat \ {0}
      BY <1>n, <2>1
    <3>2. n_views'[vs] = n_views[vs] - 1 /\ n_children'[vs] = n_children[vs]
      BY <1>0, <1>1, <2>1, <3>1 DEF ShapeInv
    <3>3. n_views[vs] = 1 /\ n_children[vs] = 0
      BY <2>1, <3>1, <3>2
    <3> QED
      BY <1>0, <2>1, <3>3
  <2> QED
    BY <1>0, <2>1
<1>3. AddressInv'
  BY <1>0, <1>1, <1>s DEF RunInv, AddressInv, WeightInv, ViewInv, RootInv, Placed, op, Foreign
<1>4. PlacedInv'
  BY <1>0, <1>1, <1>s DEF RunInv, PlacedInv, Placed, Past, op, src
<1>5. SpareInv'
  <2>1. \A m : SparesAll(m)' <=> SparesAll(m)
    BY <1>0, <1>s, SameGraph DEF SparesAll, Spares
  <2> QED
    BY <1>0, <1>1, <1>s, <2>1 DEF RunInv, SpareInv, Past
<1>6. ContentInv'
  BY <1>0, <1>1, ContentKept DEF RunInv
<1>7. PlaceInv' \/ failed' \notin BOOLEAN
  <2>1. k + 1 \in Nat \ {0}
    BY <1>i
  <2> QED
    BY <1>0, <1>1, <1>i, <1>s, <2>1 DEF PlaceInv
<1>8. BackedInv /\ ApartInv
  BY <1>0, <1>1 DEF RunInv, HeldInv
<1>9. ApartInv'
  <2>1. ASSUME NEW r \in OwnRoots, NEW s \in OwnRoots, Taken(r, s), Active(s)'
        PROVE  Taken(r, s)'
    <3>1. r = ind /\ graph[r].view = None
      BY <2>1 DEF Taken
    <3>2. PICK i \in DOMAIN src(r) :
            /\ i >= k /\ RootOf(src(r)[i]) = s
            /\ view_src[r] = IF view_src[src(r)[i]] = None THEN src(r)[i] ELSE view_src[src(r)[i]]
            /\ \A u \in Family(s) : ~Unread(u) /\ Pending(u) \subseteq {<<r, i>>}
      BY <2>1 DEF Taken
    <3>3. i # k
      BY <1>d, <2>1, <3>1, <3>2
    <3>4. i >= k + 1
      BY <1>1, <1>i, <3>1, <3>2, <3>3, GraphFacts
    <3>5. \A u \in Family(s) : ~Unread(u)' /\ Pending(u)' \subseteq {<<r, i>>}
      BY <1>a, <1>s, <3>2
    <3>6. RootOf(src(r)[i])' = s
      BY <1>s, <3>2 DEF RootOf, src
    <3> QED
      BY <1>0, <1>s, <3>1, <3>2, <3>4, <3>5, <3>6 DEF Taken, src
  <2>2. ASSUME NEW r \in OwnRoots, NEW s \in OwnRoots, r # s, Placed(r)', Placed(s)', Active(r)', Active(s)'
        PROVE  data'[r] # data'[s] \/ Taken(r, s)' \/ Taken(s, r)'
    <3>1. Placed(r) /\ Placed(s) /\ Active(r) /\ Active(s)
      BY <1>0, <1>a, <2>2 DEF Placed
    <3>2. data[r] # data[s] \/ Taken(r, s) \/ Taken(s, r)
      BY <1>8, <2>2, <3>1 DEF ApartInv
    <3> QED
      BY <1>0, <2>1, <2>2, <3>2
  <2> QED
    BY <1>s, <2>2 DEF ApartInv
<1>10. CASE UNCHANGED <<failed, data, buffer, space>>
  <2>1. UNCHANGED <<free_blocks, max_size, held, failed>>
    BY <1>10 DEF space
  <2>2. PlaceInv' /\ ListInv'
    BY <1>0, <1>1, <1>7, <2>1 DEF ListInv
  <2>3. BackedInv'
    <3> SUFFICES ASSUME NEW r \in OwnRoots, Placed(r)', Active(r)'
                 PROVE  \E h \in held' : HeldBy(r, h)'
      BY <1>s DEF BackedInv
    <3>1. Placed(r) /\ Active(r)
      BY <1>0, <1>a DEF Placed
    <3>2. PICK h \in held : HeldBy(r, h)
      BY <1>8, <3>1 DEF BackedInv
    <3>3. HeldBy(r, h)'
      BY <1>0, <1>s, <3>2 DEF HeldBy
    <3> QED
      BY <2>1, <3>2, <3>3
  <2> QED
    BY <1>2, <1>3, <1>4, <1>5, <1>6, <1>9, <2>2, <2>3 DEF AllocInv, RunInv, HeldInv
<1>11. CASE freed
  <2>1. /\ \A u \in Family(RootOf(p)) : ~Unread(u) /\ Pending(u) \subseteq {<<ind, k>>}
        /\ InUse(p) = {}
        /\ view_src[p] # None => InUse(view_src[p]) = {p}
    <3>1. PICK n \in Nodes : n = ind
      BY <1>i
    <3>2. PICK i \in DOMAIN src(n) : i = k
      BY <1>0, <3>1
    <3>3. PICK q \in Tensors : q = p /\ q = src(n)[i]
      BY <1>i, <1>p, <3>1, <3>2
    <3>4. Ahead(<<n, i>>) /\ n_children[q] = 1 /\ n_views[q] = 0 /\ stage \in {"allocate", "update"}
          /\ (view_src[q] # None => n_views[view_src[q]] = 1 /\ n_children[view_src[q]] = 0)
      BY <1>0, <1>2, <1>11, <3>1, <3>2, <3>3
    <3>5. /\ \A u \in Family(RootOf(q)) : ~Unread(u) /\ Pending(u) \subseteq {<<n, i>>}
          /\ InUse(q) = {}
          /\ view_src[q] # None => InUse(view_src[q]) = {q}
      BY <1>1, <3>3, <3>4, LastReading
    <3> QED
      BY <3>1, <3>2, <3>3, <3>5
  <2>2. x \in Tensors
    BY <1>i, <1>n, <1>11
  <2>3. Placed(p)
    BY <1>0, <1>1, <1>p DEF RunInv, PlacedInv
  <2>4. PICK S : S = RootOf(p)
    OBVIOUS
  <2>5. ~Active(S)'
    BY <1>d, <2>1, <2>4
  <2>6. Active(S)
    BY <1>1, <1>2, <1>i, <2>4, RootFacts DEF Active
  <2>7. buffer[x] = "own" =>
          /\ S \in OwnRoots /\ Placed(S) /\ data[x] = data[S]
          /\ x = S \/ (view_src[S] = x /\ x # None)
    <3> SUFFICES ASSUME buffer[x] = "own"
                 PROVE  /\ S \in OwnRoots /\ Placed(S) /\ data[x] = data[S]
                        /\ x = S \/ (view_src[S] = x /\ x # None)
      OBVIOUS
    <3>1. PICK q \in Tensors : q = p
      BY <1>i
    <3>2. Placed(q) /\ buffer[IF view_src[q] = None THEN q ELSE view_src[q]] = "own" /\ stage # "ready" /\ AddressInv
      BY <1>0, <1>1, <2>3, <3>1 DEF RunInv
    <3>3. /\ RootOf(q) \in OwnRoots /\ Placed(RootOf(q))
          /\ view_src[q] = None => RootOf(q) = q
          /\ view_src[q] # None => /\ view_src[q] \in OwnRoots
                                   /\ data[view_src[q]] = data[RootOf(q)]
                                   /\ view_src[q] = RootOf(q) \/ (RootOf(q) = q /\ view_src[RootOf(q)] = view_src[q])
      BY <1>1, <3>2, SamePlace
    <3> QED
      BY <2>4, <3>1, <3>3
  <2>8. is_own(x) => buffer[x] = "own"
    BY DEF is_own
  <2>9. is_own(x) => \E h \in held : h[1] = data[x] /\ aligned(graph[x].size) <= h[2]
    <3> SUFFICES ASSUME is_own(x)
                 PROVE  \E h \in held : h[1] = data[x] /\ aligned(graph[x].size) <= h[2]
      OBVIOUS
    <3>1. PICK h \in held : HeldBy(S, h)
      BY <1>8, <2>6, <2>7, <2>8 DEF BackedInv
    <3>2. x = S \/ (view_src[S] = x /\ view_src[S] # None)
      BY <2>7, <2>8
    <3>3. h[1] = data[x]
      BY <2>7, <2>8, <3>1 DEF HeldBy
    <3>4. aligned(graph[x].size) <= h[2]
      <4> HIDE DEF x
      <4> QED
        BY <3>1, <3>2 DEF HeldBy
    <3> QED
      BY <3>3, <3>4
  <2>10. /\ ListInv'
         /\ \/ failed' = TRUE
            \/ failed' = FALSE /\ is_own(x) /\ held' = {g \in held : g[1] # data[x]}
            \/ failed' = FALSE /\ ~is_own(x) /\ held' = held
    <3>1. PICK y \in Tensors : y = x
      BY <2>2
    <3>2. tallocr_free(y) /\ (is_own(y) => \E h \in held : h[1] = data[y] /\ aligned(graph[y].size) <= h[2])
      <4> HIDE DEF x
      <4> QED
        BY <1>11, <2>9, <3>1
    <3>3. /\ ListInv'
          /\ \/ failed' = TRUE
             \/ failed' = FALSE /\ is_own(y) /\ held' = {g \in held : g[1] # data[y]}
             \/ failed' = FALSE /\ ~is_own(y) /\ held' = held
      BY <1>0, <1>1, <3>2, FreeEffect
    <3> HIDE DEF x
    <3> QED
      BY <3>1, <3>3
  <2>p. PlaceInv'
    <3>1. failed' \in BOOLEAN
      BY <2>10
    <3> QED
      BY <1>7, <3>1
  <2>11. CASE failed' = TRUE
    BY <1>2, <2>10, <2>11, <2>p DEF AllocInv
  <2>12. CASE failed' = FALSE
    <3>1. BackedInv'
      <4> SUFFICES ASSUME NEW r \in OwnRoots, Placed(r)', Active(r)'
                   PROVE  \E h \in held' : HeldBy(r, h)'
        BY <1>s DEF BackedInv
      <4>1. Placed(r) /\ Active(r)
        BY <1>0, <1>a DEF Placed
      <4>2. PICK h \in held : HeldBy(r, h)
        BY <1>8, <4>1 DEF BackedInv
      <4>3. HeldBy(r, h)'
        BY <1>0, <1>s, <4>2 DEF HeldBy
      <4>4. CASE is_own(x)
        <5>1. S \in OwnRoots /\ Placed(S) /\ data[x] = data[S]
          BY <2>7, <2>8, <4>4
        <5>2. r # S
          BY <2>5
        <5>3. ~Taken(S, r)
          <6>1. S # ind
            BY <1>1, <1>i, <2>4, RootFacts, GraphFacts
          <6> QED
            BY <6>1 DEF Taken
        <5>4. ~Taken(r, S)
          <6> SUFFICES ASSUME Taken(r, S)
                       PROVE  FALSE
            OBVIOUS
          <6>1. r = ind
            BY DEF Taken
          <6>2. PICK i \in DOMAIN src(ind) :
                  /\ i >= k
                  /\ view_src[ind] = IF view_src[src(ind)[i]] = None THEN src(ind)[i] ELSE view_src[src(ind)[i]]
                  /\ \A u \in Family(S) : Pending(u) \subseteq {<<ind, i>>}
            BY <6>1 DEF Taken
          <6>3. <<ind, k>> \in Pending(p) /\ p \in Family(S)
            <7>1. <<ind, k>> \in Readings(p)
              BY <1>0, <1>1, <1>i, <1>p, ReadingFacts
            <7> QED
              BY <1>1, <1>2, <1>i, <2>4, <7>1, RootFacts DEF Pending
          <6>4. i = k
            BY <6>2, <6>3
          <6>5. view_src[ind] = x
            BY <1>p, <6>2, <6>4
          <6>6. Waiting(ind)
            <7>1. Unread(ind) \/ Readings(ind) # {}
              BY <1>1, ReadingFacts
            <7>2. ASSUME NEW c \in Readings(ind)
                  PROVE  Ahead(c)
              <8>1. PICK n \in Nodes : \E j \in DOMAIN src(n) : c = <<n, j>> /\ src(n)[j] = ind
                BY <1>1, ReadingFacts
              <8>2. PICK j \in DOMAIN src(n) : c = <<n, j>> /\ src(n)[j] = ind
                BY <8>1
              <8>3. ind < n /\ n \in Nat
                BY <1>1, <8>2, GraphFacts
              <8> QED
                BY <1>i, <8>2, <8>3 DEF Ahead
            <7> QED
              BY <7>1, <7>2 DEF Waiting, Pending
          <6>7. ind \in InUse(x)
            <7> HIDE DEF x
            <7> QED
              BY <1>i, <6>5, <6>6 DEF InUse
          <6> QED
            BY <1>i, <2>1, <6>7
        <5>5. data[r] # data[S]
          BY <1>8, <2>6, <4>1, <5>1, <5>2, <5>3, <5>4 DEF ApartInv
        <5>6. h \in held'
          <6>1. held' = {g \in held : g[1] # data[x]}
            BY <2>10, <2>12, <4>4
          <6>2. h[1] = data[r]
            BY <4>2 DEF HeldBy
          <6> HIDE DEF x
          <6> QED
            BY <5>1, <5>5, <6>1, <6>2
        <5> QED
          BY <4>3, <5>6
      <4>5. CASE ~is_own(x)
        BY <2>10, <2>12, <4>2, <4>3, <4>5
      <4> QED
        BY <4>4, <4>5
    <3> QED
      BY <1>2, <1>3, <1>4, <1>5, <1>6, <1>9, <2>10, <2>p, <3>1 DEF AllocInv, RunInv, HeldInv
  <2> QED
    BY <2>10, <2>11, <2>12
<1> QED
  BY <1>10, <1>11, <1>f

\* A node that has just been placed lies apart from every family that was
\* filled before it and is needed after it.
LEMMA NewSpare ==
  PlaceInv /\ ShapeInv /\ ListInv /\ AddressInv /\ PlacedInv /\ HeldInv /\ stage = "update" /\ k = 1
    => SparesAll(ind)
<1> SUFFICES ASSUME PlaceInv, ShapeInv, ListInv, AddressInv, PlacedInv, HeldInv, stage = "update", k = 1,
                    NEW r \in Roots, r # RootOf(ind), Filled(r, ind), NeededFrom(r, ind + 1)
             PROVE  Spares(ind, r)
  BY DEF SparesAll
<1>1. /\ ind \in Nodes /\ ind \in Tensors /\ ind \in Nat /\ r \in Tensors
      /\ data \in [Tensors -> Int] /\ stage # "ready"
      /\ graph[ind].size \in Nat \ {0} /\ graph[r].size \in Nat \ {0} /\ graph[ind].offs \in Nat
  BY GraphFacts, RootFacts DEF PlaceInv, ShapeInv
<1>2. PICK R \in Roots : /\ R = RootOf(ind) /\ ind \in Family(R) /\ R \in Tensors
                         /\ graph[ind].offs + graph[ind].size <= graph[R].size
                         /\ graph[R].size \in Nat
  BY <1>1, RootFacts, GraphFacts
<1>p. Placed(ind)
  BY <1>1 DEF PlacedInv, Past
<1>3. Placed(R) /\ data[ind] = data[R] + graph[ind].offs /\ data[R] \in Int /\ data[r] \in Int /\ data[ind] \in Int
  <2>1. PICK t \in Tensors : t = ind
    BY <1>1
  <2>2. Placed(RootOf(t)) /\ data[t] = data[RootOf(t)] + graph[t].offs
    BY <1>1, <1>p, <2>1, LiesInRoot
  <2> QED
    BY <1>1, <1>2, <2>1, <2>2
\* The readings of later nodes are ahead.
<1>a. \A t : \A c \in Readings(t) : c[1] > ind => Ahead(c)
  BY DEF Ahead
<1>b. r \in OwnRoots => Placed(r) /\ Active(r)
  <2> SUFFICES ASSUME r \in OwnRoots
               PROVE  Placed(r) /\ Active(r)
    OBVIOUS
  <2>1. Placed(r)
    <3>1. CASE op(r) = "INPUT"
      BY <1>1, <3>1 DEF PlacedInv
    <3>2. CASE \E n \in Nodes : n < ind /\ RootOf(n) = r
      <4>1. PICK n \in Nodes : n < ind /\ RootOf(n) = r
        BY <3>2
      <4>2. n \in Tensors /\ Placed(n)
        BY <1>1, <4>1, GraphFacts DEF PlacedInv, Past
      <4> QED
        BY <1>1, <4>1, <4>2, LiesInRoot
    <3> QED
      BY <3>1, <3>2 DEF Filled, OwnRoots
  <2>2. PICK t \in Family(r) : Unread(t) \/ \E n \in Nodes : n >= ind + 1 /\ t \in Parents(n)
    BY DEF NeededFrom, OwnRoots
  <2>3. Waiting(t)
    <3>1. CASE Unread(t)
      BY <3>1 DEF Waiting
    <3>2. CASE \E n \in Nodes : n >= ind + 1 /\ t \in Parents(n)
      <4>1. PICK n \in Nodes : n >= ind + 1 /\ t \in Parents(n)
        BY <3>2
      <4>2. PICK i \in DOMAIN src(n) : src(n)[i] = t
        BY <4>1 DEF Parents
      <4>3. <<n, i>> \in Readings(t) /\ n > ind
        BY <1>1, <4>1, <4>2, ReadingFacts, GraphFacts
      <4>4. Ahead(<<n, i>>)
        BY <1>a, <4>3
      <4> QED
        BY <4>3, <4>4 DEF Waiting, Pending
    <3> QED
      BY <2>2, <3>1, <3>2
  <2> QED
    BY <2>1, <2>3 DEF Active
<1>c. Active(R)
  <2>1. Unread(ind) \/ Readings(ind) # {}
    BY ReadingFacts
  <2>2. ASSUME NEW c \in Readings(ind)
        PROVE  Ahead(c)
    <3>1. PICK n \in Nodes : \E j \in DOMAIN src(n) : c = <<n, j>> /\ src(n)[j] = ind
      BY ReadingFacts
    <3>2. PICK j \in DOMAIN src(n) : c = <<n, j>> /\ src(n)[j] = ind
      BY <3>1
    <3>3. ind < n /\ n \in Nat
      BY <3>2, GraphFacts
    <3> QED
      BY <1>1, <1>a, <3>2, <3>3
  <2>3. Waiting(ind)
    BY <2>1, <2>2 DEF Waiting, Pending
  <2> QED
    BY <1>2, <2>3 DEF Active
<1>4. CASE R \in OwnRoots /\ r \in OwnRoots
  <2>1. BackedInv /\ ApartInv
    BY DEF HeldInv
  <2>2. ~Taken(r, R)
    <3>1. CASE r = ind
      BY <3>1, <1>2, RootFacts
    <3>2. CASE r # ind
      BY <3>2 DEF Taken
    <3> QED
      BY <3>1, <3>2
  <2>3. ~Taken(R, r)
    <3> SUFFICES ASSUME Taken(R, r)
                 PROVE  FALSE
      OBVIOUS
    <3>1. PICK i \in DOMAIN src(R) : \A u \in Family(r) : ~Unread(u) /\ Pending(u) \subseteq {<<ind, i>>}
      BY DEF Taken
    <3>2. PICK t \in Family(r) : \E n \in Nodes : n >= ind + 1 /\ t \in Parents(n)
      BY <1>4, <3>1 DEF NeededFrom, OwnRoots
    <3>3. PICK n \in Nodes : n >= ind + 1 /\ t \in Parents(n)
      BY <3>2
    <3>4. PICK j \in DOMAIN src(n) : src(n)[j] = t
      BY <3>3 DEF Parents
    <3>a. <<n, j>> \in Readings(t)
      BY <3>4, ReadingFacts
    <3>b. n \in Nat
      BY <3>3, GraphFacts
    <3>c. n > ind /\ n # ind
      BY <1>1, <3>3, <3>b
    <3>5. <<n, j>> \in Readings(t) /\ n > ind /\ n # ind
      BY <3>a, <3>c
    <3>6. <<n, j>> \in Pending(t)
      BY <1>a, <3>5 DEF Pending
    <3> QED
      BY <3>1, <3>5, <3>6
  <2>4. data[R] # data[r]
    BY <1>2, <1>3, <1>4, <1>b, <1>c, <2>1, <2>2, <2>3 DEF ApartInv
  <2>5. PICK g \in held : HeldBy(R, g)
    BY <1>3, <1>4, <1>c, <2>1 DEF BackedInv
  <2>6. PICK h \in held : HeldBy(r, h)
    BY <1>4, <1>b, <2>1 DEF BackedInv
  <2>7. g[1] = data[R] /\ h[1] = data[r]
    BY <2>5, <2>6 DEF HeldBy
  <2>8. Clear(g, h) /\ g \in Sizes /\ h \in Sizes
    BY <2>4, <2>7 DEF ListInv
  <2>9. g[2] \in Nat /\ h[2] \in Nat /\ g[1] \in Nat /\ h[1] \in Nat /\ (g[1] + g[2] <= h[1] \/ h[1] + h[2] <= g[1])
    BY <2>8 DEF Clear, Sizes
  <2>10. graph[R].size <= g[2] /\ graph[r].size <= h[2]
    <3>1. aligned(graph[R].size) <= g[2] /\ aligned(graph[r].size) <= h[2]
      BY <2>5, <2>6 DEF HeldBy
    <3>2. /\ aligned(graph[R].size) \in Nat /\ graph[R].size <= aligned(graph[R].size)
          /\ aligned(graph[r].size) \in Nat /\ graph[r].size <= aligned(graph[r].size)
      BY <1>1, <1>2, Padded
    <3>3. \A a, b, c \in Nat : a <= b /\ b <= c => a <= c
      OBVIOUS
    <3> QED
      BY <1>1, <1>2, <2>9, <3>1, <3>2, <3>3
  <2>11. data[r] + graph[r].size <= data[ind] \/ data[ind] + graph[ind].size <= data[r]
    <3> DEFINE e == data[R]
               f == data[r]
               o == graph[ind].offs
               m == graph[ind].size
               n == graph[R].size
               q == graph[r].size
    <3>1. /\ e \in Nat /\ f \in Nat /\ o \in Nat /\ m \in Nat /\ n \in Nat /\ q \in Nat
          /\ g[2] \in Nat /\ h[2] \in Nat
          /\ e + g[2] <= f \/ f + h[2] <= e
          /\ n <= g[2] /\ q <= h[2] /\ o + m <= n /\ data[ind] = e + o
      BY <1>1, <1>2, <1>3, <2>7, <2>9, <2>10
    <3> HIDE DEF e, f, o, m, n, q
    <3>2. f + q <= data[ind] \/ data[ind] + m <= f
      BY <3>1
    <3> QED
      BY <3>2 DEF f, q, m
  <2> QED
    BY <2>11 DEF Spares
<1>5. \A s \in Roots : s \notin OwnRoots => /\ data[s] = Foreign(s) /\ op(s) = "WEIGHT"
                                            /\ data[s] + graph[s].size < 0
  <2>1. \A s \in Roots : s \notin OwnRoots => op(s) = "WEIGHT" /\ s \in Tensors
    BY RootFacts
  <2> QED
    BY <2>1, Foreigns DEF AddressInv, WeightInv
<1>6. \A s \in OwnRoots : Placed(s) => data[s] \in Nat
  BY DEF AddressInv, RootInv
<1>7. CASE R \notin OwnRoots /\ r \in OwnRoots
  <2>1. data[R] + graph[R].size < 0 /\ data[r] \in Nat
    BY <1>2, <1>5, <1>6, <1>7, <1>b
  <2>2. data[ind] + graph[ind].size <= data[r]
    BY <1>1, <1>2, <1>3, <2>1
  <2> QED
    BY <2>2 DEF Spares
<1>8. CASE R \in OwnRoots /\ r \notin OwnRoots
  <2>1. data[r] + graph[r].size < 0 /\ data[R] \in Nat
    BY <1>2, <1>3, <1>5, <1>6, <1>8
  <2>2. data[r] + graph[r].size <= data[ind]
    BY <1>1, <1>2, <1>3, <2>1
  <2> QED
    BY <2>2 DEF Spares
<1>9. CASE R \notin OwnRoots /\ r \notin OwnRoots
  <2>1. data[r] + graph[r].size <= data[R] \/ data[R] + graph[R].size <= data[r]
    BY <1>1, <1>2, <1>5, <1>9, Foreigns
  <2> DEFINE e == data[R]
             f == data[r]
             o == graph[ind].offs
             m == graph[ind].size
             n == graph[R].size
             q == graph[r].size
  <2>2. /\ e \in Int /\ f \in Int /\ o \in Nat /\ m \in Nat /\ n \in Nat /\ q \in Nat
        /\ f + q <= e \/ e + n <= f
        /\ o + m <= n /\ data[ind] = e + o
    BY <1>1, <1>2, <1>3, <2>1
  <2> HIDE DEF e, f, o, m, n, q
  <2>3. f + q <= data[ind] \/ data[ind] + m <= f
    BY <2>2
  <2> QED
    BY <2>3 DEF Spares, f, q, m
<1> QED
  BY <1>4, <1>7, <1>8, <1>9

\* The source an operation in place takes its memory from.
LEMMA ReusedSource ==
  ASSUME PlaceInv, NEW t \in Tensors, Reused(t) # None
  PROVE  op(t) \in can_inplace /\ \E i \in DOMAIN src(t) : Reused(t) = src(t)[i] /\ Reusable(t, src(t)[i])
<1> DEFINE c == {i \in DOMAIN src(t) : Reusable(t, src(t)[i])}
           j == CHOOSE i \in c : \A l \in c : i <= l
<1>1. op(t) \in can_inplace /\ c # {} /\ Reused(t) = src(t)[j]
  BY DEF Reused
<1>2. c \in SUBSET Nat
  BY GraphFacts
<1>3. \E i \in c : \A l \in c : i <= l
  <2> HIDE DEF c
  <2> QED
    BY <1>1, <1>2, LeastNumber
<1>4. j \in c
  <2> HIDE DEF c
  <2> QED
    BY <1>3
<1> QED
  BY <1>1, <1>4

\* What placing tensor x keeps, whichever way it is done.
LEMMA PlacingKeeps ==
  ASSUME PlaceInv, ShapeInv, RunInv, stage = "allocate", ind \in Nodes, ind' = ind,
         UNCHANGED <<plan, measuring>>, UNCHANGED cells,
         NEW x \in Tensors, data'[x] # Null, Placed(x) => data' = data,
         \A t \in Tensors : t # x => data'[t] = data[t],
         \/ k \in DOMAIN src(ind) /\ x = src(ind)[k] /\ k' = k + 1 /\ stage' = "allocate"
         \/ k \notin DOMAIN src(ind) /\ x = ind /\ k' = 1 /\ stage' = "update",
         PlaceInv', ShapeInv', ListInv', AddressInv', BackedInv', ApartInv'
  PROVE  PlacedInv' /\ HeldInv' /\ SpareInv' /\ ContentInv'
<1>s. /\ graph' = graph /\ Tensors' = Tensors /\ Nodes' = Nodes /\ OwnRoots' = OwnRoots /\ Roots' = Roots
  BY SameGraph
<1>i. ind \in Tensors /\ ind \in Nat /\ k \in Nat \ {0} /\ Nodes \in SUBSET Tensors /\ \A t \in Tensors : t \in Nat
  BY GraphFacts DEF PlaceInv
<1>1. HeldInv'
  BY DEF HeldInv
<1>2. \A t \in Tensors : Placed(t) => Placed(t)' /\ data'[t] = data[t]
  BY DEF Placed
<1>3. \A n \in Nodes : Past(n)' <=> Past(n) \/ (n = ind /\ stage' = "update")
  BY DEF Past
<1>4. /\ \A t \in Tensors : op(t) = "INPUT" => Placed(t)
      /\ \A n \in Nodes : Past(n) => Placed(n)
      /\ \A n \in Nodes : graph[n].view = None /\ Placed(n) => Past(n)
      /\ \A j \in DOMAIN src(ind) : j < k => Placed(src(ind)[j])
  BY DEF RunInv, PlacedInv
<1>5. PlacedInv'
  <2>1. \A t \in Tensors : op(t) = "INPUT" => Placed(t)'
    BY <1>2, <1>4
  <2>2. \A n \in Nodes : Past(n)' => Placed(n)'
    BY <1>2, <1>3, <1>4, <1>i DEF Placed
  <2>3. ASSUME NEW n \in Nodes, graph[n].view = None, Placed(n)'
        PROVE  Past(n)'
    <3>1. CASE Placed(n)
      BY <1>3, <1>4, <2>3, <3>1
    <3>2. CASE ~Placed(n)
      <4>1. n = x
        BY <1>i, <2>3, <3>2 DEF Placed
      <4>2. CASE stage' = "update"
        BY <1>3, <4>1, <4>2
      <4>3. CASE stage' = "allocate"
        <5>1. n < ind
          BY <1>i, <4>1, <4>3, GraphFacts
        <5> QED
          BY <1>3, <5>1 DEF Past
      <4> QED
        BY <4>2, <4>3
    <3> QED
      BY <3>1, <3>2
  <2>4. stage' = "allocate" => \A j \in DOMAIN src(ind) : j < k' => data'[src(ind)[j]] # -1
    <3> SUFFICES ASSUME stage' = "allocate", NEW j \in DOMAIN src(ind), j < k + 1
                 PROVE  data'[src(ind)[j]] # -1
      OBVIOUS
    <3>1. j \in Nat /\ src(ind)[j] \in Tensors
      BY <1>i, GraphFacts
    <3>2. CASE j = k
      BY <3>2
    <3>3. CASE j # k
      <4>1. j < k
        BY <1>i, <3>1, <3>3
      <4> QED
        BY <1>2, <1>4, <3>1, <4>1 DEF Placed
    <3> QED
      BY <3>2, <3>3
  <2>5. stage' = "update" => \A j \in DOMAIN src(ind) : data'[src(ind)[j]] # -1
    <3> SUFFICES ASSUME stage' = "update", NEW j \in DOMAIN src(ind)
                 PROVE  data'[src(ind)[j]] # -1
      OBVIOUS
    <3>1. j \in Nat /\ src(ind)[j] \in Tensors /\ j < k
      <4>1. DOMAIN src(ind) = 1 .. Len(src(ind)) /\ Len(src(ind)) \in Nat /\ k \notin DOMAIN src(ind)
        BY <1>i, GraphFacts
      <4> QED
        BY <1>i, <4>1, GraphFacts
    <3> QED
      BY <1>2, <1>4, <3>1 DEF Placed
  <2> QED
    BY <1>s, <2>1, <2>2, <2>3, <2>4, <2>5 DEF PlacedInv, Placed, op, src
<1>6. SpareInv'
  <2>1. ASSUME NEW m \in Nodes, Past(m)
        PROVE  SparesAll(m)'
    <3>1. SparesAll(m)
      BY <2>1 DEF RunInv, SpareInv
    <3>2. data'[m] = data[m] /\ m < ind /\ m \in Tensors
      BY <1>2, <1>4, <1>i, <2>1 DEF Past
    <3>3. ASSUME NEW r \in Roots, Filled(r, m)
          PROVE  data'[r] = data[r]
      <4>1. r \in Tensors
        BY RootFacts
      <4>2. Placed(r)
        <5>1. CASE op(r) = "INPUT"
          BY <1>4, <4>1, <5>1
        <5>2. CASE op(r) = "WEIGHT"
          <6>1. data[r] = Foreign(r)
            BY <4>1, <5>2 DEF RunInv, AddressInv, WeightInv
          <6>2. Foreign(r) \in Int /\ Foreign(r) + graph[r].size < 0 /\ graph[r].size \in Nat \ {0}
            BY <4>1, <5>2, Foreigns, GraphFacts
          <6>3. \A a \in Int, b \in Nat \ {0} : a + b < 0 => a # -1
            OBVIOUS
          <6>4. Foreign(r) # -1
            BY <6>2, <6>3
          <6> QED
            BY <6>1, <6>4 DEF Placed
        <5>3. CASE \E n \in Nodes : n < m /\ RootOf(n) = r
          <6>1. PICK n \in Nodes : n < m /\ RootOf(n) = r
            BY <5>3
          <6>2. n < ind /\ n \in Tensors
            BY <1>i, <3>2, <6>1
          <6>3. Placed(n)
            BY <1>4, <6>2 DEF Past
          <6> QED
            BY <6>1, <6>2, <6>3, LiesInRoot DEF RunInv
        <5> QED
          BY <3>3, <5>1, <5>2, <5>3 DEF Filled
      <4> QED
        BY <1>2, <4>1, <4>2
    <3>4. \A r \in Roots : r # RootOf(m) /\ Filled(r, m) /\ NeededFrom(r, m + 1) => Spares(m, r)
      BY <3>1 DEF SparesAll
    <3>5. \A r \in Roots : Filled(r, m) => (Spares(m, r)' <=> Spares(m, r))
      BY <1>s, <3>2, <3>3 DEF Spares
    <3>6. \A r : (Filled(r, m)' <=> Filled(r, m)) /\ (NeededFrom(r, m + 1)' <=> NeededFrom(r, m + 1))
      <4>1. PICK l : l = m + 1
        OBVIOUS
      <4>2. \A r : (Filled(r, m)' <=> Filled(r, m)) /\ (NeededFrom(r, l)' <=> NeededFrom(r, l))
        BY SameGraph
      <4> QED
        BY <4>1, <4>2
    <3>7. RootOf(m)' = RootOf(m)
      BY SameGraph
    <3> QED
      BY <1>s, <3>4, <3>5, <3>6, <3>7 DEF SparesAll
  <2>2. CASE stage' = "update"
    <3>1. (PlaceInv /\ ShapeInv /\ ListInv /\ AddressInv /\ PlacedInv /\ HeldInv /\ stage = "update" /\ k = 1
             => SparesAll(ind))'
      BY NewSpare, PTL
    <3>2. k' = 1
      BY <2>2
    <3>3. SparesAll(ind)'
      BY <1>1, <1>5, <2>2, <3>1, <3>2
    <3>4. ASSUME NEW m \in Nodes, Past(m)'
          PROVE  SparesAll(m)'
      <4>1. CASE m = ind
        <5>1. m = ind'
          BY <4>1
        <5>2. SparesAll(ind)' <=> SparesAll(m)'
          BY <5>1 DEF SparesAll, Spares, Filled, NeededFrom
        <5> QED
          BY <3>3, <5>2
      <4>2. CASE m # ind
        BY <1>3, <2>1, <3>4, <4>2
      <4> QED
        BY <4>1, <4>2
    <3> QED
      BY <1>s, <3>4 DEF SpareInv
  <2>3. CASE stage' = "allocate"
    <3>1. \A m \in Nodes : Past(m)' => SparesAll(m)'
      BY <1>3, <2>1, <2>3
    <3> QED
      BY <1>s, <3>1 DEF SpareInv
  <2> QED
    BY <2>2, <2>3
<1>7. ContentInv'
  <2>1. \A r \in Roots : Placed(r) => data'[r] = data[r]
    BY <1>2, RootFacts
  <2> QED
    BY <2>1, ContentKept DEF RunInv
<1> QED
  BY <1>1, <1>5, <1>6, <1>7

\* Node ind places tensor x, one of its sources or itself.
Placing(x) ==
    /\ stage = "allocate" /\ ind \in Nodes /\ ind' = ind
    /\ \/ k \in DOMAIN src(ind) /\ x = src(ind)[k] /\ k' = k + 1 /\ stage' = "allocate"
       \/ k \notin DOMAIN src(ind) /\ x = ind /\ k' = 1 /\ stage' = "update"
    /\ allocate_node(x)
    /\ UNCHANGED <<plan, measuring>> /\ UNCHANGED size /\ UNCHANGED n_children /\ UNCHANGED cells

\* What is ahead stays ahead; what is not placed yet is a leaf, or node ind.
LEMMA PlacingFacts ==
  ASSUME PlaceInv, ShapeInv, RunInv, NEW x, Placing(x)
  PROVE  /\ x \in Tensors
         /\ \A t : \A c \in Readings(t) : Ahead(c)' <=> Ahead(c)
         /\ failed' \in BOOLEAN => PlaceInv'
         /\ x = ind => k \notin DOMAIN src(ind)
         /\ ~Placed(x) => \/ x = ind /\ graph[x].view # None
                          \/ x \in OwnRoots /\ view_src[x] = None /\ (Reused(x) # None => x = ind)
<1>0. /\ stage = "allocate" /\ ind \in Nodes /\ ind' = ind /\ UNCHANGED <<plan, measuring>>
      /\ \/ k \in DOMAIN src(ind) /\ x = src(ind)[k] /\ k' = k + 1 /\ stage' = "allocate"
         \/ k \notin DOMAIN src(ind) /\ x = ind /\ k' = 1 /\ stage' = "update"
  BY DEF Placing
<1>i. ind \in Tensors /\ ind \in Nat \ {0} /\ k \in Nat \ {0}
  BY <1>0, GraphFacts DEF PlaceInv
<1>1. x \in Tensors /\ x \in Nat /\ (x # ind => x < ind) /\ (x = ind => k \notin DOMAIN src(ind))
  BY <1>0, <1>i, GraphFacts
<1>2. ASSUME NEW t, NEW c \in Readings(t)
      PROVE  Ahead(c)' <=> Ahead(c)
  <2>1. c[2] \in Nat \ {0}
    <3>1. PICK n \in Nodes : \E i \in DOMAIN src(n) : c = <<n, i>>
      BY ReadingFacts
    <3>2. PICK i \in DOMAIN src(n) : c = <<n, i>>
      BY <3>1
    <3>3. DOMAIN src(n) = 1 .. Len(src(n)) /\ Len(src(n)) \in Nat
      BY GraphFacts
    <3> QED
      BY <3>2, <3>3
  <2>2. Ahead(c) <=> c[1] > ind \/ c[1] = ind
    BY <1>0 DEF Ahead
  <2>3. CASE stage' = "allocate"
    BY <1>0, <2>2, <2>3 DEF Ahead
  <2>4. CASE stage' = "update" /\ k' = 1
    <3>1. c[2] >= 1
      BY <2>1
    <3> QED
      BY <1>0, <2>2, <2>4, <3>1 DEF Ahead
  <2> QED
    BY <1>0, <2>3, <2>4
<1>3. ASSUME failed' \in BOOLEAN
      PROVE  PlaceInv'
  <2>1. graph' = graph /\ Nodes' = Nodes
    BY <1>0, SameGraph
  <2>2. k' \in Nat \ {0} /\ stage' \in {"allocate", "update"}
    BY <1>0, <1>i
  <2>3. stage' \in Stages
    BY <2>2 DEF Stages
  <2>4. plan' \in Plans /\ measuring' \in BOOLEAN
    BY <1>0 DEF PlaceInv
  <2> QED
    BY <1>0, <1>3, <1>i, <2>1, <2>2, <2>3, <2>4 DEF PlaceInv
<1>4. ASSUME ~Placed(x)
      PROVE  \/ x = ind /\ graph[x].view # None
             \/ x \in OwnRoots /\ view_src[x] = None /\ (Reused(x) # None => x = ind)
  <2>1. op(x) # "WEIGHT"
    <3> SUFFICES ASSUME op(x) = "WEIGHT"
                 PROVE  FALSE
      OBVIOUS
    <3>1. data[x] = Foreign(x)
      BY <1>1 DEF RunInv, AddressInv, WeightInv
    <3>2. Foreign(x) \in Int /\ Foreign(x) + graph[x].size < 0 /\ graph[x].size \in Nat \ {0}
      BY <1>1, Foreigns, GraphFacts
    <3>3. \A a \in Int, b \in Nat \ {0} : a + b < 0 => a # -1
      OBVIOUS
    <3>4. Foreign(x) # -1
      BY <3>2, <3>3
    <3> QED
      BY <1>4, <3>1, <3>4 DEF Placed
  <2>2. graph[x].view = None => x \in OwnRoots /\ view_src[x] = None
    <3> SUFFICES ASSUME graph[x].view = None
                 PROVE  x \in OwnRoots /\ view_src[x] = None
      OBVIOUS
    <3>1. x \in OwnRoots
      BY <1>1, <2>1 DEF OwnRoots, Roots
    <3> QED
      BY <1>4, <3>1 DEF RunInv, AddressInv, RootInv
  <2>3. CASE x = ind
    BY <2>2, <2>3
  <2>4. CASE x # ind
    <3>1. x \notin Nodes
      BY <1>0, <1>1, <1>4, <2>4 DEF RunInv, PlacedInv, Past
    <3>2. op(x) # "INPUT"
      BY <1>0, <1>1, <1>4 DEF RunInv, PlacedInv
    <3>3. op(x) = "LEAF" /\ graph[x].view = None
      BY <1>1, <2>1, <3>1, <3>2, GraphFacts DEF Nodes, IsNode
    <3>4. Reused(x) = None
      BY <3>3 DEF Reused, can_inplace
    <3> QED
      BY <2>2, <3>3, <3>4
  <2> QED
    BY <2>3, <2>4
<1> QED
  BY <1>1, <1>2, <1>3, <1>4

\* Placing that hands out nothing, takes nothing over, and moves no root.
LEMMA SameRoots ==
  ASSUME PlaceInv, RunInv, stage = "allocate", UNCHANGED <<plan, measuring>>,
         \A t : \A c \in Readings(t) : Ahead(c)' <=> Ahead(c),
         view_src' = view_src, n_views' = n_views, n_children' = n_children, held' = held,
         \A r \in OwnRoots : data'[r] = data[r]
  PROVE  BackedInv' /\ ApartInv' /\ CountInv'
<1>s. /\ graph' = graph /\ Tensors' = Tensors /\ Nodes' = Nodes /\ OwnRoots' = OwnRoots
      /\ \A t : Pending(t)' = Pending(t)
      /\ \A t : Waiting(t)' <=> Waiting(t)
      /\ \A r : Active(r)' <=> Active(r)
  BY SameGraph, SamePending
<1>1. BackedInv /\ ApartInv /\ CountInv
  BY DEF RunInv, HeldInv
<1>2. BackedInv'
  BY <1>1, <1>s DEF BackedInv, HeldBy, Placed
<1>3. ApartInv'
  <2>1. \A r, s : ~Taken(r, s)
    BY DEF Taken
  <2>2. \A r, s \in OwnRoots : r # s /\ Placed(r) /\ Placed(s) /\ Active(r) /\ Active(s) => data[r] # data[s]
    BY <1>1, <2>1 DEF ApartInv
  <2> QED
    BY <1>s, <2>2 DEF ApartInv, Placed
<1>4. CountInv'
  <2>1. \A v : InUse(v)' = InUse(v)
    BY <1>s DEF InUse
  <2>2. \A t \in Tensors : /\ n_children[t] = Cardinality(Pending(t))
                           /\ n_views[t] >= Cardinality(InUse(t))
    BY <1>1 DEF CountInv
  <2> QED
    BY <1>s, <2>1, <2>2 DEF CountInv
<1> QED
  BY <1>2, <1>3, <1>4

\* A view is placed in its root, which one of its sources lies in.
LEMMA ViewPlaced ==
  ASSUME PlaceInv, ShapeInv, ListInv, RunInv, NEW x, Placing(x), ~Placed(x), x = ind, graph[x].view # None
  PROVE  /\ ShapeInv' /\ ListInv' /\ AddressInv' /\ BackedInv' /\ ApartInv' /\ CountInv'
         /\ failed' = failed /\ data'[x] # Null /\ \A t \in Tensors : t # x => data'[t] = data[t]
<1>0. /\ stage = "allocate" /\ ind \in Nodes /\ ind' = ind
      /\ UNCHANGED <<plan, measuring>> /\ size' = size /\ n_children' = n_children
      /\ allocate_node(x)
  BY DEF Placing
<1>1. x \in Tensors /\ x \in Nodes /\ k \notin DOMAIN src(x) /\ \A t : \A c \in Readings(t) : Ahead(c)' <=> Ahead(c)
  BY <1>0, PlacingFacts
<1>2. /\ data \in [Tensors -> Int] /\ buffer \in [Tensors -> Buffers]
      /\ view_src \in [Tensors -> Tensors \cup {None}]
      /\ n_children \in [Tensors -> Nat] /\ n_views \in [Tensors -> Nat]
  BY <1>0 DEF ShapeInv
<1>3. PICK v \in Roots : v = graph[x].view /\ RootOf(x) = v /\ v # None /\ v # x /\ v \in Tensors
  BY <1>1, RootFacts, GraphFacts
<1>4. view_src[x] = v
  BY <1>1, <1>3 DEF RunInv, AddressInv, ViewInv
<1>5. /\ data' = [data EXCEPT ![x] = data[v] + graph[x].offs]
      /\ buffer' = [buffer EXCEPT ![x] = "own"]
      /\ failed' = failed /\ free_blocks' = free_blocks /\ max_size' = max_size /\ held' = held
      /\ view_src' = view_src /\ n_views' = n_views
  BY <1>0, <1>3, <1>4 DEF allocate_node, init_view, Placed, space
<1>6. Placed(v)
  <2>1. PICK i \in DOMAIN src(x) : RootOf(src(x)[i]) = v
    BY <1>1, <1>3, ViewReads
  <2>2. i < k
    <3>1. DOMAIN src(x) = 1 .. Len(src(x)) /\ Len(src(x)) \in Nat /\ k \in Nat \ {0}
      BY <1>1, GraphFacts DEF PlaceInv
    <3> QED
      BY <1>1, <3>1
  <2>3. PICK u \in Tensors : u = src(x)[i]
    BY <1>1, GraphFacts
  <2>4. Placed(u)
    BY <1>0, <2>2, <2>3 DEF RunInv, PlacedInv
  <2>5. Placed(RootOf(u))
    BY <1>0, <2>4, LiesInRoot DEF RunInv
  <2> QED
    BY <2>1, <2>3, <2>5
<1>7. data[v] \in Int /\ data[v] + graph[x].offs \in Int /\ data[v] + graph[x].offs # -1
  <2> DEFINE e == data[v]
             o == graph[x].offs
             m == graph[x].size
             n == graph[v].size
  <2>1. e \in Int /\ o \in Nat /\ m \in Nat \ {0} /\ n \in Nat /\ o + m <= n
    BY <1>1, <1>2, <1>3, GraphFacts, RootFacts
  <2>2. e \in Nat \/ e + n < 0
    <3>1. CASE v \in OwnRoots
      BY <1>6, <3>1 DEF RunInv, AddressInv, RootInv
    <3>2. CASE v \notin OwnRoots
      <4>1. op(v) = "WEIGHT"
        BY <1>3, <3>2, RootFacts
      <4> QED
        BY <1>3, <4>1, Foreigns DEF RunInv, AddressInv, WeightInv
    <3> QED
      BY <3>1, <3>2
  <2> HIDE DEF e, o, m, n
  <2>3. e + o \in Int /\ e + o # -1
    BY <2>1, <2>2
  <2> QED
    BY <2>1, <2>3 DEF e, o
<1>8. data'[x] = data[v] + graph[x].offs /\ \A t \in Tensors : t # x => data'[t] = data[t] /\ buffer'[t] = buffer[t]
  BY <1>1, <1>2, <1>5
<1>s. graph' = graph /\ Tensors' = Tensors /\ Nodes' = Nodes /\ OwnRoots' = OwnRoots
  BY <1>0, SameGraph
<1>9. ShapeInv'
  <2>1. data' \in [Tensors -> Int] /\ buffer' \in [Tensors -> Buffers]
    BY <1>1, <1>2, <1>5, <1>7 DEF Buffers
  <2> QED
    BY <1>0, <1>2, <1>5, <1>s, <2>1 DEF ShapeInv
<1>10. ListInv'
  BY <1>0, <1>5 DEF ListInv
<1>11. \A r \in Roots : r # x /\ r \in Tensors
  BY RootFacts
<1>12. \A r \in OwnRoots : r \in Roots /\ data'[r] = data[r]
  BY <1>8, <1>11, RootFacts
<1>13. BackedInv' /\ ApartInv' /\ CountInv'
  BY <1>0, <1>1, <1>5, <1>12, SameRoots
<1>14. AddressInv'
  <2>1. WeightInv'
    <3>1. \A t \in Tensors : op(t) = "WEIGHT" => t # x
      BY <1>1, Foreigns
    <3> QED
      BY <1>5, <1>8, <1>s, <3>1 DEF RunInv, AddressInv, WeightInv, op, Foreign
  <2>2. ViewInv'
    <3>1. ASSUME NEW t \in Tensors, NEW w \in Roots, graph[t].view = w, w # None
          PROVE  view_src[t] = w /\ (data'[t] # -1 => data'[w] # -1 /\ data'[t] = data'[w] + graph[t].offs)
      <4>1. view_src[t] = w /\ (data[t] # -1 => data[w] # -1 /\ data[t] = data[w] + graph[t].offs)
        BY <3>1 DEF RunInv, AddressInv, ViewInv, Placed
      <4>2. data'[w] = data[w]
        BY <1>8, <1>11
      <4>3. CASE t = x
        BY <1>3, <1>6, <1>8, <3>1, <4>1, <4>2, <4>3 DEF Placed
      <4>4. CASE t # x
        BY <1>8, <4>1, <4>2, <4>4
      <4> QED
        BY <4>3, <4>4
    <3>2. \A t \in Tensors : graph[t].view # None => graph[t].view \in Roots
      BY RootFacts
    <3>3. \A t \in Tensors : graph[t].view # None =>
             /\ view_src[t] = graph[t].view
             /\ data'[t] # -1 => data'[graph[t].view] # -1 /\ data'[t] = data'[graph[t].view] + graph[t].offs
      BY <3>1, <3>2
    <3> QED
      BY <1>5, <1>s, <3>3 DEF ViewInv, Placed
  <2>3. RootInv'
    BY <1>5, <1>12, <1>s DEF RunInv, AddressInv, RootInv, Placed
  <2> QED
    BY <2>1, <2>2, <2>3 DEF AddressInv
<1> QED
  BY <1>5, <1>7, <1>8, <1>9, <1>10, <1>13, <1>14

\* A node that takes over the memory of a source: the last reading of a family
\* that has memory enough, so that node and family may share it until then.
LEMMA TakenOver ==
  ASSUME PlaceInv, ShapeInv, ListInv, RunInv, NEW x, Placing(x), ~Placed(x), x = ind,
         x \in OwnRoots, view_src[x] = None, Reused(x) # None
  PROVE  /\ ShapeInv' /\ ListInv' /\ AddressInv' /\ BackedInv' /\ ApartInv' /\ CountInv'
         /\ failed' = failed /\ data'[x] # Null /\ \A t \in Tensors : t # x => data'[t] = data[t]
<1>0. /\ stage = "allocate" /\ ind \in Nodes /\ ind' = ind
      /\ UNCHANGED <<plan, measuring>> /\ size' = size /\ n_children' = n_children
      /\ allocate_node(x)
  BY DEF Placing
<1>1. x \in Tensors /\ x \in Nodes /\ \A t : \A c \in Readings(t) : Ahead(c)' <=> Ahead(c)
  BY <1>0, PlacingFacts
<1>u. stage' = "update" /\ k' = 1
  BY PlacingFacts DEF Placing
<1>2. /\ data \in [Tensors -> Int] /\ buffer \in [Tensors -> Buffers]
      /\ view_src \in [Tensors -> Tensors \cup {None}]
      /\ n_children \in [Tensors -> Nat] /\ n_views \in [Tensors -> Nat]
  BY <1>0 DEF ShapeInv
<1>3. PICK i \in DOMAIN src(x) : Reused(x) = src(x)[i] /\ Reusable(x, src(x)[i])
  BY <1>1, ReusedSource
<1>4. PICK p \in Tensors : p = src(x)[i] /\ p < x /\ p # x /\ p \in Nat /\ x \in Nat
  BY <1>1, <1>3, GraphFacts
<1>5. PICK v : v = IF view_src[p] = None THEN p ELSE view_src[p]
  OBVIOUS
<1>6. /\ buffer[v] = "own" /\ Placed(p)
      /\ n_children[p] = 1 /\ n_views[p] = 0
      /\ graph[x].layout = graph[p].layout
      /\ view_src[p] # None => n_views[view_src[p]] = 1 /\ n_children[view_src[p]] = 0
                               /\ data[view_src[p]] = data[p]
  BY <1>3, <1>4, <1>5 DEF Reusable, is_own, Placed
<1>7. PICK S \in OwnRoots : /\ S = RootOf(p) /\ Placed(S)
                            /\ view_src[p] = None => S = p
                            /\ view_src[p] # None => /\ view_src[p] \in OwnRoots
                                                     /\ data[view_src[p]] = data[S]
                                                     /\ view_src[p] = S \/ (S = p /\ view_src[S] = view_src[p])
  BY <1>0, <1>5, <1>6, SamePlace DEF RunInv
<1>8. /\ v \in OwnRoots /\ v \in Tensors /\ v # None /\ S \in Tensors /\ data[v] = data[S] /\ data[S] \in Nat
      /\ v = S \/ (S = p /\ view_src[S] = v /\ view_src[S] # None)
  <2>1. v \in OwnRoots /\ data[v] = data[S]
    BY <1>5, <1>7
  <2>2. v \in Tensors /\ S \in Tensors /\ v # None
    BY <2>1, RootFacts, GraphFacts
  <2>3. data[S] \in Nat
    BY <1>7 DEF RunInv, AddressInv, RootInv
  <2> QED
    BY <1>5, <1>7, <2>1, <2>2, <2>3
<1>9. S # x /\ v # x
  <2>1. RootOf(p) <= p /\ S \in Nat
    BY <1>4, <1>8, RootFacts, GraphFacts
  <2>2. S # x
    BY <1>4, <1>7, <2>1
  <2>3. data[v] # -1
    BY <1>7, <1>8 DEF Placed
  <2> QED
    BY <2>2, <2>3 DEF Placed
<1>10. /\ \A u \in Family(S) : ~Unread(u) /\ Pending(u) \subseteq {<<x, i>>}
       /\ <<x, i>> \in Pending(p) /\ p \in Family(S)
  <2>1. Ahead(<<x, i>>)
    BY <1>0 DEF Ahead
  <2>2. \A u \in Family(RootOf(p)) : ~Unread(u) /\ Pending(u) \subseteq {<<x, i>>}
    BY <1>0, <1>1, <1>3, <1>4, <1>6, <2>1, LastReading
  <2>3. <<x, i>> \in Readings(p)
    BY <1>1, <1>3, <1>4, ReadingFacts
  <2> QED
    BY <1>7, <2>1, <2>2, <2>3, RootFacts DEF Pending
<1>11. Active(S)
  BY <1>10 DEF Active, Waiting
<1>12. x \in Roots /\ graph[x].view = None /\ graph[x].offs = 0
  BY RootFacts
<1>13. /\ data' = [data EXCEPT ![x] = data[v] + graph[x].offs]
       /\ buffer' = [buffer EXCEPT ![x] = "own"]
       /\ view_src' = [view_src EXCEPT ![x] = v]
       /\ n_views' = [n_views EXCEPT ![v] = @ + 1]
       /\ failed' = failed /\ free_blocks' = free_blocks /\ max_size' = max_size /\ held' = held
  <2>1. Reused(x) = p
    BY <1>3, <1>4
  <2>2. \/ view_src[p] = None /\ v = p
        \/ view_src[p] # None /\ v = view_src[p]
    BY <1>5
  <2>3. /\ view_src' = [view_src EXCEPT ![x] = v]
        /\ n_views' = [n_views EXCEPT ![v] = @ + 1]
        /\ init_view(x, v)
    BY <1>0, <2>1, <2>2 DEF allocate_node, Placed
  <2> QED
    BY <2>3 DEF init_view, space
<1>14. /\ data'[x] = data[S] /\ view_src'[x] = v /\ n_views'[v] = n_views[v] + 1
       /\ \A t \in Tensors : t # x => data'[t] = data[t] /\ buffer'[t] = buffer[t] /\ view_src'[t] = view_src[t]
       /\ \A t \in Tensors : t # v => n_views'[t] = n_views[t]
  <2>1. data'[x] = data[v] + 0
    BY <1>1, <1>2, <1>12, <1>13
  <2>2. data'[x] = data[S]
    BY <1>8, <2>1
  <2> QED
    BY <1>1, <1>2, <1>8, <1>13, <2>2
<1>15. data'[x] \in Nat /\ data'[x] # -1
  BY <1>8, <1>14
<1>s. /\ graph' = graph /\ Tensors' = Tensors /\ Nodes' = Nodes /\ OwnRoots' = OwnRoots
      /\ \A t : RootOf(t)' = RootOf(t)
      /\ \A t : Unread(t)' = Unread(t)
      /\ \A t : Family(t)' = Family(t)
      /\ \A t : Pending(t)' = Pending(t)
      /\ \A t : Waiting(t)' <=> Waiting(t)
      /\ \A r : Active(r)' <=> Active(r)
  BY <1>0, <1>1, SameGraph, SamePending
<1>16. ShapeInv'
  <2>1. data' \in [Tensors -> Int] /\ buffer' \in [Tensors -> Buffers]
    <3>1. data[v] + graph[x].offs \in Int
      BY <1>8, <1>12
    <3> QED
      BY <1>1, <1>2, <1>13, <3>1 DEF Buffers
  <2>2. view_src' \in [Tensors -> Tensors \cup {None}]
    BY <1>2, <1>8, <1>13
  <2>3. n_views' \in [Tensors -> Nat]
    <3>1. n_views[v] + 1 \in Nat
      BY <1>2, <1>8
    <3> QED
      BY <1>2, <1>13, <3>1
  <2> QED
    BY <1>0, <1>2, <1>s, <2>1, <2>2, <2>3 DEF ShapeInv
<1>17. ListInv'
  BY <1>0, <1>13 DEF ListInv
<1>18. AddressInv'
  <2>1. WeightInv'
    <3>1. \A t \in Tensors : op(t) = "WEIGHT" => t # x
      BY <1>1, Foreigns
    <3> QED
      BY <1>14, <1>s, <3>1 DEF RunInv, AddressInv, WeightInv, op, Foreign
  <2>2. ViewInv'
    <3>1. ASSUME NEW t \in Tensors, NEW w \in Tensors, graph[t].view = w, w # None
          PROVE  view_src'[t] = w /\ (data'[t] # -1 => data'[w] # -1 /\ data'[t] = data'[w] + graph[t].offs)
      <4>1. view_src[t] = w /\ (data[t] # -1 => data[w] # -1 /\ data[t] = data[w] + graph[t].offs)
        BY <3>1 DEF RunInv, AddressInv, ViewInv, Placed
      <4>2. t # x
        BY <1>12, <3>1
      <4>3. data[w] # -1 => w # x
        BY DEF Placed
      <4> QED
        BY <1>14, <4>1, <4>2, <4>3
    <3>2. \A t \in Tensors : graph[t].view # None => graph[t].view \in Tensors
      BY RootFacts
    <3>3. \A t \in Tensors : graph[t].view # None =>
             /\ view_src'[t] = graph[t].view
             /\ data'[t] # -1 => data'[graph[t].view] # -1 /\ data'[t] = data'[graph[t].view] + graph[t].offs
      BY <3>1, <3>2
    <3> QED
      BY <1>s, <3>3 DEF ViewInv, Placed
  <2>3. RootInv'
    <3> SUFFICES ASSUME NEW r \in OwnRoots
                 PROVE  /\ data'[r] # -1 => data'[r] \in Nat
                        /\ view_src'[r] # None => /\ r \in Nodes /\ data'[r] # -1
                                                  /\ view_src'[r] \in OwnRoots /\ data'[view_src'[r]] = data'[r]
      BY <1>s DEF RootInv, Placed
    <3>1. CASE r = x
      BY <1>1, <1>8, <1>9, <1>14, <1>15, <3>1
    <3>2. CASE r # x
      <4>1. /\ data[r] # -1 => data[r] \in Nat
            /\ view_src[r] # None => /\ r \in Nodes /\ data[r] # -1
                                     /\ view_src[r] \in OwnRoots /\ data[view_src[r]] = data[r]
        BY DEF RunInv, AddressInv, RootInv, Placed
      <4>2. r \in Tensors /\ \A t \in OwnRoots : t \in Tensors
        BY RootFacts
      <4>3. view_src[r] # None => view_src[r] # x
        BY <4>1 DEF Placed
      <4>4. data'[r] = data[r] /\ view_src'[r] = view_src[r]
        BY <1>14, <3>2, <4>2
      <4>5. view_src[r] # None => data'[view_src[r]] = data[view_src[r]]
        BY <1>14, <4>1, <4>2, <4>3
      <4> QED
        BY <4>1, <4>4, <4>5
    <3> QED
      BY <3>1, <3>2
  <2> QED
    BY <2>1, <2>2, <2>3 DEF AddressInv
<1>o. BackedInv /\ ApartInv
  BY <1>0 DEF RunInv, HeldInv
<1>19. BackedInv'
  <2> SUFFICES ASSUME NEW r \in OwnRoots, Placed(r)', Active(r)'
               PROVE  \E h \in held : HeldBy(r, h)'
    BY <1>13, <1>s DEF BackedInv
  <2>1. CASE r = x
    <3>1. PICK h \in held : HeldBy(S, h)
      BY <1>7, <1>11, <1>o DEF BackedInv
    <3>2. h[1] = data'[x] /\ aligned(graph[S].size) <= h[2] /\ aligned(graph[v].size) <= h[2]
      BY <1>8, <1>14, <3>1 DEF HeldBy
    <3>3. aligned(graph[x].size) <= h[2]
      <4>1. graph[x].size = graph[p].size
        BY <1>1, <1>6, GraphFacts DEF WellFormed, Tensors
      <4>2. graph[p].size \in Nat /\ graph[p].offs \in Nat /\ graph[S].size \in Nat
            /\ graph[p].offs + graph[p].size <= graph[S].size
        BY <1>7, <1>8, GraphFacts, RootFacts
      <4>3. graph[p].size <= graph[S].size
        BY <4>2
      <4>4. aligned(graph[p].size) <= aligned(graph[S].size)
        BY <4>2, <4>3, AlignedInOrder
      <4>5. aligned(graph[p].size) \in Nat /\ aligned(graph[S].size) \in Nat /\ h[2] \in Nat
        BY <1>8, Padded DEF ListInv, Sizes
      <4> QED
        BY <3>2, <4>1, <4>4, <4>5
    <3>4. HeldBy(x, h)'
      BY <1>14, <1>s, <3>2, <3>3 DEF HeldBy, aligned
    <3> QED
      BY <2>1, <3>4
  <2>2. CASE r # x
    <3>1. data'[r] = data[r] /\ view_src'[r] = view_src[r] /\ Placed(r) /\ Active(r)
      <4>1. r \in Tensors
        BY RootFacts
      <4> QED
        BY <1>14, <1>s, <2>2, <4>1 DEF Placed
    <3>2. PICK h \in held : HeldBy(r, h)
      BY <1>o, <3>1 DEF BackedInv
    <3>3. HeldBy(r, h)'
      BY <1>s, <3>1, <3>2 DEF HeldBy
    <3> QED
      BY <3>3
  <2> QED
    BY <2>1, <2>2
<1>20. ApartInv'
  <2>0. \A r, s \in OwnRoots : r # s /\ Placed(r) /\ Placed(s) /\ Active(r) /\ Active(s) => data[r] # data[s]
    <3>1. \A r, s : ~Taken(r, s)
      BY <1>0 DEF Taken
    <3> QED
      BY <1>o, <3>1 DEF ApartInv
  <2>1. Taken(x, S)'
    <3>1. src(x)' = src(x)
      BY <1>s DEF src
    <3>2. view_src'[x] = IF view_src'[p] = None THEN p ELSE view_src'[p]
      BY <1>4, <1>5, <1>14
    <3>3. i >= 1 /\ RootOf(p)' = S
      <4>1. i \in Nat \ {0}
        BY <1>1, <1>3, GraphFacts
      <4> QED
        BY <1>7, <1>s, <4>1
    <3>4. \A u \in Family(S)' : ~Unread(u)' /\ Pending(u)' \subseteq {<<x, i>>}
      BY <1>10, <1>s
    <3>5. stage' = "update" /\ x = ind' /\ graph'[x].view = None /\ i >= k' /\ i \in DOMAIN src(x)'
      BY <1>0, <1>12, <1>3, <1>s, <1>u, <3>1, <3>3
    <3>6. src(x)'[i] = p
      BY <1>4, <3>1
    <3> QED
      BY <3>2, <3>3, <3>4, <3>5, <3>6 DEF Taken
  <2>2. ASSUME NEW r \in OwnRoots, r # x, Placed(r)', Active(r)'
        PROVE  Placed(r) /\ Active(r) /\ data'[r] = data[r]
    <3>1. r \in Tensors
      BY RootFacts
    <3> QED
      BY <1>14, <1>s, <2>2, <3>1 DEF Placed
  <2>3. ASSUME NEW r \in OwnRoots, r # x, Placed(r)', Active(r)'
        PROVE  data'[x] # data'[r] \/ Taken(x, r)'
    <3>1. CASE r = S
      BY <2>1, <3>1
    <3>2. CASE r # S
      BY <1>7, <1>11, <1>14, <2>0, <2>2, <2>3, <3>2
    <3> QED
      BY <3>1, <3>2
  <2> SUFFICES ASSUME NEW r \in OwnRoots, NEW s \in OwnRoots, r # s, Placed(r)', Placed(s)', Active(r)', Active(s)'
               PROVE  data'[r] # data'[s] \/ Taken(r, s)' \/ Taken(s, r)'
    BY <1>s DEF ApartInv
  <2>4. CASE r = x
    BY <2>3, <2>4
  <2>5. CASE s = x
    BY <2>3, <2>5
  <2>6. CASE r # x /\ s # x
    BY <2>0, <2>2, <2>6
  <2> QED
    BY <2>4, <2>5, <2>6
<1>21. CountInv'
  <2>1. \A w : IsFiniteSet(InUse(w))
    <3>1. \A w : InUse(w) \in SUBSET Nodes
      BY DEF InUse
    <3> QED
      BY <3>1, ReadingFacts, FS_Subset
  <2>2. ASSUME NEW w \in Tensors
        PROVE  n_views'[w] >= Cardinality(InUse(w)')
    <3>1. PICK Z : Z = InUse(w)'
      OBVIOUS
    <3>2. Z \subseteq InUse(w) \cup {x} /\ (w # v => Z \subseteq InUse(w))
      <4>1. \A n \in Nodes : n \in Tensors /\ (n # x => view_src'[n] = view_src[n])
        BY <1>14, GraphFacts
      <4> QED
        BY <1>14, <1>s, <3>1, <4>1 DEF InUse
    <3>3. n_views[w] \in Nat /\ n_views[w] >= Cardinality(InUse(w)) /\ Cardinality(InUse(w)) \in Nat
      <4>1. Cardinality(InUse(w)) \in Nat
        BY <2>1, FS_CardinalityType
      <4>2. n_views[w] >= Cardinality(InUse(w))
        BY <1>0 DEF RunInv, CountInv
      <4> QED
        BY <1>2, <4>1, <4>2
    <3>4. CASE w # v
      <4>1. Cardinality(Z) <= Cardinality(InUse(w)) /\ IsFiniteSet(Z)
        BY <2>1, <3>2, <3>4, FS_Subset
      <4>2. Cardinality(Z) \in Nat
        BY <4>1, FS_CardinalityType
      <4>3. n_views'[w] = n_views[w]
        BY <1>14, <3>4
      <4> QED
        BY <3>1, <3>3, <4>1, <4>2, <4>3
    <3>5. CASE w = v
      <4>1. IsFiniteSet(InUse(w) \cup {x}) /\ Cardinality(InUse(w) \cup {x}) <= Cardinality(InUse(w)) + 1
            /\ Cardinality(InUse(w) \cup {x}) \in Nat
        <5>1. IsFiniteSet(InUse(w) \cup {x})
              /\ Cardinality(InUse(w) \cup {x}) = IF x \in InUse(w) THEN Cardinality(InUse(w)) ELSE Cardinality(InUse(w)) + 1
          BY <2>1, FS_AddElement
        <5> QED
          BY <3>3, <5>1
      <4>2. Cardinality(Z) <= Cardinality(InUse(w) \cup {x}) /\ IsFiniteSet(Z)
        BY <3>2, <4>1, FS_Subset
      <4>3. Cardinality(Z) \in Nat
        BY <4>2, FS_CardinalityType
      <4>4. n_views'[w] = n_views[w] + 1
        BY <1>14, <3>5
      <4> QED
        BY <3>1, <3>3, <4>1, <4>2, <4>3, <4>4
    <3> QED
      BY <3>4, <3>5
  <2>3. \A t \in Tensors : n_children[t] = Cardinality(Pending(t))
    BY <1>0 DEF RunInv, CountInv
  <2> QED
    BY <1>0, <1>s, <2>2, <2>3 DEF CountInv
<1> QED
  BY <1>13, <1>14, <1>15, <1>16, <1>17, <1>18, <1>19, <1>20, <1>21

\* Placing a tensor, in whichever of the four ways.
LEMMA PlacingStep ==
  ASSUME AllocInv, failed = FALSE, NEW x, Placing(x)
  PROVE  AllocInv'
<1>0. /\ stage = "allocate" /\ ind \in Nodes /\ ind' = ind
      /\ UNCHANGED <<plan, measuring>> /\ UNCHANGED cells /\ size' = size /\ n_children' = n_children
      /\ \/ k \in DOMAIN src(ind) /\ x = src(ind)[k] /\ k' = k + 1 /\ stage' = "allocate"
         \/ k \notin DOMAIN src(ind) /\ x = ind /\ k' = 1 /\ stage' = "update"
      /\ allocate_node(x)
  BY DEF Placing
<1>1. PlaceInv /\ ShapeInv /\ ListInv /\ RunInv /\ stage # "ready"
  BY <1>0 DEF AllocInv
<1>2. /\ x \in Tensors
      /\ \A t : \A c \in Readings(t) : Ahead(c)' <=> Ahead(c)
      /\ failed' \in BOOLEAN => PlaceInv'
      /\ ~Placed(x) => \/ x = ind /\ graph[x].view # None
                       \/ x \in OwnRoots /\ view_src[x] = None /\ (Reused(x) # None => x = ind)
  BY <1>1, PlacingFacts
<1>3. ASSUME ShapeInv', ListInv', AddressInv', BackedInv', ApartInv', CountInv', failed' = FALSE,
             data'[x] # Null, Placed(x) => data' = data,
             \A t \in Tensors : t # x => data'[t] = data[t]
      PROVE  AllocInv'
  <2>1. PlaceInv'
    BY <1>2, <1>3
  <2>2. PlacedInv' /\ HeldInv' /\ SpareInv' /\ ContentInv'
    BY <1>0, <1>1, <1>2, <1>3, <2>1, PlacingKeeps
  <2> QED
    BY <1>3, <2>1, <2>2 DEF AllocInv, RunInv
<1>4. CASE Placed(x)
  <2>1. /\ failed' = FALSE /\ data' = data /\ buffer' = buffer /\ view_src' = view_src /\ n_views' = n_views
        /\ free_blocks' = free_blocks /\ max_size' = max_size /\ held' = held
    BY <1>0, <1>4 DEF allocate_node, Placed, space
  <2>s. graph' = graph /\ Tensors' = Tensors /\ Nodes' = Nodes /\ OwnRoots' = OwnRoots
    BY <1>0, SameGraph
  <2>2. ListInv'
    BY <1>0, <1>1, <2>1 DEF ListInv
  <2>3. ShapeInv'
    BY <1>0, <1>1, <2>1, <2>s DEF ShapeInv
  <2>4. AddressInv'
    BY <1>1, <2>1, <2>s DEF RunInv, AddressInv, WeightInv, ViewInv, RootInv, Placed, op, Foreign
  <2>5. BackedInv' /\ ApartInv' /\ CountInv'
    BY <1>0, <1>1, <1>2, <2>1, SameRoots
  <2>6. data'[x] # Null
    BY <1>4, <2>1 DEF Placed
  <2> QED
    BY <1>3, <2>1, <2>2, <2>3, <2>4, <2>5, <2>6
<1>5. CASE ~Placed(x) /\ x = ind /\ graph[x].view # None
  BY <1>1, <1>3, <1>5, ViewPlaced
<1>6. CASE ~Placed(x) /\ x \in OwnRoots /\ view_src[x] = None /\ Reused(x) # None /\ x = ind
  BY <1>1, <1>3, <1>6, TakenOver
<1>7. CASE ~Placed(x) /\ x \in OwnRoots /\ view_src[x] = None /\ Reused(x) = None
  <2>1. tallocr_alloc(x) /\ view_src' = view_src /\ n_views' = n_views
    BY <1>0, <1>7 DEF allocate_node, Placed
  <2>2. /\ ListInv'
        /\ \/ failed' = TRUE /\ UNCHANGED <<data, buffer, held>>
           \/ /\ failed' = FALSE
              /\ \E addr \in Nat :
                    /\ data' = [data EXCEPT ![x] = addr]
                    /\ buffer' = [buffer EXCEPT ![x] = "own"]
                    /\ held' = held \cup {<<addr, aligned(graph[x].size)>>}
                    /\ \A h \in held : Clear(h, <<addr, aligned(graph[x].size)>>)
    BY <1>0, <1>1, <1>2, <2>1, AllocEffect
  <2>s. graph' = graph /\ Tensors' = Tensors
    BY <1>0, SameGraph
  <2>3. CASE failed' = TRUE /\ UNCHANGED <<data, buffer, held>>
    <3>1. ShapeInv'
      BY <1>0, <1>1, <2>1, <2>3, <2>s DEF ShapeInv
    <3> QED
      BY <1>2, <2>2, <2>3, <3>1 DEF AllocInv
  <2>4. CASE failed' = FALSE /\ \E addr \in Nat :
                    /\ data' = [data EXCEPT ![x] = addr]
                    /\ buffer' = [buffer EXCEPT ![x] = "own"]
                    /\ held' = held \cup {<<addr, aligned(graph[x].size)>>}
                    /\ \A h \in held : Clear(h, <<addr, aligned(graph[x].size)>>)
    <3>1. PICK addr \in Nat :
                    /\ data' = [data EXCEPT ![x] = addr]
                    /\ buffer' = [buffer EXCEPT ![x] = "own"]
                    /\ held' = held \cup {<<addr, aligned(graph[x].size)>>}
                    /\ \A h \in held : Clear(h, <<addr, aligned(graph[x].size)>>)
      BY <2>4
    <3>2. AddressInv' /\ BackedInv' /\ ApartInv'
      BY <1>0, <1>1, <1>2, <1>7, <2>1, <3>1, FreshRoot DEF RunInv
    <3>3. data \in [Tensors -> Int] /\ buffer \in [Tensors -> Buffers]
      BY <1>1 DEF ShapeInv
    <3>4. data'[x] # -1 /\ \A t \in Tensors : t # x => data'[t] = data[t]
      <4>1. addr # -1
        OBVIOUS
      <4> QED
        BY <1>2, <3>1, <3>3, <4>1
    <3>5. ShapeInv'
      BY <1>0, <1>1, <1>2, <2>1, <2>s, <3>1 DEF ShapeInv, Buffers
    <3>6. CountInv'
      <4>1. /\ \A t : Pending(t)' = Pending(t)
            /\ \A t : Waiting(t)' <=> Waiting(t)
            /\ Nodes' = Nodes
        BY <1>0, <1>2, SameGraph, SamePending
      <4>2. \A v : InUse(v)' = InUse(v)
        BY <2>1, <4>1 DEF InUse
      <4>3. \A t \in Tensors : /\ n_children[t] = Cardinality(Pending(t))
                               /\ n_views[t] >= Cardinality(InUse(t))
        BY <1>0, <1>1 DEF RunInv, CountInv
      <4> QED
        BY <1>0, <2>1, <2>s, <4>1, <4>2, <4>3 DEF CountInv
    <3> QED
      BY <1>3, <1>7, <2>2, <2>4, <3>2, <3>4, <3>5, <3>6
  <2> QED
    BY <2>2, <2>3, <2>4
<1> QED
  BY <1>2, <1>4, <1>5, <1>6, <1>7

LEMMA AllocateStep ==
  ASSUME AllocInv, ~failed, Allocate
  PROVE  AllocInv'
<1>1. failed = FALSE
  BY DEF AllocInv, PlaceInv
<1>2. UNCHANGED <<plan, measuring>> /\ UNCHANGED size /\ UNCHANGED n_children /\ UNCHANGED cells
      /\ stage = "allocate" /\ ind \in Nodes /\ ind' = ind
  BY DEF Allocate, graphs
<1>3. CASE k \in DOMAIN src(ind)
  <2>1. PICK x : x = src(ind)[k]
    OBVIOUS
  <2>2. Placing(x)
    BY <1>2, <1>3, <2>1 DEF Allocate, Placing
  <2> QED
    BY <1>1, <2>2, PlacingStep
<1>4. CASE k \notin DOMAIN src(ind)
  <2>1. PICK x : x = ind
    OBVIOUS
  <2>2. Placing(x)
    BY <1>2, <1>4, <2>1 DEF Allocate, Placing
  <2> QED
    BY <1>1, <2>2, PlacingStep
<1> QED
  BY <1>3, <1>4

-----------------------------------------------------------------------------
(* The theorem.                                                            *)

LEMMA InitSound == Init => AllocInv
<1> SUFFICES ASSUME Init
             PROVE  AllocInv
  OBVIOUS
<1>1. /\ plan \in Plans /\ measuring = TRUE /\ stage = "inputs" /\ ind = 1 /\ k = 1 /\ failed = FALSE
      /\ data = BuiltData(plan[1]) /\ buffer = BuiltBuffer(plan[1])
      /\ view_src = [t \in DOMAIN plan[1] |-> plan[1][t].view]
      /\ n_children = NoCount(plan[1]) /\ n_views = NoCount(plan[1])
      /\ free_blocks = <<Block(0, Unlimited)>> /\ max_size = 0 /\ size = 0 /\ held = {}
  BY DEF Init
<1>2. graph = plan[1]
  BY <1>1 DEF graph
<1>3. WellFormed(plan[1])
  BY <1>1, PlansAssumption
<1>4. PlaceInv
  <2>1. 1 <= Len(graph) + 1
    BY <1>2, <1>3 DEF WellFormed
  <2>2. stage \in Stages /\ ind \in Nat \ {0} /\ k \in Nat \ {0}
    BY <1>1 DEF Stages
  <2>3. measuring \in BOOLEAN /\ failed \in BOOLEAN
    BY <1>1
  <2> QED
    BY <1>1, <1>2, <2>1, <2>2, <2>3 DEF PlaceInv
<1>5. ListInv
  <2>1. <<Block(0, Unlimited)>> \in Seq(Blocks) /\ Sorted(<<Block(0, Unlimited)>>)
    BY LimitsAssumption, OneBlock
  <2> QED
    BY <1>1, <2>1 DEF ListInv
<1>6. Built
  BY <1>1, <1>2 DEF Built
<1> QED
  BY <1>4, <1>5, <1>6, BuiltSound DEF AllocInv

\* What the invariant says of the types, the free list and the contents.
LEMMA InvSound == AllocInv => SharedSoundly
<1> SUFFICES ASSUME AllocInv
             PROVE  SharedSoundly
  OBVIOUS
<1>1. PlaceInv /\ ShapeInv /\ ListInv
  BY DEF AllocInv
<1>2. TypeOK
  BY <1>1 DEF PlaceInv, ShapeInv, ListInv, TypeOK, Blocks, Sizes
<1>3. FreeListSound
  <2>1. \A i \in 1 .. Len(free_blocks) - 1 : End(free_blocks[i]) < free_blocks[i + 1].addr
    <3>1. free_blocks \in Seq(Blocks) /\ Sorted(free_blocks)
      BY <1>1 DEF ListInv
    <3>2. \A i \in 1 .. Len(free_blocks) - 1 : i \in DOMAIN free_blocks /\ i + 1 \in DOMAIN free_blocks /\ i < i + 1
      BY <3>1
    <3> QED
      BY <3>1, <3>2 DEF Sorted
  <2>2. \A h \in held : \A e \in (held \ {h}) \cup Free : Clear(h, e)
    BY <1>1 DEF ListInv, ClearOf, Free, Extent
  <2> QED
    BY <2>1, <2>2 DEF FreeListSound, Clear
<1>4. SharingIsInvisible
  <2> SUFFICES ASSUME stage \in {"compute", "done"}
               PROVE  SharingIsInvisible
    BY DEF SharingIsInvisible
  <2>1. RunInv /\ AddressInv
    BY <1>1 DEF AllocInv, PlaceInv, RunInv
  <2>2. ASSUME NEW t \in Tensors, NeededFrom(RootOf(t), ind)
        PROVE  Intact(t)
    <3> SUFFICES ASSUME NEW i \in Cells(t), RootCell(t, i) \in DOMAIN ref
                 PROVE  data[t] + i \in DOMAIN mem /\ mem[data[t] + i] = ref[RootCell(t, i)]
      BY DEF Intact
    <3> DEFINE r == RootOf(t)
    <3>1. r \in Roots /\ r \in Tensors
      BY <1>1, RootFacts
    <3>2. Whole(r)
      BY <2>1, <2>2, <3>1 DEF RunInv, ContentInv
    <3>3. CASE graph[t].view = None
      <4>1. r = t /\ RootCell(t, i) = <<r, i>>
        BY <3>3 DEF RootOf, RootCell
      <4> QED
        BY <3>2, <4>1 DEF Whole
    <3>4. CASE graph[t].view # None
      <4> DEFINE o == graph[t].offs
                 e == data[r]
      <4>1. r = graph[t].view /\ RootCell(t, i) = <<r, o + i>> /\ t \in Nodes
        BY <1>1, <3>4, RootFacts DEF RootCell
      <4>2. Placed(t)
        BY <2>1, <4>1 DEF RunInv, PlacedInv, Past
      <4>3. data[t] = e + o /\ e \in Int
        BY <1>1, <2>1, <4>2, LiesInRoot
      <4>4. i \in 0 .. graph[t].size - 1 /\ o \in Nat /\ graph[t].size \in Nat /\ o + graph[t].size <= graph[r].size /\ graph[r].size \in Nat
        BY <1>1, <3>1, GraphFacts, RootFacts DEF Cells
      <4>5. o + i \in Cells(r)
        BY <4>4 DEF Cells
      <4>6. e + (o + i) \in DOMAIN mem /\ mem[e + (o + i)] = ref[<<r, o + i>>]
        BY <3>2, <4>1, <4>5 DEF Whole
      <4> HIDE DEF e, o, r
      <4>7. data[t] + i = e + (o + i)
        BY <4>3, <4>4
      <4> QED
        BY <4>1, <4>6, <4>7
    <3> QED
      BY <3>3, <3>4
  <2>3. ASSUME stage = "compute", ind \in Nodes, NEW t \in Reads(ind)
        PROVE  Intact(t)
    <3>1. t \in Parents(ind) /\ ind \in Tensors /\ ind \in Nat
      <4>1. ind \in Tensors /\ ind \in Nat
        BY <1>1, <2>3, GraphFacts
      <4>2. op(ind) = "CPY" => 1 \in DOMAIN src(ind)
        BY <1>1, <4>1, GraphFacts DEF WellFormed, Tensors, op, src
      <4> QED
        BY <2>3, <4>1, <4>2 DEF Reads, Parents
    <3>2. t \in Tensors
      BY <1>1, <3>1, GraphFacts DEF Parents
    <3>3. NeededFrom(RootOf(t), ind)
      <4>1. t \in Family(RootOf(t)) /\ ind >= ind
        BY <1>1, <3>1, <3>2, RootFacts
      <4> QED
        BY <2>3, <3>1, <4>1 DEF NeededFrom
    <3> QED
      BY <2>2, <3>2, <3>3
  <2>4. ASSUME NEW t \in Tensors, op(t) = "WEIGHT" \/ Unread(t)
        PROVE  Intact(t)
    <3>1. CASE Unread(t)
      <4>1. NeededFrom(RootOf(t), ind)
        BY <1>1, <3>1, RootFacts DEF NeededFrom
      <4> QED
        BY <2>2, <4>1
    <3>2. CASE op(t) = "WEIGHT"
      <4>1. RootOf(t) = t
        BY <1>1, <3>2, Foreigns, RootFacts
      <4>2. NeededFrom(RootOf(t), ind)
        BY <3>2, <4>1 DEF NeededFrom
      <4> QED
        BY <2>2, <4>2
    <3> QED
      BY <2>4, <3>1, <3>2
  <2> QED
    BY <2>3, <2>4 DEF SharingIsInvisible, Unread
<1> QED
  BY <1>2, <1>3, <1>4 DEF SharedSoundly

\* A step that changes nothing.
LEMMA StutterKeeps == AllocInv /\ UNCHANGED vars => AllocInv'
<1> SUFFICES ASSUME AllocInv, UNCHANGED vars
             PROVE  AllocInv'
  OBVIOUS
<1>1. /\ plan' = plan /\ measuring' = measuring /\ size' = size /\ stage' = stage /\ ind' = ind /\ k' = k
      /\ failed' = failed /\ data' = data /\ buffer' = buffer /\ view_src' = view_src
      /\ n_children' = n_children /\ n_views' = n_views /\ free_blocks' = free_blocks
      /\ max_size' = max_size /\ held' = held /\ mem' = mem /\ ref' = ref
  BY DEF vars, graphs, place, memory, counts, space, cells
<1>s. /\ graph' = graph /\ Tensors' = Tensors /\ Nodes' = Nodes /\ Roots' = Roots /\ OwnRoots' = OwnRoots
      /\ \A t : RootOf(t)' = RootOf(t)
      /\ \A t : Unread(t)' = Unread(t)
      /\ \A t : Family(t)' = Family(t)
      /\ \A t : \A c \in Readings(t) : Ahead(c)' <=> Ahead(c)
      /\ \A r, m : Filled(r, m)' = Filled(r, m)
      /\ \A r, m : NeededFrom(r, m)' = NeededFrom(r, m)
  <2>1. \A t : \A c \in Readings(t) : Ahead(c)' <=> Ahead(c)
    BY <1>1 DEF Ahead
  <2> QED
    BY <1>1, <2>1, SameGraph
<1>p. /\ \A t : Pending(t)' = Pending(t)
      /\ \A t : Waiting(t)' <=> Waiting(t)
      /\ \A r : Active(r)' <=> Active(r)
  BY <1>1, <1>s, SamePending
<1>2. PlaceInv' /\ ShapeInv' /\ ListInv'
  BY <1>1, <1>s DEF AllocInv, PlaceInv, ShapeInv, ListInv
<1>3. ASSUME RunInv
      PROVE  RunInv'
  <2>1. AddressInv'
    BY <1>1, <1>3, <1>s DEF RunInv, AddressInv, WeightInv, ViewInv, RootInv, Placed, op, Foreign
  <2>2. PlacedInv'
    BY <1>1, <1>3, <1>s DEF RunInv, PlacedInv, Placed, Past, op, src
  <2>3. CountInv'
    <3>1. \A v : InUse(v)' = InUse(v)
      BY <1>1, <1>p, <1>s DEF InUse
    <3> QED
      BY <1>1, <1>3, <1>p, <1>s, <3>1 DEF RunInv, CountInv
  <2>4. HeldInv'
    <3>1. \A r, s : Taken(r, s)' <=> Taken(r, s)
      BY <1>1, <1>p, <1>s DEF Taken, src
    <3> QED
      BY <1>1, <1>3, <1>p, <1>s, <3>1 DEF RunInv, HeldInv, BackedInv, ApartInv, HeldBy, Placed
  <2>5. SpareInv'
    <3>1. \A m, r : Spares(m, r)' <=> Spares(m, r)
      BY <1>1, <1>s DEF Spares
    <3>2. \A m : SparesAll(m)' <=> SparesAll(m)
      BY <1>s, <3>1 DEF SparesAll
    <3>3. \A m : Past(m)' <=> Past(m)
      BY <1>1 DEF Past
    <3> QED
      BY <1>1, <1>3, <1>s, <3>2, <3>3 DEF RunInv, SpareInv
  <2>6. ContentInv'
    <3>1. \A r : Whole(r)' <=> Whole(r)
      BY <1>1, <1>s DEF Whole, Cells
    <3> QED
      BY <1>1, <1>3, <1>s, <3>1 DEF RunInv, ContentInv, Placed, op
  <2> QED
    BY <2>1, <2>2, <2>3, <2>4, <2>5, <2>6 DEF RunInv
<1> QED
  BY <1>1, <1>2, <1>3 DEF AllocInv

LEMMA StepSound == AllocInv /\ [Next]_vars => AllocInv'
<1> SUFFICES ASSUME AllocInv, [Next]_vars
             PROVE  AllocInv'
  OBVIOUS
<1>1. CASE Next
  BY <1>1, AllocInputStep, CountStep, AllocateStep, UpdateStep, NextNodeStep, ReallocStep,
     BuildStep, StartStep, ComputeStep, FinishStep DEF Next
<1>2. CASE UNCHANGED vars
  BY <1>2, StutterKeeps
<1> QED
  BY <1>1, <1>2

\* Whatever graphs are measured and evaluated (as the constructors of ggml.c
\* build them, PlansAssumption), and however large the buffer: in views, in the
\* memory an in-place operation takes over and in memory handed on, every node
\* finds in its sources what they were computed to be, and no memory is both
\* free and handed out or handed out twice (ggml_tallocr_alloc_graph_impl,
\* allocate_node, ggml_tallocr_alloc, ggml_tallocr_free_tensor).
THEOREM SharingAlwaysSound == Spec => []SharedSoundly
<1>1. Init => AllocInv
  BY InitSound
<1>2. AllocInv /\ [Next]_vars => AllocInv'
  BY StepSound
<1>3. AllocInv => SharedSoundly
  BY InvSound
<1> QED
  BY <1>1, <1>2, <1>3, PTL DEF Spec
====
