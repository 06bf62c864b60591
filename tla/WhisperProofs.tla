---------------------------- MODULE WhisperProofs ----------------------------
(***************************************************************************)
(* Decoding and loading.                                                   *)
(*                                                                         *)
(* The decoders of WhisperFull share one cache: for every cache, number of *)
(* decoders and length of past text that CacheAssumption admits, each of   *)
(* them attends to its own history and to nothing else, and the cache has  *)
(* a slot for every batch.  The text that comes of it is in order, taken   *)
(* from the last attempt, and the window never passes the audio heard.     *)
(*                                                                         *)
(* Then what loading and freeing speech models keeps, for any model files, *)
(* any set of weights and any size of the pool of tensor contexts.         *)
(***************************************************************************)
EXTENDS WhisperFull, WhisperLoad, TLAPS, WellFoundedInduction, FiniteSetTheorems, SequenceTheorems

-----------------------------------------------------------------------------
(* Numbers, least and greatest, and the order of a set of them.            *)

\* Numbers have a least one among them, which Min gives.
LEMMA MinOfNumbers ==
  ASSUME NEW S \in SUBSET Nat, S # {}
  PROVE  Min(S) \in S /\ \A x \in S : Min(S) <= x
<1> DEFINE below == {ss \in Nat \X Nat : ss[1] < ss[2]}
<1>1. OpToRel(<, Nat) = below
  BY DEF OpToRel
<1>2. IsWellFoundedOn(below, Nat)
  BY <1>1, NatLessThanWellFounded, Zenon
<1>3. \E m \in S : \A x \in S : ~(<<x, m>> \in below)
  <2> HIDE DEF below
  <2> QED
    BY <1>2, WFMin
<1>4. \A m, x \in S : ~(<<x, m>> \in below) => m <= x
  OBVIOUS
<1> HIDE DEF below
<1>5. \E m \in S : \A x \in S : m <= x
  BY <1>3, <1>4
<1> QED
  BY <1>5, Zenon DEF Min

\* A set of numbers that has a bound has a greatest one, which Max gives.
LEMMA MaxOfNumbers ==
  ASSUME NEW S \in SUBSET Nat, S # {}, NEW b \in Nat, \A x \in S : x <= b
  PROVE  Max(S) \in S /\ \A x \in S : x <= Max(S)
<1> DEFINE D == {y \in 0 .. b : b - y \in S}
<1>1. D \in SUBSET Nat /\ D # {}
  <2>1. PICK x \in S : TRUE
    OBVIOUS
  <2>2. x \in Nat /\ x <= b
    OBVIOUS
  <2>3. b - x \in 0 .. b /\ b - (b - x) = x
    BY <2>2
  <2>4. b - x \in D
    BY <2>3
  <2>5. D \in SUBSET Nat
    OBVIOUS
  <2> QED
    BY <2>4, <2>5
<1>2. Min(D) \in D /\ \A y \in D : Min(D) <= y
  BY <1>1, MinOfNumbers
<1>3. PICK m \in D : \A y \in D : m <= y
  BY <1>2, Zenon
<1>4. b - m \in S /\ \A x \in S : b - x \in D
  BY <1>3
<1>5. \E g \in S : \A x \in S : g >= x
  <2>1. \A x \in S : b - m >= x
    BY <1>3, <1>4
  <2> QED
    BY <1>4, <2>1
<1>6. \A g, x \in S : g >= x <=> x <= g
  OBVIOUS
<1>7. Max(S) \in S /\ \A x \in S : Max(S) >= x
  BY <1>5, Zenon DEF Max
<1> QED
  BY <1>6, <1>7

\* In a finite set of numbers every place from 1 on is some member's Turn, and
\* no two members have the same.
LEMMA TurnsInOrder ==
  ASSUME NEW S \in SUBSET Nat, IsFiniteSet(S)
  PROVE  /\ Cardinality(S) \in Nat
         /\ \A j \in S : Turn(S, j) \in 1 .. Cardinality(S)
         /\ \A j, k \in S : Turn(S, j) = Turn(S, k) => j = k
         /\ \A p \in 1 .. Cardinality(S) : \E j \in S : Turn(S, j) = p
<1> DEFINE upto(j) == {k \in S : k <= j}
           turn    == [j \in S |-> Turn(S, j)]
<1>1. Cardinality(S) \in Nat
  BY FS_CardinalityType
<1>2. \A j \in S : /\ IsFiniteSet(upto(j)) /\ Cardinality(upto(j)) \in Nat
                   /\ Cardinality(upto(j)) <= Cardinality(S) /\ Cardinality(upto(j)) # 0
  <2> SUFFICES ASSUME NEW j \in S
               PROVE  /\ IsFiniteSet(upto(j)) /\ Cardinality(upto(j)) \in Nat
                      /\ Cardinality(upto(j)) <= Cardinality(S) /\ Cardinality(upto(j)) # 0
    OBVIOUS
  <2>1. upto(j) \in SUBSET S /\ j \in upto(j)
    OBVIOUS
  <2>a. upto(j) # {}
    BY <2>1
  <2> HIDE DEF upto
  <2>2. IsFiniteSet(upto(j)) /\ Cardinality(upto(j)) <= Cardinality(S)
    BY <2>1, FS_Subset
  <2>3. Cardinality(upto(j)) \in Nat
    BY <2>2, FS_CardinalityType
  <2>4. Cardinality(upto(j)) # 0
    BY <2>2, <2>a, FS_EmptySet, Zenon
  <2> QED
    BY <2>2, <2>3, <2>4
<1>3. \A j \in S : Turn(S, j) = Cardinality(upto(j))
  BY DEF Turn
<1>4. \A j \in S : Turn(S, j) \in 1 .. Cardinality(S)
  <2> HIDE DEF upto
  <2> QED
    BY <1>1, <1>2, <1>3
<1>5. \A j, k \in S : Turn(S, j) = Turn(S, k) => j = k
  <2>1. ASSUME NEW j \in S, NEW k \in S, j < k
        PROVE  Turn(S, j) # Turn(S, k)
    <3>b. j \in Nat /\ k \in Nat /\ \A m \in S : m \in Nat
      OBVIOUS
    <3>c. \A m \in S : m <= j => m <= k
      BY <2>1, <3>b
    <3>d. k <= k /\ ~(k <= j)
      BY <2>1, <3>b
    <3>1. upto(j) \in SUBSET upto(k) /\ k \in upto(k) /\ k \notin upto(j)
      BY <3>c, <3>d
    <3>a. upto(j) # upto(k)
      BY <3>1
    <3> HIDE DEF upto
    <3> QED
      BY <3>1, <3>a, <1>2, <1>3, FS_Subset
  <2>2. \A j, k \in S : j # k => j < k \/ k < j
    OBVIOUS
  <2> QED
    BY <2>1, <2>2
<1>6. turn \in Injection(S, 1 .. Cardinality(S))
  BY <1>4, <1>5 DEF Injection, IsInjective
<1>7. turn \in Surjection(S, 1 .. Cardinality(S))
  <2>1. IsFiniteSet(1 .. Cardinality(S)) /\ Cardinality(1 .. Cardinality(S)) = Cardinality(S)
    BY <1>1, FS_Interval
  <2> HIDE DEF turn
  <2> QED
    BY <2>1, <1>6, FS_Injection
<1>8. \A p \in 1 .. Cardinality(S) : \E j \in S : Turn(S, j) = p
  BY <1>7 DEF Surjection
<1> QED
  BY <1>1, <1>4, <1>5, <1>8

\* What each decoder adds up to at most: so many cells a token.
LEMMA TimesMono ==
  ASSUME NEW n \in Nat, NEW s \in Nat, NEW t \in Nat, s <= t
  PROVE  n * s \in Nat /\ n * t \in Nat /\ n * s <= n * t /\ n * (s + 1) = n * s + n
<1>1. n * (t - s) \in Nat /\ n * t = n * (t - s) + n * s
  OBVIOUS
<1> QED
  BY <1>1

-----------------------------------------------------------------------------
(* The cache.                                                              *)

CellType  == [pos : Int, seqs : SUBSET Decoders, val : Decoders \cup {Prompt}]
CacheType == [head : Nat, n : 0 .. KvSize, cells : [CellIds -> CellType]]

\* A cell without a sequence has no position, and the other way round.
CellsPaired(k) == \A c \in CellIds : k.cells[c].pos >= 0 <=> k.cells[c].seqs # {}

\* What whisper_kv_cache_find_slot finds when the head and every cell in use
\* are below h, and n cells fit from there: a run of free cells that starts at
\* h at the latest.
LEMMA SlotFound ==
  ASSUME NEW k \in CacheType, NEW h \in Nat, NEW n \in Nat,
         k.head <= h, h + n <= KvSize,
         \A c \in CellIds : c >= h => k.cells[c].pos < 0
  PROVE  /\ FindSlot(k, n) \in 0 .. h
         /\ \A c \in CellIds : FindSlot(k, n) <= c /\ c < FindSlot(k, n) + n => k.cells[c].pos < 0
<1> DEFINE free  == {s \in 0 .. KvSize - n : \A c \in s .. s + n - 1 : k.cells[c].pos < 0}
           ahead == {s \in free : s >= k.head}
<1>1. KvSize \in Nat /\ k.head \in Nat
  BY KvSizeAssumption DEF CacheType
<1>2. h \in ahead
  <2>1. h \in 0 .. KvSize - n
    BY <1>1
  <2>2. \A c \in h .. h + n - 1 : c \in CellIds /\ c >= h
    BY <1>1 DEF CellIds
  <2>3. \A c \in h .. h + n - 1 : k.cells[c].pos < 0
    BY <2>2
  <2>4. h >= k.head
    BY <1>1
  <2> QED
    BY <2>1, <2>3, <2>4
<1>3. ahead \in SUBSET Nat /\ free # {} /\ ahead # {}
  BY <1>2
<1>4. FindSlot(k, n) = Min(ahead)
  BY <1>3 DEF FindSlot
<1>5. Min(ahead) \in ahead /\ Min(ahead) <= h
  <2> HIDE DEF ahead
  <2> QED
    BY <1>2, <1>3, MinOfNumbers
<1>6. PICK s \in ahead : s = FindSlot(k, n) /\ s <= h
  BY <1>4, <1>5
<1>7. s \in 0 .. h
  BY <1>6, <1>1
<1>8. \A c \in CellIds : s <= c /\ c < s + n => c \in s .. s + n - 1
  BY <1>7 DEF CellIds
<1>9. \A c \in s .. s + n - 1 : k.cells[c].pos < 0
  BY <1>6
<1> QED
  BY <1>6, <1>7, <1>8, <1>9

\* What the attention reads ends behind every cell in use.
LEMMA CellMaxCovers ==
  ASSUME NEW k, k.cells \in [CellIds -> CellType]
  PROVE  /\ CellMax(k) \in 1 .. KvSize
         /\ \A c \in CellIds : k.cells[c].pos >= 0 /\ k.cells[c].seqs # {} => c < CellMax(k)
<1> DEFINE used == {d \in CellIds \ {0} : k.cells[d].pos >= 0 /\ k.cells[d].seqs # {}}
           ends == {1} \cup {c + 1 : c \in used}
<1>1. KvSize \in Nat \ {0}
  BY KvSizeAssumption
<1>2. ends \in SUBSET (1 .. KvSize) /\ 1 \in ends
  BY <1>1 DEF CellIds
<1>3. ends \in SUBSET Nat /\ ends # {} /\ \A x \in ends : x <= KvSize
  <2> HIDE DEF ends
  <2> QED
    BY <1>1, <1>2
<1>4. CellMax(k) = Max(ends)
  BY DEF CellMax
<1>5. \A c \in CellIds : k.cells[c].pos >= 0 /\ k.cells[c].seqs # {} => c + 1 \in ends
  OBVIOUS
<1>6. Max(ends) \in ends /\ \A x \in ends : x <= Max(ends)
  <2> HIDE DEF ends
  <2> QED
    BY <1>1, <1>3, MaxOfNumbers
<1>7. PICK m \in ends : m = CellMax(k) /\ \A x \in ends : x <= m
  BY <1>4, <1>6
<1> HIDE DEF ends
<1>8. m \in 1 .. KvSize
  BY <1>2
<1>9. \A c \in CellIds : c + 1 <= m => c < m
  BY <1>8 DEF CellIds
<1> QED
  BY <1>5, <1>7, <1>8, <1>9

-----------------------------------------------------------------------------
(* The invariant.                                                          *)

DecoderType == [tokens : Seq(Ids), by : Seq(Decoders), result_len : Nat, seek_delta : Int,
                failed : BOOLEAN, completed : BOOLEAN, has_ts : BOOLEAN]

DecodingTypes ==
    /\ call \in Calls
    /\ pc \in {"window", "prompt", "sample", "extend", "rank", "output", "done"}
    /\ rc \in {0, -6, -7, -8}
    /\ past \in Nat /\ it \in Nat /\ taken \in {NoSlot} \cup 1 .. TextCtx \div 2
    /\ i \in 0 .. NMax /\ best \in Decoders
    /\ dec \in [Decoders -> DecoderType]
    /\ \A j \in Decoders : dec[j].result_len <= Len(dec[j].tokens)

CellsSound ==
    /\ kv \in CacheType /\ CellsPaired(kv)
    /\ \A c \in CellIds : kv.cells[c].pos < TextCtx

Deciding == pc \in {"sample", "extend"}

\* A decoder that is still going has as many tokens as its loop has gone round,
\* and one more before the batch; without timestamps it has no result before
\* it ends, and it ends in the last round at the latest.
SequencesGrow ==
    Deciding =>
        /\ i < NMax
        /\ \A j \in Live :
             /\ Len(dec[j].by) = i
             /\ Len(dec[j].tokens) = IF pc = "extend" THEN i + 1 ELSE i
             /\ call.no_timestamps => dec[j].result_len = 0
        /\ pc = "extend" /\ call.no_timestamps => i < NMax - 1

\* The cells in use are the first ones: the prompt's, and one for every decoder
\* and round at most.
CellsBelow ==
    Deciding =>
        /\ kv.head <= PromptLen + NDecoders * i
        /\ \A c \in CellIds : kv.cells[c].seqs # {} =>
             /\ c < PromptLen + NDecoders * i
             /\ c < kv.n
             /\ kv.cells[c].pos < PromptLen + i

\* Every decoder that is still going has each position in one cell, computed
\* from the prompt or from its own sequence.
HistoryHeld ==
    Deciding =>
        \A j \in Live :
            /\ \A p \in 0 .. PromptLen + i - 1 :
                 \E c \in CellIds : j \in kv.cells[c].seqs /\ kv.cells[c].pos = p
            /\ \A c, e \in CellIds :
                 j \in kv.cells[c].seqs /\ j \in kv.cells[e].seqs
                 /\ kv.cells[c].pos = kv.cells[e].pos => c = e
            /\ \A c \in CellIds : j \in kv.cells[c].seqs =>
                 kv.cells[c].val = IF kv.cells[c].pos < PromptLen THEN Prompt
                                   ELSE dec[j].by[kv.cells[c].pos - PromptLen + 1]

DecodingInv == DecodingTypes /\ CellsSound /\ SequencesGrow /\ CellsBelow /\ HistoryHeld

-----------------------------------------------------------------------------
(* What a call's parameters come to.                                       *)

LEMMA Numbers ==
  /\ TextCtx \in Nat /\ TextCtx \div 2 \in Nat /\ TextCtx = 2 * (TextCtx \div 2)
  /\ NMax \in Nat \ {0} /\ NMax = TextCtx \div 2 - 4
  /\ KvSize \in Nat \ {0} /\ MaxDecoders \in Nat \ {0} /\ Chunk \in Nat /\ MaxTs \in Nat
  /\ 0 \in Decoders /\ Decoders \in SUBSET Nat /\ IsFiniteSet(Decoders)
<1>1. /\ TextCtx \in Nat /\ TextCtx > 8 /\ TextCtx % 2 = 0 /\ Chunk \in Nat
      /\ MaxDecoders \in Nat \ {0} /\ Chunk % 2 = 0 /\ KvSize \in Nat \ {0}
  BY WhisperAssumption, KvSizeAssumption
<1>2. TextCtx \div 2 \in Nat /\ TextCtx = 2 * (TextCtx \div 2) /\ Chunk \div 2 \in Nat
  BY <1>1
<1>3. IsFiniteSet(0 .. MaxDecoders - 1)
  BY <1>1, FS_Interval
<1> QED
  BY <1>1, <1>2, <1>3 DEF NMax, MaxTs, Decoders

LEMMA CallBounds ==
  ASSUME call \in Calls, it \in Nat
  PROVE  /\ NDecoders \in Nat \ {0} /\ Current = 0 .. NDecoders - 1 /\ Current \in SUBSET Decoders
         /\ 0 \in Current
         /\ TextCtx \div 2 + 4 + NDecoders * NMax <= KvSize
<1>1. /\ call.best_of \in Nat /\ call.beam_size \in Nat
      /\ \A n \in {1, call.best_of, call.beam_size} :
             n <= MaxDecoders /\ TextCtx \div 2 + 4 + n * NMax <= KvSize
  BY WhisperAssumption, CacheAssumption DEF CallType
<1>2. PICK x \in {1, call.best_of, call.beam_size} : NDecoders = Max({1, x})
  BY DEF NDecoders
<1>3. x \in Nat /\ {1, x} \in SUBSET Nat /\ {1, x} # {} /\ \E b \in Nat : \A y \in {1, x} : y <= b
  <2>1. x \in Nat
    BY <1>1
  <2>2. x + 1 \in Nat /\ \A y \in {1, x} : y <= x + 1
    BY <2>1
  <2> QED
    BY <2>1, <2>2
<1>4. Max({1, x}) \in {1, x} /\ 1 <= Max({1, x})
  BY <1>3, MaxOfNumbers
<1>5. NDecoders \in {1, call.best_of, call.beam_size} /\ NDecoders \in Nat \ {0}
  BY <1>1, <1>2, <1>3, <1>4
<1>6. NDecoders <= MaxDecoders /\ TextCtx \div 2 + 4 + NDecoders * NMax <= KvSize
  BY <1>1, <1>5
<1> QED
  BY <1>5, <1>6, Numbers DEF Current, Decoders

LEMMA PromptBounds ==
  ASSUME call \in Calls, taken \in {NoSlot} \cup 1 .. TextCtx \div 2
  PROVE  /\ PromptLen \in Nat \ {0} /\ PromptLen <= TextCtx \div 2 + 5
         /\ ~call.no_timestamps => PromptLen <= TextCtx \div 2 + 4
<1>1. /\ call.no_timestamps \in BOOLEAN /\ call.multilingual \in BOOLEAN
  BY WhisperAssumption DEF CallType
<1>2. InitLen \in 1 .. 4 /\ (~call.no_timestamps => InitLen <= 3)
  BY <1>1 DEF InitLen
<1>3. PromptLen = InitLen + (IF taken = NoSlot THEN 0 ELSE taken + 1)
  BY DEF PromptLen
<1> QED
  BY <1>2, <1>3, Numbers DEF NoSlot

\* What Accept leaves of a decoder that has just been given its token.
LEMMA Accepted ==
  ASSUME call \in Calls, i \in Nat, NEW d \in DecoderType, NEW id \in Ids,
         Len(d.tokens) = i + 1, d.result_len <= i + 1
  PROVE  /\ Accept(d, id) \in DecoderType
         /\ Accept(d, id).tokens = d.tokens /\ Accept(d, id).by = d.by
         /\ Accept(d, id).result_len <= i + 1
         /\ id < 0 /\ d.result_len = 0 /\ ~Accept(d, id).failed /\ ~Accept(d, id).completed =>
                Accept(d, id).result_len = 0 /\ i # NMax - 1
<1> DEFINE e == IF Stamps(id)
                THEN [d EXCEPT !.seek_delta = 2 * id, !.result_len = i + 1, !.has_ts = TRUE] ELSE d
           a == Accept(d, id)
<1>1. id \in Int /\ 2 * id \in Int /\ Chunk \in Int
  BY Numbers DEF Ids, Text
<1>2. /\ e \in DecoderType /\ e.tokens = d.tokens /\ e.by = d.by /\ e.result_len <= i + 1
      /\ id < 0 => e = d
  <2>1. CASE Stamps(id)
    <3>1. e = [d EXCEPT !.seek_delta = 2 * id, !.result_len = i + 1, !.has_ts = TRUE]
      BY <2>1
    <3>2. i + 1 \in Nat
      OBVIOUS
    <3>3. ~(id < 0)
      BY <2>1, <1>1 DEF Stamps, Beg
    <3> HIDE DEF e
    <3>4. e \in DecoderType
      BY <3>1, <3>2, <1>1 DEF DecoderType
    <3>5. e.tokens = d.tokens /\ e.by = d.by /\ e.result_len = i + 1
      BY <3>1, <3>2, <1>1 DEF DecoderType
    <3> QED
      BY <3>2, <3>3, <3>4, <3>5
  <2>2. CASE ~Stamps(id)
    BY <2>2
  <2> QED
    BY <2>1, <2>2
<1>3. \/ a = [d EXCEPT !.failed = TRUE]
      \/ a = [e EXCEPT !.failed = TRUE]
      \/ a = [e EXCEPT !.completed  = TRUE,
                       !.result_len = IF call.single_segment \/ e.result_len = 0 THEN i + 1 ELSE e.result_len,
                       !.seek_delta = IF call.single_segment THEN Chunk ELSE e.seek_delta]
      \/ a = [e EXCEPT !.completed = TRUE, !.seek_delta = Chunk]
      \/ a = e /\ ~(i = NMax - 1 /\ e.result_len = 0)
  BY <1>1 DEF Accept, DecoderType, Stamps, Beg
<1> HIDE DEF e, a
<1>4. /\ a \in DecoderType /\ a.tokens = d.tokens /\ a.by = d.by /\ a.result_len <= i + 1
      /\ ~a.failed /\ ~a.completed => a = e /\ ~(i = NMax - 1 /\ e.result_len = 0)
  <2>1. CASE a = [d EXCEPT !.failed = TRUE]
    BY <2>1 DEF DecoderType
  <2>2. CASE a = [e EXCEPT !.failed = TRUE]
    BY <2>2, <1>2 DEF DecoderType
  <2>3. CASE a = [e EXCEPT !.completed  = TRUE,
                       !.result_len = IF call.single_segment \/ e.result_len = 0 THEN i + 1 ELSE e.result_len,
                       !.seek_delta = IF call.single_segment THEN Chunk ELSE e.seek_delta]
    <3> DEFINE r == IF call.single_segment \/ e.result_len = 0 THEN i + 1 ELSE e.result_len
               t == IF call.single_segment THEN Chunk ELSE e.seek_delta
    <3>1. r \in Nat /\ r <= i + 1 /\ t \in Int
      BY <1>1, <1>2 DEF DecoderType
    <3>2. a = [e EXCEPT !.completed = TRUE, !.result_len = r, !.seek_delta = t]
      BY <2>3
    <3> HIDE DEF r, t
    <3>3. a \in DecoderType
      BY <3>1, <3>2, <1>2 DEF DecoderType
    <3>4. a.tokens = e.tokens /\ a.by = e.by /\ a.result_len = r /\ a.completed = TRUE
      BY <3>2, <1>2 DEF DecoderType
    <3> QED
      BY <3>1, <3>3, <3>4, <1>2
  <2>4. CASE a = [e EXCEPT !.completed = TRUE, !.seek_delta = Chunk]
    BY <2>4, <1>1, <1>2 DEF DecoderType
  <2>5. CASE a = e /\ ~(i = NMax - 1 /\ e.result_len = 0)
    BY <2>5, <1>2
  <2> QED
    BY <1>3, <2>1, <2>2, <2>3, <2>4, <2>5
<1> QED
  BY <1>2, <1>4 DEF a

-----------------------------------------------------------------------------
(* Steps that leave the decoders at rest.                                  *)

LEMMA FreeCell ==
  Free \in CellType /\ Free.pos = -1 /\ Free.seqs = {} /\ ~(Free.pos >= 0)
BY DEF Free, CellType

LEMMA ClearedSound ==
  /\ Cleared \in CacheType /\ CellsPaired(Cleared) /\ Cleared.head = 0
  /\ \A c \in CellIds : Cleared.cells[c] = Free /\ Cleared.cells[c].pos < TextCtx
<1>1. Free \in CellType /\ Free.pos = -1 /\ Free.seqs = {}
  BY DEF Free, CellType
<1>2. \A c \in CellIds : Cleared.cells[c] = Free
  BY DEF Cleared
<1>3. Cleared \in CacheType /\ Cleared.head = 0
  BY <1>1, Numbers DEF Cleared, CacheType
<1> QED
  BY <1>1, <1>2, <1>3, Numbers DEF CellsPaired

LEMMA NewDecoderTyped ==
  /\ NewDecoder \in DecoderType /\ NewDecoder.tokens = <<>> /\ NewDecoder.by = <<>>
  /\ NewDecoder.result_len = 0 /\ ~NewDecoder.failed /\ ~NewDecoder.completed
<1>1. <<>> \in Seq(Ids) /\ <<>> \in Seq(Decoders)
  OBVIOUS
<1> QED
  BY <1>1, Numbers DEF NewDecoder, DecoderType

LEMMA Initially == Init => DecodingInv
<1> SUFFICES ASSUME Init PROVE DecodingInv
  OBVIOUS
<1>1. call \in Calls /\ call.past \in Nat
  BY WhisperAssumption DEF Init, CallType
<1>2. \A j \in Decoders : dec[j] = NewDecoder
  BY DEF Init
<1>3. \A j \in Decoders : dec[j].result_len <= Len(dec[j].tokens)
  BY <1>2, NewDecoderTyped
<1>4. DecodingTypes
  BY <1>1, <1>3, NewDecoderTyped, Numbers DEF Init, DecodingTypes
<1>5. CellsSound
  BY ClearedSound DEF Init, CellsSound
<1> QED
  BY <1>4, <1>5 DEF Init, DecodingInv, SequencesGrow, CellsBelow, HistoryHeld, Deciding

LEMMA WindowKeeps ==
  ASSUME DecodingInv, Window
  PROVE  DecodingInv'
<1>1. DecodingTypes'
  BY Numbers DEF DecodingInv, DecodingTypes, Window, Return
<1>2. CellsSound'
  BY DEF DecodingInv, CellsSound, Window, CellsPaired
<1>3. ~(pc' \in {"sample", "extend"})
  BY DEF Window, Return
<1> QED
  BY <1>1, <1>2, <1>3 DEF DecodingInv, SequencesGrow, CellsBelow, HistoryHeld, Deciding

LEMMA RankKeeps ==
  ASSUME DecodingInv, Rank
  PROVE  DecodingInv'
<1> DEFINE scored == {j \in Current : ~dec[j].failed}
<1>0. DecodingTypes /\ Current \in SUBSET Decoders
  BY CallBounds DEF DecodingInv, DecodingTypes
<1>1. PICK repeats \in SUBSET {j \in scored : MayRepeat(dec[j])} :
        /\ dec' = [j \in Decoders |->
                     IF j \in scored
                     THEN [dec[j] EXCEPT !.tokens = SubSeq(@, 1, dec[j].result_len), !.failed = j \in repeats]
                     ELSE dec[j]]
        /\ best' \in Ranked({j \in scored \ repeats : dec[j].result_len > 0})
  BY DEF Rank
<1>2. best' \in Decoders
  BY <1>0, <1>1 DEF Ranked, DecodingTypes
<1>3. ASSUME NEW j \in Decoders
      PROVE  dec'[j] \in DecoderType /\ dec'[j].result_len <= Len(dec'[j].tokens)
  <2> DEFINE d == dec[j]
             cut == SubSeq(d.tokens, 1, d.result_len)
  <2>1. d \in DecoderType /\ d.result_len <= Len(d.tokens)
    BY <1>0 DEF DecodingTypes
  <2>2. d.tokens \in Seq(Ids) /\ d.result_len \in Nat
    BY <2>1 DEF DecoderType
  <2>3. cut \in Seq(Ids) /\ Len(cut) = d.result_len
    BY <2>1, <2>2
  <2>4. CASE j \in scored
    <3> DEFINE f == j \in repeats
    <3>1. f \in BOOLEAN
      OBVIOUS
    <3>2. dec'[j] = [d EXCEPT !.tokens = cut, !.failed = f]
      BY <1>1, <2>4
    <3> HIDE DEF cut, d, f
    <3>3. dec'[j] \in DecoderType
      BY <2>1, <2>3, <3>1, <3>2 DEF DecoderType
    <3>4. dec'[j].tokens = cut /\ dec'[j].result_len = d.result_len
      BY <2>1, <3>2 DEF DecoderType
    <3> QED
      BY <2>2, <2>3, <3>3, <3>4
  <2>5. CASE j \notin scored
    BY <1>1, <2>1, <2>5
  <2> QED
    BY <2>4, <2>5
<1>4. dec' \in [Decoders -> DecoderType]
  <2>1. dec' = [j \in Decoders |-> dec'[j]]
    BY <1>1, Zenon
  <2> QED
    BY <1>3, <2>1
<1>5. pc' \in {"prompt", "output"} /\ it' \in Nat
  <2>1. \/ it' = it + 1 /\ pc' = "prompt"
        \/ it' = it /\ pc' = "output"
    BY Zenon DEF Rank
  <2> QED
    BY <1>0, <2>1 DEF DecodingTypes
<1>6. UNCHANGED <<call, rc, past, taken, i, kv>>
  BY DEF Rank
<1>7. DecodingTypes'
  BY <1>0, <1>2, <1>3, <1>4, <1>5, <1>6 DEF DecodingTypes
<1>8. CellsSound'
  BY <1>6 DEF DecodingInv, CellsSound, CellsPaired
<1> QED
  BY <1>5, <1>7, <1>8 DEF DecodingInv, SequencesGrow, CellsBelow, HistoryHeld, Deciding

LEMMA OutputKeeps ==
  ASSUME DecodingInv, Output
  PROVE  DecodingInv'
<1>1. UNCHANGED <<call, rc, it, taken, i, kv, best>> /\ pc' = "window"
      /\ dec' = [j \in Decoders |-> NewDecoder]
      /\ past' = (IF taken = NoSlot THEN 0 ELSE taken) + dec[best].result_len
  BY DEF Output
<1>2. past' \in Nat
  <2>1. dec[best] \in DecoderType
    BY DEF DecodingInv, DecodingTypes
  <2>2. dec[best].result_len \in Nat
    BY <2>1 DEF DecoderType
  <2>3. taken \in {NoSlot} \cup 1 .. TextCtx \div 2
    BY DEF DecodingInv, DecodingTypes
  <2> QED
    BY <1>1, <2>2, <2>3, Numbers
<1>3. \A j \in Decoders : dec'[j] = NewDecoder
  BY <1>1
<1>4. \A j \in Decoders : dec'[j].result_len <= Len(dec'[j].tokens)
  BY <1>3, NewDecoderTyped
<1>5. DecodingTypes'
  BY <1>1, <1>2, <1>4, NewDecoderTyped DEF DecodingInv, DecodingTypes
<1>6. CellsSound'
  BY <1>1 DEF DecodingInv, CellsSound, CellsPaired
<1> QED
  BY <1>1, <1>5, <1>6 DEF DecodingInv, SequencesGrow, CellsBelow, HistoryHeld, Deciding

-----------------------------------------------------------------------------
(* Sampling.                                                               *)

LEMMA SameCall ==
  ASSUME UNCHANGED <<call, it, taken>>
  PROVE  NDecoders' = NDecoders /\ Current' = Current /\ PromptLen' = PromptLen
<1>1. call' = call /\ it' = it /\ taken' = taken
  OBVIOUS
<1>2. NDecoders' = NDecoders
  BY <1>1 DEF NDecoders
<1>3. InitLen' = InitLen
  BY <1>1 DEF InitLen
<1> QED
  BY <1>1, <1>2, <1>3 DEF Current, PromptLen

\* In either strategy every live decoder takes over a live decoder's sequence,
\* its own in greedy sampling, and adds a token.
LEMMA SampledDecoders ==
  ASSUME DecodingInv, pc = "sample", NEW from \in [Live -> Live], NEW ids \in [Live -> Ids],
         \A j \in Live : ids[j] \in Allowed(dec[from[j]]),
         dec' = [j \in Decoders |-> IF j \in Live THEN Accept(AddToken(dec[from[j]], ids[j]), ids[j])
                                    ELSE dec[j]],
         AfterSample
  PROVE  /\ DecodingTypes' /\ SequencesGrow'
         /\ Live' \in SUBSET Live /\ \A j \in Live : dec'[j].by = dec[from[j]].by
         /\ UNCHANGED <<call, it, taken, i>>
<1>1. /\ DecodingTypes /\ SequencesGrow /\ Deciding
      /\ Current \in SUBSET Decoders /\ Live \in SUBSET Decoders
  BY CallBounds DEF DecodingInv, DecodingTypes, Live, Deciding
<1>2. UNCHANGED <<call, rc, past, it, taken, i, best>> /\ call' = call /\ i' = i
  BY DEF AfterSample
<1>3. Current' = Current
  BY <1>2, SameCall
<1>4. ASSUME NEW j \in Live
      PROVE  /\ dec'[j] \in DecoderType /\ dec'[j].by = dec[from[j]].by
             /\ Len(dec'[j].tokens) = i + 1 /\ dec'[j].result_len <= i + 1 /\ Len(dec'[j].by) = i
             /\ call.no_timestamps /\ ~dec'[j].failed /\ ~dec'[j].completed =>
                  dec'[j].result_len = 0 /\ i # NMax - 1
  <2> DEFINE d == dec[from[j]]
  <2>1. from[j] \in Live /\ from[j] \in Decoders /\ j \in Decoders
    BY <1>1
  <2>2. /\ d \in DecoderType /\ d.result_len <= Len(d.tokens) /\ Len(d.tokens) = i /\ Len(d.by) = i
        /\ call.no_timestamps => d.result_len = 0
    BY <1>1, <2>1 DEF DecodingTypes, SequencesGrow
  <2>3. PICK id \in Ids : id = ids[j] /\ id \in Allowed(d)
    BY <2>1
  <2>4. call.no_timestamps => id < 0
    <3>1. call.no_timestamps => ~IsTs(id)
      BY <2>3 DEF Allowed
    <3>2. id \in Int
      BY Numbers DEF Ids, Text
    <3> QED
      BY <3>1, <3>2 DEF IsTs, Beg
  <2>5. PICK e \in DecoderType : /\ e = AddToken(d, id) /\ Len(e.tokens) = i + 1 /\ e.by = d.by
                                 /\ e.result_len = d.result_len
    <3> DEFINE t == Append(d.tokens, id)
    <3>1. d.tokens \in Seq(Ids)
      BY <2>2 DEF DecoderType
    <3>2. t \in Seq(Ids) /\ Len(t) = i + 1
      BY <3>1, <2>2
    <3>3. AddToken(d, id) = [d EXCEPT !.tokens = t]
      BY DEF AddToken
    <3> HIDE DEF t, d
    <3>4. AddToken(d, id) \in DecoderType /\ AddToken(d, id).tokens = t /\ AddToken(d, id).by = d.by
          /\ AddToken(d, id).result_len = d.result_len
      BY <2>2, <3>2, <3>3 DEF DecoderType
    <3> QED
      BY <3>2, <3>4
  <2>6. i \in Nat /\ call \in Calls /\ e.result_len <= i + 1
    <3>1. i \in Nat /\ call \in Calls
      <4>1. i \in 0 .. NMax /\ NMax \in Nat
        BY <1>1, Numbers DEF DecodingTypes
      <4>2. i \in Nat
        BY <4>1
      <4> QED
        BY <1>1, <4>2 DEF DecodingTypes
    <3>2. d.result_len \in Nat
      BY <2>2 DEF DecoderType
    <3> HIDE DEF d
    <3>3. e.result_len \in Nat /\ e.result_len <= i
      BY <2>2, <2>5, <3>2
    <3> QED
      BY <3>1, <3>3
  <2>7. /\ Accept(e, id) \in DecoderType
        /\ Accept(e, id).tokens = e.tokens /\ Accept(e, id).by = e.by
        /\ Accept(e, id).result_len <= i + 1
        /\ id < 0 /\ e.result_len = 0 /\ ~Accept(e, id).failed /\ ~Accept(e, id).completed =>
               Accept(e, id).result_len = 0 /\ i # NMax - 1
    BY <2>5, <2>6, Accepted
  <2>8. dec'[j] = Accept(e, id)
    BY <2>1, <2>3, <2>5
  <2> HIDE DEF d
  <2> QED
    BY <2>2, <2>4, <2>5, <2>7, <2>8 DEF d
<1>5. \A j \in Decoders \ Live : dec'[j] = dec[j]
  OBVIOUS
<1>6. Live' \in SUBSET Live
  BY <1>1, <1>3, <1>5 DEF Live
<1>7. dec' \in [Decoders -> DecoderType]
  <2>1. \A j \in Decoders : dec'[j] \in DecoderType
    BY <1>1, <1>4, <1>5 DEF DecodingTypes
  <2>2. dec' = [j \in Decoders |-> dec'[j]]
    BY Zenon
  <2> QED
    BY <2>1, <2>2
<1>8. \A j \in Decoders : dec'[j].result_len <= Len(dec'[j].tokens)
  BY <1>1, <1>4, <1>5 DEF DecodingTypes
<1>9. pc' \in {"rank", "extend"} /\ (pc' = "extend" => Live' # {})
  BY DEF AfterSample
<1>10. DecodingTypes'
  BY <1>1, <1>2, <1>7, <1>8, <1>9 DEF DecodingTypes
<1>11. SequencesGrow'
  <2>1. i < NMax /\ i \in Nat
    BY <1>1, Numbers DEF SequencesGrow, DecodingTypes
  <2>2. \A j \in Live' : j \in Live /\ ~dec'[j].failed /\ ~dec'[j].completed
    BY <1>6 DEF Live
  <2>3. \A j \in Live' :
          /\ Len(dec'[j].by) = i
          /\ Len(dec'[j].tokens) = i + 1
          /\ call.no_timestamps => dec'[j].result_len = 0 /\ i # NMax - 1
    BY <1>4, <2>2
  <2>4. pc' = "extend" /\ call.no_timestamps => i < NMax - 1
    <3> SUFFICES ASSUME pc' = "extend", call.no_timestamps
                 PROVE  i < NMax - 1
      OBVIOUS
    <3>1. PICK j \in Live' : TRUE
      BY <1>9
    <3>2. i # NMax - 1
      BY <2>3, <3>1
    <3> QED
      BY <2>1, <3>2, Numbers
  <2>5. CASE pc' = "extend"
    <3>1. \A j \in Live' :
            /\ Len(dec'[j].by) = i'
            /\ Len(dec'[j].tokens) = IF pc' = "extend" THEN i' + 1 ELSE i'
            /\ call'.no_timestamps => dec'[j].result_len = 0
      BY <1>2, <2>3, <2>5
    <3>2. i' < NMax /\ (pc' = "extend" /\ call'.no_timestamps => i' < NMax - 1)
      BY <1>2, <2>1, <2>4
    <3> QED
      BY <3>1, <3>2 DEF SequencesGrow
  <2>6. CASE pc' = "rank"
    BY <2>6 DEF SequencesGrow, Deciding
  <2> QED
    BY <1>9, <2>5, <2>6
<1> QED
  BY <1>2, <1>4, <1>6, <1>10, <1>11

LEMMA SampleGreedyKeeps ==
  ASSUME DecodingInv, SampleGreedy
  PROVE  DecodingInv'
<1>1. PICK ids \in [Live -> Ids] :
        /\ \A j \in Live : ids[j] \in Allowed(dec[j])
        /\ dec' = [j \in Decoders |-> IF j \in Live THEN Accept(AddToken(dec[j], ids[j]), ids[j])
                                      ELSE dec[j]]
  BY DEF SampleGreedy
<1>2. PICK from \in [Live -> Live] : \A j \in Live : from[j] = j
  <2>1. [j \in Live |-> j] \in [Live -> Live] /\ \A j \in Live : [k \in Live |-> k][j] = j
    OBVIOUS
  <2> QED
    BY <2>1, Zenon
<1>3. pc = "sample" /\ AfterSample /\ kv' = kv
  BY DEF SampleGreedy
<1>4. dec' = [j \in Decoders |-> IF j \in Live THEN Accept(AddToken(dec[from[j]], ids[j]), ids[j])
                                 ELSE dec[j]]
  BY <1>1, <1>2
<1>5. \A j \in Live : ids[j] \in Allowed(dec[from[j]])
  BY <1>1, <1>2
<1>6. /\ DecodingTypes' /\ SequencesGrow'
      /\ Live' \in SUBSET Live /\ \A j \in Live : dec'[j].by = dec[from[j]].by
      /\ UNCHANGED <<call, it, taken, i>>
  BY <1>1, <1>2, <1>3, <1>4, <1>5, SampledDecoders
<1>7. NDecoders' = NDecoders /\ PromptLen' = PromptLen /\ i' = i
  BY <1>6, SameCall
<1>8. Deciding /\ \A j \in Live : dec'[j].by = dec[j].by
  BY <1>2, <1>3, <1>6 DEF Deciding
<1>9. CellsSound'
  BY <1>3 DEF DecodingInv, CellsSound, CellsPaired
<1>10. CellsBelow'
  BY <1>3, <1>7, <1>8 DEF DecodingInv, CellsBelow
<1>11. HistoryHeld'
  BY <1>3, <1>6, <1>7, <1>8 DEF DecodingInv, HistoryHeld
<1> QED
  BY <1>6, <1>9, <1>10, <1>11 DEF DecodingInv

\* Beam search: a decoder is in the cells its predecessor was in, if it goes on,
\* and these stay as they are.
LEMMA TakenOver ==
  ASSUME NEW k \in CacheType, CellsPaired(k), NEW S \in SUBSET Decoders, NEW from \in [S -> S]
  PROVE  /\ TakeOver(k, from) \in CacheType /\ CellsPaired(TakeOver(k, from))
         /\ TakeOver(k, from).head = 0 /\ TakeOver(k, from).n = k.n
         /\ \A c \in CellIds :
              LET new == TakeOver(k, from).cells[c]
              IN  /\ new.seqs # {} => k.cells[c].seqs # {} /\ new.pos = k.cells[c].pos /\ new.val = k.cells[c].val
                  /\ new.seqs = {} => new.pos < 0
                  /\ \A j \in S : j \in new.seqs <=> from[j] \in k.cells[c].seqs
<1> DEFINE Seqs(c) == (k.cells[c].seqs \ S) \cup {j \in S : from[j] \in k.cells[c].seqs}
           t       == TakeOver(k, from)
<1>1. DOMAIN from = S
  OBVIOUS
<1>2. /\ t = [k EXCEPT !.head = 0, !.cells = [c \in CellIds |-> Regroup(k.cells[c], Seqs(c))]]
  BY <1>1 DEF TakeOver
<1>3. ASSUME NEW c \in CellIds
      PROVE  /\ Regroup(k.cells[c], Seqs(c)) \in CellType
             /\ LET new == Regroup(k.cells[c], Seqs(c))
                IN  /\ new.pos >= 0 <=> new.seqs # {}
                    /\ new.seqs # {} => k.cells[c].seqs # {} /\ new.pos = k.cells[c].pos /\ new.val = k.cells[c].val
                    /\ new.seqs = {} => new.pos < 0
                    /\ \A j \in S : j \in new.seqs <=> from[j] \in k.cells[c].seqs
  <2> DEFINE old == k.cells[c]
             new == Regroup(old, Seqs(c))
  <2>1. old \in CellType /\ (old.pos >= 0 <=> old.seqs # {}) /\ old.pos \in Int
    BY DEF CacheType, CellType, CellsPaired
  <2>2. /\ Seqs(c) \in SUBSET Decoders
        /\ \A j \in S : j \in Seqs(c) <=> from[j] \in old.seqs
        /\ Seqs(c) # {} => old.seqs # {}
    BY <2>1 DEF CellType
  <2> HIDE DEF Seqs
  <2>3. CASE old.pos < 0 \/ Seqs(c) = {}
    <3>1. new = Free
      BY <2>3 DEF Regroup
    <3>2. new \in CellType /\ new.pos = -1 /\ new.seqs = {}
      BY <3>1 DEF Free, CellType
    <3>3. \A j \in S : from[j] \notin old.seqs
      BY <2>1, <2>2, <2>3
    <3> QED
      BY <3>2, <3>3
  <2>4. CASE ~(old.pos < 0 \/ Seqs(c) = {})
    <3>1. new = [old EXCEPT !.seqs = Seqs(c)]
      BY <2>4 DEF Regroup
    <3> HIDE DEF new, old
    <3>2. new \in CellType /\ new.pos = old.pos /\ new.val = old.val /\ new.seqs = Seqs(c)
      BY <3>1, <2>1, <2>2 DEF CellType
    <3>3. old.pos >= 0 /\ Seqs(c) # {}
      BY <2>1, <2>4
    <3> QED
      BY <3>2, <3>3, <2>1, <2>2 DEF old, new
  <2> QED
    BY <2>3, <2>4
<1>4. \A c \in CellIds : t.cells[c] = Regroup(k.cells[c], Seqs(c))
  BY <1>2 DEF CacheType
<1>5. t.head = 0 /\ t.n = k.n
  BY <1>2 DEF CacheType
<1>6. t \in CacheType
  <2>1. [c \in CellIds |-> Regroup(k.cells[c], Seqs(c))] \in [CellIds -> CellType]
    BY <1>3
  <2> HIDE DEF t, Seqs
  <2> QED
    BY <1>2, <2>1 DEF CacheType
<1> HIDE DEF t, Seqs
<1>7. CellsPaired(t)
  BY <1>3, <1>4 DEF CellsPaired
<1> QED
  BY <1>3, <1>4, <1>5, <1>6, <1>7 DEF t

LEMMA SampleBeamKeeps ==
  ASSUME DecodingInv, SampleBeam
  PROVE  DecodingInv'
<1>1. PICK from \in [Live -> Live], ids \in [Live -> Ids] :
        /\ \A j \in Live : ids[j] \in Allowed(dec[from[j]])
        /\ dec' = [j \in Decoders |->
                      IF j \in Live
                      THEN Accept(AddToken(dec[from[j]], ids[j]), ids[j])
                      ELSE dec[j]]
        /\ kv' = TakeOver(kv, from)
  BY DEF SampleBeam
<1>2. pc = "sample" /\ AfterSample /\ Deciding
  BY DEF SampleBeam, Deciding
<1>3. /\ DecodingTypes' /\ SequencesGrow'
      /\ Live' \in SUBSET Live /\ \A j \in Live : dec'[j].by = dec[from[j]].by
      /\ UNCHANGED <<call, it, taken, i>>
  BY <1>1, <1>2, SampledDecoders
<1>4. NDecoders' = NDecoders /\ PromptLen' = PromptLen /\ i' = i
  BY <1>3, SameCall
<1>5. /\ kv \in CacheType /\ CellsPaired(kv) /\ Live \in SUBSET Decoders
      /\ \A c \in CellIds : kv.cells[c].pos < TextCtx
      /\ NDecoders \in Nat /\ PromptLen \in Nat /\ i \in Nat /\ TextCtx \in Nat
  BY CallBounds, PromptBounds, Numbers DEF DecodingInv, DecodingTypes, CellsSound, Live
<1>6. /\ kv' \in CacheType /\ CellsPaired(kv') /\ kv'.head = 0 /\ kv'.n = kv.n
      /\ \A c \in CellIds :
           /\ kv'.cells[c].seqs # {} =>
                kv.cells[c].seqs # {} /\ kv'.cells[c].pos = kv.cells[c].pos /\ kv'.cells[c].val = kv.cells[c].val
           /\ kv'.cells[c].seqs = {} => kv'.cells[c].pos < 0
           /\ \A j \in Live : j \in kv'.cells[c].seqs <=> from[j] \in kv.cells[c].seqs
  <2>1. PICK k \in CacheType : k = kv
    BY <1>5
  <2>2. PICK S \in SUBSET Decoders : S = Live
    BY <1>5
  <2>3. CellsPaired(k) /\ from \in [S -> S]
    BY <1>5, <2>1, <2>2
  <2> DEFINE t == TakeOver(k, from)
  <2>4. /\ t \in CacheType /\ CellsPaired(t) /\ t.head = 0 /\ t.n = k.n
        /\ \A c \in CellIds :
             /\ t.cells[c].seqs # {} =>
                  k.cells[c].seqs # {} /\ t.cells[c].pos = k.cells[c].pos /\ t.cells[c].val = k.cells[c].val
             /\ t.cells[c].seqs = {} => t.cells[c].pos < 0
             /\ \A j \in S : j \in t.cells[c].seqs <=> from[j] \in k.cells[c].seqs
    <3>1. /\ TakeOver(k, from) \in CacheType /\ CellsPaired(TakeOver(k, from))
          /\ TakeOver(k, from).head = 0 /\ TakeOver(k, from).n = k.n
      BY <2>3, TakenOver
    <3>2. \A c \in CellIds :
             LET new == TakeOver(k, from).cells[c]
             IN  /\ new.seqs # {} => k.cells[c].seqs # {} /\ new.pos = k.cells[c].pos /\ new.val = k.cells[c].val
                 /\ new.seqs = {} => new.pos < 0
                 /\ \A j \in S : j \in new.seqs <=> from[j] \in k.cells[c].seqs
      BY <2>3, TakenOver
    <3> QED
      BY <3>1, <3>2, Zenon
  <2>5. kv' = t
    BY <1>1, <2>1
  <2> HIDE DEF t
  <2> QED
    BY <2>1, <2>2, <2>4, <2>5
<1>7. CellsSound'
  <2>1. ASSUME NEW c \in CellIds PROVE kv'.cells[c].pos < TextCtx
    <3>1. kv'.cells[c] \in CellType
      BY <1>6 DEF CacheType
    <3>2. kv'.cells[c].pos \in Int
      BY <3>1 DEF CellType
    <3> QED
      BY <1>5, <1>6, <3>2
  <2>2. CellsPaired(kv)'
    BY <1>6 DEF CellsPaired
  <2> QED
    BY <1>6, <2>1, <2>2 DEF CellsSound
<1>8. CellsBelow'
  <2>1. \A c \in CellIds : kv.cells[c].seqs # {} =>
          c < PromptLen + NDecoders * i /\ c < kv.n /\ kv.cells[c].pos < PromptLen + i
    BY <1>2 DEF DecodingInv, CellsBelow
  <2>2. 0 <= PromptLen + NDecoders * i
    BY <1>5, TimesMono
  <2>3. \A c \in CellIds : kv'.cells[c].seqs # {} =>
          c < PromptLen' + NDecoders' * i' /\ c < kv'.n /\ kv'.cells[c].pos < PromptLen' + i'
    BY <1>4, <1>6, <2>1
  <2> QED
    BY <1>4, <1>6, <2>2, <2>3 DEF CellsBelow
<1>9. HistoryHeld'
  <2> SUFFICES ASSUME NEW j \in Live'
        PROVE  /\ \A p \in 0 .. PromptLen' + i' - 1 :
                    \E c \in CellIds : j \in kv'.cells[c].seqs /\ kv'.cells[c].pos = p
               /\ \A c, e \in CellIds :
                    j \in kv'.cells[c].seqs /\ j \in kv'.cells[e].seqs
                    /\ kv'.cells[c].pos = kv'.cells[e].pos => c = e
               /\ \A c \in CellIds : j \in kv'.cells[c].seqs =>
                    kv'.cells[c].val = IF kv'.cells[c].pos < PromptLen' THEN Prompt
                                      ELSE dec'[j].by[kv'.cells[c].pos - PromptLen' + 1]
    BY DEF HistoryHeld
  <2>1. j \in Live /\ from[j] \in Live /\ dec'[j].by = dec[from[j]].by
    BY <1>3
  <2>2. \A c \in CellIds : /\ j \in kv'.cells[c].seqs <=> from[j] \in kv.cells[c].seqs
                           /\ j \in kv'.cells[c].seqs =>
                                kv'.cells[c].pos = kv.cells[c].pos /\ kv'.cells[c].val = kv.cells[c].val
    BY <1>6, <2>1
  <2>3. /\ \A p \in 0 .. PromptLen + i - 1 :
              \E c \in CellIds : from[j] \in kv.cells[c].seqs /\ kv.cells[c].pos = p
        /\ \A c, e \in CellIds :
              from[j] \in kv.cells[c].seqs /\ from[j] \in kv.cells[e].seqs
              /\ kv.cells[c].pos = kv.cells[e].pos => c = e
        /\ \A c \in CellIds : from[j] \in kv.cells[c].seqs =>
              kv.cells[c].val = IF kv.cells[c].pos < PromptLen THEN Prompt
                                ELSE dec[from[j]].by[kv.cells[c].pos - PromptLen + 1]
    BY <1>2, <2>1 DEF DecodingInv, HistoryHeld
  <2>4. \A p \in 0 .. PromptLen' + i' - 1 :
          \E c \in CellIds : j \in kv'.cells[c].seqs /\ kv'.cells[c].pos = p
    <3> SUFFICES ASSUME NEW p \in 0 .. PromptLen + i - 1
                 PROVE  \E c \in CellIds : j \in kv'.cells[c].seqs /\ kv'.cells[c].pos = p
      BY <1>4
    <3>1. PICK c \in CellIds : from[j] \in kv.cells[c].seqs /\ kv.cells[c].pos = p
      BY <2>3
    <3> QED
      BY <2>2, <3>1
  <2>5. \A c, e \in CellIds :
          j \in kv'.cells[c].seqs /\ j \in kv'.cells[e].seqs
          /\ kv'.cells[c].pos = kv'.cells[e].pos => c = e
    BY <2>2, <2>3
  <2>6. \A c \in CellIds : j \in kv'.cells[c].seqs =>
          kv'.cells[c].val = IF kv'.cells[c].pos < PromptLen' THEN Prompt
                             ELSE dec'[j].by[kv'.cells[c].pos - PromptLen' + 1]
    BY <1>4, <2>1, <2>2, <2>3
  <2> QED
    BY <2>4, <2>5, <2>6
<1> QED
  BY <1>3, <1>7, <1>8, <1>9 DEF DecodingInv

-----------------------------------------------------------------------------
(* Batches.                                                                *)

TokenType == [pos : Nat, seq : Decoders, val : Decoders \cup {Prompt}]

\* A batch that is put into free cells owns them, and nothing else changes.
LEMMA BatchPut ==
  ASSUME NEW k \in CacheType, CellsPaired(k), NEW n \in Nat, NEW b \in [1 .. n -> TokenType],
         NEW s \in Nat, s + n <= KvSize,
         \A c \in CellIds : s <= c /\ c < s + n => k.cells[c].pos < 0
  PROVE  /\ Put(k, s, b) \in CacheType /\ CellsPaired(Put(k, s, b)) /\ Put(k, s, b).head = s
         /\ \A c \in CellIds :
              LET new == Put(k, s, b).cells[c]
              IN  /\ ~(s <= c /\ c < s + n) => new = k.cells[c]
                  /\ s <= c /\ c < s + n =>
                       new.pos = b[c - s + 1].pos /\ new.seqs = {b[c - s + 1].seq} /\ new.val = b[c - s + 1].val
                  /\ new.seqs # {} => c < Put(k, s, b).n
<1> DEFINE New(c) == [pos |-> b[c - s + 1].pos, seqs |-> k.cells[c].seqs \cup {b[c - s + 1].seq},
                      val |-> b[c - s + 1].val]
           cells == [c \in CellIds |-> IF c \in s .. s + Len(b) - 1 THEN New(c) ELSE k.cells[c]]
           k2    == [k EXCEPT !.head = s, !.cells = cells]
           t     == Put(k, s, b)
<1>1. Len(b) = n
  OBVIOUS
<1>2. t = [k2 EXCEPT !.n = CellMax(k2)]
  BY DEF Put
<1>3. ASSUME NEW c \in CellIds, s <= c, c < s + n
      PROVE  /\ New(c) \in CellType /\ New(c).pos >= 0 /\ cells[c] = New(c)
             /\ New(c).pos = b[c - s + 1].pos /\ New(c).seqs = {b[c - s + 1].seq} /\ New(c).val = b[c - s + 1].val
  <2>1. c - s + 1 \in 1 .. n /\ c \in s .. s + Len(b) - 1
    BY <1>1, <1>3 DEF CellIds
  <2>2. PICK x \in TokenType : x = b[c - s + 1]
    BY <2>1
  <2>3. x.pos \in Nat /\ x.seq \in Decoders /\ x.val \in Decoders \cup {Prompt}
    BY DEF TokenType
  <2>4. k.cells[c].pos < 0 /\ k.cells[c].seqs = {}
    <3>1. k.cells[c] \in CellType
      BY DEF CacheType
    <3>2. k.cells[c].pos \in Int /\ k.cells[c].pos < 0
      BY <1>3, <3>1 DEF CellType
    <3> QED
      BY <3>2 DEF CellsPaired
  <2>5. New(c) = [pos |-> x.pos, seqs |-> {x.seq}, val |-> x.val]
    BY <2>2, <2>4
  <2>6. cells[c] = New(c)
    BY <2>1
  <2> HIDE DEF New, cells
  <2> QED
    BY <2>2, <2>3, <2>5, <2>6 DEF CellType
<1>4. ASSUME NEW c \in CellIds, ~(s <= c /\ c < s + n)
      PROVE  cells[c] = k.cells[c] /\ cells[c] \in CellType
  <2>1. c \notin s .. s + Len(b) - 1
    BY <1>1, <1>4 DEF CellIds
  <2> QED
    BY <2>1 DEF CacheType
<1>5. cells \in [CellIds -> CellType]
  <2>1. \A c \in CellIds : cells[c] \in CellType
    BY <1>3, <1>4
  <2>2. cells = [c \in CellIds |-> cells[c]]
    OBVIOUS
  <2> HIDE DEF cells
  <2> QED
    BY <2>1, <2>2
<1>6. \A c \in CellIds : cells[c].pos >= 0 <=> cells[c].seqs # {}
  <2>1. ASSUME NEW c \in CellIds PROVE cells[c].pos >= 0 <=> cells[c].seqs # {}
    <3> HIDE DEF cells, New
    <3>1. CASE s <= c /\ c < s + n
      <4>1. cells[c] = New(c) /\ New(c).pos >= 0 /\ New(c).seqs = {b[c - s + 1].seq}
        BY <1>3, <3>1
      <4> QED
        BY <4>1
    <3>2. CASE ~(s <= c /\ c < s + n)
      BY <1>4, <3>2 DEF CellsPaired
    <3> QED
      BY <3>1, <3>2
  <2> QED
    BY <2>1
<1> HIDE DEF cells, New
<1>7. k2.cells = cells /\ k2.head = s
  BY DEF CacheType
<1>8. /\ CellMax(k2) \in 1 .. KvSize
      /\ \A c \in CellIds : cells[c].pos >= 0 /\ cells[c].seqs # {} => c < CellMax(k2)
  <2> HIDE DEF k2
  <2> QED
    BY <1>5, <1>7, CellMaxCovers
<1>9. k2 \in CacheType
  BY <1>5 DEF CacheType
<1> HIDE DEF k2
<1>10. t \in CacheType /\ t.head = s /\ t.cells = cells /\ t.n = CellMax(k2)
  <2>1. PICK m \in 0 .. KvSize : m = CellMax(k2)
    BY <1>8, Numbers
  <2>2. t = [k2 EXCEPT !.n = m]
    BY <1>2, <2>1
  <2> HIDE DEF t
  <2> QED
    BY <1>7, <1>9, <2>1, <2>2 DEF CacheType
<1> HIDE DEF t
<1>11. CellsPaired(t)
  BY <1>6, <1>10 DEF CellsPaired
<1>12. \A c \in CellIds : t.cells[c].seqs # {} => c < t.n
  BY <1>6, <1>8, <1>10
<1> QED
  BY <1>3, <1>4, <1>10, <1>11, <1>12 DEF t

\* The prompt in an empty cache, shared: position p is in cell p, in everybody's sequence.
LEMMA PromptShared ==
  ASSUME NEW P \in Nat, P <= KvSize, NEW N \in Nat \ {0}, N <= MaxDecoders
  PROVE  LET b == [p \in 1 .. P |-> [pos |-> p - 1, seq |-> 0, val |-> Prompt]]
             k == Share(Put(Cleared, 0, b), N)
         IN  /\ k \in CacheType /\ CellsPaired(k) /\ k.head = 0
             /\ \A c \in CellIds :
                  /\ c < P => k.cells[c] = [pos |-> c, seqs |-> 0 .. N - 1, val |-> Prompt] /\ c < k.n
                  /\ c >= P => k.cells[c] = Free
<1> DEFINE b == [p \in 1 .. P |-> [pos |-> p - 1, seq |-> 0, val |-> Prompt]]
           t == Put(Cleared, 0, b)
           k == Share(t, N)
<1>1. b \in [1 .. P -> TokenType]
  BY Numbers DEF TokenType
<1>2. \A c \in CellIds : c \in Nat /\ c + 1 \in Nat /\ (c < P => c + 1 \in 1 .. P) /\ (c < P <=> ~(c >= P))
  BY DEF CellIds
<1>3. \A c \in CellIds : c < P => b[c + 1] = [pos |-> c, seq |-> 0, val |-> Prompt]
  BY <1>2
<1> HIDE DEF b
<1>4. /\ t \in CacheType /\ CellsPaired(t) /\ t.head = 0
      /\ \A c \in CellIds :
           LET new == t.cells[c]
           IN  /\ ~(0 <= c /\ c < 0 + P) => new = Cleared.cells[c]
               /\ 0 <= c /\ c < 0 + P =>
                    new.pos = b[c - 0 + 1].pos /\ new.seqs = {b[c - 0 + 1].seq} /\ new.val = b[c - 0 + 1].val
               /\ new.seqs # {} => c < t.n
  <2>1. \A c \in CellIds : Cleared.cells[c].pos < 0
    BY ClearedSound DEF Free
  <2>2. 0 \in Nat /\ 0 + P <= KvSize
    OBVIOUS
  <2> QED
    BY <1>1, <2>1, <2>2, ClearedSound, BatchPut
<1> HIDE DEF t
<1>5. ASSUME NEW c \in CellIds
      PROVE  /\ c < P => t.cells[c] = [pos |-> c, seqs |-> {0}, val |-> Prompt] /\ c < t.n
             /\ c >= P => t.cells[c] = Free
  <2>1. t.cells[c] \in CellType
    BY <1>4 DEF CacheType
  <2>2. t.cells[c] = [pos |-> t.cells[c].pos, seqs |-> t.cells[c].seqs, val |-> t.cells[c].val]
    BY <2>1 DEF CellType
  <2>3. CASE c < P
    <3>1. 0 <= c /\ c < 0 + P /\ c - 0 + 1 = c + 1
      BY <1>2, <2>3
    <3>2. t.cells[c].pos = b[c + 1].pos /\ t.cells[c].seqs = {b[c + 1].seq} /\ t.cells[c].val = b[c + 1].val
      BY <1>4, <3>1
    <3>a. b[c + 1].pos = c /\ b[c + 1].seq = 0 /\ b[c + 1].val = Prompt
      <4>1. PICK x : x = b[c + 1]
        OBVIOUS
      <4>2. x = [pos |-> c, seq |-> 0, val |-> Prompt]
        BY <1>3, <2>3, <4>1
      <4>3. x.pos = c /\ x.seq = 0 /\ x.val = Prompt
        BY <4>2
      <4> QED
        BY <4>1, <4>3
    <3>3. t.cells[c].pos = c /\ t.cells[c].seqs = {0} /\ t.cells[c].val = Prompt
      BY <3>2, <3>a
    <3>4. c < t.n
      BY <1>4, <3>3
    <3> QED
      BY <1>2, <2>2, <2>3, <3>3, <3>4
  <2>4. CASE c >= P
    BY <1>2, <1>4, <2>4, ClearedSound
  <2> QED
    BY <1>2, <2>3, <2>4
<1>6. CASE N = 1
  <2>1. k = t
    BY <1>6 DEF Share
  <2>2. 0 .. N - 1 = {0}
    BY <1>6
  <2> QED
    BY <1>4, <1>5, <2>1, <2>2 DEF t, b
<1>7. CASE N # 1
  <2> DEFINE Shared(cell) == IF 0 \in cell.seqs THEN Regroup(cell, cell.seqs \cup 1 .. N - 1) ELSE cell
             cells == [c \in CellIds |-> Shared(t.cells[c])]
  <2>1. k = [t EXCEPT !.head = 0, !.cells = cells]
    BY <1>7 DEF Share
  <2>2. ASSUME NEW c \in CellIds
        PROVE  /\ c < P => cells[c] = [pos |-> c, seqs |-> 0 .. N - 1, val |-> Prompt]
               /\ c >= P => cells[c] = Free
    <3>1. CASE c < P
      <4>1. t.cells[c] = [pos |-> c, seqs |-> {0}, val |-> Prompt] /\ c \in Nat
        BY <1>2, <1>5, <3>1
      <4>2. t.cells[c].seqs \cup 1 .. N - 1 = 0 .. N - 1 /\ 0 .. N - 1 # {} /\ 0 \in t.cells[c].seqs
        BY <4>1
      <4>3. PICK o : o = t.cells[c]
        OBVIOUS
      <4>a. o = [pos |-> c, seqs |-> {0}, val |-> Prompt] /\ o.pos = c
        BY <4>1, <4>3
      <4>b. Shared(o) = Regroup(o, 0 .. N - 1)
        BY <4>2, <4>3
      <4>c. ~(o.pos < 0)
        BY <4>1, <4>a
      <4>d. Regroup(o, 0 .. N - 1) = [o EXCEPT !.seqs = 0 .. N - 1]
        BY <4>2, <4>c DEF Regroup
      <4>4. Shared(t.cells[c]) = [pos |-> c, seqs |-> 0 .. N - 1, val |-> Prompt]
        BY <4>3, <4>a, <4>b, <4>d
      <4> QED
        BY <1>2, <3>1, <4>4
    <3>2. CASE c >= P
      <4>1. t.cells[c] = Free /\ 0 \notin Free.seqs
        BY <1>5, <3>2 DEF Free
      <4> QED
        BY <1>2, <3>2, <4>1
    <3> QED
      BY <1>2, <3>1, <3>2
  <2>3. cells \in [CellIds -> CellType]
    <3>1. ASSUME NEW c \in CellIds PROVE cells[c] \in CellType
      <4> HIDE DEF cells
      <4>1. 0 .. N - 1 \in SUBSET Decoders
        BY Numbers DEF Decoders
      <4>2. CASE c < P
        <5>1. c \in Int /\ Prompt \in {Prompt}
          BY <1>2
        <5>2. [pos |-> c, seqs |-> 0 .. N - 1, val |-> Prompt] \in CellType
          BY <4>1, <5>1 DEF CellType
        <5>3. cells[c] = [pos |-> c, seqs |-> 0 .. N - 1, val |-> Prompt]
          BY <2>2, <4>2
        <5> QED
          BY <5>2, <5>3
      <4>3. CASE c >= P
        <5>1. cells[c] = Free
          BY <2>2, <4>3
        <5> QED
          BY <5>1, FreeCell
      <4> QED
        BY <1>2, <4>2, <4>3
    <3> QED
      BY <3>1
  <2> HIDE DEF cells, k
  <2>4. k \in CacheType /\ k.cells = cells /\ k.head = 0 /\ k.n = t.n
    BY <1>4, <2>1, <2>3 DEF CacheType
  <2>5. CellsPaired(k)
    <3>1. ASSUME NEW c \in CellIds PROVE cells[c].pos >= 0 <=> cells[c].seqs # {}
      <4>1. CASE c < P
        <5>1. cells[c] = [pos |-> c, seqs |-> 0 .. N - 1, val |-> Prompt]
          BY <2>2, <4>1
        <5>2. c >= 0 /\ 0 \in 0 .. N - 1
          BY <1>2
        <5>3. cells[c].pos = c /\ cells[c].seqs = 0 .. N - 1
          BY <5>1
        <5> QED
          BY <5>2, <5>3
      <4>2. CASE c >= P
        <5>1. cells[c] = Free
          BY <2>2, <4>2
        <5> QED
          BY <5>1, FreeCell
      <4> QED
        BY <1>2, <4>1, <4>2
    <3> QED
      BY <2>4, <3>1 DEF CellsPaired
  <2> QED
    BY <1>5, <2>2, <2>4, <2>5 DEF k, t, b
<1> QED
  BY <1>6, <1>7

-----------------------------------------------------------------------------
(* The prompt and the next tokens are decoded.                             *)

\* An attempt's prompt is as long as its call and the past text make it.
LEMMA PromptTaken ==
  ASSUME DecodingInv, StartPrompt
  PROVE  /\ taken' \in {NoSlot} \cup 1 .. TextCtx \div 2
         /\ PromptLen' \in Nat \ {0} /\ PromptLen' <= TextCtx \div 2 + 5
         /\ UNCHANGED <<call, it>> /\ NDecoders' = NDecoders /\ Current' = Current
<1>1. call' = call /\ it' = it /\ call \in Calls /\ past \in Nat
      /\ taken' = IF past > 0 /\ it < WarmTemps THEN Min({TextCtx \div 2, past}) ELSE NoSlot
  BY DEF StartPrompt, DecodingInv, DecodingTypes
<1>2. taken' \in {NoSlot} \cup 1 .. TextCtx \div 2
  <2>1. CASE past > 0 /\ it < WarmTemps
    <3> DEFINE two == {TextCtx \div 2, past}
    <3>1. two \in SUBSET Nat /\ two # {} /\ past \in two /\ TextCtx \div 2 \in two
      BY <1>1, Numbers
    <3>2. Min(two) \in two /\ Min(two) <= TextCtx \div 2
      <4> HIDE DEF two
      <4> QED
        BY <3>1, MinOfNumbers
    <3>3. \A x \in two : x >= 1
      BY <1>1, <2>1, Numbers
    <3>4. taken' = Min(two)
      BY <1>1, <2>1
    <3> HIDE DEF two
    <3>5. Min(two) \in Nat /\ Min(two) >= 1
      BY <3>1, <3>2, <3>3
    <3> QED
      BY <3>2, <3>4, <3>5, Numbers
  <2>2. CASE ~(past > 0 /\ it < WarmTemps)
    BY <1>1, <2>2
  <2> QED
    BY <2>1, <2>2
<1>3. call.no_timestamps \in BOOLEAN /\ call.multilingual \in BOOLEAN
  BY <1>1, WhisperAssumption DEF CallType
<1>4. InitLen \in 1 .. 4 /\ InitLen' = InitLen
  BY <1>1, <1>3 DEF InitLen
<1>5. PromptLen' = InitLen + (IF taken' = NoSlot THEN 0 ELSE taken' + 1)
  BY <1>4 DEF PromptLen
<1>6. PromptLen' \in Nat \ {0} /\ PromptLen' <= TextCtx \div 2 + 5
  <2>1. PICK h \in Nat : h = TextCtx \div 2
    BY Numbers
  <2>2. PICK m \in 1 .. 4 : m = InitLen
    BY <1>4
  <2>3. taken' \in {NoSlot} \cup 1 .. h
    BY <1>2, <2>1
  <2>4. PromptLen' = m + (IF taken' = NoSlot THEN 0 ELSE taken' + 1)
    BY <1>5, <2>2
  <2>5. PromptLen' \in Nat \ {0} /\ PromptLen' <= h + 5
    <3>1. PICK t \in {NoSlot} \cup 1 .. h : t = taken'
      BY <2>3
    <3>2. PICK n \in Int : n = m + (IF t = NoSlot THEN 0 ELSE t + 1)
      BY DEF NoSlot
    <3>3. n \in Nat \ {0} /\ n <= h + 5
      BY <3>2 DEF NoSlot
    <3> QED
      BY <2>4, <3>1, <3>2, <3>3
  <2> QED
    BY <2>1, <2>5
<1>7. NDecoders' = NDecoders
  BY <1>1 DEF NDecoders
<1> QED
  BY <1>1, <1>2, <1>6, <1>7 DEF Current

LEMMA StartPromptKeeps ==
  ASSUME DecodingInv, StartPrompt
  PROVE  DecodingInv'
<1>1. PICK P \in Nat \ {0} : P = PromptLen' /\ P <= TextCtx \div 2 + 5
  BY PromptTaken
<1>2. /\ taken' \in {NoSlot} \cup 1 .. TextCtx \div 2 /\ NDecoders' = NDecoders /\ Current' = Current
      /\ call' = call /\ it' = it
  BY PromptTaken
<1>3. PICK N \in Nat \ {0} : /\ N = NDecoders /\ Current = 0 .. N - 1 /\ Current \in SUBSET Decoders
                             /\ TextCtx \div 2 + 4 + N * NMax <= KvSize
  BY CallBounds DEF DecodingInv, DecodingTypes
<1>a. P \in Nat /\ P >= 1 /\ P + 0 = P
  OBVIOUS
<1>b. N \in Nat /\ N >= 1 /\ N * 0 = 0
  OBVIOUS
<1>4. N <= MaxDecoders
  <2>1. N - 1 \in Decoders
    BY <1>3
  <2> QED
    BY <2>1, Numbers DEF Decoders
<1>5. P <= KvSize /\ P <= TextCtx
  <2>1. N * NMax \in Nat /\ N * 1 <= N * NMax
    BY <1>3, TimesMono, Numbers
  <2>2. N * 1 = N
    BY <1>3
  <2>3. P <= KvSize
    BY <1>1, <1>3, <2>1, <2>2, Numbers
  <2>4. TextCtx \div 2 + 5 <= TextCtx
    BY Numbers
  <2> QED
    BY <1>1, <2>3, <2>4, Numbers
<1> DEFINE b == [p \in 1 .. P |-> [pos |-> p - 1, seq |-> 0, val |-> Prompt]]
           k == Share(Put(Cleared, 0, b), N)
<1>6. FindSlot(Cleared, P) = 0
  <2>1. Cleared \in CacheType /\ Cleared.head <= 0 /\ \A c \in CellIds : Cleared.cells[c].pos < 0
    BY ClearedSound, FreeCell
  <2>2. 0 \in Nat /\ 0 + P <= KvSize /\ P \in Nat
    BY <1>5
  <2>3. FindSlot(Cleared, P) \in 0 .. 0
    BY <2>1, <2>2, SlotFound
  <2> QED
    BY <2>3
<1>7. PromptBatch' = b
  BY <1>1 DEF PromptBatch
<1>8. \/ pc' = "done" /\ rc' = -7 /\ kv' = Cleared
      \/ pc' = "sample" /\ rc' = rc /\ kv' = k
  <2>1. \/ pc' = "done" /\ rc' = -7 /\ kv' = Cleared
        \/ FindSlot(Cleared, PromptLen') = NoSlot
        \/ pc' = "sample" /\ rc' = rc
           /\ kv' = Share(Put(Cleared, FindSlot(Cleared, PromptLen'), PromptBatch'), NDecoders)
    BY DEF StartPrompt, Return
  <2> HIDE DEF b
  <2> QED
    BY <1>1, <1>3, <1>6, <1>7, <2>1 DEF NoSlot
<1>9. /\ k \in CacheType /\ CellsPaired(k) /\ k.head = 0
      /\ \A c \in CellIds :
           /\ c < P => k.cells[c] = [pos |-> c, seqs |-> 0 .. N - 1, val |-> Prompt] /\ c < k.n
           /\ c >= P => k.cells[c] = Free
  BY <1>4, <1>5, PromptShared
<1> HIDE DEF k
<1>10. \A c \in CellIds :
         /\ c \in Nat
         /\ c < P => /\ k.cells[c].pos = c /\ k.cells[c].seqs = Current
                     /\ k.cells[c].val = Prompt /\ c < k.n
         /\ ~(c < P) => k.cells[c].pos = -1 /\ k.cells[c].seqs = {}
  <2>1. \A c \in CellIds : c \in Nat /\ (c >= P <=> ~(c < P))
    BY DEF CellIds
  <2> SUFFICES ASSUME NEW c \in CellIds
               PROVE  /\ c \in Nat
                      /\ c < P => /\ k.cells[c].pos = c /\ k.cells[c].seqs = Current
                                  /\ k.cells[c].val = Prompt /\ c < k.n
                      /\ ~(c < P) => k.cells[c].pos = -1 /\ k.cells[c].seqs = {}
    OBVIOUS
  <2>2. CASE c < P
    <3>1. k.cells[c] = [pos |-> c, seqs |-> 0 .. N - 1, val |-> Prompt] /\ c < k.n
      BY <1>9, <2>2
    <3>2. k.cells[c].pos = c /\ k.cells[c].seqs = 0 .. N - 1 /\ k.cells[c].val = Prompt
      BY <3>1
    <3> QED
      BY <1>3, <2>1, <2>2, <3>1, <3>2
  <2>3. CASE c >= P
    <3>1. k.cells[c] = Free
      BY <1>9, <2>3
    <3> QED
      BY <2>1, <2>3, <3>1, FreeCell
  <2> QED
    BY <2>1, <2>2, <2>3
<1>11. dec' = [j \in Decoders |-> IF j \in Current THEN NewDecoder ELSE dec[j]] /\ i' = 0
       /\ past' = past /\ best' = best
  BY DEF StartPrompt
<1>12. DecodingTypes'
  <2>1. dec' \in [Decoders -> DecoderType] /\ \A j \in Decoders : dec'[j].result_len <= Len(dec'[j].tokens)
    BY <1>11, NewDecoderTyped DEF DecodingInv, DecodingTypes
  <2>2. pc' \in {"done", "sample"} /\ rc' \in {rc, -7}
    BY <1>8
  <2>3. DecodingTypes
    BY DEF DecodingInv
  <2> QED
    BY <1>2, <1>11, <2>1, <2>2, <2>3, Numbers DEF DecodingTypes
<1>13. CASE pc' = "done"
  <2>1. kv' = Cleared
    BY <1>8, <1>13
  <2>2. CellsSound'
    BY <2>1, ClearedSound DEF CellsSound, CellsPaired
  <2> QED
    BY <1>12, <1>13, <2>2 DEF DecodingInv, SequencesGrow, CellsBelow, HistoryHeld, Deciding
<1>14. CASE pc' = "sample"
  <2>1. kv' = k
    BY <1>8, <1>14
  <2>2. CellsSound'
    <3>1. ASSUME NEW c \in CellIds PROVE k.cells[c].pos < TextCtx
      BY <1>1, <1>5, <1>10, Numbers
    <3> QED
      BY <1>9, <2>1, <3>1 DEF CellsSound, CellsPaired
  <2>3. \A j \in Live' : j \in Current /\ dec'[j] = NewDecoder
    BY <1>2, <1>3, <1>11 DEF Live
  <2>4. SequencesGrow'
    <3>1. \A j \in Live' : Len(dec'[j].by) = 0 /\ Len(dec'[j].tokens) = 0 /\ dec'[j].result_len = 0
      BY <2>3, NewDecoderTyped
    <3> QED
      <4>1. i' = 0 /\ 0 < NMax /\ pc' # "extend"
        BY <1>11, <1>14, Numbers
      <4>2. \A j \in Live' : /\ Len(dec'[j].by) = i'
                             /\ Len(dec'[j].tokens) = IF pc' = "extend" THEN i' + 1 ELSE i'
                             /\ call'.no_timestamps => dec'[j].result_len = 0
        BY <3>1, <4>1
      <4> QED
        BY <4>1, <4>2 DEF SequencesGrow
  <2>5. CellsBelow'
    <3>1. PromptLen' = P /\ NDecoders' = N /\ i' = 0
      BY <1>1, <1>2, <1>3, <1>11
    <3>2. PromptLen' + NDecoders' * i' = P /\ PromptLen' + i' = P
      BY <1>a, <1>b, <3>1
    <3>3. 0 <= P
      BY <1>a
    <3>4. \A c \in CellIds : kv'.cells[c].seqs # {} => c < P /\ c < kv'.n /\ kv'.cells[c].pos < P
      BY <1>10, <2>1
    <3> QED
      BY <1>9, <2>1, <3>2, <3>3, <3>4 DEF CellsBelow
  <2>6. HistoryHeld'
    <3>1. ASSUME NEW j \in Live'
          PROVE  /\ \A p \in 0 .. P - 1 : \E c \in CellIds : j \in k.cells[c].seqs /\ k.cells[c].pos = p
                 /\ \A c, e \in CellIds :
                      j \in k.cells[c].seqs /\ j \in k.cells[e].seqs /\ k.cells[c].pos = k.cells[e].pos => c = e
                 /\ \A c \in CellIds : j \in k.cells[c].seqs => k.cells[c].val = Prompt /\ k.cells[c].pos < P
      <4>1. j \in Current
        BY <2>3
      <4>2. ASSUME NEW p \in 0 .. P - 1
            PROVE  \E c \in CellIds : j \in k.cells[c].seqs /\ k.cells[c].pos = p
        <5>1. p \in CellIds /\ p < P
          BY <1>a, <1>5, Numbers DEF CellIds
        <5> QED
          BY <1>10, <4>1, <5>1
      <4>3. \A c \in CellIds : j \in k.cells[c].seqs => c < P
        BY <1>10
      <4> QED
        BY <1>10, <4>2, <4>3
    <3>2. PromptLen' = P /\ i' = 0
      BY <1>1, <1>11
    <3>3. PromptLen' + i' = P
      BY <1>a, <3>2
    <3> SUFFICES ASSUME NEW j \in Live'
          PROVE  /\ \A p \in 0 .. PromptLen' + i' - 1 :
                      \E c \in CellIds : j \in kv'.cells[c].seqs /\ kv'.cells[c].pos = p
                 /\ \A c, e \in CellIds :
                      j \in kv'.cells[c].seqs /\ j \in kv'.cells[e].seqs
                      /\ kv'.cells[c].pos = kv'.cells[e].pos => c = e
                 /\ \A c \in CellIds : j \in kv'.cells[c].seqs =>
                      kv'.cells[c].val = IF kv'.cells[c].pos < PromptLen' THEN Prompt
                                        ELSE dec'[j].by[kv'.cells[c].pos - PromptLen' + 1]
      BY DEF HistoryHeld
    <3>4. \A p \in 0 .. PromptLen' + i' - 1 :
            \E c \in CellIds : j \in kv'.cells[c].seqs /\ kv'.cells[c].pos = p
      <4>1. \A p \in 0 .. P - 1 : \E c \in CellIds : j \in kv'.cells[c].seqs /\ kv'.cells[c].pos = p
        BY <2>1, <3>1
      <4>2. P + 0 - 1 = P - 1
        BY <1>a
      <4>3. 0 .. P + 0 - 1 = 0 .. P - 1
        BY <4>2, Zenon
      <4>4. 0 .. PromptLen' + i' - 1 = 0 .. P + 0 - 1
        BY <3>2, Zenon
      <4> QED
        BY <4>1, <4>3, <4>4, Zenon
    <3>5. \A c, e \in CellIds :
            j \in kv'.cells[c].seqs /\ j \in kv'.cells[e].seqs
            /\ kv'.cells[c].pos = kv'.cells[e].pos => c = e
      BY <2>1, <3>1
    <3>6. \A c \in CellIds : j \in kv'.cells[c].seqs => kv'.cells[c].val = Prompt /\ kv'.cells[c].pos < PromptLen'
      BY <2>1, <3>1, <3>2
    <3> QED
      BY <3>4, <3>5, <3>6
  <2> QED
    BY <1>12, <2>2, <2>4, <2>5, <2>6 DEF DecodingInv
<1> QED
  BY <1>8, <1>13, <1>14

\* The batch of the live decoders: each has one token in it, at its Turn.
LEMMA BatchOfLive ==
  ASSUME DecodingInv, pc = "extend"
  PROVE  /\ Cardinality(Live) \in Nat /\ Cardinality(Live) <= NDecoders
         /\ Live \in SUBSET Decoders
         /\ ExtendBatch \in [1 .. Cardinality(Live) -> TokenType]
         /\ \A p \in 1 .. Cardinality(Live) :
              /\ ExtendBatch[p].pos = PromptLen + i /\ ExtendBatch[p].val = ExtendBatch[p].seq
              /\ ExtendBatch[p].seq \in Live /\ Turn(Live, ExtendBatch[p].seq) = p
         /\ \A j \in Live : Turn(Live, j) \in 1 .. Cardinality(Live) /\ ExtendBatch[Turn(Live, j)].seq = j
<1> DEFINE Who(p) == CHOOSE j \in Live : Turn(Live, j) = p
<1>1. /\ NDecoders \in Nat \ {0} /\ Current = 0 .. NDecoders - 1 /\ Live \in SUBSET Current
      /\ Live \in SUBSET Decoders /\ PromptLen \in Nat /\ i \in Nat
  BY CallBounds, PromptBounds, Numbers DEF DecodingInv, DecodingTypes, Live
<1>2. IsFiniteSet(Current) /\ Cardinality(Current) = NDecoders
  <2>1. PICK m \in Nat \ {0} : m = NDecoders
    BY <1>1
  <2>2. IsFiniteSet(0 .. m - 1) /\ Cardinality(0 .. m - 1) = m
    BY FS_Interval
  <2> QED
    BY <1>1, <2>1, <2>2
<1>3. IsFiniteSet(Live) /\ Cardinality(Live) <= NDecoders
  BY <1>1, <1>2, FS_Subset
<1>4. /\ Cardinality(Live) \in Nat
      /\ \A j \in Live : Turn(Live, j) \in 1 .. Cardinality(Live)
      /\ \A j, k \in Live : Turn(Live, j) = Turn(Live, k) => j = k
      /\ \A p \in 1 .. Cardinality(Live) : \E j \in Live : Turn(Live, j) = p
  <2>1. Live \in SUBSET Nat
    BY <1>1, Numbers
  <2> QED
    BY <1>3, <2>1, TurnsInOrder
<1>5. \A p \in 1 .. Cardinality(Live) : Who(p) \in Live /\ Turn(Live, Who(p)) = p
  BY <1>4, Zenon
<1>6. \A j \in Live : Who(Turn(Live, j)) = j
  <2> SUFFICES ASSUME NEW j \in Live PROVE Who(Turn(Live, j)) = j
    OBVIOUS
  <2>1. Turn(Live, j) \in 1 .. Cardinality(Live)
    BY <1>4
  <2>2. Who(Turn(Live, j)) \in Live /\ Turn(Live, Who(Turn(Live, j))) = Turn(Live, j)
    BY <1>5, <2>1
  <2> HIDE DEF Who
  <2> QED
    BY <1>4, <2>2
<1>7. ExtendBatch = [p \in 1 .. Cardinality(Live) |-> [pos |-> PromptLen + i, seq |-> Who(p), val |-> Who(p)]]
  BY DEF ExtendBatch, NextPos
<1> HIDE DEF Who
<1>8. ASSUME NEW p \in 1 .. Cardinality(Live)
      PROVE  ExtendBatch[p] \in TokenType /\ ExtendBatch[p].pos = PromptLen + i
             /\ ExtendBatch[p].seq = Who(p) /\ ExtendBatch[p].val = Who(p)
  <2>a. Who(p) \in Decoders /\ PromptLen + i \in Nat
    <3>1. Who(p) \in Decoders
      BY <1>1, <1>5
    <3>2. PromptLen + i \in Nat
      BY <1>1
    <3> QED
      BY <3>1, <3>2
  <2>1. PICK x \in Decoders, q \in Nat : x = Who(p) /\ q = PromptLen + i
    BY <2>a
  <2>2. ExtendBatch[p] = [pos |-> q, seq |-> x, val |-> x]
    BY <1>7, <2>1
  <2> QED
    BY <2>1, <2>2 DEF TokenType
<1>9. ExtendBatch \in [1 .. Cardinality(Live) -> TokenType]
  <2>1. ExtendBatch = [p \in 1 .. Cardinality(Live) |-> ExtendBatch[p]]
    BY <1>7
  <2> QED
    BY <1>8, <2>1
<1> QED
  BY <1>1, <1>3, <1>4, <1>5, <1>6, <1>8, <1>9

\* There is room for one more round.
LEMMA RoundFits ==
  ASSUME DecodingInv, pc = "extend"
  PROVE  /\ PromptLen + i < TextCtx
         /\ (PromptLen + NDecoders * i) + NDecoders <= KvSize
         /\ NDecoders * i \in Nat /\ NDecoders * (i + 1) = NDecoders * i + NDecoders
<1>1. /\ NDecoders \in Nat \ {0} /\ TextCtx \div 2 + 4 + NDecoders * NMax <= KvSize
      /\ PromptLen \in Nat \ {0} /\ PromptLen <= TextCtx \div 2 + 5
      /\ ~call.no_timestamps => PromptLen <= TextCtx \div 2 + 4
  BY CallBounds, PromptBounds DEF DecodingInv, DecodingTypes
<1>2. i \in Nat /\ i < NMax /\ (call.no_timestamps => i < NMax - 1)
  BY Numbers DEF DecodingInv, DecodingTypes, SequencesGrow, Deciding
<1>3. PICK h \in Nat, m \in Nat \ {0}, n \in Nat \ {0}, q \in Nat, c \in Nat :
        /\ h = TextCtx \div 2 /\ m = NMax /\ n = NDecoders /\ q = PromptLen /\ c = KvSize
        /\ m = h - 4 /\ TextCtx = 2 * h /\ h + 4 + n * m <= c /\ q <= h + 5
        /\ i < m /\ (q <= h + 4 \/ i + 1 < m)
  BY <1>1, <1>2, Numbers
<1>4. n * i \in Nat /\ n * (i + 1) = n * i + n /\ n * (i + 1) <= n * m
      /\ (i + 1 < m => n * (i + 1) + n <= n * m)
  <2>1. n * i \in Nat /\ n * (i + 1) = n * i + n /\ n * (i + 1) <= n * m
    BY <1>2, <1>3, TimesMono
  <2>2. i + 1 < m => n * (i + 2) <= n * m /\ n * (i + 2) = n * (i + 1) + n
    <3>1. ASSUME i + 1 < m PROVE n * (i + 2) <= n * m
      BY <1>2, <3>1, TimesMono
    <3>2. n * (i + 2) = n * (i + 1) + n
      BY <1>2
    <3> QED
      BY <3>1, <3>2
  <2> QED
    BY <2>1, <2>2
<1>5. PICK x \in Nat, y \in Nat : x = n * i /\ y = n * m
  BY <1>4
<1>6. q + x + n <= c
  BY <1>3, <1>4, <1>5
<1>7. q + i < 2 * h
  BY <1>2, <1>3
<1> QED
  BY <1>3, <1>4, <1>5, <1>6, <1>7

LEMMA ExtendKeeps ==
  ASSUME DecodingInv, Extend
  PROVE  DecodingInv'
<1>0. pc = "extend" /\ Deciding /\ UNCHANGED <<call, past, it, taken, best>>
  BY DEF Extend, Deciding
<1>a. PICK k \in CacheType, n \in Nat : k = kv /\ n = Cardinality(Live)
  BY <1>0, BatchOfLive DEF DecodingInv, CellsSound
<1>b. PICK b \in [1 .. n -> TokenType] : b = ExtendBatch
  BY <1>0, <1>a, BatchOfLive
<1>c. PICK s : s = FindSlot(k, n)
  OBVIOUS
<1>1. k = kv /\ n = Cardinality(Live) /\ b = ExtendBatch /\ s = FindSlot(k, n)
  BY <1>a, <1>b, <1>c
<1>2. PICK P \in Nat, N \in Nat, h \in Nat :
        /\ P = PromptLen /\ N = NDecoders /\ h = PromptLen + NDecoders * i
        /\ n <= N /\ P + i < TextCtx /\ h + N <= KvSize /\ P + NDecoders * (i + 1) = h + N
  <2>1. PromptLen \in Nat /\ NDecoders \in Nat /\ NDecoders * i \in Nat
    BY <1>0, CallBounds, PromptBounds, RoundFits DEF DecodingInv, DecodingTypes
  <2> QED
    BY <1>0, <1>1, <2>1, BatchOfLive, RoundFits
<1>3. /\ i \in Nat /\ CellsPaired(k) /\ k.head <= h
      /\ \A c \in CellIds : /\ c \in Nat /\ k.cells[c].pos \in Int /\ k.cells[c].pos < TextCtx
                            /\ k.cells[c].seqs # {} => c < h /\ c < k.n /\ k.cells[c].pos < P + i
  <2>1. \A c \in CellIds : c \in Nat /\ k.cells[c].pos \in Int
    <3>1. \A c \in CellIds : k.cells[c] \in CellType
      BY DEF CacheType
    <3> QED
      BY <3>1 DEF CellType, CellIds
  <2>2. i \in Nat
    BY Numbers DEF DecodingInv, DecodingTypes
  <2>3. CellsBelow /\ CellsSound
    BY DEF DecodingInv
  <2> QED
    BY <1>0, <1>1, <1>2, <2>1, <2>2, <2>3 DEF CellsBelow, CellsSound
<1>4. /\ s \in 0 .. h /\ \A c \in CellIds : s <= c /\ c < s + n => k.cells[c].pos < 0
  <2>1. h + n <= KvSize
    BY <1>2, Numbers
  <2>2. \A c \in CellIds : c >= h => k.cells[c].pos < 0
    BY <1>3 DEF CellsPaired
  <2> QED
    BY <1>1, <1>3, <2>1, <2>2, SlotFound
<1>5. s \in Nat /\ s <= h /\ s + n <= h + N /\ s + n <= KvSize /\ s # NoSlot
  BY <1>2, <1>4, Numbers DEF NoSlot
<1> DEFINE t == Put(k, s, b)
<1>6. /\ t \in CacheType /\ CellsPaired(t) /\ t.head = s
      /\ \A c \in CellIds :
           /\ ~(s <= c /\ c < s + n) => t.cells[c] = k.cells[c]
           /\ s <= c /\ c < s + n =>
                t.cells[c].pos = b[c - s + 1].pos /\ t.cells[c].seqs = {b[c - s + 1].seq}
                /\ t.cells[c].val = b[c - s + 1].val
           /\ t.cells[c].seqs # {} => c < t.n
  BY <1>3, <1>4, <1>5, BatchPut
<1>7. \/ pc' = "done" /\ rc' = -8 /\ UNCHANGED <<dec, kv, i>>
      \/ /\ kv' = t /\ i' = i + 1 /\ rc' = rc
         /\ pc' = IF i' = NMax THEN "rank" ELSE "sample"
         /\ dec' = [j \in Decoders |-> IF j \in Live
                                       THEN [dec[j] EXCEPT !.by = Append(@, j)] ELSE dec[j]]
  <2>1. Len(ExtendBatch) = n
    BY <1>1
  <2>2. \/ pc' = "done" /\ rc' = -8 /\ UNCHANGED <<dec, kv, i>>
        \/ FindSlot(kv, Len(ExtendBatch)) = NoSlot
        \/ /\ kv' = Put(kv, FindSlot(kv, Len(ExtendBatch)), ExtendBatch) /\ i' = i + 1 /\ rc' = rc
           /\ pc' = IF i' = NMax THEN "rank" ELSE "sample"
           /\ dec' = [j \in Decoders |-> IF j \in Live
                                         THEN [dec[j] EXCEPT !.by = Append(@, j)] ELSE dec[j]]
    BY DEF Extend, Return
  <2> QED
    BY <1>1, <1>5, <2>1, <2>2
<1> HIDE DEF t
<1>8. CASE pc' = "done" /\ rc' = -8 /\ UNCHANGED <<dec, kv, i>>
  <2>1. DecodingTypes'
    BY <1>0, <1>8 DEF DecodingInv, DecodingTypes
  <2>2. CellsSound'
    BY <1>8 DEF DecodingInv, CellsSound, CellsPaired
  <2> QED
    BY <1>8, <2>1, <2>2 DEF DecodingInv, SequencesGrow, CellsBelow, HistoryHeld, Deciding
<1>9. CASE /\ kv' = t /\ i' = i + 1 /\ rc' = rc
           /\ pc' = IF i' = NMax THEN "rank" ELSE "sample"
           /\ dec' = [j \in Decoders |-> IF j \in Live
                                         THEN [dec[j] EXCEPT !.by = Append(@, j)] ELSE dec[j]]
  <2>1. PromptLen' = PromptLen /\ NDecoders' = NDecoders /\ Current' = Current
    BY <1>0, SameCall
  <2>2. /\ Live \in SUBSET Decoders /\ Live \in SUBSET Current /\ Current \in SUBSET Decoders
        /\ dec \in [Decoders -> DecoderType]
    BY <1>0, BatchOfLive, CallBounds DEF DecodingInv, DecodingTypes, Live
  <2>3. ASSUME NEW j \in Decoders
        PROVE  /\ dec'[j] \in DecoderType
               /\ dec'[j].tokens = dec[j].tokens /\ dec'[j].result_len = dec[j].result_len
               /\ dec'[j].failed = dec[j].failed /\ dec'[j].completed = dec[j].completed
               /\ j \in Live => dec'[j].by = Append(dec[j].by, j)
    <3>1. dec[j] \in DecoderType
      BY <2>2
    <3>2. CASE j \in Live
      <4>1. PICK d \in DecoderType : d = dec[j]
        BY <3>1
      <4>a. d.by \in Seq(Decoders)
        BY DEF DecoderType
      <4>b. Append(d.by, j) \in Seq(Decoders)
        BY <4>a
      <4>2. PICK y \in Seq(Decoders) : y = Append(d.by, j)
        BY <4>b
      <4>3. dec'[j] = [d EXCEPT !.by = y]
        BY <1>9, <3>2, <4>1, <4>2
      <4> QED
        BY <4>1, <4>2, <4>3 DEF DecoderType
    <3>3. CASE j \notin Live
      BY <1>9, <3>1, <3>3
    <3> QED
      BY <3>2, <3>3
  <2>4. Live' = Live
    BY <2>1, <2>2, <2>3 DEF Live
  <2>5. SequencesGrow
    BY DEF DecodingInv
  <2>6. i < NMax /\ i + 1 \in 0 .. NMax /\ (i + 1 # NMax => i + 1 < NMax)
    BY <1>0, <1>3, <2>5, Numbers DEF SequencesGrow
  <2>7. DecodingTypes'
    <3>1. dec' \in [Decoders -> DecoderType]
      <4>1. dec' = [j \in Decoders |-> dec'[j]]
        BY <1>9, Zenon
      <4> QED
        BY <2>3, <4>1
    <3>2. \A j \in Decoders : dec'[j].result_len <= Len(dec'[j].tokens)
      BY <2>3 DEF DecodingInv, DecodingTypes
    <3>3. pc' \in {"rank", "sample"}
      BY <1>9
    <3>4. DecodingTypes
      BY DEF DecodingInv
    <3> QED
      BY <1>0, <1>9, <2>6, <3>1, <3>2, <3>3, <3>4 DEF DecodingTypes
  <2>8. \A j \in Live : /\ Len(dec[j].by) = i /\ dec[j].by \in Seq(Decoders)
                        /\ Len(dec'[j].by) = i + 1 /\ dec'[j].by[i + 1] = j
                        /\ \A p \in 1 .. i : dec'[j].by[p] = dec[j].by[p]
    <3> SUFFICES ASSUME NEW j \in Live
                 PROVE  /\ Len(dec[j].by) = i /\ dec[j].by \in Seq(Decoders)
                        /\ Len(dec'[j].by) = i + 1 /\ dec'[j].by[i + 1] = j
                        /\ \A p \in 1 .. i : dec'[j].by[p] = dec[j].by[p]
      OBVIOUS
    <3>1. dec[j] \in DecoderType /\ j \in Decoders
      BY <2>2
    <3>2. Len(dec[j].by) = i
      BY <1>0, <2>5 DEF SequencesGrow
    <3>3. PICK y \in Seq(Decoders) : y = dec[j].by
      BY <3>1 DEF DecoderType
    <3>4. PICK l \in Nat : l = i
      BY <1>3
    <3>5. dec'[j].by = Append(y, j) /\ Len(y) = l
      BY <2>3, <3>1, <3>2, <3>3, <3>4
    <3>6. /\ Len(Append(y, j)) = l + 1 /\ Append(y, j)[l + 1] = j
          /\ \A p \in 1 .. l : Append(y, j)[p] = y[p]
      BY <3>1, <3>5
    <3> QED
      BY <3>3, <3>4, <3>5, <3>6
  <2>9. SequencesGrow'
    <3>1. CASE pc' = "rank"
      BY <3>1 DEF SequencesGrow, Deciding
    <3>2. CASE pc' = "sample"
      <4>1. i' < NMax
        BY <1>9, <2>6, <3>2
      <4>2. \A j \in Live' :
              /\ Len(dec'[j].by) = i'
              /\ Len(dec'[j].tokens) = i + 1
              /\ call'.no_timestamps => dec'[j].result_len = 0
        BY <1>0, <1>9, <2>2, <2>3, <2>4, <2>5, <2>8 DEF SequencesGrow
      <4> QED
        BY <1>9, <3>2, <4>1, <4>2 DEF SequencesGrow
    <3> QED
      BY <1>9, <3>1, <3>2
  <2>10. /\ \A p \in 1 .. n : /\ b[p].pos = P + i /\ b[p].val = b[p].seq
                               /\ b[p].seq \in Live /\ Turn(Live, b[p].seq) = p
         /\ \A j \in Live : Turn(Live, j) \in 1 .. n /\ b[Turn(Live, j)].seq = j
    BY <1>0, <1>1, <1>2, BatchOfLive
  \* What a cell is now: new with the token at its place in the batch, or old.
  <2>11. ASSUME NEW c \in CellIds
         PROVE  \/ /\ s <= c /\ c < s + n /\ c - s + 1 \in 1 .. n
                   /\ t.cells[c].pos = P + i /\ t.cells[c].val = b[c - s + 1].seq
                   /\ t.cells[c].seqs = {b[c - s + 1].seq}
                   /\ k.cells[c].seqs = {}
                \/ ~(s <= c /\ c < s + n) /\ t.cells[c] = k.cells[c]
    <3>1. CASE s <= c /\ c < s + n
      <4>1. c - s + 1 \in 1 .. n
        BY <1>3, <1>5, <3>1
      <4>2. k.cells[c].seqs = {}
        BY <1>3, <1>4, <3>1 DEF CellsPaired
      <4> QED
        BY <1>6, <2>10, <3>1, <4>1, <4>2
    <3>2. CASE ~(s <= c /\ c < s + n)
      BY <1>6, <3>2
    <3> QED
      BY <3>1, <3>2
  <2>12. CellsSound'
    <3>1. ASSUME NEW c \in CellIds PROVE t.cells[c].pos < TextCtx
      BY <1>2, <1>3, <2>11
    <3> QED
      BY <1>6, <1>9, <3>1 DEF CellsSound, CellsPaired
  <2>13. CellsBelow'
    <3>1. PromptLen' + NDecoders' * i' = h + N /\ PromptLen' + i' = P + (i + 1)
      BY <1>2, <1>9, <2>1
    <3>2. t.head <= h + N
      BY <1>5, <1>6
    <3>3. ASSUME NEW c \in CellIds, t.cells[c].seqs # {}
          PROVE  c < h + N /\ c < t.n /\ t.cells[c].pos < P + (i + 1)
      <4>1. c < t.n /\ c \in Nat
        BY <1>3, <1>6, <3>3
      <4>2. CASE s <= c /\ c < s + n /\ t.cells[c].pos = P + i
        BY <1>3, <1>5, <4>1, <4>2
      <4>3. CASE t.cells[c] = k.cells[c]
        BY <1>3, <3>3, <4>1, <4>3
      <4> QED
        BY <2>11, <4>2, <4>3
    <3> QED
      BY <1>9, <3>1, <3>2, <3>3 DEF CellsBelow
  <2>14. ASSUME NEW j \in Live
         PROVE  /\ \A p \in 0 .. P + i :
                     \E c \in CellIds : j \in t.cells[c].seqs /\ t.cells[c].pos = p
                /\ \A c, e \in CellIds :
                     j \in t.cells[c].seqs /\ j \in t.cells[e].seqs /\ t.cells[c].pos = t.cells[e].pos => c = e
                /\ \A c \in CellIds : j \in t.cells[c].seqs =>
                     t.cells[c].val = IF t.cells[c].pos < P THEN Prompt ELSE dec'[j].by[t.cells[c].pos - P + 1]
    <3>1. /\ \A p \in 0 .. P + i - 1 :
               \E c \in CellIds : j \in k.cells[c].seqs /\ k.cells[c].pos = p
          /\ \A c, e \in CellIds :
               j \in k.cells[c].seqs /\ j \in k.cells[e].seqs /\ k.cells[c].pos = k.cells[e].pos => c = e
          /\ \A c \in CellIds : j \in k.cells[c].seqs =>
               k.cells[c].val = IF k.cells[c].pos < P THEN Prompt ELSE dec[j].by[k.cells[c].pos - P + 1]
      BY <1>0, <1>1, <1>2 DEF DecodingInv, HistoryHeld
    <3>2. ASSUME NEW p \in 0 .. P + i
          PROVE  \E c \in CellIds : j \in t.cells[c].seqs /\ t.cells[c].pos = p
      <4>1. CASE p = P + i
        <5>1. PICK q \in 1 .. n : q = Turn(Live, j) /\ b[q].seq = j
          BY <2>10
        <5>2. PICK c \in CellIds : c = s + q - 1
          BY <1>5, <5>1, Numbers DEF CellIds
        <5>3. s <= c /\ c < s + n /\ c - s + 1 = q
          BY <1>5, <5>1, <5>2
        <5> QED
          BY <2>11, <4>1, <5>1, <5>3
      <4>2. CASE p # P + i
        <5>1. p \in 0 .. P + i - 1
          BY <1>3, <4>2
        <5>2. PICK c \in CellIds : j \in k.cells[c].seqs /\ k.cells[c].pos = p
          BY <3>1, <5>1
        <5> QED
          BY <2>11, <5>2
      <4> QED
        BY <4>1, <4>2
    <3>3. ASSUME NEW c \in CellIds, NEW e \in CellIds,
                 j \in t.cells[c].seqs, j \in t.cells[e].seqs, t.cells[c].pos = t.cells[e].pos
          PROVE  c = e
      <4>1. \A f \in CellIds : s <= f /\ f < s + n /\ j \in t.cells[f].seqs => f - s + 1 = Turn(Live, j)
        BY <2>10, <2>11
      <4>2. \A f \in CellIds : ~(s <= f /\ f < s + n) /\ j \in t.cells[f].seqs =>
              t.cells[f] = k.cells[f] /\ j \in k.cells[f].seqs /\ t.cells[f].pos < P + i
        BY <1>3, <2>11
      <4>3. \A f \in CellIds : s <= f /\ f < s + n => t.cells[f].pos = P + i
        BY <2>11
      <4>4. CASE (s <= c /\ c < s + n) /\ (s <= e /\ e < s + n)
        <5>1. c - s + 1 = e - s + 1
          BY <3>3, <4>1, <4>4
        <5> QED
          BY <1>3, <1>5, <5>1
      <4>5. CASE ~(s <= c /\ c < s + n) /\ ~(s <= e /\ e < s + n)
        <5>1. j \in k.cells[c].seqs /\ j \in k.cells[e].seqs /\ k.cells[c].pos = k.cells[e].pos
          BY <3>3, <4>2, <4>5
        <5> QED
          BY <3>1, <5>1
      <4>6. CASE (s <= c /\ c < s + n) /\ ~(s <= e /\ e < s + n)
        <5>1. t.cells[c].pos = P + i /\ t.cells[e].pos < P + i
          BY <3>3, <4>2, <4>3, <4>6
        <5> QED
          BY <1>3, <3>3, <5>1
      <4>7. CASE ~(s <= c /\ c < s + n) /\ (s <= e /\ e < s + n)
        <5>1. t.cells[e].pos = P + i /\ t.cells[c].pos < P + i
          BY <3>3, <4>2, <4>3, <4>7
        <5> QED
          BY <1>3, <3>3, <5>1
      <4> QED
        BY <4>4, <4>5, <4>6, <4>7
    <3>4. ASSUME NEW c \in CellIds, j \in t.cells[c].seqs
          PROVE  t.cells[c].val = IF t.cells[c].pos < P THEN Prompt ELSE dec'[j].by[t.cells[c].pos - P + 1]
      <4>1. CASE s <= c /\ c < s + n
        <5>1. t.cells[c].pos = P + i /\ t.cells[c].val = j
          BY <2>11, <3>4, <4>1
        <5>2. ~(t.cells[c].pos < P) /\ t.cells[c].pos - P + 1 = i + 1
          BY <1>3, <5>1
        <5>3. dec'[j].by[i + 1] = j
          BY <2>8
        <5>4. dec'[j].by[t.cells[c].pos - P + 1] = j
          BY <5>2, <5>3, Zenon
        <5>5. PICK y : y = dec'[j].by[t.cells[c].pos - P + 1]
          OBVIOUS
        <5>6. t.cells[c].val = IF t.cells[c].pos < P THEN Prompt ELSE y
          BY <5>1, <5>2, <5>4, <5>5
        <5> QED
          BY <5>5, <5>6, Zenon
      <4>2. CASE ~(s <= c /\ c < s + n)
        <5>1. t.cells[c] = k.cells[c] /\ j \in k.cells[c].seqs
          BY <2>11, <3>4, <4>2
        <5>2. k.cells[c].pos \in Int /\ k.cells[c].pos < P + i
          BY <1>3, <5>1
        <5>3. k.cells[c].val = IF k.cells[c].pos < P THEN Prompt ELSE dec[j].by[k.cells[c].pos - P + 1]
          BY <3>1, <5>1
        <5>4. CASE k.cells[c].pos < P
          BY <5>1, <5>3, <5>4
        <5>5. CASE ~(k.cells[c].pos < P)
          <6>1. k.cells[c].pos - P + 1 \in 1 .. i
            BY <1>3, <5>2, <5>5
          <6>2. dec'[j].by[k.cells[c].pos - P + 1] = dec[j].by[k.cells[c].pos - P + 1]
            BY <2>8, <6>1
          <6>3. k.cells[c].val = dec[j].by[k.cells[c].pos - P + 1]
            BY <5>3, <5>5
          <6>4. k.cells[c].val = dec'[j].by[k.cells[c].pos - P + 1]
            BY <6>2, <6>3, Zenon
          <6>5. PICK y : y = dec'[j].by[k.cells[c].pos - P + 1]
            OBVIOUS
          <6>6. k.cells[c].val = y
            BY <6>4, <6>5, Zenon
          <6>7. k.cells[c].val = IF k.cells[c].pos < P THEN Prompt ELSE y
            BY <5>5, <6>6
          <6> QED
            BY <5>1, <6>5, <6>7, Zenon
        <5> QED
          BY <5>4, <5>5
      <4> QED
        BY <4>1, <4>2
    <3> QED
      BY <3>2, <3>3, <3>4
  <2>15. HistoryHeld'
    <3> SUFFICES ASSUME NEW j \in Live'
          PROVE  /\ \A p \in 0 .. PromptLen' + i' - 1 :
                      \E c \in CellIds : j \in kv'.cells[c].seqs /\ kv'.cells[c].pos = p
                 /\ \A c, e \in CellIds :
                      j \in kv'.cells[c].seqs /\ j \in kv'.cells[e].seqs
                      /\ kv'.cells[c].pos = kv'.cells[e].pos => c = e
                 /\ \A c \in CellIds : j \in kv'.cells[c].seqs =>
                      kv'.cells[c].val = IF kv'.cells[c].pos < PromptLen' THEN Prompt
                                        ELSE dec'[j].by[kv'.cells[c].pos - PromptLen' + 1]
      BY DEF HistoryHeld
    <3>1. j \in Live /\ PromptLen' = P /\ kv' = t
      BY <1>2, <1>9, <2>1, <2>4
    <3>2. 0 .. PromptLen' + i' - 1 = 0 .. P + i
      <4>1. P + (i + 1) - 1 = P + i
        BY <1>3
      <4>2. 0 .. P + (i + 1) - 1 = 0 .. P + i
        BY <4>1, Zenon
      <4>3. PromptLen' = P /\ i' = i + 1
        BY <1>9, <3>1
      <4>4. 0 .. PromptLen' + i' - 1 = 0 .. P + (i + 1) - 1
        BY <4>3, Zenon
      <4> QED
        BY <4>2, <4>4, Zenon
    <3>3. \A p \in 0 .. PromptLen' + i' - 1 :
            \E c \in CellIds : j \in kv'.cells[c].seqs /\ kv'.cells[c].pos = p
      <4>1. \A p \in 0 .. P + i : \E c \in CellIds : j \in kv'.cells[c].seqs /\ kv'.cells[c].pos = p
        BY <2>14, <3>1
      <4> QED
        BY <3>2, <4>1, Zenon
    <3>4. \A c, e \in CellIds :
            j \in kv'.cells[c].seqs /\ j \in kv'.cells[e].seqs
            /\ kv'.cells[c].pos = kv'.cells[e].pos => c = e
      BY <2>14, <3>1
    <3>5. \A c \in CellIds : j \in kv'.cells[c].seqs =>
            kv'.cells[c].val = IF kv'.cells[c].pos < PromptLen' THEN Prompt
                               ELSE dec'[j].by[kv'.cells[c].pos - PromptLen' + 1]
      BY <2>14, <3>1
    <3> QED
      BY <3>3, <3>4, <3>5
  <2> QED
    BY <2>7, <2>9, <2>12, <2>13, <2>15 DEF DecodingInv
<1> QED
  BY <1>7, <1>8, <1>9

-----------------------------------------------------------------------------
(* The theorems.                                                           *)

LEMMA DecodingInvInductive ==
  ASSUME DecodingInv, [Next]_vars
  PROVE  DecodingInv'
<1>1. CASE Step
  BY <1>1, WindowKeeps, StartPromptKeeps, SampleGreedyKeeps, SampleBeamKeeps, ExtendKeeps, RankKeeps, OutputKeeps
     DEF Step
<1>2. CASE Done \/ UNCHANGED vars
  <2>1. UNCHANGED <<call, pc, rc, past, it, taken, i, dec, kv, best>>
    BY <1>2 DEF Done, vars
  <2>2. PromptLen' = PromptLen /\ NDecoders' = NDecoders /\ Live' = Live
    BY <2>1, SameCall DEF Live
  <2>3. DecodingTypes' /\ CellsSound'
    BY <2>1 DEF DecodingInv, DecodingTypes, CellsSound, CellsPaired
  <2>4. SequencesGrow' /\ CellsBelow'
    BY <2>1, <2>2 DEF DecodingInv, SequencesGrow, CellsBelow, Deciding
  <2>5. HistoryHeld'
    BY <2>1, <2>2 DEF DecodingInv, HistoryHeld, Deciding
  <2> QED
    BY <2>3, <2>4, <2>5 DEF DecodingInv
<1> QED
  BY <1>1, <1>2 DEF Next

\* What a decoder attends to is its history, each position once.
LEMMA HistoryAttended ==
  ASSUME DecodingInv
  PROVE  OwnContext
<1> SUFFICES ASSUME pc \in {"sample", "extend"}, NEW j \in Live
             PROVE  LET d     == dec[j]
                        last  == PromptLen + Len(d.by) - 1
                        cells == Attended(kv, j, last)
                    IN  /\ {kv.cells[c].pos : c \in cells} = 0 .. last
                        /\ Cardinality(cells) = last + 1
                        /\ \A c \in cells :
                             LET p == kv.cells[c].pos
                             IN  kv.cells[c].val = IF p < PromptLen THEN Prompt
                                                   ELSE d.by[p - PromptLen + 1]
  BY DEF OwnContext
<1>1. PICK m \in Nat \ {0} :
        /\ m = PromptLen + i /\ PromptLen \in Nat /\ i \in Nat /\ Len(dec[j].by) = i
  <2>1. Len(dec[j].by) = i /\ i \in Nat
    BY Numbers DEF DecodingInv, DecodingTypes, SequencesGrow, Deciding
  <2>2. PromptLen \in Nat \ {0}
    BY PromptBounds DEF DecodingInv, DecodingTypes
  <2> QED
    BY <2>1, <2>2
<1> DEFINE last  == m - 1
           cells == Attended(kv, j, last)
           Pos(c) == kv.cells[c].pos
<1>2. /\ \A p \in 0 .. last :
           \E c \in CellIds : j \in kv.cells[c].seqs /\ Pos(c) = p
      /\ \A c, e \in CellIds :
           j \in kv.cells[c].seqs /\ j \in kv.cells[e].seqs /\ Pos(c) = Pos(e) => c = e
      /\ \A c \in CellIds : j \in kv.cells[c].seqs =>
           kv.cells[c].val = IF Pos(c) < PromptLen THEN Prompt
                             ELSE dec[j].by[Pos(c) - PromptLen + 1]
  <2>1. PromptLen + i - 1 = last
    BY <1>1
  <2> HIDE DEF last
  <2> QED
    BY <2>1 DEF DecodingInv, HistoryHeld, Deciding
<1>3. \A c \in CellIds : j \in kv.cells[c].seqs => c < kv.n /\ Pos(c) < m /\ Pos(c) >= 0 /\ Pos(c) \in Int
  <2>1. \A c \in CellIds : kv.cells[c] \in CellType
    BY DEF DecodingInv, CellsSound, CacheType
  <2>2. \A c \in CellIds : Pos(c) \in Int
    BY <2>1 DEF CellType
  <2>3. \A c \in CellIds : j \in kv.cells[c].seqs => kv.cells[c].seqs # {}
    OBVIOUS
  <2> QED
    BY <1>1, <2>2, <2>3 DEF DecodingInv, CellsSound, CellsPaired, CellsBelow, Deciding
<1>4. kv.n \in 0 .. KvSize
  BY DEF DecodingInv, CellsSound, CacheType
<1>5. \A c : c \in cells <=> c \in CellIds /\ j \in kv.cells[c].seqs
  <2>1. \A c : c \in 0 .. kv.n - 1 => c \in CellIds
    BY <1>4, Numbers DEF CellIds
  <2>2. \A c \in CellIds : c < kv.n => c \in 0 .. kv.n - 1
    BY <1>4, Numbers DEF CellIds
  <2>3. \A c \in CellIds : j \in kv.cells[c].seqs => Pos(c) <= last
    BY <1>3
  <2> QED
    BY <1>3, <2>1, <2>2, <2>3 DEF Attended
<1>6. \A c \in cells : Pos(c) \in 0 .. last
  BY <1>3, <1>5
<1>7. \A p \in 0 .. last : \E c \in cells : Pos(c) = p
  BY <1>2, <1>5
<1>8. {Pos(c) : c \in cells} = 0 .. last
  BY <1>6, <1>7
<1>9. Cardinality(cells) = m
  <2> DEFINE at == [c \in cells |-> Pos(c)]
  <2>1. at \in Injection(cells, 0 .. last)
    BY <1>2, <1>5, <1>6 DEF Injection, IsInjective
  <2>2. at \in Surjection(cells, 0 .. last)
    BY <1>6, <1>7 DEF Surjection
  <2>3. IsFiniteSet(0 .. last) /\ Cardinality(0 .. last) = m
    <3>1. last \in Int /\ 0 \in Int /\ ~(0 > last) /\ last - 0 + 1 = m
      BY <1>1
    <3> HIDE DEF last
    <3> QED
      BY <3>1, FS_Interval
  <2> HIDE DEF at, cells, last
  <2>4. Cardinality(cells) = Cardinality(0 .. last)
    BY <2>1, <2>2, <2>3, FS_Injection
  <2> QED
    BY <2>3, <2>4
<1>10. \A c \in cells : kv.cells[c].val = IF Pos(c) < PromptLen THEN Prompt
                                          ELSE dec[j].by[Pos(c) - PromptLen + 1]
  BY <1>2, <1>5
<1>11. PromptLen + Len(dec[j].by) - 1 = last /\ last + 1 = m
  <2>1. last + 1 = m
    OBVIOUS
  <2>2. PromptLen + Len(dec[j].by) - 1 = last
    BY <1>1
  <2> QED
    BY <2>1, <2>2
<1> HIDE DEF last
<1> QED
  BY <1>8, <1>9, <1>10, <1>11

\* The decoders' shared cache is sound in every call: each decoder that is
\* still going attends to exactly its own history, every batch finds a slot and
\* no token gets a position without an embedding
\* (whisper_full_with_state, whisper_decode_internal).
THEOREM ContextAlwaysSound == Spec => []ContextSound
<1>1. Init => DecodingInv
  BY Initially
<1>2. DecodingInv /\ [Next]_vars => DecodingInv'
  BY DecodingInvInductive
<1>3. DecodingInv => ContextSound
  <2> SUFFICES ASSUME DecodingInv PROVE ContextSound
    OBVIOUS
  <2>1. OwnContext
    BY HistoryAttended
  <2>2. ContextFits
    BY DEF DecodingInv, DecodingTypes, CellsSound, ContextFits
  <2> QED
    BY <2>1, <2>2 DEF ContextSound
<1> QED
  BY <1>1, <1>2, <1>3, PTL DEF Spec

-----------------------------------------------------------------------------
(* What the text of a call needs: the timestamps of every decoder, how the  *)
(* decoders of a temperature end, and the segments so far.                  *)

\* The timestamps of a decoder's tokens do not go back, and the window it asks
\* for reaches the last of them.
Stamped(d) ==
    /\ \E s \in 1 .. MaxTs : d.seek_delta = 2 * s
    /\ \A k \in 1 .. Len(d.tokens) :
         d.tokens[k] > Beg => d.has_ts /\ 2 * d.tokens[k] <= d.seek_delta
    /\ \A k, l \in 1 .. Len(d.tokens) :
         k <= l /\ d.tokens[k] > Beg /\ d.tokens[l] > Beg => d.tokens[k] <= d.tokens[l]

Places ==
    /\ seek \in Nat /\ it \in 0 .. Temps - 1 /\ kv.head <= KvSize
    /\ rc # 0 => pc = "done"
    /\ \A j \in Decoders : Stamped(dec[j])

\* A decoder that ends without failing has a result, and one that is still going
\* in the last round has one already; without tensors every decoder ends with
\* its first token.
ResultsFound ==
    /\ call.loaded =>
         /\ pc \in {"sample", "extend", "rank"} =>
              \A j \in Current : dec[j].completed /\ ~dec[j].failed => dec[j].result_len > 0
         /\ pc = "extend" /\ i = NMax - 1 => \A j \in Live : dec[j].result_len > 0
         /\ pc = "rank" => \A j \in Current : ~dec[j].failed => dec[j].result_len > 0
    /\ ~call.loaded =>
         /\ pc # "extend" /\ (pc = "sample" => i = 0)
         /\ pc \in {"sample", "rank"} =>
              \A j \in Current : ~dec[j].failed /\ dec[j].result_len <= 1

\* No temperature has fewer decoders than the one before.  A call of the keyboard
\* is greedy; in beam search a smaller best_of would let best_decoder_id name a
\* decoder that only the first temperature had.
DecodersStay == \A c \in Calls : c.strategy = "beam" => c.beam_size <= c.best_of

BestFound ==
    /\ pc \in {"prompt", "sample", "extend", "rank"} => best \in Current
    /\ OnlyLastResort

\* What is pushed ends where the window begins at the latest.
TextBehind ==
    /\ result \in Seq(Segment)
    /\ SegmentsOrdered
    /\ ~call.no_timestamps /\ result # <<>> => result[Len(result)].t1 <= seek

TextInv == DecodingInv /\ Places /\ ResultsFound /\ (DecodersStay => BestFound) /\ TextBehind

LEMMA MoreNumbers ==
  /\ MaxTs \in Nat \ {0} /\ Chunk = 2 * MaxTs /\ Ids = -2 .. MaxTs
  /\ Temps \in Nat \ {0} /\ EntropyLen \in Nat \ {0} /\ WarmTemps \in Nat
<1>1. /\ Chunk \in Nat /\ Chunk > 0 /\ Chunk % 2 = 0
      /\ Temps \in Nat /\ Temps > 0 /\ EntropyLen \in Nat /\ EntropyLen > 0 /\ WarmTemps \in Nat
  BY WhisperAssumption
<1>2. Chunk = 2 * (Chunk \div 2) /\ Chunk \div 2 \in Nat \ {0}
  BY <1>1
<1>3. Ids = -2 .. MaxTs
  BY DEF Ids, Text
<1> QED
  BY <1>1, <1>2, <1>3 DEF MaxTs

LEMMA NewDecoderStamped ==
  /\ Stamped(NewDecoder) /\ NewDecoder.seek_delta = Chunk
<1>1. NewDecoder.seek_delta = Chunk /\ NewDecoder.tokens = <<>>
  BY DEF NewDecoder
<1>2. Len(NewDecoder.tokens) = 0
  BY <1>1
<1>3. \A k \in 1 .. Len(NewDecoder.tokens) : FALSE
  BY <1>2
<1>4. MaxTs \in 1 .. MaxTs
  BY MoreNumbers
<1> QED
  BY <1>1, <1>3, <1>4, MoreNumbers DEF Stamped

\* The window a decoder asks for is one of the audio's.
LEMMA StampedDelta ==
  ASSUME NEW d, Stamped(d)
  PROVE  d.seek_delta \in 1 .. Chunk
<1>1. PICK s \in 1 .. MaxTs : d.seek_delta = 2 * s
  BY DEF Stamped
<1> QED
  BY <1>1, MoreNumbers

\* A longer window reaches the timestamps as well.
LEMMA StampedLonger ==
  ASSUME NEW d \in DecoderType, Stamped(d), NEW f,
         f.tokens = d.tokens, f.has_ts = d.has_ts, f.seek_delta \in {d.seek_delta, Chunk}
  PROVE  Stamped(f)
<1>1. PICK s \in 1 .. MaxTs : d.seek_delta = 2 * s
  BY DEF Stamped
<1>2. PICK u \in 1 .. MaxTs : f.seek_delta = 2 * u /\ s <= u
  BY <1>1, MoreNumbers
<1>3. \A k \in 1 .. Len(d.tokens) : d.tokens[k] \in Int
  <2>1. d.tokens \in Seq(Ids)
    BY DEF DecoderType
  <2>2. \A x \in Ids : x \in Int
    BY MoreNumbers
  <2> QED
    BY <2>1, <2>2
<1>4. \A k \in 1 .. Len(d.tokens) : d.tokens[k] > Beg => d.has_ts /\ 2 * d.tokens[k] <= 2 * u
  BY <1>1, <1>2, <1>3 DEF Stamped
<1> QED
  BY <1>2, <1>4 DEF Stamped

\* One token more, judged: it stands behind the timestamps there were, so no
\* decoder goes back, and a decoder that ends has something to show.
LEMMA AcceptedStamps ==
  ASSUME call \in Calls, i \in Nat, NEW d \in DecoderType, NEW id \in Allowed(d),
         Stamped(d), Len(d.tokens) = i, d.result_len <= i, ~d.failed, ~d.completed
  PROVE  /\ Stamped(Accept(AddToken(d, id), id))
         /\ call.loaded => LET a == Accept(AddToken(d, id), id)
                           IN  ~a.failed /\ (a.completed \/ i = NMax - 1) => a.result_len > 0
         /\ ~call.loaded /\ i = 0 =>
                LET a == Accept(AddToken(d, id), id)
                IN  a.completed /\ ~a.failed /\ a.result_len <= 1
<1> DEFINE t == Append(d.tokens, id)
           g == AddToken(d, id)
           e == IF Stamps(id)
                THEN [g EXCEPT !.seek_delta = 2 * id, !.result_len = i + 1, !.has_ts = TRUE] ELSE g
           a == Accept(g, id)
           atEnd == seek + e.seek_delta + Second >= call.frames
           ends  == \/ id = Eot
                    \/ call.max_tokens > 0 /\ i >= call.max_tokens
                    \/ e.has_ts /\ atEnd
<1>1. /\ id \in Ids /\ id \in Int /\ 2 * id \in Int /\ id <= MaxTs /\ MaxTs \in Nat \ {0}
      /\ Chunk = 2 * MaxTs
      /\ i = 0 => id # Eot
  <2>1. id \in Ids /\ (Len(d.tokens) = 0 => id # Eot)
    BY DEF Allowed
  <2> QED
    BY <2>1, MoreNumbers
<1>2. /\ g \in DecoderType /\ g.tokens = t /\ g.seek_delta = d.seek_delta /\ g.has_ts = d.has_ts
      /\ g.result_len = d.result_len /\ ~g.failed /\ ~g.completed
  <2>1. t \in Seq(Ids)
    BY <1>1 DEF DecoderType
  <2>2. g = [d EXCEPT !.tokens = t]
    BY DEF AddToken
  <2> HIDE DEF t, g
  <2> QED
    BY <2>1, <2>2 DEF DecoderType
<1>3. PICK s \in 1 .. MaxTs : d.seek_delta = 2 * s
  BY DEF Stamped
<1>4. id > 0 /\ d.has_ts => id >= s
  <2>1. d.has_ts /\ IsTs(id) => id >= d.seek_delta \div 2
    BY DEF Allowed, NotBefore
  <2>2. d.seek_delta \div 2 = s
    BY <1>3, <1>1
  <2>3. id > 0 => IsTs(id)
    BY <1>1 DEF IsTs, Beg
  <2> QED
    BY <2>1, <2>2, <2>3
<1>5. ~(Stamps(id) /\ g.has_ts /\ g.seek_delta > 2 * id /\ g.result_len < i)
  <2>1. Stamps(id) => id > 0
    BY DEF Stamps, Beg
  <2> QED
    BY <1>1, <1>2, <1>3, <1>4, <2>1
<1>6. /\ e \in DecoderType /\ e.tokens = t /\ ~e.failed /\ ~e.completed
      /\ IF Stamps(id) THEN e.seek_delta = 2 * id /\ e.result_len = i + 1 /\ e.has_ts
         ELSE e.seek_delta = d.seek_delta /\ e.result_len = d.result_len /\ e.has_ts = d.has_ts
  <2> HIDE DEF g, t
  <2>1. CASE Stamps(id)
    <3>1. e = [g EXCEPT !.seek_delta = 2 * id, !.result_len = i + 1, !.has_ts = TRUE]
      BY <2>1
    <3>2. i + 1 \in Nat
      OBVIOUS
    <3> HIDE DEF e
    <3> QED
      BY <2>1, <3>1, <3>2, <1>1, <1>2 DEF DecoderType
  <2>2. CASE ~Stamps(id)
    BY <2>2, <1>2
  <2> QED
    BY <2>1, <2>2
<1>7. Stamped(e)
  <2>1. /\ Len(t) = i + 1 /\ t[i + 1] = id
        /\ \A k \in 1 .. i : t[k] = d.tokens[k] /\ d.tokens[k] \in Int
    <3>1. d.tokens \in Seq(Ids)
      BY DEF DecoderType
    <3>2. \A k \in 1 .. i : d.tokens[k] \in Ids
      BY <3>1
    <3>3. \A x \in Ids : x \in Int
      BY MoreNumbers
    <3> QED
      BY <3>1, <3>2, <3>3
  <2>2. /\ \A k \in 1 .. i : d.tokens[k] > 0 => d.has_ts /\ 2 * d.tokens[k] <= d.seek_delta
        /\ \A k, l \in 1 .. i :
             k <= l /\ d.tokens[k] > 0 /\ d.tokens[l] > 0 => d.tokens[k] <= d.tokens[l]
    BY DEF Stamped, Beg
  <2>3. Stamps(id) <=> id > 0
    BY DEF Stamps, Beg
  <2>4. \E u \in 1 .. MaxTs : e.seek_delta = 2 * u
    <3>1. CASE Stamps(id)
      <4>1. id \in 1 .. MaxTs
        BY <3>1, <2>3, <1>1
      <4> QED
        BY <4>1, <3>1, <1>6
    <3>2. CASE ~Stamps(id)
      BY <3>2, <1>3, <1>6
    <3> QED
      BY <3>1, <3>2
  <2>5. \A k \in 1 .. i : id > 0 /\ t[k] > 0 => t[k] <= id
    <3> SUFFICES ASSUME NEW k \in 1 .. i, id > 0, t[k] > 0
                 PROVE  t[k] <= id
      OBVIOUS
    <3>1. t[k] \in Int /\ d.has_ts /\ 2 * t[k] <= 2 * s
      BY <2>1, <2>2, <1>3
    <3>2. id >= s
      BY <3>1, <1>4
    <3> HIDE DEF t
    <3> QED
      BY <3>1, <3>2, <1>1
  <2>6. \A k \in 1 .. i + 1 : t[k] > 0 => e.has_ts /\ 2 * t[k] <= e.seek_delta
    <3> SUFFICES ASSUME NEW k \in 1 .. i + 1, t[k] > 0
                 PROVE  e.has_ts /\ 2 * t[k] <= e.seek_delta
      OBVIOUS
    <3>1. k \in 1 .. i \/ k = i + 1
      OBVIOUS
    <3>2. CASE k \in 1 .. i
      <4>1. t[k] \in Int /\ d.has_ts /\ 2 * t[k] <= d.seek_delta
        BY <3>2, <2>1, <2>2
      <4>2. id > 0 => t[k] <= id
        BY <3>2, <2>5
      <4>3. CASE Stamps(id)
        <5>1. e.has_ts /\ e.seek_delta = 2 * id /\ t[k] <= id
          BY <4>2, <4>3, <1>6, <2>3
        <5> HIDE DEF t, e
        <5> QED
          BY <4>1, <5>1, <1>1
      <4>4. CASE ~Stamps(id)
        <5>1. e.has_ts = d.has_ts /\ e.seek_delta = d.seek_delta
          BY <4>4, <1>6
        <5> HIDE DEF t, e
        <5> QED
          BY <4>1, <5>1
      <4> QED
        BY <4>3, <4>4
    <3>3. CASE k = i + 1
      <4>1. t[k] = id
        BY <3>3, <2>1
      <4> HIDE DEF t, e
      <4> QED
        BY <4>1, <1>1, <1>6, <2>3
    <3> QED
      BY <3>1, <3>2, <3>3
  <2>7. \A k, l \in 1 .. i + 1 : k <= l /\ t[k] > 0 /\ t[l] > 0 => t[k] <= t[l]
    <3> SUFFICES ASSUME NEW k \in 1 .. i + 1, NEW l \in 1 .. i + 1, k <= l, t[k] > 0, t[l] > 0
                 PROVE  t[k] <= t[l]
      OBVIOUS
    <3>1. \/ k \in 1 .. i /\ l \in 1 .. i
          \/ k \in 1 .. i /\ l = i + 1
          \/ k = i + 1 /\ l = i + 1
      OBVIOUS
    <3>2. CASE k \in 1 .. i /\ l \in 1 .. i
      BY <3>2, <2>1, <2>2
    <3>3. CASE k \in 1 .. i /\ l = i + 1
      BY <3>3, <2>1, <2>5
    <3>4. CASE k = i + 1 /\ l = i + 1
      BY <3>4, <2>1, <1>1
    <3> QED
      BY <3>1, <3>2, <3>3, <3>4
  <2>8. e.tokens = t /\ Len(e.tokens) = i + 1
    BY <1>6, <2>1
  <2> HIDE DEF e, t
  <2> QED
    BY <2>4, <2>6, <2>7, <2>8 DEF Stamped, Beg
<1>8. a = IF ends
          THEN IF e.result_len = 0 /\ ~atEnd THEN [e EXCEPT !.failed = TRUE]
               ELSE [e EXCEPT !.completed  = TRUE,
                              !.result_len = IF call.single_segment \/ e.result_len = 0 THEN i + 1 ELSE e.result_len,
                              !.seek_delta = IF call.single_segment THEN Chunk ELSE e.seek_delta]
          ELSE IF ~call.loaded THEN [e EXCEPT !.completed = TRUE, !.seek_delta = Chunk]
          ELSE IF i = NMax - 1 /\ (e.result_len = 0 \/ e.seek_delta < Chunk \div 2)
          THEN [e EXCEPT !.failed = TRUE] ELSE e
  <2>1. a = IF Stamps(id) /\ g.has_ts /\ g.seek_delta > 2 * id /\ g.result_len < i
            THEN [g EXCEPT !.failed = TRUE]
            ELSE IF ends
            THEN IF e.result_len = 0 /\ ~atEnd THEN [e EXCEPT !.failed = TRUE]
                 ELSE [e EXCEPT !.completed  = TRUE,
                                !.result_len = IF call.single_segment \/ e.result_len = 0 THEN i + 1 ELSE e.result_len,
                                !.seek_delta = IF call.single_segment THEN Chunk ELSE e.seek_delta]
            ELSE IF ~call.loaded THEN [e EXCEPT !.completed = TRUE, !.seek_delta = Chunk]
            ELSE IF i = NMax - 1 /\ (e.result_len = 0 \/ e.seek_delta < Chunk \div 2)
            THEN [e EXCEPT !.failed = TRUE] ELSE e
    <3> HIDE DEF g
    <3>1. e.result_len \in Nat /\ e.seek_delta \in Int
      BY <1>6 DEF DecoderType
    <3> QED
      BY <1>6, Zenon DEF Accept
  <2> HIDE DEF a, g, e, ends, atEnd
  <2> QED
    BY <2>1, <1>5
<1>9. \/ a = [e EXCEPT !.failed = TRUE] /\ (call.loaded \/ i # 0)
      \/ /\ a = [e EXCEPT !.completed  = TRUE,
                          !.result_len = IF call.single_segment \/ e.result_len = 0 THEN i + 1 ELSE e.result_len,
                          !.seek_delta = IF call.single_segment THEN Chunk ELSE e.seek_delta]
      \/ a = [e EXCEPT !.completed = TRUE, !.seek_delta = Chunk] /\ ~call.loaded
      \/ a = e /\ call.loaded /\ (i = NMax - 1 => e.result_len # 0)
  <2>1. call.loaded \in BOOLEAN /\ call.max_tokens \in Nat
    BY WhisperAssumption DEF CallType
  <2>2. ends /\ ~atEnd => i # 0
    BY <1>1, <2>1
  <2> HIDE DEF a, e, g, ends, atEnd
  <2> QED
    BY <1>8, <2>1, <2>2
<1>10. /\ a.failed => call.loaded \/ i # 0
       /\ a.tokens = e.tokens /\ a.has_ts = e.has_ts /\ a.seek_delta \in {e.seek_delta, Chunk}
       /\ a.result_len \in {e.result_len, i + 1}
       /\ ~a.failed =>
            \/ a.completed /\ a.result_len > 0
            \/ a.completed /\ ~call.loaded
            \/ ~a.completed /\ call.loaded /\ (i = NMax - 1 => a.result_len > 0)
  <2>0. e.result_len \in Nat /\ e.seek_delta \in Int
    BY <1>6 DEF DecoderType
  <2>1. CASE a = [e EXCEPT !.failed = TRUE] /\ (call.loaded \/ i # 0)
    <3> HIDE DEF a, e
    <3> QED
      BY <2>1, <1>6 DEF DecoderType
  <2>2. CASE a = [e EXCEPT !.completed  = TRUE,
                          !.result_len = IF call.single_segment \/ e.result_len = 0 THEN i + 1 ELSE e.result_len,
                          !.seek_delta = IF call.single_segment THEN Chunk ELSE e.seek_delta]
    <3> DEFINE r == IF call.single_segment \/ e.result_len = 0 THEN i + 1 ELSE e.result_len
               u == IF call.single_segment THEN Chunk ELSE e.seek_delta
    <3>1. r > 0 /\ r \in {e.result_len, i + 1} /\ u \in {e.seek_delta, Chunk}
      BY <2>0
    <3>2. a = [e EXCEPT !.completed = TRUE, !.result_len = r, !.seek_delta = u]
      BY <2>2
    <3> HIDE DEF a, e, r, u
    <3>3. a.completed /\ a.result_len = r /\ a.seek_delta = u /\ a.tokens = e.tokens
          /\ a.has_ts = e.has_ts /\ a.failed = e.failed
      BY <3>2, <1>6 DEF DecoderType
    <3> QED
      BY <3>1, <3>3, <1>6
  <2>3. CASE a = [e EXCEPT !.completed = TRUE, !.seek_delta = Chunk] /\ ~call.loaded
    <3> HIDE DEF a, e
    <3>1. a.completed /\ a.result_len = e.result_len /\ a.seek_delta = Chunk /\ a.tokens = e.tokens
          /\ a.has_ts = e.has_ts /\ a.failed = e.failed
      BY <2>3, <1>6 DEF DecoderType
    <3> QED
      BY <3>1, <2>3, <1>6
  <2>4. CASE a = e /\ call.loaded /\ (i = NMax - 1 => e.result_len # 0)
    <3> HIDE DEF a, e
    <3> QED
      BY <2>4, <2>0, <1>6
  <2> HIDE DEF a, e
  <2> QED
    BY <1>9, <2>1, <2>2, <2>3, <2>4
<1>11. Stamped(a)
  <2> HIDE DEF a, e
  <2> QED
    BY <1>6, <1>7, <1>10, StampedLonger
<1>12. ~call.loaded /\ i = 0 => a.result_len <= 1
  <2>1. i = 0 => e.result_len \in {d.result_len, 1}
    BY <1>6
  <2>2. d.result_len \in Nat
    BY DEF DecoderType
  <2> HIDE DEF a, e
  <2> QED
    BY <1>10, <2>1, <2>2
<1> HIDE DEF a, e, g, t, ends, atEnd
<1> QED
  BY <1>10, <1>11, <1>12, Zenon DEF a, g

-----------------------------------------------------------------------------
(* The segments of a window.                                               *)

\* A later member of a set of numbers does not have an earlier Turn.
LEMMA TurnsRise ==
  ASSUME NEW S \in SUBSET Nat, IsFiniteSet(S), NEW j \in S, NEW k \in S, j <= k
  PROVE  Turn(S, j) <= Turn(S, k)
<1> DEFINE upto(b) == {m \in S : m <= b}
<1>1. \A m \in S : m <= j => m <= k
  OBVIOUS
<1>2. upto(j) \in SUBSET upto(k) /\ upto(k) \in SUBSET S
  BY <1>1
<1>3. Turn(S, j) = Cardinality(upto(j)) /\ Turn(S, k) = Cardinality(upto(k))
  BY DEF Turn
<1> HIDE DEF upto
<1> QED
  BY <1>2, <1>3, FS_Subset

\* The segments of a decoder's tokens lie in its window, and each begins where
\* the one before it ends or later.
LEMMA SegmentsInOrder ==
  ASSUME seek \in Nat, NEW d \in DecoderType, Stamped(d), NEW tid \in Int
  PROVE  /\ Segments(d, tid) \in Seq(Segment)
         /\ tid >= 0 =>
              LET s == Segments(d, tid)
              IN  /\ \A n \in 1 .. Len(s) : s[n].t0 >= seek /\ s[n].t1 <= seek + d.seek_delta
                  /\ \A n \in 1 .. Len(s) - 1 : s[n].t1 <= s[n + 1].t0
<1> DEFINE S        == Starts(d)
           Begin(b) == seek + 2 * (IF b = 0 THEN tid ELSE d.tokens[b])
           End(b)   == seek + (IF CutsAfter(d, b) = {} THEN d.seek_delta
                               ELSE 2 * d.tokens[Min(CutsAfter(d, b))])
           At(n)    == CHOOSE b \in S : Turn(S, b) = n
           s        == Segments(d, tid)
<1>1. /\ d.tokens \in Seq(Ids) /\ Len(d.tokens) \in Nat /\ d.seek_delta \in Int
      /\ \A k \in 1 .. Len(d.tokens) : d.tokens[k] \in Int
  <2>1. d.tokens \in Seq(Ids) /\ d.seek_delta \in Int
    BY DEF DecoderType
  <2>2. \A x \in Ids : x \in Int
    BY MoreNumbers
  <2> QED
    BY <2>1, <2>2
<1>2. /\ Cuts(d) \in SUBSET (1 .. Len(d.tokens))
      /\ \A c \in Cuts(d) : d.tokens[c] > 0 /\ 2 * d.tokens[c] <= d.seek_delta
      /\ \A b, c \in Cuts(d) : b <= c => d.tokens[b] <= d.tokens[c]
  <2>1. Cuts(d) \in SUBSET (1 .. Len(d.tokens)) /\ \A c \in Cuts(d) : d.tokens[c] > 0
    BY DEF Cuts, Beg
  <2> QED
    BY <2>1 DEF Stamped, Beg
<1>3. /\ S \in SUBSET ({0} \cup Cuts(d)) /\ S \in SUBSET (0 .. Len(d.tokens)) /\ S \in SUBSET Nat
      /\ IsFiniteSet(S)
  <2>1. S \in SUBSET ({0} \cup Cuts(d))
    BY DEF Starts
  <2> HIDE DEF S
  <2>2. S \in SUBSET (0 .. Len(d.tokens))
    BY <2>1, <1>1, <1>2
  <2>3. IsFiniteSet(0 .. Len(d.tokens))
    BY <1>1, FS_Interval
  <2>4. IsFiniteSet(S)
    BY <2>2, <2>3, FS_Subset
  <2> QED
    BY <2>1, <2>2, <2>4
<1>4. \A b \in S : CutsAfter(d, b) # {} =>
        /\ Min(CutsAfter(d, b)) \in Cuts(d)
        /\ \A c \in CutsAfter(d, b) : Min(CutsAfter(d, b)) <= c
  <2> SUFFICES ASSUME NEW b \in S, CutsAfter(d, b) # {}
               PROVE  /\ Min(CutsAfter(d, b)) \in Cuts(d)
                      /\ \A c \in CutsAfter(d, b) : Min(CutsAfter(d, b)) <= c
    OBVIOUS
  <2> DEFINE C == CutsAfter(d, b)
  <2>1. C \in SUBSET Cuts(d)
    BY DEF CutsAfter
  <2>2. C \in SUBSET Nat
    BY <2>1, <1>2
  <2>3. C # {}
    OBVIOUS
  <2> HIDE DEF C
  <2>4. Min(C) \in C /\ \A x \in C : Min(C) <= x
    BY <2>2, <2>3, MinOfNumbers
  <2> QED
    BY <2>1, <2>4 DEF C
<1>5. \A b \in S : Begin(b) \in Int /\ End(b) \in Int /\ End(b) <= seek + d.seek_delta
  <2> SUFFICES ASSUME NEW b \in S
               PROVE  Begin(b) \in Int /\ End(b) \in Int /\ End(b) <= seek + d.seek_delta
    OBVIOUS
  <2>1. Begin(b) \in Int
    <3>1. b = 0 \/ d.tokens[b] \in Int
      BY <1>1, <1>2, <1>3
    <3> QED
      BY <3>1
  <2>2. CASE CutsAfter(d, b) = {}
    BY <2>1, <2>2, <1>1
  <2>3. CASE CutsAfter(d, b) # {}
    <3> DEFINE m == Min(CutsAfter(d, b))
    <3>1. m \in Cuts(d)
      BY <2>3, <1>4
    <3> HIDE DEF m
    <3>2. d.tokens[m] \in Int /\ 2 * d.tokens[m] <= d.seek_delta
      BY <3>1, <1>1, <1>2
    <3>3. End(b) = seek + 2 * d.tokens[m]
      BY <2>3 DEF m
    <3> HIDE DEF End, Begin
    <3> QED
      BY <2>1, <3>2, <3>3, <1>1
  <2> QED
    BY <2>2, <2>3
<1>6. tid >= 0 => \A b \in S : Begin(b) >= seek
  <2> SUFFICES ASSUME tid >= 0, NEW b \in S
               PROVE  Begin(b) >= seek
    OBVIOUS
  <2>1. b = 0 \/ (d.tokens[b] \in Int /\ d.tokens[b] > 0)
    BY <1>1, <1>2, <1>3
  <2> QED
    BY <2>1
<1>7. \A b, c \in S : b < c => End(b) <= Begin(c)
  <2> SUFFICES ASSUME NEW b \in S, NEW c \in S, b < c
               PROVE  End(b) <= Begin(c)
    OBVIOUS
  <2>1. c # 0 /\ c \in Cuts(d) /\ c \in CutsAfter(d, b)
    BY <1>3 DEF CutsAfter
  <2> DEFINE m == Min(CutsAfter(d, b))
  <2>2. m \in Cuts(d) /\ m <= c
    BY <2>1, <1>4
  <2> HIDE DEF m
  <2>3. d.tokens[m] \in Int /\ d.tokens[c] \in Int /\ d.tokens[m] <= d.tokens[c]
    BY <2>1, <2>2, <1>1, <1>2
  <2>4. End(b) = seek + 2 * d.tokens[m]
    BY <2>1 DEF m
  <2>5. Begin(c) = seek + 2 * d.tokens[c]
    BY <2>1
  <2> HIDE DEF Begin, End
  <2> QED
    BY <2>3, <2>4, <2>5
<1>8. /\ Cardinality(S) \in Nat
      /\ \A n \in 1 .. Cardinality(S) : At(n) \in S /\ Turn(S, At(n)) = n
  <2> HIDE DEF S
  <2>1. Cardinality(S) \in Nat /\ \A n \in 1 .. Cardinality(S) : \E j \in S : Turn(S, j) = n
    BY <1>3, TurnsInOrder
  <2> QED
    BY <2>1, Zenon
<1>9. s = [n \in 1 .. Cardinality(S) |-> [t0 |-> Begin(At(n)), t1 |-> End(At(n))]]
  BY DEF Segments
<1> HIDE DEF S, Begin, End, At, s
<1>10. \A n \in 1 .. Cardinality(S) : s[n] \in Segment /\ s[n].t0 = Begin(At(n)) /\ s[n].t1 = End(At(n))
  BY <1>5, <1>8, <1>9 DEF Segment
<1>11. Len(s) = Cardinality(S) /\ s \in Seq(Segment)
  BY <1>8, <1>9, <1>10
<1>12. ASSUME NEW n \in 1 .. Cardinality(S) - 1
       PROVE  s[n].t1 <= s[n + 1].t0
  <2>1. n \in 1 .. Cardinality(S) /\ n + 1 \in 1 .. Cardinality(S) /\ n \in Nat
    BY <1>8
  <2>2. /\ At(n) \in S /\ At(n + 1) \in S /\ Turn(S, At(n)) = n /\ Turn(S, At(n + 1)) = n + 1
        /\ At(n) \in Nat /\ At(n + 1) \in Nat
    BY <2>1, <1>3, <1>8
  <2>3. At(n) < At(n + 1)
    <3>1. At(n + 1) <= At(n) => n + 1 <= n
      BY <2>2, <1>3, TurnsRise
    <3> QED
      BY <2>1, <2>2, <3>1
  <2> QED
    BY <2>1, <2>2, <2>3, <1>7, <1>10
<1>13. tid >= 0 => \A n \in 1 .. Len(s) : s[n].t0 >= seek /\ s[n].t1 <= seek + d.seek_delta
  BY <1>5, <1>6, <1>8, <1>10, <1>11
<1>14. \A n \in 1 .. Len(s) - 1 : s[n].t1 <= s[n + 1].t0
  BY <1>11, <1>12
<1> QED
  BY <1>11, <1>13, <1>14 DEF s

-----------------------------------------------------------------------------
(* Every step keeps the text in order.                                     *)

\* The number of decoders is the parameter of the call, and at least one.
LEMMA AtLeastOne ==
  ASSUME NEW x \in Nat
  PROVE  /\ Max({1, x}) \in Nat \ {0} /\ x <= Max({1, x})
         /\ \A y \in Nat : y <= x => Max({1, y}) <= Max({1, x})
<1>1. ASSUME NEW y \in Nat
      PROVE  Max({1, y}) \in {1, y} /\ 1 <= Max({1, y}) /\ y <= Max({1, y})
  <2>1. {1, y} \in SUBSET Nat /\ {1, y} # {} /\ y + 1 \in Nat /\ \A z \in {1, y} : z <= y + 1
    OBVIOUS
  <2> QED
    BY <2>1, MaxOfNumbers
<1> QED
  BY <1>1

LEMMA CallParameters ==
  ASSUME call \in Calls
  PROVE  /\ call.best_of \in Nat /\ call.beam_size \in Nat /\ call.frames \in Nat
         /\ call.strategy \in {"greedy", "beam"} /\ call.loaded \in BOOLEAN
         /\ call.no_timestamps \in BOOLEAN
BY WhisperAssumption DEF CallType

LEMMA SlotInside ==
  ASSUME NEW k, NEW n \in Nat, FindSlot(k, n) # NoSlot
  PROVE  FindSlot(k, n) \in 0 .. KvSize
<1> DEFINE free  == {s \in 0 .. KvSize - n : \A c \in s .. s + n - 1 : k.cells[c].pos < 0}
           ahead == {s \in free : s >= k.head}
           from  == IF ahead # {} THEN ahead ELSE free
<1>1. from \in SUBSET Nat /\ free \in SUBSET (0 .. KvSize) /\ from \in SUBSET free
  BY KvSizeAssumption
<1>2. free # {} /\ FindSlot(k, n) = Min(from)
  BY DEF FindSlot
<1>3. from # {}
  BY <1>2
<1> HIDE DEF from, free
<1>4. Min(from) \in from
  BY <1>1, <1>3, MinOfNumbers
<1> QED
  BY <1>1, <1>2, <1>4

LEMMA TextInitially == Init => TextInv
<1> SUFFICES ASSUME Init PROVE TextInv
  OBVIOUS
<1>1. DecodingInv
  BY Initially
<1>2. \A j \in Decoders : Stamped(dec[j])
  BY NewDecoderStamped DEF Init
<1>3. Places
  BY <1>2, MoreNumbers, KvSizeAssumption DEF Init, Places, Cleared
<1>4. ResultsFound /\ BestFound
  BY DEF Init, ResultsFound, BestFound, OnlyLastResort
<1>5. TextBehind
  <2>1. result = <<>> /\ Len(result) = 0 /\ result \in Seq(Segment)
    BY DEF Init
  <2> QED
    BY <2>1 DEF TextBehind, SegmentsOrdered
<1> QED
  BY <1>1, <1>3, <1>4, <1>5 DEF TextInv

LEMMA WindowTells ==
  ASSUME TextInv, Window
  PROVE  Places' /\ ResultsFound' /\ BestFound' /\ TextBehind'
<1>1. /\ UNCHANGED <<call, seek, dec, kv, result>>
      /\ \/ pc' = "done" /\ it' = it
         \/ pc' = "prompt" /\ it' = 0 /\ best' = 0 /\ rc' = rc
      /\ rc = 0
  BY DEF Window, Return, TextInv, Places
<1>2. Places'
  BY <1>1, MoreNumbers DEF TextInv, Places
<1>3. ResultsFound'
  BY <1>1 DEF ResultsFound
<1>4. pc' = "prompt" => best' \in Current'
  <2> SUFFICES ASSUME pc' = "prompt"
               PROVE  best' \in Current'
    OBVIOUS
  <2>1. call' = call /\ call.best_of \in Nat /\ call.beam_size \in Nat /\ best' = 0
    BY <1>1, CallParameters DEF TextInv, DecodingInv, DecodingTypes
  <2>2. PICK x \in Nat : NDecoders' = Max({1, x})
    BY <2>1 DEF NDecoders
  <2>3. PICK n \in Nat \ {0} : n = NDecoders'
    BY <2>2, AtLeastOne
  <2>4. Current' = 0 .. n - 1
    BY <2>3 DEF Current
  <2>5. 0 \in 0 .. n - 1
    OBVIOUS
  <2>6. best' = 0
    BY <2>1
  <2>7. 0 \in Current'
    BY <2>4, <2>5
  <2> QED
    BY <2>6, <2>7
<1>5. BestFound'
  BY <1>1, <1>4 DEF BestFound, OnlyLastResort
<1>6. TextBehind'
  BY <1>1 DEF TextInv, TextBehind, SegmentsOrdered
<1> QED
  BY <1>2, <1>3, <1>5, <1>6

LEMMA StartPromptTells ==
  ASSUME TextInv, StartPrompt
  PROVE  Places' /\ ResultsFound' /\ (DecodersStay => BestFound') /\ TextBehind'
<1>1. /\ UNCHANGED <<call, seek, it, best, result>>
      /\ dec' = [j \in Decoders |-> IF j \in Current THEN NewDecoder ELSE dec[j]]
      /\ i' = 0 /\ pc = "prompt" /\ rc = 0
  BY DEF StartPrompt, TextInv, Places
<1>2. Current' = Current /\ Current \in SUBSET Decoders
  <2>1. call' = call /\ it' = it
    BY <1>1
  <2>2. NDecoders' = NDecoders
    BY <2>1 DEF NDecoders
  <2> QED
    BY <2>2, CallBounds DEF Current, TextInv, DecodingInv, DecodingTypes
<1>3. \/ pc' = "done" /\ kv' = Cleared
      \/ \E s : /\ s = FindSlot(Cleared, PromptLen') /\ s # NoSlot
                /\ pc' = "sample" /\ rc' = rc
                /\ kv' = Share(Put(Cleared, s, PromptBatch'), NDecoders)
  BY DEF StartPrompt, Return
<1>4. kv'.head <= KvSize
  <2>1. Cleared.head = 0 /\ KvSize \in Nat
    BY ClearedSound, KvSizeAssumption
  <2>2. CASE kv' = Cleared
    BY <2>1, <2>2
  <2>3. ASSUME NEW s, s = FindSlot(Cleared, PromptLen'), s # NoSlot,
               kv' = Share(Put(Cleared, s, PromptBatch'), NDecoders)
        PROVE  kv'.head <= KvSize
    <3>1. PromptLen' \in Nat
      <4>1. call' \in Calls /\ taken' \in {NoSlot} \cup 1 .. TextCtx \div 2
        BY DecodingInvInductive DEF TextInv, DecodingInv, DecodingTypes, Next, Step
      <4>2. call'.no_timestamps \in BOOLEAN /\ call'.multilingual \in BOOLEAN
        BY <4>1, WhisperAssumption DEF CallType
      <4>3. InitLen' \in 1 .. 4
        BY <4>2 DEF InitLen
      <4>4. PICK l \in 1 .. 4 : l = InitLen'
        BY <4>3
      <4>5. PromptLen' = l + (IF taken' = NoSlot THEN 0 ELSE taken' + 1)
        BY <4>4 DEF PromptLen
      <4>6. taken' = NoSlot \/ taken' \in Nat
        BY <4>1, Numbers
      <4> QED
        BY <4>5, <4>6
    <3>2. s \in 0 .. KvSize
      BY <2>3, <3>1, SlotInside
    <3> DEFINE p == Put(Cleared, s, PromptBatch')
    <3>3. p.head = s
      BY DEF Put, Cleared
    <3>4. kv'.head \in {0, p.head}
      <4>1. kv' = Share(p, NDecoders)
        BY <2>3
      <4>2. "head" \in DOMAIN p
        BY DEF Put, Cleared
      <4> HIDE DEF p
      <4> QED
        BY <4>1, <4>2 DEF Share
    <3> HIDE DEF p
    <3> QED
      BY <2>1, <3>2, <3>3, <3>4
  <2> QED
    BY <1>3, <2>2, <2>3
<1>5. \A j \in Decoders : Stamped(dec'[j])
  BY <1>1, NewDecoderStamped DEF TextInv, Places
<1>6. Places'
  <2>1. rc' # 0 => pc' = "done"
    BY <1>1, <1>3
  <2> QED
    BY <1>1, <1>4, <1>5, <2>1 DEF TextInv, Places
<1>7. ResultsFound'
  <2>1. pc' \in {"done", "sample"}
    BY <1>3
  <2>2. \A j \in Current' : ~dec'[j].completed /\ ~dec'[j].failed /\ dec'[j].result_len = 0
    BY <1>1, <1>2, NewDecoderTyped
  <2> QED
    BY <1>1, <2>1, <2>2 DEF ResultsFound
<1>8. DecodersStay => BestFound'
  <2>1. pc' \in {"done", "sample"}
    BY <1>3
  <2> QED
    BY <1>1, <1>2, <2>1 DEF TextInv, BestFound, OnlyLastResort
<1>9. TextBehind'
  BY <1>1 DEF TextInv, TextBehind, SegmentsOrdered
<1> QED
  BY <1>6, <1>7, <1>8, <1>9

\* Sampling, in either strategy.
LEMMA SampleTells ==
  ASSUME TextInv, pc = "sample", NEW from \in [Live -> Live], NEW ids \in [Live -> Ids],
         \A j \in Live : ids[j] \in Allowed(dec[from[j]]),
         dec' = [j \in Decoders |-> IF j \in Live THEN Accept(AddToken(dec[from[j]], ids[j]), ids[j])
                                    ELSE dec[j]],
         AfterSample, kv'.head \in {0, kv.head}
  PROVE  Places' /\ ResultsFound' /\ (DecodersStay => BestFound') /\ TextBehind'
<1>0. /\ DecodingTypes /\ SequencesGrow /\ Places /\ ResultsFound /\ TextBehind
      /\ Current \in SUBSET Decoders /\ Live \in SUBSET Current
  BY CallBounds DEF TextInv, DecodingInv, DecodingTypes, Live
<1>1. /\ call' = call /\ i' = i
      /\ UNCHANGED <<rc, seek, it, best, result>>
      /\ pc' = IF Live' = {} THEN "rank" ELSE "extend"
  BY DEF AfterSample
<1>2. Current' = Current
  <2>1. UNCHANGED <<call, it, taken>>
    BY DEF AfterSample
  <2> QED
    BY <2>1, SameCall
<1>3. ASSUME NEW j \in Live
      PROVE  /\ Stamped(dec'[j])
             /\ call.loaded => /\ dec'[j].completed /\ ~dec'[j].failed => dec'[j].result_len > 0
                               /\ i = NMax - 1 /\ ~dec'[j].failed => dec'[j].result_len > 0
             /\ ~call.loaded => dec'[j].completed /\ ~dec'[j].failed /\ dec'[j].result_len <= 1
  <2>1. from[j] \in Live /\ from[j] \in Decoders /\ j \in Decoders
    BY <1>0
  <2>2. PICK d \in DecoderType : d = dec[from[j]]
    BY <1>0, <2>1 DEF DecodingTypes
  <2>3. PICK id \in Allowed(d) : id = ids[j]
    BY <2>2
  <2>4. /\ Stamped(d) /\ Len(d.tokens) = i /\ d.result_len <= i /\ ~d.failed /\ ~d.completed
    BY <1>0, <2>1, <2>2 DEF DecodingTypes, SequencesGrow, Deciding, Places, Live
  <2>5. call \in Calls /\ i \in Nat
    BY <1>0, Numbers DEF DecodingTypes
  <2>6. ~call.loaded => i = 0
    BY <1>0 DEF ResultsFound
  <2>7. dec'[j] = Accept(AddToken(d, id), id)
    BY <2>1, <2>2, <2>3
  <2> DEFINE a == Accept(AddToken(d, id), id)
  <2>8. /\ Stamped(a)
        /\ call.loaded => (~a.failed /\ (a.completed \/ i = NMax - 1) => a.result_len > 0)
        /\ ~call.loaded /\ i = 0 => a.completed /\ ~a.failed /\ a.result_len <= 1
    BY <2>4, <2>5, AcceptedStamps
  <2> HIDE DEF a
  <2> QED
    BY <2>6, <2>7, <2>8, Zenon DEF a
<1>4. \A j \in Decoders \ Live : dec'[j] = dec[j]
  OBVIOUS
<1>5. \A j \in Live' : j \in Live /\ ~dec'[j].failed
  BY <1>0, <1>2, <1>4 DEF Live
<1>6. \A j \in Current' : j \notin Live' => dec'[j].completed \/ dec'[j].failed
  BY DEF Live
<1>7. Places'
  <2>1. \A j \in Decoders : Stamped(dec'[j])
    BY <1>0, <1>3, <1>4 DEF Places
  <2> QED
    BY <1>0, <1>1, <2>1, KvSizeAssumption DEF Places
<1>8. ResultsFound'
  <2>1. CASE call.loaded
    <3>1. \A j \in Current' : dec'[j].completed /\ ~dec'[j].failed => dec'[j].result_len > 0
      BY <1>0, <1>2, <1>3, <1>4, <2>1 DEF ResultsFound
    <3>2. pc' = "extend" /\ i' = NMax - 1 => \A j \in Live' : dec'[j].result_len > 0
      BY <1>1, <1>3, <1>5, <2>1
    <3>3. pc' = "rank" => \A j \in Current' : ~dec'[j].failed => dec'[j].result_len > 0
      BY <1>1, <1>6, <3>1
    <3> QED
      BY <1>1, <2>1, <3>1, <3>2, <3>3 DEF ResultsFound
  <2>2. CASE ~call.loaded
    <3>1. \A j \in Current' : ~dec'[j].failed /\ dec'[j].result_len <= 1
      BY <1>0, <1>2, <1>3, <1>4, <2>2 DEF ResultsFound
    <3>2. Live' = {}
      BY <1>3, <1>5, <2>2 DEF Live
    <3> QED
      BY <1>1, <2>2, <3>1, <3>2 DEF ResultsFound
  <2> QED
    BY <2>1, <2>2
<1>9. DecodersStay => BestFound'
  <2>1. pc' # "output"
    BY <1>1
  <2> QED
    BY <1>1, <1>2, <2>1 DEF TextInv, BestFound, OnlyLastResort
<1>10. TextBehind'
  BY <1>0, <1>1 DEF TextBehind, SegmentsOrdered
<1> QED
  BY <1>7, <1>8, <1>9, <1>10

LEMMA ExtendTells ==
  ASSUME TextInv, Extend
  PROVE  Places' /\ ResultsFound' /\ (DecodersStay => BestFound') /\ TextBehind'
<1>0. /\ DecodingTypes /\ SequencesGrow /\ Places /\ ResultsFound /\ TextBehind /\ pc = "extend"
      /\ Current \in SUBSET Decoders /\ Live \in SUBSET Current
  BY CallBounds DEF TextInv, DecodingInv, DecodingTypes, Live, Extend
<1>1. /\ call' = call /\ UNCHANGED <<seek, it, best, result>>
      /\ \/ pc' = "done" /\ UNCHANGED <<dec, kv, i>>
         \/ \E s : /\ s = FindSlot(kv, Len(ExtendBatch)) /\ s # NoSlot
                   /\ kv' = Put(kv, s, ExtendBatch)
                   /\ dec' = [j \in Decoders |-> IF j \in Live
                                THEN [dec[j] EXCEPT !.by = Append(@, j)] ELSE dec[j]]
                   /\ i' = i + 1
                   /\ pc' = IF i' = NMax THEN "rank" ELSE "sample"
                   /\ rc' = rc
  BY DEF Extend, Return
<1>2. Current' = Current
  <2>1. UNCHANGED <<call, it, taken>>
    BY DEF Extend
  <2> QED
    BY <2>1, SameCall
<1>3. call.loaded
  BY <1>0, CallParameters DEF ResultsFound, DecodingTypes
<1>4. TextBehind'
  BY <1>0, <1>1 DEF TextBehind, SegmentsOrdered
<1>5. DecodersStay => BestFound'
  <2>1. pc' # "output"
    BY <1>1
  <2> QED
    BY <1>0, <1>1, <1>2, <2>1 DEF TextInv, BestFound, OnlyLastResort
<1>6. CASE pc' = "done" /\ UNCHANGED <<dec, kv, i>>
  <2>1. Places'
    BY <1>0, <1>1, <1>6 DEF Places
  <2>2. ResultsFound'
    BY <1>1, <1>3, <1>6 DEF ResultsFound
  <2> QED
    BY <2>1, <2>2, <1>4, <1>5
<1>7. CASE pc' # "done"
  <2>1. PICK s : /\ s = FindSlot(kv, Len(ExtendBatch)) /\ s # NoSlot
                 /\ kv' = Put(kv, s, ExtendBatch)
                 /\ dec' = [j \in Decoders |-> IF j \in Live
                              THEN [dec[j] EXCEPT !.by = Append(@, j)] ELSE dec[j]]
                 /\ i' = i + 1
                 /\ pc' = IF i' = NMax THEN "rank" ELSE "sample"
                 /\ rc' = rc
    BY <1>1, <1>7
  <2>2. kv'.head <= KvSize
    <3>1. Len(ExtendBatch) \in Nat
      <4>1. Len(ExtendBatch) = Cardinality(Live) /\ Cardinality(Live) \in Nat
        BY <1>0, BatchOfLive DEF TextInv
      <4> QED
        BY <4>1
    <3>2. s \in 0 .. KvSize
      BY <2>1, <3>1, SlotInside
    <3>3. kv'.head = s
      <4>1. "head" \in DOMAIN kv
        BY DEF TextInv, DecodingInv, CellsSound, CacheType
      <4> QED
        BY <2>1, <4>1 DEF Put
    <3> QED
      BY <3>2, <3>3, KvSizeAssumption
  <2>3. \A j \in Decoders :
          /\ dec'[j].tokens = dec[j].tokens /\ dec'[j].result_len = dec[j].result_len
          /\ dec'[j].seek_delta = dec[j].seek_delta /\ dec'[j].has_ts = dec[j].has_ts
          /\ dec'[j].failed = dec[j].failed /\ dec'[j].completed = dec[j].completed
    <3> SUFFICES ASSUME NEW j \in Decoders
                 PROVE  /\ dec'[j].tokens = dec[j].tokens /\ dec'[j].result_len = dec[j].result_len
                        /\ dec'[j].seek_delta = dec[j].seek_delta /\ dec'[j].has_ts = dec[j].has_ts
                        /\ dec'[j].failed = dec[j].failed /\ dec'[j].completed = dec[j].completed
      OBVIOUS
    <3>1. PICK d \in DecoderType : d = dec[j]
      BY <1>0 DEF DecodingTypes
    <3>2. dec'[j] = [d EXCEPT !.by = Append(@, j)] \/ dec'[j] = d
      BY <2>1, <3>1
    <3>3. /\ dec'[j].tokens = d.tokens /\ dec'[j].result_len = d.result_len
          /\ dec'[j].seek_delta = d.seek_delta /\ dec'[j].has_ts = d.has_ts
          /\ dec'[j].failed = d.failed /\ dec'[j].completed = d.completed
      BY <3>2 DEF DecoderType
    <3> QED
      BY <3>1, <3>3
  <2>4. Places'
    <3>1. \A j \in Decoders : Stamped(dec'[j])
      BY <1>0, <2>3 DEF Places, Stamped
    <3> QED
      BY <1>0, <1>1, <2>1, <2>2, <3>1 DEF Places
  <2>5. \A j \in Current : dec[j].completed /\ ~dec[j].failed => dec[j].result_len > 0
    BY <1>0, <1>3 DEF ResultsFound
  <2>6. i \in Nat /\ i < NMax /\ NMax \in Nat
    BY <1>0, Numbers DEF DecodingTypes, SequencesGrow, Deciding
  <2>7. pc' = "rank" => \A j \in Current : ~dec[j].failed => dec[j].result_len > 0
    <3> SUFFICES ASSUME pc' = "rank", NEW j \in Current, ~dec[j].failed
                 PROVE  dec[j].result_len > 0
      OBVIOUS
    <3>1. i = NMax - 1
      BY <2>1, <2>6
    <3>2. CASE dec[j].completed
      BY <2>5, <3>2
    <3>3. CASE ~dec[j].completed
      BY <1>0, <1>3, <3>1, <3>3 DEF ResultsFound, Live
    <3> QED
      BY <3>2, <3>3
  <2>8. ResultsFound'
    <3>1. \A j \in Current' : dec'[j].completed /\ ~dec'[j].failed => dec'[j].result_len > 0
      BY <1>0, <1>2, <2>3, <2>5
    <3>2. pc' = "rank" => \A j \in Current' : ~dec'[j].failed => dec'[j].result_len > 0
      BY <1>0, <1>2, <2>3, <2>7
    <3>3. pc' \in {"rank", "sample"}
      BY <2>1
    <3> QED
      BY <1>1, <1>3, <3>1, <3>2, <3>3 DEF ResultsFound
  <2> QED
    BY <2>4, <2>8, <1>4, <1>5
<1> QED
  BY <1>1, <1>6, <1>7

\* What is cut off a decoder's end takes no timestamp away from the others.
LEMMA StampedCut ==
  ASSUME NEW d \in DecoderType, Stamped(d), d.result_len <= Len(d.tokens), NEW f \in BOOLEAN
  PROVE  LET c == [d EXCEPT !.tokens = SubSeq(@, 1, d.result_len), !.failed = f]
         IN  /\ Stamped(c) /\ c.failed = f /\ c.completed = d.completed
             /\ c.result_len = d.result_len /\ c.seek_delta = d.seek_delta
<1> DEFINE t == SubSeq(d.tokens, 1, d.result_len)
           c == [d EXCEPT !.tokens = t, !.failed = f]
<1>1. d.tokens \in Seq(Ids) /\ d.result_len \in Nat
  BY DEF DecoderType
<1>2. Len(t) = d.result_len /\ \A k \in 1 .. Len(t) : t[k] = d.tokens[k] /\ k \in 1 .. Len(d.tokens)
  BY <1>1
<1> HIDE DEF t
<1>3. /\ c.tokens = t /\ c.failed = f /\ c.completed = d.completed /\ c.has_ts = d.has_ts
      /\ c.result_len = d.result_len /\ c.seek_delta = d.seek_delta
  BY DEF DecoderType
<1>4. Stamped(c)
  <2> HIDE DEF c
  <2> QED
    BY <1>2, <1>3 DEF Stamped
<1> QED
  BY <1>3, <1>4 DEF t

LEMMA RankTells ==
  ASSUME TextInv, Rank
  PROVE  Places' /\ ResultsFound' /\ (DecodersStay => BestFound') /\ TextBehind'
<1> DEFINE scored == {j \in Current : ~dec[j].failed}
<1>0. /\ DecodingTypes /\ Places /\ ResultsFound /\ TextBehind /\ pc = "rank"
      /\ Current = 0 .. NDecoders - 1 /\ NDecoders \in Nat \ {0} /\ Current \in SUBSET Decoders
  BY CallBounds DEF TextInv, DecodingInv, DecodingTypes, Rank
<1>1. /\ call' = call /\ UNCHANGED <<rc, seek, i, kv, result>>
      /\ \/ it < Temps - 1 /\ it' = it + 1 /\ pc' = "prompt"
         \/ (it = Temps - 1 \/ ~dec'[best'].failed) /\ it' = it /\ pc' = "output"
  BY Zenon DEF Rank
<1>2. PICK repeats \in SUBSET {j \in scored : MayRepeat(dec[j])} :
        /\ dec' = [j \in Decoders |->
                     IF j \in scored
                     THEN [dec[j] EXCEPT !.tokens = SubSeq(@, 1, dec[j].result_len), !.failed = j \in repeats]
                     ELSE dec[j]]
        /\ best' \in Ranked({j \in scored \ repeats : dec[j].result_len > 0})
  BY DEF Rank
<1>3. ASSUME NEW j \in Decoders
      PROVE  /\ Stamped(dec'[j])
             /\ j \in scored => dec'[j].failed = (j \in repeats)
             /\ j \notin scored => dec'[j].failed = dec[j].failed
  <2>1. PICK d \in DecoderType : d = dec[j] /\ Stamped(d) /\ d.result_len <= Len(d.tokens)
    BY <1>0 DEF DecodingTypes, Places
  <2>2. CASE j \in scored
    <3> DEFINE f == j \in repeats
               c == [d EXCEPT !.tokens = SubSeq(@, 1, d.result_len), !.failed = f]
    <3>1. dec'[j] = c
      BY <1>2, <2>1, <2>2
    <3>2. f \in BOOLEAN
      OBVIOUS
    <3> HIDE DEF f
    <3>3. Stamped(c) /\ c.failed = f
      BY <2>1, <3>2, StampedCut
    <3> HIDE DEF c
    <3>4. Stamped(dec'[j]) /\ dec'[j].failed = f
      BY <3>1, <3>3
    <3> QED
      BY <3>4, <2>2 DEF f
  <2>3. CASE j \notin scored
    <3>1. dec'[j] = dec[j]
      BY <1>2, <2>3
    <3> QED
      BY <2>1, <2>3, <3>1
  <2> QED
    BY <2>2, <2>3
<1>4. Places'
  <2>1. it' \in 0 .. Temps - 1
    <3>1. it \in 0 .. Temps - 1
      BY <1>0 DEF Places
    <3> QED
      BY <1>1, <3>1, MoreNumbers
  <2>2. rc' # 0 => pc' = "done"
    BY <1>0, <1>1 DEF Places
  <2> QED
    BY <1>0, <1>1, <1>3, <2>1, <2>2 DEF Places
<1>5. ResultsFound'
  BY <1>1 DEF ResultsFound
<1>6. TextBehind'
  BY <1>0, <1>1 DEF TextBehind, SegmentsOrdered
<1> DEFINE good == {j \in scored \ repeats : dec[j].result_len > 0}
<1>7. ASSUME DecodersStay
      PROVE  /\ best' \in Current
             /\ dec'[best'].failed => \A j \in Current : dec'[j].failed
  <2>1. best \in Current
    BY <1>0, <1>7 DEF TextInv, BestFound
  <2>2. CASE good # {}
    <3>1. best' \in good
      BY <1>2, <2>2 DEF Ranked
    <3>2. best' \in scored /\ best' \notin repeats /\ best' \in Decoders
      BY <3>1, <1>0
    <3>3. ~dec'[best'].failed
      BY <3>2, <1>3
    <3> QED
      BY <1>0, <3>2, <3>3
  <2>3. CASE good = {}
    <3>1. best' = best
      BY <1>2, <2>3 DEF Ranked
    <3>2. CASE call.loaded
      <4>1. \A j \in scored : dec[j].result_len > 0
        BY <1>0, <3>2 DEF ResultsFound
      <4>2. \A j \in scored : j \in repeats
        BY <2>3, <4>1
      <4>3. \A j \in Current : dec'[j].failed
        <5> SUFFICES ASSUME NEW j \in Current
                     PROVE  dec'[j].failed
          OBVIOUS
        <5>1. j \in Decoders
          BY <1>0
        <5>2. CASE j \in scored
          BY <1>3, <4>2, <5>1, <5>2
        <5>3. CASE j \notin scored
          <6>1. dec[j].failed
            BY <5>3
          <6> QED
            BY <1>3, <5>1, <5>3, <6>1
        <5> QED
          BY <5>2, <5>3
      <4> QED
        BY <2>1, <3>1, <4>3
    <3>3. CASE ~call.loaded
      <4>1. best \in scored /\ dec[best].result_len <= 1 /\ best \in Decoders
        BY <1>0, <2>1, <3>3 DEF ResultsFound
      <4>2. dec[best].result_len \in Nat
        BY <1>0, <4>1 DEF DecodingTypes, DecoderType
      <4>3. ~MayRepeat(dec[best])
        BY <4>1, <4>2, MoreNumbers DEF MayRepeat
      <4>4. best \notin repeats
        BY <4>3
      <4>5. ~dec'[best].failed
        BY <1>3, <4>1, <4>4
      <4> QED
        BY <2>1, <3>1, <4>5
    <3> QED
      BY <3>2, <3>3
  <2> QED
    BY <2>2, <2>3
<1>8. ASSUME DecodersStay
      PROVE  Current \in SUBSET (Current')
  <2>1. call' = call /\ call \in Calls /\ (it' = it \/ it' = it + 1) /\ it \in Nat
    <3>1. it \in Nat
      BY <1>0, MoreNumbers DEF Places
    <3> QED
      BY <1>0, <1>1, <3>1 DEF DecodingTypes
  <2>2. CASE it' = it
    <3>1. NDecoders' = NDecoders
      BY <2>1, <2>2 DEF NDecoders
    <3>2. Current' = Current
      BY <3>1 DEF Current
    <3> QED
      BY <3>2
  <2>3. CASE it' = it + 1
    <3>1. /\ call.best_of \in Nat /\ call.beam_size \in Nat
          /\ call.strategy # "greedy" => call.beam_size <= call.best_of
      BY <1>8, <2>1, CallParameters DEF DecodersStay
    <3>2. it' # 0
      BY <2>1, <2>3
    <3>3. NDecoders' = Max({1, call.best_of})
      BY <2>1, <3>2 DEF NDecoders
    <3>4. PICK x \in Nat : NDecoders = Max({1, x}) /\ (x <= call.best_of \/ x <= 1)
      <4>1. \/ NDecoders = Max({1, 1})
            \/ NDecoders = Max({1, call.best_of})
            \/ NDecoders = Max({1, call.beam_size}) /\ call.strategy # "greedy"
        BY DEF NDecoders
      <4>0. 1 \in Nat /\ 1 <= 1 /\ call.best_of <= call.best_of
        BY <3>1
      <4>2. CASE NDecoders = Max({1, 1})
        BY <4>0, <4>2, Zenon
      <4>3. CASE NDecoders = Max({1, call.best_of})
        BY <3>1, <4>0, <4>3, Zenon
      <4>4. CASE NDecoders = Max({1, call.beam_size}) /\ call.strategy # "greedy"
        BY <3>1, <4>4, Zenon
      <4> QED
        BY <4>1, <4>2, <4>3, <4>4
    <3>5. PICK n \in Nat, m \in Nat \ {0} : n = NDecoders /\ m = NDecoders' /\ n <= m
      <4>1. Max({1, x}) \in Nat \ {0} /\ Max({1, call.best_of}) \in Nat \ {0}
        BY <3>1, AtLeastOne
      <4>2. x <= call.best_of => Max({1, x}) <= Max({1, call.best_of})
        BY <3>1, AtLeastOne
      <4>3. x <= 1 => Max({1, x}) <= Max({1, call.best_of})
        <5>1. {1} \in SUBSET Nat /\ {1} # {} /\ \A z \in {1} : z <= 1
          OBVIOUS
        <5>2. Max({1}) = 1
          BY <5>1, MaxOfNumbers
        <5>3. x <= 1 => Max({1, x}) <= Max({1, 1})
          BY AtLeastOne
        <5>4. {1, 1} = {1}
          OBVIOUS
        <5> QED
          BY <4>1, <5>2, <5>3, <5>4
      <4> QED
        BY <3>3, <3>4, <4>1, <4>2, <4>3
    <3>6. Current = 0 .. n - 1 /\ Current' = 0 .. m - 1
      BY <3>5 DEF Current
    <3>a. n <= m
      BY <3>5
    <3>7. 0 .. n - 1 \in SUBSET (0 .. m - 1)
      BY <3>a
    <3> QED
      BY <3>6, <3>7
  <2> QED
    BY <2>1, <2>2, <2>3
<1>9. ASSUME DecodersStay
      PROVE  BestFound'
  <2>1. best' \in Current'
    BY <1>7, <1>8, <1>9
  <2>2. pc' = "output" /\ dec'[best'].failed =>
          it' = Temps - 1 /\ \A j \in Current' : dec'[j].failed
    <3> SUFFICES ASSUME pc' = "output", dec'[best'].failed
                 PROVE  it' = Temps - 1 /\ \A j \in Current' : dec'[j].failed
      OBVIOUS
    <3>1. it = Temps - 1 /\ it' = it
      BY <1>1
    <3>2. NDecoders' = NDecoders
      BY <1>1, <3>1 DEF NDecoders
    <3>3. Current' = Current
      BY <3>2 DEF Current
    <3> QED
      BY <1>7, <1>9, <3>1, <3>3
  <2> QED
    BY <2>1, <2>2 DEF BestFound, OnlyLastResort
<1> QED
  BY <1>4, <1>5, <1>6, <1>9

LEMMA OutputTells ==
  ASSUME TextInv, Output
  PROVE  Places' /\ ResultsFound' /\ BestFound' /\ TextBehind'
<1>0. /\ call \in Calls /\ best \in Decoders /\ dec \in [Decoders -> DecoderType]
      /\ Places /\ TextBehind /\ pc = "output"
  BY DEF TextInv, DecodingInv, DecodingTypes, Output
<1>1. PICK d \in DecoderType : d = dec[best] /\ Stamped(d)
  BY <1>0 DEF Places
<1>2. /\ call' = call /\ UNCHANGED <<rc, it, kv>> /\ pc' = "window" /\ seek' = seek + d.seek_delta
      /\ dec' = [j \in Decoders |-> NewDecoder]
      /\ \/ result' = result
         \/ \E tid \in FirstTids(d) : d.tokens # <<>> /\ result' = result \o Segments(d, tid)
  BY <1>1 DEF Output
<1>3. PICK from \in Nat, delta \in Nat : from = seek /\ delta = d.seek_delta /\ seek' = from + delta
  <2>1. d.seek_delta \in 1 .. Chunk
    BY <1>1, StampedDelta
  <2>2. d.seek_delta \in Nat /\ seek \in Nat
    BY <1>0, <2>1, MoreNumbers DEF Places
  <2> QED
    BY <1>2, <2>2
<1>4. Places'
  <2>1. \A j \in Decoders : Stamped(dec'[j])
    BY <1>2, NewDecoderStamped
  <2>2. seek' \in Nat
    BY <1>3
  <2> QED
    BY <1>0, <1>2, <2>1, <2>2 DEF Places
<1>5. ResultsFound' /\ BestFound'
  BY <1>2 DEF ResultsFound, BestFound, OnlyLastResort
<1>6. CASE result' = result
  <2>1. result # <<>> /\ ~call.no_timestamps => result[Len(result)].t1 <= seek'
    <3> SUFFICES ASSUME result # <<>>, ~call.no_timestamps
                 PROVE  result[Len(result)].t1 <= seek'
      OBVIOUS
    <3>1. result \in Seq(Segment) /\ result[Len(result)].t1 <= from
      BY <1>0, <1>3 DEF TextBehind
    <3>2. result[Len(result)] \in Segment
      BY <3>1
    <3>3. PICK x \in Int : x = result[Len(result)].t1
      BY <3>2 DEF Segment
    <3> QED
      BY <1>3, <3>1, <3>3
  <2>2. TextBehind'
    BY <1>0, <1>2, <1>6, <2>1 DEF TextBehind, SegmentsOrdered
  <2> QED
    BY <1>4, <1>5, <2>2
<1>7. CASE \E tid \in FirstTids(d) : d.tokens # <<>> /\ result' = result \o Segments(d, tid)
  <2>1. PICK tid \in FirstTids(d) : d.tokens # <<>> /\ result' = result \o Segments(d, tid)
    BY <1>7
  <2>2. tid \in Int /\ (~call.no_timestamps => tid >= 0)
    <3>1. d.tokens \in Seq(Ids)
      BY DEF DecoderType
    <3>2. d.tokens[1] \in Ids
      BY <2>1, <3>1
    <3>3. d.tokens[1] \in Int
      BY <3>2, MoreNumbers
    <3>4. NoTid \in Int /\ Second \div 2 \in Int
      <4>1. Chunk \in Int /\ Second \in Nat
        BY WhisperAssumption
      <4> QED
        BY <4>1 DEF NoTid
    <3>5. CASE call.no_timestamps
      BY <3>4, <3>5 DEF FirstTids
    <3>6. CASE ~call.no_timestamps
      <4>1. (tid = d.tokens[1] /\ d.tokens[1] >= 0) \/ tid \in 0 .. Second \div 2
        BY <3>6 DEF FirstTids, Beg
      <4> QED
        BY <3>3, <3>4, <4>1
    <3> QED
      BY <3>5, <3>6
  <2>3. PICK s \in Seq(Segment) :
          /\ s = Segments(d, tid)
          /\ ~call.no_timestamps =>
               /\ \A n \in 1 .. Len(s) : s[n].t0 >= from /\ s[n].t1 <= from + delta
               /\ \A n \in 1 .. Len(s) - 1 : s[n].t1 <= s[n + 1].t0
    <3>1. seek \in Nat
      BY <1>3
    <3> DEFINE s == Segments(d, tid)
    <3>2. /\ s \in Seq(Segment)
          /\ tid >= 0 =>
               /\ \A n \in 1 .. Len(s) : s[n].t0 >= seek /\ s[n].t1 <= seek + d.seek_delta
               /\ \A n \in 1 .. Len(s) - 1 : s[n].t1 <= s[n + 1].t0
      BY <1>1, <2>2, <3>1, SegmentsInOrder
    <3> HIDE DEF s
    <3>3. ~call.no_timestamps =>
               /\ \A n \in 1 .. Len(s) : s[n].t0 >= from /\ s[n].t1 <= from + delta
               /\ \A n \in 1 .. Len(s) - 1 : s[n].t1 <= s[n + 1].t0
      BY <1>3, <2>2, <3>2
    <3> QED
      BY <3>2, <3>3 DEF s
  <2>4. PICK r \in Seq(Segment) :
          /\ r = result
          /\ ~call.no_timestamps =>
               /\ \A k \in 1 .. Len(r) - 1 : r[k].t1 <= r[k + 1].t0
               /\ r # <<>> => r[Len(r)].t1 <= from
    BY <1>0, <1>3 DEF TextBehind, SegmentsOrdered
  <2> DEFINE q == r \o s
  <2>5. /\ q \in Seq(Segment) /\ result' = q /\ Len(q) = Len(r) + Len(s)
        /\ \A k \in 1 .. Len(r) : q[k] = r[k]
        /\ \A k \in 1 .. Len(s) : q[Len(r) + k] = s[k]
    BY <2>1, <2>3, <2>4
  <2>6. \A k \in 1 .. Len(q) : q[k].t0 \in Int /\ q[k].t1 \in Int
    <3>1. \A k \in 1 .. Len(q) : q[k] \in Segment
      BY <2>5
    <3> QED
      BY <3>1 DEF Segment
  <2> HIDE DEF q
  <2>7. PICK m \in Nat, l \in Nat : m = Len(r) /\ l = Len(s)
    OBVIOUS
  <2>8. ASSUME ~call.no_timestamps
        PROVE  \A k \in 1 .. Len(q) - 1 : q[k].t1 <= q[k + 1].t0
    <3> SUFFICES ASSUME NEW k \in 1 .. m + l - 1
                 PROVE  q[k].t1 <= q[k + 1].t0
      BY <2>5, <2>7
    <3>1. k \in 1 .. m - 1 \/ k = m \/ k - m \in 1 .. l - 1
      OBVIOUS
    <3>2. CASE k \in 1 .. m - 1
      <4>1. k \in 1 .. m /\ k + 1 \in 1 .. m
        BY <3>2
      <4>2. q[k] = r[k] /\ q[k + 1] = r[k + 1]
        BY <2>5, <2>7, <4>1
      <4>3. r[k].t1 <= r[k + 1].t0
        BY <2>4, <2>7, <2>8, <3>2
      <4> QED
        BY <4>2, <4>3
    <3>3. CASE k = m
      <4>1. m \in 1 .. m /\ 1 \in 1 .. l /\ m \in 1 .. m + l /\ m + 1 \in 1 .. m + l
        BY <3>3
      <4>2. q[m] = r[m] /\ q[m + 1] = s[1]
        BY <2>5, <2>7, <4>1
      <4>3. r # <<>>
        BY <2>7, <4>1
      <4>4. r[m].t1 <= from /\ s[1].t0 >= from
        BY <2>3, <2>4, <2>7, <2>8, <4>1, <4>3
      <4>5. q[m].t1 \in Int /\ q[m + 1].t0 \in Int
        BY <2>5, <2>6, <2>7, <4>1
      <4> QED
        BY <3>3, <4>2, <4>4, <4>5
    <3>4. CASE k - m \in 1 .. l - 1
      <4>1. PICK n \in 1 .. l - 1 : k = m + n /\ n \in 1 .. l /\ n + 1 \in 1 .. l /\ k + 1 = m + (n + 1)
        BY <3>4
      <4>2. q[m + n] = s[n] /\ q[m + (n + 1)] = s[n + 1]
        BY <2>5, <2>7, <4>1
      <4>3. s[n].t1 <= s[n + 1].t0
        BY <2>3, <2>7, <2>8, <4>1
      <4> QED
        BY <4>1, <4>2, <4>3
    <3> QED
      BY <3>1, <3>2, <3>3, <3>4
  <2>9. ASSUME ~call.no_timestamps, q # <<>>
        PROVE  q[Len(q)].t1 <= from + delta
    <3>1. CASE l = 0
      <4>1. Len(q) = m /\ m \in 1 .. m /\ r # <<>>
        BY <2>5, <2>7, <2>9, <3>1
      <4>2. q[m] = r[m] /\ r[m].t1 <= from /\ q[m].t1 \in Int
        BY <2>4, <2>5, <2>6, <2>7, <2>9, <4>1
      <4> QED
        BY <4>1, <4>2
    <3>2. CASE l # 0
      <4>1. l \in 1 .. l /\ Len(q) = m + l
        BY <2>5, <2>7, <3>2
      <4>2. q[m + l] = s[l] /\ s[l].t1 <= from + delta
        BY <2>3, <2>5, <2>7, <2>9, <4>1
      <4> QED
        BY <4>1, <4>2
    <3> QED
      BY <3>1, <3>2
  <2>10. TextBehind'
    BY <1>2, <1>3, <2>5, <2>8, <2>9 DEF TextBehind, SegmentsOrdered
  <2> QED
    BY <1>4, <1>5, <2>10
<1> QED
  BY <1>2, <1>6, <1>7

LEMMA TextInvInductive ==
  ASSUME TextInv, [Next]_vars
  PROVE  TextInv'
<1>1. DecodingInv'
  BY DecodingInvInductive DEF TextInv
<1>2. CASE Window
  BY <1>1, <1>2, WindowTells DEF TextInv
<1>3. CASE StartPrompt
  BY <1>1, <1>3, StartPromptTells DEF TextInv
<1>4. CASE SampleGreedy
  <2>1. PICK ids \in [Live -> Ids] :
          /\ \A j \in Live : ids[j] \in Allowed(dec[j])
          /\ dec' = [j \in Decoders |-> IF j \in Live THEN Accept(AddToken(dec[j], ids[j]), ids[j])
                                        ELSE dec[j]]
    BY <1>4 DEF SampleGreedy
  <2>2. PICK from \in [Live -> Live] : \A j \in Live : from[j] = j
    <3>1. [j \in Live |-> j] \in [Live -> Live] /\ \A j \in Live : [k \in Live |-> k][j] = j
      OBVIOUS
    <3> QED
      BY <3>1, Zenon
  <2>3. dec' = [j \in Decoders |-> IF j \in Live THEN Accept(AddToken(dec[from[j]], ids[j]), ids[j])
                                   ELSE dec[j]]
    BY <2>1, <2>2
  <2>4. \A j \in Live : ids[j] \in Allowed(dec[from[j]])
    BY <2>1, <2>2
  <2>5. pc = "sample" /\ AfterSample /\ kv'.head \in {0, kv.head}
    BY <1>4 DEF SampleGreedy
  <2> QED
    BY <1>1, <2>3, <2>4, <2>5, SampleTells DEF TextInv
<1>5. CASE SampleBeam
  <2>1. PICK from \in [Live -> Live], ids \in [Live -> Ids] :
          /\ \A j \in Live : ids[j] \in Allowed(dec[from[j]])
          /\ dec' = [j \in Decoders |->
                        IF j \in Live
                        THEN Accept(AddToken(dec[from[j]], ids[j]), ids[j])
                        ELSE dec[j]]
          /\ kv' = TakeOver(kv, from)
    BY <1>5 DEF SampleBeam
  <2>2. kv'.head = 0
    <3>1. "head" \in DOMAIN kv
      BY DEF TextInv, DecodingInv, CellsSound, CacheType
    <3> QED
      BY <2>1, <3>1 DEF TakeOver
  <2>3. pc = "sample" /\ AfterSample /\ kv'.head \in {0, kv.head}
    BY <1>5, <2>2 DEF SampleBeam
  <2> QED
    BY <1>1, <2>1, <2>3, SampleTells DEF TextInv
<1>6. CASE Extend
  BY <1>1, <1>6, ExtendTells DEF TextInv
<1>7. CASE Rank
  BY <1>1, <1>7, RankTells DEF TextInv
<1>8. CASE Output
  BY <1>1, <1>8, OutputTells DEF TextInv
<1>9. CASE Done \/ UNCHANGED vars
  <2>1. UNCHANGED <<call, pc, rc, seek, it, i, dec, kv, best, result>>
    BY <1>9 DEF Done, vars
  <2>2. NDecoders' = NDecoders
    BY <2>1 DEF NDecoders
  <2>3. Current' = Current /\ Live' = Live
    BY <2>1, <2>2 DEF Current, Live
  <2>4. Places' /\ ResultsFound'
    BY <2>1, <2>3 DEF TextInv, Places, ResultsFound
  <2>5. (DecodersStay => BestFound') /\ TextBehind'
    BY <2>1, <2>3 DEF TextInv, BestFound, OnlyLastResort, TextBehind, SegmentsOrdered
  <2> QED
    BY <1>1, <2>4, <2>5 DEF TextInv
<1> QED
  BY <1>2, <1>3, <1>4, <1>5, <1>6, <1>7, <1>8, <1>9 DEF Next, Step

LEMMA TextInvEnough ==
  ASSUME TextInv
  PROVE  TypeOK /\ SegmentsOrdered /\ (DecodersStay => OnlyLastResort)
<1>0. DecodingTypes /\ CellsSound /\ Places /\ TextBehind
  BY DEF TextInv, DecodingInv
<1>1. ASSUME NEW j \in Decoders
      PROVE  /\ dec[j].tokens \in Seq(Ids) /\ dec[j].by \in Seq(Decoders)
             /\ dec[j].result_len \in 0 .. Len(dec[j].tokens)
             /\ dec[j].seek_delta \in 1 .. Chunk
             /\ {dec[j].failed, dec[j].completed, dec[j].has_ts} \subseteq BOOLEAN
  <2>1. PICK d \in DecoderType : d = dec[j] /\ Stamped(d) /\ d.result_len <= Len(d.tokens)
    BY <1>0 DEF DecodingTypes, Places
  <2>2. d.seek_delta \in 1 .. Chunk
    BY <2>1, StampedDelta
  <2>3. /\ d.tokens \in Seq(Ids) /\ d.by \in Seq(Decoders) /\ d.result_len \in 0 .. Len(d.tokens)
        /\ {d.failed, d.completed, d.has_ts} \subseteq BOOLEAN
    BY <2>1 DEF DecoderType
  <2> QED
    BY <2>1, <2>2, <2>3
<1>2. TypeOKKv(kv, Decoders, Decoders \cup {Prompt})
  <2>1. kv \in CacheType /\ CellsPaired(kv) /\ kv.head <= KvSize
    BY <1>0 DEF CellsSound, Places
  <2>2. kv.head \in Nat /\ KvSize \in Nat
    BY <2>1, KvSizeAssumption DEF CacheType
  <2> QED
    BY <2>1, <2>2 DEF CacheType, CellType, CellsPaired, TypeOKKv
<1>3. /\ call \in Calls
      /\ pc \in {"window", "prompt", "sample", "extend", "rank", "output", "done"}
      /\ rc \in {0, -6, -7, -8, -9} /\ (rc # 0 => pc = "done")
      /\ seek \in Nat /\ past \in Nat /\ taken \in {NoSlot} \cup 1 .. TextCtx \div 2
      /\ it \in 0 .. Temps - 1 /\ i \in 0 .. NMax /\ best \in Decoders
      /\ result \in Seq(Segment)
  BY <1>0 DEF DecodingTypes, Places, TextBehind
<1>4. TypeOK
  BY <1>1, <1>2, <1>3 DEF TypeOK
<1> QED
  BY <1>0, <1>4 DEF TextBehind, TextInv, BestFound

\* The window moves within the audio the encoder was given.
LEMMA WindowHeard ==
  ASSUME TextInv, Next, seek' # seek
  PROVE  seek' <= seek + 2 * AudioCtx \/ seek + 2 * AudioCtx >= call.frames
<1>1. Output
  BY DEF Next, Step, Done, vars, Window, StartPrompt, SampleGreedy, SampleBeam, AfterSample, Extend, Rank
<1>2. seek' = seek + dec[best].seek_delta
  BY <1>1 DEF Output
<1>3. PICK from \in Nat, delta \in 1 .. Chunk : from = seek /\ delta = dec[best].seek_delta
  <2>1. best \in Decoders /\ Stamped(dec[best]) /\ seek \in Nat
    BY DEF TextInv, DecodingInv, DecodingTypes, Places
  <2>2. dec[best].seek_delta \in 1 .. Chunk
    BY <2>1, StampedDelta
  <2> QED
    BY <2>1, <2>2
<1>4. PICK frames \in Nat : frames = call.frames
  BY CallParameters DEF TextInv, DecodingInv, DecodingTypes
<1>5. CtxMargin \in Nat /\ MinCtx \in Nat /\ MaxTs \in Nat /\ Chunk = 2 * MaxTs
  BY WhisperAssumption, MoreNumbers
<1>6. AudioCtx = IF frames + CtxMargin < MinCtx THEN MinCtx
                 ELSE IF frames + CtxMargin > MaxTs THEN MaxTs ELSE frames + CtxMargin
  BY <1>4 DEF AudioCtx
<1>7. PICK a \in Nat : a = AudioCtx /\ (2 * a >= frames \/ 2 * a >= Chunk)
  <2>1. AudioCtx \in Nat
    BY <1>5, <1>6
  <2> QED
    BY <1>5, <1>6, <2>1
<1>8. from + delta <= from + 2 * a \/ from + 2 * a >= frames
  BY <1>5, <1>7
<1> QED
  BY <1>2, <1>3, <1>4, <1>7, <1>8

\* What a call of whisper_full shows is what its last temperature found, and a
\* failed attempt only when every one of them failed; its segments are in order
\* in a window and from window to window (whisper_full_with_state).  Only where
\* beam search has fewer decoders later than at first may best_decoder_id name
\* one that is no longer there.
THEOREM TextAlwaysSound ==
  ASSUME DecodersStay
  PROVE  Spec => []TextSound
<1>1. Init => TextInv
  BY TextInitially
<1>2. TextInv /\ [Next]_vars => TextInv'
  BY TextInvInductive
<1>3. TextInv => TextSound
  BY TextInvEnough DEF TextSound
<1> QED
  BY <1>1, <1>2, <1>3, PTL DEF Spec

\* No step takes the window past audio the encoder has not been given
\* (the audio_ctx that fullTranscribe sets, seek_delta of whisper_full_with_state).
THEOREM AllAudioHeard == Spec => HeardAll
<1>1. Init => TextInv
  BY TextInitially
<1>2. TextInv /\ [Next]_vars => TextInv'
  BY TextInvInductive
<1>3. TextInv /\ [Next]_vars =>
        [seek' # seek => \/ seek' <= seek + 2 * AudioCtx
                         \/ seek + 2 * AudioCtx >= call.frames]_vars
  BY WindowHeard
<1> QED
  BY <1>1, <1>2, <1>3, PTL DEF Spec, HeardAll

-----------------------------------------------------------------------------
(* Loading a model.                                                        *)

\* What the context owns follows from which of its two parts are alive.
HoldInv ==
    /\ ctx.life \in {"null", "live", "dead"} /\ state \in {"null", "live"}
    /\ contexts \in Nat /\ lost \in Nat
    /\ state = "live" => ctx.life = "live"
    /\ held = IF ctx.life = "null" THEN {}
              ELSE IF state = "live" THEN ModelParts \cup StateParts ELSE ModelParts
    /\ contexts = lost + Pools(held) /\ contexts <= MaxContexts

\* A context is one record at all times.
CtxType == [life : {"null", "live", "dead"}, weights : [Names -> {"no", "torn", "whole"}],
            file : Files \cup {NoFile}]

LoadInv == ctx \in CtxType /\ HoldInv /\ LoadedWhole

-----------------------------------------------------------------------------
(* Facts about model files and the pool.                                   *)

\* The pool holds one context of a model, and three when it has its state.
LEMMA PoolsOf ==
  /\ Pools({}) = 0 /\ Pools(ModelParts) = 1 /\ Pools(ModelParts \cup StateParts) = 3
  <1>1. {} \cap {"model.ctx", "kv_self", "kv_cross"} = {}
    OBVIOUS
  <1>2. ModelParts \cap {"model.ctx", "kv_self", "kv_cross"} = {"model.ctx"}
    BY DEF ModelParts
  <1>3. (ModelParts \cup StateParts) \cap {"model.ctx", "kv_self", "kv_cross"}
        = ({"model.ctx"} \cup {"kv_self"}) \cup {"kv_cross"}
    BY DEF ModelParts, StateParts
  <1>4. IsFiniteSet({"model.ctx"}) /\ Cardinality({"model.ctx"}) = 1
    BY FS_Singleton
  <1>5. /\ IsFiniteSet({"model.ctx"} \cup {"kv_self"})
        /\ Cardinality({"model.ctx"} \cup {"kv_self"}) = 2
    BY <1>4, FS_AddElement
  <1>6. Cardinality(({"model.ctx"} \cup {"kv_self"}) \cup {"kv_cross"}) = 3
    BY <1>5, FS_AddElement
  <1> QED
    BY <1>1, <1>2, <1>3, <1>4, <1>6, FS_EmptySet DEF Pools

\* What is found of a file is its beginning, up to the weight it is cut off in.
LEMMA SeenPrefix ==
  ASSUME NEW f \in Files
  PROVE  \E n \in 0 .. Len(f.recs) :
            /\ Len(Seen(f)) = n /\ DOMAIN Seen(f) = 1 .. n
            /\ \A k \in 1 .. n : Seen(f)[k] = f.recs[k]
            /\ f.cut = "data" => n = f.at
  <1> DEFINE S == {f.recs[k] : k \in DOMAIN f.recs}
  <1>1. f.recs \in Seq(S) /\ Len(f.recs) \in Nat /\ DOMAIN f.recs = 1 .. Len(f.recs)
    BY FilesAssumption
  <1>2. \E n \in 0 .. Len(f.recs) : Seen(f) = SubSeq(f.recs, 1, n) /\ (f.cut = "data" => n = f.at)
    <2>1. f.cut \in {"none", "vocab", "header", "name", "data"}
      BY FilesAssumption
    <2>2. CASE f.cut = "none"
      <3>1. SubSeq(f.recs, 1, Len(f.recs)) = f.recs
        BY <1>1, SubSeqFull
      <3> QED
        BY <1>1, <2>2, <3>1 DEF Seen
    <2>3. CASE f.cut = "vocab"
      <3>1. SubSeq(f.recs, 1, 0) = <<>>
        BY SubSeqEmpty
      <3> QED
        BY <1>1, <2>3, <3>1 DEF Seen
    <2>4. CASE f.cut = "header"
      <3>1. f.at \in 1 .. Len(f.recs)
        BY <1>1, <2>4, FilesAssumption
      <3>2. f.at - 1 \in 0 .. Len(f.recs)
        BY <1>1, <3>1
      <3> QED
        BY <2>4, <3>2 DEF Seen
    <2>5. CASE f.cut \in {"name", "data"}
      <3>1. f.at \in 1 .. Len(f.recs)
        BY <1>1, <2>5, FilesAssumption
      <3>2. f.at \in 0 .. Len(f.recs)
        BY <1>1, <3>1
      <3> QED
        BY <2>5, <3>2 DEF Seen
    <2> QED
      BY <2>1, <2>2, <2>3, <2>4, <2>5
  <1>3. PICK n \in 0 .. Len(f.recs) : Seen(f) = SubSeq(f.recs, 1, n) /\ (f.cut = "data" => n = f.at)
    BY <1>2
  <1>4. n \in Int /\ n \in Nat /\ n - 1 + 1 = n /\ (1 <= n \/ n = 0) /\ n <= Len(f.recs)
    BY <1>1
  <1>5. \A k \in 1 .. n : f.recs[k] \in S
    BY <1>1, <1>4
  <1>6. SubSeq(f.recs, 1, n) \in Seq(S)
    <2> HIDE DEF S
    <2> QED
      BY <1>4, <1>5, SubSeqProperties
  <1>7. Len(SubSeq(f.recs, 1, n)) = n
    <2> HIDE DEF S
    <2>1. Len(SubSeq(f.recs, 1, n)) = IF 1 <= n THEN n - 1 + 1 ELSE 0
      BY <1>4, <1>5, SubSeqProperties
    <2> QED
      BY <1>4, <2>1
  <1>8. \A k \in 1 .. n : SubSeq(f.recs, 1, n)[k] = f.recs[k]
    <2> HIDE DEF S
    <2>1. \A k \in 1 .. n - 1 + 1 : SubSeq(f.recs, 1, n)[k] = f.recs[1 + k - 1]
      BY <1>4, <1>5, SubSeqProperties
    <2> QED
      BY <1>4, <2>1
  <1>9. DOMAIN SubSeq(f.recs, 1, n) = 1 .. n
    BY <1>6, <1>7
  <1> QED
    BY <1>3, <1>7, <1>8, <1>9

\* A file that is accepted has no weight, or each of the model's once, and the
\* last of them is the only one that may be incomplete.
LEMMA AcceptedWhole ==
  ASSUME NEW f \in Files, ~Refused(f), Counted(f)
  PROVE  LET weights == Weights(f)
         IN  /\ weights \in [Names -> {"no", "torn", "whole"}]
             /\ \/ \A w \in Names : weights[w] = "no"
                \/ /\ \A w \in Names : weights[w] # "no"
                   /\ \A w \in Names : weights[w] = "torn" => f.recs[Cardinality(Names)].name = w
  <1>1. Weights(f) \in [Names -> {"no", "torn", "whole"}]
    BY DEF Weights
  <1>2. PICK n \in 0 .. Len(f.recs) :
            /\ Len(Seen(f)) = n /\ DOMAIN Seen(f) = 1 .. n
            /\ \A k \in 1 .. n : Seen(f)[k] = f.recs[k]
            /\ f.cut = "data" => n = f.at
    BY SeenPrefix
  <1>3. /\ Len(f.recs) \in Nat /\ DOMAIN f.recs = 1 .. Len(f.recs) /\ n \in Nat
        /\ 1 .. n \subseteq DOMAIN f.recs
    BY FilesAssumption
  <1>4. n \in {0, Cardinality(Names)}
    BY <1>2 DEF Counted
  <1>5. CASE n = 0
    <2>1. \A w \in Names : {k \in DOMAIN Seen(f) : Seen(f)[k].name = w} = {}
      BY <1>2, <1>5
    <2>2. \A w \in Names : Weights(f)[w] = "no"
      BY <2>1 DEF Weights
    <2> QED
      BY <1>1, <2>2
  <1>6. CASE n = Cardinality(Names)
    <2> DEFINE g == [k \in 1 .. n |-> f.recs[k].name]
    <2>1. \A k \in 1 .. n : f.recs[k].name \in Names
      BY <1>2 DEF Refused
    <2>2. \A j, k \in 1 .. n : f.recs[j].name = f.recs[k].name => j = k
      BY <1>3, FilesAssumption
    <2>3. g \in Injection(1 .. n, Names)
      BY <2>1, <2>2 DEF Injection, IsInjective
    <2>4. Cardinality(1 .. n) = n
      <3>1. Cardinality(1 .. n) = IF 1 > n THEN 0 ELSE n - 1 + 1
        <4>1. 1 \in Int /\ n \in Int
          BY <1>3
        <4> HIDE DEF g
        <4> QED
          BY <4>1, FS_Interval, Zenon
      <3> QED
        BY <1>3, <3>1
    <2>5. g \in Surjection(1 .. n, Names)
      <3> HIDE DEF g
      <3> QED
        BY <1>6, <2>3, <2>4, FS_Injection, ModelAssumption
    <2>6. \A w \in Names : \E k \in 1 .. n : f.recs[k].name = w
      BY <2>5 DEF Surjection
    <2>7. ASSUME NEW w \in Names
          PROVE  /\ Weights(f)[w] # "no"
                 /\ Weights(f)[w] = "torn" => f.recs[n].name = w
      <3> DEFINE at == {k \in DOMAIN Seen(f) : Seen(f)[k].name = w}
      <3>1. at # {}
        BY <1>2, <2>6
      <3>2. Weights(f)[w] = IF at = {} THEN "no" ELSE IF f.cut = "data" /\ f.at \in at THEN "torn" ELSE "whole"
        BY DEF Weights
      <3>3. Weights(f)[w] # "no"
        BY <3>1, <3>2
      <3>4. ASSUME Weights(f)[w] = "torn"
            PROVE  f.recs[n].name = w
        <4>1. f.cut = "data" /\ f.at \in at
          BY <3>1, <3>2, <3>4
        <4>2. f.at = n /\ n \in at
          BY <1>2, <4>1
        <4> QED
          BY <1>2, <4>2
      <3> QED
        BY <3>3, <3>4
    <2> QED
      BY <1>1, <1>6, <2>7
  <1> QED
    BY <1>4, <1>5, <1>6

-----------------------------------------------------------------------------
(* The invariant of loading.                                               *)

LEMMA LoadInvInitial == LoadInit => LoadInv
  <1> SUFFICES ASSUME LoadInit
               PROVE  LoadInv
    OBVIOUS
  <1>1. ctx \in CtxType
    BY DEF LoadInit, CtxType
  <1>2. HoldInv
    BY PoolsOf, ModelAssumption DEF LoadInit, HoldInv
  <1>3. LoadedWhole
    BY DEF LoadInit, LoadedWhole
  <1> QED
    BY <1>1, <1>2, <1>3 DEF LoadInv

LEMMA LoadKeeps ==
  ASSUME LoadInv, NEW f \in Files, Load(f)
  PROVE  LoadInv'
  <1> USE DEF LoadInv
  <1>1. ctx.life = "null" /\ held = {} /\ state = "null" /\ state' = state
    BY DEF Load, HoldInv
  <1>2. contexts \in Nat /\ lost \in Nat /\ contexts = lost /\ contexts <= MaxContexts
    BY <1>1, PoolsOf DEF HoldInv
  <1>3. CASE ~Understood(f) \/ contexts = MaxContexts
    <2>1. UNCHANGED <<ctx, held>> /\ contexts' = contexts + 0 /\ lost' = lost + 0
      BY <1>3 DEF Load, Deleted
    <2>2. contexts' = contexts /\ lost' = lost
      BY <1>2, <2>1
    <2> QED
      BY <1>1, <2>1, <2>2 DEF HoldInv, LoadedWhole
  <1>4. CASE ~(~Understood(f) \/ contexts = MaxContexts) /\ (Refused(f) \/ ~Counted(f))
    <2>1. UNCHANGED <<ctx, held>> /\ contexts' = contexts + 1 /\ lost' = lost + 1
      BY <1>4 DEF Load, Deleted
    <2>2. contexts' <= MaxContexts
      BY <1>2, <1>4, <2>1, ModelAssumption
    <2>3. HoldInv'
      BY <1>1, <1>2, <2>1, <2>2, PoolsOf DEF HoldInv
    <2> QED
      BY <2>1, <2>3 DEF LoadedWhole
  <1>5. CASE ~(~Understood(f) \/ contexts = MaxContexts) /\ ~(Refused(f) \/ ~Counted(f))
    <2>1. /\ ctx' = [life |-> "live", weights |-> Weights(f), file |-> f]
          /\ held' = ModelParts /\ contexts' = contexts + 1 /\ lost' = lost
      BY <1>5 DEF Load
    <2>2. contexts' <= MaxContexts
      BY <1>2, <1>5, <2>1, ModelAssumption
    <2>3. ctx'.life = "live" /\ ctx'.weights = Weights(f) /\ ctx'.file = f
      BY <2>1
    <2>4. HoldInv'
      BY <1>1, <1>2, <2>1, <2>2, <2>3, PoolsOf DEF HoldInv
    <2>5. ctx' \in CtxType /\ LoadedWhole'
      BY <1>5, <2>1, <2>3, AcceptedWhole DEF CtxType, LoadedWhole
    <2> QED
      BY <2>4, <2>5
  <1> QED
    BY <1>3, <1>4, <1>5

LEMMA InitStateKeeps ==
  ASSUME LoadInv, InitState
  PROVE  LoadInv'
  <1> USE DEF LoadInv
  <1>1. ctx.life = "live" /\ state = "null" /\ held = ModelParts
    BY DEF InitState, HoldInv
  <1>2. /\ contexts \in Nat /\ lost \in Nat /\ MaxContexts \in Nat
        /\ contexts = lost + 1 /\ contexts <= MaxContexts
    BY <1>1, PoolsOf, ModelAssumption DEF HoldInv
  <1>3. CASE contexts + 2 > MaxContexts
    <2>1. /\ ctx' = [ctx EXCEPT !.life = "null"] /\ held' = Freed
          /\ contexts' = contexts + (MaxContexts - contexts) - Pools(held)
          /\ lost' = lost + (MaxContexts - contexts) /\ state' = state
      <3>1. ~(contexts + 2 = MaxContexts)
        BY <1>2, <1>3
      <3> QED
        BY <1>3, <3>1 DEF InitState
    <2>2. ctx' \in CtxType /\ ctx'.life = "null"
      BY <2>1 DEF CtxType
    <2>3. held' = {}
      BY <1>1, <2>1 DEF Freed
    <2>4. /\ contexts' = MaxContexts - 1 /\ lost' = MaxContexts - 1 /\ MaxContexts - 1 \in Nat
          /\ contexts' <= MaxContexts
      BY <1>1, <1>2, <2>1, PoolsOf
    <2> QED
      BY <1>1, <2>1, <2>2, <2>3, <2>4, PoolsOf DEF HoldInv, LoadedWhole
  <1>4. CASE contexts + 2 = MaxContexts
    <2>1. /\ ctx' = [ctx EXCEPT !.life = "dead"] /\ held' = held
          /\ contexts' = contexts /\ lost' = lost /\ state' = state
      BY <1>2, <1>4 DEF InitState
    <2>2. ctx' \in CtxType /\ ctx'.life = "dead"
      BY <2>1 DEF CtxType
    <2> QED
      BY <1>1, <1>2, <2>1, <2>2, PoolsOf DEF HoldInv, LoadedWhole
  <1>5. CASE contexts + 2 < MaxContexts
    <2>1. /\ state' = "live" /\ held' = held \cup StateParts
          /\ contexts' = contexts + 2 /\ lost' = lost /\ ctx' = ctx
      BY <1>2, <1>5 DEF InitState
    <2>2. HoldInv'
      BY <1>1, <1>2, <1>5, <2>1, PoolsOf DEF HoldInv
    <2> QED
      BY <2>1, <2>2 DEF LoadedWhole
  <1> QED
    BY <1>2, <1>3, <1>4, <1>5

LEMMA FreeModelKeeps ==
  ASSUME LoadInv, FreeModel
  PROVE  LoadInv'
  <1> USE DEF LoadInv
  <1>1. ctx.life = "live" /\ state = "live" /\ held = ModelParts \cup StateParts
    BY DEF FreeModel, HoldInv
  <1>2. /\ contexts \in Nat /\ lost \in Nat
        /\ contexts = lost + 3 /\ contexts <= MaxContexts
    BY <1>1, PoolsOf DEF HoldInv
  <1>3. /\ ctx' = [ctx EXCEPT !.life = "null"] /\ state' = "null" /\ held' = Freed
        /\ contexts' = contexts - Pools(held \ Freed) /\ lost' = lost
    BY DEF FreeModel
  <1>4. ctx' \in CtxType /\ ctx'.life = "null"
    BY <1>3 DEF CtxType
  <1>5. Freed = {} /\ held \ Freed = ModelParts \cup StateParts
    BY <1>1 DEF Freed
  <1>6. contexts' = lost
    <2>1. Pools(held \ Freed) = 3
      BY <1>5, PoolsOf
    <2> QED
      BY <1>2, <1>3, <2>1
  <1>7. contexts' <= MaxContexts
    BY <1>2, <1>6, ModelAssumption
  <1> QED
    BY <1>2, <1>3, <1>4, <1>5, <1>6, <1>7, PoolsOf DEF HoldInv, LoadedWhole

\* The invariant says what is to be kept.
LEMMA LoadInvEnough == LoadInv => ModelKept
  <1> SUFFICES ASSUME LoadInv
               PROVE  NothingLeft
    BY DEF LoadInv, ModelKept
  <1>1. CASE ctx.life = "null"
    BY <1>1, PoolsOf DEF LoadInv, HoldInv, NothingLeft
  <1>2. CASE ctx.life # "null"
    BY <1>2 DEF LoadInv, HoldInv, NothingLeft
  <1> QED
    BY <1>1, <1>2

\* Whatever files are loaded and however often: a model that is handed out is
\* complete or empty, what it owns is freed wholly, and the pool of contexts
\* loses only what failed loads and failed states left in it
\* (whisper_init_from_file_with_params, whisper_init_state, whisper_free).
THEOREM ModelAlwaysKept == LoadSpec => []ModelKept
  <1>1. LoadInv /\ [LoadNext]_files => LoadInv'
    <2> SUFFICES ASSUME LoadInv, [LoadNext]_files
                 PROVE  LoadInv'
      OBVIOUS
    <2>1. CASE UNCHANGED files
      BY <2>1 DEF files, LoadInv, HoldInv, LoadedWhole
    <2> QED
      BY <2>1, LoadKeeps, InitStateKeeps, FreeModelKeeps DEF LoadNext
  <1> QED
    BY <1>1, LoadInvInitial, LoadInvEnough, PTL DEF LoadSpec
=============================================================================
