---------------------------- MODULE WhisperKv ----------------------------
(***************************************************************************)
(* The self-attention cache of the text decoder (struct whisper_kv_cache   *)
(* of whisper.cpp).  A cell holds the key and value of one token: its      *)
(* position, the sequences that contain it, and here, instead of the       *)
(* numbers, the token they were computed from (val).  Several decoders     *)
(* share the cells of the prompt; a cell is free when no sequence is left. *)
(***************************************************************************)
EXTENDS Integers, Sequences, FiniteSetsExt

CONSTANT
    KvSize      \* cache.size: three text contexts in whisper_init_state

ASSUME KvSizeAssumption == KvSize \in Nat \ {0}

CellIds == 0 .. KvSize - 1

NoSlot == -1
Prompt == -1            \* val of a cell computed from a token of the prompt
Free   == [pos |-> -1, seqs |-> {}, val |-> Prompt]

\* whisper_kv_cache_clear, and the state kv_cache_init leaves.
Cleared == [head |-> 0, n |-> 0, cells |-> [c \in CellIds |-> Free]]

\* Where whisper_kv_cache_find_slot ends: the first run of n free cells from
\* the head on, and when there is none the first from the start.
FindSlot(kv, n) ==
    LET free  == {s \in 0 .. KvSize - n :
                    \A c \in s .. s + n - 1 : kv.cells[c].pos < 0}
        ahead == {s \in free : s >= kv.head}
    IN  IF free = {} THEN NoSlot ELSE Min(IF ahead # {} THEN ahead ELSE free)

\* whisper_kv_cache_cell_max: what the attention reads ends here.
CellMax(kv) ==
    Max({1} \cup {c + 1 : c \in {d \in CellIds \ {0} :
                                    kv.cells[d].pos >= 0 /\ kv.cells[d].seqs # {}}})

\* A batch is a sequence of tokens [pos, seq, val], each of one sequence.
\* whisper_decode_internal puts it into the slot s (the head stays at the
\* slot), and the graph writes the keys and values of token i to cell s + i.
Put(kv, s, batch) ==
    LET kv2 == [kv EXCEPT !.head  = s,
                          !.cells = [c \in CellIds |->
                             IF c \in s .. s + Len(batch) - 1
                             THEN LET t == batch[c - s + 1]
                                  IN  [pos  |-> t.pos,
                                       seqs |-> kv.cells[c].seqs \cup {t.seq},
                                       val  |-> t.val]
                             ELSE kv.cells[c]]]
    IN  [kv2 EXCEPT !.n = CellMax(kv2)]

\* A cell in use moves to the sequences seqs, over all positions as both
\* callers ask; left without a sequence it becomes free (whisper_kv_cache_seq_rm).
Regroup(cell, seqs) ==
    IF cell.pos < 0 \/ seqs = {} THEN Free ELSE [cell EXCEPT !.seqs = seqs]

\* The cells of sequence 0 are shared with the sequences 1 .. n - 1, one
\* whisper_kv_cache_seq_cp each, which moves the head to the start.
Share(kv, n) ==
    LET Shared(cell) == IF 0 \in cell.seqs THEN Regroup(cell, cell.seqs \cup 1 .. n - 1)
                                           ELSE cell
    IN  IF n = 1 THEN kv
        ELSE [kv EXCEPT !.head = 0, !.cells = [c \in CellIds |-> Shared(@[c])]]

\* Sequence j takes over the cells of from[j], for all j at once: beam search
\* copies them to a scratch sequence, removes j, copies them back and removes
\* the scratch, and the last copy leaves the head at the start.
\* Mutant: without the scratch sequences, one decoder after the other.
TakeOverInTurn(kv, from) ==
    LET First(S)    == IF 0 \in DOMAIN from
                       THEN (S \ {0}) \cup {j \in {0} : from[0] \in S} ELSE S
        Others      == DOMAIN from \ {0}
        Taken(cell) == Regroup(cell, (First(cell.seqs) \ Others)
                                        \cup {j \in Others : from[j] \in First(cell.seqs)})
    IN  [kv EXCEPT !.head = 0, !.cells = [c \in CellIds |-> Taken(@[c])]]
TakeOver(kv, from) ==
    LET Taken(cell) == Regroup(cell, (cell.seqs \ DOMAIN from)
                                        \cup {j \in DOMAIN from : from[j] \in cell.seqs})
    IN  [kv EXCEPT !.head = 0, !.cells = [c \in CellIds |-> Taken(@[c])]]

\* The cells the mask of whisper_build_graph_decoder leaves to a token.
Attended(kv, seq, pos) ==
    {c \in 0 .. kv.n - 1 : seq \in kv.cells[c].seqs /\ kv.cells[c].pos <= pos}

TypeOKKv(kv, seqs, vals) ==
    /\ kv.head \in 0 .. KvSize
    /\ kv.n \in 0 .. KvSize
    /\ kv.cells \in [CellIds -> [pos : Int, seqs : SUBSET seqs, val : vals]]
    /\ \A c \in CellIds : kv.cells[c].pos >= 0 <=> kv.cells[c].seqs # {}
==========================================================================
