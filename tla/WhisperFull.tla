--------------------------- MODULE WhisperFull ---------------------------
(***************************************************************************)
(* Speech to text: whisper_full_with_state as the keyboard's JNI layer     *)
(* calls it.  The audio is heard in windows; in each, decoders extend the  *)
(* prompt token by token until they end or fail, hotter and hotter until   *)
(* one attempt is good enough; the best one's tokens become text and its   *)
(* last timestamp moves the window.                                        *)
(*                                                                         *)
(* A token is its id relative to the first timestamp: text is below the    *)
(* end of text, which is below timestamp 0, and timestamp v is 2 * v       *)
(* frames into the window.  What the network prefers is a choice among the *)
(* tokens the filters leave; scores, entropies and probabilities are       *)
(* choices too.                                                            *)
(***************************************************************************)
EXTENDS WhisperKv

CONSTANTS
    Calls,        \* the calls made: records of parameters, see CallType
    TextCtx,      \* n_text_ctx
    MaxDecoders,  \* WHISPER_MAX_DECODERS
    Chunk,        \* frames of a window, 100*WHISPER_CHUNK_SIZE
    Second,       \* frames of a second, 100
    Ending,       \* frames of the end where past text is dropped, 500
    CtxMargin,    \* positions the JNI layer adds to the audio context, 32
    MinCtx,       \* its least audio context, 128
    Temps,        \* number of temperatures, 6
    WarmTemps,    \* how many of them are below 0.5, 3
    EntropyLen    \* tokens from which repetition is judged, 32

Text == -2
Eot  == -1
Beg  == 0
MaxTs == Chunk \div 2                   \* one timestamp per audio position
Ids   == Text .. MaxTs
NoTid == -1000 * Chunk                  \* tid 0, where no timestamp may come

\* Tokens a decoder may add.
NMax == TextCtx \div 2 - 4

Decoders == 0 .. MaxDecoders - 1

CallType == [strategy : {"greedy", "beam"}, best_of : Nat, beam_size : Nat,
             single_segment : BOOLEAN, no_timestamps : BOOLEAN,
             multilingual : BOOLEAN, max_tokens : Nat, loaded : BOOLEAN,
             past : Nat,                \* leftover of prompt_past at the call
             frames : Nat]              \* mel.n_len_org

ASSUME WhisperAssumption ==
    /\ TextCtx \in Nat /\ TextCtx > 8 /\ TextCtx % 2 = 0
    /\ {Chunk, Second, Ending, Temps, WarmTemps, EntropyLen} \subseteq Nat
    /\ {CtxMargin, MinCtx} \subseteq Nat
    /\ Temps > 0 /\ EntropyLen > 0 /\ MaxDecoders \in Nat \ {0} /\ Chunk > 0 /\ Chunk % 2 = 0
    /\ \A c \in Calls : c \in CallType

\* A call uses the decoders there are, and the cache has room for all of them
\* to the last token: three text contexts are enough for five, the keyboard's
\* best_of, and not for six.
ASSUME CacheAssumption ==
    \A c \in Calls : \A n \in {1, c.best_of, c.beam_size} :
        n <= MaxDecoders /\ TextCtx \div 2 + 4 + n * NMax <= KvSize

VARIABLES
    call,      \* the parameters of the call
    pc,        \* where whisper_full_with_state is
    rc,        \* its return code
    seek,      \* first frame of the window
    past,      \* number of tokens of prompt_past
    it,        \* index of the temperature
    taken,     \* past tokens in the prompt; NoSlot when there is none
    i,         \* tokens every live decoder has added
    dec,       \* the decoders
    kv,        \* the self-attention cache
    best,      \* best_decoder_id
    result     \* result_all

vars == <<call, pc, rc, seek, past, it, taken, i, dec, kv, best, result>>

--------------------------------------------------------------------------
\* The decoders a temperature uses, the temperature 0 being the first.
NDecoders ==
    Max({1, IF call.strategy = "greedy"
            THEN IF it = 0 THEN 1 ELSE call.best_of
            ELSE IF it = 0 THEN call.beam_size ELSE call.best_of})

Current == 0 .. NDecoders - 1
Live    == {j \in Current : ~dec[j].completed /\ ~dec[j].failed}

\* TAGS: WHISPER_DECODER_INIT.  by is the sequence of decoders that computed
\* the keys and values of the tokens, the last token's excepted.
NewDecoder == [tokens |-> <<>>, by |-> <<>>, result_len |-> 0,
               seek_delta |-> Chunk, failed |-> FALSE, completed |-> FALSE,
               has_ts |-> FALSE]

\* prompt_init: start of transcript, language and task, no timestamps.
InitLen == 1 + (IF call.multilingual THEN 2 ELSE 0)
             + (IF call.no_timestamps THEN 1 ELSE 0)
PromptLen == InitLen + (IF taken = NoSlot THEN 0 ELSE taken + 1)

\* The positions the encoder hears: the audio context of jni_whisper.cpp.
\* Mutant: two frames of audio per position forgotten twice over.
AudioCtxShort == LET wanted == (call.frames + CtxMargin) \div 4
                 IN  IF wanted < MinCtx THEN MinCtx
                     ELSE IF wanted > MaxTs THEN MaxTs ELSE wanted
AudioCtx == LET wanted == call.frames + CtxMargin
            IN  IF wanted < MinCtx THEN MinCtx
                ELSE IF wanted > MaxTs THEN MaxTs ELSE wanted

IsTs(id) == id >= Beg

\* Timestamps never go back.
NotBefore(d, id) == d.has_ts /\ IsTs(id) => id >= d.seek_delta \div 2

\* whisper_process_logits: the tokens it leaves to the decoder d.
Allowed(d) ==
    LET n           == Len(d.tokens)
        last        == n > 0 /\ IsTs(d.tokens[n])
        penultimate == n < 2 \/ IsTs(d.tokens[n - 1])
    IN  {id \in Ids :
          /\ n = 0 => id # Eot                          \* suppress blank
          /\ call.no_timestamps => ~IsTs(id)
          /\ last /\ penultimate => ~IsTs(id)           \* pairs only
          /\ last /\ ~penultimate => id >= Eot
          /\ n = 0 => id <= Second \div 2               \* max_initial_ts
          /\ NotBefore(d, id)}

--------------------------------------------------------------------------
Init ==
    /\ call \in Calls
    /\ pc = "window" /\ rc = 0
    /\ seek = 0 /\ past = call.past
    /\ it = 0 /\ taken = NoSlot /\ i = 0
    /\ dec = [j \in Decoders |-> NewDecoder]
    /\ kv = Cleared
    /\ best = 0 /\ result = <<>>

Return(code) == pc' = "done" /\ rc' = code

\* The main loop: stop when at most a second is left (also when the whole
\* audio is that short), encode the window, forget the past near the end.
Window ==
    /\ pc = "window"
    /\ IF seek + Second >= call.frames
       THEN Return(0) /\ UNCHANGED <<past, it, best>>
       ELSE \/ Return(-6) /\ UNCHANGED <<past, it, best>>
            \/ /\ pc' = "prompt"
               /\ past' = IF seek > 0 /\ seek + Ending >= call.frames THEN 0 ELSE past
               /\ it' = 0 /\ best' = 0
               /\ UNCHANGED rc
    /\ UNCHANGED <<call, seek, taken, i, dec, kv, result>>

\* A temperature starts: new decoders, the prompt (with past text while the
\* temperature is low), an empty cache, the prompt's cells in sequence 0 and
\* then in every decoder's.
PromptBatch == [p \in 1 .. PromptLen |-> [pos |-> p - 1, seq |-> 0, val |-> Prompt]]

StartPrompt ==
    /\ pc = "prompt"
    /\ UNCHANGED <<call, seek, past, it, best, result>>
    /\ dec' = [j \in Decoders |-> IF j \in Current THEN NewDecoder ELSE dec[j]]
    /\ i' = 0
    /\ taken' = IF past > 0 /\ it < WarmTemps
                THEN Min({TextCtx \div 2, past}) ELSE NoSlot
    /\ \/ Return(-7) /\ kv' = Cleared
       \/ LET s == FindSlot(Cleared, PromptLen')
          IN  IF s = NoSlot THEN Return(-9) /\ kv' = Cleared
              ELSE /\ pc' = "sample" /\ UNCHANGED rc
                   /\ kv' = Share(Put(Cleared, s, PromptBatch'), NDecoders)

--------------------------------------------------------------------------
\* Does the token move the window?
\* Mutant: the timestamp 0 moves the window too.
StampsAll(id) == id >= Beg
Stamps(id) == id > Beg

\* The state of decoder d once its token number i is id: the part of the
\* token loop that judges it.
Accept(d, id) ==
    LET stamped == [d EXCEPT !.seek_delta = 2 * id, !.result_len = i + 1, !.has_ts = TRUE]
        backward == Stamps(id) /\ d.has_ts /\ d.seek_delta > 2 * id /\ d.result_len < i
        e       == IF Stamps(id) THEN stamped ELSE d
        atEnd   == seek + e.seek_delta + Second >= call.frames
        ends    == \/ id = Eot
                   \/ call.max_tokens > 0 /\ i >= call.max_tokens
                   \/ e.has_ts /\ atEnd
        lastTry == i = NMax - 1 /\ (e.result_len = 0 \/ e.seek_delta < Chunk \div 2)
        fail(f) == [f EXCEPT !.failed = TRUE]
        done    == [e EXCEPT !.completed  = TRUE,
                             !.result_len = IF call.single_segment \/ @ = 0 THEN i + 1 ELSE @,
                             !.seek_delta = IF call.single_segment THEN Chunk ELSE @]
    IN  IF backward THEN fail(d)
        ELSE IF ends THEN IF e.result_len = 0 /\ ~atEnd THEN fail(e) ELSE done
        ELSE IF ~call.loaded
             THEN [e EXCEPT !.completed = TRUE, !.seek_delta = Chunk]
        ELSE IF lastTry THEN fail(e) ELSE e

AddToken(d, id) == [d EXCEPT !.tokens = Append(@, id)]

\* The loop goes on to the batch unless every decoder has ended or failed.
AfterSample ==
    /\ UNCHANGED <<call, rc, seek, past, it, taken, i, best, result>>
    /\ pc' = IF Live' = {} THEN "rank" ELSE "extend"

\* Greedy sampling: every live decoder adds one token (the sampling threads
\* take disjoint decoders and are joined).
SampleGreedy ==
    /\ pc = "sample" /\ call.strategy = "greedy"
    /\ \E ids \in [Live -> Ids] :
         /\ \A j \in Live : ids[j] \in Allowed(dec[j])
         /\ dec' = [j \in Decoders |-> IF j \in Live THEN Accept(AddToken(dec[j], ids[j]), ids[j])
                                       ELSE dec[j]]
    /\ AfterSample /\ UNCHANGED kv

\* Beam search: every live decoder takes over a candidate, a live decoder's
\* sequence with one more token, and the cells of that sequence.  Which ones
\* is a choice: the candidates are sorted by their sums, equal ones skipped.
SampleBeam ==
    /\ pc = "sample" /\ call.strategy = "beam"
    /\ \E from \in [Live -> Live], ids \in [Live -> Ids] :
         /\ \A j \in Live : ids[j] \in Allowed(dec[from[j]])
         /\ dec' = [j \in Decoders |->
                      IF j \in Live
                      THEN Accept(AddToken(dec[from[j]], ids[j]), ids[j])
                      ELSE dec[j]]
         /\ kv' = TakeOver(kv, from)
    /\ AfterSample

--------------------------------------------------------------------------
\* The batch of the live decoders' last tokens, all at the same position, is
\* decoded; the loop runs on until NMax tokens.
NextPos == PromptLen + i

\* Where the token of j comes in it, the decoders being taken in order.
Turn(S, j) == Cardinality({k \in S : k <= j})
ExtendBatch ==
    [k \in 1 .. Cardinality(Live) |->
        LET j == CHOOSE j \in Live : Turn(Live, j) = k
        IN  [pos |-> NextPos, seq |-> j, val |-> j]]

Extend ==
    /\ pc = "extend"
    /\ \/ Return(-8) /\ UNCHANGED <<dec, kv, i>>
       \/ LET s == FindSlot(kv, Len(ExtendBatch))
          IN  IF s = NoSlot THEN Return(-9) /\ UNCHANGED <<dec, kv, i>>
              ELSE /\ kv' = Put(kv, s, ExtendBatch)
                   /\ dec' = [j \in Decoders |-> IF j \in Live
                                THEN [dec[j] EXCEPT !.by = Append(@, j)] ELSE dec[j]]
                   /\ i' = i + 1
                   /\ pc' = IF i' = NMax THEN "rank" ELSE "sample"
                   /\ UNCHANGED rc
    /\ UNCHANGED <<call, seek, past, it, taken, best, result>>

\* The entropy of the last tokens decides once there are enough of them.
MayRepeat(d) == d.result_len > EntropyLen

\* The decoder whose text is taken: any that may have the best score, and
\* without one the best of the temperature before.
\* Mutant: failed decoders are ranked as well.
RankedAll(good) == Current
Ranked(good) == IF good = {} THEN {best} ELSE good

\* The sequences that did not fail are cut to their result, judged for
\* repetition and scored; the next temperature follows unless the best one is
\* good enough or there is none.
Rank ==
    /\ pc = "rank"
    /\ LET scored == {j \in Current : ~dec[j].failed}
       IN  \E repeats \in SUBSET {j \in scored : MayRepeat(dec[j])} :
           /\ dec' = [j \in Decoders |->
                        IF j \in scored
                        THEN [dec[j] EXCEPT !.tokens = SubSeq(@, 1, dec[j].result_len),
                                            !.failed = j \in repeats]
                        ELSE dec[j]]
           /\ best' \in Ranked({j \in scored \ repeats : dec[j].result_len > 0})
           /\ \/ /\ it < Temps - 1          \* failed, or its average too low
                 /\ it' = it + 1 /\ pc' = "prompt"
              \/ /\ it = Temps - 1 \/ ~dec'[best'].failed
                 /\ it' = it /\ pc' = "output"
    /\ UNCHANGED <<call, rc, seek, past, taken, i, kv, result>>

--------------------------------------------------------------------------
\* Timestamps cut the text, each run of them where it begins; they do not when
\* a window is one segment.
Cuts(d) == {k \in 1 .. Len(d.tokens) :
              /\ ~call.single_segment /\ d.tokens[k] > Beg
              /\ k = 1 \/ d.tokens[k - 1] <= Beg}
CutsAfter(d, b) == {k \in Cuts(d) : k > b}

\* Where the segments begin: at the start (0) and at the cuts, when text
\* follows before the next cut.
Starts(d) == {b \in {0} \cup Cuts(d) :
                \E k \in b + 1 .. Len(d.tokens) :
                    d.tokens[k] < Eot /\ \A c \in CutsAfter(d, b) : k < c}

\* The segments the tokens make, in order.  tid is the tid of the first token:
\* the timestamp itself, else the likeliest.
Segments(d, tid) ==
    LET Begin(b) == seek + 2 * (IF b = 0 THEN tid ELSE d.tokens[b])
        End(b)   == seek + (IF CutsAfter(d, b) = {} THEN d.seek_delta
                            ELSE 2 * d.tokens[Min(CutsAfter(d, b))])
    IN  [n \in 1 .. Cardinality(Starts(d)) |->
            LET b == CHOOSE b \in Starts(d) : Turn(Starts(d), b) = n
            IN  [t0 |-> Begin(b), t1 |-> End(b)]]

FirstTids(d) ==
    IF call.no_timestamps THEN {NoTid}
    ELSE IF d.tokens[1] >= Beg THEN {d.tokens[1]} ELSE Beg .. Second \div 2

\* The window's text is pushed, the past is rebuilt from the prompt and the
\* result, the window moves.
Output ==
    /\ pc = "output"
    /\ LET d == dec[best]
       IN  /\ IF d.tokens = <<>> \/ ~call.loaded THEN UNCHANGED result
              ELSE \E tid \in FirstTids(d) : result' = result \o Segments(d, tid)
           /\ past' = (IF taken = NoSlot THEN 0 ELSE taken) + d.result_len
           /\ seek' = seek + d.seek_delta
    /\ dec' = [j \in Decoders |-> NewDecoder]   \* renewed before they are read again
    /\ pc' = "window"
    /\ UNCHANGED <<call, rc, it, taken, i, kv, best>>

Done == pc = "done" /\ UNCHANGED vars

Step == Window \/ StartPrompt \/ SampleGreedy \/ SampleBeam \/ Extend \/ Rank \/ Output
Next == Step \/ Done

Spec     == Init /\ [][Next]_vars
FairSpec == Spec /\ WF_vars(Step)

--------------------------------------------------------------------------
(***************************************************************************)
(* Properties                                                              *)
(***************************************************************************)
Segment == [t0 : Int, t1 : Int]

TypeOK ==
    /\ call \in Calls
    /\ pc \in {"window", "prompt", "sample", "extend", "rank", "output", "done"}
    /\ rc \in {0, -6, -7, -8, -9} /\ (rc # 0 => pc = "done")
    /\ seek \in Nat /\ past \in Nat /\ taken \in {NoSlot} \cup 1 .. TextCtx \div 2
    /\ it \in 0 .. Temps - 1 /\ i \in 0 .. NMax /\ best \in Decoders
    /\ \A j \in Decoders :
         /\ dec[j].tokens \in Seq(Ids) /\ dec[j].by \in Seq(Decoders)
         /\ dec[j].result_len \in 0 .. Len(dec[j].tokens)
         /\ dec[j].seek_delta \in 1 .. Chunk
         /\ {dec[j].failed, dec[j].completed, dec[j].has_ts} \subseteq BOOLEAN
    /\ TypeOKKv(kv, Decoders, Decoders \cup {Prompt})
    /\ result \in Seq(Segment)

\* A decoder that is still going reads exactly its own history: every earlier
\* position once, the prompt's shared cells and then the cells computed from
\* the very tokens of its sequence, whichever decoder they were sampled by,
\* and no other decoder's.  (KQ_mask of whisper_build_graph_decoder against
\* the cells that find_slot, seq_cp and seq_rm leave.)
OwnContext ==
    pc \in {"sample", "extend"} =>
        \A j \in Live :
            LET d     == dec[j]
                last  == PromptLen + Len(d.by) - 1
                cells == Attended(kv, j, last)
            IN  /\ {kv.cells[c].pos : c \in cells} = 0 .. last
                /\ Cardinality(cells) = last + 1
                /\ \A c \in cells :
                     LET p == kv.cells[c].pos
                     IN  kv.cells[c].val = IF p < PromptLen THEN Prompt
                                           ELSE d.by[p - PromptLen + 1]

\* However long the past text and however many decoders run to the end, the
\* cache has a free slot for every batch, and no token gets a position beyond
\* the rows of the positional embedding, which nothing checks
\* (whisper_build_graph_decoder takes the rows of batch.pos as they are).
ContextFits ==
    /\ rc # -9
    /\ \A c \in CellIds : kv.cells[c].pos < TextCtx

\* The decoders' shared cache: each finds all of its own context, and all of it has room.
ContextSound == OwnContext /\ ContextFits

\* The text shown for a window is that of an attempt of the last temperature
\* tried, and of one that failed only when every decoder of the last
\* temperature did (best_decoder_id outlives the temperatures).
OnlyLastResort ==
    pc = "output" =>
        /\ best \in Current
        /\ dec[best].failed => it = Temps - 1 /\ \A j \in Current : dec[j].failed

\* With timestamps, segments never overlap and never go back, within a window
\* and from one window to the next.
SegmentsOrdered ==
    ~call.no_timestamps =>
        \A k \in 1 .. Len(result) - 1 : result[k].t1 <= result[k + 1].t0

\* The text that is shown is the one it should be, in order.
TextSound == TypeOK /\ OnlyLastResort /\ SegmentsOrdered

\* The window never moves past audio the encoder has not been given: the
\* audio context the JNI layer asks for is long enough.
HeardAll ==
    [][seek' # seek => \/ seek' <= seek + 2 * AudioCtx
                       \/ seek + 2 * AudioCtx >= call.frames]_vars

\* Every call ends, whatever the network says.
CallEnds == <>(pc = "done")
==========================================================================
