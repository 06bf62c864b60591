---------------------------- MODULE WhisperAttention ----------------------------
(***************************************************************************)
(* The passes of the speech model over one window of audio (whisper.cpp):  *)
(* the spectrogram, the encoder, and the decoder layer by layer, in the    *)
(* order whisper_full_with_state calls them.  Any computation may stop (a  *)
(* backend that fails, the abort callback): the call ends and the next one *)
(* begins anew.                                                            *)
(*                                                                         *)
(* The caches' memory is what was written to each element: which of the    *)
(* n_state components of which token, or audio position, for which layer.  *)
(***************************************************************************)
EXTENDS WhisperGraphs, WhisperMel, WhisperKv

CONSTANTS
    Models,         \* hyperparameters of the model file
    Audios,         \* audio [n, one]: n samples, of which number one sounds
    MaxThreads,
    Offsets,        \* where the windows start in the spectrogram
    MaxEncodes, MaxDecodes      \* bounds of the exploration

VARIABLES
    hp,             \* ctx->model.hparams
    mel,            \* state->mel: n_len frames of data, and what audio they are of
    exp,            \* state->exp_n_audio_ctx; 0: all the model has
    phase, il,      \* what is being computed, for which text layer
    win,            \* the window being encoded: where it starts, its mel frames
    encodes,        \* encoder passes so far, the last one being what the caches should hold
    ready,          \* how far whisper_full has come: "no", "mel", "begun", "encoded", "prompted"
    kv, batch,      \* state->kv_self and the batch being decoded
    decodes,        \* decoder passes so far
    kk, vv, ck, cv  \* memory of kv_self.k, kv_self.v, kv_cross.k, kv_cross.v

memory == <<kk, vv, ck, cv>>
speech == <<hp, mel, exp, phase, il, win, encodes, ready, kv, batch, decodes, memory>>

n_ctx == IF exp > 0 THEN exp ELSE hp.n_audio_ctx

\* What an element of a cache holds: component e of token or position val.
Unwritten == -1
Tag(layer, e, val) == (val * hp.n_layer + layer) * hp.n_state + e
Elements(n) == 0 .. hp.n_state * hp.n_layer * n - 1

NoMel == [n_len |-> 0, data |-> <<>>, of |-> <<>>]
Blank(n) == [x \in Elements(n) |-> Unwritten]
SpeechInit ==
    /\ hp \in Models
    /\ mel = NoMel /\ exp = 0 /\ phase = "idle" /\ il = 0 /\ win = <<>> /\ encodes = 0 /\ ready = "no"
    /\ kv = Cleared /\ batch = <<>> /\ decodes = 0
    /\ kk = Blank(KvSize) /\ vv = Blank(KvSize) /\ ck = Blank(hp.n_audio_ctx) /\ cv = Blank(hp.n_audio_ctx)
\* A state is freed, and the next one starts with caches nobody has written.
Forget ==
    /\ mel' = NoMel /\ exp' = 0 /\ phase' = "idle" /\ il' = 0 /\ win' = <<>> /\ encodes' = 0 /\ ready' = "no"
    /\ kv' = Cleared /\ batch' = <<>> /\ decodes' = 0
    /\ kk' = Blank(KvSize) /\ vv' = Blank(KvSize) /\ ck' = Blank(hp.n_audio_ctx) /\ cv' = Blank(hp.n_audio_ctx)
    /\ UNCHANGED hp

----------------------------------------------------------------------------
\* The number of the first operand's element that ends at place i of a copy:
\* elements are taken in order, wherever their strides say they are.
Origin(a, i) == (At(a, unravel_index(a, i)) - a.offs) \div TypeSize[a.type]
\* After a copy of src, n_state components for each of vals, into dst.
Copied(mem, src, dst, layer, vals) ==
    LET place(i) == At(dst, unravel_index(dst, i)) \div TypeSize[dst.type]
        tag(o) == Tag(layer, o % hp.n_state, vals[o \div hp.n_state])
        new == {<<place(i), tag(Origin(src, i))>> : i \in 0 .. nelements(dst) - 1}
    IN  [x \in DOMAIN mem |-> IF \E w \in new : w[1] = x THEN (CHOOSE w \in new : w[1] = x)[2] ELSE mem[x]]

\* Results of the right shape, whose places are all that matters here.
States(n) == Mat("F32", hp.n_state, n)
Values(w, n) == VOf(hp, w, Vec(hp.n_state), States(n), n)

----------------------------------------------------------------------------
(* The beginning of whisper_full: the spectrogram, then the audio context. *)
(* Only its length matters later, so what it was made of is forgotten.     *)

whisper_pcm_to_mel(audio, n_threads) ==
    /\ ready = "no" /\ phase = "idle" /\ encodes < MaxEncodes
    /\ LET samples == [i \in 0 .. audio.n - 1 |-> IF i = audio.one THEN 1 ELSE 0]
           m == log_mel_spectrogram(samples, audio.n, n_threads)
       IN  mel' = [n_len |-> m.n_len, data |-> m.data, of |-> samples]
    /\ ready' = "mel"
    /\ UNCHANGED <<hp, exp, phase, il, win, encodes, kv, batch, decodes, memory>>
Begin(audio_ctx) ==
    /\ ready = "mel"
    /\ exp' = audio_ctx
    /\ mel' = [mel EXCEPT !.data = <<>>, !.of = <<>>]
    /\ ready' = "begun"
    /\ UNCHANGED <<hp, phase, il, win, encodes, kv, batch, decodes, memory>>

\* whisper_encode_internal: convolutions and encoder; then the cross-attention
\* keys and values of each layer.
Encode(mel_offset) ==
    /\ ready \in {"begun", "encoded", "prompted"} /\ phase = "idle" /\ encodes < MaxEncodes
    /\ win' = [off |-> mel_offset, frames |-> MelWindow(mel.n_len, mel_offset, n_ctx)]
    /\ phase' = "cross" /\ il' = 0
    /\ encodes' = encodes + 1
    /\ ready' = "begun"
    /\ UNCHANGED <<hp, mel, exp, kv, batch, decodes, memory>>
StoreCross ==
    /\ phase = "cross"
    /\ LET vals == [p \in 0 .. n_ctx - 1 |-> encodes * hp.n_audio_ctx + p]
       IN  /\ ck' = Copied(ck, KOf(CrossWeights(hp).cross_attn_k_w, States(n_ctx)), CrossK(hp, n_ctx, il), il, vals)
           /\ cv' = Copied(cv, Values(CrossWeights(hp).cross_attn_v_w, n_ctx), CrossV(hp, n_ctx, il), il, vals)
    /\ IF il + 1 < hp.n_layer THEN il' = il + 1 /\ UNCHANGED <<phase, ready, win>>
                              ELSE il' = 0 /\ phase' = "idle" /\ ready' = "encoded" /\ win' = <<>>
    /\ UNCHANGED <<hp, mel, exp, encodes, kv, batch, decodes, kk, vv>>

----------------------------------------------------------------------------
(* whisper_decode_internal *)

\* The batch gets its slot, or the call fails for want of one.
Decode(cache, tokens) ==
    LET s == FindSlot(cache, Len(tokens))
    IN  /\ decodes' = decodes + 1
        /\ IF s = NoSlot THEN kv' = cache /\ ready' = "no" /\ UNCHANGED <<phase, batch>>
           ELSE kv' = Put(cache, s, tokens) /\ batch' = tokens /\ phase' = "store" /\ ready' = "prompted"
        /\ il' = 0
        /\ UNCHANGED <<hp, mel, exp, win, encodes, memory>>
Token(pos, seq, i) == [pos |-> pos, seq |-> seq, val |-> decodes * hp.n_text_ctx + i]
\* The prompt, n tokens of sequence 0 in an empty cache.
DecodePrompt(n) ==
    /\ ready \in {"encoded", "prompted"} /\ phase = "idle" /\ decodes < MaxDecodes
    /\ Decode([Cleared EXCEPT !.head = 0], [i \in 1 .. n |-> Token(i - 1, 0, i - 1)])
\* Its cells are shared with other decoders.
ShareCells(n) ==
    /\ ready = "prompted" /\ phase = "idle" /\ decodes < MaxDecodes
    /\ \A c \in CellIds : kv.cells[c].seqs \subseteq {0}
    /\ kv' = Share(kv, n)
    /\ UNCHANGED <<hp, mel, exp, phase, il, win, encodes, ready, batch, decodes, memory>>
\* One decoder takes over the text of another.
Reorder(from) ==
    /\ ready = "prompted" /\ phase = "idle" /\ decodes < MaxDecodes
    /\ \E c \in CellIds : 1 \in kv.cells[c].seqs
    /\ kv' = TakeOver(kv, from)
    /\ UNCHANGED <<hp, mel, exp, phase, il, win, encodes, ready, batch, decodes, memory>>
\* The next token of each of the sequences seqs, at the position they are at.
Next_pos(seq) == 1 + Max({kv.cells[c].pos : c \in {d \in CellIds : seq \in kv.cells[d].seqs}})
DecodeNext(seqs) ==
    /\ ready = "prompted" /\ phase = "idle" /\ decodes < MaxDecodes
    /\ \A s \in seqs : /\ \E c \in CellIds : s \in kv.cells[c].seqs
                       /\ Next_pos(s) < hp.n_text_ctx
    /\ LET s == [i \in 1 .. Cardinality(seqs) |-> CHOOSE x \in seqs : Cardinality({y \in seqs : y < x}) = i - 1]
       IN  Decode(kv, [i \in 1 .. Cardinality(seqs) |-> Token(Next_pos(s[i]), s[i], i - 1)])

\* The graph's nodes of one layer: the copies into the cache come first ...
Store ==
    /\ phase = "store"
    /\ LET n == Len(batch)
           vals == [t \in 0 .. n - 1 |-> batch[t + 1].val]
       IN  /\ kk' = Copied(kk, KOf(LayerWeights(hp).attn_k_w, States(n)), StoreK(hp, KvSize, kv.head, n, il), il, vals)
           /\ vv' = Copied(vv, Values(LayerWeights(hp).attn_v_w, n), StoreV(hp, KvSize, kv.head, n, il), il, vals)
    /\ phase' = "attend"
    /\ UNCHANGED <<hp, mel, exp, il, win, encodes, ready, kv, batch, decodes, ck, cv>>
\* ... then the attention reads it.
Attend ==
    /\ phase = "attend"
    /\ IF il + 1 < hp.n_layer THEN phase' = "store" /\ il' = il + 1 /\ UNCHANGED batch
                              ELSE phase' = "idle" /\ il' = 0 /\ batch' = <<>>
    /\ UNCHANGED <<hp, mel, exp, win, encodes, ready, kv, decodes, memory>>

\* A computation is stopped, and whisper_full with it.
Abort ==
    /\ phase # "idle"
    /\ phase' = "idle" /\ ready' = "no" /\ il' = 0 /\ win' = <<>> /\ batch' = <<>>
    /\ UNCHANGED <<hp, mel, exp, encodes, kv, decodes, memory>>
\* whisper_full is done.
Done ==
    /\ phase = "idle" /\ ready \in {"encoded", "prompted"}
    /\ ready' = "no"
    /\ UNCHANGED <<hp, mel, exp, phase, il, win, encodes, kv, batch, decodes, memory>>

SpeechNext ==
    \/ \E audio \in Audios, n \in 1 .. MaxThreads : whisper_pcm_to_mel(audio, n)
    \/ \E a \in 0 .. hp.n_audio_ctx - 1 : Begin(a)
    \/ \E off \in Offsets : Encode(off)
    \/ StoreCross
    \/ \E n \in 1 .. hp.n_text_ctx : DecodePrompt(n)
    \/ ShareCells(2)
    \/ \E from \in [{0, 1} -> {0, 1}] : Reorder(from)
    \/ \E seqs \in SUBSET {0, 1} \ {{}} : DecodeNext(seqs)
    \/ Store \/ Attend \/ Abort \/ Done
----------------------------------------------------------------------------
\* Every frame of the spectrogram is the transform of its own stretch of the
\* audio, however many threads shared the frames; and every position of the
\* encoder hears the frames around it that are in its window, no others, with
\* the positional row that belongs to it.
FramesRight ==
    mel.data # <<>> => mel.data = Spectrum(mel.of, Cardinality(DOMAIN mel.of))
WindowRight ==
    phase = "cross" /\ il = 0 =>
        \A p \in 0 .. n_ctx - 1 :
            /\ Heard(win.frames, p, n_ctx) =
                 {f \in 0 .. mel.n_len - 1 : /\ f \in win.off .. win.off + 2 * n_ctx - 1
                                            /\ f - win.off \in 2 * p - 2 .. 2 * p + 2}
            /\ \A e \in 0 .. hp.n_state - 1 :
                 LET conv == Mat("F32", n_ctx, hp.n_state)
                 IN  Origin(transpose(view_tensor(conv)), p * hp.n_state + e) = e * n_ctx + p
HearsOwn == FramesRight /\ WindowRight

\* No computation fails an assertion of the library or leaves the memory its
\* tensors have, for any audio context, any slot in the cache and any batch,
\* nor when the buffers are measured; and the results have their shapes.
DecodedSound(d, n) ==
    /\ d.logits.sound /\ d.logits.ne = Ne(hp.n_vocab, n, 1, 1)
    /\ \A i \in DOMAIN d.store : d.store[i].sound
\* The batch at hand, and before there is one the batch the buffers are measured for.
Batches ==
    IF phase = "store" /\ il = 0
    THEN {[head |-> kv.head, n_kv |-> kv.n, n |-> Len(batch), audio |-> n_ctx]}
    ELSE IF encodes = 0
    THEN {[head |-> KvSize - hp.n_text_ctx, n_kv |-> KvSize, n |-> hp.n_text_ctx, audio |-> hp.n_audio_ctx]}
    ELSE {}
EncodedSound(enc) ==
    /\ enc.sound /\ enc.ne = Ne(hp.n_state, n_ctx, 1, 1)
    /\ \A layer \in 0 .. hp.n_layer - 1, i \in 1 .. 2 : Cross(hp, enc, n_ctx, layer)[i].sound
ConvolvedSound(conv) ==
    conv.sound /\ conv.ne = Ne(n_ctx, hp.n_state, 1, 1) /\ EncodedSound(Encoder(hp, conv, n_ctx))
GraphsSound ==
    /\ phase = "cross" /\ il = 0 => ConvolvedSound(Conv(hp, n_ctx))
    /\ phase = "store" => \A i \in DOMAIN batch : batch[i].pos < hp.n_text_ctx
    /\ \A b \in Batches : DecodedSound(Decoder(hp, KvSize, b.head, b.n_kv, b.audio, b.n), b.n)

\* What the attention of a layer reads is what this layer computed for the
\* tokens in the cells, component by component, whatever else has used the
\* cells before; likewise for every position of the audio encoded last.  No
\* cell it multiplies with is still unwritten, masked or not.
Component(h, d) == h * HeadSize(hp) + d
HeadDims == (0 .. Heads(hp) - 1) \X (0 .. HeadSize(hp) - 1)
ReadsTag(mem, t, coord, tag) == mem[At(t, coord) \div TypeSize[itype]] = tag
OwnText ==
    LET K == ReadK(hp, Cache(hp, KvSize), KvSize, kv.n, il)
        V == ReadV(hp, Cache(hp, KvSize), KvSize, kv.n, il)
    IN  \A c \in UNION {Attended(kv, batch[i].seq, batch[i].pos) : i \in DOMAIN batch}, x \in HeadDims :
          LET tag == Tag(il, Component(x[1], x[2]), kv.cells[c].val)
          IN  ReadsTag(kk, K, Ne(x[2], c, x[1], 0), tag) /\ ReadsTag(vv, V, Ne(c, x[2], x[1], 0), tag)
OwnAudio ==
    LET K == ReadK(hp, Cache(hp, hp.n_audio_ctx), n_ctx, n_ctx, il)
        V == ReadV(hp, Cache(hp, hp.n_audio_ctx), n_ctx, n_ctx, il)
    IN  \A p \in 0 .. n_ctx - 1, x \in HeadDims :
          LET tag == Tag(il, Component(x[1], x[2]), encodes * hp.n_audio_ctx + p)
          IN  ReadsTag(ck, K, Ne(x[2], p, x[1], 0), tag) /\ ReadsTag(cv, V, Ne(p, x[2], x[1], 0), tag)
NothingUnwritten ==
    LET V == ReadV(hp, Cache(hp, KvSize), KvSize, kv.n, il)
    IN  \A c \in 0 .. kv.n - 1, x \in HeadDims : ~ReadsTag(vv, V, Ne(c, x[2], x[1], 0), Unwritten)
\* The queries go to the same heads, and the heads' results to the same
\* components and tokens.
OwnHeads ==
    LET n == Len(batch)
        Q == SwapHeads(reshape(States(n), Ne(HeadSize(hp), Heads(hp), n, 1)))
        R == SwapHeads(new_tensor("F32", Ne(HeadSize(hp), n, Heads(hp), 1)))
    IN  \A t \in 0 .. n - 1, x \in HeadDims :
          /\ At(Q, Ne(x[2], t, x[1], 0)) \div 4 = t * hp.n_state + Component(x[1], x[2])
          /\ Origin(R, t * hp.n_state + Component(x[1], x[2])) = (x[1] * n + t) * HeadSize(hp) + x[2]
AttendsOwn == phase = "attend" => OwnText /\ OwnAudio /\ NothingUnwritten /\ OwnHeads

\* Each decoded batch: graphs that hold together, over memory that is its own.
DecodesOwn == GraphsSound /\ AttendsOwn
=============================================================================
