----------------------------- MODULE WhisperGraphs -----------------------------
(***************************************************************************)
(* The computations of the speech model, as whisper.cpp builds them from   *)
(* the operators of the tensor library: what the convolutions, the         *)
(* encoder, the cross-attention memory and the decoder are made of, and    *)
(* which parts of the caches they write and read.                          *)
(*                                                                         *)
(* hp, the hyperparameters of a model file: n_state (the code demands the  *)
(* same of audio and text), n_head, n_layer (audio and text), n_audio_ctx, *)
(* n_text_ctx, n_mels, n_vocab and wtype, the type of its large weights.   *)
(* Positions, values and sizes are kept; numbers inside tensors are not.   *)
(***************************************************************************)
EXTENDS GgmlOps

Vec(n)        == new_tensor("F32", Ne(n, 1, 1, 1))
Mat(ty, n, m) == new_tensor(ty, Ne(n, m, 1, 1))
T3(ty, a, b, c) == new_tensor(ty, Ne(a, b, c, 1))

\* Convolution weights stay out of quantization.
vtype(hp) == IF hp.wtype = "F32" THEN "F32" ELSE "F16"
itype     == "F16"                                       \* of both caches

\* The weights, by the names whisper_model_load gives the fields.
AudioWeights(hp) ==
    LET S == hp.n_state IN
    [e_pe |-> Mat("F32", S, hp.n_audio_ctx),
     e_conv_1_w |-> T3(vtype(hp), 3, hp.n_mels, S), e_conv_1_b |-> Mat("F32", 1, S),
     e_conv_2_w |-> T3(vtype(hp), 3, S, S),         e_conv_2_b |-> Mat("F32", 1, S),
     e_ln_w |-> Vec(S), e_ln_b |-> Vec(S)]
\* Of an audio layer, and of a text layer, which has CrossWeights besides.
LayerWeights(hp) ==
    LET S == hp.n_state IN
    [mlp_ln_w |-> Vec(S), mlp_ln_b |-> Vec(S),
     mlp_0_w |-> Mat(hp.wtype, S, 4 * S), mlp_0_b |-> Vec(4 * S),
     mlp_1_w |-> Mat(hp.wtype, 4 * S, S), mlp_1_b |-> Vec(S),
     attn_ln_0_w |-> Vec(S), attn_ln_0_b |-> Vec(S),
     attn_q_w |-> Mat(hp.wtype, S, S), attn_q_b |-> Vec(S),
     attn_k_w |-> Mat(hp.wtype, S, S),
     attn_v_w |-> Mat(hp.wtype, S, S), attn_v_b |-> Vec(S),
     attn_ln_1_w |-> Mat(hp.wtype, S, S), attn_ln_1_b |-> Vec(S)]
CrossWeights(hp) ==
    LET S == hp.n_state IN
    [cross_attn_ln_0_w |-> Vec(S), cross_attn_ln_0_b |-> Vec(S),
     cross_attn_q_w |-> Mat(hp.wtype, S, S), cross_attn_q_b |-> Vec(S),
     cross_attn_k_w |-> Mat(hp.wtype, S, S),
     cross_attn_v_w |-> Mat(hp.wtype, S, S), cross_attn_v_b |-> Vec(S),
     cross_attn_ln_1_w |-> Mat(hp.wtype, S, S), cross_attn_ln_1_b |-> Vec(S)]
TextWeights(hp) ==
    LET S == hp.n_state IN
    [d_pe |-> Mat("F32", S, hp.n_text_ctx), d_te |-> Mat(hp.wtype, S, hp.n_vocab),
     d_ln_w |-> Vec(S), d_ln_b |-> Vec(S)]

\* The caches of n positions (kv_cache_init): one run of elements for all layers.
Cache(hp, n) == new_tensor(itype, Ne(hp.n_state * hp.n_layer * n, 1, 1, 1))

----------------------------------------------------------------------------
(* Parts of a layer *)

\* The layers f(_, 0) to f(_, n - 1) one after the other, from x on: each is
\* computed before the next is built.
Through(f(_, _), x, n) ==
    LET L[i \in 0 .. n] == IF i = 0 THEN x ELSE CHOOSE y \in {f(in, i - 1) : in \in {L[i - 1]}} : TRUE
    IN  L[n]

Normed(x, w, b)  == add(mul(norm("NORM", x, FALSE), w, FALSE), b, FALSE)
Linear(w, x, b)  == add(mul_mat(w, x), b, FALSE)
SwapHeads(x)     == permute(x, Ne(0, 2, 1, 3))
FeedForward(x, w) ==
    add(Linear(w.mlp_1_w, unary("GELU", Linear(w.mlp_0_w, Normed(x, w.mlp_ln_w, w.mlp_ln_b), w.mlp_0_b), FALSE),
               w.mlp_1_b), x, FALSE)
\* The result of each head, [n_state/n_head, n, n_head], side by side again.
Merged(hp, kqv, n) == cpy(SwapHeads(kqv), Mat("F32", hp.n_state, n), FALSE)

Heads(hp)   == hp.n_head
HeadSize(hp) == hp.n_state \div hp.n_head

----------------------------------------------------------------------------
(* whisper_build_graph_conv: mel frames to positions, two frames each *)

Mel(hp, n_ctx) == Mat("F32", 2 * n_ctx, hp.n_mels)
ConvOver(hp, w, n_ctx) ==
    LET one == unary("GELU", add(conv_1d_ph(w.e_conv_1_w, Mel(hp, n_ctx), 1, 1), w.e_conv_1_b, FALSE), FALSE)
    IN  unary("GELU", add(conv_1d_ph(w.e_conv_2_w, one, 2, 1), w.e_conv_2_b, FALSE), FALSE)
Conv(hp, n_ctx) == ConvOver(hp, AudioWeights(hp), n_ctx)

\* The frames the window of the graph takes from n_len frames at mel_offset:
\* column i of the window, or -1 where it stays zero.
MelWindow(n_len, mel_offset, n_ctx) ==
    LET i0 == IF mel_offset < n_len THEN mel_offset ELSE n_len
        i1 == IF mel_offset + 2 * n_ctx < n_len THEN mel_offset + 2 * n_ctx ELSE n_len
    IN  [i \in 0 .. 2 * n_ctx - 1 |-> IF i0 + i < i1 THEN i0 + i ELSE -1]

\* im2col: the columns under the kernel at output position x.
Under(x, ks, s0, n) == {i \in {x * s0 + k - ks \div 2 : k \in 0 .. ks - 1} : i \in 0 .. n - 1}
\* What position x of the convolutions is computed from.
Heard(win, x, n_ctx) ==
    {win[i] : i \in UNION {Under(y, 3, 1, 2 * n_ctx) : y \in Under(x, 3, 2, 2 * n_ctx)}} \ {-1}

----------------------------------------------------------------------------
(* whisper_build_graph_encoder *)

\* What goes in: the convolutions' result with a row of e_pe for each position.
Embedded(e_pe, conv, n_ctx) ==
    add(view_2d(e_pe, e_pe.ne[0], n_ctx, e_pe.ne[0] * TypeSize[e_pe.type], 0),
        cont(transpose(view_tensor(conv)), FALSE), FALSE)

\* Of a layer with the weights w: each position attends to all of them.
EncoderAttention(hp, w, cur, n_ctx) ==
    LET Split(ty, x) == SwapHeads(cpy(x, T3(ty, HeadSize(hp), Heads(hp), n_ctx), FALSE))
        Q    == Split("F32", Linear(w.attn_q_w, cur, w.attn_q_b))
        K    == Split(itype, mul_mat(w.attn_k_w, cur))
        Vcur == Linear(w.attn_v_w, cur, w.attn_v_b)
        V    == cpy(permute(reshape(Vcur, Ne(HeadSize(hp), Heads(hp), n_ctx, 1)), Ne(1, 2, 0, 3)),
                    T3(itype, n_ctx, HeadSize(hp), Heads(hp)), FALSE)
        kqv  == mul_mat(V, soft_max(scale(mul_mat(K, Q), FALSE), FALSE))
    IN  Linear(w.attn_ln_1_w, Merged(hp, kqv, n_ctx), w.attn_ln_1_b)
EncoderLayer(hp, w, inpL, n_ctx) ==
    FeedForward(add(EncoderAttention(hp, w, Normed(inpL, w.attn_ln_0_w, w.attn_ln_0_b), n_ctx), inpL, FALSE), w)

EncoderOver(hp, aw, w, conv, n_ctx) ==
    LET f(x, il) == EncoderLayer(hp, w, x, n_ctx)
    IN  Normed(Through(f, Embedded(aw.e_pe, conv, n_ctx), hp.n_layer), aw.e_ln_w, aw.e_ln_b)
Encoder(hp, conv, n_ctx) == EncoderOver(hp, AudioWeights(hp), LayerWeights(hp), conv, n_ctx)

----------------------------------------------------------------------------
(* whisper_build_graph_cross: keys and values of the audio, for each text layer il *)

CrossK(hp, n_ctx, il) ==
    LET k == Cache(hp, hp.n_audio_ctx)
    IN  view(k, Ne(hp.n_state * n_ctx, 1, 1, 1), (TypeSize[itype] * hp.n_state) * (il * n_ctx))
CrossV(hp, n_ctx, il) ==
    LET v == Cache(hp, hp.n_audio_ctx)
    IN  view_2d(v, n_ctx, hp.n_state, n_ctx * TypeSize[itype], (il * n_ctx) * TypeSize[itype] * hp.n_state)

\* Keys and values from the weights kw, and vw with their bias vb.
KOf(kw, cur) == scale(mul_mat(kw, cur), FALSE)
VOf(hp, vw, vb, cur, n) == transpose(reshape(Linear(vw, cur, vb), Ne(hp.n_state, n, 1, 1)))
CrossOver(hp, w, cur, n_ctx, il) ==
    <<cpy(KOf(w.cross_attn_k_w, cur), CrossK(hp, n_ctx, il), FALSE),
      cpy(VOf(hp, w.cross_attn_v_w, w.cross_attn_v_b, cur, n_ctx), CrossV(hp, n_ctx, il), FALSE)>>
Cross(hp, enc, n_ctx, il) == CrossOver(hp, CrossWeights(hp), view_tensor(enc), n_ctx, il)

----------------------------------------------------------------------------
(* whisper_build_graph_decoder: n tokens, put into the cells from kv_head   *)
(* of a cache of size cells, of which the first n_kv are read               *)

\* Where the keys and values of layer il go.
StoreK(hp, size, kv_head, n, il) ==
    view(Cache(hp, size), Ne(n * hp.n_state, 1, 1, 1), (TypeSize[itype] * hp.n_state) * (il * size + kv_head))
StoreV(hp, size, kv_head, n, il) ==
    view_2d(Cache(hp, size), n, hp.n_state, size * TypeSize[itype],
            (il * size) * TypeSize[itype] * hp.n_state + kv_head * TypeSize[itype])

\* Of a cache laid out for size cells, the keys and values of layer il in the
\* first n, head by head: [n_state/n_head, n, n_head], [n, n_state/n_head, n_head].
\* Mutant: heads and cells in the order the keys are stored, not swapped.
ReadKUnswapped(hp, cache, size, n, il) ==
    LET es == TypeSize[itype]
    IN  view_3d(cache, HeadSize(hp), n, Heads(hp),
                (es * hp.n_state) \div hp.n_head, es * hp.n_state, es * hp.n_state * size * il)
ReadK(hp, cache, size, n, il) ==
    LET es == TypeSize[itype]
    IN  view_3d(cache, HeadSize(hp), n, Heads(hp),
                es * hp.n_state, (es * hp.n_state) \div hp.n_head, es * hp.n_state * size * il)
\* Mutant: the layers are counted by the cells read, not by the cache's cells.
ReadVNear(hp, cache, size, n, il) ==
    LET es == TypeSize[itype]
    IN  view_3d(cache, n, HeadSize(hp), Heads(hp),
                size * es, (size * es * hp.n_state) \div hp.n_head, n * es * hp.n_state * il)
ReadV(hp, cache, size, n, il) ==
    LET es == TypeSize[itype]
    IN  view_3d(cache, n, HeadSize(hp), Heads(hp),
                size * es, (size * es * hp.n_state) \div hp.n_head, size * es * hp.n_state * il)

\* The queries, head by head.
QOf(hp, w, b, cur, n) ==
    SwapHeads(reshape(scale(Linear(w, cur, b), FALSE), Ne(HeadSize(hp), Heads(hp), n, 1)))

SelfAttention(hp, w, cur, size, n_kv, n, il) ==
    LET kv == Cache(hp, size)
        kq == mul_mat(ReadK(hp, kv, size, n_kv, il), QOf(hp, w.attn_q_w, w.attn_q_b, cur, n))
        v  == ReadV(hp, kv, size, n_kv, il)
    IN  Linear(w.attn_ln_1_w, Merged(hp, mul_mat(v, soft_max(add(kq, Mat("F32", n_kv, n), FALSE), FALSE)), n),
               w.attn_ln_1_b)
\* The same over the audio's n_ctx keys and values, unmasked.
CrossAttention(hp, w, cur, n_ctx, n, il) ==
    LET kv == Cache(hp, hp.n_audio_ctx)
        kq == mul_mat(ReadK(hp, kv, n_ctx, n_ctx, il), QOf(hp, w.cross_attn_q_w, w.cross_attn_q_b, cur, n))
        v  == ReadV(hp, kv, n_ctx, n_ctx, il)
    IN  Linear(w.cross_attn_ln_1_w, Merged(hp, mul_mat(v, soft_max(kq, FALSE)), n), w.cross_attn_ln_1_b)

Crossed(hp, w, inpCA, n_ctx, n, il) ==
    add(CrossAttention(hp, w, Normed(inpCA, w.cross_attn_ln_0_w, w.cross_attn_ln_0_b), n_ctx, n, il), inpCA, FALSE)
TextLayer(hp, w, x, inpL, cur, size, n_kv, n_ctx, n, il) ==
    FeedForward(Crossed(hp, x, add(SelfAttention(hp, w, cur, size, n_kv, n, il), inpL, FALSE), n_ctx, n, il), w)
StoreLayer(hp, w, cur, size, kv_head, n, il) ==
    <<cpy(KOf(w.attn_k_w, cur), StoreK(hp, size, kv_head, n, il), FALSE),
      cpy(VOf(hp, w.attn_v_w, w.attn_v_b, cur, n), StoreV(hp, size, kv_head, n, il), FALSE)>>
\* d: the result and the stores of the layers so far.
DecoderLayer(hp, w, x, d, size, kv_head, n_kv, n_ctx, n, il) ==
    LET cur == Normed(d.out, w.attn_ln_0_w, w.attn_ln_0_b)
    IN  [out   |-> TextLayer(hp, w, x, d.out, cur, size, n_kv, n_ctx, n, il),
         store |-> d.store \o StoreLayer(hp, w, cur, size, kv_head, n, il)]

\* The logits of n tokens, and every result that goes to the cache.
Logits(w, d) == [logits |-> mul_mat(w.d_te, Normed(d.out, w.d_ln_w, w.d_ln_b)), store |-> d.store]
DecoderOver(hp, tw, w, x, size, kv_head, n_kv, n_ctx, n) ==
    LET embd == new_tensor("I32", Ne(n, 1, 1, 1))
        inp  == add(get_rows(tw.d_te, embd), get_rows(tw.d_pe, embd), FALSE)
        f(d, il) == DecoderLayer(hp, w, x, d, size, kv_head, n_kv, n_ctx, n, il)
    IN  Logits(tw, Through(f, [out |-> inp, store |-> <<>>], hp.n_layer))
Decoder(hp, size, kv_head, n_kv, n_ctx, n) ==
    DecoderOver(hp, TextWeights(hp), LayerWeights(hp), CrossWeights(hp), size, kv_head, n_kv, n_ctx, n)
=============================================================================
