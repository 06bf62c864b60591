-------------------------------- MODULE GgmlOps --------------------------------
(***************************************************************************)
(* The operators of the tensor library (whisper/src/ggml.c): each checks   *)
(* its operands, shapes a result, or a view of an operand, and records     *)
(* what will compute it.  Names follow the source, without "ggml_"; a      *)
(* last argument inplace stands for the two entry points of an _impl.      *)
(***************************************************************************)
EXTENDS GgmlTensor

\* Work is shared among threads in units of this many bytes.
GGML_MEM_ALIGN == 16
PAD(n) == ((n + GGML_MEM_ALIGN - 1) \div GGML_MEM_ALIGN) * GGML_MEM_ALIGN

\* What the rows of a second factor are converted to (type_traits).
VecDotType == [F32 |-> "F32", F16 |-> "F16", Q8_0 |-> "Q8_0"]

\* What the kernels of the operations the speech model uses demand of their
\* operands, beyond what the constructors have checked.
Accepts(op, s, t) ==
    CASE op \in {"ADD", "MUL"} ->
            /\ \A x \in {s[1], s[2], t} : x.type = "F32"
            /\ can_repeat(s[2], s[1]) /\ are_same_shape(s[1], t)
            /\ s[1].nb[0] = 4 /\ t.nb[0] = 4
      [] op = "MUL_MAT" ->
            /\ t.ne = Ne(s[1].ne[1], s[2].ne[1], s[2].ne[2], s[2].ne[3])
            /\ s[1].nb[0] = TypeSize[s[1].type] /\ s[2].nb[0] = TypeSize[s[2].type]
            /\ s[1].type \in DOMAIN VecDotType /\ s[2].type \in {"F32", VecDotType[s[1].type]}
            /\ t.nb[0] = 4 /\ t.nb[0] <= t.nb[1] /\ t.nb[1] <= t.nb[2] /\ t.nb[2] <= t.nb[3]
      [] op \in {"NORM", "SCALE", "SOFT_MAX", "GELU"} ->
            /\ s[1].type = "F32" /\ are_same_shape(s[1], t)
            /\ is_padded_1d(s[1])
            /\ op \in {"SCALE", "SOFT_MAX"} => is_contiguous(s[1])
      [] op = "GET_ROWS" -> s[1].nb[0] = TypeSize[s[1].type] /\ nrows(t) = nelements(s[2])
      [] op = "IM2COL" -> s[1].type = "F16" /\ s[2].type = "F32" /\ s[1].nb[0] = 2 /\ s[2].nb[0] = 4
      [] op \in {"CPY", "CONT"} -> s[1].type \in {"F32", "F16"} /\ nelements(s[1]) = nelements(t)
      [] OTHER -> TRUE

\* The new node of the graph: op over the operands s, if the operator's
\* assertions must hold.
Node(op, par, s, must, grad, t) ==
    IF (\E i \in DOMAIN s : Aborted(s[i])) \/ ~must \/ Aborted(t) THEN ABORT
    ELSE [t EXCEPT !.op = op, !.par = par, !.grad = grad,
                   !.sound = Inside(t) /\ Accepts(op, s, t) /\ \A i \in DOMAIN s : s[i].sound]

----------------------------------------------------------------------------
(* Element by element *)

\* A gradient is refused, unless the result takes the place of the operand.
dup(a, inplace) == Node("DUP", <<>>, <<a>>, TRUE, ~inplace /\ a.grad, Same(a, inplace))

UnaryOps == {"ABS", "SGN", "NEG", "STEP", "TANH", "ELU", "RELU", "GELU", "GELU_QUICK", "SILU"}
unary(op, a, inplace) == Node(op, <<>>, <<a>>, TRUE, ~inplace /\ a.grad, Same(a, inplace))

SqrOps == {"SQR", "SQRT", "LOG"}
sqr(op, a, inplace) == Node(op, <<>>, <<a>>, TRUE, ~inplace /\ a.grad, Same(a, inplace))
leaky_relu(a, inplace) == Node("LEAKY_RELU", <<>>, <<a>>, TRUE, ~inplace /\ a.grad, Same(a, inplace))
silu_back(a, b) == Node("SILU_BACK", <<>>, <<a, b>>, TRUE, a.grad \/ b.grad, dup_tensor(a))

GradOf2(a, b, inplace) == ~inplace /\ (a.grad \/ b.grad)

add(a, b, inplace) ==
    LET g == GradOf2(a, b, inplace)
    IN  Node("ADD", <<>>, <<a, b>>, can_repeat(b, a) /\ (g => are_same_shape(a, b)), g, Same(a, inplace))
add_cast(a, b, type) ==
    LET g == a.grad \/ b.grad
    IN  Node("ADD", <<>>, <<a, b>>,
             /\ can_repeat_rows(b, a)
             /\ is_quantized(a.type) \/ a.type = "F16"
             /\ g => are_same_shape(a, b),
             g, new_tensor(type, a.ne))
add1(a, b, inplace) ==
    Node("ADD1", <<>>, <<a, b>>, is_scalar(b) /\ is_padded_1d(a), a.grad \/ b.grad, Same(a, inplace))
\* at: the strides 1, 2, 3 and the offset of the part of a that b goes to
acc(a, b, at, inplace) ==
    Node("ACC", at, <<a, b>>,
         nelements(b) <= nelements(a) /\ is_contiguous(a) /\ a.type = "F32" /\ b.type = "F32",
         GradOf2(a, b, inplace), Same(a, inplace))
set(a, b, at, inplace) ==
    Node("SET", at, <<a, b>>, nelements(a) >= nelements(b), a.grad \/ b.grad, Same(a, inplace))
sub(a, b, inplace) ==
    Node("SUB", <<>>, <<a, b>>, are_same_shape(a, b), GradOf2(a, b, inplace), Same(a, inplace))
mul(a, b, inplace) ==
    LET g == GradOf2(a, b, inplace)
    IN  Node("MUL", <<>>, <<a, b>>, can_repeat(b, a) /\ (g => are_same_shape(a, b)), g, Same(a, inplace))
div(a, b, inplace) ==
    Node("DIV", <<>>, <<a, b>>, can_repeat(b, a), GradOf2(a, b, inplace), Same(a, inplace))
scale(a, inplace) == Node("SCALE", <<>>, <<a>>, is_padded_1d(a), a.grad, Same(a, inplace))
clamp(op, a) == Node(op, <<>>, <<a>>, ~a.grad, FALSE, view_tensor(a))     \* ALIBI, CLAMP

----------------------------------------------------------------------------
(* Sums, rows and norms *)

sum(a) == Node("SUM", <<>>, <<a>>, TRUE, a.grad, new_tensor(a.type, Ne(1, 1, 1, 1)))
sum_rows(a) == Node("SUM_ROWS", <<>>, <<a>>, TRUE, a.grad, new_tensor(a.type, [a.ne EXCEPT ![0] = 1]))
mean(a) == Node("MEAN", <<>>, <<a>>, ~a.grad, FALSE, new_tensor("F32", [a.ne EXCEPT ![0] = 1]))
argmax(a) ==
    Node("ARGMAX", <<>>, <<a>>, is_matrix(a) /\ ~a.grad, FALSE, new_tensor("I32", Ne(a.ne[1], 1, 1, 1)))
repeat(a, b) == Node("REPEAT", <<>>, <<a>>, can_repeat(a, b), a.grad, new_tensor(a.type, b.ne))
repeat_back(a, b) ==
    IF can_repeat(b, a) /\ are_same_shape(a, b) /\ ~a.grad THEN a
    ELSE Node("REPEAT_BACK", <<>>, <<a>>, can_repeat(b, a), a.grad, new_tensor(a.type, b.ne))
concat(a, b) ==
    Node("CONCAT", <<>>, <<a, b>>, \A i \in {0, 1, 3} : a.ne[i] = b.ne[i], a.grad \/ b.grad,
         new_tensor(a.type, [a.ne EXCEPT ![2] = @ + b.ne[2]]))
norm(op, a, inplace) == Node(op, <<>>, <<a>>, ~inplace => ~a.grad, FALSE, Same(a, inplace))  \* NORM, GROUP_NORM
rms_norm(a, inplace) == Node("RMS_NORM", <<>>, <<a>>, TRUE, ~inplace /\ a.grad, Same(a, inplace))
rms_norm_back(a, b) == Node("RMS_NORM_BACK", <<>>, <<a, b>>, TRUE, a.grad, dup_tensor(a))

----------------------------------------------------------------------------
(* Products *)

mul_mat(a, b) ==
    Node("MUL_MAT", <<>>, <<a, b>>, can_mul_mat(a, b) /\ ~is_transposed(a), a.grad \/ b.grad,
         new_tensor("F32", Ne(a.ne[1], b.ne[1], b.ne[2], b.ne[3])))
\* One of the matrices as, by the entry id of a row of ids.
mul_mat_id(as, ids, id, b) ==
    Node("MUL_MAT_ID", <<id>>, <<ids, b>> \o as,
         /\ ids.type = "I32" /\ is_matrix(ids)
         /\ \A i \in 1 .. 3 : ids.ne[i] = b.ne[i]
         /\ Len(as) \in 1 .. 4 /\ id \in 0 .. ids.ne[0] - 1
         /\ \A i \in DOMAIN as : are_same_shape(as[1], as[i]) /\ can_mul_mat(as[i], b) /\ ~is_transposed(as[i]),
         as[1].grad \/ b.grad,
         new_tensor("F32", Ne(as[1].ne[1], b.ne[1], b.ne[2], b.ne[3])))
out_prod(a, b) ==
    Node("OUT_PROD", <<>>, <<a, b>>, can_out_prod(a, b) /\ ~is_transposed(a), a.grad \/ b.grad,
         new_tensor("F32", Ne(a.ne[0], b.ne[0], b.ne[2], b.ne[3])))

----------------------------------------------------------------------------
(* The same elements in another shape *)

cpy(a, b, inplace) ==
    Node("CPY", <<>>, <<a, b>>, nelements(a) = nelements(b), GradOf2(a, b, inplace), view_tensor(b))
cont(a, inplace) == Node("CONT", <<>>, <<a>>, TRUE, ~inplace /\ a.grad, Same(a, inplace))
\* With a new shape the gradient is lost.
cont_4d(a, ne) ==
    Node("CONT", <<>>, <<a>>, nelements(a) = nelements([ne |-> ne]), FALSE, new_tensor(a.type, ne))
reshape(a, ne) ==
    Node("RESHAPE", <<>>, <<a>>, is_contiguous(a) /\ nelements(a) = nelements([ne |-> ne]), a.grad,
         view_of(a, ne, 0))
view(a, ne, offset) == Node("VIEW", <<offset>>, <<a>>, TRUE, a.grad, view_of(a, ne, offset))
\* With strides the caller gives, which nobody checks.
Checked(t, a) == IF Aborted(t) THEN ABORT ELSE [t EXCEPT !.sound = a.sound /\ Inside(t)]
view_2d(a, ne0, ne1, nb1, offset) ==
    LET t == view(a, Ne(ne0, ne1, 1, 1), offset)
    IN  Checked([t EXCEPT !.nb = Ne(@[0], nb1, nb1 * ne1, nb1 * ne1)], a)
view_3d(a, ne0, ne1, ne2, nb1, nb2, offset) ==
    LET t == view(a, Ne(ne0, ne1, ne2, 1), offset)
    IN  Checked([t EXCEPT !.nb = Ne(@[0], nb1, nb2, nb2 * ne2)], a)
view_4d(a, ne, nb1, nb2, nb3, offset) ==
    LET t == view(a, ne, offset)
    IN  Checked([t EXCEPT !.nb = Ne(@[0], nb1, nb2, nb3)], a)

\* axes[i]: the dimension that dimension i of a becomes.
Perms == {p \in [Dims -> Dims] : \A i, j \in Dims : i # j => p[i] # p[j]}
permute(a, axes) ==
    LET from == [i \in Dims |-> CHOOSE j \in Dims : axes[j] = i]
    IN  Node("PERMUTE", axes, <<a>>, axes \in Perms, a.grad,
             [view_tensor(a) EXCEPT !.ne = [i \in Dims |-> a.ne[from[i]]],
                                    !.nb = [i \in Dims |-> a.nb[from[i]]]])
transpose(a) ==
    Node("TRANSPOSE", <<>>, <<a>>, TRUE, a.grad,
         [view_tensor(a) EXCEPT !.ne = Ne(a.ne[1], a.ne[0], a.ne[2], a.ne[3]),
                                !.nb = Ne(a.nb[1], a.nb[0], a.nb[2], a.nb[3])])

----------------------------------------------------------------------------
(* Rows, masks and positions *)

get_rows(a, b) ==
    Node("GET_ROWS", <<>>, <<a, b>>, a.ne[2] = b.ne[1] /\ b.ne[3] = 1 /\ b.type = "I32", a.grad \/ b.grad,
         new_tensor(IF a.type = "I32" THEN "I32" ELSE "F32", Ne(a.ne[0], b.ne[0], b.ne[1], b.ne[2])))
get_rows_back(a, b, c) ==
    Node("GET_ROWS_BACK", <<>>, <<a, b>>,
         is_matrix(a) /\ is_vector(b) /\ b.type = "I32" /\ is_matrix(c) /\ a.ne[0] = c.ne[0],
         a.grad \/ b.grad, new_tensor("F32", Ne(c.ne[0], c.ne[1], 1, 1)))
diag(a) ==
    Node("DIAG", <<>>, <<a>>, a.ne[1] = 1, a.grad, new_tensor(a.type, [a.ne EXCEPT ![1] = a.ne[0]]))
\* DIAG_MASK_INF, DIAG_MASK_ZERO; the gradient is kept even in place
diag_mask(op, a, inplace) == Node(op, <<>>, <<a>>, TRUE, a.grad, Same(a, inplace))
soft_max(a, inplace) == Node("SOFT_MAX", <<>>, <<a>>, is_contiguous(a), a.grad, Same(a, inplace))
soft_max_ext(a, mask) ==
    Node("SOFT_MAX", <<>>, <<a, mask>>,
         is_contiguous(a) /\ is_contiguous(mask) /\ is_matrix(mask) /\ can_repeat_rows(mask, a),
         a.grad, dup_tensor(a))
soft_max_back(a, b, inplace) == Node("SOFT_MAX_BACK", <<>>, <<a, b>>, TRUE, a.grad \/ b.grad, Same(a, inplace))
RopeFits(a, b) == is_vector(b) /\ b.type = "I32" /\ a.ne[2] = b.ne[0]
rope(a, b, inplace) == Node("ROPE", <<>>, <<a, b>>, RopeFits(a, b), a.grad, Same(a, inplace))
rope_back(a, b) == Node("ROPE_BACK", <<>>, <<a, b>>, RopeFits(a, b), FALSE, dup_tensor(a))
\* A gradient is refused: there is no backward step.
NoGrad(op, s, must, t) == Node(op, <<>>, s, must /\ \A i \in DOMAIN s : ~s[i].grad, FALSE, t)

----------------------------------------------------------------------------
(* Convolutions and pools: stride s, padding p, dilation d *)

conv_size(ins, ks, s, p, d) == (ins + 2 * p - d * (ks - 1) - 1) \div s + 1
\* Each output position gets the inputs under the kernel, as a row.
im2col(a, b, s0, p0, d0) ==
    NoGrad("IM2COL", <<a, b>>, a.ne[1] = b.ne[1],
           new_tensor("F16", Ne(a.ne[1] * a.ne[0], conv_size(b.ne[0], a.ne[0], s0, p0, d0), b.ne[2], 1)))
im2col_2d(a, b, s, p, d) ==
    NoGrad("IM2COL", <<a, b>>, a.ne[2] = b.ne[2],
           new_tensor("F16", Ne(a.ne[2] * a.ne[1] * a.ne[0], conv_size(b.ne[0], a.ne[0], s, p, d),
                                conv_size(b.ne[1], a.ne[1], s, p, d), b.ne[3])))
\* The rows of columns times the kernel.
Kernel1d(col, a) ==
    reshape(mul_mat(reshape(col, Ne(col.ne[0], col.ne[2] * col.ne[1], 1, 1)),
                    reshape(a, Ne(a.ne[0] * a.ne[1], a.ne[2], 1, 1))),
            Ne(col.ne[1], a.ne[2], col.ne[2], 1))
conv_1d(a, b, s0, p0, d0) == Kernel1d(im2col(a, b, s0, p0, d0), a)
conv_1d_ph(a, b, s, d) == conv_1d(a, b, s, a.ne[0] \div 2, d)
Kernel2d(col, a) ==
    reshape(mul_mat(reshape(col, Ne(col.ne[0], col.ne[3] * col.ne[2] * col.ne[1], 1, 1)),
                    reshape(a, Ne(a.ne[0] * a.ne[1] * a.ne[2], a.ne[3], 1, 1))),
            Ne(col.ne[1], col.ne[2], a.ne[3], col.ne[3]))
conv_2d(a, b, s, p, d) == Kernel2d(im2col_2d(a, b, s, p, d), a)
conv_transpose_1d(a, b, s0) ==
    NoGrad("CONV_TRANSPOSE_1D", <<a, b>>, is_matrix(b) /\ a.ne[2] = b.ne[1] /\ a.ne[3] = 1,
           new_tensor("F32", Ne((b.ne[0] - 1) * s0 + a.ne[0], a.ne[1], b.ne[2], 1)))
conv_transpose_2d(a, b, s) ==
    NoGrad("CONV_TRANSPOSE_2D", <<a, b>>, a.ne[3] = b.ne[2],
           new_tensor("F32", Ne((b.ne[0] - 1) * s + a.ne[0], (b.ne[1] - 1) * s + a.ne[1], a.ne[2], b.ne[3])))
pool_size(ins, ks, s, p) == (ins + 2 * p - ks) \div s + 1
pool_1d(a, k, s, p) ==
    NoGrad("POOL_1D", <<a>>, TRUE, new_tensor("F32", Ne(pool_size(a.ne[0], k, s, p), a.ne[1], 1, 1)))
pool_2d(a, k, s, p) ==
    NoGrad("POOL_2D", <<a>>, TRUE,
           new_tensor("F32", Ne(pool_size(a.ne[0], k, s, p), pool_size(a.ne[1], k, s, p), a.ne[2], 1)))
upscale(a, f) ==
    NoGrad("UPSCALE", <<a>>, TRUE, new_tensor(a.type, Ne(a.ne[0] * f, a.ne[1] * f, a.ne[2], a.ne[3])))
pad(a, p) == NoGrad("PAD", <<a>>, TRUE, new_tensor(a.type, [i \in Dims |-> a.ne[i] + p[i]]))
argsort(a) == Node("ARGSORT", <<>>, <<a>>, TRUE, FALSE, new_tensor("I32", a.ne))
Firsts(t, k) == IF t.ne[0] < k THEN ABORT
                ELSE view_4d(t, [t.ne EXCEPT ![0] = k], t.nb[1], t.nb[2], t.nb[3], 0)
top_k(a, k) == Firsts(argsort(a), k)

----------------------------------------------------------------------------
(* Attention, windows, user functions and losses *)

flash_attn(q, k, v) ==
    Node("FLASH_ATTN", <<>>, <<q, k, v>>, can_mul_mat(k, q), q.grad \/ k.grad \/ v.grad, new_tensor("F32", q.ne))
flash_ff(a, b0, b1, c0, c1) ==
    Node("FLASH_FF", <<>>, <<a, b0, b1, c0, c1>>, can_mul_mat(b0, a),
         a.grad \/ b0.grad \/ b1.grad \/ c0.grad \/ c1.grad, new_tensor("F32", a.ne))
\* The gradients of q, k and v one after the other, each on a boundary.
AttnOffs(q, k) == LET offs_k == PAD(4 * nelements(q)) IN <<0, offs_k, offs_k + PAD(4 * nelements(k))>>
flash_attn_back(q, k, v, d) ==
    Node("FLASH_ATTN_BACK", <<>>, <<q, k, v, d>>,
         /\ can_mul_mat(k, q)
         /\ v.ne = Ne(k.ne[1], q.ne[0], k.ne[2], k.ne[3])
         /\ are_same_shape(d, q) /\ k.ne[3] = q.ne[3] /\ q.ne[2] % k.ne[2] = 0,
         FALSE, new_tensor("F32", Ne((AttnOffs(q, k)[3] + PAD(4 * nelements(v))) \div 4, 1, 1, 1)))
win_part(a, w) ==
    LET blocks(n) == (n + ((w - (n % w)) % w)) \div w
    IN  NoGrad("WIN_PART", <<a>>, a.ne[3] = 1 /\ a.type = "F32",
               new_tensor("F32", Ne(a.ne[0], w, w, blocks(a.ne[1]) * blocks(a.ne[2]))))
win_unpart(a, w0, h0) == NoGrad("WIN_UNPART", <<a>>, a.type = "F32", new_tensor("F32", Ne(a.ne[0], w0, h0, 1)))
get_rel_pos(a, qh, kh) ==
    NoGrad("GET_REL_POS", <<a>>, qh = kh /\ 2 * qh - 1 = a.ne[1], new_tensor("F16", Ne(a.ne[0], kh, qh, 1)))
add_rel_pos(a, pw, ph, inplace) ==
    Node("ADD_REL_POS", <<>>, <<a, pw, ph>>,
         /\ are_same_shape(pw, ph) /\ pw.type = "F32" /\ ph.type = "F32"
         /\ is_contiguous(a) /\ is_contiguous(pw) /\ is_contiguous(ph)
         /\ pw.ne[3] = a.ne[2] /\ pw.ne[0] * pw.ne[0] = a.ne[0] /\ pw.ne[1] * pw.ne[2] = a.ne[1],
         ~inplace /\ (a.grad \/ pw.grad \/ ph.grad), Same(a, inplace))
\* Functions of the caller's, of one to three operands; the ones ending in
\* f32 are the older generation.
map_op(op, s, inplace) ==
    Node(op, <<>>, s, TRUE, ~inplace /\ \E i \in DOMAIN s : s[i].grad, Same(s[1], inplace))
map_unary(a, inplace) == map_op("MAP_UNARY", <<a>>, inplace)
map_custom_f32(s, inplace) == map_op(<<"MAP_CUSTOM1", "MAP_CUSTOM2", "MAP_CUSTOM3">>[Len(s)], s, inplace)
map_custom3(a, b, c, inplace) == map_op("MAP_CUSTOM3", <<a, b, c>>, inplace)
map_binary(a, b, inplace) ==
    Node("MAP_BINARY", <<>>, <<a, b>>, are_same_shape(a, b), GradOf2(a, b, inplace), Same(a, inplace))
cross_entropy_loss(a, b) ==
    Node("CROSS_ENTROPY_LOSS", <<>>, <<a, b>>, are_same_shape(a, b), a.grad \/ b.grad,
         new_tensor(a.type, Ne(1, 1, 1, 1)))
cross_entropy_loss_back(a, b, c) ==
    Node("CROSS_ENTROPY_LOSS_BACK", <<>>, <<a, b, c>>, are_same_shape(a, b) /\ is_scalar(c), FALSE, dup_tensor(a))
=============================================================================
