------------------------------- MODULE GgmlKernels -------------------------------
(***************************************************************************)
(* The compute kernels of the tensor library (whisper/src/ggml.c), each    *)
(* reduced to what the threads that share it must agree on: which units of *)
(* the destination the call of thread ith out of nth writes.  A unit is a  *)
(* row of the tensor, or whatever the kernel's outer loop counts: elements *)
(* for a contiguous copy, planes for a concat, groups for a group norm,    *)
(* input channels for im2col, and pairs (src0 row, src1 row) for a matrix  *)
(* product.  The arithmetic inside a unit is left out.                     *)
(*                                                                         *)
(* A tensor is a record:                                                   *)
(*   op       its operation                                                *)
(*   type     element type of src0: "f32", "f16" or "q" (quantised)        *)
(*   other    element type of the other side: src1, or the destination of  *)
(*            a copy                                                       *)
(*   cont     both sides of a copy are contiguous and of one shape         *)
(*   inplace  the destination shares the storage of src0                   *)
(*   conv     src1 must be converted before a matrix product               *)
(*   nr, n1   units along the split dimension, and src1 rows of a product  *)
(*            (1 for every other operation)                                *)
(*   ne       length of a row, in floats                                   *)
(***************************************************************************)
EXTENDS Integers, FiniteSets

MIN(a, b) == IF a < b THEN a ELSE b

\* Padding between the work areas of two threads, in floats (64 bytes).
CACHE_LINE_SIZE_F32 == 16

Units(t) == (0 .. t.nr - 1) \X (0 .. t.n1 - 1)

\* dr = (nr + nth - 1)/nth; for (ir = dr*ith; ir < MIN(dr*ith + dr, nr); ir++)
Block(ith, nth, t) ==
    LET dr == (t.nr + nth - 1) \div nth
    IN  {u \in Units(t) : dr * ith <= u[1] /\ u[1] < MIN(dr * ith + dr, t.nr)}

\* for (ir = ith; ir < nr; ir += nth)
Stride(ith, nth, t) ==
    {u \in Units(t) : ith <= u[1] /\ (u[1] - ith) % nth = 0}

\* A matrix product is split along the longer of its two dimensions: the rows
\* of src0, or the given rows of src1, counted in their order.
Chunk(ith, nth, t, rows) ==
    LET nr0  == t.nr
        nr1  == Cardinality(rows)
        nth0 == IF nr0 > nr1 THEN nth ELSE 1
        nth1 == IF nr0 > nr1 THEN 1 ELSE nth
        ith0 == ith % nth0
        ith1 == ith \div nth0
        dr0  == (nr0 + nth0 - 1) \div nth0
        dr1  == (nr1 + nth1 - 1) \div nth1
        nth_of(i) == Cardinality({j \in rows : j < i})
    IN  {u \in Units(t) :
            /\ u[2] \in rows
            /\ dr0 * ith0 <= u[1] /\ u[1] < MIN(dr0 * ith0 + dr0, nr0)
            /\ dr1 * ith1 <= nth_of(u[2])
            /\ nth_of(u[2]) < MIN(dr1 * ith1 + dr1, nr1)}

\* The rows of src1 that are routed to matrix a (data: two matrices, in turn).
n_as == 2
MatrixRows(a, t) == {i \in 0 .. t.n1 - 1 : i % n_as = a}

-------------------------------------------------------------------------------
(* Copies: by rows, or by elements when both sides are contiguous. *)
dup_same_cont(ith, nth, t) == Block(ith, nth, t)
dup_f16(ith, nth, t) ==
    IF t.cont /\ t.type = t.other THEN dup_same_cont(ith, nth, t)
    ELSE Block(ith, nth, t)
dup_f32(ith, nth, t) ==
    IF t.cont /\ t.type = t.other THEN dup_same_cont(ith, nth, t)
    ELSE Block(ith, nth, t)
dup_bytes(ith, nth, t) ==
    IF t.cont THEN dup_same_cont(ith, nth, t) ELSE Block(ith, nth, t)
dup(ith, nth, t) ==
    CASE t.type = t.other -> dup_bytes(ith, nth, t)
      [] t.type # t.other /\ t.type = "f16" -> dup_f16(ith, nth, t)
      [] t.type # t.other /\ t.type = "f32" -> dup_f32(ith, nth, t)
cpy(ith, nth, t) == dup(ith, nth, t)
cont(ith, nth, t) == dup(ith, nth, t)
-------------------------------------------------------------------------------
(* Sums and products, row by row. *)
add_f32(ith, nth, t) == Block(ith, nth, t)
add_f16_f32(ith, nth, t) == Block(ith, nth, t)
add_f16_f16(ith, nth, t) == Block(ith, nth, t)
add_q_f32(ith, nth, t) == Block(ith, nth, t)
add(ith, nth, t) ==
    CASE t.type = "f32" -> add_f32(ith, nth, t)
      [] t.type = "f16" /\ t.other = "f16" -> add_f16_f16(ith, nth, t)
      [] t.type = "f16" /\ t.other # "f16" -> add_f16_f32(ith, nth, t)
      [] t.type = "q" -> add_q_f32(ith, nth, t)
add1_f32(ith, nth, t) == Block(ith, nth, t)
add1_f16_f32(ith, nth, t) == Block(ith, nth, t)
add1_f16_f16(ith, nth, t) == Block(ith, nth, t)
add1_q_f32(ith, nth, t) == Block(ith, nth, t)
add1(ith, nth, t) ==
    CASE t.type = "f32" -> add1_f32(ith, nth, t)
      [] t.type = "f16" /\ t.other = "f16" -> add1_f16_f16(ith, nth, t)
      [] t.type = "f16" /\ t.other # "f16" -> add1_f16_f32(ith, nth, t)
      [] t.type = "q" -> add1_q_f32(ith, nth, t)
acc(ith, nth, t) == Block(ith, nth, t)
sub(ith, nth, t) == Units(t)
mul(ith, nth, t) == Stride(ith, nth, t)
div(ith, nth, t) == Stride(ith, nth, t)
set(ith, nth, t) == Block(ith, nth, t)
scale(ith, nth, t) == Block(ith, nth, t)
clamp(ith, nth, t) == Stride(ith, nth, t)
add_rel_pos(ith, nth, t) == Block(ith, nth, t)
-------------------------------------------------------------------------------
(* Elementwise functions and reductions: one thread does them whole. *)
sqr(ith, nth, t) == Units(t)
sqrt(ith, nth, t) == Units(t)
log(ith, nth, t) == Units(t)
sum_f32(ith, nth, t) == Units(t)
sum_f16(ith, nth, t) == Units(t)
sum(ith, nth, t) ==
    IF t.type = "f32" THEN sum_f32(ith, nth, t) ELSE sum_f16(ith, nth, t)
sum_rows(ith, nth, t) == Units(t)
mean(ith, nth, t) == Units(t)
argmax(ith, nth, t) == Units(t)
repeat(ith, nth, t) == Units(t)
repeat_back(ith, nth, t) == Units(t)
abs(ith, nth, t) == Units(t)
sgn(ith, nth, t) == Units(t)
neg(ith, nth, t) == Units(t)
step(ith, nth, t) == Units(t)
tanh(ith, nth, t) == Units(t)
elu(ith, nth, t) == Units(t)
relu(ith, nth, t) == Units(t)
leaky_relu(ith, nth, t) == Units(t)
-------------------------------------------------------------------------------
(* Activations that are split by rows. *)
gelu(ith, nth, t) == Block(ith, nth, t)
gelu_quick(ith, nth, t) == Block(ith, nth, t)
silu(ith, nth, t) == Block(ith, nth, t)
silu_back(ith, nth, t) == Block(ith, nth, t)
unary(ith, nth, t) ==
    CASE t.op = "ABS"        -> abs(ith, nth, t)
      [] t.op = "SGN"        -> sgn(ith, nth, t)
      [] t.op = "NEG"        -> neg(ith, nth, t)
      [] t.op = "STEP"       -> step(ith, nth, t)
      [] t.op = "TANH"       -> tanh(ith, nth, t)
      [] t.op = "ELU"        -> elu(ith, nth, t)
      [] t.op = "RELU"       -> relu(ith, nth, t)
      [] t.op = "GELU"       -> gelu(ith, nth, t)
      [] t.op = "GELU_QUICK" -> gelu_quick(ith, nth, t)
      [] t.op = "SILU"       -> silu(ith, nth, t)
-------------------------------------------------------------------------------
(* Normalisation, attention scores and positions. *)
concat(ith, nth, t) == Stride(ith, nth, t)
norm(ith, nth, t) == Stride(ith, nth, t)
rms_norm(ith, nth, t) == Stride(ith, nth, t)
rms_norm_back(ith, nth, t) == Stride(ith, nth, t)
group_norm(ith, nth, t) == Stride(ith, nth, t)
diag_mask_f32(ith, nth, t) == Stride(ith, nth, t)
diag_mask_inf(ith, nth, t) == diag_mask_f32(ith, nth, t)
diag_mask_zero(ith, nth, t) == diag_mask_f32(ith, nth, t)
soft_max(ith, nth, t) == Block(ith, nth, t)
soft_max_back(ith, nth, t) == Block(ith, nth, t)
alibi(ith, nth, t) == Units(t)
rope_f32(ith, nth, t) == Block(ith, nth, t)
rope_f16(ith, nth, t) == Block(ith, nth, t)
rope(ith, nth, t) ==
    IF t.type = "f16" THEN rope_f16(ith, nth, t) ELSE rope_f32(ith, nth, t)
rope_back(ith, nth, t) ==
    IF t.type = "f16" THEN rope_f16(ith, nth, t) ELSE rope_f32(ith, nth, t)
-------------------------------------------------------------------------------
(* Matrix products. *)
mul_mat(ith, nth, t) == Chunk(ith, nth, t, 0 .. t.n1 - 1)
mul_mat_id(ith, nth, t) ==
    UNION {Chunk(ith, nth, t, MatrixRows(a, t)) : a \in 0 .. n_as - 1}
out_prod_f32(ith, nth, t) == Block(ith, nth, t)
out_prod_q_f32(ith, nth, t) == Block(ith, nth, t)
out_prod(ith, nth, t) ==
    IF t.type = "q" THEN out_prod_q_f32(ith, nth, t)
    ELSE out_prod_f32(ith, nth, t)
-------------------------------------------------------------------------------
(* Rows picked by an index, diagonals, views. *)
view(ith, nth, t) == Units(t)
get_rows_q(ith, nth, t) == Units(t)
get_rows_f16(ith, nth, t) == Units(t)
get_rows_f32(ith, nth, t) == Units(t)
get_rows(ith, nth, t) ==
    CASE t.type = "q"   -> get_rows_q(ith, nth, t)
      [] t.type = "f16" -> get_rows_f16(ith, nth, t)
      [] t.type = "f32" -> get_rows_f32(ith, nth, t)
get_rows_back_f32_f16(ith, nth, t) == Units(t)
get_rows_back_f32(ith, nth, t) == Units(t)
get_rows_back(ith, nth, t) ==
    IF t.type = "f16" THEN get_rows_back_f32_f16(ith, nth, t)
    ELSE get_rows_back_f32(ith, nth, t)
diag(ith, nth, t) == Units(t)
-------------------------------------------------------------------------------
(* Convolutions, pooling, resizing, sorting. *)
conv_transpose_1d_f16_f32(ith, nth, t) == Block(ith, nth, t)
conv_transpose_1d_f32(ith, nth, t) == Block(ith, nth, t)
conv_transpose_1d(ith, nth, t) ==
    IF t.type = "f16" THEN conv_transpose_1d_f16_f32(ith, nth, t)
    ELSE conv_transpose_1d_f32(ith, nth, t)
im2col(ith, nth, t) == Stride(ith, nth, t)
conv_transpose_2d(ith, nth, t) == Block(ith, nth, t)
pool_1d(ith, nth, t) == Units(t)
pool_2d(ith, nth, t) == Units(t)
upscale(ith, nth, t) == Stride(ith, nth, t)
pad(ith, nth, t) == Stride(ith, nth, t)
argsort(ith, nth, t) == Stride(ith, nth, t)
-------------------------------------------------------------------------------
(* Fused attention and feed-forward. *)
flash_attn_f32(ith, nth, t) == Block(ith, nth, t)
flash_attn_f16(ith, nth, t) == Block(ith, nth, t)
flash_attn(ith, nth, t) ==
    IF t.type = "f16" THEN flash_attn_f16(ith, nth, t)
    ELSE flash_attn_f32(ith, nth, t)
flash_ff(ith, nth, t) == Block(ith, nth, t)
flash_attn_back(ith, nth, t) == Block(ith, nth, t)
-------------------------------------------------------------------------------
(* Windows, relative positions, user functions, losses. *)
win_part(ith, nth, t) == Units(t)
win_unpart(ith, nth, t) == Units(t)
get_rel_pos(ith, nth, t) == Units(t)
map_unary(ith, nth, t) == Units(t)
map_binary(ith, nth, t) == Units(t)
cross_entropy_loss(ith, nth, t) == Block(ith, nth, t)
cross_entropy_loss_back(ith, nth, t) == Block(ith, nth, t)

-------------------------------------------------------------------------------
(* The dispatch on the operation, and how many threads it is given. *)
UnarySerial == {"ABS", "SGN", "NEG", "STEP", "TANH", "ELU", "RELU"}
UnarySplit  == {"GELU", "GELU_QUICK", "SILU"}
UnaryOps    == UnarySerial \cup UnarySplit

\* Operations that only describe a tensor over its source's data: the kernel
\* does nothing, and leaves nothing to write.
ViewOps == {"NONE", "RESHAPE", "VIEW", "PERMUTE", "TRANSPOSE"}

\* The units of tensor t that a COMPUTE call of thread ith of nth writes.
compute_forward(ith, nth, t) ==
    CASE t.op = "DUP"                     -> dup(ith, nth, t)
      [] t.op = "ADD"                     -> add(ith, nth, t)
      [] t.op = "ADD1"                    -> add1(ith, nth, t)
      [] t.op = "ACC"                     -> acc(ith, nth, t)
      [] t.op = "SUB"                     -> sub(ith, nth, t)
      [] t.op = "MUL"                     -> mul(ith, nth, t)
      [] t.op = "DIV"                     -> div(ith, nth, t)
      [] t.op = "SQR"                     -> sqr(ith, nth, t)
      [] t.op = "SQRT"                    -> sqrt(ith, nth, t)
      [] t.op = "LOG"                     -> log(ith, nth, t)
      [] t.op = "SUM"                     -> sum(ith, nth, t)
      [] t.op = "SUM_ROWS"                -> sum_rows(ith, nth, t)
      [] t.op = "MEAN"                    -> mean(ith, nth, t)
      [] t.op = "ARGMAX"                  -> argmax(ith, nth, t)
      [] t.op = "REPEAT"                  -> repeat(ith, nth, t)
      [] t.op = "REPEAT_BACK"             -> repeat_back(ith, nth, t)
      [] t.op = "CONCAT"                  -> concat(ith, nth, t)
      [] t.op = "SILU_BACK"               -> silu_back(ith, nth, t)
      [] t.op = "NORM"                    -> norm(ith, nth, t)
      [] t.op = "RMS_NORM"                -> rms_norm(ith, nth, t)
      [] t.op = "RMS_NORM_BACK"           -> rms_norm_back(ith, nth, t)
      [] t.op = "GROUP_NORM"              -> group_norm(ith, nth, t)
      [] t.op = "MUL_MAT"                 -> mul_mat(ith, nth, t)
      [] t.op = "MUL_MAT_ID"              -> mul_mat_id(ith, nth, t)
      [] t.op = "OUT_PROD"                -> out_prod(ith, nth, t)
      [] t.op = "SCALE"                   -> scale(ith, nth, t)
      [] t.op = "SET"                     -> set(ith, nth, t)
      [] t.op = "CPY"                     -> cpy(ith, nth, t)
      [] t.op = "CONT"                    -> cont(ith, nth, t)
      [] t.op = "GET_ROWS"                -> get_rows(ith, nth, t)
      [] t.op = "GET_ROWS_BACK"           -> get_rows_back(ith, nth, t)
      [] t.op = "DIAG"                    -> diag(ith, nth, t)
      [] t.op = "DIAG_MASK_INF"           -> diag_mask_inf(ith, nth, t)
      [] t.op = "DIAG_MASK_ZERO"          -> diag_mask_zero(ith, nth, t)
      [] t.op = "SOFT_MAX"                -> soft_max(ith, nth, t)
      [] t.op = "SOFT_MAX_BACK"           -> soft_max_back(ith, nth, t)
      [] t.op = "ROPE"                    -> rope(ith, nth, t)
      [] t.op = "ROPE_BACK"               -> rope_back(ith, nth, t)
      [] t.op = "ALIBI"                   -> alibi(ith, nth, t)
      [] t.op = "CLAMP"                   -> clamp(ith, nth, t)
      [] t.op = "CONV_TRANSPOSE_1D"       -> conv_transpose_1d(ith, nth, t)
      [] t.op = "IM2COL"                  -> im2col(ith, nth, t)
      [] t.op = "CONV_TRANSPOSE_2D"       -> conv_transpose_2d(ith, nth, t)
      [] t.op = "POOL_1D"                 -> pool_1d(ith, nth, t)
      [] t.op = "POOL_2D"                 -> pool_2d(ith, nth, t)
      [] t.op = "UPSCALE"                 -> upscale(ith, nth, t)
      [] t.op = "PAD"                     -> pad(ith, nth, t)
      [] t.op = "ARGSORT"                 -> argsort(ith, nth, t)
      [] t.op = "LEAKY_RELU"              -> leaky_relu(ith, nth, t)
      [] t.op = "FLASH_ATTN"              -> flash_attn(ith, nth, t)
      [] t.op = "FLASH_FF"                -> flash_ff(ith, nth, t)
      [] t.op = "FLASH_ATTN_BACK"         -> flash_attn_back(ith, nth, t)
      [] t.op = "WIN_PART"                -> win_part(ith, nth, t)
      [] t.op = "WIN_UNPART"              -> win_unpart(ith, nth, t)
      [] t.op = "GET_REL_POS"             -> get_rel_pos(ith, nth, t)
      [] t.op = "ADD_REL_POS"             -> add_rel_pos(ith, nth, t)
      [] t.op = "MAP_UNARY"               -> map_unary(ith, nth, t)
      [] t.op = "MAP_BINARY"              -> map_binary(ith, nth, t)
      [] t.op = "CROSS_ENTROPY_LOSS"      -> cross_entropy_loss(ith, nth, t)
      [] t.op = "CROSS_ENTROPY_LOSS_BACK" -> cross_entropy_loss_back(ith, nth, t)
      [] t.op \in UnaryOps -> unary(ith, nth, t)
      [] t.op \in ViewOps -> view(ith, nth, t)

SerialOps ==
    UnarySerial \cup ViewOps \cup
    {"SUB", "SQR", "SQRT", "LOG", "SUM", "SUM_ROWS", "MEAN", "ARGMAX", "REPEAT",
     "REPEAT_BACK", "LEAKY_RELU", "SCALE", "SET", "CONT", "GET_ROWS",
     "GET_ROWS_BACK", "DIAG", "ALIBI", "CLAMP", "POOL_1D", "POOL_2D",
     "WIN_PART", "WIN_UNPART", "GET_REL_POS", "MAP_UNARY", "MAP_BINARY"}

SplitOps ==
    {"DUP", "CPY", "ADD", "ADD1", "ACC", "MUL", "DIV", "CONCAT", "SILU_BACK",
     "NORM", "RMS_NORM", "RMS_NORM_BACK", "GROUP_NORM", "MUL_MAT", "MUL_MAT_ID",
     "OUT_PROD", "DIAG_MASK_INF", "DIAG_MASK_ZERO", "SOFT_MAX", "SOFT_MAX_BACK",
     "ROPE", "ROPE_BACK", "CONV_TRANSPOSE_1D", "IM2COL", "CONV_TRANSPOSE_2D",
     "UPSCALE", "PAD", "ARGSORT", "FLASH_ATTN", "FLASH_FF", "FLASH_ATTN_BACK",
     "ADD_REL_POS", "CROSS_ENTROPY_LOSS", "CROSS_ENTROPY_LOSS_BACK"} \cup UnarySplit

\* The tensors the kernels accept: a copy of quantised rows keeps their type (dup
\* asserts it), and the rows of FLASH_ATTN_BACK are long enough for its scratch area,
\* which is laid out for eight floats or more and asserted nowhere.
Types == {"f32", "f16", "q"}
Tensors ==
    {t \in [op : SplitOps \cup SerialOps, type : Types, other : Types, cont : BOOLEAN,
            inplace : BOOLEAN, conv : BOOLEAN, nr : Nat, n1 : Nat, ne : Nat \ {0}] :
        /\ t.op \in {"DUP", "CPY", "CONT"} /\ t.type = "q" => t.other = "q"
        /\ t.op = "FLASH_ATTN_BACK" => t.ne >= 8}

\* How many threads take part in the COMPUTE pass of tensor t.
get_n_tasks(t, n_threads) ==
    CASE t.op \in SerialOps -> 1
      [] t.op = "SOFT_MAX"  -> MIN(MIN(4, n_threads), t.nr)
      [] t.op \notin SerialOps \cup {"SOFT_MAX"} -> n_threads

\* Operations with an INIT pass, and with a FINALIZE pass.
HAS_INIT ==
    {"ACC", "MUL_MAT", "MUL_MAT_ID", "OUT_PROD", "SET", "GET_ROWS_BACK",
     "DIAG_MASK_INF", "DIAG_MASK_ZERO", "CONV_TRANSPOSE_1D",
     "CONV_TRANSPOSE_2D", "FLASH_ATTN_BACK", "CROSS_ENTROPY_LOSS",
     "ADD_REL_POS"}
HAS_FINALIZE == {"CROSS_ENTROPY_LOSS"}

-------------------------------------------------------------------------------
(* What the INIT pass does, and who uses the shared work buffer. *)

\* The kernel's INIT branch writes the destination: a copy of src0, or zeros.
InitFillsDst(t) ==
    \/ t.op \in {"ACC", "SET", "DIAG_MASK_INF", "DIAG_MASK_ZERO", "ADD_REL_POS"}
       /\ ~t.inplace
    \/ t.op \in {"OUT_PROD", "GET_ROWS_BACK", "FLASH_ATTN_BACK"}

\* The kernel's INIT branch fills the work buffer, and COMPUTE reads it.
PreparesWork(t) ==
    \/ t.op = "MUL_MAT" /\ t.conv
    \/ t.op \in {"MUL_MAT_ID", "CONV_TRANSPOSE_1D", "CONV_TRANSPOSE_2D",
                 "CROSS_ENTROPY_LOSS"}

\* The part of the work buffer, as <<first, past the last>> in floats, that
\* thread ith scribbles on while it computes its share of t.
Slice(ith, nth, t) ==
    LET At(stride, width) == <<stride * ith, stride * ith + width>>
        line == CACHE_LINE_SIZE_F32
    IN  CASE \/ t.op \in {"CPY", "DUP"} /\ t.type = "f16" /\ t.other = "q"
             \/ t.op \in {"ADD", "ADD1", "OUT_PROD"} /\ t.type = "q"
             \/ t.op = "SOFT_MAX"
             \/ t.op = "FLASH_ATTN" /\ t.type = "f32" -> At(t.ne + line, t.ne)
          [] \/ t.op = "FLASH_ATTN" /\ t.type = "f16"
             \/ t.op = "FLASH_FF" ->
                At(2 * t.ne + line, t.ne + (t.ne + 1) \div 2)
          [] t.op = "FLASH_ATTN_BACK" -> At(2 * (t.ne + line), 2 * t.ne + line)
          [] t.op = "CROSS_ENTROPY_LOSS" ->
                <<nth + ith * t.ne, nth + ith * t.ne + t.ne>>
          [] OTHER -> <<0, 0>>

\* The work buffer that n_tasks threads need for t, in floats.
TasksWork(t, n_tasks) ==
    CASE \/ t.op \in {"CPY", "DUP"} /\ t.other = "q"
         \/ t.op \in {"ADD", "ADD1", "OUT_PROD"} /\ t.type = "q"
         \/ t.op = "SOFT_MAX" -> t.ne * n_tasks
      [] t.op = "MUL_MAT" /\ t.conv -> t.ne * t.n1
      [] t.op = "MUL_MAT_ID" ->
            (IF t.conv THEN t.ne * t.n1 ELSE 0) + 2 * n_as + 2 * n_as * t.n1
      [] t.op \in {"CONV_TRANSPOSE_1D", "CONV_TRANSPOSE_2D"} ->
            t.ne * (t.nr + t.n1)
      [] t.op \in {"FLASH_ATTN", "FLASH_FF"} -> 2 * t.ne * n_tasks
      [] t.op = "FLASH_ATTN_BACK" -> 4 * t.ne * n_tasks
      [] t.op = "CROSS_ENTROPY_LOSS" -> n_tasks + t.ne * n_tasks
      [] OTHER -> 0

\* Mutant: the plan counts one thread's share.
work_size_of_one(t, n_threads) == TasksWork(t, 1)

\* The work buffer that the plan counts for t.
work_size(t, n_threads) == TasksWork(t, get_n_tasks(t, n_threads))
================================================================================
