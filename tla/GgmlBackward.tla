------------------------------ MODULE GgmlBackward ------------------------------
(***************************************************************************)
(* Graphs of tensors and their gradients (whisper/src/ggml.c):             *)
(* ggml_build_forward_expand puts the tensors a result depends on into an  *)
(* order in which they can be computed, and ggml_build_backward_expand     *)
(* walks that order backwards and builds, out of the same operators, what  *)
(* computes the gradients.                                                 *)
(*                                                                         *)
(* A graph under construction is a sequence of nodes [t, src]: a tensor    *)
(* and the positions of its operands.  The last one is a sum, the loss.    *)
(* The speech engine only runs graphs forward; the backward half is        *)
(* library code it carries.                                                *)
(***************************************************************************)
EXTENDS GgmlOps, FiniteSets

CONSTANTS Inputs,        \* sequences of input tensors to start from
          MaxOps,        \* operators before the loss (bound)
          Chained        \* the ones that are combined with each other (bound)

VARIABLES nodes,     \* the tensors made so far
          order,     \* ggml_cgraph.nodes and leafs, once built
          todo,      \* the place of the node ggml_compute_backward comes to next, 0 at the end
          grads      \* per node: its gradient now, and which uses went into it
vars == <<nodes, order, todo, grads>>

ASSUME InputsAssumption == Inputs # {} /\ MaxOps \in Nat

\* Operands first, from the left, each once.
RECURSIVE visit_parents(_, _, _)
visit_parents(ns, n, seen) ==
    LET RECURSIVE over(_, _)
        over(k, s) == IF k > Len(ns[n].src) THEN s ELSE over(k + 1, visit_parents(ns, ns[n].src[k], s))
    IN  IF \E i \in DOMAIN seen : seen[i] = n THEN seen ELSE Append(over(1, seen), n)

----------------------------------------------------------------------------
(* Operators over the nodes there are *)

ByOne(a) ==
    {unary(op, a, i) : op \in UnaryOps, i \in BOOLEAN} \cup {sqr(op, a, i) : op \in SqrOps, i \in BOOLEAN}
    \cup {f : f \in UNION {{dup(a, i), leaky_relu(a, i), scale(a, i), norm("NORM", a, i),
                            norm("GROUP_NORM", a, i), rms_norm(a, i), cont(a, i), soft_max(a, i),
                            diag_mask("DIAG_MASK_INF", a, i), diag_mask("DIAG_MASK_ZERO", a, i),
                            map_unary(a, i), map_custom_f32(<<a>>, i)} : i \in BOOLEAN}}
    \cup {clamp("ALIBI", a), clamp("CLAMP", a), sum(a), sum_rows(a), mean(a), argmax(a), diag(a),
          argsort(a), top_k(a, 1), pool_1d(a, 2, 2, 0), pool_2d(a, 1, 1, 0), upscale(a, 2),
          pad(a, Ne(1, 0, 0, 0)), win_part(a, 2), win_unpart(a, 1, 2), get_rel_pos(a, 1, 1),
          cont_4d(a, Ne(nelements(a), 1, 1, 1)), reshape(a, Ne(nelements(a), 1, 1, 1)),
          reshape(a, Ne(1, nelements(a), 1, 1))}
    \cup (IF is_quantized(a.type) THEN {}
          ELSE {transpose(a)} \cup {permute(a, p) : p \in {Ne(0, 2, 1, 3), Ne(1, 2, 0, 3), Ne(1, 0, 2, 3)}})
    \* the rest of a from its second element, as much as it has (too much, for
    \* most), and its last row
    \cup (IF is_contiguous(a) /\ ~is_quantized(a.type)
          THEN (IF nelements(a) > 1
                THEN {view(a, Ne(nelements(a) - 1, 1, 1, 1), TypeSize[a.type])} ELSE {})
               \cup {view(a, Ne(nelements(a), 1, 1, 1), TypeSize[a.type])}
               \cup {view_2d(a, 1, a.ne[1], a.nb[1], (a.ne[0] - 1) * a.nb[0]),
                     view_3d(a, a.ne[0], 1, a.ne[2], a.nb[1], a.nb[2], (a.ne[1] - 1) * a.nb[1])}
          ELSE {})

ByTwo(a, b) ==
    {f : f \in UNION {{add(a, b, i), add1(a, b, i), sub(a, b, i), mul(a, b, i), div(a, b, i),
                       cpy(a, b, i), rope(a, b, i), soft_max_back(a, b, i), map_binary(a, b, i),
                       map_op("MAP_CUSTOM2", <<a, b>>, i)} : i \in BOOLEAN}}
    \cup {add_cast(a, b, "F32"), repeat(a, b), repeat_back(a, b), concat(a, b), silu_back(a, b),
          rms_norm_back(a, b), mul_mat(a, b), out_prod(a, b), get_rows(a, b), soft_max_ext(a, b), rope_back(a, b), conv_1d_ph(a, b, 1, 1),
          conv_2d(a, b, 1, 0, 1), conv_transpose_1d(a, b, 1), conv_transpose_2d(a, b, 1),
          cross_entropy_loss(a, b)}
    \* b into the first part of a
    \cup (IF \A i \in Dims : b.ne[i] <= a.ne[i]
          THEN {acc(a, b, <<a.nb[1], a.nb[2], a.nb[3], 0>>, FALSE), set(a, b, <<a.nb[1], a.nb[2], a.nb[3], 0>>, FALSE)}
          ELSE {})

ByThree(a, b, c) ==
    {add_rel_pos(a, b, c, i) : i \in BOOLEAN} \cup {map_custom3(a, b, c, i) : i \in BOOLEAN}
    \cup {flash_attn(a, b, c), flash_ff(a, b, c, c, c), cross_entropy_loss_back(a, b, c),
          get_rows_back(a, b, c), mul_mat_id(<<a>>, b, 0, c)}

T(i) == nodes[i].t

----------------------------------------------------------------------------
(* Gradients *)

\* What a gradient is: the tensor, whether it is still the first one, which
\* stands for zero, and the uses of its node, <<user, operand>>, it sums up.
ZeroGrad(t) == [t |-> dup_tensor(t), zero |-> TRUE, uses |-> {}]

\* add_or_set, sub_or_set, add1_or_set and acc_or_set
Joined(g, how, by, at) ==
    CASE how = "add"  -> IF g.zero THEN by ELSE add(g.t, by, FALSE)
      [] how = "sub"  -> IF g.zero THEN unary("NEG", by, FALSE) ELSE sub(g.t, by, FALSE)
      [] how = "add1" -> IF g.zero THEN repeat(by, g.t) ELSE add1(g.t, by, FALSE)
      [] how = "acc"  -> acc(IF g.zero THEN scale(g.t, FALSE) ELSE g.t, by, at, FALSE)

\* Operand k of the node gets by; at is where it goes, for "acc".
Give(k, how, by) == [k |-> k, how |-> how, by |-> by, at |-> <<>>]

\* The part of d that operand 2 of an ACC or SET went to.
Part(t, d, gy) == view_4d(d, gy.ne, t.par[1], t.par[2], t.par[3], t.par[4])

\* Operators that have no backward step.
NoBackward == {"MEAN", "ARGMAX", "CONCAT", "SILU_BACK", "NORM", "RMS_NORM_BACK", "GROUP_NORM", "MUL_MAT_ID",
               "OUT_PROD", "GET_ROWS_BACK", "DIAG", "SOFT_MAX_BACK", "ALIBI", "CLAMP", "CONV_TRANSPOSE_1D",
               "IM2COL", "CONV_TRANSPOSE_2D", "POOL_1D", "POOL_2D", "UPSCALE", "PAD", "ARGSORT", "LEAKY_RELU",
               "FLASH_FF", "FLASH_ATTN_BACK", "WIN_PART", "WIN_UNPART", "TANH", "ELU", "GELU", "GELU_QUICK",
               "GET_REL_POS", "ADD_REL_POS", "MAP_UNARY", "MAP_BINARY", "MAP_CUSTOM1", "MAP_CUSTOM2",
               "MAP_CUSTOM3", "CROSS_ENTROPY_LOSS_BACK"}

\* ggml_compute_backward: what a node t with gradient d gives its operands
\* x, y, z, whose gradients so far are gx and gy.
Sums(t, d, x, y, gx, gy) ==
    CASE t.op = "DUP"  -> <<Give(1, "add", d)>>
      [] t.op = "ADD"  -> <<Give(1, "add", d), Give(2, "add", d)>>
      [] t.op = "ADD1" -> <<Give(1, "add", d), Give(2, "add", mean(d))>>
      [] t.op = "ACC"  -> <<Give(1, "add", d), Give(2, "add", reshape(cont(Part(t, d, gy), FALSE), gy.ne))>>
      [] t.op = "SUB"  -> <<Give(1, "add", d), Give(2, "sub", d)>>
      [] t.op = "MUL"  -> <<Give(1, "add", mul(y, d, FALSE)), Give(2, "add", mul(x, d, FALSE))>>
      [] t.op = "DIV"  -> <<Give(1, "add", div(d, y, FALSE)), Give(2, "sub", mul(d, div(t, y, FALSE), FALSE))>>
      [] t.op = "SQR"  -> <<Give(1, "add", scale(mul(x, d, FALSE), FALSE))>>
      [] t.op = "SQRT" -> <<Give(1, "add", scale(div(d, t, FALSE), FALSE))>>
      [] t.op = "LOG"  -> <<Give(1, "add", div(d, x, FALSE))>>

Rows(t, d, x, y, gx, gy) ==
    CASE t.op = "SUM" -> <<Give(1, "add1", d)>>
      [] t.op \in {"SUM_ROWS", "REPEAT_BACK"} -> <<Give(1, "add", repeat(d, gx))>>
      [] t.op = "REPEAT" -> <<Give(1, "add", repeat_back(d, gx))>>
      [] t.op = "RMS_NORM" -> <<Give(1, "add", rms_norm_back(x, d))>>
      [] t.op = "MUL_MAT" ->
            LET p == out_prod(y, d)
                broadcasted == \E i \in 2 .. 3 : p.ne[i] > x.ne[i]
            IN  <<Give(1, "add", IF broadcasted THEN repeat_back(p, x) ELSE p),
                  Give(2, "add", out_prod(x, transpose(d)))>>
      [] t.op = "SCALE" -> <<Give(1, "add", scale(d, FALSE))>>

\* Operators that rearrange elements, or take some of them.
Moves(t, d, x, y, gx, gy) ==
    LET to(n) == (n \div TypeSize[x.type]) * TypeSize[gx.type]
    IN  CASE t.op = "SET" ->
                <<Give(1, "add", Must(y.grad /\ x.type = t.type /\ gy.type = d.type,
                                      acc(d, unary("NEG", Part(t, d, gy), FALSE), t.par, FALSE))),
                  Give(2, "add", reshape(cont(Part(t, d, gy), FALSE), gy.ne))>>
          [] t.op = "CPY" -> <<Give(1, "add", d)>>
          [] t.op = "CONT" -> <<Give(1, "add", Must(is_contiguous(gx) /\ is_contiguous(d), d))>>
          [] t.op = "RESHAPE" ->
                <<Give(1, "add", reshape(IF is_contiguous(d) THEN d ELSE cont(d, FALSE), gx.ne))>>
          [] t.op = "VIEW" ->
                <<[Give(1, "acc", d) EXCEPT !.at = <<to(t.nb[1]), to(t.nb[2]), to(t.nb[3]), to(t.par[1])>>]>>
          [] t.op = "PERMUTE" ->
                <<Give(1, "add", permute(d, [i \in Dims |-> CHOOSE j \in Dims : t.par[j] = i]))>>
          [] t.op = "TRANSPOSE" -> <<Give(1, "add", transpose(d))>>
          [] t.op = "GET_ROWS" -> <<Give(1, "add", get_rows_back(d, y, gx))>>

Masks(t, d, y) ==
    CASE t.op \in {"DIAG_MASK_INF", "DIAG_MASK_ZERO"} -> <<Give(1, "add", diag_mask("DIAG_MASK_ZERO", d, FALSE))>>
      [] t.op = "SOFT_MAX" -> <<Give(1, "add", soft_max_back(d, t, FALSE))>>
      [] t.op = "ROPE" -> <<Give(1, "add", rope_back(d, y))>>
      [] t.op = "ROPE_BACK" -> <<Give(1, "add", rope(d, y, FALSE))>>

\* The three gradients of attention are views of one tensor.
Attention(d, x, y, z) ==
    LET f == flash_attn_back(x, y, z, d)
        part(u, k) == reshape(view(f, Ne(nelements(u), 1, 1, 1), AttnOffs(x, y)[k]), u.ne)
    IN  <<Give(1, "add", part(x, 1)), Give(2, "add", part(y, 2)), Give(3, "add", part(z, 3))>>

Unaries(t, d, x) ==
    CASE t.op = "ABS"  -> <<Give(1, "add", mul(unary("SGN", x, FALSE), d, FALSE))>>
      [] t.op \in {"SGN", "STEP"} -> <<>>
      [] t.op = "NEG"  -> <<Give(1, "sub", d)>>
      [] t.op = "RELU" -> <<Give(1, "add", mul(unary("STEP", x, FALSE), d, FALSE))>>
      [] t.op = "SILU" -> <<Give(1, "add", silu_back(x, d))>>

CrossEntropy(d, x, y) == <<Give(1, "add", cross_entropy_loss_back(x, y, d))>>

RowOps == {"SUM", "SUM_ROWS", "REPEAT_BACK", "REPEAT", "RMS_NORM", "MUL_MAT", "SCALE"}
MoveOps == {"SET", "CPY", "CONT", "RESHAPE", "VIEW", "PERMUTE", "TRANSPOSE", "GET_ROWS"}
MaskOps == {"DIAG_MASK_INF", "DIAG_MASK_ZERO", "SOFT_MAX", "ROPE", "ROPE_BACK"}

\* Only operands with gradients get any.
Gives(n) ==
    LET s == nodes[n].src
        t == T(n)
        d == grads[n].t
        arg(k) == IF k <= Len(s) THEN T(s[k]) ELSE ABORT
        grad(k) == IF k <= Len(s) /\ arg(k).grad THEN grads[s[k]].t ELSE ABORT
        all == CASE t.op \in RowOps  -> Rows(t, d, arg(1), arg(2), grad(1), grad(2))
                 [] t.op \in MoveOps -> Moves(t, d, arg(1), arg(2), grad(1), grad(2))
                 [] t.op \in MaskOps -> Masks(t, d, arg(2))
                 [] t.op = "FLASH_ATTN" -> Attention(d, arg(1), arg(2), arg(3))
                 [] t.op = "CROSS_ENTROPY_LOSS" -> CrossEntropy(d, arg(1), arg(2))
                 [] t.op \in UnaryOps -> Unaries(t, d, arg(1))
                 [] OTHER -> Sums(t, d, arg(1), arg(2), grad(1), grad(2))
    IN  SelectSeq(all, LAMBDA g : arg(g.k).grad)

\* A use counts if the node's own gradient got anything from the loss.
Reached(n) == n = Len(nodes) \/ grads[n].uses # {}
Use(n, k) == IF Reached(n) THEN {<<n, k>>} ELSE {}

\* Mutant: a gradient that was handed over once still counts as zero.
Handed_to_zero(gs, n, x) ==
    LET i == nodes[n].src[x.k]
        t == Joined(gs[i], x.how, x.by, x.at)
    IN  [gs EXCEPT ![i] = [t |-> IF Aborted(x.by) THEN ABORT ELSE Must(are_same_shape(t, T(i)), t),
                           zero |-> @.zero, uses |-> (IF @.zero THEN {} ELSE @.uses) \cup Use(n, x.k)]]

\* One gradient handed over; a gradient must have the shape of its node.
Handed(gs, n, x) ==
    LET i == nodes[n].src[x.k]
        t == Joined(gs[i], x.how, x.by, x.at)
    IN  [gs EXCEPT ![i] =
            [t |-> IF Aborted(x.by) THEN ABORT ELSE Must(are_same_shape(t, T(i)), t),
             zero |-> @.zero /\ grads[n].zero /\ t = grads[n].t,
             uses |-> (IF @.zero THEN {} ELSE @.uses) \cup Use(n, x.k)]]
HandedNext(gs, n, xs, k) == IF k <= Len(xs) THEN Handed(gs, n, xs[k]) ELSE gs
HandedAll(n, xs) == HandedNext(HandedNext(HandedNext(grads, n, xs, 1), n, xs, 2), n, xs, 3)

----------------------------------------------------------------------------
(* A graph is built, closed with its loss, and walked back *)

Init == /\ nodes \in {[i \in DOMAIN s |-> [t |-> s[i], src |-> <<>>]] : s \in Inputs}
        /\ order = <<>> /\ todo = 0 /\ grads = <<>>

NInputs == Cardinality({i \in DOMAIN nodes : nodes[i].src = <<>>})

\* A new tensor t out of the nodes src; an operator may also hand back its
\* operand, or end the program.
Put(t, src) ==
    /\ ~Aborted(t) /\ \A k \in DOMAIN src : t # T(src[k])
    /\ \A i \in Dims : t.ne[i] > 0                        \* a pool larger than its input
    /\ Len(nodes) > NInputs => /\ \E k \in DOMAIN src : src[k] = Len(nodes)
                               /\ {t.op, T(Len(nodes)).op} \subseteq Chained
    /\ nodes' = Append(nodes, [t |-> t, src |-> src])
    /\ UNCHANGED <<order, todo, grads>>

Open == order = <<>> /\ Len(nodes) < NInputs + MaxOps
Build1 == Open /\ \E i \in DOMAIN nodes : \E t \in ByOne(T(i)) : Put(t, <<i>>)
Build2 == Open /\ \E i, j \in DOMAIN nodes : \E t \in ByTwo(T(i), T(j)) : Put(t, <<i, j>>)
Build3 == Open /\ \E i, j, k \in DOMAIN nodes : \E t \in ByThree(T(i), T(j), T(k)) : Put(t, <<i, j, k>>)

\* The loss, and ggml_build_forward_expand from it; every node gets a first
\* gradient.
Close ==
    LET n == Len(nodes) + 1
        new == Append(nodes, [t |-> sum(T(n - 1)), src |-> <<n - 1>>])
    IN  /\ order = <<>> /\ n > NInputs + 1
        /\ nodes' = new
        /\ order' = visit_parents(new, n, <<>>)
        /\ grads' = [i \in 1 .. n |-> ZeroGrad(new[i].t)]
        /\ todo' = IF new[n].t.grad THEN Len(order') ELSE 0

Failed(gs) == \E i \in DOMAIN gs : Aborted(gs[i].t)

\* ggml_compute_backward for the node that is next.
Backward ==
    LET n == order[todo]
        pays == T(n).grad /\ nodes[n].src # <<>>
    IN  /\ todo > 0
        /\ grads' = IF pays /\ T(n).op \notin NoBackward THEN HandedAll(n, Gives(n)) ELSE grads
        /\ todo' = IF (pays /\ T(n).op \in NoBackward) \/ Failed(grads') THEN -todo ELSE todo - 1
        /\ UNCHANGED <<nodes, order>>

Next == Build1 \/ Build2 \/ Build3 \/ Close \/ Backward
Spec == Init /\ [][Next]_vars

----------------------------------------------------------------------------
(* Properties *)

\* Every tensor, however many views of views lead to it, lies in the storage
\* it is part of, at the place in its operand it was asked for, its elements do not overlap, and the library's two ways to
\* its i-th element (by coordinates, or straight through a tensor without
\* gaps) come to the same byte,
\* which is also where filling the tensor row by row gets to.
ViewsInside ==
    \A n \in DOMAIN nodes :
        LET t == T(n)
            all == 0 .. nelements(t) - 1
            u == T(nodes[n].src[1])
        IN  /\ Inside(t)
            /\ t.op = "VIEW" /\ t.type = "F32" => t.offs = u.offs + t.par[1]
            /\ ~is_quantized(t.type) =>
                 /\ is_contiguous(t) => Filled(t) = {At(t, unravel_index(t, i)) : i \in all}
                 /\ t.op = "RESHAPE" /\ Len(nodes[n].src) = 1 => \A i \in all : Flat(t, i) = Flat(u, i)
                 /\ \A i \in all : Flat(t, i) = At(t, unravel_index(t, i))
                 /\ \A i, j \in all : i < j =>
                        \/ Flat(t, i) + TypeSize[t.type] <= Flat(t, j)
                        \/ Flat(t, j) + TypeSize[t.type] <= Flat(t, i)

\* The graph holds what the loss depends on, each tensor once and after
\* everything it is computed from.
OperandsFirst ==
    \A p \in DOMAIN order :
        /\ \A q \in DOMAIN order : order[p] = order[q] => p = q
        /\ \A k \in DOMAIN nodes[order[p]].src : \E q \in 1 .. p - 1 : order[q] = nodes[order[p]].src[k]

\* What the forward operator accepts and its backward step does not: no step
\* at all, operands of other shapes, and gradients laid out in a way the
\* operators of the step refuse.
Refused(n) ==
    LET t == T(n)
        d == grads[n].t
        x == T(nodes[n].src[1])
        y == T(nodes[n].src[2])
    IN  \/ t.op \in NoBackward
        \/ t.op = "ADD1" /\ y.grad /\ ~is_vector(t)
        \/ t.op = "DIV"  /\ y.grad /\ ~are_same_shape(t, y)
        \/ t.op = "CPY"  /\ x.grad /\ ~are_same_shape(t, x)
        \/ t.op = "SET"  /\ x.grad /\ ~y.grad
        \/ t.op = "GET_ROWS" /\ x.grad /\ ~(is_matrix(t) /\ is_vector(y) /\ is_matrix(x))
        \/ t.op = "FLASH_ATTN" /\ Aborted(flash_attn_back(x, y, T(nodes[n].src[3]), t))
        \/ t.op = "SCALE" /\ ~is_padded_1d(d)
        \/ t.op = "CONT" /\ ~is_contiguous(d)
        \/ t.op = "MUL_MAT" /\ is_transposed(y)
        \/ t.op = "VIEW" /\ {x.type, d.type} # {"F32"}

\* The walk stops early only at a node that cannot be walked back: for
\* everything else the operators of the backward step accept what they get,
\* and each gradient has the shape of its node.
GradShapes == todo < 0 => Refused(order[-todo])

\* Once the walk is over, the gradient of a node sums up every use of it that
\* leads to the loss: none was overwritten by a later one.
Pays(xs, k) == \E i \in DOMAIN xs : xs[i].k = k
Passing(n, k) == T(n).grad /\ Reached(n) /\ T(nodes[n].src[k]).grad /\ Pays(Gives(n), k)
GradComplete ==
    (order # <<>> /\ todo = 0) =>
        \A p \in DOMAIN order : LET n == order[p] IN
            \A k \in DOMAIN nodes[n].src : Passing(n, k) => <<n, k>> \in grads[nodes[n].src[k]].uses

\* The walk back is sound: over a graph in order, with gradients that fit and add up.
BackwardSound == OperandsFirst /\ GradShapes /\ GradComplete
=============================================================================
