------------------------------ MODULE MCGgmlCompute ------------------------------
(* Graphs for model checking GgmlCompute: every kernel on its own, and every
   chain of three nodes over a representative of each kind of kernel. *)
EXTENDS GgmlCompute

Tensor(op, type, other, nr, n1) ==
    [op |-> op, type |-> type, other |-> other, cont |-> FALSE,
     inplace |-> FALSE, conv |-> TRUE, nr |-> nr, n1 |-> n1, ne |-> 8]

\* The element types a kernel has branches for.
TypesOf(op) ==
    CASE op \in {"DUP", "CPY"} -> {"f32", "f16"} \X {"f32", "f16", "q"}
      [] op = "CONT" -> {<<"f32", "f32">>, <<"f16", "f16">>}
      [] op \in {"ADD", "ADD1"} -> {<<"f32", "f32">>, <<"f16", "f16">>,
                                    <<"f16", "f32">>, <<"q", "f32">>}
      [] op = "OUT_PROD" -> {<<"f32", "f32">>, <<"q", "f32">>}
      [] op = "GET_ROWS" -> {"f32", "f16", "q"} \X {"f32"}
      [] op \in {"SUM", "ROPE", "ROPE_BACK", "GET_ROWS_BACK", "FLASH_ATTN",
                 "CONV_TRANSPOSE_1D"} -> {"f32", "f16"} \X {"f32"}
      [] OTHER -> {<<"f32", "f32">>}

Singles ==
    LET Of(op, nrs, n1s) == {<<Tensor(op, ty[1], ty[2], nr, n1)>> :
                                ty \in TypesOf(op), nr \in nrs, n1 \in n1s}
    IN  UNION {Of(op, {1, 4}, {1}) : op \in SplitOps \ {"MUL_MAT", "MUL_MAT_ID"}}
        \cup UNION {Of(op, {3}, {1}) : op \in SerialOps}
        \cup UNION {Of(op, {1, 2, 4}, {1, 3}) : op \in {"MUL_MAT", "MUL_MAT_ID"}}

\* The kinds of node: initialised and split, in-place, split, scratch-using,
\* single-threaded, finalised.
Kinds == {Tensor("MUL_MAT", "f16", "f32", 2, 1), Tensor("DIAG_MASK_INF", "f32", "f32", 2, 1),
          Tensor("SOFT_MAX", "f32", "f32", 2, 1), Tensor("SCALE", "f32", "f32", 2, 1),
          Tensor("CROSS_ENTROPY_LOSS", "f32", "f32", 2, 1)}
Chains == [1 .. 3 -> Kinds]

MCGraphs == Singles \cup Chains
================================================================================
