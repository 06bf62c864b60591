---------------------------- MODULE MCGgmlBackward ----------------------------
EXTENDS GgmlBackward

Param(ne) == [new_tensor("F32", ne) EXCEPT !.grad = TRUE]
Const(type, ne) == new_tensor(type, ne)

\* Parameters and constants of several shapes, in pairs.
MCInputs ==
    {<<Param(Ne(2, 2, 1, 1)), b>> : b \in {Param(Ne(2, 2, 1, 1)), Param(Ne(2, 1, 1, 1)), Param(Ne(1, 1, 1, 1)),
                                           Const("F32", Ne(2, 2, 2, 1)), Const("I32", Ne(1, 1, 1, 1)), Const("Q8_0", Ne(32, 1, 1, 1))}}
    \cup {<<Param(Ne(2, 1, 2, 1)), b>> : b \in {Param(Ne(2, 2, 2, 1)), Const("I32", Ne(2, 2, 1, 1)),
                                                Const("F16", Ne(2, 1, 2, 1))}}
MCChained == {"ADD", "MUL", "REPEAT", "MUL_MAT", "CPY", "CONT", "RESHAPE", "VIEW", "PERMUTE", "TRANSPOSE",
              "SCALE", "SOFT_MAX", "SUM_ROWS", "GET_ROWS", "ACC"}
=============================================================================
