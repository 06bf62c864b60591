SPECIFICATION Spec
CONSTANTS
    Inputs <- MCInputs
    MaxOps = 2
    Chained <- MCChained
INVARIANTS ViewsInside BackwardSound
CHECK_DEADLOCK FALSE
