-------------------------------- MODULE GraphOrder --------------------------------
(***************************************************************************)
(* What evaluating a computation graph promises its caller: the nodes are  *)
(* computed one after another in graph order, and the call returns with    *)
(* all of them computed - unless it was aborted, after which some of the   *)
(* rest may still be computed before it returns.                           *)
(***************************************************************************)
EXTENDS Naturals

CONSTANT MaxNodes   \* no graph has more nodes than this

VARIABLES n_nodes,  \* the length of the graph
          computed, \* the nodes whose values are in place
          aborted,  \* the caller asked to stop
          returned  \* the call is over

vars == <<n_nodes, computed, aborted, returned>>

Init == /\ n_nodes \in 1 .. MaxNodes
        /\ computed = {}
        /\ aborted = FALSE
        /\ returned = FALSE

Compute(k) ==
    /\ ~returned
    /\ k \in (0 .. n_nodes - 1) \ computed
    /\ aborted \/ \A j \in 0 .. k - 1 : j \in computed
    /\ computed' = computed \cup {k}
    /\ UNCHANGED <<n_nodes, aborted, returned>>

Abort ==
    /\ ~aborted
    /\ aborted' = TRUE
    /\ UNCHANGED <<n_nodes, computed, returned>>

Return ==
    /\ ~returned
    /\ aborted \/ computed = 0 .. n_nodes - 1
    /\ returned' = TRUE
    /\ UNCHANGED <<n_nodes, computed, aborted>>

Next == (\E k \in 0 .. MaxNodes - 1 : Compute(k)) \/ Abort \/ Return

Spec == Init /\ [][Next]_vars /\ <>returned
================================================================================
