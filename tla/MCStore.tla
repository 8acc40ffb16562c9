------------------------------- MODULE MCStore ------------------------------
(* Values of Store's constants for the model checker. *)
EXTENDS Store, TLC

MCProducts == {1, 2}
MCOpening == [p \in MCProducts |-> IF p = 1 THEN 2 ELSE 1]
\* Everyone wants one unit of everything.
MCFullCarts == [u \in Users |-> [p \in MCProducts |-> 1]]
MCEmptyCarts == [u \in Users |-> [p \in MCProducts |-> 0]]
MCOnes == [p \in MCProducts |-> 1]
MCDeltas == {-1, 1}
OrderOps == {"checkout", "cancel", "advance", "adjust"}
CartOps == {"checkout", "add", "update", "remove", "archive"}
RequestSymmetry == Permutations(Requests)
=============================================================================
