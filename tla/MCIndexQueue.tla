---------------------------- MODULE MCIndexQueue ----------------------------
(* Instances of IndexQueue for TLC. *)
EXTENDS IndexQueue, TLC

CONSTANTS p1, p2, a, b, w1, w2

MCOneProduct == {p1}
MCTwoProducts == {p1, p2}
MCFirst == [p \in Products |-> a]
WorkerSymmetry == Permutations(Workers)
ProductSymmetry == Permutations(Products) \cup Permutations(Workers)
=============================================================================
