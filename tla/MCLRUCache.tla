----------------------------- MODULE MCLRUCache -----------------------------
(* LRURecency on an instance: the keys are interchangeable.                 *)
EXTENDS LRURecency, TLC

Symmetry == Permutations(Keys)
=============================================================================
