---------------------------- MODULE MCEngineHook ----------------------------
(* TLC instances of EngineHook.                                             *)
EXTENDS EngineHook, TLC

Symmetry == Permutations(Calls) \cup Permutations(Dsts)

\* The custom validator has no opinion.
NoVeto == {}
=============================================================================
