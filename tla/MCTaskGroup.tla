----------------------------- MODULE MCTaskGroup -----------------------------
(* TaskGroup with two slots and three callers that may join one another.     *)
EXTENDS TaskGroup, TLC

Symmetry == Permutations(Callers)
=============================================================================
