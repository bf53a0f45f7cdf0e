----------------------------- MODULE MCChannel -----------------------------
(* Instances of Channel for TLC: the owner starts every call at once.        *)
EXTENDS Channel, TLC

Symmetry == Permutations(Calls)
=============================================================================
