----------------------------- MODULE MCConnPool -----------------------------
(***************************************************************************)
(* A small pool of connections for TLC: one whose callers wait for a dial  *)
(* and that dials ahead, one that cuts them off and does not.              *)
(***************************************************************************)
EXTENDS ConnPool

MCConfigs == {[FailOnCutoff |-> b, DisablePreDial |-> b] : b \in BOOLEAN}
=============================================================================
