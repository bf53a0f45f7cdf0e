--------------------------- MODULE MCMultiWatcher ---------------------------
(* A watcher of two pools for TLC; the cfg files give the constants. *)
EXTENDS MultiWatcher
=============================================================================
