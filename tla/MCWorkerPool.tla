---------------------------- MODULE MCWorkerPool ----------------------------
(* Instances of WorkerPool for TLC: a pool that may grow by one worker.      *)
EXTENDS WorkerPool

=============================================================================
