---------------------------- MODULE MCWorkerPool ----------------------------
(* Small instances of WorkerPool for TLC.                                  *)
EXTENDS WorkerPool

CONSTANTS w1, w2, stray, r1, r2, m1, m2

=============================================================================
