---------------------------- MODULE MCMainWorker ----------------------------
(* A small instance of MainWorker for TLC.                                 *)
EXTENDS MainWorker

CONSTANTS p1, k1, k2, k3, k4, k5, c1, c2, a1, x1, x2, x3, x4, x5, x6

\* An add during requests, and nothing else.
OnlyAdding ==
    {[paths |-> {p1}, asked |-> {p1}, keys |-> {k1, k2, k3, k4, k5}, init |-> {}, most |-> 1, restarts |-> {FALSE},
      mayFail |-> FALSE, adds |-> {a1}, shutdowns |-> {}]}

=============================================================================
