----------------------------- MODULE MCRequests -----------------------------
(* Small instances of Requests for TLC: two main workers, three            *)
(* connections and one failing accept; a main worker in three uses; bodies *)
(* of up to three chunks in both framings, read before the answer, whose   *)
(* client and worker may go away.                                          *)
EXTENDS Requests, Sequences

CONSTANTS p1, p2, k1, k2, k3, k4, k5, c1, c2, c3, i1, i2, a1, m1, m2

TwoWorkers == <<m1, m2>>

\* Hot workers of two paths that restart, and requests for one of the paths; no API.
Restarting ==
    [paths |-> {p1, p2}, asked |-> {p1}, keys |-> {k1, k2, k3, k4, k5}, init |-> {i1, i2},
     most |-> 1, restarts |-> {TRUE}, mayFail |-> FALSE, adds |-> {}, shutdowns |-> {}]

\* An add, shutdowns by key and by path, failing creates, all during requests.
Administered ==
    [paths |-> {p1}, asked |-> {p1}, keys |-> {k1, k2, k3}, init |-> {}, most |-> 1, restarts |-> BOOLEAN,
     mayFail |-> TRUE, adds |-> {a1}, shutdowns |-> {"key", "path"}]

\* An add of two workers that a request or a failure overtakes.
Growing ==
    [paths |-> {p1}, asked |-> {p1}, keys |-> {k1, k2, k3, k4}, init |-> {}, most |-> 2, restarts |-> {TRUE},
     mayFail |-> TRUE, adds |-> {a1}, shutdowns |-> {}]

ThreeUsages == {Restarting, Administered, Growing}

=============================================================================
