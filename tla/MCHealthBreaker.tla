--------------------------- MODULE MCHealthBreaker ---------------------------
(* Small instances of the health breaker. *)
EXTENDS HealthBreaker, TLC

CONSTANTS c1, c2, p1, w1, w2

Symmetry == Permutations(Caller) \cup Permutations(Worker)
=============================================================================
