---------------------------- MODULE MCSpscRing -----------------------------
(* Small instances of the ring. *)
EXTENDS SpscRing

CONSTANTS p1, p2, v1, v2, v3, v4, v5
=============================================================================
