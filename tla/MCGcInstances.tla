--------------------------- MODULE MCGcInstances ---------------------------
(* Two instances of the posix store on one backend, with the same garbage    *)
(* collection config or with different ones.                                 *)
EXTENDS GcInstances

CONSTANTS i1, i2

AlikeOrNot == {c \in [Instance -> {"small", "large"}] : c[i1] = "small"}
=============================================================================
