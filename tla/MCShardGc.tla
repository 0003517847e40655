----------------------------- MODULE MCShardGc -----------------------------
(* Two shards: one of up to three files, one of a single file. *)
EXTENDS ShardGc
CONSTANTS a, b, w1, w2, w3
OneSmall == [f \in File |-> IF f = 2 THEN b ELSE a]
Full == {File}
=============================================================================
