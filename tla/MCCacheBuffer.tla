---------------------------- MODULE MCCacheBuffer ----------------------------
(* A small instance of the Cache2 slot protocol. *)
EXTENDS CacheBufferStore, TLC

CONSTANTS p1, p2, s1, s2, s3, b1, b2, h1, h2

MCHashKey == [k \in Key |-> IF k[1] = b1 THEN h1 ELSE h2]
MCLockOf == [h \in Bucket |-> h]
\* The slots s2 and s3 are reserved; the second call may use them.  A key that a
\* broken chain hides then has a slot to be installed in once more.
MCUsable == [p \in Proc |-> IF p = p1 THEN {s1} ELSE Slot]
\* One call that may fill, and one that fills, preallocates, looks or waits for
\* a peer.
MixedOps == [p \in Proc |-> IF p = p1 THEN Op ELSE {"Get"}]
\* The reserved slots are alike, and so are the blocks when their buckets are exchanged
\* with them.
Symmetry == Permutations({s2, s3}) \cup {b1 :> b2 @@ b2 :> b1 @@ h1 :> h2 @@ h2 :> h1}
=============================================================================
