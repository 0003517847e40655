---------------------------- MODULE MCBucketChain ----------------------------
(* Small instances of the Cache2 hash chains. *)
EXTENDS BucketChain, TLC

CONSTANTS p1, p2, r1, s1, s2, s3, h1, h2

\* A stripe of its own for every bucket; slots and writers are alike.
Symmetry == Permutations(Writer) \cup Permutations(Slot)
OwnStripe == [b \in Bucket |-> b]
=============================================================================
