---------------------------- MODULE MCLoadQueue ----------------------------
(* Small instances of the Cache2 load pipeline. *)
EXTENDS LoadQueue

CONSTANTS t1, t2, k1, k2, k3, s1, s2, s3, s4

\* One rank serves both tasks, or each of two ranks has one.
OneRank == [t \in Task |-> 0]
TwoRanks == [t \in Task |-> IF t = t1 THEN 0 ELSE 1]
OneSegment == [r \in Rank |-> Slot]
TwoSegments == [r \in Rank |-> Slot \cap (IF r = 0 THEN {s1, s2} ELSE {s3, s4})]
\* The slots of one segment are alike.
Symmetry == Permutations(Slot)

\* Loads of one rank that share a key.
Shared ==
    {[shards |-> [t \in Task |-> IF t = t1 THEN <<k1, k2>> ELSE <<k2>>],
      distributed |-> {}, next |-> [k \in Key |-> NONE]]}

\* A shard that follows is shared with the other task, so that a preallocated
\* slot is met by both.
Following ==
    {[shards |-> [t \in Task |-> IF t = t1 THEN <<k1>> ELSE <<k2, k1>>],
      distributed |-> {}, next |-> [k \in Key |-> IF k = k1 THEN k2 ELSE NONE]]}

\* Loads of two ranks that share a key, or a distributed load.
OwnOrDistributed ==
    {[shards |-> [t \in Task |-> IF t = t1 THEN <<k1, k2>> ELSE <<k2, k3>>],
      distributed |-> {}, next |-> [k \in Key |-> IF k = k1 THEN k3 ELSE NONE]],
     [shards |-> [t \in Task |-> <<k1, k2>>],
      distributed |-> Task, next |-> [k \in Key |-> NONE]]}

\* The first task fails at the backend, the second at the device.
Failing == {<<"load", t1>>, <<"submit", t1>>, <<"copy", t2>>, <<"sync", t2>>}
=============================================================================
