----------------------------- MODULE BucketIndex -----------------------------
(***************************************************************************)
(* What CacheBuffer relies on of the hash chains of the Cache2 buffer: a   *)
(* slot is in at most one bucket, a lookup under the bucket lock answers   *)
(* from what the bucket holds, and a lookup without the lock may miss but  *)
(* finds only what is there. After a worker died while relinking, a lookup *)
(* under the lock may miss too.                                            *)
(***************************************************************************)
CONSTANTS
    Reader,     \* threads that look up
    Slot, Bucket,
    NONE        \* kInvalid

VARIABLES
    hash,       \* the bucket of each slot
    call,       \* the lookup each reader is in
    answer,     \* whether its last lookup found the slot
    broken      \* a worker died while relinking

vars == <<hash, call, answer, broken>>

Call == [slot : Slot, bucket : Bucket, locked : BOOLEAN]

Init ==
    /\ hash = [s \in Slot |-> NONE]
    /\ call = [r \in Reader |-> NONE]
    /\ answer = [r \in Reader |-> FALSE]
    /\ broken = FALSE

Begin(r) ==
    /\ call[r] = NONE
    /\ \E c \in Call : call' = [call EXCEPT ![r] = c]
    /\ answer' = [answer EXCEPT ![r] = FALSE]
    /\ UNCHANGED <<hash, broken>>

Answer(r) ==
    /\ call[r] # NONE
    /\ \E found \in BOOLEAN :
          /\ found => hash[call[r].slot] = call[r].bucket
          /\ call[r].locked /\ ~found /\ ~broken => hash[call[r].slot] # call[r].bucket
          /\ answer' = [answer EXCEPT ![r] = found]
    /\ call' = [call EXCEPT ![r] = NONE]
    /\ UNCHANGED <<hash, broken>>

Remove(s) ==
    /\ hash[s] # NONE
    /\ hash' = [hash EXCEPT ![s] = NONE]
    /\ UNCHANGED <<call, answer, broken>>

MoveTo(s) ==
    /\ hash[s] = NONE
    /\ \E b \in Bucket : hash' = [hash EXCEPT ![s] = b]
    /\ UNCHANGED <<call, answer, broken>>

Break ==
    /\ ~broken
    /\ broken' = TRUE
    /\ UNCHANGED <<hash, call, answer>>

Next ==
    \/ Break
    \/ \E r \in Reader : Begin(r) \/ Answer(r)
    \/ \E s \in Slot : Remove(s) \/ MoveTo(s)

Spec == Init /\ [][Next]_vars
=============================================================================
