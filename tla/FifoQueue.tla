---------------------------- MODULE FifoQueue ------------------------------
(***************************************************************************)
(* What a ring promises the queues of a rank (spsc_ring_queue.h): values   *)
(* leave in the order in which they were accepted, none is lost or         *)
(* delivered twice, and one is refused only when the ring is full.         *)
(***************************************************************************)
EXTENDS Naturals, Sequences

CONSTANTS Value, Bound

VARIABLES
    queue,
    delivered,  \* the values the consumer took, in order
    refused     \* the values TryPush returned false for

vars == <<queue, delivered, refused>>

Init == queue = <<>> /\ delivered = <<>> /\ refused = {}

Accept(v) ==
    /\ Len(queue) < Bound
    /\ queue' = Append(queue, v)
    /\ UNCHANGED <<delivered, refused>>

Refuse(v) ==
    /\ Len(queue) = Bound
    /\ refused' = refused \cup {v}
    /\ UNCHANGED <<queue, delivered>>

Deliver ==
    /\ queue # <<>>
    /\ delivered' = Append(delivered, Head(queue))
    /\ queue' = Tail(queue)
    /\ UNCHANGED refused

Next == Deliver \/ \E v \in Value : Accept(v) \/ Refuse(v)

Spec == Init /\ [][Next]_vars
=============================================================================
