----------------------------- MODULE SpscRing ------------------------------
(***************************************************************************)
(* The ring between two threads of a rank (spsc_ring_queue.h), one load or *)
(* store of a shared word at a time.  One consumer pops; one producer      *)
(* pushes, either waiting for room (Push) or not (TryPush).  With more     *)
(* than one producer the module shows what the single-producer assumption  *)
(* is for.  Loads and stores of head_ and tail_ are acquire and release,   *)
(* so the cells are seen as written.                                       *)
(***************************************************************************)
EXTENDS Integers, SequencesExt

CONSTANTS
    Producer,
    Value,      \* what is pushed, each value once
    Waiting,    \* the values pushed with Push
    Capacity,   \* capacity_: one cell stays free
    NONE

ASSUME CapacityAssumption == Capacity \in Nat \ {0}

VARIABLES
    head, tail, \* head_ and tail_
    cell,       \* buffer_
    prod,       \* a producer: its step, its value and currentHead
    cons,       \* the consumer: its step, currentHead and the value it moved out
    accepted,   \* the values pushed, in order
    delivered,  \* the values popped, in order
    refused     \* the values TryPush returned false for

ring == <<head, tail, cell>>
log == <<accepted, delivered, refused>>
vars == <<ring, prod, cons, log>>

Mod(n) == n % Capacity
Idle == [at |-> "idle", value |-> NONE, head |-> 0]

Init ==
    /\ head = 0 /\ tail = 0
    /\ cell = [i \in 0 .. Capacity - 1 |-> NONE]
    /\ prod = [p \in Producer |-> Idle]
    /\ cons = Idle
    /\ accepted = <<>> /\ delivered = <<>> /\ refused = {}

----------------------------------------------------------------------------
(* Push and TryPush                                                        *)

Unused == Value \ (ToSet(accepted) \cup refused \cup {prod[p].value : p \in Producer})

PushHead(p) ==
    /\ \/ /\ prod[p].at = "idle"
          /\ \E v \in Unused : prod' = [prod EXCEPT ![p] = [at |-> "tail", value |-> v, head |-> head]]
       \/ /\ prod[p].at = "again"
          /\ prod' = [prod EXCEPT ![p].at = "tail", ![p].head = head]
    /\ UNCHANGED <<ring, cons, log>>

\* Variation of PushTail: a second cell is kept free.
PushTailEarly(p) ==
    LET v == prod[p].value IN
    /\ prod[p].at = "tail"
    /\ IF tail \notin {Mod(prod[p].head + 1), Mod(prod[p].head + 2)}
       THEN prod' = [prod EXCEPT ![p].at = "cell"] /\ UNCHANGED refused
       ELSE IF v \in Waiting
       THEN prod' = [prod EXCEPT ![p].at = "again"] /\ UNCHANGED refused
       ELSE prod' = [prod EXCEPT ![p] = Idle] /\ refused' = refused \cup {v}
    /\ UNCHANGED <<ring, cons, accepted, delivered>>

\* A full ring: Push starts over, TryPush returns false.
PushTail(p) ==
    LET v == prod[p].value IN
    /\ prod[p].at = "tail"
    /\ IF Mod(prod[p].head + 1) # tail
       THEN prod' = [prod EXCEPT ![p].at = "cell"] /\ UNCHANGED refused
       ELSE IF v \in Waiting
       THEN prod' = [prod EXCEPT ![p].at = "again"] /\ UNCHANGED refused
       ELSE prod' = [prod EXCEPT ![p] = Idle] /\ refused' = refused \cup {v}
    /\ UNCHANGED <<ring, cons, accepted, delivered>>

PushCell(p) ==
    /\ prod[p].at = "cell"
    /\ cell' = [cell EXCEPT ![prod[p].head] = prod[p].value]
    /\ prod' = [prod EXCEPT ![p].at = "publish"]
    /\ UNCHANGED <<head, tail, cons, log>>

PushPublish(p) ==
    /\ prod[p].at = "publish"
    /\ head' = Mod(prod[p].head + 1)
    /\ accepted' = Append(accepted, prod[p].value)
    /\ prod' = [prod EXCEPT ![p] = Idle]
    /\ UNCHANGED <<tail, cell, cons, delivered, refused>>

Push(p) == PushHead(p) \/ PushTail(p) \/ PushCell(p) \/ PushPublish(p)

----------------------------------------------------------------------------
(* TryPop in ConsumerLoop                                                  *)

\* Variation of PopHead: the consumer keeps the head_ it once read.
PopHeadStale ==
    /\ cons.at = "idle"
    /\ cons' = [cons EXCEPT !.at = "tail"]
    /\ UNCHANGED <<ring, prod, log>>

PopHead ==
    /\ cons.at = "idle"
    /\ cons' = [cons EXCEPT !.at = "tail", !.head = head]
    /\ UNCHANGED <<ring, prod, log>>

\* An empty ring: the loop comes back later.
PopTail ==
    /\ cons.at = "tail"
    /\ cons' = IF tail = cons.head THEN Idle ELSE [cons EXCEPT !.at = "cell"]
    /\ UNCHANGED <<ring, prod, log>>

PopCell ==
    /\ cons.at = "cell"
    /\ cons' = [cons EXCEPT !.at = "release", !.value = cell[tail]]
    /\ cell' = [cell EXCEPT ![tail] = NONE]
    /\ UNCHANGED <<head, tail, prod, log>>

PopRelease ==
    /\ cons.at = "release"
    /\ tail' = Mod(tail + 1)
    /\ delivered' = Append(delivered, cons.value)
    /\ cons' = Idle
    /\ UNCHANGED <<head, cell, prod, accepted, refused>>

Pop == PopHead \/ PopTail \/ PopCell \/ PopRelease

Next == Pop \/ \E p \in Producer : Push(p)

Spec == Init /\ [][Next]_vars

FairSpec == Spec /\ WF_vars(Pop) /\ \A p \in Producer : WF_vars(Push(p))

----------------------------------------------------------------------------
(* Properties                                                              *)

\* The values between tail_ and head_; the first may be in the consumer's hand.
Contents ==
    [i \in 1 .. Mod(head - tail) |->
        IF i = 1 /\ cons.at = "release" THEN cons.value ELSE cell[Mod(tail + i - 1)]]

Queue == INSTANCE FifoQueue WITH queue <- Contents, Bound <- Capacity - 1

\* The ring is a bounded queue: TryPush and TryPop take effect at their last
\* store, in order, and TryPush refuses only when no cell but one is free.
ImplementsQueue == Queue!Spec

----------------------------------------------------------------------------
(* The inductive invariant behind ImplementsQueue, for one producer          *)

OneProducer == \A p, q \in Producer : p = q

Index == 0 .. Capacity - 1

RingTypeOK ==
    /\ head \in Index /\ tail \in Index
    /\ cell \in [Index -> Value \cup {NONE}]
    /\ prod \in [Producer -> [at : {"idle", "again", "tail", "cell", "publish"},
                               value : Value \cup {NONE}, head : Index]]
    /\ cons \in [at : {"idle", "tail", "cell", "release"},
                  value : Value \cup {NONE}, head : Index]

\* Nobody but the producer moves head_, so the value it loaded is head_, and the
\* cell it found free stays free until it publishes.
PushInv ==
    \A p \in Producer :
        /\ prod[p].at # "idle" => prod[p].value \in Value
        /\ prod[p].at \in {"tail", "cell", "publish"} => prod[p].head = head
        /\ prod[p].at \in {"cell", "publish"} => Mod(head + 1) # tail
        /\ prod[p].at = "publish" => cell[head] = prod[p].value

\* The producer may have moved head_ on since the consumer loaded it, but never
\* onto tail_.
PopInv ==
    /\ cons.at = "tail" /\ head = tail => cons.head = tail
    /\ cons.at \in {"cell", "release"} => head # tail

RingInv == RingTypeOK /\ PushInv /\ PopInv

\* A value whose push returned is in the ring or was popped, and is popped
\* once (what makes a task's waiter come down exactly once).
NothingLost == accepted = delivered \o Contents

\* What was accepted is delivered although the consumer polls, and a Push on
\* a full ring gets in.
Delivered ==
    \A v \in Value :
        /\ v \in ToSet(accepted) ~> v \in ToSet(delivered)
        /\ v \in Waiting => <>(v \in ToSet(delivered))
=============================================================================
