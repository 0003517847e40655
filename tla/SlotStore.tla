----------------------------- MODULE SlotStore -----------------------------
(***************************************************************************)
(* What the Cache2 buffer (ucm/store/cache/v2, cache_buffer.h) promises    *)
(* the queues above it: Get, Prealloc, Exist and the operations of a       *)
(* handle as if each took effect at once.  A slot keeps its key as long as *)
(* a handle is on it, one handle at a time owns its fill, and only that    *)
(* handle moves it on from Loading.  A key has one slot, until a worker    *)
(* dies while it relinks a slot: then a call may miss a key that is there  *)
(* and install it once more.                                               *)
(***************************************************************************)
CONSTANTS
    Handle,     \* calls in flight and the handles they return
    Key,
    Slot,
    Usable,     \* the slots a call may allocate
    NONE

VARIABLES
    key, state, \* of each slot
    slot,       \* the slot each handle is on
    owner,      \* whether the handle owns the fill
    want,       \* the key of each call
    dead,       \* calls of workers that died
    broken      \* one of them died while it relinked a slot

buffer == <<key, state, slot, owner>>
vars == <<buffer, want, dead, broken>>

BufferInit ==
    /\ key = [s \in Slot |-> NONE]
    /\ state = [s \in Slot |-> "Loading"]
    /\ slot = [h \in Handle |-> NONE]
    /\ owner = [h \in Handle |-> FALSE]

Init ==
    /\ BufferInit
    /\ want = [h \in Handle |-> NONE]
    /\ dead = {}
    /\ broken = FALSE

----------------------------------------------------------------------------
(* What the operations do to the buffer                                    *)

Holders(s) == {h \in Handle : slot[h] = s}
Owners(s) == {h \in Holders(s) : owner[h]}
Cached(k) == \E s \in Slot : key[s] = k

\* Get or Exist finds the key.  An owner starts the fill over; a handle that
\* does not own waits for the fill of another.
Attach(h, k, own) ==
    /\ slot[h] = NONE
    /\ \E s \in Slot :
          /\ key[s] = k
          /\ own => Owners(s) = {} /\ state[s] # "Ready"
          /\ state' = IF own THEN [state EXCEPT ![s] = "Loading"] ELSE state
          /\ slot' = [slot EXCEPT ![h] = s]
    /\ owner' = [owner EXCEPT ![h] = own]
    /\ UNCHANGED key

\* Slot s, which nobody is on, takes the key.
Place(s, k) ==
    /\ Cached(k) => broken
    /\ Holders(s) = {}
    /\ key' = [key EXCEPT ![s] = k]
    /\ state' = [state EXCEPT ![s] = "Loading"]

Install(h, k) ==
    /\ slot[h] = NONE
    /\ \E s \in Usable[h] : Place(s, k) /\ slot' = [slot EXCEPT ![h] = s]
    /\ owner' = [owner EXCEPT ![h] = TRUE]

Preinstall(h, k) ==
    /\ \E s \in Usable[h] : Place(s, k)
    /\ UNCHANGED <<slot, owner>>

\* A slot nobody is on loses its key.
Clear(s) ==
    /\ key[s] # NONE
    /\ Holders(s) = {}
    /\ key' = [key EXCEPT ![s] = NONE]
    /\ state' = [state EXCEPT ![s] = "Loading"]

Evict(s) == Clear(s) /\ UNCHANGED <<slot, owner>>

\* The owner ends its fill.
Mark(h, result) ==
    /\ owner[h] /\ state[slot[h]] = "Loading"
    /\ state' = [state EXCEPT ![slot[h]] = result]
    /\ UNCHANGED <<key, slot, owner>>

\* The destructor of the handles in H: an owner that did not end its fill
\* leaves the slot Failed.
Drop(H) ==
    /\ state' = [s \in Slot |->
          IF state[s] = "Loading" /\ Owners(s) \cap H # {} THEN "Failed" ELSE state[s]]
    /\ slot' = [h \in Handle |-> IF h \in H THEN NONE ELSE slot[h]]
    /\ owner' = [h \in Handle |-> h \notin H /\ owner[h]]
    /\ UNCHANGED key

----------------------------------------------------------------------------
(* The calls                                                               *)

Begin(h, k) ==
    /\ want[h] = NONE
    /\ want' = [want EXCEPT ![h] = k]
    /\ UNCHANGED <<buffer, dead, broken>>

Get(h) ==
    /\ want[h] # NONE /\ h \notin dead
    /\ UNCHANGED <<want, dead, broken>>
    /\ \/ \E own \in BOOLEAN : Attach(h, want[h], own)
       \/ Install(h, want[h])

\* Prealloc, or an Exist or Prealloc that changed nothing.
Return(h) ==
    /\ want[h] # NONE /\ slot[h] = NONE /\ h \notin dead
    /\ want' = [want EXCEPT ![h] = NONE]
    /\ Preinstall(h, want[h]) \/ UNCHANGED buffer
    /\ UNCHANGED <<dead, broken>>

Fill(h) ==
    /\ \E result \in {"Ready", "Failed"} : Mark(h, result)
    /\ UNCHANGED <<want, dead, broken>>

\* An owner ends its fill before it lets the slot go.
Release(h) ==
    /\ slot[h] # NONE
    /\ owner[h] => state[slot[h]] # "Loading"
    /\ want' = [want EXCEPT ![h] = NONE]
    /\ Drop({h})
    /\ UNCHANGED <<dead, broken>>

Reuse(s) == Evict(s) /\ UNCHANGED <<want, dead, broken>>

\* A worker dies in a call or with a handle.  In Alloc it takes the slot it
\* claimed along, and may leave it half linked.
Die(h) ==
    /\ want[h] # NONE /\ h \notin dead
    /\ dead' = dead \cup {h}
    /\ slot' = [slot EXCEPT ![h] = NONE]
    /\ owner' = [owner EXCEPT ![h] = FALSE]
    /\ broken' \in {broken, TRUE}
    /\ (\E s \in Usable[h] : Clear(s)) \/ UNCHANGED <<key, state>>
    /\ UNCHANGED want

Next ==
    /\ vars' # vars
    /\ \/ \E h \in Handle :
             \/ \E k \in Key : Begin(h, k)
             \/ Get(h) \/ Return(h) \/ Fill(h) \/ Release(h) \/ Die(h)
       \/ \E s \in Slot : Reuse(s)

Spec == Init /\ [][Next]_vars
=============================================================================
