-------------------------- MODULE CacheBufferStore --------------------------
(***************************************************************************)
(* CacheBuffer implements SlotStore: the word-by-word protocol of the      *)
(* buffer looks to its callers like operations that take effect at once.   *)
(***************************************************************************)
EXTENDS CacheBuffer

keyOf == [s \in Slot |-> IF Findable(s) THEN key[s] ELSE NONE]
stateOf == [s \in Slot |-> IF Findable(s) THEN state[s] ELSE "Loading"]

\* A call is on a slot once PinHit or Alloc has returned, until its release.
slotOf == [p \in Proc |-> IF pc[p] \in Holding THEN node[p] ELSE NONE]
ownerOf == [p \in Proc |-> pc[p] \in Holding /\ owner[p]]
deadOf == {p \in Proc : pc[p] \in Dead}

Store == INSTANCE SlotStore
    WITH Handle <- Proc, key <- keyOf, state <- stateOf, slot <- slotOf,
         owner <- ownerOf, dead <- deadOf, broken <- Broken

\* Every step of Get, Prealloc, Exist and of a handle (cache_buffer.h) either
\* leaves what callers see alone or is one of the atomic operations of
\* SlotStore: a key found is the key asked for, an owner is alone, a slot is
\* evicted only when no handle is on it, and a key is installed only when no
\* other slot has it, unless a worker died inside Remove or MoveTo.
ImplementsStore == Store!Spec
=============================================================================
