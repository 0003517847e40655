----------------------------- MODULE BucketChain -----------------------------
(***************************************************************************)
(* The hash chains of the Cache2 buffer (ucm/store/cache/v2,               *)
(* cache_buffer.h): doubly linked lists of slots in shared memory, changed *)
(* by Remove and MoveTo under the bucket locks, one word per step, and     *)
(* walked with the lock (Lookup) or without it (LookupOptimistic).         *)
(*                                                                         *)
(* A writer is Alloc after it claimed a slot; the claim keeps other        *)
(* writers off the slot.  A key is the slot that holds it.                 *)
(***************************************************************************)
EXTENDS Integers, FiniteSets

CONSTANTS
    Writer,     \* threads in Alloc
    Reader,     \* threads in Lookup or LookupOptimistic
    Slot, Bucket, Stripe,
    LockOf,     \* the stripe of a bucket
    MaxCrash,   \* bound: writers that die in one behaviour
    NONE        \* kInvalid

ASSUME ConstantsAssumption ==
    /\ IsFiniteSet(Slot)
    /\ LockOf \in [Bucket -> Stripe]
    /\ MaxCrash \in Nat
    /\ NONE \notin Writer \cup Reader \cup Slot \cup Bucket

VARIABLES
    head,               \* Buckets(), per bucket
    next, prev, hash,   \* SlotMeta, per slot
    lock,               \* holder of each stripe
    pc, node, home,     \* the step, the claimed slot and iBucket of each writer
    call, answer,       \* the lookup of each reader, and its last result
    at, walked          \* iNode and walked of LookupT

chain == <<head, next, prev, hash>>
writer == <<pc, node, home>>
reader == <<call, answer, at, walked>>
vars == <<chain, lock, writer, reader>>

Dead == {p \in Writer : pc[p] = "dead"}
Index == INSTANCE BucketIndex WITH broken <- Dead # {}
Call == Index!Call
SlotCount == Cardinality(Slot)

Removing == {"r1", "r2", "r3", "r4", "r5", "r6"}
Linking == {"m1", "m2", "m3", "m4", "m5"}

Init ==
    /\ head = [b \in Bucket |-> NONE]
    /\ next = [s \in Slot |-> NONE]
    /\ prev = [s \in Slot |-> NONE]
    /\ hash = [s \in Slot |-> NONE]
    /\ lock = [l \in Stripe |-> NONE]
    /\ pc = [p \in Writer |-> "idle"]
    /\ node = [p \in Writer |-> NONE]
    /\ home = [p \in Writer |-> NONE]
    /\ call = [r \in Reader |-> NONE]
    /\ answer = [r \in Reader |-> FALSE]
    /\ at = [r \in Reader |-> NONE]
    /\ walked = [r \in Reader |-> 0]

----------------------------------------------------------------------------
(* Alloc                                                                   *)

\* Alloc holds the lock of its bucket and a claim on the slot, and has got
\* the lock of the slot's old bucket unless both share a stripe.
Claim(p) ==
    /\ pc[p] = "idle"
    /\ \E b \in Bucket, s \in Slot :
          LET old == hash[s]
              locks == {LockOf[h] : h \in {b, old} \ {NONE}}
          IN
          /\ \A q \in Writer : node[q] # s
          /\ old # b
          /\ \A l \in locks : lock[l] = NONE
          /\ lock' = [l \in Stripe |-> IF l \in locks THEN p ELSE lock[l]]
          /\ node' = [node EXCEPT ![p] = s]
          /\ home' = [home EXCEPT ![p] = b]
          /\ pc' = [pc EXCEPT ![p] = IF old = NONE THEN "m1" ELSE "r1"]
    /\ UNCHANGED <<chain, reader>>

Step(p, from, to) ==
    /\ pc[p] = from
    /\ pc' = [pc EXCEPT ![p] = to]
    /\ UNCHANGED <<node, home, reader>>

\* Remove
UnlinkNext(p) ==
    LET s == node[p] IN
    /\ Step(p, "r1", "r2")
    /\ next' = IF prev[s] = NONE THEN next ELSE [next EXCEPT ![prev[s]] = next[s]]
    /\ UNCHANGED <<head, prev, hash, lock>>

UnlinkPrev(p) ==
    LET s == node[p] IN
    /\ Step(p, "r2", "r3")
    /\ prev' = IF next[s] = NONE THEN prev ELSE [prev EXCEPT ![next[s]] = prev[s]]
    /\ UNCHANGED <<head, next, hash, lock>>

UnlinkHead(p) ==
    LET s == node[p] IN
    /\ Step(p, "r3", "r4")
    /\ head' = IF head[hash[s]] = s THEN [head EXCEPT ![hash[s]] = next[s]] ELSE head
    /\ UNCHANGED <<next, prev, hash, lock>>

ClearPrev(p) ==
    /\ Step(p, "r4", "r5")
    /\ prev' = [prev EXCEPT ![node[p]] = NONE]
    /\ UNCHANGED <<head, next, hash, lock>>

ClearNext(p) ==
    /\ Step(p, "r5", "r6")
    /\ next' = [next EXCEPT ![node[p]] = NONE]
    /\ UNCHANGED <<head, prev, hash, lock>>

\* The old bucket's lock is released unless it is also the new one's.
ClearHash(p) ==
    LET old == LockOf[hash[node[p]]] IN
    /\ Step(p, "r6", "m1")
    /\ hash' = [hash EXCEPT ![node[p]] = NONE]
    /\ lock' = IF old = LockOf[home[p]] THEN lock ELSE [lock EXCEPT ![old] = NONE]
    /\ UNCHANGED <<head, next, prev>>

\* MoveTo
LinkNext(p) ==
    /\ Step(p, "m1", "m2")
    /\ next' = [next EXCEPT ![node[p]] = head[home[p]]]
    /\ UNCHANGED <<head, prev, hash, lock>>

LinkPrev(p) ==
    /\ Step(p, "m2", "m3")
    /\ prev' = [prev EXCEPT ![node[p]] = NONE]
    /\ UNCHANGED <<head, next, hash, lock>>

\* Variation of LinkBack: the old first node keeps no back pointer.
LinkBackNot(p) == Step(p, "m3", "m4") /\ UNCHANGED <<chain, lock>>

LinkBack(p) ==
    LET s == node[p] IN
    /\ Step(p, "m3", "m4")
    /\ prev' = IF next[s] = NONE THEN prev ELSE [prev EXCEPT ![next[s]] = s]
    /\ UNCHANGED <<head, next, hash, lock>>

SetHash(p) ==
    /\ Step(p, "m4", "m5")
    /\ hash' = [hash EXCEPT ![node[p]] = home[p]]
    /\ UNCHANGED <<head, next, prev, lock>>

SetHead(p) ==
    /\ pc[p] = "m5"
    /\ head' = [head EXCEPT ![home[p]] = node[p]]
    /\ lock' = [lock EXCEPT ![LockOf[home[p]]] = NONE]
    /\ pc' = [pc EXCEPT ![p] = "idle"]
    /\ node' = [node EXCEPT ![p] = NONE]
    /\ home' = [home EXCEPT ![p] = NONE]
    /\ UNCHANGED <<next, prev, hash, reader>>

\* A worker dies in Alloc: its robust locks are recovered by the next locker,
\* its claim and the half-done chain stay.
Crash(p) ==
    /\ pc[p] \notin {"idle", "dead"}
    /\ Cardinality(Dead) < MaxCrash
    /\ pc' = [pc EXCEPT ![p] = "dead"]
    /\ lock' = [l \in Stripe |-> IF lock[l] = p THEN NONE ELSE lock[l]]
    /\ UNCHANGED <<chain, node, home, reader>>

----------------------------------------------------------------------------
(* LookupT                                                                 *)

Begin(r) ==
    /\ call[r] = NONE
    /\ \E c \in Call :
          /\ c.locked => lock[LockOf[c.bucket]] = NONE
          /\ lock' = IF c.locked THEN [lock EXCEPT ![LockOf[c.bucket]] = r] ELSE lock
          /\ call' = [call EXCEPT ![r] = c]
          /\ at' = [at EXCEPT ![r] = head[c.bucket]]
    /\ walked' = [walked EXCEPT ![r] = 0]
    /\ answer' = [answer EXCEPT ![r] = FALSE]
    /\ UNCHANGED <<chain, writer>>

\* Variation of Matches: the bucket of the node is not compared.
MatchesAnywhere(r) == at[r] = call[r].slot

Matches(r) == at[r] = call[r].slot /\ hash[at[r]] = call[r].bucket

\* The end of the chain, or as many nodes as there are slots.
Ends(r) == at[r] = NONE \/ walked[r] = SlotCount

Walk(r) ==
    /\ call[r] # NONE
    /\ ~Ends(r) /\ ~Matches(r)
    /\ at' = [at EXCEPT ![r] = next[at[r]]]
    /\ walked' = [walked EXCEPT ![r] = @ + 1]
    /\ UNCHANGED <<chain, lock, writer, call, answer>>

Answer(r) ==
    /\ call[r] # NONE
    /\ Ends(r) \/ Matches(r)
    /\ answer' = [answer EXCEPT ![r] = ~Ends(r)]
    /\ lock' = [l \in Stripe |-> IF lock[l] = r THEN NONE ELSE lock[l]]
    /\ call' = [call EXCEPT ![r] = NONE]
    /\ at' = [at EXCEPT ![r] = NONE]
    /\ walked' = [walked EXCEPT ![r] = 0]
    /\ UNCHANGED <<chain, writer>>

Next ==
    \/ \E p \in Writer :
          \/ Claim(p) \/ UnlinkNext(p) \/ UnlinkPrev(p) \/ UnlinkHead(p)
          \/ ClearPrev(p) \/ ClearNext(p) \/ ClearHash(p) \/ LinkNext(p)
          \/ LinkPrev(p) \/ LinkBack(p) \/ SetHash(p) \/ SetHead(p) \/ Crash(p)
    \/ \E r \in Reader : Begin(r) \/ Walk(r) \/ Answer(r)

Spec == Init /\ [][Next]_vars

----------------------------------------------------------------------------
(* Properties                                                              *)

\* The n-th node of bucket b's chain.
Nth(b) ==
    LET f[n \in 0 .. SlotCount] ==
            IF n = 0 THEN head[b]
            ELSE IF f[n - 1] = NONE THEN NONE ELSE next[f[n - 1]]
    IN f

\* A bucket whose lock no writer holds has a well-formed chain: it ends, holds
\* exactly the slots hashed to the bucket, and prev is the inverse of next
\* (Remove and MoveTo as a whole), as long as no worker died inside Alloc.
ChainExact ==
    \A b \in Bucket :
        lock[LockOf[b]] \notin Writer /\ Dead = {} =>
            LET f == Nth(b) IN
            /\ f[SlotCount] = NONE
            /\ {f[n] : n \in 0 .. SlotCount} \ {NONE} = {s \in Slot : hash[s] = b}
            /\ \A n \in 0 .. SlotCount :
                 f[n] # NONE => prev[f[n]] = IF n = 0 THEN NONE ELSE f[n - 1]

\* The chains implement the bucket sets CacheBuffer is written over: Remove
\* and MoveTo take effect with the store to hash, a lookup under the lock is
\* exact until a worker dies while relinking, and no lookup ever finds what is
\* not there.
ImplementsIndex == Index!Spec
=============================================================================
