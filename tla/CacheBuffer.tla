----------------------------- MODULE CacheBuffer -----------------------------
(***************************************************************************)
(* The slot protocol of the Cache2 buffer (ucm/store/cache/v2,             *)
(* cache_buffer.h over ctrl_layout.h): slots in shared memory that the     *)
(* threads of several ranks look up optimistically, pin by a reference     *)
(* count, fill, and evict by claiming an unreferenced slot.                *)
(*                                                                         *)
(* A process is one call of Get, Prealloc or Exist together with the life  *)
(* of the handle it returns; a thread that holds several handles is        *)
(* several processes.  Every step reads or writes one shared word, in the  *)
(* order of the code, with two exceptions.  The unlock of a bucket lock is *)
(* taken with the step before it.  The words MatchKey loads are taken at   *)
(* once: before the pin a mixture of two keys is only a hint, which the    *)
(* second MatchKey of PinHit rejects, and after the pin or under the       *)
(* bucket lock they do not change.  The chain of a bucket is the set of    *)
(* slots whose hash is that bucket, and a worker that dies while it        *)
(* relinks a slot leaves chains on which lookups may miss; BucketChain     *)
(* models the pointers.                                                    *)
(***************************************************************************)
EXTENDS Integers, FiniteSets

CONSTANTS
    Proc,       \* calls in flight
    Block,      \* block identifiers (the first two words of a key)
    Offset,     \* shard offsets (the third word of a key)
    Slot,       \* slots of all ranks
    Bucket,     \* hash buckets
    Stripe,     \* lock stripes
    HashKey,    \* the bucket of a key
    LockOf,     \* the stripe of a bucket
    Usable,     \* the slots a process may allocate: its rank's segment,
                \* without the reserved slots unless allowReserved
    Ops,        \* the calls a process makes
    Claimed,    \* kSlotClaimed, the largest reference word
    MaxCrash,   \* bound: worker deaths in one behaviour
    NONE        \* kInvalid

Key == Block \X Offset
Op == {"Get", "PeerGet", "Exist", "Prealloc"}
State == {"Loading", "Ready", "Failed"}

ASSUME ConstantsAssumption ==
    /\ IsFiniteSet(Proc)
    /\ HashKey \in [Key -> Bucket]
    /\ LockOf \in [Bucket -> Stripe]
    /\ Usable \in [Proc -> SUBSET Slot]
    /\ Ops \in [Proc -> SUBSET Op]
    /\ Claimed \in Nat /\ Claimed >= 2
    /\ MaxCrash \in Nat
    /\ NONE \notin Proc \cup Slot \cup Bucket \cup Block \cup Offset \cup Key

VARIABLES
    reference, key, hash, state, accessed,  \* SlotMeta, per slot
    data,       \* the key whose bytes a slot's memory holds
    lock,       \* holder of each stripe
    pc,         \* the next step of each process
    op, want,   \* the call and its key
    node,       \* iNode
    seen,       \* the reference word a process loaded last
    owner       \* the owner flag of the call and of its handle

meta == <<reference, key, hash, state, accessed>>
local == <<op, want, node, seen, owner>>
vars == <<meta, data, lock, pc, local>>

----------------------------------------------------------------------------
(* The steps of a process, by what it then holds of the slot node[p].      *)

\* After the compare-exchange of PinHit, until the reference is returned.
Pinning == {"recheck", "undo", "own", "reset"}
Holding == {"hold", "filled", "kept", "drop"}
Pinned == Pinning \cup Holding \cup {"deadPin"}

\* After the claim in Alloc: the words of the slot may be rewritten from
\* "word0" on.
Rewriting == {"word0", "word1", "init", "link", "publish"}
Claiming ==
    {"evict", "unclaim", "remove"} \cup Rewriting \cup {"deadClaim", "deadLink"}

\* From the first store of Remove or MoveTo to the last, the one to the head
\* of the bucket, which the step after the store to hash includes.  (Also for
\* a slot that stays in its bucket and is not relinked.)
Relinking == {"remove", "link", "publish"}

\* Between Lookup under the bucket lock and the unlock.
Allocating == {"fetch", "claim", "evict", "unclaim", "remove"} \cup Rewriting

\* Inside PinHit, with or without the bucket lock.
PinHitSteps == {"match", "load", "peek", "cas"} \cup Pinning

Dead == {"dead", "deadPin", "deadClaim", "deadLink"}

PC == {"idle", "lookup", "tryLock", "lock", "find"} \cup Dead
        \cup PinHitSteps \cup Pinned \cup Allocating \cup Claiming

Init ==
    /\ reference = [s \in Slot |-> 0]
    /\ key = [s \in Slot |-> <<NONE, NONE>>]
    /\ hash = [s \in Slot |-> NONE]
    /\ state = [s \in Slot |-> "Loading"]
    /\ accessed = [s \in Slot |-> FALSE]
    /\ data = [s \in Slot |-> NONE]
    /\ lock = [l \in Stripe |-> NONE]
    /\ pc = [p \in Proc |-> "idle"]
    /\ op = [p \in Proc |-> NONE]
    /\ want = [p \in Proc |-> NONE]
    /\ node = [p \in Proc |-> NONE]
    /\ seen = [p \in Proc |-> 0]
    /\ owner = [p \in Proc |-> FALSE]

----------------------------------------------------------------------------
Home(p) == HashKey[want[p]]
Target(p) == LockOf[Home(p)]
HoldsTarget(p) == lock[Target(p)] = p
MatchKey(p, s) == hash[s] = Home(p) /\ key[s] = want[p]

Goto(p, l) == pc' = [pc EXCEPT ![p] = l]
Unlocked(p) == [lock EXCEPT ![Target(p)] = IF @ = p THEN NONE ELSE @]
Touched(p) == [accessed EXCEPT ![node[p]] = TRUE]

\* PinHit tells the bucket lock's holder to claim ownership, and before the
\* lock only a rank that may own the key (mayOwn).
TakeOwnership(p) == op[p] = "Get"

\* PinHit returned false: retry under the lock, or give up the lock and
\* start over.
AfterMiss(p) ==
    CASE HoldsTarget(p) -> "lookup"
      [] ~HoldsTarget(p) /\ op[p] = "Get" -> "tryLock"
      [] ~HoldsTarget(p) /\ op[p] = "Exist" -> "lock"
      [] OTHER -> "lookup"
Miss(p) ==
    /\ Goto(p, AfterMiss(p))
    /\ lock' = Unlocked(p)
    /\ node' = [node EXCEPT ![p] = NONE]
    /\ seen' = [seen EXCEPT ![p] = 0]

\* A failed round of PinHit's spin loop: another round, or the budget is
\* spent (kPinSpinFast rounds in the code, any number here).
Spin(p) ==
    \/ /\ Goto(p, "match")
       /\ seen' = [seen EXCEPT ![p] = 0]
       /\ UNCHANGED <<lock, node>>
    \/ Miss(p)

\* The call, or the handle it returned, is over.
Return(p) ==
    /\ Goto(p, "idle")
    /\ op' = [op EXCEPT ![p] = NONE]
    /\ want' = [want EXCEPT ![p] = NONE]
    /\ node' = [node EXCEPT ![p] = NONE]
    /\ seen' = [seen EXCEPT ![p] = 0]
    /\ owner' = [owner EXCEPT ![p] = FALSE]

Begin(p) ==
    /\ pc[p] = "idle"
    /\ \E o \in Ops[p], k \in Key :
          /\ op' = [op EXCEPT ![p] = o]
          /\ want' = [want EXCEPT ![p] = k]
          /\ Goto(p, IF o = "Prealloc" THEN "tryLock" ELSE "lookup")
    /\ UNCHANGED <<meta, data, lock, node, seen, owner>>

\* LookupOptimistic finds a slot that matches now, or finds none: a walk
\* without the lock may be led off its chain by a concurrent relink.
LookupOptimistic(p) ==
    /\ pc[p] = "lookup"
    /\ \/ \E s \in Slot :
             /\ MatchKey(p, s)
             /\ node' = [node EXCEPT ![p] = s]
             /\ Goto(p, "match")
       \/ Goto(p, AfterMiss(p)) /\ UNCHANGED node
    /\ UNCHANGED <<meta, data, lock, op, want, seen, owner>>

----------------------------------------------------------------------------
(* PinHit                                                                  *)

PinMatch(p) ==
    /\ pc[p] = "match"
    /\ IF MatchKey(p, node[p])
       THEN Goto(p, "load") /\ UNCHANGED <<lock, node, seen>>
       ELSE Miss(p)
    /\ UNCHANGED <<meta, data, op, want, owner>>

\* A claimed slot is waited for; the last value below Claimed is not
\* incremented, so a reference count never looks like a claim.
PinLoad(p) ==
    LET r == reference[node[p]] IN
    /\ pc[p] = "load"
    /\ CASE r = Claimed -> Spin(p)
         [] r = Claimed - 1 -> Miss(p)
         [] OTHER -> /\ Goto(p, IF TakeOwnership(p) THEN "cas" ELSE "peek")
                     /\ seen' = [seen EXCEPT ![p] = r]
                     /\ UNCHANGED <<lock, node>>
    /\ UNCHANGED <<meta, data, op, want, owner>>

\* Loading with no reference is preallocated: only a rank that may own the
\* key takes it.
PinPeek(p) ==
    /\ pc[p] = "peek"
    /\ IF seen[p] = 0 /\ state[node[p]] = "Loading"
       THEN Miss(p)
       ELSE Goto(p, "cas") /\ UNCHANGED <<lock, node, seen>>
    /\ UNCHANGED <<meta, data, op, want, owner>>

\* Variation of PinCas: the word is stored without being compared.
PinCasBlind(p) ==
    /\ pc[p] = "cas"
    /\ reference' = [reference EXCEPT ![node[p]] = seen[p] + 1]
    /\ Goto(p, "recheck")
    /\ UNCHANGED <<lock, node, seen>>
    /\ UNCHANGED <<key, hash, state, accessed, data, op, want, owner>>

\* compare_exchange_weak may also fail on a word that did not change.
PinCas(p) ==
    /\ pc[p] = "cas"
    /\ \/ /\ reference[node[p]] = seen[p]
          /\ reference' = [reference EXCEPT ![node[p]] = seen[p] + 1]
          /\ Goto(p, "recheck")
          /\ UNCHANGED <<lock, node, seen>>
       \/ Spin(p) /\ UNCHANGED reference
    /\ UNCHANGED <<key, hash, state, accessed, data, op, want, owner>>

PinRecheck(p) ==
    /\ pc[p] = "recheck"
    /\ Goto(p, IF MatchKey(p, node[p]) THEN "own" ELSE "undo")
    /\ UNCHANGED <<meta, data, lock, local>>

PinUndo(p) ==
    /\ pc[p] = "undo"
    /\ reference' = [reference EXCEPT ![node[p]] = @ - 1]
    /\ Miss(p)
    /\ UNCHANGED <<key, hash, state, accessed, data, op, want, owner>>

\* PinHit returns true: Exist drops the reference, Get wraps it in a handle.
PinReturn(p, own) ==
    /\ Goto(p, CASE op[p] = "Exist" -> "drop"
                 [] op[p] # "Exist" /\ own -> "hold"
                 [] OTHER -> "kept")
    /\ owner' = [owner EXCEPT ![p] = own]
    /\ seen' = [seen EXCEPT ![p] = 0]
    /\ lock' = Unlocked(p)
    /\ accessed' = Touched(p)

\* The first to pin an unreferenced slot that is not Ready owns its fill.
PinOwn(p) ==
    LET s == node[p]
        own == TakeOwnership(p) /\ seen[p] = 0 /\ state[s] # "Ready"
    IN
    /\ pc[p] = "own"
    /\ IF own /\ state[s] = "Failed"
       THEN Goto(p, "reset") /\ UNCHANGED <<lock, accessed, seen, owner>>
       ELSE PinReturn(p, own)
    /\ UNCHANGED <<reference, key, hash, state, data, op, want, node>>

PinReset(p) ==
    /\ pc[p] = "reset"
    /\ state' = [state EXCEPT ![node[p]] = "Loading"]
    /\ PinReturn(p, TRUE)
    /\ UNCHANGED <<reference, key, hash, data, op, want, node>>

----------------------------------------------------------------------------
(* The bucket lock, and Alloc under it                                     *)

\* Get starts over when the lock is taken, Prealloc gives up.
TryLock(p) ==
    /\ pc[p] = "tryLock"
    /\ \/ /\ lock[Target(p)] = NONE
          /\ lock' = [lock EXCEPT ![Target(p)] = p]
          /\ Goto(p, "find")
          /\ UNCHANGED local
       \/ /\ lock[Target(p)] # NONE
          /\ UNCHANGED lock
          /\ IF op[p] = "Prealloc" THEN Return(p)
             ELSE Goto(p, "lookup") /\ UNCHANGED local
    /\ UNCHANGED <<meta, data>>

Lock(p) ==
    /\ pc[p] = "lock"
    /\ lock[Target(p)] = NONE
    /\ lock' = [lock EXCEPT ![Target(p)] = p]
    /\ Goto(p, "find")
    /\ UNCHANGED <<meta, data, local>>

\* Chains hold links that a worker left half stored when it died: the next to
\* take its lock declares it consistent (pthread_mutex_consistent) and repairs
\* nothing, and later relinks carry the damage to other nodes.
Broken == \E q \in Proc : pc[q] = "deadLink"

\* Lookup with the lock held: Get pins what it finds, Exist and Prealloc
\* only touch it; on a miss Get and Prealloc allocate.  MatchKey guards every
\* hit; a miss is exact unless the chains are broken.
Lookup(p) ==
    /\ pc[p] = "find"
    /\ \/ \E s \in Slot :
             /\ MatchKey(p, s)
             /\ IF op[p] = "Get"
                THEN /\ node' = [node EXCEPT ![p] = s]
                     /\ Goto(p, "match")
                     /\ UNCHANGED <<accessed, lock, op, want, seen, owner>>
                ELSE /\ accessed' = [accessed EXCEPT ![s] = TRUE]
                     /\ lock' = Unlocked(p)
                     /\ Return(p)
       \/ /\ Broken \/ \A s \in Slot : ~MatchKey(p, s)
          /\ UNCHANGED accessed
          /\ IF op[p] = "Exist"
             THEN lock' = Unlocked(p) /\ Return(p)
             ELSE Goto(p, "fetch") /\ UNCHANGED <<lock, local>>
    /\ UNCHANGED <<reference, key, hash, state, data>>

\* Alloc gives up after a bounded number of scans (2 * usable in the code,
\* any number here): Get starts over, Prealloc returns.
AllocFails(p) ==
    /\ lock' = Unlocked(p)
    /\ IF op[p] = "Prealloc" THEN Return(p)
       ELSE /\ Goto(p, "lookup")
            /\ node' = [node EXCEPT ![p] = NONE]
            /\ UNCHANGED <<op, want, seen, owner>>

NextScan(p) ==
    \/ /\ Goto(p, "fetch")
       /\ node' = [node EXCEPT ![p] = NONE]
       /\ UNCHANGED <<lock, op, want, seen, owner>>
    \/ AllocFails(p)

\* FetchNode takes a slot of the rank's segment at the clock hand and clears
\* its second-chance bit; a set bit spares the slot.  Setup makes sure that
\* a worker has usable slots.
FetchNode(p) ==
    /\ pc[p] = "fetch"
    /\ \E s \in Usable[p] :
          /\ accessed' = [accessed EXCEPT ![s] = FALSE]
          /\ IF accessed[s] THEN NextScan(p)
             ELSE /\ node' = [node EXCEPT ![p] = s]
                  /\ Goto(p, "claim")
                  /\ UNCHANGED <<lock, op, want, seen, owner>>
    /\ UNCHANGED <<reference, key, hash, state, data>>

Claim(p) ==
    /\ pc[p] = "claim"
    /\ \/ /\ reference[node[p]] = 0
          /\ reference' = [reference EXCEPT ![node[p]] = Claimed]
          /\ Goto(p, "evict")
          /\ UNCHANGED <<accessed, lock, local>>
       \/ /\ reference[node[p]] # 0
          /\ accessed' = Touched(p)
          /\ NextScan(p)
          /\ UNCHANGED reference
    /\ UNCHANGED <<key, hash, state, data>>

\* A slot of another bucket is unlinked under the lock of that bucket, which
\* the process may already hold as its own stripe; it never waits for it.
Evict(p) ==
    LET old == hash[node[p]] IN
    /\ pc[p] = "evict"
    /\ \/ old \in {NONE, Home(p)} /\ Goto(p, "word0") /\ UNCHANGED lock
       \/ /\ old \notin {NONE, Home(p)}
          /\ lock[LockOf[old]] \in {NONE, p}
          /\ lock' = [lock EXCEPT ![LockOf[old]] = p]
          /\ Goto(p, "remove")
       \/ /\ old \notin {NONE, Home(p)}
          /\ lock[LockOf[old]] \notin {NONE, p}
          /\ Goto(p, "unclaim") /\ UNCHANGED lock
    /\ UNCHANGED <<meta, data, local>>

Unclaim(p) ==
    /\ pc[p] = "unclaim"
    /\ accessed' = Touched(p)
    /\ reference' = [reference EXCEPT ![node[p]] = 0]
    /\ NextScan(p)
    /\ UNCHANGED <<key, hash, state, data>>

Remove(p) ==
    LET old == LockOf[hash[node[p]]] IN
    /\ pc[p] = "remove"
    /\ hash' = [hash EXCEPT ![node[p]] = NONE]
    /\ lock' = IF old = Target(p) THEN lock ELSE [lock EXCEPT ![old] = NONE]
    /\ Goto(p, "word0")
    /\ UNCHANGED <<reference, key, state, accessed, data, local>>

\* The key is several words: a reader may see a mixture of two keys.
StoreBlock(p) ==
    /\ pc[p] = "word0"
    /\ key' = [key EXCEPT ![node[p]] = <<want[p][1], @[2]>>]
    /\ Goto(p, "word1")
    /\ UNCHANGED <<reference, hash, state, accessed, data, lock, local>>

StoreOffset(p) ==
    /\ pc[p] = "word1"
    /\ key' = [key EXCEPT ![node[p]] = <<@[1], want[p][2]>>]
    /\ Goto(p, "init")
    /\ UNCHANGED <<reference, hash, state, accessed, data, lock, local>>

\* Variation of InitState: the state of the old key is kept.
InitStateNot(p) ==
    /\ pc[p] = "init"
    /\ Goto(p, IF hash[node[p]] = Home(p) THEN "publish" ELSE "link")
    /\ UNCHANGED <<meta, data, lock, local>>

InitState(p) ==
    /\ pc[p] = "init"
    /\ state' = [state EXCEPT ![node[p]] = "Loading"]
    /\ Goto(p, IF hash[node[p]] = Home(p) THEN "publish" ELSE "link")
    /\ UNCHANGED <<reference, key, hash, accessed, data, lock, local>>

MoveTo(p) ==
    /\ pc[p] = "link"
    /\ hash' = [hash EXCEPT ![node[p]] = Home(p)]
    /\ Goto(p, "publish")
    /\ UNCHANGED <<reference, key, state, accessed, data, lock, local>>

\* The claim becomes the caller's reference; Prealloc leaves none.
Publish(p) ==
    /\ pc[p] = "publish"
    /\ accessed' = Touched(p)
    /\ lock' = Unlocked(p)
    /\ \/ /\ op[p] = "Get"
          /\ reference' = [reference EXCEPT ![node[p]] = 1]
          /\ owner' = [owner EXCEPT ![p] = TRUE]
          /\ Goto(p, "hold")
          /\ UNCHANGED <<op, want, node, seen>>
       \/ /\ op[p] = "Prealloc"
          /\ reference' = [reference EXCEPT ![node[p]] = 0]
          /\ Return(p)
    /\ UNCHANGED <<key, hash, state, data>>

----------------------------------------------------------------------------
(* The handle                                                              *)

\* The owner's backend load or device copy writes the slot's memory.
Fill(p) ==
    /\ pc[p] = "hold"
    /\ data' = [data EXCEPT ![node[p]] = want[p]]
    /\ Goto(p, "filled")
    /\ UNCHANGED <<meta, lock, local>>

\* Variation of MarkReady: the owner does not wait for the transfer.
MarkReadyEarly(p) ==
    /\ pc[p] \in {"hold", "filled"}
    /\ state' = [state EXCEPT ![node[p]] = "Ready"]
    /\ Goto(p, "kept")
    /\ UNCHANGED <<reference, key, hash, accessed, data, lock, local>>

MarkReady(p) ==
    /\ pc[p] = "filled"
    /\ state' = [state EXCEPT ![node[p]] = "Ready"]
    /\ Goto(p, "kept")
    /\ UNCHANGED <<reference, key, hash, accessed, data, lock, local>>

\* Explicit, or by the destructor of an owner's handle still Loading.
MarkFailed(p) ==
    /\ pc[p] \in {"hold", "filled"}
    /\ state' = [state EXCEPT ![node[p]] = "Failed"]
    /\ Goto(p, "kept")
    /\ UNCHANGED <<reference, key, hash, accessed, data, lock, local>>

\* Variation of Release: a handle that was moved from releases again.
ReleaseTwice(p) ==
    /\ pc[p] \in {"kept", "drop"}
    /\ reference' = [reference EXCEPT ![node[p]] = @ - 2]
    /\ Return(p)
    /\ UNCHANGED <<key, hash, state, accessed, data, lock>>

Release(p) ==
    /\ pc[p] \in {"kept", "drop"}
    /\ reference' = [reference EXCEPT ![node[p]] = @ - 1]
    /\ Return(p)
    /\ UNCHANGED <<key, hash, state, accessed, data, lock>>

Touch ==
    /\ \E k \in Key, s \in Slot :
          /\ hash[s] = HashKey[k] /\ key[s] = k
          /\ accessed' = [accessed EXCEPT ![s] = TRUE]
    /\ UNCHANGED <<reference, key, hash, state, data, lock, pc, local>>

\* A worker process dies.  Its bucket locks are robust mutexes, recovered by
\* the next locker; its references, its claim and the links it was changing
\* stay in shared memory as they are.
Crash(p) ==
    /\ pc[p] \notin {"idle"} \cup Dead
    /\ Cardinality({q \in Proc : pc[q] \in Dead}) < MaxCrash
    /\ Goto(p, CASE pc[p] \in Pinned -> "deadPin"
                 [] pc[p] \in Relinking -> "deadLink"
                 [] pc[p] \in Claiming \ Relinking -> "deadClaim"
                 [] OTHER -> "dead")
    /\ lock' = [l \in Stripe |-> IF lock[l] = p THEN NONE ELSE lock[l]]
    /\ UNCHANGED <<meta, data, local>>

Step(p) ==
    \/ Begin(p) \/ LookupOptimistic(p)
    \/ PinMatch(p) \/ PinLoad(p) \/ PinPeek(p) \/ PinCas(p) \/ PinRecheck(p)
    \/ PinUndo(p) \/ PinOwn(p) \/ PinReset(p)
    \/ TryLock(p) \/ Lock(p) \/ Lookup(p) \/ FetchNode(p) \/ Claim(p)
    \/ Evict(p) \/ Unclaim(p) \/ Remove(p) \/ StoreBlock(p) \/ StoreOffset(p)
    \/ InitState(p) \/ MoveTo(p) \/ Publish(p)
    \/ Fill(p) \/ MarkReady(p) \/ MarkFailed(p) \/ Release(p)

Next == Touch \/ \E p \in Proc : Step(p) \/ Crash(p)

Spec == Init /\ [][Next]_vars

----------------------------------------------------------------------------
(* Properties                                                              *)

Pins(s) == {p \in Proc : node[p] = s /\ pc[p] \in Pinned}
Claims(s) == {p \in Proc : node[p] = s /\ pc[p] \in Claiming}

\* Every process's words stay in range, and a process that works on a slot
\* or a key has one (SlotMeta and the locals of Get, Exist and Prealloc).
TypeOK ==
    /\ reference \in [Slot -> 0 .. Claimed]
    /\ key \in [Slot -> (Block \cup {NONE}) \X (Offset \cup {NONE})]
    /\ hash \in [Slot -> Bucket \cup {NONE}]
    /\ state \in [Slot -> State]
    /\ accessed \in [Slot -> BOOLEAN]
    /\ data \in [Slot -> Key \cup {NONE}]
    /\ lock \in [Stripe -> Proc \cup {NONE}]
    /\ pc \in [Proc -> PC]
    /\ op \in [Proc -> Op \cup {NONE}]
    /\ want \in [Proc -> Key \cup {NONE}]
    /\ node \in [Proc -> Slot \cup {NONE}]
    /\ seen \in [Proc -> 0 .. Claimed]
    /\ owner \in [Proc -> BOOLEAN]
    /\ \A p \in Proc :
         /\ pc[p] # "idle" => op[p] \in Op /\ want[p] \in Key
         /\ pc[p] \in (PinHitSteps \cup Pinned \cup Claiming \cup {"claim"})
              => node[p] \in Slot

\* The reference word of cache_buffer.h is exact: it is Claimed when one
\* process rewrites the slot and nobody holds it, and otherwise the number of
\* handles and pins in flight, so Alloc never claims a slot in use.
ReferenceExact ==
    \A s \in Slot :
        IF reference[s] = Claimed
        THEN Pins(s) = {} /\ \E p \in Proc : Claims(s) = {p}
        ELSE Claims(s) = {} /\ reference[s] = Cardinality(Pins(s))

\* A handle that Get returned stays on the slot of its own key, whatever
\* eviction and rekeying went on between the lookup and the pin (the second
\* MatchKey of PinHit).
HandleKeepsKey ==
    \A p \in Proc : pc[p] \in Holding => MatchKey(p, node[p])

\* Two handles never both own the fill of one slot (the owner flag PinHit
\* derives from the reference it replaced, and Alloc's initial reference).
OneOwner ==
    \A p, q \in Proc :
        /\ p # q /\ node[p] = node[q]
        /\ pc[p] \in Pinned /\ owner[p]
        /\ pc[q] \in Pinned /\ owner[q]
        => FALSE

\* A handle that finds its slot Ready finds the bytes of its own key there:
\* no stale fill and no other key's data is ever served.
ReadyServesOwnKey ==
    \A p \in Proc :
        pc[p] \in Holding /\ state[node[p]] = "Ready" => data[node[p]] = want[p]

\* Two slots never hold the same key for lookups to find, so a fill is never
\* duplicated (Lookup and Alloc under one bucket lock).  This is not so once a
\* worker died inside Remove or MoveTo.
UniqueKeys ==
    \A s, t \in Slot :
        /\ s # t
        /\ reference[s] # Claimed /\ reference[t] # Claimed
        /\ hash[s] # NONE /\ hash[s] = hash[t]
        => key[s] # key[t]

\* As long as no worker died there, no key is in two slots.
NoDuplicateKey == ~Broken => UniqueKeys

\* A fill is final for those who hold the slot: while any handle is on a
\* Ready slot, neither its state nor its bytes change.
ReadyIsStable ==
    [][\A p \in Proc :
         /\ pc[p] \in Holding /\ pc'[p] \in Holding
         /\ state[node[p]] = "Ready"
         => state'[node[p]] = "Ready" /\ data'[node[p]] = data[node[p]]]_vars

\* The comment above TryAcquireSlot's lock: "All ranks may pin a ready or
\* already-owned shared key."  A handle without ownership on a Loading slot
\* has an owner, or one about to be, whose fill it waits for.
WaiterHasOwner ==
    \A p \in Proc :
        pc[p] = "kept" /\ ~owner[p] /\ state[node[p]] = "Loading"
        => \E q \in Proc : /\ node[q] = node[p]
                           /\ \/ owner[q]
                              \/ /\ pc[q] \in Pinning
                                 /\ op[q] = "Get" /\ seen[q] = 0

----------------------------------------------------------------------------
(* The inductive invariant behind the properties above                     *)

\* The words of a slot are those of one key, except while Alloc rewrites
\* them or a worker died in Alloc.
Dirty(s) ==
    \E p \in Proc :
        node[p] = s /\ pc[p] \in Rewriting \cup {"deadClaim", "deadLink"}

\* Bucket locks are held by the process that is between Lookup and unlock,
\* and by the one that unlinks a slot of the bucket.
LockOk(p) ==
    /\ pc[p] \in {"tryLock", "lock", "find"} => op[p] # "PeerGet"
    /\ pc[p] \in {"find"} \cup Allocating => lock[Target(p)] = p
    /\ pc[p] = "remove" => /\ hash[node[p]] \in Bucket
                           /\ lock[LockOf[hash[node[p]]]] = p

\* How far Alloc has rewritten the slot.
WriteOk(p) ==
    /\ pc[p] \in Rewriting => hash[node[p]] \in {NONE, Home(p)}
    /\ pc[p] = "word1" => key[node[p]][1] = want[p][1]
    /\ pc[p] \in {"init", "link", "publish"} => key[node[p]] = want[p]
    /\ pc[p] \in {"link", "publish"} => state[node[p]] = "Loading"
    /\ pc[p] = "publish" => hash[node[p]] = Home(p)

\* No slot but the one being rewritten matches the key Alloc installs, as long
\* as the chains are whole.
AllocOk(p) ==
    pc[p] \in Allocating =>
        /\ op[p] \in {"Get", "Prealloc"}
        /\ ~Broken => \A s \in Slot :
              MatchKey(p, s) => s = node[p] /\ pc[p] \in Rewriting

\* A loaded reference leaves room for one more, and a verified pin is on its
\* key.
PinOk(p) ==
    /\ pc[p] \in {"peek", "cas"} => seen[p] + 1 < Claimed
    /\ pc[p] \in {"own", "reset"} \cup Holding => MatchKey(p, node[p])

\* The owner, and only the owner, is between its Get and the end of its fill.
OwnerOk(p) ==
    /\ owner[p] => pc[p] \in {"hold", "filled", "kept", "deadPin"}
    /\ pc[p] \in {"hold", "filled"} => owner[p] /\ state[node[p]] = "Loading"
    /\ pc[p] = "reset" =>
          op[p] = "Get" /\ seen[p] = 0 /\ state[node[p]] = "Failed"
    /\ pc[p] = "filled" => data[node[p]] = want[p]

ProcInv ==
    \A p \in Proc : LockOk(p) /\ WriteOk(p) /\ AllocOk(p) /\ PinOk(p) /\ OwnerOk(p)

\* Who owns a slot, or is first to have pinned it and may come to own it: no
\* two at a time.
First(p) ==
    /\ pc[p] \in Pinned
    /\ owner[p] \/ (pc[p] \in Pinning /\ seen[p] = 0)

FirstInv ==
    \A p, q \in Proc : First(p) /\ First(q) /\ node[p] = node[q] => p = q

DataInv == \A s \in Slot : state[s] = "Ready" => data[s] = key[s] \/ Dirty(s)

KeyInv ==
    ~Broken => \A s, t \in Slot :
        /\ s # t /\ hash[s] # NONE /\ hash[s] = hash[t] /\ key[s] = key[t]
        => Dirty(s) \/ Dirty(t)

IInv ==
    TypeOK /\ ReferenceExact /\ ProcInv /\ FirstInv /\ DataInv /\ KeyInv

----------------------------------------------------------------------------
(* What the refinement needs besides the inductive invariant IInv          *)

\* A call that is over has no key, Alloc works on a slot of its own segment,
\* and an owner that is about to release has ended its fill.
CallsOk ==
    \A p \in Proc :
        /\ pc[p] = "idle" => want[p] = NONE
        /\ pc[p] \in {"claim"} \cup Claiming => node[p] \in Usable[p]
        /\ pc[p] = "kept" /\ owner[p] => state[node[p]] # "Loading"

\* A slot has a key for the callers from the store that publishes it until
\* Alloc begins to rewrite its words.
Findable(s) == hash[s] # NONE /\ ~Dirty(s)

\* A slot that lookups can find is in the chain of its key.
FindableOk ==
    \A s \in Slot : Findable(s) => key[s] \in Key /\ hash[s] = HashKey[key[s]]

StoreInv == CallsOk /\ FindableOk
=============================================================================
