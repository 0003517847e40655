-------------------------- MODULE CacheBufferSteps --------------------------
(* What the steps of the Cache2 slot protocol change and leave alone, for  *)
(* every set of processes, slots and keys and every hash: the part of the  *)
(* proofs that goes action by action.  It ends with type correctness.      *)
EXTENDS CacheBuffer, FiniteSetTheorems, TLAPS

(***************************************************************************)
(* The pins of a slot are a finite set.                                    *)
(***************************************************************************)
LEMMA PinsFinite ==
    \A s : IsFiniteSet(Pins(s)) /\ Cardinality(Pins(s)) \in Nat
<1>1. ASSUME NEW s PROVE IsFiniteSet(Pins(s)) /\ Cardinality(Pins(s)) \in Nat
  <2>1. Pins(s) \subseteq Proc
    BY DEF Pins
  <2> QED BY <2>1, ConstantsAssumption, FS_Subset, FS_CardinalityType
<1> QED BY <1>1

(***************************************************************************)
(* A pinned slot has a positive reference word below Claimed, and a        *)
(* claimed one has no pins.                                                *)
(***************************************************************************)
LEMMA PinnedReference ==
    ASSUME TypeOK, ReferenceExact, NEW p \in Proc, pc[p] \in Pinned
    PROVE  /\ node[p] \in Slot
           /\ reference[node[p]] \in 1 .. (Claimed - 1)
           /\ Claims(node[p]) = {}
<1> DEFINE s == node[p]
<1>1. s \in Slot
  BY DEF TypeOK
<1>2. p \in Pins(s)
  BY DEF Pins
<1>3. reference[s] # Claimed
  BY <1>1, <1>2 DEF ReferenceExact
<1>4. Claims(s) = {} /\ reference[s] = Cardinality(Pins(s))
  BY <1>1, <1>3 DEF ReferenceExact
<1>5. Cardinality(Pins(s)) # 0
  BY <1>2, PinsFinite, FS_EmptySet
<1>6. reference[s] \in 0 .. Claimed
  BY <1>1 DEF TypeOK
<1> QED BY <1>1, <1>3, <1>4, <1>5, <1>6, ConstantsAssumption

(***************************************************************************)
(* A slot claimed by p has the reference word Claimed, no pins and no      *)
(* other claim.                                                            *)
(***************************************************************************)
LEMMA ClaimedReference ==
    ASSUME TypeOK, ReferenceExact, NEW p \in Proc, pc[p] \in Claiming
    PROVE  /\ node[p] \in Slot
           /\ reference[node[p]] = Claimed
           /\ Pins(node[p]) = {}
           /\ Claims(node[p]) = {p}
<1> DEFINE s == node[p]
<1>1. s \in Slot
  BY DEF TypeOK
<1>2. p \in Claims(s)
  BY DEF Claims
<1>3. reference[s] = Claimed
  BY <1>1, <1>2 DEF ReferenceExact
<1>4. Pins(s) = {} /\ \E q \in Proc : Claims(s) = {q}
  BY <1>1, <1>3 DEF ReferenceExact
<1> QED BY <1>1, <1>2, <1>3, <1>4

(***************************************************************************)
(* The places of a process, as one set.                                    *)
(***************************************************************************)
LEMMA StepNames ==
    {"idle", "lookup", "tryLock", "lock", "find", "dead", "deadPin",
     "deadClaim", "deadLink", "match", "load", "peek", "cas", "recheck", "undo", "own",
     "reset", "hold", "filled", "kept", "drop", "fetch", "claim", "evict",
     "unclaim", "remove", "word0", "word1", "init", "link", "publish"} = PC
BY DEF PC, Pinned, Pinning, Holding, Claiming, Rewriting, Allocating,
       PinHitSteps, Dead

(***************************************************************************)
(* After a miss a process looks up again or goes for the lock.             *)
(***************************************************************************)
LEMMA AfterMissStep ==
    ASSUME NEW p \in Proc
    PROVE  AfterMiss(p) \in {"lookup", "tryLock", "lock"}
BY DEF AfterMiss

\* g is f, or f with a new value from S at x.
Sets(f, g, x, S) == g = f \/ \E v \in S : g = [f EXCEPT ![x] = v]

(***************************************************************************)
(* An update at one argument keeps the type of a function and the values   *)
(* at the others.                                                          *)
(***************************************************************************)
LEMMA SetsType ==
    ASSUME NEW A, NEW B, NEW f \in [A -> B], NEW g, NEW x, NEW S, S \subseteq B,
           Sets(f, g, x, S)
    PROVE  g \in [A -> B] /\ \A y \in A \ {x} : g[y] = f[y]
<1>1. CASE g = f
  BY <1>1
<1>2. ASSUME NEW v \in S, g = [f EXCEPT ![x] = v]
      PROVE  g \in [A -> B] /\ \A y \in A \ {x} : g[y] = f[y]
  BY <1>2, ZenonT(60)
<1> QED BY <1>1, <1>2 DEF Sets

(***************************************************************************)
(* A step of p assigns only p's own locals, and keeps them in range.       *)
(***************************************************************************)
Updates(p) ==
    /\ Sets(pc, pc', p, PC)
    /\ Sets(op, op', p, Op \cup {NONE})
    /\ Sets(want, want', p, Key \cup {NONE})
    /\ Sets(node, node', p, Slot \cup {NONE})
    /\ Sets(seen, seen', p, 0 .. Claimed)
    /\ Sets(owner, owner', p, BOOLEAN)

LEMMA StepUpdates ==
    ASSUME TypeOK, NEW p \in Proc, Step(p)
    PROVE  Updates(p)
<1> USE DEF Goto, meta, local, Updates, Sets
<1>a. 0 \in 0 .. Claimed /\ NONE \in Op \cup {NONE} /\ NONE \in Key \cup {NONE}
      /\ NONE \in Slot \cup {NONE} /\ TRUE \in BOOLEAN /\ FALSE \in BOOLEAN
  BY ConstantsAssumption
<1>b. AfterMiss(p) \in PC
  BY AfterMissStep, StepNames
<1>1. CASE Begin(p)
  <2>1. Ops[p] \subseteq Op
    BY ConstantsAssumption
  <2> QED BY <1>1, <2>1, StepNames, Zenon DEF Begin
<1>2. CASE LookupOptimistic(p)
  BY <1>2, <1>b, StepNames, Zenon DEF LookupOptimistic
<1>3. CASE PinMatch(p)
  BY <1>3, <1>a, <1>b, StepNames, Zenon DEF PinMatch, Miss
<1>4. CASE PinLoad(p)
  <2>1. reference[node[p]] \in 0 .. Claimed
    BY <1>4 DEF PinLoad, TypeOK, PinHitSteps
  <2>2. CASE Spin(p) \/ Miss(p)
    BY <1>4, <2>2, <1>a, <1>b, StepNames, Zenon DEF PinLoad, Spin, Miss
  <2>3. CASE ~(Spin(p) \/ Miss(p))
    BY <1>4, <2>1, <2>3, StepNames, Zenon DEF PinLoad
  <2> QED BY <2>2, <2>3, Zenon
<1>5. CASE PinPeek(p)
  BY <1>5, <1>a, <1>b, StepNames, Zenon DEF PinPeek, Miss
<1>6. CASE PinCas(p)
  BY <1>6, <1>a, <1>b, StepNames, Zenon DEF PinCas, Spin, Miss
<1>7. CASE PinRecheck(p)
  BY <1>7, StepNames, Zenon DEF PinRecheck
<1>8. CASE PinUndo(p)
  BY <1>8, <1>a, <1>b, StepNames, Zenon DEF PinUndo, Miss
<1>9. CASE PinOwn(p)
  <2>1. CASE pc' = [pc EXCEPT ![p] = "reset"] /\ UNCHANGED <<seen, owner>>
    BY <1>9, <2>1, StepNames, Zenon DEF PinOwn
  <2>2. ASSUME NEW own \in BOOLEAN, PinReturn(p, own) PROVE Updates(p)
    BY <1>9, <2>2, <1>a, StepNames, Zenon DEF PinOwn, PinReturn
  <2> QED BY <1>9, <2>1, <2>2, Zenon DEF PinOwn
<1>10. CASE PinReset(p)
  BY <1>10, <1>a, StepNames, Zenon DEF PinReset, PinReturn
<1>11. CASE TryLock(p)
  BY <1>11, <1>a, StepNames, Zenon DEF TryLock, Return
<1>12. CASE Lock(p)
  BY <1>12, StepNames, Zenon DEF Lock
<1>13. CASE Lookup(p)
  BY <1>13, <1>a, StepNames, Zenon DEF Lookup, Return
<1>14. CASE FetchNode(p)
  <2>1. CASE NextScan(p)
    BY <1>14, <2>1, <1>a, StepNames, Zenon DEF FetchNode, NextScan, AllocFails, Return
  <2>2. CASE ~NextScan(p)
    <3>1. Usable[p] \subseteq Slot
      BY ConstantsAssumption
    <3> QED BY <1>14, <2>2, <3>1, StepNames, Zenon DEF FetchNode
  <2> QED BY <2>1, <2>2
<1>15. CASE Claim(p)
  BY <1>15, <1>a, StepNames, Zenon DEF Claim, NextScan, AllocFails, Return
<1>16. CASE Evict(p)
  BY <1>16, StepNames, Zenon DEF Evict
<1>17. CASE Unclaim(p)
  BY <1>17, <1>a, StepNames, Zenon DEF Unclaim, NextScan, AllocFails, Return
<1>18. CASE Remove(p)
  BY <1>18, StepNames, Zenon DEF Remove
<1>19. CASE StoreBlock(p)
  BY <1>19, StepNames, Zenon DEF StoreBlock
<1>20. CASE StoreOffset(p)
  BY <1>20, StepNames, Zenon DEF StoreOffset
<1>21. CASE InitState(p)
  BY <1>21, StepNames, Zenon DEF InitState
<1>22. CASE MoveTo(p)
  BY <1>22, StepNames, Zenon DEF MoveTo
<1>23. CASE Publish(p)
  BY <1>23, <1>a, StepNames, Zenon DEF Publish, Return
<1>24. CASE Fill(p)
  BY <1>24, StepNames, Zenon DEF Fill
<1>25. CASE MarkReady(p)
  BY <1>25, StepNames, Zenon DEF MarkReady
<1>26. CASE MarkFailed(p)
  BY <1>26, StepNames, Zenon DEF MarkFailed
<1>27. CASE Release(p)
  BY <1>27, <1>a, StepNames, Zenon DEF Release, Return
<1> QED BY ZenonT(60), <1>1, <1>2, <1>3, <1>4, <1>5, <1>6, <1>7, <1>8, <1>9, <1>10, <1>11,
           <1>12, <1>13, <1>14, <1>15, <1>16, <1>17, <1>18, <1>19, <1>20,
           <1>21, <1>22, <1>23, <1>24, <1>25, <1>26, <1>27 DEF Step

(***************************************************************************)
(* Giving up the home stripe's lock changes it only if p holds it.         *)
(***************************************************************************)
LEMMA UnlockedEffect ==
    ASSUME TypeOK, NEW p \in Proc, Target(p) \in Stripe
    PROVE  \/ Unlocked(p) = lock
           \/ /\ lock[Target(p)] = p
              /\ Unlocked(p) = [lock EXCEPT ![Target(p)] = NONE]
BY ZenonT(60) DEF TypeOK, Unlocked

\* The effect of a step on the bucket locks: on one, which is free or p's.
SetsLock(p) ==
    \/ lock' = lock
    \/ \E l \in Stripe, v \in {NONE, p} :
          lock[l] \in {NONE, p} /\ lock' = [lock EXCEPT ![l] = v]

(***************************************************************************)
(* Where a step may write.                                                 *)
(***************************************************************************)
LEMMA StepPlaces ==
    ASSUME NEW p \in Proc, Step(p)
    PROVE  /\ pc[p] \notin {"cas", "undo", "claim", "unclaim", "publish", "kept",
                            "drop"} => reference' = reference
           /\ pc[p] \notin {"word0", "word1"} => key' = key
           /\ pc[p] \notin {"remove", "link"} => hash' = hash
           /\ pc[p] \notin {"reset", "init", "hold", "filled"} => state' = state
           /\ pc[p] # "hold" => data' = data
<1>1. CASE Begin(p)
  BY <1>1 DEF Begin, meta
<1>2. CASE LookupOptimistic(p)
  BY <1>2 DEF LookupOptimistic, meta
<1>3. CASE PinMatch(p)
  BY <1>3 DEF PinMatch, meta
<1>4. CASE PinLoad(p)
  BY <1>4 DEF PinLoad, meta
<1>5. CASE PinPeek(p)
  BY <1>5 DEF PinPeek, meta
<1>6. CASE PinCas(p)
  BY <1>6 DEF PinCas, meta
<1>7. CASE PinRecheck(p)
  BY <1>7 DEF PinRecheck, meta
<1>8. CASE PinUndo(p)
  BY <1>8 DEF PinUndo, meta
<1>9. CASE PinOwn(p)
  BY <1>9 DEF PinOwn, meta
<1>10. CASE PinReset(p)
  BY <1>10 DEF PinReset, meta
<1>11. CASE TryLock(p)
  BY <1>11 DEF TryLock, meta
<1>12. CASE Lock(p)
  BY <1>12 DEF Lock, meta
<1>13. CASE Lookup(p)
  BY <1>13 DEF Lookup, meta
<1>14. CASE FetchNode(p)
  BY <1>14 DEF FetchNode, meta
<1>15. CASE Claim(p)
  BY <1>15 DEF Claim, meta
<1>16. CASE Evict(p)
  BY <1>16 DEF Evict, meta
<1>17. CASE Unclaim(p)
  BY <1>17 DEF Unclaim, meta
<1>18. CASE Remove(p)
  BY <1>18 DEF Remove, meta
<1>19. CASE StoreBlock(p)
  BY <1>19 DEF StoreBlock, meta
<1>20. CASE StoreOffset(p)
  BY <1>20 DEF StoreOffset, meta
<1>21. CASE InitState(p)
  BY <1>21 DEF InitState, meta
<1>22. CASE MoveTo(p)
  BY <1>22 DEF MoveTo, meta
<1>23. CASE Publish(p)
  BY <1>23 DEF Publish, meta
<1>24. CASE Fill(p)
  BY <1>24 DEF Fill, meta
<1>25. CASE MarkReady(p)
  BY <1>25 DEF MarkReady, meta
<1>26. CASE MarkFailed(p)
  BY <1>26 DEF MarkFailed, meta
<1>27. CASE Release(p)
  BY <1>27 DEF Release, meta
<1> QED BY ZenonT(60), <1>1, <1>2, <1>3, <1>4, <1>5, <1>6, <1>7, <1>8, <1>9, <1>10, <1>11,
           <1>12, <1>13, <1>14, <1>15, <1>16, <1>17, <1>18, <1>19, <1>20,
           <1>21, <1>22, <1>23, <1>24, <1>25, <1>26, <1>27 DEF Step

(***************************************************************************)
(* Where a process is tells which action it takes.                         *)
(***************************************************************************)
LEMMA StepAt ==
    ASSUME NEW p \in Proc, Step(p)
    PROVE  /\ pc[p] = "cas" => PinCas(p)
           /\ pc[p] = "recheck" => PinRecheck(p)
           /\ pc[p] = "undo" => PinUndo(p)
           /\ pc[p] = "own" => PinOwn(p)
           /\ pc[p] = "reset" => PinReset(p)
           /\ pc[p] = "claim" => Claim(p)
           /\ pc[p] = "unclaim" => Unclaim(p)
           /\ pc[p] = "remove" => Remove(p)
           /\ pc[p] = "word0" => StoreBlock(p)
           /\ pc[p] = "word1" => StoreOffset(p)
           /\ pc[p] = "init" => InitState(p)
           /\ pc[p] = "link" => MoveTo(p)
           /\ pc[p] = "publish" => Publish(p)
           /\ pc[p] = "hold" => Fill(p) \/ MarkFailed(p)
           /\ pc[p] = "filled" => MarkReady(p) \/ MarkFailed(p)
           /\ pc[p] \in {"kept", "drop"} => Release(p)
           /\ pc[p] \notin Dead
BY Zenon
   DEF Step, Begin, LookupOptimistic, PinMatch, PinLoad, PinPeek, PinCas,
       PinRecheck, PinUndo, PinOwn, PinReset, TryLock, Lock, Lookup, FetchNode,
       Claim, Evict, Unclaim, Remove, MoveTo, StoreBlock, StoreOffset,
       InitState, Publish, Fill, MarkReady, MarkFailed, Release, Dead

(***************************************************************************)
(* A step changes at most one bucket lock, and never one that another      *)
(* process holds.                                                          *)
(***************************************************************************)
LEMMA StepLocks ==
    ASSUME TypeOK, ProcInv, NEW p \in Proc, Step(p)
    PROVE  SetsLock(p)
<1> USE DEF SetsLock, meta, local
<1>a. pc[p] # "idle" => Target(p) \in Stripe
  BY ConstantsAssumption DEF TypeOK, Target, Home
<1>b. ASSUME lock' = Unlocked(p), pc[p] # "idle" PROVE SetsLock(p)
  BY <1>a, <1>b, UnlockedEffect
<1>1. CASE Begin(p)
  BY <1>1 DEF Begin
<1>2. CASE LookupOptimistic(p)
  BY <1>2 DEF LookupOptimistic
<1>3. CASE PinMatch(p)
  BY <1>b, <1>3 DEF PinMatch, Miss
<1>4. CASE PinLoad(p)
  BY <1>b, <1>4 DEF PinLoad, Spin, Miss
<1>5. CASE PinPeek(p)
  BY <1>b, <1>5 DEF PinPeek, Miss
<1>6. CASE PinCas(p)
  BY <1>b, <1>6 DEF PinCas, Spin, Miss
<1>7. CASE PinRecheck(p)
  BY <1>7 DEF PinRecheck
<1>8. CASE PinUndo(p)
  BY <1>b, <1>8 DEF PinUndo, Miss
<1>9. CASE PinOwn(p)
  BY <1>b, <1>9 DEF PinOwn, PinReturn
<1>10. CASE PinReset(p)
  BY <1>b, <1>10 DEF PinReset, PinReturn
<1>11. CASE TryLock(p)
  <2>1. lock' = lock \/ (lock[Target(p)] = NONE /\ lock' = [lock EXCEPT ![Target(p)] = p])
    BY <1>11 DEF TryLock
  <2> QED BY <1>a, <1>11, <2>1 DEF TryLock
<1>12. CASE Lock(p)
  BY <1>a, <1>12, Zenon DEF Lock
<1>13. CASE Lookup(p)
  BY <1>b, <1>13 DEF Lookup
<1>14. CASE FetchNode(p)
  BY <1>b, <1>14 DEF FetchNode, NextScan, AllocFails
<1>15. CASE Claim(p)
  BY <1>b, <1>15 DEF Claim, NextScan, AllocFails
<1>16. CASE Evict(p)
  <2>1. CASE lock' = lock
    BY <2>1
  <2>2. CASE lock' # lock
    <3> DEFINE l == LockOf[hash[node[p]]]
    <3>1. lock[l] \in {NONE, p} /\ lock' = [lock EXCEPT ![l] = p] /\ hash[node[p]] # NONE
      BY <1>16, <2>2 DEF Evict
    <3>2. l \in Stripe
      BY <1>16, <3>1, ConstantsAssumption, ZenonT(60) DEF Evict, TypeOK, Claiming
    <3> QED BY <3>1, <3>2, ZenonT(60)
  <2> QED BY <2>1, <2>2
<1>17. CASE Unclaim(p)
  BY <1>b, <1>17 DEF Unclaim, NextScan, AllocFails
<1>18. CASE Remove(p)
  <2> DEFINE l == LockOf[hash[node[p]]]
  <2>1. lock[l] = p /\ hash[node[p]] \in Bucket
    BY <1>18 DEF Remove, ProcInv, LockOk
  <2>2. l \in Stripe
    BY <2>1, ConstantsAssumption
  <2>3. lock' = lock \/ lock' = [lock EXCEPT ![l] = NONE]
    BY <1>18 DEF Remove
  <2> QED BY <2>1, <2>2, <2>3, Zenon
<1>19. CASE StoreBlock(p)
  BY <1>19 DEF StoreBlock
<1>20. CASE StoreOffset(p)
  BY <1>20 DEF StoreOffset
<1>21. CASE InitState(p)
  BY <1>21 DEF InitState
<1>22. CASE MoveTo(p)
  BY <1>22 DEF MoveTo
<1>23. CASE Publish(p)
  BY <1>b, <1>23 DEF Publish
<1>24. CASE Fill(p)
  BY <1>24 DEF Fill
<1>25. CASE MarkReady(p)
  BY <1>25 DEF MarkReady
<1>26. CASE MarkFailed(p)
  BY <1>26 DEF MarkFailed
<1>27. CASE Release(p)
  BY <1>27 DEF Release
<1> QED BY ZenonT(60), <1>1, <1>2, <1>3, <1>4, <1>5, <1>6, <1>7, <1>8, <1>9, <1>10, <1>11,
           <1>12, <1>13, <1>14, <1>15, <1>16, <1>17, <1>18, <1>19, <1>20,
           <1>21, <1>22, <1>23, <1>24, <1>25, <1>26, <1>27 DEF Step

\* The part of TypeOK about the slots.
SlotType ==
    /\ reference \in [Slot -> 0 .. Claimed]
    /\ key \in [Slot -> (Block \cup {NONE}) \X (Offset \cup {NONE})]
    /\ hash \in [Slot -> Bucket \cup {NONE}]
    /\ state \in [Slot -> State]
    /\ accessed \in [Slot -> BOOLEAN]
    /\ data \in [Slot -> Key \cup {NONE}]

(***************************************************************************)
(* A step keeps the types of SlotMeta: a reference word is never           *)
(* decremented below 0 nor incremented beyond Claimed.                     *)
(***************************************************************************)
LEMMA SlotTypeStep ==
    ASSUME IInv, NEW p \in Proc, Step(p)
    PROVE  SlotType'
<1>1. SlotType
  BY DEF IInv, TypeOK, SlotType
<1>2. pc[p] \in PinHitSteps \cup Pinned \cup Claiming \cup {"claim"} =>
        node[p] \in Slot /\ want[p] \in Key /\ Home(p) \in Bucket
  BY StepNames, ConstantsAssumption
     DEF IInv, TypeOK, Home, PinHitSteps, Pinned, Pinning, Holding, Claiming, Rewriting
<1>3. reference' \in [Slot -> 0 .. Claimed]
  <2>1. CASE reference' = reference
    BY <1>1, <2>1 DEF SlotType
  <2>2. CASE pc[p] = "cas" /\ reference' # reference
    <3>1. seen[p] + 1 < Claimed /\ seen[p] \in 0 .. Claimed
      BY <2>2, ZenonT(60) DEF IInv, TypeOK, ProcInv, PinOk
    <3>2. reference' = [reference EXCEPT ![node[p]] = seen[p] + 1]
      BY <2>2, StepAt, Zenon DEF PinCas
    <3>3. seen[p] + 1 \in 0 .. Claimed
      BY <3>1, ConstantsAssumption
    <3> QED BY <1>1, <3>2, <3>3, Zenon DEF SlotType
  <2>3. CASE pc[p] \in {"undo", "kept", "drop"}
    <3>1. node[p] \in Slot /\ reference[node[p]] - 1 \in 0 .. Claimed
      BY <2>3, PinnedReference, ConstantsAssumption, SMTT(30) DEF IInv, Pinned, Pinning, Holding
    <3>2. reference' = [reference EXCEPT ![node[p]] = @ - 1]
      BY <2>3, StepAt, Zenon DEF PinUndo, Release
    <3> QED BY <1>1, <3>1, <3>2 DEF SlotType
  <2>4. CASE pc[p] \in {"claim", "unclaim", "publish"} /\ reference' # reference
    <3>1. PICK r \in {0, 1, Claimed} : reference' = [reference EXCEPT ![node[p]] = r]
      BY <2>4, StepAt, Zenon DEF Claim, Unclaim, Publish
    <3>2. r \in 0 .. Claimed
      BY ConstantsAssumption
    <3> QED BY <1>1, <3>1, <3>2, Zenon DEF SlotType
  <2> QED BY <2>1, <2>2, <2>3, <2>4, StepPlaces
<1>4. key' \in [Slot -> (Block \cup {NONE}) \X (Offset \cup {NONE})]
  <2>1. CASE pc[p] \notin {"word0", "word1"}
    BY <1>1, <2>1, StepPlaces DEF SlotType
  <2>2. CASE pc[p] \in {"word0", "word1"}
    <3>1. node[p] \in Slot /\ want[p] \in Block \X Offset
      BY <1>2, <2>2 DEF Claiming, Rewriting, Key
    <3>2. PICK x \in Block \cup {NONE}, y \in Offset \cup {NONE} : key[node[p]] = <<x, y>>
      BY <1>1, <3>1 DEF SlotType
    <3>3. PICK b \in Block, o \in Offset : want[p] = <<b, o>>
      BY <3>1
    <3>4. \/ key' = [key EXCEPT ![node[p]] = <<b, y>>]
          \/ key' = [key EXCEPT ![node[p]] = <<x, o>>]
      <4>1. \/ key' = [key EXCEPT ![node[p]] = <<want[p][1], key[node[p]][2]>>]
            \/ key' = [key EXCEPT ![node[p]] = <<key[node[p]][1], want[p][2]>>]
        BY <2>2, StepAt, Zenon DEF StoreBlock, StoreOffset
      <4>2. want[p][1] = b /\ want[p][2] = o /\ key[node[p]][1] = x /\ key[node[p]][2] = y
        BY <3>2, <3>3
      <4> QED BY <4>1, <4>2
    <3> QED BY <1>1, <3>4 DEF SlotType
  <2> QED BY <2>1, <2>2
<1>5. hash' \in [Slot -> Bucket \cup {NONE}]
  <2>1. CASE pc[p] \notin {"remove", "link"}
    BY <1>1, <2>1, StepPlaces DEF SlotType
  <2>2. CASE pc[p] \in {"remove", "link"}
    <3>1. Home(p) \in Bucket
      BY <1>2, <2>2, ZenonT(60) DEF Claiming, Rewriting
    <3>2. \/ hash' = [hash EXCEPT ![node[p]] = NONE]
          \/ hash' = [hash EXCEPT ![node[p]] = Home(p)]
      BY <2>2, StepAt, Zenon DEF Remove, MoveTo
    <3> QED BY <1>1, <3>1, <3>2 DEF SlotType
  <2> QED BY <2>1, <2>2
<1>6. state' \in [Slot -> State] /\ data' \in [Slot -> Key \cup {NONE}]
  <2>1. CASE pc[p] \notin {"reset", "init", "hold", "filled"}
    BY <1>1, <2>1, StepPlaces DEF SlotType
  <2>2. CASE pc[p] \in {"reset", "init", "hold", "filled"}
    <3>1. want[p] \in Key
      BY <1>2, <2>2 DEF Claiming, Rewriting, Pinned, Pinning, Holding
    <3>2. /\ \/ state' = state
             \/ state' = [state EXCEPT ![node[p]] = "Loading"]
             \/ state' = [state EXCEPT ![node[p]] = "Ready"]
             \/ state' = [state EXCEPT ![node[p]] = "Failed"]
          /\ data' = data \/ data' = [data EXCEPT ![node[p]] = want[p]]
      BY <2>2, StepAt, Zenon DEF PinReset, InitState, Fill, MarkReady, MarkFailed, meta
    <3> QED BY <1>1, <3>1, <3>2, Zenon DEF SlotType, State
  <2> QED BY <2>1, <2>2
<1>7. accessed' \in [Slot -> BOOLEAN]
  <2>1. \/ accessed' = accessed
        \/ \E s : accessed' = [accessed EXCEPT ![s] = TRUE]
        \/ \E s : accessed' = [accessed EXCEPT ![s] = FALSE]
    BY Zenon DEF Step, Begin, LookupOptimistic, PinMatch, PinLoad, PinPeek, PinCas,
       PinRecheck, PinUndo, PinOwn, PinReset, TryLock, Lock, Lookup, FetchNode,
       Claim, Evict, Unclaim, Remove, MoveTo, StoreBlock, StoreOffset,
       InitState, Publish, Fill, MarkReady, MarkFailed, Release, PinReturn,
       Touched, meta
  <2> QED BY <1>1, <2>1, Zenon DEF SlotType
<1> QED BY <1>3, <1>4, <1>5, <1>6, <1>7 DEF SlotType

\* What a step of p leaves alone: the other processes, the locks of the
\* others, and every slot but its own, whose words it changes only at the
\* steps named here.
Frame(p) ==
    /\ \A q \in Proc \ {p} :
         /\ pc'[q] = pc[q] /\ op'[q] = op[q] /\ want'[q] = want[q]
         /\ node'[q] = node[q] /\ seen'[q] = seen[q] /\ owner'[q] = owner[q]
    /\ \A l \in Stripe :
         lock'[l] # lock[l] => lock[l] \in {NONE, p} /\ lock'[l] \in {NONE, p}
    /\ \A s \in Slot :
         /\ key'[s] # key[s] => s = node[p] /\ pc[p] \in {"word0", "word1"}
         /\ hash'[s] # hash[s] => s = node[p] /\ pc[p] \in {"remove", "link"}
         /\ state'[s] # state[s] =>
              s = node[p] /\ pc[p] \in {"reset", "init", "hold", "filled"}
         /\ data'[s] # data[s] => s = node[p] /\ pc[p] = "hold"
         /\ reference'[s] # reference[s] => s = node[p]

(***************************************************************************)
(* Every step of a process stays within its frame.                         *)
(***************************************************************************)
LEMMA StepFrame ==
    ASSUME TypeOK, ProcInv, NEW p \in Proc, Step(p)
    PROVE  Frame(p)
<1>1. ASSUME NEW q \in Proc \ {p}
      PROVE  /\ pc'[q] = pc[q] /\ op'[q] = op[q] /\ want'[q] = want[q]
             /\ node'[q] = node[q] /\ seen'[q] = seen[q] /\ owner'[q] = owner[q]
  <2>1. Updates(p)
    BY StepUpdates
  <2>2. /\ pc \in [Proc -> PC] /\ op \in [Proc -> Op \cup {NONE}]
        /\ want \in [Proc -> Key \cup {NONE}] /\ node \in [Proc -> Slot \cup {NONE}]
        /\ seen \in [Proc -> 0 .. Claimed] /\ owner \in [Proc -> BOOLEAN]
    BY DEF TypeOK
  <2>3. pc'[q] = pc[q] /\ op'[q] = op[q]
    BY <2>1, <2>2, Zenon DEF Updates, Sets
  <2>4. want'[q] = want[q] /\ node'[q] = node[q]
    BY <2>1, <2>2, Zenon DEF Updates, Sets
  <2>5. seen'[q] = seen[q] /\ owner'[q] = owner[q]
    BY <2>1, <2>2, Zenon DEF Updates, Sets
  <2> QED BY <2>3, <2>4, <2>5
<1>2. ASSUME NEW l \in Stripe, lock'[l] # lock[l]
      PROVE  lock[l] \in {NONE, p} /\ lock'[l] \in {NONE, p}
  <2>1. lock \in [Stripe -> Proc \cup {NONE}]
    BY DEF TypeOK
  <2> QED BY <1>2, <2>1, StepLocks, ZenonT(60) DEF SetsLock
<1>3. ASSUME NEW s \in Slot
      PROVE  /\ key'[s] # key[s] => s = node[p] /\ pc[p] \in {"word0", "word1"}
             /\ hash'[s] # hash[s] => s = node[p] /\ pc[p] \in {"remove", "link"}
  <2>1. DOMAIN key = Slot /\ DOMAIN hash = Slot
    BY DEF TypeOK
  <2>2. pc[p] \in {"word0", "word1"} => \E k : key' = [key EXCEPT ![node[p]] = k]
    BY StepAt, Zenon DEF StoreBlock, StoreOffset
  <2>3. pc[p] \in {"remove", "link"} => \E h : hash' = [hash EXCEPT ![node[p]] = h]
    BY StepAt, Zenon DEF Remove, MoveTo
  <2> QED BY <2>1, <2>2, <2>3, StepPlaces, Zenon
<1>4. ASSUME NEW s \in Slot
      PROVE  /\ state'[s] # state[s] =>
                  s = node[p] /\ pc[p] \in {"reset", "init", "hold", "filled"}
             /\ data'[s] # data[s] => s = node[p] /\ pc[p] = "hold"
  <2>1. DOMAIN state = Slot /\ DOMAIN data = Slot
    BY DEF TypeOK
  <2>2. pc[p] \in {"reset", "init", "hold", "filled"} =>
          state' = state \/ \E v : state' = [state EXCEPT ![node[p]] = v]
    BY StepAt, Zenon DEF PinReset, InitState, Fill, MarkReady, MarkFailed, meta
  <2>3. pc[p] = "hold" => data' = data \/ \E v : data' = [data EXCEPT ![node[p]] = v]
    BY StepAt, Zenon DEF Fill, MarkFailed
  <2> QED BY <2>1, <2>2, <2>3, StepPlaces, Zenon
<1>5. ASSUME NEW s \in Slot, reference'[s] # reference[s] PROVE s = node[p]
  <2>1. DOMAIN reference = Slot
    BY DEF TypeOK
  <2>2. reference' = reference \/ \E r : reference' = [reference EXCEPT ![node[p]] = r]
    <3>1. pc[p] \in {"cas", "undo", "claim", "unclaim", "publish", "kept", "drop"} =>
          reference' = reference \/ \E r : reference' = [reference EXCEPT ![node[p]] = r]
      BY StepAt, ZenonT(60) DEF PinCas, PinUndo, Claim, Unclaim, Publish, Release
    <3> QED BY <3>1, StepPlaces, Zenon
  <2> QED BY <1>5, <2>1, <2>2, Zenon
<1> QED BY <1>1, <1>2, <1>3, <1>4, <1>5, Zenon DEF Frame

\* The places where a process works on a slot.
WithSlot == PinHitSteps \cup Pinned \cup Claiming \cup {"claim"}

\* A step keeps the slot, takes one, or ends where none is needed.
Lands(p) ==
    \/ node' = node /\ pc[p] \in WithSlot
    \/ \E s \in Slot : node' = [node EXCEPT ![p] = s]
    \/ \E l \in {"idle", "lookup", "tryLock", "lock", "find", "fetch"} :
          pc' = [pc EXCEPT ![p] = l]

(***************************************************************************)
(* A step keeps the slot of its process, takes one, or gives it up.        *)
(***************************************************************************)
LEMMA StepLands ==
    ASSUME NEW p \in Proc, Step(p)
    PROVE  Lands(p)
<1> USE DEF Goto, local, Lands
<1>a. WithSlot = {"match", "load", "peek", "cas", "recheck", "undo", "own", "reset",
                  "hold", "filled", "kept", "drop", "deadPin", "evict", "unclaim",
                  "remove", "word0", "word1", "init", "link", "publish",
                  "deadClaim", "deadLink", "claim"}
  BY DEF WithSlot, PinHitSteps, Pinned, Pinning, Holding, Claiming, Rewriting
<1>b. AfterMiss(p) \in {"lookup", "tryLock", "lock"}
  BY AfterMissStep
<1>1. CASE Begin(p)
  BY <1>1, Zenon DEF Begin
<1>2. CASE LookupOptimistic(p)
  BY <1>2, <1>a, <1>b, Zenon DEF LookupOptimistic
<1>3. CASE PinMatch(p)
  BY <1>3, <1>a, <1>b, Zenon DEF PinMatch, Miss
<1>4. CASE PinLoad(p)
  BY <1>4, <1>a, <1>b, Zenon DEF PinLoad, Miss, Spin
<1>5. CASE PinPeek(p)
  BY <1>5, <1>a, <1>b, Zenon DEF PinPeek, Miss
<1>6. CASE PinCas(p)
  BY <1>6, <1>a, <1>b, Zenon DEF PinCas, Miss, Spin
<1>7. CASE PinRecheck(p)
  BY <1>7, <1>a, Zenon DEF PinRecheck
<1>8. CASE PinUndo(p)
  BY <1>8, <1>a, <1>b, Zenon DEF PinUndo, Miss
<1>9. CASE PinOwn(p)
  BY <1>9, <1>a, Zenon DEF PinOwn, PinReturn
<1>10. CASE PinReset(p)
  BY <1>10, <1>a, Zenon DEF PinReset, PinReturn
<1>11. CASE TryLock(p)
  BY <1>11, <1>a, Zenon DEF TryLock, Return
<1>12. CASE Lock(p)
  BY <1>12, Zenon DEF Lock
<1>13. CASE Lookup(p)
  BY <1>13, <1>a, Zenon DEF Lookup, Return
<1>14. CASE FetchNode(p)
  <2>1. CASE NextScan(p)
    BY <2>1, Zenon DEF NextScan, AllocFails, Return
  <2>2. CASE ~NextScan(p)
    <3>1. Usable[p] \subseteq Slot
      BY ConstantsAssumption
    <3> QED BY <1>14, <2>2, <3>1, Zenon DEF FetchNode
  <2> QED BY <2>1, <2>2
<1>15. CASE Claim(p)
  BY <1>15, <1>a, Zenon DEF Claim, NextScan, AllocFails, Return
<1>16. CASE Evict(p)
  BY <1>16, <1>a, Zenon DEF Evict
<1>17. CASE Unclaim(p)
  BY <1>17, <1>a, Zenon DEF Unclaim, NextScan, AllocFails, Return
<1>18. CASE Remove(p)
  BY <1>18, <1>a, Zenon DEF Remove
<1>19. CASE StoreBlock(p)
  BY <1>19, <1>a, Zenon DEF StoreBlock
<1>20. CASE StoreOffset(p)
  BY <1>20, <1>a, Zenon DEF StoreOffset
<1>21. CASE InitState(p)
  BY <1>21, <1>a, Zenon DEF InitState
<1>22. CASE MoveTo(p)
  BY <1>22, <1>a, Zenon DEF MoveTo
<1>23. CASE Publish(p)
  BY <1>23, <1>a, Zenon DEF Publish, Return
<1>24. CASE Fill(p)
  BY <1>24, <1>a, Zenon DEF Fill
<1>25. CASE MarkReady(p)
  BY <1>25, <1>a, Zenon DEF MarkReady
<1>26. CASE MarkFailed(p)
  BY <1>26, <1>a, Zenon DEF MarkFailed
<1>27. CASE Release(p)
  BY <1>27, <1>a, Zenon DEF Release, Return
<1> QED BY ZenonT(60), <1>1, <1>2, <1>3, <1>4, <1>5, <1>6, <1>7, <1>8, <1>9, <1>10, <1>11,
           <1>12, <1>13, <1>14, <1>15, <1>16, <1>17, <1>18, <1>19, <1>20,
           <1>21, <1>22, <1>23, <1>24, <1>25, <1>26, <1>27 DEF Step

(***************************************************************************)
(* A process that is in a call has the call and its key, and one that      *)
(* works on a slot has the slot.                                           *)
(***************************************************************************)
LEMMA StepLocals ==
    ASSUME TypeOK, NEW p \in Proc, Step(p)
    PROVE  /\ pc'[p] # "idle" => op'[p] \in Op /\ want'[p] \in Key
           /\ pc'[p] \in WithSlot
                => node'[p] \in Slot
<1>1. /\ pc \in [Proc -> PC] /\ op \in [Proc -> Op \cup {NONE}]
      /\ want \in [Proc -> Key \cup {NONE}] /\ node \in [Proc -> Slot \cup {NONE}]
      /\ pc[p] # "idle" => op[p] \in Op /\ want[p] \in Key
      /\ pc[p] \in WithSlot => node[p] \in Slot
  BY DEF TypeOK, WithSlot
<1>2. pc'[p] # "idle" => op'[p] \in Op /\ want'[p] \in Key
  <2>1. CASE Begin(p)
    BY <1>1, <2>1, ConstantsAssumption, Zenon DEF Begin
  <2>2. CASE ~Begin(p)
    <3>1. pc[p] # "idle" /\ (UNCHANGED <<op, want>> \/ Return(p))
      BY <2>2, Zenon DEF Step, LookupOptimistic, PinMatch, PinLoad, PinPeek, PinCas,
       PinRecheck, PinUndo, PinOwn, PinReset, TryLock, Lock, Lookup, FetchNode,
       Claim, Evict, Unclaim, Remove, MoveTo, StoreBlock, StoreOffset,
       InitState, Publish, Fill, MarkReady, MarkFailed, Release, NextScan,
       AllocFails, local
    <3>2. Return(p) => pc'[p] = "idle"
      BY <1>1 DEF Return, Goto
    <3> QED BY <1>1, <3>1, <3>2
  <2> QED BY <2>1, <2>2
<1>3. ASSUME pc'[p] \in WithSlot
      PROVE  node'[p] \in Slot
  <2>1. Lands(p)
    BY StepLands
  <2>2. ASSUME NEW l \in {"idle", "lookup", "tryLock", "lock", "find", "fetch"},
               pc' = [pc EXCEPT ![p] = l]
        PROVE  FALSE
    BY <1>1, <1>3, <2>2 DEF WithSlot, PinHitSteps, Pinned, Pinning, Holding, Claiming, Rewriting
  <2>3. CASE node' = node /\ pc[p] \in WithSlot
    BY <1>1, <2>3
  <2>4. ASSUME NEW s \in Slot, node' = [node EXCEPT ![p] = s] PROVE node'[p] \in Slot
    BY <1>1, <2>4
  <2> QED BY <2>1, <2>2, <2>3, <2>4, Zenon DEF Lands
<1> QED BY <1>2, <1>3

(***************************************************************************)
(* Every step keeps the type invariant.                                    *)
(***************************************************************************)
LEMMA TypeStep ==
    ASSUME IInv, Next
    PROVE  TypeOK'
<1>1. CASE Touch
  BY <1>1 DEF Touch, IInv, TypeOK, local
<1>2. ASSUME NEW p \in Proc, Crash(p) PROVE TypeOK'
  <2>1. pc' \in [Proc -> PC]
    BY <1>2, StepNames DEF Crash, Goto, IInv, TypeOK
  <2>2. lock' \in [Stripe -> Proc \cup {NONE}]
    BY <1>2 DEF Crash, IInv, TypeOK
  <2>3. ASSUME NEW q \in Proc
        PROVE  /\ pc'[q] # "idle" => pc[q] # "idle"
               /\ pc'[q] \in PinHitSteps \cup Pinned \cup Claiming \cup {"claim"}
                    => pc[q] \in PinHitSteps \cup Pinned \cup Claiming \cup {"claim"}
    BY <1>2 DEF Crash, Goto, IInv, TypeOK, PinHitSteps, Pinned, Pinning, Holding,
                Claiming, Relinking, Rewriting, Dead
  <2> QED BY <1>2, <2>1, <2>2, <2>3 DEF Crash, IInv, TypeOK, meta, local
<1>3. ASSUME NEW p \in Proc, Step(p) PROVE TypeOK'
  <2>1. SlotType' /\ Frame(p) /\ Updates(p) /\ SetsLock(p)
    BY <1>3, SlotTypeStep, StepFrame, StepUpdates, StepLocks DEF IInv
  <2>2. /\ pc' \in [Proc -> PC] /\ op' \in [Proc -> Op \cup {NONE}]
        /\ want' \in [Proc -> Key \cup {NONE}] /\ node' \in [Proc -> Slot \cup {NONE}]
        /\ seen' \in [Proc -> 0 .. Claimed] /\ owner' \in [Proc -> BOOLEAN]
    <3>1. /\ pc \in [Proc -> PC] /\ op \in [Proc -> Op \cup {NONE}]
          /\ want \in [Proc -> Key \cup {NONE}] /\ node \in [Proc -> Slot \cup {NONE}]
          /\ seen \in [Proc -> 0 .. Claimed] /\ owner \in [Proc -> BOOLEAN]
      BY DEF IInv, TypeOK
    <3>2. pc' \in [Proc -> PC] /\ op' \in [Proc -> Op \cup {NONE}]
      BY <2>1, <3>1, SetsType, Zenon DEF Updates
    <3>3. want' \in [Proc -> Key \cup {NONE}] /\ node' \in [Proc -> Slot \cup {NONE}]
      BY <2>1, <3>1, SetsType, Zenon DEF Updates
    <3>4. seen' \in [Proc -> 0 .. Claimed] /\ owner' \in [Proc -> BOOLEAN]
      BY <2>1, <3>1, SetsType, Zenon DEF Updates
    <3> QED BY <3>2, <3>3, <3>4
  <2>3. lock' \in [Stripe -> Proc \cup {NONE}]
    <3>1. lock \in [Stripe -> Proc \cup {NONE}]
      BY DEF IInv, TypeOK
    <3> QED BY <2>1, <3>1 DEF SetsLock
  <2>4. ASSUME NEW q \in Proc
        PROVE  /\ pc'[q] # "idle" => op'[q] \in Op /\ want'[q] \in Key
               /\ pc'[q] \in WithSlot => node'[q] \in Slot
    <3>1. CASE q = p
      BY <1>3, <3>1, StepLocals DEF IInv
    <3>2. CASE q # p
      <4>1. /\ pc'[q] = pc[q] /\ op'[q] = op[q] /\ want'[q] = want[q]
            /\ node'[q] = node[q]
        BY <2>1, <3>2, ZenonT(60) DEF Frame
      <4> QED BY <4>1, ZenonT(60) DEF IInv, TypeOK, WithSlot
    <3> QED BY <3>1, <3>2
  <2> QED BY <2>1, <2>2, <2>3, <2>4 DEF SlotType, TypeOK, WithSlot
<1> QED BY <1>1, <1>2, <1>3, Zenon DEF Next
=============================================================================
