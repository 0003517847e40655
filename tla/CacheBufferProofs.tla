------------------------- MODULE CacheBufferProofs --------------------------
(* What a step of one call does to what the invariant says of the other    *)
(* calls, of a call inside Alloc and of the reference words, and what the  *)
(* callers may notice of it; then the invariance of the inductive          *)
(* invariant of CacheBuffer, and the theorems that follow from it.         *)
EXTENDS CacheBufferSteps

----------------------------------------------------------------------------
(* The other calls, and Alloc                                              *)

(***************************************************************************)
(* A process that holds or claims a slot keeps the others from changing    *)
(* its words: p rewrites only a slot it claimed, and sets the state only   *)
(* of one that it claimed or owns.                                         *)
(***************************************************************************)
LEMMA OthersWords ==
    ASSUME IInv, NEW p \in Proc, Step(p), Frame(p), NEW q \in Proc \ {p},
           pc[q] \in Pinned \cup Claiming
    PROVE  /\ key'[node[q]] = key[node[q]] /\ hash'[node[q]] = hash[node[q]]
           /\ First(q) \/ pc[q] \in Claiming =>
                /\ state'[node[q]] = state[node[q]]
                /\ data'[node[q]] = data[node[q]]
<1> USE DEF IInv
<1>1. node[q] \in Slot
  BY DEF TypeOK
<1>2. pc[q] \in Pinned => Claims(node[q]) = {}
  BY PinnedReference
<1>3. pc[q] \in Claiming => Claims(node[q]) = {q} /\ Pins(node[q]) = {}
  BY ClaimedReference
<1>4. ASSUME node[p] = node[q] PROVE pc[p] \notin Claiming
  BY <1>2, <1>3, <1>4 DEF Claims
<1>5. ASSUME node[p] = node[q], First(q) \/ pc[q] \in Claiming
      PROVE  pc[p] \notin {"reset", "hold", "filled"}
  <2>1. CASE pc[q] \in Claiming
    BY <1>3, <1>5, <2>1 DEF Pins, Pinned, Pinning, Holding
  <2>2. CASE First(q)
    BY <1>5, <2>2 DEF ProcInv, OwnerOk, FirstInv, First, Pinned, Pinning, Holding
  <2> QED BY <1>5, <2>1, <2>2
<1>6. key'[node[q]] = key[node[q]] /\ hash'[node[q]] = hash[node[q]]
  BY <1>1, <1>4 DEF Frame, Claiming, Rewriting
<1>7. ASSUME First(q) \/ pc[q] \in Claiming
      PROVE  state'[node[q]] = state[node[q]] /\ data'[node[q]] = data[node[q]]
  BY <1>1, <1>4, <1>5, <1>7 DEF Frame, Claiming, Rewriting
<1> QED BY <1>6, <1>7

(***************************************************************************)
(* Broken chains stay broken: the dead take no step.                       *)
(***************************************************************************)
LEMMA BrokenStays ==
    ASSUME NEW p \in Proc, Step(p), Frame(p)
    PROVE  Broken => Broken'
<1>1. pc[p] # "deadLink"
  BY StepAt, Zenon DEF Dead
<1>2. \A q \in Proc \ {p} : pc'[q] = pc[q]
  BY Zenon DEF Frame
<1> QED BY <1>1, <1>2, Zenon DEF Broken

(***************************************************************************)
(* A step of p keeps what the invariant says of the other processes.       *)
(***************************************************************************)
LEMMA OthersStep ==
    ASSUME IInv, NEW p \in Proc, Step(p), Frame(p), NEW q \in Proc \ {p}
    PROVE  LockOk(q)' /\ WriteOk(q)' /\ AllocOk(q)' /\ PinOk(q)' /\ OwnerOk(q)'
<1> USE ConstantsAssumption DEF IInv
<1>1. /\ pc'[q] = pc[q] /\ op'[q] = op[q] /\ want'[q] = want[q]
      /\ node'[q] = node[q] /\ seen'[q] = seen[q] /\ owner'[q] = owner[q]
  BY DEF Frame
<1>2. Home(q)' = Home(q) /\ Target(q)' = Target(q)
  BY <1>1 DEF Home, Target
<1>3. pc[q] # "idle" => Home(q) \in Bucket /\ Target(q) \in Stripe
  BY DEF TypeOK, Home, Target
<1>4. \A l \in Stripe : lock[l] = q => lock'[l] = q
  BY DEF Frame
<1>5. pc[q] \in Pinned \cup Claiming =>
        key'[node[q]] = key[node[q]] /\ hash'[node[q]] = hash[node[q]]
  BY OthersWords
<1>6. pc[q] \in Claiming \cup {"hold", "filled", "reset"} =>
        state'[node[q]] = state[node[q]] /\ data'[node[q]] = data[node[q]]
  <2>1. pc[q] \in {"hold", "filled", "reset"} => First(q)
    BY DEF ProcInv, OwnerOk, First, Pinned, Pinning, Holding
  <2> QED BY <2>1, OthersWords DEF Pinned, Pinning, Holding
<1>7. LockOk(q)'
  <2>1. pc[q] = "remove" => hash'[node[q]] = hash[node[q]]
    BY <1>5 DEF Claiming
  <2>2. pc[q] \in {"find"} \cup Allocating => pc[q] # "idle"
    BY DEF Allocating, Rewriting
  <2>3. LockOk(q)
    BY DEF ProcInv
  <2>4. pc[q] = "remove" => LockOf[hash[node[q]]] \in Stripe
    BY <2>3, Zenon DEF LockOk
  <2> QED BY <1>1, <1>2, <1>3, <1>4, <2>1, <2>2, <2>3, <2>4, Zenon DEF LockOk
<1>8. WriteOk(q)'
  BY <1>1, <1>2, <1>5, <1>6 DEF ProcInv, WriteOk, Claiming, Rewriting
<1>9. AllocOk(q)'
  <2> SUFFICES ASSUME pc[q] \in Allocating, ~Broken', NEW s \in Slot, MatchKey(q, s)'
               PROVE  s = node[q] /\ pc[q] \in Rewriting
    BY <1>1 DEF ProcInv, AllocOk
  <2>0. ~Broken
    BY BrokenStays, Zenon
  <2>1. Home(q) \in Bucket /\ lock[Target(q)] = q
    BY <1>3 DEF ProcInv, LockOk, Allocating, Rewriting
  <2>2. hash'[s] = Home(q) /\ key'[s] = want[q]
    BY <1>1, <1>2 DEF MatchKey
  <2>3. ASSUME s = node[p], pc[p] \in {"word0", "word1", "link"} PROVE FALSE
    <3>1. hash[s] \in {NONE, Home(p)} /\ lock[Target(p)] = p
      BY <2>3 DEF ProcInv, WriteOk, LockOk, Rewriting, Allocating
    <3>2. Home(p) # Home(q)
      BY <2>1, <3>1 DEF Target
    <3>3. hash'[s] \in {NONE, Home(p)}
      <4>1. CASE pc[p] = "link"
        <5>1. MoveTo(p)
          BY <4>1, StepAt, Zenon
        <5> QED BY <2>3, <5>1 DEF MoveTo, TypeOK
      <4>2. CASE pc[p] # "link"
        BY <2>3, <3>1, <4>2 DEF Frame
      <4> QED BY <4>1, <4>2
    <3> QED BY <2>1, <2>2, <3>2, <3>3, Zenon
  <2>4. ASSUME s = node[p], pc[p] = "remove" PROVE FALSE
    <3>1. Remove(p)
      BY <2>4, StepAt, Zenon
    <3> QED BY <2>1, <2>2, <2>4, <3>1, Zenon DEF Remove, TypeOK
  <2>5. hash'[s] = hash[s] /\ key'[s] = key[s]
    BY <2>3, <2>4, Zenon DEF Frame
  <2>6. MatchKey(q, s)
    BY <2>2, <2>5, Zenon DEF MatchKey
  <2> QED BY <2>0, <2>6, Zenon DEF ProcInv, AllocOk
<1>10. PinOk(q)'
  BY <1>1, <1>2, <1>5, Zenon DEF ProcInv, PinOk, MatchKey, Pinned, Pinning, Holding
<1>11. OwnerOk(q)'
  BY <1>1, <1>6, ZenonT(60) DEF ProcInv, OwnerOk
<1> QED BY <1>7, <1>8, <1>9, <1>10, <1>11, Zenon

(***************************************************************************)
(* The invariant says nothing of a process that holds nothing.             *)
(***************************************************************************)
OutOk(p) ==
    /\ pc[p] \in {"idle", "lookup", "tryLock", "lock", "match", "load",
                  "recheck", "undo"}
    /\ pc[p] \in {"tryLock", "lock"} => op[p] # "PeerGet"
    /\ ~owner[p]

\* What the invariant says of one process.
ProcOk(p) == LockOk(p) /\ WriteOk(p) /\ AllocOk(p) /\ PinOk(p) /\ OwnerOk(p)

(***************************************************************************)
(* A process outside the locked and pinned regions satisfies its part of   *)
(* the invariant.                                                          *)
(***************************************************************************)
LEMMA OutIsOk ==
    ASSUME NEW p \in Proc, OutOk(p)'
    PROVE  ProcOk(p)'
BY DEF OutOk, ProcOk, LockOk, WriteOk, AllocOk, PinOk, OwnerOk, Allocating,
       Rewriting, Holding

(***************************************************************************)
(* A miss, or a failed round of the spin loop, leaves these regions.       *)
(***************************************************************************)
LEMMA MissOut ==
    ASSUME TypeOK, NEW p \in Proc, Miss(p) \/ Spin(p), UNCHANGED <<op, owner>>,
           ~owner[p]
    PROVE  OutOk(p)'
<1>1. pc'[p] = "match" \/ pc'[p] = AfterMiss(p)
  BY DEF Miss, Spin, Goto, TypeOK
<1>2. AfterMiss(p) \in {"tryLock", "lock"} => op[p] # "PeerGet"
  BY DEF AfterMiss
<1> QED BY <1>1, <1>2, AfterMissStep DEF OutOk

(***************************************************************************)
(* The end of a call leaves these regions.                                 *)
(***************************************************************************)
LEMMA ReturnOut ==
    ASSUME TypeOK, NEW p \in Proc, Return(p)
    PROVE  OutOk(p)'
BY DEF Return, OutOk, Goto, TypeOK

(***************************************************************************)
(* Going on to the next scan of Alloc, or giving up, keeps what the        *)
(* invariant says of the process.                                          *)
(***************************************************************************)
LEMMA NextScanOk ==
    ASSUME TypeOK, ProcInv, NEW p \in Proc, NextScan(p), pc[p] \in Allocating \ Rewriting,
           UNCHANGED <<key, hash>>, Broken => Broken'
    PROVE  ProcOk(p)'
<1>1. ~owner[p]
  BY DEF ProcInv, OwnerOk, Allocating
<1>2. CASE AllocFails(p) /\ op[p] = "Prealloc"
  BY <1>2, ReturnOut, OutIsOk, Zenon DEF AllocFails
<1>3. CASE AllocFails(p) /\ op[p] # "Prealloc"
  BY <1>1, <1>3, OutIsOk, Zenon DEF AllocFails, Goto, TypeOK, OutOk
<1>4. CASE pc' = [pc EXCEPT ![p] = "fetch"] /\ UNCHANGED <<lock, op, want, seen, owner>>
  <2>1. pc'[p] = "fetch" /\ lock[Target(p)] = p /\ Target(p)' = Target(p)
    BY <1>4 DEF ProcInv, LockOk, TypeOK, Target, Home
  <2>2. ~Broken' => \A s \in Slot : ~MatchKey(p, s)'
    BY <1>4 DEF ProcInv, AllocOk, MatchKey, Home
  <2>3. op[p] \in {"Get", "Prealloc"}
    BY DEF ProcInv, AllocOk
  <2> QED BY <1>1, <1>4, <2>1, <2>2, <2>3, Zenon
          DEF ProcOk, LockOk, WriteOk, AllocOk, PinOk, OwnerOk, Rewriting, Holding
<1> QED BY <1>2, <1>3, <1>4 DEF NextScan, Goto

(***************************************************************************)
(* A step of p inside Alloc, after the claim.                              *)
(***************************************************************************)
LEMMA AllocStep ==
    ASSUME TypeOK, ProcInv, NEW p \in Proc,
           \/ Claim(p) \/ Evict(p) \/ Unclaim(p) \/ Remove(p) \/ StoreBlock(p)
           \/ StoreOffset(p) \/ InitState(p) \/ MoveTo(p),
           Broken => Broken'
    PROVE  ProcOk(p)'
<1> USE DEF Goto, meta, local
<1>d. /\ DOMAIN pc = Proc /\ DOMAIN op = Proc /\ DOMAIN want = Proc
      /\ DOMAIN node = Proc /\ DOMAIN seen = Proc /\ DOMAIN owner = Proc
      /\ DOMAIN lock = Stripe /\ DOMAIN reference = Slot /\ DOMAIN key = Slot
      /\ DOMAIN hash = Slot /\ DOMAIN state = Slot /\ DOMAIN data = Slot
  BY DEF TypeOK
<1>1. pc[p] \in Allocating
  BY ZenonT(60) DEF Claim, Evict, Unclaim, Remove, StoreBlock, StoreOffset, InitState,
         MoveTo, Allocating, Rewriting
<1>2. /\ lock[Target(p)] = p /\ op[p] \in {"Get", "Prealloc"} /\ ~owner[p]
      /\ ~Broken => \A s \in Slot : MatchKey(p, s) => s = node[p] /\ pc[p] \in Rewriting
  BY <1>1, ZenonT(60) DEF ProcInv, LockOk, AllocOk, OwnerOk, Allocating, Rewriting
<1>3. /\ node[p] \in Slot /\ want[p] \in Key
      /\ Home(p) \in Bucket /\ Target(p) \in Stripe
  BY <1>1, ConstantsAssumption, ZenonT(60)
     DEF TypeOK, Claim, Evict, Unclaim, Remove, StoreBlock, StoreOffset, InitState,
         MoveTo, Home, Target, Claiming, Rewriting
<1>4. CASE (Claim(p) \/ Unclaim(p)) /\ NextScan(p)
  BY <1>1, <1>4, NextScanOk, Zenon DEF Claim, Unclaim, Rewriting
<1>5. CASE ~((Claim(p) \/ Unclaim(p)) /\ NextScan(p))
  <2>1. UNCHANGED local
    BY <1>5, Zenon DEF Claim, Evict, Unclaim, Remove, StoreBlock, StoreOffset, InitState,
         MoveTo
  <2>2. Home(p)' = Home(p) /\ Target(p)' = Target(p)
    BY <2>1 DEF Home, Target
  <2>3. lock'[Target(p)] = p
    BY <1>d, <1>2, <1>3, <1>5, ZenonT(60)
       DEF Claim, Evict, Unclaim, Remove, StoreBlock, StoreOffset, InitState, MoveTo
  <2>4. ASSUME ~Broken', NEW s \in Slot, MatchKey(p, s)'
        PROVE  s = node[p] /\ pc'[p] \in Rewriting
    <3>1. CASE key'[s] = key[s] /\ hash'[s] = hash[s]
      BY <1>d, <1>2, <1>5, <2>1, <2>2, <2>4, <3>1, ZenonT(60)
         DEF MatchKey, Claim, Evict, Unclaim, Remove, StoreBlock, StoreOffset,
             InitState, MoveTo, Rewriting
    <3>2. CASE ~(key'[s] = key[s] /\ hash'[s] = hash[s])
      BY <1>d, <1>3, <1>5, <2>1, <2>2, <2>4, <3>2, ZenonT(60)
         DEF MatchKey, Claim, Evict, Unclaim, Remove, StoreBlock, StoreOffset,
             InitState, MoveTo, Rewriting
    <3> QED BY <3>1, <3>2, ZenonT(60)
  <2>5. AllocOk(p)'
    BY <1>2, <2>1, <2>4, ZenonT(60) DEF AllocOk
  <2>6. pc'[p] \in {"evict", "unclaim", "remove"} \cup Rewriting
    BY <1>d, <1>5, ZenonT(60) DEF Claim, Evict, Unclaim, Remove, StoreBlock, StoreOffset,
             InitState, MoveTo, Rewriting
  <2>7. LockOk(p)'
    <3>1. pc'[p] = "remove" => Evict(p) /\ pc[p] = "evict"
      BY <1>d, <1>5, ZenonT(60) DEF Claim, Evict, Unclaim, Remove, StoreBlock, StoreOffset,
             InitState, MoveTo
    <3>2. pc'[p] = "remove" => hash[node[p]] \in Bucket /\ hash' = hash
                               /\ lock'[LockOf[hash[node[p]]]] = p
      BY ConstantsAssumption, <1>3, <3>1, SMTT(30) DEF TypeOK, Evict
    <3> QED BY <2>1, <2>2, <2>3, <2>6, <3>2, ZenonT(60) DEF LockOk, Rewriting
  <2>8. PinOk(p)' /\ OwnerOk(p)'
    BY <1>2, <2>1, <2>6, Zenon DEF PinOk, OwnerOk, Rewriting, Holding
  <2>9. WriteOk(p)'
    <3>1. CASE Claim(p) \/ Unclaim(p)
      BY <1>d, <1>5, <3>1, ZenonT(60) DEF Claim, Unclaim, WriteOk, Rewriting
    <3>2. CASE Evict(p)
      BY <1>d, <2>1, <2>2, <3>2, ZenonT(60) DEF Evict, WriteOk, Rewriting
    <3>3. CASE Remove(p)
      BY <1>d, <1>3, <3>3, ZenonT(60) DEF Remove, WriteOk, Rewriting
    <3>4. CASE StoreBlock(p)
      <4>2. key'[node[p]] = <<want[p][1], key[node[p]][2]>>
        BY <1>d, <1>3, <3>4, ZenonT(60) DEF StoreBlock
      <4>3. pc'[p] = "word1" /\ hash'[node[p]] \in {NONE, Home(p)}
        BY <1>d, <3>4, Zenon DEF StoreBlock, ProcInv, WriteOk, Rewriting
      <4>4. key'[node[p]][1] = want[p][1]
        <5> DEFINE a == want[p][1]
                   b == key[node[p]][2]
                   t == key'[node[p]]
        <5>1. t = <<a, b>>
          BY <4>2
        <5> HIDE DEF a, b, t
        <5>2. t[1] = a
          BY <5>1, Zenon
        <5> QED BY <5>2 DEF a, t
      <4> QED BY <2>1, <2>2, <4>3, <4>4, ZenonT(60) DEF WriteOk, Rewriting
    <3>5. CASE StoreOffset(p)
      <4>1. key'[node[p]] = <<key[node[p]][1], want[p][2]>>
        BY <1>d, <1>3, <3>5, Zenon DEF StoreOffset
      <4>2. pc'[p] = "init" /\ hash'[node[p]] \in {NONE, Home(p)}
            /\ key[node[p]][1] = want[p][1]
        BY <1>d, <3>5, Zenon DEF StoreOffset, ProcInv, WriteOk, Rewriting
      <4>3. want[p] = <<want[p][1], want[p][2]>>
        BY <1>3, SMTT(30) DEF Key
      <4> QED BY <2>1, <2>2, <4>1, <4>2, <4>3, Zenon DEF WriteOk
    <3>6. CASE InitState(p)
      <4>1. /\ hash'[node[p]] \in {NONE, Home(p)} /\ key'[node[p]] = want[p]
            /\ state'[node[p]] = "Loading"
            /\ pc'[p] = "publish" => hash'[node[p]] = Home(p)
            /\ pc'[p] \in {"publish", "link"}
        BY <1>d, <1>3, <3>6, ZenonT(60) DEF InitState, ProcInv, WriteOk, Rewriting
      <4> QED BY <2>1, <2>2, <4>1, ZenonT(60) DEF WriteOk
    <3>7. CASE MoveTo(p)
      <4>1. /\ hash'[node[p]] = Home(p) /\ key'[node[p]] = want[p]
            /\ state'[node[p]] = "Loading"
        BY <1>d, <1>3, <3>7, Zenon DEF MoveTo, ProcInv, WriteOk, Rewriting
      <4> QED BY <1>d, <2>1, <2>2, <3>7, <4>1, ZenonT(60) DEF WriteOk, MoveTo
    <3> QED BY <3>1, <3>2, <3>3, <3>4, <3>5, <3>6, <3>7, ZenonT(60)
  <2> QED BY <2>5, <2>7, <2>8, <2>9, ZenonT(60) DEF ProcOk
<1> QED BY <1>4, <1>5

----------------------------------------------------------------------------
(* Each reference word counts the pins of its slot, and a slot has one     *)
(* owner at most.                                                          *)

(***************************************************************************)
(* What a step does to the reference words, and to what its process holds: *)
(* nothing, or one of five exchanges.                                      *)
(***************************************************************************)
Quiet(p) ==
    /\ UNCHANGED reference
    /\ pc'[p] \in Pinned <=> pc[p] \in Pinned
    /\ pc'[p] \in Claiming <=> pc[p] \in Claiming
    /\ pc[p] \in Pinned \cup Claiming => node'[p] = node[p]

TakesPin(p) ==
    /\ pc[p] = "cas" /\ pc'[p] = "recheck" /\ node'[p] = node[p]
    /\ reference[node[p]] = seen[p]
    /\ reference' = [reference EXCEPT ![node[p]] = seen[p] + 1]

DropsPin(p) ==
    /\ pc[p] \in Pinned /\ pc'[p] \notin Pinned \cup Claiming
    /\ reference' = [reference EXCEPT ![node[p]] = @ - 1]

TakesClaim(p) ==
    /\ pc[p] = "claim" /\ pc'[p] \in Claiming /\ node'[p] = node[p]
    /\ reference[node[p]] = 0
    /\ reference' = [reference EXCEPT ![node[p]] = Claimed]

DropsClaim(p) ==
    /\ pc[p] \in Claiming /\ pc'[p] \notin Pinned \cup Claiming
    /\ reference' = [reference EXCEPT ![node[p]] = 0]

PinsClaim(p) ==
    /\ pc[p] = "publish" /\ pc'[p] = "hold" /\ node'[p] = node[p]
    /\ reference' = [reference EXCEPT ![node[p]] = 1]

(***************************************************************************)
(* Every step of a process is one of these.                                *)
(***************************************************************************)
LEMMA Exchange ==
    ASSUME TypeOK, NEW p \in Proc, Step(p)
    PROVE  \/ Quiet(p) \/ TakesPin(p) \/ DropsPin(p)
           \/ TakesClaim(p) \/ DropsClaim(p) \/ PinsClaim(p)
<1> USE DEF Goto, meta, local, TypeOK, Pinned, Pinning, Holding, Claiming, Rewriting
<1>1. CASE Begin(p)
  BY <1>1, ZenonT(60) DEF Begin, Quiet
<1>2. CASE LookupOptimistic(p)
  BY <1>2, AfterMissStep DEF LookupOptimistic, Quiet
<1>3. CASE PinMatch(p)
  BY <1>3, AfterMissStep, ZenonT(60) DEF PinMatch, Miss, Quiet
<1>4. CASE PinLoad(p)
  BY <1>4, AfterMissStep, ZenonT(60) DEF PinLoad, Spin, Miss, Quiet
<1>5. CASE PinPeek(p)
  BY <1>5, AfterMissStep, ZenonT(60) DEF PinPeek, Miss, Quiet
<1>6. CASE PinCas(p)
  BY <1>6, AfterMissStep, ZenonT(60) DEF PinCas, Spin, Miss, Quiet, TakesPin
<1>7. CASE PinRecheck(p)
  BY <1>7 DEF PinRecheck, Quiet
<1>8. CASE PinUndo(p)
  BY <1>8, AfterMissStep, Zenon DEF PinUndo, Miss, DropsPin
<1>9. CASE PinOwn(p)
  BY <1>9 DEF PinOwn, PinReturn, Quiet
<1>10. CASE PinReset(p)
  BY <1>10, ZenonT(60) DEF PinReset, PinReturn, Quiet
<1>11. CASE TryLock(p)
  <2>1. pc[p] = "tryLock" /\ reference' = reference
    BY <1>11, Zenon DEF TryLock
  <2>2. \E w \in {"find", "lookup", "idle"} : pc' = [pc EXCEPT ![p] = w]
    BY <1>11, ZenonT(60) DEF TryLock, Return
  <2>3. pc'[p] \in {"find", "lookup", "idle"}
    BY <2>2, Zenon
  <2> QED BY <2>1, <2>3, ZenonT(60) DEF Quiet
<1>12. CASE Lock(p)
  BY <1>12, Zenon DEF Lock, Quiet
<1>13. CASE Lookup(p)
  BY <1>13, ZenonT(60) DEF Lookup, Return, Quiet
<1>14. CASE FetchNode(p)
  <2>1. pc[p] = "fetch" /\ reference' = reference
    BY <1>14, Zenon DEF FetchNode
  <2>2. \E w \in {"fetch", "claim", "lookup", "idle"} : pc' = [pc EXCEPT ![p] = w]
    BY <1>14, ZenonT(60) DEF FetchNode, NextScan, AllocFails, Return
  <2>3. pc'[p] \in {"fetch", "claim", "lookup", "idle"}
    BY <2>2, Zenon
  <2> QED BY <2>1, <2>3, ZenonT(60) DEF Quiet
<1>15. CASE Claim(p)
  <2>1. CASE /\ pc[p] = "claim" /\ reference' = reference
             /\ \E w \in {"fetch", "lookup", "idle"} : pc' = [pc EXCEPT ![p] = w]
    <3>1. pc'[p] \in {"fetch", "lookup", "idle"}
      BY <2>1, Zenon
    <3> QED BY <2>1, <3>1, ZenonT(60) DEF Quiet
  <2>2. CASE reference[node[p]] = 0
    <3>1. pc[p] = "claim" /\ pc'[p] = "evict" /\ node' = node
          /\ reference' = [reference EXCEPT ![node[p]] = Claimed]
      BY <1>15, <2>2, ZenonT(60) DEF Claim
    <3> QED BY <2>2, <3>1, Zenon DEF TakesClaim
  <2> QED BY <1>15, <2>1, <2>2, ZenonT(60) DEF Claim, NextScan, AllocFails, Return
<1>16. CASE Evict(p)
  BY <1>16 DEF Evict, Quiet
<1>17. CASE Unclaim(p)
  BY <1>17, ZenonT(60) DEF Unclaim, NextScan, AllocFails, Return, DropsClaim
<1>18. CASE Remove(p)
  BY <1>18, Zenon DEF Remove, Quiet
<1>19. CASE StoreBlock(p)
  BY <1>19 DEF StoreBlock, Quiet
<1>20. CASE StoreOffset(p)
  BY <1>20 DEF StoreOffset, Quiet
<1>21. CASE InitState(p)
  BY <1>21 DEF InitState, Quiet
<1>22. CASE MoveTo(p)
  BY <1>22, ZenonT(60) DEF MoveTo, Quiet
<1>23. CASE Publish(p)
  BY <1>23, ZenonT(60) DEF Publish, Return, DropsClaim, PinsClaim
<1>24. CASE Fill(p)
  BY <1>24, Zenon DEF Fill, Quiet
<1>25. CASE MarkReady(p)
  BY <1>25, Zenon DEF MarkReady, Quiet
<1>26. CASE MarkFailed(p)
  BY <1>26, Zenon DEF MarkFailed, Quiet
<1>27. CASE Release(p)
  BY <1>27 DEF Release, Return, DropsPin
<1> QED BY ZenonT(60), <1>1, <1>2, <1>3, <1>4, <1>5, <1>6, <1>7, <1>8, <1>9, <1>10, <1>11,
           <1>12, <1>13, <1>14, <1>15, <1>16, <1>17, <1>18, <1>19, <1>20,
           <1>21, <1>22, <1>23, <1>24, <1>25, <1>26, <1>27 DEF Step

(***************************************************************************)
(* Two sets that differ at most in x, and agree on x, are equal.           *)
(***************************************************************************)
LEMMA SameButOne ==
    ASSUME NEW A, NEW B, NEW x, A \ {x} = B \ {x}, x \in A <=> x \in B
    PROVE  A = B
<1>1. \A y : y \in A <=> y \in B
  <2>1. ASSUME NEW y PROVE y \in A <=> y \in B
    <3>1. y \in A \ {x} <=> y \in B \ {x}
      BY ZenonT(60)
    <3> QED BY <3>1
  <2> QED BY <2>1
<1> QED BY <1>1

(***************************************************************************)
(* The reference words stay exact.                                         *)
(***************************************************************************)
LEMMA ReferenceStep ==
    ASSUME IInv, NEW p \in Proc, Step(p), Frame(p), TypeOK'
    PROVE  ReferenceExact'
<1>1. ASSUME NEW s \in Slot
      PROVE  /\ Pins(s)' \ {p} = Pins(s) \ {p}
             /\ Claims(s)' \ {p} = Claims(s) \ {p}
  <2>1. \A q \in Proc \ {p} : pc'[q] = pc[q] /\ node'[q] = node[q]
    BY Zenon DEF Frame
  <2> QED BY <2>1, ZenonT(60) DEF Pins, Claims
<1> USE ConstantsAssumption DEF IInv
<1>2. ASSUME NEW s \in Slot, p \in Pins(s)' <=> p \in Pins(s),
             p \in Claims(s)' <=> p \in Claims(s)
      PROVE  Pins(s)' = Pins(s) /\ Claims(s)' = Claims(s)
  <2>1. Pins(s)' \ {p} = Pins(s) \ {p} /\ Claims(s)' \ {p} = Claims(s) \ {p}
    BY <1>1, ZenonT(60)
  <2> QED BY <1>2, <2>1, SameButOne
<1>3. SUFFICES ASSUME NEW s \in Slot
               PROVE  IF reference'[s] = Claimed
                      THEN Pins(s)' = {} /\ \E q \in Proc : Claims(s)' = {q}
                      ELSE Claims(s)' = {} /\ reference'[s] = Cardinality(Pins(s)')
  BY DEF ReferenceExact
<1>4. IF reference[s] = Claimed
      THEN Pins(s) = {} /\ \E q \in Proc : Claims(s) = {q}
      ELSE Claims(s) = {} /\ reference[s] = Cardinality(Pins(s))
  BY DEF ReferenceExact
<1>5. /\ Pins(s)' \ {p} = Pins(s) \ {p} /\ Claims(s)' \ {p} = Claims(s) \ {p}
      /\ IsFiniteSet(Pins(s)) /\ Cardinality(Pins(s)) \in Nat
      /\ reference \in [Slot -> 0 .. Claimed]
      /\ Claimed \in Nat /\ Claimed >= 2
  BY <1>1, PinsFinite, ZenonT(60) DEF TypeOK
<1>6. CASE Quiet(p)
  <2>1. Pins(s)' = Pins(s) /\ Claims(s)' = Claims(s)
    BY <1>2, <1>6, ZenonT(60) DEF Quiet, Pins, Claims
  <2> QED BY <1>4, <1>6, <2>1, ZenonT(60) DEF Quiet
<1>7. CASE ~Quiet(p) /\ s # node[p]
  <2>1. pc'[p] \in Pinned \cup Claiming => node'[p] = node[p]
    BY <1>7, Exchange, Zenon DEF TakesPin, DropsPin, TakesClaim, DropsClaim, PinsClaim
  <2>2. Pins(s)' = Pins(s) /\ Claims(s)' = Claims(s)
    <3>1. p \notin Pins(s) /\ p \notin Claims(s)
      BY <1>7, ZenonT(60) DEF Pins, Claims
    <3>2. p \notin Pins(s)' /\ p \notin Claims(s)'
      BY <1>7, <2>1, ZenonT(60) DEF Pins, Claims
    <3> QED BY <1>2, <3>1, <3>2
  <2>3. reference'[s] = reference[s]
    BY <1>7, ZenonT(60) DEF Frame
  <2> QED BY <1>4, <2>2, <2>3, ZenonT(60)
<1>8. CASE s = node[p] /\ TakesPin(p)
  <2>1. seen[p] + 1 < Claimed /\ reference[s] = seen[p] /\ reference'[s] = seen[p] + 1
    BY <1>5, <1>8 DEF TakesPin, ProcInv, PinOk
  <2>2. p \notin Pins(s) /\ p \notin Claims(s)' /\ p \in Pins(s)'
    BY <1>8, ZenonT(60) DEF TakesPin, Pins, Claims, Pinned, Pinning, Holding, Claiming,
                Rewriting
  <2>3. Claims(s) = {} /\ reference[s] = Cardinality(Pins(s)) /\ reference[s] \in Nat
    BY <1>4, <1>5, <2>1
  <2>4. Pins(s)' = Pins(s) \cup {p} /\ Claims(s)' = {}
    BY <1>5, <2>2, <2>3
  <2>5. Cardinality(Pins(s)') = Cardinality(Pins(s)) + 1
    BY <1>5, <2>2, <2>4, FS_AddElement, Zenon
  <2> QED BY <1>5, <2>1, <2>3, <2>4, <2>5
<1>9. CASE s = node[p] /\ DropsPin(p)
  <2>1. reference[s] \in 1 .. (Claimed - 1) /\ reference'[s] = reference[s] - 1
    BY <1>5, <1>9, PinnedReference, ZenonT(60) DEF DropsPin
  <2>2. p \in Pins(s) /\ p \notin Pins(s)' /\ p \notin Claims(s)'
    BY <1>9, Zenon DEF DropsPin, Pins, Claims
  <2>3. Claims(s) = {} /\ reference[s] = Cardinality(Pins(s))
    BY <1>4, <1>5, <2>1
  <2>4. Pins(s)' = Pins(s) \ {p} /\ Claims(s)' = {}
    BY <1>5, <2>2, <2>3
  <2>5. Cardinality(Pins(s)') = Cardinality(Pins(s)) - 1
    BY <1>5, <2>2, <2>4, FS_RemoveElement, ZenonT(60)
  <2> QED BY <1>5, <2>1, <2>3, <2>4, <2>5, SMTT(30)
<1>10. CASE s = node[p] /\ TakesClaim(p)
  <2>1. reference[s] = 0 /\ reference'[s] = Claimed
    BY <1>5, <1>10, ZenonT(60) DEF TakesClaim
  <2>2. Claims(s) = {} /\ Pins(s) = {}
    BY <1>4, <1>5, <2>1, FS_EmptySet, SMTT(30)
  <2>3. p \notin Pins(s)' /\ p \in Claims(s)'
    BY <1>10, ZenonT(60) DEF TakesClaim, Pins, Claims, Pinned, Pinning, Holding, Claiming,
                 Rewriting
  <2>4. Pins(s)' = {} /\ Claims(s)' = {p}
    BY <1>5, <2>2, <2>3
  <2> QED BY <2>1, <2>4, ZenonT(60)
<1>11. CASE s = node[p] /\ DropsClaim(p)
  <2>1. Pins(s) = {} /\ Claims(s) = {p} /\ reference'[s] = 0
    BY <1>5, <1>11, ClaimedReference, ZenonT(60) DEF DropsClaim
  <2>2. p \notin Pins(s)' /\ p \notin Claims(s)'
    BY <1>11 DEF DropsClaim, Pins, Claims
  <2>3. Pins(s)' = {} /\ Claims(s)' = {}
    BY <1>5, <2>1, <2>2
  <2> QED BY <1>5, <2>1, <2>3, FS_EmptySet, SMTT(30)
<1>12. CASE s = node[p] /\ PinsClaim(p)
  <2>1. Pins(s) = {} /\ Claims(s) = {p} /\ reference'[s] = 1
    BY <1>5, <1>12, ClaimedReference, ZenonT(60) DEF PinsClaim, Claiming, Rewriting
  <2>2. p \in Pins(s)' /\ p \notin Claims(s)'
    BY <1>12, ZenonT(60) DEF PinsClaim, Pins, Claims, Pinned, Pinning, Holding, Claiming,
                 Rewriting
  <2>3. Pins(s)' = {p} /\ Claims(s)' = {}
    BY <1>5, <2>1, <2>2
  <2>4. Cardinality({p}) = 1
    BY FS_Singleton, Zenon
  <2> QED BY <1>5, <2>1, <2>3, <2>4, SMTT(30)
<1> QED BY <1>6, <1>7, <1>8, <1>9, <1>10, <1>11, <1>12, Exchange, ZenonT(60)

(***************************************************************************)
(* No two processes own a slot or may come to: who pins it first is alone. *)
(***************************************************************************)
LEMMA FirstStep ==
    ASSUME IInv, NEW p \in Proc, Step(p), Frame(p)
    PROVE  FirstInv'
<1> USE DEF IInv
<1>1. SUFFICES ASSUME NEW q \in Proc \ {p}, First(p)', First(q), node'[p] = node[q]
               PROVE  FALSE
  <2>1. \A q \in Proc \ {p} : (First(q)' <=> First(q)) /\ node'[q] = node[q]
    BY ZenonT(60) DEF Frame, First
  <2> QED BY <2>1, ZenonT(60) DEF FirstInv
<1>2. node[q] \in Slot /\ q \in Pins(node[q])
  BY <1>1 DEF First, TypeOK, Pins
<1>3. CASE First(p) /\ node'[p] = node[p]
  BY <1>1, <1>3, ZenonT(60) DEF FirstInv
<1>4. CASE TakesPin(p)
  <2>1. node[p] = node[q] /\ reference[node[q]] = seen[p]
    BY <1>1, <1>4, ZenonT(60) DEF TakesPin
  <2>2. seen[p] # 0
    BY <1>1, <1>2, <2>1, PinnedReference, SMTT(30) DEF First
  <2>3. PinCas(p)
    BY <1>4, StepAt, Zenon DEF TakesPin
  <2>4. seen'[p] = seen[p] /\ owner'[p] = owner[p]
    BY <1>4, <2>3, ZenonT(60) DEF PinCas, Spin, Miss, TakesPin, Goto, TypeOK, AfterMiss
  <2>5. ~owner[p]
    BY <1>4 DEF TakesPin, ProcInv, OwnerOk
  <2> QED BY <1>1, <2>2, <2>4, <2>5, ZenonT(60) DEF First
<1>5. CASE PinsClaim(p)
  <2>1. Pins(node[p]) = {} /\ node[p] = node[q]
    BY <1>1, <1>5, ClaimedReference, ZenonT(60) DEF PinsClaim, Claiming, Rewriting
  <2> QED BY <1>2, <2>1
<1>6. CASE DropsPin(p) \/ TakesClaim(p) \/ DropsClaim(p)
  BY <1>1, <1>6 DEF DropsPin, TakesClaim, DropsClaim, First, Pinned, Pinning,
     Holding, Claiming, Rewriting
<1>7. CASE Quiet(p)
  <2>1. pc[p] \in Pinned /\ node'[p] = node[p]
    BY <1>1, <1>7, ZenonT(60) DEF Quiet, First
  <2>2. First(p)
    <3>1. CASE PinRecheck(p)
      BY <1>1, <3>1, Zenon DEF PinRecheck, First, Goto, local, TypeOK, Pinned, Pinning
    <3>2. CASE PinOwn(p)
      BY <1>1, <3>2, ZenonT(60) DEF PinOwn, PinReturn, First, Goto, TypeOK, Pinned, Pinning, Holding
    <3>3. CASE PinReset(p)
      BY <3>3, ZenonT(60) DEF PinReset, First, ProcInv, OwnerOk, Pinned, Pinning
    <3>4. CASE Fill(p) \/ MarkReady(p) \/ MarkFailed(p)
      BY <3>4, ZenonT(60) DEF Fill, MarkReady, MarkFailed, First, ProcInv, OwnerOk, Pinned, Holding
    <3>5. CASE PinUndo(p) \/ Release(p)
      <4>1. reference'[node[p]] = reference[node[p]]
        BY <1>7, ZenonT(60) DEF Quiet
      <4>2. reference'[node[p]] = reference[node[p]] - 1
        BY <3>5, <2>1, ZenonT(60) DEF PinUndo, Release, TypeOK, Pinned, Pinning, Holding
      <4>3. reference[node[p]] \in Int
        BY <1>1, <1>2, <2>1 DEF TypeOK
      <4> QED BY <4>1, <4>2, <4>3
    <3> QED BY <2>1, <3>1, <3>2, <3>3, <3>4, <3>5, StepAt, ZenonT(60)
               DEF Pinned, Pinning, Holding, Dead
  <2> QED BY <1>3, <2>1, <2>2, ZenonT(60)
<1> QED BY <1>4, <1>5, <1>6, <1>7, Exchange, ZenonT(60) DEF IInv

----------------------------------------------------------------------------
(* What the callers may notice of a step                                   *)

Words == <<key, hash, state>>
Outside == PC \ ({"idle"} \cup Dead \cup Holding \cup Rewriting)

\* Alloc comes by its slot in FetchNode.
KeepsSegment(p) ==
    pc'[p] \in {"claim"} \cup Claiming =>
        \/ node'[p] \in Usable[p]
        \/ node'[p] = node[p] /\ pc[p] \in {"claim"} \cup Claiming

\* A step the callers do not notice: in a lookup, before the claimed slot is
\* rewritten, while it is, and the fill.
Silent(p) ==
    /\ want' = want /\ KeepsSegment(p)
    /\ \/ pc[p] \in Outside /\ pc'[p] \in Outside /\ UNCHANGED Words
       \/ pc[p] \in Rewriting /\ pc'[p] \in Rewriting /\ node' = node
       \/ pc[p] = "hold" /\ pc'[p] = "filled" /\ UNCHANGED <<node, owner, Words>>

\* PinHit returns true.
Attaches(p, own) ==
    /\ pc[p] \in {"own", "reset"} /\ pc'[p] \in {"hold", "kept", "drop"}
    /\ pc'[p] = "kept" => ~own
    /\ owner' = [owner EXCEPT ![p] = own]
    /\ own => op[p] = "Get" /\ seen[p] = 0 /\ state[node[p]] # "Ready"
    /\ state' = IF own THEN [state EXCEPT ![node[p]] = "Loading"] ELSE state
    /\ UNCHANGED <<key, hash, want, node>>

\* A call ends without a handle.
Quits(p) ==
    /\ pc[p] \in Outside /\ Return(p) /\ UNCHANGED Words

\* Alloc begins to rewrite the slot it claimed.
Takes(p) ==
    /\ pc[p] \in {"evict", "remove"} /\ pc'[p] = "word0"
    /\ pc[p] = "evict" => hash' = hash
    /\ pc[p] = "remove" => hash' = [hash EXCEPT ![node[p]] = NONE]
    /\ UNCHANGED <<key, state, want, node>>

(***************************************************************************)
(* Every step of a process is one of these.                                *)
(***************************************************************************)
LEMMA StepNoticed ==
    ASSUME IInv, NEW p \in Proc, Step(p)
    PROVE  \/ Begin(p) \/ Silent(p) \/ Quits(p) \/ Takes(p)
           \/ \E own \in BOOLEAN : Attaches(p, own)
           \/ Publish(p) \/ MarkReady(p) \/ MarkFailed(p) \/ Release(p)
<1>a. /\ pc \in [Proc -> PC] /\ node \in [Proc -> Slot \cup {NONE}]
      /\ state \in [Slot -> State]
  BY DEF IInv, TypeOK
<1>b. Outside = {"lookup", "tryLock", "lock", "find", "match", "load", "peek", "cas",
                 "recheck", "undo", "own", "reset", "fetch", "claim", "evict",
                 "unclaim", "remove"}
  BY StepNames DEF Outside, Dead, Holding, Rewriting
<1>c. {"claim"} \cup Claiming
        = {"claim", "evict", "unclaim", "remove", "word0", "word1", "init", "link",
           "publish", "deadClaim", "deadLink"}
  BY DEF Claiming, Rewriting
<1>d. AfterMiss(p) \in {"lookup", "tryLock", "lock"}
  BY AfterMissStep
<1> USE DEF Goto, meta, local, Words
<1>1. CASE LookupOptimistic(p)
  BY <1>1, <1>a, <1>b, <1>c, <1>d, Zenon DEF LookupOptimistic, Silent, KeepsSegment
<1>2. CASE PinMatch(p)
  BY <1>2, <1>a, <1>b, <1>c, <1>d, Zenon DEF PinMatch, Miss, Silent, KeepsSegment
<1>3. CASE PinLoad(p)
  BY <1>3, <1>a, <1>b, <1>c, <1>d, Zenon DEF PinLoad, Spin, Miss, Silent, KeepsSegment
<1>4. CASE PinPeek(p)
  BY <1>4, <1>a, <1>b, <1>c, <1>d, Zenon DEF PinPeek, Miss, Silent, KeepsSegment
<1>5. CASE PinCas(p)
  BY <1>5, <1>a, <1>b, <1>c, <1>d, Zenon DEF PinCas, Spin, Miss, Silent, KeepsSegment
<1>6. CASE PinRecheck(p)
  BY <1>6, <1>a, <1>b, <1>c DEF PinRecheck, Silent, KeepsSegment
<1>7. CASE PinUndo(p)
  BY <1>7, <1>a, <1>b, <1>c, <1>d, Zenon DEF PinUndo, Miss, Silent, KeepsSegment
<1>8. CASE PinOwn(p)
  <2> DEFINE own == TakeOwnership(p) /\ seen[p] = 0 /\ state[node[p]] # "Ready"
  <2>1. CASE own /\ state[node[p]] = "Failed"
    BY <1>8, <1>a, <1>b, <1>c, <2>1, Zenon DEF PinOwn, Silent, KeepsSegment
  <2>2. CASE ~(own /\ state[node[p]] = "Failed")
    <3>1. PinReturn(p, own) /\ pc[p] = "own"
          /\ UNCHANGED <<reference, key, hash, state, data, op, want, node>>
      BY <1>8, <2>2, Zenon DEF PinOwn
    <3>2. own => state[node[p]] = "Loading" /\ op[p] = "Get"
      BY <1>a, <1>8, <2>2, Zenon DEF State, TakeOwnership, IInv, TypeOK, PinOwn, PinHitSteps, Pinning
    <3>3. own => state' = [state EXCEPT ![node[p]] = "Loading"]
      BY <1>a, <3>1, <3>2
    <3>4. own \in BOOLEAN
      BY DEF TakeOwnership
    <3>5. Attaches(p, own)
      BY <1>a, <3>1, <3>2, <3>3, <3>4, Zenon DEF Attaches, PinReturn, TakeOwnership
    <3> QED BY <3>4, <3>5, Zenon
  <2> QED BY <2>1, <2>2
<1>9. CASE PinReset(p)
  <2>1. op[p] = "Get" /\ seen[p] = 0 /\ state[node[p]] = "Failed"
    BY <1>9 DEF PinReset, IInv, ProcInv, OwnerOk
  <2>2. Attaches(p, TRUE)
    BY <1>9, <1>a, <2>1, Zenon DEF PinReset, PinReturn, Attaches
  <2> QED BY <2>2, Zenon
<1>10. CASE TryLock(p)
  BY <1>10, <1>a, <1>b, <1>c, Zenon DEF TryLock, Silent, KeepsSegment, Quits
<1>11. CASE Lock(p)
  BY <1>11, <1>a, <1>b, <1>c, Zenon DEF Lock, Silent, KeepsSegment
<1>12. CASE Lookup(p)
  BY <1>12, <1>a, <1>b, <1>c, Zenon DEF Lookup, Silent, KeepsSegment, Quits
<1>13. CASE FetchNode(p)
  BY <1>13, <1>a, <1>b, <1>c, ZenonT(60) DEF FetchNode, NextScan, AllocFails, Silent, KeepsSegment, Quits
<1>14. CASE Claim(p)
  BY <1>14, <1>a, <1>b, <1>c, Zenon DEF Claim, NextScan, AllocFails, Silent, KeepsSegment, Quits
<1>15. CASE Evict(p)
  BY <1>15, <1>a, <1>b, <1>c, Zenon DEF Evict, Silent, KeepsSegment, Takes
<1>16. CASE Unclaim(p)
  BY <1>16, <1>a, <1>b, <1>c, Zenon DEF Unclaim, NextScan, AllocFails, Silent, KeepsSegment, Quits
<1>17. CASE Remove(p)
  BY <1>17, <1>a, Zenon DEF Remove, Takes
<1>18. CASE StoreBlock(p) \/ StoreOffset(p) \/ InitState(p) \/ MoveTo(p)
  BY <1>18, <1>a, <1>c, Zenon DEF StoreBlock, StoreOffset, InitState, MoveTo, Rewriting, Silent,
     KeepsSegment
<1>19. CASE Fill(p)
  BY <1>19, <1>a, <1>c DEF Fill, Silent, KeepsSegment
<1> QED BY <1>1, <1>2, <1>3, <1>4, <1>5, <1>6, <1>7, <1>8, <1>9, <1>10, <1>11, <1>12,
           <1>13, <1>14, <1>15, <1>16, <1>17, <1>18, <1>19, Zenon DEF Step

----------------------------------------------------------------------------
(* The call that moves                                                     *)

(***************************************************************************)
(* A step of p keeps what the invariant says of p.                         *)
(***************************************************************************)
LEMMA OwnStep ==
    ASSUME TypeOK, ProcInv, NEW p \in Proc, Step(p), Frame(p)
    PROVE  ProcOk(p)'
<1> USE DEF Goto, meta, local
<1>e. Broken => Broken'
  BY BrokenStays, Zenon
<1>d. /\ DOMAIN pc = Proc /\ DOMAIN op = Proc /\ DOMAIN want = Proc
      /\ DOMAIN node = Proc /\ DOMAIN seen = Proc /\ DOMAIN owner = Proc
      /\ DOMAIN lock = Stripe /\ DOMAIN reference = Slot /\ DOMAIN key = Slot
      /\ DOMAIN hash = Slot /\ DOMAIN state = Slot /\ DOMAIN data = Slot
  BY DEF TypeOK
<1>1. pc[p] \notin {"hold", "filled", "kept", "deadPin"} => ~owner[p]
  BY DEF ProcInv, OwnerOk
<1>2. CASE Begin(p)
  <2>1. OutOk(p)'
    BY <1>d, <1>1, <1>2, Zenon DEF Begin, OutOk
  <2> QED BY <2>1, OutIsOk
<1>3. CASE LookupOptimistic(p)
  <2>1. AfterMiss(p) \in {"tryLock", "lock"} => op[p] # "PeerGet"
    BY DEF AfterMiss
  <2>2. OutOk(p)'
    BY <1>d, <1>1, <1>3, <2>1, AfterMissStep, Zenon DEF LookupOptimistic, OutOk
  <2> QED BY <2>2, OutIsOk
<1>4. CASE PinMatch(p)
  <2>1. CASE Miss(p)
    BY <1>1, <1>4, <2>1, MissOut, OutIsOk, Zenon DEF PinMatch
  <2>2. CASE pc' = [pc EXCEPT ![p] = "load"]
    <3>1. OutOk(p)'
      BY <1>d, <1>1, <1>4, <2>2 DEF PinMatch, OutOk
    <3> QED BY <3>1, OutIsOk
  <2> QED BY <1>4, <2>1, <2>2 DEF PinMatch
<1>5. CASE PinLoad(p)
  <2>1. CASE Miss(p) \/ Spin(p)
    BY <1>1, <1>5, <2>1, MissOut, OutIsOk, ZenonT(60) DEF PinLoad
  <2>2. CASE ~(Miss(p) \/ Spin(p))
    <3> DEFINE r == reference[node[p]]
    <3>1. r \in 0 .. Claimed /\ r # Claimed /\ r # Claimed - 1
      BY <1>5, <2>2 DEF TypeOK, PinLoad, PinHitSteps
    <3>2. /\ seen'[p] = r /\ pc'[p] \in {"cas", "peek"} /\ ~owner'[p]
      BY <1>d, <1>1, <1>5, <2>2, ZenonT(60) DEF PinLoad
    <3>3. seen'[p] + 1 < Claimed
      BY ConstantsAssumption, <3>1, <3>2
    <3> QED BY <3>2, <3>3 DEF ProcOk, LockOk, WriteOk, AllocOk, PinOk, OwnerOk,
               Allocating, Rewriting, Holding
  <2> QED BY <2>1, <2>2
<1>6. CASE PinPeek(p)
  <2>1. CASE Miss(p)
    BY <1>1, <1>6, <2>1, MissOut, OutIsOk, ZenonT(60) DEF PinPeek
  <2>2. CASE pc' = [pc EXCEPT ![p] = "cas"] /\ UNCHANGED <<lock, node, seen>>
    BY <1>d, <1>1, <1>6, <2>2, ZenonT(60) DEF PinPeek, ProcInv, ProcOk, LockOk, WriteOk,
       AllocOk, PinOk, OwnerOk, Allocating, Rewriting, Holding
  <2> QED BY <1>6, <2>1, <2>2 DEF PinPeek
<1>7. CASE PinCas(p)
  <2>1. CASE Spin(p)
    BY <1>1, <1>7, <2>1, MissOut, OutIsOk, Zenon DEF PinCas
  <2>2. CASE pc' = [pc EXCEPT ![p] = "recheck"]
    <3>1. OutOk(p)'
      BY <1>d, <1>1, <1>7, <2>2, Zenon DEF PinCas, OutOk
    <3> QED BY <3>1, OutIsOk
  <2> QED BY <1>7, <2>1, <2>2, Zenon DEF PinCas
<1>8. CASE PinRecheck(p)
  <2>1. CASE MatchKey(p, node[p])
    BY <1>d, <1>1, <1>8, <2>1, ZenonT(60) DEF PinRecheck, ProcOk, LockOk, WriteOk,
       AllocOk, PinOk, OwnerOk, Allocating, Rewriting, Holding, MatchKey, Home
  <2>2. CASE ~MatchKey(p, node[p])
    <3>1. OutOk(p)'
      BY <1>d, <1>1, <1>8, <2>2, Zenon DEF PinRecheck, OutOk
    <3> QED BY <3>1, OutIsOk
  <2> QED BY <2>1, <2>2
<1>9. CASE PinUndo(p)
  BY <1>1, <1>9, MissOut, OutIsOk, Zenon DEF PinUndo
<1>10. CASE PinOwn(p) \/ PinReset(p)
  <2>1. MatchKey(p, node[p])' /\ node[p] \in Slot /\ node' = node /\ op' = op
    BY <1>10, ZenonT(60) DEF TypeOK, PinOwn, PinReset, ProcInv, PinOk, MatchKey, Home,
                 Pinned, Pinning, PinHitSteps
  <2>2. CASE pc' = [pc EXCEPT ![p] = "reset"] /\ PinOwn(p)
    <3>1. pc'[p] = "reset" /\ seen'[p] = 0 /\ state'[node[p]] = "Failed" /\ ~owner'[p]
          /\ op'[p] = "Get"
      BY <1>d, <1>1, <2>2, ZenonT(60) DEF PinOwn, PinReturn, TakeOwnership
    <3> QED BY <2>1, <3>1 DEF ProcOk, LockOk, WriteOk, AllocOk, PinOk, OwnerOk,
               Allocating, Rewriting, Holding
  <2>3. CASE ~(pc' = [pc EXCEPT ![p] = "reset"] /\ PinOwn(p))
    <3>1. /\ pc'[p] \in {"hold", "kept", "drop"}
          /\ pc'[p] = "hold" => owner'[p] /\ state'[node[p]] = "Loading"
          /\ owner'[p] => pc'[p] # "drop"
      <4>1. CASE PinReset(p)
        <5>1. pc[p] = "reset" /\ PinReturn(p, TRUE) /\ state'[node[p]] = "Loading"
          BY <1>d, <2>1, <4>1, Zenon DEF PinReset
        <5>2. op[p] # "Exist"
          BY <5>1 DEF ProcInv, OwnerOk
        <5> QED BY <1>d, <5>1, <5>2, Zenon DEF PinReturn
      <4>2. CASE PinOwn(p)
        <5> DEFINE own == op[p] = "Get" /\ seen[p] = 0 /\ state[node[p]] # "Ready"
        <5>1. PinReturn(p, own) /\ ~(own /\ state[node[p]] = "Failed") /\ state' = state
          BY <2>3, <4>2, Zenon DEF PinOwn, TakeOwnership
        <5>2. own => state[node[p]] = "Loading"
          BY <2>1, <5>1, Zenon DEF TypeOK, State
        <5>3. owner'[p] = own /\ pc'[p] = CASE op[p] = "Exist" -> "drop"
                                            [] op[p] # "Exist" /\ own -> "hold"
                                            [] OTHER -> "kept"
          BY <1>d, <5>1 DEF PinReturn
        <5> QED BY <5>1, <5>2, <5>3, Zenon
      <4> QED BY <1>10, <4>1, <4>2, Zenon
    <3> QED BY <2>1, <3>1, Zenon DEF ProcOk, LockOk, WriteOk, AllocOk, PinOk, OwnerOk,
               Allocating, Rewriting, Holding
  <2> QED BY <2>2, <2>3
<1>11. CASE TryLock(p) \/ Lock(p)
  <2>1. Target(p) \in Stripe /\ op[p] # "PeerGet" /\ ~owner[p]
    BY ConstantsAssumption, <1>1, <1>11, ZenonT(60)
       DEF TypeOK, TryLock, Lock, Target, Home, ProcInv, LockOk
  <2>2. CASE pc' = [pc EXCEPT ![p] = "find"] /\ UNCHANGED local
             /\ lock' = [lock EXCEPT ![Target(p)] = p]
    BY <1>d, <2>1, <2>2, ZenonT(60) DEF ProcOk, LockOk, WriteOk, AllocOk, PinOk, OwnerOk,
       Allocating, Rewriting, Holding, Target, Home
  <2>3. CASE pc' = [pc EXCEPT ![p] = "lookup"] /\ UNCHANGED local
    <3>1. OutOk(p)'
      BY <1>d, <2>1, <2>3, Zenon DEF OutOk
    <3> QED BY <3>1, OutIsOk
  <2>4. CASE Return(p)
    BY <2>4, ReturnOut, OutIsOk, Zenon
  <2> QED BY <1>11, <2>2, <2>3, <2>4, ZenonT(60) DEF TryLock, Lock
<1>12. CASE Lookup(p)
  <2>1. op[p] \in Op /\ op[p] # "PeerGet" /\ ~owner[p] /\ lock[Target(p)] = p
    BY <1>1, <1>12, ZenonT(60) DEF TypeOK, Lookup, ProcInv, LockOk
  <2>2. CASE Return(p)
    BY <2>2, ReturnOut, OutIsOk
  <2>3. CASE pc' = [pc EXCEPT ![p] = "match"] /\ UNCHANGED owner
    <3>1. OutOk(p)'
      BY <1>d, <2>1, <2>3, ZenonT(60) DEF OutOk
    <3> QED BY <3>1, OutIsOk
  <2>4. CASE /\ Broken \/ \A s \in Slot : ~MatchKey(p, s)
             /\ op[p] # "Exist"
             /\ pc' = [pc EXCEPT ![p] = "fetch"] /\ UNCHANGED <<lock, local>>
    <3>1. ~Broken' => \A s \in Slot : ~MatchKey(p, s)'
      BY <1>12, <1>e, <2>4, ZenonT(60) DEF Lookup, MatchKey, Home
    <3>2. op'[p] \in {"Get", "Prealloc"} /\ pc'[p] = "fetch"
      BY <1>d, <2>1, <2>4, Zenon DEF Op
    <3> QED BY <1>d, <2>1, <2>4, <3>1, <3>2, ZenonT(60) DEF ProcOk, LockOk, WriteOk,
       AllocOk, PinOk, OwnerOk, Rewriting, Holding, Target, Home
  <2> QED BY <1>12, <2>2, <2>3, <2>4, Zenon DEF Lookup
<1>13. CASE FetchNode(p)
  <2>1. CASE NextScan(p)
    BY <1>13, <1>e, <2>1, NextScanOk, ZenonT(60) DEF FetchNode, Allocating, Rewriting
  <2>2. CASE pc' = [pc EXCEPT ![p] = "claim"] /\ UNCHANGED <<lock, op, want, seen, owner>>
    <3>1. ~Broken' => \A s \in Slot : ~MatchKey(p, s)'
      BY <1>13, <1>e, <2>2, ZenonT(60) DEF FetchNode, MatchKey, Home, ProcInv, AllocOk, Allocating,
         Rewriting
    <3>2. /\ op'[p] \in {"Get", "Prealloc"} /\ pc'[p] = "claim" /\ ~owner'[p]
          /\ lock'[Target(p)'] = p
      BY <1>d, <1>1, <1>13, <2>2, Zenon DEF FetchNode, ProcInv, LockOk, AllocOk,
         Allocating, Target, Home
    <3> QED BY <3>1, <3>2, ZenonT(60) DEF ProcOk, LockOk, WriteOk, AllocOk, PinOk, OwnerOk,
       Rewriting, Holding
  <2> QED BY <1>13, <2>1, <2>2 DEF FetchNode
<1>14. CASE \/ Claim(p) \/ Evict(p) \/ Unclaim(p) \/ Remove(p) \/ StoreBlock(p)
            \/ StoreOffset(p) \/ InitState(p) \/ MoveTo(p)
  BY <1>14, <1>e, AllocStep
<1>15. CASE Publish(p)
  <2>1. CASE Return(p)
    BY <2>1, ReturnOut, OutIsOk
  <2>2. CASE ~Return(p)
    <3>1. /\ pc'[p] = "hold" /\ owner'[p] /\ op' = op /\ want' = want /\ node' = node
          /\ key' = key /\ hash' = hash /\ state' = state /\ pc[p] = "publish"
      BY <1>d, <1>15, <2>2, Zenon DEF Publish
    <3>2. MatchKey(p, node[p])' /\ state'[node[p]] = "Loading"
      BY <3>1, ZenonT(60) DEF ProcInv, WriteOk, MatchKey, Home
    <3> QED BY <3>1, <3>2, ZenonT(60) DEF ProcOk, LockOk, WriteOk, AllocOk, PinOk, OwnerOk,
               Allocating, Rewriting, Holding
  <2> QED BY <2>1, <2>2, ZenonT(60)
<1>16. CASE Fill(p) \/ MarkReady(p) \/ MarkFailed(p)
  <2>1. /\ pc[p] \in {"hold", "filled"} /\ node[p] \in Slot
        /\ MatchKey(p, node[p])' /\ UNCHANGED local
    BY <1>16, ZenonT(60) DEF TypeOK, Fill, MarkReady, MarkFailed, ProcInv, PinOk, MatchKey,
       Home, Holding, Pinned
  <2>2. /\ pc'[p] \in {"filled", "kept"} /\ owner[p]
        /\ pc'[p] = "filled" => state'[node[p]] = "Loading" /\ data'[node[p]] = want[p]
    BY <1>d, <1>16, <2>1, ZenonT(60) DEF Fill, MarkReady, MarkFailed, ProcInv, OwnerOk
  <2> QED BY <2>1, <2>2, ZenonT(60) DEF ProcOk, LockOk, WriteOk, AllocOk, PinOk, OwnerOk,
               Allocating, Rewriting, Holding
<1>17. CASE Release(p)
  BY <1>17, ReturnOut, OutIsOk DEF Release
<1> QED BY ZenonT(60), <1>2, <1>3, <1>4, <1>5, <1>6, <1>7, <1>8, <1>9, <1>10, <1>11, <1>12,
           <1>13, <1>14, <1>15, <1>16, <1>17 DEF Step

----------------------------------------------------------------------------
(* The slots, and the invariant as a whole                                 *)

(***************************************************************************)
(* The bytes of a Ready slot stay those of its key, and no key is in two   *)
(* slots, except where Alloc is rewriting one or the chains are broken.    *)
(***************************************************************************)
LEMMA SlotsStep ==
    ASSUME IInv, NEW p \in Proc, Step(p), Frame(p)
    PROVE  DataInv' /\ KeyInv'
<1> USE ConstantsAssumption DEF IInv
<1>1. ASSUME NEW s \in Slot, Dirty(s), ~(s = node[p] /\ Publish(p)) PROVE Dirty(s)'
  <2>1. PICK q \in Proc : node[q] = s /\ pc[q] \in Rewriting \cup {"deadClaim", "deadLink"}
    BY <1>1, ZenonT(60) DEF Dirty
  <2>2. CASE q # p
    BY <2>1, <2>2, ZenonT(60) DEF Dirty, Frame
  <2>3. CASE q = p
    <3>1. pc'[p] \in Rewriting /\ node'[p] = node[p]
      BY <1>1, <2>1, <2>3, StepAt, ZenonT(60)
         DEF StoreBlock, StoreOffset, InitState, MoveTo, Goto, local, TypeOK,
             Rewriting, Dead
    <3> QED BY <2>1, <2>3, <3>1, ZenonT(60) DEF Dirty
  <2> QED BY <2>2, <2>3
<1>2. ASSUME pc[p] \in {"word0", "word1", "link"}
      PROVE  Dirty(node[p])' /\ UNCHANGED <<state, data>>
  <2>1. pc'[p] \in Rewriting /\ node'[p] = node[p] /\ UNCHANGED <<state, data>>
      BY <1>2, StepAt, ZenonT(60)
       DEF StoreBlock, StoreOffset, MoveTo, Goto, local, TypeOK, Rewriting
  <2>2. \E q \in Proc : node'[q] = node[p] /\ pc'[q] \in Rewriting \cup {"deadClaim", "deadLink"}
    BY <2>1, Zenon
  <2> QED BY <2>1, <2>2, Zenon DEF Dirty
<1>3. ASSUME pc[p] = "publish"
      PROVE  Publish(p) /\ UNCHANGED <<key, hash, state, data>>
  BY <1>3, StepAt, ZenonT(60) DEF Publish
<1>4. DataInv'
  <2>1. SUFFICES ASSUME NEW s \in Slot, state'[s] = "Ready"
                 PROVE  data'[s] = key'[s] \/ Dirty(s)'
    BY Zenon DEF DataInv
  <2>2. CASE state[s] # "Ready"
    <3>1. s = node[p] /\ pc[p] \in {"reset", "init", "hold", "filled"}
      BY <2>1, <2>2 DEF Frame
    <3>2. MarkReady(p)
      BY <2>1, <2>2, <3>1, StepAt, ZenonT(60)
         DEF PinReset, InitState, Fill, MarkFailed, meta, TypeOK
    <3>3. data[s] = want[p] /\ key[s] = want[p] /\ UNCHANGED <<data, key>>
      BY <3>1, <3>2, ZenonT(60) DEF MarkReady, ProcInv, OwnerOk, PinOk, MatchKey, Holding
    <3> QED BY <3>3, Zenon
  <2>3. CASE state[s] = "Ready"
    <3>1. data[s] = key[s] \/ Dirty(s)
      BY <2>3 DEF DataInv
    <3>2. CASE s = node[p] /\ pc[p] \in {"word0", "word1"}
      <4>1. Dirty(node[p])' /\ node'[p] = node[p]
        BY <1>2, <3>2, StepAt, ZenonT(60) DEF StoreBlock, StoreOffset, local
      <4> QED BY <3>2, <4>1 DEF Dirty
    <3>3. CASE s = node[p] /\ pc[p] \in {"hold", "publish"}
      BY <2>3, <3>3, ZenonT(60) DEF ProcInv, OwnerOk, WriteOk
    <3>4. CASE /\ ~(s = node[p] /\ pc[p] \in {"word0", "word1"})
               /\ ~(s = node[p] /\ pc[p] \in {"hold", "publish"})
      <4>1. data'[s] = data[s] /\ key'[s] = key[s]
        BY <3>4, ZenonT(60) DEF Frame
      <4>2. ~(s = node[p] /\ Publish(p))
        BY <3>4, ZenonT(60) DEF Publish
      <4> QED BY <1>1, <3>1, <4>1, <4>2, ZenonT(60)
    <3> QED BY <3>2, <3>3, <3>4, ZenonT(60)
  <2> QED BY <2>2, <2>3, ZenonT(60)
<1>5. KeyInv'
  <2>1. SUFFICES ASSUME ~Broken', NEW s \in Slot, NEW t \in Slot, s # t,
                        hash'[s] # NONE, hash'[s] = hash'[t], key'[s] = key'[t],
                        ~Dirty(s)', ~Dirty(t)'
                 PROVE  FALSE
    BY ZenonT(60) DEF KeyInv
  <2>2. ASSUME NEW u \in Slot, ~Dirty(u)', hash'[u] # NONE
        PROVE  key'[u] = key[u] /\ hash'[u] = hash[u]
    <3>1. CASE u = node[p] /\ pc[p] \in {"word0", "word1", "link"}
      <4>1. Dirty(node[p])' /\ node'[p] = node[p]
        BY <1>2, <3>1, StepAt DEF StoreBlock, StoreOffset, MoveTo, local
      <4> QED BY <2>2, <3>1, <4>1, Zenon DEF Dirty
    <3>2. CASE u = node[p] /\ pc[p] = "remove"
      <4>1. Remove(p)
        BY <3>2, StepAt, ZenonT(60)
      <4> QED BY <2>2, <3>2, <4>1, ZenonT(60) DEF Remove, TypeOK
    <3>3. CASE u # node[p] \/ pc[p] \notin {"word0", "word1", "link", "remove"}
      BY <3>3, ZenonT(60) DEF Frame
    <3> QED BY <3>1, <3>2, <3>3, Zenon
  <2>3. /\ hash[s] # NONE /\ hash[s] = hash[t] /\ key[s] = key[t]
    BY <2>1, <2>2, ZenonT(60)
  <2>a. ~Broken
    BY <2>1, BrokenStays, Zenon
  <2>4. Dirty(s) \/ Dirty(t)
    BY <2>1, <2>3, <2>a, ZenonT(60) DEF KeyInv
  <2>5. Publish(p) /\ node[p] \in {s, t}
    BY <1>1, <2>1, <2>4, ZenonT(60)
  <2>6. /\ hash[node[p]] = Home(p) /\ key[node[p]] = want[p]
        /\ \A u \in Slot : MatchKey(p, u) => u = node[p]
    BY <2>5, <2>a, ZenonT(60) DEF Publish, ProcInv, WriteOk, AllocOk, Allocating, Rewriting
  <2>7. MatchKey(p, s) /\ MatchKey(p, t)
    BY <2>3, <2>5, <2>6, Zenon DEF MatchKey
  <2> QED BY <2>1, <2>6, <2>7, ZenonT(60)
<1> QED BY <1>4, <1>5

(***************************************************************************)
(* The death of a worker keeps the invariant: its locks are recovered, its *)
(* pin or its claim is frozen.                                             *)
(***************************************************************************)
LEMMA CrashStep ==
    ASSUME IInv, NEW p \in Proc, Crash(p), TypeOK'
    PROVE  IInv'
<1> USE ConstantsAssumption DEF IInv, Goto, meta, local
<1>1. /\ pc'[p] = CASE pc[p] \in Pinned -> "deadPin"
                    [] pc[p] \in Relinking -> "deadLink"
                    [] pc[p] \in Claiming \ Relinking -> "deadClaim"
                    [] OTHER -> "dead"
      /\ \A q \in Proc \ {p} : pc'[q] = pc[q]
      /\ UNCHANGED <<reference, key, hash, state, accessed, data, op, want, node, seen, owner>>
      /\ pc[p] \notin {"deadPin", "deadClaim", "deadLink", "dead"}
  BY DEF Crash, TypeOK, Dead
<1>2. /\ pc[p] \in Pinned => pc[p] \notin Claiming
      /\ Relinking \subseteq Claiming
  BY DEF Pinned, Pinning, Holding, Claiming, Relinking, Rewriting
<1>b. Broken => Broken'
  BY <1>1, Zenon DEF Broken
<1>3. \A q \in Proc : /\ pc'[q] \in Pinned <=> pc[q] \in Pinned
                      /\ pc'[q] \in Claiming <=> pc[q] \in Claiming
  BY <1>1, <1>2 DEF Pinned, Pinning, Holding, Claiming, Rewriting
<1>4. ASSUME NEW s \in Slot PROVE Pins(s)' = Pins(s) /\ Claims(s)' = Claims(s)
  BY <1>1, <1>3 DEF Pins, Claims
<1>5. ReferenceExact'
  BY <1>1, <1>4 DEF ReferenceExact
<1>6. ASSUME NEW q \in Proc PROVE ProcOk(q)'
  <2>1. Home(q)' = Home(q) /\ Target(q)' = Target(q)
        /\ \A s \in Slot : MatchKey(q, s)' <=> MatchKey(q, s)
    BY <1>1, Zenon DEF Home, Target, MatchKey
  <2>2. CASE q = p
    <3>1. /\ pc'[p] \in {"dead", "deadPin", "deadClaim", "deadLink"}
          /\ pc'[p] # "deadPin" => ~owner[p]
      <4>1. owner[p] => pc[p] \in Pinned
        BY DEF ProcInv, OwnerOk, Pinned, Holding
      <4>2. pc[p] \in Pinned => pc'[p] = "deadPin"
        BY <1>1, <1>2
      <4>3. pc'[p] \in {"dead", "deadPin", "deadClaim", "deadLink"}
        BY <1>1, <1>2, Zenon
      <4> QED BY <4>1, <4>2, <4>3, ZenonT(60)
    <3> QED BY <1>1, <2>2, <3>1 DEF ProcOk, LockOk, WriteOk, AllocOk, PinOk,
               OwnerOk, Allocating, Rewriting, Holding
  <2>3. CASE q # p
    <3>1. \A l \in Stripe : lock[l] = q => lock'[l] = q
      BY <2>3 DEF Crash
    <3>2. pc'[q] = pc[q] /\ LockOk(q) /\ WriteOk(q) /\ AllocOk(q) /\ PinOk(q) /\ OwnerOk(q)
      BY <1>1, <2>3, Zenon DEF ProcInv
    <3>3. pc[q] \in {"find"} \cup Allocating => Target(q) \in Stripe
      BY DEF TypeOK, Target, Home, Allocating, Rewriting
    <3>4. LockOk(q)'
      BY <1>1, <2>1, <3>1, <3>2, <3>3, Zenon DEF LockOk
    <3>5. WriteOk(q)' /\ OwnerOk(q)'
      BY <1>1, <2>1, <3>2, Zenon DEF WriteOk, OwnerOk
    <3>6. AllocOk(q)'
      BY <1>1, <1>b, <2>1, <3>2, Zenon DEF AllocOk
    <3>7. PinOk(q)'
      BY <1>1, <2>1, <3>2, Zenon DEF PinOk, MatchKey
    <3> QED BY <3>4, <3>5, <3>6, <3>7, Zenon DEF ProcOk
  <2> QED BY <2>2, <2>3, Zenon
<1>7. FirstInv'
  <2>1. ASSUME NEW q \in Proc, First(q)' PROVE First(q)
    BY <1>1, <1>3, <2>1, ZenonT(60) DEF First, Pinning
  <2> QED BY <1>1, <2>1 DEF FirstInv
<1>8. ASSUME NEW s \in Slot, Dirty(s) PROVE Dirty(s)'
  <2>1. PICK q \in Proc : node[q] = s /\ pc[q] \in Rewriting \cup {"deadClaim", "deadLink"}
    BY <1>8 DEF Dirty
  <2>2. pc'[q] \in Rewriting \cup {"deadClaim", "deadLink"} /\ node'[q] = s
    BY <1>1, <2>1, Zenon DEF Rewriting, Claiming, Pinned, Pinning, Holding
  <2> QED BY <2>2, ZenonT(60) DEF Dirty
<1>9. DataInv' /\ KeyInv'
  BY <1>1, <1>8, <1>b, Zenon DEF DataInv, KeyInv
<1>10. ProcInv'
  BY <1>6 DEF ProcInv, ProcOk
<1> QED BY <1>5, <1>7, <1>9, <1>10

(***************************************************************************)
(* The second-chance bits do not matter to the invariant.                  *)
(***************************************************************************)
LEMMA TouchStep ==
    ASSUME IInv, TypeOK', \/ Touch
                          \/ UNCHANGED vars
    PROVE  IInv'
<1>1. UNCHANGED <<reference, key, hash, state, data, lock, pc, op, want, node, seen, owner>>
  BY ZenonT(60) DEF Touch, vars, meta, local
<1>b. Broken' <=> Broken
  BY <1>1, Zenon DEF Broken
<1>2. ReferenceExact'
  BY <1>1, ZenonT(60) DEF IInv, ReferenceExact, Pins, Claims
<1>3. ProcInv'
  <2>1. SUFFICES ASSUME NEW q \in Proc
                 PROVE  (LockOk(q) /\ WriteOk(q) /\ AllocOk(q) /\ PinOk(q) /\ OwnerOk(q))'
    BY Zenon DEF ProcInv
  <2>2. LockOk(q) /\ WriteOk(q) /\ AllocOk(q) /\ PinOk(q) /\ OwnerOk(q)
    BY Zenon DEF IInv, ProcInv
  <2>3. /\ Home(q)' = Home(q) /\ Target(q)' = Target(q)
        /\ \A s \in Slot : MatchKey(q, s)' <=> MatchKey(q, s)
    BY <1>1, Zenon DEF Home, Target, MatchKey
  <2>4. LockOk(q)' /\ WriteOk(q)'
    BY <1>1, <2>2, <2>3, ZenonT(60) DEF LockOk, WriteOk
  <2>5. AllocOk(q)'
    BY <1>1, <1>b, <2>2, <2>3, ZenonT(60) DEF AllocOk
  <2>6. PinOk(q)' /\ OwnerOk(q)'
    BY <1>1, <2>2, <2>3, ZenonT(60) DEF PinOk, OwnerOk, MatchKey, Home
  <2> QED BY <2>4, <2>5, <2>6, Zenon
<1>4. FirstInv' /\ DataInv' /\ KeyInv'
  BY <1>1, <1>b, Zenon DEF IInv, FirstInv, First, DataInv, KeyInv, Dirty
<1> QED BY <1>2, <1>3, <1>4, ZenonT(60) DEF IInv

(***************************************************************************)
(* IInv holds initially and every step of Next keeps it.                   *)
(***************************************************************************)
LEMMA InitInv == Init => IInv
<1> SUFFICES ASSUME Init PROVE IInv
  BY Zenon
<1> USE ConstantsAssumption DEF Init
<1>1. TypeOK
  BY StepNames DEF TypeOK, State, Claiming, Pinned, Pinning, Holding, PinHitSteps,
     Rewriting
<1>2. ReferenceExact
  <2>1. ASSUME NEW s \in Slot
        PROVE  Claims(s) = {} /\ reference[s] = Cardinality(Pins(s)) /\ reference[s] # Claimed
    <3>1. Pins(s) = {} /\ Claims(s) = {}
      BY Zenon DEF Pins, Claims, Claiming, Pinned, Pinning, Holding, Rewriting
    <3>2. Cardinality(Pins(s)) = 0
      BY <3>1, FS_EmptySet, Zenon
    <3>3. reference[s] = 0 /\ 0 # Claimed
      OBVIOUS
    <3> QED BY <3>1, <3>2, <3>3, Zenon
  <2> QED BY <2>1, Zenon DEF ReferenceExact
<1>3. ProcInv
  BY Zenon DEF ProcInv, LockOk, WriteOk, AllocOk, PinOk, OwnerOk, Allocating, Rewriting,
     Holding
<1>4. FirstInv /\ DataInv /\ KeyInv
  BY DEF FirstInv, First, DataInv, KeyInv, Pinned, Pinning, Holding
<1> QED BY <1>1, <1>2, <1>3, <1>4 DEF IInv

(***************************************************************************)
(* Every step of Next keeps the inductive invariant.                       *)
(***************************************************************************)
LEMMA NextInv == IInv /\ [Next]_vars => IInv'
<1> SUFFICES ASSUME IInv, [Next]_vars PROVE IInv'
  OBVIOUS
<1>1. TypeOK'
  <2>1. CASE UNCHANGED vars
    BY <2>1, Zenon DEF IInv, TypeOK, vars, meta, local
  <2> QED BY <2>1, TypeStep, Zenon
<1>2. CASE Touch \/ UNCHANGED vars
  BY <1>1, <1>2, TouchStep, Zenon
<1>3. ASSUME NEW p \in Proc, Crash(p) PROVE IInv'
  BY <1>1, <1>3, CrashStep, Zenon
<1>4. ASSUME NEW p \in Proc, Step(p) PROVE IInv'
  <2>1. Frame(p)
    BY <1>4, StepFrame, Zenon DEF IInv
  <2>2. ReferenceExact' /\ FirstInv' /\ DataInv' /\ KeyInv'
    BY <1>1, <1>4, <2>1, ReferenceStep, FirstStep, SlotsStep, Zenon
  <2>3. \A q \in Proc : ProcOk(q)'
    BY <1>4, <2>1, OwnStep, OthersStep, Zenon DEF ProcOk, IInv
  <2>4. ProcInv'
    BY <2>3 DEF ProcInv, ProcOk
  <2> QED BY <1>1, <2>2, <2>4, Zenon DEF IInv
<1> QED BY <1>2, <1>3, <1>4, Zenon DEF Next

(***************************************************************************)
(* The inductive invariant holds throughout, whichever workers die; what   *)
(* it says of keys being unique holds until one dies inside Remove or      *)
(* MoveTo.                                                                 *)
(***************************************************************************)
THEOREM Invariance == Spec => []IInv
BY InitInv, NextInv, PTL DEF Spec

(***************************************************************************)
(* The words of SlotMeta and the locals of the calls stay in range.        *)
(***************************************************************************)
THEOREM TypeCorrect == Spec => []TypeOK
<1>1. IInv => TypeOK
  BY DEF IInv
<1> QED BY <1>1, Invariance, PTL

(***************************************************************************)
(* The reference word counts exactly the handles and pins in flight, or    *)
(* marks exactly one claim, for any number of processes and slots.         *)
(***************************************************************************)
THEOREM ReferenceIsExact == Spec => []ReferenceExact
<1>1. IInv => ReferenceExact
  BY Zenon DEF IInv
<1> QED BY <1>1, Invariance, PTL

(***************************************************************************)
(* A handle stays on the slot of its key.                                  *)
(***************************************************************************)
THEOREM HandlesKeepTheirKey == Spec => []HandleKeepsKey
<1>1. IInv => HandleKeepsKey
  BY Zenon DEF IInv, ProcInv, PinOk, HandleKeepsKey
<1> QED BY <1>1, Invariance, PTL

(***************************************************************************)
(* At most one handle owns the fill of a slot.                             *)
(***************************************************************************)
THEOREM AtMostOneOwner == Spec => []OneOwner
<1>1. IInv => OneOwner
  BY Zenon DEF IInv, FirstInv, First, OneOwner
<1> QED BY <1>1, Invariance, PTL

(***************************************************************************)
(* A handle on a Ready slot reads the bytes of its own key.                *)
(***************************************************************************)
THEOREM ReadyDataIsOwn == Spec => []ReadyServesOwnKey
<1>1. ASSUME IInv, NEW p \in Proc, pc[p] \in Holding, state[node[p]] = "Ready"
      PROVE  data[node[p]] = want[p]
  <2>1. pc[p] \in Pinned
    BY <1>1, Zenon DEF Pinned
  <2>2. node[p] \in Slot /\ Claims(node[p]) = {}
    BY <1>1, <2>1, PinnedReference, Zenon DEF IInv
  <2>3. ~Dirty(node[p])
    BY <2>2, Zenon DEF Dirty, Claims, Claiming
  <2>4. key[node[p]] = want[p]
    BY <1>1, Zenon DEF IInv, ProcInv, PinOk, MatchKey
  <2> QED BY <1>1, <2>2, <2>3, <2>4, Zenon DEF IInv, DataInv
<1>2. IInv => ReadyServesOwnKey
  BY <1>1, Zenon DEF ReadyServesOwnKey
<1> QED BY <1>2, Invariance, PTL

(***************************************************************************)
(* A key is never in two slots that lookups can pin, unless a worker died  *)
(* inside Remove or MoveTo and left the chains broken.                     *)
(***************************************************************************)
THEOREM KeysAreUnique == Spec => []NoDuplicateKey
<1>1. ASSUME IInv, NEW s \in Slot, Dirty(s) PROVE reference[s] = Claimed
  <2>1. PICK q \in Proc : node[q] = s /\ pc[q] \in Claiming
    BY <1>1, Zenon DEF Dirty, Claiming
  <2> QED BY <1>1, <2>1, ClaimedReference, Zenon DEF IInv
<1>2. IInv => NoDuplicateKey
  BY <1>1 DEF IInv, KeyInv, NoDuplicateKey, UniqueKeys
<1> QED BY <1>2, Invariance, PTL

(***************************************************************************)
(* While a handle is on a Ready slot, neither the state nor the bytes of   *)
(* the slot change.                                                        *)
(***************************************************************************)
THEOREM ReadyStaysReady == Spec => ReadyIsStable
<1>1. ASSUME IInv, [Next]_vars, NEW p \in Proc, pc[p] \in Holding,
             pc'[p] \in Holding, state[node[p]] = "Ready"
      PROVE  state'[node[p]] = "Ready" /\ data'[node[p]] = data[node[p]]
  <2>1. CASE Touch \/ UNCHANGED vars \/ \E q \in Proc : Crash(q)
    BY <1>1, <2>1, ZenonT(60) DEF Touch, Crash, vars, meta
  <2>2. ASSUME NEW q \in Proc, Step(q)
        PROVE  state'[node[p]] = "Ready" /\ data'[node[p]] = data[node[p]]
    <3>1. Frame(q)
      BY <1>1, <2>2, StepFrame, Zenon DEF IInv
    <3>2. node[p] \in Slot /\ Claims(node[p]) = {}
      BY <1>1, PinnedReference, ZenonT(60) DEF IInv, Pinned
    <3>3. node[q] = node[p] => pc[q] \notin {"reset", "init", "hold", "filled"}
      BY <1>1, <3>2, Zenon DEF IInv, ProcInv, OwnerOk, Claims, Claiming, Rewriting
    <3> QED BY <1>1, <3>1, <3>2, <3>3, Zenon DEF Frame
  <2> QED BY <1>1, <2>1, <2>2, Zenon DEF Next
<1>2. IInv /\ [Next]_vars =>
        [\A p \in Proc :
           /\ pc[p] \in Holding /\ pc'[p] \in Holding
           /\ state[node[p]] = "Ready"
           => state'[node[p]] = "Ready" /\ data'[node[p]] = data[node[p]]]_vars
  BY <1>1
<1> QED BY <1>2, Invariance, PTL DEF Spec, ReadyIsStable
=============================================================================
