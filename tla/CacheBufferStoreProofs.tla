----------------------- MODULE CacheBufferStoreProofs -----------------------
(***************************************************************************)
(* The word-by-word protocol of the Cache2 buffer implements the atomic    *)
(* operations of SlotStore, for every number of calls, slots, keys,        *)
(* buckets and stripes, and with workers that may die at any step.         *)
(***************************************************************************)
EXTENDS CacheBufferStore, CacheBufferProofs

----------------------------------------------------------------------------
(* StoreInv, step by step                                                  *)

(***************************************************************************)
(* A step other than Publish makes no slot findable and moves no findable  *)
(* slot to another key.                                                    *)
(***************************************************************************)
LEMMA FindableStep ==
    ASSUME IInv, FindableOk, NEW p \in Proc, Step(p), Frame(p)
    PROVE  FindableOk'
<1> USE DEF IInv
<1>1. SUFFICES ASSUME NEW s \in Slot, Findable(s)'
               PROVE  key'[s] \in Key /\ hash'[s] = HashKey[key'[s]]
  BY DEF FindableOk
<1>2. CASE s = node[p] /\ pc[p] \in {"word0", "word1", "link", "remove"}
  <2>1. pc'[p] \in Rewriting /\ node'[p] = node[p]
    BY <1>2, StepAt, ZenonT(60) DEF StoreBlock, StoreOffset, MoveTo, Remove, Goto, local, TypeOK, Rewriting
  <2> QED BY <1>1, <1>2, <2>1, Zenon DEF Findable, Dirty
<1>3. CASE s = node[p] /\ pc[p] = "publish"
  <2>1. key[s] = want[p] /\ hash[s] = HashKey[want[p]] /\ want[p] \in Key
    BY <1>3, ZenonT(60) DEF ProcInv, WriteOk, Home, TypeOK
  <2>2. UNCHANGED <<key, hash>>
    BY <1>3, StepAt DEF Publish
  <2> QED BY <2>1, <2>2
<1>4. CASE ~(s = node[p] /\ pc[p] \in {"word0", "word1", "link", "remove", "publish"})
  <2>1. key'[s] = key[s] /\ hash'[s] = hash[s]
    BY <1>4 DEF Frame
  <2>2. ASSUME Dirty(s) PROVE Dirty(s)'
    <3>1. PICK q \in Proc : node[q] = s /\ pc[q] \in Rewriting \cup {"deadClaim", "deadLink"}
      BY <2>2 DEF Dirty
    <3>2. CASE q # p
      BY <3>1, <3>2 DEF Dirty, Frame
    <3>3. CASE q = p
      <4>1. pc'[p] \in Rewriting /\ node'[p] = node[p]
        BY <1>4, <3>1, <3>3, StepAt, ZenonT(60) DEF InitState, Goto, local, TypeOK, Rewriting, Dead
      <4> QED BY <3>1, <3>3, <4>1 DEF Dirty
    <3> QED BY <3>2, <3>3
  <2>3. Findable(s)
    BY <1>1, <2>1, <2>2 DEF Findable
  <2> QED BY <2>1, <2>3, ZenonT(60) DEF FindableOk
<1> QED BY <1>2, <1>3, <1>4

\* What StoreInv says of one call.
CallOk(p) ==
    /\ pc[p] = "idle" => want[p] = NONE
    /\ pc[p] \in {"claim"} \cup Claiming => node[p] \in Usable[p]
    /\ pc[p] = "kept" /\ owner[p] => state[node[p]] # "Loading"

(***************************************************************************)
(* A step keeps what StoreInv says of the calls.                           *)
(***************************************************************************)
LEMMA CallsStep ==
    ASSUME IInv, CallsOk, NEW p \in Proc, Step(p), Frame(p)
    PROVE  CallsOk'
<1> USE DEF IInv
<1>a. /\ pc \in [Proc -> PC] /\ want \in [Proc -> Key \cup {NONE}]
      /\ owner \in [Proc -> BOOLEAN] /\ state \in [Slot -> State]
  BY DEF TypeOK
<1>b. \A q \in Proc : CallOk(q)
  BY DEF CallsOk, CallOk
<1>1. ASSUME NEW q \in Proc \ {p} PROVE CallOk(q)'
  <2>1. /\ pc'[q] = pc[q] /\ want'[q] = want[q] /\ node'[q] = node[q] /\ owner'[q] = owner[q]
    BY DEF Frame
  <2>2. pc[q] = "kept" /\ owner[q] => state'[node[q]] = state[node[q]]
    BY OthersWords DEF First, Pinned, Holding
  <2> QED BY <1>b, <2>1, <2>2, Zenon DEF CallOk
<1>2. CallOk(p)'
  <2> USE DEF Goto, local
  <2>1. CASE Begin(p)
    BY <1>a, <2>1, Zenon DEF Begin, CallOk, Claiming, Rewriting
  <2>2. CASE Silent(p)
    <3>1. pc'[p] \notin {"idle", "kept"}
      BY <2>2 DEF Silent, Outside, Rewriting, Holding
    <3>2. KeepsSegment(p) /\ (pc[p] \in {"claim"} \cup Claiming => node[p] \in Usable[p])
      BY <1>b, <2>2 DEF Silent, CallOk
    <3> QED BY <3>1, <3>2 DEF CallOk, KeepsSegment
  <2>3. CASE Quits(p) \/ Release(p)
    <3>1. pc'[p] = "idle" /\ want'[p] = NONE
      BY <1>a, <2>3, Zenon DEF Quits, Release, Return
    <3> QED BY <3>1 DEF CallOk, Claiming, Rewriting
  <2>4. CASE Takes(p)
    <3>1. node[p] \in Usable[p] /\ node'[p] = node[p] /\ pc'[p] = "word0"
      BY <1>b, <2>4, Zenon DEF Takes, CallOk, Claiming
    <3> QED BY <3>1 DEF CallOk
  <2>5. ASSUME NEW own \in BOOLEAN, Attaches(p, own) PROVE CallOk(p)'
    <3>1. pc'[p] \in {"hold", "kept", "drop"} /\ (pc'[p] = "kept" => ~owner'[p])
      BY <1>a, <2>5, Zenon DEF Attaches
    <3> QED BY <3>1 DEF CallOk, Claiming, Rewriting
  <2>6. CASE Publish(p)
    <3>1. pc'[p] = "hold" \/ (pc'[p] = "idle" /\ want'[p] = NONE)
      BY <1>a, <2>6, Zenon DEF Publish, Return
    <3> QED BY <3>1, Zenon DEF CallOk, Claiming, Rewriting
  <2>7. CASE MarkReady(p) \/ MarkFailed(p)
    <3>1. node[p] \in Slot
      BY <2>7, Zenon DEF MarkReady, MarkFailed, TypeOK, Pinned, Holding
    <3>2. pc'[p] = "kept" /\ node'[p] = node[p] /\ state'[node[p]] \in {"Ready", "Failed"}
      BY <1>a, <2>7, <3>1 DEF MarkReady, MarkFailed
    <3> QED BY <3>2, Zenon DEF CallOk, Claiming, Rewriting
  <2> QED BY <2>1, <2>2, <2>3, <2>4, <2>5, <2>6, <2>7, StepNoticed, ZenonT(60)
<1> QED BY <1>1, <1>2 DEF CallsOk, CallOk

----------------------------------------------------------------------------
(* What the callers see, call by call and slot by slot                     *)

View == <<keyOf, stateOf, slotOf, ownerOf, want, deadOf, Broken>>

(***************************************************************************)
(* A function is its values.                                               *)
(***************************************************************************)
LEMMA SameValues ==
    ASSUME NEW D, NEW f, NEW g, f = [x \in D |-> f[x]], g = [x \in D |-> g[x]],
           \A x \in D : g[x] = f[x]
    PROVE  g = f
OBVIOUS

(***************************************************************************)
(* A function that differs from another at one place.                      *)
(***************************************************************************)
LEMMA OneValue ==
    ASSUME NEW D, NEW f, NEW g, f = [x \in D |-> f[x]], g = [x \in D |-> g[x]],
           NEW a \in D, \A x \in D \ {a} : g[x] = f[x]
    PROVE  g = [f EXCEPT ![a] = g[a]]
BY Zenon

(***************************************************************************)
(* The mapped variables are functions on the slots and on the calls.       *)
(***************************************************************************)
LEMMA ViewFunctions ==
    /\ keyOf = [s \in Slot |-> keyOf[s]] /\ keyOf' = [s \in Slot |-> keyOf'[s]]
    /\ stateOf = [s \in Slot |-> stateOf[s]] /\ stateOf' = [s \in Slot |-> stateOf'[s]]
    /\ slotOf = [p \in Proc |-> slotOf[p]] /\ slotOf' = [p \in Proc |-> slotOf'[p]]
    /\ ownerOf = [p \in Proc |-> ownerOf[p]] /\ ownerOf' = [p \in Proc |-> ownerOf'[p]]
BY DEF keyOf, stateOf, slotOf, ownerOf

(***************************************************************************)
(* A step of p, or its death, changes of the calls only p's own.           *)
(***************************************************************************)
LEMMA CallSeen ==
    ASSUME NEW p \in Proc, Frame(p)
    PROVE  /\ slotOf' = [slotOf EXCEPT ![p] = IF pc'[p] \in Holding THEN node'[p] ELSE NONE]
           /\ ownerOf' = [ownerOf EXCEPT ![p] = pc'[p] \in Holding /\ owner'[p]]
           /\ (pc'[p] \in Dead <=> pc[p] \in Dead) => deadOf' = deadOf
           /\ pc'[p] \in Dead => deadOf' = deadOf \cup {p}
           /\ pc[p] \notin Dead /\ pc'[p] \notin Dead => Broken' = Broken
<1>1. \A q \in Proc \ {p} : pc'[q] = pc[q] /\ node'[q] = node[q] /\ owner'[q] = owner[q]
  BY DEF Frame
<1>2. \A q \in Proc \ {p} : slotOf'[q] = slotOf[q]
  BY <1>1 DEF slotOf
<1>3. \A q \in Proc \ {p} : ownerOf'[q] = ownerOf[q]
  BY <1>1 DEF ownerOf
<1>4. /\ slotOf'[p] = IF pc'[p] \in Holding THEN node'[p] ELSE NONE
      /\ ownerOf'[p] = (pc'[p] \in Holding /\ owner'[p])
  BY DEF slotOf, ownerOf
<1>5. slotOf' = [slotOf EXCEPT ![p] = slotOf'[p]]
  BY <1>2, ViewFunctions, OneValue, Zenon
<1>6. ownerOf' = [ownerOf EXCEPT ![p] = ownerOf'[p]]
  BY <1>3, ViewFunctions, OneValue, Zenon
<1>7. /\ (pc'[p] \in Dead <=> pc[p] \in Dead) => deadOf' = deadOf
      /\ pc'[p] \in Dead => deadOf' = deadOf \cup {p}
  BY <1>1 DEF deadOf
<1>8. ASSUME pc[p] \notin Dead, pc'[p] \notin Dead PROVE Broken' = Broken
  <2>1. pc[p] # "deadLink" /\ pc'[p] # "deadLink"
    BY <1>8, Zenon DEF Dead
  <2>2. Broken' <=> Broken
    BY <1>1, <2>1, Zenon DEF Broken
  <2> QED BY <2>2, Zenon DEF Broken
<1> QED BY <1>4, <1>5, <1>6, <1>7, <1>8, Zenon

(***************************************************************************)
(* Where a call is pinned to a slot, or has claimed it, no other call      *)
(* rewrites the slot.                                                      *)
(***************************************************************************)
LEMMA DirtyAt ==
    ASSUME IInv, NEW p \in Proc, Frame(p), pc[p] \in Pinned \cup Claiming,
           NEW s \in Slot, s = node[p]
    PROVE  /\ Dirty(s) <=> pc[p] \in Rewriting \cup {"deadClaim", "deadLink"}
           /\ Dirty(s)' <=> node'[p] = s /\ pc'[p] \in Rewriting \cup {"deadClaim", "deadLink"}
<1>1. Claims(s) \subseteq {p}
  BY PinnedReference, ClaimedReference, Zenon DEF IInv
<1>2. ASSUME NEW q \in Proc \ {p}, node[q] = s
      PROVE  pc[q] \notin Rewriting \cup {"deadClaim", "deadLink"}
  BY <1>1, <1>2, Zenon DEF Claims, Claiming
<1>3. \A q \in Proc \ {p} : pc'[q] = pc[q] /\ node'[q] = node[q]
  BY DEF Frame
<1>4. Dirty(s) <=> pc[p] \in Rewriting \cup {"deadClaim", "deadLink"}
  BY <1>2, Zenon DEF Dirty
<1>5. Dirty(s)' <=> node'[p] = s /\ pc'[p] \in Rewriting \cup {"deadClaim", "deadLink"}
  BY <1>2, <1>3, Zenon DEF Dirty
<1> QED BY <1>4, <1>5, Zenon

\* A call that rewrites a slot goes on with it.
KeepsSlot(p) == pc'[p] \in Rewriting \cup {"deadClaim", "deadLink"} => node'[p] = node[p]

(***************************************************************************)
(* The callers see no change at the slots p is not on.                     *)
(***************************************************************************)
LEMMA ElsewhereSeen ==
    ASSUME NEW p \in Proc, Frame(p), KeepsSlot(p), NEW s \in Slot, s # node[p]
    PROVE  /\ keyOf'[s] = keyOf[s] /\ stateOf'[s] = stateOf[s]
           /\ Findable(s)' <=> Findable(s)
<1>1. pc[p] \in Rewriting \cup {"deadClaim", "deadLink"} => node[p] # s
  BY Zenon
<1>2. \A q \in Proc \ {p} : pc'[q] = pc[q] /\ node'[q] = node[q]
  BY Zenon DEF Frame
<1>3. Dirty(s)' <=> Dirty(s)
  BY <1>1, <1>2, Zenon DEF Dirty, KeepsSlot
<1>4. key'[s] = key[s] /\ hash'[s] = hash[s] /\ state'[s] = state[s]
  BY DEF Frame
<1>5. Findable(s)' <=> Findable(s)
  BY <1>3, <1>4, Zenon DEF Findable
<1> QED BY <1>4, <1>5, Zenon DEF keyOf, stateOf

(***************************************************************************)
(* The callers see no change at any slot when p writes no word and neither *)
(* begins nor ends rewriting.                                              *)
(***************************************************************************)
LEMMA WordsSeen ==
    ASSUME NEW p \in Proc, Frame(p), UNCHANGED Words,
           pc[p] \notin Rewriting \cup {"deadClaim", "deadLink"},
           pc'[p] \notin Rewriting \cup {"deadClaim", "deadLink"}
    PROVE  keyOf' = keyOf /\ stateOf' = stateOf
<1>1. \A q \in Proc \ {p} : pc'[q] = pc[q] /\ node'[q] = node[q]
  BY DEF Frame
<1>2. \A s \in Slot : Dirty(s)' <=> Dirty(s)
  BY <1>1 DEF Dirty
<1>3. \A s \in Slot : Findable(s)' <=> Findable(s)
  BY <1>2, Zenon DEF Findable, Words
<1>4. \A s \in Slot : keyOf'[s] = keyOf[s] /\ stateOf'[s] = stateOf[s]
  BY <1>3 DEF keyOf, stateOf, Words
<1> QED BY <1>4, ViewFunctions, SameValues, ZenonT(60)

(***************************************************************************)
(* The callers see the change at the slot p is on.                         *)
(***************************************************************************)
LEMMA SlotSeen ==
    ASSUME NEW p \in Proc, Frame(p), KeepsSlot(p), node[p] \in Slot
    PROVE  /\ keyOf' = [keyOf EXCEPT ![node[p]] = keyOf'[node[p]]]
           /\ stateOf' = [stateOf EXCEPT ![node[p]] = stateOf'[node[p]]]
<1>1. \A s \in Slot \ {node[p]} : keyOf'[s] = keyOf[s] /\ stateOf'[s] = stateOf[s]
  BY ElsewhereSeen
<1>2. keyOf' = [keyOf EXCEPT ![node[p]] = keyOf'[node[p]]]
  BY <1>1, ViewFunctions, OneValue, Zenon
<1>3. stateOf' = [stateOf EXCEPT ![node[p]] = stateOf'[node[p]]]
  BY <1>1, ViewFunctions, OneValue, Zenon
<1> QED BY <1>2, <1>3

(***************************************************************************)
(* A call that has verified its pin is on a slot that shows its key.       *)
(***************************************************************************)
LEMMA OnKey ==
    ASSUME IInv, NEW p \in Proc, pc[p] \in {"own", "reset"} \cup Holding
    PROVE  /\ node[p] \in Slot /\ node[p] # NONE /\ want[p] \in Key /\ want[p] # NONE
           /\ Findable(node[p])
           /\ keyOf[node[p]] = want[p] /\ stateOf[node[p]] = state[node[p]]
<1>1. pc[p] \in Pinned
  BY DEF Pinned, Pinning
<1>2. node[p] \in Slot /\ Claims(node[p]) = {}
  BY <1>1, PinnedReference, Zenon DEF IInv
<1>3. want[p] \in Key
  BY Zenon DEF IInv, TypeOK, Holding
<1>4. node[p] # NONE /\ want[p] # NONE
  BY <1>2, <1>3, ConstantsAssumption, Zenon
<1>5. ~Dirty(node[p])
  BY <1>2 DEF Dirty, Claims, Claiming
<1>6. hash[node[p]] = HashKey[want[p]] /\ key[node[p]] = want[p]
  BY DEF IInv, ProcInv, PinOk, MatchKey, Home
<1>7. hash[node[p]] # NONE
  BY <1>3, <1>6, ConstantsAssumption
<1>8. Findable(node[p])
  BY <1>5, <1>7 DEF Findable
<1> QED BY <1>2, <1>3, <1>4, <1>6, <1>8, Zenon DEF keyOf, stateOf

(***************************************************************************)
(* The death of a worker stays within the frame of its call.               *)
(***************************************************************************)
LEMMA CrashFrame ==
    ASSUME IInv, NEW p \in Proc, Crash(p)
    PROVE  /\ Frame(p)
           /\ UNCHANGED <<key, hash, state, want, node, owner>>
           /\ pc[p] \notin Dead \cup {"idle"} /\ pc'[p] \in Dead
           /\ pc'[p] \in {"deadClaim", "deadLink"} <=> pc[p] \in Claiming
<1>1. pc \in [Proc -> PC] /\ lock \in [Stripe -> Proc \cup {NONE}]
  BY DEF IInv, TypeOK
<1>2. UNCHANGED <<reference, key, hash, state, data, op, want, node, seen, owner>>
  BY DEF Crash, meta, local
<1>3. \A l \in Stripe : lock'[l] = IF lock[l] = p THEN NONE ELSE lock[l]
  BY DEF Crash
<1>4. \A q \in Proc \ {p} : pc'[q] = pc[q]
  BY <1>1 DEF Crash, Goto
<1>5. pc'[p] = CASE pc[p] \in Pinned -> "deadPin"
                 [] pc[p] \in Relinking -> "deadLink"
                 [] pc[p] \in Claiming \ Relinking -> "deadClaim"
                 [] OTHER -> "dead"
  BY <1>1 DEF Crash, Goto
<1>6. /\ pc[p] \in Claiming => pc[p] \notin Pinned
      /\ Relinking \subseteq Claiming
  BY DEF Pinned, Pinning, Holding, Claiming, Relinking, Rewriting
<1>7. pc'[p] \in Dead /\ (pc'[p] \in {"deadClaim", "deadLink"} <=> pc[p] \in Claiming)
  BY <1>5, <1>6, Zenon DEF Dead
<1>8. Frame(p)
  BY <1>2, <1>3, <1>4, Zenon DEF Frame
<1> QED BY <1>2, <1>7, <1>8, Zenon DEF Crash

(***************************************************************************)
(* StoreInv holds at first: no call is under way and no slot is found.     *)
(***************************************************************************)
LEMMA StoreInvInit == Init => StoreInv
BY ConstantsAssumption DEF Init, StoreInv, CallsOk, FindableOk, Findable, Claiming, Rewriting

(***************************************************************************)
(* StoreInv is inductive relative to IInv.                                 *)
(***************************************************************************)
LEMMA StoreInvStep == IInv /\ StoreInv /\ [Next]_vars => StoreInv'
<1> SUFFICES ASSUME IInv, StoreInv, [Next]_vars PROVE StoreInv'
  BY ZenonT(60)
<1>1. CASE Touch \/ UNCHANGED vars
  <2>1. UNCHANGED <<key, hash, state, pc, want, node, owner>>
    BY <1>1 DEF Touch, vars, meta, local
  <2>2. \A s : Findable(s)' <=> Findable(s)
    BY <2>1 DEF Findable, Dirty
  <2> QED BY <2>1, <2>2, ZenonT(60) DEF StoreInv, CallsOk, FindableOk
<1>2. ASSUME NEW p \in Proc, Step(p) PROVE StoreInv'
  BY <1>2, StepFrame, CallsStep, FindableStep, Zenon DEF StoreInv, IInv
<1>3. ASSUME NEW p \in Proc, Crash(p) PROVE StoreInv'
  <2>1. /\ Frame(p)
        /\ UNCHANGED <<key, hash, state, want, node, owner>>
        /\ pc'[p] \in Dead
        /\ pc'[p] \in {"deadClaim", "deadLink"} <=> pc[p] \in Claiming
    BY <1>3, CrashFrame, ZenonT(60)
  <2>2. \A q \in Proc \ {p} : pc'[q] = pc[q]
    BY <2>1, Zenon DEF Frame
  <2>3. \A q \in Proc : CallOk(q)
    BY DEF StoreInv, CallsOk, CallOk
  <2>4. \A q \in Proc : CallOk(q)'
    <3>1. /\ pc'[p] \notin {"idle", "kept"}
          /\ pc'[p] \in {"claim"} \cup Claiming => pc[p] \in Claiming
      BY <2>1, ZenonT(60) DEF Dead, Claiming, Rewriting
    <3>2. CallOk(p)'
      BY <2>1, <2>3, <3>1, Zenon DEF CallOk
    <3>3. \A q \in Proc \ {p} : CallOk(q)'
      BY <2>1, <2>2, <2>3, Zenon DEF CallOk
    <3> QED BY <3>2, <3>3
  <2>5. ASSUME NEW s \in Slot, Dirty(s) PROVE Dirty(s)'
    BY <2>1, <2>2, <2>5, Zenon DEF Dirty, Claiming
  <2>6. \A s \in Slot : Findable(s)' => Findable(s)
    BY <2>1, <2>5 DEF Findable
  <2> QED BY <2>1, <2>4, <2>6 DEF StoreInv, CallsOk, CallOk, FindableOk
<1> QED BY <1>1, <1>2, <1>3 DEF Next

----------------------------------------------------------------------------
(* The steps and the atomic operations                                     *)

(***************************************************************************)
(* A step between two places where p has no handle.                        *)
(***************************************************************************)
LEMMA NoHandleSeen ==
    ASSUME NEW p \in Proc, Frame(p), pc[p] \notin Holding \cup Dead,
           pc'[p] \notin Holding \cup Dead
    PROVE  UNCHANGED <<slotOf, ownerOf, deadOf, Broken>>
<1>1. slotOf[p] = NONE /\ ownerOf[p] = FALSE
  BY Zenon DEF slotOf, ownerOf
<1>2. /\ slotOf' = [slotOf EXCEPT ![p] = NONE]
      /\ ownerOf' = [ownerOf EXCEPT ![p] = FALSE]
      /\ deadOf' = deadOf /\ Broken' = Broken
  BY CallSeen, ZenonT(60)
<1> QED BY <1>1, <1>2, ViewFunctions, Zenon

(***************************************************************************)
(* The callers do not notice a silent step.                                *)
(***************************************************************************)
LEMMA SilentRefines ==
    ASSUME IInv, NEW p \in Proc, Frame(p), Silent(p)
    PROVE  UNCHANGED View
<1>1. CASE pc[p] \in Outside /\ pc'[p] \in Outside /\ UNCHANGED Words
  <2>1. /\ pc[p] \notin Holding \cup Dead /\ pc[p] \notin Rewriting \cup {"deadClaim", "deadLink"}
        /\ pc'[p] \notin Holding \cup Dead /\ pc'[p] \notin Rewriting \cup {"deadClaim", "deadLink"}
    BY <1>1 DEF Outside, Dead
  <2>2. keyOf' = keyOf /\ stateOf' = stateOf
    BY <1>1, <2>1, WordsSeen, Zenon
  <2> QED BY <2>1, <2>2, NoHandleSeen, Zenon DEF View, Silent
<1>2. CASE pc[p] \in Rewriting /\ pc'[p] \in Rewriting /\ node' = node
  <2>1. /\ pc[p] \notin Holding \cup Dead /\ pc[p] \in Claiming
        /\ pc'[p] \notin Holding \cup Dead
    BY <1>2, Zenon DEF Rewriting, Holding, Dead, Claiming
  <2>2. node[p] \in Slot
    BY <2>1, ClaimedReference, Zenon DEF IInv
  <2>3. ASSUME NEW s \in Slot, s = node[p] PROVE ~Findable(s) /\ ~Findable(s)'
    BY <1>2, <2>3, Zenon DEF Dirty, Findable
  <2>4. keyOf'[node[p]] = keyOf[node[p]] /\ stateOf'[node[p]] = stateOf[node[p]]
    BY <2>2, <2>3, Zenon DEF keyOf, stateOf
  <2>5. KeepsSlot(p)
    BY <1>2, Zenon DEF KeepsSlot
  <2>6. keyOf' = keyOf /\ stateOf' = stateOf
    BY <2>2, <2>4, <2>5, SlotSeen, ViewFunctions
  <2> QED BY <2>1, <2>6, NoHandleSeen, Zenon DEF View, Silent
<1>3. CASE pc[p] = "hold" /\ pc'[p] = "filled" /\ UNCHANGED <<node, owner, Words>>
  <2>1. /\ pc[p] \in Holding /\ pc[p] \notin Dead /\ pc[p] \notin Rewriting \cup {"deadClaim", "deadLink"}
        /\ pc'[p] \in Holding /\ pc'[p] \notin Dead /\ pc'[p] \notin Rewriting \cup {"deadClaim", "deadLink"}
    BY <1>3, Zenon DEF Rewriting, Holding, Dead
  <2>2. keyOf' = keyOf /\ stateOf' = stateOf
    BY <1>3, <2>1, WordsSeen, Zenon
  <2>3. deadOf' = deadOf /\ Broken' = Broken
    BY <2>1, CallSeen, Zenon
  <2>4. \A q \in Proc : slotOf'[q] = slotOf[q] /\ ownerOf'[q] = ownerOf[q]
    BY <1>3, <2>1, Zenon DEF Frame, slotOf, ownerOf
  <2>5. slotOf' = slotOf /\ ownerOf' = ownerOf
    BY <2>4, ViewFunctions, SameValues, Zenon
  <2> QED BY <2>2, <2>3, <2>5, Zenon DEF View, Silent
<1> QED BY <1>1, <1>2, <1>3, Zenon DEF Silent

(***************************************************************************)
(* A call begins.                                                          *)
(***************************************************************************)
LEMMA BeginRefines ==
    ASSUME IInv, StoreInv, NEW p \in Proc, Frame(p), Begin(p)
    PROVE  \E k \in Key : Store!Begin(p, k)
<1>1. PICK k \in Key : want' = [want EXCEPT ![p] = k]
  BY ZenonT(60) DEF Begin
<1>2. /\ pc[p] = "idle" /\ pc'[p] \in {"tryLock", "lookup"} /\ UNCHANGED Words
      /\ want[p] = NONE
  BY Zenon DEF Begin, Goto, meta, Words, IInv, TypeOK, StoreInv, CallsOk
<1>3. /\ pc[p] \notin Holding \cup Dead /\ pc[p] \notin Rewriting \cup {"deadClaim", "deadLink"}
      /\ pc'[p] \notin Holding \cup Dead /\ pc'[p] \notin Rewriting \cup {"deadClaim", "deadLink"}
  BY <1>2, Zenon DEF Holding, Dead, Rewriting
<1>4. keyOf' = keyOf /\ stateOf' = stateOf
  BY <1>2, <1>3, WordsSeen, Zenon
<1>5. UNCHANGED <<slotOf, ownerOf, deadOf, Broken>>
  BY <1>3, NoHandleSeen, Zenon
<1> QED BY <1>1, <1>2, <1>4, <1>5, Zenon DEF Store!Begin, Store!buffer

(***************************************************************************)
(* A call ends without a handle.                                           *)
(***************************************************************************)
LEMMA QuitsRefines ==
    ASSUME IInv, NEW p \in Proc, Frame(p), Quits(p)
    PROVE  Store!Return(p)
<1>1. /\ pc[p] \in Outside /\ pc'[p] = "idle" /\ UNCHANGED Words
      /\ want' = [want EXCEPT ![p] = NONE]
  BY DEF Quits, Return, Goto, IInv, TypeOK
<1>2. /\ pc[p] \notin Holding \cup Dead /\ pc[p] \notin Rewriting \cup {"deadClaim", "deadLink"}
      /\ pc'[p] \notin Holding \cup Dead /\ pc'[p] \notin Rewriting \cup {"deadClaim", "deadLink"}
      /\ pc[p] # "idle"
  BY <1>1, ZenonT(60) DEF Outside, Holding, Dead, Rewriting
<1>3. want[p] # NONE
  BY <1>2, ConstantsAssumption, ZenonT(60) DEF IInv, TypeOK
<1>4. keyOf' = keyOf /\ stateOf' = stateOf
  BY <1>1, <1>2, WordsSeen, ZenonT(60)
<1>5. UNCHANGED <<slotOf, ownerOf, deadOf, Broken>>
  BY <1>2, NoHandleSeen
<1>6. slotOf[p] = NONE /\ p \notin deadOf
  BY <1>2, ZenonT(60) DEF slotOf, deadOf
<1> QED BY <1>1, <1>3, <1>4, <1>5, <1>6, Zenon DEF Store!Return, Store!buffer

(***************************************************************************)
(* PinHit returns true.                                                    *)
(***************************************************************************)
LEMMA AttachRefines ==
    ASSUME IInv, NEW p \in Proc, Frame(p), NEW own \in BOOLEAN, Attaches(p, own)
    PROVE  Store!Get(p)
<1> DEFINE s == node[p]
<1>1. /\ pc[p] \in {"own", "reset"} /\ pc'[p] \in {"hold", "kept", "drop"}
      /\ owner'[p] = own /\ node'[p] = s /\ UNCHANGED <<key, hash, want>>
      /\ own => seen[p] = 0 /\ state[s] # "Ready"
  BY ZenonT(60) DEF Attaches, IInv, TypeOK
<1>2. /\ s \in Slot /\ s # NONE /\ want[p] # NONE /\ Findable(s)
      /\ keyOf[s] = want[p] /\ stateOf[s] = state[s]
  BY <1>1, OnKey, ZenonT(60)
<1>3. /\ pc[p] \notin Holding \cup Dead /\ pc'[p] \in Holding /\ pc'[p] \notin Dead
      /\ pc[p] \in Pinning /\ pc[p] \in Pinned
      /\ pc'[p] \notin Rewriting \cup {"deadClaim", "deadLink"}
  BY <1>1, Zenon DEF Holding, Dead, Pinned, Pinning, Rewriting
<1>4. slotOf[p] = NONE /\ p \notin deadOf
  BY <1>3 DEF slotOf, deadOf
<1>5. /\ slotOf' = [slotOf EXCEPT ![p] = s]
      /\ ownerOf' = [ownerOf EXCEPT ![p] = own]
      /\ deadOf' = deadOf /\ Broken' = Broken
  BY <1>1, <1>3, CallSeen, ZenonT(60)
<1>6. own => Store!Owners(s) = {}
  <2>1. SUFFICES ASSUME own, NEW q \in Proc, slotOf[q] = s, ownerOf[q] PROVE FALSE
    BY DEF Store!Owners, Store!Holders
  <2>2. pc[q] \in Holding /\ owner[q] /\ node[q] = s
    BY <1>2, <2>1, ZenonT(60) DEF slotOf, ownerOf
  <2>3. First(p) /\ First(q)
    BY <1>1, <1>3, <2>1, <2>2, ZenonT(60) DEF First, Pinned
  <2> QED BY <1>3, <2>2, <2>3, ZenonT(60) DEF IInv, FirstInv
<1>7. KeepsSlot(p)
  BY <1>1 DEF KeepsSlot
<1>8. ~Dirty(s)' /\ hash'[s] = hash[s] /\ hash[s] # NONE
  <2>1. ASSUME NEW t \in Slot, t = s PROVE ~Dirty(t)'
    BY <1>3, <2>1, DirtyAt, ZenonT(60)
  <2> QED BY <1>1, <1>2, <2>1, ZenonT(60) DEF Findable
<1>9. keyOf'[s] = keyOf[s] /\ stateOf'[s] = state'[s]
  BY <1>1, <1>2, <1>8, Zenon DEF keyOf, stateOf, Findable
<1>10. keyOf' = keyOf
  BY <1>2, <1>7, <1>9, SlotSeen, ViewFunctions, ZenonT(60)
<1>11. stateOf' = IF own THEN [stateOf EXCEPT ![s] = "Loading"] ELSE stateOf
  <2>1. stateOf' = [stateOf EXCEPT ![s] = state'[s]]
    BY <1>2, <1>7, <1>9, SlotSeen, ZenonT(60)
  <2>2. state'[s] = IF own THEN "Loading" ELSE stateOf[s]
    BY <1>2, Zenon DEF Attaches, IInv, TypeOK
  <2> QED BY <2>1, <2>2, ViewFunctions, Zenon
<1>12. Store!Attach(p, want[p], own)
  BY <1>1, <1>2, <1>4, <1>5, <1>6, <1>10, <1>11, ZenonT(60) DEF Store!Attach
<1> QED BY <1>1, <1>2, <1>4, <1>5, <1>12, ZenonT(60) DEF Store!Get

(***************************************************************************)
(* A slot without a key is Loading for the callers.                        *)
(***************************************************************************)
LEMMA NoKeySeen ==
    ASSUME StoreInv, NEW s \in Slot, keyOf[s] = NONE
    PROVE  stateOf[s] = "Loading"
<1>1. ~Findable(s)
  BY ConstantsAssumption, ZenonT(60) DEF StoreInv, FindableOk, keyOf
<1> QED BY <1>1, ZenonT(60) DEF stateOf

(***************************************************************************)
(* Alloc begins to rewrite the slot it claimed.                            *)
(***************************************************************************)
LEMMA TakesRefines ==
    ASSUME IInv, StoreInv, NEW p \in Proc, Frame(p), Takes(p)
    PROVE  (\E s \in Slot : Store!Reuse(s)) \/ UNCHANGED View
<1> DEFINE s == node[p]
<1>1. /\ pc[p] \in {"evict", "remove"} /\ pc'[p] = "word0" /\ node'[p] = s
      /\ want' = want
  BY DEF Takes
<1>2. /\ pc[p] \in Claiming /\ pc[p] \notin Holding \cup Dead
      /\ pc[p] \notin Rewriting \cup {"deadClaim", "deadLink"}
      /\ pc'[p] \in Rewriting /\ pc'[p] \notin Holding \cup Dead
  BY <1>1, ZenonT(60) DEF Claiming, Holding, Dead, Rewriting
<1>3. s \in Slot /\ Pins(s) = {} /\ s # NONE
  BY <1>2, ClaimedReference, ConstantsAssumption, ZenonT(60) DEF IInv
<1>4. UNCHANGED <<slotOf, ownerOf, deadOf, Broken>>
  BY <1>2, NoHandleSeen, ZenonT(60)
<1>5. KeepsSlot(p)
  BY <1>1, ZenonT(60) DEF KeepsSlot
<1>6. ASSUME NEW t \in Slot, t = s PROVE ~Dirty(t) /\ Dirty(t)'
  BY <1>1, <1>2, <1>6, DirtyAt, ZenonT(60)
<1>7. keyOf'[s] = NONE /\ stateOf'[s] = "Loading"
  BY <1>3, <1>6, Zenon DEF keyOf, stateOf, Findable
<1>8. /\ keyOf' = [keyOf EXCEPT ![s] = NONE]
      /\ stateOf' = [stateOf EXCEPT ![s] = "Loading"]
  BY <1>3, <1>5, <1>7, SlotSeen, Zenon
<1>9. CASE keyOf[s] # NONE
  <2>1. Store!Holders(s) = {}
    BY <1>3, Zenon DEF Store!Holders, slotOf, Pins, Pinned
  <2>2. Store!Reuse(s)
    BY <1>1, <1>4, <1>8, <1>9, <2>1, ZenonT(60) DEF Store!Reuse, Store!Evict, Store!Clear
  <2> QED BY <1>3, <2>2, Zenon
<1>10. CASE keyOf[s] = NONE
  <2>1. stateOf[s] = "Loading"
    BY <1>3, <1>10, NoKeySeen, Zenon
  <2>2. keyOf' = keyOf /\ stateOf' = stateOf
    BY <1>3, <1>8, <1>10, <2>1, ViewFunctions, ZenonT(60)
  <2> QED BY <1>1, <1>4, <2>2, Zenon DEF View
<1> QED BY <1>9, <1>10, Zenon

(***************************************************************************)
(* Publish makes the slot found under the key of the call.                 *)
(***************************************************************************)
LEMMA PublishPlaces ==
    ASSUME IInv, StoreInv, NEW p \in Proc, Frame(p), Publish(p)
    PROVE  /\ Store!Place(node[p], want[p])
           /\ node[p] \in Usable[p] /\ want[p] # NONE
<1> DEFINE s == node[p]
<1>1. /\ pc[p] = "publish" /\ pc[p] \in Claiming /\ pc[p] \in Rewriting
      /\ pc[p] \in Allocating
      /\ pc'[p] \notin Rewriting \cup {"deadClaim", "deadLink"} /\ UNCHANGED Words
  BY DEF Publish, Return, Goto, Claiming, Rewriting, Allocating, Words, IInv, TypeOK
<1>2. s \in Slot /\ Pins(s) = {} /\ s # NONE /\ s \in Usable[p]
  BY <1>1, ClaimedReference, ConstantsAssumption, ZenonT(60) DEF IInv, StoreInv, CallsOk
<1>3. want[p] \in Key /\ want[p] # NONE /\ HashKey[want[p]] # NONE
  BY <1>1, ConstantsAssumption DEF IInv, TypeOK
<1>4. hash[s] = HashKey[want[p]] /\ key[s] = want[p] /\ state[s] = "Loading"
  BY <1>1, ZenonT(60) DEF IInv, ProcInv, WriteOk, Home
<1>5. ASSUME NEW t \in Slot, t = s PROVE Dirty(t) /\ ~Dirty(t)'
  BY <1>1, <1>5, DirtyAt, ZenonT(60)
<1>6. keyOf'[s] = want[p] /\ stateOf'[s] = "Loading"
  <2>1. ASSUME NEW t \in Slot, t = s PROVE Findable(t)'
    BY <1>1, <1>3, <1>4, <1>5, <2>1, ZenonT(60) DEF Findable, Words
  <2> QED BY <1>1, <1>2, <1>4, <2>1, ZenonT(60) DEF keyOf, stateOf, Words
<1>7. KeepsSlot(p)
  BY <1>1, Zenon DEF KeepsSlot
<1>8. /\ keyOf' = [keyOf EXCEPT ![s] = want[p]]
      /\ stateOf' = [stateOf EXCEPT ![s] = "Loading"]
  BY <1>2, <1>6, <1>7, SlotSeen, Zenon
<1>9. Store!Cached(want[p]) => Broken
  <2>1. SUFFICES ASSUME ~Broken, NEW t \in Slot, keyOf[t] = want[p] PROVE FALSE
    BY Zenon DEF Store!Cached
  <2>2. Findable(t) /\ key[t] = want[p]
    BY <1>3, <2>1, Zenon DEF keyOf
  <2>3. hash[t] = HashKey[want[p]]
    BY <2>2, Zenon DEF StoreInv, FindableOk
  <2>4. t = s
    BY <1>1, <2>1, <2>2, <2>3, Zenon DEF IInv, ProcInv, AllocOk, MatchKey, Home
  <2> QED BY <1>5, <2>2, <2>4, Zenon DEF Findable
<1>10. Store!Holders(s) = {}
  BY <1>2 DEF Store!Holders, slotOf, Pins, Pinned
<1>11. Store!Place(s, want[p])
  BY <1>2, <1>8, <1>9, <1>10, ZenonT(60) DEF Store!Place
<1> QED BY <1>2, <1>3, <1>11, ZenonT(60)

(***************************************************************************)
(* Alloc ends: Get has its handle, and owns the fill; Prealloc returns.    *)
(***************************************************************************)
LEMMA PublishRefines ==
    ASSUME IInv, StoreInv, NEW p \in Proc, Frame(p), Publish(p)
    PROVE  Store!Get(p) \/ Store!Return(p)
<1>1. /\ Store!Place(node[p], want[p])
      /\ node[p] \in Usable[p] /\ want[p] # NONE
  BY PublishPlaces, Zenon
<1>2. pc[p] = "publish" /\ pc[p] \notin Holding \cup Dead
  BY DEF Publish, Holding, Dead
<1>3. slotOf[p] = NONE /\ p \notin deadOf
  BY <1>2, ZenonT(60) DEF slotOf, deadOf
<1>4. CASE op[p] = "Get"
  <2>1. /\ pc'[p] = "hold" /\ owner'[p] = TRUE /\ node' = node /\ want' = want
    BY <1>4, ZenonT(60) DEF Publish, Goto, IInv, TypeOK
  <2>2. pc'[p] \in Holding /\ pc'[p] \notin Dead
    BY <2>1 DEF Holding, Dead
  <2>3. /\ slotOf' = [slotOf EXCEPT ![p] = node[p]]
        /\ ownerOf' = [ownerOf EXCEPT ![p] = TRUE]
        /\ deadOf' = deadOf /\ Broken' = Broken
    BY <1>2, <2>1, <2>2, CallSeen, Zenon
  <2>4. Store!Install(p, want[p])
    BY <1>1, <1>3, <2>3, ZenonT(60) DEF Store!Install
  <2> QED BY <1>1, <1>3, <2>1, <2>3, <2>4, ZenonT(60) DEF Store!Get
<1>5. CASE op[p] # "Get"
  <2>1. pc'[p] = "idle" /\ want' = [want EXCEPT ![p] = NONE]
    BY <1>5, ZenonT(60) DEF Publish, Return, Goto, IInv, TypeOK
  <2>2. pc'[p] \notin Holding \cup Dead
    BY <2>1 DEF Holding, Dead
  <2>3. UNCHANGED <<slotOf, ownerOf, deadOf, Broken>>
    BY <1>2, <2>2, NoHandleSeen, ZenonT(60)
  <2> QED BY <1>1, <1>3, <2>1, <2>3, ZenonT(60) DEF Store!Return, Store!Preinstall
<1> QED BY <1>4, <1>5, Zenon

(***************************************************************************)
(* The owner ends its fill.                                                *)
(***************************************************************************)
LEMMA MarkRefines ==
    ASSUME IInv, NEW p \in Proc, Frame(p), MarkReady(p) \/ MarkFailed(p)
    PROVE  Store!Fill(p)
<1> DEFINE s == node[p]
<1>1. PICK result \in {"Ready", "Failed"} : state' = [state EXCEPT ![s] = result]
  BY ZenonT(60) DEF MarkReady, MarkFailed
<1>2. /\ pc[p] \in {"hold", "filled"} /\ pc'[p] = "kept"
      /\ UNCHANGED <<key, hash, want, node, owner>>
  BY ZenonT(60) DEF MarkReady, MarkFailed, Goto, local, IInv, TypeOK
<1>3. /\ pc[p] \in Holding /\ pc[p] \notin Dead /\ pc'[p] \in Holding /\ pc'[p] \notin Dead
      /\ pc[p] \in Pinned
      /\ pc'[p] \notin Rewriting \cup {"deadClaim", "deadLink"}
  BY <1>2, ZenonT(60) DEF Holding, Dead, Pinned, Rewriting
<1>4. /\ s \in Slot /\ Findable(s) /\ keyOf[s] = want[p] /\ stateOf[s] = state[s]
  BY <1>3, OnKey, Zenon
<1>5. owner[p] /\ state[s] = "Loading"
  BY <1>2, ZenonT(60) DEF IInv, ProcInv, OwnerOk
<1>6. slotOf[p] = s /\ ownerOf[p]
  BY <1>3, <1>5, ZenonT(60) DEF slotOf, ownerOf
<1>7. UNCHANGED <<slotOf, ownerOf, deadOf, Broken>>
  <2>1. \A q \in Proc : slotOf'[q] = slotOf[q] /\ ownerOf'[q] = ownerOf[q]
    BY <1>2, <1>3, ZenonT(60) DEF Frame, slotOf, ownerOf
  <2>2. deadOf' = deadOf /\ Broken' = Broken
    BY <1>3, CallSeen, ZenonT(60)
  <2> QED BY <2>1, <2>2, ViewFunctions, SameValues, ZenonT(60)
<1>8. KeepsSlot(p)
  BY <1>2, Zenon DEF KeepsSlot
<1>9. keyOf'[s] = keyOf[s] /\ stateOf'[s] = result
  <2>1. ASSUME NEW t \in Slot, t = s PROVE ~Dirty(t)'
    BY <1>3, <2>1, DirtyAt, ZenonT(60)
  <2>2. state'[s] = result
    BY <1>1, <1>4, ZenonT(60) DEF IInv, TypeOK
  <2> QED BY <1>2, <1>4, <2>1, <2>2, ZenonT(60) DEF keyOf, stateOf, Findable
<1>10. keyOf' = keyOf
  BY <1>4, <1>8, <1>9, SlotSeen, ViewFunctions, SMTT(30)
<1>11. stateOf' = [stateOf EXCEPT ![s] = result]
  BY <1>4, <1>8, <1>9, SlotSeen, ZenonT(60)
<1>12. Store!Mark(p, result)
  BY <1>4, <1>5, <1>6, <1>7, <1>10, <1>11, ZenonT(60) DEF Store!Mark
<1> QED BY <1>1, <1>2, <1>7, <1>12, ZenonT(60) DEF Store!Fill

(***************************************************************************)
(* A handle is released, an owner's after its fill has ended.              *)
(***************************************************************************)
LEMMA ReleaseRefines ==
    ASSUME IInv, StoreInv, NEW p \in Proc, Frame(p), Release(p)
    PROVE  Store!Release(p)
<1> DEFINE s == node[p]
<1>1. /\ pc[p] \in {"kept", "drop"} /\ pc'[p] = "idle" /\ UNCHANGED Words
      /\ want' = [want EXCEPT ![p] = NONE]
  BY ZenonT(60) DEF Release, Return, Goto, Words, IInv, TypeOK
<1>2. /\ pc[p] \in Holding /\ pc[p] \notin Dead /\ pc[p] \notin Rewriting \cup {"deadClaim", "deadLink"}
      /\ pc'[p] \notin Holding /\ pc'[p] \notin Dead
      /\ pc'[p] \notin Rewriting \cup {"deadClaim", "deadLink"}
  BY <1>1 DEF Holding, Dead, Rewriting
<1>3. s \in Slot /\ s # NONE /\ stateOf[s] = state[s]
  BY <1>2, OnKey, ZenonT(60)
<1>4. keyOf' = keyOf /\ stateOf' = stateOf
  BY <1>1, <1>2, WordsSeen, Zenon
<1>5. slotOf[p] = s /\ (ownerOf[p] <=> owner[p])
  BY <1>2, ZenonT(60) DEF slotOf, ownerOf
<1>6. owner[p] => stateOf[s] # "Loading"
  BY <1>1, <1>3, ZenonT(60) DEF IInv, ProcInv, OwnerOk, StoreInv, CallsOk
<1>7. /\ slotOf' = [slotOf EXCEPT ![p] = NONE]
      /\ ownerOf' = [ownerOf EXCEPT ![p] = FALSE]
      /\ deadOf' = deadOf /\ Broken' = Broken
  BY <1>2, CallSeen, Zenon
<1>8. slotOf' = [h \in Proc |-> IF h \in {p} THEN NONE ELSE slotOf[h]]
  BY <1>7, ViewFunctions
<1>9. ownerOf' = [h \in Proc |-> h \notin {p} /\ ownerOf[h]]
  <2>1. \A h \in Proc : ownerOf[h] \in BOOLEAN
    BY DEF ownerOf
  <2>2. \A h \in Proc : ownerOf'[h] = (h \notin {p} /\ ownerOf[h])
    BY <1>7, <2>1, ViewFunctions, ZenonT(60)
  <2> QED BY <2>2, ViewFunctions, Zenon
<1>10. ASSUME NEW t \in Slot
       PROVE  ~(stateOf[t] = "Loading" /\ Store!Owners(t) \cap {p} # {})
  BY <1>5, <1>6 DEF Store!Owners, Store!Holders
<1>11. stateOf' = [t \in Slot |->
          IF stateOf[t] = "Loading" /\ Store!Owners(t) \cap {p} # {}
          THEN "Failed" ELSE stateOf[t]]
  BY <1>4, <1>10, ViewFunctions, ZenonT(60)
<1>12. Store!Drop({p})
  BY <1>4, <1>8, <1>9, <1>11, ZenonT(60) DEF Store!Drop
<1> QED BY <1>1, <1>3, <1>5, <1>6, <1>7, <1>12, ZenonT(60) DEF Store!Release

(***************************************************************************)
(* A worker dies; in Alloc, before the slot is rewritten, its key is lost  *)
(* with the claim.                                                         *)
(***************************************************************************)
LEMMA CrashRefines ==
    ASSUME IInv, StoreInv, NEW p \in Proc, Crash(p)
    PROVE  Store!Die(p)
<1> DEFINE s == node[p]
<1>1. /\ Frame(p) /\ UNCHANGED <<key, hash, state, want, node, owner>>
      /\ pc[p] \notin Dead \cup {"idle"} /\ pc'[p] \in Dead
      /\ pc'[p] \in {"deadClaim", "deadLink"} <=> pc[p] \in Claiming
  BY CrashFrame, Zenon
<1>2. pc'[p] \notin Holding /\ pc'[p] \notin Rewriting
  BY <1>1 DEF Dead, Holding, Rewriting
<1>3. /\ slotOf' = [slotOf EXCEPT ![p] = NONE]
      /\ ownerOf' = [ownerOf EXCEPT ![p] = FALSE]
      /\ deadOf' = deadOf \cup {p}
  BY <1>1, <1>2, CallSeen, ZenonT(60)
<1>4. want[p] # NONE /\ p \notin deadOf
  BY <1>1, ConstantsAssumption, ZenonT(60) DEF IInv, TypeOK, deadOf
<1>b. Broken' \in {Broken, TRUE}
  <2>1. \A q \in Proc \ {p} : pc'[q] = pc[q]
    BY <1>1, Zenon DEF Frame
  <2>2. pc[p] # "deadLink"
    BY <1>1, Zenon DEF Dead
  <2>3. Broken => Broken'
    BY <2>1, <2>2, Zenon DEF Broken
  <2> QED BY <2>3, Zenon DEF Broken
<1>5. CASE pc[p] \notin Claiming
  <2>1. pc[p] \notin Rewriting \cup {"deadClaim", "deadLink"} /\ pc'[p] \notin Rewriting \cup {"deadClaim", "deadLink"}
    BY <1>1, <1>2, <1>5, Zenon DEF Claiming
  <2>2. UNCHANGED Words
    BY <1>1, ZenonT(60) DEF Words
  <2>3. keyOf' = keyOf /\ stateOf' = stateOf
    BY <1>1, <2>1, <2>2, WordsSeen, Zenon
  <2> QED BY <1>1, <1>3, <1>4, <1>b, <2>3, ZenonT(60) DEF Store!Die
<1>6. CASE pc[p] \in Claiming
  <2>1. s \in Slot /\ Pins(s) = {} /\ s # NONE /\ s \in Usable[p]
    BY <1>6, ClaimedReference, ConstantsAssumption, Zenon DEF IInv, StoreInv, CallsOk
  <2>2. KeepsSlot(p)
    BY <1>1, ZenonT(60) DEF KeepsSlot
  <2>3. ASSUME NEW t \in Slot, t = s PROVE Dirty(t)'
    BY <1>1, <1>6, <2>3, DirtyAt, Zenon
  <2>4. keyOf'[s] = NONE /\ stateOf'[s] = "Loading"
    BY <2>1, <2>3, ZenonT(60) DEF keyOf, stateOf, Findable
  <2>5. /\ keyOf' = [keyOf EXCEPT ![s] = NONE]
        /\ stateOf' = [stateOf EXCEPT ![s] = "Loading"]
    BY <1>1, <2>1, <2>2, <2>4, SlotSeen, ZenonT(60)
  <2>6. CASE keyOf[s] # NONE
    <3>1. Store!Holders(s) = {}
      BY <2>1 DEF Store!Holders, slotOf, Pins, Pinned
    <3>2. Store!Clear(s)
      BY <2>5, <2>6, <3>1, ZenonT(60) DEF Store!Clear
    <3> QED BY <1>1, <1>3, <1>4, <1>b, <2>1, <3>2, ZenonT(60) DEF Store!Die
  <2>7. CASE keyOf[s] = NONE
    <3>1. stateOf[s] = "Loading"
      BY <2>1, <2>7, NoKeySeen, Zenon
    <3>2. keyOf' = keyOf /\ stateOf' = stateOf
      BY <2>1, <2>5, <2>7, <3>1, ViewFunctions, ZenonT(60)
    <3> QED BY <1>1, <1>3, <1>4, <1>b, <3>2, ZenonT(60) DEF Store!Die
  <2> QED BY <2>6, <2>7, ZenonT(60)
<1> QED BY <1>5, <1>6, ZenonT(60)

(***************************************************************************)
(* Every step of the buffer is an atomic operation of SlotStore, or leaves *)
(* what the callers see alone.                                             *)
(***************************************************************************)
LEMMA NextRefines ==
    IInv /\ StoreInv /\ [Next]_vars => [Store!Next]_(Store!vars)
<1> SUFFICES ASSUME IInv, StoreInv, [Next]_vars PROVE [Store!Next]_(Store!vars)
  OBVIOUS
<1> DEFINE Operation ==
      \/ \E h \in Proc : \/ \E k \in Key : Store!Begin(h, k)
                         \/ Store!Get(h) \/ Store!Return(h) \/ Store!Fill(h)
                         \/ Store!Release(h) \/ Store!Die(h)
      \/ \E s \in Slot : Store!Reuse(s)
<1>1. SUFFICES Operation \/ UNCHANGED View
  BY Zenon DEF Store!Next, Store!vars, Store!buffer, View
<1>2. CASE Touch \/ UNCHANGED vars
  <2>1. UNCHANGED <<key, hash, state, pc, want, node, owner>>
    BY <1>2 DEF Touch, vars, meta, local
  <2>2. \A s : Findable(s)' <=> Findable(s)
    BY <2>1 DEF Findable, Dirty
  <2>3. Broken' = Broken
    BY <2>1, Zenon DEF Broken
  <2> QED BY <2>1, <2>2, <2>3, Zenon DEF View, keyOf, stateOf, slotOf, ownerOf, deadOf
<1>3. ASSUME NEW p \in Proc, Crash(p) PROVE Operation
  BY <1>3, CrashRefines, Zenon
<1>4. ASSUME NEW p \in Proc, Step(p) PROVE Operation \/ UNCHANGED View
  <2>1. Frame(p)
    BY <1>4, StepFrame, Zenon DEF IInv
  <2>2. CASE Begin(p)
    BY <2>1, <2>2, BeginRefines, Zenon
  <2>3. CASE Silent(p)
    BY <2>1, <2>3, SilentRefines, Zenon
  <2>4. CASE Quits(p)
    BY <2>1, <2>4, QuitsRefines, Zenon
  <2>5. CASE Takes(p)
    BY <2>1, <2>5, TakesRefines, Zenon
  <2>6. ASSUME NEW own \in BOOLEAN, Attaches(p, own) PROVE Operation
    BY <2>1, <2>6, AttachRefines, Zenon
  <2>7. CASE Publish(p)
    BY <2>1, <2>7, PublishRefines, Zenon
  <2>8. CASE MarkReady(p) \/ MarkFailed(p)
    BY <2>1, <2>8, MarkRefines, Zenon
  <2>9. CASE Release(p)
    BY <2>1, <2>9, ReleaseRefines, Zenon
  <2> HIDE DEF Operation
  <2> QED BY <1>4, <2>2, <2>3, <2>4, <2>5, <2>6, <2>7, <2>8, <2>9, StepNoticed, ZenonT(60)
<1> HIDE DEF Operation
<1> QED BY <1>2, <1>3, <1>4, Zenon DEF Next

(***************************************************************************)
(* StoreInv holds throughout.                                              *)
(***************************************************************************)
LEMMA StoreInvariance == Spec => []StoreInv
BY StoreInvInit, StoreInvStep, Invariance, PTL DEF Spec

(***************************************************************************)
(* The buffer implements SlotStore: whatever the interleaving of its       *)
(* lock-free and locked words, and whichever workers die, each call looks  *)
(* to the callers like one atomic operation; that a key is installed in    *)
(* one slot only is part of it until a worker dies inside Remove or        *)
(* MoveTo.                                                                 *)
(***************************************************************************)
THEOREM BufferImplementsStore == Spec => ImplementsStore
<1>1. Init => Store!Init
  <2> SUFFICES ASSUME Init PROVE Store!Init
    BY Zenon
  <2>1. \A s \in Slot : ~Findable(s)
    BY DEF Init, Findable
  <2>2. keyOf = [s \in Slot |-> NONE] /\ stateOf = [s \in Slot |-> "Loading"]
    BY <2>1, Zenon DEF keyOf, stateOf
  <2>3. \A p \in Proc : pc[p] \notin Holding /\ pc[p] \notin Dead
    BY DEF Init, Holding, Dead
  <2>4. /\ slotOf = [p \in Proc |-> NONE] /\ ownerOf = [p \in Proc |-> FALSE]
        /\ deadOf = {}
    BY <2>3, Zenon DEF slotOf, ownerOf, deadOf
  <2>5. Broken = FALSE
    BY <2>3, Zenon DEF Broken, Dead
  <2> QED BY <2>2, <2>4, <2>5, Zenon DEF Init, Store!Init, Store!BufferInit
<1> QED BY <1>1, NextRefines, Invariance, StoreInvariance, PTL
        DEF Spec, ImplementsStore, Store!Spec

=============================================================================
