------------------------- MODULE GcInstancesProofs -------------------------
(* Proofs about the garbage collection lock (GcInstances): an instance that  *)
(* collects has its heartbeat in the lock directory, for any number of       *)
(* instances, deaths, calls given up and unreachable backends.               *)
EXTENDS GcInstances, FiniteSetTheorems, TLAPS

-----------------------------------------------------------------------------
(* Names *)

(* Only finitely many names are in use.                                      *)
LEMMA UsedFinite ==
  ASSUME TypeOK
  PROVE  IsFiniteSet(Used)
<1> DEFINE Of(i) == {own[i], op[i].name, suspect[i]}
           Names == {o.name : o \in late}
           All == {Of(i) : i \in Instance}
<1>1. IsFiniteSet(Names)
  <2> DEFINE f == [o \in late |-> o.name]
  <2>1. f \in Surjection(late, Names)
    BY DEF Surjection
  <2>2. QED
    BY <2>1, FS_Surjection, Zenon DEF TypeOK, DiskOk, FilesOk, LateOk
<1>2. \A i \in Instance : IsFiniteSet(Of(i))
  <2> SUFFICES ASSUME NEW i \in Instance PROVE IsFiniteSet(Of(i))
    OBVIOUS
  <2>1. IsFiniteSet({own[i]}) /\ IsFiniteSet({op[i].name}) /\ IsFiniteSet({suspect[i]})
    BY FS_Singleton, Zenon
  <2>2. IsFiniteSet({own[i]} \cup {op[i].name} \cup {suspect[i]})
    BY <2>1, FS_Union, Zenon
  <2>3. Of(i) = {own[i]} \cup {op[i].name} \cup {suspect[i]}
    OBVIOUS
  <2>4. QED
    BY <2>2, <2>3
<1>3. IsFiniteSet(All)
  <2> DEFINE f == [i \in Instance |-> Of(i)]
  <2> HIDE DEF Of
  <2>1. f \in Surjection(Instance, All)
    BY DEF Surjection
  <2>2. QED
    BY <2>1, FS_Surjection, LeaseAssumption, Zenon
<1>4. \A T \in All : IsFiniteSet(T)
  BY <1>2, Zenon
<1>5. IsFiniteSet(UNION All)
  BY <1>3, <1>4, FS_UNION, Zenon
<1>6. IsFiniteSet({lock}) /\ IsFiniteSet(DOMAIN claims)
  BY FS_Singleton, Zenon DEF TypeOK, DiskOk, FilesOk, LateOk
<1>7. IsFiniteSet({lock} \cup DOMAIN claims \cup Names \cup UNION All)
  <2>1. IsFiniteSet({lock} \cup DOMAIN claims)
    BY <1>6, FS_Union, Zenon
  <2>2. IsFiniteSet({lock} \cup DOMAIN claims \cup Names)
    BY <1>1, <2>1, FS_Union, Zenon
  <2>3. QED
    BY <1>5, <2>2, FS_Union, Zenon
<1>8. QED
  BY <1>7, Zenon DEF Used

(* A name drawn for a claim is its instance's, and nobody uses it.           *)
LEMMA FreshName ==
  ASSUME TypeOK, ~IsFiniteSet(Nonce), NEW i \in Instance
  PROVE  Fresh(i) \in {i} \X Nonce /\ Fresh(i) \notin Used
<1>1. ASSUME \A h \in {i} \X Nonce : h \in Used PROVE FALSE
  <2>1. IsFiniteSet({i} \X Nonce)
    <3>1. {i} \X Nonce \in SUBSET Used
      BY <1>1, Zenon
    <3>2. QED
      BY <3>1, UsedFinite, FS_Subset, Zenon
  <2> DEFINE f == [h \in {i} \X Nonce |-> h[2]]
  <2>2. f \in Surjection({i} \X Nonce, Nonce)
    <3>1. f \in [{i} \X Nonce -> Nonce]
      OBVIOUS
    <3>2. ASSUME NEW n \in Nonce PROVE \E h \in {i} \X Nonce : f[h] = n
      <4>1. <<i, n>> \in {i} \X Nonce /\ f[<<i, n>>] = n
        OBVIOUS
      <4>2. QED
        BY <4>1, Zenon
    <3> HIDE DEF f
    <3>3. QED
      BY <3>1, <3>2, Zenon DEF Surjection
  <2>3. QED
    BY <2>1, <2>2, FS_Surjection, Zenon
<1>2. QED
  BY <1>1, Zenon DEF Fresh

(* The name that an instance claims or holds the lock with.                  *)
Precious(j, n) == (op[j].kind = "claim" /\ n = op[j].name) \/ (Holding(j) /\ n = lock)

(* What the others have to do with such a name.                              *)
LEMMA PreciousName ==
  ASSUME LeaseInv, NEW j \in Instance, NEW n, Precious(j, n)
  PROVE  /\ n \in {j} \X Nonce /\ n \in Heartbeat /\ n \notin {NONE, NoDir, EmptyDir}
         /\ n \in Used
         /\ \A o \in late : o.name # n
         /\ \A i \in Instance : suspect[i] # n
         /\ \A i \in Instance \ {j} :
              /\ n \notin {i} \X Nonce /\ own[i] # n
              /\ op[i].name = n => /\ op[i].kind \in {"none", "probe"} /\ ~Fooled(op[i], age)
                                  /\ n = lock
<1>1. Secret(j, n) /\ n \in Used
  <2>1. CASE op[j].kind = "claim" /\ n = op[j].name
    BY <2>1 DEF LeaseInv, ClaimOk, Used
  <2>2. CASE Holding(j) /\ n = lock
    BY <2>2 DEF LeaseInv, HoldOk, Used
  <2>3. QED
    BY <2>1, <2>2, Zenon DEF Precious
<1>2. n \in {j} \X Nonce /\ n \in Heartbeat /\ n \notin {NONE, NoDir, EmptyDir}
  BY <1>1, LeaseAssumption DEF Secret, Heartbeat
<1>3. ASSUME NEW i \in Instance \ {j}
      PROVE  /\ n \notin {i} \X Nonce /\ own[i] # n
             /\ op[i].name = n => /\ op[i].kind \in {"none", "probe"} /\ ~Fooled(op[i], age)
                                 /\ n = lock
  <2>1. n \notin {i} \X Nonce
    BY <1>2
  <2>2. own[i] # n
    BY <1>2, <2>1, Zenon DEF LeaseInv, CallOk, Mine
  <2>3. CASE op[j].kind = "claim" /\ n = op[j].name
    BY <2>1, <2>2, <2>3, Zenon DEF LeaseInv, ClaimOk
  <2>4. CASE Holding(j) /\ n = lock
    BY <2>1, <2>2, <2>4, Zenon DEF LeaseInv, HoldOk
  <2>5. QED
    BY <2>3, <2>4, Zenon DEF Precious
<1>4. QED
  BY <1>1, <1>2, <1>3, Zenon DEF Secret

-----------------------------------------------------------------------------
(* What a step of one instance leaves of the others' conditions *)

OthersSame(i) ==
  \A j \in Instance \ {i} :
    /\ at'[j] = at[j] /\ op'[j] = op[j] /\ own'[j] = own[j] /\ beat'[j] = beat[j]
    /\ suspect'[j] = suspect[j] /\ stage'[j] = stage[j]

(* The step keeps the disk and the late calls away from name n.              *)
DiskSpares(n) ==
  /\ lock' = n <=> lock = n
  /\ lock = n => age' = age
  /\ \A o \in late' : o.name # n
  /\ lock # n /\ n \in DOMAIN claims' => n \in DOMAIN claims /\ claims'[n] = claims[n]

(* Instance i does not come to suspect name n, or to work against it.        *)
CallerSpares(i, n) ==
  /\ suspect'[i] # n
  /\ op'[i].name = n => lock = n /\ op'[i].kind \in {"none", "probe"} /\ ~Fooled(op'[i], age')

(* A step of i that spares the name of j keeps the conditions of j.  It may  *)
(* be a step of no instance, too.                                            *)
LEMMA OthersKeep ==
  ASSUME LeaseInv, NEW i, OthersSame(i), NEW j \in Instance \ {i},
         \A n : Precious(j, n) => DiskSpares(n) /\ (i \in Instance => CallerSpares(i, n))
  PROVE  CallOk(j)' /\ ClaimOk(j)' /\ HoldOk(j)'
<1>1. CallOk(j)'
  BY Zenon DEF LeaseInv, CallOk, OthersSame
<1>2. \A k \in Instance \ {i} : suspect'[k] = suspect[k] /\ op'[k] = op[k]
  BY Zenon DEF OthersSame
<1>3. ClaimOk(j)'
  <2> DEFINE n == op[j].name
  <2> SUFFICES ASSUME op[j].kind = "claim"
               PROVE  /\ Secret(j, n)' /\ lock' # n
                      /\ \A k \in Instance \ {j} : op'[k].name # n
                      /\ n \in DOMAIN claims' => claims'[n] = "full"
    BY <1>2, Zenon DEF ClaimOk
  <2>1. Precious(j, n) /\ lock # n /\ (\A k \in Instance \ {j} : op[k].name # n)
    BY Zenon DEF Precious, LeaseInv, ClaimOk
  <2>2. DiskSpares(n) /\ (i \in Instance => CallerSpares(i, n))
    BY <2>1, Zenon
  <2>3. Secret(j, n)'
    <3>1. n \in {j} \X Nonce /\ \A k \in Instance : suspect[k] # n
      BY <2>1, PreciousName, ZenonT(60)
    <3>2. \A k \in Instance : suspect'[k] # n
      BY <1>2, <2>2, <3>1, Zenon DEF CallerSpares
    <3>3. QED
      BY <1>2, <2>2, <3>1, <3>2, Zenon DEF Secret, DiskSpares
  <2>4. n \in DOMAIN claims' => claims'[n] = "full"
    BY <2>1, <2>2, Zenon DEF DiskSpares, LeaseInv, ClaimOk
  <2>5. QED
    BY <1>2, <2>1, <2>2, <2>3, <2>4, Zenon DEF DiskSpares, CallerSpares
<1>4. HoldOk(j)'
  <2> SUFFICES ASSUME Holding(j) PROVE HoldOk(j)'
    BY Zenon DEF HoldOk, Holding, OthersSame
  <2>1. /\ Precious(j, lock) /\ lock = own[j] /\ beat[j] /\ age < Stale
        /\ \A k \in Instance \ {j} : op[k].name = lock =>
             op[k].kind \in {"none", "probe"} /\ ~Fooled(op[k], age)
    BY Zenon DEF Precious, LeaseInv, HoldOk
  <2>2. DiskSpares(lock) /\ (i \in Instance => CallerSpares(i, lock))
    BY <2>1, Zenon
  <2>3. lock' = lock /\ age' = age
    BY <2>2, Zenon DEF DiskSpares
  <2>4. Secret(j, lock)'
    <3>1. lock \in {j} \X Nonce /\ \A k \in Instance : suspect[k] # lock
      BY <2>1, PreciousName, Zenon
    <3>2. \A k \in Instance : suspect'[k] # lock
      BY <1>2, <2>2, <3>1, Zenon DEF CallerSpares
    <3>3. QED
      BY <2>2, <2>3, <3>1, <3>2, Zenon DEF Secret, DiskSpares
  <2>5. \A k \in Instance \ {i} : Fooled(op'[k], age') <=> Fooled(op[k], age)
    BY <1>2, <2>3, Zenon DEF Fooled
  <2>6. \A k \in Instance \ {j} : op'[k].name = lock' =>
             op'[k].kind \in {"none", "probe"} /\ ~Fooled(op'[k], age')
    BY <1>2, <2>1, <2>2, <2>3, <2>5, Zenon DEF CallerSpares
  <2>7. lock' = own'[j] /\ beat'[j] /\ age' < Stale
    BY <2>1, <2>3, Zenon DEF OthersSame
  <2>8. QED
    BY <2>4, <2>6, <2>7, Zenon DEF HoldOk
<1>5. QED
  BY <1>1, <1>3, <1>4, Zenon

(* What remains to be shown of a step of i.                                  *)
LEMMA StepKeeps ==
  ASSUME LeaseInv, NEW i \in Instance, OthersSame(i),
         TypeOK', CallOk(i)', ClaimOk(i)', HoldOk(i)',
         \A j \in Instance \ {i} : \A n : Precious(j, n) => DiskSpares(n) /\ CallerSpares(i, n)
  PROVE  LeaseInv'
BY OthersKeep, Zenon DEF LeaseInv

(* NoOp and Call make calls.                                                 *)
LEMMA CallType ==
  /\ NoOp \in Calls
  /\ \A k \in {"claim", "probe", "take", "find", "release"}, n \in Heartbeat \cup {NONE},
        s \in {"make", "list", "remove"} : Call(k, n, s) \in Calls
BY Zenon DEF NoOp, Call, Calls, Results

(* The types after a step of i that sets its place and its call.             *)
LEMMA MoveTypes ==
  ASSUME TypeOK, DiskOk', stage' = stage, NEW i \in Instance, NEW place \in Places, NEW o \in Calls,
         GoOn(i, place, o),
         \E n \in Heartbeat \cup {NONE} : own' = [own EXCEPT ![i] = n],
         \E b \in BOOLEAN : beat' = [beat EXCEPT ![i] = b],
         \E s \in Heartbeat \cup {NONE, EmptyDir} : suspect' = [suspect EXCEPT ![i] = s]
  PROVE  TypeOK' /\ OthersSame(i) /\ at'[i] = place /\ op'[i] = o
<1>1. /\ at' \in [Instance -> Places] /\ op' \in [Instance -> Calls]
      /\ at'[i] = place /\ op'[i] = o
      /\ \A j \in Instance \ {i} : at'[j] = at[j] /\ op'[j] = op[j]
  BY Zenon DEF TypeOK, GoOn
<1>2. /\ own' \in [Instance -> Heartbeat \cup {NONE}]
      /\ \A j \in Instance \ {i} : own'[j] = own[j]
  BY Zenon DEF TypeOK
<1>3. /\ beat' \in [Instance -> BOOLEAN]
      /\ \A j \in Instance \ {i} : beat'[j] = beat[j]
  BY Zenon DEF TypeOK
<1>4. /\ suspect' \in [Instance -> Heartbeat \cup {NONE, EmptyDir}]
      /\ \A j \in Instance \ {i} : suspect'[j] = suspect[j]
  BY Zenon DEF TypeOK
<1>5. QED
  BY <1>1, <1>2, <1>3, <1>4, Zenon DEF TypeOK, OthersSame

(* A step of i to a place where it neither claims nor holds the lock.        *)
LEMMA QuietKeeps ==
  ASSUME LeaseInv, DiskOk', stage' = stage, NEW i \in Instance, NEW place \in Places,
         NEW o \in Calls, GoOn(i, place, o),
         place \notin {"claim", "reclaim", "check", "round", "leave"}, Fits(i, place, o),
         place = "new" \/ stage[i] = "joined",
         \E n \in Mine(i) : own' = [own EXCEPT ![i] = n],
         \E b \in BOOLEAN : beat' = [beat EXCEPT ![i] = b],
         \E s \in Heartbeat \cup {NONE, EmptyDir} : suspect' = [suspect EXCEPT ![i] = s],
         \A j \in Instance \ {i} : \A n : Precious(j, n) =>
           /\ DiskSpares(n) /\ suspect'[i] # n
           /\ o.name = n => lock = n /\ o.kind \in {"none", "probe"} /\ o.step # "touch"
  PROVE  LeaseInv'
<1>1. Mine(i) \subseteq Heartbeat \cup {NONE}
  BY DEF Mine, Heartbeat
<1>2. /\ TypeOK' /\ OthersSame(i) /\ at'[i] = place /\ op'[i] = o
  BY <1>1, MoveTypes, Zenon DEF LeaseInv
<1>3. own'[i] \in Mine(i)
  BY Zenon DEF LeaseInv, TypeOK
<1>4. CallOk(i)' /\ ClaimOk(i)' /\ HoldOk(i)'
  BY <1>2, <1>3, Zenon DEF CallOk, ClaimOk, HoldOk, Holding, Fits, Mine
<1>5. \A j \in Instance \ {i} : \A n : Precious(j, n) => DiskSpares(n) /\ CallerSpares(i, n)
  BY <1>2, Zenon DEF CallerSpares, Fooled
<1>6. QED
  BY <1>2, <1>4, <1>5, StepKeeps, Zenon

(* A step of i that draws a name and begins a claim.                         *)
LEMMA ClaimKeeps ==
  ASSUME LeaseInv, ~IsFiniteSet(Nonce), DiskOk', stage' = stage, NEW i \in Instance,
         NEW place \in {"claim", "reclaim"}, Claim(i, place), HoldSame, stage[i] = "joined",
         lock' \in {lock, NoDir, EmptyDir}, claims' = claims, \A o \in late' : o.name \in Used,
         \A j \in Instance \ {i} : \A n : Precious(j, n) => DiskSpares(n)
  PROVE  LeaseInv'
<1> DEFINE n == Fresh(i)
           o == Call("claim", n, "make")
<1>1. n \in {i} \X Nonce /\ n \notin Used
  BY FreshName, Zenon DEF LeaseInv
<1>2. n \in Heartbeat /\ n \notin {NONE, NoDir, EmptyDir}
  BY <1>1, LeaseAssumption DEF Heartbeat
<1>3. o \in Calls /\ o.kind = "claim" /\ o.name = n /\ o.by = NONE /\ o.step = "make"
  <2> HIDE DEF n
  <2>1. QED
    BY <1>2, CallType, Zenon DEF Call, NoOp
<1> HIDE DEF n, o
<1>4. own' = [own EXCEPT ![i] = own[i]] /\ beat' = [beat EXCEPT ![i] = beat[i]]
      /\ suspect' = [suspect EXCEPT ![i] = suspect[i]]
  BY Zenon DEF HoldSame, LeaseInv, TypeOK
<1>5. /\ own[i] \in Heartbeat \cup {NONE} /\ beat[i] \in BOOLEAN
      /\ suspect[i] \in Heartbeat \cup {NONE, EmptyDir}
  BY Zenon DEF LeaseInv, TypeOK
<1>6. GoOn(i, place, o) /\ place \in Places
  BY DEF Claim, Places, n, o
<1>7. TypeOK' /\ OthersSame(i) /\ at'[i] = place /\ op'[i] = o
  <2>1. /\ \E m \in Heartbeat \cup {NONE} : own' = [own EXCEPT ![i] = m]
        /\ \E b \in BOOLEAN : beat' = [beat EXCEPT ![i] = b]
        /\ \E s \in Heartbeat \cup {NONE, EmptyDir} : suspect' = [suspect EXCEPT ![i] = s]
    BY <1>4, <1>5, Zenon
  <2>2. QED
    BY <1>3, <1>6, <2>1, MoveTypes, ZenonT(60) DEF LeaseInv
<1>8. CallOk(i)'
  <2>1. Fits(i, place, o) /\ n \in Mine(i)
    BY <1>1, <1>3 DEF Fits, Mine
  <2>2. own'[i] \in Mine(i)
    BY Zenon DEF HoldSame, LeaseInv, CallOk
  <2>3. QED
    BY <1>7, <2>1, <2>2, Zenon DEF CallOk
<1>9. /\ \A x \in late' : x.name # n
      /\ \A j \in Instance : suspect'[j] # n
      /\ \A j \in Instance \ {i} : op'[j].name # n
      /\ lock' # n /\ n \notin DOMAIN claims'
  <2>1. \A x \in late' : x.name # n
    BY <1>1, Zenon
  <2>2. \A j \in Instance : suspect[j] # n /\ op[j].name # n
    BY <1>1 DEF Used
  <2>3. lock # n /\ n \notin DOMAIN claims
    BY <1>1, Zenon DEF Used
  <2>4. QED
    BY <1>2, <1>7, <2>1, <2>2, <2>3, Zenon DEF OthersSame, HoldSame
<1>10. ClaimOk(i)' /\ HoldOk(i)'
  BY <1>1, <1>3, <1>7, <1>9, Zenon DEF ClaimOk, HoldOk, Holding, Secret
<1>11. \A j \in Instance \ {i} : \A m : Precious(j, m) => DiskSpares(m) /\ CallerSpares(i, m)
  <2> SUFFICES ASSUME NEW j \in Instance \ {i}, NEW m, Precious(j, m)
               PROVE  CallerSpares(i, m)
    BY Zenon
  <2>1. m \in Used /\ suspect[i] # m
    BY PreciousName, Zenon
  <2>2. QED
    BY <1>1, <1>3, <1>7, <2>1, Zenon DEF CallerSpares, HoldSame
<1>12. QED
  BY <1>7, <1>8, <1>10, <1>11, StepKeeps, Zenon

(* A step of i to a place where it holds the lock.                           *)
LEMMA HoldKeeps ==
  ASSUME LeaseInv, DiskOk', stage' = stage, NEW i \in Instance,
         NEW place \in {"check", "round", "leave"}, NEW o \in Calls, GoOn(i, place, o),
         Fits(i, place, o), stage[i] = "joined",
         o.name \in Mine(i), NEW n \in {i} \X Nonce, own' = [own EXCEPT ![i] = n],
         beat' = [beat EXCEPT ![i] = TRUE],
         \E s \in {suspect[i], NONE} : suspect' = [suspect EXCEPT ![i] = s],
         lock' = n, age' < Stale, \A x \in late' : x.name # n,
         \A j \in Instance : suspect[j] # n,
         \A j \in Instance \ {i} : op[j].name = n =>
           lock = n /\ age' = age /\ op[j].kind \in {"none", "probe"} /\ ~Fooled(op[j], age),
         \A j \in Instance \ {i} : \A m : Precious(j, m) => DiskSpares(m)
  PROVE  LeaseInv'
<1>1. n \in Heartbeat /\ n \in Mine(i) /\ n # NONE
  BY LeaseAssumption DEF Heartbeat, Mine
<1>2. suspect[i] \in Heartbeat \cup {NONE, EmptyDir}
  BY Zenon DEF LeaseInv, TypeOK
<1>3. TypeOK' /\ OthersSame(i) /\ at'[i] = place /\ op'[i] = o
  <2>1. /\ \E m \in Heartbeat \cup {NONE} : own' = [own EXCEPT ![i] = m]
        /\ \E b \in BOOLEAN : beat' = [beat EXCEPT ![i] = b]
        /\ \E s \in Heartbeat \cup {NONE, EmptyDir} : suspect' = [suspect EXCEPT ![i] = s]
    BY <1>1, <1>2, Zenon
  <2>2. place \in Places
    BY DEF Places
  <2>3. QED
    BY <2>1, <2>2, MoveTypes, ZenonT(60) DEF LeaseInv
<1>4. own'[i] = n /\ beat'[i] = TRUE /\ suspect'[i] \in {suspect[i], NONE}
  BY Zenon DEF LeaseInv, TypeOK
<1>5. CallOk(i)' /\ ClaimOk(i)'
  <2>1. CallOk(i)'
    BY <1>1, <1>3, <1>4, Zenon DEF CallOk
  <2>2. QED
    BY <1>3, <2>1 DEF ClaimOk, CallOk, Fits
<1>6. \A j \in Instance : suspect'[j] # n
  <2>1. \A j \in Instance \ {i} : suspect'[j] # n
    BY <1>3, Zenon DEF OthersSame
  <2>2. suspect'[i] # n
    BY <1>1, <1>4, Zenon
  <2>3. QED
    BY <2>1, <2>2, Zenon
<1>7. HoldOk(i)'
  <2>1. \A j \in Instance \ {i} : op'[j].name = n =>
          op'[j].kind \in {"none", "probe"} /\ ~Fooled(op'[j], age')
    BY <1>3, Zenon DEF OthersSame, Fooled
  <2>2. QED
    BY <1>4, <1>6, <2>1, Zenon DEF HoldOk, Secret
<1>8. \A j \in Instance \ {i} : \A m : Precious(j, m) => DiskSpares(m) /\ CallerSpares(i, m)
  <2> SUFFICES ASSUME NEW j \in Instance \ {i}, NEW m, Precious(j, m)
               PROVE  CallerSpares(i, m)
    BY Zenon
  <2>1. m \notin Mine(i) /\ suspect[i] # m /\ m # NONE
    BY PreciousName, Zenon DEF Mine
  <2>2. QED
    BY <1>3, <1>4, <2>1, Zenon DEF CallerSpares
<1>9. QED
  BY <1>3, <1>5, <1>7, <1>8, StepKeeps, Zenon

-----------------------------------------------------------------------------
(* The answers *)

(* The fields of the calls an instance goes on with.                         *)
LEMMA CallFields ==
  /\ NoOp.kind = "none" /\ NoOp.name = NONE /\ NoOp.step = "done" /\ NoOp.by = NONE
  /\ \A k, n, s : /\ Call(k, n, s).kind = k /\ Call(k, n, s).name = n
                 /\ Call(k, n, s).step = s /\ Call(k, n, s).by = NONE
BY DEF NoOp, Call

(* The probe's answer o does not make i suspect or take over name n.         *)
Judges(i, o, n) ==
  at[i] = "probe" /\ o.res = "OK" =>
    ~(IsStale(o, suspect[i]) /\ o.name = n) /\ (~IsStale(o, suspect[i]) => NextSuspect(o) # n)

(* An instance that goes back to wait for its next turn.                     *)
LEMMA IdleKeeps ==
  ASSUME LeaseInv, DiskOk', stage' = stage, NEW i \in Instance, GoOn(i, "idle", NoOp),
         stage[i] = "joined",
         \E n \in Mine(i) : own' = [own EXCEPT ![i] = n],
         \E b \in BOOLEAN : beat' = [beat EXCEPT ![i] = b],
         \E s \in Heartbeat \cup {NONE, EmptyDir} : suspect' = [suspect EXCEPT ![i] = s],
         \A j \in Instance \ {i} : \A n : Precious(j, n) => DiskSpares(n) /\ suspect'[i] # n
  PROVE  LeaseInv'
<1>1. "idle" \in Places /\ Fits(i, "idle", NoOp)
  BY CallFields DEF Places, Fits
<1>2. \A j \in Instance \ {i} : \A n : Precious(j, n) => NoOp.name # n
  BY CallFields, PreciousName, Zenon
<1>3. QED
  BY <1>1, <1>2, CallType, QuietKeeps, Zenon

(* State of i that stays as it was.                                          *)
LEMMA SameIsSet ==
  ASSUME LeaseInv, NEW i \in Instance
  PROVE  /\ own[i] \in Mine(i) /\ beat[i] \in BOOLEAN
         /\ suspect[i] \in Heartbeat \cup {NONE, EmptyDir}
         /\ own' = own => \E n \in Mine(i) : own' = [own EXCEPT ![i] = n]
         /\ beat' = beat => \E b \in BOOLEAN : beat' = [beat EXCEPT ![i] = b]
         /\ suspect' = suspect =>
              \E s \in Heartbeat \cup {NONE, EmptyDir} : suspect' = [suspect EXCEPT ![i] = s]
<1>1. /\ own[i] \in Mine(i) /\ beat[i] \in BOOLEAN
      /\ suspect[i] \in Heartbeat \cup {NONE, EmptyDir}
  BY Zenon DEF LeaseInv, TypeOK, CallOk
<1>2. own = [own EXCEPT ![i] = own[i]] /\ beat = [beat EXCEPT ![i] = beat[i]]
      /\ suspect = [suspect EXCEPT ![i] = suspect[i]]
  BY Zenon DEF LeaseInv, TypeOK
<1>3. QED
  BY <1>1, <1>2, Zenon

(* What an instance does with any answer but that of a claim it won.         *)
LEMMA AnswerKeeps ==
  ASSUME LeaseInv, ~IsFiniteSet(Nonce), DiskOk', stage' = stage, NEW i \in Instance,
         NEW o \in Calls, Answer(i, o),
         at[i] \in {"claim", "reclaim"} => o.res # "OK",
         at[i] = "check" => lock' = lock /\ age' = age /\ late' = late,
         at[i] = "take" /\ o.res = "OK" =>
           lock' \in {lock, NoDir, EmptyDir} /\ claims' = claims /\ late' = late,
         \A j \in Instance \ {i} : \A n : Precious(j, n) => DiskSpares(n) /\ Judges(i, o, n)
  PROVE  LeaseInv'
<1>1. /\ at[i] \in {"claim", "reclaim", "probe", "take", "check", "leaving", "released"}
      /\ stage[i] = "joined"
  <2>1. at[i] \in {"claim", "reclaim", "probe", "take", "check", "leaving", "released"}
    BY Zenon DEF Answer, Claimed, Probed, TakenOver, HoldsLock, Released
  <2>2. QED
    BY <2>1 DEF LeaseInv, CallOk
<1>2. /\ own[i] \in Mine(i) /\ beat[i] \in BOOLEAN
      /\ suspect[i] \in Heartbeat \cup {NONE, EmptyDir}
  BY SameIsSet, Zenon
<1>3. /\ own' = own => \E n \in Mine(i) : own' = [own EXCEPT ![i] = n]
      /\ beat' = beat => \E b \in BOOLEAN : beat' = [beat EXCEPT ![i] = b]
      /\ suspect' = suspect =>
           \E s \in Heartbeat \cup {NONE, EmptyDir} : suspect' = [suspect EXCEPT ![i] = s]
  BY SameIsSet, Zenon
<1>4. \A j \in Instance \ {i} : \A n : Precious(j, n) =>
        /\ suspect[i] # n /\ n \notin Mine(i) /\ n # NONE
  BY PreciousName, Zenon DEF Mine
<1>5. ASSUME GoOn(i, "idle", NoOp), suspect' = suspect, beat' = beat,
             own' = own \/ own' = [own EXCEPT ![i] = NONE]
      PROVE  LeaseInv'
  <2>1. \E n \in Mine(i) : own' = [own EXCEPT ![i] = n]
    BY <1>3, <1>5, Zenon DEF Mine
  <2>2. QED
    BY <1>1, <1>3, <1>4, <1>5, <2>1, IdleKeeps, Zenon
<1>6. CASE Claimed(i, o)
  <2>1. HoldSame /\ (GoOn(i, "probe", Call("probe", NONE, "list")) \/ GoOn(i, "idle", NoOp))
    BY <1>6, Zenon DEF Claimed
  <2>2. CASE GoOn(i, "probe", Call("probe", NONE, "list"))
    <3>1. "probe" \in Places /\ Fits(i, "probe", Call("probe", NONE, "list"))
      BY CallFields DEF Places, Fits
    <3>2. \A j \in Instance \ {i} : \A n : Precious(j, n) =>
            Call("probe", NONE, "list").name # n
      BY <1>4, CallFields
    <3>3. Call("probe", NONE, "list") \in Calls
      BY CallType, Zenon
    <3>4. QED
      BY <1>1, <1>3, <1>4, <2>1, <2>2, <3>1, <3>2, <3>3, QuietKeeps, Zenon DEF HoldSame
  <2>3. QED
    BY <1>5, <2>1, <2>2, Zenon DEF HoldSame
<1>7. CASE Probed(i, o)
  <2>1. CASE o.res # "OK"
    BY <1>5, <1>7, <2>1, Zenon DEF Probed
  <2>2. CASE o.res = "OK" /\ IsStale(o, suspect[i])
    <3> DEFINE x == Call("take", o.name, "remove")
    <3>1. o.name \in Heartbeat \cup {NONE}
      BY DEF Calls
    <3>2. x \in Calls /\ x.kind = "take" /\ x.name = o.name /\ x.step = "remove" /\ x.by = NONE
      BY <3>1, CallType, CallFields
    <3>3. GoOn(i, "take", x) /\ suspect' = suspect /\ own' = own /\ beat' = beat
      BY <1>7, <2>2, Zenon DEF Probed
    <3> HIDE DEF x
    <3>4. "take" \in Places /\ Fits(i, "take", x)
      BY <3>2 DEF Places, Fits
    <3>5. \A j \in Instance \ {i} : \A n : Precious(j, n) => x.name # n
      BY <1>7, <2>2, <3>2, Zenon DEF Judges, Probed
    <3>6. QED
      <4>1. \A j \in Instance \ {i} : \A n : Precious(j, n) =>
              /\ DiskSpares(n) /\ suspect'[i] # n
              /\ x.name = n => lock = n /\ x.kind \in {"none", "probe"} /\ x.step # "touch"
        BY <1>4, <3>3, <3>5, Zenon
      <4>2. /\ \E n \in Mine(i) : own' = [own EXCEPT ![i] = n]
            /\ \E b \in BOOLEAN : beat' = [beat EXCEPT ![i] = b]
            /\ \E s \in Heartbeat \cup {NONE, EmptyDir} : suspect' = [suspect EXCEPT ![i] = s]
        BY <1>3, <3>3, Zenon
      <4>3. QED
        BY <1>1, <3>2, <3>3, <3>4, <4>1, <4>2, QuietKeeps, Zenon
  <2>3. CASE o.res = "OK" /\ ~IsStale(o, suspect[i])
    <3>1. /\ GoOn(i, "idle", NoOp) /\ suspect' = [suspect EXCEPT ![i] = NextSuspect(o)]
          /\ own' = own /\ beat' = beat
      BY <1>7, <2>3, Zenon DEF Probed
    <3>2. NextSuspect(o) \in Heartbeat \cup {NONE, EmptyDir}
      BY DEF NextSuspect, Calls
    <3>3. suspect'[i] = NextSuspect(o)
      BY <3>1, Zenon DEF LeaseInv, TypeOK
    <3>4. \A j \in Instance \ {i} : \A n : Precious(j, n) => suspect'[i] # n
      BY <1>7, <2>3, <3>3, Zenon DEF Judges, Probed
    <3>5. QED
      BY <1>1, <1>3, <3>1, <3>2, <3>4, IdleKeeps, Zenon
  <2>4. QED
    BY <2>1, <2>2, <2>3, Zenon
<1>8. CASE TakenOver(i, o)
  <2>1. CASE o.res = "OK"
    <3>1. Claim(i, "reclaim") /\ HoldSame /\ at[i] = "take"
      BY <1>8, <2>1, Zenon DEF TakenOver
    <3>2. \A x \in late' : x.name \in Used
      BY <2>1, <3>1 DEF Used
    <3>3. QED
      BY <1>1, <2>1, <3>1, <3>2, ClaimKeeps, Zenon
  <2>2. QED
    BY <1>5, <1>8, <2>1, Zenon DEF TakenOver, HoldSame
<1>9. CASE HoldsLock(i, o)
  <2>1. /\ lock' = lock /\ age' = age /\ late' = late /\ HoldSame
        /\ \E p \in {"round", "leave"} : GoOn(i, p, NoOp)
    BY <1>9, Zenon DEF HoldsLock
  <2>2. PICK p \in {"round", "leave"} : GoOn(i, p, NoOp)
    BY <2>1, Zenon
  <2>3. Holding(i)
    BY <1>9, Zenon DEF HoldsLock, Holding
  <2>4. /\ lock = own[i] /\ beat[i] = TRUE /\ age < Stale /\ Secret(i, lock)
        /\ \A j \in Instance \ {i} : op[j].name = lock =>
             op[j].kind \in {"none", "probe"} /\ ~Fooled(op[j], age)
    BY <1>2, <2>3, Zenon DEF LeaseInv, HoldOk
  <2>5. /\ own' = [own EXCEPT ![i] = lock] /\ beat' = [beat EXCEPT ![i] = TRUE]
        /\ suspect' = [suspect EXCEPT ![i] = suspect[i]]
    BY <2>1, <2>4, Zenon DEF HoldSame, LeaseInv, TypeOK
  <2>6. p \in {"check", "round", "leave"} /\ Fits(i, p, NoOp) /\ NoOp.name \in Mine(i)
    BY CallFields DEF Fits, Mine
  <2>7. /\ lock \in {i} \X Nonce /\ lock' = lock /\ age' < Stale
        /\ \A x \in late' : x.name # lock
        /\ \A j \in Instance : suspect[j] # lock
        /\ \A j \in Instance \ {i} : op[j].name = lock =>
             lock = lock /\ age' = age /\ op[j].kind \in {"none", "probe"} /\ ~Fooled(op[j], age)
    BY <2>1, <2>4, Zenon DEF Secret
  <2>8. \E s \in {suspect[i], NONE} : suspect' = [suspect EXCEPT ![i] = s]
    BY <2>5, Zenon
  <2>9. QED
    BY <1>1, <2>2, <2>5, <2>6, <2>7, <2>8, CallType, HoldKeeps, Zenon
<1>10. CASE Released(i, o)
  <2> DEFINE x == Call("release", own[i], "remove")
  <2>1. CASE GoOn(i, "released", x) /\ own' = own
    <3>1. own[i] \in Heartbeat \cup {NONE}
      BY Zenon DEF LeaseInv, TypeOK
    <3>2. /\ x \in Calls /\ x.kind = "release" /\ x.name = own[i] /\ x.step = "remove"
          /\ x.by = NONE
      BY <3>1, CallType, CallFields
    <3> HIDE DEF x
    <3>3. "released" \in Places /\ Fits(i, "released", x)
      BY <1>2, <3>2 DEF Places, Fits
    <3>4. \A j \in Instance \ {i} : \A n : Precious(j, n) => x.name # n
      BY <1>2, <1>4, <3>2, Zenon
    <3>5. suspect' = suspect /\ beat' = beat
      BY <1>10, Zenon DEF Released
    <3>6. QED
      <4>1. \A j \in Instance \ {i} : \A n : Precious(j, n) =>
              /\ DiskSpares(n) /\ suspect'[i] # n
              /\ x.name = n => lock = n /\ x.kind \in {"none", "probe"} /\ x.step # "touch"
        BY <1>4, <3>4, <3>5, Zenon
      <4>2. /\ \E n \in Mine(i) : own' = [own EXCEPT ![i] = n]
            /\ \E b \in BOOLEAN : beat' = [beat EXCEPT ![i] = b]
            /\ \E s \in Heartbeat \cup {NONE, EmptyDir} : suspect' = [suspect EXCEPT ![i] = s]
        BY <1>3, <2>1, <3>5, Zenon
      <4>3. QED
        BY <1>1, <2>1, <3>2, <3>3, <4>1, <4>2, QuietKeeps, Zenon
  <2>2. QED
    BY <1>5, <1>10, <2>1, Zenon DEF Released
<1>11. QED
  BY <1>6, <1>7, <1>8, <1>9, <1>10, Zenon DEF Answer

-----------------------------------------------------------------------------
(* The file system calls *)

(* A file system call keeps the lock and the claims in range.                *)
LEMMA EffectFiles ==
  ASSUME FilesOk, NEW i, NEW o \in Calls, Effect(i, o), o.step = "make" => o.name \in Heartbeat
  PROVE  FilesOk'
<1>1. CASE ClaimMake(i, o)
  <2>1. /\ claims' = [n \in DOMAIN claims \cup {o.name} |->
                        IF n = o.name THEN "full" ELSE claims[n]]
        /\ lock' = lock /\ age' = age /\ o.name \in Heartbeat
    BY <1>1, Zenon DEF ClaimMake
  <2>2. DOMAIN claims' = DOMAIN claims \cup {o.name}
    BY <2>1, Zenon
  <2>3. IsFiniteSet({o.name})
    BY FS_Singleton, Zenon
  <2>4. IsFiniteSet(DOMAIN claims')
    BY <2>2, <2>3, FS_Union, Zenon DEF FilesOk
  <2>5. claims' \in [DOMAIN claims' -> {"full", "bare"}]
    BY <2>1, <2>2 DEF FilesOk
  <2>6. QED
    BY <2>1, <2>2, <2>4, <2>5, Zenon DEF FilesOk
<1>2. CASE ClaimRename(i, o)
  <2>1. CASE UNCHANGED <<lock, age, claims>>
    BY <2>1, Zenon DEF FilesOk
  <2>2. CASE o.name \in DOMAIN claims /\ claims' = Without(o.name)
    <3>1. DOMAIN claims' = DOMAIN claims \ {o.name}
      BY <2>2, Zenon DEF Without, Restrict
    <3>2. claims' \in [DOMAIN claims' -> {"full", "bare"}]
      BY <2>2, <3>1 DEF Without, Restrict, FilesOk
    <3>3. IsFiniteSet(DOMAIN claims')
      BY <3>1, FS_Subset, Zenon DEF FilesOk
    <3>4. lock' \in Heartbeat \cup {NoDir, EmptyDir}
      BY <1>2, <2>2, Zenon DEF ClaimRename, FilesOk
    <3>5. age' \in Nat
      <4>1. age' = age \/ age' \in 0 .. (IF o.by = NONE THEN Stale - 1 ELSE Stale)
        BY <1>2, <2>2, Zenon DEF ClaimRename
      <4>2. QED
        BY <4>1, LeaseAssumption DEF FilesOk
    <3>6. QED
      BY <3>1, <3>2, <3>3, <3>4, <3>5, Zenon DEF FilesOk
  <2>3. QED
    BY <1>2, <2>1, <2>2, Zenon DEF ClaimRename
<1>3. CASE lock' \in {lock, NoDir, EmptyDir} /\ UNCHANGED <<age, claims>>
  BY <1>3, Zenon DEF FilesOk
<1>4. QED
  BY <1>1, <1>2, <1>3, Zenon
     DEF Effect, ProbeList, ProbeStat, ProbeTouch, RemoveHeartbeat, RemoveDir, FindEntry

(* It leaves every name but its own alone.                                   *)
LEMMA EffectSpares ==
  ASSUME FilesOk, NEW i, NEW o, Effect(i, o), NEW n \in Heartbeat,
         o.name = n => o.kind = "probe"
  PROVE  /\ lock' = n <=> lock = n
         /\ lock = n => age' = age
         /\ n \in DOMAIN claims' => n \in DOMAIN claims /\ claims'[n] = claims[n]
<1>1. n # NoDir /\ n # EmptyDir
  BY LeaseAssumption
<1>2. CASE ClaimMake(i, o)
  BY <1>2, Zenon DEF ClaimMake
<1>3. CASE ClaimRename(i, o)
  <2>1. o.name # n
    BY <1>3 DEF ClaimRename
  <2>2. CASE UNCHANGED <<lock, age, claims>>
    BY <2>2, Zenon
  <2>3. CASE claims' = Without(o.name)
    <3>1. n \in DOMAIN claims' => n \in DOMAIN claims /\ claims'[n] = claims[n]
      BY <2>3 DEF Without, Restrict
    <3>2. \/ Free /\ lock' \in {o.name, EmptyDir}
          \/ lock' = lock /\ age' = age
      BY <1>3, Zenon DEF ClaimRename
    <3>3. QED
      BY <1>1, <2>1, <3>1, <3>2, Zenon DEF Free
  <2>4. QED
    BY <1>3, <2>2, <2>3, Zenon DEF ClaimRename
<1>4. CASE RemoveHeartbeat(i, o)
  <2>1. o.name # n
    BY <1>4 DEF RemoveHeartbeat
  <2>2. QED
    BY <1>1, <1>4, <2>1, Zenon DEF RemoveHeartbeat
<1>5. CASE RemoveDir(i, o)
  BY <1>1, <1>5, Zenon DEF RemoveDir, Free
<1>6. CASE UNCHANGED <<lock, age, claims>>
  BY <1>6, Zenon
<1>7. QED
  BY <1>2, <1>3, <1>4, <1>5, <1>6, Zenon DEF Effect, ProbeList, ProbeStat, ProbeTouch, FindEntry

(* A call that was given up goes on: it keeps its name, and no instance      *)
(* notices.                                                                  *)
LEMMA LateBecomes ==
  ASSUME LateOk, NEW o \in late, NEW x, Becomes(o.by, o, x),
         \/ x.step = "done"
         \/ /\ x \in Calls /\ x.name = o.name /\ x.by = o.by
            /\ x.kind \in {"take", "release"}
  PROVE  /\ LateOk' /\ UNCHANGED <<at, op, own, beat, suspect>>
         /\ \A y \in late' : \E z \in late : y.name = z.name
<1>1. o.by \in Instance /\ o.by # NONE
  BY LeaseAssumption, Zenon DEF LateOk
<1>2. /\ late' = (late \ {o}) \cup {y \in {x} : y.step # "done"}
      /\ UNCHANGED <<at, op, own, beat, suspect>>
  BY <1>1, Zenon DEF Becomes, HoldSame
<1>3. IsFiniteSet(late')
  <2>1. IsFiniteSet(late \cup {x})
    BY FS_Singleton, FS_Union, Zenon DEF LateOk
  <2>2. late' \in SUBSET (late \cup {x})
    BY <1>2, Zenon
  <2>3. QED
    BY <2>1, <2>2, FS_Subset, Zenon
<1>4. \A y \in late' : y \in late \/ (y = x /\ x.step # "done")
  BY <1>2, Zenon
<1>5. QED
  BY <1>1, <1>2, <1>3, <1>4, Zenon DEF LateOk

(* A step of a call that was given up.                                       *)
LEMMA LateKeeps ==
  ASSUME LeaseInv, LateStep
  PROVE  LeaseInv'
<1>1. PICK o \in late : Effect(o.by, o) /\ stage' = stage
  BY Zenon DEF LateStep, LateOp, GuardSame, guardVars
<1>2. FilesOk /\ LateOk /\ o \in Calls /\ o.by \in Instance
  BY Zenon DEF LeaseInv, TypeOK, DiskOk, LateOk
<1>3. o.step = "rename" \/ o.kind \in {"take", "release"}
  BY <1>2, Zenon DEF LateOk
<1>4. /\ LateOk' /\ UNCHANGED <<at, op, own, beat, suspect>>
      /\ \A y \in late' : \E z \in late : y.name = z.name
  <2>1. CASE \E res : Becomes(o.by, o, Done(o, res))
    <3>1. PICK res : Becomes(o.by, o, Done(o, res))
      BY <2>1, Zenon
    <3>2. Done(o, res).step = "done"
      BY <1>2 DEF Done, Calls
    <3>3. QED
      BY <1>2, <3>1, <3>2, LateBecomes, Zenon
  <2>2. CASE o.kind \in {"take", "release"} /\ Becomes(o.by, o, [o EXCEPT !.step = "rmdir"])
    <3> DEFINE x == [o EXCEPT !.step = "rmdir"]
    <3>1. x \in Calls /\ x.name = o.name /\ x.by = o.by /\ x.kind = o.kind
      BY <1>2 DEF Calls
    <3> HIDE DEF x
    <3>2. Becomes(o.by, o, x)
      BY <2>2, Zenon DEF x
    <3>3. QED
      BY <1>2, <2>2, <3>1, <3>2, LateBecomes, Zenon
  <2>3. CASE ClaimRename(o.by, o)
    BY <2>1, <2>3, Zenon DEF ClaimRename
  <2>4. CASE RemoveHeartbeat(o.by, o)
    BY <2>2, <2>4, Zenon DEF RemoveHeartbeat
  <2>5. CASE RemoveDir(o.by, o)
    BY <2>1, <2>5, Zenon DEF RemoveDir
  <2>6. QED
    BY <1>1, <1>3, <2>3, <2>4, <2>5, Zenon
       DEF Effect, ClaimMake, ProbeList, ProbeStat, ProbeTouch, FindEntry
<1>5. TypeOK'
  <2>1. o.step # "make"
    BY <1>1, <1>3 DEF Effect, ClaimMake, ClaimRename, RemoveHeartbeat, RemoveDir, ProbeList,
                      ProbeStat, ProbeTouch, FindEntry
  <2>2. FilesOk'
    BY <1>1, <1>2, <2>1, EffectFiles, Zenon
  <2>3. QED
    BY <1>1, <1>4, <2>2, Zenon DEF LeaseInv, TypeOK, DiskOk
<1>6. \A j \in Instance : \A n : Precious(j, n) => DiskSpares(n)
  <2> SUFFICES ASSUME NEW j \in Instance, NEW n, Precious(j, n) PROVE DiskSpares(n)
    BY Zenon
  <2>1. n \in Heartbeat /\ \A z \in late : z.name # n
    BY PreciousName, Zenon
  <2>2. QED
    BY <1>1, <1>2, <1>4, <2>1, EffectSpares, Zenon DEF DiskSpares
<1>7. OthersSame(NONE) /\ NONE \notin Instance
  BY <1>1, <1>4, LeaseAssumption, Zenon DEF OthersSame
<1>8. \A j \in Instance : CallOk(j)' /\ ClaimOk(j)' /\ HoldOk(j)'
  BY <1>6, <1>7, OthersKeep, Zenon
<1>9. QED
  BY <1>5, <1>8, Zenon DEF LeaseInv

(* A step of a call that is waited for, which is not its last one.           *)
LEMMA AdvanceKeeps ==
  ASSUME LeaseInv, DiskOk', late' = late, stage' = stage, NEW i \in Instance, NEW x \in Calls,
         at' = at, op' = [op EXCEPT ![i] = x], HoldSame, Fits(i, at[i], x), x.kind # "find",
         at[i] \notin {"check", "round", "leave"},
         x.kind = "claim" => /\ op[i].kind = "claim" /\ x.name = op[i].name /\ lock' = lock
                             /\ claims'[x.name] = "full",
         \A j \in Instance \ {i} : \A n : Precious(j, n) =>
           /\ DiskSpares(n)
           /\ x.name = n => lock = n /\ x.kind = "probe" /\ ~Fooled(x, age')
  PROVE  LeaseInv'
<1>1. op'[i] = x /\ op' \in [Instance -> Calls] /\ \A j \in Instance \ {i} : op'[j] = op[j]
  BY Zenon DEF LeaseInv, TypeOK
<1>2. TypeOK' /\ OthersSame(i)
  BY <1>1, Zenon DEF LeaseInv, TypeOK, HoldSame, OthersSame
<1>3. CallOk(i)' /\ HoldOk(i)'
  BY <1>1, Zenon DEF LeaseInv, CallOk, HoldOk, Holding, HoldSame
<1>4. ClaimOk(i)'
  <2>1. CASE x.kind # "claim"
    BY <1>1, <2>1, Zenon DEF ClaimOk
  <2>2. CASE x.kind = "claim"
    <3>1. /\ Secret(i, x.name) /\ lock' # x.name
          /\ \A j \in Instance \ {i} : op'[j].name # x.name
      <4>1. op[i].kind = "claim" /\ x.name = op[i].name /\ lock' = lock
        BY <2>2, Zenon
      <4>2. ClaimOk(i)
        BY Zenon DEF LeaseInv
      <4>3. /\ Secret(i, x.name) /\ lock # x.name
            /\ \A j \in Instance \ {i} : op[j].name # x.name
        BY <4>1, <4>2, Zenon DEF ClaimOk
      <4>4. QED
        BY <1>1, <4>1, <4>3, Zenon
    <3>2. /\ x.name \in {i} \X Nonce /\ \A o \in late' : o.name # x.name
          /\ \A j \in Instance : suspect'[j] # x.name
      BY <3>1, Zenon DEF Secret, HoldSame
    <3>3. QED
      BY <1>1, <2>2, <3>1, <3>2, Zenon DEF ClaimOk, Secret
  <2>3. QED
    BY <2>1, <2>2
<1>5. \A j \in Instance \ {i} : \A n : Precious(j, n) => DiskSpares(n) /\ CallerSpares(i, n)
  <2> SUFFICES ASSUME NEW j \in Instance \ {i}, NEW n, Precious(j, n)
               PROVE  CallerSpares(i, n)
    BY Zenon
  <2>1. suspect'[i] # n
    BY PreciousName, Zenon DEF HoldSame
  <2>2. QED
    BY <1>1, <2>1, Zenon DEF CallerSpares, Fooled
<1>6. QED
  BY <1>2, <1>3, <1>4, <1>5, StepKeeps, Zenon

(* A claim that is won: its instance holds the lock.                         *)
LEMMA WinKeeps ==
  ASSUME LeaseInv, DiskOk', late' = late, stage' = stage, NEW i \in Instance, NEW o \in Calls,
         Answer(i, o), o.res = "OK", op[i].kind = "claim", o.name = op[i].name,
         lock' = o.name, age' < Stale,
         \A j \in Instance \ {i} : \A n : Precious(j, n) => DiskSpares(n)
  PROVE  LeaseInv'
<1> DEFINE n == o.name
           x == Call("find", n, "list")
<1>1. at[i] \in {"claim", "reclaim"} /\ stage[i] = "joined"
  BY DEF LeaseInv, CallOk, Fits
<1>2. /\ n \in {i} \X Nonce /\ \A y \in late' : y.name # n
      /\ \A j \in Instance : suspect[j] # n
      /\ \A j \in Instance \ {i} : op[j].name # n
  <2>1. Secret(i, n) /\ \A j \in Instance \ {i} : op[j].name # n
    BY Zenon DEF LeaseInv, ClaimOk
  <2>2. QED
    BY <2>1, Zenon DEF Secret
<1>3. n \in Heartbeat /\ n \in Mine(i) /\ NONE \in Mine(i)
  BY <1>2 DEF Heartbeat, Mine
<1>4. /\ own' = [own EXCEPT ![i] = n] /\ beat' = [beat EXCEPT ![i] = TRUE]
      /\ suspect' = [suspect EXCEPT ![i] = NONE]
      /\ GoOn(i, "check", x) \/ GoOn(i, "leave", NoOp)
  BY <1>1 DEF Answer, Claimed, Probed, TakenOver, HoldsLock, Released, Cycle
<1>5. /\ x \in Calls /\ x.kind = "find" /\ x.name = n /\ x.step = "list" /\ x.by = NONE
  <2> HIDE DEF n
  <2>1. QED
    BY <1>3, CallType, CallFields
<1> HIDE DEF n, x
<1>6. Fits(i, "check", x) /\ Fits(i, "leave", NoOp) /\ NoOp.name \in Mine(i)
  BY <1>3, <1>5, CallFields DEF Fits
<1>7. lock' = n /\ \E s \in {suspect[i], NONE} : suspect' = [suspect EXCEPT ![i] = s]
  BY <1>4, Zenon DEF n
<1>8. \A j \in Instance \ {i} : op[j].name = n =>
        lock = n /\ age' = age /\ op[j].kind \in {"none", "probe"} /\ ~Fooled(op[j], age)
  BY <1>2, Zenon
<1>9. CASE GoOn(i, "check", x)
  BY <1>1, <1>2, <1>3, <1>4, <1>5, <1>6, <1>7, <1>8, <1>9, HoldKeeps, ZenonT(60)
<1>10. CASE GoOn(i, "leave", NoOp)
  BY <1>1, <1>2, <1>4, <1>6, <1>7, <1>8, <1>10, CallType, HoldKeeps, Zenon
<1>11. QED
  BY <1>4, <1>9, <1>10, Zenon

(* The fields of an answer.                                                  *)
LEMMA DoneFields ==
  ASSUME NEW o \in Calls, NEW res \in Results
  PROVE  /\ Done(o, res) \in Calls /\ Done(o, res).step = "done" /\ Done(o, res).res = res
         /\ Done(o, res).name = o.name /\ Done(o, res).lag = o.lag
         /\ Done(o, res).same = o.same /\ Done(o, res).moved = o.moved
BY Zenon DEF Done, Calls

(* A step of a call that is waited for.                                      *)
LEMMA RunKeeps ==
  ASSUME LeaseInv, ~IsFiniteSet(Nonce), NEW i \in Instance, RunOp(i), GuardSame
  PROVE  LeaseInv'
<1> DEFINE o == op[i]
<1>1. /\ o \in Calls /\ o.by = NONE /\ Fits(i, at[i], o) /\ FilesOk /\ LateOk
      /\ Effect(i, o) /\ stage' = stage
  BY Zenon DEF LeaseInv, TypeOK, DiskOk, CallOk, Fits, RunOp, GuardSame, guardVars
<1>2. late' = late
  BY <1>1, Zenon DEF Effect, ClaimMake, ClaimRename, ProbeList, ProbeStat, ProbeTouch,
                     RemoveHeartbeat, RemoveDir, FindEntry, Becomes
<1>3. o.kind = "claim" => o.name \in {i} \X Nonce /\ o.name \in Heartbeat
  <2>1. o.kind = "claim" => o.name \in {i} \X Nonce
    BY Zenon DEF LeaseInv, ClaimOk, Secret
  <2>2. QED
    BY <2>1 DEF Heartbeat
<1>4. DiskOk'
  <2>1. o.step = "make" => o.kind = "claim"
    BY <1>1 DEF Effect, ClaimMake, ClaimRename, ProbeList, ProbeStat, ProbeTouch,
                RemoveHeartbeat, RemoveDir, FindEntry
  <2>2. FilesOk'
    BY <1>1, <1>3, <2>1, EffectFiles, Zenon
  <2>3. QED
    BY <1>1, <1>2, <2>2, Zenon DEF DiskOk, LateOk
<1>5. ASSUME NEW j \in Instance \ {i}, NEW n, Precious(j, n)
      PROVE  /\ DiskSpares(n) /\ n \in Heartbeat /\ n # NONE /\ n # EmptyDir
             /\ suspect[i] # n
             /\ o.name = n => o.kind = "probe" /\ ~Fooled(o, age) /\ lock = n /\ age < Stale
  <2>1. /\ n \in Heartbeat /\ n # NONE /\ n # EmptyDir /\ suspect[i] # n
        /\ \A y \in late : y.name # n
        /\ o.name = n => o.kind \in {"none", "probe"} /\ ~Fooled(o, age) /\ lock = n
    BY <1>5, PreciousName, Zenon
  <2>2. o.kind # "none"
    BY <1>1 DEF Effect, ClaimMake, ClaimRename, ProbeList, ProbeStat, ProbeTouch,
                RemoveHeartbeat, RemoveDir, FindEntry
  <2>3. DiskSpares(n)
    BY <1>1, <1>2, <2>1, <2>2, EffectSpares, Zenon DEF DiskSpares
  <2>4. lock = n => age < Stale
    BY <1>5, Zenon DEF Precious, LeaseInv, ClaimOk, HoldOk
  <2>5. QED
    BY <2>1, <2>2, <2>3, <2>4, Zenon
<1>6. ASSUME NEW res \in Results, Becomes(i, o, Done(o, res)),
             o.kind = "claim" => res # "OK",
             o.kind = "find" => lock' = lock /\ age' = age,
             o.kind = "take" => lock' \in {lock, NoDir, EmptyDir} /\ claims' = claims,
             o.kind = "probe" /\ res = "OK" => o.step = "touch" \/ lock # o.name
      PROVE  LeaseInv'
  <2> DEFINE x == Done(o, res)
  <2>1. /\ x \in Calls /\ x.step = "done" /\ x.res = res /\ x.name = o.name
        /\ x.lag = o.lag /\ x.same = o.same /\ x.moved = o.moved
    BY <1>1, <1>6, DoneFields, Zenon
  <2>2. Answer(i, x)
    BY <1>1, <1>6, <2>1, Zenon DEF Becomes
  <2>3. o.lag \in Nat /\ age \in Nat
    BY <1>1 DEF Calls, FilesOk
  <2> HIDE DEF x, o
  <2>4. ASSUME NEW j \in Instance \ {i}, NEW n, Precious(j, n) PROVE Judges(i, x, n)
    <3> SUFFICES ASSUME at[i] = "probe", res = "OK"
                 PROVE  /\ ~(IsStale(x, suspect[i]) /\ x.name = n)
                        /\ ~IsStale(x, suspect[i]) => NextSuspect(x) # n
      BY <2>1, Zenon DEF Judges
    <3>1. n # NONE /\ n # EmptyDir
      BY <1>5, <2>4, Zenon
    <3>2. CASE o.name = n
      <4>1. o.kind = "probe" /\ o.step = "touch" /\ ~Fooled(o, age) /\ age < Stale
        BY <1>5, <1>6, <2>4, <3>2, Zenon
      <4>2. ~o.same /\ (o.moved \/ o.lag <= age)
        BY <4>1, Zenon DEF Fooled
      <4>3. o.moved \/ o.lag < Stale
        BY <2>3, <4>1, <4>2, LeaseAssumption
      <4>4. QED
        BY <2>1, <3>1, <3>2, <4>2, <4>3, Zenon DEF IsStale, NextSuspect
    <3>3. CASE o.name # n
      BY <2>1, <3>1, <3>3, Zenon DEF NextSuspect
    <3>4. QED
      BY <3>2, <3>3, Zenon
  <2>5. /\ at[i] \in {"claim", "reclaim"} => x.res # "OK"
        /\ at[i] = "check" => lock' = lock /\ age' = age /\ late' = late
        /\ at[i] = "take" /\ x.res = "OK" =>
             lock' \in {lock, NoDir, EmptyDir} /\ claims' = claims /\ late' = late
    BY <1>1, <1>2, <1>6, <2>1 DEF Fits
  <2>6. \A j \in Instance \ {i} : \A n : Precious(j, n) => DiskSpares(n) /\ Judges(i, x, n)
    BY <1>5, <2>4, Zenon
  <2>7. QED
    BY <1>1, <1>4, <2>1, <2>2, <2>5, <2>6, AnswerKeeps, Zenon
<1>7. ASSUME NEW x \in Calls, Becomes(i, o, x), x.step # "done", x.by = NONE, x.kind = o.kind,
             o.kind # "find", x.step = "rename" => o.kind = "claim",
             o.kind \in {"claim", "release", "take"} => x.name = o.name,
             x.kind = "claim" => lock' = lock /\ claims'[x.name] = "full",
             \A j \in Instance \ {i} : \A n : Precious(j, n) /\ x.name = n /\ x.kind = "probe" =>
               lock = n /\ ~Fooled(x, age')
      PROVE  LeaseInv'
  <2>1. op' = [op EXCEPT ![i] = x] /\ at' = at /\ HoldSame
    BY <1>1, <1>7, Zenon DEF Becomes
  <2> HIDE DEF o
  <2>2. Fits(i, at[i], x)
    BY <1>1, <1>7 DEF Fits
  <2>3. o.kind \in {"claim", "probe", "take", "release"}
    BY <1>1, <1>7 DEF Effect, ClaimMake, ClaimRename, ProbeList, ProbeStat, ProbeTouch,
                      RemoveHeartbeat, RemoveDir, FindEntry
  <2>4. at[i] \notin {"check", "round", "leave"}
    BY <1>1, <2>3 DEF Fits
  <2>5. \A j \in Instance \ {i} : \A n : Precious(j, n) =>
          /\ DiskSpares(n)
          /\ x.name = n => lock = n /\ x.kind = "probe" /\ ~Fooled(x, age')
    <3> SUFFICES ASSUME NEW j \in Instance \ {i}, NEW n, Precious(j, n), x.name = n
                 PROVE  lock = n /\ x.kind = "probe" /\ ~Fooled(x, age')
      BY <1>5, Zenon
    <3>1. x.kind = "probe"
      BY <1>5, <1>7, <2>3
    <3>2. QED
      BY <1>7, <3>1, Zenon
  <2>6. x.kind # "find" /\ (x.kind = "claim" =>
          op[i].kind = "claim" /\ x.name = op[i].name /\ lock' = lock /\ claims'[x.name] = "full")
    BY <1>7, Zenon DEF o
  <2>7. QED
    BY <1>1, <1>2, <1>4, <1>7, <2>1, <2>2, <2>4, <2>5, <2>6, AdvanceKeeps, Zenon
<1> HIDE DEF o
<1>8. CASE ClaimMake(i, o)
  <2> DEFINE x == [o EXCEPT !.step = "rename"]
  <2>1. /\ x \in Calls /\ x.step = "rename" /\ x.by = NONE /\ x.kind = o.kind
        /\ x.name = o.name
    BY <1>1 DEF Calls
  <2>2. Becomes(i, o, x) /\ o.kind = "claim" /\ lock' = lock
    BY <1>8, Zenon DEF ClaimMake
  <2> HIDE DEF x
  <2>3. claims'[x.name] = "full"
    BY <1>8, <2>1 DEF ClaimMake
  <2>4. QED
    BY <1>7, <2>1, <2>2, <2>3
<1>9. CASE ClaimRename(i, o)
  <2>1. CASE o.name \notin DOMAIN claims \/ ~Free
    <3>1. PICK res \in {"Error", "DuplicateKey"} : Becomes(i, o, Done(o, res))
      BY <1>9, <2>1, Zenon DEF ClaimRename
    <3>2. o.kind = "claim" /\ res \in Results /\ res # "OK"
      BY <1>9 DEF ClaimRename, Results
    <3>3. QED
      BY <1>6, <3>1, <3>2
  <2>2. CASE o.name \in DOMAIN claims /\ Free
    <3> DEFINE x == Done(o, "OK")
    <3>1. x \in Calls /\ x.step = "done" /\ x.res = "OK" /\ x.name = o.name
      BY <1>1, DoneFields DEF Results
    <3>2. /\ o.kind = "claim" /\ Becomes(i, o, x)
          /\ lock' = IF claims[o.name] = "full" THEN o.name ELSE EmptyDir
          /\ age' \in 0..(IF o.by = NONE THEN Stale - 1 ELSE Stale)
      BY <1>9, <2>2, Zenon DEF ClaimRename
    <3> HIDE DEF x
    <3>3. Answer(i, x)
      BY <1>1, <3>1, <3>2, Zenon DEF Becomes
    <3>4. claims[o.name] = "full"
      BY <2>2, <3>2, Zenon DEF LeaseInv, ClaimOk, o
    <3>5. age' < Stale
      BY <1>1, <3>2, LeaseAssumption
    <3>6. lock' = x.name /\ op[i].kind = "claim" /\ x.name = op[i].name
      BY <3>1, <3>2, <3>4, Zenon DEF o
    <3>7. \A j \in Instance \ {i} : \A n : Precious(j, n) => DiskSpares(n)
      BY <1>5, Zenon
    <3>8. QED
      BY <1>1, <1>2, <1>4, <3>1, <3>3, <3>5, <3>6, <3>7, WinKeeps, Zenon
  <2>3. QED
    BY <2>1, <2>2, Zenon
<1>10. CASE ProbeList(i, o)
  <2>1. o.kind = "probe" /\ lock' = lock /\ age' = age
    BY <1>10, Zenon DEF ProbeList
  <2>2. CASE lock = NoDir
    <3>1. Becomes(i, o, Done(o, "Unlocked"))
      BY <1>10, <2>2, LeaseAssumption DEF ProbeList
    <3>2. QED
      BY <1>6, <2>1, <3>1 DEF Results
  <2>3. CASE lock = EmptyDir /\ lock # NoDir
    <3>1. Becomes(i, o, Done(o, "OK"))
      BY <1>10, <2>3 DEF ProbeList
    <3>2. lock # o.name
      BY <1>1, <2>3, LeaseAssumption, Zenon DEF Calls
    <3>3. QED
      BY <1>6, <2>1, <3>1, <3>2 DEF Results
  <2>4. CASE lock # EmptyDir /\ lock # NoDir
    <3> DEFINE x == [o EXCEPT !.name = lock, !.step = "stat"]
    <3>1. lock \in Heartbeat
      BY <1>1, <2>4, Zenon DEF FilesOk
    <3>2. /\ x \in Calls /\ x.step = "stat" /\ x.by = NONE /\ x.kind = o.kind
          /\ x.name = lock
      BY <1>1, <3>1, Zenon DEF Calls
    <3>3. Becomes(i, o, x)
      BY <1>10, <2>4, Zenon DEF ProbeList
    <3> HIDE DEF x
    <3>4. ~Fooled(x, age')
      BY <3>2 DEF Fooled
    <3>5. QED
      BY <1>7, <2>1, <3>2, <3>3, <3>4, ZenonT(60)
  <2>5. QED
    BY <2>2, <2>3, <2>4, Zenon
<1>11. CASE ProbeStat(i, o)
  <2>1. o.kind = "probe" /\ lock' = lock /\ age' = age
    BY <1>11, Zenon DEF ProbeStat
  <2>2. CASE lock # o.name
    <3>1. Becomes(i, o, Done(o, "OK"))
      BY <1>11, <2>2, Zenon DEF ProbeStat
    <3>2. QED
      BY <1>6, <2>1, <2>2, <3>1 DEF Results
  <2>3. CASE lock = o.name
    <3> DEFINE x == [o EXCEPT !.step = "touch", !.lag = age, !.same = (suspect[i] = lock)]
    <3>1. /\ x \in Calls /\ x.step = "touch" /\ x.by = NONE /\ x.kind = o.kind
          /\ x.name = lock /\ x.lag = age /\ x.same = (suspect[i] = lock)
      BY <1>1, <2>3, Zenon DEF Calls, FilesOk
    <3>2. Becomes(i, o, x)
      BY <1>11, <2>3, Zenon DEF ProbeStat
    <3> HIDE DEF x
    <3>3. \A j \in Instance \ {i} : \A n : Precious(j, n) /\ x.name = n /\ x.kind = "probe" =>
            lock = n /\ ~Fooled(x, age')
      <4> SUFFICES ASSUME NEW j \in Instance \ {i}, NEW n, Precious(j, n), x.name = n
                   PROVE  lock = n /\ ~Fooled(x, age')
        BY Zenon
      <4>1. suspect[i] # n
        BY <1>5, Zenon
      <4>2. x.lag <= age'
        BY <1>1, <2>1, <3>1 DEF FilesOk
      <4>3. QED
        BY <3>1, <4>1, <4>2, Zenon DEF Fooled
    <3>4. QED
      BY <1>7, <2>1, <3>1, <3>2, <3>3
  <2>4. QED
    BY <2>2, <2>3, Zenon
<1>12. CASE ProbeTouch(i, o)
  BY <1>6, <1>12 DEF ProbeTouch, Results
<1>13. CASE RemoveHeartbeat(i, o)
  <2>1. /\ o.kind \in {"take", "release"} /\ lock' \in {lock, NoDir, EmptyDir}
        /\ claims' = claims /\ Becomes(i, o, [o EXCEPT !.step = "rmdir"])
    BY <1>13, Zenon DEF RemoveHeartbeat
  <2> DEFINE x == [o EXCEPT !.step = "rmdir"]
  <2>2. /\ x \in Calls /\ x.step = "rmdir" /\ x.by = NONE /\ x.kind = o.kind
        /\ x.name = o.name
    BY <1>1 DEF Calls
  <2>3. Becomes(i, o, x)
    BY <2>1, Zenon
  <2> HIDE DEF x
  <2>4. QED
    BY <1>7, <2>1, <2>2, <2>3, Zenon
<1>14. CASE RemoveDir(i, o)
  <2>1. /\ o.kind \in {"take", "release"} /\ lock' \in {lock, NoDir, EmptyDir}
        /\ claims' = claims
        /\ \E res \in {"DuplicateKey", "Error", "OK"} : Becomes(i, o, Done(o, res))
    BY <1>14, Zenon DEF RemoveDir
  <2>2. PICK res \in {"DuplicateKey", "Error", "OK"} : Becomes(i, o, Done(o, res))
    BY <2>1, Zenon
  <2>3. QED
    BY <1>6, <2>1, <2>2 DEF Results
<1>15. CASE FindEntry(i, o)
  <2>1. /\ o.kind = "find" /\ lock' = lock /\ age' = age
        /\ \E res \in {"OK", "NotFound"} : Becomes(i, o, Done(o, res))
    BY <1>15, Zenon DEF FindEntry
  <2>2. PICK res \in {"OK", "NotFound"} : Becomes(i, o, Done(o, res))
    BY <2>1, Zenon
  <2>3. QED
    BY <1>6, <2>1, <2>2 DEF Results
<1>16. QED
  BY <1>1, <1>8, <1>9, <1>10, <1>11, <1>12, <1>13, <1>14, <1>15, Zenon DEF Effect

(* A call is given up.                                                       *)
LEMMA GiveUpKeeps ==
  ASSUME LeaseInv, ~IsFiniteSet(Nonce), NEW i \in Instance, GiveUp(i), GuardSame
  PROVE  LeaseInv'
<1> DEFINE o == op[i]
           x == Done(o, "Timeout")
           y == [o EXCEPT !.by = i]
<1>1. /\ o \in Calls /\ o.by = NONE /\ Fits(i, at[i], o) /\ FilesOk /\ LateOk
      /\ stage' = stage
  BY Zenon DEF LeaseInv, TypeOK, DiskOk, CallOk, Fits, GuardSame, guardVars
<1>2. /\ Answer(i, x) /\ lock' = lock /\ age' = age /\ claims' = claims
      /\ \/ late' = late
         \/ (o.step = "rename" \/ o.kind \in {"take", "release"}) /\ late' = late \cup {y}
  BY Zenon DEF GiveUp
<1>3. x \in Calls /\ x.res = "Timeout"
  BY <1>1, DoneFields DEF Results
<1>4. y \in Calls /\ y.name = o.name /\ y.by = i /\ y.step = o.step /\ y.kind = o.kind
  BY <1>1 DEF Calls
<1> HIDE DEF o, x, y
<1>5. DiskOk'
  <2>1. IsFiniteSet(late \cup {y})
    BY <1>1, FS_Singleton, FS_Union, Zenon DEF LateOk
  <2>2. IsFiniteSet(late')
    BY <1>1, <1>2, <2>1, Zenon DEF LateOk
  <2>3. LateOk'
    BY <1>1, <1>2, <1>4, <2>2, Zenon DEF LateOk
  <2>4. QED
    BY <1>1, <1>2, <2>3, Zenon DEF DiskOk, FilesOk
<1>6. at[i] = "check" => late' = late
  BY <1>1, <1>2, Zenon DEF Fits
<1>7. ASSUME NEW j \in Instance \ {i}, NEW n, Precious(j, n)
      PROVE  DiskSpares(n) /\ Judges(i, x, n)
  <2>1. /\ \A z \in late : z.name # n
        /\ o.name = n => o.kind \in {"none", "probe"}
    BY <1>7, PreciousName, Zenon DEF o
  <2>2. \A z \in late' : z.name # n
    BY <1>1, <1>2, <1>4, <2>1, Zenon DEF Fits
  <2>3. QED
    BY <1>2, <1>3, <2>2 DEF DiskSpares, Judges
<1>8. /\ at[i] \in {"claim", "reclaim"} => x.res # "OK"
      /\ at[i] = "check" => lock' = lock /\ age' = age /\ late' = late
      /\ at[i] = "take" /\ x.res = "OK" =>
           lock' \in {lock, NoDir, EmptyDir} /\ claims' = claims /\ late' = late
  BY <1>2, <1>3, <1>6
<1>9. QED
  BY <1>1, <1>2, <1>3, <1>5, <1>7, <1>8, AnswerKeeps, Zenon

-----------------------------------------------------------------------------
(* The check loop *)

(* A step that leaves the disk alone.                                        *)
LEMMA DiskStays ==
  ASSUME LeaseInv, UNCHANGED <<lock, age, claims, late>>
  PROVE  DiskOk' /\ \A j \in Instance : \A n : Precious(j, n) => DiskSpares(n)
<1>1. DiskOk'
  BY Zenon DEF LeaseInv, TypeOK, DiskOk, FilesOk, LateOk
<1>2. QED
  BY <1>1, PreciousName, Zenon DEF DiskSpares

(* The steps between calls.                                                  *)
LEMMA LoopKeeps ==
  ASSUME LeaseInv, ~IsFiniteSet(Nonce), NEW i \in Instance, GuardSame,
         TryAcquire(i) \/ RoundEnds(i) \/ Release(i) \/ ReleaseUnreachable(i) \/ StartLoop(i)
  PROVE  LeaseInv'
<1>1. /\ stage' = stage /\ UNCHANGED <<lock, age, claims, late>>
  BY Zenon DEF GuardSame, guardVars, DiskSame, TryAcquire, RoundEnds, Release,
               ReleaseUnreachable, StartLoop
<1>2. DiskOk' /\ \A j \in Instance : \A n : Precious(j, n) => DiskSpares(n)
  BY <1>1, DiskStays, Zenon
<1>3. /\ own[i] \in Mine(i) /\ NONE \in Mine(i) /\ own[i] \in Heartbeat \cup {NONE}
      /\ stage[i] = "joined"
  <2>1. stage[i] = "joined"
    BY DEF LeaseInv, CallOk, TryAcquire, RoundEnds, Release, ReleaseUnreachable, StartLoop
  <2>2. QED
    BY <2>1, SameIsSet, Zenon DEF LeaseInv, TypeOK, Mine
<1>4. \A j \in Instance \ {i} : \A n : Precious(j, n) =>
        /\ suspect[i] # n /\ n \notin Mine(i) /\ n # NONE
  BY PreciousName, Zenon DEF Mine
<1>5. CASE TryAcquire(i)
  <2>1. Claim(i, "claim") /\ HoldSame
    BY <1>5, Zenon DEF TryAcquire
  <2>2. \A o \in late' : o.name \in Used
    BY <1>1 DEF Used
  <2>3. QED
    BY <1>1, <1>2, <1>3, <2>1, <2>2, ClaimKeeps, Zenon
<1>6. CASE StartLoop(i)
  <2>1. GoOn(i, "idle", NoOp) /\ own' = own /\ beat' = beat /\ suspect' = suspect
    BY <1>6, Zenon DEF StartLoop, HoldSame
  <2>2. /\ \E n \in Mine(i) : own' = [own EXCEPT ![i] = n]
        /\ \E b \in BOOLEAN : beat' = [beat EXCEPT ![i] = b]
        /\ \E s \in Heartbeat \cup {NONE, EmptyDir} : suspect' = [suspect EXCEPT ![i] = s]
    BY <2>1, SameIsSet, Zenon
  <2>3. \A j \in Instance \ {i} : \A n : Precious(j, n) => DiskSpares(n) /\ suspect'[i] # n
    BY <1>2, <1>4, <2>1, Zenon
  <2>4. QED
    BY <1>1, <1>2, <1>3, <2>1, <2>2, <2>3, IdleKeeps, Zenon
<1>7. CASE ReleaseUnreachable(i)
  <2>1. /\ GoOn(i, "idle", NoOp) /\ own' = [own EXCEPT ![i] = NONE]
        /\ beat' = [beat EXCEPT ![i] = FALSE] /\ suspect' = suspect
    BY <1>7, Zenon DEF ReleaseUnreachable
  <2>2. /\ \E n \in Mine(i) : own' = [own EXCEPT ![i] = n]
        /\ \E b \in BOOLEAN : beat' = [beat EXCEPT ![i] = b]
        /\ \E s \in Heartbeat \cup {NONE, EmptyDir} : suspect' = [suspect EXCEPT ![i] = s]
    BY <1>3, <2>1, SameIsSet, Zenon
  <2>3. \A j \in Instance \ {i} : \A n : Precious(j, n) => DiskSpares(n) /\ suspect'[i] # n
    BY <1>2, <1>4, <2>1, Zenon
  <2>4. QED
    BY <1>1, <1>2, <1>3, <2>1, <2>2, <2>3, IdleKeeps, Zenon
<1> DEFINE x == Call("find", own[i], "list")
<1>8. x \in Calls /\ x.kind = "find" /\ x.name = own[i] /\ x.step = "list" /\ x.by = NONE
  <2>1. x \in Calls
    BY <1>3, CallType
  <2>2. QED
    BY <2>1, CallFields
<1> HIDE DEF x
<1>9. CASE Release(i)
  <2>1. /\ GoOn(i, "leaving", x) /\ own' = own /\ suspect' = suspect
        /\ beat' = [beat EXCEPT ![i] = FALSE]
    BY <1>9, Zenon DEF Release, x
  <2>2. Fits(i, "leaving", x) /\ "leaving" \in Places
    BY <1>3, <1>8 DEF Fits, Places
  <2>3. \A j \in Instance \ {i} : \A n : Precious(j, n) =>
          /\ DiskSpares(n) /\ suspect'[i] # n
          /\ x.name = n => lock = n /\ x.kind \in {"none", "probe"} /\ x.step # "touch"
    BY <1>2, <1>3, <1>4, <1>8, <2>1, Zenon
  <2>4. /\ \E n \in Mine(i) : own' = [own EXCEPT ![i] = n]
        /\ \E b \in BOOLEAN : beat' = [beat EXCEPT ![i] = b]
        /\ \E s \in Heartbeat \cup {NONE, EmptyDir} : suspect' = [suspect EXCEPT ![i] = s]
    BY <2>1, SameIsSet, Zenon
  <2>5. QED
    BY <1>1, <1>2, <1>3, <1>8, <2>1, <2>2, <2>3, <2>4, QuietKeeps, Zenon
<1>10. CASE RoundEnds(i)
  <2>1. Holding(i) /\ HoldSame /\ (GoOn(i, "check", x) \/ GoOn(i, "leave", NoOp))
    BY <1>10 DEF RoundEnds, Cycle, Holding, x
  <2>2. /\ lock = own[i] /\ beat[i] = TRUE /\ age < Stale /\ Secret(i, lock)
        /\ \A j \in Instance \ {i} : op[j].name = lock =>
             op[j].kind \in {"none", "probe"} /\ ~Fooled(op[j], age)
    BY <2>1, SameIsSet, Zenon DEF LeaseInv, HoldOk
  <2>3. /\ own' = [own EXCEPT ![i] = lock] /\ beat' = [beat EXCEPT ![i] = TRUE]
        /\ suspect' = [suspect EXCEPT ![i] = suspect[i]]
    BY <2>1, <2>2, Zenon DEF HoldSame, LeaseInv, TypeOK
  <2>4. /\ Fits(i, "check", x) /\ Fits(i, "leave", NoOp) /\ NoOp.name \in Mine(i)
        /\ x.name \in Mine(i)
    BY <1>3, <1>8, CallFields, Zenon DEF Fits
  <2>5. /\ lock \in {i} \X Nonce /\ lock' = lock /\ age' < Stale
        /\ \A y \in late' : y.name # lock
        /\ \A j \in Instance : suspect[j] # lock
        /\ \A j \in Instance \ {i} : op[j].name = lock =>
             lock = lock /\ age' = age /\ op[j].kind \in {"none", "probe"} /\ ~Fooled(op[j], age)
    BY <1>1, <2>2, Zenon DEF Secret
  <2>6. \E s \in {suspect[i], NONE} : suspect' = [suspect EXCEPT ![i] = s]
    BY <2>3, Zenon
  <2>7. CASE GoOn(i, "check", x)
    BY <1>1, <1>2, <1>3, <1>8, <2>3, <2>4, <2>5, <2>6, <2>7, HoldKeeps, ZenonT(60)
  <2>8. CASE GoOn(i, "leave", NoOp)
    <3>1. /\ NoOp \in Calls /\ Fits(i, "leave", NoOp) /\ NoOp.name \in Mine(i)
          /\ "leave" \in {"check", "round", "leave"}
          /\ DiskOk' /\ stage' = stage /\ stage[i] = "joined"
      BY <1>1, <1>2, <1>3, <2>4, CallType, Zenon
    <3>2. \A j \in Instance \ {i} : \A n : Precious(j, n) => DiskSpares(n)
      BY <1>2, Zenon
    <3>3. QED
      BY <2>3, <2>5, <2>6, <2>8, <3>1, <3>2, HoldKeeps, ZenonT(60)
  <2>9. QED
    BY <2>1, <2>7, <2>8, Zenon
<1>11. QED
  BY <1>5, <1>6, <1>7, <1>9, <1>10, Zenon

(* The sweep before the loop: it removes no claim that is waited for.        *)
LEMMA SweepKeeps ==
  ASSUME LeaseInv, NEW i \in Instance, GuardSame, SweepHeartbeat(i) \/ SweepDir(i)
  PROVE  LeaseInv'
<1>1. /\ stage' = stage /\ lock' = lock /\ age' = age /\ late' = late
      /\ own' = own /\ beat' = beat /\ suspect' = suspect
  BY Zenon DEF GuardSame, guardVars, SweepHeartbeat, SweepDir
<1>2. stage[i] = "joined"
  BY DEF LeaseInv, CallOk, SweepHeartbeat, SweepDir
<1>3. FilesOk /\ LateOk'
  BY <1>1, Zenon DEF LeaseInv, TypeOK, DiskOk, LateOk
<1>4. /\ \E n \in Mine(i) : own' = [own EXCEPT ![i] = n]
      /\ \E b \in BOOLEAN : beat' = [beat EXCEPT ![i] = b]
      /\ \E s \in Heartbeat \cup {NONE, EmptyDir} : suspect' = [suspect EXCEPT ![i] = s]
  BY <1>1, SameIsSet, Zenon
<1>5. CASE SweepHeartbeat(i)
  <2>1. PICK m \in Leaked : /\ claims' = [claims EXCEPT ![m] = "bare"]
                            /\ GoOn(i, "sweep", [NoOp EXCEPT !.name = m])
    BY <1>5, Zenon DEF SweepHeartbeat
  <2> DEFINE x == [NoOp EXCEPT !.name = m]
  <2>2. m \in DOMAIN claims /\ m \in Heartbeat
    BY <1>3, Zenon DEF Leaked, FilesOk
  <2>3. /\ x \in Calls /\ x.kind = "none" /\ x.name = m /\ x.step = "done" /\ x.by = NONE
    BY <2>2, Zenon DEF NoOp, Calls, Results
  <2> HIDE DEF x
  <2>4. GoOn(i, "sweep", x)
    BY <2>1, Zenon DEF x
  <2>5. Fits(i, "sweep", x) /\ "sweep" \in Places
    BY <2>3 DEF Fits, Places
  <2>6. DiskOk'
    <3>1. DOMAIN claims' = DOMAIN claims
      BY <2>1, Zenon
    <3>2. claims' \in [DOMAIN claims' -> {"full", "bare"}]
      BY <1>3, <2>1, <3>1, Zenon DEF FilesOk
    <3>3. FilesOk'
      BY <1>1, <1>3, <3>1, <3>2, ZenonT(60) DEF FilesOk
    <3>4. QED
      BY <1>3, <3>3, Zenon DEF DiskOk
  <2>7. ASSUME NEW j \in Instance \ {i}, NEW n, Precious(j, n)
        PROVE  /\ DiskSpares(n) /\ suspect'[i] # n
               /\ x.name = n => lock = n /\ x.kind \in {"none", "probe"} /\ x.step # "touch"
    <3>1. suspect[i] # n /\ \A o \in late : o.name # n
      BY <2>7, PreciousName, Zenon
    <3>2. lock # n => m # n
      <4>1. ASSUME op[j].kind = "claim", n = op[j].name PROVE m # n
        <5>1. stage[j] = "joined"
          BY <4>1 DEF LeaseInv, CallOk, Fits
        <5>2. Alive(j)
          BY <5>1 DEF Alive
        <5>3. QED
          BY <4>1, <5>2, Zenon DEF Leaked
      <4>2. QED
        BY <2>7, <4>1, Zenon DEF Precious
    <3>3. DiskSpares(n)
      BY <1>1, <2>1, <3>1, <3>2, Zenon DEF DiskSpares
    <3>4. QED
      BY <1>1, <2>3, <3>1, <3>2, <3>3
  <2>8. QED
    BY <1>1, <1>2, <1>4, <2>3, <2>4, <2>5, <2>6, <2>7, QuietKeeps, ZenonT(60)
<1>6. CASE SweepDir(i)
  <2>1. claims' = Without(op[i].name) /\ GoOn(i, "new", NoOp)
    BY <1>6, Zenon DEF SweepDir
  <2>2. DOMAIN claims' = DOMAIN claims \ {op[i].name}
    BY <2>1, Zenon DEF Without, Restrict
  <2>3. \A n \in DOMAIN claims' : n \in DOMAIN claims /\ claims'[n] = claims[n]
    BY <2>1 DEF Without, Restrict
  <2>4. DiskOk'
    <3>1. claims' \in [DOMAIN claims' -> {"full", "bare"}]
      BY <1>3, <2>1, <2>2 DEF FilesOk, Without, Restrict
    <3>2. IsFiniteSet(DOMAIN claims')
      BY <1>3, <2>2, FS_Subset, Zenon DEF FilesOk
    <3>3. FilesOk'
      BY <1>1, <1>3, <2>2, <3>1, <3>2, Zenon DEF FilesOk
    <3>4. QED
      BY <1>3, <3>3, Zenon DEF DiskOk
  <2>5. Fits(i, "new", NoOp) /\ "new" \in Places
    BY CallFields DEF Fits, Places
  <2>6. ASSUME NEW j \in Instance \ {i}, NEW n, Precious(j, n)
        PROVE  /\ DiskSpares(n) /\ suspect'[i] # n
               /\ NoOp.name = n => /\ lock = n /\ NoOp.kind \in {"none", "probe"}
                                   /\ NoOp.step # "touch"
    <3>1. suspect[i] # n /\ n # NONE /\ \A o \in late : o.name # n
      BY <2>6, PreciousName, Zenon
    <3>2. QED
      BY <1>1, <2>3, <3>1, CallFields, Zenon DEF DiskSpares
  <2>7. QED
    BY <1>1, <1>4, <2>1, <2>4, <2>5, <2>6, CallType, QuietKeeps, Zenon
<1>7. QED
  BY <1>5, <1>6, Zenon

-----------------------------------------------------------------------------
(* Joining, leaving, dying *)

(* An instance joins, leaves between two cycles, or dies.                    *)
LEMMA StageKeeps ==
  ASSUME LeaseInv, NEW i \in Instance, JoinStep(i) \/ GaveUpGate(i) \/ Leave(i) \/ Crash(i)
  PROVE  LeaseInv'
<1>1. UNCHANGED <<lock, age, claims>> /\ late' \in SUBSET late
  BY Zenon DEF JoinStep, GaveUpGate, Leave, Crash, LeaseSame, leaseVars
<1>2. PICK place : stage' = [stage EXCEPT ![i] = place]
  BY Zenon DEF JoinStep, GaveUpGate, Leave, Crash, Guard!GateMkDir, Guard!GateStat,
       Guard!GateTouch, Guard!GateRmDir, Guard!CountLiveMembers, Guard!Publish, Guard!Verify,
       Guard!RegisterMember, Guard!ReleaseGate, Guard!GateTimeout, Guard!Unregister, Guard!Stages
<1>3. DOMAIN stage' = Instance /\ \A j \in Instance \ {i} : stage'[j] = stage[j]
  BY <1>2, Zenon DEF LeaseInv, TypeOK
<1>4. DiskOk'
  <2>1. IsFiniteSet(late')
    BY <1>1, FS_Subset, Zenon DEF LeaseInv, TypeOK, DiskOk, LateOk
  <2>2. LateOk'
    BY <1>1, <2>1, Zenon DEF LeaseInv, TypeOK, DiskOk, LateOk
  <2>3. QED
    BY <1>1, <2>2, Zenon DEF LeaseInv, TypeOK, DiskOk, FilesOk
<1>5. \A j \in Instance \ {i} : \A n : Precious(j, n) =>
        DiskSpares(n) /\ n # NONE /\ suspect[i] # n
  BY <1>1, PreciousName, Zenon DEF DiskSpares
<1>6. CASE JoinStep(i) \/ GaveUpGate(i)
  <2>1. UNCHANGED <<at, op, late, own, beat, suspect>>
    BY <1>6, ZenonT(60) DEF JoinStep, GaveUpGate, LeaseSame, leaseVars
  <2>2. stage[i] # "joined"
    BY <1>6 DEF JoinStep, GaveUpGate, Guard!GateMkDir, Guard!GateStat, Guard!GateTouch,
         Guard!GateRmDir, Guard!CountLiveMembers, Guard!Publish, Guard!Verify,
         Guard!RegisterMember, Guard!ReleaseGate, Guard!GateTimeout
  <2>3. TypeOK' /\ OthersSame(i)
    BY <1>3, <1>4, <2>1, Zenon DEF LeaseInv, TypeOK, OthersSame
  <2>4. at[i] \in {"new", "out"}
    BY <2>2, Zenon DEF LeaseInv, CallOk
  <2>5. CallOk(i)' /\ ~Holding(i)'
    BY <2>1, <2>4, ZenonT(60) DEF LeaseInv, CallOk, Fits, Mine, Holding
  <2>6. op'[i].kind # "claim"
    BY <2>4, <2>1, ZenonT(60) DEF LeaseInv, CallOk, Fits
  <2>7. ClaimOk(i)' /\ HoldOk(i)'
    BY <2>5, <2>6, Zenon DEF ClaimOk, HoldOk
  <2>8. \A j \in Instance \ {i} : \A n : Precious(j, n) => DiskSpares(n) /\ CallerSpares(i, n)
    BY <1>1, <1>5, <2>1, PreciousName, Zenon DEF CallerSpares
  <2>9. QED
    BY <2>3, <2>5, <2>7, <2>8, StepKeeps, Zenon
<1>7. CASE Leave(i) \/ Crash(i)
  <2>1. /\ at' = [at EXCEPT ![i] = "out"] /\ suspect' = [suspect EXCEPT ![i] = NONE]
        /\ \E o \in {op[i], NoOp} : op' = [op EXCEPT ![i] = o]
        /\ \E n \in {own[i], NONE} : own' = [own EXCEPT ![i] = n]
        /\ \E b \in BOOLEAN : beat' = [beat EXCEPT ![i] = b]
    <3>1. /\ op = [op EXCEPT ![i] = op[i]] /\ own = [own EXCEPT ![i] = own[i]]
          /\ beat = [beat EXCEPT ![i] = beat[i]] /\ beat[i] \in BOOLEAN
      BY Zenon DEF LeaseInv, TypeOK
    <3>2. QED
      BY <1>7, <3>1, Zenon DEF Leave, Crash
  <2>2. /\ at'[i] = "out" /\ suspect'[i] = NONE /\ op'[i] \in {op[i], NoOp}
        /\ own'[i] \in {own[i], NONE}
    BY <2>1, Zenon DEF LeaseInv, TypeOK
  <2>3. /\ at' \in [Instance -> Places] /\ op' \in [Instance -> Calls]
        /\ own' \in [Instance -> Heartbeat \cup {NONE}] /\ beat' \in [Instance -> BOOLEAN]
        /\ suspect' \in [Instance -> Heartbeat \cup {NONE, EmptyDir}]
    <3>1. op[i] \in Calls /\ own[i] \in Heartbeat \cup {NONE} /\ NoOp \in Calls
          /\ "out" \in Places
      BY CallType, Zenon DEF LeaseInv, TypeOK, Places
    <3>2. at' \in [Instance -> Places]
      BY <2>1, <3>1, Zenon DEF LeaseInv, TypeOK
    <3>3. op' \in [Instance -> Calls]
      <4>1. PICK o \in {op[i], NoOp} : op' = [op EXCEPT ![i] = o]
        BY <2>1, Zenon
      <4>2. o \in Calls
        BY <3>1, <4>1
      <4>3. QED
        BY <4>1, <4>2, Zenon DEF LeaseInv, TypeOK
    <3>4. own' \in [Instance -> Heartbeat \cup {NONE}]
      <4>1. PICK n \in {own[i], NONE} : own' = [own EXCEPT ![i] = n]
        BY <2>1, Zenon
      <4>2. n \in Heartbeat \cup {NONE}
        BY <3>1, <4>1
      <4>3. QED
        BY <4>1, <4>2, Zenon DEF LeaseInv, TypeOK
    <3>5. beat' \in [Instance -> BOOLEAN]
      BY <2>1, Zenon DEF LeaseInv, TypeOK
    <3>6. suspect' \in [Instance -> Heartbeat \cup {NONE, EmptyDir}]
      BY <2>1, Zenon DEF LeaseInv, TypeOK
    <3>7. QED
      BY <3>2, <3>3, <3>4, <3>5, <3>6, ZenonT(60)
  <2>4. TypeOK' /\ OthersSame(i)
    BY <1>3, <1>4, <2>1, <2>3, Zenon DEF LeaseInv, TypeOK, OthersSame
  <2>5. op'[i].kind = "none" /\ op'[i].by = NONE /\ op'[i].step # "rename"
    <3>1. CASE Crash(i)
      <4>1. op'[i] = NoOp
        BY <3>1, ZenonT(60) DEF Crash, LeaseInv, TypeOK
      <4>2. QED
        BY <4>1, CallFields
    <3>2. CASE Leave(i)
      <4>1. op'[i] = op[i] /\ at[i] = "idle" /\ op[i] \in Calls /\ Fits(i, at[i], op[i])
        BY <3>2, Zenon DEF Leave, LeaseInv, TypeOK, CallOk
      <4>2. QED
        BY <4>1 DEF Fits, Calls
    <3>3. QED
      BY <1>7, <3>1, <3>2, ZenonT(60)
  <2>6. own'[i] \in Mine(i)
    BY <2>2, SameIsSet, Zenon DEF Mine
  <2>7. CallOk(i)' /\ ClaimOk(i)' /\ HoldOk(i)'
    <3>1. Fits(i, at'[i], op'[i])
      BY <2>2, <2>5 DEF Fits
    <3>2. CallOk(i)'
      BY <2>2, <2>6, <3>1, Zenon DEF CallOk
    <3>3. QED
      BY <2>2, <2>5, <3>2, ZenonT(60) DEF ClaimOk, HoldOk, Holding
  <2>8. \A j \in Instance \ {i} : \A n : Precious(j, n) => DiskSpares(n) /\ CallerSpares(i, n)
    <3> SUFFICES ASSUME NEW j \in Instance \ {i}, NEW n, Precious(j, n)
                 PROVE  CallerSpares(i, n)
      BY <1>5, Zenon
    <3>1. n # NONE /\ (op[i].name = n => n = lock)
      BY PreciousName, Zenon
    <3>2. op'[i].name = n => n = lock
      BY <2>2, <3>1, CallFields, Zenon
    <3>3. QED
      BY <2>2, <2>5, <3>1, <3>2, ZenonT(60) DEF CallerSpares, Fooled
  <2>9. QED
    BY <2>4, <2>7, <2>8, StepKeeps, Zenon
<1>8. QED
  BY <1>6, <1>7, Zenon

-----------------------------------------------------------------------------
(* Heartbeats and time *)

(* Steps that change no call but what a probe knows of the mtime.            *)
LEMMA ClockKeeps ==
  ASSUME LeaseInv, UNCHANGED <<lock, claims, at, late, own, beat, stage>>, age' \in Nat,
         op' \in [Instance -> Calls], suspect' \in [Instance -> Heartbeat \cup {NONE, EmptyDir}],
         \A j \in Instance :
           /\ op'[j].kind = op[j].kind /\ op'[j].name = op[j].name /\ op'[j].step = op[j].step
           /\ op'[j].by = op[j].by /\ suspect'[j] \in {suspect[j], NONE},
         \A i \in Instance : Holding(i) =>
           /\ age' < Stale
           /\ \A j \in Instance \ {i} :
                op[j].name = lock /\ ~Fooled(op[j], age) => ~Fooled(op'[j], age')
  PROVE  LeaseInv'
<1>1. TypeOK'
  BY Zenon DEF LeaseInv, TypeOK, DiskOk, FilesOk, LateOk
<1> SUFFICES ASSUME NEW i \in Instance PROVE CallOk(i)' /\ ClaimOk(i)' /\ HoldOk(i)'
  BY <1>1, Zenon DEF LeaseInv
<1>2. CallOk(i)'
  <2>1. Fits(i, at'[i], op'[i])
    <3>1. Fits(i, at[i], op[i])
      BY Zenon DEF LeaseInv, CallOk
    <3>2. QED
      BY <3>1 DEF Fits
  <2>2. QED
    BY <2>1, Zenon DEF LeaseInv, CallOk
<1>3. ASSUME NEW n, Secret(i, n) PROVE /\ n \in {i} \X Nonce /\ \A o \in late' : o.name # n
                                      /\ \A j \in Instance : suspect'[j] # n
  <2>1. /\ n \in {i} \X Nonce /\ (\A o \in late' : o.name # n)
        /\ \A j \in Instance : suspect[j] # n
    BY <1>3, Zenon DEF Secret
  <2>2. n # NONE
    BY <2>1, LeaseAssumption DEF Heartbeat
  <2>3. QED
    BY <2>1, <2>2, Zenon
<1>4. ClaimOk(i)'
  <2>1. CASE op[i].kind # "claim"
    BY <2>1, Zenon DEF ClaimOk
  <2>2. CASE op[i].kind = "claim"
    <3> DEFINE n == op[i].name
    <3>1. /\ Secret(i, n) /\ lock # n /\ (\A j \in Instance \ {i} : op[j].name # n)
          /\ n \in DOMAIN claims => claims[n] = "full"
      BY <2>2, Zenon DEF LeaseInv, ClaimOk
    <3>2. op'[i].name = n /\ \A j \in Instance \ {i} : op'[j].name # n
      BY <3>1, Zenon
    <3> HIDE DEF n
    <3>3. /\ n \in {i} \X Nonce /\ (\A o \in late' : o.name # n)
          /\ \A j \in Instance : suspect'[j] # n
      BY <1>3, <3>1, Zenon
    <3>4. QED
      BY <3>1, <3>2, <3>3, Zenon DEF ClaimOk, Secret
  <2>3. QED
    BY <2>1, <2>2
<1>5. HoldOk(i)'
  <2> SUFFICES ASSUME Holding(i) PROVE HoldOk(i)'
    BY Zenon DEF HoldOk, Holding
  <2>1. /\ lock = own[i] /\ beat[i] /\ Secret(i, lock)
        /\ \A j \in Instance \ {i} : op[j].name = lock =>
             op[j].kind \in {"none", "probe"} /\ ~Fooled(op[j], age)
    BY Zenon DEF LeaseInv, HoldOk
  <2>2. Secret(i, lock)'
    BY <1>3, <2>1, Zenon DEF Secret
  <2>3. \A j \in Instance \ {i} : op'[j].name = lock' =>
          op'[j].kind \in {"none", "probe"} /\ ~Fooled(op'[j], age')
    BY <2>1, Zenon
  <2>4. QED
    BY <2>1, <2>2, <2>3, Zenon DEF HoldOk
<1>6. QED
  BY <1>2, <1>4, <1>5, ZenonT(60)

(* A heartbeat is sent, or its thread ends.                                  *)
LEMMA BeatKeeps ==
  ASSUME LeaseInv, NEW i \in Instance, Beat(i)
  PROVE  LeaseInv'
<1>1. UNCHANGED <<lock, claims, at, late, own, stage>>
  BY Zenon DEF Beat, Refresh, GuardSame, guardVars
<1>2. CASE lock = own[i]
  <2>1. /\ age' = 0 /\ beat' = beat
        /\ suspect' = [j \in Instance |-> IF suspect[j] = lock THEN NONE ELSE suspect[j]]
        /\ op' = [j \in Instance |->
             IF op[j].kind = "probe" /\ op[j].name = lock /\ op[j].step = "touch"
             THEN [op[j] EXCEPT !.moved = TRUE] ELSE op[j]]
    BY <1>2, Zenon DEF Beat, Refresh
  <2>2. suspect' \in [Instance -> Heartbeat \cup {NONE, EmptyDir}]
    BY <2>1, Zenon DEF LeaseInv, TypeOK
  <2>3. ASSUME NEW j \in Instance
        PROVE  /\ op'[j] \in Calls /\ suspect'[j] \in {suspect[j], NONE}
               /\ op'[j].kind = op[j].kind /\ op'[j].name = op[j].name
               /\ op'[j].step = op[j].step /\ op'[j].by = op[j].by
               /\ op'[j].same = op[j].same
               /\ op'[j].kind = "probe" /\ op'[j].name = lock /\ op'[j].step = "touch" =>
                    op'[j].moved
    <3>1. suspect'[j] \in {suspect[j], NONE}
      BY <2>1, Zenon
    <3>2. op[j] \in Calls
      BY Zenon DEF LeaseInv, TypeOK
    <3>3. op'[j] = IF op[j].kind = "probe" /\ op[j].name = lock /\ op[j].step = "touch"
                   THEN [op[j] EXCEPT !.moved = TRUE] ELSE op[j]
      BY <2>1, Zenon
    <3>4. QED
      BY <3>1, <3>2, <3>3, ZenonT(60) DEF Calls
  <2>4. op' \in [Instance -> Calls]
    <3>1. op' = [j \in Instance |-> op'[j]]
      BY <2>1, Zenon
    <3>2. QED
      BY <2>3, <3>1, Zenon
  <2>5. ASSUME NEW j \in Instance, op[j].name = lock, ~Fooled(op[j], age)
        PROVE  ~Fooled(op'[j], age')
    BY <2>3, <2>5, Zenon DEF Fooled
  <2>6. age' < Stale /\ age' \in Nat
    BY <2>1, LeaseAssumption
  <2>7. QED
    BY <1>1, <2>1, <2>2, <2>3, <2>4, <2>5, <2>6, ClockKeeps, Zenon
<1>3. CASE lock # own[i]
  <2>1. beat' = [beat EXCEPT ![i] = FALSE] /\ UNCHANGED <<age, suspect, op>>
    BY <1>3, Zenon DEF Beat, Refresh
  <2>2. beat' \in [Instance -> BOOLEAN] /\ \A j \in Instance \ {i} : beat'[j] = beat[j]
    BY <2>1, Zenon DEF LeaseInv, TypeOK
  <2>3. ~Holding(i)
    BY <1>3, Zenon DEF LeaseInv, HoldOk
  <2>4. TypeOK' /\ OthersSame(i)
    BY <1>1, <2>1, <2>2, ZenonT(60) DEF LeaseInv, TypeOK, DiskOk, FilesOk, LateOk, OthersSame
  <2>5. CallOk(i)' /\ ClaimOk(i)' /\ HoldOk(i)'
    <3>1. CallOk(i)'
      BY <1>1, <2>1, Zenon DEF LeaseInv, CallOk
    <3>2. ClaimOk(i)'
      BY <1>1, <2>1, Zenon DEF LeaseInv, ClaimOk, Secret
    <3>3. HoldOk(i)'
      BY <1>1, <2>3, Zenon DEF HoldOk, Holding
    <3>4. QED
      BY <3>1, <3>2, <3>3
  <2>6. \A j \in Instance \ {i} : \A n : Precious(j, n) => DiskSpares(n) /\ CallerSpares(i, n)
    <3> SUFFICES ASSUME NEW j \in Instance \ {i}, NEW n, Precious(j, n)
                 PROVE  DiskSpares(n) /\ CallerSpares(i, n)
      BY Zenon
    <3>1. /\ suspect[i] # n /\ (\A o \in late : o.name # n)
          /\ op[i].name = n => /\ op[i].kind \in {"none", "probe"} /\ ~Fooled(op[i], age)
                              /\ n = lock
      BY PreciousName, Zenon
    <3>2. QED
      BY <1>1, <2>1, <3>1, Zenon DEF DiskSpares, CallerSpares
  <2>7. QED
    BY <2>4, <2>5, <2>6, StepKeeps, Zenon
<1>4. QED
  BY <1>2, <1>3

(* Time passes.                                                              *)
LEMMA TickKeeps ==
  ASSUME LeaseInv, Tick
  PROVE  LeaseInv'
<1>1. /\ UNCHANGED <<lock, claims, at, late, own, beat, suspect, stage>>
      /\ Kept => age + 1 < Stale
      /\ age' = IF Free THEN 0 ELSE Aged(age)
      /\ op' = [j \in Instance |->
           IF op[j].kind = "probe" /\ op[j].step = "touch" THEN [op[j] EXCEPT !.lag = Aged(@)]
           ELSE op[j]]
  BY Zenon DEF Tick
<1>2. age \in Nat /\ suspect' \in [Instance -> Heartbeat \cup {NONE, EmptyDir}]
  BY <1>1, Zenon DEF LeaseInv, TypeOK, DiskOk, FilesOk
<1>3. age' \in Nat
  BY <1>1, <1>2 DEF Aged
<1>4. ASSUME NEW j \in Instance
      PROVE  /\ op'[j] \in Calls /\ op[j].lag \in Nat
             /\ op'[j].kind = op[j].kind /\ op'[j].name = op[j].name
             /\ op'[j].step = op[j].step /\ op'[j].by = op[j].by
             /\ op'[j].same = op[j].same /\ op'[j].moved = op[j].moved
             /\ op[j].kind = "probe" /\ op[j].step = "touch" => op'[j].lag = Aged(op[j].lag)
  <2>1. op[j] \in Calls
    BY Zenon DEF LeaseInv, TypeOK
  <2>2. op'[j] = IF op[j].kind = "probe" /\ op[j].step = "touch"
                 THEN [op[j] EXCEPT !.lag = Aged(op[j].lag)] ELSE op[j]
    BY <1>1, ZenonT(60)
  <2>3. op[j].lag \in Nat /\ Aged(op[j].lag) \in Nat
    BY <2>1 DEF Calls, Aged
  <2>4. QED
    BY <2>1, <2>2, <2>3, ZenonT(60) DEF Calls
<1>5. op' \in [Instance -> Calls]
  <2>1. op' = [j \in Instance |-> op'[j]]
    BY <1>1, Zenon
  <2>2. QED
    BY <1>4, <2>1, Zenon
<1>6. ASSUME NEW i \in Instance, Holding(i)
      PROVE  /\ age' < Stale
             /\ \A j \in Instance \ {i} :
                  op[j].name = lock /\ ~Fooled(op[j], age) => ~Fooled(op'[j], age')
  <2>1. lock = own[i] /\ beat[i] /\ lock \in {i} \X Nonce
    BY <1>6, Zenon DEF LeaseInv, HoldOk, Secret
  <2>2. Kept /\ ~Free
    <3>1. lock \notin {NoDir, EmptyDir}
      BY <2>1, LeaseAssumption DEF Heartbeat
    <3>2. QED
      BY <2>1, <3>1, Zenon DEF Kept, Free
  <2>3. age + 1 < Stale /\ age' = age + 1
    BY <1>1, <1>2, <2>2, LeaseAssumption DEF Aged
  <2>4. ASSUME NEW j \in Instance, ~Fooled(op[j], age) PROVE ~Fooled(op'[j], age')
    <3> SUFFICES ASSUME op'[j].kind = "probe", op'[j].step = "touch"
                 PROVE  ~op'[j].same /\ (op'[j].moved \/ op'[j].lag <= age')
      BY Zenon DEF Fooled
    <3>1. ~op[j].same /\ (op[j].moved \/ op[j].lag <= age)
      BY <1>4, <2>4, Zenon DEF Fooled
    <3>2. op[j].lag <= age => op'[j].lag <= age'
      BY <1>2, <1>4, <2>3, LeaseAssumption DEF Aged
    <3>3. QED
      BY <1>4, <3>1, <3>2, Zenon
  <2>5. QED
    BY <1>2, <2>3, <2>4, LeaseAssumption, ZenonT(60)
<1>7. QED
  BY <1>1, <1>2, <1>3, <1>4, <1>5, <1>6, ClockKeeps, Zenon

-----------------------------------------------------------------------------
(* The theorems.  A name is a GUID: names do not run out.                    *)

(* At the start nobody holds or claims anything.                             *)
LEMMA LeaseInvInit ==
  ASSUME Init
  PROVE  LeaseInv
<1>1. /\ lock = NoDir /\ age = 0 /\ claims = << >> /\ late = {}
      /\ at = [i \in Instance |-> "new"] /\ op = [i \in Instance |-> NoOp]
      /\ own = [i \in Instance |-> NONE] /\ beat = [i \in Instance |-> FALSE]
      /\ suspect = [i \in Instance |-> NONE] /\ stage = [i \in Instance |-> "gate"]
  BY Zenon DEF Init, LeaseInit, Guard!GuardInit
<1>2. DiskOk
  <2>1. DOMAIN claims = {}
    BY <1>1
  <2>2. IsFiniteSet({})
    BY FS_EmptySet, Zenon
  <2>3. claims \in [DOMAIN claims -> {"full", "bare"}]
    BY <1>1
  <2>4. FilesOk
    BY <1>1, <2>1, <2>2, <2>3 DEF FilesOk
  <2>5. LateOk
    BY <1>1, <2>2, Zenon DEF LateOk
  <2>6. QED
    BY <2>4, <2>5, Zenon DEF DiskOk
<1>3. TypeOK
  <2>1. "new" \in Places /\ NoOp \in Calls
    BY CallType, ZenonT(60) DEF Places
  <2>2. QED
    BY <1>1, <1>2, <2>1, Zenon DEF TypeOK
<1>4. \A i \in Instance : CallOk(i) /\ ClaimOk(i) /\ HoldOk(i)
  <2> SUFFICES ASSUME NEW i \in Instance PROVE CallOk(i) /\ ClaimOk(i) /\ HoldOk(i)
    BY Zenon
  <2>1. at[i] = "new" /\ op[i] = NoOp /\ own[i] = NONE
    BY <1>1, Zenon
  <2>2. Fits(i, "new", NoOp)
    BY CallFields DEF Fits
  <2>3. QED
    BY <2>1, <2>2, CallFields DEF CallOk, ClaimOk, HoldOk, Holding, Mine
<1>5. QED
  BY <1>3, <1>4, Zenon DEF LeaseInv

(* LeaseInv holds whatever the instances do, and whatever they meet.         *)
THEOREM LeaseInvariance ==
  ASSUME ~IsFiniteSet(Nonce)
  PROVE  Spec => []LeaseInv
<1>1. ASSUME LeaseInv, Next PROVE LeaseInv'
  <2>1. ASSUME NEW i \in Instance, CycleStep(i) PROVE LeaseInv'
    BY <1>1, <2>1, SweepKeeps, LoopKeeps, RunKeeps, Zenon DEF CycleStep
  <2>2. ASSUME NEW i \in Instance, Fault(i) PROVE LeaseInv'
    BY <1>1, <2>2, GiveUpKeeps, LoopKeeps, StageKeeps, Zenon DEF Fault
  <2>3. ASSUME NEW i \in Instance, JoinStep(i) \/ GaveUpGate(i) \/ Beat(i) \/ Leave(i)
        PROVE  LeaseInv'
    BY <1>1, <2>3, StageKeeps, BeatKeeps, Zenon
  <2>4. QED
    BY <1>1, <2>1, <2>2, <2>3, LateKeeps, TickKeeps, Zenon DEF Next
<1>2. ASSUME LeaseInv, UNCHANGED vars PROVE LeaseInv'
  <2>1. UNCHANGED <<lock, claims, at, late, own, beat, stage, op, suspect, age>>
    BY <1>2, Zenon DEF vars, leaseVars, guardVars
  <2>2. TypeOK' /\ OthersSame(NONE) /\ NONE \notin Instance
    BY <1>2, <2>1, LeaseAssumption, DiskStays, Zenon DEF LeaseInv, TypeOK, OthersSame
  <2>3. \A j \in Instance : CallOk(j)' /\ ClaimOk(j)' /\ HoldOk(j)'
    BY <1>2, <2>1, <2>2, DiskStays, OthersKeep, Zenon
  <2>4. QED
    BY <2>2, <2>3, Zenon DEF LeaseInv
<1>3. QED
  BY <1>1, <1>2, LeaseInvInit, PTL DEF Spec

(* An instance that collects has its heartbeat in the lock directory.        *)
THEOREM HolderIsInLock ==
  ASSUME ~IsFiniteSet(Nonce)
  PROVE  Spec => []HolderKeepsLock
<1>1. LeaseInv => HolderKeepsLock
  BY Zenon DEF LeaseInv, HoldOk, Holding, HolderKeepsLock
<1>2. QED
  BY <1>1, LeaseInvariance, PTL

(* Two instances never collect at the same time.                             *)
THEOREM OneCollector ==
  ASSUME ~IsFiniteSet(Nonce)
  PROVE  Spec => [](\A i, j \in Instance : at[i] = "round" /\ at[j] = "round" => i = j)
<1>1. LeaseInv => \A i, j \in Instance : at[i] = "round" /\ at[j] = "round" => i = j
  <2> SUFFICES ASSUME LeaseInv, NEW i \in Instance, NEW j \in Instance,
                      at[i] = "round", at[j] = "round"
               PROVE  i = j
    BY Zenon
  <2>1. lock \in {i} \X Nonce /\ lock \in {j} \X Nonce
    BY Zenon DEF LeaseInv, HoldOk, Holding, Secret
  <2>2. QED
    BY <2>1
<1>2. QED
  BY <1>1, LeaseInvariance, PTL
=============================================================================
