--------------------------- MODULE ShardGcProofs ---------------------------
(* Proofs about the shard garbage collector (ShardGc): its rounds are        *)
(* settled when their wait returns, what the check loop reads afterwards no  *)
(* longer changes, and a task that was given up removes at most one more     *)
(* file, for any number of shards, files, workers and late workers.          *)
EXTENDS ShardGc, FiniteSetTheorems, TLAPS

-----------------------------------------------------------------------------
(* Sequences without repetition *)

(* What is left after the head of a queue of distinct elements was taken.    *)
LEMMA TailDistinct ==
  ASSUME NEW S, NEW q \in Seq(S), q # <<>>, IsInjective(q)
  PROVE  /\ Tail(q) \in Seq(S) /\ IsInjective(Tail(q))
         /\ Head(q) \in S /\ Head(q) \in Range(q)
         /\ \A x \in Range(Tail(q)) : x \in Range(q) /\ x # Head(q)
  BY DEF IsInjective, Range

(* Pushing a new element to a queue of distinct elements.                    *)
LEMMA AppendDistinct ==
  ASSUME NEW S, NEW q \in Seq(S), NEW x \in S, IsInjective(q), x \notin Range(q)
  PROVE  /\ Append(q, x) \in Seq(S) /\ IsInjective(Append(q, x))
         /\ Range(Append(q, x)) = Range(q) \cup {x}
<1>1. Append(q, x) \in Seq(S) /\ IsInjective(Append(q, x))
  BY DEF IsInjective, Range
<1>2. Range(Append(q, x)) \subseteq Range(q) \cup {x}
  BY DEF Range
<1>3. x \in Range(Append(q, x))
  <2>1. Append(q, x)[Len(q) + 1] = x /\ Len(q) + 1 \in DOMAIN Append(q, x)
    OBVIOUS
  <2>2. QED
    BY <2>1 DEF Range
<1>4. ASSUME NEW y \in Range(q) PROVE y \in Range(Append(q, x))
  <2>1. PICK i \in DOMAIN q : q[i] = y
    BY DEF Range
  <2>2. i \in DOMAIN Append(q, x) /\ Append(q, x)[i] = y
    BY <2>1
  <2>3. QED
    BY <2>2 DEF Range
<1>5. QED
  BY <1>1, <1>2, <1>3, <1>4, Zenon

(* There is a list of n distinct elements of a set of n elements or more.    *)
LEMMA Listed ==
  ASSUME NEW n \in Nat, NEW S, IsFiniteSet(S), n <= Cardinality(S)
  PROVE  Injection(1 .. n, S) # {}
<1>1. Cardinality(S) \in Nat /\ ExistsBijection(1 .. Cardinality(S), S)
  BY FS_CardinalityType
<1>2. PICK g \in [1 .. Cardinality(S) -> S] : IsInjective(g)
  BY <1>1, Zenon DEF ExistsBijection, Bijection, Injection
<1> DEFINE f == [i \in 1 .. n |-> g[i]]
<1>3. \A i \in 1 .. n : i \in 1 .. Cardinality(S)
  BY <1>1
<1>4. f \in [1 .. n -> S] /\ IsInjective(f)
  BY <1>2, <1>3, Zenon DEF IsInjective
<1>5. QED
  BY <1>4, Zenon DEF Injection

-----------------------------------------------------------------------------
(* Tasks *)

(* FinishTask sets finished and leaves the rest of the task alone.           *)
LEMMA SetFinished ==
  ASSUME task \in [Id -> Task], NEW t \in Id,
         task' = [task EXCEPT ![t].finished = TRUE]
  PROVE  /\ task' \in [Id -> Task]
         /\ task'[t].finished
         /\ \A u \in Id : u # t => task'[u] = task[u]
         /\ \A u \in Id : task[u].finished => task'[u].finished
         /\ \A u \in Id : task'[u].result = task[u].result
  BY Zenon DEF Task

(* Writing a result leaves finished alone.                                   *)
LEMMA SetResult ==
  ASSUME task \in [Id -> Task], NEW t \in Id, NEW r \in Result,
         task' = [task EXCEPT ![t].result = r]
  PROVE  /\ task' \in [Id -> Task]
         /\ \A u \in Id : task'[u].finished = task[u].finished
         /\ \A u \in Id : u # t => task'[u] = task[u]
  BY DEF Task

(* The tasks of a round are finitely many, and so are the open ones.         *)
LEMMA OpenFinite ==
  ASSUME TypeOK
  PROVE  IsFiniteSet(Open) /\ Cardinality(Open) \in Nat
<1>1. Open \in SUBSET Id /\ IsFiniteSet(Id)
  BY NamesAssumption DEF TypeOK, Open, Names
<1>2. QED
  BY <1>1, FS_Subset, FS_CardinalityType

(* No task becomes open or stops being open when no finished flag and no     *)
(* writer changes.                                                           *)
LEMMA OpenSame ==
  ASSUME round' = round, \A t \in round : task'[t].finished = task[t].finished,
         \A w \in Worker : /\ phase'[w] = "write" <=> phase[w] = "write"
                           /\ phase[w] = "write" => current'[w] = current[w]
  PROVE  Open' = Open
  BY DEF Open, Writes

(* When the loop waits for nothing, every task is finished, the queue is     *)
(* empty, and nobody is about to write a result.                             *)
LEMMA AllFinished ==
  ASSUME RoundInv, pushes = <<>>, latch = 0
  PROVE  /\ \A t \in Id : task[t].finished
         /\ taskQ = <<>>
         /\ \A w \in Worker : phase[w] # "write"
<1>1. Open = {}
  BY OpenFinite, FS_EmptySet, Zenon DEF RoundInv, LatchExact
<1>2. \A t \in Id : task[t].finished
  BY <1>1 DEF RoundInv, OthersFinished, Open, TypeOK
<1>3. taskQ = <<>>
  <2>1. SUFFICES ASSUME taskQ # <<>> PROVE FALSE
    OBVIOUS
  <2>2. Head(taskQ) \in Id /\ Head(taskQ) \in Range(taskQ)
    BY <2>1, TailDistinct DEF RoundInv, TypeOK, QueueOk
  <2>3. QED
    BY <2>2, <1>2 DEF RoundInv, QueueOk
<1>4. \A w \in Worker : phase[w] # "write"
  BY <1>1, Zenon DEF RoundInv, WorkersOk, Open, Writes
<1>5. QED
  BY <1>2, <1>3, <1>4

-----------------------------------------------------------------------------
(* The steps.  First those that leave the tasks, the latch and the loop      *)
(* alone.                                                                    *)

(* What the steps of the workers and of the pool do not touch.               *)
TasksSame == UNCHANGED <<round, pushes, latch, task, gc>>

(* A worker goes from one place of ProcessTask to another, short of          *)
(* FinishTask.                                                               *)
LEMMA WorkerMoves ==
  ASSUME RoundInv, NEW w \in Worker, NEW place \in {"remove", "unlink", "finish"},
         phase[w] \in {"run", "remove", "unlink"},
         phase' = [phase EXCEPT ![w] = place],
         TasksSame, UNCHANGED <<taskQ, current, monitor>>,
         files' \in SUBSET File, found' \in [Worker -> Result],
         NEW n \in {0, 1}, strays' = [strays EXCEPT ![w] = n],
         place = "unlink" => n = 0,
         place = "remove" /\ n # 0 => task[current[w]].finished
  PROVE  RoundInv'
<1> USE DEF RoundInv, TasksSame
<1>1. TypeOK'
  BY DEF TypeOK, Busy
<1>2. WorkersOk'
  BY DEF TypeOK, WorkersOk, Busy
<1>3. OneWriter'
  BY Zenon DEF TypeOK, OneWriter, Writes
<1>4. QueueOk' /\ OthersFinished'
  BY ZenonT(60) DEF QueueOk, OthersFinished, Running
<1>5. Open' = Open
  BY OpenSame, Zenon DEF TypeOK
<1>6. LatchExact' /\ QuietBetween'
  BY <1>5, Zenon DEF LatchExact, QuietBetween
<1>7. QED
  BY <1>1, <1>2, <1>3, <1>4, <1>6, Zenon

(* A thread of the pool that has no task wakes up, falls asleep, ends or is  *)
(* started, and the monitor changes to a worker or task it may look at.      *)
LEMMA ThreadMoves ==
  ASSUME RoundInv, TasksSame, UNCHANGED <<taskQ, current, files, found, strays>>,
         phase' \in [Worker -> Busy \cup {"loop", "asleep", "gone"}],
         \A w \in Worker : phase[w] \in Busy \/ phase'[w] \in Busy => phase'[w] = phase[w],
         monitor' \in [at : {"sleep", "scan", "lock", "fire", "detach"},
                       worker : Worker \cup {NONE}, task : Id \cup {NONE}],
         monitor'.at = "lock" => monitor'.worker \in Worker,
         monitor'.at = "fire" => monitor'.task \in Id,
         monitor'.task \in Running \cup {NONE}
  PROVE  RoundInv'
<1> USE DEF RoundInv, TasksSame
<1>1. TypeOK'
  BY Zenon DEF TypeOK
<1>2. WorkersOk'
  BY DEF TypeOK, WorkersOk, Busy
<1>3. OneWriter'
  BY Zenon DEF TypeOK, OneWriter, Writes, Busy
<1>4. QueueOk'
  <2>1. \A t \in Running' : t \in Running \/ t = NONE
    BY Zenon DEF Running
  <2>2. \A t \in Range(taskQ) \cup Range(pushes) : t # NONE
    BY NamesAssumption DEF TypeOK, Range, Names
  <2>3. QED
    BY <2>1, <2>2, Zenon DEF QueueOk
<1>5. OthersFinished'
  BY DEF OthersFinished
<1>6. Open' = Open
  BY OpenSame, Zenon DEF Busy
<1>7. LatchExact' /\ QuietBetween'
  BY <1>6, Zenon DEF LatchExact, QuietBetween
<1>8. QED
  BY <1>1, <1>2, <1>3, <1>4, <1>5, <1>7, Zenon

(* A worker takes the head of the queue.                                     *)
LEMMA TakeStep ==
  ASSUME RoundInv, NEW w \in Worker, Take(w), GcSame
  PROVE  RoundInv'
<1> USE DEF RoundInv, GcSame, gcVars, Take, Ready
<1> DEFINE h == Head(taskQ)
<1>1. /\ Tail(taskQ) \in Seq(Id) /\ IsInjective(Tail(taskQ)) /\ h \in Id /\ h \in Range(taskQ)
      /\ \A x \in Range(Tail(taskQ)) : x \in Range(taskQ) /\ x # h
  BY TailDistinct, Zenon DEF TypeOK, QueueOk
<1>2. h # NONE
  BY <1>1, NamesAssumption, Zenon DEF Names
<1>3. TypeOK'
  BY <1>1, Zenon DEF TypeOK, Busy
<1>4. WorkersOk'
  BY <1>1, <1>2, Zenon DEF TypeOK, WorkersOk, Busy
<1>5. OneWriter'
  BY Zenon DEF TypeOK, OneWriter, Writes
<1>6. QueueOk'
  <2>1. \A t \in Running' : t \in Running \/ t = h
    BY DEF Running, TypeOK
  <2>2. h \notin Range(pushes)
    BY <1>1, Zenon DEF QueueOk
  <2>3. QED
    BY <1>1, <2>1, <2>2, Zenon DEF QueueOk
<1>7. OthersFinished'
  BY Zenon DEF OthersFinished
<1>8. Open' = Open
  BY OpenSame, Zenon DEF TypeOK
<1>9. LatchExact' /\ QuietBetween'
  BY <1>8, Zenon DEF LatchExact, QuietBetween
<1>10. QED
  BY <1>3, <1>4, <1>5, <1>6, <1>7, <1>9, Zenon

(* RunShardTasks pushes the next task of its round.                          *)
LEMMA PushStep ==
  ASSUME RoundInv, PushNext
  PROVE  RoundInv'
<1> USE DEF RoundInv, PushNext, Push
<1> DEFINE h == Head(pushes)
<1>1. /\ Tail(pushes) \in Seq(Id) /\ IsInjective(Tail(pushes)) /\ h \in Id /\ h \in Range(pushes)
      /\ \A x \in Range(Tail(pushes)) : x \in Range(pushes) /\ x # h
  BY TailDistinct, Zenon DEF TypeOK, QueueOk
<1>2. h \notin Range(taskQ)
  BY <1>1, Zenon DEF QueueOk
<1>3. /\ taskQ' \in Seq(Id) /\ IsInjective(taskQ') /\ Range(taskQ') = Range(taskQ) \cup {h}
  BY <1>1, <1>2, AppendDistinct DEF TypeOK, QueueOk
<1>4. /\ phase' \in [Worker -> Busy \cup {"loop", "asleep", "gone"}]
      /\ \A w \in Worker : phase[w] \in Busy \/ phase'[w] \in Busy => phase'[w] = phase[w]
  BY Zenon DEF Asleep, TypeOK, Busy
<1>5. TypeOK'
  BY <1>1, <1>3, <1>4 DEF TypeOK
<1>6. WorkersOk'
  BY <1>4 DEF TypeOK, WorkersOk, Busy
<1>7. OneWriter'
  BY <1>4 DEF TypeOK, OneWriter, Writes, Busy
<1>8. QueueOk'
  <2>1. Running' = Running
    BY Zenon DEF Running
  <2>2. QED
    BY <1>1, <1>3, <2>1, Zenon DEF QueueOk
<1>9. OthersFinished'
  BY Zenon DEF OthersFinished
<1>10. Open' = Open
  BY <1>4, OpenSame, Zenon DEF Busy
<1>11. LatchExact' /\ QuietBetween'
  BY <1>10, Zenon DEF LatchExact, QuietBetween
<1>12. QED
  BY <1>5, <1>6, <1>7, <1>8, <1>9, <1>11, Zenon

-----------------------------------------------------------------------------
(* FinishTask, from both sides *)

(* The latch counts one down when one open task is closed.                   *)
LEMMA OneClosed ==
  ASSUME TypeOK, LatchExact, NEW t \in round, t \in Open, Done(t), Open' = Open \ {t}
  PROVE  latch > 0 /\ latch' \in Nat /\ LatchExact'
<1>1. IsFiniteSet(Open) /\ Cardinality(Open) \in Nat
  BY OpenFinite, Zenon
<1>2. Cardinality(Open) # 0
  BY <1>1, FS_EmptySet, Zenon
<1>3. Cardinality(Open \ {t}) = Cardinality(Open) - 1
  BY <1>1, FS_RemoveElement, Zenon
<1>4. QED
  BY <1>1, <1>2, <1>3 DEF LatchExact, Done

(* A worker reaches FinishTask: it comes to write its result, or finds that  *)
(* the monitor was first.                                                    *)
LEMMA FinishStep ==
  ASSUME RoundInv, NEW w \in Worker, Finish(w)
  PROVE  RoundInv'
<1> USE DEF RoundInv, Finish, At, FinishTask, LoopSame
<1> DEFINE t == current[w]
<1>1. t \in Id /\ phase[w] = "finish"
  BY Zenon DEF TypeOK, WorkersOk, Busy
<1>2. /\ task' \in [Id -> Task] /\ task'[t].finished
      /\ \A u \in Id : u # t => task'[u] = task[u]
      /\ \A u \in Id : task[u].finished => task'[u].finished
  BY <1>1, SetFinished, Zenon DEF TypeOK
<1>3. CASE task[t].finished
  <2> USE <1>3 DEF Back
  <2>1. \A u \in Id : task'[u].finished = task[u].finished
    <3>1. \A u \in Id : task[u].finished \in BOOLEAN /\ task'[u].finished \in BOOLEAN
      BY <1>2, Zenon DEF TypeOK, Task
    <3>2. QED
      BY <1>2, <3>1, Zenon
  <2>2. TypeOK'
    BY <1>2, Zenon DEF TypeOK, Busy
  <2>3. WorkersOk'
    BY <1>1, <2>1 DEF TypeOK, WorkersOk, Busy
  <2>4. OneWriter'
    <3>1. \A v \in Worker : phase'[v] = "write" => Writes(v, current[v]) /\ current'[v] = current[v]
      BY DEF TypeOK, Writes
    <3>2. QED
      BY <3>1 DEF OneWriter, Writes
  <2>5. QueueOk'
    <3>1. \A u \in Running' : u \in Running \/ u = NONE
      BY DEF Running, TypeOK
    <3>2. \A u \in Range(taskQ) \cup Range(pushes) : u # NONE /\ u \in Id
      BY NamesAssumption DEF TypeOK, Range, Names
    <3>3. QED
      BY <3>1, <3>2, <2>1 DEF QueueOk
  <2>6. OthersFinished'
    BY <2>1, Zenon DEF OthersFinished
  <2>7. Open' = Open
    BY <1>1, <2>1, OpenSame, Zenon DEF TypeOK
  <2>8. LatchExact' /\ QuietBetween'
    BY <2>7 DEF LatchExact, QuietBetween
  <2>9. QED
    BY <2>2, <2>3, <2>4, <2>5, <2>6, <2>8
<1>4. CASE ~task[t].finished
  <2> USE <1>4 DEF Goes, PoolSame
  <2>1. t \in round /\ \A v \in Worker : ~Writes(v, t)
    BY <1>1, Zenon DEF OthersFinished, WorkersOk, Writes
  <2>2. TypeOK'
    BY <1>2, Zenon DEF TypeOK, Busy
  <2>3. WorkersOk'
    BY <1>1, <1>2, <2>1 DEF TypeOK, WorkersOk, Busy
  <2>4. OneWriter'
    <3>1. \A v \in Worker : current'[v] = current[v] /\ (phase'[v] = "write" /\ v # w
                                                      => Writes(v, current[v]) /\ current[v] # t)
      BY <2>1 DEF TypeOK, Writes
    <3>2. QED
      BY <3>1 DEF OneWriter, Writes
  <2>5. QueueOk'
    <3>1. Running' = Running /\ t \in Running
      BY Zenon DEF Running
    <3>2. \A u \in Range(taskQ) \cup Range(pushes) : u # t /\ u \in Id
      BY <3>1 DEF TypeOK, Range, QueueOk
    <3>3. QED
      BY <3>1, <3>2, <1>2 DEF QueueOk
  <2>6. OthersFinished'
    BY <1>2, Zenon DEF OthersFinished
  <2>7. Open' = Open
    <3>1. ASSUME NEW u \in round PROVE u \in Open' <=> u \in Open
      <4>1. CASE u = t
        <5>1. Writes(w, t)'
          BY <1>1, Zenon DEF Writes, TypeOK
        <5>2. QED
          BY <4>1, <5>1, <2>1, Zenon DEF Open, Writes
      <4>2. CASE u # t
        <5>1. task'[u] = task[u]
          BY <4>2, <1>2 DEF TypeOK
        <5>2. \A v \in Worker : Writes(v, u)' <=> Writes(v, u)
          BY <4>2, <1>1 DEF Writes, TypeOK
        <5>3. QED
          BY <5>1, <5>2, Zenon DEF Open
      <4>3. QED
        BY <4>1, <4>2, Zenon
    <3>2. QED
      BY <3>1, Zenon DEF Open
  <2>8. LatchExact' /\ QuietBetween'
    BY <2>7 DEF LatchExact, QuietBetween
  <2>9. QED
    BY <2>2, <2>3, <2>4, <2>5, <2>6, <2>8
<1>5. QED
  BY <1>3, <1>4, Zenon

(* The worker that was first writes the result and calls Done.               *)
LEMMA WriteStep ==
  ASSUME RoundInv, NEW w \in Worker, Write(w)
  PROVE  RoundInv' /\ current[w] \in round /\ latch > 0
<1> USE DEF RoundInv, Write, At, LoopSame, Back
<1> DEFINE t == current[w]
<1>1. t \in Id /\ t \in round /\ task[t].finished /\ found[w] \in Result
  BY Zenon DEF TypeOK, WorkersOk, Busy
<1>2. /\ task' \in [Id -> Task]
      /\ \A u \in Id : task'[u].finished = task[u].finished
  BY <1>1, SetResult, Zenon DEF TypeOK
<1>3. Nothing \in Result
  BY DEF Nothing, Result
<1>4. t \in Open /\ Writes(w, t)
  BY <1>1 DEF Open, Writes
<1>5. Open' = Open \ {t}
  <2>1. ASSUME NEW u \in round PROVE u \in Open' <=> u \in Open /\ u # t
    <3>1. \A v \in Worker : Writes(v, u)' <=> Writes(v, u) /\ v # w
      BY Zenon DEF Writes, TypeOK
    <3>2. CASE u = t
      <4>1. \A v \in Worker : Writes(v, t) => v = w
        BY <1>4, Zenon DEF OneWriter
      <4>2. QED
        BY <1>1, <1>2, <3>1, <3>2, <4>1, Zenon DEF Open
    <3>3. CASE u # t
      <4>1. \A v \in Worker : Writes(v, u) => v # w
        BY <3>3, Zenon DEF Writes
      <4>2. QED
        BY <1>2, <3>1, <3>3, <4>1, Zenon DEF Open, TypeOK
    <3>4. QED
      BY <3>2, <3>3
  <2>2. QED
    BY <2>1 DEF Open
<1>6. latch > 0 /\ latch' \in Nat /\ LatchExact'
  BY <1>1, <1>4, <1>5, OneClosed, Zenon
<1>7. TypeOK'
  BY <1>2, <1>3, <1>6, Zenon DEF TypeOK, Busy
<1>8. WorkersOk'
  BY <1>2 DEF TypeOK, WorkersOk, Busy
<1>9. OneWriter'
  BY Zenon DEF TypeOK, OneWriter, Writes
<1>10. QueueOk'
  <2>1. \A u \in Running' : u \in Running \/ u = NONE
    BY Zenon DEF Running, TypeOK
  <2>2. \A u \in Range(taskQ) \cup Range(pushes) : u # NONE /\ u \in Id
    BY NamesAssumption DEF TypeOK, Range, Names
  <2>3. QED
    BY <2>1, <2>2, <1>2, Zenon DEF QueueOk
<1>11. OthersFinished' /\ QuietBetween'
  BY <1>2, <1>6 DEF OthersFinished, QuietBetween
<1>12. QED
  BY <1>1, <1>6, <1>7, <1>8, <1>9, <1>10, <1>11, Zenon

(* The monitor finishes a late task in its worker's stead.                   *)
LEMMA TimeoutStep ==
  ASSUME RoundInv, OnTaskTimeout
  PROVE  RoundInv' /\ \A u \in Id : task'[u].result = task[u].result
<1> USE DEF RoundInv, OnTaskTimeout, FinishTask, LoopSame
<1> DEFINE t == monitor.task
<1>1. t \in Id /\ t \in Running
  BY DEF TypeOK, Running
<1>2. /\ task' \in [Id -> Task] /\ task'[t].finished
      /\ \A u \in Id : u # t => task'[u] = task[u]
      /\ \A u \in Id : task[u].finished => task'[u].finished
      /\ \A u \in Id : task'[u].result = task[u].result
  BY <1>1, SetFinished, Zenon DEF TypeOK
<1>3. /\ monitor' \in [at : {"sleep", "scan", "lock", "fire", "detach"},
                       worker : Worker \cup {NONE}, task : Id \cup {NONE}]
      /\ monitor'.at = "detach" /\ monitor'.task = t
  BY Zenon DEF TypeOK
<1>4. WorkersOk'
  BY <1>2 DEF TypeOK, WorkersOk, Busy
<1>5. OneWriter'
  BY DEF OneWriter, Writes
<1>6. QueueOk'
  <2>1. Running' = Running
    BY <1>3, Zenon DEF Running
  <2>2. \A u \in Range(taskQ) \cup Range(pushes) : u # t /\ u \in Id
    BY <1>1 DEF TypeOK, Range, QueueOk
  <2>3. QED
    BY <2>1, <2>2, <1>2, Zenon DEF QueueOk
<1>7. OthersFinished'
  BY <1>2, Zenon DEF OthersFinished
<1>8. latch' \in Nat /\ latch' <= latch /\ LatchExact'
  <2>1. CASE task[t].finished
    <3>1. \A u \in Id : task[u].finished \in BOOLEAN /\ task'[u].finished \in BOOLEAN
      BY <1>2, Zenon DEF TypeOK, Task
    <3>2. \A u \in round : task'[u].finished = task[u].finished
      BY <2>1, <1>2, <3>1, Zenon DEF TypeOK
    <3>3. Open' = Open
      BY <3>2, OpenSame, Zenon
    <3>4. QED
      BY <2>1, <3>3 DEF LatchExact, TypeOK
  <2>2. CASE ~task[t].finished
    <3>1. t \in round /\ \A v \in Worker : ~Writes(v, t)
      BY <2>2, <1>1 DEF OthersFinished, WorkersOk, Writes
    <3>2. t \in Open
      BY <2>2, <3>1, Zenon DEF Open
    <3>3. \A v \in Worker, u \in round : Writes(v, u)' <=> Writes(v, u)
      BY Zenon DEF Writes
    <3>4. \A u \in round : u \in Open' <=> u \in Open /\ u # t
      BY <1>2, <3>1, <3>3 DEF Open, TypeOK
    <3>5. Open' = Open \ {t}
      BY <3>4, Zenon DEF Open
    <3>6. latch > 0 /\ latch' \in Nat /\ LatchExact' /\ latch' = latch - 1
      BY <2>2, <3>1, <3>2, <3>5, OneClosed, Zenon DEF Done
    <3>7. QED
      BY <3>6 DEF TypeOK
  <2>3. QED
    BY <2>1, <2>2, Zenon
<1>9. TypeOK'
  BY <1>2, <1>3, <1>8, Zenon DEF TypeOK
<1>10. QuietBetween'
  BY <1>8 DEF QuietBetween, TypeOK
<1>11. QED
  BY <1>2, <1>4, <1>5, <1>6, <1>7, <1>8, <1>9, <1>10, Zenon

-----------------------------------------------------------------------------
(* A new round *)

(* Task objects that nobody uses are left for every shard: at most one per   *)
(* worker and one for the monitor are in use when the queue is empty.        *)
LEMMA EnoughIds ==
  ASSUME TypeOK, taskQ = <<>>, NEW S \in SUBSET Shard
  PROVE  /\ IsFiniteSet(S) /\ IsFiniteSet(Id \ InUse)
         /\ Cardinality(S) <= Cardinality(Id \ InUse)
<1> DEFINE C == {current[w] : w \in Worker}
<1>1. current \in Surjection(Worker, C)
  BY Zenon DEF TypeOK, Surjection
<1>2. IsFiniteSet(Worker) /\ IsFiniteSet(Shard) /\ IsFiniteSet(Id)
  BY NamesAssumption, Zenon DEF Names
<1>3. IsFiniteSet(C) /\ Cardinality(C) <= Cardinality(Worker)
  BY <1>1, <1>2, FS_Surjection, Zenon
<1>4. InUse = C \cup {monitor.task}
  BY DEF InUse, Range
<1>5. IsFiniteSet(InUse) /\ Cardinality(InUse) <= Cardinality(Worker) + 1
  <2> HIDE DEF C
  <2>1. Cardinality(C) \in Nat /\ Cardinality(Worker) \in Nat
    BY <1>2, <1>3, FS_CardinalityType, Zenon
  <2>2. /\ IsFiniteSet(C \cup {monitor.task})
        /\ Cardinality(C \cup {monitor.task}) \in {Cardinality(C), Cardinality(C) + 1}
    BY <1>3, FS_AddElement, Zenon
  <2>3. QED
    BY <1>3, <1>4, <2>1, <2>2
<1>6. Cardinality(Id \cap InUse) <= Cardinality(InUse)
  <2>1. Id \cap InUse \in SUBSET InUse
    BY Zenon
  <2>2. QED
    BY <1>5, <2>1, FS_Subset, Zenon
<1>7. /\ IsFiniteSet(Id \ InUse)
      /\ Cardinality(Id \ InUse) = Cardinality(Id) - Cardinality(Id \cap InUse)
  BY <1>2, FS_Difference, Zenon
<1>8. IsFiniteSet(S) /\ Cardinality(S) <= Cardinality(Shard)
  BY <1>2, FS_Subset
<1>9. IsFiniteSet(Id \cap InUse)
  BY <1>2, FS_Intersection, Zenon
<1>10. /\ Cardinality(Id) \in Nat /\ Cardinality(InUse) \in Nat /\ Cardinality(S) \in Nat
       /\ Cardinality(Shard) \in Nat /\ Cardinality(Worker) \in Nat
       /\ Cardinality(Id \cap InUse) \in Nat
  BY <1>2, <1>5, <1>8, <1>9, FS_CardinalityType
<1>11. Cardinality(Id) >= Cardinality(Shard) + Cardinality(Worker) + 1
  BY NamesAssumption DEF Names
<1>12. QED
  BY <1>5, <1>6, <1>7, <1>8, <1>10, <1>11

(* A sequence of n distinct elements has n elements.                         *)
LEMMA DistinctCounted ==
  ASSUME NEW n \in Nat, NEW S, NEW q \in [1 .. n -> S], IsInjective(q)
  PROVE  Cardinality(Range(q)) = n
<1>1. q \in Bijection(1 .. n, Range(q))
  BY Zenon DEF IsInjective, Range, Bijection, Injection, Surjection
<1>2. IsFiniteSet(1 .. n) /\ Cardinality(1 .. n) = n
  BY FS_Interval
<1>3. QED
  BY <1>1, <1>2, FS_Bijection, Zenon DEF ExistsBijection

(* RunShardTasks, called when nothing is waited for: the tasks are new, one  *)
(* for each shard, and the latch counts them.                                *)
LEMMA RoundStarts ==
  ASSUME RoundInv, pushes = <<>>, latch = 0,
         NEW type \in {"SAMPLE", "GC", "COLLECT", "DELETE"},
         NEW S \in SUBSET Shard, NEW victims \in [S -> SUBSET File], NEW next \in Waits,
         RunShardTasks(type, victims, next), Same
  PROVE  RoundInv' /\ \A t \in Id : task'[t].result \in {task[t].result, Nothing}
<1> DEFINE n == Cardinality(S)
           shards == CHOOSE f \in Injection(1 .. n, S) : TRUE
           new == CHOOSE f \in Injection(1 .. n, Id \ InUse) : TRUE
           Of(i) == [type |-> type, shard |-> shards[i], victims |-> victims[shards[i]],
                     finished |-> FALSE, result |-> Nothing]
<1>1. /\ \A t \in Id : task[t].finished
      /\ taskQ = <<>>
      /\ \A w \in Worker : phase[w] # "write"
  BY AllFinished, Zenon
<1>2. InUse = Running
  BY <1>1 DEF InUse, Running, Range
<1>3. IsFiniteSet(S) /\ IsFiniteSet(Id \ InUse) /\ n <= Cardinality(Id \ InUse)
  BY <1>1, EnoughIds, Zenon DEF RoundInv
<1>4. n \in Nat /\ n <= Cardinality(S)
  BY <1>3, FS_CardinalityType
<1>5. shards \in [1 .. n -> S]
  <2>1. Injection(1 .. n, S) # {}
    BY <1>3, <1>4, Listed, Zenon
  <2>2. QED
    BY <2>1, Zenon DEF Injection
<1>6. new \in [1 .. n -> Id \ InUse] /\ IsInjective(new)
  <2>1. Injection(1 .. n, Id \ InUse) # {}
    BY <1>3, <1>4, Listed, Zenon
  <2>2. QED
    BY <2>1, Zenon DEF Injection
<1>7. /\ round' = Range(new) /\ pushes' = new /\ latch' = n /\ gc' = next
      /\ task' = [t \in Id |-> IF t \in InUse THEN task[t]
                               ELSE IF t \in Range(new)
                                    THEN Of(CHOOSE i \in 1 .. n : new[i] = t)
                                    ELSE NoTask]
  <2>1. DOMAIN victims = S
    BY Zenon
  <2>2. QED
    BY <2>1 DEF RunShardTasks
<1> HIDE DEF new, shards, n
<1>8. new \in Seq(Id) /\ Range(new) \subseteq Id \ InUse
  BY <1>4, <1>6 DEF Range
<1>9. ASSUME NEW t \in Range(new)
      PROVE  /\ t \in Id \ InUse /\ task'[t] \in Task
             /\ ~task'[t].finished /\ task'[t].result = Nothing
  <2>1. t \in Id \ InUse /\ \E i \in 1 .. n : new[i] = t
    BY <1>6, <1>8, Zenon DEF Range
  <2>2. PICK i \in 1 .. n : task'[t] = Of(i)
    <3>1. task'[t] = Of(CHOOSE i \in 1 .. n : new[i] = t)
      BY <1>7, <2>1, Zenon
    <3>2. (CHOOSE i \in 1 .. n : new[i] = t) \in 1 .. n
      BY <2>1, Zenon
    <3>3. QED
      BY <3>1, <3>2, Zenon
  <2>3. shards[i] \in S
    BY <1>5, Zenon
  <2>4. Nothing \in Result
    BY Zenon DEF Nothing, Result
  <2>5. QED
    BY <2>1, <2>2, <2>3, <2>4 DEF Task
<1>10. ASSUME NEW t \in Id, t \notin Range(new)
       PROVE  /\ task'[t] \in Task /\ task'[t].finished
              /\ task'[t].result \in {task[t].result, Nothing}
  <2>1. CASE t \in InUse
    <3>1. task'[t] = task[t]
      BY <1>7, <2>1, Zenon
    <3>2. QED
      BY <3>1, <1>1, Zenon DEF RoundInv, TypeOK
  <2>2. CASE t \notin InUse
    <3>1. task'[t] = NoTask
      BY <1>7, <1>10, <2>2, Zenon
    <3>2. QED
      BY <3>1 DEF NoTask, Task, Result, Nothing
  <2>3. QED
    BY <2>1, <2>2, Zenon
<1>11. \A t \in InUse \cap Id : task'[t] = task[t]
  BY <1>7, Zenon
<1>12. task' \in [Id -> Task]
  <2>1. \A t \in Id : task'[t] \in Task
    BY <1>9, <1>10, Zenon
  <2>2. task' = [t \in Id |-> task'[t]]
    BY <1>7, Zenon
  <2>3. QED
    BY <2>1, <2>2, Zenon
<1> USE DEF Same, poolVars
<1>13. TypeOK'
  <2>1. round' \in SUBSET Id /\ pushes' \in Seq(Id) /\ latch' \in Nat /\ gc' \in Waits
    BY <1>4, <1>7, <1>8, Zenon
  <2>2. QED
    BY <1>12, <2>1, Zenon DEF RoundInv, TypeOK
<1>14. WorkersOk'
  <2>1. \A w \in Worker : current[w] # NONE => current[w] \in InUse \cap Id
    BY Zenon DEF RoundInv, TypeOK, InUse
  <2>2. \A w \in Worker : current[w] # NONE => task'[current[w]] = task[current[w]]
    BY <2>1, <1>11, Zenon
  <2>3. QED
    BY <1>1, <2>2, Zenon DEF RoundInv, WorkersOk, Busy
<1>15. OneWriter'
  BY <1>1, Zenon DEF OneWriter, Writes
<1>16. QueueOk'
  <2>1. Range(taskQ) = {} /\ IsInjective(taskQ) /\ Running' = Running
    BY <1>1 DEF Range, IsInjective, Running
  <2>2. QED
    BY <1>2, <1>6, <1>7, <1>9, <2>1, Zenon DEF QueueOk
<1>17. OthersFinished'
  BY <1>7, <1>10, Zenon DEF OthersFinished
<1>18. LatchExact'
  <2>1. Open' = Range(new)
    BY <1>7, <1>9, Zenon DEF Open
  <2>2. Cardinality(Range(new)) = n
    BY <1>4, <1>6, DistinctCounted, Zenon
  <2>3. QED
    BY <1>7, <1>8, <2>1, <2>2, Zenon DEF LatchExact
<1>19. QuietBetween'
  BY <1>7 DEF QuietBetween, Waits, Between
<1>20. \A t \in Id : task'[t].result \in {task[t].result, Nothing}
  BY <1>9, <1>10, Zenon
<1>21. QED
  BY <1>13, <1>14, <1>15, <1>16, <1>17, <1>18, <1>19, <1>20, Zenon DEF RoundInv

-----------------------------------------------------------------------------
(* The steps of Next *)

(* What ResultsFinal says of one step.                                       *)
WritesInRound ==
  \A t \in Id : task'[t].result # task[t].result /\ task'[t].result # Nothing
                  => t \in round /\ latch > 0

(* A worker's steps in ProcessTask keep the invariant, and only the write of *)
(* a worker that finished its task itself changes a result.                  *)
LEMMA WorkerSteps ==
  ASSUME RoundInv, NEW w \in Worker, WorkerStep(w)
  PROVE  RoundInv' /\ WritesInRound
<1>1. Nothing \in Result /\ strays[w] \in {0, 1}
  BY DEF Nothing, Result, RoundInv, TypeOK, WorkersOk
<1>2. CASE NoBackend(w)
  <2>1. TasksSame /\ UNCHANGED <<taskQ, current, monitor>>
    BY <1>2, Zenon DEF NoBackend, LoopSame, TasksSame
  <2>2. /\ phase[w] = "run" /\ phase' = [phase EXCEPT ![w] = "finish"]
        /\ files' \in SUBSET File /\ found' \in [Worker -> Result]
        /\ strays' = [strays EXCEPT ![w] = 0]
    BY <1>1, <1>2, Zenon DEF NoBackend, At, RoundInv, TypeOK
  <2>3. RoundInv'
    BY <2>1, <2>2, WorkerMoves, Zenon
  <2>4. QED
    BY <2>1, <2>3, Zenon DEF TasksSame, WritesInRound
<1>3. CASE Scan(w)
  <2>1. TasksSame /\ UNCHANGED <<taskQ, current, monitor>> /\ files' = files
    BY <1>3 DEF Scan, Goes, PoolSame, LoopSame, TasksSame
  <2>2. PICK place \in {"remove", "finish"} : phase' = [phase EXCEPT ![w] = place]
    BY <1>3, Zenon DEF Scan, Goes
  <2>3. phase[w] = "run" /\ strays' = [strays EXCEPT ![w] = 0]
    BY <1>3, Zenon DEF Scan, At
  <2>4. found' \in [Worker -> Result]
    <3> DEFINE t == task[current[w]]
               candidates == IF t.type = "COLLECT" THEN GetColdestCandidates(t.shard) ELSE {}
    <3>1. InShard(t.shard) \in SUBSET File
      BY Zenon DEF InShard, RoundInv, TypeOK
    <3>2. candidates \in SUBSET File
      BY <3>1, Zenon DEF GetColdestCandidates, Coldest
    <3>3. Cardinality(InShard(t.shard)) \in Nat
      BY <3>1, NamesAssumption, FS_Subset, FS_CardinalityType, Zenon DEF Names
    <3>4. PICK b \in BOOLEAN : found' = [found EXCEPT ![w] =
             [scanned |-> TRUE,
              files |-> IF t.type = "SAMPLE" THEN Cardinality(InShard(t.shard)) ELSE 0,
              limited |-> b, candidates |-> candidates]]
      BY <1>3, Zenon DEF Scan
    <3> HIDE DEF t, candidates
    <3>5. [scanned |-> TRUE,
           files |-> IF t.type = "SAMPLE" THEN Cardinality(InShard(t.shard)) ELSE 0,
           limited |-> b, candidates |-> candidates] \in Result
      BY <3>2, <3>3, Zenon DEF Result
    <3>6. QED
      BY <3>4, <3>5, Zenon DEF RoundInv, TypeOK
  <2>5. RoundInv'
    BY <2>1, <2>2, <2>3, <2>4, WorkerMoves, Zenon DEF RoundInv, TypeOK
  <2>6. QED
    BY <2>1, <2>5 DEF TasksSame, WritesInRound
<1>4. CASE RemoveFiles(w)
  <2>1. /\ TasksSame /\ UNCHANGED <<taskQ, current, monitor>>
        /\ files' \in SUBSET File /\ found' \in [Worker -> Result]
    BY <1>4 DEF RemoveFiles, Goes, PoolSame, LoopSame, TasksSame, RoundInv, TypeOK
  <2>2. PICK place \in {"unlink", "finish"} :
           /\ phase' = [phase EXCEPT ![w] = place]
           /\ place = "unlink" => ~task[current[w]].finished
    BY <1>4, Zenon DEF RemoveFiles, Goes
  <2>3. phase[w] = "remove" /\ strays' = [strays EXCEPT ![w] = strays[w]]
    BY <1>4, Zenon DEF RemoveFiles, At, RoundInv, TypeOK
  <2>4. place = "unlink" => strays[w] = 0
    BY <2>2, <2>3, Zenon DEF RoundInv, WorkersOk
  <2>5. RoundInv'
    BY <1>1, <2>1, <2>2, <2>3, <2>4, WorkerMoves, Zenon
  <2>6. QED
    BY <2>1, <2>5 DEF TasksSame, WritesInRound
<1>5. CASE RemoveFile(w)
  <2>1. /\ TasksSame /\ UNCHANGED <<taskQ, current, monitor>>
        /\ files' \in SUBSET File /\ found' \in [Worker -> Result]
        /\ phase[w] = "unlink" /\ phase' = [phase EXCEPT ![w] = "remove"]
    BY <1>5, Zenon DEF RemoveFile, At, Goes, PoolSame, LoopSame, TasksSame, RoundInv, TypeOK
  <2>2. strays[w] = 0
    BY <2>1, Zenon DEF RoundInv, WorkersOk
  <2>3. PICK n \in {0, 1} : /\ strays' = [strays EXCEPT ![w] = n]
                            /\ n # 0 => task[current[w]].finished
    <3>1. strays' = [strays EXCEPT ![w] = 0 + IF task[current[w]].finished THEN 1 ELSE 0]
      BY <1>5, <2>2, Zenon DEF RemoveFile
    <3>2. task[current[w]].finished => strays' = [strays EXCEPT ![w] = 1]
      BY <3>1
    <3>3. ~task[current[w]].finished => strays' = [strays EXCEPT ![w] = 0]
      BY <3>1
    <3>4. QED
      BY <3>2, <3>3, Zenon
  <2>4. RoundInv'
    BY <2>1, <2>3, WorkerMoves, Zenon
  <2>5. QED
    BY <2>1, <2>4 DEF TasksSame, WritesInRound
<1>6. CASE Finish(w)
  <2>1. current[w] \in Id /\ task' = [task EXCEPT ![current[w]].finished = TRUE]
    BY <1>6, Zenon DEF Finish, FinishTask, At, RoundInv, TypeOK, WorkersOk, Busy
  <2>2. \A u \in Id : task'[u].result = task[u].result
    BY <2>1, SetFinished, Zenon DEF RoundInv, TypeOK
  <2>3. QED
    BY <1>6, <2>2, FinishStep DEF WritesInRound
<1>7. CASE Write(w)
  <2>1. RoundInv' /\ current[w] \in round /\ latch > 0
    BY <1>7, WriteStep, Zenon
  <2>2. \A u \in Id : u # current[w] => task'[u] = task[u]
    <3>1. current[w] \in Id /\ found[w] \in Result
      BY <2>1, Zenon DEF RoundInv, TypeOK
    <3>2. QED
      BY <1>7, <3>1, SetResult, Zenon DEF Write, RoundInv, TypeOK
  <2>3. QED
    BY <2>1, <2>2, Zenon DEF WritesInRound
<1>8. QED
  BY <1>2, <1>3, <1>4, <1>5, <1>6, <1>7, Zenon DEF WorkerStep

(* The pool's and the monitor's own steps.                                   *)
LEMMA PoolSteps ==
  ASSUME RoundInv,
         \/ \E w \in Worker : PoolStep(w) \/ MonitorLate(w)
         \/ MonitorStep
  PROVE  RoundInv' /\ WritesInRound
<1> USE DEF Ready, Spare, GcSame, gcVars
<1> DEFINE Mine == [at : {"sleep", "scan", "lock", "fire", "detach"},
                    worker : Worker \cup {NONE}, task : Id \cup {NONE}]
           Threads == Busy \cup {"loop", "asleep", "gone"}
<1>1. phase \in [Worker -> Threads] /\ monitor \in Mine /\ monitor.task \in Running
  BY Zenon DEF RoundInv, TypeOK, Running
<1>2. /\ monitor.at = "lock" => monitor.worker \in Worker
      /\ monitor.at = "fire" => monitor.task \in Id
  BY Zenon DEF RoundInv, TypeOK
<1>3. ASSUME NEW w \in Worker, PoolStep(w) PROVE RoundInv' /\ WritesInRound
  <2>1. CASE Take(w) /\ GcSame
    BY <2>1, TakeStep, Zenon DEF WritesInRound
  <2>2. CASE (Leave(w) \/ Sleep(w)) /\ GcSame
    <3>1. TasksSame /\ UNCHANGED <<taskQ, current, files, found, strays, monitor>>
      BY <2>2, Zenon DEF Leave, Sleep, TasksSame
    <3>2. /\ phase' \in [Worker -> Threads]
          /\ \A v \in Worker : phase[v] \in Busy \/ phase'[v] \in Busy => phase'[v] = phase[v]
      BY <1>1, <2>2, Zenon DEF Leave, Sleep, Busy
    <3>3. RoundInv'
      BY <1>1, <1>2, <3>1, <3>2, ThreadMoves, Zenon
    <3>4. QED
      BY <3>1, <3>3, Zenon DEF TasksSame, WritesInRound
  <2>3. QED
    BY <1>3, <2>1, <2>2, Zenon DEF PoolStep
<1>4. ASSUME NEW w \in Worker, AddOneWorker(w), GcSame PROVE RoundInv' /\ WritesInRound
  <2>1. TasksSame /\ UNCHANGED <<taskQ, current, files, found, strays, monitor>>
    BY <1>4, Zenon DEF AddOneWorker, TasksSame
  <2>2. /\ phase' \in [Worker -> Threads]
        /\ \A v \in Worker : phase[v] \in Busy \/ phase'[v] \in Busy => phase'[v] = phase[v]
    BY <1>1, <1>4, Zenon DEF AddOneWorker, Busy
  <2>3. RoundInv'
    BY <1>1, <1>2, <2>1, <2>2, ThreadMoves
  <2>4. QED
    BY <2>1, <2>3 DEF TasksSame, WritesInRound
<1>5. ASSUME GcSame, \/ \E w \in Worker : MonitorRead(w)
                     \/ MonitorLock \/ MonitorDetach \/ MonitorSleep
      PROVE  RoundInv' /\ WritesInRound
  <2>1. TasksSame /\ UNCHANGED <<taskQ, current, files, found, strays, phase>>
    BY <1>5, Zenon DEF MonitorRead, MonitorLock, MonitorDetach, MonitorSleep, TasksSame
  <2>2. /\ monitor' \in Mine
        /\ monitor'.at = "lock" => monitor'.worker \in Worker
        /\ monitor'.at = "fire" => monitor'.task \in Id
        /\ monitor'.task \in Running \cup {NONE}
    <3>1. CASE MonitorLock
      <4>1. monitor.worker \in Worker
        BY <1>2, <3>1, Zenon DEF MonitorLock
      <4>2. CASE current[monitor.worker] = NONE
        BY <3>1, <4>2, Zenon DEF MonitorLock, Idle
      <4>3. CASE current[monitor.worker] # NONE
        <5>1. current[monitor.worker] \in Id /\ current[monitor.worker] \in Running
          BY <4>1, <4>3 DEF RoundInv, TypeOK, Running
        <5>2. QED
          BY <1>1, <3>1, <4>3, <5>1, Zenon DEF MonitorLock
      <4>4. QED
        BY <4>2, <4>3, Zenon
    <3>2. CASE \E w \in Worker : MonitorRead(w)
      BY <3>2 DEF MonitorRead
    <3>3. CASE MonitorDetach \/ MonitorSleep
      BY <3>3 DEF MonitorDetach, MonitorSleep, Idle
    <3>4. QED
      BY <1>5, <3>1, <3>2, <3>3, Zenon
  <2>3. RoundInv'
    BY <1>1, <2>1, <2>2, ThreadMoves, Zenon
  <2>4. QED
    BY <2>1, <2>3, Zenon DEF TasksSame, WritesInRound
<1>6. CASE OnTaskTimeout
  BY <1>6, TimeoutStep, Zenon DEF WritesInRound
<1>7. QED
  BY <1>3, <1>4, <1>5, <1>6, Zenon DEF MonitorLate, MonitorStep

(* The check loop goes on without a new round.                               *)
LEMMA LoopMoves ==
  ASSUME RoundInv, Same, UNCHANGED <<pushes, latch, task>>, gc' \in Waits \cup Between,
         round' = round \/ (round' = {} /\ pushes = <<>> /\ latch = 0),
         gc' \in Between => pushes = <<>> /\ latch = 0
  PROVE  RoundInv' /\ WritesInRound
<1> USE DEF RoundInv, Same, poolVars
<1>1. TypeOK'
  BY Zenon DEF TypeOK
<1>2. QueueOk' /\ OneWriter' /\ QuietBetween'
  BY Zenon DEF QueueOk, Running, OneWriter, Writes, QuietBetween
<1>3. WorkersOk' /\ OthersFinished' /\ LatchExact'
  <2>1. CASE round' = round
    <3>1. Open' = Open
      BY <2>1, OpenSame, Zenon
    <3>2. QED
      BY <2>1, <3>1, Zenon DEF WorkersOk, OthersFinished, LatchExact
  <2>2. CASE round' = {} /\ pushes = <<>> /\ latch = 0
    <3>1. (\A t \in Id : task[t].finished) /\ \A w \in Worker : phase[w] # "write"
      BY <2>2, AllFinished, Zenon
    <3>2. Open' = {}
      BY <2>2, Zenon DEF Open
    <3>3. QED
      BY <2>2, <3>1, <3>2, FS_EmptySet, Zenon DEF WorkersOk, OthersFinished, LatchExact, Busy
  <2>3. QED
    BY <2>1, <2>2, Zenon
<1>4. QED
  BY <1>1, <1>2, <1>3, Zenon DEF WritesInRound

(* A sampling round starts.                                                  *)
LEMMA SampleStarts ==
  ASSUME RoundInv, pushes = <<>>, latch = 0, ShouldTrigger, Same
  PROVE  RoundInv' /\ WritesInRound
<1>1. PICK S \in kSubset(SampleCount, Shard) : RunShardTasks("SAMPLE", NoVictims(S), "sampling")
  BY Zenon DEF ShouldTrigger
<1>2. S \in SUBSET Shard /\ NoVictims(S) \in [S -> SUBSET File]
  BY Zenon DEF kSubset, NoVictims
<1>3. QED
  BY <1>1, <1>2, RoundStarts, Zenon DEF WritesInRound, Waits

(* Execute returned: the loop tests its condition, or samples again.         *)
LEMMA AfterStep ==
  ASSUME RoundInv, NEW b, pushes = <<>>, latch = 0, After(b), Same
  PROVE  RoundInv' /\ WritesInRound
<1>1. CASE b
  BY <1>1, LoopMoves, Zenon DEF After, Between
<1>2. CASE ~b
  BY <1>2, SampleStarts, Zenon DEF After
<1>3. QED
  BY <1>1, <1>2, Zenon

(* The check loop's steps.                                                   *)
LEMMA LoopSteps ==
  ASSUME RoundInv, LoopStep
  PROVE  RoundInv' /\ WritesInRound
<1>1. gc \in Between => pushes = <<>> /\ latch = 0
  BY DEF RoundInv, QuietBetween
<1>2. NoVictims(Shard) \in [Shard -> SUBSET File]
  BY Zenon DEF NoVictims
<1>3. CASE PushNext
  BY <1>3, PushStep, Zenon DEF PushNext, WritesInRound
<1>4. CASE StartCycle
  BY <1>1, <1>4, SampleStarts, Zenon DEF StartCycle, Between
<1>5. CASE Sampled
  BY <1>5, LoopMoves, Zenon DEF Sampled, Waited, Between
<1>6. CASE RoundTest
  <2>1. gc = "test" /\ gc' \in {"execute", "release"}
    BY <1>6, Zenon DEF RoundTest
  <2>2. QED
    BY <1>1, <1>6, <2>1, LoopMoves, Zenon DEF RoundTest, Between
<1>7. CASE Execute
  <2>1. \/ RunShardTasks("COLLECT", NoVictims(Shard), "collecting")
        \/ RunShardTasks("GC", NoVictims(Shard), "recycling")
    BY <1>7, Zenon DEF Execute
  <2>2. pushes = <<>> /\ latch = 0 /\ Same
    BY <1>1, <1>7, Zenon DEF Execute, Between
  <2>3. QED
    BY <1>2, <2>1, <2>2, RoundStarts, Zenon DEF Waits, WritesInRound
<1>8. CASE Recycled
  BY <1>8, AfterStep, Zenon DEF Recycled, Waited
<1>9. CASE Collected
  <2> DEFINE candidates == UNION {r.result.candidates : r \in Results}
             count == (Cardinality(candidates) * RecyclePercent)
                        \div (RecyclePercent + ExtraPercent)
             victims == Coldest(candidates, count)
             S == {ShardOf[f] : f \in victims}
             V == [s \in S |-> {f \in victims : ShardOf[f] = s}]
  <2>1. candidates \subseteq File
    <3>1. \A t \in round : task[t].result.candidates \in SUBSET File
      BY Zenon DEF RoundInv, TypeOK, Task, Result
    <3>2. QED
      BY <3>1 DEF Results
  <2>2. victims \subseteq File
    <3> HIDE DEF candidates, count
    <3>1. QED
      BY <2>1, Zenon DEF Coldest
  <2>3. /\ pushes = <<>> /\ latch = 0 /\ Same
        /\ IF victims = {} THEN After(FALSE) ELSE RunShardTasks("DELETE", V, "deleting")
    BY <1>9, Zenon DEF Collected, Waited
  <2> HIDE DEF victims
  <2>4. S \in SUBSET Shard /\ V \in [S -> SUBSET File]
    BY <2>2, NamesAssumption DEF Names
  <2> HIDE DEF S, V
  <2>5. CASE victims = {}
    BY <2>3, <2>5, AfterStep, Zenon
  <2>6. CASE victims # {}
    BY <2>3, <2>4, <2>6, RoundStarts, Zenon DEF Waits, WritesInRound
  <2>7. QED
    BY <2>5, <2>6
<1>10. CASE Deleted
  BY <1>10, AfterStep DEF Deleted, Waited
<1>11. CASE EndCycle
  BY <1>1, <1>11, LoopMoves, Zenon DEF EndCycle, Between
<1>12. CASE LoopEnds
  BY <1>1, <1>12, LoopMoves, Zenon DEF LoopEnds, Between
<1>13. QED
  BY <1>3, <1>4, <1>5, <1>6, <1>7, <1>8, <1>9, <1>10, <1>11, <1>12, Zenon DEF LoopStep

(* The invariant holds at first: nothing runs and nothing is waited for.     *)
LEMMA RoundInvInit ==
  ASSUME Init
  PROVE  RoundInv
<1> USE DEF Init, PoolInit
<1>1. Nothing \in Result
  BY Zenon DEF Nothing, Result
<1>2. NoTask \in Task /\ NoTask.finished
  BY <1>1, Zenon DEF NoTask, Task
<1>3. TypeOK
  BY <1>1, <1>2, NamesAssumption DEF TypeOK, Names, Idle, Waits, Between
<1>4. WorkersOk /\ OneWriter
  BY DEF WorkersOk, OneWriter, Writes, Busy
<1>5. QueueOk
  BY DEF QueueOk, IsInjective, Range
<1>6. OthersFinished
  BY <1>2, Zenon DEF OthersFinished
<1>7. Open = {}
  BY Zenon DEF Open
<1>8. LatchExact /\ QuietBetween
  BY <1>7, FS_EmptySet, Zenon DEF LatchExact, QuietBetween
<1>9. QED
  BY <1>3, <1>4, <1>5, <1>6, <1>8, Zenon DEF RoundInv

(* Every step keeps the invariant, and writes results only in their round.   *)
LEMMA RoundInvStep ==
  ASSUME RoundInv, [Next]_vars
  PROVE  RoundInv' /\ WritesInRound
<1>1. CASE UNCHANGED vars
  <2> USE <1>1 DEF vars, poolVars, gcVars
  <2>1. TypeOK' /\ WorkersOk' /\ OneWriter' /\ QueueOk' /\ OthersFinished' /\ QuietBetween'
    BY DEF RoundInv, TypeOK, WorkersOk, OneWriter, Writes, QueueOk, Running, OthersFinished,
           QuietBetween
  <2>2. LatchExact'
    BY OpenSame, Zenon DEF RoundInv, LatchExact
  <2>3. QED
    BY <2>1, <2>2, Zenon DEF RoundInv, WritesInRound
<1>2. CASE StopBackgroundCheck \/ LoseLock
  <2> USE <1>2 DEF StopBackgroundCheck, LoseLock
  <2>1. TypeOK' /\ WorkersOk' /\ OneWriter' /\ QueueOk' /\ OthersFinished' /\ QuietBetween'
    BY DEF RoundInv, TypeOK, WorkersOk, OneWriter, Writes, QueueOk, Running, OthersFinished,
           QuietBetween
  <2>2. LatchExact'
    BY OpenSame, Zenon DEF RoundInv, LatchExact
  <2>3. QED
    BY <2>1, <2>2, Zenon DEF RoundInv, WritesInRound
<1>3. QED
  BY <1>1, <1>2, WorkerSteps, PoolSteps, LoopSteps, Zenon DEF Next

-----------------------------------------------------------------------------
(* The theorems *)

(* The collector's bookkeeping is exact: the latch of RunShardTasks counts   *)
(* the tasks that Done has not been called for, every task waits in one      *)
(* place, and no two workers write the same result, however the workers of   *)
(* the pool, its monitor and the check loop interleave.                      *)
THEOREM RoundInvariance == Spec => []RoundInv
<1>1. Init => RoundInv
  BY RoundInvInit
<1>2. RoundInv /\ [Next]_vars => RoundInv'
  BY RoundInvStep, Zenon
<1>3. QED
  BY <1>1, <1>2, PTL DEF Spec

(* RunShardTasks returns from Wait only when every task of its round is      *)
(* finished, by its worker or by OnTaskTimeout.                              *)
THEOREM RoundsAreSettled == Spec => []RoundSettled
<1>1. RoundInv => RoundSettled
  BY AllFinished, Zenon DEF RoundSettled, RoundInv, TypeOK
<1>2. QED
  BY <1>1, RoundInvariance, PTL

(* A worker whose task OnTaskTimeout has finished removes at most the one    *)
(* file it is removing.                                                      *)
THEOREM GivenUpTasksStop == Spec => []GivenUpStops
<1>1. RoundInv => GivenUpStops
  BY Zenon DEF RoundInv, WorkersOk, GivenUpStops
<1>2. QED
  BY <1>1, RoundInvariance, PTL

(* FinishTask writes a result only while its own round is waited for: a late *)
(* worker never changes what Execute and ShouldTrigger read.                 *)
THEOREM ResultsAreFinal == Spec => ResultsFinal
<1>1. RoundInv /\ [Next]_vars => WritesInRound
  BY RoundInvStep
<1>2. QED
  BY <1>1, RoundInvariance, PTL DEF Spec, ResultsFinal, WritesInRound
=============================================================================
