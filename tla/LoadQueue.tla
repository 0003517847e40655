----------------------------- MODULE LoadQueue -----------------------------
(***************************************************************************)
(* The load pipeline of Cache2 (ucm/store/cache/v2, load_queue.h, with     *)
(* TaskWrapper and Latch above it): the caller's Submit and Wait, the      *)
(* dispatcher thread that gets buffer slots and starts backend loads, and  *)
(* the transfer thread that waits for each slot, copies it to the device   *)
(* and completes the task.  Every rank has its own two threads and rings;  *)
(* the buffer is shared and is SlotStore.                                  *)
(*                                                                         *)
(* The backend store and the device are external: a backend load writes a  *)
(* slot some time after it was submitted, a copy reads a slot some time    *)
(* after it was started, whether or not anybody still waits for it.        *)
(***************************************************************************)
EXTENDS Integers, FiniteSets, SequencesExt

CONSTANTS
    Rank,           \* 0 .. localRankSize - 1
    Task,           \* load tasks, each called once
    RankOf,         \* the rank a task is submitted to
    Workload,       \* what the callers may ask for: the keys of a task's shards
                    \* (shards), the tasks with distributeBackendLoad (distributed)
                    \* and the key of the next shard of a block, or NONE (next)
    Key,
    Slot,
    Segment,        \* the slots of a rank
    WaitingDepth, RunningDepth,     \* of the rings, which keep one place free
    Faults,         \* external calls that may fail, and for which task: "submit"
                    \* (backend_->Load), "load" (backend_->Wait), "copy"
                    \* (WaitEvent and the scatter), "sync" (Synchronize)
    Expiring,       \* the tasks whose time may run out; none with timeoutMs 0
    Closing,        \* the ranks whose queue may be closed
    NONE

Handle == UNION {{t} \X (1 .. Len(w.shards[t])) : t \in Task, w \in Workload}
MayFail(call, h) == <<call, h[1]>> \in Faults
RankCount == Cardinality(Rank)

VARIABLES
    work,           \* the workload
    key, state, slot, owner,    \* the buffer
    bytes,          \* the key whose bytes are in a slot's memory
    load,           \* the backend load of a handle: none, busy, done or failed
    target,         \* the slot it writes
    dst,            \* the key whose bytes reached the caller's memory
    latch, failureSet, caller,  \* the tasks
    waiting, running,           \* the rings of a rank
    disp,           \* dispatcher: its task, the position in Order, the step
    xfer,           \* transfer thread: its shard and the step
    holder,         \* holder_
    stream,         \* copies in flight: the handle and the slot it reads
    close           \* how far Close is

Shards == work.shards
Distributed == work.distributed
NextShard == work.next
KeyOf(h) == Shards[h[1]][h[2]]

\* The indexes of n shards, the slice of rank iProc first.
RearrangeIndex(n, iProc, nProc) ==
    LET Slice(s) == [j \in 1 .. ((n - s + nProc - 1) \div nProc) |-> s + (j - 1) * nProc + 1]
    IN  FlattenSeq([r \in 1 .. nProc |-> Slice((iProc + r - 1) % nProc)])

Order(t) ==
    IF t \in Distributed
    THEN RearrangeIndex(Len(Shards[t]), RankOf[t], RankCount)
    ELSE [i \in 1 .. Len(Shards[t]) |-> i]
LastShard(t) == <<t, Last(Order(t))>>

\* Variation of MayOwn: the position in Order instead of the index.
MayOwnByPosition(h) ==
    h[1] \in Distributed =>
        \E i \in 1 .. Len(Shards[h[1]]) :
            Order(h[1])[i] = h[2] /\ (i - 1) % RankCount = RankOf[h[1]]

\* A distributed load leaves a shard to the rank preferred by its index.
MayOwn(h) == h[1] \in Distributed => (h[2] - 1) % RankCount = RankOf[h[1]]

buffer == <<key, state, slot, owner>>
tasks == <<latch, failureSet, caller>>
external == <<bytes, load, target, dst>>
vars == <<work, buffer, external, tasks, waiting, running, disp, xfer, holder, stream, close>>

Buffer == INSTANCE SlotStore
    WITH Usable <- [h \in Handle |-> Segment[RankOf[h[1]]]], want <- NONE, dead <- {},
         broken <- FALSE

Tasks == INSTANCE TaskWrapper

Idle == [at |-> "idle"]

Init ==
    /\ work \in Workload
    /\ Buffer!BufferInit
    /\ bytes = [s \in Slot |-> NONE]
    /\ load = [h \in Handle |-> "none"]
    /\ target = [h \in Handle |-> NONE]
    /\ dst = [h \in Handle |-> NONE]
    /\ Tasks!Init
    /\ waiting = [r \in Rank |-> <<>>]
    /\ running = [r \in Rank |-> <<>>]
    /\ disp = [r \in Rank |-> Idle]
    /\ xfer = [r \in Rank |-> Idle]
    /\ holder = [r \in Rank |-> {}]
    /\ stream = [r \in Rank |-> {}]
    /\ close = [r \in Rank |-> "open"]

Stop(r) == close[r] # "open"

----------------------------------------------------------------------------
(* The caller                                                              *)

Submit(t) ==
    LET r == RankOf[t]
        room == Len(waiting[r]) < WaitingDepth - 1
    IN
    /\ ~Stop(r)
    /\ Tasks!Submit(t, room)
    /\ waiting' = IF room THEN [waiting EXCEPT ![r] = Append(@, t)] ELSE waiting
    /\ UNCHANGED <<buffer, external, running, disp, xfer, holder, stream, close, work>>

Wait(t) ==
    /\ Tasks!Wait(t)
    /\ UNCHANGED <<buffer, external, waiting, running, disp, xfer, holder, stream, close, work>>

----------------------------------------------------------------------------
(* The dispatcher                                                          *)

Current(r) == <<disp[r].task, Order(disp[r].task)[disp[r].pos]>>
AtLast(r) == disp[r].pos = Len(Shards[disp[r].task])
At(r, step) == disp[r].at = step
DispGoto(r, step) == disp' = [disp EXCEPT ![r].at = step]

DispatchOneTask(r) ==
    LET t == Head(waiting[r]) IN
    /\ At(r, "idle") /\ waiting[r] # <<>> /\ ~Stop(r)
    /\ waiting' = [waiting EXCEPT ![r] = Tail(@)]
    /\ IF t \in failureSet
       THEN Tasks!Done({t}, {}) /\ UNCHANGED disp
       ELSE /\ disp' = [disp EXCEPT ![r] = [at |-> "get", task |-> t, pos |-> 1]]
            /\ UNCHANGED tasks
    /\ UNCHANGED <<buffer, external, running, xfer, holder, stream, close, work>>

\* Get returns a handle on a cached key, or allocates a slot of the rank.  A
\* rank that may not own the key takes only a slot that is filled, failed or
\* in use.  A pin that is about to be undone can make Get a non-owner of a
\* slot nobody fills (see WaiterHasOwner of CacheBuffer).
GetShard(r) ==
    LET h == Current(r)
        k == KeyOf(h)
    IN
    /\ At(r, "get")
    /\ \/ /\ \E s \in Slot : key[s] = k /\ (state[s] # "Loading" \/ Buffer!Holders(s) # {})
          /\ Buffer!Attach(h, k, FALSE)
       \/ MayOwn(h) /\ \E own \in BOOLEAN : Buffer!Attach(h, k, own)
       \/ MayOwn(h) /\ Buffer!Install(h, k)
    /\ DispGoto(r, IF owner'[h] THEN "submit" ELSE "push")
    /\ UNCHANGED <<external, tasks, waiting, running, xfer, holder, stream, close, work>>

SubmitBackendLoad(r) ==
    LET h == Current(r) IN
    /\ At(r, "submit")
    /\ \/ /\ load' = [load EXCEPT ![h] = "busy"]
          /\ target' = [target EXCEPT ![h] = slot[h]]
          /\ DispGoto(r, "push")
          /\ UNCHANGED buffer
       \/ /\ MayFail("submit", h)
          /\ Buffer!Mark(h, "Failed")
          /\ DispGoto(r, "fail")
          /\ UNCHANGED <<load, target>>
    /\ UNCHANGED <<bytes, dst, tasks, waiting, running, xfer, holder, stream, close, work>>

\* The task ends here: its earlier shards stay in the ring.
FailTask(r) ==
    /\ At(r, "fail")
    /\ Tasks!Done({disp[r].task}, {disp[r].task})
    /\ DispGoto(r, "unpin")
    /\ UNCHANGED <<buffer, external, waiting, running, xfer, holder, stream, close, work>>

UnpinShard(r) ==
    /\ At(r, "unpin")
    /\ Buffer!Drop({Current(r)})
    /\ disp' = [disp EXCEPT ![r] = Idle]
    /\ UNCHANGED <<external, tasks, waiting, running, xfer, holder, stream, close, work>>

PushShard(r) ==
    /\ At(r, "push")
    /\ Len(running[r]) < RunningDepth - 1
    /\ running' = [running EXCEPT ![r] = Append(@, Current(r))]
    /\ disp' = [disp EXCEPT ![r] =
          IF AtLast(r) THEN [@ EXCEPT !.at = "prealloc", !.pos = 1]
          ELSE [@ EXCEPT !.at = "get", !.pos = @ + 1]]
    /\ UNCHANGED <<buffer, external, tasks, waiting, xfer, holder, stream, close, work>>

\* Prealloc gives up on a lock that is taken and when no slot is free.
PreallocNextShards(r) ==
    LET h == Current(r)
        k == NextShard[KeyOf(h)]
    IN
    /\ At(r, "prealloc")
    /\ \/ k # NONE /\ MayOwn(h) /\ Buffer!Preinstall(h, k)
       \/ UNCHANGED buffer
    /\ disp' = [disp EXCEPT ![r] = IF AtLast(r) THEN Idle ELSE [@ EXCEPT !.pos = @ + 1]]
    /\ UNCHANGED <<external, tasks, waiting, running, xfer, holder, stream, close, work>>

Dispatcher(r) ==
    \/ DispatchOneTask(r) \/ GetShard(r) \/ SubmitBackendLoad(r) \/ FailTask(r)
    \/ UnpinShard(r) \/ PushShard(r) \/ PreallocNextShards(r)

----------------------------------------------------------------------------
(* The transfer thread                                                     *)

Shard(r) == xfer[r].shard
XferAt(r, step) == xfer[r].at = step
XferGoto(r, step) == xfer' = [xfer EXCEPT ![r].at = step]
IsLast(h) == h = LastShard(h[1])

\* A shard of a failed task is discarded without waiting for its load.
TransferOneTask(r) ==
    LET h == Head(running[r])
        failed == h[1] \in failureSet
    IN
    /\ XferAt(r, "idle") /\ running[r] # <<>> /\ ~Stop(r)
    /\ running' = [running EXCEPT ![r] = Tail(@)]
    /\ xfer' = [xfer EXCEPT ![r] = [at |-> IF failed THEN "fail" ELSE "wait", shard |-> h]]
    /\ IF failed /\ owner[h] THEN Buffer!Mark(h, "Failed") ELSE UNCHANGED buffer
    /\ UNCHANGED <<external, tasks, waiting, disp, holder, stream, close, work>>

\* Variation of WaitShardReady: whoever does not own takes Loading for Ready.
WaitShardReadyEager(r) ==
    LET h == Shard(r)
        s == slot[h]
    IN
    /\ XferAt(r, "wait")
    /\ \/ load[h] = "done" /\ Buffer!Mark(h, "Ready") /\ XferGoto(r, "copy")
       \/ load[h] = "failed" /\ Buffer!Mark(h, "Failed") /\ XferGoto(r, "fail")
       \/ /\ load[h] = "none" /\ UNCHANGED buffer
          /\ \/ state[s] # "Failed" /\ XferGoto(r, "copy")
             \/ state[s] = "Failed" /\ XferGoto(r, "fail")
             \/ state[s] = "Loading" /\ h[1] \in failureSet /\ XferGoto(r, "fail")
    /\ load' = [load EXCEPT ![h] = "none"]
    /\ UNCHANGED <<bytes, target, dst, tasks, waiting, running, disp, holder, stream, close, work>>

\* Variation of WaitShardReady: the poll does not look at the failure set.
WaitShardReadyForever(r) ==
    LET h == Shard(r)
        s == slot[h]
    IN
    /\ XferAt(r, "wait")
    /\ \/ load[h] = "done" /\ Buffer!Mark(h, "Ready") /\ XferGoto(r, "copy")
       \/ load[h] = "failed" /\ Buffer!Mark(h, "Failed") /\ XferGoto(r, "fail")
       \/ /\ load[h] = "none" /\ UNCHANGED buffer
          /\ \/ state[s] = "Ready" /\ XferGoto(r, "copy")
             \/ state[s] = "Failed" /\ XferGoto(r, "fail")
    /\ load' = [load EXCEPT ![h] = "none"]
    /\ UNCHANGED <<bytes, target, dst, tasks, waiting, running, disp, holder, stream, close, work>>

\* The owner waits for its backend load; the others poll the state of the
\* slot and, while it is Loading, the failure of their task.
WaitShardReady(r) ==
    LET h == Shard(r)
        s == slot[h]
    IN
    /\ XferAt(r, "wait")
    /\ \/ load[h] = "done" /\ Buffer!Mark(h, "Ready") /\ XferGoto(r, "copy")
       \/ load[h] = "failed" /\ Buffer!Mark(h, "Failed") /\ XferGoto(r, "fail")
       \/ /\ load[h] = "none" /\ UNCHANGED buffer
          /\ \/ state[s] = "Ready" /\ XferGoto(r, "copy")
             \/ state[s] = "Failed" /\ XferGoto(r, "fail")
             \/ state[s] = "Loading" /\ h[1] \in failureSet /\ XferGoto(r, "fail")
    /\ load' = [load EXCEPT ![h] = "none"]
    /\ UNCHANGED <<bytes, target, dst, tasks, waiting, running, disp, holder, stream, close, work>>

\* Only the last shard goes on to synchronize; the others are held.
ScatterShard(r) ==
    LET h == Shard(r) IN
    /\ XferAt(r, "copy")
    /\ \/ /\ stream' = [stream EXCEPT ![r] = @ \cup {<<h, slot[h]>>}]
          /\ IF IsLast(h) THEN XferGoto(r, "sync") /\ UNCHANGED holder
             ELSE /\ holder' = [holder EXCEPT ![r] = @ \cup {h}]
                  /\ xfer' = [xfer EXCEPT ![r] = Idle]
       \/ MayFail("copy", h) /\ XferGoto(r, "fail") /\ UNCHANGED <<stream, holder>>
    /\ UNCHANGED <<buffer, external, tasks, waiting, running, disp, close, work>>

\* Synchronize returns when no copy is in flight; what a failed one leaves
\* behind is the device's affair.
SynchronizeH2d(r) ==
    /\ XferAt(r, "sync")
    /\ \/ stream[r] = {} /\ XferGoto(r, "done") /\ UNCHANGED stream
       \/ MayFail("sync", Shard(r)) /\ XferGoto(r, "fail") /\ stream' = [stream EXCEPT ![r] = {}]
    /\ Buffer!Drop(holder[r])
    /\ holder' = [holder EXCEPT ![r] = {}]
    /\ UNCHANGED <<external, tasks, waiting, running, disp, close, work>>

\* Variation of FinishFailed: the held copies are not synchronized.
FinishFailedAsync(r) ==
    LET h == Shard(r) IN
    /\ XferAt(r, "fail")
    /\ Buffer!Drop(holder[r])
    /\ holder' = [holder EXCEPT ![r] = {}]
    /\ Tasks!Done(IF IsLast(h) THEN {h[1]} ELSE {}, {h[1]})
    /\ XferGoto(r, "drop")
    /\ UNCHANGED <<external, waiting, running, disp, stream, close, work>>

\* FinishShard with an error: the held copies are synchronized and released
\* before the waiter of a last shard is done.
FinishFailed(r) ==
    LET h == Shard(r) IN
    /\ XferAt(r, "fail")
    /\ holder[r] # {} => stream[r] = {}
    /\ Buffer!Drop(holder[r])
    /\ holder' = [holder EXCEPT ![r] = {}]
    /\ Tasks!Done(IF IsLast(h) THEN {h[1]} ELSE {}, {h[1]})
    /\ XferGoto(r, "drop")
    /\ UNCHANGED <<external, waiting, running, disp, stream, close, work>>

FinishShard(r) ==
    /\ XferAt(r, "done")
    /\ Tasks!Done({Shard(r)[1]}, {})
    /\ XferGoto(r, "drop")
    /\ UNCHANGED <<buffer, external, waiting, running, disp, holder, stream, close, work>>

DropShard(r) ==
    /\ XferAt(r, "drop")
    /\ Buffer!Drop({Shard(r)})
    /\ xfer' = [xfer EXCEPT ![r] = Idle]
    /\ UNCHANGED <<external, tasks, waiting, running, disp, holder, stream, close, work>>

Transfer(r) ==
    \/ TransferOneTask(r) \/ WaitShardReady(r) \/ ScatterShard(r) \/ SynchronizeH2d(r)
    \/ FinishFailed(r) \/ FinishShard(r) \/ DropShard(r)

----------------------------------------------------------------------------
(* The backend store and the device                                        *)

BackendFinish(h) ==
    /\ load[h] = "busy"
    /\ \/ /\ load' = [load EXCEPT ![h] = "done"]
          /\ bytes' = [bytes EXCEPT ![target[h]] = KeyOf(h)]
       \/ /\ MayFail("load", h)
          /\ load' = [load EXCEPT ![h] = "failed"]
          /\ bytes' = [bytes EXCEPT ![target[h]] = NONE]
    /\ target' = [target EXCEPT ![h] = NONE]
    /\ UNCHANGED <<buffer, dst, tasks, waiting, running, disp, xfer, holder, stream, close, work>>

CopyFinish(r) ==
    /\ \E c \in stream[r] :
          /\ dst' = [dst EXCEPT ![c[1]] = bytes[c[2]]]
          /\ stream' = [stream EXCEPT ![r] = @ \ {c}]
    /\ UNCHANGED <<buffer, bytes, load, target, tasks, waiting, running, disp, xfer, holder, close, work>>

----------------------------------------------------------------------------
(* Close: stop and join the dispatcher, drain its ring, then the transfer  *)
(* thread and its ring.                                                    *)

CloseStop(r) ==
    /\ r \in Closing /\ close[r] = "open"
    /\ close' = [close EXCEPT ![r] = "dispatcher"]
    /\ UNCHANGED <<buffer, external, tasks, waiting, running, disp, xfer, holder, stream, work>>

DrainWaiting(r) ==
    /\ close[r] = "dispatcher" /\ At(r, "idle")
    /\ close' = [close EXCEPT ![r] = "transfer"]
    /\ Tasks!Done(ToSet(waiting[r]), ToSet(waiting[r]))
    /\ waiting' = [waiting EXCEPT ![r] = <<>>]
    /\ UNCHANGED <<buffer, external, running, disp, xfer, holder, stream, work>>

DrainRunning(r) ==
    LET H == ToSet(running[r]) IN
    /\ close[r] = "transfer" /\ XferAt(r, "idle")
    /\ close' = [close EXCEPT ![r] = "closed"]
    /\ Tasks!Done({h[1] : h \in {g \in H : IsLast(g)}}, {h[1] : h \in H})
    /\ Buffer!Drop(H \cup holder[r])
    /\ running' = [running EXCEPT ![r] = <<>>]
    /\ holder' = [holder EXCEPT ![r] = {}]
    /\ UNCHANGED <<external, waiting, disp, xfer, stream, work>>

----------------------------------------------------------------------------
Returned == Tasks!Returned

\* Nothing is left to do.
Finished ==
    /\ \A t \in Task : caller[t] \in Returned \/ (caller[t] = "new" /\ Stop(RankOf[t]))
    /\ \A r \in Rank : /\ At(r, "idle") /\ XferAt(r, "idle") /\ stream[r] = {}
                       /\ running[r] = <<>>
    /\ \A h \in Handle : load[h] # "busy"
    /\ UNCHANGED vars

Closer(r) == DrainWaiting(r) \/ DrainRunning(r)

Next ==
    \/ \E t \in Task : Submit(t) \/ Wait(t)
    \/ \E r \in Rank : Dispatcher(r) \/ Transfer(r) \/ CopyFinish(r) \/ CloseStop(r) \/ Closer(r)
    \/ \E h \in Handle : BackendFinish(h)
    \/ Finished

Spec == Init /\ [][Next]_vars

\* Every thread gets to run, the backend and the device finish what they
\* began, time passes for a caller that waits, and the ranks of a distributed
\* load are all called.
FairSpec ==
    /\ Spec
    /\ \A t \in Task : WF_vars(Wait(t)) /\ WF_vars(t \in Distributed /\ Submit(t))
    /\ \A r \in Rank : /\ WF_vars(Dispatcher(r)) /\ WF_vars(Transfer(r))
                       /\ WF_vars(CopyFinish(r)) /\ WF_vars(Closer(r))
    /\ \A h \in Handle : WF_vars(BackendFinish(h))

----------------------------------------------------------------------------
(* Properties                                                              *)

\* Wait returned OK: the caller's memory holds the bytes of every shard of
\* the task, whoever loaded them and whatever was evicted meanwhile
\* (TaskWrapper::Wait after LoadQ's single synchronize).
OkMeansLoaded ==
    \A t \in Task : caller[t] = "ok" => \A h \in Handle : h[1] = t => dst[h] = KeyOf(h)

\* Once Wait returned, whatever its status, no copy of the task is under way
\* and none starts: the caller may reuse its memory (FinishShard and
\* ReleaseHolder synchronize before the waiter is done). Close does not
\* synchronize, so this holds while the queue is open.
NoCopyAfterWait ==
    \A r \in Rank : \A c \in stream[r] : Stop(r) \/ caller[c[1][1]] \notin Returned

\* Wait returns for every task that was submitted: no thread waits for a
\* slot, a ring or a fill for ever (Dispatcher, Transfer, TaskWrapper::Wait).
TasksComplete == \A t \in Task : caller[t] = "submitted" ~> caller[t] \in Returned

\* The ranks of a distributed load are never all stuck: each waits only for a
\* shard that another rank has yet to fill (MayOwn in LoadQ::DispatchShards and
\* the order of RearrangeIndex).
DistributedNotStuck == Distributed # {} => ENABLED Next

\* The dispatcher's Get returns a handle for every shard (Buffer::Get of
\* cache_buffer.h, which DispatchShards calls without a way out).
GetReturns == \A r \in Rank : At(r, "get") ~> ~At(r, "get")

\* Close returns (the joins of LoadQ::Close).
CloseReturns == \A r \in Rank : Stop(r) ~> close[r] = "closed"
=============================================================================
