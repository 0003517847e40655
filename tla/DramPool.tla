------------------------------ MODULE DramPool ------------------------------
(***************************************************************************)
(* The memory pool of the DRAM store (ucm/store/dram/cc/drampool).  A      *)
(* receiver hands requests to the task worker, which reserves or pins      *)
(* entries of the index and submits one data transfer for them; the        *)
(* completion poller settles the entries when the transfer is over and     *)
(* sends the response.  The worker, when it finds no slot, and the GC      *)
(* thread evict entries.  All of them free slots and erase keys, in        *)
(* separate steps under separate locks.                                    *)
(***************************************************************************)
EXTENDS Integers, FiniteSets, Sequences, FiniteSetsExt, SequencesExt

CONSTANTS
    Key, Slot, Shard,
    SizeOf,             \* the size of each slot, which names its pool
    ShardOf,            \* the shard of each key
    Position,           \* the position each key is dumped with
    Request,
    Workloads,          \* what the requests ask for, and whether Stop is called
    MaxBatch,           \* results that fit into a response buffer
    RequestDepth, CompletionDepth, PendingDepth, FlagSlots,
    EvictPercent,       \* metadataDefaultEvictRatio
    NONE

\* The operation ("INVALID" if the message cannot be unpacked), the keys and
\* their length.
Ask == [op : {"DUMP", "LOAD", "LOOKUP", "INVALID"}, keys : Seq(Key) \ {<<>>}, size : Nat]

PoolConfig ==
    /\ SizeOf \in [Slot -> Nat] /\ ShardOf \in [Key -> Shard] /\ Position \in [Key -> Nat]
    /\ {RequestDepth, CompletionDepth, PendingDepth, FlagSlots} \subseteq Nat \ {0}
    /\ EvictPercent \in 0 .. 100
    /\ \A w \in Workloads :
          w.stop \in BOOLEAN /\ \A r \in Request : w.asks[r] \in Ask \cup {NONE}

ASSUME PoolAssumption == PoolConfig

VARIABLES
    asked,       \* what each request asks for
    index,       \* the entry of each key, or NONE
    free,        \* how often each slot is in its pool
    bytes,       \* the key whose data is in each slot
    victims,     \* the entries each thread is taking out of the index
    requests, completions,  \* the queues
    stage,       \* where each request is
    items,       \* the items of its transfer
    transfer,    \* its transfer: "none", "Waiting", "Completed" or "Failed"
    failed,      \* the keys whose result is not Ok (or not Exists)
    loaded,      \* the keys whose data reached the caller's memory
    receiver, worker, poller, gc,   \* the threads
    pending,     \* the poller's pending_
    flags,       \* response buffers in use
    stopping     \* how far Stop has come

data == <<asked, index, free, bytes, victims>>
outcome == <<failed, loaded>>
vars == <<data, requests, completions, stage, items, transfer, outcome, receiver, worker, poller,
          gc, pending, flags, stopping>>

NoWork == [at |-> "poll", req |-> NONE, i |-> 0, slot |-> NONE, evictions |-> 0]

Init ==
    /\ index = [k \in Key |-> NONE] /\ free = [s \in Slot |-> 1] /\ bytes = [s \in Slot |-> NONE]
    /\ victims = [t \in {"worker", "poller", "gc"} |-> <<>>]
    /\ requests = <<>> /\ completions = <<>>
    /\ \E w \in Workloads :
          /\ asked = w.asks
          /\ stage = [r \in Request |-> IF w.asks[r] = NONE THEN "unused" ELSE "away"]
          /\ stopping = IF w.stop THEN "no" ELSE "never"
    /\ items = [r \in Request |-> <<>>] /\ transfer = [r \in Request |-> "none"]
    /\ failed = [r \in Request |-> {}] /\ loaded = [r \in Request |-> {}]
    /\ receiver = [at |-> "look", req |-> NONE] /\ worker = NoWork
    /\ poller = [at |-> "poll", req |-> NONE] /\ gc = "wait"
    /\ pending = {} /\ flags = 0

Op(r) == asked[r].op
Items(r) == asked[r].keys
Size(r) == asked[r].size

\* The stop flags, in the order Stop sets them.
Phases == <<"no", "receiver", "worker", "poller", "gc", "stopped">>
StopSet(t) == \E i, j \in DOMAIN Phases : Phases[i] = t /\ Phases[j] = stopping /\ i <= j

----------------------------------------------------------------------------
(* Entries                                                                 *)

Entry(s) == [slot |-> s, status |-> "INITIALIZED", ref |-> 0, leased |-> FALSE]
Has(k, status) == index[k] # NONE /\ index[k].status = status

\* Variation of TryMarkEvicting: the pin is not looked at.
TryMarkEvictingPinned(k) == Has(k, "READY") /\ ~index[k].leased

TryMarkEvicting(k) == Has(k, "READY") /\ index[k].ref = 0 /\ ~index[k].leased

\* The lives of entries end as the clock has it.
TtlResults(sh) == SUBSET {k \in Key : ShardOf[k] = sh /\ TryMarkEvicting(k)}

Smaller(m, n) == IF m < n THEN m ELSE n
PosResults(sh) ==
    LET there == {k \in Key : ShardOf[k] = sh /\ index[k] # NONE}
        able == {k \in there : TryMarkEvicting(k)}
        target == Max({1, (Cardinality(there) * EvictPercent) \div 100})
    IN IF EvictPercent = 0 THEN {{}}
       ELSE {V \in kSubset(Smaller(target, Cardinality(able)), able) :
                \A k \in V, m \in able \ V : Position[k] >= Position[m]}

Victim(k) == [key |-> k, slot |-> index[k].slot, freed |-> FALSE]
Mark(V) == [k \in Key |-> IF k \in V THEN [index[k] EXCEPT !.status = "DELETING"] ELSE index[k]]

\* EvictOneShard and Delete mark first; the thread then frees each slot and
\* erases the key.
TakeOut(t, V) ==
    /\ index' = Mark(V)
    /\ victims' = [victims EXCEPT ![t] = SetToSeq({Victim(k) : k \in V})]

FreeVictim(t) ==
    /\ victims[t] # <<>> /\ ~Head(victims[t]).freed
    /\ free' = [free EXCEPT ![Head(victims[t]).slot] = @ + 1]
    /\ victims' = [victims EXCEPT ![t][1].freed = TRUE]
    /\ UNCHANGED <<asked, index, bytes, requests, completions, stage, items, transfer, outcome, receiver,
                   worker, poller, gc, pending, flags, stopping>>

EraseVictim(t) ==
    /\ victims[t] # <<>> /\ Head(victims[t]).freed
    /\ index' = [index EXCEPT ![Head(victims[t]).key] = NONE]
    /\ victims' = [victims EXCEPT ![t] = Tail(@)]
    /\ UNCHANGED <<asked, free, bytes, requests, completions, stage, items, transfer, outcome, receiver,
                   worker, poller, gc, pending, flags, stopping>>

\* MetadataManager::Delete, as far as the mark.
Delete(t, k) ==
    IF index[k] = NONE \/ index[k].status = "DELETING" \/ index[k].ref # 0
    THEN UNCHANGED <<index, victims>>
    ELSE TakeOut(t, {k})

LoadEndWorks(k) == Has(k, "READY") /\ index[k].ref > 0
LoadEnd(k) == index' = IF LoadEndWorks(k) THEN [index EXCEPT ![k].ref = @ - 1] ELSE index

----------------------------------------------------------------------------
(* RequestReceiveLoop                                                      *)

ReceiverLook ==
    /\ receiver.at = "look"
    /\ receiver' = [receiver EXCEPT !.at = IF StopSet("receiver") THEN "gone" ELSE "receive"]
    /\ UNCHANGED <<data, requests, completions, stage, items, transfer, outcome, worker, poller, gc,
                   pending, flags, stopping>>

\* Receive waits for a message for as long as it takes.
Receive(r) ==
    /\ receiver.at = "receive" /\ stage[r] = "away"
    /\ IF StopSet("receiver")
       THEN receiver' = [receiver EXCEPT !.at = "gone"] /\ stage' = [stage EXCEPT ![r] = "dropped"]
       ELSE IF Op(r) = "INVALID"
       THEN receiver' = [receiver EXCEPT !.at = "look"] /\ stage' = [stage EXCEPT ![r] = "dropped"]
       ELSE receiver' = [at |-> "push", req |-> r] /\ stage' = [stage EXCEPT ![r] = "received"]
    /\ UNCHANGED <<data, requests, completions, items, transfer, outcome, worker, poller, gc,
                   pending, flags, stopping>>

PushRequest ==
    /\ receiver.at = "push"
    /\ LET r == receiver.req IN
       IF StopSet("receiver")
       THEN stage' = [stage EXCEPT ![r] = "dropped"] /\ UNCHANGED requests
       ELSE /\ Len(requests) < RequestDepth
            /\ requests' = Append(requests, r) /\ stage' = [stage EXCEPT ![r] = "queued"]
    /\ receiver' = [at |-> "look", req |-> NONE]
    /\ UNCHANGED <<data, completions, items, transfer, outcome, worker, poller, gc, pending, flags,
                   stopping>>

----------------------------------------------------------------------------
(* TaskWorker                                                              *)

Req == worker.req
Item == Items(Req)[worker.i]
At(step) == worker.at = step /\ victims["worker"] = <<>>
Keys(r) == ToSet(Items(r))

TakeRequest ==
    /\ At("poll")
    /\ IF requests = <<>>
       THEN worker' = [worker EXCEPT !.at = "look"] /\ UNCHANGED <<requests, stage, failed>>
       ELSE LET r == Head(requests)
                fits == Len(Items(r)) <= MaxBatch
            IN /\ requests' = Tail(requests)
               /\ stage' = [stage EXCEPT ![r] = IF fits THEN "worker" ELSE "dropped"]
               /\ worker' = IF fits THEN [NoWork EXCEPT !.at = "item", !.req = r, !.i = 1] ELSE NoWork
               /\ failed' = [failed EXCEPT ![r] = IF Op(r) = "LOOKUP" THEN Keys(r) ELSE {}]
    /\ UNCHANGED <<data, completions, items, transfer, loaded, receiver, poller, gc, pending, flags,
                   stopping>>

\* Spinning on an empty queue is staying here.
WorkerLook ==
    /\ At("look") /\ (StopSet("worker") \/ requests # <<>>)
    /\ worker' = [worker EXCEPT !.at = IF StopSet("worker") THEN "gone" ELSE "poll"]
    /\ UNCHANGED <<data, requests, completions, stage, items, transfer, outcome, receiver, poller,
                   gc, pending, flags, stopping>>

\* The worker goes on with the next item, or submits.
NextItem ==
    worker' = [worker EXCEPT !.i = @ + 1, !.slot = NONE, !.evictions = 0,
                             !.at = IF worker.i = Len(Items(Req)) THEN "submit" ELSE "item"]

OnItem(op) == At("item") /\ Op(Req) = op
Pool == {s \in Slot : SizeOf[s] = Size(Req)}
NoSpace == Pool # {} /\ \A s \in Pool : free[s] = 0

\* StoreBegin: Allocate, again after a periodic and a deep eviction.
Allocate ==
    /\ OnItem("DUMP")
    /\ \E s \in Pool :
          /\ free[s] > 0
          /\ free' = [free EXCEPT ![s] = @ - 1]
          /\ worker' = [worker EXCEPT !.at = "store", !.slot = s]
    /\ UNCHANGED <<asked, index, bytes, victims, requests, completions, stage, items, transfer,
                   outcome, receiver, poller, gc, pending, flags, stopping>>

AllocateNoSpace ==
    /\ OnItem("DUMP") /\ NoSpace /\ worker.evictions < 2
    /\ worker' = [worker EXCEPT !.at = "evict"]
    /\ UNCHANGED <<data, requests, completions, stage, items, transfer, outcome, receiver, poller,
                   gc, pending, flags, stopping>>

EvictOneShard(t, sh, deep) ==
    \E V \in (IF deep THEN PosResults(sh) ELSE TtlResults(sh)) : TakeOut(t, V)

\* A random shard, whatever the sizes of its entries.
EvictForSlot ==
    /\ At("evict")
    /\ \E sh \in Shard : EvictOneShard("worker", sh, worker.evictions = 1)
    /\ worker' = [worker EXCEPT !.at = "item", !.evictions = @ + 1]
    /\ UNCHANGED <<asked, free, bytes, requests, completions, stage, items, transfer, outcome,
                   receiver, poller, gc, pending, flags, stopping>>

\* This item and the remaining ones fail.
AllocateFails ==
    /\ OnItem("DUMP") /\ (Pool = {} \/ (NoSpace /\ worker.evictions = 2))
    /\ failed' = [failed EXCEPT ![Req] = @ \cup {Items(Req)[j] : j \in worker.i .. Len(Items(Req))}]
    /\ worker' = [worker EXCEPT !.at = "submit"]
    /\ UNCHANGED <<data, requests, completions, stage, items, transfer, loaded, receiver, poller, gc,
                   pending, flags, stopping>>

StoreBegin ==
    /\ At("store")
    /\ IF index[Item] # NONE
       THEN worker' = [worker EXCEPT !.at = "duplicate"] /\ UNCHANGED <<index, items>>
       ELSE /\ index' = [index EXCEPT ![Item] = Entry(worker.slot)]
            /\ items' = [items EXCEPT ![Req] = Append(@, [key |-> Item, slot |-> worker.slot])]
            /\ NextItem
    /\ UNCHANGED <<asked, free, bytes, victims, requests, completions, stage, transfer, outcome, receiver,
                   poller, gc, pending, flags, stopping>>

\* Variation of FreeDuplicate: the slot of a duplicate key is not given back.
FreeDuplicateNot ==
    /\ At("duplicate")
    /\ NextItem
    /\ UNCHANGED <<asked, free, index, bytes, victims, requests, completions, stage, items, transfer, outcome,
                   receiver, poller, gc, pending, flags, stopping>>

FreeDuplicate ==
    /\ At("duplicate")
    /\ free' = [free EXCEPT ![worker.slot] = @ + 1]
    /\ NextItem
    /\ UNCHANGED <<asked, index, bytes, victims, requests, completions, stage, items, transfer, outcome,
                   receiver, poller, gc, pending, flags, stopping>>

LoadBegin ==
    /\ OnItem("LOAD")
    /\ IF ~Has(Item, "READY")
       THEN /\ failed' = [failed EXCEPT ![Req] = @ \cup {Item}]
            /\ NextItem
            /\ UNCHANGED <<index, items>>
       ELSE /\ index' = [index EXCEPT ![Item].ref = @ + 1]
            /\ IF Size(Req) > SizeOf[index[Item].slot]
               THEN worker' = [worker EXCEPT !.at = "short"] /\ UNCHANGED items
               ELSE /\ items' = [items EXCEPT ![Req] =
                                    Append(@, [key |-> Item, slot |-> index[Item].slot])]
                    /\ NextItem
            /\ UNCHANGED failed
    /\ UNCHANGED <<asked, free, bytes, victims, requests, completions, stage, transfer, loaded, receiver,
                   poller, gc, pending, flags, stopping>>

TooLong ==
    /\ At("short")
    /\ LoadEnd(Item)
    /\ failed' = [failed EXCEPT ![Req] = @ \cup {Item}]
    /\ NextItem
    /\ UNCHANGED <<asked, free, bytes, victims, requests, completions, stage, items, transfer, loaded,
                   receiver, poller, gc, pending, flags, stopping>>

\* A hit refreshes the lease.
Exist ==
    /\ OnItem("LOOKUP")
    /\ IF Has(Item, "READY")
       THEN /\ index' = [index EXCEPT ![Item].leased = TRUE]
            /\ failed' = [failed EXCEPT ![Req] = @ \ {Item}]
       ELSE UNCHANGED <<index, failed>>
    /\ NextItem
    /\ UNCHANGED <<asked, free, bytes, victims, requests, completions, stage, items, transfer, loaded,
                   receiver, poller, gc, pending, flags, stopping>>

\* ExecuteAsync, unless there is nothing to transfer.
SubmitTransfer ==
    /\ At("submit")
    /\ \/ /\ items[Req] = <<>>
          /\ worker' = [worker EXCEPT !.at = "push"] /\ UNCHANGED transfer
       \/ /\ items[Req] # <<>>
          /\ \/ /\ transfer' = [transfer EXCEPT ![Req] = "Waiting"]
                /\ worker' = [worker EXCEPT !.at = "push"]
             \/ worker' = [worker EXCEPT !.at = "undo"] /\ UNCHANGED transfer
    /\ UNCHANGED <<data, requests, completions, stage, items, outcome, receiver, poller, gc, pending,
                   flags, stopping>>

\* DeleteItemsMetadata and LoadEndItems.
UndoItem ==
    /\ At("undo")
    /\ LET k == Head(items[Req]).key IN
       /\ IF Op(Req) = "DUMP" THEN Delete("worker", k) ELSE LoadEnd(k) /\ UNCHANGED victims
       /\ failed' = [failed EXCEPT ![Req] = @ \cup {k}]
    /\ items' = [items EXCEPT ![Req] = Tail(@)]
    /\ worker' = [worker EXCEPT !.at = IF Len(items[Req]) = 1 THEN "push" ELSE "undo"]
    /\ UNCHANGED <<asked, free, bytes, requests, completions, stage, transfer, loaded, receiver, poller, gc,
                   pending, flags, stopping>>

SubmitCompletion ==
    /\ At("push") /\ Len(completions) < CompletionDepth
    /\ completions' = Append(completions, Req)
    /\ stage' = [stage EXCEPT ![Req] =
                    IF items[Req] = <<>> THEN "SubmitResponse" ELSE "PollDataTransfer"]
    /\ worker' = NoWork
    /\ UNCHANGED <<data, requests, items, transfer, outcome, receiver, poller, gc, pending, flags,
                   stopping>>

Worker ==
    \/ TakeRequest \/ WorkerLook \/ Allocate \/ AllocateNoSpace \/ EvictForSlot \/ AllocateFails
    \/ StoreBegin
    \/ FreeDuplicate \/ LoadBegin \/ TooLong \/ Exist \/ SubmitTransfer \/ UndoItem
    \/ SubmitCompletion \/ FreeVictim("worker") \/ EraseVictim("worker")

----------------------------------------------------------------------------
(* CompletionPoller                                                        *)

Polling(r) == poller.at = "poll" /\ r \in pending

FillPendingWindow ==
    /\ poller.at = "poll"
    /\ \/ /\ completions # <<>> /\ Cardinality(pending) < PendingDepth
          /\ pending' = pending \cup {Head(completions)} /\ completions' = Tail(completions)
          /\ UNCHANGED poller
       \/ /\ completions = <<>> /\ pending = {}
          /\ poller' = [poller EXCEPT !.at = "look"] /\ UNCHANGED <<pending, completions>>
    /\ UNCHANGED <<data, requests, stage, items, transfer, outcome, receiver, worker, gc, flags,
                   stopping>>

\* Variation of PollerLook: the poller looks at the flag of the GC thread.
PollerLookLate ==
    /\ poller.at = "look" /\ (StopSet("poller") \/ completions # <<>>)
    /\ poller' = [poller EXCEPT !.at = IF StopSet("gc") THEN "gone" ELSE "poll"]
    /\ UNCHANGED <<data, requests, completions, stage, items, transfer, outcome, receiver, worker,
                   gc, pending, flags, stopping>>

\* The stop flag is read after the window was filled.
PollerLook ==
    /\ poller.at = "look" /\ (StopSet("poller") \/ completions # <<>>)
    /\ poller' = [poller EXCEPT !.at = IF StopSet("poller") THEN "gone" ELSE "poll"]
    /\ UNCHANGED <<data, requests, completions, stage, items, transfer, outcome, receiver, worker,
                   gc, pending, flags, stopping>>

PollDataTransfer(r) ==
    /\ Polling(r) /\ stage[r] = "PollDataTransfer" /\ transfer[r] # "Waiting"
    /\ poller' = [at |-> "settle", req |-> r]
    /\ UNCHANGED <<data, requests, completions, stage, items, transfer, outcome, receiver, worker,
                   gc, pending, flags, stopping>>

\* Variation of SettleItem: a load whose pin was released is Ok, however the
\* transfer ended.
SettleItemAnyEnd(r) ==
    /\ poller = [at |-> "settle", req |-> r] /\ victims["poller"] = <<>> /\ items[r] # <<>>
    /\ LET k == Head(items[r]).key
           good == transfer[r] = "Completed"
           works == IF Op(r) = "DUMP" THEN good /\ Has(k, "INITIALIZED") ELSE LoadEndWorks(k)
       IN /\ \/ /\ Op(r) = "DUMP" /\ works
                /\ index' = [index EXCEPT ![k].status = "READY"] /\ UNCHANGED victims
             \/ Op(r) = "DUMP" /\ ~works /\ Delete("poller", k)
             \/ Op(r) = "LOAD" /\ LoadEnd(k) /\ UNCHANGED victims
          /\ failed' = IF works THEN failed ELSE [failed EXCEPT ![r] = @ \cup {k}]
    /\ items' = [items EXCEPT ![r] = Tail(@)]
    /\ UNCHANGED <<asked, free, bytes, requests, completions, stage, transfer, loaded, receiver, worker,
                   poller, gc, pending, flags, stopping>>

\* One item of SettleDataTransfer. A StoreEnd that fails is a Delete, too.
SettleItem(r) ==
    /\ poller = [at |-> "settle", req |-> r] /\ victims["poller"] = <<>> /\ items[r] # <<>>
    /\ LET k == Head(items[r]).key
           good == transfer[r] = "Completed"
           works == good /\ (IF Op(r) = "DUMP" THEN Has(k, "INITIALIZED") ELSE LoadEndWorks(k))
       IN /\ \/ /\ Op(r) = "DUMP" /\ works
                /\ index' = [index EXCEPT ![k].status = "READY"] /\ UNCHANGED victims
             \/ Op(r) = "DUMP" /\ ~works /\ Delete("poller", k)
             \/ Op(r) = "LOAD" /\ LoadEnd(k) /\ UNCHANGED victims
          /\ failed' = IF works THEN failed ELSE [failed EXCEPT ![r] = @ \cup {k}]
    /\ items' = [items EXCEPT ![r] = Tail(@)]
    /\ UNCHANGED <<asked, free, bytes, requests, completions, stage, transfer, loaded, receiver, worker,
                   poller, gc, pending, flags, stopping>>

Settled(r) ==
    /\ poller = [at |-> "settle", req |-> r] /\ victims["poller"] = <<>> /\ items[r] = <<>>
    /\ stage' = [stage EXCEPT ![r] = "SubmitResponse"]
    /\ transfer' = [transfer EXCEPT ![r] = "none"]
    /\ poller' = [at |-> "poll", req |-> NONE]
    /\ UNCHANGED <<data, requests, completions, items, outcome, receiver, worker, gc, pending, flags,
                   stopping>>

\* Without a response buffer the record is tried again in the next round.
SubmitResponse(r) ==
    /\ Polling(r) /\ stage[r] = "SubmitResponse" /\ flags < FlagSlots
    /\ \/ /\ stage' = [stage EXCEPT ![r] = "PollResponseTransfer"]
          /\ transfer' = [transfer EXCEPT ![r] = "Waiting"]
          /\ flags' = flags + 1 /\ UNCHANGED pending
       \/ /\ stage' = [stage EXCEPT ![r] = "dropped"] /\ pending' = pending \ {r}
          /\ UNCHANGED <<transfer, flags>>
    /\ UNCHANGED <<data, requests, completions, items, outcome, receiver, worker, poller, gc,
                   stopping>>

\* Variation of PollResponseTransfer: the response buffer is not released.
PollResponseTransferKeeps(r) ==
    /\ Polling(r) /\ stage[r] = "PollResponseTransfer" /\ transfer[r] # "Waiting"
    /\ stage' = [stage EXCEPT ![r] = IF transfer[r] = "Completed" THEN "answered" ELSE "dropped"]
    /\ transfer' = [transfer EXCEPT ![r] = "none"]
    /\ pending' = pending \ {r} /\ UNCHANGED flags
    /\ UNCHANGED <<data, requests, completions, items, outcome, receiver, worker, poller, gc,
                   stopping>>

PollResponseTransfer(r) ==
    /\ Polling(r) /\ stage[r] = "PollResponseTransfer" /\ transfer[r] # "Waiting"
    /\ stage' = [stage EXCEPT ![r] = IF transfer[r] = "Completed" THEN "answered" ELSE "dropped"]
    /\ transfer' = [transfer EXCEPT ![r] = "none"]
    /\ pending' = pending \ {r} /\ flags' = flags - 1
    /\ UNCHANGED <<data, requests, completions, items, outcome, receiver, worker, poller, gc,
                   stopping>>

PollRecord(r) ==
    \/ PollDataTransfer(r) \/ SettleItem(r) \/ Settled(r)
    \/ SubmitResponse(r) \/ PollResponseTransfer(r)

----------------------------------------------------------------------------
(* GCThreadLoop, Stop and the transport                                    *)

PerformEvict(sh) ==
    /\ gc = "wait" /\ victims["gc"] = <<>>
    /\ EvictOneShard("gc", sh, FALSE) /\ victims'["gc"] # <<>>
    /\ UNCHANGED <<asked, free, bytes, requests, completions, stage, items, transfer, outcome, receiver,
                   worker, poller, gc, pending, flags, stopping>>

GcExit ==
    /\ gc = "wait" /\ victims["gc"] = <<>> /\ StopSet("gc")
    /\ gc' = "gone"
    /\ UNCHANGED <<data, requests, completions, stage, items, transfer, outcome, receiver, worker,
                   poller, pending, flags, stopping>>

\* Stop sets each flag and waits for the thread before the next one.
Stop ==
    /\ \/ stopping = "no" /\ stopping' = "receiver"
       \/ stopping = "receiver" /\ receiver.at = "gone" /\ stopping' = "worker"
       \/ stopping = "worker" /\ worker.at = "gone" /\ stopping' = "poller"
       \/ stopping = "poller" /\ poller.at = "gone" /\ stopping' = "gc"
       \/ stopping = "gc" /\ gc = "gone" /\ stopping' = "stopped"
    /\ UNCHANGED <<data, requests, completions, stage, items, transfer, outcome, receiver, worker,
                   poller, gc, pending, flags>>

\* A transfer ends: a dump's data, or garbage, is in the slots; a load's is
\* in the caller's memory.
FinishTransfer(r) ==
    /\ transfer[r] = "Waiting"
    /\ \E good \in BOOLEAN :
          /\ transfer' = [transfer EXCEPT ![r] = IF good THEN "Completed" ELSE "Failed"]
          /\ bytes' = IF Op(r) # "DUMP" THEN bytes
                      ELSE [s \in Slot |->
                               IF \E i \in ToSet(items[r]) : i.slot = s
                               THEN IF good THEN (CHOOSE i \in ToSet(items[r]) : i.slot = s).key
                                    ELSE NONE
                               ELSE bytes[s]]
          /\ loaded' = IF Op(r) # "LOAD" \/ ~good THEN loaded
                       ELSE [loaded EXCEPT ![r] = @ \cup {i.key : i \in
                                {i \in ToSet(items[r]) : bytes[i.slot] = i.key}}]
    /\ UNCHANGED <<asked, index, free, victims, requests, completions, stage, items, failed, receiver,
                   worker, poller, gc, pending, flags, stopping>>

LeaseEnds(k) ==
    /\ index[k] # NONE /\ index[k].leased
    /\ index' = [index EXCEPT ![k].leased = FALSE]
    /\ UNCHANGED <<asked, free, bytes, victims, requests, completions, stage, items, transfer, outcome,
                   receiver, worker, poller, gc, pending, flags, stopping>>

Poller ==
    \/ FillPendingWindow \/ PollerLook \/ FreeVictim("poller") \/ EraseVictim("poller")
    \/ \E r \in Request : PollRecord(r)

Gc == GcExit \/ FreeVictim("gc") \/ EraseVictim("gc")

Next ==
    \/ ReceiverLook \/ PushRequest \/ \E r \in Request : Receive(r)
    \/ Worker \/ Poller \/ Gc
    \/ \E r \in Request : FinishTransfer(r)
    \/ \E sh \in Shard : PerformEvict(sh)
    \/ \E k \in Key : LeaseEnds(k)
    \/ Stop

Spec == Init /\ [][Next]_vars

\* The threads run, and the transport reports the end of every transfer. None
\* of them can take steps for ever, so fairness to them all is fairness to each.
FairSpec ==
    /\ Spec
    /\ WF_vars(\/ ReceiverLook \/ PushRequest \/ Worker \/ Poller \/ Gc
               \/ \E r \in Request : FinishTransfer(r)
               \/ stopping # "no" /\ Stop)

----------------------------------------------------------------------------
(* Properties                                                              *)

InHand(s) == worker.at \in {"store", "duplicate"} /\ worker.slot = s
Freed(k) == \E t \in DOMAIN victims : victims[t] # <<>> /\ Head(victims[t]).key = k
                                      /\ Head(victims[t]).freed

\* A slot is in its pool once, or one entry has it, or the worker: no slot is
\* lost or given out twice, whatever the worker, the poller and the GC thread
\* evict, undo and settle at the same time (Delete, EvictOneShard, StoreBegin).
SlotsExact ==
    \A s \in Slot :
        free[s] + Cardinality({k \in Key : index[k] # NONE /\ index[k].slot = s /\ ~Freed(k)})
                + (IF InHand(s) THEN 1 ELSE 0) = 1

Holds(r, k) == \E i \in ToSet(items[r]) : i.key = k
Using(op, k) == {r \in Request : Holds(r, k) /\ Op(r) = op}

\* As long as a request has an item its entry keeps the slot the transfer
\* works on: an entry being dumped is found by nobody and evicted by nobody,
\* and an entry is pinned exactly as often as loads use it (StoreBegin,
\* LoadBegin, LoadEnd, TryMarkEvicting).
TransferKeepsEntry ==
    /\ \A k \in Key : index[k] # NONE =>
          index[k].ref = Cardinality(Using("LOAD", k))
                         + (IF worker.at = "short" /\ Item = k THEN 1 ELSE 0)
    /\ \A r \in Request : \A i \in ToSet(items[r]) :
          /\ index[i.key] # NONE /\ index[i.key].slot = i.slot
          /\ index[i.key].status = IF Op(r) = "DUMP" THEN "INITIALIZED" ELSE "READY"

\* A load that is answered Ok for a key has put that key's data into the
\* caller's memory (LoadBegin, ExecuteAsync, SettleDataTransfer).
OkMeansLoaded ==
    \A r \in Request :
        stage[r] = "answered" /\ Op(r) = "LOAD" => Keys(r) \ failed[r] \subseteq loaded[r]

Over == {"answered", "dropped"}

\* A request that was taken in is answered, or its response cannot be sent,
\* as long as the server is not stopped: no record waits for ever for room in
\* the completion queue, in the window or among the response buffers.
RequestsAnswered ==
    \A r \in Request : stage[r] = "queued" ~> (stage[r] \in Over \/ stopping \notin {"never", "no"})

\* Once the receiver is gone Stop returns (Run of the worker and of the
\* poller, GCThreadLoop).
StopEnds == stopping = "worker" ~> stopping = "stopped"

\* Stop returns.
StopReturns == stopping = "receiver" ~> stopping = "stopped"

\* What the worker and the poller were given is drained before they leave.
Drained == stopping = "stopped" => requests = <<>> /\ completions = <<>>
=============================================================================
