# Formal verification of the unified cache management stores

TLA+ specifications, TLC models and TLAPS proofs for the concurrent parts of
this repository: the Cache2 store with its shared-memory slot buffer and its
load and dump pipelines, the task, ring and thread pool machinery below them,
the health breaker in front of a store, the garbage collection of the posix
store, and the client and the memory pool of the DRAM store.

Paths below are relative to `src/`.

## 1. The system

The repository keeps the KV cache of an inference engine outside the device. An
engine connector (Python) cuts a request into blocks and calls a *store*:
`Lookup`, `Prefetch`, `Load`, `Dump`, then `Check` or `Wait` on the task handle
(`ucm/store/ucmstore_v1.h`). Stores are stacked: the cache store keeps blocks in
host memory shared by the worker processes of a node and reads and writes a
backend store (posix files, DRAM of other nodes, an external service); a health
breaker may stand in front of a backend.

| part | state | operations | interacts with |
|---|---|---|---|
| Slot buffer `cache_buffer.h`, `ctrl_layout.h` | per slot: reference word, key, hash, state, chain links, accessed bit; bucket heads; striped robust locks; all in shared memory | `Get`, `Prealloc`, `Exist`, `Touch`, the handle's `MarkReady`, `MarkFailed`, destructor; inside: optimistic lookup, `PinHit`, `Alloc` (clock eviction), `Remove`, `MoveTo` | all ranks at once; load and dump queues, lookups |
| Load pipeline `load_queue.h` | waiting and running rings, `holder_`, streams, failure set | `Submit`, dispatcher and transfer thread, `Close` | buffer, backend `Load`/`Wait`, device copies, other ranks of a distributed load |
| Dump pipeline `dump_queue.h`, `copy_stream.h` | waiting and dumping rings, rotating streams | `Submit`, dispatcher and dumper thread, `Close` | buffer, backend `Dump`/`Wait`, device copies |
| Tasks `task_wrapper.h`, `latch.h` | task table, failure set, latches | `Submit`, `Wait` with a timeout | callers, both pipelines |
| Rings `spsc_ring_queue.h` | head, tail, cells | `Push`, `TryPush`, `TryPop`, `ConsumerLoop` | every pair of pipeline stages |
| Thread pool `thread_pool.h` | task queue, workers, what each runs and since when | `Push`, worker loop, monitor that replaces late workers | the posix collector |
| Health breaker `health_tracker.h`, `health_check_executor.h`, `health_breaker_store.cc` | state, generation, passive window, probe window, cooldown, check workers | gated calls, passive recording, probe loop, `Start`, `Stop` | any store below it |
| Posix garbage collection `gc_lease.cc`, `gc_liveness.cc`, `gc_executor.h`, `gc_config_guard.cc`, `shard_gc.cc` | lock directory, heartbeats, gate, members, published config, shard tasks | join; claim, renew, take over, release; sample, collect, drain | other instances on the same file system |
| DRAM client `node_actor.cc`, `node_scheduler.cc`, `transport_executor.cc`, `reply_service.cc`, `task_manager.cc` | tasks, requests, a connection with epochs per node, command and event queues, reply slots | submit, split, dispatch, transmit, observe, time out, fence, reconnect | memory pools |
| DRAM memory pool `drampool/` | index of entries, slot pools, queues, flag slots | receive; dump, load, look up; poll; evict; `Stop` | clients, the transport |

What is hard in it, and hard to test:

* the buffer is read without locks by several processes while a slot is evicted
  and rekeyed under them; a worker may die at any store;
* memory is written by a backend, a device or a remote pool some time after the
  thread that asked for it has gone on, failed, or timed out;
* a caller is answered while other parts of its task are still queued;
* threads wait for slots, for ring places, for another rank's fill and for each
  other's exit;
* health and collection decisions are taken on state that other threads or other
  hosts change in between, and by threads that come back after they were given up;
* a connection is fenced and made again while answers of the old one are on
  their way.

What correctness means: a handle stays on its key; nobody is served bytes of
another key; whoever is told OK can rely on it; memory given back to a caller, or
a slot given to another key, is no longer written; no slot, task or request is
lost; every wait, round and request ends; a breaker is open over a dead store and
closed over a live one; there is one collector.

`PROJECT.json` lists the hazards line by line, with the properties that cover
them.

## 2. The modules

```
 SpscRingProofs   CacheBufferStoreProofs -> CacheBufferProofs -> CacheBufferSteps
      |                          |                                      |
   SpscRing                CacheBufferStore ---------------------> CacheBuffer
      | implements               | implements               bucket sets |
      v                          v                                      v
   FifoQueue   LoadQueue, ---> SlotStore    BucketChain --implements--> BucketIndex
               DumpQueue  ---> TaskWrapper

 HealthPassiveProofs -> HealthBreakerProofs          ShardGcProofs
                              |                            |
 HealthTracker <------- HealthBreaker                   ShardGc ---> ThreadPool
 HealthCheckExecutor <--------|
                              GcInstancesProofs -> GcInstances ---> GcLease
 DramClient      DramPool                                      ---> GcConfigGuard
```

| module | what it is | mapped code |
|---|---|---|
| `CacheBuffer` | the slot protocol, one shared word per step | `cache_buffer.h`, `ctrl_layout.h`, `shared_mutex.h` |
| `SlotStore` | the buffer as its users see it: atomic operations | the same, as a contract |
| `CacheBufferStore` | the refinement mapping between the two | |
| `BucketChain` | the hash chains, one pointer per step | `LookupT`, `Remove`, `MoveTo` |
| `BucketIndex` | the chains as sets of slots | the same, as a contract |
| `LoadQueue` | callers, dispatcher and transfer threads over `SlotStore` | `load_queue.h` |
| `DumpQueue` | callers, dispatcher and dumper threads over `SlotStore` | `dump_queue.h`, `copy_stream.h` |
| `TaskWrapper` | submission, completion and timeout of a task | `task_wrapper.h`, `latch.h` |
| `SpscRing` | the ring, one load or store per step | `spsc_ring_queue.h` |
| `FifoQueue` | the ring as a bounded queue | the same, as a contract |
| `HealthTracker` | the breaker's words: passive window, probe window, cooldown, generation | `health_tracker.h` |
| `HealthCheckExecutor` | checks with a time limit on workers that may hang | `health_check_executor.h` |
| `HealthBreaker` | both composed with the probe loop, the calls, `Start`, `Stop` and an unreliable store | `health_breaker_store.cc` |
| `ThreadPool` | the pool and its monitor | `thread_pool.h` |
| `ShardGc` | the check loop of one instance and its rounds on the pool | `shard_gc.cc` |
| `GcLease` | the collection lock, file system call by call | `gc_lease.cc`, `gc_liveness.cc`, `gc_executor.h` |
| `GcConfigGuard` | gate, members and published config | `gc_config_guard.cc` |
| `GcInstances` | both composed with time, heartbeats, crashes and departures | |
| `DramClient` | task manager, node actors, transport and reply threads, and the pools as the client sees them | `node_actor.cc`, `node_scheduler.cc`, `transport_executor.cc`, `transport_manager_backend.cc`, `transport_manager.cpp`, `reply_service.cc`, `task_manager.cc` |
| `DramPool` | receiver, task worker, completion poller, GC thread and `Stop` | `drampool/` |
| `CacheBufferSteps`, `CacheBufferProofs`, `CacheBufferStoreProofs`, `SpscRingProofs`, `HealthBreakerProofs`, `HealthPassiveProofs`, `ShardGcProofs`, `GcInstancesProofs` | lemmas and theorems | |
| `MC*` | instances for TLC | |

The pieces fit: `CacheBuffer` uses bucket *sets*, and `BucketChain` is shown to
implement them; the queues use *atomic* buffer operations, and `CacheBuffer` is
shown to implement those; the queues use *sequences* for their rings, and
`SpscRing` is shown to implement a queue. `DramClient` and `DramPool` are two
sides of one wire: the client takes a pool to answer late, wrongly or never,
which is more than `DramPool` does.

A definition called "Variation of X" is X with a plausible mistake in it. It is
used by no specification; `PROJECT.json` (`mutants`) says which property notices
when it takes X's place.

### CacheBuffer

A process is one call of `Get`, `Prealloc` or `Exist` and the life of the handle
it returns. `pc` names the next step; the sets `Pinning`, `Holding`, `Claiming`,
`Rewriting` group the steps by what the process holds of `node[p]`.

| state | code | | steps | code |
|---|---|---|---|---|
| `reference` | `SlotMeta::reference`, `Claimed` = `kSlotClaimed` | | `LookupOptimistic` | `LookupT` without lock |
| `key`, `hash`, `state`, `accessed` | the other words of `SlotMeta` | | `PinMatch` .. `PinReset` | `PinHit` |
| `lock` | `LockOf(bucket)`, a robust mutex | | `TryLock`, `Lock`, `Lookup` | `TryAcquireSlot`, `TryPrealloc`, `Exist` |
| `data` | whose bytes are in the slot's memory | | `FetchNode`, `Claim`, `Evict`, `Remove`, `StoreBlock`, `StoreOffset`, `InitState`, `MoveTo`, `Publish` | `Alloc` |
| `owner`, `seen`, `op`, `want` | locals and the handle | | `Fill`, `MarkReady`, `MarkFailed`, `Release`, `Touch`, `Crash` | the handle, `Touch`, a dying worker |

A dying worker keeps its pins and claims in the reference words for ever; its
locks are recovered, as the robust mutex does. If it dies inside `Remove` or
`MoveTo` (`Relinking`), the chains stay as it left them (`Broken`), and from then
on a lookup may miss a slot that is there also under the lock; what it finds is
still checked by `MatchKey`. `Get` with a preferred rank other than the caller's
is `PeerGet`.

### SlotStore

Per slot a key and a state, per handle a slot and an owner flag. `Attach` finds
a key, `Install` allocates, `Preinstall` is `Prealloc`, `Mark` ends a fill,
`Drop` is the destructor of handles, `Evict` loses a key. A key has one slot
unless `broken` is set, by the death of a worker that was relinking a slot: then
`Place` may install it once more. The queues use the buffer with workers that
live. A non-owner may be attached to a Loading slot that has no owner: that is what the code does (the
stale pin of section 5).

### LoadQueue and DumpQueue

Every rank has a dispatcher and a second thread; `disp` and `xfer` hold their
steps. A backend transfer (`load`, `write`) and a device copy (`stream`) start
with the call and end at any later time, whether or not anybody waits: they then
write or read the *memory* of the slot (`bytes`), whoever has it by then. `dst`
is what reached the caller. In `DumpQueue` copies rotate over `Streams` streams,
each in order. `Faults` names the external calls that may fail and the task they
fail for, `Expiring` the tasks that may time out, `Closing` the ranks whose queue
may be closed.

One step of a thread is what it does between two looks at shared state that
another thread could notice: `GetShard`, `SubmitBackendLoad` and `PushShard` are
three, because the slot, the backend and the ring are three.

### SpscRing

`PushHead`, `PushTail`, `PushCell`, `PushPublish` are the four accesses of
`TryPush` and of one turn of `Push`; `PopHead` .. `PopRelease` those of `TryPop`.
`head_` and `tail_` are released and acquired, so the cells are seen in order.

### HealthTracker, HealthCheckExecutor, HealthBreaker

| state | code | steps | code |
|---|---|---|---|
| `healthy`, `generation`, `mutex` | `healthy_`, `generation_`, `mutex_` | `RecordIo`, `Count`, `GetStats`, `LockAndTrip` | `RecordIo` of a caller: the counter, the two reads of the window, the trip |
| `counted`, `base`, `snapshots` | `totalFailure_`, `windowFailure_`, the snapshots | `SamplePassiveWindow`, `UpdateWindowStart` | the same names |
| `probes`, `failures`, `cooldown`, `sinceTrip`, `sinceRecovery` | `HealthWindow`, `recoverAfter_`, `recoveredAt_` | `Capture`, `RecordProbe`, `Trip`, `Bump`, `Heal`, `Reset` | `RecordProbe`, `TripLocked` and what they call |
| `worker`, `current`, `cleanup`, `runner` | the worker objects, `current_worker_`, `cleanup_`, `runMutex_` | `RunBegin`, `RunReject`, `RunReturns`, `RunTimeout`, `Take`, `Finish`, `Exit`, `StopBegin`, `StopReturns` | `Run`, the worker thread, `Stop` |

The store is up or down and changes `MaxFlips` times. A check that meets an
outage may hang until the time is up and longer; one that meets a store that is
up answers. `counted` keeps every failure with its age, so that a property can
say what the window *should* have seen; the code keeps counters, whose wrap is
`CounterRange`.

### GcLease, GcConfigGuard, GcInstances

The lock is a directory that holds its holder's heartbeat file. `TryAcquire`,
`Claimed`, `Probed`, `TakenOver`, `HoldsLock`, `Release`, `Released` are the
decisions of an instance's cycle; between them a call runs in the executor as a
record `op` with a step for each file system call (`ClaimMake`, `ClaimRename`,
`ProbeList`, `ProbeStat`, `ProbeTouch`, `RemoveHeartbeat`, `RemoveDir`,
`FindEntry`). A take-over or release whose heartbeat is gone already goes on to
remove the directory, as `PosixFile::Remove` is content with that; the directory
of a new holder is not empty, so it stays. A call given up (`GiveUp`) moves to
`late` and goes on by itself until it ends or its process dies. The gate, the count of live members and the
published config are steps of `GcConfigGuard` in the same way. `GcInstances` adds
the sweep of left-over claims, heartbeats, crashes, departures and `Tick`, which
ages what nobody refreshes.

### ThreadPool and ShardGc

A worker takes a task (`Take`), works on it (`Scan`, `RemoveFiles`, `RemoveFile`,
`Finish`, `Write`) and comes back. The monitor reads a worker (`MonitorRead`),
calls the timeout handler (`OnTaskTimeout`), takes the lock, stops and detaches
the worker and adds another (`MonitorLock`, `MonitorDetach`, `AddOneWorker`). The
detached worker goes on at any later time. The check loop is `ShouldTrigger`,
`Sampled`, `RoundTest`, `Execute`, `Collected`, `Recycled`, `Deleted`,
`EndCycle`: a round pushes one task per shard and waits on a latch. A file is its
age, so the coldest are the smallest numbers.

### DramClient

Per node an actor record: `state` and `epoch`, `rec` (activeRequests_), `pending`,
`act`, `check` and `poll` (the three points in time it wakes up for), `done` (the
completion batch), `batch` (what is left of the events and commands it took).
`TakeBatch`, `HandleEvent`, `HandleCommand`, `Advance`, `StartRequest`,
`FlushCompletions` are one turn of `NodeScheduler::RunActors`, in that order.
`EnqueueTask`, `ProcessSubmission` and `ProcessCompletion` are the task manager,
`Execute` and `PublishSent` the transport executor with its backend, `Observe`
and `PublishObserved` the reply thread. `PoolBegin` .. `PoolWrite` are a pool:
external, and allowed whatever a pool of this repository can do, which is to move
data and to answer at any time, over the connection that exists then.

### DramPool

`ReceiverLook`, `Receive`, `PushRequest` are the receiver; `TakeRequest`,
`Allocate`, `StoreBegin`, `LoadBegin`, `Exist`, `SubmitTransfer`, `UndoItem`,
`SubmitCompletion` with the evictions of `EvictForSlot` the task worker;
`FillPendingWindow`, `PollDataTransfer`, `SettleItem`, `SubmitResponse`,
`PollResponseTransfer` the completion poller; `PerformEvict`, `FreeVictim`,
`EraseVictim` the GC thread. `index` is the sharded map of entries, `free` counts
a slot's places in its pool, `bytes` is whose data is in a slot, `victims` what
each thread has marked and not yet erased. A lease or a time to live that runs
out is `LeaseEnds`. The set a policy marks is marked in one step.

## 3. What the runs check

Each property has a mutant in `PROJECT.json` that breaks it under the same
configuration.

| run | instance | shows |
|---|---|---|
| `cache_two` | 2 calls, one of any kind and one `Get`, 3 slots of which the second call may use all and the first one, 2 keys in 2 buckets, claim value 3, 1 death | the reference word is the exact number of pins or one claim (`ReferenceExact`), a holder of a Ready slot finds its own key's bytes (`ReadyServesOwnKey`), `CacheBuffer` implements `SlotStore` (`ImplementsStore`), which says among others that a handle stays on its key, that a fill has one owner, and that a key is in one slot until a worker dies while it relinks one |
| `chain_two` | 2 writers, 1 reader, 3 slots, 2 buckets with a lock each, 1 death | unlocked chains are well formed and complete as long as nobody died half way (`ChainExact`); `BucketChain` implements `BucketIndex`, also after a death (`ImplementsIndex`) |
| `load_ranks` | 2 ranks, 4 slots; tasks of their own that share a key, with preallocation, or a distributed load | OK means every shard's own bytes arrived (`OkMeansLoaded`); the ranks of a distributed load never all wait for each other (`DistributedNotStuck`) |
| `load_live` | 1 rank, tasks of 1 and 2 shards sharing a key, 2 slots, preallocation, failing backend and device, a timeout, `Close` at any point | nothing is copied into the caller's memory once `Wait` returned (`NoCopyAfterWait`), every `Wait` returns (`TasksComplete`) |
| `dump_ranks` | 2 ranks, 3 tasks, one shared key and one that evicts, 2 streams, faults, a timeout | Ready slots hold their key's bytes (`ReadyHoldsKey`), the backend writes the right ones (`StoredExact`), OK means submitted, by this task or the owner it skipped for (`OkMeansSubmitted`) |
| `dump_live` | 1 rank, 2 dumps of the same keys in opposite orders, 2 slots of which one is not host accessible, everything fails, both may time out, `Close` at any point | every `Wait` returns (`TasksComplete`), `Close` returns (`CloseReturns`) and no slot is used afterwards (`ClosedIsQuiet`) |
| `ring_one` | 1 producer, 5 values, 3 cells, waiting and non-waiting pushes | the ring is a bounded queue (`ImplementsQueue`) and delivers (`Delivered`) |
| `health_relapse` | 1 caller, the probe loop, 1 check worker, a passive threshold of 2, a store that changes 3 times, 2 failures, 1 `Stop` | as many failures in the window as the threshold trip the breaker (`PassiveTripNotMissed`) and fewer do not (`PassiveTripJustified`); it closes only on a full window of checks begun after the trip, after the cooldown (`RecoveryEarned`); it ends closed over a store that stays up (`UpForGood`) and open over one that stays down (`DownForGood`); `Stop` returns (`StopReturns`) |
| `gc_rounds` | 2 shards, 4 files, a pool of 1 worker, both modes, 1 fault | a round ends only when each task was finished once (`RoundSettled`), its results stay as read (`ResultsFinal`), a worker given up removes at most the file it is at (`GivenUpStops`), and cycles end (`CycleEnds`) |
| `gc_instances` | 2 instances with equal or different configs, stale after 2 ticks, 1 fault of one of them: a death, a call given up, an unreachable backend | a live holder's heartbeat stays in the lock (`HolderKeepsLock`), although take-overs and releases that come too late go on to its directory, so there is one collector; running instances have the published config (`ConfigsAgree`); a lock left behind is taken over (`LockRecovered`) |
| `pool_serve` | 7 workloads of up to 3 requests and `Stop`, 3 keys in 2 shards, 3 slots of 2 sizes, queues of 1, a window of 2, 1 flag slot | slots are in the pool, in one entry or in one hand (`SlotsExact`); an entry keeps its slot as long as a transfer works on it (`TransferKeepsEntry`); a load answered Ok got the key's data (`OkMeansLoaded`); every request taken in is answered (`RequestsAnswered`); `Stop` ends once the receiver is gone (`StopEnds`) |
| `dram_client` | 2 requests of one task or of two, one with a prerequisite, 1 node, 2 reply slots, every time limit 1 tick | until a request is over nobody else uses what the pool may access over the connection it was sent on (`EpochFenced`); OK means every request was carried out (`OkMeansServed`); nothing is refused for lack of room on the way (`RoomForAll`); every task ends although a pool may never answer (`TasksComplete`) |

### Why the bounds are enough to be interesting

In the buffer, the first call may use one slot only and evicts in its second
allocation, and two calls are the pinner and the evictor. The three slots are those
of a worker that died relinking, of a key its chain hides, and of the same key
installed once more. The proofs cover all sizes. In the pipelines, two tasks that share a key, with fewer slots than keys,
make hits, waits for another's fill and evictions happen; two shards give a task
a shard that is not its last; a ring of depth 2 or 3 fills. In the ring, five
values through two usable cells turn it round more than twice, and the proof
covers every capacity. In the breaker, three changes of the store are a failure,
a recovery and a relapse with a check of the first outage still hanging; two
failures are just the threshold. Of two collectors one can be late with every
call while the other takes over, and the second threshold tick tells fresh from
stale; four files in two shards make more than one round. In the pool, one slot
of a size with two keys makes every second dump evict, and depths of one fill all
queues. In the client, two requests fill `MaxInflight`, the lifetime of the first
connection and of the second overlap, and a slot is leased twice.

Larger instances were checked by hand: two callers and two workers in the breaker
(8.0 million states), three requests or two nodes in the client (up to 4.7
million), longer workloads in the pool (up to 6.5 million).

The two slots that only the second call may use, and the slots of the chains, are
interchangeable, and so are blocks together with their buckets: `cache_two` and `chain_two` use that symmetry. No
run with a liveness property does.

`CHECK_DEADLOCK FALSE` stands where a state without a step is legitimate or is
judged by a temporal property. In `load_ranks` no time is up, and a waiter on a
preallocated slot nobody fills polls for ever; in `load_live` and `dump_live` a
waiting thread polls, which is no step of the model, and the property says that
nobody does so for ever; in `gc_rounds` the fault of section 5 can leave the loop
waiting; a stopped pool (`pool_serve`) and a client without work (`dram_client`)
have nothing to do.

### Fairness

Weak fairness is enough everywhere.

* Pipelines and ring: each thread's next step (operating system threads that are
  never suspended for ever), the backend's and the device's completion of what
  they began (the code waits for them without a timeout), the caller's `Wait`
  (a blocking call; `WaitExpires` is the clock), the closer, and in a distributed
  load the peer's call: the engine calls all ranks of a group. None for
  `Submit` otherwise, for faults, for `Close` or for which of two enabled outcomes
  happens.
* Breaker: threads, the clock, and the answer of a store that is up. A check of a
  store that is down need never end.
* Collection: the check loop, the monitor, and workers the pool still counts; a
  worker given up may hang for good in a storage call. Instances: the steps of a
  join or cycle (a call ends or is given up after its time limit), heartbeats, time.
* Client: its threads and time. None for the pools.
* Memory pool: its threads and the transport's report of every transfer.

## 4. What is proved

### The slot protocol

`CacheBufferProofs` proves, for every set of calls, slots, keys, buckets and
stripes, every claim value from 2 up and any number of deaths:

| theorem | states |
|---|---|
| `Invariance` | `Spec => []IInv` |
| `TypeCorrect` | `Spec => []TypeOK` |
| `ReferenceIsExact` | the reference word counts the pins exactly, or is one process's claim on an unpinned slot |
| `HandlesKeepTheirKey` | a handle stays on its key |
| `AtMostOneOwner` | one handle at most owns a fill |
| `ReadyDataIsOwn` | a holder of a Ready slot finds its own key's bytes |
| `KeysAreUnique` | no key is findable in two slots, unless a worker died inside `Remove` or `MoveTo` |
| `ReadyStaysReady` | `Spec => ReadyIsStable`, an action property |

The only assumption is `ConstantsAssumption` of `CacheBuffer`: finitely many
calls, functions of the right type, a claim value of at least 2, `NONE` outside
the sets.

None of the properties is inductive alone. That a handle keeps its key depends
on nobody rewriting a pinned slot, which depends on the claim succeeding only at
reference 0, which depends on the reference being the *number* of pins,
including the pins of calls that are about to undo them. `IInv` therefore
conjoins:

* `TypeOK` and `ReferenceExact`;
* `LockOk`, who holds which stripe at which step; `WriteOk`, how far a
  rewrite has got; `AllocOk`, that no other slot has the key being installed, as
  long as the chains are whole;
  `PinOk`, that a verified pin is on its key; `OwnerOk`, where an owner can be;
* `FirstInv`: of the pins on a slot at most one saw reference 0 or owns. An
  owner is the pinner that replaced 0, and only one can be first until it lets go;
* `DataInv` and `KeyInv`: Ready slots hold their key's bytes and, as long as the
  chains are whole, keys are unique, except for slots being rewritten (`Dirty`),
  which a claim shields.

Whether the chains are whole (`~Broken`) is a hypothesis of what is said of unique
keys and of nothing else: the reference words, the owners and the bytes are right
after any death. Once broken, they stay so (`BrokenStays`).

The argument is laid out in two modules. `CacheBufferSteps` says what a step of
one process changes (one slot, one process, its locks) and keeps types.
`CacheBufferProofs` shows the per-process conjuncts, first for the others
(`OthersStep`), then for a process inside `Alloc` (`AllocStep`), and carries the
cardinality of the pins through a step, which changes by one exactly when the
reference does (`Exchange`, `ReferenceStep`, `FirstStep`). It then says
what the other callers may notice of a step (`StepNoticed`), shows the per-process
conjuncts for the rest of a call (`OwnStep`), adds the slots' conjuncts, deaths and
`Touch`, and concludes.

### The buffer's contract

`CacheBufferStoreProofs` proves that the slot protocol implements the atomic
operations the queues are modelled over (`BufferImplementsStore`:
`Spec => ImplementsStore`), under the same assumption. The mapping
(`CacheBufferStore`) shows a slot's key and state while lookups can find it, and a
call's slot and ownership from the return of `PinHit` or `Alloc` to its release.

Beside `IInv` the argument needs `StoreInv`: a call that is over has no key, `Alloc`
works on slots of its own segment, an owner that releases has ended its fill, and
what lookups find is in the chain of its key (`CallsStep`, `FindableStep`). Every step of a call is then one of
a few kinds (`StepNoticed`), each with a lemma: most change nothing that is seen
(`SilentRefines`); `Begin` starts a call; a pin that is kept attaches to a slot of
the key asked for, as owner only if no handle owns it (`AttachRefines`); taking a
slot out of its chain is an eviction, and happens with no handle on it
(`TakesRefines`); `Publish` installs the key, which is nowhere else or hidden by a
broken chain (`PublishRefines`); the end of a fill, the release and the return without a handle
are themselves; a worker's death is `Die` (`CrashRefines`).

### The ring

`SpscRingProofs` proves that the ring implements the queue
(`RingImplementsQueue`: `Spec => ImplementsQueue`), for every capacity from 1 up,
every set of values and any mix of waiting and non-waiting pushes, if there is at
most one producer (`OneProducer`, a hypothesis of the theorem: with two it is
false, section 5). The abstract queue is `Contents`, the cells from `tail_` to
`head_`, where the first may already be in the consumer's hand.

`RingInv` (`RingInvariant`) is what each side relies on between its load and its
store. The producer: `head_` is still what it loaded, since nobody else stores
it, and the cell it found free is still free, since the consumer only makes
more room. The consumer: `head_` may have moved on, but never onto `tail_`. With
it, each step maps to a step of the queue: the store of `head_` appends, the store
of `tail_` takes the first, a `TryPush` that finds no room refuses at a full
queue, and everything else, among it writing and emptying the cell, leaves
`Contents` as it is. The index arithmetic is stated once, without remainders
(`ModTurn`, `Between`, `Full`, `Positions`, `Grow`, `Shrink`). TLC found `RingInv`
to hold on the instance of `ring_one` before it was proved.

### The breaker

`HealthBreakerProofs` and `HealthPassiveProofs` prove, for every window, threshold
and cooldown that the configuration admits (`ConfigAssumption`), any number of
callers and check workers, and any bounds of the model:

| theorem | states |
|---|---|
| `BreakerInvariant` | `Spec => []BreakerInv` |
| `RecoveryIsEarned` | the breaker closes only on a full window of successful checks, each begun after the last trip, and after the cooldown |
| `PassiveInvariant` | `Spec => []PassiveInv` |
| `PassiveTripIsNotMissed` | when no call is recording, a closed breaker has seen fewer failures than the threshold within the passive window |
| `PassiveTripIsJustified` | a call trips the breaker only on as many failures as the threshold, counted since the breaker closed |

Recovery rests on the generation. A result of a check begun before the trip must
not be counted, yet the trip is more than one store, so `FreshOK` speaks of the time after
it is complete: a check whose generation is the current one was then begun after
the trip, and so was every check in the window. `MutexOK` keeps a trip and a
recovery apart, `HealOK` keeps what recovery was decided on true until `healthy_` is
stored. The passive side rests on the snapshots: what lies before the start of the
window is older than the window (`WindowStartOK`), also for a call that has read the
start and not yet compared (`ReadOK`), so a call that counts the last of the
failures finds them all, and until it has tripped the breaker it is on its way
(`TripComing`).

### The collector's rounds

`ShardGcProofs` proves, for all finite sets of shards, files and workers and any
number of workers found late, stops and lost locks:

| theorem | states |
|---|---|
| `RoundInvariance` | `Spec => []RoundInv` |
| `RoundsAreSettled` | when the wait for a round returns, each of its tasks is finished |
| `ResultsAreFinal` | a result is written only while its own round is waited for, an action property |
| `GivenUpTasksStop` | a worker whose task was given up removes at most the one file it is removing |

The assumptions are `SetupAssumption`, what `Setup` demands, and `NamesAssumption`:
the sets are finite, files lie in shards, and there is a task object for each shard
besides one per worker and one for the monitor. The code allocates its tasks, and
no more than these are ever in use when a round starts (`EnoughIds`).

That a round is settled says that the latch never reaches 0 early, so `RoundInv` has
to say what it counts: the tasks that are *open*, which nobody has finished, or
whose worker has won `FinishTask` and not yet called `Done` (`LatchExact`). It also
says that two workers never write for one task, and that a task still in the queue
is unfinished and in nobody's hands: the monitor and a late worker know only tasks
that were taken. Tasks of earlier rounds are all finished (`OthersFinished`), so a
worker that comes back to one cannot win. The lemmas follow the code: the steps
short of `FinishTask` (`WorkerMoves`), both sides of `FinishTask` (`FinishStep`,
`WriteStep`, `TimeoutStep`), the start of a round (`RoundStarts`). TLC found
`RoundInv`, like the invariants of the other sections, to hold on the instance of
the run before it was proved.

### The collection lock

`GcInstancesProofs` proves, for every finite set of instances and every stale
threshold, any number of deaths, of calls that are given up and go on by
themselves, and of unreachable backends:

| theorem | states |
|---|---|
| `LeaseInvariance` | `Spec => []LeaseInv` |
| `HolderIsInLock` | an instance that checks the lock or runs a round has its heartbeat in the lock directory |
| `OneCollector` | two instances never run a round at the same time |

Beside `LeaseAssumption` (the sets and markers of the model) the theorems have the
hypothesis that names do not run out: a heartbeat's name is a GUID, drawn for each
claim, and the model draws one that is in use nowhere. They also rest on the
module's timing: a holder that is alive refreshes its heartbeat before the
threshold, which is what `posixGcStaleThresholdSec` is set for.

`LeaseInv` has to say why nobody removes the holder's heartbeat. Removing it takes
its name, and names travel: through calls that were given up and still run, through
what an instance suspects, and through a probe that has listed the directory. So
while an instance waits for a claim, nobody else has its name (`ClaimOk`, `Secret`),
and the directory it is about to rename is whole, since the sweep spares what is
waited for. While it holds the lock, the name is in the lock, fresh, in no late call
and suspected by nobody, and whoever probes it will not be misled (`HoldOk`,
`Fooled`): the age they compute is at most the true one, or they find the mtime
changed. The steps are then judged by what they do to such a *precious* name
(`PreciousName`, `OthersKeep`): file system calls leave every name but their own
alone (`EffectSpares`), what an instance does with an answer never turns against it
(`AnswerKeeps`), and time does not outrun a heartbeat that is kept (`TickKeeps`). TLC
found `LeaseInv` to hold on the instance of `gc_instances`, also with faults of both
instances, before it was proved.

### Only model-checked

* Liveness: fairness and `ENABLED` are out of reach of this version of TLAPS.
* `ChainExact` and `ImplementsIndex`: what a chain of links reaches is a recursion
  over the chain, which needs an induction the prover cannot do.
* The client's `RoomForAll`: its counters are sums over sets of requests, and what a
  sum is needs an induction over the set.
* `ConfigsAgree`: it is a property of two instances, and false of three (section 5).
* The client's other invariants (`EpochFenced`, `OkMeansServed`), and those of the
  queues over the buffer and of the memory pool: nothing in principle stands in the
  way, they have not been proved.

## 5. The limits the runs stay within

The properties stay within the following limits of the code, by what a run allows
to happen or by what the property is stated for. Lifting a limit, by the change
named here to a kept configuration, makes TLC find the property violated.

| limit | without it | to see it |
|---|---|---|
| stale pin: some handle owns the fill of every slot waited for | a pin about to be undone turns the rightful filler of a preallocated slot into a waiter, and its load ends with the timeout (`cache_buffer.h:389`) | `CacheBuffer_two.cfg`, invariant `WaiterHasOwner`; `LoadQueue_ranks.cfg`, `FairSpec`, property `TasksComplete` |
| no worker dies inside `Remove` or `MoveTo` | the next to lock the bucket takes the lock over as consistent (`shared_mutex.h:53`) and walks the links the dead worker left half stored (`cache_buffer.h:476`); it may miss a key that is there under the lock and install it in a second slot | `CacheBuffer_two.cfg`, invariant `UniqueKeys` |
| a load that timed out is over | its slot is let go while the backend still writes it; another key's `Wait` then returns OK with the wrong bytes (`load_queue.h:313`) | `LoadQueue_live.cfg`, invariant `OkMeansLoaded` |
| the backend refuses no load after a task's first shard | the waiter is done while earlier shards are queued; they are copied after `Wait` returned (`load_queue.h:192`) | `LoadQueue_live.cfg`, `Workload <- Shared`, invariant `NoCopyAfterWait` |
| a task has no more cold shards than the rank has slots | it waits for slots it holds itself (`load_queue.h:303`) | `LoadQueue_live.cfg`, `Slot = {s1}`, property `GetReturns` |
| a preferred rank reaches its shards | it timed out or failed before; the other rank waits in `Get` for ever (`cache_buffer.h:327`) | `LoadQueue_ranks.cfg`, `Expiring = {t2}`, `FairSpec`, property `GetReturns` |
| the running ring has room when `Close` comes | `Close` joins a dispatcher that waits on a full ring nobody empties any more (`load_queue.h:136`) | `LoadQueue_live.cfg`, `RunningDepth = 2`, property `CloseReturns` |
| the same for dumps | the same | `DumpQueue_ranks.cfg`, `Closing = {0}`, `FairSpec`, property `CloseReturns` |
| no gather fails after another of the task was started | slots are let go that another stream still writes (`dump_queue.h:217`) | `DumpQueue_ranks.cfg`, `Faults <- Everything`, `Streams = 3`, invariant `ReadyHoldsKey` |
| a key whose dump the backend refused is not dumped again | the slots are Ready, the next dump skips them and reports OK (`dump_queue.h:251`) | `DumpQueue_live.cfg`, invariant `OkMeansSubmitted` |
| the owner of a skipped shard does not fail | the skipping dump has reported OK (`dump_queue.h:201`) | `DumpQueue_ranks.cfg`, `Faults <- Everything`, invariant `OkMeansSubmitted` |
| one thread submits to a queue at a time | two overwrite one another in the single-producer ring (`spsc_ring_queue.h:72`) | `SpscRing_one.cfg`, `Producer = {p1, p2}`, `Spec`, invariant `NothingLost` |
| a worker found late is still at its late task when it is stopped | it may take the wake-up of a push with it, or its next task is watched by nobody: a round never ends (`thread_pool.h:148`, 222, 261) | `ShardGc_rounds.cfg`, property `EveryCycleEnds` |
| at most two instances meet at an abandoned gate | the second of two that judged it abandoned removes the gate the first has just made; both join, with different configs (`gc_config_guard.cc:178`) | `GcInstances_two.cfg` with three instances, invariant `ConfigsAgree` |
| a pool acts over the connection a request was sent on | over a later connection it can still begin a transfer for a request that ended long ago; the fence is of the client's side (`transport_executor.h:57`) | `DramClient_pool.cfg`, invariant `NoLateAccess` |
| the memory pool's receiver is not waiting for a message at `Stop` | the join of the receiver does not return (`drampool_server.cc:373`) | `DramPool_serve.cfg`, `Workloads <- Stopping`, property `StopReturns` |
| what is queued at `Stop` need not be answered | the worker looks at the queue before the stop flag, so what is pushed in between is left (`task_worker.cc:57`, 77) | `DramPool_serve.cfg`, `Workloads <- Stopping`, invariant `Drained` |

Three more points that no property speaks of: a dump of a key that another dump
is transferring is answered Ok before that transfer ends; an evicted entry's slot
is freed before its key is erased, in this order (`metadata.cc:174`, 220), and not
the other way round as the comment at `task_worker.cc:364` says; a request whose
results do not fit into a flag slot is dropped without an answer
(`task_worker.cc:130`). `Close` of the load queue completes the waiters without a
synchronize, so `NoCopyAfterWait` is stated for an open queue.

The models also assume what the code assumes of time: a live holder of the
collection lock refreshes its heartbeat, a live instance passes the gate and a
claim that is waited for ends before the stale threshold; heartbeat names are
unique; a fence that the client's transport reports as failed means that the
pool is gone.

## 6. What is left out of the modelled parts

* Metrics, logging, CPU affinity, address arithmetic, wire formats: no state the
  properties speak of.
* Weak memory. Every step reads and writes the current value of a word. The
  words the protocols synchronise on are atomics with acquire/release or locks;
  that plain words (key, chain links) read optimistically may be torn is modelled
  by re-reading them after the pin.
* Cache2: a rank whose stream set-up failed (`Setup` reports it and the store is
  not used); after a synchronize that fails, the copies are taken for abandoned;
  a `Handle` is used by one thread at a time, as in the code.
* Latch: `Done` and the wake-up of `Wait` are one step of their users; `Abort`.
* Thread pool: draining and listing the queue, pushing a list, the destructor, a
  worker that cannot be started.
* Breaker: a check thread that cannot be created; the calls that are passed on
  (`Load`, `Dump`, `Prefetch`, `Check`) are one `Call`, fused with the look at the
  breaker; `SamplePassiveWindow` reads the clock and the total in one step.
* Collection: a heartbeat thread that cannot be started, a refresh that ends
  after its instance gave it up, a member file touched again after it was removed,
  errors of the file system other than those named (in `Join` a count of the members,
  a publication or a registration that fails, after which `Setup` fails), calls of a
  dead process that the storage still carries out,
  the executor's limit of calls, and the text of the published config.
* DRAM client: `Shutdown`, threads that end with an exception, results per entry;
  one transport worker serves all nodes and each node has turns of its own; tasks
  without entries are refused at once.
* DRAM pool: start-up and its rollback, the LRU policy, the poller's report of
  late transfers. An entry whose time to live is 0 counts as expired.

## 7. Not modelled

The other parts of the repository, with the reason in a line each, are the
components with status `not_modelled` in `PROJECT.json`. Most have no concurrent
state of their own to check: configuration and command line parsing, bindings to
services outside the repository, test doubles, deployment and measurement tools,
device kernels and the numerical algorithms of sparse attention, the Python
connectors driven by an engine's scheduler. The cache lookup merges the answers of
the buffer (`Exist`, modelled) and of the backend and changes nothing. The posix
data path, the NFS and PC stores and the first core of the cache store are
protocols with the operating system's files and asynchronous I/O, whose behaviour
would have to be assumed, or are superseded by what is modelled here. The peer to
peer transport (but for the connection check and the disconnect that `DramClient`
relies on), `ucm/v2` and `kv_semantics` are systems of their own that share no
state with the stores above; a specification of them would stand beside this one
rather than extend it.
