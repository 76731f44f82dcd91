# Verification of the GPU-aware LLM serving platform

TLA+ modules that model the platform's serving path, TLC configurations that
check them on small instances, and TLAPS proofs of the results that matter most.
`PROJECT.json` lists components, runs, mutants, the map from definitions to
source lines, hazards and theorems. This document explains them.

Run a configuration with `tlc -workers 2 -config X.cfg MCModule`, check the
proofs of a component with `tlapm <Component>Proofs.tla`.

## 1. Inventory

The platform has two serving paths. The *gateway* (FastAPI, one event loop)
serves local models, either through a batching scheduler (plain requests) or
through a continuous token engine (streams). The *control plane* spreads
requests over workers: admission, a fair queue, placement, dispatch, recovery.

| component | state | operations | interacts with |
| --- | --- | --- | --- |
| KV block allocator `inference/kv_cache.py` | free list, owner tables, reference counts, pressure flag | allocate, retain, resize, release | called by the token engine and paged KV |
| Token engine `inference/token_engine.py`, `token_scheduling.py` | active sequences, per-stream event queues, wake event, scheduler position | reserve, stream, cancel, shutdown, scheduler iterations (sweep, prefill, chunk, decode) | allocator, prefix cache, model backend; readers are gateway streams |
| Prefix cache `inference/prefix_cache.py` | radix tree of KV snapshots, LRU order | lookup, insert, evict, clear | token engine |
| Paged KV `inference/paged_kv.py` | pages, block tables, lengths | allocate, append, materialize, release | an allocator of its own |
| Local scheduler `scheduler/`, gateway `api.py` `main.py` `limits.py` | bounded queue with unfinished count, deferred deque, handles, stored records, slots | generate handler, DELETE, batch collection, execution, shutdown with grace | request store, model call in a thread |
| Gateway streams `apps/gateway/api.py`, `limits.py` | stream slots, tracker, registered requests, stored record | generate_stream and its body, DELETE, close | token engine or the worker's iterator, request store |
| Hugging Face token backend `runtime/huggingface/token_backend.py` | one cache, mask and position per sequence, prefix snapshots | prefill (alone, batched, chunked), snapshot, restore, resume, decode, release, shutdown | called by the token engine, one call at a time |
| Admission `serving_platform/admission/` | per-tenant counters, reservations | decide, mark_running, release (in memory or Lua scripts) | pipeline, registries |
| Fair queue `serving_platform/scheduling/fair_queue.py` | per-tenant queues, deficits, active ring | enqueue, pop, cancel | pipeline, recovery |
| Placement `serving_platform/routing/` | pending reservations | select_and_reserve, release, policies | worker registry, dispatch |
| Control plane `apps/control_plane/service.py`, `scheduler.py` | worker directory, live request records | dispatch, cancel, recover_failed_worker | all of the above, workers |
| Supervisor and lease `apps/control_plane/reliability.py`, `coordination/lease.py` | lease key, stop event | renew or acquire, expire, recover | registry, control plane |
| Pipeline `apps/control_plane/pipeline.py` | none of its own | submit, execute | admission, fair queue, control plane |
| Registries, request stores `serving_platform/registry`, `request_state` | worker snapshots, deep copies or redacted records | register, heartbeat, expire; save, get, list | everyone |
| Managed worker `apps/worker/service.py`, `application.py` | resident and loading models, memory reservations, LRU times, local queue, active requests, health | load, unload, idle eviction, enqueue, cancel, execute_batch, drain, shutdown | runtime (simulated or Hugging Face), registry |
| Worker transport `apps/worker/api.py`, `transport.py` | request copies on both sides | HTTP calls with timeouts | control plane and worker |

Hard behaviours, and what makes each component correct:

- **Allocator**: sequences of calls with shared blocks; a refused call must change
  nothing. Correct when each block is free or referenced by as many owners as its
  count says, never both.
- **Token engine**: cancellation, disconnection, expiry, backend faults and shutdown
  at any `await` of one scheduler task. Correct when blocks and backend state follow
  the active sequences, each stream ends once, no wakeup is lost, and everyone
  waiting is released.
- **Local scheduler**: handlers wake some iterations after their future is done;
  the queue, the deferred deque and the running batch hand requests to each other.
  Correct when each open handle has one owner and `task_done` balances.
- **Admission**: repeated and reordered calls by several processes. Correct when
  counters equal the ledger and no limit is passed.
- **Fair queue**: long sequences of pops, cancellations and re-entries. Correct when
  no tenant with work is forgotten and waiting is bounded.
- **Worker**: runtime calls run without the lock. Correct when memory, residency
  and active work agree whatever the loops and callers interleave.
- **Control plane**: stale copies from the store, lost answers, recovery racing
  cancellation and a second process. Correct when no request is dropped, none runs
  twice without having been put back, a confirmed cancellation is not undone, and
  a reservation ends with its dispatch.
- **Placement**: several handoffs between two heartbeats. Correct when what is
  bound for a worker fits it and every reservation ends with its handoff.
- **Gateway streams**: a body may be cancelled at an await, closed at a yield or
  never started. Correct when slots come back once and an ended body leaves an
  ended record.
- **Token backend, paged KV**: rows are padded, merged, split, copied and blocks
  reused. Correct when each sequence reads exactly what was written for it.

## 2. Modules

| module | models | used by |
| --- | --- | --- |
| `BlockOwnership` | abstract promise of the allocator: who holds which blocks | refined by `KVBlockAllocator`, used by `TokenEngine` |
| `KVBlockAllocator` | `inference/kv_cache.py`, one action per method | `PagedKV` |
| `PagedKV` | a pool in use: by calls of the allocator alone, or by the paged cache on top of it (`paged`, fixed at start) | `MCPagedKV`, `LocalServingProofs` |
| `PrefixEntries` | what the prefix cache answers: an LRU list of prompts | `TokenEngine` |
| `TokenEngine` | the engine; a step is the code between two awaits | `MCTokenEngine`, `TokenEngineProofs` |
| `AdmissionLedger` | abstract promise of admission: a map of reservations within limits | refined by `Admission` |
| `Admission` | both controllers (the variable `shared`, fixed at start, says which) | `MCAdmission`, `GatewayProofs` |
| `LocalScheduler` | gateway handlers, queue, scheduler task, shutdown; `setup`, fixed at start, holds policy and load | `MCLocalScheduler`, `LocalServingProofs` |
| `FairQueue` | deficit round robin with aging | `MCFairQueue`, `FairQueueProofs` |
| `ManagedWorker` | the worker and its loops; a step is a critical section or a runtime call | `MCManagedWorker`, `ManagedWorkerProofs` |
| `SeqFilter` | the filter of a sequence, as a recursive function | `ManagedWorker`, `FairQueue`, `PrefixEntries`, `LocalScheduler`, `TokenBackend`, `FoldFacts` |
| `RequestLifecycle` | the request record, its transition table, what a store and the wire keep of it | `ControlPlane` |
| `ControlPlane` | dispatch, cancellation, recovery, supervisor, lease, stores, registry, pipeline and transport; `setup` holds the deployment | `MCControlPlane`, `ControlPlaneProofs` |
| `Placement` | the six policies, the reservation book, the handoff, stale heartbeats; `setup` holds the policy | `MCPlacement`, `PlacementProofs` |
| `GatewayStream` | `generate_stream`, its body, DELETE, limiter, tracker, shutdown; `engine` says whether there is a token engine | `MCGatewayStream`, `GatewayProofs` |
| `TokenBackend` | caches, masks and positions of the Hugging Face backend | `MCTokenBackend`, `LocalServingProofs` |
| `FoldFacts` | facts about sums over finite sets, sorted finite sets, recursion up to a number, filters and sequences without repetition | `PlacementProofs`, `ManagedWorkerProofs`, `FairQueueProofs`, `TokenEngineProofs`, `LocalServingProofs` |
| `*Proofs` | theorems about the module they are named after; `LocalServingProofs` has those about `KVBlockAllocator`, `PagedKV`, `LocalScheduler` and `TokenBackend`, `GatewayProofs` those about `Admission` and `GatewayStream` | |

How state and actions correspond: variables are named after the fields they
stand for (the comment at each declaration gives the field), actions after the
methods. Where a method releases its lock or awaits, it is several actions, and
a program counter (`sched`, `loader`, `exec`, `evictor`, `app`) carries its local
variables across. Tokens, prompts, models and memory are small numbers or model
values; prompts keep their prefix relation because the cache depends on it. In
`ControlPlane` records are objects on a heap and the store holds copies, because
the hazards there are about which of the two is current; in `TokenBackend` a
cache is an object the model extends in place, and logits are the tokens they were
computed from. Modules that serve several deployments choose one in `Init` and
keep it.

Components that interact are composed where the interaction is the hazard:
`TokenEngine` runs on `BlockOwnership` and `PrefixEntries`, `PagedKV` on the
allocator's own actions, `ControlPlane` joins eleven source files, `LocalScheduler` the
gateway handlers with their queue. Elsewhere a module takes its neighbour by
interface: `GatewayStream` sees the events of an engine, `ControlPlane` a placement
reservation without its memory and a queue without its order.

Actions whose name ends in what a bug would do (`FinishSilent`, `JoinsNever`, ...)
and that are marked *Mutant* are no part of any specification: they show that a
property can fail.

## 3. Runs and bounds

| run (distinct states) | checks | bounds |
| --- | --- | --- |
| `kv_allocator` (2.8 thousand) | block accounting, pressure hysteresis, refinement of `BlockOwnership`, with and without a paged cache on the pool; a gather returns what was appended | 3 owners, 3 blocks of 2: sharing, exhaustion, reuse out of order and appends across blocks all occur |
| `engine_safety` (650 thousand) | ownership, one end per stream, budgets, wakeups, uniform batches, cache limits, shutdown | 2 requests whose prompts share a prefix, 5 blocks (exactly both), cache for one of the prompts, faults everywhere, one request interrupted |
| `engine_chunked` (217 thousand) | blocks cover tokens with chunked prefill and rough reservations, `resize` refused and granted; sequences end, readers are released, shutdown completes | chunks of 2, batches of 1, prefill-first, one request interrupted |
| `admission` (2.9 thousand) | counters equal the ledger within its limits, refinement of `AdmissionLedger` | both controllers, 4 requests of 2 tenants; each limit is the binding one somewhere |
| `local_scheduler` (84 thousand) | queue accounting, one owner per handle, batch rules, nothing cancelled completes, every handler ends | 3 requests, queue and batches of 2, three setups (two kinds, one request above the budget, serial policy), so deferral and overflow occur; the grace period may end in a model call |
| `fair_queue` (25 thousand) | no tenant forgotten or visited twice, bounded bypass and overtaking, every request leaves | 3 tenants, 6 requests of 1 to 3 quanta, 2 priorities, 2 instants |
| `managed_worker` (1.9 million) | one loader and one reservation per load, queued work keeps its model, shutdown settles everything | 2 callers, 2 models that do not fit together, 1 request, explicit unloads and idle scans |
| `managed_worker_fair` (166 thousand) | ends are final, every load returns, every queued request ends | 2 callers, 1 model, 2 requests in batches of 1 |
| `control_plane` (1.5 million) | reservations end with their dispatch, no request is dropped, none runs twice unless put back, nothing cancelled completes, no invalid transition, the lease passes by expiry or by its owner | four deployments: in-process workers (2), one HTTP worker, two processes sharing Redis and a lease, the pipeline with 2 requests; 2 attempts, 4 records, any 2 of: crash, refusal, lost answer, failed save, late heartbeat, deadline, expired lease, cancellation |
| `placement` (1.7 million) | the book is exact, what is bound for a worker fits, round robin rotates | 3 requests, 2 models of which a worker holds one, 2 workers, each policy, three more setups (all warm, all cold, a worker that does not report memory), 1 event beside heartbeats |
| `gateway_stream` (238 thousand) | slots and streams held by whom they belong to, an ended body has an ended record, every stream ends | 2 requests, 2 slots and 1 engine sequence, so the engine refuses one; with and without an engine |
| `token_backend` (190 thousand) | tokens sampled from their own history, caches aligned, snapshots frozen | 2 sequences, one prompt extending the other, up to 3 tokens from a vocabulary of 2, 1 snapshot |

Bookkeeping invariants are conjunctions of named parts: `EngineInv` (types, ownership
follows the active sequences, token budgets, uniform decode batches, cache limits, no
lost wakeup, shutdown leaves nothing), `AccountingInv` (types, counters equal the
ledger, limits), `SchedulerInv` (types, queue accounting, one owner per handle, batch
rules, no abandoned handle), `RoundInv` (types, covered work, exact queues),
`WorkerInv` (types, reservations match loads, queued models resident, no work after
stop), `PlaneInv` (types, reservations),
`PlacementInv`, `StreamInv` (types, slots, records). `EveryStreamEnds` and `WorkEnds` are
conjunctions of two leads-to formulas each. Every property has a mutant of the code
that breaks it; of a conjunction the mutant breaks one part.

Two requests (or callers) are enough for the races of the engine, the worker and
the streams because each race is between one of them and one peer, the scheduler, or
shutdown; where three parties matter (batch, deferred, queue; two handoffs of one
model and one of another) there are three. In the control plane one request is
enough for dispatch against cancellation, recovery and loss, since only the
pipeline lets one request meet another. Two events allow one fault and one
reaction to it, which is what the exceptions in the properties need.
Named bounds: `MaxTokens`, `MaxFailures`, `Interruptible`, `Impatient`, `MaxTime`,
`Cancellable`, `Retriable`, `MaxStarts`, `MaxLoads`, `MaxRecords`, `MaxTries`,
`MaxEvents`, `setup.events`, `MaxNew`. `CHECK_DEADLOCK FALSE` stands where every actor
may be done.

### Fairness

- `TokenEngine`: the scheduler task, readers at their `get`, and shutdown. The event
  loop resumes every task whose await is over, and backend calls return. Nothing is
  assumed of callers.
- `LocalScheduler`: scheduler task, the timer that closes a batch window, the model
  call, the handlers after their future is done, and shutdown, for the same reasons.
- `FairQueue`: `pop` is called again and again, as the pipeline does on submission.
- `ManagedWorker`: a thread inside a call goes on (each loader on its own), the
  execution loop polls, the eviction thread and `shutdown` go on. All weak.
- `GatewayStream`: the event loop resumes handlers and bodies, a client reads on or
  disconnects, the server opens the body or drops the response, and the source (engine
  or iterator) gets to the end of a sequence, which `engine_chunked` shows of the engine.
- `KVBlockAllocator`, `Admission`, `ControlPlane`, `Placement` and `TokenBackend` state no
  fairness: nothing in the code makes a client repeat a call, a worker come back or
  a process reach its next loop.

## 4. Disagreements met while modelling

The models behave as the code does at these places, and the properties are
stated so that they do not claim the opposite; where a property has an exception,
it is one of these.

Token engine and gateway:

- With chunked prefill and the prefix cache together, a peer's entry makes a
  half-prefilled sequence fail (`token_engine.py:292`); `docs/token-scheduler.md:25` says
  a later request restores its prefix into an independent sequence. `engine_safety` has
  the cache, `engine_chunked` the chunks.
- An exception of `snapshot_prefix` ends the scheduler task and readers wait for ever
  (`token_engine.py:368`); `docs/failure_semantics.md:12` says a model exception produces
  an error. `engine_safety` includes it, the liveness run does not.
- A generate handler that wakes after DELETE overwrites the stored CANCELLED record
  (`api.py:246`), against the final states of `domain/models.py:115`. A client that
  disconnects just after the result was set leaves the stored record queued, because
  the transition from queued to completed is refused (`api.py:242`).
- A stream's body saves its own record after DELETE saved a copy: COMPLETED replaces
  CANCELLED (`api.py:511`; `docs/failure_semantics.md:7`).
- A streaming response whose body is never iterated keeps its slot and its engine
  reservation (`api.py:513`); `orphaned` is the exception in `StreamsEnd`. A body
  closed at a yield leaves its record open and registered; `unfinished` is the
  exception in `EndedIsRecorded`.
- A grace period that ends inside a model call cancels the scheduler and leaves the
  handles of deferred requests open (`main.py:60`); `docs/failure_semantics.md:13`
  says shutdown rejects them. `LeftDeferred` is the exception.
- Left padding in `prefill_batch` gives the rows of a batch absolute positions that
  depend on their longest peer (`token_backend.py`). `CacheSpellsSequence` claims
  consecutive positions, not their origin.

Control plane and placement:

- RUNNING is not saved during execution, so a started request whose worker is lost
  looks assigned and is run again (`control_plane/service.py:117`), against
  `docs/failure_semantics.md`. So does one whose handoff was accepted while the
  answer was lost (`transport.py:98`). `rerun` is the exception in
  `RunsOnceUnlessRequeued`.
- The first save of `dispatch` is outside its `try`: if it raises, the placement
  reservation stays (`service.py:55`). `unsaved` is the exception in `PlaneInv`.
- A failed dispatch is not saved (`service.py:77`), so the stored record still says
  assigned; a later recovery enqueues the request again, `enqueue` raises "already
  queued", and the supervisor ends (`reliability.py:57`), action `SupFails`.
- Recovery walks a copy of the store and queues again a request cancelled meanwhile
  (`service.py:113`); an HTTP answer applied after a cancellation overwrites CANCELLED.
- The pipeline leaves a terminal live record unsaved (`pipeline.py:141`, `:150`), and
  after a recovery pops a record other than the one it submitted (`pipeline.py:115`);
  `abandoned` is the exception in `NoRequestLost`.
- Accepted handoffs are invisible to placement until the next heartbeat, against the
  docstring at `reservations.py:27`. A handoff that was not charged, because an earlier
  one of its model was, stays uncharged when that one fails (`reservations.py:67`);
  `disturbed` is the exception in `NoOvercommit`.
- `DemandAwarePlacementPolicy` counts resident replicas only, not loads under way.

Worker, admission, fair queue:

- An idle scan unloads a model whose request was taken into a batch
  (`worker/service.py:250`); `docs/failure_semantics.md:34` calls eviction protected.
- `load_model` takes an evicted model out of the resident ones before it is unloaded
  (`service.py:221`). A load of that model meanwhile finds it loaded and publishes
  it after it is gone; evicting it again later frees nothing, and two loads that
  count on it exceed the device. It takes four models (sizes 1, 2, 2, 3 on a device of 4).
- A waiter that runs only after the next attempt has started does not see the failure
  of the attempt it joined (`service.py:177`) and loads by itself;
  `docs/failure_semantics.md:32` says waiters receive the same failure.
- The Redis controller looks at the deadline and at worker health before it looks
  for the reservation (`redis_controller.py:174`), so a repeated admission may be
  refused; `docs/failure_semantics.md:61` says it returns the reservation, as the
  in-memory controller does.
- `pop` serves one request per visit and keeps the unused deficit
  (`fair_queue.py:80`), so tenants with requests below one quantum get one request
  per round whatever their weight; `docs/decisions.md:31` says service is by weight.

## 5. Proofs

The theorems hold for every value of the constants: any number of requests,
owners, workers, processes and tenants, any sizes and limits, and every
deployment. Their only assumptions are the `ASSUME` of each module, which states
what constructors and configuration demand (positive sizes, ordered watermarks,
model values that are no numbers) and which TLC evaluates on every run. Each
result is stated of the same `Spec` a run checks.

### KV block allocator (`LocalServingProofs`)

- `TypeCorrect`: `Spec => []TypeOK`;
- `AccountingHolds`: `Spec => []BlockAccounting`, what `assert_invariants` checks;
- `PressureTracks`: the flag agrees with use outside the watermarks;
- `PressureSteady`: between them no call changes it;
- `AllocatorImplementsOwnership`: each step is a step of `BlockOwnership` or a stutter.

`BlockAccounting` says that the free list has no repetition, is
disjoint from the referenced blocks and with them makes up the pool, that tables
have no repetition, and that each count equals the number of owners. It speaks of
the cardinality of sets of owners, and cardinalities only behave for finite
sets. Hence `IInv == TypeOK /\ IsFiniteSet(DOMAIN owners) /\ BlockAccounting`: a
release of the last reference must free the block, and a count that drops from
two to one must leave exactly one owner, both of which need finiteness. Each
action has its lemma (`AllocateIInv`, `RetainIInv`, `ResizeGrowIInv`,
`ResizeShrinkIInv`, `ReleaseIInv`); the facts about popping, appending to and
cutting block lists are lemmas of their own. The refinement follows from the same
invariant: blocks taken were available, blocks cut by a resize were exclusive.

### Paged KV storage (`LocalServingProofs`)

- `PoolUsesAllocator`: `PoolSpec => Spec`, so the allocator's theorems hold of a pool;
- `GathersWhatWasAppended`: `PoolSpec => []MaterializesWhatWasAppended`.

A gather is right because in a paged pool no block has two owners: an append then
writes into no other sequence's row. The invariant adds to the allocator's that
tables of different owners are disjoint, that each table has the blocks its length
needs, and that position `i` of a sequence is stored in block `i \div BlockSize` of
its table. Blocks are reused without being cleared when they are taken; what makes
this harmless is that a gather reads positions below the length only.

### Local scheduler (`LocalServingProofs`)

- `SchedulerCorrect`: `SchedulerSpec => []SchedulerInv`;
- `CancelledStaysCancelled`: `SchedulerSpec => CancelledNeverCompletes`.

`SchedulerInv` counts in how many places an open request is. That is not inductive,
because a cancelled request stays where it is until the scheduler meets it, and
may then be timed out or failed. The invariant `SchedulerIInv` therefore speaks of
the places: queue, deque and batch have no repetition and share nothing (`Apart`); whatever
is in one of them is open or cancelled, whatever is open is in one of them, and the
future is set exactly when the status is terminal (`Told`). `Sound` says this of
any intermediate state of `collect_batch` and `process_batch`, so that it can be
followed through them: one look at a request (`ConsiderSound`), the scan of the
deque, which is a recursion over its length (`ScanSound`), the start of a batch
(`AdmitSound`), the end of an iteration (`EmptiedSound`). That the batch stays within
its budget is a fact about a sum over the batch (`CostFacts`). `LoopHolds` relates the
position of the task to what it holds, `Closing` the sentinel to the
lifespan: after `close` the queue is the sentinel alone until the task takes it, so
a stopped task has rejected its deque, unless it was cancelled in the model call. `Handlers`
ties a request to its handler and its record: a record saved as CANCELLED belongs to
a request that can no longer complete, and a waiting handler's own record is still
QUEUED, so its end writes the status it reads. The case that could break
`CancelledNeverCompletes` is a result delivered after DELETE, and `Outcome` checks for it.

### Token backend (`LocalServingProofs`)

- `CachesSpellSequences`: `BackendSpec => []CacheSpellsSequence`;
- `TokensFromOwnHistory`: `BackendSpec => []SampledFromOwnHistory`;
- `SnapshotsStayFrozen`: `BackendSpec => []SnapshotsFrozen`.

These invariants speak of what a mask selects from a cache. The inductive invariant
`BackendIInv` says how it comes to select that: `Spells(c, m, h)` means that the cache `c`
begins with some number of masked places, and that after them stand the tokens
of `h`, unmasked, each computed for the place it stands at. Then attention under the mask sees
exactly `h` (`SpellsMeans`), and feeding more tokens at the end, at the position the
length of the cache gives, spells `h` continued (`SpellsMore`, `PaddedSpells`). The position
matters: `decode_batch` uses that of its first row for all, which is right because the
engine groups by the length it was told, and `RowsHold` says that this is the length of the
cache. `RowsHold` gives for each sequence what its cache spells, its last
token, and that logits kept with it are those of its prompt; `SnapshotsHold` says the same of
snapshots. `OwnCaches` says that no two records share a cache object, which is what keeps a call
that extends a cache in place away from everybody else (`UpdateRows`). New objects need a
free address: records are fewer than addresses, so there is an injection from the rows
of a batch into the free ones (`AddressesLeft`, `FitsInto`). Nothing is said of a
sequence whose call raised until the engine has released it, and an empty
one is fed from the start. The assumptions are that tokens are natural numbers, prompts are not empty and
`None` is none of the values it stands for the absence of.

### Token engine (`TokenEngineProofs`)

- `EngineCorrect`: `Spec => []EngineInv`;
- `BlocksAlwaysCover`: `Spec => []BlocksCoverTokens`;
- `StreamsEndOnceCorrect`: `Spec => []StreamsEndOnce`;
- `InterruptedStaysSilent`: `Spec => InterruptedIsSilent`;
- `FailuresAreFaults`: `Exact /\ OneLookup /\ Spec => []FailsOnlyOnBackendFault`.

The scheduler task works on lists it made before its last await, while callers cancel,
readers leave and shutdown begins. The invariant `IInv` says why that is harmless.
`Membership` says that a sequence is in `_active` exactly while its phase is not terminal,
or while it is the one whose backend state is being released; with it a second end of the same
sequence finds nothing to end. `Plan` says of every await what the loops hold: whatever is still to be
done is to be done once, for sequences that are alive and in the phase the loop
expects (`Work`, `Stage`), results at hand belong to the sequences next in line,
and one that is no failure left its sequence in the backend with its prompt in the cache
(`Results`). Only the scheduler's own steps end sequences, which is what keeps `Plan` true when
others run. `Ownership` gives blocks and backend state to active sequences, `Filled`
says what a phase tells about the record, `Bounded` what the cache keeps after
an eviction loop, and `Quiet` what a task that has not started, or has ended, and a
shutdown leave. Steps are proved by kind: those that end no sequence (`QuietStep`),
model calls (`CallStep`), a sequence that goes on (`AdvanceStep`) or ends (`FinishStep`).

`FailsOnlyOnBackendFault` needs `FaultInv` on top, and two hypotheses. `Exact`: the
reservation is made for the real length of the prompt; otherwise `resize` may find the pool
full and fail a sequence no backend call failed. `OneLookup`: prompts are prefilled in one go or
nothing is cached; with both chunks and a cache a half-prefilled sequence may meet a
peer's entry (section 4). Run `engine_safety` satisfies both, and the other theorems need neither.

### Admission (`GatewayProofs`)

- `CountersAreTheLedgers`: `Spec => []AccountingInv`, for both controllers;
- `ControllersImplementLedger`: `Spec => ImplementsLedger`.

The counters are integers the code moves up and down, the ledger a map; the proof
shows that each call changes the cardinality of exactly the sets it should. The
invariant adds that the sets are finite. The in-memory controller adds up its tenants' counters
where the Redis one has a global counter; both equal the same cardinality.

### Gateway streams (`GatewayProofs`)

- `StreamsHoldTheirSlots`: `StreamSpec => []StreamInv`;
- `EndedStreamsAreRecorded`: `StreamSpec => []EndedIsRecorded`.

`StreamInv /\ EndedIsRecorded` is inductive. `RecordsFollow` is the part that was
needed for it: a body that ends by itself has a final status at that point, and
DELETE only finds requests whose stored record is open.

### Control plane (`ControlPlaneProofs`)

- `ReservationsAreReleased`: `Spec => []PlaneInv`;
- `RequestsAreKept`: `Spec => []NoRequestLost`;
- `TransitionsAreAllowed`: `Spec => NoInvalidTransition`;
- `LeaseIsRespected`: `Spec => LeaseLeftByOwnerOrExpiry`;
- `RequestsRunOnce`: `Spec => []RunsOnceUnlessRequeued`;
- `CancellationIsFinal`: `Spec => CancelledNeverCompletes`.

Records are live objects that consumers, cancellations, recoveries and in-process
workers share, and the argument is one of ownership. `OnePlace` says that a record is
in one global queue, with one consumer or at one worker, and that only an
in-process worker and the consumer that awaits it share one. `PlaceTellsStatus`
says what status a record has in each place; it is what tells a handler that its
`transition` is allowed, although between two awaits others ran. `NoRequestLost` is
needed in the invariant itself. Each action has one lemma (`AssignStep`, `CommitStep`,
`SupRequeuesStep`, ...), which proves the invariant after the step and that
the step is `Lawful`, what `NoInvalidTransition` says of one step. `LeaseIsRespected`
needs the type invariant only.

The last two theorems need a second invariant on top of the first, because a request
may have many records: copies in the store, in a supervisor's list and, over HTTP, at
the worker. `RunInv` counts those that matter. `OneExecution` says that unless the
request was put back at most one of its records may still start or is executing, that
none may start once one has run, and that a consumer awaits that one.
`NothingLeft` says that from the moment a cancellation has found its record, before it
is confirmed, no record of the request may start, an executing one is already
terminal, and no consumer is about to take over a completed one. `CreatedFirst` (a
request is created before there is anything of it) keeps a submission from adding a second
record, `AwaitsItsOwn` ties the record a consumer awaits to the one it holds, and `Redacted` is why
recovery reruns nothing with the Redis store: the prompt is not in it. Each action
has a second lemma (`TakeRuns`, `HandoffRuns`, `CancelActRuns`, ...); most are instances of
`KeptRuns`, for steps after which no more can start, run or be awaited than before.

### Placement (`PlacementProofs`)

- `PlacementsAreReserved`: `Spec => []PlacementInv`;
- `MemoryIsNotOvercommitted`: `Spec => []NoOvercommit`;
- `RoundRobinIsFair`: `Spec => []RoundRobinRotates`.

`NoOvercommit` is far from inductive: the book decides on snapshots of any age, and
only the first handoff of a cold model is charged for it. `Tracked` is what makes the
accounting right where nothing was disturbed: a model on a worker, or bound for it, is in the
registry's snapshot or some pending handoff there is charged for it, and a handoff
that could give up its charge (ready, accepted, refused) has a model the registry has
heard of. The free memory a policy sees is therefore at most the free memory there is
(`RoomForChoice`), whichever of the six chose. `BoundFits` says the same one step
earlier, between choice and reservation, where `registry.get` reads the registry a
second time. A failed load or an eviction breaks `Tracked`; such workers are in
`disturbed`, and the worker's own check (`Load`) is what protects them. `Rotation`
says that the choices recorded since the candidates last changed are at consecutive places
of their sorted list. The proof assumes of the setups that what is resident at the
start fits, since the worker loaded it under its own check.

### Managed worker (`ManagedWorkerProofs`)

- `WorkerBooksHold`: `Spec => []WorkerInv`;
- `EndsAreFinal`: `Spec => TerminalIsFinal`.

Two arguments run side by side. Reservations are about owners: `LoadsOwned` says that a
model in `_loading_models` has exactly one caller between its reservation and its
finally clause, that other models have none, and that the reserved memory is the sum
over `_loading_models`. A caller woken after a failed attempt may become the next owner,
which is why the invariant speaks of where every caller is, not only of the counter.
Requests are about status: `StatusTells` says that what is QUEUED is in the queue once,
what is RUNNING is in a batch not yet settled, and nothing in a batch is still
queued; without the last, settling a batch could end a request that is waiting.
`StoppedIsIdle` adds that a stopped worker has gone through shutdown, after the
execution loop ended. Queued requests keep their models because a load
evicts only idle models and `unload_model` looks at the queue in the critical section
that takes the model. That the selection of a batch loses and doubles nothing
(`SelectionFacts`) is a property of a recursive function over the queue.

### Weighted fair queue (`FairQueueProofs`)

- `RoundHolds`: `Spec => []RoundInv`;
- `BypassIsBounded`: `Spec => []BoundedBypass`;
- `OvertakingIsBounded`: `Spec => AgingBoundsOvertaking`.

`BoundedBypass` speaks of how often others were served since a tenant was, and nothing in
the code counts that. What makes it provable is that the deficit counts the visits
that were in vain. `Waits(t, i, v)` says that `t` stands at place `i` of the round
and that after `v` such visits its deficit holds at least `v` quanta, which together
are less than its dearest request; then `passed + i - 1 <= (n - 1) * (v + 1)`. A pop that
does not reach `t` serves one tenant and moves `t` up by at least one; one
that visits `t` in vain sends it to the end of a round of at most `n` tenants and makes `v + 1` of
`v`. `Patience`, that every tenant with work waits so for some `i` and `v`, is inductive
together with `RoundInv`, and `v` is below the quanta of the dearest request, which is the bound.
That a tenant is never twice in the round is what keeps the round that short. For aging the
proof shows that `_next_for_tenant` finds a request no other comes before and that the
order of effective priorities does not depend on when it is computed.

### Facts about recursive definitions (`FoldFacts`)

These proofs need what recursive definitions compute, and the library's induction rules
take an operator as parameter, which the provers cannot instantiate. `FoldFacts` goes
another way: the set of counterexamples has a least number (`LeastNatural`) or a
smallest finite set (`SmallestSet`), or a set that contains 0 and with each number the next
contains all of `0..n` (`Climbs`). It has the facts about `SumFunctionOnSet` (a sum
unfolds, grows with its set, is covered by another where each element is), about
places in sorted sets, about functions defined by recursion on `0..n` (`Iterates`),
about `Keep`, and about cutting and joining sequences without repetition. `SeqFilter` exists because the provers do not expand the standard
`SelectSeq`.

### Only model-checked

- `StreamsEnd`, `EveryStreamEnds`, `WorkEnds` and the other leads-to properties:
  liveness under fairness is out of the prover's reach.

## 6. Plan

The models of the plan are there: allocator and paged KV, token engine and
backend, admission, local scheduler, fair queue, worker, control plane,
placement, streams. Every invariant, action property and refinement a run checks is
proved; what is left to TLC is listed above.

Modelling that could follow: the radix tree of the prefix cache against
`PrefixEntries`; `ControlPlane` with the order of `FairQueue` and the memory of
`Placement`.

## 7. Not modelled

Benchmarks, topology scores, the `torch.distributed` wrapper, authentication,
configuration, metrics and tracing keep no state the serving path decides on.
Tensor work, sampling and tokenizing are external: a model call returns, reports
a failure or raises. Fault injection is test support; its faults are the failing
calls of the models. Deployment files are not code.

Abstractions of what is modelled: the prefix cache is its list of entries, not
its tree; metrics and the worker's heartbeat snapshots are left out of
`ManagedWorker` (`Placement` and `ControlPlane` have the heartbeats); at most one thread
is inside `unload_model` or the idle scan at a time; deadlines, overdue heartbeats
and leases expire nondeterministically; serialization is the set of fields it
carries; placement scores are compared as integers after multiplication by their
denominators; explanations, event texts and HTTP statuses are left out.
