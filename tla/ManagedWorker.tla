--------------------------- MODULE ManagedWorker ----------------------------
(***************************************************************************)
(* ManagedWorker (apps/worker/service.py) under the loops of               *)
(* WorkerApplication (apps/worker/application.py): model loading with its  *)
(* memory reservations, coalesced loads and LRU evictions, explicit        *)
(* unloads and idle eviction, the local queue and its batches, drain and   *)
(* shutdown.                                                               *)
(*                                                                         *)
(* The worker's state is guarded by one lock, but every call into the      *)
(* runtime is made without it.  An action is one critical section or one   *)
(* runtime call.  Threads: the loaders (callers of load_model), the        *)
(* execution loop, the eviction loop, and the one that shuts down.  The    *)
(* runtime is the simulated one, which checks memory before it loads.      *)
(***************************************************************************)
EXTENDS Integers, Sequences, FiniteSets, SequencesExt, FiniteSetsExt, SeqFilter

CONSTANTS
    Model, Request, Loader,
    ModelOf,             \* [Request -> Model]
    Size,                \* estimated_memory_bytes of a model
    TotalMemory,         \* memory of the runtime's device
    SafetyReserve,       \* memory_safety_reserve_bytes
    Kind,                \* what must agree in a batch: the model and the parameters
    Tokens,              \* estimated_tokens of a request
    max_queue_depth, max_batch_size, max_batch_tokens,
    Unloads,             \* models that unload_model is called for from outside
    IdleEviction,        \* the eviction loop runs
    RuntimeMayFail,      \* calls into the runtime may raise
    MaxStarts,           \* bound on the runs of the application
    MaxLoads             \* bound: no call of load_model after this many attempts

ASSUME WorkerAssumption ==
    /\ IsFiniteSet(Model) /\ ModelOf \in [Request -> Model]
    /\ Size \in [Model -> Nat \ {0}]
    /\ Tokens \in [Request -> Nat \ {0}]
    /\ \A r, q \in Request : Kind[r] = Kind[q] => ModelOf[r] = ModelOf[q]
    /\ Unloads \subseteq Model
    /\ {TotalMemory, max_queue_depth, max_batch_size, max_batch_tokens} \subseteq Nat \ {0}
    /\ {SafetyReserve, MaxStarts, MaxLoads} \subseteq Nat
    /\ {IdleEviction, RuntimeMayFail} \subseteq BOOLEAN

VARIABLES
    health,      \* _health
    draining,    \* _draining
    resident,    \* _resident_models
    loading,     \* _loading_models
    lru,         \* _model_last_used: models from least to most recently used
    reserved,    \* _reserved_model_memory_bytes
    attempts,    \* _load_attempts
    failures,    \* _load_failures: the attempt that failed last, 0 for none
    loaded,      \* models loaded in the runtime
    incoming,    \* models the runtime is loading, memory checked
    loader,      \* where each loader is, with its local variables
    queue,       \* _queue
    batch,       \* the requests of the executing batch
    exec,        \* where the execution loop is
    status,      \* RequestRecord.status
    expired,     \* requests past their deadline
    evictor,     \* where the eviction thread is, with the models it still has to unload
    app,         \* where WorkerApplication.run is: "off", "running", "failing", "unloading"
    stop,        \* the event _stop
    unloading,   \* resident models shutdown still has to unload
    starts       \* runs of the application

modelVars == <<resident, loading, lru, reserved, attempts, failures>>
runtimeVars == <<loaded, incoming>>
workVars == <<queue, batch, exec, status, expired>>
lifeVars == <<health, draining, app, stop, unloading, starts>>
vars == <<modelVars, runtimeVars, workVars, lifeVars, loader, evictor>>

Terminal == {"COMPLETED", "FAILED", "CANCELLED", "TIMED_OUT"}
NoModel == "none"
Idle == [at |-> "idle", model |-> NoModel, joined |-> 0, attempt |-> 0,
         evict |-> <<>>, todo |-> <<>>]
InLoad == {"evict", "load", "loading", "warm", "publish", "fail", "cleanup"}

Sum(S) == SumFunctionOnSet(Size, S)
Accepting == health = "healthy" /\ ~draining

\* self._model_last_used[m] = now, and pop.
Drop(s, S) == Keep(s, Model \ S)
Touch(s, m) == Append(Drop(s, {m}), m)

TypeOK ==
    /\ health \in {"registering", "healthy", "stopped"}
    /\ {draining, stop} \subseteq BOOLEAN
    /\ {resident, loading, loaded, incoming, unloading} \subseteq SUBSET Model
    /\ lru \in Seq(Model)
    /\ reserved \in Nat
    /\ attempts \in [Model -> Nat]
    /\ failures \in [Model -> Nat]
    /\ \A l \in Loader : loader[l].at \in InLoad \cup {"idle", "wait"}
    /\ queue \in Seq(Request)
    /\ Len(queue) <= max_queue_depth
    /\ Len(batch) <= max_batch_size
    /\ exec \in {"idle", "enter", "call", "generate", "failed", "done"}
    /\ app \in {"off", "running", "failing", "unloading"}
    /\ status \in [Request -> Terminal \cup {"ASSIGNED", "QUEUED", "RUNNING"}]

-----------------------------------------------------------------------------
(* load_model.                                                             *)

\* The keys of _active_requests.
Active == IF exec \in {"call", "generate", "failed"} THEN Range(batch) ELSE {}

Queued(m) == \E r \in Range(queue) : ModelOf[r] = m
Busy(m) == Queued(m) \/ \E r \in Active : ModelOf[r] = m

\* available memory as the runtime reports it, less the reservations.
Usable == TotalMemory - Sum(loaded) - reserved - SafetyReserve

Evictable == {m \in resident : ~Busy(m)}

\* Resident models by last use; one without an entry counts as oldest.
EvictionOrder == Keep(SetToSeq(resident \ Range(lru)) \o lru, Evictable)

SizeOf(s) == FoldLeft(LAMBDA n, x : n + Size[x], 0, s)

\* The shortest prefix of the order that makes room for m.
Evictions(m) ==
    LET ks == {k \in 0..Len(EvictionOrder) : Usable + SizeOf(SubSeq(EvictionOrder, 1, k)) >= Size[m]}
    IN  IF ks = {} THEN <<>> ELSE SubSeq(EvictionOrder, 1, Min(ks))

HasRoom(m) == Usable + SizeOf(EvictionOrder) >= Size[m]

\* The end of the first critical section: reserve and become the loader of m, or
\* MemoryError.
Reserve(l, m) ==
    IF ~HasRoom(m)
    THEN loader' = [loader EXCEPT ![l] = Idle] /\ UNCHANGED modelVars
    ELSE LET out == Evictions(m)
         IN  /\ resident' = resident \ Range(out)
             /\ lru' = Drop(lru, Range(out))
             /\ attempts' = [attempts EXCEPT ![m] = @ + 1]
             /\ loading' = loading \cup {m}
             /\ reserved' = reserved + Size[m]
             /\ loader' = [loader EXCEPT ![l] = [Idle EXCEPT
                             !.at = IF out = <<>> THEN "load" ELSE "evict",
                             !.model = m, !.attempt = attempts[m] + 1,
                             !.evict = out, !.todo = out]]
             /\ UNCHANGED failures

Hit(l, m) ==
    /\ lru' = Touch(lru, m)
    /\ loader' = [loader EXCEPT ![l] = Idle]
    /\ UNCHANGED <<resident, loading, reserved, attempts, failures>>

Joins(m) == m \in loading

\* Entry: a hit, a wait for the load in progress, or an attempt of its own.
LoadModel(l, m) ==
    /\ loader[l].at = "idle"
    /\ Accepting
    /\ \/ m \in resident /\ Hit(l, m)
       \/ /\ m \notin resident /\ Joins(m) /\ attempts[m] < MaxLoads
          /\ loader' = [loader EXCEPT ![l] = [Idle EXCEPT !.at = "wait", !.model = m,
                                                          !.joined = attempts[m]]]
          /\ UNCHANGED modelVars
       \/ m \notin resident /\ ~Joins(m) /\ attempts[m] < MaxLoads /\ Reserve(l, m)
    /\ UNCHANGED <<runtimeVars, workVars, lifeVars, evictor>>

\* A waiter is notified and finds its model no longer loading: resident, failed
\* in the attempt it joined, or (after another attempt) to be loaded by itself.
Wake(l) ==
    LET m == loader[l].model
    IN  /\ loader[l].at = "wait"
        /\ m \notin loading
        /\ \/ m \in resident /\ Hit(l, m)
           \/ /\ m \notin resident /\ failures[m] = loader[l].joined
              /\ loader' = [loader EXCEPT ![l] = Idle]
              /\ UNCHANGED modelVars
           \/ m \notin resident /\ failures[m] # loader[l].joined /\ Reserve(l, m)
        /\ UNCHANGED <<runtimeVars, workVars, lifeVars, evictor>>

Goto(l, pc) == loader' = [loader EXCEPT ![l].at = pc]

\* runtime.unload_model of the evicted models, one call each.
EvictOne(l) ==
    /\ loader[l].at = "evict"
    /\ \/ /\ loaded' = loaded \ {Head(loader[l].todo)}
          /\ loader' = [loader EXCEPT ![l].todo = Tail(@),
                                ![l].at = IF Len(loader[l].todo) = 1 THEN "load" ELSE "evict"]
       \/ RuntimeMayFail /\ Goto(l, "fail") /\ UNCHANGED loaded
    /\ UNCHANGED <<incoming, modelVars, workVars, lifeVars, evictor>>

FreeMemory == TotalMemory - Sum(loaded)

\* runtime.load_model: nothing for a loaded model, MemoryError without room.
RuntimeLoad(l) ==
    LET m == loader[l].model
    IN  /\ loader[l].at = "load"
        /\ Goto(l, IF m \in loaded THEN "warm"
                   ELSE IF Size[m] > FreeMemory THEN "fail" ELSE "loading")
        /\ incoming' = IF m \notin loaded /\ Size[m] <= FreeMemory THEN incoming \cup {m}
                       ELSE incoming
        /\ UNCHANGED <<loaded, modelVars, workVars, lifeVars, evictor>>

\* The load ends, well or badly.
RuntimeLoaded(l) ==
    LET m == loader[l].model
    IN  /\ loader[l].at = "loading"
        /\ incoming' = incoming \ {m}
        /\ \/ loaded' = loaded \cup {m} /\ Goto(l, "warm")
           \/ RuntimeMayFail /\ Goto(l, "fail") /\ UNCHANGED loaded
        /\ UNCHANGED <<modelVars, workVars, lifeVars, evictor>>

\* runtime.warmup_model requires the model to be loaded.
Warmup(l) ==
    /\ loader[l].at = "warm"
    /\ Goto(l, IF loader[l].model \in loaded THEN "publish" ELSE "fail")
    /\ UNCHANGED <<modelVars, runtimeVars, workVars, lifeVars, evictor>>

\* The critical section that publishes residency.
Publish(l) ==
    LET m == loader[l].model
    IN  /\ loader[l].at = "publish"
        /\ resident' = resident \cup {m}
        /\ lru' = Touch(lru, m)
        /\ failures' = [failures EXCEPT ![m] = 0]
        /\ Goto(l, "cleanup")
        /\ UNCHANGED <<loading, reserved, attempts, runtimeVars, workVars, lifeVars, evictor>>

\* The except clause: note the failure, put back what is still loaded.
LoadFails(l) ==
    LET kept == Keep(loader[l].evict, loaded)
    IN  /\ loader[l].at = "fail"
        /\ failures' = [failures EXCEPT ![loader[l].model] = loader[l].attempt]
        /\ resident' = resident \cup Range(kept)
        /\ lru' = Drop(lru, Range(kept)) \o kept
        /\ Goto(l, "cleanup")
        /\ UNCHANGED <<loading, reserved, attempts, runtimeVars, workVars, lifeVars, evictor>>

\* Mutant: the model is still marked as loading.
CleanupKeepsMark(l) ==
    /\ loader[l].at = "cleanup"
    /\ reserved' = reserved - Size[loader[l].model]
    /\ loader' = [loader EXCEPT ![l] = Idle]
    /\ UNCHANGED <<resident, loading, lru, attempts, failures, runtimeVars, workVars,
                   lifeVars, evictor>>

\* The finally clause: release the reservation and notify the waiters.
Cleanup(l) ==
    /\ loader[l].at = "cleanup"
    /\ loading' = loading \ {loader[l].model}
    /\ reserved' = reserved - Size[loader[l].model]
    /\ loader' = [loader EXCEPT ![l] = Idle]
    /\ UNCHANGED <<resident, lru, attempts, failures, runtimeVars, workVars, lifeVars, evictor>>

-----------------------------------------------------------------------------
(* The local queue and the execution loop.                                 *)

\* Accepted: the worker takes requests, the model is resident, there is room.
EnqueueRequest(r) ==
    /\ status[r] = "ASSIGNED"
    /\ Accepting
    /\ ModelOf[r] \in resident
    /\ Len(queue) < max_queue_depth
    /\ Tokens[r] <= max_batch_tokens
    /\ status' = [status EXCEPT ![r] = "QUEUED"]
    /\ queue' = Append(queue, r)
    /\ UNCHANGED <<batch, exec, expired, modelVars, runtimeVars, lifeVars, loader, evictor>>

\* cancel_request: out of the queue, or terminal at once while it is active.
CancelRequest(r) ==
    /\ \/ Contains(queue, r)
       \/ r \in Active /\ status[r] \notin Terminal
    /\ queue' = Keep(queue, Request \ {r})
    /\ status' = [status EXCEPT ![r] = "CANCELLED"]
    /\ UNCHANGED <<batch, exec, expired, modelVars, runtimeVars, lifeVars, loader, evictor>>

Expire(r) ==
    /\ r \notin expired /\ status[r] = "QUEUED"
    /\ expired' = expired \cup {r}
    /\ UNCHANGED <<queue, batch, exec, status, modelVars, runtimeVars, lifeVars, loader,
                   evictor>>

TokensOf(s) == FoldLeft(LAMBDA n, q : n + Tokens[q], 0, s)

\* execute_batch's selection over the queue: [batch, deferred, late].
Consider(sel, r) ==
    IF Len(sel.batch) = max_batch_size THEN [sel EXCEPT !.deferred = Append(@, r)]
    ELSE IF r \in expired THEN [sel EXCEPT !.late = @ \cup {r}]
    ELSE IF \/ sel.batch = <<>>
            \/ /\ Kind[r] = Kind[Head(sel.batch)]
               /\ TokensOf(sel.batch) + Tokens[r] <= max_batch_tokens
         THEN [sel EXCEPT !.batch = Append(@, r)]
         ELSE [sel EXCEPT !.deferred = Append(@, r)]

Selection ==
    LET sel[i \in 0..Len(queue)] ==
            IF i = 0 THEN [batch |-> <<>>, deferred |-> <<>>, late |-> {}]
            ELSE Consider(sel[i - 1], queue[i])
    IN  sel[Len(queue)]

\* The execution loop calls execute_batch in a thread.
ExecuteBatch ==
    /\ app = "running" /\ ~stop /\ exec = "idle" /\ queue # <<>>
    /\ exec' = "enter"
    /\ UNCHANGED <<queue, batch, status, expired, modelVars, runtimeVars, lifeVars, loader,
                   evictor>>

\* The first critical section of execute_batch.
TakeBatch ==
    /\ exec = "enter"
    /\ LET sel == Selection
       IN  /\ queue' = sel.deferred
           /\ batch' = sel.batch
           /\ exec' = IF sel.batch = <<>> THEN "idle" ELSE "call"
           /\ lru' = IF sel.batch = <<>> THEN lru ELSE Touch(lru, ModelOf[Head(sel.batch)])
           /\ status' = [r \in Request |->
                            IF r \in sel.late THEN "TIMED_OUT"
                            ELSE IF r \in Range(sel.batch) THEN "RUNNING" ELSE status[r]]
    /\ UNCHANGED <<expired, resident, loading, reserved, attempts, failures, runtimeVars,
                   lifeVars, loader, evictor>>

\* Mutant: a cancelled request is completed when its output arrives.
SettleAll(s) == status' = [r \in Request |-> IF r \in Range(batch) THEN s ELSE status[r]]

\* Every request of the batch that is not terminal becomes s.
Settle(s) ==
    status' = [r \in Request |->
                 IF r \in Range(batch) /\ status[r] \notin Terminal THEN s ELSE status[r]]

GenerateStarts ==
    /\ exec = "call" /\ ModelOf[Head(batch)] \in loaded
    /\ exec' = "generate"
    /\ UNCHANGED <<queue, batch, status, expired, modelVars, runtimeVars, lifeVars, loader,
                   evictor>>

\* generate raises (the model is not loaded, or a fault): the batch fails.
GenerateRaises ==
    /\ \/ exec = "call" /\ ModelOf[Head(batch)] \notin loaded
       \/ exec = "generate" /\ RuntimeMayFail
    /\ Settle("FAILED")
    /\ exec' = "failed"
    /\ UNCHANGED <<queue, batch, expired, modelVars, runtimeVars, lifeVars, loader, evictor>>

\* generate returns; the finally clause takes the batch out of the active ones.
GenerateReturns ==
    /\ exec = "generate"
    /\ exec' = "done"
    /\ UNCHANGED <<queue, batch, status, expired, modelVars, runtimeVars, lifeVars, loader,
                   evictor>>

\* The last critical section.
CompleteBatch ==
    /\ exec = "done"
    /\ Settle("COMPLETED")
    /\ exec' = "idle" /\ batch' = <<>>
    /\ UNCHANGED <<queue, expired, modelVars, runtimeVars, lifeVars, loader, evictor>>

\* A loop that raises: the task group cancels the others.
LoopFails == app' = IF app = "running" THEN "failing" ELSE app

\* The exception leaves execute_batch and with it the execution loop.
ExecutionFails ==
    /\ exec = "failed"
    /\ exec' = "idle" /\ batch' = <<>>
    /\ LoopFails
    /\ UNCHANGED <<queue, status, expired, modelVars, runtimeVars, health, draining, stop,
                   unloading, starts, loader, evictor>>

-----------------------------------------------------------------------------
(* evict_idle_models and unload_model; one thread at a time is in them.    *)

NoEviction == [at |-> "idle", todo |-> <<>>, scan |-> {}, api |-> FALSE]

\* The scan's critical section.  Any model without work may have been idle for
\* idle_eviction_seconds.
EvictScan ==
    /\ IdleEviction /\ app = "running" /\ ~stop /\ evictor.at = "idle"
    /\ \E E \in (SUBSET (Evictable \cap Range(lru))) \ {{}} :
          evictor' = [NoEviction EXCEPT !.at = "sort", !.scan = E]
    /\ UNCHANGED <<modelVars, runtimeVars, workVars, lifeVars, loader>>

\* An exception ends the eviction loop; one in a call of unload_model from
\* outside goes to its caller.
EvictorRaises ==
    /\ evictor' = NoEviction
    /\ IF evictor.api THEN UNCHANGED app ELSE LoopFails
    /\ UNCHANGED <<health, draining, stop, unloading, starts>>

\* Sorting reads _model_last_used without the lock: KeyError when it is gone.
EvictSort ==
    /\ evictor.at = "sort"
    /\ \/ /\ evictor.scan \subseteq Range(lru)
          /\ evictor' = [NoEviction EXCEPT !.at = "unload",
                            !.todo = Keep(lru, evictor.scan)]
          /\ UNCHANGED lifeVars
       \/ ~(evictor.scan \subseteq Range(lru)) /\ EvictorRaises
    /\ UNCHANGED <<modelVars, runtimeVars, workVars, loader>>

\* A call of unload_model from outside.
UnloadModel(m) ==
    /\ m \in Unloads /\ evictor.at = "idle"
    /\ evictor' = [NoEviction EXCEPT !.at = "unload", !.todo = <<m>>, !.api = TRUE]
    /\ UNCHANGED <<modelVars, runtimeVars, workVars, lifeVars, loader>>

NextUnload == IF Len(evictor.todo) = 1 THEN NoEviction
              ELSE [evictor EXCEPT !.at = "unload", !.todo = Tail(@)]

\* Mutant: queued requests do not hold back an unload.
HeldBackNever(m) == FALSE

HeldBack(m) == Queued(m)

\* unload_model's critical section: it looks at the queue, not at active work.
Unpublish ==
    LET m == Head(evictor.todo)
    IN  /\ evictor.at = "unload"
        /\ \/ HeldBack(m) /\ EvictorRaises /\ UNCHANGED <<resident, lru>>
           \/ /\ ~HeldBack(m) /\ m \notin resident
              /\ evictor' = NextUnload
              /\ UNCHANGED <<resident, lru, lifeVars>>
           \/ /\ ~HeldBack(m) /\ m \in resident
              /\ resident' = resident \ {m}
              /\ lru' = Drop(lru, {m})
              /\ evictor' = [evictor EXCEPT !.at = "runtime"]
              /\ UNCHANGED lifeVars
        /\ UNCHANGED <<loading, reserved, attempts, failures, runtimeVars, workVars, loader>>

\* Its runtime call; one that raises puts the model back.
RuntimeUnload ==
    LET m == Head(evictor.todo)
    IN  /\ evictor.at = "runtime"
        /\ \/ /\ loaded' = loaded \ {m}
              /\ evictor' = NextUnload
              /\ UNCHANGED <<resident, lru, lifeVars>>
           \/ /\ RuntimeMayFail
              /\ resident' = resident \cup {m}
              /\ lru' = Touch(lru, m)
              /\ EvictorRaises
              /\ UNCHANGED loaded
        /\ UNCHANGED <<incoming, loading, reserved, attempts, failures, workVars, loader>>

-----------------------------------------------------------------------------
(* WorkerApplication.  Startup models are loaded by ordinary loaders.      *)

\* run: register, which ends an earlier drain, and start the loops.
Register ==
    /\ app = "off" /\ starts < MaxStarts /\ ~stop
    /\ draining' = (draining /\ health # "stopped")
    /\ health' = "healthy"
    /\ app' = "running" /\ starts' = starts + 1
    /\ UNCHANGED <<stop, unloading, modelVars, runtimeVars, workVars, loader, evictor>>

\* stop: drain, then the loops end after what they are at.
Stop ==
    /\ app = "running" /\ ~stop
    /\ draining' = TRUE /\ stop' = TRUE
    /\ UNCHANGED <<health, app, unloading, starts, modelVars, runtimeVars, workVars, loader,
                   evictor>>

\* The loops are over.  A cancelled execution loop waits for its thread, a
\* cancelled eviction loop leaves its thread behind.
LoopsOver ==
    /\ exec = "idle"
    /\ \/ app = "failing"
       \/ app = "running" /\ stop /\ (evictor.at = "idle" \/ evictor.api)

\* shutdown's critical section.
Shutdown ==
    /\ LoopsOver
    /\ draining' = TRUE /\ health' = "stopped"
    /\ status' = [r \in Request |-> IF Contains(queue, r) THEN "FAILED" ELSE status[r]]
    /\ queue' = <<>>
    /\ unloading' = resident /\ resident' = {}
    /\ app' = "unloading"
    /\ UNCHANGED <<batch, exec, expired, stop, starts, loading, lru, reserved, attempts,
                   failures, runtimeVars, loader, evictor>>

\* The models that were resident are unloaded one by one.
ShutdownUnload(m) ==
    /\ app = "unloading" /\ m \in unloading
    /\ unloading' = unloading \ {m}
    /\ loaded' = loaded \ {m}
    /\ UNCHANGED <<incoming, health, draining, app, stop, starts, modelVars, workVars, loader,
                   evictor>>

\* The worker unregisters, also when an unload raised.
Unregister ==
    /\ app = "unloading"
    /\ unloading = {} \/ RuntimeMayFail
    /\ unloading' = {}
    /\ app' = "off"
    /\ UNCHANGED <<health, draining, stop, starts, modelVars, runtimeVars, workVars, loader,
                   evictor>>

-----------------------------------------------------------------------------
Init ==
    /\ health = "registering" /\ draining = FALSE
    /\ resident = {} /\ loading = {} /\ lru = <<>> /\ reserved = 0
    /\ attempts = [m \in Model |-> 0] /\ failures = [m \in Model |-> 0]
    /\ loaded = {} /\ incoming = {}
    /\ loader = [l \in Loader |-> Idle]
    /\ queue = <<>> /\ batch = <<>> /\ exec = "idle"
    /\ status = [r \in Request |-> "ASSIGNED"] /\ expired = {}
    /\ evictor = NoEviction
    /\ app = "off" /\ stop = FALSE /\ unloading = {} /\ starts = 0

LoaderStep(l) ==
    \/ Wake(l) \/ EvictOne(l) \/ RuntimeLoad(l) \/ RuntimeLoaded(l)
    \/ Warmup(l) \/ Publish(l) \/ LoadFails(l) \/ Cleanup(l)

ExecutionStep ==
    \/ ExecuteBatch \/ TakeBatch \/ GenerateStarts \/ GenerateRaises
    \/ GenerateReturns \/ CompleteBatch \/ ExecutionFails

EvictorStep == EvictSort \/ Unpublish \/ RuntimeUnload

ShutdownStep == Shutdown \/ Unregister \/ \E m \in Model : ShutdownUnload(m)

Next ==
    \/ \E l \in Loader : LoaderStep(l) \/ \E m \in Model : LoadModel(l, m)
    \/ \E r \in Request : EnqueueRequest(r) \/ CancelRequest(r) \/ Expire(r)
    \/ \E m \in Model : UnloadModel(m)
    \/ EvictScan
    \/ ExecutionStep \/ EvictorStep \/ ShutdownStep
    \/ Register \/ Stop

Spec == Init /\ [][Next]_vars

\* Threads inside a call run on; the execution loop polls; shutdown goes on.
FairSpec ==
    /\ Spec
    /\ \A l \in Loader : WF_vars(LoaderStep(l))
    /\ WF_vars(ExecutionStep) /\ WF_vars(EvictorStep) /\ WF_vars(ShutdownStep)

-----------------------------------------------------------------------------
(* Properties.                                                             *)

\* Every load in progress has one loader, holds one reservation of its model's
\* size, and nothing else does (load_model's reserve and its finally clause).
ReservationsMatchLoads ==
    LET mine(m) == {l \in Loader : loader[l].model = m /\ loader[l].at \in InLoad}
    IN  /\ \A m \in Model : Cardinality(mine(m)) = IF m \in loading THEN 1 ELSE 0
        /\ reserved = Sum(loading)

\* A request is queued only for a resident model, whatever is evicted, unloaded
\* or shut down meanwhile.
QueuedModelResident == \A r \in Range(queue) : ModelOf[r] \in resident

\* A stopped worker keeps no request waiting: what was queued when it failed or
\* was stopped has been settled, and no batch survives shutdown.
StoppedLeavesNoWork ==
    health = "stopped" => \A r \in Request : status[r] \notin {"QUEUED", "RUNNING"}

\* The worker's bookkeeping: fields of their types (queue and batches within their
\* sizes, no negative reservation), reservations that match the loads, queued
\* requests only for resident models, and nothing left to do once stopped.
WorkerInv == TypeOK /\ ReservationsMatchLoads /\ QueuedModelResident /\ StoppedLeavesNoWork

\* A request cancelled, failed or timed out stays so when its output arrives
\* ("the request cannot later become completed").
TerminalIsFinal ==
    [][\A r \in Request : status[r] \in Terminal => status'[r] = status[r]]_vars

\* Every call of load_model returns: a waiter is woken by whatever ends the load
\* it joined, and a failed load leaves nothing that blocks the next.  Every
\* request in the local queue ends, also when a loop fails or the worker stops.
WorkEnds ==
    /\ \A l \in Loader : loader[l].at # "idle" ~> loader[l].at = "idle"
    /\ \A r \in Request : status[r] = "QUEUED" ~> status[r] \in Terminal

=============================================================================
