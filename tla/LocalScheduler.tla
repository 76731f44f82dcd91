--------------------------- MODULE LocalScheduler ---------------------------
(***************************************************************************)
(* The non-streaming path of the gateway: the generate handler of every    *)
(* request, DELETE /v1/requests/{id}, the bounded RequestQueue, the        *)
(* scheduler task with its dynamic batches and its deferred deque, and the *)
(* shutdown of the application (scheduler/, apps/gateway/api.py, main.py,  *)
(* limits.py).                                                             *)
(*                                                                         *)
(* Everything runs on one event loop, so an action is what one task does   *)
(* between two awaits.  An await that never suspends (an uncontended       *)
(* asyncio.Lock, submit) is no boundary.  A future that is done wakes its  *)
(* waiter some iterations later: other tasks run in between.               *)
(***************************************************************************)
EXTENDS Integers, Sequences, FiniteSets, Functions, FiniteSetsExt, SeqFilter

CONSTANTS
    Request,
    Setups,                \* the configurations and loads considered, as records:
                           \*   policy: scheduler_policy, "dynamic_batch" or "no_batching"
                           \*   kind: [Request -> max_new_tokens and temperature, as one value]
                           \*   cost: [Request -> estimated_tokens + max_new_tokens]
    NoItem,                \* None, the sentinel that ends the scheduler
    max_batch_size, max_total_batch_tokens, max_queue_size, max_concurrent_requests,
    Impatient,             \* bound: the requests whose client gives up or deadline passes
    ModelMayFail,          \* a model call may raise
    GraceMayExpire         \* a model call may outlive shutdown_grace_seconds

ASSUME LocalSchedulerAssumption ==
    /\ NoItem \notin Request
    /\ Impatient \subseteq Request
    /\ \A s \in Setups : /\ s.policy \in {"dynamic_batch", "no_batching"}
                         /\ s.cost \in [Request -> Nat \ {0}]
                         /\ DOMAIN s.kind = Request
    /\ {max_batch_size, max_total_batch_tokens, max_queue_size,
        max_concurrent_requests} \subseteq Nat \ {0}
    /\ {ModelMayFail, GraceMayExpire} \subseteq BOOLEAN

VARIABLES
    setup,       \* the configuration and load, fixed at start
    queue,       \* asyncio.Queue of the RequestQueue
    unfinished,  \* its count of items without task_done()
    accepting,   \* RequestQueue.accepting
    deferred,    \* the scheduler's deque
    status,      \* InferenceRequest.status
    done,        \* requests whose future has a result
    expired,     \* requests for which timed_out() holds
    started,     \* requests whose started_at is set
    sched,       \* where the scheduler task is
    batch,       \* the collected requests; while the model runs, the active ones
    fromQueue,   \* the first request of the batch came from the queue
    taken,       \* BatchCollection.queued_items
    gate,        \* where the generate handler of a request is
    record,      \* status of the handler's platform_record
    store,       \* status saved in platform_requests
    tracked,     \* keys of active_gateway_requests
    life         \* lifespan of the application

itemVars == <<status, done, started>>
loopVars == <<sched, batch, fromQueue, taken, deferred>>
gateVars == <<gate, record, store, tracked>>
schedulerVars == <<setup, queue, unfinished, accepting, expired, life, itemVars, loopVars, gateVars>>

scheduler_policy == setup.policy
Kind == setup.kind
Cost == setup.cost

Terminal == {"COMPLETED", "FAILED", "REJECTED", "TIMEOUT", "CANCELLED"}
StatusSet == Terminal \cup {"RECEIVED", "QUEUED", "RUNNING"}
InGate == {"validating", "waiting"}

SchedulerTypeOK ==
    /\ setup \in Setups
    /\ queue \in Seq(Request \cup {NoItem})
    /\ Len(queue) <= max_queue_size
    /\ unfinished \in Nat
    /\ accepting \in BOOLEAN
    /\ deferred \in Seq(Request)
    /\ status \in [Request -> StatusSet]
    /\ {done, expired, started, tracked} \subseteq SUBSET Request
    /\ sched \in {"top", "collect", "run", "done", "cancelled"}
    /\ batch \in Seq(Request)
    /\ Len(batch) <= max_batch_size
    /\ fromQueue \in BOOLEAN
    /\ taken \in 0..max_batch_size
    /\ gate \in [Request -> InGate \cup {"idle", "refused", "finished", "raised"}]
    /\ record \in [Request -> StatusSet]
    /\ store \in [Request -> StatusSet \cup {"absent"}]
    /\ life \in {"serving", "closing", "stopped"}

-----------------------------------------------------------------------------
(* InferenceRequest.  A request's mutable part travels through the pure   *)
(* definitions below as a record of status, done and started.             *)

Items == [status |-> status, done |-> done, started |-> started]

\* finish: the status is always overwritten, the future is set once.
Finish(it, r, s) == [it EXCEPT !.status[r] = s, !.done = @ \cup {r}]

\* finish of every request in the domain of ends, with the status it has there.
FinishAll(ends) ==
    [Items EXCEPT !.status = [r \in Request |-> IF r \in DOMAIN ends THEN ends[r] ELSE status[r]],
                  !.done = @ \cup DOMAIN ends]

\* cancel: nothing once the request is terminal.
Cancel(it, r) ==
    IF it.status[r] \in Terminal THEN it ELSE Finish(it, r, "CANCELLED")

SetItems(it) == status' = it.status /\ done' = it.done /\ started' = it.started

-----------------------------------------------------------------------------
(* _finish_platform_request.  The domain's record moves from QUEUED to     *)
(* RUNNING first when the item is known to have started; COMPLETED cannot  *)
(* be reached from QUEUED directly and transition() raises.                *)

Refused(rec, target, knownStarted) ==
    rec = "QUEUED" /\ target = "COMPLETED" /\ ~knownStarted

\* The record after the call: a terminal one is saved as it is.
Finished(rec, target) == IF rec \in Terminal THEN rec ELSE target

-----------------------------------------------------------------------------
(* collect_batch and process_batch as functions of the scheduler's state   *)
(* b == [it, batch, deferred, taken, unfinished].                          *)

Loop == [it |-> Items, batch |-> batch, deferred |-> deferred, taken |-> taken,
         unfinished |-> unfinished]

\* A batch has no request twice.
BatchCost(s) == SumFunctionOnSet(Cost, Range(s))

\* _compatible, and the token budget.
Fits(b, r) ==
    /\ Kind[r] = Kind[b.batch[1]]
    /\ BatchCost(b.batch) + Cost[r] <= max_total_batch_tokens

\* Mutant: a deferred request stays unfinished in the queue it left.
ConsiderKeepsDeferred(b, r, isQueued) ==
    LET dropped == [b EXCEPT !.unfinished = @ - (IF isQueued THEN 1 ELSE 0)]
    IN  IF r \in expired THEN [dropped EXCEPT !.it = Finish(@, r, "TIMEOUT")]
        ELSE IF b.it.status[r] = "CANCELLED" THEN dropped
        ELSE IF Fits(b, r)
             THEN [b EXCEPT !.batch = Append(@, r),
                            !.taken = @ + (IF isQueued THEN 1 ELSE 0)]
             ELSE [b EXCEPT !.deferred = Append(@, r)]

\* consider: expiry comes before cancellation, and overwrites it.
Consider(b, r, isQueued) ==
    LET dropped == [b EXCEPT !.unfinished = @ - (IF isQueued THEN 1 ELSE 0)]
    IN  IF r \in expired THEN [dropped EXCEPT !.it = Finish(@, r, "TIMEOUT")]
        ELSE IF b.it.status[r] = "CANCELLED" THEN dropped
        ELSE IF Fits(b, r)
             THEN [b EXCEPT !.batch = Append(@, r),
                            !.taken = @ + (IF isQueued THEN 1 ELSE 0)]
             ELSE [dropped EXCEPT !.deferred = Append(@, r)]

\* The deferred requests are scanned once each until the batch is full.
ScanDeferred(b) ==
    LET scan[i \in 0..Len(b.deferred)] ==
            IF i = 0 THEN b
            ELSE IF Len(scan[i - 1].batch) = max_batch_size THEN scan[i - 1]
            ELSE Consider([scan[i - 1] EXCEPT !.deferred = Tail(@)], Head(scan[i - 1].deferred), FALSE)
    IN  scan[Len(b.deferred)]

\* process_batch and process_one: who is still to be run.
Processable(b, r) == b.it.status[r] # "CANCELLED" /\ r \notin expired

\* The first half of process_batch: skip, time out or start each request.
Admit(b) ==
    LET active == Keep(b.batch, {r \in Request : Processable(b, r)})
        late == {r \in Range(b.batch) : b.it.status[r] # "CANCELLED" /\ r \in expired}
    IN  [b EXCEPT
            !.batch = active,
            !.it = [status |-> [r \in Request |->
                        IF r \in Range(active) THEN "RUNNING"
                        ELSE IF r \in late THEN "TIMEOUT" ELSE @.status[r]],
                    done |-> @.done \cup late,
                    started |-> @.started \cup Range(active)]]

SetBatch(b) == batch' = b.batch /\ taken' = b.taken /\ deferred' = b.deferred

\* run_scheduler's two finally clauses: one task_done() for every item the
\* iteration took out of the queue and kept.
EndIteration(b, wasQueued, next) ==
    /\ unfinished' = b.unfinished - b.taken - (IF wasQueued THEN 1 ELSE 0)
    /\ batch' = <<>> /\ taken' = 0
    /\ sched' = next

\* The batch b is complete: process_batch runs to the model call, or, with
\* nobody left to run, returns to the top of the loop.
Launch(b, wasQueued) ==
    LET p == Admit(b)
    IN  /\ SetItems(p.it)
        /\ fromQueue' = wasQueued
        /\ deferred' = p.deferred
        /\ \/ /\ p.batch # <<>>
              /\ sched' = "run"
              /\ batch' = p.batch /\ taken' = p.taken
              /\ unfinished' = p.unfinished
           \/ /\ p.batch = <<>>
              /\ EndIteration(p, wasQueued, "top")

\* The batch b may still grow: wait for the queue.
Await(b, wasQueued) ==
    /\ SetItems(b.it)
    /\ SetBatch(b)
    /\ fromQueue' = wasQueued
    /\ unfinished' = b.unfinished
    /\ sched' = "collect"

LaunchOrAwait(b, wasQueued) ==
    IF Len(b.batch) = max_batch_size THEN Launch(b, wasQueued) ELSE Await(b, wasQueued)

\* What the loop does with the first request of an iteration.
Begin(r, rest, wasQueued) ==
    LET b == [Loop EXCEPT !.batch = <<r>>, !.deferred = rest]
    IN  IF scheduler_policy = "dynamic_batch"
        THEN LaunchOrAwait(ScanDeferred(b), wasQueued)
        ELSE Launch(b, wasQueued)

-----------------------------------------------------------------------------
(* The scheduler task: run_scheduler between its awaits.                   *)

\* Shutdown has begun: the deferred requests are rejected.
RejectDeferred ==
    /\ sched = "top"
    /\ ~accepting /\ deferred # <<>>
    /\ SetItems(FinishAll([r \in Range(deferred) |-> "REJECTED"]))
    /\ deferred' = <<>>
    /\ UNCHANGED <<setup, queue, unfinished, accepting, expired, life, sched, batch,
                   fromQueue, taken, gateVars>>

\* The oldest deferred request opens the next batch.
TakeDeferred ==
    /\ sched = "top"
    /\ accepting /\ deferred # <<>>
    /\ Begin(Head(deferred), Tail(deferred), FALSE)
    /\ UNCHANGED <<setup, queue, accepting, expired, life, gateVars>>

\* queue.get() returns: a request, or the sentinel that ends the task.
TakeQueued ==
    /\ sched = "top"
    /\ deferred = <<>> /\ queue # <<>>
    /\ queue' = Tail(queue)
    /\ IF Head(queue) # NoItem
       THEN Begin(Head(queue), <<>>, TRUE)
       ELSE /\ unfinished' = unfinished - 1
            /\ sched' = "done"
            /\ UNCHANGED <<itemVars, batch, fromQueue, taken, deferred>>
    /\ UNCHANGED <<setup, accepting, expired, life, gateVars>>

\* collect_batch's queue.get() returns a request: join, defer or drop it.
CollectNext ==
    /\ sched = "collect"
    /\ queue # <<>> /\ Head(queue) # NoItem
    /\ queue' = Tail(queue)
    /\ LaunchOrAwait(Consider(Loop, Head(queue), TRUE), fromQueue)
    /\ UNCHANGED <<setup, accepting, expired, life, gateVars>>

\* collect_batch meets the sentinel and puts it back: task_done() and put cancel
\* out in unfinished.
CollectSentinel ==
    /\ sched = "collect"
    /\ queue # <<>> /\ Head(queue) = NoItem
    /\ queue' = Append(Tail(queue), NoItem)
    /\ Launch(Loop, fromQueue)
    /\ UNCHANGED <<setup, accepting, expired, life, gateVars>>

\* The collection window (max_wait_ms) ends.
CloseWindow ==
    /\ sched = "collect"
    /\ Launch(Loop, fromQueue)
    /\ UNCHANGED <<setup, queue, accepting, expired, life, gateVars>>

\* Mutant: a result completes its request even when it was cancelled meanwhile.
OutcomeIgnoresCancel(r) == IF r \in expired THEN "TIMEOUT" ELSE "COMPLETED"

\* What a delivered result makes of its request.
Outcome(r) ==
    IF status[r] = "CANCELLED" THEN "CANCELLED"
    ELSE IF r \in expired THEN "TIMEOUT" ELSE "COMPLETED"

\* The model call returns, one result per request.
ModelReturns ==
    /\ sched = "run"
    /\ SetItems(FinishAll([r \in Range(batch) |-> Outcome(r)]))
    /\ EndIteration(Loop, fromQueue, "top")
    /\ UNCHANGED <<setup, queue, accepting, expired, life, deferred, fromQueue, gateVars>>

\* Mutant: the failure is noted but no handle is resolved.
FailActiveSilently(next) ==
    /\ sched = "run"
    /\ status' = [r \in Request |-> IF r \in Range(batch) THEN "FAILED" ELSE status[r]]
    /\ EndIteration(Loop, fromQueue, next)
    /\ UNCHANGED <<setup, queue, accepting, expired, deferred, fromQueue, done, started, gateVars>>

\* The model call raises, or the task is cancelled in it: every active request
\* fails, one that was cancelled meanwhile too.
FailActive(next) ==
    /\ sched = "run"
    /\ SetItems(FinishAll([r \in Range(batch) |-> "FAILED"]))
    /\ EndIteration(Loop, fromQueue, next)
    /\ UNCHANGED <<setup, queue, accepting, expired, deferred, fromQueue, gateVars>>

ModelRaises == ModelMayFail /\ FailActive("top") /\ UNCHANGED life

-----------------------------------------------------------------------------
(* The generate handler.                                                   *)

SlotsInUse == Cardinality({r \in Request : gate[r] \in InGate})

\* limiter.slot() is entered, or refuses the request with 429.
Arrive(r) ==
    /\ gate[r] = "idle" /\ life # "stopped"
    /\ gate' = [gate EXCEPT ![r] =
                  IF SlotsInUse >= max_concurrent_requests THEN "refused" ELSE "validating"]
    /\ UNCHANGED <<setup, queue, unfinished, accepting, expired, life, itemVars, loopVars,
                   record, store, tracked>>

\* _validated runs the tokenizer in a thread; it may refuse the request, and the
\* client may disconnect in it.
Invalid(r) ==
    /\ gate[r] = "validating"
    /\ gate' = [gate EXCEPT ![r] = "refused"]
    /\ UNCHANGED <<setup, queue, unfinished, accepting, expired, life, itemVars, loopVars,
                   record, store, tracked>>

\* Validation passed: the record is created and submit() queues or rejects.
Submit(r) ==
    /\ gate[r] = "validating"
    /\ IF accepting /\ Len(queue) < max_queue_size
       THEN /\ queue' = Append(queue, r)
            /\ unfinished' = unfinished + 1
            /\ status' = [status EXCEPT ![r] = "QUEUED"]
            /\ record' = [record EXCEPT ![r] = "QUEUED"]
            /\ store' = [store EXCEPT ![r] = "QUEUED"]
            /\ tracked' = tracked \cup {r}
            /\ gate' = [gate EXCEPT ![r] = "waiting"]
            /\ UNCHANGED <<done, started>>
       ELSE /\ SetItems(Finish(Items, r, "REJECTED"))
            /\ record' = [record EXCEPT ![r] = "REJECTED"]
            /\ store' = [store EXCEPT ![r] = "REJECTED"]
            /\ gate' = [gate EXCEPT ![r] = "finished"]
            /\ UNCHANGED <<queue, unfinished, tracked>>
    /\ UNCHANGED <<setup, accepting, expired, life, loopVars>>

\* The end of a handler that waited: _finish_platform_request, then the slot is
\* given back.  A refused transition escapes before anything is saved.
Conclude(r, target, knownStarted) ==
    IF Refused(record[r], target, knownStarted)
    THEN /\ gate' = [gate EXCEPT ![r] = "raised"]
         /\ UNCHANGED <<record, store, tracked>>
    ELSE /\ record' = [record EXCEPT ![r] = Finished(@, target)]
         /\ store' = [store EXCEPT ![r] = record'[r]]
         /\ tracked' = tracked \ {r}
         /\ gate' = [gate EXCEPT ![r] = "finished"]

\* The shielded future is done; the handler reads the status it finds now.
Respond(r) ==
    /\ gate[r] = "waiting" /\ r \in done
    /\ Conclude(r, status[r], r \in started)
    /\ UNCHANGED <<setup, queue, unfinished, accepting, expired, life, itemVars, loopVars>>

\* The client disconnects while the handler waits.
Disconnect(r) ==
    /\ r \in Impatient
    /\ gate[r] = "waiting"
    /\ SetItems(Cancel(Items, r))
    /\ Conclude(r, status'[r], FALSE)
    /\ UNCHANGED <<setup, queue, unfinished, accepting, expired, life, loopVars>>

\* DELETE /v1/requests/{id} works on a copy of the stored record.
Delete(r) ==
    /\ r \in Impatient
    /\ store[r] \notin Terminal \cup {"absent"}
    /\ r \in tracked
    /\ SetItems(Cancel(Items, r))
    /\ IF Refused(store[r], status'[r], r \in started)
       THEN UNCHANGED <<store, tracked>>
       ELSE /\ store' = [store EXCEPT ![r] = Finished(@, status'[r])]
            /\ tracked' = tracked \ {r}
    /\ UNCHANGED <<setup, queue, unfinished, accepting, expired, life, loopVars, gate, record>>

\* A request's deadline, or request_timeout_seconds since it was queued, passes.
Expire(r) ==
    /\ r \in Impatient
    /\ status[r] \in {"QUEUED", "RUNNING", "CANCELLED"} /\ r \notin expired
    /\ expired' = expired \cup {r}
    /\ UNCHANGED <<setup, queue, unfinished, accepting, life, itemVars, loopVars, gateVars>>

-----------------------------------------------------------------------------
(* The application's lifespan.                                             *)

\* RequestQueue.close: reject what is queued, leave the sentinel.
Close ==
    /\ life = "serving"
    /\ life' = "closing"
    /\ accepting' = FALSE
    /\ SetItems(FinishAll([r \in Range(queue) |-> "REJECTED"]))
    /\ unfinished' = unfinished - Len(queue) + 1
    /\ queue' = <<NoItem>>
    /\ UNCHANGED <<setup, expired, loopVars, gateVars>>

\* The scheduler task ended within the grace period.
Stopped ==
    /\ life = "closing" /\ sched = "done"
    /\ life' = "stopped"
    /\ UNCHANGED <<setup, queue, unfinished, accepting, expired, itemVars, loopVars, gateVars>>

\* It did not: the task is cancelled inside the model call.
GraceExpires ==
    /\ GraceMayExpire
    /\ life = "closing"
    /\ FailActive("cancelled")
    /\ life' = "stopped"

-----------------------------------------------------------------------------
SchedulerInit ==
    /\ setup \in Setups
    /\ queue = <<>> /\ unfinished = 0 /\ accepting = TRUE
    /\ deferred = <<>> /\ batch = <<>> /\ taken = 0 /\ fromQueue = FALSE
    /\ status = [r \in Request |-> "RECEIVED"]
    /\ done = {} /\ expired = {} /\ started = {} /\ tracked = {}
    /\ sched = "top" /\ life = "serving"
    /\ gate = [r \in Request |-> "idle"]
    /\ record = [r \in Request |-> "RECEIVED"]
    /\ store = [r \in Request |-> "absent"]

SchedulerStep ==
    \/ RejectDeferred \/ TakeDeferred \/ TakeQueued
    \/ CollectNext \/ CollectSentinel

HandlerStep(r) == Submit(r) \/ Respond(r)

SchedulerNext ==
    \/ SchedulerStep \/ CloseWindow \/ ModelReturns \/ ModelRaises
    \/ \E r \in Request :
          Arrive(r) \/ Invalid(r) \/ HandlerStep(r) \/ Disconnect(r) \/ Delete(r) \/ Expire(r)
    \/ Close \/ Stopped \/ GraceExpires

SchedulerSpec == SchedulerInit /\ [][SchedulerNext]_schedulerVars

\* The event loop runs every task that is ready, the collection window and the
\* model call end, and so does a shutdown once the scheduler has stopped.
Fairness ==
    /\ WF_schedulerVars(SchedulerStep)
    /\ WF_schedulerVars(CloseWindow)
    /\ WF_schedulerVars(ModelReturns \/ ModelRaises)
    /\ WF_schedulerVars(Stopped)
    /\ \A r \in Request : WF_schedulerVars(HandlerStep(r))

FairSpec == SchedulerSpec /\ Fairness

-----------------------------------------------------------------------------
(* Properties.                                                             *)

\* collect_batch promises to preserve queue accounting: the queue's count of
\* unfinished items is what it holds plus what the running iteration took from
\* it.  One task_done() too many raises and ends the scheduler; one too few and
\* join() would never return.
QueueAccounting ==
    unfinished = Len(queue) + taken + (IF sched \in {"collect", "run"} /\ fromQueue
                                       THEN 1 ELSE 0)

\* A request whose handle is unresolved is in exactly one place, once, from which
\* the scheduler or the shutdown will take it: the queue, the deferred deque or
\* the batch.
HandleHasOneOwner ==
    \A r \in Request : status[r] \in {"QUEUED", "RUNNING"} =>
        Cardinality({i \in DOMAIN queue : queue[i] = r})
          + Cardinality({i \in DOMAIN deferred : deferred[i] = r})
          + Cardinality({i \in DOMAIN batch : batch[i] = r}) = 1

\* Only requests that may share a model call share one, within the token budget
\* (a request alone may exceed it), and every one of them counts as started.
BatchIsCompatible ==
    sched = "run" =>
        /\ Cardinality({Kind[r] : r \in Range(batch)}) = 1
        /\ Len(batch) = 1 \/ BatchCost(batch) <= max_total_batch_tokens
        /\ Range(batch) \subseteq started

\* A cancelled scheduler leaves its deferred requests behind: only the rejection
\* at the top of its loop would resolve them.
LeftDeferred(r) == sched = "cancelled" /\ r \in Range(deferred)

\* Once the application has stopped no result handle is left open: queued and
\* deferred requests were rejected, active ones completed or failed.  The
\* exception is LeftDeferred.
NoAbandonedHandle ==
    life = "stopped" =>
        \A r \in Request : gate[r] = "waiting" => r \in done \/ LeftDeferred(r)

\* The scheduler's bookkeeping: fields of their types (the queue and the batch
\* within their sizes, no negative count), exact queue accounting, one owner for
\* every open handle, compatible batches, and nothing left open by a shutdown.
SchedulerInv ==
    SchedulerTypeOK /\ QueueAccounting /\ HandleHasOneOwner /\ BatchIsCompatible /\ NoAbandonedHandle

\* A cancelled request cannot become completed, neither in the scheduler nor in
\* the stored record, whatever the running model call still delivers.
CancelledNeverCompletes ==
    [][\A r \in Request :
         /\ status[r] = "CANCELLED" => status'[r] # "COMPLETED"
         /\ store[r] = "CANCELLED" => store'[r] # "COMPLETED"]_schedulerVars

\* Every submitted request is answered: deferral, expiry, cancellation, a failing
\* model and shutdown all resolve the handle, but for LeftDeferred.
EveryHandlerEnds ==
    \A r \in Request :
        gate[r] = "waiting" ~> gate[r] \in {"finished", "raised"} \/ LeftDeferred(r)

=============================================================================
