---------------------------- MODULE ControlPlane ----------------------------
(***************************************************************************)
(* The control plane (apps/control_plane): dispatch, cancellation and      *)
(* recovery, the request store, the worker registry and directory, the     *)
(* reliability supervisor with its lease, and the worker behind an         *)
(* in-process handle or the HTTP transport.                                *)
(*                                                                         *)
(* A consumer takes a request from its process's global queue, dispatches  *)
(* it and saves the outcome; a canceller and a supervisor work on the same *)
(* store.  Components take their own locks and nothing holds one across    *)
(* two of them, so a step is one call of one component and the three       *)
(* threads of a process interleave between calls.  Records are objects on  *)
(* `heap`; the store holds copies.                                         *)
(*                                                                         *)
(* Time is left open: a deadline passes, a heartbeat is overdue and a      *)
(* lease expires whenever the model likes.                                 *)
(***************************************************************************)
EXTENDS RequestLifecycle, Sequences, FiniteSets, SequencesExt, FiniteSetsExt

CONSTANTS
    Process,       \* control-plane processes
    None,          \* no lease holder
    MaxAttempts,   \* max_request_attempts
    Setups,        \* the deployments to consider, each a Setup
    MaxRecords,    \* bound on the records ever created
    MaxTries       \* bound on the assignments of a record a caller puts back

ASSUME ControlPlaneAssumption ==
    /\ MaxAttempts \in Nat \ {0} /\ MaxRecords \in Nat /\ MaxTries \in Nat
    /\ None \notin Process /\ NoWorker \notin Worker

\* A deployment: its store, how workers are reached, who calls dispatch, its
\* processes, workers and requests, and a bound on what befalls it: crashes, refusals, lost answers, failed saves,
\* late heartbeats, deadlines, expired leases and cancellations.
Setup ==
    [store : {"memory", "redis"}, transport : {"local", "http"}, caller : {"consumer", "pipeline"},
     procs : SUBSET Process, workers : SUBSET Worker, requests : SUBSET Request, events : Nat]
ASSUME SetupsAssumption == \A s \in Setups : s \in Setup

VARIABLES
    setup,
    heap,          \* the records, by address
    store,         \* the stored copy of a request, <<>> before create
    late,          \* requests whose deadline has passed
    global_queue,  \* per process: addresses in the fair queue
    health,        \* per process and worker: registry status, "none" if absent
    directory,     \* per process: workers in the WorkerDirectory
    reserved,      \* per process: requests with a placement reservation
    consumer,      \* per process: the dispatch in progress
    canceller,     \* per process: the cancellation in progress
    supervisor,    \* per process: the supervisor's loop
    lease,         \* holder of the Redis lease
    up,            \* worker processes that answer
    queue,         \* per worker: its queue of addresses
    running,       \* per worker: the addresses being executed, at most one
    events,        \* of setup.events, so far
    runs,          \* history: executions started, per request
    unsaved,       \* history: requests whose first save in dispatch raised
    confirmed,     \* history: requests whose cancellation returned True
    rerun,         \* history: <<request, who>> put back into the queue
    abandoned      \* history: records a pipeline took in place of its own

planeVars == <<global_queue, health, directory, reserved>>
actorVars == <<consumer, canceller, supervisor, lease>>
workerVars == <<up, queue, running>>
historyVars == <<runs, unsaved, confirmed, rerun, abandoned>>
vars == <<setup, heap, store, late, planeVars, actorVars, workerVars, events, historyVars>>

Addr == 1..MaxRecords
Idle == [pc |-> "idle", obj |-> 0, remote |-> 0]
NoCancel == [pc |-> "idle", copy |-> <<>>]
SupAt(pc, todo, list, obj) == [pc |-> pc, todo |-> todo, list |-> list, obj |-> obj]
SupIdle(pc) == SupAt(pc, {}, {}, 0)

ConsumerPc == {"idle", "assign", "save", "prepare", "handoff", "answer", "commit", "await", "rejected"}
SupervisorPc == {"wait", "renew", "acquire", "expire", "recover", "walk", "saveq", "failed", "stopped"}

TypeOK ==
    /\ setup \in Setups
    /\ heap \in Seq(Record) /\ Len(heap) <= MaxRecords
    /\ store \in [Request -> Record \cup {<<>>}]
    /\ late \subseteq Request
    /\ global_queue \in [Process -> SUBSET Addr]
    /\ health \in [Process -> [Worker -> {"healthy", "suspect", "unhealthy", "none"}]]
    /\ directory \in [Process -> SUBSET Worker]
    /\ reserved \in [Process -> SUBSET Request]
    /\ lease \in Process \cup {None}
    /\ up \subseteq Worker
    /\ queue \in [Worker -> Seq(Addr)]
    /\ running \in [Worker -> SUBSET Addr]
    /\ consumer \in [Process -> [pc : ConsumerPc, obj : 0..MaxRecords, remote : 0..MaxRecords]]
    /\ canceller \in [Process -> [pc : {"idle", "act", "save"}, copy : Record \cup {<<>>}]]
    /\ supervisor \in [Process -> [pc : SupervisorPc, todo : SUBSET Worker, list : SUBSET Record,
                                   obj : 0..MaxRecords]]
    /\ events \in Nat /\ runs \in [Request -> Nat]
    /\ unsaved \cup confirmed \subseteq Request /\ abandoned \subseteq Addr
    /\ rerun \subseteq Request \X {"caller", "recovery"}

Init ==
    /\ setup \in Setups
    /\ heap = <<>>
    /\ store = [r \in Request |-> <<>>]
    /\ late = {}
    /\ global_queue = [p \in Process |-> {}]
    /\ health = [p \in Process |-> [w \in Worker |-> IF w \in setup.workers THEN "healthy" ELSE "none"]]
    /\ directory = [p \in Process |-> setup.workers]
    /\ reserved = [p \in Process |-> {}]
    /\ consumer = [p \in Process |-> Idle]
    /\ canceller = [p \in Process |-> NoCancel]
    /\ supervisor = [p \in Process |-> SupIdle("wait")]
    /\ lease = None
    /\ up = setup.workers
    /\ queue = [w \in Worker |-> <<>>]
    /\ running = [w \in Worker |-> {}]
    /\ events = 0
    /\ runs = [r \in Request |-> 0]
    /\ unsaved = {} /\ confirmed = {} /\ rerun = {} /\ abandoned = {}

Copy(x) == Persisted(setup.store, x)
Event == events < setup.events /\ events' = events + 1

Eligible(p) == {w \in Worker : health[p][w] = "healthy"}
QueuedAs(p, r) == {o \in global_queue[p] : heap[o].req = r}

\* The consumer of p has a dispatch in progress, at step pc.
At(p, pc) == consumer[p].pc = pc
Held(p) == heap[consumer[p].obj]
Goto(p, pc) == consumer' = [consumer EXCEPT ![p].pc = pc]
Leave(p) == consumer' = [consumer EXCEPT ![p] = Idle]
SetHeld(p, x) == heap' = [heap EXCEPT ![consumer[p].obj] = x]
Save(x) == store' = [store EXCEPT ![x.req] = Copy(x)]
ReleaseAssignment(p) == reserved' = [reserved EXCEPT ![p] = @ \ {Held(p).req}]

-----------------------------------------------------------------------------
(* Submission and dispatch. *)

\* A request is created in the store, admitted and queued.
Submit(p, r) ==
    /\ setup.caller = "consumer"
    /\ store[r] = <<>> /\ Len(heap) < MaxRecords
    /\ heap' = Append(heap, NewRecord(r))
    /\ Save(NewRecord(r))
    /\ global_queue' = [global_queue EXCEPT ![p] = @ \cup {Len(heap) + 1}]
    /\ UNCHANGED <<setup, late, health, directory, reserved, actorVars, workerVars, events, historyVars>>

\* pop: which record of the queue comes first is FairQueue's business.
Take(p) ==
    /\ At(p, "idle") /\ setup.caller = "consumer"
    /\ \E o \in global_queue[p] :
          /\ ~IsTerminal(heap[o])
          /\ global_queue' = [global_queue EXCEPT ![p] = @ \ {o}]
          /\ consumer' = [consumer EXCEPT ![p] = [pc |-> "assign", obj |-> o, remote |-> 0]]
    /\ UNCHANGED <<setup, heap, store, late, health, directory, reserved, canceller, supervisor,
                   lease, workerVars, events, historyVars>>

\* The caller's handlers (pipeline): a record that is still open fails and is saved.
FailAndSave(p, x, target) ==
    /\ SetHeld(p, EndIfOpen(x, target))
    /\ IF IsTerminal(x) THEN UNCHANGED store ELSE Save(Transition(x, target))
    /\ Leave(p)

\* assign: past its deadline, without a worker, or already reserved.
AssignRaises(p) ==
    /\ At(p, "assign")
    /\ LET x == Held(p) IN
       \/ x.req \in late /\ FailAndSave(p, Transition(x, "timed_out"), "failed")
       \/ /\ x.req \notin late
          /\ Eligible(p) = {} \/ x.req \in reserved[p]
          /\ FailAndSave(p, x, "failed")
    /\ UNCHANGED <<setup, late, planeVars, canceller, supervisor, lease, workerVars, events, historyVars>>

\* assign: a worker is selected and reserved.
Assign(p) ==
    /\ At(p, "assign")
    /\ Held(p).req \notin late \cup reserved[p]
    /\ \E w \in Eligible(p) :
          SetHeld(p, Transition([Held(p) EXCEPT !.worker = w, !.attempts = @ + 1], "assigned"))
    /\ reserved' = [reserved EXCEPT ![p] = @ \cup {Held(p).req}]
    /\ Goto(p, "save")
    /\ UNCHANGED <<setup, store, late, global_queue, health, directory, canceller, supervisor, lease,
                   workerVars, events, historyVars>>

SaveAssigned(p) ==
    /\ At(p, "save")
    /\ Save(Held(p))
    /\ Goto(p, "prepare")
    /\ UNCHANGED <<setup, heap, late, planeVars, canceller, supervisor, lease, workerVars, events, historyVars>>

\* The store does not answer.  This save is outside dispatch's try statement,
\* so the reservation stays; the caller's handler cannot save either.
SaveAssignedRaises(p) ==
    /\ At(p, "save") /\ Event
    /\ SetHeld(p, Transition(Held(p), "failed"))
    /\ unsaved' = unsaved \cup {Held(p).req}
    /\ Leave(p)
    /\ UNCHANGED <<setup, store, late, planeVars, canceller, supervisor, lease, workerVars,
                   runs, confirmed, rerun, abandoned>>

\* Mutant: the finally clause is missing.
RejectKeepsReservation(p) ==
    /\ SetHeld(p, [Transition(Held(p), "queued") EXCEPT !.worker = NoWorker])
    /\ UNCHANGED reserved
    /\ Goto(p, "rejected")

\* dispatch's handler for MemoryError, OverflowError and RuntimeError: back to
\* QUEUED, which is not saved.
Reject(p) ==
    /\ SetHeld(p, [Transition(Held(p), "queued") EXCEPT !.worker = NoWorker])
    /\ ReleaseAssignment(p)
    /\ Goto(p, "rejected")

\* The worker left the directory or the registry, or a cold model does not load.
PrepareRaises(p) ==
    /\ At(p, "prepare")
    /\ LET w == Held(p).worker IN
       \/ (w \notin directory[p] \/ health[p][w] \in {"none", "unhealthy"} \/ w \notin up) /\ UNCHANGED events
       \/ w \in directory[p] /\ Event
    /\ Reject(p)
    /\ UNCHANGED <<setup, store, late, global_queue, health, directory, canceller, supervisor, lease,
                   workerVars, historyVars>>

\* The worker is known and hosts the model, if need be after a load and a heartbeat.
Prepare(p) ==
    /\ At(p, "prepare")
    /\ Held(p).worker \in directory[p] /\ health[p][Held(p).worker] # "none"
    /\ IF Held(p).req \in late
       THEN /\ SetHeld(p, Transition(Held(p), "timed_out"))
            /\ ReleaseAssignment(p) /\ Leave(p)
       ELSE Goto(p, "handoff") /\ UNCHANGED <<heap, reserved>>
    /\ UNCHANGED <<setup, store, late, global_queue, health, directory, canceller, supervisor, lease,
                   workerVars, events, historyVars>>

\* enqueue_request: an in-process worker queues the record itself, a remote one
\* the copy it parsed.
Handoff(p) ==
    /\ At(p, "handoff")
    /\ LET x == Transition(Held(p), "queued")
           a == IF setup.transport = "local" THEN consumer[p].obj ELSE Len(heap) + 1
       IN  /\ x.worker \in up
           /\ a <= MaxRecords
           /\ heap' = IF setup.transport = "local" THEN [heap EXCEPT ![a] = x] ELSE Append(heap, x)
           /\ queue' = [queue EXCEPT ![x.worker] = Append(@, a)]
           /\ consumer' = [consumer EXCEPT ![p].remote = a,
                              ![p].pc = IF setup.transport = "local" THEN "commit" ELSE "answer"]
    /\ UNCHANGED <<setup, store, late, planeVars, canceller, supervisor, lease, up, running, events,
                   historyVars>>

\* The worker is gone or refuses; or its acceptance does not reach the caller.
HandoffRaises(p) ==
    /\ \/ At(p, "handoff") /\ Held(p).worker \notin up /\ UNCHANGED events
       \/ At(p, "handoff") /\ Held(p).worker \in up /\ Event
       \/ At(p, "answer") /\ Event
    /\ Reject(p)
    /\ UNCHANGED <<setup, store, late, global_queue, health, directory, canceller, supervisor, lease,
                   workerVars, historyVars>>

\* The acceptance arrives, with the worker's record as it was when it was queued.
Answer(p) ==
    /\ At(p, "answer")
    /\ SetHeld(p, Applied(Held(p), Transition(Held(p), "queued")))
    /\ Goto(p, "commit")
    /\ UNCHANGED <<setup, store, late, planeVars, canceller, supervisor, lease, workerVars, events, historyVars>>

\* The second save of dispatch, and its finally clause.
Commit(p) ==
    /\ At(p, "commit")
    /\ Save(Held(p))
    /\ ReleaseAssignment(p)
    /\ Goto(p, "await")
    /\ UNCHANGED <<setup, heap, late, global_queue, health, directory, canceller, supervisor, lease,
                   workerVars, events, historyVars>>

\* After a rejected dispatch the caller fails the request ...
GiveUp(p) ==
    /\ At(p, "rejected")
    /\ FailAndSave(p, Held(p), "failed")
    /\ UNCHANGED <<setup, late, planeVars, canceller, supervisor, lease, workerVars, events, historyVars>>

\* ... or puts it back into the global queue, as its QUEUED status invites.
Requeue(p) ==
    /\ At(p, "rejected") /\ QueuedAs(p, Held(p).req) = {}
    /\ Held(p).attempts < MaxTries
    /\ global_queue' = [global_queue EXCEPT ![p] = @ \cup {consumer[p].obj}]
    /\ rerun' = IF consumer[p].remote = 0 THEN rerun ELSE rerun \cup {<<Held(p).req, "caller">>}
    /\ Leave(p)
    /\ UNCHANGED <<setup, heap, store, late, health, directory, reserved, canceller, supervisor, lease,
                   workerVars, events, runs, unsaved, confirmed, abandoned>>

\* The execution ended.  A completed one is taken over and saved; any other is
\* no result for the caller, which fails its record if that is still open.
Collect(p) ==
    /\ At(p, "await")
    /\ LET x == heap[consumer[p].remote] IN
       /\ IsTerminal(x)
       /\ IF x.status = "completed"
          THEN SetHeld(p, Applied(Held(p), x)) /\ Save(Applied(Held(p), x)) /\ Leave(p)
          ELSE FailAndSave(p, Held(p), "failed")
    /\ UNCHANGED <<setup, late, planeVars, canceller, supervisor, lease, workerVars, events, historyVars>>

\* The worker does not answer: it lost the request, or its answer is lost.
CollectRaises(p) ==
    /\ At(p, "await") /\ setup.transport = "http"
    /\ LET w == heap[consumer[p].remote].worker
           known == Range(queue[w]) \cup running[w]
       IN  \/ consumer[p].remote \notin known /\ ~IsTerminal(heap[consumer[p].remote]) /\ UNCHANGED events
           \/ consumer[p].remote \in known /\ Event
    /\ FailAndSave(p, Held(p), "failed")
    /\ UNCHANGED <<setup, late, planeVars, canceller, supervisor, lease, workerVars, historyVars>>

-----------------------------------------------------------------------------
(* The pipeline: submit holds its lock and awaits nothing, so the whole of it, *)
(* dispatch and execution included, is one step.                               *)

\* What becomes of the record x of r when _execute runs it: <<final record, what
\* the store is left with>>.  A record that the scheduler or the worker has
\* already ended is not saved again.
Executions(p, x) ==
    LET on(w, s) == [Transition(x, s) EXCEPT !.worker = w, !.attempts = @ + 1]
        ran(w, s) == [on(w, s) EXCEPT !.started = TRUE]
        reached == {w \in Eligible(p) : w \in directory[p] /\ w \in up}
        saved(y) == <<y, y>>
    IN  {<<Transition(x, "timed_out"), x>>} \cup
        (IF Eligible(p) = {} THEN {saved(Transition(x, "failed"))} ELSE {}) \cup
        {saved(on(NoWorker, "failed")) : w \in Eligible(p)} \cup          \* the handoff is rejected
        {<<on(w, "timed_out"), on(w, "assigned")>> : w \in reached} \cup   \* while the model loads
        {<<on(w, "timed_out"), on(w, "queued")>> : w \in reached} \cup     \* in the worker's queue
        {<<ran(w, "failed"), on(w, "queued")>> : w \in reached} \cup       \* the runtime raises
        {saved(ran(w, "completed")) : w \in reached}

\* submit: the request is created, queued, taken and executed; if the queue held
\* an older record, the pipeline gets that one and fails its own request.
PipelineSubmit(p, r) ==
    LET a == Len(heap) + 1
        open == {o \in global_queue[p] : ~IsTerminal(heap[o])}
    IN  /\ setup.caller = "pipeline" /\ store[r] = <<>> /\ a <= MaxRecords
        /\ \/ \E e \in Executions(p, NewRecord(r)) :
                 /\ heap' = Append(heap, e[1])
                 /\ Save(e[2])
                 /\ global_queue' = [global_queue EXCEPT ![p] = open]
                 /\ UNCHANGED abandoned
           \/ \E o \in open :
                 /\ heap' = Append(heap, Transition(NewRecord(r), "failed"))
                 /\ Save(Transition(NewRecord(r), "failed"))
                 /\ global_queue' = [global_queue EXCEPT ![p] = (open \ {o}) \cup {a}]
                 /\ abandoned' = abandoned \cup {o}
        /\ UNCHANGED <<setup, late, health, directory, reserved, actorVars, workerVars, events, runs, unsaved,
                       confirmed, rerun>>

-----------------------------------------------------------------------------
(* Workers: ManagedWorker.execute_batch with batches of one. *)

Executable(o) == ~IsTerminal(heap[o]) /\ heap[o].req \notin late

\* Ended and expired records at the front are dropped, the next one starts.
Start(w) ==
    /\ w \in up /\ running[w] = {} /\ queue[w] # <<>>
    /\ LET i == SelectInSeq(queue[w], Executable)
           dropped == Range(IF i = 0 THEN queue[w] ELSE SubSeq(queue[w], 1, i - 1))
           started == IF i = 0 THEN {} ELSE {queue[w][i]}
       IN  /\ heap' = [a \in DOMAIN heap |->
                          CASE a \in dropped -> EndIfOpen(heap[a], "timed_out")
                            [] a \in started -> Transition(heap[a], "running")
                            [] OTHER -> heap[a]]
           /\ running' = [running EXCEPT ![w] = started]
           /\ queue' = [queue EXCEPT ![w] = IF i = 0 THEN <<>> ELSE SubSeq(@, i + 1, Len(@))]
           /\ runs' = [r \in Request |-> runs[r] + Cardinality({a \in started : heap[a].req = r})]
    /\ UNCHANGED <<setup, store, late, planeVars, actorVars, up, events, unsaved, confirmed, rerun, abandoned>>

\* Mutant: the result is applied to a record that was cancelled meanwhile.
FinishAnyway(w) ==
    /\ \E o \in running[w] : heap' = [heap EXCEPT ![o] = Transition(@, "completed")]
    /\ running' = [running EXCEPT ![w] = {}]
    /\ UNCHANGED <<setup, store, late, planeVars, actorVars, up, queue, events, historyVars>>

\* The call returns, or raises; a record that ended meanwhile stays as it is.
Finish(w) ==
    /\ \E o \in running[w], target \in {"completed", "failed"} :
          heap' = [heap EXCEPT ![o] = EndIfOpen(@, target)]
    /\ running' = [running EXCEPT ![w] = {}]
    /\ UNCHANGED <<setup, store, late, planeVars, actorVars, up, queue, events, historyVars>>

\* A worker process dies with what it holds.
Crash(w) ==
    /\ setup.transport = "http" /\ w \in up /\ Event
    /\ up' = up \ {w}
    /\ queue' = [queue EXCEPT ![w] = <<>>]
    /\ running' = [running EXCEPT ![w] = {}]
    /\ UNCHANGED <<setup, heap, store, late, planeVars, actorVars, historyVars>>

\* ManagedWorker.shutdown: queued records fail, the worker leaves the registry.
Shutdown(w) ==
    /\ setup.transport = "local" /\ w \in up /\ Event
    /\ up' = up \ {w}
    /\ heap' = [a \in DOMAIN heap |-> IF a \in Range(queue[w]) THEN Transition(heap[a], "failed") ELSE heap[a]]
    /\ queue' = [queue EXCEPT ![w] = <<>>]
    /\ health' = [p \in Process |-> [health[p] EXCEPT ![w] = "none"]]
    /\ UNCHANGED <<setup, store, late, global_queue, directory, reserved, actorVars, running, historyVars>>

-----------------------------------------------------------------------------
(* The registry. *)

\* A worker process comes up; register is what it, or its handle, calls next.
Restart(w) ==
    /\ w \notin up /\ running[w] = {}
    /\ up' = up \cup {w}
    /\ UNCHANGED <<setup, heap, store, late, planeVars, actorVars, queue, running, events, historyVars>>

Register(p, w) ==
    /\ w \in up /\ health[p][w] \in {"unhealthy", "none"}
    /\ health' = [health EXCEPT ![p][w] = "healthy"]
    /\ directory' = [directory EXCEPT ![p] = @ \cup {w}]
    /\ UNCHANGED <<setup, heap, store, late, global_queue, reserved, actorVars, workerVars, events, historyVars>>

\* A heartbeat of a worker that is unhealthy, or unknown, raises.
Heartbeat(p, w) ==
    /\ w \in up /\ health[p][w] = "suspect"
    /\ health' = [health EXCEPT ![p][w] = "healthy"]
    /\ UNCHANGED <<setup, heap, store, late, global_queue, directory, reserved, actorVars, workerVars,
                   events, historyVars>>

-----------------------------------------------------------------------------
(* Cancellation. *)

CancelGet(p, r) ==
    /\ canceller[p].pc = "idle" /\ store[r] # <<>> /\ ~IsTerminal(store[r])
    /\ Event
    /\ canceller' = [canceller EXCEPT ![p] = [pc |-> "act", copy |-> store[r]]]
    /\ UNCHANGED <<setup, heap, store, late, planeVars, consumer, supervisor, lease, workerVars, historyVars>>

\* The records of r that worker w can still cancel: the first of its queue, or
\* the one it executes.
QueuedAt(w, r) == SelectInSeq(queue[w], LAMBDA o : heap[o].req = r)
AtWorker(w, r) ==
    IF QueuedAt(w, r) > 0 THEN {queue[w][QueuedAt(w, r)]}
    ELSE {o \in running[w] : heap[o].req = r /\ ~IsTerminal(heap[o])}

\* The records an answer of w's cancel handler updates: the worker's own and the
\* one its client in p kept from the handoff.
CancelledBy(p, w, r) ==
    AtWorker(w, r) \cup
    IF setup.transport = "http" /\ consumer[p].pc \in {"commit", "await"}
       /\ Held(p).req = r /\ heap[consumer[p].remote].worker = w
    THEN {consumer[p].obj} ELSE {}

CancelAt(p, objs) == heap' = [a \in DOMAIN heap |-> IF a \in objs THEN EndIfOpen(heap[a], "cancelled") ELSE heap[a]]

\* The global queue is asked first, then the worker of the stored copy.
CancelAct(p) ==
    /\ canceller[p].pc = "act"
    /\ LET x == canceller[p].copy
           w == x.worker
           found == w \in directory[p] /\ w \in up /\ AtWorker(w, x.req) # {}
       IN  \/ /\ QueuedAs(p, x.req) # {}
              /\ CancelAt(p, QueuedAs(p, x.req))
              /\ global_queue' = [global_queue EXCEPT ![p] = @ \ QueuedAs(p, x.req)]
              /\ canceller' = [canceller EXCEPT ![p].pc = "save"]
              /\ UNCHANGED <<queue, events>>
           \/ /\ QueuedAs(p, x.req) = {} /\ found
              /\ queue' = [queue EXCEPT ![w] = IF QueuedAt(w, x.req) > 0 THEN RemoveAt(@, QueuedAt(w, x.req)) ELSE @]
              /\ \/ /\ CancelAt(p, CancelledBy(p, w, x.req)) /\ UNCHANGED events
                    /\ canceller' = [canceller EXCEPT ![p].pc = "save"]
                 \/ /\ setup.transport = "http" /\ Event     \* the answer is lost
                    /\ CancelAt(p, AtWorker(w, x.req))
                    /\ canceller' = [canceller EXCEPT ![p] = NoCancel]
              /\ UNCHANGED global_queue
           \/ /\ QueuedAs(p, x.req) = {} /\ ~found
              /\ canceller' = [canceller EXCEPT ![p] = NoCancel]
              /\ UNCHANGED <<heap, global_queue, queue, events>>
    /\ UNCHANGED <<setup, store, late, health, directory, reserved, consumer, supervisor, lease, up,
                   running, historyVars>>

CancelSave(p) ==
    /\ canceller[p].pc = "save"
    /\ Save(Transition(canceller[p].copy, "cancelled"))
    /\ confirmed' = confirmed \cup {canceller[p].copy.req}
    /\ canceller' = [canceller EXCEPT ![p] = NoCancel]
    /\ UNCHANGED <<setup, heap, late, planeVars, consumer, supervisor, lease, workerVars, events,
                   runs, unsaved, rerun, abandoned>>

-----------------------------------------------------------------------------
(* The reliability supervisor and its lease. *)

Sup(p, pc) == supervisor[p].pc = pc
SupGoto(p, s) == supervisor' = [supervisor EXCEPT ![p] = s]
Waiting == SupIdle("wait")

\* Mutant: release without the comparison of RELEASE_SCRIPT.
ReleaseAny(p) == lease' = None

\* RELEASE_SCRIPT: only the owner's key is deleted.
Release(p) == lease' = IF lease = p THEN None ELSE lease

\* With a lease the supervisor first asks whether it is the owner, and renews or
\* acquires in a second call.
SupWakes(p) ==
    /\ Sup(p, "wait") /\ setup.store = "redis"
    /\ SupGoto(p, SupIdle(IF lease = p THEN "renew" ELSE "acquire"))
    /\ UNCHANGED <<setup, heap, store, late, planeVars, consumer, canceller, lease, workerVars, events,
                   historyVars>>

\* RENEW_SCRIPT: only the owner's key is extended.
SupRenew(p) ==
    /\ Sup(p, "renew")
    /\ SupGoto(p, IF lease = p THEN SupIdle("expire") ELSE Waiting)
    /\ UNCHANGED <<setup, heap, store, late, planeVars, consumer, canceller, lease, workerVars, events,
                   historyVars>>

\* SET NX
SupAcquire(p) ==
    /\ Sup(p, "acquire")
    /\ IF lease = None THEN lease' = p /\ SupGoto(p, SupIdle("expire"))
       ELSE UNCHANGED lease /\ SupGoto(p, Waiting)
    /\ UNCHANGED <<setup, heap, store, late, planeVars, consumer, canceller, workerVars, events, historyVars>>

\* expire_stale: of the workers that are not yet unhealthy, some are overdue and
\* some only delayed.  Without a lease this is where an interval begins.
SupExpire(p) ==
    /\ Sup(p, "expire") \/ (Sup(p, "wait") /\ setup.store = "memory")
    /\ \E expired \in SUBSET {w \in Worker : health[p][w] \in {"healthy", "suspect"}} :
       \E delayed \in SUBSET (Eligible(p) \ expired) :
          /\ health' = [health EXCEPT ![p] = [w \in Worker |->
                            CASE w \in expired -> "unhealthy" [] w \in delayed -> "suspect" [] OTHER -> @[w]]]
          /\ SupGoto(p, IF expired = {} THEN Waiting ELSE SupAt("recover", expired, {}, 0))
          /\ IF expired \cup delayed = {} THEN UNCHANGED events ELSE Event
    /\ UNCHANGED <<setup, heap, store, late, global_queue, directory, reserved, consumer, canceller, lease,
                   workerVars, historyVars>>

\* recover_failed_worker: the handle goes, and the store is listed.
SupRecover(p) ==
    /\ Sup(p, "recover")
    /\ \E w \in supervisor[p].todo :
          /\ directory' = [directory EXCEPT ![p] = @ \ {w}]
          /\ SupGoto(p, SupAt("walk", supervisor[p].todo \ {w},
                {store[r] : r \in {q \in Request :
                    store[q] # <<>> /\ store[q].worker = w /\ ~IsTerminal(store[q])}}, 0))
    /\ UNCHANGED <<setup, heap, store, late, global_queue, health, reserved, consumer, canceller, lease,
                   workerVars, events, historyVars>>

\* The rest of the list, then the rest of the workers, then the next interval.
Continue(p, list) ==
    SupGoto(p, IF list # {} THEN SupAt("walk", supervisor[p].todo, list, 0)
               ELSE IF supervisor[p].todo # {} THEN SupAt("recover", supervisor[p].todo, {}, 0)
               ELSE Waiting)

SupDone(p) ==
    /\ Sup(p, "walk") /\ supervisor[p].list = {}
    /\ Continue(p, {})
    /\ UNCHANGED <<setup, heap, store, late, planeVars, consumer, canceller, lease, workerVars, events,
                   historyVars>>

\* May the listed record be tried again?  Else it fails, or times out.
Retriable(x) == ~x.started /\ x.payload /\ x.attempts < MaxAttempts /\ x.req \notin late
Verdict(x) == IF ~x.started /\ x.payload /\ x.req \in late THEN "timed_out" ELSE "failed"

SupEnds(p) ==
    /\ Sup(p, "walk")
    /\ \E x \in supervisor[p].list :
          /\ ~Retriable(x)
          /\ Save(Transition(x, Verdict(x)))
          /\ Continue(p, supervisor[p].list \ {x})
    /\ UNCHANGED <<setup, heap, late, planeVars, consumer, canceller, lease, workerVars, events, historyVars>>

\* Mutant: the record is saved as queued but never enqueued.
SupForgets(p) ==
    /\ Sup(p, "walk") /\ Len(heap) < MaxRecords
    /\ \E x \in supervisor[p].list :
          /\ Retriable(x) /\ QueuedAs(p, x.req) = {}
          /\ heap' = Append(heap, [x EXCEPT !.status = "queued", !.worker = NoWorker])
          /\ SupGoto(p, SupAt("saveq", supervisor[p].todo, supervisor[p].list \ {x}, Len(heap) + 1))
    /\ UNCHANGED <<setup, store, late, planeVars, consumer, canceller, lease, workerVars, events, historyVars>>

\* The listed copy becomes a record of its own and enters the global queue ...
SupRequeues(p) ==
    /\ Sup(p, "walk") /\ Len(heap) < MaxRecords
    /\ \E x \in supervisor[p].list :
          /\ Retriable(x) /\ QueuedAs(p, x.req) = {}
          /\ heap' = Append(heap, [x EXCEPT !.status = "queued", !.worker = NoWorker])
          /\ global_queue' = [global_queue EXCEPT ![p] = @ \cup {Len(heap) + 1}]
          /\ SupGoto(p, SupAt("saveq", supervisor[p].todo, supervisor[p].list \ {x}, Len(heap) + 1))
          /\ rerun' = rerun \cup {<<x.req, "recovery">>}
    /\ UNCHANGED <<setup, store, late, health, directory, reserved, consumer, canceller, lease, workerVars,
                   events, runs, unsaved, confirmed, abandoned>>

\* ... and is saved afterwards, as it is by then.
SupSaves(p) ==
    /\ Sup(p, "saveq")
    /\ Save(heap[supervisor[p].obj])
    /\ SupGoto(p, SupAt("walk", supervisor[p].todo, supervisor[p].list, 0))
    /\ UNCHANGED <<setup, heap, late, planeVars, consumer, canceller, lease, workerVars, events, historyVars>>

\* The queue already holds the request: its ValueError ends the supervisor.
SupFails(p) ==
    /\ Sup(p, "walk")
    /\ \E x \in supervisor[p].list : Retriable(x) /\ QueuedAs(p, x.req) # {}
    /\ SupGoto(p, SupIdle("failed"))
    /\ Release(p)
    /\ UNCHANGED <<setup, heap, store, late, planeVars, consumer, canceller, workerVars, events, historyVars>>

SupStops(p) ==
    /\ Sup(p, "wait")
    /\ SupGoto(p, SupIdle("stopped"))
    /\ Release(p)
    /\ UNCHANGED <<setup, heap, store, late, planeVars, consumer, canceller, workerVars, events, historyVars>>

-----------------------------------------------------------------------------
(* Time. *)

DeadlinePasses(r) ==
    /\ r \notin late /\ Event
    /\ late' = late \cup {r}
    /\ UNCHANGED <<setup, heap, store, planeVars, actorVars, workerVars, historyVars>>

LeaseExpires ==
    /\ lease # None /\ Event
    /\ lease' = None
    /\ UNCHANGED <<setup, heap, store, late, planeVars, consumer, canceller, supervisor, workerVars, historyVars>>

ConsumerStep(p) ==
    \/ Take(p) \/ AssignRaises(p) \/ Assign(p) \/ SaveAssigned(p) \/ SaveAssignedRaises(p)
    \/ PrepareRaises(p) \/ Prepare(p) \/ Handoff(p) \/ HandoffRaises(p) \/ Answer(p) \/ Commit(p)
    \/ GiveUp(p) \/ Requeue(p) \/ Collect(p) \/ CollectRaises(p)
SupervisorStep(p) ==
    \/ SupWakes(p) \/ SupRenew(p) \/ SupAcquire(p) \/ SupExpire(p) \/ SupRecover(p) \/ SupDone(p)
    \/ SupEnds(p) \/ SupRequeues(p) \/ SupSaves(p) \/ SupFails(p) \/ SupStops(p)

Next ==
    \/ \E p \in setup.procs :
          \/ \E r \in setup.requests : Submit(p, r) \/ PipelineSubmit(p, r) \/ CancelGet(p, r)
          \/ ConsumerStep(p) \/ CancelAct(p) \/ CancelSave(p) \/ SupervisorStep(p)
          \/ \E w \in Worker : Register(p, w) \/ Heartbeat(p, w)
    \/ \E w \in setup.workers : Start(w) \/ Finish(w) \/ Crash(w) \/ Shutdown(w) \/ Restart(w)
    \/ \E r \in setup.requests : DeadlinePasses(r)
    \/ LeaseExpires

Spec == Init /\ [][Next]_vars

-----------------------------------------------------------------------------
(* Properties. *)

InFlight(p) == IF consumer[p].pc \in {"save", "prepare", "handoff", "answer", "commit"} THEN {Held(p).req} ELSE {}

\* The types, and: a placement reservation lasts as long as its dispatch, on
\* every path out of it but one, for a first save that raises leaves the
\* reservation behind.
PlaneInv ==
    /\ TypeOK
    /\ \A p \in Process :
          InFlight(p) \subseteq reserved[p] /\ reserved[p] \subseteq InFlight(p) \cup unsaved

\* A request runs a second time only after recovery put it back into the queue
\* or a caller did whose handoff may have reached a worker.  With the Redis
\* store, which returns records without a prompt, recovery never does.
RunsOnceUnlessRequeued ==
    \A r \in Request :
        runs[r] > 1 => <<r, "caller">> \in rerun \/ (setup.store = "memory" /\ <<r, "recovery">> \in rerun)

\* No request is dropped on the way: a record that is open and has no worker is
\* in a global queue or with a consumer, whatever failed and whoever put it
\* back.  The exception is a record that a pipeline took in place of its own.
NoRequestLost ==
    \A a \in DOMAIN heap : ~IsTerminal(heap[a]) /\ heap[a].worker = NoWorker =>
        a \in abandoned \/ \E p \in Process : a \in global_queue[p] \/ consumer[p].obj = a

Putback == {q[1] : q \in rerun}

\* A record of a request whose cancellation was confirmed does not become
\* COMPLETED, unless the request had been put back into the queue and had more
\* records than the cancellation could reach.
CancelledNeverCompletes ==
    [][\A a \in DOMAIN heap :
          heap[a].req \in confirmed \ Putback' /\ heap[a].status # "completed" => heap'[a].status # "completed"]_vars

\* No call of transition raises InvalidStateTransition, in whatever order the
\* consumer, the canceller, the supervisor and the workers get to a record.  The
\* one assignment past the table is apply_request_dict on a collected answer.
NoInvalidTransition ==
    [][\A a \in DOMAIN heap :
          \/ heap'[a].status \in Allowed[heap[a].status] \cup {heap[a].status}
          \/ setup.transport = "http" /\ \E p \in Process : At(p, "await") /\ consumer[p].obj = a]_vars

\* The lease passes from its holder only when it expires or the holder's own
\* supervisor ends: a delayed former owner cannot take or remove a successor's.
LeaseLeftByOwnerOrExpiry ==
    [][\A p \in Process : lease = p /\ lease' # p =>
          \/ lease' = None /\ supervisor' = supervisor
          \/ supervisor'[p].pc \in {"stopped", "failed"} /\ supervisor[p].pc # supervisor'[p].pc]_vars

=============================================================================
