----------------------------- MODULE Placement -----------------------------
(***************************************************************************)
(* Placement: the routing policies (serving_platform/routing/policies.py), *)
(* the reservation book (routing/reservations.py) and the handoffs of      *)
(* apps/control_plane/service.py that hold a reservation while they load   *)
(* a model on a worker and enqueue a request there.                        *)
(*                                                                         *)
(* The policies see what the registry last heard from each worker, less    *)
(* what pending handoffs have claimed.  Workers move on meanwhile: they    *)
(* run and finish requests, evict models, drain and leave, and the         *)
(* registry learns of it with a heartbeat.  Worker ids are numbers, so     *)
(* that sorting by worker id is the order of the numbers.  Scores are      *)
(* multiplied by their denominators and compared as integers.              *)
(***************************************************************************)
EXTENDS Integers, Sequences, FiniteSets, SequencesExt, FiniteSetsExt

CONSTANTS
    Worker,              \* a set of numbers
    Request,
    Model,
    None,
    Tokens,              \* estimated_tokens of a request
    Memory,              \* estimated_memory_bytes of a model
    MaxContext,          \* max_context_tokens of a model
    Compatible,          \* <<worker, model>> pairs whose device and runtime fit
    Total,               \* total_memory_bytes of a worker
    SafetyReserve,       \* memory_safety_reserve_bytes
    MaxConcurrency,
    Speed,               \* tokens per second of a worker
    SpeedUnit,           \* a common multiple of the speeds
    LoadSeconds,         \* load_timeout_seconds
    Slack,               \* seconds left to a request's deadline
    RequestsPerReplica,
    ColdLoadPenalty,
    Setups,              \* policy, model of each request, workers that report memory, initial residents
    MaxEvents            \* bound on failed loads, evictions, drains, ...

Policies == {"round_robin", "least_queue_depth", "model_residency_aware",
             "memory_aware_least_loaded", "estimated_completion_time", "demand_aware_placement"}

MemoryOf(models) == SumFunctionOnSet(Memory, models)

Reservation == [worker : Worker, model : Model, memory : Nat]
Decision == [req : Request, worker : Worker]

ASSUME PlacementAssumption ==
    /\ Worker \subseteq Nat /\ IsFiniteSet(Worker) /\ IsFiniteSet(Request) /\ IsFiniteSet(Model)
    /\ Memory \in [Model -> Nat] /\ SafetyReserve \in Nat
    /\ MaxConcurrency \in Nat \ {0} /\ Total \in Nat \ {0}
    /\ RequestsPerReplica \in Nat \ {0} /\ ColdLoadPenalty \in Nat
    /\ Tokens \in [Request -> Nat] /\ LoadSeconds \in Nat
    /\ Speed \in [Worker -> Nat \ {0}] /\ SpeedUnit \in Nat /\ \A w \in Worker : SpeedUnit % Speed[w] = 0
    /\ None \notin Reservation \cup Decision

\* What is resident at the start was loaded under the workers' own check.
ASSUME SetupsAssumption ==
    \A s \in Setups :
        /\ s \in [policy : Policies, models : [Request -> Model],
                  known : SUBSET Worker, resident : [Worker -> SUBSET Model]]
        /\ \A w \in Worker : MemoryOf(s.resident[w]) + SafetyReserve <= Total

VARIABLES
    setup,
    resident,        \* models on each worker
    queue,           \* requests queued on each worker
    running,         \* requests each worker executes, at most one
    draining,        \* workers told to drain
    gone,            \* workers that have shut down
    registry,        \* the worker snapshots the registry holds
    reservations,    \* per request: its PlacementReservation or None
    handoff,         \* per request: how far its dispatch is
    choosing,        \* holder of the book's lock with its decision, or None
    next,            \* the round-robin counter
    events,
    disturbed,       \* history: workers where a load failed or a model was evicted
    rotation         \* history: round-robin choices since the candidates changed

workerVars == <<resident, queue, running, draining, gone>>
bookVars == <<reservations, choosing, next, rotation>>
vars == <<setup, workerVars, registry, bookVars, handoff, events, disturbed>>

ModelOf(r) == setup.models[r]

\* What a worker tells the registry.
Snapshot(w) ==
    [health |-> "healthy", draining |-> w \in draining, resident |-> resident[w],
     available |-> Total - MemoryOf(resident[w]), depth |-> Len(queue[w]), active |-> Cardinality(running[w])]

Init ==
    /\ setup \in Setups
    /\ resident = setup.resident
    /\ queue = [w \in Worker |-> <<>>]
    /\ running = [w \in Worker |-> {}]
    /\ draining = {} /\ gone = {}
    /\ registry = [w \in Worker |->
          [health |-> "healthy", draining |-> FALSE, resident |-> setup.resident[w],
           available |-> Total - MemoryOf(setup.resident[w]), depth |-> 0, active |-> 0]]
    /\ reservations = [r \in Request |-> None]
    /\ handoff = [r \in Request |-> "new"]
    /\ choosing = None
    /\ next = 0 /\ events = 0
    /\ disturbed = {}
    /\ rotation = [among |-> {}, chosen |-> <<>>]

Event == events < MaxEvents /\ events' = events + 1

-----------------------------------------------------------------------------
(* What a policy sees, and whom it chooses. *)

Registered == {w \in Worker : registry[w].health # "none"}
Reserved(w) == {r \in Request : reservations[r] # None /\ reservations[r].worker = w}

\* Mutant: memory of models to be loaded is not taken.
EffectiveIgnoringMemory(w) == [registry[w] EXCEPT !.depth = @ + Cardinality(Reserved(w))]

Claimed(w) == SumFunction([r \in Reserved(w) |-> reservations[r].memory])

\* Pending handoffs deepen the queue and take the memory of a model to be loaded.
Effective(w) ==
    [registry[w] EXCEPT !.depth = @ + Cardinality(Reserved(w)),
                        !.available = IF @ > Claimed(w) THEN @ - Claimed(w) ELSE 0]

\* filter_workers: round robin and least queue depth want the model resident.
FilterResident(r) ==
    {w \in Registered :
        LET e == Effective(w) IN
        /\ e.health = "healthy" /\ ~e.draining
        /\ ModelOf(r) \in e.resident
        /\ e.active < MaxConcurrency}

\* PlacementPolicy._filter: the others may load it where memory allows.
FilterMemory(r) ==
    LET m == ModelOf(r) IN
    {w \in Registered :
        LET e == Effective(w) IN
        /\ e.health = "healthy" /\ ~e.draining
        /\ e.active < MaxConcurrency
        /\ <<w, m>> \in Compatible
        /\ Tokens[r] <= MaxContext[m]
        /\ \/ m \in e.resident
           \/ w \in setup.known /\ e.available - SafetyReserve >= Memory[m]}

Cold(e, r) == ModelOf(r) \notin e.resident

\* The least score wins, the least worker id among equals.
Least(score) ==
    CHOOSE w \in DOMAIN score :
        \A v \in DOMAIN score : score[w] < score[v] \/ (score[w] = score[v] /\ w <= v)

\* Mutant: the counter does not wrap.
RoundRobinStuck(r) ==
    LET S == FilterResident(r) IN
    CHOOSE w \in S : Cardinality({v \in S : v < w}) = Min({next, Cardinality(S) - 1})

\* eligible[self._next % len(eligible)] of the workers sorted by id
RoundRobin(r) ==
    LET S == FilterResident(r) IN
    CHOOSE w \in S : Cardinality({v \in S : v < w}) = next % Cardinality(S)

LeastQueueDepth(r) == Least([w \in FilterResident(r) |-> Effective(w).depth])

\* (cold, queue depth): no depth exceeds the number of requests.
ModelResidencyAware(r) ==
    Least([w \in FilterMemory(r) |->
        LET e == Effective(w) IN
        (IF Cold(e, r) THEN 2 * Cardinality(Request) + 1 ELSE 0) + e.depth])

\* The share of memory in use with the model, 1/2 where memory is not known,
\* the share of concurrency and the depth, times 2 * Total * MaxConcurrency.
MemoryAwareLeastLoaded(r) ==
    Least([w \in FilterMemory(r) |->
        LET e == Effective(w)
            used == Total - e.available + SafetyReserve + (IF Cold(e, r) THEN Memory[ModelOf(r)] ELSE 0)
        IN  (IF w \in setup.known THEN 2 * Min({used, Total}) ELSE Total) * MaxConcurrency
              + 2 * e.active * Total + 2 * e.depth * Total * MaxConcurrency])

\* Queueing, loading, generating and the batching penalty of a quarter, in
\* seconds times 4 * MaxConcurrency * SpeedUnit.
EstimatedSeconds(w, r) ==
    LET e == Effective(w) IN
    Tokens[r] * (4 * e.depth + 4 * MaxConcurrency + e.active) * (SpeedUnit \div Speed[w])
      + (IF Cold(e, r) THEN LoadSeconds * 4 * MaxConcurrency * SpeedUnit ELSE 0)

Feasible(r) == {w \in FilterMemory(r) : EstimatedSeconds(w, r) <= Slack * 4 * MaxConcurrency * SpeedUnit}

EstimatedCompletionTime(r) == Least([w \in Feasible(r) |-> EstimatedSeconds(w, r)])

Demand(m) == Cardinality({r \in Request : reservations[r] # None /\ reservations[r].model = m})

\* Warm workers first, until the demand wants more replicas than there are.
DemandAware(r) ==
    LET m == ModelOf(r)
        S == FilterMemory(r)
        wanted == (Demand(m) + RequestsPerReplica) \div RequestsPerReplica   \* ceil((demand + 1) / n), never 0
        scaleOut == Cardinality({w \in S : m \in Effective(w).resident}) < Min({Cardinality(S), wanted})
    IN  Least([w \in S |->
            LET e == Effective(w) IN
            e.depth * MaxConcurrency + e.active
              + (IF ~Cold(e, r) THEN 0 ELSE MaxConcurrency * (IF scaleOut THEN -1 ELSE ColdLoadPenalty))])

Eligible(r) ==
    CASE setup.policy \in {"round_robin", "least_queue_depth"} -> FilterResident(r)
      [] setup.policy = "estimated_completion_time" -> Feasible(r)
      [] OTHER -> FilterMemory(r)

Chosen(r) ==
    CASE setup.policy = "round_robin" -> RoundRobin(r)
      [] setup.policy = "least_queue_depth" -> LeastQueueDepth(r)
      [] setup.policy = "model_residency_aware" -> ModelResidencyAware(r)
      [] setup.policy = "memory_aware_least_loaded" -> MemoryAwareLeastLoaded(r)
      [] setup.policy = "estimated_completion_time" -> EstimatedCompletionTime(r)
      [] setup.policy = "demand_aware_placement" -> DemandAware(r)

-----------------------------------------------------------------------------
(* The reservation book: select_and_reserve reads the registry twice. *)

Goto(r, pc) == handoff' = [handoff EXCEPT ![r] = pc]

Select(r) ==
    /\ handoff[r] = "new" /\ choosing = None /\ Eligible(r) # {}
    /\ choosing' = [req |-> r, worker |-> Chosen(r)]
    /\ IF setup.policy = "round_robin"
       THEN /\ next' = next + 1
            /\ rotation' = [among |-> Eligible(r),
                            chosen |-> Append(IF rotation.among = Eligible(r) THEN rotation.chosen ELSE <<>>,
                                              Chosen(r))]
       ELSE UNCHANGED <<next, rotation>>
    /\ Goto(r, "select")
    /\ UNCHANGED <<setup, workerVars, registry, reservations, events, disturbed>>

\* NoEligibleWorker
SelectRaises(r) ==
    /\ handoff[r] = "new" /\ choosing = None /\ Eligible(r) = {}
    /\ Goto(r, "unplaced")
    /\ UNCHANGED <<setup, workerVars, registry, bookVars, events, disturbed>>

\* The first pending handoff of a cold model on a worker is charged its memory.
Charge(r, w) ==
    IF /\ ModelOf(r) \notin registry[w].resident
       /\ \A q \in Reserved(w) : reservations[q].model # ModelOf(r)
    THEN Memory[ModelOf(r)] ELSE 0

Reserve(r) ==
    /\ handoff[r] = "select"
    /\ choosing' = None
    /\ LET w == choosing.worker IN
       \/ /\ w \in Registered
          /\ reservations' = [reservations EXCEPT ![r] =
                [worker |-> w, model |-> ModelOf(r), memory |-> Charge(r, w)]]
          /\ Goto(r, "reserved")
       \/ /\ w \notin Registered     \* it disappeared before the reservation
          /\ Goto(r, "unplaced") /\ UNCHANGED reservations
    /\ UNCHANGED <<setup, workerVars, registry, next, rotation, events, disturbed>>

\* Mutant: only a handoff that succeeded releases.
ReleaseAccepted(r) ==
    /\ handoff[r] \in {"accepted", "refused"} /\ choosing = None
    /\ reservations' = [reservations EXCEPT ![r] = IF handoff[r] = "accepted" THEN None ELSE @]
    /\ Goto(r, IF handoff[r] = "accepted" THEN "placed" ELSE "unplaced")
    /\ UNCHANGED <<setup, workerVars, registry, choosing, next, rotation, events, disturbed>>

\* In the finally clause of dispatch, whatever became of the handoff.
Release(r) ==
    /\ handoff[r] \in {"accepted", "refused"} /\ choosing = None
    /\ reservations' = [reservations EXCEPT ![r] = None]
    /\ Goto(r, IF handoff[r] = "accepted" THEN "placed" ELSE "unplaced")
    /\ UNCHANGED <<setup, workerVars, registry, choosing, next, rotation, events, disturbed>>

-----------------------------------------------------------------------------
(* The handoff. *)

Target(r) == reservations[r].worker

\* The registry's snapshot decides whether the model has to be loaded.
Check(r) ==
    /\ handoff[r] = "reserved"
    /\ Goto(r, IF Target(r) \notin Registered THEN "refused"
               ELSE IF ModelOf(r) \in registry[Target(r)].resident THEN "ready" ELSE "load")
    /\ UNCHANGED <<setup, workerVars, registry, bookVars, events, disturbed>>

\* The worker holds the model already, or has room for it.
Load(r) ==
    LET w == Target(r) IN
    /\ handoff[r] = "load"
    /\ w \notin gone \cup draining
    /\ MemoryOf(resident[w] \cup {ModelOf(r)}) + SafetyReserve <= Total
    /\ resident' = [resident EXCEPT ![w] = @ \cup {ModelOf(r)}]
    /\ Goto(r, "loaded")
    /\ UNCHANGED <<setup, queue, running, draining, gone, registry, bookVars, events, disturbed>>

\* It lacks the memory, it is draining or gone, or the runtime fails.
LoadRaises(r) ==
    LET w == Target(r) IN
    /\ handoff[r] = "load"
    /\ IF w \in gone \cup draining \/ MemoryOf(resident[w] \cup {ModelOf(r)}) + SafetyReserve > Total
       THEN UNCHANGED events ELSE Event
    /\ Goto(r, "refused")
    /\ disturbed' = disturbed \cup {w}
    /\ UNCHANGED <<setup, workerVars, registry, bookVars>>

\* The heartbeat dispatch asks for after a load.
Publish(r) ==
    LET w == Target(r) IN
    /\ handoff[r] = "loaded"
    /\ \/ /\ w \notin gone
          /\ registry' = [registry EXCEPT ![w] = Snapshot(w)]
          /\ Goto(r, "ready") /\ UNCHANGED <<events, disturbed>>
       \/ /\ IF w \in gone THEN UNCHANGED events ELSE Event
          /\ Goto(r, "refused") /\ disturbed' = disturbed \cup {w} /\ UNCHANGED registry
    /\ UNCHANGED <<setup, workerVars, bookVars>>

Enqueue(r) ==
    LET w == Target(r) IN
    /\ handoff[r] = "ready"
    /\ IF w \notin gone \cup draining /\ ModelOf(r) \in resident[w]
       THEN queue' = [queue EXCEPT ![w] = Append(@, r)] /\ Goto(r, "accepted")
       ELSE UNCHANGED queue /\ Goto(r, "refused")
    /\ UNCHANGED <<setup, resident, running, draining, gone, registry, bookVars, events, disturbed>>

-----------------------------------------------------------------------------
(* The workers and the registry meanwhile. *)

Start(w) ==
    /\ queue[w] # <<>> /\ running[w] = {}
    /\ running' = [running EXCEPT ![w] = {Head(queue[w])}]
    /\ queue' = [queue EXCEPT ![w] = Tail(@)]
    /\ UNCHANGED <<setup, resident, draining, gone, registry, bookVars, handoff, events, disturbed>>

Finish(w) ==
    /\ running[w] # {}
    /\ running' = [running EXCEPT ![w] = {}]
    /\ UNCHANGED <<setup, resident, queue, draining, gone, registry, bookVars, handoff, events, disturbed>>

\* An idle model is evicted, for its age or to make room.
Evict(w, m) ==
    /\ m \in resident[w] /\ Event
    /\ \A r \in running[w] \cup ToSet(queue[w]) : ModelOf(r) # m
    /\ resident' = [resident EXCEPT ![w] = @ \ {m}]
    /\ disturbed' = disturbed \cup {w}
    /\ UNCHANGED <<setup, queue, running, draining, gone, registry, bookVars, handoff>>

Drain(w) ==
    /\ w \notin draining /\ Event
    /\ draining' = draining \cup {w}
    /\ UNCHANGED <<setup, resident, queue, running, gone, registry, bookVars, handoff, disturbed>>

\* Its queue fails, its models are unloaded and the registry forgets it.
Shutdown(w) ==
    /\ w \notin gone /\ Event
    /\ gone' = gone \cup {w} /\ draining' = draining \cup {w}
    /\ resident' = [resident EXCEPT ![w] = {}]
    /\ queue' = [queue EXCEPT ![w] = <<>>]
    /\ registry' = [registry EXCEPT ![w].health = "none"]
    /\ UNCHANGED <<setup, running, bookVars, handoff, disturbed>>

Heartbeat(w) ==
    /\ w \in Registered /\ w \notin gone
    /\ registry[w] # Snapshot(w)
    /\ registry' = [registry EXCEPT ![w] = Snapshot(w)]
    /\ UNCHANGED <<setup, workerVars, bookVars, handoff, events, disturbed>>

\* Its last heartbeat is older than suspect_after_seconds.
Overdue(w) ==
    /\ registry[w].health = "healthy" /\ Event
    /\ registry' = [registry EXCEPT ![w].health = "suspect"]
    /\ UNCHANGED <<setup, workerVars, bookVars, handoff, disturbed>>

Next ==
    \/ \E r \in Request :
          \/ Select(r) \/ SelectRaises(r) \/ Reserve(r) \/ Release(r)
          \/ Check(r) \/ Load(r) \/ LoadRaises(r) \/ Publish(r) \/ Enqueue(r)
    \/ \E w \in Worker :
          \/ Start(w) \/ Finish(w) \/ Drain(w) \/ Shutdown(w) \/ Heartbeat(w) \/ Overdue(w)
          \/ \E m \in Model : Evict(w, m)

Spec == Init /\ [][Next]_vars

-----------------------------------------------------------------------------
(* Properties. *)

\* A request holds a reservation exactly while its handoff is under way, the
\* lock is held by the request that is choosing, and of the pending handoffs
\* of one model on one worker at most one is charged (select_and_reserve and
\* the finally clause of dispatch).
PlacementInv ==
    /\ \A r \in Request :
          /\ (reservations[r] # None) <=> handoff[r] \in {"reserved", "load", "loaded", "ready", "accepted", "refused"}
          /\ handoff[r] = "select" <=> choosing # None /\ choosing.req = r
    /\ \A r, q \in Request :
          (/\ r # q /\ reservations[r] # None /\ reservations[q] # None
           /\ reservations[r].worker = reservations[q].worker
           /\ reservations[r].model = reservations[q].model)
             => reservations[r].memory = 0 \/ reservations[q].memory = 0
    /\ \A w \in Worker : MemoryOf(resident[w]) + SafetyReserve <= Total

\* Selection and reservation under one lock: unless a load failed or a model
\* was evicted there, the models on a worker and the models of the handoffs
\* bound for it fit into its memory together, however stale the registry is.
NoOvercommit ==
    \A w \in Worker \ disturbed :
        MemoryOf(resident[w] \cup {ModelOf(r) : r \in Reserved(w)}) + SafetyReserve <= Total

\* The counter is shared by all models and the candidates come and go, but
\* while they stay the same, as many choices as there are candidates reach
\* every one of them (RoundRobinPolicy.select).
RoundRobinRotates ==
    \A i, j \in DOMAIN rotation.chosen :
        i < j /\ j - i < Cardinality(rotation.among) => rotation.chosen[i] # rotation.chosen[j]

=============================================================================
