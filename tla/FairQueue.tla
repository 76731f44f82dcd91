----------------------------- MODULE FairQueue ------------------------------
(***************************************************************************)
(* WeightedFairRequestQueue (serving_platform/scheduling/fair_queue.py):   *)
(* deficit round robin over the tenants by token cost, priority with aging *)
(* within a tenant.  Every method holds the queue's lock, so each is one   *)
(* action.                                                                 *)
(*                                                                         *)
(* One call of pop visits every active tenant at most once and stops at    *)
(* the first it can serve, so it is described by the position k of that    *)
(* tenant instead of by a loop.  pop also drops terminal records it finds  *)
(* queued; cancel removes a record in the step that makes it terminal, so  *)
(* there are none.                                                         *)
(***************************************************************************)
EXTENDS Integers, Sequences, FiniteSets, SequencesExt, FiniteSetsExt, SeqFilter

CONSTANTS
    Tenant, Request,
    TenantOf,          \* [Request -> Tenant]
    Cost,              \* estimated_tokens
    Priority,
    CreatedAt,         \* created_at
    Weight,            \* scheduling_weight of a tenant
    base_quantum_tokens, priority_aging_seconds,
    ArrivalOrder,      \* bound: requests become admitted in this order
    MaxTime,           \* bound on the clock
    Cancellable,       \* bound: requests that may be cancelled
    Retriable          \* bound: requests that may be retried, once each

ASSUME FairQueueAssumption ==
    /\ IsFiniteSet(Tenant) /\ IsFiniteSet(Request)
    /\ TenantOf \in [Request -> Tenant]
    /\ Cost \in [Request -> Nat \ {0}]
    /\ Priority \in [Request -> Int]
    /\ CreatedAt \in [Request -> Nat]
    /\ Weight \in [Tenant -> Nat \ {0}]
    /\ {base_quantum_tokens, priority_aging_seconds} \subseteq Nat \ {0}
    /\ ArrivalOrder \in Seq(Request) /\ MaxTime \in Nat
    /\ Cancellable \cup Retriable \subseteq Request

VARIABLES
    queues,       \* _queues
    deficits,     \* _deficits
    active,       \* _active
    queued_at,    \* transition_timestamps[QUEUED], 0 while it is not read
    status,       \* "new", "queued", "popped" (with the caller) or "cancelled"
    arrived,      \* how many of ArrivalOrder were enqueued
    retried,      \* the requests that were retried
    now,          \* the clock
    passed        \* history: requests of others served since the tenant was served

vars == <<queues, deficits, active, queued_at, status, arrived, retried, now, passed>>

Quantum(t) == base_quantum_tokens * Weight[t]

TypeOK ==
    /\ queues \in [Tenant -> Seq(Request)]
    /\ deficits \in [Tenant -> Nat]
    /\ active \in Seq(Tenant)
    /\ queued_at \in [Request -> 0..MaxTime]
    /\ status \in [Request -> {"new", "queued", "popped", "cancelled"}]
    /\ passed \in [Tenant -> Nat]
    /\ now \in 0..MaxTime

-----------------------------------------------------------------------------
\* Mutant: waiting makes a request less urgent.
BeforeUnaged(r, q) ==
    LET Key(x) == Priority[x] * priority_aging_seconds + queued_at[x]
    IN  \/ Key(r) > Key(q)
        \/ Key(r) = Key(q) /\ CreatedAt[r] < CreatedAt[q]

\* Does r precede q?  The keys share now, which cancels out.
Before(r, q) ==
    LET Key(x) == Priority[x] * priority_aging_seconds - queued_at[x]
    IN  \/ Key(r) > Key(q)
        \/ Key(r) = Key(q) /\ CreatedAt[r] < CreatedAt[q]

\* _next_for_tenant: the first of the greatest.
NextForTenant(t) ==
    LET best(i) == \A j \in DOMAIN queues[t] : ~Before(queues[t][j], queues[t][i])
    IN  queues[t][Min({i \in DOMAIN queues[t] : best(i)})]

-----------------------------------------------------------------------------
\* Only a tenant that is not active enters the round.
Enters(t) == ~Contains(active, t)

\* The common part of an enqueue of r, whose status allows it.
Insert(r) ==
    LET t == TenantOf[r]
    IN  /\ ~Contains(queues[t], r)
        /\ queues' = [queues EXCEPT ![t] = Append(@, r)]
        /\ active' = IF Enters(t) THEN Append(active, t) ELSE active
        /\ passed' = IF queues[t] = <<>> THEN [passed EXCEPT ![t] = 0] ELSE passed
        /\ status' = [status EXCEPT ![r] = "queued"]
        /\ queued_at' = [queued_at EXCEPT ![r] = now]

\* enqueue of an admitted request.
Enqueue ==
    /\ arrived < Len(ArrivalOrder)
    /\ Insert(ArrivalOrder[arrived + 1])
    /\ arrived' = arrived + 1
    /\ UNCHANGED <<deficits, retried, now>>

\* enqueue of a request that was popped, assigned and came back to be retried.
Retry(r) ==
    /\ status[r] = "popped" /\ r \in Retriable \ retried
    /\ retried' = retried \cup {r}
    /\ Insert(r)
    /\ UNCHANGED <<deficits, arrived, now>>

\* May the visit of active[i] serve its tenant?
Serves(i) ==
    LET t == active[i]
    IN  queues[t] # <<>> /\ Cost[NextForTenant(t)] <= deficits[t] + Quantum(t)

\* Tenants visited in vain at positions 1..k: those with work gain a quantum and
\* go to the back, the others leave and lose their deficit.
Visited(k) == {active[i] : i \in 1..k}
Topped(k) ==
    [t \in Tenant |->
        IF t \notin Visited(k) THEN deficits[t]
        ELSE IF queues[t] = <<>> THEN 0 ELSE deficits[t] + Quantum(t)]
Rotated(k) ==
    SubSeq(active, k + 1, Len(active))
        \o Keep(SubSeq(active, 1, k), {t \in Tenant : queues[t] # <<>>})

\* Mutant: a served tenant goes back to the front.
PopServeGreedy ==
    \E k \in DOMAIN active :
        /\ Serves(k) /\ \A i \in 1..(k - 1) : ~Serves(i)
        /\ LET t == active[k]
               r == NextForTenant(t)
           IN  /\ queues' = [queues EXCEPT ![t] = Keep(@, Request \ {r})]
               /\ deficits' = [Topped(k - 1) EXCEPT ![t] = @ + Quantum(t) - Cost[r]]
               /\ active' = (IF queues'[t] # <<>> THEN <<t>> ELSE <<>>) \o Tail(Rotated(k - 1))
               /\ passed' = [u \in Tenant |-> IF u = t \/ queues[u] = <<>> THEN 0 ELSE passed[u] + 1]
               /\ status' = [status EXCEPT ![r] = "popped"]
               /\ queued_at' = [queued_at EXCEPT ![r] = 0]
    /\ UNCHANGED <<arrived, retried, now>>

\* Mutant: a served tenant is dropped although it has more work.
PopServeForgets ==
    \E k \in DOMAIN active :
        /\ Serves(k) /\ \A i \in 1..(k - 1) : ~Serves(i)
        /\ LET t == active[k]
               r == NextForTenant(t)
           IN  /\ queues' = [queues EXCEPT ![t] = Keep(@, Request \ {r})]
               /\ deficits' = [Topped(k - 1) EXCEPT ![t] = @ + Quantum(t) - Cost[r]]
               /\ active' = Tail(Rotated(k - 1))
               /\ passed' = [u \in Tenant |-> IF u = t \/ queues[u] = <<>> THEN 0 ELSE passed[u] + 1]
               /\ status' = [status EXCEPT ![r] = "popped"]
               /\ queued_at' = [queued_at EXCEPT ![r] = 0]
    /\ UNCHANGED <<arrived, retried, now>>

\* pop that returns a request: active[k] is the first tenant it can serve.
PopServe ==
    \E k \in DOMAIN active :
        /\ Serves(k) /\ \A i \in 1..(k - 1) : ~Serves(i)
        /\ LET t == active[k]
               r == NextForTenant(t)
           IN  /\ queues' = [queues EXCEPT ![t] = Keep(@, Request \ {r})]
               /\ deficits' = [Topped(k - 1) EXCEPT ![t] = @ + Quantum(t) - Cost[r]]
               /\ active' = Tail(Rotated(k - 1)) \o (IF queues'[t] # <<>> THEN <<t>> ELSE <<>>)
               /\ passed' = [u \in Tenant |-> IF u = t \/ queues[u] = <<>> THEN 0 ELSE passed[u] + 1]
               /\ status' = [status EXCEPT ![r] = "popped"]
               /\ queued_at' = [queued_at EXCEPT ![r] = 0]
    /\ UNCHANGED <<arrived, retried, now>>

\* pop that returns None after a whole round in vain.
PopNone ==
    /\ active # <<>>
    /\ \A i \in DOMAIN active : ~Serves(i)
    /\ deficits' = Topped(Len(active))
    /\ active' = Rotated(Len(active))
    /\ UNCHANGED <<queues, queued_at, status, arrived, retried, now, passed>>

\* Mutant: the cancelled record stays queued.
CancelKeepsQueued(r) ==
    /\ r \in Cancellable /\ status[r] = "queued"
    /\ status' = [status EXCEPT ![r] = "cancelled"]
    /\ UNCHANGED <<queues, queued_at, deficits, active, arrived, retried, now, passed>>

\* cancel: the tenant stays active, its deficit too.
Cancel(r) ==
    /\ r \in Cancellable /\ status[r] = "queued"
    /\ queues' = [queues EXCEPT ![TenantOf[r]] = Keep(@, Request \ {r})]
    /\ status' = [status EXCEPT ![r] = "cancelled"]
    /\ queued_at' = [queued_at EXCEPT ![r] = 0]
    /\ UNCHANGED <<deficits, active, arrived, retried, now, passed>>

\* Time passes.
Tick ==
    /\ now < MaxTime
    /\ now' = now + 1
    /\ UNCHANGED <<queues, deficits, active, queued_at, status, arrived, retried, passed>>

-----------------------------------------------------------------------------
Init ==
    /\ queues = [t \in Tenant |-> <<>>]
    /\ deficits = [t \in Tenant |-> 0]
    /\ active = <<>>
    /\ queued_at = [r \in Request |-> 0]
    /\ status = [r \in Request |-> "new"]
    /\ arrived = 0 /\ now = 0
    /\ retried = {}
    /\ passed = [t \in Tenant |-> 0]

Pop == PopServe \/ PopNone

Next == Enqueue \/ Pop \/ Tick \/ \E r \in Request : Retry(r) \/ Cancel(r)

Spec == Init /\ [][Next]_vars

\* The pipeline calls pop until it returns a request.
FairSpec == Spec /\ WF_vars(Pop)

-----------------------------------------------------------------------------
\* pop looks only at active tenants: a tenant with queued requests is active, and
\* no tenant is active twice, or it would be visited twice a round.
ActiveCoversWork ==
    /\ \A t \in Tenant : queues[t] # <<>> => Contains(active, t)
    /\ IsInjective(active)

\* The queues hold exactly the queued requests, each once and under its tenant.
QueuesHoldQueued ==
    \A t \in Tenant :
        /\ Range(queues[t]) = {r \in Request : TenantOf[r] = t /\ status[r] = "queued"}
        /\ IsInjective(queues[t])

\* The structure every pop relies on, after any enqueues, retries and
\* cancellations: types (a deficit is never negative), covered work, exact queues.
RoundInv == TypeOK /\ ActiveCoversWork /\ QueuesHoldQueued

\* A high-volume tenant cannot starve another: while a tenant has work, each other
\* tenant is served at most once per visit of it, and it needs no more visits than
\* its dearest request has quanta.
BoundedBypass ==
    \A t \in Tenant : queues[t] # <<>> =>
        LET dearest == Max({Cost[r] : r \in {q \in Request : TenantOf[q] = t}})
            visits == (dearest + Quantum(t) - 1) \div Quantum(t)
        IN  passed[t] <= (Cardinality(Tenant) - 1) * visits

\* Aging prevents old low-priority work from starving: nobody overtakes a request
\* of its tenant that has waited longer by more than the gap of their priorities.
AgingBoundsOvertaking ==
    [][\A r, q \in Request :
        (/\ TenantOf[r] = TenantOf[q]
         /\ status[r] = "queued" /\ status'[r] = "popped"
         /\ status[q] = "queued" /\ status'[q] = "queued")
        => queued_at[r] - queued_at[q]
             <= (Priority[r] - Priority[q]) * priority_aging_seconds]_vars

\* Every queued request leaves the queue when pop is called again and again: the
\* deficit of its tenant grows until it can be paid for.
EveryRequestLeaves ==
    \A r \in Request : status[r] = "queued" ~> status[r] # "queued"

=============================================================================
