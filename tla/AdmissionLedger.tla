-------------------------- MODULE AdmissionLedger ---------------------------
(***************************************************************************)
(* What admission promises, for both controllers: a ledger of reservations *)
(* from which all the counts follow.  A reservation is queued or running;  *)
(* it enters only within the tenant's and the global limits, starts only   *)
(* within the tenant's concurrency, and leaves once.                       *)
(***************************************************************************)
EXTENDS Naturals, FiniteSets

CONSTANTS
    Request,
    Tenant,
    TenantOf,        \* [Request -> Tenant]
    Tokens,          \* [Request -> Nat]: estimated_tokens
    MaxQueued,       \* [Tenant -> Nat]: max_queued_requests
    MaxConcurrent,   \* [Tenant -> Nat]: max_concurrent_requests
    TokenQuota,      \* [Tenant -> Nat]: token_quota
    GlobalCapacity   \* global_queue_capacity

VARIABLE ledger      \* [reserved requests -> {"queued", "running"}]

-----------------------------------------------------------------------------
Reserved == DOMAIN ledger

With(state, t) == {r \in Reserved : ledger[r] = state /\ TenantOf[r] = t}

AllQueued == {r \in Reserved : ledger[r] = "queued"}

\* The tokens reserved by tenant t, as a set, so that their sum is its size.
TokensOf(t) ==
    UNION {{r} \X (1..Tokens[r]) : r \in {q \in Reserved : TenantOf[q] = t}}

-----------------------------------------------------------------------------
Init == ledger = [r \in {} |-> "queued"]

Admit(r) ==
    LET t == TenantOf[r]
    IN  /\ r \notin Reserved
        /\ Cardinality(AllQueued) < GlobalCapacity
        /\ Cardinality(With("queued", t)) < MaxQueued[t]
        /\ Cardinality(With("running", t)) < MaxConcurrent[t]
        /\ Cardinality(TokensOf(t)) + Tokens[r] <= TokenQuota[t]
        /\ ledger' = [q \in Reserved \cup {r} |-> IF q = r THEN "queued" ELSE ledger[q]]

Start(r) ==
    /\ r \in AllQueued
    /\ Cardinality(With("running", TenantOf[r])) < MaxConcurrent[TenantOf[r]]
    /\ ledger' = [ledger EXCEPT ![r] = "running"]

Release(r) ==
    /\ r \in Reserved
    /\ ledger' = [q \in Reserved \ {r} |-> ledger[q]]

Next == \E r \in Request : Admit(r) \/ Start(r) \/ Release(r)

Spec == Init /\ [][Next]_ledger

\* No limit is ever oversubscribed.
WithinLimits ==
    /\ Cardinality(AllQueued) <= GlobalCapacity
    /\ \A t \in Tenant :
          /\ Cardinality(With("queued", t)) <= MaxQueued[t]
          /\ Cardinality(With("running", t)) <= MaxConcurrent[t]
          /\ Cardinality(TokensOf(t)) <= TokenQuota[t]

=============================================================================
