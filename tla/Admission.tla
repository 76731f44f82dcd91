----------------------------- MODULE Admission ------------------------------
(***************************************************************************)
(* The two admission controllers, which keep the same counters beside the  *)
(* same reservation map: TenantAdmissionController (admission/             *)
(* controller.py, under one lock) and RedisAdmissionController (admission/ *)
(* redis_controller.py, one Lua script per update, shared by processes).   *)
(* They differ in the global count, which Redis keeps as one more counter, *)
(* and in the order of decide's checks.                                    *)
(*                                                                         *)
(* Callers are arbitrary: any request may be decided, marked running and   *)
(* released any number of times and in any order, as retries and several   *)
(* processes do.  A call that raises or refuses changes no state.          *)
(***************************************************************************)
EXTENDS Integers, FiniteSets

CONSTANTS
    Request, Tenant, TenantOf, Tokens,
    MaxQueued, MaxConcurrent, TokenQuota, GlobalCapacity

\* TenantLimits and both constructors demand positive limits; estimated_tokens
\* is positive because max_new_tokens is.
ASSUME AdmissionAssumption ==
    /\ TenantOf \in [Request -> Tenant]
    /\ Tokens \in [Request -> Nat \ {0}]
    /\ MaxQueued \in [Tenant -> Nat \ {0}]
    /\ MaxConcurrent \in [Tenant -> Nat \ {0}]
    /\ TokenQuota \in [Tenant -> Nat \ {0}]
    /\ GlobalCapacity \in Nat \ {0}
    /\ IsFiniteSet(Tenant)

VARIABLES
    shared,          \* TRUE: the Redis controller, FALSE: the local one; fixed at start
    queued,          \* _queued, tenant:<t>:queued
    running,         \* _running, tenant:<t>:running
    tokens,          \* _tokens, tenant:<t>:tokens
    global_queued,   \* global:queued (Redis only)
    reserved,        \* _reserved, reservation:<r>: "queued" or "running"
    healthy,         \* some worker is healthy and not draining
    expired          \* requests past their deadline

vars == <<shared, queued, running, tokens, global_queued, reserved, healthy, expired>>

-----------------------------------------------------------------------------
\* sum(self._queued.values())
SumQueued ==
    Cardinality(UNION {{t} \X (1..queued[t]) : t \in Tenant})

GlobalQueued == IF shared THEN global_queued ELSE SumQueued

\* The checks both make on the counters, in order.
Capacity(r) ==
    LET t == TenantOf[r]
    IN  IF GlobalQueued >= GlobalCapacity              THEN "global_queue_full"
        ELSE IF queued[t] >= MaxQueued[t]              THEN "tenant_queue_full"
        ELSE IF running[t] >= MaxConcurrent[t]         THEN "tenant_concurrency_limit"
        ELSE IF tokens[t] + Tokens[r] > TokenQuota[t]  THEN "tenant_token_quota"
        ELSE "admitted"

\* The checks that do not depend on the counters.  The request's model and its
\* context size are fixed and taken to be acceptable.
Precheck(r) ==
    IF r \in expired THEN "deadline_exceeded"
    ELSE IF ~healthy THEN "no_healthy_capacity"
    ELSE "ok"

\* decide's answer.  The local controller looks for the reservation first, the
\* shared one only inside the script, after the checks made in Python.
Code(r) ==
    IF ~shared /\ r \in DOMAIN reserved THEN "already_admitted"
    ELSE IF Precheck(r) # "ok"          THEN Precheck(r)
    ELSE IF r \in DOMAIN reserved       THEN "already_admitted"
    ELSE Capacity(r)

-----------------------------------------------------------------------------
Init ==
    /\ shared \in BOOLEAN
    /\ queued = [t \in Tenant |-> 0]
    /\ running = [t \in Tenant |-> 0]
    /\ tokens = [t \in Tenant |-> 0]
    /\ global_queued = 0
    /\ reserved = [r \in {} |-> "queued"]
    /\ healthy = TRUE
    /\ expired = {}

\* decide; a refusal and a repeated admission leave everything as it is.
Decide(r) ==
    /\ Code(r) = "admitted"
    /\ queued' = [queued EXCEPT ![TenantOf[r]] = @ + 1]
    /\ tokens' = [tokens EXCEPT ![TenantOf[r]] = @ + Tokens[r]]
    /\ global_queued' = IF shared THEN global_queued + 1 ELSE global_queued
    /\ reserved' = [q \in DOMAIN reserved \cup {r} |-> IF q = r THEN "queued" ELSE reserved[q]]
    /\ UNCHANGED <<shared, running, healthy, expired>>

\* Mutant: the concurrency limit is not checked again.
MayStartUnchecked(r) == r \in DOMAIN reserved /\ reserved[r] = "queued"

\* mark_running neither raises nor finds the request running.
MayStart(r) ==
    /\ r \in DOMAIN reserved
    /\ reserved[r] = "queued"
    /\ running[TenantOf[r]] < MaxConcurrent[TenantOf[r]]

MarkRunning(r) ==
    /\ MayStart(r)
    /\ queued' = [queued EXCEPT ![TenantOf[r]] = IF shared \/ @ > 0 THEN @ - 1 ELSE @]
    /\ running' = [running EXCEPT ![TenantOf[r]] = @ + 1]
    /\ global_queued' = IF shared THEN global_queued - 1 ELSE global_queued
    /\ reserved' = [reserved EXCEPT ![r] = "running"]
    /\ UNCHANGED <<shared, tokens, healthy, expired>>

\* Mutant: the state of the reservation is ignored.
ReleaseAsQueued(r) ==
    /\ r \in DOMAIN reserved
    /\ queued' = [queued EXCEPT ![TenantOf[r]] = @ - 1]
    /\ UNCHANGED running
    /\ global_queued' = IF shared THEN global_queued - 1 ELSE global_queued
    /\ tokens' = [tokens EXCEPT ![TenantOf[r]] = @ - Tokens[r]]
    /\ reserved' = [q \in DOMAIN reserved \ {r} |-> reserved[q]]
    /\ UNCHANGED <<shared, healthy, expired>>

\* release; without a reservation it does nothing.
Release(r) ==
    /\ r \in DOMAIN reserved
    /\ IF reserved[r] = "running"
       THEN /\ running' = [running EXCEPT ![TenantOf[r]] = @ - 1]
            /\ UNCHANGED <<queued, global_queued>>
       ELSE /\ queued' = [queued EXCEPT ![TenantOf[r]] = @ - 1]
            /\ global_queued' = IF shared THEN global_queued - 1 ELSE global_queued
            /\ UNCHANGED running
    /\ tokens' = [tokens EXCEPT ![TenantOf[r]] = @ - Tokens[r]]
    /\ reserved' = [q \in DOMAIN reserved \ {r} |-> reserved[q]]
    /\ UNCHANGED <<shared, healthy, expired>>

\* The workers' health changes; a deadline passes.
HealthChanges ==
    /\ healthy' = ~healthy
    /\ UNCHANGED <<shared, queued, running, tokens, global_queued, reserved, expired>>

Expire(r) ==
    /\ expired' = expired \cup {r}
    /\ UNCHANGED <<shared, queued, running, tokens, global_queued, reserved, healthy>>

Next ==
    \/ \E r \in Request : Decide(r) \/ MarkRunning(r) \/ Release(r) \/ Expire(r)
    \/ HealthChanges

Spec == Init /\ [][Next]_vars

-----------------------------------------------------------------------------
(* Properties *)

Ledger == INSTANCE AdmissionLedger WITH ledger <- reserved

\* Every variable has its type; the counters are natural numbers.
TypeOK ==
    /\ shared \in BOOLEAN
    /\ queued \in [Tenant -> Nat]
    /\ running \in [Tenant -> Nat]
    /\ tokens \in [Tenant -> Nat]
    /\ global_queued \in Nat
    /\ DOMAIN reserved \subseteq Request
    /\ reserved \in [DOMAIN reserved -> {"queued", "running"}]
    /\ healthy \in BOOLEAN
    /\ expired \subseteq Request

\* The counters never drift from the reservations they summarise, whatever
\* order of repeated decisions, starts and releases the callers produce.
CountersMatchLedger ==
    /\ \A t \in Tenant :
          /\ queued[t] = Cardinality(Ledger!With("queued", t))
          /\ running[t] = Cardinality(Ledger!With("running", t))
          /\ tokens[t] = Cardinality(Ledger!TokensOf(t))
    /\ GlobalQueued = Cardinality(Ledger!AllQueued)

\* The controllers' bookkeeping: fields of their types (no counter is negative)
\* that agree with the reservations after any calls, and reservations that never
\* oversubscribe a tenant's queue, concurrency or tokens, nor the global queue.
AccountingInv == TypeOK /\ CountersMatchLedger /\ Ledger!WithinLimits

\* Both controllers implement the ledger: the counters they test say what the
\* reservations say.
ImplementsLedger == Ledger!Spec

=============================================================================
