---------------------------- MODULE GatewayProofs ---------------------------
(***************************************************************************)
(* Proofs about the gateway: its admission controllers (Admission), for    *)
(* every set of requests, finite set of tenants and limits, and for both   *)
(* controllers; then its streaming route (GatewayStream), for every finite *)
(* set of requests, every limit and every length of a stream, with and     *)
(* without a token engine.                                                 *)
(***************************************************************************)
EXTENDS Admission, GatewayStream, FiniteSetTheorems, TLAPS

-----------------------------------------------------------------------------
(* Admission controllers *)

\* The counters summarise cardinalities, so the induction also needs the sets
\* behind them to be finite.
IInv ==
    /\ AccountingInv
    /\ IsFiniteSet(DOMAIN reserved)
    /\ \A t \in Tenant : IsFiniteSet(Ledger!TokensOf(t))

-----------------------------------------------------------------------------
(* Sets behind the counters *)

\* The ledger counts with its own copy of Cardinality, which is the same.
LEMMA LedgerCardinality ==
    ASSUME NEW S
    PROVE  Ledger!Cardinality(S) = Cardinality(S)
  BY DEF Ledger!Cardinality, Cardinality

\* The queued and the running reservations are finitely many.
LEMMA LedgerSetsFinite ==
    ASSUME IsFiniteSet(DOMAIN reserved), NEW s, NEW t
    PROVE  /\ IsFiniteSet(Ledger!With(s, t)) /\ Cardinality(Ledger!With(s, t)) \in Nat
           /\ IsFiniteSet(Ledger!AllQueued) /\ Cardinality(Ledger!AllQueued) \in Nat
  <1>1. Ledger!With(s, t) \in SUBSET (DOMAIN reserved) /\ Ledger!AllQueued \in SUBSET (DOMAIN reserved)
    BY DEF Ledger!With, Ledger!AllQueued, Ledger!Reserved
  <1> QED BY <1>1, FS_Subset, FS_CardinalityType

\* A request's tokens, numbered: as many as it asks for.
LEMMA RequestTokens ==
    ASSUME NEW r \in Request
    PROVE  /\ IsFiniteSet({r} \X (1..Tokens[r]))
           /\ Cardinality({r} \X (1..Tokens[r])) = Tokens[r]
  <1>1. Tokens[r] \in Nat \ {0}
    BY AdmissionAssumption
  <1>2. IsFiniteSet({r}) /\ Cardinality({r}) = 1
    BY FS_Singleton
  <1>3. IsFiniteSet(1..Tokens[r]) /\ Cardinality(1..Tokens[r]) = Tokens[r]
    BY <1>1, FS_Interval
  <1>4. /\ IsFiniteSet({r} \X (1..Tokens[r]))
        /\ Cardinality({r} \X (1..Tokens[r])) = Cardinality({r}) * Cardinality(1..Tokens[r])
    BY <1>2, <1>3, FS_Product
  <1> QED BY <1>1, <1>2, <1>3, <1>4

\* A new reservation adds its tokens to those of its tenant and of no other.
LEMMA TokensAdded ==
    ASSUME NEW r \in Request, r \notin DOMAIN reserved, NEW t,
           DOMAIN reserved' = DOMAIN reserved \cup {r}, IsFiniteSet(Ledger!TokensOf(t))
    PROVE  /\ IsFiniteSet(Ledger!TokensOf(t)')
           /\ Cardinality(Ledger!TokensOf(t)') =
                 IF TenantOf[r] = t THEN Cardinality(Ledger!TokensOf(t)) + Tokens[r]
                                    ELSE Cardinality(Ledger!TokensOf(t))
  <1>1. CASE TenantOf[r] # t
    <2>1. Ledger!TokensOf(t)' = Ledger!TokensOf(t)
      BY <1>1 DEF Ledger!TokensOf, Ledger!Reserved
    <2> QED BY <1>1, <2>1
  <1>2. CASE TenantOf[r] = t
    <2> DEFINE new == {r} \X (1..Tokens[r])
    <2>1. Ledger!TokensOf(t)' = Ledger!TokensOf(t) \cup new
      BY <1>2 DEF Ledger!TokensOf, Ledger!Reserved
    <2>2. Ledger!TokensOf(t) \cap new = {}
      BY DEF Ledger!TokensOf, Ledger!Reserved
    <2>3. IsFiniteSet(new) /\ Cardinality(new) = Tokens[r]
      BY RequestTokens
    <2> HIDE DEF new
    <2>4. /\ IsFiniteSet(Ledger!TokensOf(t) \cup new)
          /\ Cardinality(Ledger!TokensOf(t) \cup new) =
                Cardinality(Ledger!TokensOf(t)) + Cardinality(new) - Cardinality({})
      BY <2>2, <2>3, FS_Union
    <2>5. Cardinality(Ledger!TokensOf(t)) \in Nat /\ Cardinality(new) \in Nat
      BY <2>3, FS_CardinalityType
    <2> QED BY <1>2, <2>1, <2>3, <2>4, <2>5, FS_EmptySet
  <1> QED BY <1>1, <1>2

\* A reservation that leaves takes its tokens from those of its tenant.
LEMMA TokensRemoved ==
    ASSUME NEW r \in DOMAIN reserved, r \in Request, NEW t,
           DOMAIN reserved' = DOMAIN reserved \ {r}, IsFiniteSet(Ledger!TokensOf(t))
    PROVE  /\ IsFiniteSet(Ledger!TokensOf(t)')
           /\ Cardinality(Ledger!TokensOf(t)') =
                 IF TenantOf[r] = t THEN Cardinality(Ledger!TokensOf(t)) - Tokens[r]
                                    ELSE Cardinality(Ledger!TokensOf(t))
  <1>1. CASE TenantOf[r] # t
    <2>1. Ledger!TokensOf(t)' = Ledger!TokensOf(t)
      BY <1>1 DEF Ledger!TokensOf, Ledger!Reserved
    <2> QED BY <1>1, <2>1
  <1>2. CASE TenantOf[r] = t
    <2> DEFINE old == {r} \X (1..Tokens[r])
    <2>1. Ledger!TokensOf(t)' = Ledger!TokensOf(t) \ old
      BY <1>2 DEF Ledger!TokensOf, Ledger!Reserved
    <2>2. Ledger!TokensOf(t) \cap old = old
      BY <1>2 DEF Ledger!TokensOf, Ledger!Reserved
    <2>3. IsFiniteSet(old) /\ Cardinality(old) = Tokens[r]
      BY RequestTokens
    <2> HIDE DEF old
    <2>4. /\ IsFiniteSet(Ledger!TokensOf(t) \ old)
          /\ Cardinality(Ledger!TokensOf(t) \ old) =
                Cardinality(Ledger!TokensOf(t)) - Cardinality(Ledger!TokensOf(t) \cap old)
      BY FS_Difference
    <2>5. Cardinality(Ledger!TokensOf(t)') = Cardinality(Ledger!TokensOf(t)) - Tokens[r]
      BY <2>1, <2>2, <2>3, <2>4
    <2> QED BY <1>2, <2>1, <2>4, <2>5
  <1> QED BY <1>1, <1>2

-----------------------------------------------------------------------------
(* The sum of the tenants' queues *)

\* The places SumQueued counts.
Places == UNION {{t} \X (1..queued[t]) : t \in Tenant}

\* The places are finitely many, since no queue exceeds the global one.
LEMMA PlacesFinite ==
    ASSUME IInv
    PROVE  IsFiniteSet(Places) /\ SumQueued = Cardinality(Places) /\ Cardinality(Places) \in Nat
  <1>1. ASSUME NEW t \in Tenant
        PROVE  queued[t] \in Nat /\ queued[t] <= GlobalCapacity
    <2>1. Ledger!With("queued", t) \in SUBSET Ledger!AllQueued
      BY DEF Ledger!With, Ledger!AllQueued
    <2>2. Cardinality(Ledger!With("queued", t)) <= Cardinality(Ledger!AllQueued)
      BY <2>1, LedgerSetsFinite, FS_Subset DEF IInv
    <2>3. queued[t] \in Nat /\ queued[t] = Cardinality(Ledger!With("queued", t))
      BY DEF IInv, AccountingInv, TypeOK, CountersMatchLedger
    <2>4. Cardinality(Ledger!AllQueued) \in Nat /\ Cardinality(Ledger!AllQueued) <= GlobalCapacity
      BY LedgerSetsFinite, LedgerCardinality DEF IInv, AccountingInv, Ledger!WithinLimits
    <2>5. GlobalCapacity \in Nat
      BY AdmissionAssumption
    <2> QED BY <2>2, <2>3, <2>4, <2>5
  <1>2. Places \in SUBSET (Tenant \X (1..GlobalCapacity))
    BY <1>1, AdmissionAssumption DEF Places
  <1>3. IsFiniteSet(Tenant \X (1..GlobalCapacity))
    <2>1. IsFiniteSet(1..GlobalCapacity)
      <3>1. 1 \in Int /\ GlobalCapacity \in Int
        BY AdmissionAssumption
      <3> QED BY <3>1, FS_Interval
    <2>2. IsFiniteSet(Tenant)
      BY AdmissionAssumption
    <2> QED BY <2>1, <2>2, FS_Product
  <1> QED BY <1>2, <1>3, FS_Subset, FS_CardinalityType DEF SumQueued, Places

\* One more request in a tenant's queue, one more place.
LEMMA PlaceAdded ==
    ASSUME IInv, NEW t \in Tenant, queued' = [queued EXCEPT ![t] = @ + 1]
    PROVE  SumQueued' = SumQueued + 1
  <1>1. queued \in [Tenant -> Nat]
    BY DEF IInv, AccountingInv, TypeOK
  <1> DEFINE new == <<t, queued[t] + 1>>
  <1>2. Places' \subseteq Places \cup {new}
    <2> SUFFICES ASSUME NEW u \in Tenant, NEW i \in 1..queued'[u]
                 PROVE  <<u, i>> \in Places \cup {new}
      BY DEF Places
    <2> QED BY <1>1 DEF Places
  <1>3. Places \cup {new} \subseteq Places'
    <2>1. \A u \in Tenant : \A i \in 1..queued[u] : i \in 1..queued'[u]
      BY <1>1
    <2>2. queued[t] + 1 \in 1..queued'[t]
      BY <1>1
    <2> QED BY <2>1, <2>2 DEF Places
  <1>4. new \notin Places
    BY <1>1 DEF Places
  <1>5. SumQueued' = Cardinality(Places')
    BY DEF SumQueued, Places
  <1> HIDE DEF new
  <1>6. Places' = Places \cup {new}
    BY <1>2, <1>3
  <1> QED BY <1>4, <1>5, <1>6, PlacesFinite, FS_AddElement

\* One request less in a tenant's queue, one place less.
LEMMA PlaceRemoved ==
    ASSUME IInv, NEW t \in Tenant, queued[t] > 0, queued' = [queued EXCEPT ![t] = @ - 1]
    PROVE  SumQueued' = SumQueued - 1
  <1>1. queued \in [Tenant -> Nat]
    BY DEF IInv, AccountingInv, TypeOK
  <1> DEFINE old == <<t, queued[t]>>
  <1>2. Places' \subseteq Places \ {old}
    <2> SUFFICES ASSUME NEW u \in Tenant, NEW i \in 1..queued'[u]
                 PROVE  <<u, i>> \in Places \ {old}
      BY DEF Places
    <2> QED BY <1>1 DEF Places
  <1>3. Places \ {old} \subseteq Places'
    <2> SUFFICES ASSUME NEW u \in Tenant, NEW i \in 1..queued[u], <<u, i>> # old
                 PROVE  <<u, i>> \in Places'
      BY DEF Places
    <2>1. i \in 1..queued'[u]
      BY <1>1
    <2> QED BY <2>1 DEF Places
  <1>4. old \in Places
    BY <1>1 DEF Places
  <1>5. SumQueued' = Cardinality(Places')
    BY DEF SumQueued, Places
  <1> HIDE DEF old
  <1>6. Places' = Places \ {old}
    BY <1>2, <1>3
  <1> QED BY <1>4, <1>5, <1>6, PlacesFinite, FS_RemoveElement

-----------------------------------------------------------------------------
(* Reservations by state and tenant *)

\* A counted set that a reservation enters grows by one.
LEMMA SetGains ==
    ASSUME NEW S, NEW T, NEW r, IsFiniteSet(S), r \notin S, T = S \cup {r}
    PROVE  IsFiniteSet(T) /\ Cardinality(T) = Cardinality(S) + 1
  BY FS_AddElement

\* A counted set that a reservation leaves had it, and shrinks by one.
LEMMA SetLoses ==
    ASSUME NEW S, NEW T, NEW r, IsFiniteSet(S), r \in S, T = S \ {r}
    PROVE  IsFiniteSet(T) /\ Cardinality(T) = Cardinality(S) - 1 /\ Cardinality(S) > 0
  <1>1. IsFiniteSet(T) /\ Cardinality(T) = Cardinality(S) - 1
    BY FS_RemoveElement
  <1>2. Cardinality(T) \in Nat /\ Cardinality(S) \in Nat
    BY <1>1, FS_CardinalityType
  <1> QED BY <1>1, <1>2

\* What the reservations of IInv say of a tenant's counters.
LEMMA Counters ==
    ASSUME IInv, NEW t \in Tenant
    PROVE  /\ queued[t] \in Nat /\ queued[t] = Cardinality(Ledger!With("queued", t))
           /\ running[t] \in Nat /\ running[t] = Cardinality(Ledger!With("running", t))
           /\ tokens[t] \in Nat /\ tokens[t] = Cardinality(Ledger!TokensOf(t))
           /\ GlobalQueued \in Nat /\ GlobalQueued = Cardinality(Ledger!AllQueued)
           /\ shared => global_queued = GlobalQueued
           /\ ~shared => SumQueued = GlobalQueued
  BY LedgerSetsFinite
  DEF IInv, AccountingInv, TypeOK, CountersMatchLedger, GlobalQueued

\* IInv from its parts, tenant by tenant.
LEMMA IInvFromParts ==
    ASSUME TypeOK, IsFiniteSet(DOMAIN reserved),
           GlobalQueued = Cardinality(Ledger!AllQueued),
           Cardinality(Ledger!AllQueued) <= GlobalCapacity,
           \A t \in Tenant :
              /\ queued[t] = Cardinality(Ledger!With("queued", t))
              /\ running[t] = Cardinality(Ledger!With("running", t))
              /\ tokens[t] = Cardinality(Ledger!TokensOf(t))
              /\ IsFiniteSet(Ledger!TokensOf(t))
              /\ queued[t] <= MaxQueued[t]
              /\ running[t] <= MaxConcurrent[t]
              /\ tokens[t] <= TokenQuota[t]
    PROVE  IInv
  BY LedgerCardinality DEF IInv, AccountingInv, CountersMatchLedger, Ledger!WithinLimits

-----------------------------------------------------------------------------
(* The induction *)

\* Both controllers start with empty books.
LEMMA InitIInv ==
    ASSUME Init
    PROVE  IInv
  <1>1. DOMAIN reserved = {}
    BY DEF Init
  <1>2. IsFiniteSet({}) /\ Cardinality({}) = 0
    BY FS_EmptySet
  <1>3. Ledger!AllQueued = {}
    BY <1>1 DEF Ledger!AllQueued, Ledger!Reserved
  <1>4. ASSUME NEW t
        PROVE  Ledger!With("queued", t) = {} /\ Ledger!With("running", t) = {} /\ Ledger!TokensOf(t) = {}
    BY <1>1 DEF Ledger!With, Ledger!TokensOf, Ledger!Reserved
  <1>5. GlobalQueued = 0
    <2>1. UNION {{t} \X (1..queued[t]) : t \in Tenant} = {}
      BY DEF Init
    <2> QED BY <2>1, <1>2 DEF GlobalQueued, SumQueued, Init
  <1>6. TypeOK
    BY <1>1 DEF Init, TypeOK
  <1>7. ASSUME NEW t \in Tenant
        PROVE  /\ queued[t] = 0 /\ running[t] = 0 /\ tokens[t] = 0
               /\ 0 <= MaxQueued[t] /\ 0 <= MaxConcurrent[t] /\ 0 <= TokenQuota[t]
    BY AdmissionAssumption DEF Init
  <1>8. 0 <= GlobalCapacity
    BY AdmissionAssumption
  <1> QED BY <1>1, <1>2, <1>3, <1>4, <1>5, <1>6, <1>7, <1>8, IInvFromParts

\* decide admits only what fits, and counts it in its tenant's queue.
LEMMA DecideIInv ==
    ASSUME IInv, NEW r \in Request, Decide(r)
    PROVE  IInv' /\ Ledger!Admit(r)
  <1> DEFINE t == TenantOf[r]
  <1>1. t \in Tenant
    BY AdmissionAssumption
  <1>2. TypeOK /\ IsFiniteSet(DOMAIN reserved)
    BY DEF IInv, AccountingInv
  <1>3. /\ r \notin DOMAIN reserved
        /\ ~(GlobalQueued >= GlobalCapacity)
        /\ ~(queued[t] >= MaxQueued[t])
        /\ ~(running[t] >= MaxConcurrent[t])
        /\ ~(tokens[t] + Tokens[r] > TokenQuota[t])
    BY DEF Decide, Code, Capacity, Precheck
  <1>4. /\ GlobalCapacity \in Nat /\ MaxQueued[t] \in Nat /\ MaxConcurrent[t] \in Nat
        /\ TokenQuota[t] \in Nat /\ Tokens[r] \in Nat
    BY <1>1, AdmissionAssumption
  <1>5. /\ GlobalQueued + 1 <= GlobalCapacity /\ queued[t] + 1 <= MaxQueued[t]
        /\ running[t] < MaxConcurrent[t] /\ tokens[t] + Tokens[r] <= TokenQuota[t]
    BY <1>1, <1>3, <1>4, Counters
  <1>6. /\ queued' = [queued EXCEPT ![t] = @ + 1]
        /\ tokens' = [tokens EXCEPT ![t] = @ + Tokens[r]]
        /\ global_queued' = IF shared THEN global_queued + 1 ELSE global_queued
        /\ reserved' = [q \in DOMAIN reserved \cup {r} |-> IF q = r THEN "queued" ELSE reserved[q]]
        /\ shared' = shared /\ running' = running /\ healthy' = healthy /\ expired' = expired
    BY DEF Decide
  <1>7. DOMAIN reserved' = DOMAIN reserved \cup {r}
    BY <1>6
  <1> HIDE DEF t
  <1>8. TypeOK'
    BY <1>1, <1>2, <1>4, <1>6, <1>7 DEF TypeOK
  <1>9. IsFiniteSet(DOMAIN reserved')
    BY <1>2, <1>7, FS_AddElement
  <1>10. Cardinality(Ledger!AllQueued') = Cardinality(Ledger!AllQueued) + 1
    <2>1. Ledger!AllQueued' = Ledger!AllQueued \cup {r} /\ r \notin Ledger!AllQueued
      BY <1>3, <1>6 DEF Ledger!AllQueued, Ledger!Reserved
    <2> QED BY <2>1, <1>2, LedgerSetsFinite, SetGains
  <1>11. GlobalQueued' = GlobalQueued + 1
    BY <1>1, <1>6, PlaceAdded, Counters DEF GlobalQueued
  <1>12. ASSUME NEW u \in Tenant
         PROVE  /\ queued'[u] = Cardinality(Ledger!With("queued", u)')
                /\ running'[u] = Cardinality(Ledger!With("running", u)')
                /\ tokens'[u] = Cardinality(Ledger!TokensOf(u)')
                /\ IsFiniteSet(Ledger!TokensOf(u)')
                /\ queued'[u] <= MaxQueued[u]
                /\ running'[u] <= MaxConcurrent[u]
                /\ tokens'[u] <= TokenQuota[u]
    <2>1. /\ queued[u] <= MaxQueued[u] /\ running[u] <= MaxConcurrent[u] /\ tokens[u] <= TokenQuota[u]
          /\ IsFiniteSet(Ledger!TokensOf(u))
      BY LedgerCardinality DEF IInv, AccountingInv, CountersMatchLedger, Ledger!WithinLimits
    <2>2. queued \in [Tenant -> Nat] /\ tokens \in [Tenant -> Nat]
      BY <1>2 DEF TypeOK
    <2>3. Ledger!With("running", u)' = Ledger!With("running", u)
      BY <1>3, <1>6 DEF Ledger!With, Ledger!Reserved
    <2>4. /\ IsFiniteSet(Ledger!TokensOf(u)')
          /\ Cardinality(Ledger!TokensOf(u)') =
                IF TenantOf[r] = u THEN Cardinality(Ledger!TokensOf(u)) + Tokens[r]
                                   ELSE Cardinality(Ledger!TokensOf(u))
      BY <1>3, <1>7, <2>1, TokensAdded
    <2>5. CASE u = t
      <3>1. Ledger!With("queued", u)' = Ledger!With("queued", u) \cup {r} /\ r \notin Ledger!With("queued", u)
        BY <1>3, <1>6, <2>5 DEF Ledger!With, Ledger!Reserved, t
      <3>2. Cardinality(Ledger!With("queued", u)') = Cardinality(Ledger!With("queued", u)) + 1
        BY <3>1, <1>2, LedgerSetsFinite, SetGains
      <3>3. queued'[u] = queued[u] + 1 /\ tokens'[u] = tokens[u] + Tokens[r] /\ running'[u] = running[u]
        BY <1>1, <1>6, <2>2, <2>5
      <3>4. TenantOf[r] = u
        BY <2>5 DEF t
      <3> QED BY <1>5, <2>1, <2>3, <2>4, <2>5, <3>2, <3>3, <3>4, Counters
    <2>6. CASE u # t
      <3>1. Ledger!With("queued", u)' = Ledger!With("queued", u)
        BY <1>6, <2>6 DEF Ledger!With, Ledger!Reserved, t
      <3>2. queued'[u] = queued[u] /\ tokens'[u] = tokens[u] /\ running'[u] = running[u]
        BY <1>6, <2>2, <2>6
      <3>3. TenantOf[r] # u
        BY <2>6 DEF t
      <3> QED BY <2>1, <2>3, <2>4, <3>1, <3>2, <3>3, Counters
    <2> QED BY <2>5, <2>6
  <1>13. GlobalQueued' = Cardinality(Ledger!AllQueued') /\ Cardinality(Ledger!AllQueued') <= GlobalCapacity
    BY <1>1, <1>5, <1>10, <1>11, Counters
  <1>14. IInv'
    BY <1>8, <1>9, <1>12, <1>13, LedgerCardinality DEF IInv, AccountingInv, CountersMatchLedger, Ledger!WithinLimits
  <1>15. Ledger!Admit(r)
    <2>1. /\ Cardinality(Ledger!AllQueued) < GlobalCapacity
          /\ Cardinality(Ledger!With("queued", t)) < MaxQueued[t]
          /\ Cardinality(Ledger!With("running", t)) < MaxConcurrent[t]
          /\ Cardinality(Ledger!TokensOf(t)) + Tokens[r] <= TokenQuota[t]
      BY <1>1, <1>4, <1>5, Counters
    <2> QED BY <2>1, <1>3, <1>6, LedgerCardinality DEF Ledger!Admit, Ledger!Reserved, t
  <1> QED BY <1>14, <1>15

\* mark_running moves a request from its tenant's queue to its running count.
LEMMA MarkRunningIInv ==
    ASSUME IInv, NEW r \in Request, MarkRunning(r)
    PROVE  IInv' /\ Ledger!Start(r)
  <1> DEFINE t == TenantOf[r]
  <1>1. t \in Tenant
    BY AdmissionAssumption
  <1>2. TypeOK /\ IsFiniteSet(DOMAIN reserved)
    BY DEF IInv, AccountingInv
  <1>3. r \in DOMAIN reserved /\ reserved[r] = "queued" /\ running[t] < MaxConcurrent[t]
    BY DEF MarkRunning, MayStart
  <1>4. MaxConcurrent[t] \in Nat /\ GlobalCapacity \in Nat /\ \A u \in Tenant : MaxQueued[u] \in Nat
    BY <1>1, AdmissionAssumption
  <1>5. Cardinality(Ledger!With("queued", t)) > 0 /\ Cardinality(Ledger!AllQueued) > 0
    <2>1. r \in Ledger!With("queued", t) /\ r \in Ledger!AllQueued
      BY <1>3 DEF Ledger!With, Ledger!AllQueued, Ledger!Reserved
    <2> QED BY <2>1, <1>2, LedgerSetsFinite, SetLoses
  <1>6. queued[t] > 0 /\ GlobalQueued > 0
    BY <1>1, <1>5, Counters
  <1>7. /\ queued' = [queued EXCEPT ![t] = IF shared \/ @ > 0 THEN @ - 1 ELSE @]
        /\ running' = [running EXCEPT ![t] = @ + 1]
        /\ global_queued' = IF shared THEN global_queued - 1 ELSE global_queued
        /\ reserved' = [reserved EXCEPT ![r] = "running"]
        /\ shared' = shared /\ tokens' = tokens /\ healthy' = healthy /\ expired' = expired
    BY DEF MarkRunning
  <1> HIDE DEF t
  <1>8. queued' = [queued EXCEPT ![t] = @ - 1]
    BY <1>6, <1>7
  <1>9. DOMAIN reserved' = DOMAIN reserved
    BY <1>7
  <1>10. global_queued' \in Nat
    BY <1>1, <1>2, <1>6, <1>7, Counters DEF TypeOK
  <1>11. queued' \in [Tenant -> Nat] /\ running' \in [Tenant -> Nat]
    BY <1>1, <1>2, <1>6, <1>7, <1>8 DEF TypeOK
  <1>12. TypeOK'
    BY <1>2, <1>3, <1>7, <1>9, <1>10, <1>11 DEF TypeOK
  <1>13. Cardinality(Ledger!AllQueued') = Cardinality(Ledger!AllQueued) - 1
    <2>1. Ledger!AllQueued' = Ledger!AllQueued \ {r} /\ r \in Ledger!AllQueued
      BY <1>2, <1>3, <1>7 DEF Ledger!AllQueued, Ledger!Reserved, TypeOK
    <2> QED BY <2>1, <1>2, LedgerSetsFinite, SetLoses
  <1>14. GlobalQueued' = GlobalQueued - 1
    BY <1>1, <1>6, <1>7, <1>8, PlaceRemoved, Counters DEF GlobalQueued
  <1>15. ASSUME NEW u \in Tenant
         PROVE  /\ queued'[u] = Cardinality(Ledger!With("queued", u)')
                /\ running'[u] = Cardinality(Ledger!With("running", u)')
                /\ tokens'[u] = Cardinality(Ledger!TokensOf(u)')
                /\ IsFiniteSet(Ledger!TokensOf(u)')
                /\ queued'[u] <= MaxQueued[u]
                /\ running'[u] <= MaxConcurrent[u]
                /\ tokens'[u] <= TokenQuota[u]
    <2>1. /\ queued[u] <= MaxQueued[u] /\ running[u] <= MaxConcurrent[u] /\ tokens[u] <= TokenQuota[u]
          /\ IsFiniteSet(Ledger!TokensOf(u))
      BY LedgerCardinality DEF IInv, AccountingInv, CountersMatchLedger, Ledger!WithinLimits
    <2>2. queued \in [Tenant -> Nat] /\ running \in [Tenant -> Nat]
      BY <1>2 DEF TypeOK
    <2>3. Ledger!TokensOf(u)' = Ledger!TokensOf(u)
      BY <1>9 DEF Ledger!TokensOf, Ledger!Reserved
    <2>4. CASE u = t
      <3>1. Ledger!With("queued", u)' = Ledger!With("queued", u) \ {r} /\ r \in Ledger!With("queued", u)
        BY <1>2, <1>3, <1>7, <2>4 DEF Ledger!With, Ledger!Reserved, t, TypeOK
      <3>2. Ledger!With("running", u)' = Ledger!With("running", u) \cup {r} /\ r \notin Ledger!With("running", u)
        BY <1>2, <1>3, <1>7, <2>4 DEF Ledger!With, Ledger!Reserved, t, TypeOK
      <3>3. /\ Cardinality(Ledger!With("queued", u)') = Cardinality(Ledger!With("queued", u)) - 1
            /\ Cardinality(Ledger!With("running", u)') = Cardinality(Ledger!With("running", u)) + 1
        BY <3>1, <3>2, <1>2, LedgerSetsFinite, SetGains, SetLoses
      <3>4. queued'[u] = queued[u] - 1 /\ running'[u] = running[u] + 1 /\ tokens'[u] = tokens[u]
        BY <1>1, <1>7, <1>8, <2>2, <2>4
      <3> QED BY <1>3, <1>4, <2>1, <2>3, <2>4, <3>3, <3>4, Counters
    <2>5. CASE u # t
      <3>1. Ledger!With("queued", u)' = Ledger!With("queued", u) /\ Ledger!With("running", u)' = Ledger!With("running", u)
        BY <1>3, <1>7, <2>5 DEF Ledger!With, Ledger!Reserved, t
      <3>2. queued'[u] = queued[u] /\ running'[u] = running[u] /\ tokens'[u] = tokens[u]
        BY <1>7, <1>8, <2>2, <2>5
      <3> QED BY <2>1, <2>3, <3>1, <3>2, Counters
    <2> QED BY <2>4, <2>5
  <1>16. GlobalQueued' = Cardinality(Ledger!AllQueued') /\ Cardinality(Ledger!AllQueued') <= GlobalCapacity
    <2>1. Cardinality(Ledger!AllQueued) <= GlobalCapacity
      BY LedgerCardinality DEF IInv, AccountingInv, Ledger!WithinLimits
    <2> QED BY <1>1, <1>4, <1>13, <1>14, <2>1, Counters
  <1>17. IInv'
    BY <1>2, <1>9, <1>12, <1>15, <1>16, LedgerCardinality DEF IInv, AccountingInv, CountersMatchLedger, Ledger!WithinLimits
  <1>18. Ledger!Start(r)
    <2>1. Cardinality(Ledger!With("running", t)) < MaxConcurrent[t]
      BY <1>1, <1>3, Counters
    <2> QED BY <2>1, <1>3, <1>7, LedgerCardinality DEF Ledger!Start, Ledger!AllQueued, Ledger!Reserved, t
  <1> QED BY <1>17, <1>18

\* release takes a reservation off the count of its state, and its tokens.
LEMMA ReleaseIInv ==
    ASSUME IInv, NEW r \in Request, Release(r)
    PROVE  IInv' /\ Ledger!Release(r)
  <1> DEFINE t == TenantOf[r]
             isRunning == reserved[r] = "running"
  <1>1. t \in Tenant
    BY AdmissionAssumption
  <1>2. TypeOK /\ IsFiniteSet(DOMAIN reserved)
    BY DEF IInv, AccountingInv
  <1>3. r \in DOMAIN reserved /\ reserved[r] \in {"queued", "running"}
    BY <1>2 DEF Release, TypeOK
  <1>4. /\ GlobalCapacity \in Nat /\ Tokens[r] \in Nat
        /\ \A u \in Tenant : MaxQueued[u] \in Nat /\ MaxConcurrent[u] \in Nat /\ TokenQuota[u] \in Nat
    BY AdmissionAssumption
  <1>5. /\ tokens' = [tokens EXCEPT ![t] = @ - Tokens[r]]
        /\ reserved' = [q \in DOMAIN reserved \ {r} |-> reserved[q]]
        /\ shared' = shared /\ healthy' = healthy /\ expired' = expired
    BY DEF Release
  <1>6. isRunning => /\ running' = [running EXCEPT ![t] = @ - 1]
                     /\ queued' = queued /\ global_queued' = global_queued
    BY DEF Release
  <1>7. ~isRunning => /\ queued' = [queued EXCEPT ![t] = @ - 1]
                      /\ global_queued' = IF shared THEN global_queued - 1 ELSE global_queued
                      /\ running' = running
    BY DEF Release
  <1>8. DOMAIN reserved' = DOMAIN reserved \ {r}
    BY <1>5
  <1>9. ASSUME NEW u \in Tenant
        PROVE  /\ IsFiniteSet(Ledger!TokensOf(u)')
               /\ Cardinality(Ledger!TokensOf(u)') \in Nat
               /\ Cardinality(Ledger!TokensOf(u)') =
                     IF u = t THEN Cardinality(Ledger!TokensOf(u)) - Tokens[r]
                              ELSE Cardinality(Ledger!TokensOf(u))
    <2>1. IsFiniteSet(Ledger!TokensOf(u))
      BY DEF IInv
    <2>2. /\ IsFiniteSet(Ledger!TokensOf(u)')
          /\ Cardinality(Ledger!TokensOf(u)') =
                IF TenantOf[r] = u THEN Cardinality(Ledger!TokensOf(u)) - Tokens[r]
                                   ELSE Cardinality(Ledger!TokensOf(u))
      BY <1>3, <1>8, <2>1, TokensRemoved
    <2>3. Cardinality(Ledger!TokensOf(u)') \in Nat
      BY <2>2, FS_CardinalityType
    <2> QED BY <2>2, <2>3
  <1>10. isRunning => /\ Ledger!AllQueued' = Ledger!AllQueued
                      /\ \A u \in Tenant :
                            /\ Ledger!With("queued", u)' = Ledger!With("queued", u)
                            /\ Ledger!With("running", u)' = IF u = t THEN Ledger!With("running", u) \ {r}
                                                                      ELSE Ledger!With("running", u)
                      /\ r \in Ledger!With("running", t)
    BY <1>3, <1>5 DEF Ledger!AllQueued, Ledger!With, Ledger!Reserved
  <1>11. ~isRunning => /\ Ledger!AllQueued' = Ledger!AllQueued \ {r}
                       /\ \A u \in Tenant :
                             /\ Ledger!With("running", u)' = Ledger!With("running", u)
                             /\ Ledger!With("queued", u)' = IF u = t THEN Ledger!With("queued", u) \ {r}
                                                                      ELSE Ledger!With("queued", u)
                       /\ r \in Ledger!With("queued", t) /\ r \in Ledger!AllQueued
    BY <1>3, <1>5 DEF Ledger!AllQueued, Ledger!With, Ledger!Reserved
  <1> HIDE DEF t
  <1>12. tokens' \in [Tenant -> Nat] /\ \A u \in Tenant : tokens'[u] = Cardinality(Ledger!TokensOf(u)')
    <2>1. \A u \in Tenant : tokens'[u] = IF u = t THEN tokens[u] - Tokens[r] ELSE tokens[u]
      BY <1>2, <1>5 DEF TypeOK
    <2>2. \A u \in Tenant : tokens'[u] = Cardinality(Ledger!TokensOf(u)')
      BY <1>9, <2>1, Counters
    <2> QED BY <1>2, <1>5, <1>9, <2>2 DEF TypeOK
  <1>13. ASSUME isRunning PROVE IInv'
    <2>1. /\ Cardinality(Ledger!With("running", t)') = Cardinality(Ledger!With("running", t)) - 1
          /\ Cardinality(Ledger!With("running", t)) > 0
      BY <1>1, <1>2, <1>10, <1>13, LedgerSetsFinite, SetLoses
    <2>2. running' = [running EXCEPT ![t] = @ - 1] /\ queued' = queued /\ global_queued' = global_queued
      BY <1>6, <1>13
    <2>3. running \in [Tenant -> Nat]
      BY <1>2 DEF TypeOK
    <2>4. ASSUME NEW u \in Tenant
          PROVE  /\ running'[u] = Cardinality(Ledger!With("running", u)') /\ running'[u] \in Nat
                 /\ running'[u] <= running[u]
      BY <1>1, <1>10, <1>13, <2>1, <2>2, <2>3, Counters
    <2>5. running' \in [Tenant -> Nat]
      BY <2>2, <2>3, <2>4
    <2>6. TypeOK'
      BY <1>2, <1>5, <1>12, <2>2, <2>5 DEF TypeOK
    <2>7. GlobalQueued' = Cardinality(Ledger!AllQueued')
      BY <1>1, <1>5, <1>10, <1>13, <2>2, Counters DEF GlobalQueued, SumQueued
    <2>8. IsFiniteSet(DOMAIN reserved')
      BY <1>2, <1>8, FS_RemoveElement
    <2>9. ASSUME NEW u \in Tenant
          PROVE  /\ queued'[u] = Cardinality(Ledger!With("queued", u)')
                 /\ queued'[u] <= MaxQueued[u] /\ running'[u] <= MaxConcurrent[u] /\ tokens'[u] <= TokenQuota[u]
      <3>1. queued[u] <= MaxQueued[u] /\ running[u] <= MaxConcurrent[u] /\ tokens[u] <= TokenQuota[u]
        BY LedgerCardinality DEF IInv, AccountingInv, CountersMatchLedger, Ledger!WithinLimits
      <3>2. tokens'[u] <= tokens[u] /\ tokens'[u] \in Nat
        BY <1>4, <1>9, <1>12, Counters
      <3> QED BY <1>4, <1>10, <1>13, <2>2, <2>4, <3>1, <3>2, Counters
    <2>10. Cardinality(Ledger!AllQueued') <= GlobalCapacity
      BY <1>10, <1>13, LedgerCardinality DEF IInv, AccountingInv, Ledger!WithinLimits
    <2>11. CountersMatchLedger'
      BY <1>12, <2>4, <2>7, <2>9 DEF CountersMatchLedger
    <2>12. Ledger!WithinLimits'
      BY <1>12, <2>4, <2>9, <2>10, LedgerCardinality DEF Ledger!WithinLimits
    <2>13. AccountingInv'
      BY <2>6, <2>11, <2>12 DEF AccountingInv
    <2>14. \A u \in Tenant : IsFiniteSet(Ledger!TokensOf(u)')
      BY <1>9
    <2> QED BY <2>8, <2>13, <2>14 DEF IInv
  <1>14. ASSUME ~isRunning PROVE IInv'
    <2>1. /\ Cardinality(Ledger!With("queued", t)') = Cardinality(Ledger!With("queued", t)) - 1
          /\ Cardinality(Ledger!With("queued", t)) > 0
      BY <1>1, <1>2, <1>11, <1>14, LedgerSetsFinite, SetLoses
    <2>2. /\ Cardinality(Ledger!AllQueued') = Cardinality(Ledger!AllQueued) - 1
          /\ Cardinality(Ledger!AllQueued) > 0
      BY <1>2, <1>11, <1>14, LedgerSetsFinite, SetLoses
    <2>3. /\ queued' = [queued EXCEPT ![t] = @ - 1] /\ running' = running
          /\ global_queued' = IF shared THEN global_queued - 1 ELSE global_queued
      BY <1>7, <1>14
    <2>4. queued \in [Tenant -> Nat]
      BY <1>2 DEF TypeOK
    <2>5. ASSUME NEW u \in Tenant
          PROVE  /\ queued'[u] = Cardinality(Ledger!With("queued", u)') /\ queued'[u] \in Nat
                 /\ queued'[u] <= queued[u]
      BY <1>1, <1>11, <1>14, <2>1, <2>3, <2>4, Counters
    <2>6. queued' \in [Tenant -> Nat]
      BY <2>3, <2>4, <2>5
    <2>7. global_queued' \in Nat
      BY <1>1, <1>2, <2>2, <2>3, Counters DEF TypeOK
    <2>8. TypeOK'
      BY <1>2, <1>5, <1>12, <2>3, <2>6, <2>7 DEF TypeOK
    <2>9. queued[t] > 0
      BY <1>1, <2>1, Counters
    <2>10. GlobalQueued' = Cardinality(Ledger!AllQueued')
      BY <1>1, <1>5, <2>2, <2>3, <2>9, PlaceRemoved, Counters DEF GlobalQueued
    <2>11. IsFiniteSet(DOMAIN reserved')
      BY <1>2, <1>8, FS_RemoveElement
    <2>12. ASSUME NEW u \in Tenant
           PROVE  /\ running'[u] = Cardinality(Ledger!With("running", u)')
                  /\ queued'[u] <= MaxQueued[u] /\ running'[u] <= MaxConcurrent[u] /\ tokens'[u] <= TokenQuota[u]
      <3>1. queued[u] <= MaxQueued[u] /\ running[u] <= MaxConcurrent[u] /\ tokens[u] <= TokenQuota[u]
        BY LedgerCardinality DEF IInv, AccountingInv, CountersMatchLedger, Ledger!WithinLimits
      <3>2. tokens'[u] <= tokens[u] /\ tokens'[u] \in Nat
        BY <1>4, <1>9, <1>12, Counters
      <3> QED BY <1>4, <1>11, <1>14, <2>3, <2>5, <3>1, <3>2, Counters
    <2>13. Cardinality(Ledger!AllQueued') <= GlobalCapacity
      <3>1. Cardinality(Ledger!AllQueued) <= GlobalCapacity
        BY LedgerCardinality DEF IInv, AccountingInv, Ledger!WithinLimits
      <3> QED BY <1>1, <1>4, <2>2, <3>1, Counters
    <2>14. CountersMatchLedger'
      BY <1>12, <2>5, <2>10, <2>12 DEF CountersMatchLedger
    <2>15. Ledger!WithinLimits'
      BY <1>12, <2>5, <2>12, <2>13, LedgerCardinality DEF Ledger!WithinLimits
    <2>16. AccountingInv'
      BY <2>8, <2>14, <2>15 DEF AccountingInv
    <2>17. \A u \in Tenant : IsFiniteSet(Ledger!TokensOf(u)')
      BY <1>9
    <2> QED BY <2>11, <2>16, <2>17 DEF IInv
  <1>15. Ledger!Release(r)
    BY <1>3, <1>5 DEF Ledger!Release, Ledger!Reserved
  <1> QED BY <1>13, <1>14, <1>15

\* A step that leaves the controller's books alone.
LEMMA IdleIInv ==
    ASSUME IInv, healthy' \in BOOLEAN, expired' \subseteq Request,
           UNCHANGED <<shared, queued, running, tokens, global_queued, reserved>>
    PROVE  IInv'
  <1>1. TypeOK'
    BY DEF IInv, AccountingInv, TypeOK
  <1>2. CountersMatchLedger'
    <2>1. GlobalQueued' = GlobalQueued
      BY DEF GlobalQueued, SumQueued
    <2>2. /\ Ledger!AllQueued' = Ledger!AllQueued
          /\ \A t : /\ Ledger!With("queued", t)' = Ledger!With("queued", t)
                    /\ Ledger!With("running", t)' = Ledger!With("running", t)
                    /\ Ledger!TokensOf(t)' = Ledger!TokensOf(t)
      BY DEF Ledger!With, Ledger!AllQueued, Ledger!TokensOf, Ledger!Reserved
    <2> QED BY <2>1, <2>2 DEF IInv, AccountingInv, CountersMatchLedger
  <1>3. Ledger!WithinLimits'
    BY LedgerCardinality DEF IInv, AccountingInv, Ledger!WithinLimits,
           Ledger!With, Ledger!AllQueued, Ledger!TokensOf, Ledger!Reserved
  <1>4. IsFiniteSet(DOMAIN reserved') /\ \A t \in Tenant : IsFiniteSet(Ledger!TokensOf(t)')
    BY DEF IInv, Ledger!TokensOf, Ledger!Reserved
  <1> QED BY <1>1, <1>2, <1>3, <1>4 DEF IInv, AccountingInv

\* Every step keeps the invariant and is a step of the ledger, or none.
LEMMA NextIInv ==
    ASSUME IInv, [Next]_vars
    PROVE  IInv' /\ [Ledger!Next]_reserved
  <1>0. healthy \in BOOLEAN /\ expired \subseteq Request
    BY DEF IInv, AccountingInv, TypeOK
  <1>1. CASE \E r \in Request : Decide(r)
    BY <1>1, DecideIInv DEF Ledger!Next
  <1>2. CASE \E r \in Request : MarkRunning(r)
    BY <1>2, MarkRunningIInv DEF Ledger!Next
  <1>3. CASE \E r \in Request : Release(r)
    BY <1>3, ReleaseIInv DEF Ledger!Next
  <1>4. CASE \E r \in Request : Expire(r)
    BY <1>0, <1>4, IdleIInv DEF Expire
  <1>5. CASE HealthChanges
    BY <1>0, <1>5, IdleIInv DEF HealthChanges
  <1>6. CASE UNCHANGED vars
    BY <1>0, <1>6, IdleIInv DEF vars
  <1> QED BY <1>1, <1>2, <1>3, <1>4, <1>5, <1>6 DEF Next

-----------------------------------------------------------------------------
(* Results *)

\* The counters of both controllers agree with the reservations and never pass
\* a limit, whatever calls decide, mark_running and release receive.
THEOREM CountersAreTheLedgers == Spec => []AccountingInv
  <1>1. Init => IInv
    BY InitIInv
  <1>2. IInv /\ [Next]_vars => IInv'
    BY NextIInv
  <1>3. IInv => AccountingInv
    BY DEF IInv
  <1> QED BY <1>1, <1>2, <1>3, PTL DEF Spec

\* Both controllers implement the ledger: their counters admit and start exactly
\* what the reservations themselves would allow.
THEOREM ControllersImplementLedger == Spec => ImplementsLedger
  <1>1. Init => IInv /\ Ledger!Init
    BY InitIInv DEF Init, Ledger!Init
  <1>2. IInv /\ [Next]_vars => IInv' /\ [Ledger!Next]_reserved
    BY NextIInv
  <1> QED BY <1>1, <1>2, PTL DEF Spec, ImplementsLedger, Ledger!Spec

-----------------------------------------------------------------------------
(* Streams of the gateway *)

\* The terminal states of a record; none of them is open.
LEMMA TerminalStates ==
    /\ Terminal = {"completed", "failed", "timed_out", "cancelled"}
    /\ \A s \in Ended : StateFor[s] \in Terminal
    /\ Terminal \cap OpenStates = {} /\ "none" \notin Terminal \cup OpenStates
  <1>1. /\ StateFor["COMPLETED"] = "completed" /\ StateFor["FAILED"] = "failed"
        /\ StateFor["TIMEOUT"] = "timed_out" /\ StateFor["CANCELLED"] = "cancelled"
    BY DEF StateFor
  <1> QED BY <1>1 DEF Terminal, Ended, OpenStates

\* CancelItem is an end, whatever the item was.
LEMMA CancelItemEnds ==
    ASSUME NEW r \in Stream
    PROVE  CancelItem(r) \in Ended
  BY DEF CancelItem, Ended

-----------------------------------------------------------------------------
(* Slots *)

\* Who holds a slot after one request moved.
LEMMA HoldersAfterGoto ==
    ASSUME StreamTypeOK, NEW r \in Stream, NEW l, Goto(r, l)
    PROVE  /\ pc' = [pc EXCEPT ![r] = l]
           /\ Holders' = IF l \in Live THEN Holders \cup {r} ELSE Holders \ {r}
  BY DEF StreamTypeOK, Goto, Holders

\* The holders are finitely many.
LEMMA HoldersFinite ==
    /\ IsFiniteSet(Holders)
    /\ Cardinality(Holders) \in Nat
  <1>1. Holders \in SUBSET Stream
    BY DEF Holders
  <1> QED BY <1>1, StreamAssumption, FS_Subset, FS_CardinalityType

\* A step of a holder that stays one, or of anything else, leaves the slots.
LEMMA SlotsKept ==
    ASSUME SlotsAreHeld, Holders' = Holders, UNCHANGED <<limiter, tracker, grace>>
    PROVE  SlotsAreHeld'
  BY DEF SlotsAreHeld

\* Begin takes a slot and a stream.
LEMMA SlotTaken ==
    ASSUME StreamTypeOK, SlotsAreHeld, NEW r \in Stream, r \notin Holders, Holders' = Holders \cup {r},
           tracker.accepting, limiter < MaxConcurrentRequests,
           limiter' = limiter + 1, tracker' = Started(tracker), UNCHANGED grace
    PROVE  /\ limiter' \in Nat /\ tracker' \in [accepting : BOOLEAN, active : Nat, idle : BOOLEAN]
           /\ SlotsAreHeld'
  <1>1. Cardinality(Holders') = Cardinality(Holders) + 1
    BY HoldersFinite, FS_AddElement
  <1>2. /\ tracker'.active = tracker.active + 1 /\ tracker'.idle = FALSE
        /\ tracker'.accepting = tracker.accepting
        /\ tracker' \in [accepting : BOOLEAN, active : Nat, idle : BOOLEAN]
    <2>1. tracker.active + 1 \in Nat
      BY DEF StreamTypeOK
    <2> QED BY <2>1, Zenon DEF StreamTypeOK, Started
  <1>3. limiter' <= MaxConcurrentRequests
    BY StreamAssumption DEF StreamTypeOK
  <1>4. grace = "up"
    BY DEF SlotsAreHeld, StreamTypeOK
  <1> QED BY <1>1, <1>2, <1>3, <1>4, HoldersFinite DEF SlotsAreHeld, StreamTypeOK

\* GiveBack returns the slot and the stream of a request that leaves.
LEMMA SlotGivenBack ==
    ASSUME StreamTypeOK, SlotsAreHeld, NEW r \in Holders, Holders' = Holders \ {r},
           GiveBack, UNCHANGED grace
    PROVE  /\ limiter' \in Nat /\ tracker' \in [accepting : BOOLEAN, active : Nat, idle : BOOLEAN]
           /\ SlotsAreHeld'
  <1>1. /\ Cardinality(Holders') = Cardinality(Holders) - 1
        /\ Cardinality(Holders) # 0
    BY HoldersFinite, FS_RemoveElement, FS_EmptySet
  <1>2. /\ tracker'.active = tracker.active - 1 /\ tracker'.idle = (tracker.active = 1)
        /\ tracker'.accepting = tracker.accepting /\ limiter' = limiter - 1
    BY DEF StreamTypeOK, GiveBack, Finished
  <1>3. limiter \in Nat \ {0} /\ tracker.active = limiter
    BY <1>1, HoldersFinite DEF SlotsAreHeld
  <1>4. tracker' \in [accepting : BOOLEAN, active : Nat, idle : BOOLEAN]
    <2>1. tracker.active - 1 \in Nat
      BY <1>3
    <2> QED BY <2>1, <1>2 DEF StreamTypeOK, GiveBack, Finished
  <1>5. limiter' <= MaxConcurrentRequests
    BY <1>2, <1>3, StreamAssumption DEF SlotsAreHeld
  <1>6. tracker'.idle <=> tracker'.active = 0
    <2>1. tracker.active = 1 <=> tracker'.active = 0
      BY <1>2, <1>3
    <2> QED BY <2>1, <1>2, Zenon
  <1>7. grace # "drained"
    BY DEF SlotsAreHeld
  <1> QED BY <1>1, <1>2, <1>3, <1>4, <1>5, <1>6, <1>7, HoldersFinite DEF SlotsAreHeld

-----------------------------------------------------------------------------
(* The inductive invariant *)

\* StreamInv is inductive, and EndedIsRecorded relative to it.
StreamIInv == StreamInv /\ EndedIsRecorded

\* Nothing is held, recorded or ended at the start.
LEMMA StreamInitIInv == StreamInit => StreamIInv
  <1> SUFFICES ASSUME StreamInit PROVE StreamIInv
    OBVIOUS
  <1>1. Holders = {}
    BY DEF StreamInit, Holders, Live
  <1>2. StreamTypeOK
    <2>1. tracker \in [accepting : BOOLEAN, active : Nat, idle : BOOLEAN]
      <3>1. 0 \in Nat
        OBVIOUS
      <3> QED BY <3>1, Zenon DEF StreamInit
    <2>2. <<>> \in Seq(Ended \cup {"token"})
      OBVIOUS
    <2> QED BY <2>1, <2>2 DEF StreamInit, StreamTypeOK, Live, Ended
  <1>3. SlotsAreHeld
    BY <1>1, FS_EmptySet, StreamAssumption DEF StreamInit, SlotsAreHeld
  <1>4. RecordsFollow /\ EndedIsRecorded
    BY DEF StreamInit, RecordsFollow, EndedIsRecorded
  <1> QED BY <1>2, <1>3, <1>4 DEF StreamIInv, StreamInv

-----------------------------------------------------------------------------
(* The handler *)

\* Begin takes both reservations or neither.
LEMMA BeginIInv ==
    ASSUME StreamIInv, NEW r \in Stream, Begin(r)
    PROVE  StreamIInv'
  <1> USE DEF StreamIInv, StreamInv
  <1>1. /\ pc[r] = "new" /\ r \notin Holders
        /\ UNCHANGED <<engine, item, record, store, registered, sequence, signalled, inbox, produced,
                       grace, closed, unfinished>>
    BY DEF Begin, Holders, Live, recordVars, sourceVars
  <1>2. CASE tracker.accepting /\ limiter < MaxConcurrentRequests
    <2>1. Goto(r, "validating") /\ limiter' = limiter + 1 /\ tracker' = Started(tracker)
      BY <1>2, StreamAssumption DEF Begin, StreamTypeOK
    <2>2. Holders' = Holders \cup {r}
      BY <2>1, HoldersAfterGoto DEF Live
    <2>3. /\ limiter' \in Nat /\ tracker' \in [accepting : BOOLEAN, active : Nat, idle : BOOLEAN]
          /\ SlotsAreHeld'
      BY <1>1, <1>2, <2>1, <2>2, SlotTaken
    <2>4. StreamTypeOK'
      BY <1>1, <2>1, <2>3 DEF StreamTypeOK, Goto, Live
    <2>5. RecordsFollow' /\ EndedIsRecorded'
      BY <1>1, <2>1 DEF StreamTypeOK, Goto, RecordsFollow, EndedIsRecorded
    <2> QED BY <2>3, <2>4, <2>5
  <1>3. CASE ~(tracker.accepting /\ limiter < MaxConcurrentRequests)
    <2>1. Goto(r, "rejected") /\ UNCHANGED <<limiter, tracker>>
      BY <1>3 DEF Begin
    <2>2. Holders' = Holders
      BY <1>1, <2>1, HoldersAfterGoto DEF Live
    <2>3. SlotsAreHeld'
      BY <1>1, <2>1, <2>2, SlotsKept
    <2>4. StreamTypeOK'
      BY <1>1, <2>1 DEF StreamTypeOK, Goto, Live
    <2>5. RecordsFollow' /\ EndedIsRecorded'
      BY <1>1, <2>1 DEF StreamTypeOK, Goto, RecordsFollow, EndedIsRecorded
    <2> QED BY <2>3, <2>4, <2>5
  <1> QED BY <1>2, <1>3

\* Validation leads on to the engine, or to a record and a response.
LEMMA ValidatedIInv ==
    ASSUME StreamIInv, NEW r \in Stream, Validated(r)
    PROVE  StreamIInv'
  <1> USE DEF StreamIInv, StreamInv, Validated, Respond
  <1>1. Holders' = Holders
    BY HoldersAfterGoto DEF Holders, Live, StreamTypeOK, Goto
  <1>2. SlotsAreHeld'
    BY <1>1, SlotsKept
  <1>3. StreamTypeOK'
    <2>1. /\ pc' \in [Stream -> Live \cup {"new", "rejected", "done"}]
          /\ record' \in [Stream -> OpenStates \cup {"none"}]
          /\ store' \in [Stream -> OpenStates \cup Terminal \cup {"none"}]
          /\ registered' \subseteq Stream
      <3>1. CASE engine
        BY <3>1 DEF StreamTypeOK, Live, Goto, recordVars
      <3>2. CASE ~engine
        <4>1. /\ record' = [record EXCEPT ![r] = "running"] /\ store' = [store EXCEPT ![r] = "running"]
              /\ registered' = registered \cup {r} /\ pc' = [pc EXCEPT ![r] = "response"]
          BY <3>2 DEF Goto
        <4> QED BY <4>1 DEF StreamTypeOK, Live, OpenStates
      <3> QED BY <3>1, <3>2
    <2> QED BY <2>1 DEF StreamTypeOK, sourceVars
  <1>4. RecordsFollow' /\ EndedIsRecorded'
    BY TerminalStates DEF StreamTypeOK, Goto, recordVars, OpenStates, RecordsFollow, EndedIsRecorded
  <1> QED BY <1>2, <1>3, <1>4

\* The engine's reservation leads to a record and a response.
LEMMA SampledIInv ==
    ASSUME StreamIInv, NEW r \in Stream, Sampled(r)
    PROVE  StreamIInv'
  <1> USE DEF StreamIInv, StreamInv, Sampled, Respond
  <1>1. Holders' = Holders
    BY HoldersAfterGoto DEF Holders, Live, StreamTypeOK, Goto
  <1>2. SlotsAreHeld'
    BY <1>1, SlotsKept
  <1>3. StreamTypeOK'
    BY DEF StreamTypeOK, Live, Goto, sourceVars, recordVars, OpenStates
  <1>4. RecordsFollow' /\ EndedIsRecorded'
    BY TerminalStates DEF StreamTypeOK, Goto, recordVars, OpenStates, RecordsFollow, EndedIsRecorded
  <1> QED BY <1>2, <1>3, <1>4

\* Whatever raises before the response gives both reservations back.
LEMMA RaisesIInv ==
    ASSUME StreamIInv, NEW r \in Stream, Raises(r)
    PROVE  StreamIInv'
  <1> USE DEF StreamIInv, StreamInv
  <1>1. /\ pc[r] \in {"validating", "sampling"} /\ GiveBack /\ Goto(r, "rejected")
        /\ UNCHANGED <<engine, item, record, store, registered, sequence, signalled, inbox, produced,
                       grace, closed, unfinished>>
    BY DEF Raises, recordVars, sourceVars
  <1>2. r \in Holders /\ Holders' = Holders \ {r}
    BY <1>1, HoldersAfterGoto DEF Holders, Live
  <1>3. /\ limiter' \in Nat /\ tracker' \in [accepting : BOOLEAN, active : Nat, idle : BOOLEAN]
        /\ SlotsAreHeld'
    BY <1>1, <1>2, SlotGivenBack
  <1>4. StreamTypeOK'
    BY <1>1, <1>3 DEF StreamTypeOK, Goto
  <1>5. RecordsFollow' /\ EndedIsRecorded'
    BY <1>1 DEF StreamTypeOK, Goto, RecordsFollow, EndedIsRecorded
  <1> QED BY <1>3, <1>4, <1>5

-----------------------------------------------------------------------------
(* The body *)

\* The body begins.
LEMMA OpenIInv ==
    ASSUME StreamIInv, NEW r \in Stream, Open(r)
    PROVE  StreamIInv'
  <1> USE DEF StreamIInv, StreamInv, Open
  <1>1. Holders' = Holders
    BY HoldersAfterGoto DEF Holders, Live, StreamTypeOK, Goto
  <1>2. SlotsAreHeld'
    BY <1>1, SlotsKept
  <1>3. StreamTypeOK'
    BY DEF StreamTypeOK, Live, Goto, sourceVars, recordVars, OpenStates
  <1>4. RecordsFollow' /\ EndedIsRecorded'
    BY TerminalStates DEF StreamTypeOK, Goto, recordVars, OpenStates, RecordsFollow, EndedIsRecorded
  <1> QED BY <1>2, <1>3, <1>4

\* A response that is dropped keeps what it holds.
LEMMA OrphanIInv ==
    ASSUME StreamIInv, NEW r \in Stream, Orphan(r)
    PROVE  StreamIInv'
  <1> USE DEF StreamIInv, StreamInv, Orphan
  <1>1. Holders' = Holders
    BY HoldersAfterGoto DEF Holders, Live, StreamTypeOK, Goto
  <1>2. SlotsAreHeld'
    BY <1>1, SlotsKept
  <1>3. StreamTypeOK'
    BY DEF StreamTypeOK, Live, Goto, sourceVars, recordVars, OpenStates
  <1>4. RecordsFollow' /\ EndedIsRecorded'
    BY TerminalStates DEF StreamTypeOK, Goto, recordVars, OpenStates, RecordsFollow, EndedIsRecorded
  <1> QED BY <1>2, <1>3, <1>4

\* A body left at a yield keeps what it holds until it is closed.
LEMMA CancelYieldIInv ==
    ASSUME StreamIInv, NEW r \in Stream, CancelYield(r)
    PROVE  StreamIInv'
  <1> USE DEF StreamIInv, StreamInv, CancelYield
  <1>1. Holders' = Holders
    BY HoldersAfterGoto DEF Holders, Live, StreamTypeOK, Goto
  <1>2. SlotsAreHeld'
    BY <1>1, SlotsKept
  <1>3. StreamTypeOK'
    BY DEF StreamTypeOK, Live, Goto, sourceVars, recordVars, OpenStates
  <1>4. RecordsFollow' /\ EndedIsRecorded'
    BY TerminalStates DEF StreamTypeOK, Goto, recordVars, OpenStates, RecordsFollow, EndedIsRecorded
  <1> QED BY <1>2, <1>3, <1>4

\* A token takes the body to its yield, the end to its last chunk.
LEMMA ReceiveIInv ==
    ASSUME StreamIInv, NEW r \in Stream, Receive(r)
    PROVE  StreamIInv'
  <1> USE DEF StreamIInv, StreamInv
  <1>1. /\ pc[r] = "await" /\ inbox[r] # <<>> /\ inbox' = [inbox EXCEPT ![r] = Tail(@)]
        /\ UNCHANGED <<engine, registered, limiter, tracker, sequence, signalled, produced,
                       grace, closed, unfinished>>
    BY DEF Receive
  <1>2. /\ Head(inbox[r]) \in Ended \cup {"token"}
        /\ inbox' \in [Stream -> Seq(Ended \cup {"token"})]
    BY <1>1 DEF StreamTypeOK
  <1>3. /\ item' \in [Stream -> Ended \cup {"RUNNING"}]
        /\ record' \in [Stream -> OpenStates \cup {"none"}]
        /\ store' \in [Stream -> OpenStates \cup Terminal \cup {"none"}]
        /\ pc' \in [Stream -> Live \cup {"new", "rejected", "done"}]
        /\ Holders' = Holders
        /\ RecordsFollow' /\ EndedIsRecorded'
    <2>1. CASE Head(inbox[r]) = "token"
      <3>1. TakeToken(r) /\ UNCHANGED item
        BY <2>1 DEF Receive
      <3>2. CASE engine /\ item[r] = "CANCELLED"
        BY <1>1, <3>1, <3>2 DEF StreamTypeOK, TakeToken, Holders, RecordsFollow, EndedIsRecorded
      <3>3. CASE ~(engine /\ item[r] = "CANCELLED")
        <4>1. /\ Goto(r, "yield")
              /\ record' = [record EXCEPT ![r] = IF @ = "prefill" THEN "decode" ELSE @]
              /\ store' = IF record[r] = "prefill" THEN [store EXCEPT ![r] = "decode"] ELSE store
          BY <3>1, <3>3 DEF TakeToken
        <4>2. Holders' = Holders
          BY <1>1, <4>1, HoldersAfterGoto DEF Holders, Live
        <4>3. RecordsFollow' /\ EndedIsRecorded'
          BY <1>1, <3>1, <4>1 DEF StreamTypeOK, Goto, OpenStates, RecordsFollow, EndedIsRecorded
        <4> QED BY <1>1, <3>1, <4>1, <4>2, <4>3 DEF StreamTypeOK, Goto, Live, OpenStates
      <3> QED BY <3>2, <3>3
    <2>2. CASE Head(inbox[r]) # "token"
      <3> DEFINE l == IF Head(inbox[r]) = "FAILED" THEN "error" ELSE "last"
      <3>1. /\ item' = [item EXCEPT ![r] = Head(inbox[r])] /\ Head(inbox[r]) \in Ended
            /\ Goto(r, l) /\ UNCHANGED <<record, store>>
        BY <1>2, <2>2 DEF Receive
      <3>2. l \in {"error", "last"}
        OBVIOUS
      <3> HIDE DEF l
      <3>3. Holders' = Holders
        BY <1>1, <3>1, <3>2, HoldersAfterGoto DEF Holders, Live
      <3>4. RecordsFollow' /\ EndedIsRecorded'
        BY <1>1, <3>1, <3>2 DEF StreamTypeOK, Goto, RecordsFollow, EndedIsRecorded
      <3> QED BY <1>1, <3>1, <3>2, <3>3, <3>4 DEF StreamTypeOK, Goto, Live
    <2> QED BY <2>1, <2>2
  <1>4. SlotsAreHeld'
    BY <1>1, <1>3, SlotsKept
  <1>5. StreamTypeOK'
    BY <1>1, <1>2, <1>3 DEF StreamTypeOK
  <1> QED BY <1>3, <1>4, <1>5

\* The finally clause ends the request's holdings and its record, which ends
\* with it when the status has.
LEMMA FinallyIInv ==
    ASSUME StreamIInv, NEW r \in Stream, pc[r] \in {"await", "yield", "last", "error", "cancelling", "closing"},
           NEW status \in Ended \cup {"RUNNING"}, Finally(r, status),
           signalled' \subseteq Stream, unfinished' \subseteq Stream,
           unfinished \subseteq unfinished', status \in Ended \/ r \in unfinished'
    PROVE  StreamIInv'
  <1> USE DEF StreamIInv, StreamInv
  <1>1. /\ GiveBack /\ FinishRecord(r, record[r], status) /\ Goto(r, "done")
        /\ item' = [item EXCEPT ![r] = status]
        /\ UNCHANGED <<engine, record, sequence, inbox, produced, grace, closed>>
    BY DEF Finally
  <1>2. r \in Holders /\ Holders' = Holders \ {r}
    BY <1>1, HoldersAfterGoto DEF Holders, Live
  <1>3. /\ limiter' \in Nat /\ tracker' \in [accepting : BOOLEAN, active : Nat, idle : BOOLEAN]
        /\ SlotsAreHeld'
    BY <1>1, <1>2, SlotGivenBack
  <1>4. record[r] \in OpenStates
    BY DEF StreamTypeOK, RecordsFollow
  <1>5. PICK final \in OpenStates \cup Terminal :
           /\ store' = [store EXCEPT ![r] = final]
           /\ registered' = IF final \in Terminal THEN registered \ {r} ELSE registered
           /\ status \in Ended => final \in Terminal
    BY <1>1, <1>4, TerminalStates DEF FinishRecord
  <1>6. StreamTypeOK'
    BY <1>1, <1>3, <1>5 DEF StreamTypeOK, Goto
  <1>7. RecordsFollow'
    BY <1>1, <1>4, <1>5, TerminalStates DEF StreamTypeOK, Goto, RecordsFollow
  <1>8. EndedIsRecorded'
    BY <1>1, <1>5 DEF StreamTypeOK, Goto, EndedIsRecorded
  <1> QED BY <1>3, <1>6, <1>7, <1>8

\* The chunk is taken; after the last one the body ends.
LEMMA SentIInv ==
    ASSUME StreamIInv, NEW r \in Stream, Sent(r)
    PROVE  StreamIInv'
  <1>1. CASE pc[r] \in {"yield", "error"}
    <2> DEFINE l == IF pc[r] = "yield" THEN "await" ELSE "last"
    <2> USE DEF StreamIInv, StreamInv
    <2>1. /\ Goto(r, l)
          /\ UNCHANGED <<engine, item, record, store, registered, limiter, tracker, sequence, signalled,
                         inbox, produced, grace, closed, unfinished>>
      BY <1>1 DEF Sent, recordVars, sourceVars
    <2>2. l \in {"await", "last"} /\ (l = "last" => pc[r] = "error")
      BY <1>1
    <2> HIDE DEF l
    <2>3. Holders' = Holders
      BY <1>1, <2>1, <2>2, HoldersAfterGoto DEF Holders, Live
    <2>4. SlotsAreHeld'
      BY <2>1, <2>3, SlotsKept
    <2>5. StreamTypeOK'
      BY <2>1, <2>2 DEF StreamTypeOK, Goto, Live
    <2>6. RecordsFollow' /\ EndedIsRecorded'
      BY <1>1, <2>1, <2>2 DEF StreamTypeOK, Goto, RecordsFollow, EndedIsRecorded
    <2> QED BY <2>4, <2>5, <2>6
  <1>2. CASE pc[r] = "last"
    <2>1. Finally(r, item[r]) /\ UNCHANGED <<signalled, unfinished>>
      BY <1>2 DEF Sent
    <2>2. item[r] \in Ended
      BY <1>2 DEF StreamIInv, StreamInv, RecordsFollow
    <2> QED BY <1>2, <2>1, <2>2, FinallyIInv DEF StreamIInv, StreamInv, StreamTypeOK
  <1> QED BY <1>1, <1>2 DEF Sent

\* CancelledError at an await: the body ends, or waits for its sequence to end.
LEMMA CancelAwaitIInv ==
    ASSUME StreamIInv, NEW r \in Stream, CancelAwait(r)
    PROVE  StreamIInv'
  <1>1. pc[r] = "await" /\ UNCHANGED unfinished
    BY DEF CancelAwait
  <1>2. CASE engine
    <2> USE DEF StreamIInv, StreamInv
    <2>1. /\ Goto(r, "cancelling") /\ signalled' = signalled \cup {r}
          /\ UNCHANGED <<engine, item, record, store, registered, limiter, tracker, sequence, inbox,
                         produced, grace, closed>>
      BY <1>2 DEF CancelAwait, recordVars
    <2>2. Holders' = Holders
      BY <1>1, <2>1, HoldersAfterGoto DEF Holders, Live
    <2>3. SlotsAreHeld'
      BY <2>1, <2>2, SlotsKept
    <2>4. StreamTypeOK'
      BY <1>1, <2>1 DEF StreamTypeOK, Goto, Live
    <2>5. RecordsFollow' /\ EndedIsRecorded'
      BY <1>1, <2>1 DEF StreamTypeOK, Goto, RecordsFollow, EndedIsRecorded
    <2> QED BY <2>3, <2>4, <2>5
  <1>3. CASE ~engine
    <2>1. Finally(r, CancelItem(r)) /\ UNCHANGED signalled
      BY <1>3 DEF CancelAwait
    <2> QED BY <1>1, <2>1, CancelItemEnds, FinallyIInv DEF StreamIInv, StreamInv, StreamTypeOK
  <1> QED BY <1>2, <1>3

\* The cancelled sequence has ended: so does the body.
LEMMA CancelDoneIInv ==
    ASSUME StreamIInv, NEW r \in Stream, CancelDone(r)
    PROVE  StreamIInv'
  BY CancelItemEnds, FinallyIInv DEF CancelDone, StreamIInv, StreamInv, StreamTypeOK

\* A body closed at a yield ends; without a status it counts as unfinished.
LEMMA CloseBodyIInv ==
    ASSUME StreamIInv, NEW r \in Stream, CloseBody(r)
    PROVE  StreamIInv'
  <1>1. item[r] \in Ended \cup {"RUNNING"}
    BY DEF StreamIInv, StreamInv, StreamTypeOK
  <1>2. /\ signalled' \subseteq Stream /\ unfinished' \subseteq Stream
        /\ unfinished \subseteq unfinished' /\ (item[r] \in Ended \/ r \in unfinished')
    BY DEF CloseBody, StreamIInv, StreamInv, StreamTypeOK
  <1> QED BY <1>1, <1>2, FinallyIInv DEF CloseBody

\* DELETE ends the stored record and takes the request out of the register.
LEMMA DeleteIInv ==
    ASSUME StreamIInv, NEW r \in Stream, Delete(r)
    PROVE  StreamIInv'
  <1> USE DEF StreamIInv, StreamInv
  <1>1. /\ store[r] \notin Terminal \cup {"none"} /\ signalled' \subseteq Stream
        /\ item' = [item EXCEPT ![r] = CancelItem(r)] /\ FinishRecord(r, store[r], CancelItem(r))
        /\ UNCHANGED <<engine, pc, record, limiter, tracker, sequence, inbox, produced, grace, closed, unfinished>>
    BY DEF Delete, StreamTypeOK
  <1>2. PICK final \in Terminal : store' = [store EXCEPT ![r] = final] /\ registered' = registered \ {r}
    BY <1>1, TerminalStates, CancelItemEnds DEF FinishRecord
  <1>3. SlotsAreHeld'
    BY <1>1, SlotsKept DEF Holders
  <1>4. StreamTypeOK'
    BY <1>1, <1>2, CancelItemEnds DEF StreamTypeOK
  <1>5. RecordsFollow' /\ EndedIsRecorded'
    BY <1>1, <1>2, TerminalStates, CancelItemEnds DEF StreamTypeOK, RecordsFollow, EndedIsRecorded
  <1> QED BY <1>3, <1>4, <1>5

-----------------------------------------------------------------------------
(* The source and shutdown *)

\* The source only adds to an inbox.
LEMMA SourceIInv ==
    ASSUME StreamIInv, NEW r \in Stream, Source(r)
    PROVE  StreamIInv'
  <1> USE DEF StreamIInv, StreamInv
  <1>1. /\ UNCHANGED <<engine, pc, item, record, store, registered, limiter, tracker, signalled, grace,
                       closed, unfinished>>
        /\ sequence' \in [Stream -> {"none", "active", "done"}]
        /\ produced' \in [Stream -> Nat]
        /\ inbox' \in [Stream -> Seq(Ended \cup {"token"})]
    <2>1. CASE Token(r)
      BY <2>1 DEF Token, StreamTypeOK, recordVars
    <2>2. CASE End(r)
      <3>1. PICK s \in Ended : inbox' = [inbox EXCEPT ![r] = Append(@, s)]
        BY <2>2 DEF End, Ended
      <3> QED BY <2>2, <3>1 DEF End, StreamTypeOK, recordVars
    <2> QED BY <2>1, <2>2 DEF Source
  <1>2. SlotsAreHeld'
    BY <1>1, SlotsKept DEF Holders
  <1>3. StreamTypeOK'
    BY <1>1 DEF StreamTypeOK
  <1>4. RecordsFollow' /\ EndedIsRecorded'
    BY <1>1 DEF RecordsFollow, EndedIsRecorded
  <1> QED BY <1>2, <1>3, <1>4

\* Closing the tracker, the end of the grace period and the engine's shutdown
\* touch no slot and no record.  close returns True only when nobody holds one.
LEMMA ShutdownIInv ==
    ASSUME StreamIInv, CloseTracker \/ GraceEnds \/ ShutdownEngine
    PROVE  StreamIInv'
  <1> USE DEF StreamIInv, StreamInv
  <1>1. UNCHANGED <<engine, pc, item, record, store, registered, limiter, sequence, inbox, produced, unfinished>>
    BY DEF CloseTracker, GraceEnds, ShutdownEngine, recordVars, sourceVars
  <1>2. RecordsFollow' /\ EndedIsRecorded'
    BY <1>1 DEF RecordsFollow, EndedIsRecorded
  <1>3. Holders' = Holders
    BY <1>1 DEF Holders
  <1>4. CASE CloseTracker
    <2>1. /\ grace' = "waiting" /\ UNCHANGED <<signalled, closed>>
          /\ tracker' = [tracker EXCEPT !.accepting = FALSE]
      BY <1>4 DEF CloseTracker, sourceVars
    <2>2. /\ tracker' \in [accepting : BOOLEAN, active : Nat, idle : BOOLEAN]
          /\ tracker'.active = tracker.active /\ tracker'.idle = tracker.idle /\ tracker'.accepting = FALSE
      BY <2>1, Zenon DEF StreamTypeOK
    <2>3. SlotsAreHeld'
      BY <1>1, <1>3, <2>1, <2>2 DEF SlotsAreHeld
    <2> QED BY <1>1, <1>2, <2>1, <2>2, <2>3 DEF StreamTypeOK
  <1>5. CASE GraceEnds
    <2>1. /\ grace = "waiting" /\ UNCHANGED <<signalled, closed, tracker>>
          /\ grace' \in {"drained", "expired"} /\ (grace' = "drained" => tracker.idle)
      BY <1>5 DEF GraceEnds, sourceVars
    <2>2. tracker.idle => Holders = {}
      BY HoldersFinite, FS_EmptySet DEF SlotsAreHeld
    <2>3. SlotsAreHeld'
      BY <1>1, <1>3, <2>1, <2>2 DEF SlotsAreHeld
    <2> QED BY <1>1, <1>2, <2>1, <2>3 DEF StreamTypeOK
  <1>6. CASE ShutdownEngine
    <2>1. UNCHANGED <<grace, tracker>> /\ closed' = TRUE /\ signalled' \subseteq Stream
      BY <1>6 DEF ShutdownEngine, StreamTypeOK
    <2>2. SlotsAreHeld'
      BY <1>1, <1>3, <2>1, SlotsKept
    <2> QED BY <1>1, <1>2, <2>1, <2>2 DEF StreamTypeOK
  <1> QED BY <1>4, <1>5, <1>6

-----------------------------------------------------------------------------
(* The theorems *)

\* Every step preserves the invariant.
LEMMA StreamNextIInv == StreamIInv /\ [StreamNext]_streamVars => StreamIInv'
  <1> SUFFICES ASSUME StreamIInv, [StreamNext]_streamVars PROVE StreamIInv'
    OBVIOUS
  <1>1. ASSUME NEW r \in Stream, Handler(r)
        PROVE  StreamIInv'
    BY <1>1, BeginIInv, ValidatedIInv, SampledIInv, RaisesIInv DEF Handler
  <1>2. ASSUME NEW r \in Stream, Body(r)
        PROVE  StreamIInv'
    BY <1>2, OpenIInv, ReceiveIInv, SentIInv, CancelDoneIInv, CloseBodyIInv DEF Body
  <1>3. ASSUME NEW r \in Stream, Source(r) \/ Orphan(r) \/ CancelAwait(r) \/ CancelYield(r) \/ Delete(r)
        PROVE  StreamIInv'
    BY <1>3, SourceIInv, OrphanIInv, CancelAwaitIInv, CancelYieldIInv, DeleteIInv
  <1>4. CASE UNCHANGED streamVars
    <2>1. UNCHANGED <<engine, pc, item, record, store, registered, limiter, tracker, sequence, signalled,
                      inbox, produced, grace, closed, unfinished>>
      BY <1>4 DEF streamVars, recordVars, sourceVars
    <2> QED BY <2>1 DEF StreamIInv, StreamInv, StreamTypeOK, SlotsAreHeld, RecordsFollow, EndedIsRecorded, Holders
  <1> QED BY <1>1, <1>2, <1>3, <1>4, ShutdownIInv DEF StreamNext

\* generate_stream and its body give every slot and every stream back exactly
\* once on every path, close returns True only when no stream is left, and
\* DELETE finds only open records, for any number of concurrent requests.
THEOREM StreamsHoldTheirSlots == StreamSpec => []StreamInv
  <1>1. StreamIInv => StreamInv
    BY DEF StreamIInv
  <1> QED BY <1>1, StreamInitIInv, StreamNextIInv, PTL DEF StreamSpec

\* A body that has ended leaves an ended record behind that DELETE no longer
\* finds, unless it was closed at a yield before the stream's end.
THEOREM EndedStreamsAreRecorded == StreamSpec => []EndedIsRecorded
  <1>1. StreamIInv => EndedIsRecorded
    BY DEF StreamIInv
  <1> QED BY <1>1, StreamInitIInv, StreamNextIInv, PTL DEF StreamSpec

=============================================================================
