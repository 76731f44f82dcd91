-------------------------- MODULE FairQueueProofs --------------------------
(***************************************************************************)
(* Proofs about FairQueue for any tenants, weights, costs and priorities:  *)
(* the round (RoundHolds), how often a tenant with work may be passed over *)
(* (BypassIsBounded) and how far urgent requests overtake old ones         *)
(* (OvertakingIsBounded).                                                  *)
(*                                                                         *)
(* The bound on bypassing needs what the code does not count: the visits   *)
(* of a tenant that were in vain.  Its deficit counts them.  After v such  *)
(* visits the deficit holds v quanta, none of which paid for the request   *)
(* that was next, so v quanta are less than the tenant's dearest request.  *)
(* Between two visits every other tenant is served at most once, because   *)
(* the round has no tenant twice; those already passed in this round stand *)
(* behind the tenant, those ahead of it are the i - 1 of its position.     *)
(* Hence passed + i - 1 <= (n - 1) * (v + 1) is kept by every step: a      *)
(* pop moves the tenant up by as much as it serves, and a visit in vain    *)
(* pays for one more round (Waits).                                        *)
(***************************************************************************)
EXTENDS FairQueue, FoldFacts

-----------------------------------------------------------------------------
(* The inductive invariant *)

\* v visits of t were in vain since it was last served, and it is next in line at i.
Waits(t, i, v) ==
    /\ i \in DOMAIN active /\ active[i] = t /\ v \in Nat
    /\ v * Quantum(t) <= deficits[t]
    /\ v = 0 \/ \E r \in Request : TenantOf[r] = t /\ v * Quantum(t) < Cost[r]
    /\ passed[t] + i - 1 <= (Cardinality(Tenant) - 1) * (v + 1)

\* Every tenant with work waits so: the others passed it at most once per visit.
Patience == \A t \in Tenant : queues[t] # <<>> => \E i, v \in Nat : Waits(t, i, v)

\* The inductive invariant.
IInv == RoundInv /\ arrived \in Nat /\ Patience

-----------------------------------------------------------------------------
(* Arithmetic *)

\* One more visit is worth one more quantum.
LEMMA OneMore ==
    ASSUME NEW a \in Nat, NEW b \in Nat
    PROVE  a * b \in Nat /\ (b + 1) * a = b * a + a /\ a * (b + 1) = a * b + a /\ b * a \in Nat
  OBVIOUS

\* More visits allow more requests.
LEMMA TimesMore ==
    ASSUME NEW a \in Nat, NEW b \in Nat, NEW c \in Nat, b <= c
    PROVE  a * b <= a * c
  <1>1. PICK d \in Nat : c = b + d
    <2>1. c - b \in Nat /\ c = b + (c - b)
      OBVIOUS
    <2> QED BY <2>1
  <1>2. a * c = a * b + a * d /\ a * d \in Nat /\ a * b \in Nat
    BY <1>1
  <1>3. \A x, y, z \in Nat : x = y + z => y <= x
    OBVIOUS
  <1>4. a * c \in Nat
    OBVIOUS
  <1> QED BY <1>2, <1>3, <1>4

\* Rounded up, x has more than w times q when w times q is less than x.
LEMMA RoundedUp ==
    ASSUME NEW x \in Nat, NEW q \in Nat \ {0}, NEW w \in Nat, w * q < x
    PROVE  w + 1 <= (x + q - 1) \div q /\ (x + q - 1) \div q \in Nat
  <1>1. PICK y \in Nat : y = x + q - 1
    OBVIOUS
  <1>2. PICK d \in Nat : d = y \div q
    OBVIOUS
  <1>3. q * d <= y /\ y < q * d + q
    <2>1. y = q * (y \div q) + (y % q) /\ (y % q) \in 0..(q - 1)
      OBVIOUS
    <2> QED BY <1>2, <2>1
  <1>4. SUFFICES ASSUME d <= w PROVE FALSE
    BY <1>1, <1>2
  <1>5. q * d <= q * w
    BY <1>4, TimesMore
  <1>6. q * w = w * q
    OBVIOUS
  <1> QED BY <1>1, <1>3, <1>5, <1>6

-----------------------------------------------------------------------------
(* The choice within a tenant *)

\* How urgent a request is; the clock adds the same to all of them.
Urgency(r) == Priority[r] * priority_aging_seconds - queued_at[r]

\* Urgency is a number, and Before compares it first.
LEMMA UrgencyFacts ==
    ASSUME TypeOK, NEW r \in Request, NEW q \in Request
    PROVE  /\ Urgency(r) \in Int /\ Urgency(q) \in Int /\ CreatedAt[r] \in Nat /\ CreatedAt[q] \in Nat
           /\ Before(r, q) <=> \/ Urgency(r) > Urgency(q)
                               \/ Urgency(r) = Urgency(q) /\ CreatedAt[r] < CreatedAt[q]
  <1>1. /\ Priority[r] \in Int /\ Priority[q] \in Int /\ queued_at[r] \in Nat /\ queued_at[q] \in Nat
        /\ CreatedAt[r] \in Nat /\ CreatedAt[q] \in Nat /\ priority_aging_seconds \in Nat
    BY FairQueueAssumption DEF TypeOK
  <1>2. Urgency(r) \in Int /\ Urgency(q) \in Int
    BY <1>1 DEF Urgency
  <1> QED BY <1>1, <1>2 DEF Before, Urgency

\* A tenant with work has a next request, and none of its requests precedes it.
LEMMA NextFacts ==
    ASSUME TypeOK, NEW t \in Tenant, queues[t] # <<>>
    PROVE  /\ NextForTenant(t) \in Range(queues[t]) /\ NextForTenant(t) \in Request
           /\ \A q \in Range(queues[t]) : ~Before(q, NextForTenant(t))
  <1>1. PICK s \in Seq(Request), n \in Nat \ {0} : s = queues[t] /\ n = Len(s) /\ DOMAIN s = 1..n
    BY DEF TypeOK
  <1>2. PICK D : D = 1..n /\ IsFiniteSet(D) /\ D \subseteq Nat /\ D # {} /\ \A i \in D : s[i] \in Request
    <2>1. IsFiniteSet(1..n) /\ 1 \in 1..n
      BY FS_Interval
    <2>2. 1..n \subseteq Nat /\ \A i \in 1..n : s[i] \in Request
      BY <1>1
    <2> QED BY <2>1, <2>2
  <1> DEFINE f == [i \in D |-> -Urgency(s[i])]
             g == [i \in D |-> CreatedAt[s[i]]]
  <1>3. \A i \in D : f[i] \in Int /\ g[i] \in Int /\ f[i] = -Urgency(s[i]) /\ g[i] = CreatedAt[s[i]] /\ Urgency(s[i]) \in Int
    BY <1>2, UrgencyFacts
  <1>4. PICK w \in D : \A v \in D : f[w] < f[v] \/ (f[w] = f[v] /\ w <= v)
    <2> HIDE DEF f
    <2> QED BY <1>2, <1>3, LeastScore
  <1>5. PICK K : K = {i \in D : f[i] = f[w]}
    OBVIOUS
  <1>6. PICK x \in K : \A v \in K : g[x] < g[v] \/ (g[x] = g[v] /\ x <= v)
    <2>1. K \subseteq D /\ w \in K
      BY <1>5
    <2>2. IsFiniteSet(K) /\ K \subseteq Nat /\ K # {} /\ \A i \in K : g[i] \in Int
      BY <1>2, <1>3, <2>1, FS_Subset
    <2> HIDE DEF g
    <2> QED BY <2>2, LeastScore
  <1> HIDE DEF f, g
  <1>7. \A j \in D : ~Before(s[j], s[x])
    <2> SUFFICES ASSUME NEW j \in D PROVE ~Before(s[j], s[x])
      OBVIOUS
    <2>1. x \in D /\ f[x] = f[w]
      BY <1>5, <1>6
    <2>2. f[x] <= f[j] /\ (f[x] = f[j] => g[x] <= g[j])
      BY <1>3, <1>4, <1>5, <1>6, <2>1
    <2>3. Urgency(s[j]) <= Urgency(s[x]) /\ (Urgency(s[j]) = Urgency(s[x]) => CreatedAt[s[x]] <= CreatedAt[s[j]])
      BY <1>3, <2>1, <2>2
    <2>4. s[j] \in Request /\ s[x] \in Request
      BY <1>2, <2>1
    <2> QED BY <2>3, <2>4, UrgencyFacts
  <1> DEFINE best(i) == \A j \in DOMAIN queues[t] : ~Before(queues[t][j], queues[t][i])
             B == {i \in DOMAIN queues[t] : best(i)}
  <1>8. B \subseteq Nat /\ x \in B
    BY <1>1, <1>2, <1>5, <1>6, <1>7
  <1>9. Min(B) \in B
    <2> HIDE DEF B
    <2>1. \E i \in B : \A j \in B : i <= j
      BY <1>8, LeastNatural
    <2> QED BY <2>1 DEF Min
  <1>10. NextForTenant(t) = s[Min(B)]
    BY <1>1 DEF NextForTenant
  <1>11. Min(B) \in D /\ \A j \in D : ~Before(s[j], s[Min(B)])
    BY <1>1, <1>2, <1>9
  <1> HIDE DEF B
  <1> QED BY <1>1, <1>2, <1>10, <1>11 DEF Range

-----------------------------------------------------------------------------
(* The round *)

\* After k visits in vain: the tenants behind them come first, in their order, and
\* those of the visited that have work follow.
LEMMA RotatedFacts ==
    ASSUME RoundInv, NEW k \in 0..Len(active)
    PROVE  /\ Rotated(k) \in Seq(Tenant) /\ IsInjective(Rotated(k))
           /\ Len(Rotated(k)) >= Len(active) - k
           /\ \A j \in 1..(Len(active) - k) : Rotated(k)[j] = active[k + j]
           /\ Range(Rotated(k)) \subseteq Range(active)
           /\ \A t \in Range(active) : queues[t] # <<>> => t \in Range(Rotated(k))
  <1>1. active \in Seq(Tenant) /\ IsInjective(active)
    BY DEF RoundInv, TypeOK, ActiveCoversWork
  <1>2. PICK p, q : Cut(active, k, p, q)
    BY DEF Cut
  <1>3. /\ p \in Seq(Tenant) /\ q \in Seq(Tenant) /\ Len(q) = Len(active) - k
        /\ Range(active) = Range(p) \cup Range(q)
        /\ \A j \in 1..(Len(active) - k) : q[j] = active[k + j]
        /\ IsInjective(p) /\ IsInjective(q) /\ Range(p) \cap Range(q) = {}
    <2>1. /\ p \in Seq(Tenant) /\ q \in Seq(Tenant) /\ Len(q) = Len(active) - k
          /\ Range(active) = Range(p) \cup Range(q)
      BY <1>1, <1>2, CutInTwo
    <2>2. \A j \in 1..(Len(active) - k) : q[j] = active[k + j]
      BY <1>1, <1>2, CutInTwo
    <2>3. IsInjective(p) /\ IsInjective(q) /\ Range(p) \cap Range(q) = {}
      BY <1>1, <1>2, CutInTwo
    <2> QED BY <2>1, <2>2, <2>3
  <1>4. PICK W : W = {t \in Tenant : queues[t] # <<>>}
    OBVIOUS
  <1>5. PICK z : z = Keep(p, W) /\ z \in Seq(Tenant) /\ Range(z) = Range(p) \cap W /\ IsInjective(z)
    BY <1>3, KeepFacts
  <1>6. Rotated(k) = q \o z
    BY <1>2, <1>4, <1>5 DEF Rotated, Cut
  <1>7. Range(z) \cap Range(q) = {} /\ Range(q) \cap Range(z) = {}
    BY <1>3, <1>5
  <1>8. q \o z \in Seq(Tenant) /\ Len(q \o z) = Len(q) + Len(z) /\ Len(q) \in Nat /\ Len(z) \in Nat
    <2>1. q \in Seq(Tenant) /\ z \in Seq(Tenant)
      BY <1>3, <1>5
    <2> QED BY <2>1
  <1>9. \A i \in 1..Len(q) : (q \o z)[i] = q[i]
    BY <1>3, <1>5, ConcatFacts
  <1>10. Range(q \o z) = Range(q) \cup Range(z) /\ IsInjective(q \o z)
    BY <1>3, <1>5, <1>7, ConcatFacts
  <1>11. Range(active) \subseteq Tenant
    BY <1>1 DEF Range
  <1>12. Len(q \o z) >= Len(active) - k
    BY <1>3, <1>8
  <1> QED BY <1>3, <1>4, <1>5, <1>6, <1>8, <1>9, <1>10, <1>11, <1>12

\* Of a tenant with work, a visit in vain adds a quantum to its deficit, which then
\* still does not pay for its dearest request.
LEMMA ToppedFacts ==
    ASSUME RoundInv, NEW k \in 0..Len(active)
    PROVE  /\ Topped(k) \in [Tenant -> Nat]
           /\ \A i \in 1..Len(active) : i > k => Topped(k)[active[i]] = deficits[active[i]]
           /\ \A i \in 1..k : queues[active[i]] # <<>> => Topped(k)[active[i]] = deficits[active[i]] + Quantum(active[i])
           /\ \A t \in Tenant : Quantum(t) \in Nat \ {0}
  <1>1. active \in Seq(Tenant) /\ IsInjective(active) /\ deficits \in [Tenant -> Nat]
    BY DEF RoundInv, TypeOK, ActiveCoversWork
  <1>2. ASSUME NEW t \in Tenant PROVE Quantum(t) \in Nat \ {0}
    <2>1. Weight[t] \in Nat \ {0} /\ base_quantum_tokens \in Nat \ {0}
      BY FairQueueAssumption
    <2>2. \A a, b \in Nat \ {0} : a * b \in Nat \ {0}
      OBVIOUS
    <2> QED BY <2>1, <2>2 DEF Quantum
  <1>3. \A t \in Tenant : deficits[t] + Quantum(t) \in Nat /\ deficits[t] \in Nat
    BY <1>1, <1>2
  <1>4. Topped(k) \in [Tenant -> Nat]
    BY <1>3 DEF Topped
  <1>5. \A i \in 1..Len(active) : active[i] \in Tenant /\ \A j \in 1..Len(active) : active[i] = active[j] => i = j
    BY <1>1 DEF IsInjective
  <1>6. ASSUME NEW i \in 1..Len(active), i > k PROVE Topped(k)[active[i]] = deficits[active[i]]
    <2>1. \A j \in 1..k : j \in 1..Len(active) /\ j # i
      BY <1>1, <1>6
    <2>2. active[i] \notin Visited(k)
      BY <1>5, <2>1 DEF Visited
    <2> QED BY <1>5, <2>2 DEF Topped
  <1>7. ASSUME NEW i \in 1..k, queues[active[i]] # <<>> PROVE Topped(k)[active[i]] = deficits[active[i]] + Quantum(active[i])
    <2>1. i \in 1..Len(active) /\ active[i] \in Visited(k)
      BY <1>1 DEF Visited
    <2> QED BY <1>5, <1>7, <2>1 DEF Topped
  <1> QED BY <1>2, <1>4, <1>6, <1>7

-----------------------------------------------------------------------------
(* What a step does to a tenant that waits *)

\* It is visited in vain and goes to the back.
LEMMA VisitedInVain ==
    ASSUME RoundInv, NEW t \in Tenant, queues[t] # <<>>, NEW i, NEW v, Waits(t, i, v), ~Serves(i),
           deficits'[t] = deficits[t] + Quantum(t), passed'[t] \in Nat,
           NEW j \in DOMAIN active', active'[j] = t, j \in Nat,
           passed'[t] + j - 1 <= passed[t] + Cardinality(Tenant) - 1
    PROVE  Waits(t, j, v + 1)'
  <1>1. /\ i \in DOMAIN active /\ active[i] = t /\ v \in Nat /\ v * Quantum(t) <= deficits[t]
        /\ passed[t] + i - 1 <= (Cardinality(Tenant) - 1) * (v + 1)
    BY DEF Waits
  <1>2. /\ deficits[t] \in Nat /\ passed[t] \in Nat /\ active \in Seq(Tenant) /\ Quantum(t) \in Nat
        /\ Cardinality(Tenant) \in Nat /\ Cardinality(Tenant) - 1 \in Nat /\ i \in Nat \ {0}
    <2>1. deficits[t] \in Nat /\ passed[t] \in Nat /\ active \in Seq(Tenant)
      BY DEF RoundInv, TypeOK
    <2>2. 0 \in 0..Len(active)
      BY <2>1
    <2>3. Quantum(t) \in Nat
      BY <2>2, ToppedFacts
    <2>4. Cardinality(Tenant) \in Nat /\ Cardinality(Tenant) # 0
      BY FairQueueAssumption, FS_CardinalityType, FS_EmptySet
    <2>5. i \in Nat \ {0}
      BY <1>1, <2>1
    <2> QED BY <2>1, <2>3, <2>4, <2>5
  <1>3. PICK r \in Request : TenantOf[r] = t /\ deficits[t] + Quantum(t) < Cost[r] /\ Cost[r] \in Nat
    <2>1. PICK r \in Request : r = NextForTenant(t) /\ r \in Range(queues[t])
      BY NextFacts DEF RoundInv
    <2>2. TenantOf[r] = t
      BY <2>1 DEF RoundInv, QueuesHoldQueued
    <2>3. ~(Cost[r] <= deficits[t] + Quantum(t)) /\ Cost[r] \in Nat
      BY <1>1, <2>1, FairQueueAssumption DEF Serves
    <2> QED BY <1>2, <2>2, <2>3
  <1>4. PICK a \in Nat, b \in Nat, c \in Nat : /\ a = v * Quantum(t) /\ (v + 1) * Quantum(t) = a + Quantum(t)
                                               /\ b = (Cardinality(Tenant) - 1) * (v + 1)
                                               /\ c = Cardinality(Tenant) - 1
                                               /\ (Cardinality(Tenant) - 1) * ((v + 1) + 1) = b + c
    <2>1. v * Quantum(t) \in Nat /\ (v + 1) * Quantum(t) = v * Quantum(t) + Quantum(t)
      BY <1>1, <1>2, OneMore
    <2>2. PICK c \in Nat : c = Cardinality(Tenant) - 1
      BY <1>2
    <2>3. v + 1 \in Nat
      BY <1>1
    <2>4. c * (v + 1) \in Nat /\ c * ((v + 1) + 1) = c * (v + 1) + c
      BY <2>2, <2>3, OneMore
    <2> QED BY <2>1, <2>2, <2>4
  <1>5. (v + 1) * Quantum(t) <= deficits'[t] /\ (v + 1) * Quantum(t) < Cost[r]
    <2>1. a <= deficits[t] /\ (v + 1) * Quantum(t) = a + Quantum(t)
      BY <1>1, <1>4
    <2>2. \A w, x, y, z \in Nat : w <= x /\ x + y < z => w + y <= x + y /\ w + y < z
      OBVIOUS
    <2>3. a + Quantum(t) <= deficits[t] + Quantum(t) /\ a + Quantum(t) < Cost[r]
      BY <1>2, <1>3, <2>1, <2>2
    <2> QED BY <2>1, <2>3
  <1>6. passed'[t] + j - 1 <= (Cardinality(Tenant) - 1) * ((v + 1) + 1)
    <2>1. passed[t] + i - 1 <= b /\ (Cardinality(Tenant) - 1) * ((v + 1) + 1) = b + c /\ c = Cardinality(Tenant) - 1
      BY <1>1, <1>4
    <2>2. passed'[t] + j - 1 <= passed[t] + c
      BY <1>2, <2>1
    <2>3. passed[t] <= b
      BY <1>2, <2>1
    <2>4. \A w, x, y, z \in Int : w <= x + y /\ x <= z => w <= z + y
      OBVIOUS
    <2>5. passed'[t] + j - 1 \in Int /\ passed[t] \in Int /\ b \in Int /\ c \in Int
      BY <1>2
    <2>6. passed'[t] + j - 1 <= b + c
      BY <2>2, <2>3, <2>4, <2>5
    <2> QED BY <2>1, <2>6
  <1>7. v + 1 \in Nat /\ Quantum(t)' = Quantum(t)
    BY <1>1 DEF Quantum
  <1> QED BY <1>3, <1>5, <1>6, <1>7 DEF Waits

\* It is not visited: somebody before it is served, or nobody.
LEMMA StillWaits ==
    ASSUME NEW t \in Tenant, NEW i, NEW v, Waits(t, i, v), i \in Nat, passed[t] \in Nat, passed'[t] \in Nat,
           deficits'[t] = deficits[t], NEW j \in DOMAIN active', active'[j] = t, j \in Nat,
           passed'[t] + j <= passed[t] + i
    PROVE  Waits(t, j, v)'
  <1>1. PICK b : b = (Cardinality(Tenant) - 1) * (v + 1) /\ passed[t] + i - 1 <= b
    BY DEF Waits
  <1>2. v \in Nat /\ v * Quantum(t) <= deficits[t] /\ (v = 0 \/ \E r \in Request : TenantOf[r] = t /\ v * Quantum(t) < Cost[r])
    BY DEF Waits
  <1>3. b \in Int
    <2>1. Cardinality(Tenant) \in Nat
      BY FairQueueAssumption, FS_CardinalityType
    <2> QED BY <1>1, <1>2, <2>1
  <1>4. passed'[t] + j - 1 <= b
    BY <1>1, <1>3
  <1>5. Quantum(t)' = Quantum(t)
    BY DEF Quantum
  <1> QED BY <1>1, <1>2, <1>4, <1>5 DEF Waits

\* It begins to wait.
LEMMA BeginsToWait ==
    ASSUME RoundInv', NEW t \in Tenant, passed'[t] = 0, NEW j \in DOMAIN active', active'[j] = t
    PROVE  Waits(t, j, 0)' /\ j \in Nat
  <1>1. active' \in Seq(Tenant) /\ IsInjective(active') /\ deficits'[t] \in Nat
    BY DEF RoundInv, TypeOK, ActiveCoversWork
  <1>2. Len(active') <= Cardinality(Tenant)
    BY <1>1, FairQueueAssumption, InjectiveFits
  <1>3. Cardinality(Tenant) \in Nat /\ j \in Nat /\ j <= Len(active') /\ Len(active') \in Nat
    BY <1>1, FairQueueAssumption, FS_CardinalityType
  <1>4. PICK c \in Int : c = Cardinality(Tenant) - 1 /\ passed'[t] + j - 1 <= c
    BY <1>2, <1>3
  <1>5. c * (0 + 1) = c
    OBVIOUS
  <1>6. Quantum(t)' \in Nat /\ 0 * Quantum(t)' = 0
    <2>1. Weight[t] \in Nat /\ base_quantum_tokens \in Nat
      BY FairQueueAssumption
    <2>2. \A a, b \in Nat : a * b \in Nat
      OBVIOUS
    <2>3. Quantum(t)' \in Nat
      BY <2>1, <2>2 DEF Quantum
    <2> QED BY <2>3
  <1> QED BY <1>1, <1>3, <1>4, <1>5, <1>6 DEF Waits

-----------------------------------------------------------------------------
(* The steps *)

\* The queue of one tenant loses a request, which is no longer queued.
LEMMA QueueLoses ==
    ASSUME TypeOK, QueuesHoldQueued, NEW r \in Request, NEW s \in {"popped", "cancelled"},
           queues' = [queues EXCEPT ![TenantOf[r]] = Keep(@, Request \ {r})],
           status' = [status EXCEPT ![r] = s], queued_at' = [queued_at EXCEPT ![r] = 0]
    PROVE  /\ queues' \in [Tenant -> Seq(Request)] /\ QueuesHoldQueued'
           /\ status' \in [Request -> {"new", "queued", "popped", "cancelled"}]
           /\ queued_at' \in [Request -> 0..MaxTime]
           /\ \A t \in Tenant : queues'[t] # <<>> => queues[t] # <<>>
           /\ \A t \in Tenant : t # TenantOf[r] => queues'[t] = queues[t]
  <1>1. PICK t \in Tenant : t = TenantOf[r]
    BY FairQueueAssumption
  <1>2. queues[t] \in Seq(Request) /\ IsInjective(queues[t])
    BY DEF TypeOK, QueuesHoldQueued
  <1>3. PICK S : S = Request \ {r}
    OBVIOUS
  <1>4. PICK k : /\ k = Keep(queues[t], S) /\ k \in Seq(Request) /\ Len(k) <= Len(queues[t])
                 /\ Range(k) = Range(queues[t]) \cap S /\ IsInjective(k)
    BY <1>2, KeepFacts
  <1>5. queues' = [queues EXCEPT ![t] = k]
    BY <1>1, <1>3, <1>4
  <1>6. /\ queues' \in [Tenant -> Seq(Request)] /\ queues'[t] = k
        /\ \A u \in Tenant : u # t => queues'[u] = queues[u]
    BY <1>4, <1>5 DEF TypeOK
  <1>7. /\ status' \in [Request -> {"new", "queued", "popped", "cancelled"}] /\ status'[r] = s
        /\ \A q \in Request : q # r => status'[q] = status[q]
    BY DEF TypeOK
  <1>8. queued_at' \in [Request -> 0..MaxTime]
    <2>1. 0 \in 0..MaxTime
      BY FairQueueAssumption
    <2> QED BY <2>1 DEF TypeOK
  <1>9. k # <<>> => queues[t] # <<>>
    <2>1. queues[t] = <<>> => Len(k) = 0
      BY <1>4
    <2> QED BY <1>4, <2>1, EmptySeq
  <1>10. QueuesHoldQueued'
    <2> SUFFICES ASSUME NEW u \in Tenant
                 PROVE  /\ Range(queues'[u]) = {q \in Request : TenantOf[q] = u /\ status'[q] = "queued"}
                        /\ IsInjective(queues'[u])
      BY DEF QueuesHoldQueued
    <2>1. Range(queues[u]) = {q \in Request : TenantOf[q] = u /\ status[q] = "queued"} /\ IsInjective(queues[u])
      BY DEF QueuesHoldQueued
    <2>2. CASE u = t
      BY <1>3, <1>4, <1>6, <1>7, <2>1, <2>2
    <2>3. CASE u # t
      BY <1>1, <1>6, <1>7, <2>1, <2>3
    <2> QED BY <2>2, <2>3
  <1> QED BY <1>1, <1>6, <1>7, <1>8, <1>9, <1>10

\* A request enters the queue of its tenant, which enters the round if it is not in it.
LEMMA InsertStep ==
    ASSUME IInv, NEW r \in Request, Insert(r), UNCHANGED <<deficits, now>>, arrived' \in Nat
    PROVE  IInv'
  <1>1. /\ TypeOK /\ ActiveCoversWork /\ QueuesHoldQueued /\ Patience /\ RoundInv
        /\ active \in Seq(Tenant) /\ IsInjective(active) /\ queues \in [Tenant -> Seq(Request)]
    BY DEF IInv, RoundInv, TypeOK, ActiveCoversWork
  <1>2. PICK t \in Tenant : t = TenantOf[r]
    BY FairQueueAssumption
  <1>3. /\ ~Contains(queues[t], r) /\ queues' = [queues EXCEPT ![t] = Append(@, r)]
        /\ active' = IF ~Contains(active, t) THEN Append(active, t) ELSE active
        /\ passed' = IF queues[t] = <<>> THEN [passed EXCEPT ![t] = 0] ELSE passed
        /\ status' = [status EXCEPT ![r] = "queued"] /\ queued_at' = [queued_at EXCEPT ![r] = now]
    BY <1>2 DEF Insert, Enters
  <1>4. queues[t] \in Seq(Request) /\ IsInjective(queues[t]) /\ r \notin Range(queues[t])
    BY <1>1, <1>3 DEF QueuesHoldQueued, Contains, Range
  <1>5. PICK k : /\ k = Append(queues[t], r) /\ k \in Seq(Request) /\ Range(k) = Range(queues[t]) \cup {r}
                 /\ IsInjective(k)
    BY <1>4, AppendFacts
  <1>6. /\ queues' \in [Tenant -> Seq(Request)] /\ queues'[t] = k
        /\ \A u \in Tenant : u # t => queues'[u] = queues[u]
    BY <1>1, <1>3, <1>5
  <1>7. /\ active' \in Seq(Tenant) /\ IsInjective(active') /\ t \in Range(active')
        /\ \A i \in DOMAIN active : i \in DOMAIN active' /\ active'[i] = active[i]
    <2>1. CASE Contains(active, t)
      BY <1>1, <1>3, <2>1 DEF Contains, Range
    <2>2. CASE ~Contains(active, t)
      <3>1. t \notin Range(active)
        BY <1>1, <2>2 DEF Contains, Range
      <3>2. active' \in Seq(Tenant) /\ IsInjective(active') /\ t \in Range(active')
        BY <1>1, <1>3, <2>2, <3>1, AppendFacts
      <3>3. \A i \in DOMAIN active : i \in DOMAIN active' /\ active'[i] = active[i]
        BY <1>1, <1>3, <2>2
      <3> QED BY <3>2, <3>3
    <2> QED BY <2>1, <2>2
  <1>8. TypeOK'
    <2>1. passed' \in [Tenant -> Nat]
      BY <1>1, <1>3 DEF TypeOK
    <2>2. status' \in [Request -> {"new", "queued", "popped", "cancelled"}] /\ queued_at' \in [Request -> 0..MaxTime]
      BY <1>1, <1>3 DEF TypeOK
    <2> QED BY <1>1, <1>6, <1>7, <2>1, <2>2 DEF TypeOK
  <1>9. ActiveCoversWork'
    <2> SUFFICES ASSUME NEW u \in Tenant, queues'[u] # <<>> PROVE Contains(active', u)
      BY <1>7 DEF ActiveCoversWork
    <2>1. CASE u = t
      BY <1>7, <2>1 DEF Contains, Range
    <2>2. CASE u # t
      <3>1. Contains(active, u)
        BY <1>1, <1>6, <2>2 DEF ActiveCoversWork
      <3> QED BY <1>1, <1>7, <3>1 DEF Contains
    <2> QED BY <2>1, <2>2
  <1>10. QueuesHoldQueued'
    <2> SUFFICES ASSUME NEW u \in Tenant
                 PROVE  /\ Range(queues'[u]) = {q \in Request : TenantOf[q] = u /\ status'[q] = "queued"}
                        /\ IsInjective(queues'[u])
      BY DEF QueuesHoldQueued
    <2>1. Range(queues[u]) = {q \in Request : TenantOf[q] = u /\ status[q] = "queued"} /\ IsInjective(queues[u])
      BY <1>1 DEF QueuesHoldQueued
    <2>2. status'[r] = "queued" /\ \A q \in Request : q # r => status'[q] = status[q]
      BY <1>1, <1>3 DEF TypeOK
    <2>3. CASE u = t
      BY <1>2, <1>5, <1>6, <2>1, <2>2, <2>3
    <2>4. CASE u # t
      BY <1>2, <1>6, <2>1, <2>2, <2>4
    <2> QED BY <2>3, <2>4
  <1>11. RoundInv'
    BY <1>8, <1>9, <1>10 DEF RoundInv
  <1>12. Patience'
    <2> SUFFICES ASSUME NEW u \in Tenant, queues'[u] # <<>> PROVE \E i, v \in Nat : Waits(u, i, v)'
      BY DEF Patience
    <2>1. CASE queues[u] # <<>>
      <3>1. PICK i \in Nat, v \in Nat : Waits(u, i, v)
        BY <1>1, <2>1 DEF Patience
      <3>2. i \in DOMAIN active' /\ active'[i] = u
        BY <1>7, <3>1 DEF Waits
      <3>3. passed'[u] = passed[u] /\ passed[u] \in Nat
        BY <1>1, <1>3, <2>1 DEF TypeOK
      <3>4. Waits(u, i, v)'
        BY <3>1, <3>2, <3>3, StillWaits
      <3> QED BY <3>1, <3>4
    <2>2. CASE queues[u] = <<>>
      <3>1. u = t
        BY <1>6, <2>2
      <3>2. PICK j \in DOMAIN active' : active'[j] = u
        BY <1>7, <3>1 DEF Range
      <3>3. passed'[u] = 0
        BY <1>1, <1>3, <2>2, <3>1 DEF TypeOK
      <3>4. Waits(u, j, 0)' /\ j \in Nat
        BY <1>11, <3>2, <3>3, BeginsToWait
      <3> QED BY <3>4
    <2> QED BY <2>1, <2>2
  <1> QED BY <1>11, <1>12 DEF IInv

\* A queued request is cancelled.
LEMMA CancelStep ==
    ASSUME IInv, NEW r \in Request, Cancel(r)
    PROVE  IInv'
  <1>1. TypeOK /\ ActiveCoversWork /\ QueuesHoldQueued /\ Patience
    BY DEF IInv, RoundInv
  <1>2. /\ queues' \in [Tenant -> Seq(Request)] /\ QueuesHoldQueued'
        /\ status' \in [Request -> {"new", "queued", "popped", "cancelled"}]
        /\ queued_at' \in [Request -> 0..MaxTime]
        /\ \A t \in Tenant : queues'[t] # <<>> => queues[t] # <<>>
    BY <1>1, QueueLoses DEF Cancel
  <1>3. UNCHANGED <<deficits, active, arrived, now, passed>>
    BY DEF Cancel
  <1>4. TypeOK'
    BY <1>1, <1>2, <1>3 DEF TypeOK
  <1>5. ActiveCoversWork'
    BY <1>1, <1>2, <1>3 DEF ActiveCoversWork
  <1>6. \A t, i, v : Waits(t, i, v)' = Waits(t, i, v)
    BY <1>3 DEF Waits, Quantum
  <1>7. Patience'
    BY <1>1, <1>2, <1>6 DEF Patience
  <1> QED BY <1>2, <1>3, <1>4, <1>5, <1>7 DEF IInv, RoundInv

\* What one pop that serves does, with its tenant, its request and the rest of the round.
Pops(k, t, r, rest, back) ==
    /\ k \in 1..Len(active) /\ t = active[k] /\ t \in Tenant /\ r \in Request /\ TenantOf[r] = t
    /\ r = NextForTenant(t) /\ queues[t] # <<>> /\ status[r] = "queued"
    /\ Cost[r] <= deficits[t] + Quantum(t) /\ \A i \in 1..(k - 1) : ~Serves(i)
    /\ queues' = [queues EXCEPT ![t] = Keep(@, Request \ {r})]
    /\ deficits' = [Topped(k - 1) EXCEPT ![t] = @ + Quantum(t) - Cost[r]]
    /\ rest = Tail(Rotated(k - 1)) /\ back = (IF queues'[t] # <<>> THEN <<t>> ELSE <<>>)
    /\ active' = rest \o back
    /\ passed' = [u \in Tenant |-> IF u = t \/ queues[u] = <<>> THEN 0 ELSE passed[u] + 1]
    /\ status' = [status EXCEPT ![r] = "popped"]
    /\ queued_at' = [queued_at EXCEPT ![r] = 0]

\* PopServe is such a pop.
LEMMA PopServes ==
    ASSUME RoundInv, PopServe
    PROVE  \E k, t, r, rest, back : Pops(k, t, r, rest, back)
  <1>1. TypeOK /\ QueuesHoldQueued /\ active \in Seq(Tenant)
    BY DEF RoundInv, TypeOK
  <1>2. PICK k \in DOMAIN active :
            /\ Serves(k) /\ \A i \in 1..(k - 1) : ~Serves(i)
            /\ LET t == active[k]
                   r == NextForTenant(t)
               IN  /\ queues' = [queues EXCEPT ![t] = Keep(@, Request \ {r})]
                   /\ deficits' = [Topped(k - 1) EXCEPT ![t] = @ + Quantum(t) - Cost[r]]
                   /\ active' = Tail(Rotated(k - 1)) \o (IF queues'[t] # <<>> THEN <<t>> ELSE <<>>)
                   /\ passed' = [u \in Tenant |-> IF u = t \/ queues[u] = <<>> THEN 0 ELSE passed[u] + 1]
                   /\ status' = [status EXCEPT ![r] = "popped"]
                   /\ queued_at' = [queued_at EXCEPT ![r] = 0]
    BY DEF PopServe
  <1>3. PICK t \in Tenant : t = active[k]
    BY <1>1
  <1>4. k \in 1..Len(active) /\ queues[t] # <<>> /\ Cost[NextForTenant(t)] <= deficits[t] + Quantum(t)
    BY <1>1, <1>2, <1>3 DEF Serves
  <1>5. PICK r \in Request : r = NextForTenant(t) /\ r \in Range(queues[t])
    BY <1>1, <1>4, NextFacts
  <1>6. TenantOf[r] = t /\ status[r] = "queued"
    BY <1>1, <1>5 DEF QueuesHoldQueued
  <1>7. PICK rest, back : rest = Tail(Rotated(k - 1)) /\ back = (IF queues'[t] # <<>> THEN <<t>> ELSE <<>>)
    OBVIOUS
  <1> QED BY <1>2, <1>3, <1>4, <1>5, <1>6, <1>7 DEF Pops

\* The round after such a pop: everybody else with work, closer to the front or at the
\* back, and the tenant that was served behind them.
LEMMA RoundAfterPop ==
    ASSUME RoundInv, NEW k, NEW t, NEW r, NEW rest, NEW back, Pops(k, t, r, rest, back)
    PROVE  /\ active' \in Seq(Tenant) /\ IsInjective(active')
           /\ \A u \in Tenant : u # t /\ queues[u] # <<>> =>
                 \E j \in DOMAIN active' : active'[j] = u /\ j \in Nat /\ j <= Cardinality(Tenant) - 1
           /\ \A i \in 1..Len(active) : i > k => i - k \in DOMAIN active' /\ active'[i - k] = active[i]
           /\ queues'[t] # <<>> => t \in Range(active')
  <1>1. /\ TypeOK /\ ActiveCoversWork /\ active \in Seq(Tenant) /\ t \in Tenant /\ k \in 1..Len(active)
        /\ t = active[k] /\ Len(active) \in Nat
    <2>1. TypeOK /\ ActiveCoversWork /\ active \in Seq(Tenant)
      BY DEF RoundInv, TypeOK
    <2>2. t \in Tenant /\ k \in 1..Len(active) /\ t = active[k]
      BY DEF Pops
    <2> QED BY <2>1, <2>2
  <1>2. PICK h : h = k - 1 /\ h \in 0..Len(active) /\ h + 1 = k
    BY <1>1
  <1>3. PICK full \in Seq(Tenant), m \in Nat :
            full = Rotated(h) /\ m = Len(full) /\ IsInjective(full) /\ m >= Len(active) - h
    <2>1. Rotated(h) \in Seq(Tenant) /\ IsInjective(Rotated(h)) /\ Len(Rotated(h)) >= Len(active) - h
      BY <1>2, RotatedFacts
    <2>2. Len(Rotated(h)) \in Nat
      BY <2>1
    <2> QED BY <2>1, <2>2
  <1>4. /\ \A j \in 1..(Len(active) - h) : full[j] = active[h + j]
        /\ \A u \in Range(active) : queues[u] # <<>> => u \in Range(full)
    BY <1>2, <1>3, RotatedFacts
  <1>5. m > 0 /\ full[1] = t /\ rest = Tail(full)
    <2>1. 1 \in 1..(Len(active) - h)
      BY <1>1, <1>2
    <2>2. full[1] = active[h + 1]
      BY <1>4, <2>1
    <2>3. m > 0
      BY <1>1, <1>2, <1>3
    <2> QED BY <1>1, <1>2, <1>3, <2>2, <2>3 DEF Pops
  <1>6. /\ rest \in Seq(Tenant) /\ Len(rest) = m - 1 /\ IsInjective(rest) /\ Range(rest) = Range(full) \ {t}
        /\ \A j \in 1..(m - 1) : rest[j] = full[j + 1]
    <2>1. rest \in Seq(Tenant) /\ Len(rest) = m - 1
      BY <1>3, <1>5, RestFacts
    <2>2. IsInjective(rest) /\ Range(rest) = Range(full) \ {t}
      BY <1>3, <1>5, RestFacts
    <2>3. \A j \in 1..(m - 1) : rest[j] = full[j + 1]
      BY <1>3, <1>5, RestFacts
    <2> QED BY <2>1, <2>2, <2>3
  <1>7. m - 1 <= Cardinality(Tenant) - 1
    <2>1. PICK e : e = Append(rest, t)
      OBVIOUS
    <2>2. t \notin Range(rest)
      BY <1>6
    <2>3. e \in Seq(Tenant) /\ Len(e) = m /\ IsInjective(e)
      BY <1>1, <1>3, <1>6, <2>1, <2>2, AppendFacts
    <2>4. m <= Cardinality(Tenant)
      BY <2>3, FairQueueAssumption, InjectiveFits
    <2>5. Cardinality(Tenant) \in Nat
      BY FairQueueAssumption, FS_CardinalityType
    <2> QED BY <1>3, <2>4, <2>5
  <1>8. back \in Seq(Tenant) /\ IsInjective(back) /\ Range(back) = IF queues'[t] # <<>> THEN {t} ELSE {}
    <2>1. <<t>> \in Seq(Tenant) /\ IsInjective(<<t>>) /\ Range(<<t>>) = {t}
      BY <1>1 DEF IsInjective, Range
    <2>2. <<>> \in Seq(Tenant) /\ IsInjective(<<>>) /\ Range(<<>>) = {}
      BY DEF IsInjective, Range
    <2>3. back = IF queues'[t] # <<>> THEN <<t>> ELSE <<>>
      BY DEF Pops
    <2>4. CASE queues'[t] # <<>>
      BY <2>1, <2>3, <2>4
    <2>5. CASE queues'[t] = <<>>
      BY <2>2, <2>3, <2>5
    <2> QED BY <2>4, <2>5
  <1>9. active' = rest \o back
    BY DEF Pops
  <1>10. active' \in Seq(Tenant) /\ Len(active') = Len(rest) + Len(back) /\ Len(back) \in Nat
    <2>1. rest \in Seq(Tenant) /\ back \in Seq(Tenant)
      BY <1>6, <1>8
    <2> QED BY <1>9, <2>1
  <1>11. \A j \in 1..(m - 1) : active'[j] = rest[j] /\ j \in DOMAIN active'
    <2>1. \A j \in 1..Len(rest) : active'[j] = rest[j]
      BY <1>6, <1>8, <1>9, ConcatFacts
    <2>2. \A j \in 1..(m - 1) : j \in 1..(Len(rest) + Len(back))
      BY <1>3, <1>6, <1>10
    <2>3. DOMAIN active' = 1..(Len(rest) + Len(back))
      BY <1>10
    <2> QED BY <1>6, <2>1, <2>2, <2>3
  <1>12. IsInjective(active') /\ Range(active') = Range(rest) \cup Range(back)
    <2>1. Range(rest) \cap Range(back) = {}
      BY <1>6, <1>8
    <2> QED BY <1>6, <1>8, <1>9, <2>1, ConcatFacts
  <1>13. ASSUME NEW u \in Tenant, u # t, queues[u] # <<>>
         PROVE  \E j \in DOMAIN active' : active'[j] = u /\ j \in Nat /\ j <= Cardinality(Tenant) - 1
    <2>1. u \in Range(active)
      BY <1>1, <1>13 DEF ActiveCoversWork, Contains, Range
    <2>2. u \in Range(rest)
      BY <1>4, <1>6, <1>13, <2>1
    <2>3. PICK j \in 1..(m - 1) : rest[j] = u
      BY <1>6, <2>2 DEF Range
    <2>4. j \in Nat /\ j <= Cardinality(Tenant) - 1
      <3>1. Cardinality(Tenant) \in Nat
        BY FairQueueAssumption, FS_CardinalityType
      <3> QED BY <1>3, <1>7, <2>3, <3>1
    <2> QED BY <1>11, <2>3, <2>4
  <1>14. ASSUME NEW i \in 1..Len(active), i > k PROVE i - k \in DOMAIN active' /\ active'[i - k] = active[i]
    <2>1. /\ i - k \in 1..(m - 1) /\ (i - k) + 1 \in 1..(Len(active) - h) /\ h + ((i - k) + 1) = i
      BY <1>1, <1>2, <1>3, <1>14
    <2>2. rest[i - k] = full[(i - k) + 1] /\ full[(i - k) + 1] = active[h + ((i - k) + 1)]
      BY <1>4, <1>6, <2>1
    <2> QED BY <1>11, <2>1, <2>2
  <1>15. queues'[t] # <<>> => t \in Range(active')
    BY <1>8, <1>12
  <1> QED BY <1>10, <1>12, <1>13, <1>14, <1>15

\* A pop that serves.
LEMMA PopServeStep ==
    ASSUME IInv, PopServe
    PROVE  IInv'
  <1>1. TypeOK /\ ActiveCoversWork /\ QueuesHoldQueued /\ Patience /\ RoundInv
    BY DEF IInv, RoundInv
  <1>2. PICK k, t, r, rest, back : Pops(k, t, r, rest, back)
    BY <1>1, PopServes
  <1>3. /\ t \in Tenant /\ r \in Request /\ TenantOf[r] = t /\ k \in 1..Len(active) /\ t = active[k]
        /\ active \in Seq(Tenant) /\ Len(active) \in Nat
    BY <1>1, <1>2 DEF Pops, TypeOK
  <1>4. /\ queues' \in [Tenant -> Seq(Request)] /\ QueuesHoldQueued'
        /\ status' \in [Request -> {"new", "queued", "popped", "cancelled"}]
        /\ queued_at' \in [Request -> 0..MaxTime]
        /\ \A u \in Tenant : queues'[u] # <<>> => queues[u] # <<>>
        /\ \A u \in Tenant : u # t => queues'[u] = queues[u]
    BY <1>1, <1>2, <1>3, QueueLoses DEF Pops
  <1>5. PICK h \in 0..Len(active) : h = k - 1 /\ h + 1 = k
    BY <1>3
  <1>6. PICK d : /\ d = Topped(h) /\ d \in [Tenant -> Nat] /\ \A u \in Tenant : Quantum(u) \in Nat \ {0}
                 /\ \A i \in 1..Len(active) : i > h => d[active[i]] = deficits[active[i]]
                 /\ \A i \in 1..h : queues[active[i]] # <<>> => d[active[i]] = deficits[active[i]] + Quantum(active[i])
    BY <1>1, <1>5, ToppedFacts
  <1>7. deficits' \in [Tenant -> Nat] /\ \A u \in Tenant : u # t => deficits'[u] = d[u]
    <2>1. d[t] = deficits[t] /\ deficits[t] \in Nat /\ Cost[r] \in Nat /\ Quantum(t) \in Nat
      <3>1. k > h
        BY <1>3, <1>5
      <3>2. Cost[r] \in Nat
        BY <1>3, FairQueueAssumption
      <3> QED BY <1>1, <1>3, <1>6, <3>1, <3>2 DEF TypeOK
    <2>2. Cost[r] <= deficits[t] + Quantum(t) /\ deficits' = [d EXCEPT ![t] = @ + Quantum(t) - Cost[r]]
      BY <1>2, <1>5, <1>6 DEF Pops
    <2>3. deficits[t] + Quantum(t) - Cost[r] \in Nat
      BY <2>1, <2>2
    <2> QED BY <1>3, <1>6, <2>1, <2>2, <2>3
  <1>8. passed' \in [Tenant -> Nat] /\ passed'[t] = 0
        /\ \A u \in Tenant : u # t /\ queues[u] # <<>> => passed'[u] = passed[u] + 1 /\ passed[u] \in Nat
    <2>1. passed' = [u \in Tenant |-> IF u = t \/ queues[u] = <<>> THEN 0 ELSE passed[u] + 1]
      BY <1>2 DEF Pops
    <2>2. \A u \in Tenant : passed[u] \in Nat /\ passed[u] + 1 \in Nat
      BY <1>1 DEF TypeOK
    <2> QED BY <1>3, <2>1, <2>2
  <1>9. active' \in Seq(Tenant) /\ IsInjective(active') /\ (queues'[t] # <<>> => t \in Range(active'))
    BY <1>1, <1>2, RoundAfterPop
  <1>10. \A u \in Tenant : u # t /\ queues[u] # <<>> =>
             \E j \in DOMAIN active' : active'[j] = u /\ j \in Nat /\ j <= Cardinality(Tenant) - 1
    BY <1>1, <1>2, RoundAfterPop
  <1>11. \A i \in 1..Len(active) : i > k => i - k \in DOMAIN active' /\ active'[i - k] = active[i]
    BY <1>1, <1>2, RoundAfterPop
  <1>12. RoundInv'
    <2>1. TypeOK'
      BY <1>1, <1>4, <1>7, <1>8, <1>9 DEF TypeOK, PopServe
    <2>2. \A u \in Tenant : queues'[u] # <<>> => u \in Range(active')
      BY <1>4, <1>9, <1>10 DEF Range
    <2>3. ActiveCoversWork'
      BY <1>9, <2>2 DEF ActiveCoversWork, Contains, Range
    <2> QED BY <1>4, <2>1, <2>3 DEF RoundInv
  <1>13. Patience'
    <2> SUFFICES ASSUME NEW u \in Tenant, queues'[u] # <<>> PROVE \E i, v \in Nat : Waits(u, i, v)'
      BY DEF Patience
    <2>1. CASE u = t
      <3>1. PICK j \in DOMAIN active' : active'[j] = u
        BY <1>9, <2>1 DEF Range
      <3>2. Waits(u, j, 0)' /\ j \in Nat
        BY <1>8, <1>12, <2>1, <3>1, BeginsToWait
      <3> QED BY <3>2
    <2>2. CASE u # t
      <3>1. queues[u] # <<>> /\ passed'[u] = passed[u] + 1 /\ passed[u] \in Nat /\ passed'[u] \in Nat /\ deficits'[u] = d[u]
        BY <1>4, <1>7, <1>8, <2>2
      <3>2. PICK i \in Nat, v \in Nat : Waits(u, i, v)
        BY <1>1, <3>1 DEF Patience
      <3>3. i \in 1..Len(active) /\ active[i] = u /\ i # k
        BY <1>3, <2>2, <3>2 DEF Waits
      <3>4. CASE i > k
        <4>1. i > h /\ i - k \in Nat
          BY <1>3, <1>5, <3>3, <3>4
        <4>2. i - k \in DOMAIN active' /\ active'[i - k] = u /\ deficits'[u] = deficits[u]
          BY <1>6, <1>11, <3>1, <3>3, <3>4, <4>1
        <4>3. PICK j \in DOMAIN active' : j = i - k /\ j \in Nat /\ active'[j] = u
          BY <4>1, <4>2
        <4>4. passed'[u] + j <= passed[u] + i
          BY <1>3, <3>1, <3>3, <4>3
        <4>5. Waits(u, j, v)'
          BY <3>1, <3>2, <4>2, <4>3, <4>4, StillWaits
        <4> QED BY <3>2, <4>3, <4>5
      <3>5. CASE i < k
        <4>1. i \in 1..h /\ ~Serves(i)
          <5>1. i \in 1..(k - 1)
            BY <1>3, <3>3, <3>5
          <5> QED BY <1>2, <1>5, <5>1 DEF Pops
        <4>2. deficits'[u] = deficits[u] + Quantum(u)
          BY <1>6, <3>1, <3>3, <4>1
        <4>3. PICK j \in DOMAIN active' : active'[j] = u /\ j \in Nat /\ j <= Cardinality(Tenant) - 1
          BY <1>10, <2>2, <3>1
        <4>4. passed'[u] + j - 1 <= passed[u] + Cardinality(Tenant) - 1
          <5>1. Cardinality(Tenant) \in Nat
            BY FairQueueAssumption, FS_CardinalityType
          <5> QED BY <3>1, <4>3, <5>1
        <4>5. Waits(u, j, v + 1)'
          BY <1>1, <3>1, <3>2, <4>1, <4>2, <4>3, <4>4, VisitedInVain
        <4> QED BY <3>2, <4>3, <4>5
      <3> QED BY <1>3, <3>3, <3>4, <3>5
    <2> QED BY <2>1, <2>2
  <1> QED BY <1>12, <1>13 DEF IInv, PopServe

\* A pop that goes round in vain.
LEMMA PopNoneStep ==
    ASSUME IInv, PopNone
    PROVE  IInv'
  <1>1. TypeOK /\ ActiveCoversWork /\ QueuesHoldQueued /\ Patience /\ RoundInv /\ active \in Seq(Tenant)
    BY DEF IInv, RoundInv, TypeOK
  <1>2. PICK n \in Nat : n = Len(active) /\ n \in 0..Len(active) /\ DOMAIN active = 1..n
    BY <1>1
  <1>3. /\ deficits' = Topped(n) /\ active' = Rotated(n) /\ \A i \in 1..n : ~Serves(i)
        /\ UNCHANGED <<queues, queued_at, status, arrived, retried, now, passed>>
    BY <1>2 DEF PopNone
  <1>4. /\ deficits' \in [Tenant -> Nat]
        /\ \A i \in 1..n : queues[active[i]] # <<>> => deficits'[active[i]] = deficits[active[i]] + Quantum(active[i])
    BY <1>1, <1>2, <1>3, ToppedFacts
  <1>5. active' \in Seq(Tenant) /\ IsInjective(active')
    BY <1>1, <1>2, <1>3, RotatedFacts
  <1>6. \A t \in Tenant : queues[t] # <<>> => t \in Range(active')
    <2>1. \A t \in Range(active) : queues[t] # <<>> => t \in Range(active')
      BY <1>1, <1>2, <1>3, RotatedFacts
    <2>2. \A t \in Tenant : queues[t] # <<>> => t \in Range(active)
      BY <1>1 DEF ActiveCoversWork, Contains, Range
    <2> QED BY <2>1, <2>2
  <1>7. RoundInv'
    <2>1. TypeOK'
      BY <1>1, <1>3, <1>4, <1>5 DEF TypeOK
    <2>2. ActiveCoversWork'
      BY <1>3, <1>5, <1>6 DEF ActiveCoversWork, Contains, Range
    <2>3. QueuesHoldQueued'
      BY <1>1, <1>3 DEF QueuesHoldQueued
    <2> QED BY <2>1, <2>2, <2>3 DEF RoundInv
  <1>8. Patience'
    <2> SUFFICES ASSUME NEW u \in Tenant, queues[u] # <<>> PROVE \E i, v \in Nat : Waits(u, i, v)'
      BY <1>3 DEF Patience
    <2>1. PICK i \in Nat, v \in Nat : Waits(u, i, v)
      BY <1>1 DEF Patience
    <2>2. i \in 1..n /\ active[i] = u /\ ~Serves(i) /\ deficits'[u] = deficits[u] + Quantum(u)
      BY <1>2, <1>3, <1>4, <2>1 DEF Waits
    <2>3. PICK j \in DOMAIN active' : active'[j] = u
      BY <1>6 DEF Range
    <2>4. j \in Nat /\ passed'[u] = passed[u] /\ passed[u] \in Nat /\ j <= Cardinality(Tenant) /\ Cardinality(Tenant) \in Nat
      <3>1. Len(active') <= Cardinality(Tenant) /\ Cardinality(Tenant) \in Nat
        BY <1>5, FairQueueAssumption, InjectiveFits, FS_CardinalityType
      <3>2. j \in 1..Len(active') /\ Len(active') \in Nat
        BY <1>5, <2>3
      <3> QED BY <1>1, <1>3, <3>1, <3>2 DEF TypeOK
    <2>5. passed'[u] + j - 1 <= passed[u] + Cardinality(Tenant) - 1
      BY <2>4
    <2>6. Waits(u, j, v + 1)'
      BY <1>1, <2>1, <2>2, <2>3, <2>4, <2>5, VisitedInVain
    <2> QED BY <2>1, <2>4, <2>6
  <1> QED BY <1>3, <1>7, <1>8 DEF IInv

-----------------------------------------------------------------------------
(* The theorems *)

\* Nothing is queued at the start.
LEMMA InitIInv ==
    ASSUME Init
    PROVE  IInv
  <1>1. <<>> \in Seq(Request) /\ <<>> \in Seq(Tenant) /\ Range(<<>>) = {} /\ IsInjective(<<>>) /\ 0 \in 0..MaxTime
    BY FairQueueAssumption DEF Range, IsInjective
  <1>2. TypeOK
    BY <1>1 DEF Init, TypeOK
  <1>3. \A t \in Tenant : queues[t] = <<>>
    BY DEF Init
  <1>4. ActiveCoversWork /\ Patience
    BY <1>1, <1>3 DEF Init, ActiveCoversWork, Patience
  <1>5. QueuesHoldQueued
    BY <1>1, <1>3 DEF Init, QueuesHoldQueued
  <1> QED BY <1>2, <1>4, <1>5 DEF Init, IInv, RoundInv

\* Every step keeps the invariant.
LEMMA NextIInv ==
    ASSUME IInv, [Next]_vars
    PROVE  IInv'
  <1>1. CASE Enqueue
    <2>1. arrived \in Nat /\ arrived < Len(ArrivalOrder) /\ ArrivalOrder \in Seq(Request)
      BY <1>1, FairQueueAssumption DEF Enqueue, IInv
    <2>2. ArrivalOrder[arrived + 1] \in Request /\ arrived + 1 \in Nat
      BY <2>1
    <2> QED BY <1>1, <2>2, InsertStep DEF Enqueue
  <1>2. CASE Pop
    BY <1>2, PopServeStep, PopNoneStep DEF Pop
  <1>3. CASE \E r \in Request : Retry(r)
    BY <1>3, InsertStep DEF Retry, IInv
  <1>4. CASE \E r \in Request : Cancel(r)
    BY <1>4, CancelStep
  <1>5. CASE Tick \/ UNCHANGED vars
    <2>1. UNCHANGED <<queues, deficits, active, queued_at, status, arrived, passed>> /\ now' \in 0..MaxTime
      BY <1>5, FairQueueAssumption DEF Tick, vars, IInv, RoundInv, TypeOK
    <2>2. RoundInv'
      BY <2>1 DEF IInv, RoundInv, TypeOK, ActiveCoversWork, QueuesHoldQueued
    <2>3. \A t, i, v : Waits(t, i, v)' = Waits(t, i, v)
      BY <2>1 DEF Waits, Quantum
    <2> QED BY <2>1, <2>2, <2>3 DEF IInv, Patience
  <1> QED BY <1>1, <1>2, <1>3, <1>4, <1>5 DEF Next

\* The dearest request of a tenant that has one.
LEMMA Dearest ==
    ASSUME NEW t \in Tenant, NEW r \in Request, TenantOf[r] = t, NEW C, C = {Cost[q] : q \in {p \in Request : TenantOf[p] = t}}
    PROVE  Max(C) \in Nat /\ Cost[r] <= Max(C)
  <1>1. PICK R : R = {p \in Request : TenantOf[p] = t} /\ IsFiniteSet(R) /\ R \subseteq Request
    BY FairQueueAssumption, FS_Subset
  <1>2. C = {Cost[q] : q \in R} /\ C \subseteq Nat /\ Cost[r] \in C
    BY <1>1, FairQueueAssumption
  <1>3. IsFiniteSet(C)
    <2>1. PICK f : f = [q \in R |-> Cost[q]]
      OBVIOUS
    <2>2. f \in [R -> C] /\ \A c \in C : \E q \in R : f[q] = c
      BY <1>2, <2>1
    <2>3. f \in Surjection(R, C)
      BY <2>2 DEF Surjection
    <2> QED BY <1>1, <2>3, FS_Surjection
  <1>4. PICK s : \A x \in C : s[x] \in Int /\ s[x] = 0 - x
    <2> DEFINE s == [x \in C |-> 0 - x]
    <2>1. \A x \in C : s[x] \in Int /\ s[x] = 0 - x
      <3>1. C \subseteq Nat
        BY <1>2
      <3> QED BY ONLY <3>1
    <2> QED BY <2>1
  <1>5. PICK w \in C : \A x \in C : s[w] < s[x] \/ (s[w] = s[x] /\ w <= x)
    <2>1. C \subseteq Nat /\ C # {} /\ \A x \in C : s[x] \in Int
      BY <1>2, <1>4
    <2> QED BY ONLY <1>3, <2>1, LeastScore
  <1>6. \A x \in C : w >= x
    BY <1>2, <1>4, <1>5
  <1>7. Max(C) \in C /\ \A x \in C : Max(C) >= x
    BY <1>6 DEF Max
  <1> QED BY <1>2, <1>7

\* A tenant that waits so was passed no more than BoundedBypass allows.
LEMMA PatienceBounds ==
    ASSUME IInv
    PROVE  BoundedBypass
  <1> SUFFICES ASSUME NEW t \in Tenant, queues[t] # <<>>,
                      NEW C, C = {Cost[r] : r \in {q \in Request : TenantOf[q] = t}}
               PROVE  passed[t] <= (Cardinality(Tenant) - 1) * ((Max(C) + Quantum(t) - 1) \div Quantum(t))
    BY DEF BoundedBypass
  <1>1. RoundInv /\ TypeOK /\ passed[t] \in Nat /\ active \in Seq(Tenant)
    BY DEF IInv, RoundInv, TypeOK
  <1>2. PICK i \in Nat, v \in Nat : Waits(t, i, v)
    BY DEF IInv, Patience
  <1>3. PICK c \in Nat, b \in Nat : /\ c = Cardinality(Tenant) - 1 /\ b = c * (v + 1)
                                    /\ i \in Nat \ {0} /\ passed[t] + i - 1 <= b
    <2>1. Cardinality(Tenant) \in Nat /\ Cardinality(Tenant) # 0
      BY FairQueueAssumption, FS_CardinalityType, FS_EmptySet
    <2>2. PICK c \in Nat : c = Cardinality(Tenant) - 1
      BY <2>1
    <2>3. c * (v + 1) \in Nat
      BY <2>2
    <2>4. i \in Nat \ {0}
      BY <1>1, <1>2 DEF Waits
    <2> QED BY <1>2, <2>2, <2>3, <2>4 DEF Waits
  <1>4. passed[t] <= b
    BY <1>1, <1>3
  <1>5. Quantum(t) \in Nat \ {0}
    <2>1. 0 \in 0..Len(active)
      BY <1>1
    <2> QED BY <1>1, <2>1, ToppedFacts
  <1>6. PICK x \in Nat : x = Max(C) /\ v * Quantum(t) < x
    <2>1. PICK r \in Request : TenantOf[r] = t /\ v * Quantum(t) < Cost[r] /\ Cost[r] \in Nat
      <3>1. CASE v = 0
        <4>1. NextForTenant(t) \in Request /\ NextForTenant(t) \in Range(queues[t])
          BY <1>1, NextFacts
        <4>2. TenantOf[NextForTenant(t)] = t
          BY <1>1, <4>1 DEF RoundInv, QueuesHoldQueued
        <4>3. Cost[NextForTenant(t)] \in Nat \ {0}
          BY <4>1, FairQueueAssumption
        <4>4. v * Quantum(t) = 0
          BY <1>5, <3>1
        <4>5. v * Quantum(t) < Cost[NextForTenant(t)]
          BY <4>3, <4>4
        <4> QED BY <4>1, <4>2, <4>3, <4>5
      <3>2. CASE v # 0
        BY <1>2, <3>2, FairQueueAssumption DEF Waits
      <3> QED BY <3>1, <3>2
    <2>2. Max(C) \in Nat /\ Cost[r] <= Max(C)
      BY <2>1, Dearest
    <2>3. PICK a \in Nat : a = v * Quantum(t)
      BY <1>5
    <2>4. a < Max(C)
      BY <2>1, <2>2, <2>3
    <2> QED BY <2>2, <2>3, <2>4
  <1>7. PICK w \in Nat : w = (x + Quantum(t) - 1) \div Quantum(t) /\ v + 1 <= w
    BY <1>5, <1>6, RoundedUp
  <1>8. c * (v + 1) <= c * w
    BY <1>7, TimesMore
  <1>9. PICK e \in Nat : e = c * w
    OBVIOUS
  <1>10. passed[t] <= e
    BY <1>1, <1>3, <1>4, <1>8, <1>9
  <1> QED BY <1>3, <1>6, <1>7, <1>9, <1>10

\* Who is popped was not less urgent than those of its tenant who stay.
LEMMA PopKeepsOrder ==
    ASSUME IInv, [Next]_vars, NEW r \in Request, NEW q \in Request, TenantOf[r] = TenantOf[q],
           status[r] = "queued", status'[r] = "popped", status[q] = "queued", status'[q] = "queued"
    PROVE  queued_at[r] - queued_at[q] <= (Priority[r] - Priority[q]) * priority_aging_seconds
  <1>1. TypeOK /\ QueuesHoldQueued /\ RoundInv
    BY DEF IInv, RoundInv
  <1>2. PopServe
    <2>1. ASSUME NEW p \in Request, Insert(p) PROVE FALSE
      <3>1. status'[r] \in {status[r], "queued"}
        BY <1>1, <2>1 DEF Insert, TypeOK
      <3> QED BY <3>1
    <2>2. ASSUME NEW p \in Request, Cancel(p) PROVE FALSE
      <3>1. status'[r] \in {status[r], "cancelled"}
        BY <1>1, <2>2 DEF Cancel, TypeOK
      <3> QED BY <3>1
    <2>3. ~Enqueue
      <3> SUFFICES ASSUME Enqueue PROVE FALSE
        OBVIOUS
      <3>1. arrived \in Nat /\ arrived < Len(ArrivalOrder) /\ ArrivalOrder \in Seq(Request)
        BY FairQueueAssumption DEF Enqueue, IInv
      <3>2. ArrivalOrder[arrived + 1] \in Request
        BY <3>1
      <3> QED BY <2>1, <3>2 DEF Enqueue
    <2>4. ~\E p \in Request : Retry(p)
      BY <2>1 DEF Retry
    <2>5. ~PopNone /\ ~Tick /\ ~UNCHANGED vars
      BY DEF PopNone, Tick, vars
    <2> QED BY <2>2, <2>3, <2>4, <2>5 DEF Next, Pop
  <1>3. PICK k, t, p, rest, back : Pops(k, t, p, rest, back)
    BY <1>1, <1>2, PopServes
  <1>4. p = r
    BY <1>1, <1>3 DEF Pops, TypeOK
  <1>5. t \in Tenant /\ t = TenantOf[q] /\ r = NextForTenant(t) /\ queues[t] # <<>>
    BY <1>3, <1>4 DEF Pops
  <1>6. q \in Range(queues[t])
    BY <1>1, <1>5 DEF QueuesHoldQueued
  <1>7. ~Before(q, r)
    BY <1>1, <1>5, <1>6, NextFacts
  <1>8. Urgency(q) <= Urgency(r)
    BY <1>1, <1>7, UrgencyFacts
  <1>9. PICK a \in Int, b \in Int, g \in Int, c \in Int, d \in Int :
            a = Priority[r] /\ b = Priority[q] /\ g = priority_aging_seconds /\ c = queued_at[r] /\ d = queued_at[q]
    BY <1>1, FairQueueAssumption DEF TypeOK
  <1>10. b * g - d <= a * g - c
    BY <1>8, <1>9 DEF Urgency
  <1>11. (a - b) * g = a * g - b * g
    OBVIOUS
  <1>12. PICK x \in Int, y \in Int : x = a * g /\ y = b * g
    OBVIOUS
  <1>13. c - d <= x - y
    BY <1>10, <1>12
  <1> QED BY <1>9, <1>11, <1>12, <1>13

\* After any enqueues, retries, pops and cancellations, for any tenants, weights and costs:
\* the queues hold what is queued, once and under its tenant, who is in the round once,
\* and no deficit is negative.
THEOREM RoundHolds == Spec => []RoundInv
  <1>1. Init => IInv
    BY InitIInv
  <1>2. IInv /\ [Next]_vars => IInv'
    BY NextIInv
  <1>3. IInv => RoundInv
    BY DEF IInv
  <1> QED BY <1>1, <1>2, <1>3, PTL DEF Spec

\* Deficit round robin is fair between tenants: none with work is passed by the
\* others more often than its dearest request needs visits, once per visit and tenant.
THEOREM BypassIsBounded == Spec => []BoundedBypass
  <1>1. Init => IInv
    BY InitIInv
  <1>2. IInv /\ [Next]_vars => IInv'
    BY NextIInv
  <1>3. IInv => BoundedBypass
    BY PatienceBounds
  <1> QED BY <1>1, <1>2, <1>3, PTL DEF Spec

\* Aging is fair within a tenant: nobody overtakes a request that has waited longer by
\* more than the gap of their priorities is worth.
THEOREM OvertakingIsBounded == Spec => AgingBoundsOvertaking
  <1>1. Init => IInv
    BY InitIInv
  <1>2. IInv /\ [Next]_vars => IInv'
    BY NextIInv
  <1>3. IInv /\ [Next]_vars =>
          [\A r, q \in Request :
            (/\ TenantOf[r] = TenantOf[q]
             /\ status[r] = "queued" /\ status'[r] = "popped"
             /\ status[q] = "queued" /\ status'[q] = "queued")
            => queued_at[r] - queued_at[q]
                 <= (Priority[r] - Priority[q]) * priority_aging_seconds]_vars
    BY PopKeepsOrder
  <1> QED BY <1>1, <1>2, <1>3, PTL DEF Spec, AgingBoundsOvertaking

=============================================================================
