-------------------------- MODULE PlacementProofs --------------------------
(***************************************************************************)
(* Proofs about Placement, for every fleet, every set of models and        *)
(* requests, and each of the six policies.                                 *)
(*                                                                         *)
(* The book decides on snapshots that may be old, so memory must be        *)
(* accounted for in two places: a model on a worker is in the registry's   *)
(* snapshot, or a pending handoff is charged for it.  As long as no load   *)
(* fails and no model is evicted this covers every model, because a        *)
(* handoff gives up its charge only after the registry has heard of the    *)
(* model it loaded (Tracked).  What a policy takes for free memory is then *)
(* at most what is free, and the model it places fits.                     *)
(***************************************************************************)
EXTENDS Placement, FoldFacts

-----------------------------------------------------------------------------
(* The inductive invariant *)

\* The worker snapshots of the registry, and the types of all variables.
Snap == [health : {"healthy", "suspect", "none"}, draining : BOOLEAN, resident : SUBSET Model,
         available : Int, depth : Nat, active : Nat]

Types ==
    /\ setup \in Setups
    /\ resident \in [Worker -> SUBSET Model]
    /\ queue \in [Worker -> Seq(Request)] /\ running \in [Worker -> SUBSET Request]
    /\ draining \subseteq Worker /\ gone \subseteq Worker
    /\ registry \in [Worker -> Snap]
    /\ reservations \in [Request -> Reservation \cup {None}]
    /\ handoff \in [Request -> {"new", "select", "unplaced", "reserved", "load", "loaded", "ready",
                                "accepted", "refused", "placed"}]
    /\ choosing \in Decision \cup {None}
    /\ next \in Nat
    /\ rotation \in [among : SUBSET Worker, chosen : Seq(Worker)]

\* The registry knows who left, and what memory its residents leave.
RegistryTells ==
    \A w \in Worker :
        /\ registry[w].health = "none" <=> w \in gone
        /\ registry[w].available = Total - MemoryOf(registry[w].resident)

\* Models that are on a worker or on their way to it.
Bound(w) ==
    resident[w] \cup {ModelOf(r) : r \in Reserved(w)}
      \cup {ModelOf(r) : r \in {q \in Request : handoff[q] = "select" /\ choosing.worker = w}}

\* They have room there, where nothing was disturbed.
BoundFits == \A w \in Worker \ disturbed : MemoryOf(Bound(w)) + SafetyReserve <= Total

\* As long as nothing was disturbed, the registry only misses models that a
\* pending handoff is charged for, and no handoff gives up such a charge.
Charged(w, m) == \E q \in Reserved(w) : reservations[q].model = m /\ reservations[q].memory = Memory[m]

Tracked(w) ==
    /\ registry[w].resident \subseteq resident[w]
    /\ \A m \in resident[w] : m \in registry[w].resident \/ Charged(w, m)
    /\ \A r \in Reserved(w) :
          /\ ModelOf(r) \in registry[w].resident \/ Charged(w, ModelOf(r))
          /\ handoff[r] = "loaded" => ModelOf(r) \in resident[w]
          /\ handoff[r] \in {"ready", "accepted", "refused"} => ModelOf(r) \in registry[w].resident

Tracking ==
    /\ \A r \in Request : reservations[r] # None => reservations[r].model = ModelOf(r)
    /\ \A w \in Worker \ (disturbed \cup gone) : Tracked(w)

\* Choices since the candidates changed are at consecutive places among them.
Rotation ==
    LET n == Cardinality(rotation.among) IN
    /\ Len(rotation.chosen) <= next
    /\ \A i \in DOMAIN rotation.chosen :
          n > 0 /\ Rank(rotation.among, rotation.chosen[i]) = (next - Len(rotation.chosen) + i - 1) % n

IInv == Types /\ PlacementInv /\ RegistryTells /\ BoundFits /\ Tracking /\ Rotation

-----------------------------------------------------------------------------
(* What a policy sees, and whom it chooses *)

\* The pieces of the assumptions and of Types that the leaves need.
LEMMA Basics ==
    ASSUME Types
    PROVE  /\ setup.policy \in Policies /\ setup.models \in [Request -> Model] /\ setup.known \subseteq Worker
           /\ \A r \in Request : ModelOf(r) \in Model
           /\ \A w \in Worker : registry[w] \in Snap /\ resident[w] \subseteq Model
           /\ \A w \in Worker : registry[w].resident \subseteq Model
           /\ \A m \in Model : Memory[m] \in Nat
           /\ \A r \in Request : reservations[r] # None =>
                 /\ reservations[r].worker \in Worker /\ reservations[r].model \in Model
                 /\ reservations[r].memory \in Nat
  <1>1. setup \in [policy : Policies, models : [Request -> Model],
                   known : SUBSET Worker, resident : [Worker -> SUBSET Model]]
    BY SetupsAssumption DEF Types
  <1>2. \A w \in Worker : registry[w] \in Snap /\ resident[w] \subseteq Model
    BY DEF Types
  <1>3. \A w \in Worker : registry[w].resident \subseteq Model
    BY <1>2 DEF Snap
  <1>4. \A r \in Request : reservations[r] # None => reservations[r] \in Reservation
    BY DEF Types
  <1>5. \A r \in Request : reservations[r] # None =>
                 /\ reservations[r].worker \in Worker /\ reservations[r].model \in Model
                 /\ reservations[r].memory \in Nat
    BY <1>4 DEF Reservation
  <1>6. setup.models \in [Request -> Model] /\ \A r \in Request : ModelOf(r) \in Model
    BY <1>1 DEF ModelOf
  <1> QED BY <1>1, <1>2, <1>3, <1>5, <1>6, PlacementAssumption

\* Memory of models is a number, and grows with them.
LEMMA MemoryFacts ==
    ASSUME NEW S, S \subseteq Model
    PROVE  /\ IsFiniteSet(S) /\ (\A m \in S : Memory[m] \in Nat) /\ MemoryOf(S) \in Nat
           /\ \A T : T \subseteq S => MemoryOf(T) <= MemoryOf(S)
  <1>1. IsFiniteSet(S) /\ \A m \in S : Memory[m] \in Nat
    BY PlacementAssumption, FS_Subset
  <1>2. SumFunctionOnSet(Memory, S) \in Nat
    BY <1>1, SumNat
  <1>3. \A T : T \subseteq S => SumFunctionOnSet(Memory, T) <= SumFunctionOnSet(Memory, S)
    BY <1>1, SumMonotone
  <1> QED BY <1>1, <1>2, <1>3 DEF MemoryOf

\* Pending handoffs change the depth and the memory of a snapshot only.
LEMMA EffectiveFacts ==
    ASSUME Types, NEW w \in Worker
    PROVE  /\ IsFiniteSet(Reserved(w)) /\ Claimed(w) \in Nat
           /\ Effective(w).health = registry[w].health /\ Effective(w).resident = registry[w].resident
           /\ Effective(w).depth \in Nat /\ Effective(w).active \in Nat /\ Effective(w).available \in Int
           /\ Effective(w).available = IF registry[w].available > Claimed(w) THEN registry[w].available - Claimed(w) ELSE 0
  <1>1. IsFiniteSet(Reserved(w)) /\ Cardinality(Reserved(w)) \in Nat
    <2>1. Reserved(w) \subseteq Request
      BY DEF Reserved
    <2> QED BY <2>1, PlacementAssumption, FS_Subset, FS_CardinalityType
  <1>2. Claimed(w) \in Nat
    <2> DEFINE c == [r \in Reserved(w) |-> reservations[r].memory]
    <2>1. \A r \in Reserved(w) : c[r] \in Nat
      BY Basics DEF Reserved
    <2>2. DOMAIN c = Reserved(w) /\ Claimed(w) = SumFunctionOnSet(c, DOMAIN c)
      BY DEF Claimed, SumFunction
    <2> HIDE DEF c
    <2> QED BY <1>1, <2>1, <2>2, SumNat
  <1>3. /\ registry[w] \in Snap
        /\ registry[w].depth \in Nat /\ registry[w].active \in Nat /\ registry[w].available \in Int
    <2>1. registry[w] \in Snap
      BY Basics
    <2> QED BY <2>1 DEF Snap
  <1> QED BY <1>1, <1>2, <1>3 DEF Effective, Snap

\* A least score is the score of a candidate.
LEMMA LeastIsCandidate ==
    ASSUME NEW S, S \subseteq Worker, S # {}, NEW score, DOMAIN score = S, \A w \in S : score[w] \in Int
    PROVE  Least(score) \in S
  <1>1. IsFiniteSet(S) /\ S \subseteq Nat
    BY PlacementAssumption, FS_Subset
  <1>2. \E w \in S : \A v \in S : score[w] < score[v] \/ (score[w] = score[v] /\ w <= v)
    BY <1>1, LeastScore
  <1> QED BY <1>2 DEF Least

\* Candidates are registered workers.
LEMMA Candidates ==
    ASSUME Types, NEW r \in Request
    PROVE  /\ FilterResident(r) \subseteq Registered /\ FilterMemory(r) \subseteq Registered
           /\ Feasible(r) \subseteq FilterMemory(r) /\ Eligible(r) \subseteq Registered /\ Registered \subseteq Worker
           /\ setup.policy = "round_robin" => Eligible(r) = FilterResident(r)
  <1>1. /\ FilterResident(r) \subseteq Registered /\ FilterMemory(r) \subseteq Registered
        /\ Feasible(r) \subseteq FilterMemory(r) /\ Registered \subseteq Worker
    BY DEF FilterResident, FilterMemory, Feasible, Registered
  <1>2. Eligible(r) \in {FilterResident(r), FilterMemory(r), Feasible(r)}
    BY DEF Eligible
  <1> QED BY <1>1, <1>2 DEF Eligible

\* Every policy chooses one of its candidates; round robin the next one.
LEMMA ChoosesCandidate ==
    ASSUME Types, NEW r \in Request, Eligible(r) # {}
    PROVE  /\ Chosen(r) \in Eligible(r)
           /\ setup.policy = "round_robin" =>
                 /\ Cardinality(Eligible(r)) \in Nat \ {0}
                 /\ Rank(Eligible(r), Chosen(r)) = next % Cardinality(Eligible(r))
  <1> DEFINE F == FilterMemory(r)
             G == FilterResident(r)
             H == Feasible(r)
  <1>1. F \subseteq Worker /\ G \subseteq Worker /\ H \subseteq Worker /\ H \subseteq F
    BY Candidates
  <1>2. \A w \in Worker : /\ Effective(w).depth \in Nat /\ Effective(w).active \in Nat /\ Effective(w).available \in Int
    BY EffectiveFacts
  <1>3. /\ MaxConcurrency \in Nat /\ Total \in Nat /\ SafetyReserve \in Nat /\ ColdLoadPenalty \in Nat
        /\ LoadSeconds \in Nat /\ SpeedUnit \in Nat /\ Memory[ModelOf(r)] \in Nat /\ Tokens[r] \in Nat
        /\ \A w \in Worker : SpeedUnit \div Speed[w] \in Int
        /\ Cardinality(Request) \in Nat
    <2>1. \A w \in Worker : SpeedUnit \div Speed[w] \in Int
      <3>1. \A w \in Worker : Speed[w] \in Nat /\ Speed[w] > 0 /\ SpeedUnit \in Nat
        BY PlacementAssumption
      <3> QED BY <3>1
    <2>2. Cardinality(Request) \in Nat
      BY PlacementAssumption, FS_CardinalityType
    <2> QED BY <2>1, <2>2, PlacementAssumption, Basics
  <1>4. CASE setup.policy = "round_robin"
    <2>1. Eligible(r) = G /\ Chosen(r) = CHOOSE w \in G : Rank(G, w) = next % Cardinality(G)
      BY <1>4 DEF Eligible, Chosen, RoundRobin, Rank
    <2>2. IsFiniteSet(G) /\ G \subseteq Nat /\ G # {}
      BY <1>1, <2>1, PlacementAssumption, FS_Subset
    <2>3. Cardinality(G) \in Nat /\ Cardinality(G) # 0
      BY <2>2, FS_CardinalityType, FS_EmptySet
    <2>4. next % Cardinality(G) \in Nat /\ next % Cardinality(G) < Cardinality(G)
      <3>1. next \in Nat
        BY DEF Types
      <3> QED BY <2>3, <3>1
    <2> HIDE DEF G
    <2>5. \E w \in G : Rank(G, w) = next % Cardinality(G)
      BY <2>2, <2>4, RankTaken
    <2> QED BY <2>1, <2>3, <2>5
  <1>5. CASE setup.policy = "least_queue_depth"
    <2> DEFINE score == [w \in G |-> Effective(w).depth]
    <2>1. Eligible(r) = G /\ Chosen(r) = Least(score)
      BY <1>5 DEF Eligible, Chosen, LeastQueueDepth
    <2>2. DOMAIN score = G /\ \A w \in G : score[w] \in Int
      BY <1>1, <1>2
    <2> HIDE DEF G, score
    <2> QED BY <1>1, <1>5, <2>1, <2>2, LeastIsCandidate
  <1>6. CASE setup.policy = "model_residency_aware"
    <2> DEFINE cold(w) == IF Cold(Effective(w), r) THEN 2 * Cardinality(Request) + 1 ELSE 0
               score == [w \in F |-> cold(w) + Effective(w).depth]
    <2>1. Eligible(r) = F /\ Chosen(r) = Least(score)
      BY <1>6 DEF Eligible, Chosen, ModelResidencyAware
    <2>2. \A w \in F : cold(w) \in Int
      BY <1>3
    <2> HIDE DEF cold
    <2>3. DOMAIN score = F /\ \A w \in F : score[w] \in Int
      BY <1>1, <1>2, <2>2
    <2> HIDE DEF F, score
    <2> QED BY <1>1, <1>6, <2>1, <2>3, LeastIsCandidate
  <1>7. CASE setup.policy = "memory_aware_least_loaded"
    <2> DEFINE used(w) == Total - Effective(w).available + SafetyReserve
                            + (IF Cold(Effective(w), r) THEN Memory[ModelOf(r)] ELSE 0)
               share(w) == IF w \in setup.known THEN 2 * Min({used(w), Total}) ELSE Total
               score == [w \in F |-> share(w) * MaxConcurrency + 2 * Effective(w).active * Total
                                       + 2 * Effective(w).depth * Total * MaxConcurrency]
    <2>1. Eligible(r) = F /\ Chosen(r) = Least(score)
      BY <1>7 DEF Eligible, Chosen, MemoryAwareLeastLoaded
    <2>2. \A w \in F : used(w) \in Int
      BY <1>1, <1>2, <1>3
    <2> HIDE DEF used
    <2>3. \A w \in F : Min({used(w), Total}) \in Int
      <3>1. \A a, b \in Int : Min({a, b}) \in Int
        BY DEF Min
      <3> QED BY <1>3, <2>2, <3>1
    <2>4. \A w \in F : share(w) \in Int
      BY <1>3, <2>3
    <2> HIDE DEF share
    <2>5. DOMAIN score = F /\ \A w \in F : score[w] \in Int
      BY <1>1, <1>2, <1>3, <2>4
    <2> HIDE DEF F, score
    <2> QED BY <1>1, <1>7, <2>1, <2>5, LeastIsCandidate
  <1>8. CASE setup.policy = "estimated_completion_time"
    <2> DEFINE score == [w \in H |-> EstimatedSeconds(w, r)]
    <2>1. Eligible(r) = H /\ Chosen(r) = Least(score)
      BY <1>8 DEF Eligible, Chosen, EstimatedCompletionTime
    <2>2. \A w \in Worker : EstimatedSeconds(w, r) \in Int
      <3> SUFFICES ASSUME NEW w \in Worker PROVE EstimatedSeconds(w, r) \in Int
        OBVIOUS
      <3> DEFINE load == IF Cold(Effective(w), r) THEN LoadSeconds * 4 * MaxConcurrency * SpeedUnit ELSE 0
                 work == 4 * Effective(w).depth + 4 * MaxConcurrency + Effective(w).active
      <3>1. load \in Int /\ work \in Int
        BY <1>2, <1>3
      <3>2. EstimatedSeconds(w, r) = Tokens[r] * work * (SpeedUnit \div Speed[w]) + load
        BY DEF EstimatedSeconds
      <3> HIDE DEF load, work
      <3> QED BY <1>3, <3>1, <3>2
    <2>3. DOMAIN score = H /\ \A w \in H : score[w] \in Int
      BY <1>1, <2>2
    <2> HIDE DEF H, score
    <2> QED BY <1>1, <1>8, <2>1, <2>3, LeastIsCandidate
  <1>9. CASE setup.policy = "demand_aware_placement"
    <2> DEFINE m == ModelOf(r)
               wanted == (Demand(m) + RequestsPerReplica) \div RequestsPerReplica
               scaleOut == Cardinality({w \in F : m \in Effective(w).resident}) < Min({Cardinality(F), wanted})
               penalty(w) == IF ~Cold(Effective(w), r) THEN 0
                             ELSE MaxConcurrency * (IF scaleOut THEN -1 ELSE ColdLoadPenalty)
               score == [w \in F |-> Effective(w).depth * MaxConcurrency + Effective(w).active + penalty(w)]
    <2>1. Eligible(r) = F /\ Chosen(r) = Least(score)
      BY <1>9 DEF Eligible, Chosen, DemandAware
    <2> HIDE DEF scaleOut
    <2>2. \A w \in F : penalty(w) \in Int
      BY <1>3
    <2> HIDE DEF penalty
    <2>3. DOMAIN score = F /\ \A w \in F : score[w] \in Int
      BY <1>1, <1>2, <1>3, <2>2
    <2> HIDE DEF F, score
    <2> QED BY <1>1, <1>9, <2>1, <2>3, LeastIsCandidate
  <1>10. setup.policy \in Policies
    BY Basics
  <1> QED BY <1>4, <1>5, <1>6, <1>7, <1>8, <1>9, <1>10 DEF Policies

-----------------------------------------------------------------------------
(* Steps that leave the book alone *)

\* The stages in which a handoff holds a reservation.
Holding == {"reserved", "load", "loaded", "ready", "accepted", "refused"}

\* Bound for a worker are models.
LEMMA BoundModels ==
    ASSUME Types, NEW w \in Worker
    PROVE  Bound(w) \subseteq Model /\ MemoryOf(Bound(w)) \in Nat
  <1>1. Bound(w) \subseteq Model
    BY Basics DEF Bound, Reserved
  <1> QED BY <1>1, MemoryFacts

\* What the properties ask of a handoff that moves from one stage to the next.
Arrived(q) ==
    /\ handoff[q] = "loaded" => ModelOf(q) \in resident[Target(q)]
    /\ handoff[q] \in {"ready", "accepted", "refused"} => ModelOf(q) \in registry[Target(q)].resident

\* Workers, handoffs and the registry may go on, as long as residents of
\* undisturbed workers grow by reserved models only and the registry hears of
\* residents only.
LEMMA GoesOn ==
    ASSUME IInv, Types', RegistryTells',
           UNCHANGED <<setup, reservations, choosing, next, rotation>>,
           disturbed \subseteq disturbed', gone \subseteq gone',
           \A q \in Request : /\ handoff'[q] \in Holding <=> handoff[q] \in Holding
                              /\ handoff'[q] = "select" <=> handoff[q] = "select",
           \A w \in Worker : MemoryOf(resident'[w]) + SafetyReserve <= Total,
           \A w \in Worker \ disturbed' : resident'[w] \subseteq resident[w] \cup {ModelOf(q) : q \in Reserved(w)},
           \A w \in Worker \ (disturbed' \cup gone') :
              /\ resident[w] \subseteq resident'[w]
              /\ registry[w].resident \subseteq registry'[w].resident
              /\ registry'[w].resident \subseteq resident'[w],
           \A q \in Request :
              reservations[q] # None /\ Target(q) \notin disturbed' \cup gone' /\ handoff'[q] # handoff[q] => Arrived(q)'
    PROVE  IInv'
  <1>1. Types /\ PlacementInv /\ BoundFits /\ Tracking /\ Rotation
    BY DEF IInv
  <1>2. /\ \A w \in Worker : Reserved(w)' = Reserved(w)
        /\ \A q \in Request : ModelOf(q)' = ModelOf(q) /\ Target(q)' = Target(q)
        /\ \A w \in Worker : \A m \in Model : Charged(w, m)' <=> Charged(w, m)
    BY DEF Reserved, ModelOf, Target, Charged
  <1>3. PlacementInv'
    BY <1>1 DEF PlacementInv, Holding
  <1>4. Rotation'
    BY <1>1 DEF Rotation
  <1>5. BoundFits'
    <2> SUFFICES ASSUME NEW w \in Worker \ disturbed' PROVE MemoryOf(Bound(w)') + SafetyReserve <= Total
      BY DEF BoundFits
    <2>1. Bound(w)' \subseteq Bound(w)
      <3> DEFINE chosen == {q \in Request : handoff[q] = "select" /\ choosing.worker = w}
      <3>1. chosen' = chosen
        OBVIOUS
      <3>2. {ModelOf(q) : q \in chosen}' = {ModelOf(q) : q \in chosen}
        BY <1>2, <3>1
      <3>3. {ModelOf(q) : q \in Reserved(w)}' = {ModelOf(q) : q \in Reserved(w)}
        BY <1>2 DEF Reserved
      <3> QED BY <3>2, <3>3 DEF Bound
    <2>2. MemoryOf(Bound(w)) + SafetyReserve <= Total
      BY <1>1 DEF BoundFits
    <2>3. MemoryOf(Bound(w)') \in Nat /\ MemoryOf(Bound(w)) \in Nat /\ MemoryOf(Bound(w)') <= MemoryOf(Bound(w))
      <3>1. Bound(w) \subseteq Model
        BY <1>1, BoundModels
      <3>2. Bound(w)' \subseteq Model
        BY <2>1, <3>1
      <3> QED BY <2>1, <3>1, <3>2, MemoryFacts
    <2> QED BY <2>2, <2>3, PlacementAssumption
  <1>6. Tracking'
    <2>1. \A q \in Request : reservations'[q] # None => reservations'[q].model = ModelOf(q)'
      BY <1>1, <1>2 DEF Tracking
    <2>2. ASSUME NEW w \in Worker \ (disturbed' \cup gone') PROVE Tracked(w)'
      <3>1. Tracked(w)
        BY <1>1 DEF Tracking
      <3>2. registry'[w].resident \subseteq resident'[w]
        OBVIOUS
      <3>3. \A q \in Reserved(w) : /\ q \in Request /\ reservations[q] # None /\ Target(q) = w
                                   /\ ModelOf(q) \in Model
                                   /\ ModelOf(q) \in registry'[w].resident \/ Charged(w, ModelOf(q))'
        <4>1. \A q \in Reserved(w) : q \in Request /\ reservations[q] # None /\ Target(q) = w
          BY DEF Reserved, Target
        <4>2. \A q \in Reserved(w) : ModelOf(q) \in Model
          BY <1>1, <4>1, Basics
        <4>3. \A q \in Reserved(w) : ModelOf(q) \in registry[w].resident \/ Charged(w, ModelOf(q))
          BY <3>1 DEF Tracked
        <4>4. \A m \in Model : Charged(w, m)' <=> Charged(w, m)
          BY <1>2
        <4>5. \A q \in Reserved(w) : Charged(w, ModelOf(q))' <=> Charged(w, ModelOf(q))
          BY DEF Charged, Reserved, ModelOf
        <4> QED BY <4>1, <4>2, <4>3, <4>5
      <3>4. \A m \in resident'[w] : m \in registry'[w].resident \/ Charged(w, m)'
        <4> SUFFICES ASSUME NEW m \in resident'[w], m \notin registry'[w].resident PROVE Charged(w, m)'
          OBVIOUS
        <4>1. m \in Model
          BY DEF Types
        <4>2. CASE m \in resident[w]
          BY <1>2, <3>1, <4>1, <4>2 DEF Tracked
        <4>3. CASE m \notin resident[w]
          <5>1. PICK q \in Reserved(w) : m = ModelOf(q)
            BY <4>3
          <5>2. Charged(w, m)
            BY <3>1, <5>1 DEF Tracked
          <5> QED BY <1>2, <4>1, <5>2
        <4> QED BY <4>2, <4>3
      <3>5. \A q \in Reserved(w) :
               /\ handoff'[q] = "loaded" => ModelOf(q) \in resident'[w]
               /\ handoff'[q] \in {"ready", "accepted", "refused"} => ModelOf(q) \in registry'[w].resident
        <4> SUFFICES ASSUME NEW q \in Reserved(w)
                     PROVE  /\ handoff'[q] = "loaded" => ModelOf(q) \in resident'[w]
                            /\ handoff'[q] \in {"ready", "accepted", "refused"} => ModelOf(q) \in registry'[w].resident
          OBVIOUS
        <4>1. CASE handoff'[q] = handoff[q]
          BY <3>1, <4>1 DEF Tracked
        <4>2. CASE handoff'[q] # handoff[q]
          <5>1. Arrived(q)'
            BY <3>3, <4>2
          <5> QED BY <1>2, <3>3, <5>1 DEF Arrived
        <4> QED BY <4>1, <4>2
      <3>6. \A q \in Reserved(w)' : q \in Reserved(w) /\ ModelOf(q)' = ModelOf(q)
        BY <1>2, <3>3
      <3>7. \A q \in Reserved(w)' : ModelOf(q)' \in registry'[w].resident \/ Charged(w, ModelOf(q))'
        BY <3>3, <3>6
      <3> QED BY <3>2, <3>4, <3>5, <3>6, <3>7 DEF Tracked
    <2> QED BY <2>1, <2>2 DEF Tracking
  <1> QED BY <1>3, <1>4, <1>5, <1>6 DEF IInv

\* What a worker tells the registry is a snapshot.
LEMMA SnapshotFacts ==
    ASSUME Types, NEW w \in Worker
    PROVE  /\ Snapshot(w) \in Snap /\ Snapshot(w).health = "healthy" /\ Snapshot(w).resident = resident[w]
           /\ Snapshot(w).available = Total - MemoryOf(resident[w])
  <1>1. resident[w] \subseteq Model /\ running[w] \subseteq Request /\ queue[w] \in Seq(Request)
    BY DEF Types
  <1>2. Cardinality(running[w]) \in Nat /\ Len(queue[w]) \in Nat
    BY <1>1, PlacementAssumption, FS_Subset, FS_CardinalityType
  <1>3. Total - MemoryOf(resident[w]) \in Int
    BY <1>1, MemoryFacts, PlacementAssumption
  <1> QED BY <1>1, <1>2, <1>3 DEF Snapshot, Snap

\* The parts of the invariant that a step without their variables keeps.
LEMMA Standing ==
    ASSUME IInv
    PROVE  /\ \A w \in Worker : MemoryOf(resident[w]) + SafetyReserve <= Total
           /\ \A w \in Worker \ (disturbed \cup gone) : registry[w].resident \subseteq resident[w]
           /\ \A r \in Request : handoff[r] \in Holding => reservations[r] # None /\ Target(r) \in Worker /\ r \in Reserved(Target(r))
           /\ \A r \in Request : handoff[r] \in Holding /\ Target(r) \notin disturbed \cup gone => Arrived(r)
  <1>1. Types /\ PlacementInv /\ Tracking
    BY DEF IInv
  <1>2. \A w \in Worker \ (disturbed \cup gone) : Tracked(w)
    BY <1>1 DEF Tracking
  <1>3. \A r \in Request : handoff[r] \in Holding => reservations[r] # None
    BY <1>1 DEF PlacementInv, Holding
  <1>4. \A r \in Request : handoff[r] \in Holding => Target(r) \in Worker /\ r \in Reserved(Target(r))
    BY <1>1, <1>3, Basics DEF Target, Reserved
  <1>5. \A r \in Request : handoff[r] \in Holding /\ Target(r) \notin disturbed \cup gone => Arrived(r)
    BY <1>2, <1>4 DEF Arrived, Tracked
  <1> QED BY <1>1, <1>2, <1>3, <1>4, <1>5 DEF PlacementInv, Tracked

\* A handoff that moves, and nothing else.
LEMMA HandoffMoves ==
    ASSUME IInv, NEW r \in Request, NEW pc \in {"load", "loaded", "ready", "accepted", "refused", "unplaced"},
           Goto(r, pc), handoff[r] # "select", handoff[r] \in Holding <=> pc \in Holding,
           UNCHANGED <<setup, resident, running, draining, gone, registry, reservations, choosing, next, rotation>>,
           queue' \in [Worker -> Seq(Request)], disturbed \subseteq disturbed',
           reservations[r] # None /\ Target(r) \notin disturbed' \cup gone =>
              /\ pc = "loaded" => ModelOf(r) \in resident[Target(r)]
              /\ pc \in {"ready", "accepted", "refused"} => ModelOf(r) \in registry[Target(r)].resident
    PROVE  IInv'
  <1>1. Types /\ RegistryTells
    BY DEF IInv
  <1>2. handoff'[r] = pc /\ \A q \in Request : q # r => handoff'[q] = handoff[q]
    BY <1>1 DEF Goto, Types
  <1>3. Types'
    BY <1>1 DEF Types, Goto
  <1>4. RegistryTells'
    BY <1>1 DEF RegistryTells
  <1>5. \A q \in Request : /\ handoff'[q] \in Holding <=> handoff[q] \in Holding
                           /\ handoff'[q] = "select" <=> handoff[q] = "select"
    BY <1>2
  <1>6. \A q \in Request :
              reservations[q] # None /\ Target(q) \notin disturbed' \cup gone' /\ handoff'[q] # handoff[q] => Arrived(q)'
    BY <1>2 DEF Arrived, Target, ModelOf
  <1>7. /\ \A w \in Worker : MemoryOf(resident[w]) + SafetyReserve <= Total
        /\ \A w \in Worker \ (disturbed \cup gone) : registry[w].resident \subseteq resident[w]
    BY Standing
  <1> QED BY <1>3, <1>4, <1>5, <1>6, <1>7, GoesOn

\* No candidate: the request is not placed.
LEMMA SelectRaisesStep ==
    ASSUME IInv, NEW r \in Request, SelectRaises(r)
    PROVE  IInv'
  <1>1. Types /\ PlacementInv
    BY DEF IInv
  <1>2. reservations[r] = None
    BY <1>1 DEF SelectRaises, PlacementInv
  <1> QED BY <1>1, <1>2, HandoffMoves DEF SelectRaises, Types, Holding, workerVars, bookVars

\* A refusal here means that the worker is gone.
LEMMA CheckStep ==
    ASSUME IInv, NEW r \in Request, Check(r)
    PROVE  IInv'
  <1> DEFINE pc == IF Target(r) \notin Registered THEN "refused"
                   ELSE IF ModelOf(r) \in registry[Target(r)].resident THEN "ready" ELSE "load"
  <1>1. Types /\ RegistryTells /\ handoff[r] = "reserved"
    BY DEF IInv, Check
  <1>2. Goto(r, pc) /\ pc \in {"load", "ready", "refused"}
    BY DEF Check
  <1>3. Target(r) \in Worker
    BY <1>1, Standing DEF Holding
  <1>4. pc \in {"ready", "refused"} /\ Target(r) \notin gone => ModelOf(r) \in registry[Target(r)].resident
    BY <1>1, <1>3 DEF RegistryTells, Registered
  <1> HIDE DEF pc
  <1> QED BY <1>1, <1>2, <1>4, HandoffMoves DEF Check, Types, Holding, workerVars, bookVars

\* A failed load disturbs the worker.
LEMMA LoadRaisesStep ==
    ASSUME IInv, NEW r \in Request, LoadRaises(r)
    PROVE  IInv'
  <1>1. Types /\ handoff[r] = "load" /\ Goto(r, "refused") /\ Target(r) \in disturbed'
    BY DEF IInv, LoadRaises
  <1> QED BY <1>1, HandoffMoves DEF LoadRaises, Types, Holding, workerVars, bookVars

\* The worker takes the request, or has lost the model or stopped meanwhile.
LEMMA EnqueueStep ==
    ASSUME IInv, NEW r \in Request, Enqueue(r)
    PROVE  IInv'
  <1> DEFINE ok == Target(r) \notin gone \cup draining /\ ModelOf(r) \in resident[Target(r)]
             pc == IF ok THEN "accepted" ELSE "refused"
  <1>1. Types /\ handoff[r] = "ready"
    BY DEF IInv, Enqueue
  <1>2. Goto(r, pc) /\ pc \in {"accepted", "refused"}
    BY DEF Enqueue
  <1>3. Target(r) \in Worker /\ (Target(r) \notin disturbed \cup gone => Arrived(r))
    BY <1>1, Standing DEF Holding
  <1>4. Target(r) \notin disturbed \cup gone => ModelOf(r) \in registry[Target(r)].resident
    BY <1>1, <1>3 DEF Arrived
  <1>5. queue' \in [Worker -> Seq(Request)]
    <2>1. queue' = queue \/ queue' = [queue EXCEPT ![Target(r)] = Append(@, r)]
      BY DEF Enqueue
    <2>2. queue[Target(r)] \in Seq(Request)
      BY <1>1, <1>3 DEF Types
    <2>3. Append(queue[Target(r)], r) \in Seq(Request)
      BY <2>2
    <2> QED BY <1>1, <2>1, <2>3 DEF Types
  <1> HIDE DEF pc
  <1> QED BY <1>1, <1>2, <1>4, <1>5, HandoffMoves DEF Enqueue, Holding, bookVars

\* A load adds a model that is bound for the worker already.
LEMMA LoadStep ==
    ASSUME IInv, NEW r \in Request, Load(r)
    PROVE  IInv'
  <1>1. PICK w \in Worker : w = Target(r)
    BY Standing DEF Load, Holding
  <1>2. /\ Types /\ RegistryTells /\ handoff[r] = "load" /\ r \in Reserved(w)
        /\ ModelOf(r) \in Model
    BY <1>1, Standing, Basics DEF IInv, Load, Holding
  <1>3. /\ resident'[w] = resident[w] \cup {ModelOf(r)} /\ \A v \in Worker : v # w => resident'[v] = resident[v]
        /\ MemoryOf(resident'[w]) + SafetyReserve <= Total
    BY <1>1, <1>2 DEF Load, Types
  <1>4. handoff'[r] = "loaded" /\ \A q \in Request : q # r => handoff'[q] = handoff[q]
    BY <1>2 DEF Load, Goto, Types
  <1>5. Types'
    <2>1. resident' \in [Worker -> SUBSET Model]
      BY <1>1, <1>2 DEF Load, Types
    <2>2. handoff' \in [Request -> {"new", "select", "unplaced", "reserved", "load", "loaded", "ready",
                                    "accepted", "refused", "placed"}]
      BY <1>2 DEF Load, Goto, Types
    <2> QED BY <1>2, <2>1, <2>2 DEF Load, Types, bookVars
  <1>6. RegistryTells'
    BY <1>2 DEF RegistryTells, Load
  <1>7. /\ \A v \in Worker : MemoryOf(resident[v]) + SafetyReserve <= Total
        /\ \A v \in Worker \ (disturbed \cup gone) : registry[v].resident \subseteq resident[v]
    BY Standing
  <1>8. UNCHANGED <<setup, reservations, choosing, next, rotation, registry, gone, disturbed>>
    BY DEF Load, bookVars
  <1>9. \A q \in Request : /\ handoff'[q] \in Holding <=> handoff[q] \in Holding
                           /\ handoff'[q] = "select" <=> handoff[q] = "select"
    BY <1>2, <1>4 DEF Holding
  <1>10. \A v \in Worker : MemoryOf(resident'[v]) + SafetyReserve <= Total
    BY <1>3, <1>7
  <1>11. \A v \in Worker : /\ resident'[v] \subseteq resident[v] \cup {ModelOf(q) : q \in Reserved(v)}
                           /\ resident[v] \subseteq resident'[v]
    BY <1>2, <1>3
  <1>12. \A q \in Request : handoff'[q] # handoff[q] => Arrived(q)'
    BY <1>1, <1>3, <1>4, <1>8 DEF Arrived, Target, ModelOf
  <1> QED BY <1>5, <1>6, <1>7, <1>8, <1>9, <1>10, <1>11, <1>12, GoesOn

\* A heartbeat tells what is resident.
LEMMA HeardStep ==
    ASSUME IInv, Types', NEW w \in Worker, w \notin gone, registry' = [registry EXCEPT ![w] = Snapshot(w)],
           UNCHANGED <<setup, workerVars, bookVars, disturbed>>,
           \A q \in Request : \/ handoff'[q] = handoff[q]
                              \/ handoff[q] = "loaded" /\ handoff'[q] = "ready" /\ Target(q) = w
    PROVE  IInv'
  <1>1. Types /\ RegistryTells
    BY DEF IInv
  <1>2. registry'[w] = Snapshot(w) /\ \A v \in Worker : v # w => registry'[v] = registry[v]
    BY <1>1 DEF Types
  <1>3. UNCHANGED <<setup, reservations, choosing, next, rotation, resident, gone, disturbed>>
    BY DEF workerVars, bookVars
  <1>4. registry'[w].health = "healthy" /\ registry'[w].resident = resident[w]
        /\ registry'[w].available = Total - MemoryOf(resident[w])
    BY <1>1, <1>2, SnapshotFacts
  <1>5. RegistryTells'
    <2> SUFFICES ASSUME NEW v \in Worker
                 PROVE  /\ registry'[v].health = "none" <=> v \in gone
                        /\ registry'[v].available = Total - MemoryOf(registry'[v].resident)
      BY <1>3 DEF RegistryTells
    <2>1. CASE v = w
      BY <1>4, <2>1
    <2>2. CASE v # w
      BY <1>1, <1>2, <2>2 DEF RegistryTells
    <2> QED BY <2>1, <2>2
  <1>6. /\ \A v \in Worker : MemoryOf(resident[v]) + SafetyReserve <= Total
        /\ \A v \in Worker \ (disturbed \cup gone) : registry[v].resident \subseteq resident[v]
    BY Standing
  <1>7. \A v \in Worker \ (disturbed \cup gone) :
              /\ registry[v].resident \subseteq registry'[v].resident
              /\ registry'[v].resident \subseteq resident[v]
    BY <1>2, <1>4, <1>6
  <1>8. \A q \in Request : /\ handoff'[q] \in Holding <=> handoff[q] \in Holding
                           /\ handoff'[q] = "select" <=> handoff[q] = "select"
    BY DEF Holding
  <1>9. ASSUME NEW q \in Request, Target(q) \notin disturbed \cup gone, handoff'[q] # handoff[q]
        PROVE  Arrived(q)'
    <2>1. handoff[q] = "loaded" /\ handoff'[q] = "ready" /\ Target(q) = w
      BY <1>9
    <2>2. ModelOf(q) \in resident[w]
      BY <1>9, <2>1, Standing DEF Arrived, Holding
    <2>3. Target(q)' = w /\ ModelOf(q)' = ModelOf(q)
      BY <1>3, <2>1 DEF Target, ModelOf
    <2> QED BY <1>4, <2>1, <2>2, <2>3 DEF Arrived
  <1> QED BY <1>3, <1>5, <1>6, <1>7, <1>8, <1>9, GoesOn

\* The heartbeat of a dispatch after its load, or its failure.
LEMMA PublishStep ==
    ASSUME IInv, NEW r \in Request, Publish(r)
    PROVE  IInv'
  <1>1. PICK w \in Worker : w = Target(r)
    BY Standing DEF Publish, Holding
  <1>2. Types /\ handoff[r] = "loaded"
    BY DEF IInv, Publish
  <1>3. ASSUME w \notin gone, registry' = [registry EXCEPT ![w] = Snapshot(w)], Goto(r, "ready"),
               UNCHANGED <<events, disturbed>>
        PROVE  IInv'
    <2>1. handoff'[r] = "ready" /\ \A q \in Request : q # r => handoff'[q] = handoff[q]
      BY <1>2, <1>3 DEF Goto, Types
    <2>2. UNCHANGED <<setup, workerVars, bookVars, disturbed>>
      BY <1>3 DEF Publish
    <2>3. Types'
      <3>1. Snapshot(w) \in Snap
        BY <1>2, SnapshotFacts
      <3>2. registry' \in [Worker -> Snap]
        BY <1>2, <1>3, <3>1 DEF Types
      <3>3. handoff' \in [Request -> {"new", "select", "unplaced", "reserved", "load", "loaded", "ready",
                                      "accepted", "refused", "placed"}]
        BY <1>2, <1>3 DEF Goto, Types
      <3> QED BY <1>2, <2>2, <3>2, <3>3 DEF Types, workerVars, bookVars
    <2>4. \A q \in Request : \/ handoff'[q] = handoff[q]
                             \/ handoff[q] = "loaded" /\ handoff'[q] = "ready" /\ Target(q) = w
      BY <1>1, <1>2, <2>1
    <2> QED BY <1>3, <2>2, <2>3, <2>4, HeardStep
  <1>4. ASSUME Goto(r, "refused"), w \in disturbed', disturbed \subseteq disturbed', UNCHANGED registry
        PROVE  IInv'
    BY <1>1, <1>2, <1>4, HandoffMoves DEF Publish, Types, Holding, workerVars, bookVars
  <1> QED BY <1>1, <1>3, <1>4 DEF Publish

\* Heartbeats of the workers themselves.
LEMMA HeartbeatStep ==
    ASSUME IInv, NEW w \in Worker, Heartbeat(w)
    PROVE  IInv'
  <1>1. Types
    BY DEF IInv
  <1>2. Types'
    <2>1. Snapshot(w) \in Snap
      BY <1>1, SnapshotFacts
    <2>2. registry' \in [Worker -> Snap]
      BY <1>1, <2>1 DEF Heartbeat, Types
    <2> QED BY <1>1, <2>2 DEF Heartbeat, Types, workerVars, bookVars
  <1> QED BY <1>2, HeardStep DEF Heartbeat

\* Workers run what they have, or are told to drain.
LEMMA WorkStep ==
    ASSUME IInv, (\E w \in Worker : Start(w) \/ Finish(w) \/ Drain(w)) \/ UNCHANGED vars
    PROVE  IInv'
  <1>1. Types /\ RegistryTells
    BY DEF IInv
  <1>2. UNCHANGED <<setup, reservations, choosing, next, rotation, resident, gone, registry, handoff, disturbed>>
    BY DEF Start, Finish, Drain, vars, workerVars, bookVars
  <1>3. /\ queue' \in [Worker -> Seq(Request)] /\ running' \in [Worker -> SUBSET Request]
        /\ draining' \subseteq Worker
    <2>1. ASSUME NEW w \in Worker, Start(w)
          PROVE  queue' \in [Worker -> Seq(Request)] /\ running' \in [Worker -> SUBSET Request] /\ draining' \subseteq Worker
      <3>1. queue[w] \in Seq(Request) /\ queue[w] # <<>>
        BY <1>1, <2>1 DEF Types, Start
      <3>2. Head(queue[w]) \in Request /\ Tail(queue[w]) \in Seq(Request)
        BY <3>1
      <3> QED BY <1>1, <2>1, <3>2 DEF Types, Start
    <2>2. ASSUME NEW w \in Worker, Finish(w) \/ Drain(w)
          PROVE  queue' \in [Worker -> Seq(Request)] /\ running' \in [Worker -> SUBSET Request] /\ draining' \subseteq Worker
      BY <1>1, <2>2 DEF Types, Finish, Drain
    <2>3. CASE UNCHANGED vars
      BY <1>1, <2>3 DEF Types, vars, workerVars
    <2> QED BY <2>1, <2>2, <2>3
  <1>4. Types'
    BY <1>1, <1>2, <1>3 DEF Types
  <1>5. RegistryTells'
    BY <1>1, <1>2 DEF RegistryTells
  <1>6. /\ \A v \in Worker : MemoryOf(resident[v]) + SafetyReserve <= Total
        /\ \A v \in Worker \ (disturbed \cup gone) : registry[v].resident \subseteq resident[v]
    BY Standing
  <1> QED BY <1>2, <1>4, <1>5, <1>6, GoesOn

\* An eviction disturbs the worker.
LEMMA EvictStep ==
    ASSUME IInv, NEW w \in Worker, NEW m \in Model, Evict(w, m)
    PROVE  IInv'
  <1>1. Types /\ RegistryTells
    BY DEF IInv
  <1>2. UNCHANGED <<setup, reservations, choosing, next, rotation, gone, registry, handoff>>
    BY DEF Evict, bookVars
  <1>3. /\ resident'[w] = resident[w] \ {m} /\ \A v \in Worker : v # w => resident'[v] = resident[v]
        /\ disturbed' = disturbed \cup {w}
    BY <1>1 DEF Evict, Types
  <1>4. Types'
    BY <1>1 DEF Types, Evict, bookVars
  <1>5. RegistryTells'
    BY <1>1, <1>2 DEF RegistryTells
  <1>6. /\ \A v \in Worker : MemoryOf(resident[v]) + SafetyReserve <= Total
        /\ \A v \in Worker \ (disturbed \cup gone) : registry[v].resident \subseteq resident[v]
    BY Standing
  <1>7. MemoryOf(resident'[w]) + SafetyReserve <= Total
    <2>1. resident[w] \subseteq Model /\ resident'[w] \subseteq resident[w] /\ resident'[w] \subseteq Model
      BY <1>1, <1>3 DEF Types
    <2>2. MemoryOf(resident[w]) \in Nat /\ MemoryOf(resident'[w]) \in Nat /\ MemoryOf(resident'[w]) <= MemoryOf(resident[w])
      BY <2>1, MemoryFacts
    <2> QED BY <1>6, <2>2, PlacementAssumption
  <1>8. \A v \in Worker : MemoryOf(resident'[v]) + SafetyReserve <= Total
    BY <1>3, <1>6, <1>7
  <1>9. \A v \in Worker \ disturbed' : resident'[v] = resident[v]
    BY <1>3
  <1> QED BY <1>2, <1>3, <1>4, <1>5, <1>6, <1>8, <1>9, GoesOn

\* A worker leaves with its models; no handoff finds it in the registry again.
LEMMA ShutdownStep ==
    ASSUME IInv, NEW w \in Worker, Shutdown(w)
    PROVE  IInv'
  <1>1. Types /\ RegistryTells
    BY DEF IInv
  <1>2. UNCHANGED <<setup, reservations, choosing, next, rotation, handoff, disturbed>>
    BY DEF Shutdown, bookVars
  <1>3. /\ resident'[w] = {} /\ gone' = gone \cup {w} /\ registry'[w] = [registry[w] EXCEPT !.health = "none"]
        /\ \A v \in Worker : v # w => resident'[v] = resident[v] /\ registry'[v] = registry[v]
    BY <1>1 DEF Shutdown, Types
  <1>4. registry[w] \in Snap
    BY <1>1 DEF Types
  <1>5. /\ registry'[w] \in Snap /\ registry'[w].health = "none" /\ registry'[w].resident = registry[w].resident
        /\ registry'[w].available = registry[w].available
    BY <1>3, <1>4 DEF Snap
  <1>6. Types'
    <2>1. registry' \in [Worker -> Snap]
      BY <1>1, <1>3, <1>5 DEF Shutdown, Types
    <2>2. /\ resident' \in [Worker -> SUBSET Model] /\ queue' \in [Worker -> Seq(Request)]
          /\ draining' \subseteq Worker /\ gone' \subseteq Worker
      BY <1>1 DEF Shutdown, Types
    <2> QED BY <1>1, <1>2, <2>1, <2>2 DEF Shutdown, Types
  <1>7. RegistryTells'
    <2> SUFFICES ASSUME NEW v \in Worker
                 PROVE  /\ registry'[v].health = "none" <=> v \in gone'
                        /\ registry'[v].available = Total - MemoryOf(registry'[v].resident)
      BY DEF RegistryTells
    <2>1. CASE v = w
      BY <1>1, <1>3, <1>5, <2>1 DEF RegistryTells
    <2>2. CASE v # w
      BY <1>1, <1>3, <2>2 DEF RegistryTells
    <2> QED BY <2>1, <2>2
  <1>8. /\ \A v \in Worker : MemoryOf(resident[v]) + SafetyReserve <= Total
        /\ \A v \in Worker \ (disturbed \cup gone) : registry[v].resident \subseteq resident[v]
    BY Standing
  <1>9. MemoryOf(resident'[w]) + SafetyReserve <= Total
    <2>1. resident[w] \subseteq Model /\ resident'[w] \subseteq resident[w] /\ resident'[w] \subseteq Model
      BY <1>1, <1>3 DEF Types
    <2>2. MemoryOf(resident[w]) \in Nat /\ MemoryOf(resident'[w]) \in Nat /\ MemoryOf(resident'[w]) <= MemoryOf(resident[w])
      BY <2>1, MemoryFacts
    <2>3. MemoryOf(resident[w]) + SafetyReserve <= Total /\ SafetyReserve \in Nat /\ Total \in Nat
      BY <1>8, PlacementAssumption
    <2> QED BY <2>2, <2>3
  <1>10. \A v \in Worker : MemoryOf(resident'[v]) + SafetyReserve <= Total
    BY <1>3, <1>8, <1>9
  <1>11. \A v \in Worker : resident'[v] \subseteq resident[v]
    BY <1>3
  <1>12. \A v \in Worker \ (disturbed' \cup gone') : resident'[v] = resident[v] /\ registry'[v] = registry[v]
    BY <1>3
  <1> QED BY <1>2, <1>3, <1>6, <1>7, <1>8, <1>10, <1>11, <1>12, GoesOn

\* A suspect worker stays what it was.
LEMMA OverdueStep ==
    ASSUME IInv, NEW w \in Worker, Overdue(w)
    PROVE  IInv'
  <1>1. Types /\ RegistryTells
    BY DEF IInv
  <1>2. UNCHANGED <<setup, reservations, choosing, next, rotation, resident, gone, handoff, disturbed>>
    BY DEF Overdue, bookVars, workerVars
  <1>3. /\ registry'[w] = [registry[w] EXCEPT !.health = "suspect"]
        /\ \A v \in Worker : v # w => registry'[v] = registry[v]
    BY <1>1 DEF Overdue, Types
  <1>4. registry[w] \in Snap /\ registry[w].health = "healthy"
    BY <1>1 DEF Types, Overdue
  <1>5. /\ registry'[w] \in Snap /\ registry'[w].health = "suspect" /\ registry'[w].resident = registry[w].resident
        /\ registry'[w].available = registry[w].available
    BY <1>3, <1>4 DEF Snap
  <1>6. Types'
    <2>1. registry' \in [Worker -> Snap]
      BY <1>1, <1>3, <1>5 DEF Overdue, Types
    <2> QED BY <1>1, <2>1 DEF Overdue, Types, workerVars, bookVars
  <1>7. RegistryTells'
    <2> SUFFICES ASSUME NEW v \in Worker
                 PROVE  /\ registry'[v].health = "none" <=> v \in gone
                        /\ registry'[v].available = Total - MemoryOf(registry'[v].resident)
      BY <1>2 DEF RegistryTells
    <2>1. CASE v = w
      BY <1>1, <1>4, <1>5, <2>1 DEF RegistryTells
    <2>2. CASE v # w
      BY <1>1, <1>3, <2>2 DEF RegistryTells
    <2> QED BY <2>1, <2>2
  <1>8. /\ \A v \in Worker : MemoryOf(resident[v]) + SafetyReserve <= Total
        /\ \A v \in Worker \ (disturbed \cup gone) : registry[v].resident \subseteq resident[v]
    BY Standing
  <1>9. \A v \in Worker : registry'[v].resident = registry[v].resident
    BY <1>3, <1>5
  <1> QED BY <1>2, <1>6, <1>7, <1>8, <1>9, GoesOn

-----------------------------------------------------------------------------
(* The book *)

\* What is on a worker or reserved for it.
Committed(w) == resident[w] \cup {ModelOf(q) : q \in Reserved(w)}

\* A policy that chooses an undisturbed worker without the model leaves room
\* for it: what the registry does not know of is charged to a reservation.
LEMMA RoomForChoice ==
    ASSUME IInv, NEW r \in Request, NEW w \in Eligible(r), w \notin disturbed
    PROVE  MemoryOf(Committed(w) \cup {ModelOf(r)}) + SafetyReserve <= Total
  <1> DEFINE m == ModelOf(r)
             X == Committed(w)
             R == registry[w].resident
             c == [q \in Reserved(w) |-> reservations[q].memory]
             g == [q \in Reserved(w) |-> reservations[q].model]
  <1>1. Types /\ RegistryTells /\ BoundFits /\ Tracking /\ w \in Worker /\ w \in Registered
    BY Candidates DEF IInv
  <1>2. Tracked(w) /\ registry[w].available = Total - MemoryOf(R) /\ registry[w].available \in Int
    <2>1. w \notin gone /\ registry[w].available = Total - MemoryOf(R)
      BY <1>1 DEF RegistryTells, Registered
    <2>2. registry[w] \in Snap
      BY <1>1, Basics
    <2> QED BY <1>1, <2>1, <2>2 DEF Tracking, Snap
  <1>3. /\ m \in Model /\ X \subseteq Model /\ R \subseteq Model /\ Memory[m] \in Nat
        /\ SafetyReserve \in Nat /\ Total \in Nat
    <2>1. \A q \in Reserved(w) : ModelOf(q) \in Model
      BY <1>1, Basics DEF Reserved
    <2> QED BY <1>1, <2>1, Basics, PlacementAssumption DEF Committed
  <1>4. MemoryOf(X) \in Nat /\ MemoryOf(R) \in Nat /\ MemoryOf(X \cup {m}) \in Nat
        /\ MemoryOf(X \cup {m}) <= MemoryOf(X) + Memory[m]
    <2>1. IsFiniteSet(X) /\ \A x \in X : Memory[x] \in Nat
      BY <1>3, MemoryFacts
    <2>2. SumFunctionOnSet(Memory, X \cup {m}) <= SumFunctionOnSet(Memory, X) + Memory[m]
      <3> HIDE DEF X, m
      <3> QED BY <1>3, <2>1, SumAddsAtMost
    <2>3. X \cup {m} \subseteq Model
      BY <1>3
    <2>4. MemoryOf(X) \in Nat /\ MemoryOf(R) \in Nat /\ MemoryOf(X \cup {m}) \in Nat
      BY <1>3, <2>3, MemoryFacts
    <2> QED BY <2>2, <2>4 DEF MemoryOf
  <1>5. MemoryOf(X) + SafetyReserve <= Total
    <2>1. X \subseteq Bound(w) /\ Bound(w) \subseteq Model
      BY <1>1, BoundModels DEF Bound, Committed
    <2>2. MemoryOf(X) <= MemoryOf(Bound(w)) /\ MemoryOf(Bound(w)) \in Nat
      BY <2>1, MemoryFacts
    <2>3. MemoryOf(Bound(w)) + SafetyReserve <= Total
      BY <1>1 DEF BoundFits
    <2> HIDE DEF X
    <2> QED BY <1>3, <1>4, <2>2, <2>3
  <1>6. CASE m \in R
    <2>1. X \cup {m} = X
      BY <1>2, <1>6 DEF Tracked, Committed
    <2> QED BY <1>5, <2>1
  <1>7. CASE m \notin R
    <2>1. Effective(w).resident = R /\ Claimed(w) \in Nat /\ IsFiniteSet(Reserved(w))
          /\ Effective(w).available = IF registry[w].available > Claimed(w) THEN registry[w].available - Claimed(w) ELSE 0
      BY <1>1, EffectiveFacts
    <2>2. w \in FilterMemory(r)
      <3>1. w \notin FilterResident(r)
        BY <1>7, <2>1 DEF FilterResident
      <3>2. Eligible(r) \in {FilterResident(r), FilterMemory(r), Feasible(r)} /\ Feasible(r) \subseteq FilterMemory(r)
        <4>1. Eligible(r) \in {FilterResident(r), FilterMemory(r), Feasible(r)}
          BY DEF Eligible
        <4> QED BY <1>1, <4>1, Candidates
      <3> QED BY <3>1, <3>2
    <2>3. Effective(w).available - SafetyReserve >= Memory[m]
      BY <1>7, <2>1, <2>2 DEF FilterMemory
    <2>4. MemoryOf(X) <= MemoryOf(R) + Claimed(w)
      <3>1. /\ IsFiniteSet(R) /\ \A x \in R : Memory[x] \in Nat
        BY <1>3, MemoryFacts
      <3>2. \A q \in Reserved(w) : q \in Request /\ reservations[q] # None
        BY DEF Reserved
      <3>3. \A q \in Reserved(w) : c[q] \in Nat /\ Memory[g[q]] \in Nat
        BY <1>1, <3>2, Basics
      <3>4. \A x \in X : x \in R \/ \E q \in Reserved(w) : g[q] = x /\ c[q] = Memory[x]
        BY <1>2 DEF Tracked, Charged, Committed
      <3>5. DOMAIN c = Reserved(w) /\ Claimed(w) = SumFunctionOnSet(c, DOMAIN c)
        BY DEF Claimed, SumFunction
      <3> HIDE DEF X, R, c, g
      <3>6. SumFunctionOnSet(Memory, X) <= SumFunctionOnSet(Memory, R) + SumFunctionOnSet(c, Reserved(w))
        BY <2>1, <3>1, <3>3, <3>4, SumCovered
      <3> QED BY <3>5, <3>6 DEF MemoryOf
    <2> HIDE DEF X, R, m
    <2>5. ASSUME registry[w].available > Claimed(w)
          PROVE  MemoryOf(X \cup {m}) + SafetyReserve <= Total
      <3>1. Total - MemoryOf(R) - Claimed(w) - SafetyReserve >= Memory[m]
        BY <1>2, <2>1, <2>3, <2>5
      <3> QED BY <1>3, <1>4, <2>1, <2>4, <3>1
    <2>6. ASSUME ~(registry[w].available > Claimed(w))
          PROVE  MemoryOf(X \cup {m}) + SafetyReserve <= Total
      <3>1. 0 - SafetyReserve >= Memory[m]
        BY <2>1, <2>3, <2>6
      <3> QED BY <1>3, <1>4, <1>5, <3>1
    <2> QED BY <2>5, <2>6 DEF X, m
  <1> QED BY <1>6, <1>7

\* While nobody chooses, nothing more is bound for a worker than is committed to it.
LEMMA NobodyChooses ==
    ASSUME IInv, choosing = None
    PROVE  (\A q \in Request : handoff[q] # "select") /\ \A w \in Worker : Bound(w) = Committed(w)
  <1>1. \A q \in Request : handoff[q] # "select"
    BY DEF IInv, PlacementInv
  <1> QED BY <1>1 DEF Bound, Committed

\* A choice: its worker has room for the model, and round robin has moved on by one.
LEMMA SelectStep ==
    ASSUME IInv, NEW r \in Request, Select(r)
    PROVE  IInv'
  <1>1. PICK w \in Eligible(r) : w = Chosen(r)
    BY ChoosesCandidate DEF Select, IInv
  <1>2. /\ Types /\ PlacementInv /\ RegistryTells /\ BoundFits /\ Tracking /\ Rotation
        /\ w \in Worker /\ handoff[r] = "new" /\ choosing = None
    BY Candidates DEF IInv, Select
  <1>3. UNCHANGED <<setup, resident, gone, registry, reservations, disturbed>>
    BY DEF Select, workerVars
  <1>4. handoff'[r] = "select" /\ \A q \in Request : q # r => handoff'[q] = handoff[q]
    BY <1>2 DEF Select, Goto, Types
  <1>5. choosing' = [req |-> r, worker |-> w] /\ choosing' \in Decision /\ choosing' # None
        /\ choosing'.req = r /\ choosing'.worker = w
    <2>1. choosing' = [req |-> r, worker |-> w]
      BY <1>1 DEF Select
    <2>2. choosing' \in Decision
      BY <1>2, <2>1 DEF Decision
    <2> QED BY <2>1, <2>2, PlacementAssumption
  <1>6. /\ next' \in Nat /\ rotation' \in [among : SUBSET Worker, chosen : Seq(Worker)]
        /\ Rotation'
    <2>1. next \in Nat /\ rotation \in [among : SUBSET Worker, chosen : Seq(Worker)]
      BY <1>2 DEF Types
    <2>2. rotation.among \subseteq Worker /\ rotation.chosen \in Seq(Worker)
      BY <2>1
    <2>3. CASE setup.policy # "round_robin"
      BY <1>2, <2>1, <2>3 DEF Select, Rotation
    <2>4. CASE setup.policy = "round_robin"
      <3> DEFINE E == Eligible(r)
                 s == IF rotation.among = E THEN rotation.chosen ELSE <<>>
                 n == Cardinality(E)
      <3>1. next' = next + 1 /\ rotation' = [among |-> E, chosen |-> Append(s, w)]
        BY <1>1, <2>4 DEF Select
      <3>2. E \subseteq Worker /\ s \in Seq(Worker) /\ n \in Nat \ {0} /\ Rank(E, w) = next % n
        BY <1>1, <1>2, <2>2, <2>4, Candidates, ChoosesCandidate
      <3>3. /\ Len(s) <= next
            /\ \A i \in DOMAIN s : Rank(E, s[i]) = (next - Len(s) + i - 1) % n
        <4>1. CASE rotation.among = E
          BY <1>2, <4>1 DEF Rotation
        <4>2. CASE rotation.among # E
          BY <2>1, <4>2
        <4> QED BY <4>1, <4>2
      <3> HIDE DEF s, E, n
      <3>4. /\ Append(s, w) \in Seq(Worker) /\ Len(Append(s, w)) = Len(s) + 1 /\ Len(s) \in Nat
            /\ DOMAIN s = 1..Len(s) /\ DOMAIN Append(s, w) = 1..(Len(s) + 1)
            /\ Append(s, w)[Len(s) + 1] = w /\ \A i \in 1..Len(s) : Append(s, w)[i] = s[i]
        BY <1>2, <3>2
      <3>5. rotation'.among = E /\ rotation'.chosen = Append(s, w)
            /\ rotation' \in [among : SUBSET Worker, chosen : Seq(Worker)]
        BY <3>1, <3>2, <3>4
      <3>6. ASSUME NEW i \in 1..(Len(s) + 1)
            PROVE  Rank(E, Append(s, w)[i]) = (next + 1 - (Len(s) + 1) + i - 1) % n
        <4>1. next + 1 - (Len(s) + 1) + i - 1 = next - Len(s) + i - 1
          BY <2>1, <3>4
        <4>2. CASE i = Len(s) + 1
          <5>1. next - Len(s) + i - 1 = next
            BY <2>1, <3>4, <4>2
          <5> QED BY <3>2, <3>4, <4>1, <4>2, <5>1
        <4>3. CASE i \in 1..Len(s)
          BY <3>3, <3>4, <4>1, <4>3
        <4> QED BY <3>4, <4>2, <4>3
      <3>7. next' \in Nat /\ Len(Append(s, w)) <= next'
        BY <2>1, <3>1, <3>3, <3>4
      <3>8. n > 0 /\ n = Cardinality(E)
        BY <3>2 DEF n
      <3>9. Rotation'
        <4>1. Len(rotation'.chosen) = Len(s) + 1 /\ DOMAIN rotation'.chosen = 1..(Len(s) + 1)
              /\ Cardinality(rotation'.among) = n
          BY <3>4, <3>5, <3>8
        <4>2. \A i \in 1..(Len(s) + 1) :
                 Rank(rotation'.among, rotation'.chosen[i]) = (next' - Len(rotation'.chosen) + i - 1) % n
          <5>1. next' = next + 1
            BY <3>1
          <5>2. rotation'.among = E /\ rotation'.chosen = Append(s, w)
            BY <3>5
          <5>3. ASSUME NEW i \in 1..(Len(s) + 1)
                PROVE  Rank(rotation'.among, rotation'.chosen[i]) = (next' - Len(rotation'.chosen) + i - 1) % n
            <6>1. next' - Len(rotation'.chosen) + i - 1 = next + 1 - (Len(s) + 1) + i - 1
              <7>1. Len(rotation'.chosen) = Len(s) + 1 /\ Len(s) \in Nat /\ next \in Nat
                BY <2>1, <3>4, <4>1
              <7> QED BY <5>1, <7>1
            <6>2. Rank(rotation'.among, rotation'.chosen[i]) = Rank(E, Append(s, w)[i])
              BY <5>2
            <6> QED BY <3>6, <6>1, <6>2
          <5> QED BY <5>3
        <4>3. Len(rotation'.chosen) <= next'
          BY <3>5, <3>7
        <4> QED BY <3>8, <4>1, <4>2, <4>3 DEF Rotation
      <3> QED BY <3>5, <3>7, <3>9
    <2> QED BY <2>3, <2>4
  <1>7. Types'
    <2>1. handoff' \in [Request -> {"new", "select", "unplaced", "reserved", "load", "loaded", "ready",
                                    "accepted", "refused", "placed"}]
      BY <1>2 DEF Select, Goto, Types
    <2> QED BY <1>2, <1>5, <1>6, <2>1 DEF Select, Types, workerVars
  <1>8. \A q \in Request : handoff[q] # "select"
    BY <1>2, NobodyChooses
  <1>9. PlacementInv'
    BY <1>2, <1>3, <1>4, <1>5, <1>8 DEF PlacementInv
  <1>10. RegistryTells'
    BY <1>2, <1>3 DEF RegistryTells
  <1>11. /\ \A v \in Worker : Reserved(v)' = Reserved(v)
         /\ \A q \in Request : ModelOf(q)' = ModelOf(q)
    BY <1>3 DEF Reserved, ModelOf
  <1>12. BoundFits'
    <2> SUFFICES ASSUME NEW v \in Worker \ disturbed PROVE MemoryOf(Bound(v)') + SafetyReserve <= Total
      BY <1>3 DEF BoundFits
    <2>1. {ModelOf(q) : q \in Reserved(v)}' = {ModelOf(q) : q \in Reserved(v)}
      BY <1>11 DEF Reserved
    <2>2. CASE v = w
      <3>1. Bound(v)' = Committed(v) \cup {ModelOf(r)}
        BY <1>3, <1>4, <1>5, <1>8, <1>11, <2>1, <2>2 DEF Bound, Committed
      <3> QED BY <2>2, <3>1, RoomForChoice
    <2>3. CASE v # w
      <3>1. Bound(v)' = Committed(v)
        BY <1>3, <1>4, <1>5, <1>8, <2>1, <2>3 DEF Bound, Committed
      <3>2. Bound(v) = Committed(v) /\ MemoryOf(Bound(v)) + SafetyReserve <= Total
        BY <1>2, NobodyChooses DEF BoundFits
      <3> QED BY <3>1, <3>2
    <2> QED BY <2>2, <2>3
  <1>13. Tracking'
    <2>1. \A v \in Worker, m \in Model : Charged(v, m)' <=> Charged(v, m)
      BY <1>3 DEF Charged, Reserved
    <2>2. ASSUME NEW v \in Worker \ (disturbed \cup gone) PROVE Tracked(v)'
      <3>1. Tracked(v)
        BY <1>2 DEF Tracking
      <3>2. \A q \in Reserved(v) : q # r /\ handoff'[q] = handoff[q]
        BY <1>2, <1>4 DEF PlacementInv, Reserved
      <3> QED BY <1>3, <1>11, <3>1, <3>2 DEF Tracked, Charged, Reserved, ModelOf
    <2> QED BY <1>2, <1>3, <1>11, <2>2 DEF Tracking
  <1> QED BY <1>6, <1>7, <1>9, <1>10, <1>12, <1>13 DEF IInv

\* A reservation takes the place of a choice; it is charged unless the model
\* is known to be there or charged already.
LEMMA ReserveStep ==
    ASSUME IInv, NEW r \in Request, Reserve(r)
    PROVE  IInv'
  <1>1. /\ Types /\ PlacementInv /\ RegistryTells /\ BoundFits /\ Tracking /\ Rotation /\ handoff[r] = "select"
    BY DEF IInv, Reserve
  <1>2. /\ choosing # None /\ choosing.req = r /\ reservations[r] = None /\ choosing \in Decision
        /\ \A q \in Request : handoff[q] = "select" => q = r
    BY <1>1 DEF PlacementInv, Types
  <1>3. PICK w \in Worker : w = choosing.worker
    BY <1>2 DEF Decision
  <1>4. UNCHANGED <<setup, resident, gone, registry, disturbed, next, rotation>> /\ choosing' = None
    BY DEF Reserve, workerVars
  <1>5. RegistryTells' /\ Rotation'
    BY <1>1, <1>4 DEF RegistryTells, Rotation
  <1>6. \A q \in Request : ModelOf(q)' = ModelOf(q) /\ ModelOf(q) \in Model
    BY <1>1, <1>4, Basics DEF ModelOf
  <1>7. ASSUME w \notin Registered, Goto(r, "unplaced"), UNCHANGED reservations PROVE IInv'
    <2>1. handoff'[r] = "unplaced" /\ \A q \in Request : q # r => handoff'[q] = handoff[q]
      BY <1>1, <1>7 DEF Goto, Types
    <2>2. Types'
      BY <1>1, <1>7 DEF Types, Goto, Reserve, workerVars
    <2>3. PlacementInv'
      BY <1>1, <1>2, <1>4, <1>7, <2>1 DEF PlacementInv
    <2>4. \A v \in Worker : Reserved(v)' = Reserved(v) /\ Bound(v)' \subseteq Bound(v)
      <3>1. \A v \in Worker : Reserved(v)' = Reserved(v)
        BY <1>7 DEF Reserved
      <3>2. \A q \in Request : handoff'[q] # "select"
        BY <1>2, <2>1
      <3> QED BY <1>4, <1>6, <3>1, <3>2 DEF Bound, Reserved
    <2>5. BoundFits'
      <3> SUFFICES ASSUME NEW v \in Worker \ disturbed PROVE MemoryOf(Bound(v)') + SafetyReserve <= Total
        BY <1>4 DEF BoundFits
      <3>1. Bound(v)' \subseteq Bound(v) /\ Bound(v) \subseteq Model /\ Bound(v)' \subseteq Model
        BY <1>1, <2>4, BoundModels
      <3>2. MemoryOf(Bound(v)') <= MemoryOf(Bound(v)) /\ MemoryOf(Bound(v)') \in Nat /\ MemoryOf(Bound(v)) \in Nat
        BY <3>1, MemoryFacts
      <3>3. MemoryOf(Bound(v)) + SafetyReserve <= Total
        BY <1>1 DEF BoundFits
      <3> QED BY <3>2, <3>3, PlacementAssumption
    <2>6. Tracking'
      <3>1. ASSUME NEW v \in Worker \ (disturbed \cup gone) PROVE Tracked(v)'
        <4>1. Tracked(v)
          BY <1>1 DEF Tracking
        <4>2. \A q \in Reserved(v) : q # r /\ handoff'[q] = handoff[q]
          BY <1>2, <2>1 DEF Reserved
        <4> QED BY <1>4, <1>6, <1>7, <2>4, <4>1, <4>2 DEF Tracked, Charged, Reserved, ModelOf
      <3> QED BY <1>1, <1>4, <1>6, <1>7, <3>1 DEF Tracking
    <2> QED BY <1>5, <2>2, <2>3, <2>5, <2>6 DEF IInv
  <1>8. ASSUME w \in Registered, Goto(r, "reserved"),
               reservations' = [reservations EXCEPT ![r] = [worker |-> w, model |-> ModelOf(r), memory |-> Charge(r, w)]]
        PROVE  IInv'
    <2> DEFINE x == [worker |-> w, model |-> ModelOf(r), memory |-> Charge(r, w)]
    <2>1. handoff'[r] = "reserved" /\ \A q \in Request : q # r => handoff'[q] = handoff[q]
      BY <1>1, <1>8 DEF Goto, Types
    <2>2. Charge(r, w) \in Nat
      BY <1>1, <1>6, Basics DEF Charge
    <2>3. /\ x \in Reservation /\ x # None /\ x.worker = w /\ x.model = ModelOf(r) /\ x.memory = Charge(r, w)
      <3>1. x \in Reservation
        BY <1>6, <2>2 DEF Reservation
      <3> QED BY <3>1, PlacementAssumption
    <2>4. reservations'[r] = x /\ \A q \in Request : q # r => reservations'[q] = reservations[q]
      BY <1>1, <1>8 DEF Types
    <2>5. Types'
      <3>1. reservations' \in [Request -> Reservation \cup {None}]
        BY <1>1, <1>8, <2>3 DEF Types
      <3>2. handoff' \in [Request -> {"new", "select", "unplaced", "reserved", "load", "loaded", "ready",
                                      "accepted", "refused", "placed"}]
        BY <1>1, <1>8 DEF Goto, Types
      <3> QED BY <1>1, <3>1, <3>2 DEF Types, Reserve, workerVars
    <2> HIDE DEF x
    <2>6. \A v \in Worker : Reserved(v)' = IF v = w THEN Reserved(v) \cup {r} ELSE Reserved(v)
      BY <1>2, <2>3, <2>4 DEF Reserved
    <2>7. \A v \in Worker : \A q \in Reserved(v) : q \in Request /\ q # r /\ reservations[q] # None /\ reservations[q].worker = v
      BY <1>2 DEF Reserved
    <2>8. \A q \in Reserved(w) : reservations[q].model = ModelOf(r) => x.memory = 0
      BY <2>3 DEF Charge
    <2>9. PlacementInv'
      <3>1. \A q \in Request :
              /\ (reservations'[q] # None) <=> handoff'[q] \in {"reserved", "load", "loaded", "ready", "accepted", "refused"}
              /\ handoff'[q] = "select" <=> choosing' # None /\ choosing'.req = q
        BY <1>1, <1>2, <1>4, <2>1, <2>3, <2>4 DEF PlacementInv
      <3>2. ASSUME NEW q \in Request, q # r, reservations[q] # None, reservations[q].worker = w, reservations[q].model = ModelOf(r)
            PROVE  x.memory = 0
        BY <2>8, <3>2 DEF Reserved
      <3>3. \A p, q \in Request :
              (/\ p # q /\ reservations'[p] # None /\ reservations'[q] # None
               /\ reservations'[p].worker = reservations'[q].worker
               /\ reservations'[p].model = reservations'[q].model)
                => reservations'[p].memory = 0 \/ reservations'[q].memory = 0
        <4> SUFFICES ASSUME NEW p \in Request, NEW q \in Request, p # q, reservations'[p] # None, reservations'[q] # None,
                            reservations'[p].worker = reservations'[q].worker,
                            reservations'[p].model = reservations'[q].model
                     PROVE  reservations'[p].memory = 0 \/ reservations'[q].memory = 0
          OBVIOUS
        <4>1. CASE p = r
          BY <2>3, <2>4, <3>2, <4>1
        <4>2. CASE q = r
          BY <2>3, <2>4, <3>2, <4>2
        <4>3. CASE p # r /\ q # r
          BY <1>1, <2>4, <4>3 DEF PlacementInv
        <4> QED BY <4>1, <4>2, <4>3
      <3>4. \A v \in Worker : MemoryOf(resident'[v]) + SafetyReserve <= Total
        BY <1>1, <1>4 DEF PlacementInv
      <3> QED BY <3>1, <3>3, <3>4 DEF PlacementInv
    <2>10. BoundFits'
      <3> SUFFICES ASSUME NEW v \in Worker \ disturbed PROVE MemoryOf(Bound(v)') + SafetyReserve <= Total
        BY <1>4 DEF BoundFits
      <3>1. \A q \in Request : handoff'[q] # "select"
        BY <1>2, <2>1
      <3>2. Bound(v)' \subseteq resident[v] \cup {ModelOf(q) : q \in Reserved(v)'}
        BY <1>4, <1>6, <3>1 DEF Bound, Reserved
      <3>3. Bound(v)' \subseteq Bound(v)
        <4>1. CASE v = w
          <5>1. ModelOf(r) \in Bound(v)
            BY <1>1, <1>3, <4>1 DEF Bound
          <5>2. \A q \in Reserved(v)' : q = r \/ q \in Reserved(v)
            BY <2>6
          <5> QED BY <3>2, <5>1, <5>2 DEF Bound
        <4>2. CASE v # w
          BY <2>6, <3>2, <4>2 DEF Bound
        <4> QED BY <4>1, <4>2
      <3>4. Bound(v) \subseteq Model /\ Bound(v)' \subseteq Model
        BY <1>1, <3>3, BoundModels
      <3>5. MemoryOf(Bound(v)') <= MemoryOf(Bound(v)) /\ MemoryOf(Bound(v)') \in Nat /\ MemoryOf(Bound(v)) \in Nat
        BY <3>3, <3>4, MemoryFacts
      <3>6. MemoryOf(Bound(v)) + SafetyReserve <= Total
        BY <1>1 DEF BoundFits
      <3> QED BY <3>5, <3>6, PlacementAssumption
    <2>11. Tracking'
      <3>1. \A q \in Request : reservations'[q] # None => reservations'[q].model = ModelOf(q)'
        BY <1>1, <1>6, <2>3, <2>4 DEF Tracking
      <3>2. \A v \in Worker, m \in Model : Charged(v, m) => Charged(v, m)'
        <4> SUFFICES ASSUME NEW v \in Worker, NEW m \in Model, Charged(v, m) PROVE Charged(v, m)'
          OBVIOUS
        <4>1. PICK q \in Reserved(v) : reservations[q].model = m /\ reservations[q].memory = Memory[m]
          BY DEF Charged
        <4>2. q \in Reserved(v)' /\ reservations'[q] = reservations[q]
          BY <2>4, <2>6, <2>7
        <4> QED BY <4>1, <4>2 DEF Charged
      <3>3. ASSUME NEW v \in Worker \ (disturbed \cup gone) PROVE Tracked(v)'
        <4>1. Tracked(v)
          BY <1>1 DEF Tracking
        <4>2. \A m \in resident'[v] : m \in registry'[v].resident \/ Charged(v, m)'
          <5>1. resident[v] \subseteq Model
            BY <1>1 DEF Types
          <5> QED BY <1>4, <3>2, <4>1, <5>1 DEF Tracked
        <4>3. ASSUME NEW q \in Reserved(v)
              PROVE  /\ ModelOf(q)' \in registry'[v].resident \/ Charged(v, ModelOf(q))'
                     /\ handoff'[q] = "loaded" => ModelOf(q)' \in resident'[v]
                     /\ handoff'[q] \in {"ready", "accepted", "refused"} => ModelOf(q)' \in registry'[v].resident
          <5>1. PICK m \in Model : m = ModelOf(q) /\ m = ModelOf(q)'
            BY <1>6, <2>7
          <5>2. m \in registry[v].resident \/ Charged(v, m)
            BY <4>1, <5>1 DEF Tracked
          <5>3. m \in registry'[v].resident \/ Charged(v, m)'
            BY <1>4, <3>2, <5>2
          <5>4. Charged(v, ModelOf(q))' <=> Charged(v, m)'
            BY <5>1 DEF Charged
          <5>5. handoff'[q] = handoff[q]
            BY <2>1, <2>7
          <5> QED BY <1>4, <4>1, <5>1, <5>3, <5>4, <5>5 DEF Tracked
        <4>4. ASSUME v = w
              PROVE  ModelOf(r)' \in registry'[v].resident \/ Charged(v, ModelOf(r))'
          <5>1. CASE ModelOf(r) \in registry[w].resident
            BY <1>4, <1>6, <4>4, <5>1
          <5>2. CASE \E q \in Reserved(w) : reservations[q].model = ModelOf(r)
            <6>1. PICK q \in Reserved(w) : reservations[q].model = ModelOf(r)
              BY <5>2
            <6>2. ModelOf(q) = ModelOf(r) /\ ModelOf(q)' = ModelOf(r)'
              BY <1>1, <1>6, <2>7, <6>1 DEF Tracking
            <6>3. ModelOf(q)' \in registry'[v].resident \/ Charged(v, ModelOf(q))'
              BY <4>3, <4>4, <6>1
            <6> QED BY <6>2, <6>3 DEF Charged
          <5>3. CASE ModelOf(r) \notin registry[w].resident /\ \A q \in Reserved(w) : reservations[q].model # ModelOf(r)
            <6>1. x.memory = Memory[ModelOf(r)]
              BY <2>3, <5>3 DEF Charge
            <6>2. r \in Reserved(v)' /\ reservations'[r].model = ModelOf(r)' /\ reservations'[r].memory = Memory[ModelOf(r)']
              BY <1>6, <2>3, <2>4, <2>6, <4>4, <6>1
            <6> QED BY <6>2 DEF Charged
          <5> QED BY <5>1, <5>2, <5>3
        <4>5. \A q \in Reserved(v)' : q \in Reserved(v) \/ (q = r /\ v = w)
          BY <2>6
        <4>6. registry'[v].resident \subseteq resident'[v]
          BY <1>4, <4>1 DEF Tracked
        <4> QED BY <2>1, <4>2, <4>3, <4>4, <4>5, <4>6 DEF Tracked
      <3> QED BY <1>4, <3>1, <3>3 DEF Tracking
    <2> QED BY <1>5, <2>5, <2>9, <2>10, <2>11 DEF IInv
  <1> QED BY <1>3, <1>7, <1>8 DEF Reserve

\* A release gives up no charge that the registry does not know of.
LEMMA ReleaseStep ==
    ASSUME IInv, NEW r \in Request, Release(r)
    PROVE  IInv'
  <1> DEFINE pc == IF handoff[r] = "accepted" THEN "placed" ELSE "unplaced"
  <1>1. /\ Types /\ PlacementInv /\ RegistryTells /\ BoundFits /\ Tracking /\ Rotation
        /\ handoff[r] \in {"accepted", "refused"} /\ choosing = None
    BY DEF IInv, Release
  <1>2. UNCHANGED <<setup, resident, gone, registry, disturbed, choosing, next, rotation>>
    BY DEF Release, workerVars
  <1>3. /\ handoff'[r] = pc /\ pc \in {"placed", "unplaced"} /\ \A q \in Request : q # r => handoff'[q] = handoff[q]
        /\ reservations'[r] = None /\ \A q \in Request : q # r => reservations'[q] = reservations[q]
    BY <1>1 DEF Release, Goto, Types
  <1> HIDE DEF pc
  <1>4. Types'
    <2>1. handoff' \in [Request -> {"new", "select", "unplaced", "reserved", "load", "loaded", "ready",
                                    "accepted", "refused", "placed"}]
      BY <1>1 DEF Release, Goto, Types
    <2>2. reservations' \in [Request -> Reservation \cup {None}]
      BY <1>1 DEF Release, Types
    <2> QED BY <1>1, <2>1, <2>2 DEF Release, Types, workerVars
  <1>5. RegistryTells' /\ Rotation'
    BY <1>1, <1>2 DEF RegistryTells, Rotation
  <1>6. PlacementInv'
    BY <1>1, <1>2, <1>3 DEF PlacementInv
  <1>7. /\ \A v \in Worker : Reserved(v)' = Reserved(v) \ {r}
        /\ \A q \in Request : ModelOf(q)' = ModelOf(q) /\ ModelOf(q) \in Model
    <2>1. \A q \in Request : ModelOf(q)' = ModelOf(q) /\ ModelOf(q) \in Model
      BY <1>1, <1>2, Basics DEF ModelOf
    <2> QED BY <1>3, <2>1 DEF Reserved
  <1>8. BoundFits'
    <2> SUFFICES ASSUME NEW v \in Worker \ disturbed PROVE MemoryOf(Bound(v)') + SafetyReserve <= Total
      BY <1>2 DEF BoundFits
    <2>1. \A q \in Request : handoff'[q] # "select"
      BY <1>1, <1>3, NobodyChooses
    <2>2. Bound(v)' \subseteq Bound(v)
      BY <1>2, <1>7, <2>1 DEF Bound, Reserved
    <2>3. Bound(v) \subseteq Model /\ Bound(v)' \subseteq Model
      BY <1>1, <2>2, BoundModels
    <2>4. MemoryOf(Bound(v)') <= MemoryOf(Bound(v)) /\ MemoryOf(Bound(v)') \in Nat /\ MemoryOf(Bound(v)) \in Nat
      BY <2>2, <2>3, MemoryFacts
    <2>5. MemoryOf(Bound(v)) + SafetyReserve <= Total
      BY <1>1 DEF BoundFits
    <2> QED BY <2>4, <2>5, PlacementAssumption
  <1>9. Tracking'
    <2>1. \A q \in Request : reservations'[q] # None => reservations'[q].model = ModelOf(q)'
      BY <1>1, <1>3, <1>7 DEF Tracking
    <2>2. ASSUME NEW v \in Worker \ (disturbed \cup gone) PROVE Tracked(v)'
      <3>1. Tracked(v)
        BY <1>1 DEF Tracking
      <3>2. ASSUME NEW m \in Model, m \in registry[v].resident \/ Charged(v, m)
            PROVE  m \in registry'[v].resident \/ Charged(v, m)'
        <4> SUFFICES ASSUME m \notin registry[v].resident PROVE Charged(v, m)'
          BY <1>2
        <4>1. PICK q \in Reserved(v) : reservations[q].model = m /\ reservations[q].memory = Memory[m]
          BY <3>2 DEF Charged
        <4>2. q \in Request /\ reservations[q] # None /\ reservations[q].model = ModelOf(q)
          BY <1>1 DEF Reserved, Tracking
        <4>3. q # r
          BY <1>1, <3>1, <4>1, <4>2 DEF Tracked
        <4>4. q \in Reserved(v)' /\ reservations'[q] = reservations[q]
          BY <1>3, <1>7, <4>2, <4>3
        <4> QED BY <4>1, <4>4 DEF Charged
      <3>3. \A m \in resident'[v] : m \in registry'[v].resident \/ Charged(v, m)'
        <4>1. resident[v] \subseteq Model
          BY <1>1 DEF Types
        <4> QED BY <1>2, <3>1, <3>2, <4>1 DEF Tracked
      <3>4. ASSUME NEW q \in Reserved(v)'
            PROVE  /\ ModelOf(q)' \in registry'[v].resident \/ Charged(v, ModelOf(q))'
                   /\ handoff'[q] = "loaded" => ModelOf(q)' \in resident'[v]
                   /\ handoff'[q] \in {"ready", "accepted", "refused"} => ModelOf(q)' \in registry'[v].resident
        <4>1. q \in Reserved(v) /\ q # r /\ q \in Request /\ handoff'[q] = handoff[q]
          BY <1>3, <1>7 DEF Reserved
        <4>2. PICK m \in Model : m = ModelOf(q) /\ m = ModelOf(q)'
          BY <1>7, <4>1
        <4>3. m \in registry'[v].resident \/ Charged(v, m)'
          BY <3>1, <3>2, <4>1, <4>2 DEF Tracked
        <4>4. Charged(v, ModelOf(q))' <=> Charged(v, m)'
          BY <4>2 DEF Charged
        <4> QED BY <1>2, <3>1, <4>1, <4>2, <4>3, <4>4 DEF Tracked
      <3>5. registry'[v].resident \subseteq resident'[v]
        BY <1>2, <3>1 DEF Tracked
      <3> QED BY <3>3, <3>4, <3>5 DEF Tracked
    <2> QED BY <1>2, <2>1, <2>2 DEF Tracking
  <1> QED BY <1>4, <1>5, <1>6, <1>8, <1>9 DEF IInv

-----------------------------------------------------------------------------
(* The theorems *)

\* Initially nothing is bound for a worker and the registry is up to date.
LEMMA InitIInv == Init => IInv
  <1> SUFFICES ASSUME Init PROVE IInv
    OBVIOUS
  <1>1. /\ setup \in Setups /\ setup \in [policy : Policies, models : [Request -> Model],
                                          known : SUBSET Worker, resident : [Worker -> SUBSET Model]]
        /\ \A w \in Worker : MemoryOf(setup.resident[w]) + SafetyReserve <= Total
    BY SetupsAssumption DEF Init
  <1>2. \A w \in Worker : /\ resident[w] = setup.resident[w] /\ resident[w] \subseteq Model
                          /\ MemoryOf(resident[w]) \in Nat
    <2>1. \A w \in Worker : resident[w] = setup.resident[w] /\ resident[w] \subseteq Model
      BY <1>1 DEF Init
    <2> QED BY <2>1, MemoryFacts
  <1>3. /\ \A w \in Worker : Reserved(w) = {}
        /\ \A r \in Request : reservations[r] = None /\ handoff[r] = "new"
    BY DEF Init, Reserved
  <1>4. \A w \in Worker : /\ registry[w] \in Snap /\ registry[w].health = "healthy"
                          /\ registry[w].resident = resident[w] /\ registry[w].available = Total - MemoryOf(resident[w])
    <2> SUFFICES ASSUME NEW w \in Worker
                 PROVE  /\ registry[w] \in Snap /\ registry[w].health = "healthy"
                        /\ registry[w].resident = resident[w] /\ registry[w].available = Total - MemoryOf(resident[w])
      OBVIOUS
    <2>1. registry[w] = [health |-> "healthy", draining |-> FALSE, resident |-> resident[w],
                         available |-> Total - MemoryOf(resident[w]), depth |-> 0, active |-> 0]
      BY <1>2 DEF Init
    <2>2. Total - MemoryOf(resident[w]) \in Int
      BY <1>2, PlacementAssumption
    <2> QED BY <1>2, <2>1, <2>2 DEF Snap
  <1>5. Types
    <2>1. registry \in [Worker -> Snap]
      BY <1>4 DEF Init
    <2>2. resident \in [Worker -> SUBSET Model]
      BY <1>1 DEF Init
    <2>3. rotation \in [among : SUBSET Worker, chosen : Seq(Worker)]
      BY DEF Init
    <2> QED BY <1>1, <2>1, <2>2, <2>3 DEF Init, Types
  <1>6. PlacementInv
    BY <1>1, <1>2, <1>3 DEF PlacementInv, Init
  <1>7. RegistryTells
    BY <1>4 DEF RegistryTells, Init
  <1>8. BoundFits
    <2>1. \A w \in Worker : Bound(w) = resident[w]
      BY <1>3 DEF Bound
    <2> QED BY <1>1, <1>2, <2>1 DEF BoundFits
  <1>9. Tracking
    BY <1>3, <1>4 DEF Tracking, Tracked
  <1>10. Rotation
    BY DEF Rotation, Init
  <1> QED BY <1>5, <1>6, <1>7, <1>8, <1>9, <1>10 DEF IInv

\* Every step keeps the invariant, each by the lemma named after its action.
LEMMA NextIInv == IInv /\ [Next]_vars => IInv'
  <1> SUFFICES ASSUME IInv, [Next]_vars PROVE IInv'
    OBVIOUS
  <1>1. ASSUME NEW r \in Request, Select(r) \/ SelectRaises(r) \/ Reserve(r) \/ Release(r)
        PROVE  IInv'
    BY <1>1, SelectStep, SelectRaisesStep, ReserveStep, ReleaseStep
  <1>2. ASSUME NEW r \in Request, Check(r) \/ Load(r) \/ LoadRaises(r) \/ Publish(r) \/ Enqueue(r)
        PROVE  IInv'
    BY <1>2, CheckStep, LoadStep, LoadRaisesStep, PublishStep, EnqueueStep
  <1>3. ASSUME NEW w \in Worker, Shutdown(w) \/ Heartbeat(w) \/ Overdue(w) \/ \E m \in Model : Evict(w, m)
        PROVE  IInv'
    BY <1>3, ShutdownStep, HeartbeatStep, OverdueStep, EvictStep
  <1>4. ASSUME (\E w \in Worker : Start(w) \/ Finish(w) \/ Drain(w)) \/ UNCHANGED vars
        PROVE  IInv'
    BY <1>4, WorkStep
  <1>5. CASE Next
    BY <1>1, <1>2, <1>3, <1>4, <1>5 DEF Next
  <1> QED BY <1>4, <1>5

\* The invariant the three theorems below follow from holds in every reachable state.
THEOREM PlacementInvariant == Spec => []IInv
  BY InitIInv, NextIInv, PTL DEF Spec

\* A reservation is held exactly while its handoff is under way, the book's
\* lock by the request that chooses, and of the handoffs of one model on one
\* worker at most one is charged, for any fleet and each of the six policies.
THEOREM PlacementsAreReserved == Spec => []PlacementInv
  <1>1. IInv => PlacementInv
    BY DEF IInv
  <1> QED BY <1>1, PlacementInvariant, PTL

\* However stale the registry's snapshots are, a worker where no load failed
\* and no model was evicted has room for all models that are on it or bound
\* for it.
THEOREM MemoryIsNotOvercommitted == Spec => []NoOvercommit
  <1>1. ASSUME IInv PROVE NoOvercommit
    <2> SUFFICES ASSUME NEW w \in Worker \ disturbed
                 PROVE  MemoryOf(Committed(w)) + SafetyReserve <= Total
      BY DEF NoOvercommit, Committed
    <2>1. Types /\ MemoryOf(Bound(w)) + SafetyReserve <= Total
      BY <1>1 DEF IInv, BoundFits
    <2>2. Committed(w) \subseteq Bound(w) /\ Bound(w) \subseteq Model
      BY <2>1, BoundModels DEF Committed, Bound
    <2>3. MemoryOf(Committed(w)) <= MemoryOf(Bound(w)) /\ MemoryOf(Bound(w)) \in Nat /\ MemoryOf(Committed(w)) \in Nat
      BY <2>2, MemoryFacts
    <2> QED BY <2>1, <2>3, PlacementAssumption
  <1> QED BY <1>1, PlacementInvariant, PTL

\* Fewer choices apart than there are candidates, round robin never chooses
\* the same worker twice while the candidates stay the same.
THEOREM RoundRobinIsFair == Spec => []RoundRobinRotates
  <1>1. ASSUME IInv PROVE RoundRobinRotates
    <2> DEFINE n == Cardinality(rotation.among)
               l == Len(rotation.chosen)
    <2> SUFFICES ASSUME NEW i \in DOMAIN rotation.chosen, NEW j \in DOMAIN rotation.chosen,
                        i < j, j - i < n, rotation.chosen[i] = rotation.chosen[j]
                 PROVE  FALSE
      BY DEF RoundRobinRotates
    <2>1. rotation.among \subseteq Worker /\ rotation.chosen \in Seq(Worker) /\ next \in Nat
      BY <1>1 DEF IInv, Types
    <2>2. n \in Nat /\ n > 0
      <3>1. IsFiniteSet(rotation.among)
        BY <2>1, PlacementAssumption, FS_Subset
      <3> QED BY <1>1, <3>1, FS_CardinalityType DEF IInv, Rotation
    <2>3. /\ l \in Nat /\ i \in Nat /\ j \in Nat /\ 1 <= i /\ i <= l /\ 1 <= j /\ j <= l
          /\ i < j /\ j - i < n
      BY <2>1
    <2>4. l <= next /\ (next - l + i - 1) % n = (next - l + j - 1) % n
      BY <1>1 DEF IInv, Rotation
    <2>5. ASSUME NEW k \in Nat, NEW s \in Nat, NEW t \in Nat, NEW x \in Nat, k = n, s = i, t = j, x = l
          PROVE  FALSE
      <3> HIDE DEF n, l
      <3>1. /\ s < t /\ t - s < k /\ 1 <= s /\ 1 <= t /\ x <= next /\ k > 0
            /\ (next - x + s - 1) % k = (next - x + t - 1) % k
        BY <2>2, <2>3, <2>4, <2>5
      <3>2. /\ next - x + s - 1 \in Nat /\ next - x + t - 1 \in Nat
            /\ next - x + s - 1 < next - x + t - 1 /\ (next - x + t - 1) - (next - x + s - 1) < k
        BY <2>1, <3>1
      <3> QED BY <3>1, <3>2, RemaindersDiffer
    <2> QED BY <2>2, <2>3, <2>5
  <1> QED BY <1>1, PlacementInvariant, PTL

=============================================================================
