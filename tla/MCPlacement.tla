---------------------------- MODULE MCPlacement ----------------------------
(* Instances of Placement for TLC. *)
EXTENDS Placement

CONSTANTS r1, r2, r3, a, b

\* Two requests for one model and one for another, or three for one: a worker
\* has room for a or for b, and each handoff wants that room of its own.
Mixed == (r1 :> a) @@ (r2 :> a) @@ (r3 :> b)
Same == [r \in Request |-> a]
MCTokens == [r \in Request |-> 2]
MCMemory == (a :> 2) @@ (b :> 3)
MCMaxContext == (a :> 4) @@ (b :> 2)
MCSpeed == (1 :> 1) @@ (2 :> 2)
EveryPair == Worker \X Model

WarmA == [w \in Worker |-> {a}]
OneWarm == [w \in Worker |-> IF w = 1 THEN {a} ELSE {}]
AllCold == [w \in Worker |-> {}]

MCSetups ==
    {[policy |-> p, models |-> Mixed, known |-> Worker, resident |-> OneWarm] : p \in Policies}
      \cup {[policy |-> "round_robin", models |-> Same, known |-> Worker, resident |-> WarmA],
            [policy |-> "demand_aware_placement", models |-> Mixed, known |-> Worker, resident |-> AllCold],
            [policy |-> "memory_aware_least_loaded", models |-> Mixed, known |-> {1}, resident |-> OneWarm]}

=============================================================================
