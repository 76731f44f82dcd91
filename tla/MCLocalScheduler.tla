-------------------------- MODULE MCLocalScheduler --------------------------
(* Instances of LocalScheduler for TLC. *)
EXTENDS LocalScheduler

CONSTANTS r1, r2, r3

OneKind == [r \in Request |-> "a"]
TwoKinds == [r \in Request |-> IF r = r2 THEN "b" ELSE "a"]
Light == [r \in Request |-> 1]
OneHeavy == [r \in Request |-> IF r = r3 THEN 2 ELSE 1]

\* Batches stopped by a request of another kind, or by one that exceeds the
\* token budget, and the serial policy.
MCSetups ==
    {[policy |-> "dynamic_batch", kind |-> TwoKinds, cost |-> Light],
     [policy |-> "dynamic_batch", kind |-> OneKind, cost |-> OneHeavy],
     [policy |-> "no_batching", kind |-> OneKind, cost |-> Light]}

=============================================================================
