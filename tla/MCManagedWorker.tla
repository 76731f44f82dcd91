-------------------------- MODULE MCManagedWorker ---------------------------
(* Instances of ManagedWorker for TLC. *)
EXTENDS ManagedWorker

CONSTANTS a, b, r1, r2, r3

\* a is small, b fits only without a; r1 and r2 ask for a, r3 for b.
MCModelOf == [r \in Request |-> IF r = r3 THEN b ELSE a]
MCSize == [m \in Model |-> IF m = a THEN 1 ELSE 2]
MCKind == MCModelOf
MCTokens == [r \in Request |-> 1]

=============================================================================
