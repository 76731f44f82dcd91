---------------------------- MODULE MCFairQueue -----------------------------
(* Instances of FairQueue for TLC.  Requests are numbered by their arrival. *)
EXTENDS FairQueue

CONSTANTS t1, t2, t3, N

\* Mixed load: three tenants, costs of one to three quanta, two priorities.
MixedTenantOf == [r \in Request |-> IF r \in {1, 2, 4} THEN t1 ELSE IF r \in {3, 6} THEN t2 ELSE t3]
MixedCost == [r \in Request |-> IF r = 3 THEN 3 ELSE IF r = 4 THEN 2 ELSE 1]
MixedPriority == [r \in Request |-> IF r \in {2, 5} THEN 2 ELSE 1]
MixedWeight == t1 :> 1 @@ t2 :> 1 @@ t3 :> 2

ByNumber == [r \in Request |-> r]
InOrder == [i \in 1..N |-> i]

=============================================================================
