---------------------------- MODULE MCAdmission -----------------------------
(* Instances of Admission for TLC: two tenants, one with tight limits. *)
EXTENDS Admission, TLC

CONSTANTS r1, r2, r3, r4, t1, t2

MCTenantOf == r1 :> t1 @@ r2 :> t1 @@ r3 :> t1 @@ r4 :> t2
MCTokens == r1 :> 1 @@ r2 :> 2 @@ r3 :> 1 @@ r4 :> 2
MCMaxQueued == t1 :> 2 @@ t2 :> 1
MCMaxConcurrent == t1 :> 1 @@ t2 :> 1
MCTokenQuota == t1 :> 3 @@ t2 :> 2

=============================================================================
