------------------------- MODULE MCPagedKV -------------------------
(* Model-checking instance of the block pool: three interchangeable owners. *)
EXTENDS PagedKV, TLC

CONSTANTS o1, o2, o3

MCOwner == {o1, o2, o3}

OwnerSymmetry == Permutations(MCOwner)

=============================================================================
