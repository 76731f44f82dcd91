--------------------------- MODULE BlockOwnership ---------------------------
(***************************************************************************)
(* What a KV block allocator promises its callers, free of lists, counters *)
(* and locks: a partial map from owners to the sets of blocks they hold.   *)
(* A block is free exactly when nobody holds it, fresh blocks go to one    *)
(* owner only, and only an explicit Share makes two owners hold a block.   *)
(*                                                                         *)
(* KVBlockAllocator implements this specification; TokenEngine is written  *)
(* on top of it.                                                           *)
(***************************************************************************)

CONSTANTS Owner,   \* identifiers that may own blocks (request ids)
          Block    \* the fixed pool of blocks

VARIABLE holds     \* [subset of Owner -> SUBSET Block]

-----------------------------------------------------------------------------
Allocated == UNION {holds[o] : o \in DOMAIN holds}

Available == Block \ Allocated

\* No other owner holds a block of o.
Exclusive(o) ==
    \A p \in DOMAIN holds \ {o} : holds[p] \cap holds[o] = {}

\* The map after owner o is given exactly the blocks S.
Holding(o, S) ==
    [p \in DOMAIN holds \cup {o} |-> IF p = o THEN S ELSE holds[p]]

-----------------------------------------------------------------------------
Init == holds = [o \in {} |-> {}]

\* A new owner receives blocks nobody holds.
Acquire(o, S) ==
    /\ o \notin DOMAIN holds
    /\ S \subseteq Available
    /\ holds' = Holding(o, S)

\* A new owner joins the owners of blocks that are already held.
Share(o, S) ==
    /\ o \notin DOMAIN holds
    /\ S # {}
    /\ S \subseteq Allocated
    /\ holds' = Holding(o, S)

\* An owner that shares nothing receives more blocks nobody holds ...
Grow(o, S) ==
    /\ o \in DOMAIN holds
    /\ Exclusive(o)
    /\ S \subseteq Available
    /\ holds' = Holding(o, holds[o] \cup S)

\* ... or gives some of its blocks back.
Shrink(o, S) ==
    /\ o \in DOMAIN holds
    /\ Exclusive(o)
    /\ S \subseteq holds[o]
    /\ holds' = Holding(o, holds[o] \ S)

\* An owner disappears with everything it holds.
Drop(o) ==
    /\ o \in DOMAIN holds
    /\ holds' = [p \in DOMAIN holds \ {o} |-> holds[p]]

Next ==
    \E o \in Owner :
        \/ \E S \in SUBSET Block :
              Acquire(o, S) \/ Share(o, S) \/ Grow(o, S) \/ Shrink(o, S)
        \/ Drop(o)

Spec == Init /\ [][Next]_holds

=============================================================================
