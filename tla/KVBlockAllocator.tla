-------------------------- MODULE KVBlockAllocator --------------------------
(***************************************************************************)
(* The fixed-block KV-cache allocator (inference/kv_cache.py): a free list *)
(* used as a stack, one block table per owner, a reference count per       *)
(* allocated block, and a pressure flag with two watermarks.  Every        *)
(* operation runs under one lock and is therefore one action.              *)
(*                                                                         *)
(* Calls that raise before touching any state (an empty owner id, negative *)
(* tokens, an owner that already exists or is unknown, a table that shares *)
(* a block) change nothing and are not actions.                            *)
(***************************************************************************)
EXTENDS Naturals, Sequences, FiniteSets

CONSTANTS
    Owner,           \* owner identifiers
    TotalBlocks,     \* total_blocks
    BlockSize,       \* block_size_tokens
    HighBlocks,      \* fewest used blocks with utilization >= high_watermark
    LowBlocks,       \* most used blocks with utilization <= low_watermark
    MaxTokens,       \* bound: largest token capacity a caller asks for
    MaxFailures      \* bound: _allocation_failures stops counting here

\* __init__ refuses other dimensions and watermarks.
ASSUME AllocatorAssumption ==
    /\ TotalBlocks \in Nat \ {0}
    /\ BlockSize \in Nat \ {0}
    /\ HighBlocks \in 1..TotalBlocks
    /\ LowBlocks \in 0..(HighBlocks - 1)
    /\ MaxTokens \in Nat
    /\ MaxFailures \in Nat

VARIABLES
    free,                \* _free: sequence of block ids, popped at its end
    owners,              \* _owners: owner -> sequence of block ids
    references,          \* _references: allocated block -> count
    allocation_failures, \* _allocation_failures
    pressure             \* _pressure

vars == <<free, owners, references, allocation_failures, pressure>>

Block == 0..(TotalBlocks - 1)

-----------------------------------------------------------------------------
BlocksOf(s) == {s[i] : i \in DOMAIN s}

NoRepeats(s) == \A i, j \in DOMAIN s : s[i] = s[j] => i = j

\* A dict after d[k] = v, and after the keys K are deleted.
Put(d, k, v) == [x \in DOMAIN d \cup {k} |-> IF x = k THEN v ELSE d[x]]
Without(d, K) == [x \in DOMAIN d \ K |-> d[x]]

\* blocks_for_tokens: the ceiling of tokens / block_size_tokens.
BlocksForTokens(tokens) == (tokens + BlockSize - 1) \div BlockSize

\* n pops of the free list, in order, and the list that is left.
Popped(n) == [i \in 1..n |-> free[Len(free) + 1 - i]]
AfterPops(n) == SubSeq(free, 1, Len(free) - n)

\* _references after every block of s got the count 1.
FirstReferences(s) ==
    [b \in DOMAIN references \cup BlocksOf(s) |->
        IF b \in BlocksOf(s) THEN 1 ELSE references[b]]

\* Faulty variants of _update_pressure: one watermark only; never lowered.
UpdatePressureOneMark ==
    pressure' = (Cardinality(DOMAIN references') >= HighBlocks)
UpdatePressureSticky ==
    pressure' = (pressure \/ Cardinality(DOMAIN references') >= HighBlocks)

\* _update_pressure, evaluated on the new reference counts.
UpdatePressure ==
    LET used == Cardinality(DOMAIN references')
    IN  pressure' = IF ~pressure /\ used >= HighBlocks THEN TRUE
                    ELSE IF pressure /\ used <= LowBlocks THEN FALSE
                    ELSE pressure

\* The capacity error of allocate and resize.
CapacityFailure ==
    /\ allocation_failures' = IF allocation_failures < MaxFailures
                              THEN allocation_failures + 1
                              ELSE allocation_failures
    /\ UNCHANGED <<free, owners, references>>
    /\ UpdatePressure

-----------------------------------------------------------------------------
Init ==
    /\ free = [i \in 1..TotalBlocks |-> TotalBlocks - i]
    /\ owners = [o \in {} |-> <<>>]
    /\ references = [b \in {} |-> 0]
    /\ allocation_failures = 0
    /\ pressure = FALSE

Allocate(o, tokens) ==
    LET required == BlocksForTokens(tokens)
    IN  /\ o \notin DOMAIN owners
        /\ \/ /\ required > Len(free)
              /\ CapacityFailure
           \/ /\ required <= Len(free)
              /\ free' = AfterPops(required)
              /\ owners' = Put(owners, o, Popped(required))
              /\ references' = FirstReferences(Popped(required))
              /\ UpdatePressure
              /\ UNCHANGED allocation_failures

\* retain: the new owner joins the owners of blocks that are allocated.
Retain(o, blocks) ==
    /\ blocks # <<>>
    /\ NoRepeats(blocks)
    /\ o \notin DOMAIN owners
    /\ BlocksOf(blocks) \subseteq DOMAIN references
    /\ owners' = Put(owners, o, blocks)
    /\ references' = [b \in DOMAIN references |->
                        IF b \in BlocksOf(blocks) THEN references[b] + 1
                                                  ELSE references[b]]
    /\ UpdatePressure
    /\ UNCHANGED <<free, allocation_failures>>

ResizeGrow(o, required) ==
    LET new == Popped(required - Len(owners[o]))
    IN  /\ free' = AfterPops(required - Len(owners[o]))
        /\ owners' = [owners EXCEPT ![o] = @ \o new]
        /\ references' = FirstReferences(new)

ResizeShrink(o, required) ==
    LET cut == SubSeq(owners[o], required + 1, Len(owners[o]))
    IN  /\ free' = free \o cut
        /\ owners' = [owners EXCEPT ![o] = SubSeq(@, 1, required)]
        /\ references' = Without(references, BlocksOf(cut))

\* Faulty variant: resize does not look at the reference counts.
UnsharedUnchecked(o) == TRUE

\* "cannot resize a shared KV block table"
Unshared(o) == \A b \in BlocksOf(owners[o]) : references[b] = 1

Resize(o, tokens) ==
    LET required == BlocksForTokens(tokens)
    IN  /\ o \in DOMAIN owners
        /\ Unshared(o)
        /\ \/ /\ required > Len(owners[o]) + Len(free)
              /\ CapacityFailure
           \/ /\ required > Len(owners[o])
              /\ required <= Len(owners[o]) + Len(free)
              /\ ResizeGrow(o, required)
              /\ UpdatePressure
              /\ UNCHANGED allocation_failures
           \/ /\ required < Len(owners[o])
              /\ ResizeShrink(o, required)
              /\ UpdatePressure
              /\ UNCHANGED allocation_failures
           \/ /\ required = Len(owners[o])
              /\ UNCHANGED <<free, owners, references, allocation_failures>>
              /\ UpdatePressure

\* Faulty variants: a block is freed one release late; at the first release.
LastReferencesLate(o) == {b \in BlocksOf(owners[o]) : references[b] = 0}
LastReferencesEarly(o) == BlocksOf(owners[o])

\* The blocks of o whose last reference goes away when o is released.
LastReferences(o) == {b \in BlocksOf(owners[o]) : references[b] = 1}

\* All ways to list a finite set of blocks, each of them once.
Listings(S) ==
    {s \in [1..Cardinality(S) -> S] : NoRepeats(s) /\ BlocksOf(s) = S}

\* release.  The code appends the freed blocks in table order; no property
\* depends on that order, so any order is allowed.
Release(o) ==
    /\ o \in DOMAIN owners
    /\ owners' = Without(owners, {o})
    /\ references' = [b \in DOMAIN references \ LastReferences(o) |->
                        IF b \in BlocksOf(owners[o]) THEN references[b] - 1
                                                     ELSE references[b]]
    /\ \E freed \in Listings(LastReferences(o)) : free' = free \o freed
    /\ UpdatePressure
    /\ UNCHANGED allocation_failures

\* The block lists a caller can pass to retain.
BlockLists == UNION {[1..n -> Block] : n \in 1..TotalBlocks}

Next ==
    \E o \in Owner :
        \/ \E tokens \in 0..MaxTokens : Allocate(o, tokens) \/ Resize(o, tokens)
        \/ \E blocks \in BlockLists : Retain(o, blocks)
        \/ Release(o)

Spec == Init /\ [][Next]_vars

-----------------------------------------------------------------------------
(* Properties *)

\* Every field has the shape the class gives it, and no stored count is zero.
TypeOK ==
    /\ free \in Seq(Block)
    /\ DOMAIN owners \subseteq Owner
    /\ owners \in [DOMAIN owners -> Seq(Block)]
    /\ DOMAIN references \subseteq Block
    /\ references \in [DOMAIN references -> Nat \ {0}]
    /\ allocation_failures \in Nat
    /\ pressure \in BOOLEAN

OwnersOf(b) == {o \in DOMAIN owners : b \in BlocksOf(owners[o])}

\* The free list names no block twice, and a block is on it exactly when it
\* has no reference: none is lost, invented or handed out while in use.
FreeXorAllocated ==
    /\ NoRepeats(free)
    /\ \A b \in Block : b \in BlocksOf(free) <=> b \notin DOMAIN references

\* No block table names a block twice.
TablesHaveNoRepeats == \A o \in DOMAIN owners : NoRepeats(owners[o])

\* A block is allocated exactly when some table names it, and its count is the
\* number of tables that do.
CountsMatchTables ==
    \A b \in Block :
        /\ b \in DOMAIN references <=> OwnersOf(b) # {}
        /\ b \in DOMAIN references => references[b] = Cardinality(OwnersOf(b))

\* What assert_invariants checks (kv_cache.py:163-178), after any sequence of
\* calls: free and allocated blocks partition the pool, tables have no
\* repeats, and reference counts equal the number of owning tables.
BlockAccounting ==
    /\ FreeXorAllocated
    /\ TablesHaveNoRepeats
    /\ CountsMatchTables

\* The pressure flag is never stale: at or above the high watermark it is up,
\* at or below the low one it is down, whatever call came last, a refused one
\* included (kv_cache.py:195-200 is called on every path).
PressureTracksUse ==
    LET used == Cardinality(DOMAIN references)
    IN  /\ used >= HighBlocks => pressure
        /\ used <= LowBlocks => ~pressure

\* Hysteresis: between the watermarks the flag keeps its value, so it cannot
\* flap while use wanders there.
PressureDoesNotFlap ==
    [][LET used == Cardinality(DOMAIN references')
       IN  used > LowBlocks /\ used < HighBlocks => pressure' = pressure]_vars

\* The allocator implements BlockOwnership: the blocks of its tables change
\* only by the steps that module allows.  A refused call is a stutter there.
Ownership ==
    INSTANCE BlockOwnership WITH
        holds <- [o \in DOMAIN owners |-> BlocksOf(owners[o])]

ImplementsOwnership == Ownership!Spec

=============================================================================
