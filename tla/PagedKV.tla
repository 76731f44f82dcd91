------------------------------- MODULE PagedKV -------------------------------
(***************************************************************************)
(* A pool of KV blocks in use: by the token engine, which only accounts    *)
(* for blocks (KVBlockAllocator), or by the physical paged cache           *)
(* (inference/paged_kv.py), which stores keys and values in the blocks of  *)
(* its own allocator and gathers them again through the block tables.      *)
(*                                                                         *)
(* All layers, keys and values are written and read at the same places, so *)
(* one page stands for them.  What is stored is represented by the         *)
(* sequence and the logical position it was stored for; what a released    *)
(* sequence left behind is as good as uninitialized memory, Junk.          *)
(***************************************************************************)
EXTENDS KVBlockAllocator

CONSTANT Junk   \* contents no current sequence has written

VARIABLES
    paged,     \* TRUE: the pool of a TorchPagedKVCache; fixed at start
    pages,     \* per block and offset: what was written there last
    lengths    \* _lengths: sequence -> tokens stored

pageVars == <<paged, pages, lengths>>
poolVars == <<vars, pageVars>>

PoolInit ==
    /\ Init
    /\ paged \in BOOLEAN
    /\ pages = [b \in Block |-> [i \in 0..(BlockSize - 1) |-> Junk]]
    /\ lengths = [o \in {} |-> 0]

Written(o, position) == <<o, position>>

\* allocate: a refused allocation leaves no length behind.
PagedAllocate(o, tokens) ==
    /\ tokens > 0
    /\ Allocate(o, tokens)
    /\ IF o \in DOMAIN owners'
       THEN lengths' = Put(lengths, o, 0)
       ELSE UNCHANGED lengths
    /\ UNCHANGED <<paged, pages>>

\* Mutant: the offset in a page is counted from the start of the append.
PlaceFromStart(o, position) ==
    <<owners[o][position \div BlockSize + 1], (position - lengths[o]) % BlockSize>>

\* divmod of the logical position: the page of the table and the place in it
Place(o, position) == <<owners[o][position \div BlockSize + 1], position % BlockSize>>

\* append of n tokens within the reserved capacity
PagedAppend(o, n) ==
    LET new == lengths[o]..(lengths[o] + n - 1) IN
    /\ o \in DOMAIN lengths
    /\ lengths[o] + n <= Len(owners[o]) * BlockSize
    /\ pages' = [b \in Block |-> [i \in 0..(BlockSize - 1) |->
          IF \E p \in new : Place(o, p) = <<b, i>>
          THEN Written(o, CHOOSE p \in new : Place(o, p) = <<b, i>>)
          ELSE pages[b][i]]]
    /\ lengths' = [lengths EXCEPT ![o] = @ + n]
    /\ UNCHANGED <<vars, paged>>

PagedRelease(o) ==
    /\ Release(o)
    /\ lengths' = Without(lengths, {o})
    /\ pages' = [b \in Block |-> [i \in 0..(BlockSize - 1) |->
          IF \E p \in 0..(TotalBlocks * BlockSize - 1) : pages[b][i] = Written(o, p)
          THEN Junk ELSE pages[b][i]]]
    /\ UNCHANGED paged

PagedNext ==
    \E o \in Owner :
        \/ \E tokens \in 1..MaxTokens : PagedAllocate(o, tokens) \/ PagedAppend(o, tokens)
        \/ PagedRelease(o)

PoolNext ==
    \/ paged /\ PagedNext
    \/ ~paged /\ Next /\ UNCHANGED pageVars

PoolSpec == PoolInit /\ [][PoolNext]_poolVars

-----------------------------------------------------------------------------
\* materialize: a row of the padded batch takes whole pages from the table
\* until the length is reached; the rest is zero and masked out.
Row(o, width) ==
    [i \in 1..width |->
        IF i <= lengths[o] THEN pages[owners[o][(i - 1) \div BlockSize + 1]][(i - 1) % BlockSize] ELSE 0]

Mask(o, width) == [i \in 1..width |-> i <= lengths[o]]

\* Whatever was released and reused in between, materialize gives every
\* sequence exactly what was appended to it, in order and unmasked, in a batch
\* of any width (that of its longest sequence), and the lengths stay within the
\* tables (paged_kv.py, assert_invariants).
MaterializesWhatWasAppended ==
    \A o \in DOMAIN lengths :
        /\ o \in DOMAIN owners /\ lengths[o] <= Len(owners[o]) * BlockSize
        /\ \A longest \in DOMAIN lengths :
              LET width == lengths[longest] IN
              lengths[o] <= width =>
                 \A i \in 1..width :
                    IF Mask(o, width)[i] THEN Row(o, width)[i] = Written(o, i - 1) ELSE i > lengths[o]

=============================================================================
