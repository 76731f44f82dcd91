-------------------------- MODULE LocalServingProofs -------------------------
(***************************************************************************)
(* Proofs about the parts of one serving process, for every value of their *)
(* constants.                                                              *)
(*                                                                         *)
(* KVBlockAllocator and PagedKV: the allocator's accounting, its pressure  *)
(* flag and that it implements BlockOwnership; that the paged cache uses   *)
(* its allocator within the allocator's rules, and that what it gathers is *)
(* what was appended.                                                      *)
(*                                                                         *)
(* LocalScheduler: queue, deque and batch share nothing and lose nothing,  *)
(* through batching, expiry, cancellation, failures and the shutdown.      *)
(*                                                                         *)
(* TokenBackend: caches and masks spell what the sequences were fed, each  *)
(* token is sampled from its own history, and snapshots never change.      *)
(***************************************************************************)
EXTENDS PagedKV, LocalScheduler, TokenBackend, FoldFacts, SequenceTheorems, FunctionTheorems

-----------------------------------------------------------------------------
(* Lists of blocks *)

\* blocks_for_tokens returns a number of blocks, never a negative one.
LEMMA BlocksForTokensType ==
    ASSUME NEW tokens \in Nat
    PROVE  BlocksForTokens(tokens) \in Nat
  BY AllocatorAssumption DEF BlocksForTokens

\* Popping the free list n times moves n distinct blocks out of it.
LEMMA PopFacts ==
    ASSUME free \in Seq(Block), NoRepeats(free), NEW n \in 0..Len(free)
    PROVE  /\ Popped(n) \in Seq(Block)
           /\ DOMAIN Popped(n) = 1..n
           /\ NoRepeats(Popped(n))
           /\ AfterPops(n) \in Seq(Block)
           /\ NoRepeats(AfterPops(n))
           /\ BlocksOf(Popped(n)) \subseteq BlocksOf(free)
           /\ BlocksOf(AfterPops(n)) = BlocksOf(free) \ BlocksOf(Popped(n))
  <1> DEFINE k == Len(free) - n
  <1>1. /\ Len(free) \in Nat
        /\ DOMAIN free = 1..Len(free)
        /\ \A i \in 1..Len(free) : free[i] \in Block
        /\ k \in 0..Len(free)
    OBVIOUS
  <1>2. /\ DOMAIN Popped(n) = 1..n
        /\ \A i \in 1..n : /\ Len(free) + 1 - i \in 1..Len(free)
                           /\ Popped(n)[i] = free[Len(free) + 1 - i]
    BY <1>1 DEF Popped
  <1>3. Popped(n) \in Seq(Block)
    BY <1>1, <1>2 DEF Popped
  <1>4. NoRepeats(Popped(n))
    BY <1>1, <1>2 DEF NoRepeats
  <1>5. /\ AfterPops(n) \in Seq(Block)
        /\ DOMAIN AfterPops(n) = 1..k
        /\ \A i \in 1..k : AfterPops(n)[i] = free[i]
    BY <1>1 DEF AfterPops
  <1>6. NoRepeats(AfterPops(n))
    BY <1>1, <1>5 DEF NoRepeats
  <1>7. BlocksOf(Popped(n)) \subseteq BlocksOf(free)
    BY <1>1, <1>2 DEF BlocksOf
  <1>8. BlocksOf(AfterPops(n)) \subseteq BlocksOf(free) \ BlocksOf(Popped(n))
    <2> SUFFICES ASSUME NEW i \in 1..k
                 PROVE  free[i] \in BlocksOf(free) \ BlocksOf(Popped(n))
      BY <1>5 DEF BlocksOf
    <2>1. i \in DOMAIN free
      BY <1>1
    <2>2. \A j \in 1..n : free[i] # free[Len(free) + 1 - j]
      BY <1>1, <1>2, <2>1 DEF NoRepeats
    <2> QED
      BY <1>2, <2>1, <2>2 DEF BlocksOf
  <1>9. BlocksOf(free) \ BlocksOf(Popped(n)) \subseteq BlocksOf(AfterPops(n))
    <2> SUFFICES ASSUME NEW i \in 1..Len(free), free[i] \notin BlocksOf(Popped(n))
                 PROVE  free[i] \in BlocksOf(AfterPops(n))
      BY <1>1 DEF BlocksOf
    <2>1. CASE i \in 1..k
      BY <2>1, <1>5 DEF BlocksOf
    <2>2. CASE i \notin 1..k
      <3>1. /\ Len(free) + 1 - i \in 1..n
            /\ Popped(n)[Len(free) + 1 - i] = free[i]
        BY <1>1, <1>2, <2>2
      <3> QED
        BY <3>1, <1>2 DEF BlocksOf
    <2> QED BY <2>1, <2>2
  <1> QED BY <1>2, <1>3, <1>4, <1>5, <1>6, <1>7, <1>8, <1>9

\* Appending a list to another one unites their blocks, and repeats nothing if
\* the two have no block in common.
LEMMA JoinedBlocks ==
    ASSUME NEW s \in Seq(Block), NEW t \in Seq(Block)
    PROVE  /\ s \o t \in Seq(Block)
           /\ BlocksOf(s \o t) = BlocksOf(s) \cup BlocksOf(t)
           /\ NoRepeats(s) /\ NoRepeats(t) /\ BlocksOf(s) \cap BlocksOf(t) = {}
                => NoRepeats(s \o t)
  <1> DEFINE u == s \o t
  <1>1. /\ Len(s) \in Nat /\ DOMAIN s = 1..Len(s)
        /\ Len(t) \in Nat /\ DOMAIN t = 1..Len(t)
        /\ u \in Seq(Block)
        /\ DOMAIN u = 1..(Len(s) + Len(t))
        /\ \A i \in 1..Len(s) : u[i] = s[i]
        /\ \A i \in (Len(s) + 1)..(Len(s) + Len(t)) : u[i] = t[i - Len(s)]
    OBVIOUS
  <1>2. BlocksOf(u) \subseteq BlocksOf(s) \cup BlocksOf(t)
    <2> SUFFICES ASSUME NEW i \in 1..(Len(s) + Len(t))
                 PROVE  u[i] \in BlocksOf(s) \cup BlocksOf(t)
      BY <1>1 DEF BlocksOf
    <2> QED BY <1>1 DEF BlocksOf
  <1>3. BlocksOf(s) \subseteq BlocksOf(u)
    BY <1>1 DEF BlocksOf
  <1>4. BlocksOf(t) \subseteq BlocksOf(u)
    <2> SUFFICES ASSUME NEW j \in 1..Len(t)
                 PROVE  t[j] \in BlocksOf(u)
      BY <1>1 DEF BlocksOf
    <2>1. /\ j + Len(s) \in (Len(s) + 1)..(Len(s) + Len(t))
          /\ (j + Len(s)) - Len(s) = j
      BY <1>1
    <2>2. u[j + Len(s)] = t[j]
      BY <1>1, <2>1
    <2>3. j + Len(s) \in DOMAIN u
      BY <1>1, <2>1
    <2> QED BY <2>2, <2>3 DEF BlocksOf
  <1>5. ASSUME NoRepeats(s), NoRepeats(t), BlocksOf(s) \cap BlocksOf(t) = {}
        PROVE  NoRepeats(u)
    <2> SUFFICES ASSUME NEW i \in 1..(Len(s) + Len(t)),
                        NEW j \in 1..(Len(s) + Len(t)), u[i] = u[j]
                 PROVE  i = j
      BY <1>1 DEF NoRepeats
    <2>1. CASE i <= Len(s) /\ j <= Len(s)
      BY <1>1, <1>5, <2>1 DEF NoRepeats
    <2>2. CASE i > Len(s) /\ j > Len(s)
      <3>1. i - Len(s) \in 1..Len(t) /\ j - Len(s) \in 1..Len(t)
        BY <1>1, <2>2
      <3>2. t[i - Len(s)] = t[j - Len(s)]
        BY <1>1, <2>2
      <3> QED BY <1>1, <1>5, <3>1, <3>2 DEF NoRepeats
    <2>3. \A x \in 1..Len(s), y \in 1..Len(t) : s[x] # t[y]
      BY <1>1, <1>5 DEF BlocksOf
    <2>4. CASE i <= Len(s) /\ j > Len(s)
      BY <1>1, <2>3, <2>4
    <2>5. CASE i > Len(s) /\ j <= Len(s)
      BY <1>1, <2>3, <2>5
    <2> QED BY <1>1, <2>1, <2>2, <2>4, <2>5
  <1> QED BY <1>1, <1>2, <1>3, <1>4, <1>5

\* Cutting a list after its first k blocks splits its blocks in two.
LEMMA CutFacts ==
    ASSUME NEW s \in Seq(Block), NoRepeats(s), NEW k \in 0..Len(s)
    PROVE  /\ SubSeq(s, 1, k) \in Seq(Block)
           /\ SubSeq(s, k + 1, Len(s)) \in Seq(Block)
           /\ NoRepeats(SubSeq(s, 1, k))
           /\ NoRepeats(SubSeq(s, k + 1, Len(s)))
           /\ BlocksOf(SubSeq(s, k + 1, Len(s))) \subseteq BlocksOf(s)
           /\ BlocksOf(SubSeq(s, 1, k)) =
                 BlocksOf(s) \ BlocksOf(SubSeq(s, k + 1, Len(s)))
  <1> DEFINE kept == SubSeq(s, 1, k)
             cut  == SubSeq(s, k + 1, Len(s))
             m    == Len(s) - k
  <1>1. /\ Len(s) \in Nat /\ DOMAIN s = 1..Len(s)
        /\ m \in 0..Len(s)
        /\ \A i \in 1..Len(s) : s[i] \in Block
    OBVIOUS
  <1>2. /\ kept \in Seq(Block)
        /\ DOMAIN kept = 1..k
        /\ \A i \in 1..k : i \in 1..Len(s) /\ kept[i] = s[i]
    BY <1>1
  <1>3. /\ cut \in Seq(Block)
        /\ DOMAIN cut = 1..m
        /\ \A i \in 1..m : i + k \in 1..Len(s) /\ cut[i] = s[i + k]
    BY <1>1
  <1> HIDE DEF kept, cut
  <1>4. NoRepeats(kept)
    BY <1>1, <1>2 DEF NoRepeats
  <1>5. NoRepeats(cut)
    <2> SUFFICES ASSUME NEW i \in 1..m, NEW j \in 1..m, cut[i] = cut[j]
                 PROVE  i = j
      BY <1>3 DEF NoRepeats
    <2>1. i + k = j + k
      BY <1>1, <1>3 DEF NoRepeats
    <2> QED BY <2>1
  <1>6. BlocksOf(cut) \subseteq BlocksOf(s)
    BY <1>1, <1>3 DEF BlocksOf
  <1>7. BlocksOf(kept) \subseteq BlocksOf(s)
    BY <1>1, <1>2 DEF BlocksOf
  <1>8. BlocksOf(kept) \cap BlocksOf(cut) = {}
    <2> SUFFICES ASSUME NEW i \in 1..k, NEW j \in 1..m, kept[i] = cut[j]
                 PROVE  FALSE
      BY <1>2, <1>3 DEF BlocksOf
    <2>1. s[i] = s[j + k] /\ i # j + k
      BY <1>1, <1>2, <1>3
    <2> QED BY <1>1, <1>2, <1>3, <2>1 DEF NoRepeats
  <1>9. BlocksOf(s) \subseteq BlocksOf(kept) \cup BlocksOf(cut)
    <2> SUFFICES ASSUME NEW i \in 1..Len(s)
                 PROVE  s[i] \in BlocksOf(kept) \cup BlocksOf(cut)
      BY <1>1 DEF BlocksOf
    <2>1. CASE i <= k
      BY <1>1, <1>2, <2>1 DEF BlocksOf
    <2>2. CASE i > k
      <3>1. i - k \in 1..m /\ (i - k) + k = i
        BY <1>1, <2>2
      <3>2. cut[i - k] = s[i]
        BY <1>3, <3>1
      <3> QED BY <1>3, <3>1, <3>2 DEF BlocksOf
    <2> QED BY <1>1, <2>1, <2>2
  <1> QED BY <1>2, <1>3, <1>4, <1>5, <1>6, <1>7, <1>8, <1>9 DEF kept, cut

-----------------------------------------------------------------------------
(* Owners of a block *)

\* A new table adds its owner to the owners of the blocks it names.
LEMMA OwnersAfterPut ==
    ASSUME NEW o, o \notin DOMAIN owners, NEW s, owners' = Put(owners, o, s), NEW b
    PROVE  OwnersOf(b)' = IF b \in BlocksOf(s) THEN OwnersOf(b) \cup {o}
                                              ELSE OwnersOf(b)
  BY DEF OwnersOf, Put

\* A table that changes changes the ownership of its own owner only.
LEMMA OwnersAfterUpdate ==
    ASSUME NEW o \in DOMAIN owners, NEW s,
           owners' = [owners EXCEPT ![o] = s], NEW b
    PROVE  OwnersOf(b)' = IF b \in BlocksOf(s) THEN OwnersOf(b) \cup {o}
                                              ELSE OwnersOf(b) \ {o}
  BY DEF OwnersOf

\* A deleted table removes its owner from the owners of every block.
LEMMA OwnersAfterDelete ==
    ASSUME NEW o, owners' = Without(owners, {o}), NEW b
    PROVE  OwnersOf(b)' = OwnersOf(b) \ {o}
  BY DEF OwnersOf, Without

-----------------------------------------------------------------------------
(* The inductive invariant *)

\* BlockAccounting counts owners, so the induction also needs the tables to be
\* finitely many.
IInv ==
    /\ TypeOK
    /\ IsFiniteSet(DOMAIN owners)
    /\ BlockAccounting

\* The owners of a block are finitely many.
LEMMA OwnersOfFinite ==
    ASSUME IInv, NEW b
    PROVE  /\ IsFiniteSet(OwnersOf(b))
           /\ Cardinality(OwnersOf(b)) \in Nat
  <1>1. OwnersOf(b) \subseteq DOMAIN owners
    BY DEF OwnersOf
  <1> QED BY <1>1, FS_Subset, FS_CardinalityType DEF IInv

\* The blocks of a table and the allocated blocks are blocks of the pool, and
\* the blocks of a table are allocated.
LEMMA TablesAreAllocated ==
    ASSUME IInv, NEW o \in DOMAIN owners
    PROVE  /\ owners[o] \in Seq(Block)
           /\ BlocksOf(owners[o]) \subseteq Block
           /\ BlocksOf(owners[o]) \subseteq DOMAIN references
  <1>1. owners[o] \in Seq(Block)
    BY DEF IInv, TypeOK
  <1>2. BlocksOf(owners[o]) \subseteq Block
    BY <1>1 DEF BlocksOf
  <1>3. \A b \in BlocksOf(owners[o]) : o \in OwnersOf(b)
    BY DEF OwnersOf
  <1>4. BlocksOf(owners[o]) \subseteq DOMAIN references
    BY <1>2, <1>3 DEF IInv, BlockAccounting, CountsMatchTables
  <1> QED BY <1>1, <1>2, <1>4

\* If a block of a table has one reference, the owner of that table is its
\* only owner.
LEMMA OneReferenceOneOwner ==
    ASSUME IInv, NEW o \in DOMAIN owners, NEW b \in BlocksOf(owners[o]),
           references[b] = 1
    PROVE  OwnersOf(b) = {o}
  <1>1. b \in Block /\ b \in DOMAIN references
    BY TablesAreAllocated
  <1>2. Cardinality(OwnersOf(b)) = 1
    BY <1>1 DEF IInv, BlockAccounting, CountsMatchTables
  <1>3. PICK x : OwnersOf(b) = {x}
    BY <1>2, OwnersOfFinite, FS_Singleton
  <1>4. o \in OwnersOf(b)
    BY DEF OwnersOf
  <1> QED BY <1>3, <1>4

\* Initially all blocks are free and nobody owns any.
LEMMA InitIInv == Init => IInv
  <1> SUFFICES ASSUME Init PROVE IInv
    OBVIOUS
  <1> USE AllocatorAssumption DEF Init
  <1>1. /\ DOMAIN free = 1..TotalBlocks
        /\ \A i \in 1..TotalBlocks : free[i] = TotalBlocks - i
        /\ free \in Seq(Block)
    BY DEF Block
  <1>2. TypeOK
    BY <1>1 DEF TypeOK
  <1>3. IsFiniteSet(DOMAIN owners)
    BY FS_EmptySet
  <1>4. NoRepeats(free)
    BY <1>1 DEF NoRepeats
  <1>5. ASSUME NEW b \in Block PROVE b \in BlocksOf(free)
    <2>1. TotalBlocks - b \in 1..TotalBlocks /\ TotalBlocks - (TotalBlocks - b) = b
      BY DEF Block
    <2> QED BY <1>1, <2>1 DEF BlocksOf
  <1>6. FreeXorAllocated
    BY <1>4, <1>5 DEF FreeXorAllocated
  <1>7. TablesHaveNoRepeats
    BY DEF TablesHaveNoRepeats
  <1>8. CountsMatchTables
    BY DEF CountsMatchTables, OwnersOf
  <1> QED BY <1>2, <1>3, <1>6, <1>7, <1>8 DEF IInv, BlockAccounting

\* _update_pressure leaves a Boolean.
LEMMA PressureType ==
    ASSUME pressure \in BOOLEAN, UpdatePressure
    PROVE  pressure' \in BOOLEAN
  BY DEF UpdatePressure

\* A refused call preserves the invariant: it changes no ownership.
LEMMA FailureIInv ==
    ASSUME IInv, CapacityFailure
    PROVE  IInv'
  <1>1. UNCHANGED <<free, owners, references>>
    BY DEF CapacityFailure
  <1>2. allocation_failures' \in Nat
    BY AllocatorAssumption DEF CapacityFailure, IInv, TypeOK
  <1>3. pressure' \in BOOLEAN
    BY PressureType DEF CapacityFailure, IInv, TypeOK
  <1>4. TypeOK'
    BY <1>1, <1>2, <1>3 DEF IInv, TypeOK
  <1>5. BlockAccounting'
    BY <1>1 DEF IInv, BlockAccounting, FreeXorAllocated, TablesHaveNoRepeats,
                CountsMatchTables, OwnersOf
  <1> QED BY <1>1, <1>4, <1>5 DEF IInv

\* Taking n blocks off the free list and giving them the count 1 keeps free
\* and allocated blocks a partition; the blocks taken had no owner.
LEMMA TakeFacts ==
    ASSUME IInv, NEW n \in 0..Len(free),
           free' = AfterPops(n), references' = FirstReferences(Popped(n))
    PROVE  /\ free' \in Seq(Block)
           /\ DOMAIN references' = DOMAIN references \cup BlocksOf(Popped(n))
           /\ DOMAIN references' \subseteq Block
           /\ references' \in [DOMAIN references' -> Nat \ {0}]
           /\ FreeXorAllocated'
           /\ BlocksOf(Popped(n)) \cap DOMAIN references = {}
           /\ \A b \in BlocksOf(Popped(n)) : b \in Block /\ OwnersOf(b) = {}
           /\ \A b \in DOMAIN references' :
                 references'[b] = IF b \in BlocksOf(Popped(n)) THEN 1 ELSE references[b]
  <1> DEFINE new == Popped(n)
  <1>1. /\ free \in Seq(Block) /\ NoRepeats(free)
        /\ DOMAIN references \subseteq Block
        /\ references \in [DOMAIN references -> Nat \ {0}]
        /\ \A b \in Block : b \in BlocksOf(free) <=> b \notin DOMAIN references
        /\ \A b \in Block : b \in DOMAIN references <=> OwnersOf(b) # {}
    BY DEF IInv, TypeOK, BlockAccounting, FreeXorAllocated, CountsMatchTables
  <1>2. /\ new \in Seq(Block)
        /\ free' \in Seq(Block) /\ NoRepeats(free')
        /\ BlocksOf(new) \subseteq BlocksOf(free)
        /\ BlocksOf(free') = BlocksOf(free) \ BlocksOf(new)
    BY <1>1, PopFacts
  <1> HIDE DEF new
  <1>3. BlocksOf(new) \subseteq Block
    BY <1>2 DEF BlocksOf
  <1>4. /\ DOMAIN references' = DOMAIN references \cup BlocksOf(new)
        /\ \A b \in DOMAIN references' :
              references'[b] = IF b \in BlocksOf(new) THEN 1 ELSE references[b]
    BY DEF FirstReferences, new
  <1>5. references' \in [DOMAIN references' -> Nat \ {0}]
    <2>1. \A b \in DOMAIN references' : references'[b] \in Nat \ {0}
      BY <1>1, <1>4
    <2> QED BY <2>1 DEF FirstReferences
  <1>6. \A b \in BlocksOf(new) : b \in Block /\ b \notin DOMAIN references /\ OwnersOf(b) = {}
    BY <1>1, <1>2, <1>3
  <1>7. FreeXorAllocated'
    <2>1. ASSUME NEW b \in Block
          PROVE  b \in BlocksOf(free') <=> b \notin DOMAIN references'
      BY <1>1, <1>2, <1>4, <1>6
    <2> QED BY <1>2, <2>1 DEF FreeXorAllocated, NoRepeats, BlocksOf, Block
  <1> QED BY <1>1, <1>2, <1>3, <1>4, <1>5, <1>6, <1>7 DEF new

\* Allocate preserves the invariant.
LEMMA AllocateIInv ==
    ASSUME IInv, NEW o \in Owner, NEW tokens \in Nat, Allocate(o, tokens)
    PROVE  IInv'
  <1> DEFINE n == BlocksForTokens(tokens)
             new == Popped(n)
  <1>1. n \in Nat
    BY BlocksForTokensType
  <1>2. o \notin DOMAIN owners
    BY DEF Allocate
  <1>3. CASE n > Len(free) /\ CapacityFailure
    BY <1>3, FailureIInv
  <1>4. CASE /\ n <= Len(free)
             /\ free' = AfterPops(n)
             /\ owners' = Put(owners, o, new)
             /\ references' = FirstReferences(new)
             /\ UpdatePressure
             /\ UNCHANGED allocation_failures
    <2>1. n \in 0..Len(free) /\ free \in Seq(Block) /\ NoRepeats(free)
      BY <1>1, <1>4 DEF IInv, TypeOK, BlockAccounting, FreeXorAllocated
    <2>2. new \in Seq(Block) /\ NoRepeats(new)
      BY <2>1, PopFacts
    <2>3. /\ free' \in Seq(Block)
          /\ DOMAIN references' = DOMAIN references \cup BlocksOf(new)
          /\ DOMAIN references' \subseteq Block
          /\ references' \in [DOMAIN references' -> Nat \ {0}]
          /\ FreeXorAllocated'
          /\ BlocksOf(new) \cap DOMAIN references = {}
          /\ \A b \in BlocksOf(new) : b \in Block /\ OwnersOf(b) = {}
          /\ \A b \in DOMAIN references' :
                references'[b] = IF b \in BlocksOf(new) THEN 1 ELSE references[b]
      BY <1>4, <2>1, TakeFacts
    <2> HIDE DEF n, new
    <2>4. /\ DOMAIN owners' = DOMAIN owners \cup {o}
          /\ owners'[o] = new
          /\ \A p \in DOMAIN owners : owners'[p] = owners[p]
          /\ owners' \in [DOMAIN owners' -> Seq(Block)]
      BY <1>2, <1>4, <2>2 DEF Put, IInv, TypeOK
    <2>5. TypeOK'
      BY <1>4, <2>3, <2>4, PressureType DEF IInv, TypeOK
    <2>6. IsFiniteSet(DOMAIN owners')
      BY <2>4, FS_AddElement DEF IInv
    <2>7. TablesHaveNoRepeats'
      BY <2>2, <2>4 DEF IInv, BlockAccounting, TablesHaveNoRepeats, NoRepeats
    <2>8. CountsMatchTables'
      <3> SUFFICES ASSUME NEW b \in Block
                   PROVE  /\ b \in DOMAIN references' <=> OwnersOf(b)' # {}
                          /\ b \in DOMAIN references' =>
                                references'[b] = Cardinality(OwnersOf(b)')
        BY DEF CountsMatchTables, Block
      <3>1. OwnersOf(b)' = IF b \in BlocksOf(new) THEN OwnersOf(b) \cup {o}
                                                 ELSE OwnersOf(b)
        BY <1>2, <1>4, OwnersAfterPut
      <3>2. CASE b \in BlocksOf(new)
        <4>1. OwnersOf(b)' = {o}
          BY <2>3, <3>1, <3>2
        <4>2. Cardinality({o}) = 1
          BY FS_Singleton
        <4> QED BY <2>3, <3>2, <4>1, <4>2
      <3>3. CASE b \notin BlocksOf(new)
        BY <2>3, <3>1, <3>3 DEF IInv, BlockAccounting, CountsMatchTables
      <3> QED BY <3>2, <3>3
    <2> QED BY <2>3, <2>5, <2>6, <2>7, <2>8 DEF IInv, BlockAccounting
  <1> QED BY <1>3, <1>4 DEF Allocate

\* Retain preserves the invariant: each shared block gains one owner and one
\* reference.
LEMMA RetainIInv ==
    ASSUME IInv, NEW o \in Owner, NEW blocks \in Seq(Block), Retain(o, blocks)
    PROVE  IInv'
  <1>1. /\ o \notin DOMAIN owners
        /\ NoRepeats(blocks)
        /\ BlocksOf(blocks) \subseteq DOMAIN references
        /\ owners' = Put(owners, o, blocks)
        /\ UNCHANGED <<free, allocation_failures>>
        /\ UpdatePressure
    BY DEF Retain
  <1>2. /\ DOMAIN references' = DOMAIN references
        /\ \A b \in DOMAIN references :
              references'[b] = IF b \in BlocksOf(blocks) THEN references[b] + 1
                                                        ELSE references[b]
    BY DEF Retain
  <1>3. /\ DOMAIN references \subseteq Block
        /\ references' \in [DOMAIN references' -> Nat \ {0}]
    <2>1. \A b \in DOMAIN references : references'[b] \in Nat \ {0}
      BY <1>2 DEF IInv, TypeOK
    <2> QED BY <1>2, <2>1 DEF Retain, IInv, TypeOK
  <1>4. /\ DOMAIN owners' = DOMAIN owners \cup {o}
        /\ owners'[o] = blocks
        /\ \A p \in DOMAIN owners : owners'[p] = owners[p]
        /\ owners' \in [DOMAIN owners' -> Seq(Block)]
    BY <1>1 DEF Put, IInv, TypeOK
  <1>5. TypeOK'
    BY <1>1, <1>2, <1>3, <1>4, PressureType DEF IInv, TypeOK
  <1>6. IsFiniteSet(DOMAIN owners')
    BY <1>4, FS_AddElement DEF IInv
  <1>7. FreeXorAllocated'
    BY <1>1, <1>2 DEF IInv, BlockAccounting, FreeXorAllocated, NoRepeats, BlocksOf, Block
  <1>8. TablesHaveNoRepeats'
    BY <1>1, <1>4 DEF IInv, BlockAccounting, TablesHaveNoRepeats, NoRepeats
  <1>9. CountsMatchTables'
    <2> SUFFICES ASSUME NEW b \in Block
                 PROVE  /\ b \in DOMAIN references' <=> OwnersOf(b)' # {}
                        /\ b \in DOMAIN references' =>
                              references'[b] = Cardinality(OwnersOf(b)')
      BY DEF CountsMatchTables, Block
    <2>1. OwnersOf(b)' = IF b \in BlocksOf(blocks) THEN OwnersOf(b) \cup {o}
                                                  ELSE OwnersOf(b)
      BY <1>1, OwnersAfterPut
    <2>2. /\ b \in DOMAIN references <=> OwnersOf(b) # {}
          /\ b \in DOMAIN references => references[b] = Cardinality(OwnersOf(b))
      BY DEF IInv, BlockAccounting, CountsMatchTables
    <2>3. CASE b \in BlocksOf(blocks)
      <3>1. o \notin OwnersOf(b)
        BY <1>1 DEF OwnersOf
      <3>2. Cardinality(OwnersOf(b) \cup {o}) = Cardinality(OwnersOf(b)) + 1
        BY <3>1, OwnersOfFinite, FS_AddElement
      <3> QED BY <1>1, <1>2, <2>1, <2>2, <2>3, <3>2
    <2>4. CASE b \notin BlocksOf(blocks)
      BY <1>2, <2>1, <2>2, <2>4
    <2> QED BY <2>3, <2>4
  <1> QED BY <1>5, <1>6, <1>7, <1>8, <1>9 DEF IInv, BlockAccounting

\* Growing a table preserves the invariant.
LEMMA ResizeGrowIInv ==
    ASSUME IInv, NEW o \in DOMAIN owners, NEW required \in Nat,
           required > Len(owners[o]), required <= Len(owners[o]) + Len(free),
           ResizeGrow(o, required), UpdatePressure, UNCHANGED allocation_failures
    PROVE  IInv'
  <1> DEFINE n == required - Len(owners[o])
             new == Popped(n)
             table == owners[o] \o new
  <1>1. /\ owners[o] \in Seq(Block) /\ BlocksOf(owners[o]) \subseteq DOMAIN references
        /\ NoRepeats(owners[o])
        /\ free \in Seq(Block) /\ NoRepeats(free)
    BY TablesAreAllocated
    DEF IInv, TypeOK, BlockAccounting, FreeXorAllocated, TablesHaveNoRepeats
  <1>2. n \in 0..Len(free)
    BY <1>1
  <1>3. /\ free' = AfterPops(n)
        /\ owners' = [owners EXCEPT ![o] = table]
        /\ references' = FirstReferences(new)
    BY DEF ResizeGrow
  <1>4. new \in Seq(Block) /\ NoRepeats(new)
    BY <1>1, <1>2, PopFacts
  <1>5. /\ free' \in Seq(Block)
        /\ DOMAIN references' = DOMAIN references \cup BlocksOf(new)
        /\ DOMAIN references' \subseteq Block
        /\ references' \in [DOMAIN references' -> Nat \ {0}]
        /\ FreeXorAllocated'
        /\ BlocksOf(new) \cap DOMAIN references = {}
        /\ \A b \in BlocksOf(new) : b \in Block /\ OwnersOf(b) = {}
        /\ \A b \in DOMAIN references' :
              references'[b] = IF b \in BlocksOf(new) THEN 1 ELSE references[b]
    BY <1>2, <1>3, TakeFacts
  <1> HIDE DEF n, new
  <1>6. /\ table \in Seq(Block)
        /\ BlocksOf(table) = BlocksOf(owners[o]) \cup BlocksOf(new)
        /\ NoRepeats(table)
    <2>1. BlocksOf(owners[o]) \cap BlocksOf(new) = {}
      BY <1>1, <1>5
    <2> QED BY <1>1, <1>4, <2>1, JoinedBlocks
  <1> HIDE DEF table
  <1>7. /\ DOMAIN owners' = DOMAIN owners
        /\ owners'[o] = table
        /\ \A p \in DOMAIN owners \ {o} : owners'[p] = owners[p]
        /\ owners' \in [DOMAIN owners' -> Seq(Block)]
    BY <1>3, <1>6 DEF IInv, TypeOK
  <1>8. TypeOK'
    BY <1>5, <1>7, PressureType DEF IInv, TypeOK
  <1>9. TablesHaveNoRepeats'
    BY <1>6, <1>7 DEF IInv, BlockAccounting, TablesHaveNoRepeats, NoRepeats
  <1>10. CountsMatchTables'
    <2> SUFFICES ASSUME NEW b \in Block
                 PROVE  /\ b \in DOMAIN references' <=> OwnersOf(b)' # {}
                        /\ b \in DOMAIN references' =>
                              references'[b] = Cardinality(OwnersOf(b)')
      BY DEF CountsMatchTables, Block
    <2>1. OwnersOf(b)' = IF b \in BlocksOf(table) THEN OwnersOf(b) \cup {o}
                                                 ELSE OwnersOf(b) \ {o}
      BY <1>3, OwnersAfterUpdate
    <2>2. o \in OwnersOf(b) <=> b \in BlocksOf(owners[o])
      BY DEF OwnersOf
    <2>3. CASE b \in BlocksOf(new)
      <3>1. OwnersOf(b)' = {o}
        BY <1>5, <1>6, <2>1, <2>3
      <3>2. Cardinality({o}) = 1
        BY FS_Singleton
      <3> QED BY <1>5, <2>3, <3>1, <3>2
    <2>4. CASE b \notin BlocksOf(new)
      <3>1. OwnersOf(b)' = OwnersOf(b)
        BY <1>6, <2>1, <2>2, <2>4
      <3> QED BY <1>5, <2>4, <3>1 DEF IInv, BlockAccounting, CountsMatchTables
    <2> QED BY <2>3, <2>4
  <1> QED BY <1>5, <1>7, <1>8, <1>9, <1>10 DEF IInv, BlockAccounting

\* Shrinking an unshared table preserves the invariant: the blocks cut off had
\* no other owner.
LEMMA ResizeShrinkIInv ==
    ASSUME IInv, NEW o \in DOMAIN owners, NEW required \in Nat,
           required < Len(owners[o]), Unshared(o),
           ResizeShrink(o, required), UpdatePressure, UNCHANGED allocation_failures
    PROVE  IInv'
  <1> DEFINE cut == SubSeq(owners[o], required + 1, Len(owners[o]))
             table == SubSeq(owners[o], 1, required)
  <1>1. /\ owners[o] \in Seq(Block)
        /\ BlocksOf(owners[o]) \subseteq DOMAIN references
        /\ NoRepeats(owners[o])
        /\ free \in Seq(Block) /\ NoRepeats(free)
        /\ DOMAIN references \subseteq Block
        /\ references \in [DOMAIN references -> Nat \ {0}]
        /\ \A b \in Block : b \in BlocksOf(free) <=> b \notin DOMAIN references
    BY TablesAreAllocated
    DEF IInv, TypeOK, BlockAccounting, FreeXorAllocated, TablesHaveNoRepeats
  <1>2. required \in 0..Len(owners[o])
    BY <1>1
  <1>3. /\ free' = free \o cut
        /\ owners' = [owners EXCEPT ![o] = table]
        /\ references' = Without(references, BlocksOf(cut))
    BY DEF ResizeShrink
  <1>4. /\ cut \in Seq(Block) /\ NoRepeats(cut)
        /\ table \in Seq(Block) /\ NoRepeats(table)
        /\ BlocksOf(cut) \subseteq BlocksOf(owners[o])
        /\ BlocksOf(table) = BlocksOf(owners[o]) \ BlocksOf(cut)
    BY <1>1, <1>2, CutFacts
  <1> HIDE DEF cut, table
  <1>5. /\ DOMAIN references' = DOMAIN references \ BlocksOf(cut)
        /\ \A b \in DOMAIN references' : references'[b] = references[b]
        /\ references' \in [DOMAIN references' -> Nat \ {0}]
    BY <1>1, <1>3 DEF Without
  <1>6. BlocksOf(free) \cap BlocksOf(cut) = {}
    BY <1>1, <1>4
  <1>7. /\ free' \in Seq(Block) /\ NoRepeats(free')
        /\ BlocksOf(free') = BlocksOf(free) \cup BlocksOf(cut)
    BY <1>1, <1>3, <1>4, <1>6, JoinedBlocks
  <1>8. /\ DOMAIN owners' = DOMAIN owners
        /\ owners'[o] = table
        /\ \A p \in DOMAIN owners \ {o} : owners'[p] = owners[p]
        /\ owners' \in [DOMAIN owners' -> Seq(Block)]
    BY <1>3, <1>4 DEF IInv, TypeOK
  <1>9. TypeOK'
    BY <1>1, <1>5, <1>7, <1>8, PressureType DEF IInv, TypeOK
  <1>10. FreeXorAllocated'
    <2>1. ASSUME NEW b \in Block
          PROVE  b \in BlocksOf(free') <=> b \notin DOMAIN references'
      BY <1>1, <1>4, <1>5, <1>7
    <2> QED BY <1>7, <2>1 DEF FreeXorAllocated, NoRepeats, BlocksOf, Block
  <1>11. TablesHaveNoRepeats'
    BY <1>4, <1>8 DEF IInv, BlockAccounting, TablesHaveNoRepeats, NoRepeats
  <1>12. CountsMatchTables'
    <2> SUFFICES ASSUME NEW b \in Block
                 PROVE  /\ b \in DOMAIN references' <=> OwnersOf(b)' # {}
                        /\ b \in DOMAIN references' =>
                              references'[b] = Cardinality(OwnersOf(b)')
      BY DEF CountsMatchTables, Block
    <2>1. OwnersOf(b)' = IF b \in BlocksOf(table) THEN OwnersOf(b) \cup {o}
                                                 ELSE OwnersOf(b) \ {o}
      BY <1>3, OwnersAfterUpdate
    <2>2. o \in OwnersOf(b) <=> b \in BlocksOf(owners[o])
      BY DEF OwnersOf
    <2>3. CASE b \in BlocksOf(cut)
      <3>1. OwnersOf(b) = {o}
        BY <1>4, <2>3, OneReferenceOneOwner DEF Unshared
      <3>2. OwnersOf(b)' = {}
        BY <1>4, <2>1, <2>3, <3>1
      <3> QED BY <1>5, <2>3, <3>2
    <2>4. CASE b \notin BlocksOf(cut)
      <3>1. OwnersOf(b)' = OwnersOf(b)
        BY <1>4, <2>1, <2>2, <2>4
      <3> QED BY <1>5, <2>4, <3>1 DEF IInv, BlockAccounting, CountsMatchTables
    <2> QED BY <2>3, <2>4
  <1> QED BY <1>8, <1>9, <1>10, <1>11, <1>12 DEF IInv, BlockAccounting

\* Resize preserves the invariant.
LEMMA ResizeIInv ==
    ASSUME IInv, NEW o \in Owner, NEW tokens \in Nat, Resize(o, tokens)
    PROVE  IInv'
  <1> DEFINE required == BlocksForTokens(tokens)
  <1>1. required \in Nat
    BY BlocksForTokensType
  <1>2. o \in DOMAIN owners /\ Unshared(o)
    BY DEF Resize
  <1>3. CASE CapacityFailure
    BY <1>3, FailureIInv
  <1>4. CASE /\ required > Len(owners[o])
             /\ required <= Len(owners[o]) + Len(free)
             /\ ResizeGrow(o, required)
             /\ UpdatePressure
             /\ UNCHANGED allocation_failures
    BY <1>1, <1>2, <1>4, ResizeGrowIInv
  <1>5. CASE /\ required < Len(owners[o])
             /\ ResizeShrink(o, required)
             /\ UpdatePressure
             /\ UNCHANGED allocation_failures
    BY <1>1, <1>2, <1>5, ResizeShrinkIInv
  <1>6. CASE /\ UNCHANGED <<free, owners, references, allocation_failures>>
             /\ UpdatePressure
    <2>1. TypeOK'
      BY <1>6, PressureType DEF IInv, TypeOK
    <2>2. BlockAccounting'
      BY <1>6 DEF IInv, BlockAccounting, FreeXorAllocated, TablesHaveNoRepeats,
                  CountsMatchTables, OwnersOf
    <2> QED BY <1>6, <2>1, <2>2 DEF IInv
  <1> QED BY <1>3, <1>4, <1>5, <1>6 DEF Resize

\* Release preserves the invariant: a block returns to the free list exactly
\* when the released owner was its last one.
LEMMA ReleaseIInv ==
    ASSUME IInv, NEW o \in Owner, Release(o)
    PROVE  IInv'
  <1> DEFINE last == LastReferences(o)
  <1>1. /\ o \in DOMAIN owners
        /\ owners' = Without(owners, {o})
        /\ DOMAIN references' = DOMAIN references \ last
        /\ \A b \in DOMAIN references' :
              references'[b] = IF b \in BlocksOf(owners[o]) THEN references[b] - 1
                                                           ELSE references[b]
        /\ UpdatePressure
        /\ UNCHANGED allocation_failures
    BY DEF Release
  <1>2. PICK freed \in Listings(last) : free' = free \o freed
    BY DEF Release
  <1>3. /\ BlocksOf(owners[o]) \subseteq Block
        /\ BlocksOf(owners[o]) \subseteq DOMAIN references
        /\ free \in Seq(Block) /\ NoRepeats(free)
        /\ DOMAIN references \subseteq Block
        /\ references \in [DOMAIN references -> Nat \ {0}]
        /\ \A b \in Block : b \in BlocksOf(free) <=> b \notin DOMAIN references
    BY <1>1, TablesAreAllocated DEF IInv, TypeOK, BlockAccounting, FreeXorAllocated
  <1>4. /\ last \subseteq BlocksOf(owners[o])
        /\ \A b \in BlocksOf(owners[o]) : b \in last <=> references[b] = 1
    BY DEF LastReferences
  <1> HIDE DEF last
  <1>5. /\ freed \in Seq(Block)
        /\ NoRepeats(freed)
        /\ BlocksOf(freed) = last
    <2>1. IsFiniteSet(Block)
      BY AllocatorAssumption, FS_Interval DEF Block
    <2>2. last \subseteq Block
      BY <1>3, <1>4
    <2>3. Cardinality(last) \in Nat
      BY <2>1, <2>2, FS_Subset, FS_CardinalityType
    <2>4. /\ freed \in [1..Cardinality(last) -> last]
          /\ NoRepeats(freed) /\ BlocksOf(freed) = last
      BY DEF Listings
    <2> QED BY <2>2, <2>3, <2>4
  <1>6. BlocksOf(free) \cap last = {}
    BY <1>3, <1>4
  <1>7. /\ free' \in Seq(Block) /\ NoRepeats(free')
        /\ BlocksOf(free') = BlocksOf(free) \cup last
    BY <1>2, <1>3, <1>5, <1>6, JoinedBlocks
  <1>8. references' \in [DOMAIN references' -> Nat \ {0}]
    <2>1. \A b \in DOMAIN references' : references'[b] \in Nat \ {0}
      BY <1>1, <1>3, <1>4
    <2> QED BY <1>1, <2>1 DEF Release
  <1>9. /\ DOMAIN owners' = DOMAIN owners \ {o}
        /\ \A p \in DOMAIN owners' : owners'[p] = owners[p]
        /\ owners' \in [DOMAIN owners' -> Seq(Block)]
    BY <1>1 DEF Without, IInv, TypeOK
  <1>10. TypeOK'
    BY <1>1, <1>3, <1>7, <1>8, <1>9, PressureType DEF IInv, TypeOK
  <1>11. IsFiniteSet(DOMAIN owners')
    BY <1>9, FS_Subset DEF IInv
  <1>12. FreeXorAllocated'
    <2>1. ASSUME NEW b \in Block
          PROVE  b \in BlocksOf(free') <=> b \notin DOMAIN references'
      BY <1>1, <1>3, <1>4, <1>7
    <2> QED BY <1>7, <2>1 DEF FreeXorAllocated, NoRepeats, BlocksOf, Block
  <1>13. TablesHaveNoRepeats'
    BY <1>9 DEF IInv, BlockAccounting, TablesHaveNoRepeats, NoRepeats
  <1>14. CountsMatchTables'
    <2> SUFFICES ASSUME NEW b \in Block
                 PROVE  /\ b \in DOMAIN references' <=> OwnersOf(b)' # {}
                        /\ b \in DOMAIN references' =>
                              references'[b] = Cardinality(OwnersOf(b)')
      BY DEF CountsMatchTables, Block
    <2>1. OwnersOf(b)' = OwnersOf(b) \ {o}
      BY <1>1, OwnersAfterDelete
    <2>2. o \in OwnersOf(b) <=> b \in BlocksOf(owners[o])
      BY <1>1 DEF OwnersOf
    <2>3. /\ b \in DOMAIN references <=> OwnersOf(b) # {}
          /\ b \in DOMAIN references => references[b] = Cardinality(OwnersOf(b))
      BY DEF IInv, BlockAccounting, CountsMatchTables
    <2>4. CASE b \in last
      <3>1. OwnersOf(b) = {o}
        BY <1>1, <1>4, <2>4, OneReferenceOneOwner
      <3> QED BY <1>1, <2>1, <2>4, <3>1
    <2>5. CASE b \in BlocksOf(owners[o]) /\ b \notin last
      <3>1. Cardinality(OwnersOf(b) \ {o}) = Cardinality(OwnersOf(b)) - 1
        BY <2>2, <2>5, OwnersOfFinite, FS_RemoveElement
      <3>2. /\ b \in DOMAIN references'
            /\ references[b] \in Nat \ {0, 1}
            /\ references'[b] = references[b] - 1
        BY <1>1, <1>3, <1>4, <2>5
      <3>3. references'[b] = Cardinality(OwnersOf(b)') /\ references'[b] # 0
        BY <1>3, <2>1, <2>3, <2>5, <3>1, <3>2
      <3>4. OwnersOf(b)' # {}
        BY <3>3, FS_EmptySet
      <3> QED BY <3>2, <3>3, <3>4
    <2>6. CASE b \notin BlocksOf(owners[o])
      <3>1. OwnersOf(b)' = OwnersOf(b) /\ b \notin last
        BY <1>4, <2>1, <2>2, <2>6
      <3> QED BY <1>1, <2>3, <2>6, <3>1
    <2> QED BY <2>4, <2>5, <2>6
  <1> QED BY <1>10, <1>11, <1>12, <1>13, <1>14 DEF IInv, BlockAccounting

\* A list passed to retain is a sequence of blocks.
LEMMA BlockListsAreSequences == BlockLists \subseteq Seq(Block)
  BY AllocatorAssumption DEF BlockLists

\* Every step preserves the invariant.
LEMMA NextIInv == IInv /\ [Next]_vars => IInv'
  <1> SUFFICES ASSUME IInv, [Next]_vars PROVE IInv'
    OBVIOUS
  <1>1. ASSUME NEW o \in Owner, NEW tokens \in 0..MaxTokens, Allocate(o, tokens)
        PROVE  IInv'
    BY <1>1, AllocateIInv, AllocatorAssumption
  <1>2. ASSUME NEW o \in Owner, NEW tokens \in 0..MaxTokens, Resize(o, tokens)
        PROVE  IInv'
    BY <1>2, ResizeIInv, AllocatorAssumption
  <1>3. ASSUME NEW o \in Owner, NEW blocks \in BlockLists, Retain(o, blocks)
        PROVE  IInv'
    BY <1>3, RetainIInv, BlockListsAreSequences
  <1>4. ASSUME NEW o \in Owner, Release(o)
        PROVE  IInv'
    BY <1>4, ReleaseIInv
  <1>5. CASE UNCHANGED vars
    BY <1>5 DEF vars, IInv, TypeOK, BlockAccounting, FreeXorAllocated,
                TablesHaveNoRepeats, CountsMatchTables, OwnersOf
  <1> QED BY <1>1, <1>2, <1>3, <1>4, <1>5 DEF Next

\* The inductive invariant holds in every reachable state.
LEMMA AlwaysIInv == Spec => []IInv
  BY InitIInv, NextIInv, PTL DEF Spec

\* Every field keeps its type: in particular the free list and the tables hold
\* blocks of the pool and no reference count of zero is ever stored.
THEOREM TypeCorrect == Spec => []TypeOK
  <1>1. IInv => TypeOK
    BY DEF IInv
  <1> QED BY <1>1, AlwaysIInv, PTL

\* assert_invariants never raises, whatever calls were made and however the
\* owners share blocks.
THEOREM AccountingHolds == Spec => []BlockAccounting
  <1>1. IInv => BlockAccounting
    BY DEF IInv
  <1> QED BY <1>1, AlwaysIInv, PTL

-----------------------------------------------------------------------------
(* Pressure *)

\* Every call that reaches the lock's body re-evaluates the pressure flag, a
\* refused one included.
LEMMA StepUpdatesPressure == Next => UpdatePressure
  BY DEF Next, Allocate, Resize, Retain, Release, CapacityFailure

\* A set of blocks has a natural number of elements.
LEMMA UsedIsNat ==
    ASSUME NEW D, D \subseteq Block
    PROVE  Cardinality(D) \in Nat
  <1>1. IsFiniteSet(Block)
    BY AllocatorAssumption, FS_Interval DEF Block
  <1> QED BY <1>1, FS_Subset, FS_CardinalityType

\* The pressure flag is never stale with respect to the watermarks.
THEOREM PressureTracks == Spec => []PressureTracksUse
  <1>1. Init => PressureTracksUse
    <2> SUFFICES ASSUME Init PROVE PressureTracksUse
      OBVIOUS
    <2>1. Cardinality(DOMAIN references) = 0
      BY FS_EmptySet DEF Init
    <2> QED BY <2>1, AllocatorAssumption DEF Init, PressureTracksUse
  <1>2. IInv' /\ IInv /\ PressureTracksUse /\ [Next]_vars => PressureTracksUse'
    <2> SUFFICES ASSUME IInv, IInv', PressureTracksUse, [Next]_vars
                 PROVE  PressureTracksUse'
      OBVIOUS
    <2>1. Cardinality(DOMAIN references') \in Nat
      BY UsedIsNat DEF IInv, TypeOK, Block
    <2>2. pressure \in BOOLEAN
      BY DEF IInv, TypeOK
    <2>3. CASE Next
      <3>1. UpdatePressure
        BY <2>3, StepUpdatesPressure
      <3> QED BY <2>1, <2>2, <3>1, AllocatorAssumption
              DEF UpdatePressure, PressureTracksUse
    <2>4. CASE UNCHANGED vars
      BY <2>4 DEF vars, PressureTracksUse
    <2> QED BY <2>3, <2>4
  <1> QED BY <1>1, <1>2, AlwaysIInv, PTL DEF Spec

\* The flag keeps its value while use stays between the watermarks.
THEOREM PressureSteady == Spec => PressureDoesNotFlap
  <1> DEFINE used == Cardinality(DOMAIN references')
  <1>1. IInv /\ IInv' /\ [Next]_vars =>
           [used > LowBlocks /\ used < HighBlocks => pressure' = pressure]_vars
    <2> SUFFICES ASSUME IInv, IInv', Next,
                        used > LowBlocks, used < HighBlocks
                 PROVE  pressure' = pressure
      BY DEF vars
    <2>1. UpdatePressure
      BY StepUpdatesPressure
    <2>2. used \in Nat
      BY UsedIsNat DEF IInv, TypeOK, Block
    <2>3. ~(used >= HighBlocks) /\ ~(used <= LowBlocks)
      BY <2>2, AllocatorAssumption
    <2> QED BY <2>1, <2>3 DEF UpdatePressure
  <1> QED BY <1>1, AlwaysIInv, PTL DEF Spec, PressureDoesNotFlap

-----------------------------------------------------------------------------
(* The allocator implements BlockOwnership *)

\* The refinement mapping: the set of blocks of every table.
Tables == [o \in DOMAIN owners |-> BlocksOf(owners[o])]

\* The blocks somebody holds are the blocks with a reference.
LEMMA AllocatedIsReferenced ==
    ASSUME IInv
    PROVE  Ownership!Allocated = DOMAIN references
  <1>1. \A o \in DOMAIN owners : BlocksOf(owners[o]) \subseteq DOMAIN references
    BY TablesAreAllocated
  <1>2. ASSUME NEW b \in DOMAIN references
        PROVE  \E o \in DOMAIN owners : b \in BlocksOf(owners[o])
    <2>1. b \in Block /\ OwnersOf(b) # {}
      BY DEF IInv, TypeOK, BlockAccounting, CountsMatchTables
    <2> QED BY <2>1 DEF OwnersOf
  <1> QED BY <1>1, <1>2 DEF Ownership!Allocated

\* An unshared table is one whose owner shares no block.
LEMMA UnsharedIsExclusive ==
    ASSUME IInv, NEW o \in DOMAIN owners, Unshared(o)
    PROVE  Ownership!Exclusive(o)
  <1> SUFFICES ASSUME NEW p \in DOMAIN owners \ {o},
                      NEW b \in BlocksOf(owners[p]), b \in BlocksOf(owners[o])
               PROVE  FALSE
    BY DEF Ownership!Exclusive
  <1>1. OwnersOf(b) = {o}
    BY OneReferenceOneOwner DEF Unshared
  <1>2. p \in OwnersOf(b)
    BY DEF OwnersOf
  <1> QED BY <1>1, <1>2

\* Blocks taken off the free list are available.
LEMMA TakenWasAvailable ==
    ASSUME IInv, NEW n \in 0..Len(free)
    PROVE  BlocksOf(Popped(n)) \subseteq Ownership!Available
  <1>1. /\ free \in Seq(Block) /\ NoRepeats(free)
        /\ \A b \in Block : b \in BlocksOf(free) <=> b \notin DOMAIN references
    BY DEF IInv, TypeOK, BlockAccounting, FreeXorAllocated
  <1>2. BlocksOf(Popped(n)) \subseteq BlocksOf(free)
    BY <1>1, PopFacts
  <1>3. BlocksOf(free) \subseteq Block
    BY <1>1 DEF BlocksOf
  <1> QED BY <1>1, <1>2, <1>3, AllocatedIsReferenced DEF Ownership!Available

\* Every allocator step is a BlockOwnership step or leaves the tables alone.
LEMMA StepRefines ==
    ASSUME IInv, [Next]_vars
    PROVE  [Ownership!Next]_Tables
  <1> USE DEF Tables
  <1>1. ASSUME NEW o \in Owner, NEW tokens \in 0..MaxTokens, Allocate(o, tokens)
        PROVE  [Ownership!Next]_Tables
    <2> DEFINE n == BlocksForTokens(tokens)
               S == BlocksOf(Popped(n))
    <2>1. CASE CapacityFailure
      BY <2>1 DEF CapacityFailure
    <2>2. CASE n <= Len(free) /\ owners' = Put(owners, o, Popped(n))
      <3>1. n \in 0..Len(free)
        BY <2>2, BlocksForTokensType, AllocatorAssumption DEF IInv, TypeOK
      <3>2. S \subseteq Ownership!Available
        BY <3>1, TakenWasAvailable
      <3> HIDE DEF n
      <3>3. Tables' = [p \in DOMAIN owners \cup {o} |->
                          IF p = o THEN S ELSE BlocksOf(owners[p])]
        BY <2>2 DEF Put
      <3>4. Ownership!Acquire(o, S)
        BY <1>1, <3>2, <3>3 DEF Ownership!Acquire, Ownership!Holding, Allocate
      <3>5. S \in SUBSET Block
        BY <3>2 DEF Ownership!Available
      <3> QED BY <3>4, <3>5 DEF Ownership!Next
    <2> QED BY <1>1, <2>1, <2>2 DEF Allocate
  <1>2. ASSUME NEW o \in Owner, NEW tokens \in 0..MaxTokens, Resize(o, tokens)
        PROVE  [Ownership!Next]_Tables
    <2> DEFINE n == BlocksForTokens(tokens)
    <2>1. /\ n \in Nat /\ o \in DOMAIN owners
          /\ owners[o] \in Seq(Block) /\ NoRepeats(owners[o])
          /\ Ownership!Exclusive(o)
      BY <1>2, BlocksForTokensType, AllocatorAssumption, UnsharedIsExclusive
      DEF Resize, IInv, TypeOK, BlockAccounting, TablesHaveNoRepeats
    <2> HIDE DEF n
    <2>2. CASE CapacityFailure
      BY <2>2 DEF CapacityFailure
    <2>3. CASE /\ n > Len(owners[o]) /\ n <= Len(owners[o]) + Len(free)
               /\ ResizeGrow(o, n)
      <3> DEFINE k == n - Len(owners[o])
                 S == BlocksOf(Popped(k))
      <3>1. k \in 0..Len(free) /\ free \in Seq(Block) /\ NoRepeats(free)
        BY <2>1, <2>3 DEF IInv, TypeOK, BlockAccounting, FreeXorAllocated
      <3>2. S \subseteq Ownership!Available
        BY <3>1, TakenWasAvailable
      <3>3. Popped(k) \in Seq(Block)
        BY <3>1, PopFacts
      <3>4. owners' = [owners EXCEPT ![o] = owners[o] \o Popped(k)]
        BY <2>3 DEF ResizeGrow
      <3> HIDE DEF k
      <3>5. BlocksOf(owners[o] \o Popped(k)) = BlocksOf(owners[o]) \cup S
        BY <2>1, <3>3, JoinedBlocks
      <3>6. Tables' = [p \in DOMAIN owners |->
                          IF p = o THEN BlocksOf(owners[o]) \cup S
                                   ELSE BlocksOf(owners[p])]
        BY <2>1, <3>4, <3>5
      <3>7. Ownership!Grow(o, S)
        BY <2>1, <3>2, <3>6 DEF Ownership!Grow, Ownership!Holding
      <3>8. S \in SUBSET Block
        BY <3>2 DEF Ownership!Available
      <3> QED BY <3>7, <3>8 DEF Ownership!Next
    <2>4. CASE n < Len(owners[o]) /\ ResizeShrink(o, n)
      <3> DEFINE kept == SubSeq(owners[o], 1, n)
                 S == BlocksOf(SubSeq(owners[o], n + 1, Len(owners[o])))
      <3>1. n \in 0..Len(owners[o])
        BY <2>1, <2>4
      <3>2. S \subseteq BlocksOf(owners[o]) /\ BlocksOf(kept) = BlocksOf(owners[o]) \ S
        BY <2>1, <3>1, CutFacts
      <3>3. owners' = [owners EXCEPT ![o] = kept]
        BY <2>4 DEF ResizeShrink
      <3> HIDE DEF kept
      <3>4. Tables' = [p \in DOMAIN owners |->
                          IF p = o THEN BlocksOf(owners[o]) \ S
                                   ELSE BlocksOf(owners[p])]
        BY <2>1, <3>2, <3>3
      <3>5. Ownership!Shrink(o, S)
        BY <2>1, <3>2, <3>4 DEF Ownership!Shrink, Ownership!Holding
      <3>6. S \in SUBSET Block
        BY <2>1, <3>2, TablesAreAllocated
      <3> QED BY <3>5, <3>6 DEF Ownership!Next
    <2>5. CASE UNCHANGED owners
      BY <2>5
    <2> QED BY <1>2, <2>2, <2>3, <2>4, <2>5 DEF Resize, n
  <1>3. ASSUME NEW o \in Owner, NEW blocks \in BlockLists, Retain(o, blocks)
        PROVE  [Ownership!Next]_Tables
    <2> DEFINE S == BlocksOf(blocks)
    <2>1. /\ o \notin DOMAIN owners /\ S \subseteq Ownership!Allocated
          /\ owners' = Put(owners, o, blocks)
      BY <1>3, AllocatedIsReferenced DEF Retain
    <2>2. S # {}
      <3>1. blocks \in Seq(Block) /\ blocks # <<>>
        BY <1>3, BlockListsAreSequences DEF Retain
      <3>2. 1 \in DOMAIN blocks
        BY <3>1
      <3> QED BY <3>2 DEF BlocksOf
    <2>3. S \in SUBSET Block
      BY <1>3 DEF Retain, IInv, TypeOK
    <2>4. Tables' = [p \in DOMAIN owners \cup {o} |->
                        IF p = o THEN S ELSE BlocksOf(owners[p])]
      BY <2>1 DEF Put
    <2>5. Ownership!Share(o, S)
      BY <2>1, <2>2, <2>4 DEF Ownership!Share, Ownership!Holding
    <2> QED BY <2>3, <2>5 DEF Ownership!Next
  <1>4. ASSUME NEW o \in Owner, Release(o)
        PROVE  [Ownership!Next]_Tables
    <2>1. o \in DOMAIN owners /\ owners' = Without(owners, {o})
      BY <1>4 DEF Release
    <2>2. Tables' = [p \in DOMAIN owners \ {o} |-> BlocksOf(owners[p])]
      BY <2>1 DEF Without
    <2>3. Ownership!Drop(o)
      BY <2>1, <2>2 DEF Ownership!Drop
    <2> QED BY <2>3 DEF Ownership!Next
  <1>5. CASE UNCHANGED vars
    BY <1>5 DEF vars
  <1> QED BY <1>1, <1>2, <1>3, <1>4, <1>5 DEF Next

\* The allocator implements BlockOwnership: callers that only rely on that
\* module's rules (the token engine does) never see free lists or counters.
THEOREM AllocatorImplementsOwnership == Spec => ImplementsOwnership
  <1>1. Init => Ownership!Init
    BY DEF Init, Ownership!Init
  <1>2. IInv /\ [Next]_vars => [Ownership!Next]_Tables
    BY StepRefines
  <1> QED BY <1>1, <1>2, AlwaysIInv, PTL DEF Spec, ImplementsOwnership, Ownership!Spec, Tables

-----------------------------------------------------------------------------
(* Paged sequences on the allocator *)

\* The paged cache never calls retain, so no two of its tables share a block.
TablesDisjoint ==
    \A o, q \in DOMAIN owners : o # q => BlocksOf(owners[o]) \cap BlocksOf(owners[q]) = {}

\* Every stored length is a number of tokens its sequence's table can hold.
LengthsFit ==
    /\ DOMAIN lengths \subseteq DOMAIN owners
    /\ lengths \in [DOMAIN lengths -> Nat]
    /\ \A o \in DOMAIN lengths : lengths[o] <= Len(owners[o]) * BlockSize

\* The place of every stored position still holds what was stored for it.
PagesKept ==
    \A o \in DOMAIN lengths : \A p \in 0..(lengths[o] - 1) :
        pages[Place(o, p)[1]][Place(o, p)[2]] = Written(o, p)

\* The content of a sequence survives the others only because their tables are
\* disjoint, which a retained block would break.
PagedInv ==
    /\ IInv
    /\ paged \in BOOLEAN
    /\ LengthsFit
    /\ ~paged => DOMAIN lengths = {}
    /\ paged => TablesDisjoint
    /\ PagesKept

-----------------------------------------------------------------------------
(* Positions and places *)

\* divmod.
LEMMA DivMod ==
    ASSUME NEW p \in Nat
    PROVE  /\ p \div BlockSize \in Nat
           /\ p % BlockSize \in 0..(BlockSize - 1)
           /\ p = BlockSize * (p \div BlockSize) + (p % BlockSize)
  BY AllocatorAssumption

\* A position within the capacity of n blocks lies in one of them.
LEMMA PageWithinTable ==
    ASSUME NEW p \in Nat, NEW n \in Nat, p < n * BlockSize
    PROVE  p \div BlockSize + 1 \in 1..n
  <1> DEFINE d == p \div BlockSize
  <1>1. d \in Nat /\ BlockSize * d <= p
    BY DivMod, AllocatorAssumption
  <1>2. BlockSize \in Nat \ {0}
    BY AllocatorAssumption
  <1> HIDE DEF d
  <1>3. d < n
    <2> SUFFICES ASSUME d >= n PROVE FALSE
      BY <1>1
    <2>1. BlockSize * d >= BlockSize * n
      BY <1>1, <1>2
    <2> QED BY <1>1, <1>2, <2>1
  <1> QED BY <1>1, <1>3 DEF d

\* The place of a position within a table is a place of one of its blocks.
LEMMA PlaceInTable ==
    ASSUME IInv, NEW o \in DOMAIN owners, NEW p \in Nat, p < Len(owners[o]) * BlockSize
    PROVE  /\ p \div BlockSize + 1 \in DOMAIN owners[o]
           /\ Place(o, p)[1] \in BlocksOf(owners[o])
           /\ Place(o, p)[1] \in Block
           /\ Place(o, p)[2] \in 0..(BlockSize - 1)
  <1>1. owners[o] \in Seq(Block) /\ BlocksOf(owners[o]) \subseteq Block
    BY TablesAreAllocated
  <1>2. p \div BlockSize + 1 \in DOMAIN owners[o]
    BY <1>1, PageWithinTable
  <1>3. p % BlockSize \in 0..(BlockSize - 1)
    BY DivMod
  <1> QED BY <1>1, <1>2, <1>3 DEF Place, BlocksOf

\* Two positions of one table have different places.
LEMMA PlacesDiffer ==
    ASSUME IInv, NEW o \in DOMAIN owners, NEW p \in Nat, NEW q \in Nat,
           p < Len(owners[o]) * BlockSize, q < Len(owners[o]) * BlockSize,
           Place(o, p) = Place(o, q)
    PROVE  p = q
  <1>1. p \div BlockSize + 1 \in DOMAIN owners[o] /\ q \div BlockSize + 1 \in DOMAIN owners[o]
    BY PlaceInTable
  <1>2. NoRepeats(owners[o])
    BY DEF IInv, BlockAccounting, TablesHaveNoRepeats
  <1>3. /\ owners[o][p \div BlockSize + 1] = owners[o][q \div BlockSize + 1]
        /\ p % BlockSize = q % BlockSize
    BY DEF Place
  <1>4. p \div BlockSize + 1 = q \div BlockSize + 1
    BY <1>1, <1>2, <1>3 DEF NoRepeats
  <1>5. p \div BlockSize = q \div BlockSize
    BY <1>4, DivMod
  <1>6. /\ p = BlockSize * (p \div BlockSize) + (p % BlockSize)
        /\ q = BlockSize * (q \div BlockSize) + (q % BlockSize)
    BY DivMod
  <1>7. BlockSize * (p \div BlockSize) + (p % BlockSize) = BlockSize * (q \div BlockSize) + (q % BlockSize)
    BY <1>3, <1>5, Zenon
  <1> QED BY <1>6, <1>7, Zenon

-----------------------------------------------------------------------------
(* The pool uses its allocator as Next allows *)

\* A call of the paged cache is a call of its allocator or leaves it alone.
LEMMA StepIsAllocatorStep ==
    ASSUME [PoolNext]_poolVars
    PROVE  [Next]_vars
  <1>1. ASSUME NEW o \in Owner, NEW tokens \in 1..MaxTokens, PagedAllocate(o, tokens)
        PROVE  Next
    BY <1>1, AllocatorAssumption DEF PagedAllocate, Next
  <1>2. ASSUME NEW o \in Owner, NEW tokens \in 1..MaxTokens, PagedAppend(o, tokens)
        PROVE  UNCHANGED vars
    BY <1>2 DEF PagedAppend
  <1>3. ASSUME NEW o \in Owner, PagedRelease(o)
        PROVE  Next
    BY <1>3 DEF PagedRelease, Next
  <1> QED BY <1>1, <1>2, <1>3 DEF PoolNext, PagedNext, poolVars

-----------------------------------------------------------------------------
(* The induction *)

\* A new pool has no sequences.
LEMMA PoolInitInv ==
    ASSUME PoolInit
    PROVE  PagedInv
  <1>1. IInv
    BY InitIInv DEF PoolInit
  <1>2. DOMAIN lengths = {} /\ DOMAIN owners = {} /\ paged \in BOOLEAN
    BY DEF PoolInit, Init
  <1>3. LengthsFit
    BY <1>2 DEF LengthsFit, PoolInit
  <1> QED BY <1>1, <1>2, <1>3 DEF PagedInv, TablesDisjoint, PagesKept

\* allocate: the new table comes off the free list, so it shares no block.
LEMMA PagedAllocateInv ==
    ASSUME PagedInv, paged, NEW o \in Owner, NEW tokens \in Nat, PagedAllocate(o, tokens)
    PROVE  PagedInv'
  <1> DEFINE n == BlocksForTokens(tokens)
             new == Popped(n)
  <1>1. IInv /\ IInv' /\ LengthsFit /\ TablesDisjoint /\ PagesKept /\ paged \in BOOLEAN
    BY AllocateIInv DEF PagedInv, PagedAllocate
  <1>2. paged' = paged /\ pages' = pages /\ o \notin DOMAIN owners
    BY DEF PagedAllocate, Allocate
  <1>3. CASE owners' = owners
    <2>1. lengths' = lengths
      BY <1>2, <1>3 DEF PagedAllocate
    <2>2. LengthsFit' /\ TablesDisjoint' /\ PagesKept'
      <3>1. LengthsFit'
        BY <1>1, <1>3, <2>1 DEF LengthsFit
      <3>2. TablesDisjoint'
        BY <1>1, <1>3 DEF TablesDisjoint
      <3>3. PagesKept'
        BY <1>1, <1>2, <1>3, <2>1 DEF PagesKept, Place
      <3> QED BY <3>1, <3>2, <3>3
    <2> QED BY <1>1, <1>2, <2>2 DEF PagedInv
  <1>4. CASE n <= Len(free) /\ free' = AfterPops(n) /\ references' = FirstReferences(new)
             /\ owners' = Put(owners, o, new)
    <2>1. free \in Seq(Block) /\ NoRepeats(free)
      BY <1>1 DEF IInv, TypeOK, BlockAccounting, FreeXorAllocated
    <2>2. n \in 0..Len(free)
      BY <1>4, <2>1, BlocksForTokensType
    <2>3. new \in Seq(Block) /\ BlocksOf(new) \cap DOMAIN references = {}
      BY <1>1, <1>4, <2>1, <2>2, PopFacts, TakeFacts
    <2>4. /\ DOMAIN owners' = DOMAIN owners \cup {o} /\ owners'[o] = new
          /\ \A q \in DOMAIN owners : owners'[q] = owners[q] /\ q # o
      BY <1>2, <1>4 DEF Put
    <2>5. lengths' = Put(lengths, o, 0)
      BY <2>4 DEF PagedAllocate
    <2>6. /\ DOMAIN lengths' = DOMAIN lengths \cup {o} /\ lengths'[o] = 0
          /\ \A q \in DOMAIN lengths : q \in DOMAIN owners /\ lengths'[q] = lengths[q] /\ q # o
      BY <1>1, <1>2, <2>5 DEF Put, LengthsFit
    <2> HIDE DEF new
    <2>7. LengthsFit'
      <3>1. lengths' \in [DOMAIN lengths' -> Nat]
        BY <1>1, <2>5, <2>6 DEF LengthsFit, Put
      <3>2. 0 <= Len(new) * BlockSize
        BY <2>3, AllocatorAssumption
      <3>3. ASSUME NEW q \in DOMAIN lengths'
            PROVE  lengths'[q] <= Len(owners'[q]) * BlockSize
        BY <1>1, <2>4, <2>6, <3>2 DEF LengthsFit
      <3> QED BY <1>1, <2>4, <2>6, <3>1, <3>3 DEF LengthsFit
    <2>8. TablesDisjoint'
      <3>1. \A q \in DOMAIN owners : BlocksOf(owners[q]) \cap BlocksOf(new) = {}
        BY <1>1, <2>3, TablesAreAllocated
      <3> QED BY <1>1, <2>4, <3>1 DEF TablesDisjoint
    <2>9. PagesKept'
      <3> SUFFICES ASSUME NEW q \in DOMAIN lengths', NEW p \in 0..(lengths'[q] - 1)
                   PROVE  pages'[Place(q, p)'[1]][Place(q, p)'[2]] = Written(q, p)
        BY DEF PagesKept, Written
      <3>1. q \in DOMAIN lengths /\ lengths'[q] = lengths[q] /\ owners'[q] = owners[q]
        BY <2>4, <2>6
      <3>2. Place(q, p)' = Place(q, p)
        BY <3>1 DEF Place
      <3> QED BY <1>1, <1>2, <3>1, <3>2 DEF PagesKept
    <2> QED BY <1>1, <1>2, <2>7, <2>8, <2>9 DEF PagedInv
  <1> QED BY <1>3, <1>4 DEF PagedAllocate, Allocate, CapacityFailure

\* append: the new positions have places of their own, in the sequence's own
\* blocks, so nothing stored before is overwritten.
LEMMA PagedAppendInv ==
    ASSUME PagedInv, paged, NEW o \in Owner, NEW n \in Nat, PagedAppend(o, n)
    PROVE  PagedInv'
  <1> DEFINE new == lengths[o]..(lengths[o] + n - 1)
  <1>1. IInv /\ LengthsFit /\ TablesDisjoint /\ PagesKept /\ paged \in BOOLEAN
    BY DEF PagedInv
  <1>2. /\ o \in DOMAIN lengths
        /\ lengths[o] + n <= Len(owners[o]) * BlockSize
        /\ pages' = [b \in Block |-> [i \in 0..(BlockSize - 1) |->
              IF \E p \in new : Place(o, p) = <<b, i>>
              THEN Written(o, CHOOSE p \in new : Place(o, p) = <<b, i>>)
              ELSE pages[b][i]]]
        /\ lengths' = [lengths EXCEPT ![o] = @ + n]
        /\ UNCHANGED <<vars, paged>>
    BY DEF PagedAppend
  <1>3. o \in DOMAIN owners /\ lengths[o] \in Nat /\ Len(owners[o]) * BlockSize \in Nat
    <2>1. o \in DOMAIN owners /\ lengths[o] \in Nat
      BY <1>1, <1>2 DEF LengthsFit
    <2>2. Len(owners[o]) \in Nat
      BY <1>1, <2>1, TablesAreAllocated
    <2> QED BY <2>1, <2>2, AllocatorAssumption
  <1>4. owners' = owners /\ IInv' /\ paged' = paged
    BY <1>1, <1>2, NextIInv DEF vars
  <1>5. LengthsFit'
    BY <1>1, <1>2, <1>3, <1>4 DEF LengthsFit
  <1>6. \A p \in new : p \in Nat /\ p < Len(owners[o]) * BlockSize /\ ~(p < lengths[o])
    BY <1>2, <1>3
  <1>7. PagesKept'
    <2> SUFFICES ASSUME NEW q \in DOMAIN lengths', NEW p \in 0..(lengths'[q] - 1)
                 PROVE  pages'[Place(q, p)[1]][Place(q, p)[2]] = Written(q, p)
      BY <1>4 DEF PagesKept, Written, Place
    <2>1. q \in DOMAIN lengths /\ q \in DOMAIN owners /\ lengths[q] \in Nat /\ lengths'[q] \in Nat
      BY <1>1, <1>2, <1>3 DEF LengthsFit
    <2>2. p \in Nat /\ p < lengths'[q] /\ p < Len(owners[q]) * BlockSize
      <3>1. lengths'[q] <= Len(owners[q]) * BlockSize
        BY <1>4, <1>5 DEF LengthsFit
      <3>2. Len(owners[q]) \in Nat
        BY <1>1, <2>1, TablesAreAllocated
      <3>3. Len(owners[q]) * BlockSize \in Nat
        BY <3>2, AllocatorAssumption
      <3> QED BY <2>1, <3>1, <3>3
    <2> DEFINE b == Place(q, p)[1]
               i == Place(q, p)[2]
    <2>3. b \in BlocksOf(owners[q]) /\ b \in Block /\ i \in 0..(BlockSize - 1) /\ Place(q, p) = <<b, i>>
      BY <1>1, <2>1, <2>2, PlaceInTable DEF Place
    <2> HIDE DEF b, i, new
    <2>4. pages'[b][i] = IF \E x \in new : Place(o, x) = <<b, i>>
                         THEN Written(o, CHOOSE x \in new : Place(o, x) = <<b, i>>)
                         ELSE pages[b][i]
      BY <1>2, <2>3
    <2>5. CASE q # o
      <3>1. ASSUME NEW x \in new PROVE Place(o, x) # <<b, i>>
        <4>1. Place(o, x)[1] \in BlocksOf(owners[o])
          BY <1>1, <1>3, <1>6, PlaceInTable
        <4> QED BY <1>1, <1>3, <2>1, <2>3, <2>5, <4>1 DEF TablesDisjoint
      <3>2. pages'[b][i] = pages[b][i]
        BY <2>4, <3>1
      <3>3. lengths'[q] = lengths[q]
        BY <1>2, <2>1, <2>5
      <3> QED BY <1>1, <2>1, <3>2, <3>3 DEF PagesKept, b, i
    <2>6. CASE q = o /\ p < lengths[o]
      <3>1. ASSUME NEW x \in new PROVE Place(o, x) # <<b, i>>
        <4>1. Place(o, x) # Place(o, p)
          BY <1>1, <1>3, <1>6, <2>2, <2>6, PlacesDiffer
        <4> QED BY <2>3, <2>6, <4>1
      <3>2. pages'[b][i] = pages[b][i]
        BY <2>4, <3>1
      <3>3. p \in 0..(lengths[q] - 1)
        BY <1>3, <2>2, <2>6
      <3> QED BY <1>1, <2>1, <3>2, <3>3 DEF PagesKept, b, i
    <2>7. CASE q = o /\ ~(p < lengths[o])
      <3>1. p \in new /\ Place(o, p) = <<b, i>>
        <4>1. lengths'[o] = lengths[o] + n
          BY <1>2
        <4> QED BY <1>3, <2>2, <2>3, <2>7, <4>1 DEF new
      <3>2. ASSUME NEW x \in new, Place(o, x) = <<b, i>> PROVE x = p
        BY <1>1, <1>3, <1>6, <2>2, <2>7, <3>1, <3>2, PlacesDiffer
      <3>3. (CHOOSE x \in new : Place(o, x) = <<b, i>>) = p
        BY <3>1, <3>2
      <3> QED BY <2>4, <2>7, <3>1, <3>3 DEF b, i
    <2> QED BY <2>5, <2>6, <2>7
  <1>8. TablesDisjoint'
    BY <1>1, <1>4 DEF TablesDisjoint
  <1> QED BY <1>1, <1>4, <1>5, <1>7, <1>8 DEF PagedInv

\* release: what the other sequences stored is left as it is.
LEMMA PagedReleaseInv ==
    ASSUME PagedInv, paged, NEW o \in Owner, PagedRelease(o)
    PROVE  PagedInv'
  <1>1. IInv /\ IInv' /\ LengthsFit /\ TablesDisjoint /\ PagesKept /\ paged \in BOOLEAN
    BY ReleaseIInv DEF PagedInv, PagedRelease
  <1>2. /\ owners' = Without(owners, {o}) /\ lengths' = Without(lengths, {o}) /\ paged' = paged
        /\ pages' = [b \in Block |-> [i \in 0..(BlockSize - 1) |->
              IF \E p \in 0..(TotalBlocks * BlockSize - 1) : pages[b][i] = Written(o, p)
              THEN Junk ELSE pages[b][i]]]
    BY DEF PagedRelease, Release
  <1>3. /\ DOMAIN owners' = DOMAIN owners \ {o} /\ DOMAIN lengths' = DOMAIN lengths \ {o}
        /\ \A q \in DOMAIN owners' : owners'[q] = owners[q]
        /\ \A q \in DOMAIN lengths' : lengths'[q] = lengths[q]
    BY <1>2 DEF Without
  <1>4. LengthsFit'
    <2>1. lengths' \in [DOMAIN lengths' -> Nat]
      BY <1>1, <1>2 DEF LengthsFit, Without
    <2> QED BY <1>1, <1>3, <2>1 DEF LengthsFit
  <1>5. TablesDisjoint'
    BY <1>1, <1>3 DEF TablesDisjoint
  <1>6. PagesKept'
    <2> SUFFICES ASSUME NEW q \in DOMAIN lengths', NEW p \in 0..(lengths'[q] - 1)
                 PROVE  pages'[Place(q, p)'[1]][Place(q, p)'[2]] = Written(q, p)
      BY DEF PagesKept, Written
    <2>1. /\ q \in DOMAIN lengths /\ q # o /\ q \in DOMAIN owners /\ lengths'[q] = lengths[q]
          /\ owners'[q] = owners[q]
      BY <1>1, <1>3 DEF LengthsFit
    <2>2. Place(q, p)' = Place(q, p)
      BY <2>1 DEF Place
    <2>3. pages[Place(q, p)[1]][Place(q, p)[2]] = Written(q, p)
      BY <1>1, <2>1 DEF PagesKept
    <2>4. p \in Nat /\ p < Len(owners[q]) * BlockSize
      <3>1. lengths[q] <= Len(owners[q]) * BlockSize /\ lengths[q] \in Nat
        BY <1>1, <2>1 DEF LengthsFit
      <3>2. Len(owners[q]) \in Nat
        BY <1>1, <2>1, TablesAreAllocated
      <3>3. Len(owners[q]) * BlockSize \in Nat
        BY <3>2, AllocatorAssumption
      <3> QED BY <2>1, <3>1, <3>3
    <2>5. Place(q, p)[1] \in Block /\ Place(q, p)[2] \in 0..(BlockSize - 1)
      BY <1>1, <2>1, <2>4, PlaceInTable
    <2>6. \A x : Written(q, p) # Written(o, x)
      BY <2>1 DEF Written
    <2>7. pages'[Place(q, p)[1]][Place(q, p)[2]] = pages[Place(q, p)[1]][Place(q, p)[2]]
      BY <1>2, <2>3, <2>5, <2>6
    <2> QED BY <2>2, <2>3, <2>7
  <1> QED BY <1>1, <1>2, <1>4, <1>5, <1>6 DEF PagedInv

\* Every step of the pool keeps the invariant.
LEMMA PoolNextInv ==
    ASSUME PagedInv, [PoolNext]_poolVars
    PROVE  PagedInv'
  <1>1. CASE paged /\ PagedNext
    <2>1. \A tokens \in 1..MaxTokens : tokens \in Nat
      BY AllocatorAssumption
    <2> QED BY <1>1, <2>1, PagedAllocateInv, PagedAppendInv, PagedReleaseInv DEF PagedNext
  <1>2. CASE ~paged /\ Next /\ UNCHANGED pageVars
    <2>1. IInv'
      BY <1>2, NextIInv DEF PagedInv
    <2>2. DOMAIN lengths' = {} /\ lengths' = lengths /\ paged' = paged
      BY <1>2 DEF PagedInv, pageVars
    <2>3. LengthsFit' /\ PagesKept'
      BY <2>2 DEF PagedInv, LengthsFit, PagesKept
    <2> QED BY <1>2, <2>1, <2>2, <2>3 DEF PagedInv
  <1>3. CASE UNCHANGED poolVars
    <2>1. IInv'
      BY <1>3, NextIInv DEF PagedInv, poolVars
    <2>2. UNCHANGED <<owners, paged, pages, lengths>>
      BY <1>3 DEF poolVars, vars, pageVars
    <2> QED BY <2>1, <2>2
            DEF PagedInv, LengthsFit, TablesDisjoint, PagesKept, Place
  <1> QED BY <1>1, <1>2, <1>3 DEF PoolNext

-----------------------------------------------------------------------------
(* Results *)

\* The pool, paged or not, is a use of the allocator that its specification
\* allows: what is proved of the allocator holds of the pool.
THEOREM PoolUsesAllocator == PoolSpec => Spec
  <1>1. PoolInit => Init
    BY DEF PoolInit
  <1>2. [PoolNext]_poolVars => [Next]_vars
    BY StepIsAllocatorStep
  <1> QED BY <1>1, <1>2, PTL DEF PoolSpec, Spec

\* materialize returns what append stored, for every sequence, in any batch,
\* whatever was released and reused in between.
THEOREM GathersWhatWasAppended == PoolSpec => []MaterializesWhatWasAppended
  <1>1. PoolInit => PagedInv
    BY PoolInitInv
  <1>2. PagedInv /\ [PoolNext]_poolVars => PagedInv'
    BY PoolNextInv
  <1>3. PagedInv => MaterializesWhatWasAppended
    <2> SUFFICES ASSUME PagedInv, NEW o \in DOMAIN lengths, NEW longest \in DOMAIN lengths,
                        NEW i \in 1..lengths[longest]
                 PROVE  /\ o \in DOMAIN owners /\ lengths[o] <= Len(owners[o]) * BlockSize
                        /\ IF Mask(o, lengths[longest])[i]
                           THEN Row(o, lengths[longest])[i] = Written(o, i - 1)
                           ELSE i > lengths[o]
      BY DEF PagedInv, LengthsFit, MaterializesWhatWasAppended
    <2>1. /\ o \in DOMAIN owners /\ lengths[o] <= Len(owners[o]) * BlockSize
          /\ lengths[o] \in Nat /\ lengths[longest] \in Nat
      BY DEF PagedInv, LengthsFit
    <2>2. Mask(o, lengths[longest])[i] = (i <= lengths[o])
      BY DEF Mask
    <2>3. CASE i <= lengths[o]
      <3>1. i - 1 \in 0..(lengths[o] - 1)
        BY <2>1, <2>3
      <3>2. pages[Place(o, i - 1)[1]][Place(o, i - 1)[2]] = Written(o, i - 1)
        BY <3>1 DEF PagedInv, PagesKept
      <3>3. Row(o, lengths[longest])[i] = Written(o, i - 1)
        BY <2>3, <3>2 DEF Row, Place
      <3> QED BY <2>1, <2>2, <2>3, <3>3
    <2>4. CASE ~(i <= lengths[o])
      <3>1. i > lengths[o]
        BY <2>1, <2>4
      <3> QED BY <2>1, <2>2, <2>4, <3>1, Zenon
    <2> QED BY <2>3, <2>4
  <1> QED BY <1>1, <1>2, <1>3, PTL DEF PoolSpec

-----------------------------------------------------------------------------
(* The scheduler's invariant *)

\* The requests in the queue, without the sentinel.
Queued == Range(queue) \ {NoItem}

\* The types of the scheduler's state b.
LoopType(b) ==
    b \in [it : [status : [Request -> StatusSet], done : SUBSET Request, started : SUBSET Request],
           batch : Seq(Request), deferred : Seq(Request), taken : Nat, unfinished : Int]

\* A batch that process_batch may run.
Compatible(s) ==
    /\ \A i \in DOMAIN s : Kind[s[i]] = Kind[s[1]]
    /\ Len(s) <= 1 \/ BatchCost(s) <= max_total_batch_tokens

\* Batch, deque and the queued requests Q share nothing; what is in one of them is
\* open or cancelled, and what is open is in one of them.
Apart(b, Q) ==
    /\ IsInjective(b.batch) /\ IsInjective(b.deferred)
    /\ Range(b.batch) \cap Range(b.deferred) = {}
    /\ Q \cap (Range(b.batch) \cup Range(b.deferred)) = {}

Told(b, Q, running) ==
    /\ \A r \in Q \cup Range(b.deferred) : b.it.status[r] \in {"QUEUED", "CANCELLED"}
    /\ \A r \in Range(b.batch) : b.it.status[r] \in {running, "CANCELLED"}
    /\ \A r \in Request : b.it.status[r] \in {"QUEUED", "RUNNING"} =>
          r \in Q \cup Range(b.deferred) \cup Range(b.batch)
    /\ b.it.done = {r \in Request : b.it.status[r] \in Terminal}

Sound(b, Q, running) == LoopType(b) /\ Apart(b, Q) /\ Told(b, Q, running) /\ Compatible(b.batch)

\* Where the scheduler's loop is and what it holds there.
LoopHolds ==
    /\ sched \in {"top", "done", "cancelled"} => batch = <<>> /\ taken = 0
    /\ sched \in {"collect", "run"} => batch # <<>>
    /\ sched = "collect" => taken <= Len(batch) /\ Len(batch) < max_batch_size
    /\ sched = "run" => Range(batch) \subseteq started

\* What the sentinel says about the lifespan.
Closing ==
    /\ accepting <=> life = "serving"
    /\ accepting => NoItem \notin Range(queue) /\ sched \notin {"done", "cancelled"}
    /\ ~accepting => queue = IF sched = "done" THEN <<>> ELSE <<NoItem>>
    /\ sched = "done" => deferred = <<>>
    /\ life = "stopped" => sched \in {"done", "cancelled"}

\* What a handler's place says about its request.
Handlers ==
    \A r \in Request :
        /\ status[r] = "RECEIVED" <=> gate[r] \in {"idle", "validating", "refused"}
        /\ status[r] = "RECEIVED" => store[r] = "absent"
        /\ gate[r] = "waiting" => record[r] = "QUEUED"
        /\ store[r] = "CANCELLED" => status[r] \in {"CANCELLED", "TIMEOUT", "FAILED", "REJECTED"}

\* The inductive invariant.
SchedulerIInv ==
    /\ SchedulerTypeOK /\ QueueAccounting /\ IsInjective(queue)
    /\ Sound(Loop, Queued, IF sched = "run" THEN "RUNNING" ELSE "QUEUED")
    /\ LoopHolds /\ Closing /\ Handlers

\* How the scheduler may change statuses: requests that are not open or cancelled
\* keep theirs, and a cancelled one is never completed.
Follows(s, t) ==
    \A r \in Request :
        \/ t[r] = s[r]
        \/ /\ s[r] \in {"QUEUED", "RUNNING", "CANCELLED"} /\ t[r] # "RECEIVED"
           /\ s[r] = "CANCELLED" => t[r] \in {"TIMEOUT", "FAILED", "REJECTED"}

LEMMA FollowsTransitive ==
    ASSUME NEW s, NEW t, NEW u, Follows(s, t), Follows(t, u)
    PROVE  Follows(s, u)
  BY DEF Follows

\* A sequence has finitely many elements.
LEMMA RangeFinite ==
    ASSUME NEW T, NEW s \in Seq(T)
    PROVE  IsFiniteSet(Range(s))
  <1>1. Len(s) \in Nat /\ s \in [1..Len(s) -> Range(s)] /\ DOMAIN s = 1..Len(s)
    BY DEF Range
  <1>2. PICK D : D = 1..Len(s) /\ IsFiniteSet(D)
    BY <1>1, FS_Interval
  <1>3. s \in Surjection(D, Range(s))
    BY <1>1, <1>2, Zenon DEF Surjection, Range
  <1> QED BY <1>2, <1>3, FS_Surjection

\* What a batch costs.
LEMMA CostFacts ==
    ASSUME setup \in Setups, NEW s \in Seq(Request)
    PROVE  /\ BatchCost(s) \in Nat
           /\ \A r \in Request : r \notin Range(s) => BatchCost(Append(s, r)) = BatchCost(s) + Cost[r]
           /\ \A t : Range(t) \subseteq Range(s) => BatchCost(t) <= BatchCost(s)
  <1>1. IsFiniteSet(Range(s)) /\ \A r \in Range(s) : r \in Request
    BY RangeFinite DEF Range
  <1>2. \A r \in Request : Cost[r] \in Nat
    BY LocalSchedulerAssumption DEF Cost
  <1>3. \A r \in Range(s) : Cost[r] \in Nat
    BY <1>1, <1>2
  <1>4. BatchCost(s) \in Nat
    BY <1>1, <1>3, SumNat DEF BatchCost
  <1>5. ASSUME NEW r \in Request, r \notin Range(s) PROVE BatchCost(Append(s, r)) = BatchCost(s) + Cost[r]
    <2>1. Range(Append(s, r)) = Range(s) \cup {r}
      BY AppendFacts
    <2>2. SumFunctionOnSet(Cost, Range(s) \cup {r}) = SumFunctionOnSet(Cost, Range(s)) + Cost[r]
      BY <1>1, <1>2, <1>3, <1>5, SumAdds
    <2> QED BY <2>1, <2>2 DEF BatchCost
  <1>6. ASSUME NEW t, Range(t) \subseteq Range(s) PROVE BatchCost(t) <= BatchCost(s)
    BY <1>1, <1>3, <1>6, SumMonotone DEF BatchCost
  <1> QED BY <1>4, <1>5, <1>6

\* A request that fits may join.
LEMMA JoinCompatible ==
    ASSUME setup \in Setups, NEW b, NEW s \in Seq(Request), b.batch = s, s # <<>>, Compatible(s),
           NEW r \in Request, r \notin Range(s), Fits(b, r)
    PROVE  Compatible(Append(s, r))
  <1>1. PICK n \in Nat \ {0} : n = Len(s) /\ DOMAIN s = 1..n
    OBVIOUS
  <1>2. PICK t \in Seq(Request) : t = Append(s, r)
    BY AppendFacts
  <1>3. DOMAIN t = 1..(n + 1) /\ t[n + 1] = r /\ \A i \in 1..n : t[i] = s[i]
    BY <1>1, <1>2
  <1>4. t[1] = s[1] /\ Kind[t[1]] = Kind[s[1]]
    BY <1>1, <1>3
  <1>5. \A i \in 1..n : Kind[t[i]] = Kind[s[1]]
    BY <1>1, <1>3 DEF Compatible
  <1>6. Kind[r] = Kind[s[1]] /\ BatchCost(s) + Cost[r] <= max_total_batch_tokens
    BY DEF Fits
  <1>7. \A i \in DOMAIN t : i \in 1..n \/ i = n + 1
    BY <1>1, <1>3
  <1>8. \A i \in DOMAIN t : Kind[t[i]] = Kind[t[1]]
    BY <1>3, <1>4, <1>5, <1>6, <1>7
  <1>9. BatchCost(t) <= max_total_batch_tokens
    BY <1>2, <1>6, CostFacts
  <1> QED BY <1>2, <1>8, <1>9 DEF Compatible

\* So may any part of a batch be run.
LEMMA PartCompatible ==
    ASSUME setup \in Setups, NEW s \in Seq(Request), Compatible(s),
           NEW t \in Seq(Request), Range(t) \subseteq Range(s), Len(t) <= Len(s)
    PROVE  Compatible(t)
  <1>1. PICK m \in Nat, n \in Nat : m = Len(t) /\ n = Len(s) /\ DOMAIN t = 1..m /\ DOMAIN s = 1..n
    OBVIOUS
  <1>2. \A i \in DOMAIN t : \E j \in DOMAIN s : t[i] = s[j]
    BY DEF Range
  <1>3. \A i \in DOMAIN t : Kind[t[i]] = Kind[s[1]]
    BY <1>2 DEF Compatible
  <1>4. \A i \in DOMAIN t : Kind[t[i]] = Kind[t[1]]
    BY <1>1, <1>3
  <1>5. BatchCost(t) <= BatchCost(s) /\ BatchCost(s) \in Nat /\ BatchCost(t) \in Nat
    BY CostFacts
  <1>6. max_total_batch_tokens \in Nat
    BY LocalSchedulerAssumption
  <1>7. Len(t) <= 1 \/ BatchCost(t) <= max_total_batch_tokens
    BY <1>1, <1>5, <1>6 DEF Compatible
  <1> QED BY <1>4, <1>7 DEF Compatible

-----------------------------------------------------------------------------
(* collect_batch *)

\* The fields of the scheduler's state.
LEMMA LoopFields ==
    ASSUME NEW b, LoopType(b)
    PROVE  /\ b.it.status \in [Request -> StatusSet] /\ b.it.done \in SUBSET Request /\ b.it.started \in SUBSET Request
           /\ b.batch \in Seq(Request) /\ b.deferred \in Seq(Request) /\ b.taken \in Nat /\ b.unfinished \in Int
  BY DEF LoopType

\* What finish does to the fields of a request.
LEMMA FinishFields ==
    ASSUME NEW st, NEW dn, NEW sd, NEW r, NEW s
    PROVE  Finish([status |-> st, done |-> dn, started |-> sd], r, s) =
              [status |-> [st EXCEPT ![r] = s], done |-> dn \cup {r}, started |-> sd]
  <1>1. PICK it : it = [status |-> st, done |-> dn, started |-> sd]
    OBVIOUS
  <1>2. it.status = st /\ it.done = dn /\ it.started = sd
    BY <1>1
  <1>3. Finish(it, r, s) = [it EXCEPT !.status[r] = s, !.done = @ \cup {r}]
    BY DEF Finish
  <1>4. [it EXCEPT !.status[r] = s] = [status |-> [st EXCEPT ![r] = s], done |-> dn, started |-> sd]
    BY <1>1
  <1> QED BY <1>1, <1>3, <1>4

\* The branches of consider: time out, skip a cancelled request, join, defer.
Drops(b, q, c) ==
    /\ c.batch = b.batch /\ c.deferred = b.deferred /\ c.taken = b.taken
    /\ c.unfinished = b.unfinished - (IF q THEN 1 ELSE 0)
TimesOut(b, r, c) == c.it.status = [b.it.status EXCEPT ![r] = "TIMEOUT"] /\ c.it.done = b.it.done \cup {r}
Skips(b, r, c) == b.it.status[r] = "CANCELLED" /\ c.it = b.it
Joins(b, r, q, c) ==
    /\ b.it.status[r] # "CANCELLED" /\ Fits(b, r) /\ c.it = b.it
    /\ c.batch = Append(b.batch, r) /\ c.deferred = b.deferred
    /\ c.taken = b.taken + (IF q THEN 1 ELSE 0) /\ c.unfinished = b.unfinished
Defers(b, r, q, c) ==
    /\ b.it.status[r] # "CANCELLED" /\ c.it = b.it
    /\ c.batch = b.batch /\ c.deferred = Append(b.deferred, r) /\ c.taken = b.taken
    /\ c.unfinished = b.unfinished - (IF q THEN 1 ELSE 0)

LEMMA ConsiderCases ==
    ASSUME NEW b, LoopType(b), NEW r \in Request, NEW q \in BOOLEAN, NEW c, c = Consider(b, r, q)
    PROVE  /\ LoopType(c) /\ c.it.started = b.it.started
           /\ ((TimesOut(b, r, c) \/ Skips(b, r, c)) /\ Drops(b, q, c)) \/ Joins(b, r, q, c) \/ Defers(b, r, q, c)
  <1>1. PICK st \in [Request -> StatusSet], dn \in SUBSET Request, sd \in SUBSET Request, bt \in Seq(Request),
             df \in Seq(Request), tk \in Nat, uf \in Int :
          b = [it |-> [status |-> st, done |-> dn, started |-> sd], batch |-> bt, deferred |-> df, taken |-> tk, unfinished |-> uf]
    BY DEF LoopType
  <1>2. PICK one \in 0..1 : one = IF q THEN 1 ELSE 0
    OBVIOUS
  <1>3. b.it = [status |-> st, done |-> dn, started |-> sd] /\ b.batch = bt /\ b.deferred = df /\ b.taken = tk /\ b.unfinished = uf
    BY <1>1
  <1>4. b.it.status = st /\ b.it.done = dn /\ b.it.started = sd
    BY <1>3
  <1>5. PICK dropped : dropped = [it |-> b.it, batch |-> bt, deferred |-> df, taken |-> tk, unfinished |-> uf - one]
    OBVIOUS
  <1>6. dropped = [b EXCEPT !.unfinished = @ - (IF q THEN 1 ELSE 0)]
    BY <1>1, <1>2, <1>3, <1>5
  <1>7. CASE r \in expired
    <2>1. c = [dropped EXCEPT !.it = Finish(@, r, "TIMEOUT")]
      BY <1>6, <1>7 DEF Consider
    <2>2. PICK i \in [status : [Request -> StatusSet], done : SUBSET Request, started : SUBSET Request] :
             i = [status |-> [st EXCEPT ![r] = "TIMEOUT"], done |-> dn \cup {r}, started |-> sd]
      BY DEF StatusSet, Terminal
    <2>3. Finish(b.it, r, "TIMEOUT") = i
      BY <1>3, <2>2, FinishFields
    <2>4. c = [it |-> i, batch |-> bt, deferred |-> df, taken |-> tk, unfinished |-> uf - one]
      BY <1>5, <2>1, <2>3
    <2>5. LoopType(c)
      BY <1>2, <2>4 DEF LoopType
    <2>6. c.it = i /\ c.batch = bt /\ c.deferred = df /\ c.taken = tk /\ c.unfinished = uf - one
      BY <2>4
    <2>7. c.it.status = [st EXCEPT ![r] = "TIMEOUT"] /\ c.it.done = dn \cup {r} /\ c.it.started = sd
      BY <2>2, <2>6
    <2> QED BY <1>2, <1>3, <1>4, <1>7, <2>5, <2>6, <2>7 DEF TimesOut, Drops
  <1>8. CASE r \notin expired /\ st[r] = "CANCELLED"
    <2>1. c = dropped
      BY <1>4, <1>6, <1>8 DEF Consider
    <2>2. c.it = b.it /\ c.batch = bt /\ c.deferred = df /\ c.taken = tk /\ c.unfinished = uf - one
      BY <1>5, <2>1
    <2>3. LoopType(c)
      BY <1>2, <1>3, <1>5, <2>1 DEF LoopType
    <2> QED BY <1>2, <1>3, <1>4, <1>8, <2>2, <2>3 DEF Skips, Drops
  <1>9. CASE r \notin expired /\ st[r] # "CANCELLED" /\ Fits(b, r)
    <2>1. c = [b EXCEPT !.batch = Append(@, r), !.taken = @ + (IF q THEN 1 ELSE 0)]
      BY <1>4, <1>9 DEF Consider
    <2>2. PICK a \in Seq(Request) : a = Append(bt, r)
      BY AppendFacts
    <2>3. c = [it |-> b.it, batch |-> a, deferred |-> df, taken |-> tk + one, unfinished |-> uf]
      BY <1>1, <1>2, <1>3, <2>1, <2>2
    <2>4. c.it = b.it /\ c.batch = a /\ c.deferred = df /\ c.taken = tk + one /\ c.unfinished = uf
      BY <2>3
    <2>5. LoopType(c)
      BY <1>2, <1>3, <2>3 DEF LoopType
    <2> QED BY <1>2, <1>3, <1>4, <1>9, <2>2, <2>4, <2>5 DEF Joins
  <1>10. CASE r \notin expired /\ st[r] # "CANCELLED" /\ ~Fits(b, r)
    <2>1. c = [dropped EXCEPT !.deferred = Append(@, r)]
      BY <1>4, <1>6, <1>10 DEF Consider
    <2>2. PICK a \in Seq(Request) : a = Append(df, r)
      BY AppendFacts
    <2>3. c = [it |-> b.it, batch |-> bt, deferred |-> a, taken |-> tk, unfinished |-> uf - one]
      BY <1>5, <2>1, <2>2
    <2>4. c.it = b.it /\ c.batch = bt /\ c.deferred = a /\ c.taken = tk /\ c.unfinished = uf - one
      BY <2>3
    <2>5. LoopType(c)
      BY <1>2, <1>3, <2>3 DEF LoopType
    <2> QED BY <1>2, <1>3, <1>4, <1>10, <2>2, <2>4, <2>5 DEF Defers
  <1> QED BY <1>7, <1>8, <1>9, <1>10

\* What collection may do to the scheduler's state.
Collects(b, c) ==
    /\ c.it.started = b.it.started /\ Follows(b.it.status, c.it.status)
    /\ c.batch # <<>> /\ Len(c.batch) <= max_batch_size

\* consider keeps the batch, the deque and the queue apart and a batch compatible.
LEMMA ConsiderSound ==
    ASSUME setup \in Setups, NEW b, NEW Q \in SUBSET Request, NEW r \in Request, r \notin Q,
           r \notin Range(b.batch), r \notin Range(b.deferred),
           Sound(b, Q \cup {r}, "QUEUED"), b.batch # <<>>, Len(b.batch) < max_batch_size,
           NEW q \in BOOLEAN, NEW c, c = Consider(b, r, q)
    PROVE  Sound(c, Q, "QUEUED") /\ Collects(b, c)
  <1>1. LoopType(b) /\ Apart(b, Q \cup {r}) /\ Told(b, Q \cup {r}, "QUEUED") /\ Compatible(b.batch)
    BY DEF Sound
  <1>2. /\ b.it.status \in [Request -> StatusSet] /\ b.it.done \in SUBSET Request
        /\ b.batch \in Seq(Request) /\ b.deferred \in Seq(Request)
    BY <1>1, LoopFields
  <1>3. LoopType(c) /\ c.it.started = b.it.started
    BY <1>1, ConsiderCases
  <1>4. max_batch_size \in Nat /\ Len(b.batch) \in Nat
    BY <1>2, LocalSchedulerAssumption
  <1>5. Terminal = {"COMPLETED", "FAILED", "REJECTED", "TIMEOUT", "CANCELLED"}
    BY DEF Terminal
  <1>6. CASE TimesOut(b, r, c) /\ Drops(b, q, c)
    <2> USE DEF TimesOut, Drops
    <2>1. b.it.status[r] \in {"QUEUED", "CANCELLED"}
      BY <1>1 DEF Told
    <2>2. \A x \in Request : c.it.status[x] = IF x = r THEN "TIMEOUT" ELSE b.it.status[x]
      BY <1>2, <1>6
    <2>3. Follows(b.it.status, c.it.status)
      BY <2>1, <2>2 DEF Follows
    <2>4. \A x \in Range(b.batch) \cup Range(b.deferred) : x \in Request
      BY <1>2 DEF Range
    <2>5. Told(c, Q, "QUEUED")
      <3>1. \A x \in Q \cup Range(c.deferred) : c.it.status[x] \in {"QUEUED", "CANCELLED"}
        BY <1>1, <1>6, <2>2, <2>4 DEF Told
      <3>2. \A x \in Range(c.batch) : c.it.status[x] \in {"QUEUED", "CANCELLED"}
        BY <1>1, <1>6, <2>2, <2>4 DEF Told
      <3>3. \A x \in Request : c.it.status[x] \in {"QUEUED", "RUNNING"} => x \in Q \cup Range(c.deferred) \cup Range(c.batch)
        BY <1>1, <1>6, <2>2 DEF Told
      <3>4. c.it.done = {x \in Request : c.it.status[x] \in Terminal}
        BY <1>1, <1>5, <1>6, <2>2 DEF Told
      <3> QED BY <3>1, <3>2, <3>3, <3>4 DEF Told
    <2>6. Apart(c, Q)
      BY <1>1, <1>6 DEF Apart
    <2> QED BY <1>1, <1>3, <1>4, <1>6, <2>3, <2>5, <2>6 DEF Sound, Collects
  <1>7. CASE Skips(b, r, c) /\ Drops(b, q, c)
    <2> USE DEF Skips, Drops
    <2>1. Apart(c, Q) /\ Follows(b.it.status, c.it.status)
      BY <1>1, <1>7 DEF Apart, Follows
    <2>2. Told(c, Q, "QUEUED")
      BY <1>1, <1>7 DEF Told
    <2> QED BY <1>1, <1>3, <1>4, <1>7, <2>1, <2>2 DEF Sound, Collects
  <1>8. CASE Joins(b, r, q, c)
    <2> USE DEF Joins
    <2>1. /\ c.batch \in Seq(Request) /\ Len(c.batch) = Len(b.batch) + 1
          /\ Range(c.batch) = Range(b.batch) \cup {r} /\ IsInjective(c.batch)
      BY <1>1, <1>2, <1>8, AppendFacts DEF Apart
    <2>2. Compatible(c.batch)
      BY <1>1, <1>2, <1>8, JoinCompatible
    <2>3. Apart(c, Q) /\ Follows(b.it.status, c.it.status)
      BY <1>1, <1>8, <2>1 DEF Apart, Follows
    <2>4. Told(c, Q, "QUEUED")
      BY <1>1, <1>8, <2>1 DEF Told
    <2>5. c.batch # <<>> /\ Len(c.batch) <= max_batch_size
      BY <1>4, <2>1
    <2> QED BY <1>3, <2>2, <2>3, <2>4, <2>5 DEF Sound, Collects
  <1>9. CASE Defers(b, r, q, c)
    <2> USE DEF Defers
    <2>1. c.deferred \in Seq(Request) /\ Range(c.deferred) = Range(b.deferred) \cup {r} /\ IsInjective(c.deferred)
      BY <1>1, <1>2, <1>9, AppendFacts DEF Apart
    <2>2. Apart(c, Q) /\ Follows(b.it.status, c.it.status)
      BY <1>1, <1>9, <2>1 DEF Apart, Follows
    <2>3. Told(c, Q, "QUEUED")
      BY <1>1, <1>9, <2>1 DEF Told
    <2> QED BY <1>1, <1>3, <1>4, <1>9, <2>2, <2>3 DEF Sound, Collects
  <1> QED BY <1>1, <1>6, <1>7, <1>8, <1>9, ConsiderCases

\* The counts after consider.
LEMMA ConsiderCounts ==
    ASSUME NEW b, LoopType(b), NEW r \in Request, NEW q \in BOOLEAN, NEW c, c = Consider(b, r, q)
    PROVE  /\ c.unfinished - c.taken = b.unfinished - b.taken - (IF q THEN 1 ELSE 0)
           /\ b.taken <= Len(b.batch) => c.taken <= Len(c.batch)
           /\ ~q => c.taken = b.taken /\ c.unfinished = b.unfinished
           /\ Len(c.deferred) >= Len(b.deferred)
  <1>1. b.batch \in Seq(Request) /\ b.deferred \in Seq(Request) /\ b.taken \in Nat /\ b.unfinished \in Int
    BY LoopFields
  <1>2. PICK m \in Nat, n \in Nat : m = Len(b.batch) /\ n = Len(b.deferred)
    BY <1>1
  <1>3. Len(Append(b.batch, r)) = m + 1 /\ Len(Append(b.deferred, r)) = n + 1
    BY <1>1, <1>2, AppendFacts
  <1>4. PICK one \in 0..1 : one = IF q THEN 1 ELSE 0
    OBVIOUS
  <1>5. ((TimesOut(b, r, c) \/ Skips(b, r, c)) /\ Drops(b, q, c)) \/ Joins(b, r, q, c) \/ Defers(b, r, q, c)
    BY ConsiderCases
  <1>6. \/ c.batch = b.batch /\ c.deferred = b.deferred /\ c.taken = b.taken /\ c.unfinished = b.unfinished - one
        \/ c.batch = Append(b.batch, r) /\ c.deferred = b.deferred /\ c.taken = b.taken + one /\ c.unfinished = b.unfinished
        \/ c.batch = b.batch /\ c.deferred = Append(b.deferred, r) /\ c.taken = b.taken /\ c.unfinished = b.unfinished - one
    BY <1>4, <1>5 DEF Drops, Joins, Defers
  <1> QED BY <1>1, <1>2, <1>3, <1>4, <1>6

\* One look at the oldest deferred request, and what i of n looks leave.
Look(x) ==
    IF Len(x.batch) = max_batch_size THEN x
    ELSE Consider([x EXCEPT !.deferred = Tail(@)], Head(x.deferred), FALSE)

Scanned(b, Q, n, i, x) ==
    /\ Sound(x, Q, "QUEUED") /\ Collects(b, x) /\ x.taken = b.taken /\ x.unfinished = b.unfinished
    /\ Len(x.batch) # max_batch_size => Len(x.deferred) >= n - i

LEMMA LookKeeps ==
    ASSUME setup \in Setups, NEW b, NEW Q \in SUBSET Request, NEW n \in Nat, NEW i \in 1..n,
           NEW x, Scanned(b, Q, n, i - 1, x)
    PROVE  Scanned(b, Q, n, i, Look(x))
  <1>1. /\ LoopType(x) /\ Apart(x, Q) /\ Told(x, Q, "QUEUED") /\ Compatible(x.batch) /\ Collects(b, x)
        /\ x.taken = b.taken /\ x.unfinished = b.unfinished
    BY DEF Scanned, Sound
  <1>2. CASE Len(x.batch) = max_batch_size
    BY <1>2 DEF Scanned, Look
  <1>3. CASE Len(x.batch) # max_batch_size
    <2>1. PICK st \in [Request -> StatusSet], dn \in SUBSET Request, sd \in SUBSET Request, bt \in Seq(Request),
               df \in Seq(Request), tk \in Nat, uf \in Int :
            x = [it |-> [status |-> st, done |-> dn, started |-> sd], batch |-> bt, deferred |-> df, taken |-> tk, unfinished |-> uf]
      BY <1>1 DEF LoopType
    <2>2. x.it = [status |-> st, done |-> dn, started |-> sd] /\ x.batch = bt /\ x.deferred = df /\ x.taken = tk /\ x.unfinished = uf
      BY <2>1
    <2>3. PICK k \in Nat : k = Len(df) /\ k >= n - (i - 1) /\ k > 0 /\ k - 1 >= n - i
      BY <1>3, <2>2 DEF Scanned
    <2>4. PICK r \in Request : r = Head(df) /\ r = df[1] /\ r \in Range(df)
      BY <2>3 DEF Range
    <2>5. PICK rest \in Seq(Request) : rest = Tail(df) /\ Len(rest) = k - 1 /\ IsInjective(rest) /\ Range(rest) = Range(df) \ {r}
      BY <1>1, <2>2, <2>3, <2>4, RestFacts DEF Apart
    <2>6. PICK y : y = [it |-> x.it, batch |-> bt, deferred |-> rest, taken |-> tk, unfinished |-> uf]
      OBVIOUS
    <2>7. y = [x EXCEPT !.deferred = Tail(@)]
      <3>1. Tail(x.deferred) = rest
        BY <2>2, <2>5
      <3>2. PICK i0 : i0 = x.it /\ x = [it |-> i0, batch |-> bt, deferred |-> df, taken |-> tk, unfinished |-> uf]
        BY <2>1, <2>2
      <3>3. [x EXCEPT !.deferred = rest] = [it |-> i0, batch |-> bt, deferred |-> rest, taken |-> tk, unfinished |-> uf]
        BY ONLY <3>2
      <3>4. y = [x EXCEPT !.deferred = rest]
        BY <2>6, <3>2, <3>3
      <3> QED BY <3>1, <3>4, Zenon
    <2>8. y.it = x.it /\ y.batch = bt /\ y.deferred = rest /\ y.taken = tk /\ y.unfinished = uf
      BY <2>6
    <2>9. LoopType(y)
      BY <2>2, <2>6 DEF LoopType
    <2>10. Apart(y, Q \cup {r}) /\ r \notin Q /\ r \notin Range(y.batch) /\ r \notin Range(y.deferred)
      BY <1>1, <2>2, <2>4, <2>5, <2>8 DEF Apart
    <2>11. Told(y, Q \cup {r}, "QUEUED")
      BY <1>1, <2>2, <2>4, <2>5, <2>8 DEF Told
    <2>12. Sound(y, Q \cup {r}, "QUEUED")
      BY <1>1, <2>2, <2>8, <2>9, <2>10, <2>11 DEF Sound
    <2>13. PICK c : c = Consider(y, r, FALSE)
      OBVIOUS
    <2>14. y.batch # <<>> /\ Len(y.batch) < max_batch_size
      <3>1. Len(bt) \in Nat /\ max_batch_size \in Nat /\ Len(bt) <= max_batch_size /\ bt # <<>>
        BY <1>1, <2>2, LocalSchedulerAssumption DEF Collects
      <3> QED BY <1>3, <2>2, <2>8, <3>1
    <2>15. Sound(c, Q, "QUEUED") /\ Collects(y, c)
      BY <2>10, <2>12, <2>13, <2>14, ConsiderSound
    <2>16. c.taken = tk /\ c.unfinished = uf /\ Len(c.deferred) >= Len(y.deferred)
      BY <2>8, <2>9, <2>13, ConsiderCounts
    <2>17. c.deferred \in Seq(Request)
      BY <2>15, LoopFields DEF Sound
    <2>18. Len(c.deferred) >= n - i
      BY <2>3, <2>5, <2>8, <2>16, <2>17
    <2>19. Collects(b, c)
      BY <1>1, <2>8, <2>15, FollowsTransitive DEF Collects
    <2>20. Look(x) = c
      BY <1>3, <2>2, <2>4, <2>7, <2>13 DEF Look
    <2>21. Scanned(b, Q, n, i, c)
      BY <1>1, <2>2, <2>15, <2>16, <2>18, <2>19 DEF Scanned
    <2> QED BY <2>20, <2>21
  <1> QED BY <1>2, <1>3

\* What any number of looks leave.
LEMMA LooksKeep ==
    ASSUME setup \in Setups, NEW b, NEW Q \in SUBSET Request, NEW n \in Nat, NEW g,
           Scanned(b, Q, n, 0, g[0]),
           \A i \in 1..n : Scanned(b, Q, n, i - 1, g[i - 1]) => g[i] = Look(g[i - 1])
    PROVE  \A i \in 0..n : Scanned(b, Q, n, i, g[i])
  <1> DEFINE S == {i \in 0..n : Scanned(b, Q, n, i, g[i])}
  <1>1. 0 \in S
    OBVIOUS
  <1>2. \A i \in 1..n : i - 1 \in S => i \in S
    BY LookKeeps
  <1>3. \A i \in 0..n : i \in S
    <2> HIDE DEF S
    <2> QED BY <1>1, <1>2, Climbs, SMTT(30)
  <1> QED BY <1>3

\* Scanning the deque.
LEMMA ScanSound ==
    ASSUME setup \in Setups, NEW b, NEW Q \in SUBSET Request, Sound(b, Q, "QUEUED"),
           b.batch # <<>>, Len(b.batch) <= max_batch_size, NEW c, c = ScanDeferred(b)
    PROVE  Sound(c, Q, "QUEUED") /\ Collects(b, c) /\ c.taken = b.taken /\ c.unfinished = b.unfinished
  <1> DEFINE Is(g, n) == g = [i \in 0..n |-> IF i = 0 THEN b
                                             ELSE IF Len(g[i - 1].batch) = max_batch_size THEN g[i - 1]
                                             ELSE Consider([g[i - 1] EXCEPT !.deferred = Tail(@)], Head(g[i - 1].deferred), FALSE)]
             A == {x \in [it : [status : [Request -> StatusSet], done : SUBSET Request, started : SUBSET Request],
                          batch : Seq(Request), deferred : Seq(Request), taken : Nat, unfinished : Int] : TRUE}
  <1>1. \A x : x \in A <=> LoopType(x)
    BY DEF LoopType
  <1>2. PICK n \in Nat : n = Len(b.deferred)
    BY LoopFields DEF Sound
  <1>3. Scanned(b, Q, n, 0, b)
    <2>1. Follows(b.it.status, b.it.status)
      BY DEF Follows
    <2> QED BY <1>2, <2>1 DEF Scanned, Collects
  <1>4. PICK step : step = [p \in A \X (1..n) |-> IF Look(p[1]) \in A THEN Look(p[1]) ELSE b]
    OBVIOUS
  <1>5. b \in A
    BY <1>1 DEF Sound
  <1>6. Steps(A, n, step)
    BY <1>4, <1>5 DEF Steps
  <1>7. PICK g : Iteration(A, b, n, step, g)
    <2> HIDE DEF A
    <2> QED BY <1>5, <1>6, Iterates
  <1> HIDE DEF A
  <1>8. g \in [0..n -> A] /\ g[0] = b
    BY <1>7 DEF Iteration
  <1>9. ASSUME NEW i \in 1..n, Scanned(b, Q, n, i - 1, g[i - 1]) PROVE g[i] = Look(g[i - 1])
    <2>1. PICK x : x = g[i - 1] /\ x \in A
      BY <1>8
    <2>2. g[i] = step[<<x, i>>]
      BY <1>7, <2>1 DEF Iteration
    <2>3. Scanned(b, Q, n, i, Look(x))
      BY <1>9, <2>1, LookKeeps
    <2>4. Look(x) \in A
      BY <1>1, <2>3 DEF Scanned, Sound
    <2>5. step[<<x, i>>] = Look(x)
      BY <1>4, <2>1, <2>4
    <2> QED BY <2>1, <2>2, <2>5
  <1>10. \A i \in 0..n : Scanned(b, Q, n, i, g[i])
    BY <1>3, <1>8, <1>9, LooksKeep
  <1>11. \A i \in 1..n : i - 1 \in 0..n /\ g[i] = Look(g[i - 1])
    BY <1>9, <1>10
  <1>12. Is(g, n)
    <2>1. \A i \in 0..n : i # 0 => i \in 1..n
      OBVIOUS
    <2>2. g = [i \in 0..n |-> g[i]]
      BY <1>8
    <2>3. \A i \in 0..n : g[i] = IF i = 0 THEN b ELSE Look(g[i - 1])
      BY <1>8, <1>11, <2>1
    <2>4. g = [i \in 0..n |-> IF i = 0 THEN b ELSE Look(g[i - 1])]
      BY <2>2, <2>3
    <2> QED BY <2>4 DEF Look
  <1>13. PICK h : Is(h, n) /\ ScanDeferred(b) = h[n]
    BY <1>2, <1>12 DEF ScanDeferred
  <1>14. h = [i \in 0..n |-> IF i = 0 THEN b ELSE Look(h[i - 1])]
    BY <1>13 DEF Look
  <1>15. h[0] = b /\ \A i \in 1..n : h[i] = Look(h[i - 1])
    <2>1. 0 \in 0..n /\ \A i \in 1..n : i \in 0..n /\ i # 0
      OBVIOUS
    <2> HIDE DEF Is
    <2> QED BY <1>14, <2>1
  <1>16. \A i \in 0..n : Scanned(b, Q, n, i, h[i])
    BY <1>3, <1>15, LooksKeep
  <1>17. Scanned(b, Q, n, n, h[n])
    BY <1>16
  <1> QED BY <1>13, <1>17 DEF Scanned

-----------------------------------------------------------------------------
(* process_batch *)

\* Whoever is not skipped is started; late requests time out.
LEMMA AdmitSound ==
    ASSUME setup \in Setups, NEW b, NEW Q \in SUBSET Request, Sound(b, Q, "QUEUED"), NEW p, p = Admit(b)
    PROVE  /\ Sound(p, Q, "RUNNING") /\ Follows(b.it.status, p.it.status) /\ Len(p.batch) <= Len(b.batch)
           /\ p.deferred = b.deferred /\ p.taken = b.taken /\ p.unfinished = b.unfinished
           /\ Range(p.batch) \subseteq p.it.started
  <1>1. LoopType(b) /\ Apart(b, Q) /\ Told(b, Q, "QUEUED") /\ Compatible(b.batch)
    BY DEF Sound
  <1>2. PICK st \in [Request -> StatusSet], dn \in SUBSET Request, sd \in SUBSET Request, bt \in Seq(Request),
             df \in Seq(Request), tk \in Nat, uf \in Int :
          b = [it |-> [status |-> st, done |-> dn, started |-> sd], batch |-> bt, deferred |-> df, taken |-> tk, unfinished |-> uf]
    BY <1>1 DEF LoopType
  <1>3. b.it = [status |-> st, done |-> dn, started |-> sd] /\ b.batch = bt /\ b.deferred = df /\ b.taken = tk /\ b.unfinished = uf
    BY <1>2
  <1>4. b.it.status = st /\ b.it.done = dn /\ b.it.started = sd
    BY <1>3
  <1>5. PICK S : S = {r \in Request : Processable(b, r)}
    OBVIOUS
  <1>5a. \A r \in Request : r \in S <=> st[r] # "CANCELLED" /\ r \notin expired
    BY <1>4, <1>5 DEF Processable
  <1>6. PICK active \in Seq(Request) : active = Keep(bt, S) /\ Len(active) <= Len(bt) /\ Range(active) = Range(bt) \cap S /\ IsInjective(active)
    BY <1>1, <1>3, KeepFacts DEF Apart
  <1>7. PICK late \in SUBSET Request : late = {r \in Range(bt) : st[r] # "CANCELLED" /\ r \in expired}
    <2>1. Range(bt) \subseteq Request
      BY DEF Range
    <2> QED BY <2>1
  <1>8. PICK ns \in [Request -> StatusSet] :
           ns = [r \in Request |-> IF r \in Range(active) THEN "RUNNING" ELSE IF r \in late THEN "TIMEOUT" ELSE st[r]]
    BY DEF StatusSet, Terminal
  <1>9. PICK i : i = [status |-> ns, done |-> dn \cup late, started |-> sd \cup Range(active)]
    OBVIOUS
  <1>10. p = [it |-> i, batch |-> active, deferred |-> df, taken |-> tk, unfinished |-> uf]
    <2>1. p = [b EXCEPT !.batch = active, !.it = i]
      BY <1>3, <1>4, <1>5, <1>6, <1>7, <1>8, <1>9 DEF Admit
    <2>2. PICK i0 : b = [it |-> i0, batch |-> bt, deferred |-> df, taken |-> tk, unfinished |-> uf]
      BY <1>2
    <2> QED BY <2>1, <2>2
  <1>11. p.it = i /\ p.batch = active /\ p.deferred = df /\ p.taken = tk /\ p.unfinished = uf
    BY <1>10
  <1>12. p.it.status = ns /\ p.it.done = dn \cup late /\ p.it.started = sd \cup Range(active)
    BY <1>9, <1>11
  <1>13. \A r \in Range(active) \cup Range(bt) \cup Range(df) : r \in Request
    BY DEF Range
  <1>14. LoopType(p)
    BY <1>9, <1>10, <1>13 DEF LoopType
  <1>15. Apart(p, Q)
    BY <1>1, <1>3, <1>6, <1>11 DEF Apart
  <1>16. /\ \A r \in Range(bt) : st[r] \in {"QUEUED", "CANCELLED"}
         /\ \A r \in Q \cup Range(df) : st[r] \in {"QUEUED", "CANCELLED"} /\ r \notin Range(bt) /\ r \in Request
         /\ \A r \in Request : st[r] \in {"QUEUED", "RUNNING"} => r \in Q \cup Range(df) \cup Range(bt)
         /\ dn = {r \in Request : st[r] \in Terminal}
    BY <1>1, <1>3, <1>4, <1>13 DEF Told, Apart
  <1>17. \A r \in Request : \/ r \in Range(bt) /\ ns[r] = "RUNNING" /\ st[r] = "QUEUED" /\ r \in Range(active) /\ r \notin late
                            \/ r \in Range(bt) /\ ns[r] = "TIMEOUT" /\ r \in late /\ r \notin Range(active) /\ st[r] = "QUEUED"
                            \/ r \in Range(bt) /\ ns[r] = "CANCELLED" /\ st[r] = "CANCELLED" /\ r \notin late /\ r \notin Range(active)
                            \/ r \notin Range(bt) /\ ns[r] = st[r] /\ r \notin late /\ r \notin Range(active)
    BY <1>5a, <1>6, <1>7, <1>8, <1>16
  <1>18. Follows(b.it.status, p.it.status)
    BY <1>4, <1>12, <1>17 DEF Follows
  <1>19. Told(p, Q, "RUNNING")
    <2>1. \A r \in Q \cup Range(p.deferred) : p.it.status[r] \in {"QUEUED", "CANCELLED"}
      BY <1>11, <1>12, <1>16, <1>17
    <2>2. \A r \in Range(p.batch) : p.it.status[r] \in {"RUNNING", "CANCELLED"}
      BY <1>11, <1>12, <1>13, <1>17
    <2>3. \A r \in Request : p.it.status[r] \in {"QUEUED", "RUNNING"} => r \in Q \cup Range(p.deferred) \cup Range(p.batch)
      BY <1>11, <1>12, <1>16, <1>17
    <2>4. p.it.done = {r \in Request : p.it.status[r] \in Terminal}
      <3>1. Terminal = {"COMPLETED", "FAILED", "REJECTED", "TIMEOUT", "CANCELLED"}
        BY DEF Terminal
      <3>2. \A r \in Request : r \in dn \cup late <=> ns[r] \in Terminal
        BY <1>16, <1>17, <3>1
      <3> QED BY <1>12, <3>2
    <2> QED BY <2>1, <2>2, <2>3, <2>4 DEF Told
  <1>20. Compatible(p.batch)
    BY <1>1, <1>3, <1>6, <1>11, PartCompatible
  <1>21. Sound(p, Q, "RUNNING")
    BY <1>14, <1>15, <1>19, <1>20 DEF Sound
  <1> QED BY <1>3, <1>6, <1>11, <1>12, <1>18, <1>21

\* An iteration that ends leaves an empty batch.
LEMMA EmptiedSound ==
    ASSUME setup \in Setups, NEW p, NEW Q \in SUBSET Request, NEW x, NEW y, LoopType(p), Apart(p, Q), Told(p, Q, y),
           \A r \in Range(p.batch) : p.it.status[r] \notin {"QUEUED", "RUNNING"},
           NEW c, LoopType(c), c.it = p.it, c.deferred = p.deferred, c.batch = <<>>
    PROVE  Sound(c, Q, x)
  <1>1. Range(c.batch) = {} /\ IsInjective(c.batch) /\ DOMAIN c.batch = {} /\ Len(c.batch) = 0
    BY DEF Range, IsInjective
  <1>2. Apart(c, Q)
    BY <1>1 DEF Apart
  <1>3. Told(c, Q, x)
    BY <1>1 DEF Told
  <1>4. Compatible(c.batch)
    BY <1>1 DEF Compatible
  <1> QED BY <1>2, <1>3, <1>4 DEF Sound

-----------------------------------------------------------------------------
(* Steps of the scheduler task *)

\* What CancelledNeverCompletes says of one step.
Harmless ==
    \A r \in Request :
        /\ status[r] = "CANCELLED" => status'[r] # "COMPLETED"
        /\ store[r] = "CANCELLED" => store'[r] # "COMPLETED"

\* The scheduler's state is made of its fields.
LEMMA LoopIs ==
    ASSUME NEW c, LoopType(c), status' = c.it.status, done' = c.it.done, started' = c.it.started,
           batch' = c.batch, deferred' = c.deferred, taken' = c.taken, unfinished' = c.unfinished
    PROVE  Loop' = c
  BY DEF LoopType, Loop, Items

LEMMA LoopTyped ==
    ASSUME SchedulerIInv
    PROVE  /\ LoopType(Loop) /\ Loop.it = Items /\ Loop.batch = batch /\ Loop.deferred = deferred /\ Loop.taken = taken
           /\ Loop.unfinished = unfinished /\ Items.status = status /\ Items.done = done /\ Items.started = started
  BY DEF SchedulerIInv, Sound, Loop, Items

\* A step of the scheduler or of the shutdown: handlers and records stay.
LEMMA SchedulerFrame ==
    ASSUME SchedulerIInv, setup' = setup, expired' = expired, UNCHANGED gateVars, Follows(status, status'),
           Sound(Loop', Queued', IF sched' = "run" THEN "RUNNING" ELSE "QUEUED"),
           queue' \in Seq(Request \cup {NoItem}), IsInjective(queue'), Len(queue') <= max_queue_size,
           accepting' \in BOOLEAN, sched' \in {"top", "collect", "run", "done", "cancelled"},
           Len(batch') <= max_batch_size, fromQueue' \in BOOLEAN, taken' <= max_batch_size,
           life' \in {"serving", "closing", "stopped"}, QueueAccounting', LoopHolds', Closing'
    PROVE  SchedulerIInv' /\ Harmless
  <1>1. SchedulerTypeOK /\ Handlers
    BY DEF SchedulerIInv
  <1>2. UNCHANGED <<gate, record, store, tracked>>
    BY DEF gateVars
  <1>3. LoopType(Loop')
    BY DEF Sound
  <1>4. /\ status' \in [Request -> StatusSet] /\ done' \in SUBSET Request /\ started' \in SUBSET Request
        /\ batch' \in Seq(Request) /\ deferred' \in Seq(Request) /\ taken' \in Nat /\ unfinished' \in Int
    BY <1>3 DEF LoopType, Loop, Items
  <1>5. unfinished' \in Nat
    <2>1. Len(queue') \in Nat
      OBVIOUS
    <2> QED BY <1>4, <2>1 DEF QueueAccounting
  <1>6. taken' \in 0..max_batch_size
    BY <1>4, LocalSchedulerAssumption
  <1>7. SchedulerTypeOK'
    BY <1>1, <1>2, <1>4, <1>5, <1>6 DEF SchedulerTypeOK
  <1>8. Handlers'
    <2> SUFFICES ASSUME NEW r \in Request
                 PROVE  /\ status'[r] = "RECEIVED" <=> gate'[r] \in {"idle", "validating", "refused"}
                        /\ status'[r] = "RECEIVED" => store'[r] = "absent"
                        /\ gate'[r] = "waiting" => record'[r] = "QUEUED"
                        /\ store'[r] = "CANCELLED" => status'[r] \in {"CANCELLED", "TIMEOUT", "FAILED", "REJECTED"}
      BY DEF Handlers
    <2> QED BY <1>1, <1>2 DEF Handlers, Follows
  <1>9. Sound(Loop, Queued, IF sched = "run" THEN "RUNNING" ELSE "QUEUED")'
    BY DEF Sound, LoopType, Apart, Told, Compatible, Kind, Cost, BatchCost
  <1>10. SchedulerIInv'
    BY <1>7, <1>8, <1>9 DEF SchedulerIInv
  <1>11. Harmless
    BY <1>2 DEF Harmless, Follows
  <1> QED BY <1>10, <1>11

\* The queue after a step that leaves the lifespan alone.
NextQueue ==
    /\ queue' \in Seq(Request \cup {NoItem}) /\ IsInjective(queue') /\ Len(queue') <= max_queue_size
    /\ accepting => NoItem \notin Range(queue')
    /\ ~accepting => queue' = <<NoItem>>

\* A collected batch, with wq saying whether its first request came from the queue.
Ready(b, wq) ==
    /\ Sound(b, Queued', "QUEUED") /\ Follows(status, b.it.status)
    /\ b.batch # <<>> /\ Len(b.batch) <= max_batch_size /\ b.taken <= Len(b.batch)
    /\ b.unfinished = Len(queue') + b.taken + (IF wq THEN 1 ELSE 0)

\* The lifespan while the task is not at its end.
LEMMA StillOpen ==
    ASSUME SchedulerIInv, sched \in {"top", "collect", "run"}, NextQueue, UNCHANGED <<accepting, life>>,
           sched' \in {"top", "collect", "run"}
    PROVE  Closing'
  BY DEF SchedulerIInv, Closing, NextQueue

LEMMA LaunchStep ==
    ASSUME SchedulerIInv, sched \in {"top", "collect"}, NextQueue, UNCHANGED <<setup, accepting, expired, life, gateVars>>,
           NEW b, NEW wq \in BOOLEAN, Ready(b, wq), Launch(b, wq)
    PROVE  SchedulerIInv' /\ Harmless
  <1>1. setup \in Setups /\ accepting \in BOOLEAN /\ life \in {"serving", "closing", "stopped"}
    BY DEF SchedulerIInv, SchedulerTypeOK
  <1>2. Queued' \in SUBSET Request
    BY DEF Queued, NextQueue, Range
  <1>3. PICK p : p = Admit(b)
    OBVIOUS
  <1>4. /\ Sound(p, Queued', "RUNNING") /\ Follows(b.it.status, p.it.status) /\ Len(p.batch) <= Len(b.batch)
        /\ p.deferred = b.deferred /\ p.taken = b.taken /\ p.unfinished = b.unfinished
        /\ Range(p.batch) \subseteq p.it.started
    BY <1>1, <1>2, <1>3, AdmitSound DEF Ready
  <1>5. LoopType(p) /\ LoopType(b)
    BY <1>4 DEF Sound, Ready
  <1>6. /\ p.batch \in Seq(Request) /\ p.taken \in Nat /\ p.unfinished \in Int /\ b.batch \in Seq(Request)
        /\ max_batch_size \in Nat \ {0} /\ Len(queue') \in Nat
    BY <1>5, LoopFields, LocalSchedulerAssumption DEF NextQueue
  <1>7. Len(p.batch) <= max_batch_size /\ p.taken <= max_batch_size
    BY <1>4, <1>6 DEF Ready
  <1>8. status' = p.it.status /\ done' = p.it.done /\ started' = p.it.started /\ fromQueue' = wq /\ deferred' = p.deferred
    BY <1>3 DEF Launch, SetItems
  <1>9. Follows(status, status')
    BY <1>4, <1>8, FollowsTransitive DEF Ready
  <1>10. CASE p.batch # <<>> /\ sched' = "run" /\ batch' = p.batch /\ taken' = p.taken /\ unfinished' = p.unfinished
    <2>1. Loop' = p
      BY <1>5, <1>8, <1>10, LoopIs
    <2>2. QueueAccounting'
      BY <1>4, <1>8, <1>10 DEF QueueAccounting, Ready
    <2>3. LoopHolds'
      BY <1>4, <1>8, <1>10 DEF LoopHolds
    <2>4. Closing'
      BY <1>10, StillOpen
    <2>5. Sound(Loop', Queued', IF sched' = "run" THEN "RUNNING" ELSE "QUEUED")
      BY <1>4, <1>10, <2>1
    <2> QED BY <1>1, <1>7, <1>8, <1>9, <1>10, <2>2, <2>3, <2>4, <2>5, SchedulerFrame DEF NextQueue
  <1>11. CASE p.batch = <<>> /\ EndIteration(p, wq, "top")
    <2>1. unfinished' = Len(queue') /\ batch' = <<>> /\ taken' = 0 /\ sched' = "top"
      <3>1. unfinished' = p.unfinished - p.taken - (IF wq THEN 1 ELSE 0) /\ batch' = <<>> /\ taken' = 0 /\ sched' = "top"
        BY <1>11 DEF EndIteration
      <3> QED BY <1>4, <1>6, <3>1 DEF Ready
    <2>2. PICK c : c = [it |-> p.it, batch |-> <<>>, deferred |-> p.deferred, taken |-> 0, unfinished |-> Len(queue')]
      OBVIOUS
    <2>3. c.it = p.it /\ c.batch = <<>> /\ c.deferred = p.deferred /\ c.taken = 0 /\ c.unfinished = Len(queue')
      BY <2>2
    <2>4. LoopType(c)
      BY <1>5, <1>6, <2>2 DEF LoopType
    <2>5. Range(p.batch) = {}
      BY <1>11 DEF Range
    <2>6. Sound(c, Queued', "QUEUED")
      BY <1>1, <1>2, <1>4, <1>5, <2>3, <2>4, <2>5, EmptiedSound DEF Sound
    <2>7. Loop' = c
      BY <1>8, <2>1, <2>3, <2>4, LoopIs
    <2>8. QueueAccounting' /\ LoopHolds'
      BY <1>6, <2>1 DEF QueueAccounting, LoopHolds
    <2>9. Closing'
      BY <2>1, StillOpen
    <2>10. Sound(Loop', Queued', IF sched' = "run" THEN "RUNNING" ELSE "QUEUED")
      BY <2>1, <2>6, <2>7
    <2>11. Len(batch') <= max_batch_size /\ taken' <= max_batch_size
      BY <1>6, <2>1
    <2> QED BY <1>1, <1>8, <1>9, <2>1, <2>8, <2>9, <2>10, <2>11, SchedulerFrame DEF NextQueue
  <1> QED BY <1>3, <1>10, <1>11 DEF Launch

LEMMA AwaitStep ==
    ASSUME SchedulerIInv, sched \in {"top", "collect"}, NextQueue, UNCHANGED <<setup, accepting, expired, life, gateVars>>,
           NEW b, NEW wq \in BOOLEAN, Ready(b, wq), Len(b.batch) # max_batch_size, Await(b, wq)
    PROVE  SchedulerIInv' /\ Harmless
  <1>1. setup \in Setups /\ accepting \in BOOLEAN /\ life \in {"serving", "closing", "stopped"}
    BY DEF SchedulerIInv, SchedulerTypeOK
  <1>2. LoopType(b)
    BY DEF Ready, Sound
  <1>3. b.batch \in Seq(Request) /\ b.taken \in Nat /\ max_batch_size \in Nat /\ Len(b.batch) \in Nat
    BY <1>2, LoopFields, LocalSchedulerAssumption
  <1>4. /\ status' = b.it.status /\ done' = b.it.done /\ started' = b.it.started /\ fromQueue' = wq /\ sched' = "collect"
        /\ deferred' = b.deferred /\ batch' = b.batch /\ taken' = b.taken /\ unfinished' = b.unfinished
    BY DEF Await, SetItems, SetBatch
  <1>5. Loop' = b
    BY <1>2, <1>4, LoopIs
  <1>6. Len(b.batch) < max_batch_size /\ b.taken <= max_batch_size
    BY <1>3 DEF Ready
  <1>7. QueueAccounting'
    BY <1>4 DEF QueueAccounting, Ready
  <1>8. LoopHolds'
    BY <1>4, <1>6 DEF LoopHolds, Ready
  <1>9. Closing'
    BY <1>4, StillOpen
  <1>10. Sound(Loop', Queued', IF sched' = "run" THEN "RUNNING" ELSE "QUEUED")
    BY <1>4, <1>5 DEF Ready
  <1>11. Len(batch') <= max_batch_size /\ taken' <= max_batch_size /\ Follows(status, status')
    BY <1>4, <1>6 DEF Ready
  <1> QED BY <1>1, <1>4, <1>7, <1>8, <1>9, <1>10, <1>11, SchedulerFrame DEF NextQueue

LEMMA LaunchOrAwaitStep ==
    ASSUME SchedulerIInv, sched \in {"top", "collect"}, NextQueue, UNCHANGED <<setup, accepting, expired, life, gateVars>>,
           NEW b, NEW wq \in BOOLEAN, Ready(b, wq), LaunchOrAwait(b, wq)
    PROVE  SchedulerIInv' /\ Harmless
  BY LaunchStep, AwaitStep DEF LaunchOrAwait

\* The first request of an iteration, taken from the deque or from the queue.
LEMMA BeginStep ==
    ASSUME SchedulerIInv, sched = "top", NextQueue, UNCHANGED <<setup, accepting, expired, life, gateVars>>,
           NEW r \in Request, NEW rest \in Seq(Request), NEW wq \in BOOLEAN, Begin(r, rest, wq),
           IsInjective(rest), r \notin Range(rest), r \notin Queued', Queued' \cap Range(rest) = {},
           Range(rest) \cup Queued' \cup {r} = Range(deferred) \cup Queued,
           unfinished = Len(queue') + (IF wq THEN 1 ELSE 0)
    PROVE  SchedulerIInv' /\ Harmless
  <1>1. setup \in Setups /\ taken = 0 /\ batch = <<>>
    BY DEF SchedulerIInv, SchedulerTypeOK, LoopHolds
  <1>2. LoopType(Loop) /\ Told(Loop, Queued, "QUEUED")
    BY DEF SchedulerIInv, Sound
  <1>3. /\ Loop.it = Items /\ Loop.deferred = deferred /\ Loop.batch = batch /\ Loop.taken = taken /\ Loop.unfinished = unfinished
        /\ Items.status = status /\ Items.done = done /\ Items.started = started
    BY LoopTyped
  <1>4. Queued' \in SUBSET Request /\ Len(queue') \in Nat
    BY DEF Queued, NextQueue, Range
  <1>5. PICK one \in Seq(Request) : one = <<r>> /\ Range(one) = {r} /\ IsInjective(one) /\ Len(one) = 1 /\ one[1] = r /\ one # <<>> /\ DOMAIN one = {1}
    <2>1. <<r>> \in Seq(Request) /\ Len(<<r>>) = 1 /\ DOMAIN <<r>> = {1} /\ <<r>>[1] = r
      OBVIOUS
    <2>2. Range(<<r>>) = {r} /\ IsInjective(<<r>>)
      BY <2>1 DEF Range, IsInjective
    <2> QED BY <2>1, <2>2
  <1>6. PICK b : b = [it |-> Items, batch |-> one, deferred |-> rest, taken |-> 0, unfinished |-> unfinished]
    OBVIOUS
  <1>7. b = [Loop EXCEPT !.batch = <<r>>, !.deferred = rest]
    <2>1. PICK i0, b0, d0, t0, u0 :
            /\ i0 = Items /\ t0 = taken /\ u0 = unfinished
            /\ Loop = [it |-> i0, batch |-> b0, deferred |-> d0, taken |-> t0, unfinished |-> u0]
      BY DEF Loop
    <2>2. PICK l : l = Loop
      OBVIOUS
    <2>3. PICK e : e = [l EXCEPT !.batch = one, !.deferred = rest]
      OBVIOUS
    <2>4. e = [it |-> i0, batch |-> one, deferred |-> rest, taken |-> t0, unfinished |-> u0]
      BY ONLY <2>1, <2>2, <2>3
    <2>5. e = b
      BY <1>1, <1>6, <2>1, <2>4
    <2> QED BY <1>5, <2>2, <2>3, <2>5, Zenon
  <1>8. b.it = Items /\ b.batch = one /\ b.deferred = rest /\ b.taken = 0 /\ b.unfinished = unfinished /\ b.it.status = status
    BY <1>3, <1>6
  <1>9. LoopType(b)
    BY <1>2, <1>3, <1>6 DEF LoopType
  <1>10. Apart(b, Queued')
    BY <1>5, <1>8 DEF Apart
  <1>11. Range(batch) = {}
    BY <1>1 DEF Range
  <1>12. Told(b, Queued', "QUEUED")
    BY <1>2, <1>3, <1>5, <1>8, <1>11 DEF Told
  <1>13. Compatible(one)
    BY <1>5 DEF Compatible
  <1>14. Sound(b, Queued', "QUEUED")
    BY <1>8, <1>9, <1>10, <1>12, <1>13 DEF Sound
  <1>15. max_batch_size \in Nat \ {0}
    BY LocalSchedulerAssumption
  <1>16. Follows(status, status)
    BY DEF Follows
  <1>17. Ready(b, wq)
    BY <1>4, <1>5, <1>8, <1>14, <1>15, <1>16 DEF Ready
  <1>18. CASE scheduler_policy = "dynamic_batch"
    <2>1. PICK c : c = ScanDeferred(b)
      OBVIOUS
    <2>2. Sound(c, Queued', "QUEUED") /\ Collects(b, c) /\ c.taken = b.taken /\ c.unfinished = b.unfinished
      BY <1>1, <1>4, <1>17, <2>1, ScanSound DEF Ready
    <2>3. c.batch \in Seq(Request)
      BY <2>2, LoopFields DEF Sound
    <2>4. Ready(c, wq)
      BY <1>8, <1>17, <2>2, <2>3 DEF Ready, Collects
    <2>5. LaunchOrAwait(c, wq)
      BY <1>7, <1>18, <2>1 DEF Begin
    <2> QED BY <2>4, <2>5, LaunchOrAwaitStep
  <1>19. CASE scheduler_policy # "dynamic_batch"
    <2>1. Launch(b, wq)
      BY <1>7, <1>19 DEF Begin
    <2> QED BY <1>17, <2>1, LaunchStep
  <1> QED BY <1>18, <1>19

\* The queue stays as it is.
LEMMA SameQueue ==
    ASSUME SchedulerIInv, sched \in {"top", "collect", "run"}, queue' = queue
    PROVE  NextQueue /\ Queued' = Queued
  BY DEF SchedulerIInv, SchedulerTypeOK, Closing, NextQueue, Queued

\* The first request leaves the queue.
LEMMA QueueHead ==
    ASSUME SchedulerIInv, queue # <<>>, Head(queue) # NoItem, queue' = Tail(queue)
    PROVE  /\ NextQueue /\ Head(queue) \in Request /\ Head(queue) \in Queued /\ Queued' = Queued \ {Head(queue)}
           /\ Len(queue') = Len(queue) - 1
  <1>1. queue \in Seq(Request \cup {NoItem}) /\ Len(queue) <= max_queue_size /\ IsInjective(queue) /\ Closing /\ accepting \in BOOLEAN
    BY DEF SchedulerIInv, SchedulerTypeOK
  <1>2. PICK n \in Nat : n = Len(queue) /\ n > 0
    BY <1>1
  <1>3. PICK h : h = Head(queue) /\ h = queue[1] /\ h \in Range(queue) /\ h \in Request /\ h # NoItem
    BY <1>1, <1>2 DEF Range
  <1>4. queue' \in Seq(Request \cup {NoItem}) /\ Len(queue') = n - 1 /\ IsInjective(queue') /\ Range(queue') = Range(queue) \ {h}
    BY <1>1, <1>2, <1>3, RestFacts
  <1>5. accepting
    <2>1. queue[1] # NoItem
      BY <1>3
    <2> QED BY <1>1, <2>1 DEF Closing
  <1>6. NoItem \notin Range(queue')
    BY <1>1, <1>4, <1>5 DEF Closing
  <1>7. Len(queue') <= max_queue_size
    BY <1>1, <1>2, <1>4, LocalSchedulerAssumption
  <1>8. NextQueue
    BY <1>4, <1>5, <1>6, <1>7 DEF NextQueue
  <1>9. Queued' = Queued \ {h} /\ h \in Queued
    BY <1>3, <1>4 DEF Queued
  <1> QED BY <1>2, <1>3, <1>4, <1>8, <1>9

LEMMA TakeDeferredStep ==
    ASSUME SchedulerIInv, TakeDeferred
    PROVE  SchedulerIInv' /\ Harmless
  <1>1. /\ sched = "top" /\ deferred # <<>> /\ queue' = queue /\ Begin(Head(deferred), Tail(deferred), FALSE)
        /\ UNCHANGED <<setup, accepting, expired, life, gateVars>>
    BY DEF TakeDeferred
  <1>2. Apart(Loop, Queued) /\ QueueAccounting /\ taken = 0 /\ deferred \in Seq(Request) /\ queue \in Seq(Request \cup {NoItem})
    BY <1>1 DEF SchedulerIInv, SchedulerTypeOK, LoopHolds, Sound
  <1>3. IsInjective(deferred) /\ Queued \cap Range(deferred) = {}
    BY <1>2, LoopTyped DEF Apart
  <1>4. NextQueue /\ Queued' = Queued
    BY <1>1, SameQueue
  <1>5. PICK n \in Nat : n = Len(deferred) /\ n > 0
    BY <1>1, <1>2
  <1>6. PICK r \in Request : r = Head(deferred) /\ r = deferred[1] /\ r \in Range(deferred)
    BY <1>2, <1>5 DEF Range
  <1>7. PICK rest \in Seq(Request) : rest = Tail(deferred) /\ IsInjective(rest) /\ Range(rest) = Range(deferred) \ {r}
    BY <1>2, <1>3, <1>5, <1>6, RestFacts
  <1>8. Begin(r, rest, FALSE)
    BY <1>1, <1>6, <1>7
  <1>9. unfinished = Len(queue') + (IF FALSE THEN 1 ELSE 0)
    BY <1>1, <1>2 DEF QueueAccounting
  <1>10. /\ r \notin Range(rest) /\ r \notin Queued' /\ Queued' \cap Range(rest) = {}
         /\ Range(rest) \cup Queued' \cup {r} = Range(deferred) \cup Queued
    BY <1>3, <1>4, <1>6, <1>7
  <1> QED BY <1>1, <1>4, <1>7, <1>8, <1>9, <1>10, BeginStep

LEMMA TakeQueuedStep ==
    ASSUME SchedulerIInv, TakeQueued
    PROVE  SchedulerIInv' /\ Harmless
  <1>1. /\ sched = "top" /\ deferred = <<>> /\ queue # <<>> /\ queue' = Tail(queue)
        /\ UNCHANGED <<setup, accepting, expired, life, gateVars>>
    BY DEF TakeQueued
  <1>2. /\ Apart(Loop, Queued) /\ QueueAccounting /\ taken = 0 /\ batch = <<>> /\ queue \in Seq(Request \cup {NoItem})
        /\ Closing /\ SchedulerTypeOK
    BY <1>1 DEF SchedulerIInv, SchedulerTypeOK, LoopHolds, Sound
  <1>3. unfinished = Len(queue) /\ Len(queue) \in Nat
    BY <1>1, <1>2 DEF QueueAccounting
  <1>4. CASE Head(queue) # NoItem
    <2>1. NextQueue /\ Head(queue) \in Request /\ Head(queue) \in Queued /\ Queued' = Queued \ {Head(queue)} /\ Len(queue') = Len(queue) - 1
      BY <1>1, <1>4, QueueHead
    <2>2. PICK r \in Request : r = Head(queue)
      BY <2>1
    <2>3. PICK rest \in Seq(Request) : rest = <<>> /\ Range(rest) = {} /\ IsInjective(rest)
      <3>1. <<>> \in Seq(Request) /\ Range(<<>>) = {} /\ IsInjective(<<>>)
        BY DEF Range, IsInjective
      <3> QED BY <3>1
    <2>4. Begin(r, rest, TRUE)
      BY <1>4, <2>2, <2>3 DEF TakeQueued
    <2>5. unfinished = Len(queue') + (IF TRUE THEN 1 ELSE 0)
      BY <1>3, <2>1
    <2>6. /\ r \notin Range(rest) /\ r \notin Queued' /\ Queued' \cap Range(rest) = {}
          /\ Range(rest) \cup Queued' \cup {r} = Range(deferred) \cup Queued
      <3>1. Range(deferred) = {}
        BY <1>1 DEF Range
      <3> QED BY <2>1, <2>2, <2>3, <3>1
    <2> QED BY <1>1, <2>1, <2>3, <2>4, <2>5, <2>6, BeginStep
  <1>5. CASE Head(queue) = NoItem
    <2>1. unfinished' = unfinished - 1 /\ sched' = "done" /\ UNCHANGED <<itemVars, batch, fromQueue, taken, deferred>>
      BY <1>5 DEF TakeQueued
    <2>2. UNCHANGED <<status, done, started, batch, fromQueue, taken, deferred>>
      BY <2>1 DEF itemVars
    <2>3. NoItem \in Range(queue)
      BY <1>1, <1>2, <1>5 DEF Range
    <2>4. ~accepting /\ queue = <<NoItem>>
      BY <1>1, <1>2, <2>3 DEF Closing
    <2>5. queue' = <<>> /\ Len(queue) = 1
      BY <1>1, <2>4
    <2>6. queue' \in Seq(Request \cup {NoItem}) /\ IsInjective(queue') /\ Len(queue') = 0 /\ Queued' = {} /\ Queued = {}
      BY <2>4, <2>5 DEF IsInjective, Queued, Range
    <2>7. unfinished' = 0
      BY <1>3, <2>1, <2>5
    <2>8. PICK c : c = [it |-> Items, batch |-> batch, deferred |-> deferred, taken |-> 0, unfinished |-> 0]
      OBVIOUS
    <2>9. c.it = Items /\ c.batch = batch /\ c.deferred = deferred /\ c.taken = 0 /\ c.unfinished = 0
      BY <2>8
    <2>10. LoopType(Loop) /\ Told(Loop, Queued, "QUEUED")
      BY <1>1 DEF SchedulerIInv, Sound
    <2>11. LoopType(c)
      BY <2>8, <2>10, LoopTyped DEF LoopType
    <2>12. Loop' = c
      BY <1>2, <2>1, <2>2, <2>7, <2>9, <2>11, LoopTyped, LoopIs
    <2>13. Range(Loop.batch) = {}
      BY <1>2, LoopTyped DEF Range
    <2>14. Loop.it = Items /\ Loop.deferred = deferred /\ Queued' \in SUBSET Request
      BY <2>6, LoopTyped
    <2>15. Sound(c, Queued', "QUEUED")
      BY <1>2, <2>6, <2>9, <2>10, <2>11, <2>13, <2>14, EmptiedSound DEF SchedulerTypeOK
    <2>16. Follows(status, status')
      BY <2>2 DEF Follows
    <2>17. QueueAccounting' /\ LoopHolds'
      BY <1>2, <2>1, <2>2, <2>6, <2>7 DEF QueueAccounting, LoopHolds
    <2>18. Closing'
      BY <1>1, <1>2, <2>1, <2>2, <2>4, <2>5 DEF Closing, SchedulerTypeOK
    <2>19. Len(queue') <= max_queue_size /\ Len(batch') <= max_batch_size /\ taken' <= max_batch_size
      BY <1>2, <2>2, <2>6, LocalSchedulerAssumption DEF SchedulerTypeOK
    <2>20. Sound(Loop', Queued', IF sched' = "run" THEN "RUNNING" ELSE "QUEUED")
      BY <2>1, <2>12, <2>15
    <2>21. accepting' \in BOOLEAN /\ fromQueue' \in BOOLEAN /\ life' \in {"serving", "closing", "stopped"} /\ sched' \in {"top", "collect", "run", "done", "cancelled"}
      BY <1>1, <1>2, <2>1, <2>2 DEF SchedulerTypeOK
    <2> QED BY <1>1, <2>6, <2>16, <2>17, <2>18, <2>19, <2>20, <2>21, SchedulerFrame
  <1> QED BY <1>4, <1>5

LEMMA CollectNextStep ==
    ASSUME SchedulerIInv, CollectNext
    PROVE  SchedulerIInv' /\ Harmless
  <1>1. /\ sched = "collect" /\ queue # <<>> /\ Head(queue) # NoItem /\ queue' = Tail(queue)
        /\ LaunchOrAwait(Consider(Loop, Head(queue), TRUE), fromQueue)
        /\ UNCHANGED <<setup, accepting, expired, life, gateVars>>
    BY DEF CollectNext
  <1>2. /\ Sound(Loop, Queued, "QUEUED") /\ QueueAccounting /\ batch # <<>> /\ taken <= Len(batch) /\ Len(batch) < max_batch_size
        /\ setup \in Setups /\ fromQueue \in BOOLEAN /\ queue \in Seq(Request \cup {NoItem})
    BY <1>1 DEF SchedulerIInv, SchedulerTypeOK, LoopHolds
  <1>3. NextQueue /\ Head(queue) \in Request /\ Head(queue) \in Queued /\ Queued' = Queued \ {Head(queue)} /\ Len(queue') = Len(queue) - 1
    BY <1>1, QueueHead
  <1>4. PICK r \in Request : r = Head(queue)
    BY <1>3
  <1>5. PICK Q \in SUBSET Request : Q = Queued' /\ r \notin Q /\ Q \cup {r} = Queued
    <2>1. Queued' \in SUBSET Request
      BY <1>3 DEF Queued, NextQueue, Range
    <2> QED BY <1>3, <1>4, <2>1
  <1>6. PICK c : c = Consider(Loop, r, TRUE)
    OBVIOUS
  <1>7. LoopType(Loop) /\ Apart(Loop, Queued)
    BY <1>2 DEF Sound
  <1>8. r \notin Range(Loop.batch) /\ r \notin Range(Loop.deferred)
    BY <1>3, <1>4, <1>7 DEF Apart
  <1>9. Loop.batch = batch /\ Loop.taken = taken /\ Loop.unfinished = unfinished /\ Loop.it.status = status
    BY LoopTyped
  <1>10. Sound(c, Q, "QUEUED") /\ Collects(Loop, c)
    BY <1>2, <1>5, <1>6, <1>8, <1>9, ConsiderSound
  <1>11. c.unfinished - c.taken = unfinished - taken - 1 /\ c.taken <= Len(c.batch)
    BY <1>2, <1>6, <1>7, <1>9, ConsiderCounts
  <1>12. c.taken \in Nat /\ c.unfinished \in Int /\ c.batch \in Seq(Request) /\ taken \in Nat /\ Len(queue) \in Nat /\ unfinished \in Int
    BY <1>2, <1>7, <1>9, <1>10, LoopFields DEF Sound
  <1>13. c.unfinished = Len(queue') + c.taken + (IF fromQueue THEN 1 ELSE 0)
    <2>1. PICK one \in 0..1 : one = IF fromQueue THEN 1 ELSE 0
      OBVIOUS
    <2>2. unfinished = Len(queue) + taken + one
      BY <1>1, <1>2, <2>1 DEF QueueAccounting
    <2>3. c.unfinished = Len(queue') + c.taken + one
      BY <1>3, <1>11, <1>12, <2>2
    <2> QED BY <2>1, <2>3
  <1>14. Ready(c, fromQueue)
    BY <1>5, <1>9, <1>10, <1>11, <1>13 DEF Ready, Collects
  <1> QED BY <1>1, <1>2, <1>3, <1>4, <1>6, <1>14, LaunchOrAwaitStep

\* The batch as it is may be run.
LEMMA CollectedReady ==
    ASSUME SchedulerIInv, sched = "collect", queue' = queue
    PROVE  Ready(Loop, fromQueue)
  <1>1. /\ Sound(Loop, Queued, "QUEUED") /\ QueueAccounting /\ batch # <<>> /\ taken <= Len(batch) /\ Len(batch) < max_batch_size
        /\ batch \in Seq(Request) /\ Queued' = Queued
    BY SameQueue DEF SchedulerIInv, SchedulerTypeOK, LoopHolds
  <1>2. Loop.batch = batch /\ Loop.taken = taken /\ Loop.unfinished = unfinished /\ Loop.it.status = status
    BY LoopTyped
  <1>3. Follows(status, status)
    BY DEF Follows
  <1>4. Len(batch) <= max_batch_size
    BY <1>1, LocalSchedulerAssumption
  <1>5. unfinished = Len(queue') + taken + (IF fromQueue THEN 1 ELSE 0)
    BY <1>1 DEF QueueAccounting
  <1> QED BY <1>1, <1>2, <1>3, <1>4, <1>5 DEF Ready

LEMMA CollectSentinelStep ==
    ASSUME SchedulerIInv, CollectSentinel
    PROVE  SchedulerIInv' /\ Harmless
  <1>1. /\ sched = "collect" /\ queue # <<>> /\ Head(queue) = NoItem /\ queue' = Append(Tail(queue), NoItem)
        /\ Launch(Loop, fromQueue) /\ UNCHANGED <<setup, accepting, expired, life, gateVars>>
    BY DEF CollectSentinel
  <1>2. queue \in Seq(Request \cup {NoItem}) /\ Closing /\ fromQueue \in BOOLEAN
    BY DEF SchedulerIInv, SchedulerTypeOK
  <1>3. NoItem \in Range(queue)
    BY <1>1, <1>2 DEF Range
  <1>4. queue = <<NoItem>>
    BY <1>1, <1>2, <1>3 DEF Closing
  <1>5. queue' = queue
    BY <1>1, <1>4
  <1> QED BY <1>1, <1>2, <1>5, SameQueue, CollectedReady, LaunchStep

LEMMA CloseWindowStep ==
    ASSUME SchedulerIInv, CloseWindow
    PROVE  SchedulerIInv' /\ Harmless
  <1>1. sched = "collect" /\ queue' = queue /\ Launch(Loop, fromQueue) /\ UNCHANGED <<setup, accepting, expired, life, gateVars>>
    BY DEF CloseWindow
  <1>2. fromQueue \in BOOLEAN
    BY DEF SchedulerIInv, SchedulerTypeOK
  <1> QED BY <1>1, <1>2, SameQueue, CollectedReady, LaunchStep

-----------------------------------------------------------------------------
(* Requests that finish together *)

\* The requests that finish, with what their new statuses may be.
Ends(ends) ==
    /\ DOMAIN ends \in SUBSET Request
    /\ \A r \in DOMAIN ends : /\ ends[r] \in Terminal /\ status[r] \in {"QUEUED", "RUNNING", "CANCELLED"}
                              /\ status[r] = "CANCELLED" => ends[r] # "COMPLETED"

LEMMA FinishAllFacts ==
    ASSUME SchedulerIInv, NEW ends, Ends(ends), SetItems(FinishAll(ends))
    PROVE  /\ status' \in [Request -> StatusSet] /\ started' = started /\ done' \in SUBSET Request
           /\ done' = {r \in Request : status'[r] \in Terminal} /\ Follows(status, status')
           /\ \A r \in Request : status'[r] = IF r \in DOMAIN ends THEN ends[r] ELSE status[r]
           /\ \A r \in DOMAIN ends : status'[r] \in Terminal
  <1>1. status \in [Request -> StatusSet] /\ done \in SUBSET Request /\ started \in SUBSET Request
    BY DEF SchedulerIInv, SchedulerTypeOK
  <1>2. done = {r \in Request : status[r] \in Terminal}
    BY LoopTyped DEF SchedulerIInv, Sound, Told
  <1>3. PICK ns : ns = [r \in Request |-> IF r \in DOMAIN ends THEN ends[r] ELSE status[r]]
    OBVIOUS
  <1>4. PICK e : e = FinishAll(ends)
    OBVIOUS
  <1>5. e = [status |-> ns, done |-> done \cup DOMAIN ends, started |-> started]
    <2>1. PICK i, st, dn, sd, nd :
            /\ i = Items /\ i = [status |-> st, done |-> dn, started |-> sd]
            /\ nd = done \cup DOMAIN ends /\ sd = started
      BY DEF Items
    <2>2. PICK f : f = [i EXCEPT !.status = ns, !.done = nd]
      OBVIOUS
    <2>3. e = f
      <3>1. i.done = done
        BY <2>1 DEF Items
      <3> QED BY <1>3, <1>4, <2>1, <2>2, <3>1, Zenon DEF FinishAll
    <2>4. f = [status |-> ns, done |-> nd, started |-> sd]
      <3>1. i = [status |-> st, done |-> dn, started |-> sd]
        BY <2>1
      <3> QED BY ONLY <3>1, <2>2
    <2> QED BY <2>1, <2>3, <2>4
  <1>6. status' = ns /\ done' = done \cup DOMAIN ends /\ started' = started
    BY <1>4, <1>5 DEF SetItems
  <1>7. \A r \in Request : ns[r] = IF r \in DOMAIN ends THEN ends[r] ELSE status[r]
    BY <1>3
  <1>8. Terminal = {"COMPLETED", "FAILED", "REJECTED", "TIMEOUT", "CANCELLED"} /\ Terminal \subseteq StatusSet
    BY DEF Terminal, StatusSet
  <1>9. ns \in [Request -> StatusSet]
    BY <1>1, <1>3, <1>8 DEF Ends
  <1>10. done' = {r \in Request : ns[r] \in Terminal}
    BY <1>2, <1>6, <1>7 DEF Ends
  <1>11. Follows(status, ns)
    BY <1>7, <1>8 DEF Follows, Ends
  <1>12. \A r \in DOMAIN ends : ns[r] \in Terminal
    BY <1>7 DEF Ends
  <1> QED BY <1>6, <1>7, <1>9, <1>10, <1>11, <1>12

\* Those that finish leave the places they were in, the others stay.
LEMMA FinishSound ==
    ASSUME SchedulerIInv, NEW ends, Ends(ends), SetItems(FinishAll(ends)),
           batch' \in Seq(Request), deferred' \in Seq(Request), taken' \in Nat, unfinished' \in Int,
           IsInjective(batch'), IsInjective(deferred'), batch' = batch \/ batch' = <<>>,
           sched' = "run" <=> sched = "run" /\ batch' # <<>>,
           Range(batch') = Range(batch) \ DOMAIN ends, Range(deferred') = Range(deferred) \ DOMAIN ends,
           Queued' = Queued \ DOMAIN ends
    PROVE  Sound(Loop', Queued', IF sched' = "run" THEN "RUNNING" ELSE "QUEUED")
  <1>1. /\ status' \in [Request -> StatusSet] /\ started' = started /\ done' \in SUBSET Request
        /\ done' = {r \in Request : status'[r] \in Terminal}
        /\ \A r \in Request : status'[r] = IF r \in DOMAIN ends THEN ends[r] ELSE status[r]
        /\ \A r \in DOMAIN ends : status'[r] \in Terminal
    BY FinishAllFacts
  <1>2. started \in SUBSET Request /\ batch \in Seq(Request) /\ deferred \in Seq(Request) /\ queue \in Seq(Request \cup {NoItem})
    BY DEF SchedulerIInv, SchedulerTypeOK
  <1>3. PICK x : x = IF sched = "run" THEN "RUNNING" ELSE "QUEUED"
    OBVIOUS
  <1>4. Apart(Loop, Queued) /\ Told(Loop, Queued, x) /\ Compatible(batch)
    BY <1>3, LoopTyped DEF SchedulerIInv, Sound
  <1>5. PICK c : c = [it |-> [status |-> status', done |-> done', started |-> started'], batch |-> batch', deferred |-> deferred',
                      taken |-> taken', unfinished |-> unfinished']
    OBVIOUS
  <1>6. /\ c.it = [status |-> status', done |-> done', started |-> started'] /\ c.batch = batch' /\ c.deferred = deferred'
        /\ c.taken = taken' /\ c.unfinished = unfinished'
    BY <1>5
  <1>7. c.it.status = status' /\ c.it.done = done' /\ c.it.started = started'
    BY <1>6
  <1>8. LoopType(c)
    BY <1>1, <1>2, <1>5 DEF LoopType
  <1>9. Loop' = c
    BY <1>6, <1>7, <1>8, LoopIs
  <1>10. /\ Range(batch) \cap Range(deferred) = {} /\ Queued \cap (Range(batch) \cup Range(deferred)) = {}
         /\ \A r \in Queued \cup Range(deferred) : status[r] \in {"QUEUED", "CANCELLED"}
         /\ \A r \in Range(batch) : status[r] \in {x, "CANCELLED"}
         /\ \A r \in Request : status[r] \in {"QUEUED", "RUNNING"} => r \in Queued \cup Range(deferred) \cup Range(batch)
    BY <1>4, LoopTyped DEF Apart, Told
  <1>11. Apart(c, Queued')
    BY <1>6, <1>10 DEF Apart
  <1>12. \A r \in Queued \cup Range(deferred) \cup Range(batch) : r \in Request
    BY <1>2 DEF Queued, Range
  <1>13. PICK y : y = IF sched' = "run" THEN "RUNNING" ELSE "QUEUED"
    OBVIOUS
  <1>14. batch' = <<>> \/ y = x
    BY <1>3, <1>13
  <1>15. batch' = <<>> => Range(batch') = {}
    BY DEF Range
  <1>16. Told(c, Queued', y)
    <2>1. \A r \in Queued' \cup Range(deferred') : status'[r] \in {"QUEUED", "CANCELLED"}
      BY <1>1, <1>10, <1>12
    <2>2. \A r \in Range(batch') : status'[r] \in {y, "CANCELLED"}
      BY <1>1, <1>10, <1>12, <1>14, <1>15
    <2>3. \A r \in Request : status'[r] \in {"QUEUED", "RUNNING"} => r \in Queued' \cup Range(deferred') \cup Range(batch')
      <3>1. "QUEUED" \notin Terminal /\ "RUNNING" \notin Terminal
        BY DEF Terminal
      <3> QED BY <1>1, <1>10, <3>1
    <2> QED BY <1>1, <1>6, <1>7, <2>1, <2>2, <2>3 DEF Told
  <1>17. Compatible(batch')
    <2>1. CASE batch' = <<>>
      BY <2>1 DEF Compatible
    <2>2. CASE batch' = batch
      BY <1>4, <2>2
    <2> QED BY <2>1, <2>2
  <1>18. Sound(c, Queued', y)
    BY <1>6, <1>8, <1>11, <1>16, <1>17 DEF Sound
  <1> QED BY <1>9, <1>13, <1>18

\* The model call is over, and with it the iteration.
LEMMA IterationEnds ==
    ASSUME SchedulerIInv, sched = "run", NEW ends, Ends(ends), DOMAIN ends = Range(batch), SetItems(FinishAll(ends)),
           NEW next \in {"top", "cancelled"}, EndIteration(Loop, fromQueue, next),
           UNCHANGED <<setup, queue, accepting, expired, deferred, fromQueue, gateVars>>,
           life' \in {"serving", "closing", "stopped"}, Closing'
    PROVE  SchedulerIInv' /\ Harmless
  <1>1. /\ batch \in Seq(Request) /\ deferred \in Seq(Request) /\ taken \in 0..max_batch_size /\ QueueAccounting
        /\ queue \in Seq(Request \cup {NoItem}) /\ Len(queue) <= max_queue_size /\ IsInjective(queue)
        /\ unfinished \in Nat /\ fromQueue \in BOOLEAN /\ accepting \in BOOLEAN
    BY DEF SchedulerIInv, SchedulerTypeOK
  <1>2. IsInjective(deferred) /\ Range(batch) \cap Range(deferred) = {} /\ Queued \cap Range(batch) = {}
    BY LoopTyped DEF SchedulerIInv, Sound, Apart
  <1>3. batch' = <<>> /\ taken' = 0 /\ sched' = next /\ unfinished' = unfinished - taken - (IF fromQueue THEN 1 ELSE 0)
    BY LoopTyped DEF EndIteration
  <1>4. unfinished' = Len(queue') /\ Len(queue') \in Nat /\ Queued' = Queued
    <2>1. PICK one \in 0..1 : one = IF fromQueue THEN 1 ELSE 0
      OBVIOUS
    <2>2. unfinished = Len(queue) + taken + one /\ Len(queue) \in Nat
      BY <1>1, <2>1 DEF QueueAccounting
    <2>3. unfinished' = Len(queue)
      BY <1>1, <1>3, <2>1, <2>2
    <2> QED BY <2>2, <2>3 DEF Queued
  <1>5. Range(batch') = {} /\ IsInjective(batch') /\ batch' \in Seq(Request)
    BY <1>3 DEF Range, IsInjective
  <1>6. Range(batch') = Range(batch) \ DOMAIN ends /\ Range(deferred') = Range(deferred) \ DOMAIN ends /\ Queued' = Queued \ DOMAIN ends
    BY <1>2, <1>4, <1>5
  <1>7. Sound(Loop', Queued', IF sched' = "run" THEN "RUNNING" ELSE "QUEUED")
    <2>1. sched' = "run" <=> sched = "run" /\ batch' # <<>>
      BY <1>3
    <2>2. taken' \in Nat /\ unfinished' \in Int /\ deferred' \in Seq(Request) /\ IsInjective(deferred')
      BY <1>1, <1>2, <1>3, <1>4
    <2> QED BY <1>3, <1>5, <1>6, <2>1, <2>2, FinishSound
  <1>8. Follows(status, status')
    BY FinishAllFacts
  <1>9. QueueAccounting' /\ LoopHolds'
    BY <1>3, <1>4 DEF QueueAccounting, LoopHolds
  <1>10. Len(batch') <= max_batch_size /\ taken' <= max_batch_size
    BY <1>3, LocalSchedulerAssumption
  <1> QED BY <1>1, <1>3, <1>7, <1>8, <1>9, <1>10, SchedulerFrame

LEMMA ModelReturnsStep ==
    ASSUME SchedulerIInv, ModelReturns
    PROVE  SchedulerIInv' /\ Harmless
  <1>1. /\ sched = "run" /\ SetItems(FinishAll([r \in Range(batch) |-> Outcome(r)])) /\ EndIteration(Loop, fromQueue, "top")
        /\ UNCHANGED <<setup, queue, accepting, expired, life, deferred, fromQueue, gateVars>>
    BY DEF ModelReturns
  <1>2. PICK ends : ends = [r \in Range(batch) |-> Outcome(r)]
    OBVIOUS
  <1>3. batch \in Seq(Request) /\ Closing /\ life \in {"serving", "closing", "stopped"}
    BY DEF SchedulerIInv, SchedulerTypeOK
  <1>4. \A r \in Range(batch) : r \in Request /\ status[r] \in {"RUNNING", "CANCELLED"}
    BY <1>1, <1>3, LoopTyped DEF SchedulerIInv, Sound, Told, Range
  <1>5. DOMAIN ends = Range(batch) /\ Ends(ends)
    BY <1>2, <1>4 DEF Ends, Outcome, Terminal
  <1>6. Closing'
    <2>1. NextQueue
      BY <1>1, SameQueue
    <2>2. sched' = "top"
      BY <1>1 DEF EndIteration
    <2> QED BY <1>1, <2>1, <2>2, StillOpen
  <1> QED BY <1>1, <1>2, <1>3, <1>5, <1>6, IterationEnds

LEMMA FailActiveStep ==
    ASSUME SchedulerIInv, NEW next \in {"top", "cancelled"}, FailActive(next),
           life' \in {"serving", "closing", "stopped"}, Closing'
    PROVE  SchedulerIInv' /\ Harmless
  <1>1. /\ sched = "run" /\ SetItems(FinishAll([r \in Range(batch) |-> "FAILED"])) /\ EndIteration(Loop, fromQueue, next)
        /\ UNCHANGED <<setup, queue, accepting, expired, deferred, fromQueue, gateVars>>
    BY DEF FailActive
  <1>2. PICK ends : ends = [r \in Range(batch) |-> "FAILED"]
    OBVIOUS
  <1>3. batch \in Seq(Request)
    BY DEF SchedulerIInv, SchedulerTypeOK
  <1>4. \A r \in Range(batch) : r \in Request /\ status[r] \in {"RUNNING", "CANCELLED"}
    BY <1>1, <1>3, LoopTyped DEF SchedulerIInv, Sound, Told, Range
  <1>5. DOMAIN ends = Range(batch) /\ Ends(ends)
    BY <1>2, <1>4 DEF Ends, Terminal
  <1> QED BY <1>1, <1>2, <1>5, IterationEnds

LEMMA ModelRaisesStep ==
    ASSUME SchedulerIInv, ModelRaises
    PROVE  SchedulerIInv' /\ Harmless
  <1>1. FailActive("top") /\ life' = life
    BY DEF ModelRaises
  <1>2. sched = "run" /\ queue' = queue /\ accepting' = accepting /\ sched' = "top"
    BY <1>1 DEF FailActive, EndIteration
  <1>3. Closing'
    BY <1>1, <1>2, SameQueue, StillOpen
  <1>4. life' \in {"serving", "closing", "stopped"}
    BY <1>1 DEF SchedulerIInv, SchedulerTypeOK
  <1> QED BY <1>1, <1>3, <1>4, FailActiveStep

LEMMA GraceExpiresStep ==
    ASSUME SchedulerIInv, GraceExpires
    PROVE  SchedulerIInv' /\ Harmless
  <1>1. life = "closing" /\ FailActive("cancelled") /\ life' = "stopped"
    BY DEF GraceExpires
  <1>2. sched = "run" /\ queue' = queue /\ accepting' = accepting /\ sched' = "cancelled"
    BY <1>1 DEF FailActive, EndIteration
  <1>3. Closing'
    BY <1>1, <1>2 DEF Closing, SchedulerIInv, SchedulerTypeOK
  <1> QED BY <1>1, <1>3, FailActiveStep

LEMMA RejectDeferredStep ==
    ASSUME SchedulerIInv, RejectDeferred
    PROVE  SchedulerIInv' /\ Harmless
  <1>1. /\ sched = "top" /\ SetItems(FinishAll([r \in Range(deferred) |-> "REJECTED"])) /\ deferred' = <<>>
        /\ UNCHANGED <<setup, queue, unfinished, accepting, expired, life, sched, batch, fromQueue, taken, gateVars>>
    BY DEF RejectDeferred
  <1>2. PICK ends : ends = [r \in Range(deferred) |-> "REJECTED"]
    OBVIOUS
  <1>3. SchedulerTypeOK /\ QueueAccounting /\ LoopHolds /\ IsInjective(queue)
    BY DEF SchedulerIInv
  <1>4. batch = <<>> /\ deferred \in Seq(Request) /\ queue \in Seq(Request \cup {NoItem})
    BY <1>1, <1>3 DEF LoopHolds, SchedulerTypeOK
  <1>5. \A r \in Range(deferred) : r \in Request /\ status[r] \in {"QUEUED", "CANCELLED"}
    BY <1>1, <1>4, LoopTyped DEF SchedulerIInv, Sound, Told, Range
  <1>6. DOMAIN ends = Range(deferred) /\ Ends(ends)
    BY <1>2, <1>5 DEF Ends, Terminal
  <1>7. Range(batch) \cap Range(deferred) = {} /\ Queued \cap Range(deferred) = {} /\ IsInjective(batch)
    BY LoopTyped DEF SchedulerIInv, Sound, Apart
  <1>8. Range(deferred') = {} /\ IsInjective(deferred') /\ deferred' \in Seq(Request) /\ Queued' = Queued
    BY <1>1 DEF Range, IsInjective, Queued
  <1>9. Range(batch') = Range(batch) \ DOMAIN ends /\ Range(deferred') = Range(deferred) \ DOMAIN ends /\ Queued' = Queued \ DOMAIN ends
    BY <1>1, <1>6, <1>7, <1>8
  <1>10. batch' \in Seq(Request) /\ taken' \in Nat /\ unfinished' \in Int
    BY <1>1, <1>3 DEF SchedulerTypeOK
  <1>11. Sound(Loop', Queued', IF sched' = "run" THEN "RUNNING" ELSE "QUEUED")
    BY <1>1, <1>2, <1>6, <1>7, <1>8, <1>9, <1>10, FinishSound
  <1>12. Follows(status, status')
    BY <1>1, <1>2, <1>6, FinishAllFacts
  <1>13. QueueAccounting' /\ LoopHolds'
    BY <1>1, <1>3 DEF QueueAccounting, LoopHolds
  <1>14. Closing'
    BY <1>1, SameQueue, StillOpen
  <1>15. Len(batch') <= max_batch_size /\ taken' <= max_batch_size
    BY <1>1, <1>3, LocalSchedulerAssumption DEF SchedulerTypeOK
  <1>16. /\ queue' \in Seq(Request \cup {NoItem}) /\ IsInjective(queue') /\ Len(queue') <= max_queue_size
         /\ accepting' \in BOOLEAN /\ sched' \in {"top", "collect", "run", "done", "cancelled"} /\ fromQueue' \in BOOLEAN
         /\ life' \in {"serving", "closing", "stopped"}
    BY <1>1, <1>3 DEF SchedulerTypeOK
  <1> QED BY <1>1, <1>11, <1>12, <1>13, <1>14, <1>15, <1>16, SchedulerFrame

-----------------------------------------------------------------------------
(* The lifespan *)

LEMMA CloseStep ==
    ASSUME SchedulerIInv, Close
    PROVE  SchedulerIInv' /\ Harmless
  <1>1. /\ life = "serving" /\ life' = "closing" /\ accepting' = FALSE
        /\ SetItems(FinishAll([r \in Range(queue) |-> "REJECTED"]))
        /\ unfinished' = unfinished - Len(queue) + 1 /\ queue' = <<NoItem>>
        /\ UNCHANGED <<setup, expired, loopVars, gateVars>>
    BY DEF Close
  <1>2. UNCHANGED <<sched, batch, fromQueue, taken, deferred>>
    BY <1>1 DEF loopVars
  <1>3. SchedulerTypeOK /\ QueueAccounting /\ LoopHolds /\ Closing
    BY DEF SchedulerIInv
  <1>4. accepting /\ NoItem \notin Range(queue) /\ sched \notin {"done", "cancelled"}
    BY <1>1, <1>3 DEF Closing
  <1>5. Queued = Range(queue)
    BY <1>4 DEF Queued
  <1>6. PICK ends : ends = [r \in Range(queue) |-> "REJECTED"]
    OBVIOUS
  <1>7. queue \in Seq(Request \cup {NoItem})
    BY <1>3 DEF SchedulerTypeOK
  <1>8. \A r \in Range(queue) : r \in Request /\ status[r] \in {"QUEUED", "CANCELLED"}
    <2>1. \A r \in Range(queue) : r \in Request
      BY <1>4, <1>7 DEF Range
    <2> QED BY <1>5, <2>1, LoopTyped DEF SchedulerIInv, Sound, Told
  <1>9. DOMAIN ends = Range(queue) /\ Ends(ends)
    BY <1>6, <1>8 DEF Ends, Terminal
  <1>10. Queued \cap (Range(batch) \cup Range(deferred)) = {} /\ IsInjective(batch) /\ IsInjective(deferred)
    BY LoopTyped DEF SchedulerIInv, Sound, Apart
  <1>11. PICK q : q = <<NoItem>> /\ q \in Seq(Request \cup {NoItem}) /\ Len(q) = 1 /\ IsInjective(q) /\ Range(q) = {NoItem}
    <2>1. <<NoItem>> \in Seq(Request \cup {NoItem}) /\ Len(<<NoItem>>) = 1 /\ DOMAIN <<NoItem>> = {1} /\ <<NoItem>>[1] = NoItem
      OBVIOUS
    <2>2. IsInjective(<<NoItem>>) /\ Range(<<NoItem>>) = {NoItem}
      BY <2>1 DEF IsInjective, Range
    <2> QED BY <2>1, <2>2
  <1>12. queue' = q /\ Queued' = {}
    BY <1>1, <1>11 DEF Queued
  <1>13. /\ Range(batch') = Range(batch) \ DOMAIN ends /\ Range(deferred') = Range(deferred) \ DOMAIN ends
         /\ Queued' = Queued \ DOMAIN ends
    BY <1>2, <1>5, <1>9, <1>10, <1>12
  <1>14. Len(queue) \in Nat /\ unfinished \in Nat /\ taken \in 0..max_batch_size
    BY <1>3, <1>7 DEF SchedulerTypeOK
  <1>15. batch' \in Seq(Request) /\ deferred' \in Seq(Request) /\ taken' \in Nat /\ unfinished' \in Int
    BY <1>1, <1>2, <1>3, <1>14 DEF SchedulerTypeOK
  <1>16. sched' = "run" <=> sched = "run" /\ batch' # <<>>
    BY <1>2, <1>3 DEF LoopHolds
  <1>17. Sound(Loop', Queued', IF sched' = "run" THEN "RUNNING" ELSE "QUEUED")
    BY <1>1, <1>2, <1>6, <1>9, <1>10, <1>13, <1>15, <1>16, FinishSound
  <1>18. Follows(status, status') /\ started' = started
    BY <1>1, <1>6, <1>9, FinishAllFacts
  <1>19. QueueAccounting'
    <2>1. PICK one \in 0..1 : one = IF sched \in {"collect", "run"} /\ fromQueue THEN 1 ELSE 0
      OBVIOUS
    <2>2. unfinished = Len(queue) + taken + one
      BY <1>3, <2>1 DEF QueueAccounting
    <2>3. unfinished' = 1 + taken + one /\ Len(queue') = 1
      BY <1>1, <1>11, <1>12, <1>14, <2>1, <2>2
    <2> QED BY <1>2, <2>1, <2>3 DEF QueueAccounting
  <1>20. LoopHolds'
    BY <1>2, <1>3, <1>18 DEF LoopHolds
  <1>21. Closing'
    BY <1>1, <1>2, <1>4 DEF Closing
  <1>22. /\ queue' \in Seq(Request \cup {NoItem}) /\ IsInjective(queue') /\ Len(queue') <= max_queue_size
         /\ accepting' \in BOOLEAN /\ sched' \in {"top", "collect", "run", "done", "cancelled"}
         /\ Len(batch') <= max_batch_size /\ fromQueue' \in BOOLEAN /\ taken' <= max_batch_size
         /\ life' \in {"serving", "closing", "stopped"}
    <2>1. max_queue_size \in Nat \ {0} /\ max_batch_size \in Nat
      BY LocalSchedulerAssumption
    <2>2. Len(queue') <= max_queue_size
      BY <1>11, <1>12, <2>1
    <2>3. /\ sched' \in {"top", "collect", "run", "done", "cancelled"} /\ Len(batch') <= max_batch_size /\ fromQueue' \in BOOLEAN
          /\ taken' <= max_batch_size
      BY <1>2, <1>3, <2>1 DEF SchedulerTypeOK
    <2> QED BY <1>1, <1>11, <1>12, <2>2, <2>3
  <1> QED BY <1>1, <1>17, <1>18, <1>19, <1>20, <1>21, <1>22, SchedulerFrame

-----------------------------------------------------------------------------
(* Steps of the handlers *)

\* A handler leaves the scheduler's loop and the lifespan alone.
LEMMA HandlerFrame ==
    ASSUME SchedulerIInv, UNCHANGED <<setup, accepting, life, loopVars>>, started' = started,
           expired' \in SUBSET Request, tracked' \in SUBSET Request,
           gate' \in [Request -> InGate \cup {"idle", "refused", "finished", "raised"}],
           record' \in [Request -> StatusSet], store' \in [Request -> StatusSet \cup {"absent"}],
           Sound(Loop', Queued', IF sched' = "run" THEN "RUNNING" ELSE "QUEUED"), Handlers',
           queue' \in Seq(Request \cup {NoItem}), IsInjective(queue'), Len(queue') <= max_queue_size,
           QueueAccounting', Closing'
    PROVE  SchedulerIInv'
  <1>1. SchedulerTypeOK /\ LoopHolds
    BY DEF SchedulerIInv
  <1>2. UNCHANGED <<sched, batch, fromQueue, taken, deferred>>
    BY DEF loopVars
  <1>3. LoopType(Loop')
    BY DEF Sound
  <1>4. status' \in [Request -> StatusSet] /\ done' \in SUBSET Request /\ unfinished' \in Int
    BY <1>3 DEF LoopType, Loop, Items
  <1>5. unfinished' \in Nat
    <2>1. Len(queue') \in Nat /\ taken' \in Nat
      BY <1>1, <1>2 DEF SchedulerTypeOK
    <2> QED BY <1>4, <2>1 DEF QueueAccounting
  <1>6. started' \in SUBSET Request
    BY <1>1 DEF SchedulerTypeOK
  <1>7. SchedulerTypeOK'
    BY <1>1, <1>2, <1>4, <1>5, <1>6 DEF SchedulerTypeOK
  <1>8. LoopHolds'
    BY <1>1, <1>2 DEF LoopHolds
  <1>9. Sound(Loop, Queued, IF sched = "run" THEN "RUNNING" ELSE "QUEUED")'
    BY DEF Sound, LoopType, Apart, Told, Compatible, Kind, Cost, BatchCost
  <1> QED BY <1>7, <1>8, <1>9 DEF SchedulerIInv

\* The queue and the loop stay: what HandlerFrame asks about them.
LEMMA QueueStays ==
    ASSUME SchedulerIInv, UNCHANGED <<setup, queue, unfinished, accepting, life, loopVars>>
    PROVE  /\ queue' \in Seq(Request \cup {NoItem}) /\ IsInjective(queue') /\ Len(queue') <= max_queue_size
           /\ QueueAccounting' /\ Closing' /\ Queued' = Queued
  <1>1. UNCHANGED <<sched, batch, fromQueue, taken, deferred>>
    BY DEF loopVars
  <1>2. SchedulerTypeOK /\ QueueAccounting /\ Closing /\ IsInjective(queue)
    BY DEF SchedulerIInv
  <1>3. QueueAccounting'
    BY <1>1, <1>2 DEF QueueAccounting
  <1>4. Closing'
    BY <1>1, <1>2 DEF Closing
  <1>5. Queued' = Queued
    BY DEF Queued
  <1> QED BY <1>2, <1>3, <1>4, <1>5 DEF SchedulerTypeOK

\* Nothing changes for the scheduler.
LEMMA SoundStays ==
    ASSUME SchedulerIInv, UNCHANGED <<setup, queue, unfinished, itemVars, loopVars>>
    PROVE  Sound(Loop', Queued', IF sched' = "run" THEN "RUNNING" ELSE "QUEUED")
  <1>1. UNCHANGED <<sched, batch, fromQueue, taken, deferred, status, done, started>>
    BY DEF loopVars, itemVars
  <1>2. Loop' = Loop /\ Queued' = Queued
    BY <1>1 DEF Loop, Items, Queued
  <1> QED BY <1>1, <1>2 DEF SchedulerIInv

\* One request gets the status s; it keeps its place, and has one if it is open.
LEMMA OneChanges ==
    ASSUME SchedulerIInv, NEW r \in Request, NEW s \in StatusSet, started' = started,
           status' = [status EXCEPT ![r] = s], done' = IF s \in Terminal THEN done \cup {r} ELSE done \ {r},
           UNCHANGED <<setup, loopVars>>, unfinished' \in Int,
           \/ Queued' = Queued /\ (s = "CANCELLED" \/ (s \in Terminal /\ status[r] = "RECEIVED"))
           \/ Queued' = Queued \cup {r} /\ s = "QUEUED" /\ status[r] = "RECEIVED"
    PROVE  Sound(Loop', Queued', IF sched' = "run" THEN "RUNNING" ELSE "QUEUED")
  <1>1. UNCHANGED <<sched, batch, fromQueue, taken, deferred>>
    BY DEF loopVars
  <1>2. /\ status \in [Request -> StatusSet] /\ done \in SUBSET Request /\ started \in SUBSET Request /\ taken \in Nat
        /\ batch \in Seq(Request) /\ deferred \in Seq(Request) /\ queue \in Seq(Request \cup {NoItem})
    BY DEF SchedulerIInv, SchedulerTypeOK
  <1>3. PICK x : x = IF sched = "run" THEN "RUNNING" ELSE "QUEUED"
    OBVIOUS
  <1>4. Apart(Loop, Queued) /\ Told(Loop, Queued, x) /\ Compatible(batch)
    BY <1>3, LoopTyped DEF SchedulerIInv, Sound
  <1>5. PICK c : c = [it |-> [status |-> status', done |-> done', started |-> started'], batch |-> batch', deferred |-> deferred',
                      taken |-> taken', unfinished |-> unfinished']
    OBVIOUS
  <1>6. /\ c.it = [status |-> status', done |-> done', started |-> started'] /\ c.batch = batch /\ c.deferred = deferred
        /\ c.taken = taken' /\ c.unfinished = unfinished'
    BY <1>1, <1>5
  <1>7. c.it.status = status' /\ c.it.done = done' /\ c.it.started = started'
    BY <1>6
  <1>8. status' \in [Request -> StatusSet] /\ done' \in SUBSET Request
    BY <1>2
  <1>9. LoopType(c)
    BY <1>1, <1>2, <1>5, <1>8 DEF LoopType
  <1>10. Loop' = c
    BY <1>1, <1>6, <1>7, <1>9, LoopIs
  <1>11. /\ Range(batch) \cap Range(deferred) = {} /\ Queued \cap (Range(batch) \cup Range(deferred)) = {}
         /\ IsInjective(batch) /\ IsInjective(deferred)
         /\ \A q \in Queued \cup Range(deferred) : status[q] \in {"QUEUED", "CANCELLED"}
         /\ \A q \in Range(batch) : status[q] \in {x, "CANCELLED"}
         /\ \A q \in Request : status[q] \in {"QUEUED", "RUNNING"} => q \in Queued \cup Range(deferred) \cup Range(batch)
         /\ done = {q \in Request : status[q] \in Terminal}
    BY <1>4, LoopTyped DEF Apart, Told
  <1>12. \A q \in Queued \cup Range(deferred) \cup Range(batch) : q \in Request
    BY <1>2 DEF Queued, Range
  <1>13. status[r] = "RECEIVED" => r \notin Queued \cup Range(deferred) \cup Range(batch)
    BY <1>3, <1>11
  <1>14. Apart(c, Queued')
    BY <1>6, <1>11, <1>13 DEF Apart
  <1>15. \A q \in Request : status'[q] = IF q = r THEN s ELSE status[q]
    BY <1>2
  <1>16. Told(c, Queued', x)
    <2>1. Terminal = {"COMPLETED", "FAILED", "REJECTED", "TIMEOUT", "CANCELLED"}
      BY DEF Terminal
    <2>2. \A q \in Queued' \cup Range(deferred) : status'[q] \in {"QUEUED", "CANCELLED"}
      BY <1>11, <1>12, <1>13, <1>15
    <2>3. \A q \in Range(batch) : status'[q] \in {x, "CANCELLED"}
      BY <1>11, <1>12, <1>13, <1>15
    <2>4. \A q \in Request : status'[q] \in {"QUEUED", "RUNNING"} => q \in Queued' \cup Range(deferred) \cup Range(batch)
      BY <1>11, <1>15, <2>1
    <2>5. done' = {q \in Request : status'[q] \in Terminal}
      <3>1. \A q \in Request : q \in done' <=> status'[q] \in Terminal
        BY <1>11, <1>15
      <3> QED BY <1>8, <3>1
    <2> QED BY <1>6, <1>7, <2>2, <2>3, <2>4, <2>5 DEF Told
  <1>17. Sound(c, Queued', x)
    BY <1>4, <1>6, <1>9, <1>14, <1>16 DEF Sound
  <1> QED BY <1>1, <1>3, <1>10, <1>17

\* What cancel does to a request that was submitted.
LEMMA CancelSound ==
    ASSUME SchedulerIInv, NEW r \in Request, status[r] # "RECEIVED", SetItems(Cancel(Items, r)),
           UNCHANGED <<setup, queue, unfinished, loopVars>>
    PROVE  /\ Sound(Loop', Queued', IF sched' = "run" THEN "RUNNING" ELSE "QUEUED") /\ started' = started
           /\ status' \in [Request -> StatusSet] /\ status'[r] \in Terminal
           /\ status'[r] = status[r] \/ (status'[r] = "CANCELLED" /\ status[r] \notin Terminal)
           /\ \A q \in Request : q # r => status'[q] = status[q]
  <1>1. status \in [Request -> StatusSet] /\ done \in SUBSET Request /\ unfinished \in Nat
    BY DEF SchedulerIInv, SchedulerTypeOK
  <1>2. Items.status = status /\ Items.done = done /\ Items.started = started
    BY LoopTyped
  <1>3. CASE status[r] \in Terminal
    <2>1. status' = status /\ done' = done /\ started' = started
      BY <1>2, <1>3 DEF SetItems, Cancel
    <2> QED BY <1>1, <1>3, <2>1, SoundStays DEF itemVars
  <1>4. CASE status[r] \notin Terminal
    <2>1. SetItems(Finish(Items, r, "CANCELLED"))
      BY <1>2, <1>4 DEF Cancel
    <2>2. PICK e : e = Finish(Items, r, "CANCELLED")
      OBVIOUS
    <2>3. e = [status |-> [status EXCEPT ![r] = "CANCELLED"], done |-> done \cup {r}, started |-> started]
      BY <2>2, FinishFields DEF Items
    <2>4. status' = [status EXCEPT ![r] = "CANCELLED"] /\ done' = done \cup {r} /\ started' = started
      <3>1. PICK ns, nd, sd :
              ns = [status EXCEPT ![r] = "CANCELLED"] /\ nd = done \cup {r} /\ sd = started
        OBVIOUS
      <3>2. e = [status |-> ns, done |-> nd, started |-> sd]
        BY <2>3, <3>1
      <3>3. e.status = ns /\ e.done = nd /\ e.started = sd
        BY <3>2
      <3> QED BY <2>1, <2>2, <3>1, <3>3, Zenon DEF SetItems
    <2>5. "CANCELLED" \in Terminal /\ "CANCELLED" \in StatusSet
      BY DEF StatusSet, Terminal
    <2>6. Queued' = Queued
      BY DEF Queued
    <2>7. Sound(Loop', Queued', IF sched' = "run" THEN "RUNNING" ELSE "QUEUED")
      <3>1. unfinished' \in Int
        BY <1>1
      <3>2. PICK s \in StatusSet : s = "CANCELLED" /\ s \in Terminal
        BY <2>5
      <3>3. status' = [status EXCEPT ![r] = s] /\ done' = IF s \in Terminal THEN done \cup {r} ELSE done \ {r}
        BY <2>4, <3>2
      <3> QED BY <2>4, <2>6, <3>1, <3>2, <3>3, OneChanges
    <2> QED BY <1>1, <1>4, <2>4, <2>5, <2>7
  <1> QED BY <1>3, <1>4

\* A handler step that only moves the handler, or the deadline.
LEMMA ArriveStep ==
    ASSUME SchedulerIInv, NEW r \in Request, Arrive(r) \/ Invalid(r)
    PROVE  SchedulerIInv' /\ Harmless
  <1>1. /\ gate[r] \in {"idle", "validating"}
        /\ gate' = [gate EXCEPT ![r] = "refused"] \/ gate' = [gate EXCEPT ![r] = "validating"]
        /\ UNCHANGED <<setup, queue, unfinished, accepting, expired, life, itemVars, loopVars, record, store, tracked>>
    BY DEF Arrive, Invalid
  <1>2. SchedulerTypeOK /\ Handlers
    BY DEF SchedulerIInv
  <1>3. status' = status /\ started' = started
    BY <1>1 DEF itemVars
  <1>4. gate' \in [Request -> InGate \cup {"idle", "refused", "finished", "raised"}]
    BY <1>1, <1>2 DEF SchedulerTypeOK, InGate
  <1>5. gate \in [Request -> InGate \cup {"idle", "refused", "finished", "raised"}]
    BY <1>2 DEF SchedulerTypeOK
  <1>6. Handlers'
    <2> SUFFICES ASSUME NEW q \in Request
                 PROVE  /\ status'[q] = "RECEIVED" <=> gate'[q] \in {"idle", "validating", "refused"}
                        /\ status'[q] = "RECEIVED" => store'[q] = "absent"
                        /\ gate'[q] = "waiting" => record'[q] = "QUEUED"
                        /\ store'[q] = "CANCELLED" => status'[q] \in {"CANCELLED", "TIMEOUT", "FAILED", "REJECTED"}
      BY DEF Handlers
    <2> QED BY <1>1, <1>2, <1>3, <1>5 DEF Handlers
  <1>7. /\ expired' \in SUBSET Request /\ tracked' \in SUBSET Request
        /\ record' \in [Request -> StatusSet] /\ store' \in [Request -> StatusSet \cup {"absent"}]
    BY <1>1, <1>2 DEF SchedulerTypeOK
  <1>8. SchedulerIInv'
    BY <1>1, <1>3, <1>4, <1>6, <1>7, QueueStays, SoundStays, HandlerFrame
  <1>9. Harmless
    BY <1>1, <1>3 DEF Harmless
  <1> QED BY <1>8, <1>9

LEMMA ExpireStep ==
    ASSUME SchedulerIInv, NEW r \in Request, Expire(r)
    PROVE  SchedulerIInv' /\ Harmless
  <1>1. /\ expired' = expired \cup {r}
        /\ UNCHANGED <<setup, queue, unfinished, accepting, life, itemVars, loopVars, gateVars>>
    BY DEF Expire
  <1>2. SchedulerTypeOK /\ Handlers
    BY DEF SchedulerIInv
  <1>3. UNCHANGED <<status, started, gate, record, store, tracked>>
    BY <1>1 DEF itemVars, gateVars
  <1>4. Handlers'
    BY <1>2, <1>3 DEF Handlers
  <1>5. /\ expired' \in SUBSET Request /\ tracked' \in SUBSET Request
        /\ gate' \in [Request -> InGate \cup {"idle", "refused", "finished", "raised"}]
        /\ record' \in [Request -> StatusSet] /\ store' \in [Request -> StatusSet \cup {"absent"}]
    BY <1>1, <1>2, <1>3 DEF SchedulerTypeOK
  <1>6. SchedulerIInv'
    BY <1>1, <1>3, <1>4, <1>5, QueueStays, SoundStays, HandlerFrame
  <1>7. Harmless
    BY <1>3 DEF Harmless
  <1> QED BY <1>6, <1>7

LEMMA StoppedStep ==
    ASSUME SchedulerIInv, Stopped
    PROVE  SchedulerIInv' /\ Harmless
  <1>1. /\ life = "closing" /\ sched = "done" /\ life' = "stopped"
        /\ UNCHANGED <<setup, queue, unfinished, accepting, expired, itemVars, loopVars, gateVars>>
    BY DEF Stopped
  <1>2. SchedulerTypeOK /\ Closing /\ QueueAccounting /\ LoopHolds /\ IsInjective(queue)
    BY DEF SchedulerIInv
  <1>3. UNCHANGED <<status, done, started, sched, batch, fromQueue, taken, deferred>>
    BY <1>1 DEF itemVars, loopVars
  <1>4. QueueAccounting' /\ LoopHolds'
    BY <1>1, <1>2, <1>3 DEF QueueAccounting, LoopHolds
  <1>5. Closing'
    BY <1>1, <1>2, <1>3 DEF Closing
  <1>6. Follows(status, status')
    BY <1>3 DEF Follows
  <1>7. Sound(Loop', Queued', IF sched' = "run" THEN "RUNNING" ELSE "QUEUED")
    BY <1>1, SoundStays
  <1>8. /\ queue' \in Seq(Request \cup {NoItem}) /\ IsInjective(queue') /\ Len(queue') <= max_queue_size
        /\ accepting' \in BOOLEAN /\ sched' \in {"top", "collect", "run", "done", "cancelled"}
        /\ Len(batch') <= max_batch_size /\ fromQueue' \in BOOLEAN /\ taken' <= max_batch_size
        /\ life' \in {"serving", "closing", "stopped"}
    <2>1. max_batch_size \in Nat
      BY LocalSchedulerAssumption
    <2> QED BY <1>1, <1>2, <1>3, <2>1 DEF SchedulerTypeOK
  <1> QED BY <1>1, <1>4, <1>5, <1>6, <1>7, <1>8, SchedulerFrame

LEMMA SubmitStep ==
    ASSUME SchedulerIInv, NEW r \in Request, Submit(r)
    PROVE  SchedulerIInv' /\ Harmless
  <1>1. gate[r] = "validating" /\ UNCHANGED <<setup, accepting, expired, life, loopVars>>
    BY DEF Submit
  <1>2. SchedulerTypeOK /\ Handlers /\ QueueAccounting /\ Closing /\ IsInjective(queue)
    BY DEF SchedulerIInv
  <1>3. /\ queue \in Seq(Request \cup {NoItem}) /\ unfinished \in Nat /\ expired \in SUBSET Request /\ tracked \in SUBSET Request
        /\ status \in [Request -> StatusSet] /\ record \in [Request -> StatusSet] /\ done \in SUBSET Request
        /\ gate \in [Request -> InGate \cup {"idle", "refused", "finished", "raised"}]
        /\ store \in [Request -> StatusSet \cup {"absent"}]
    BY <1>2 DEF SchedulerTypeOK
  <1>4. status[r] = "RECEIVED" /\ store[r] = "absent"
    BY <1>1, <1>2 DEF Handlers
  <1>5. PICK x : x = IF sched = "run" THEN "RUNNING" ELSE "QUEUED"
    OBVIOUS
  <1>6. r \notin Queued /\ r \notin done
    <2>1. Told(Loop, Queued, x) /\ Loop.it.status = status /\ Loop.it.done = done
      BY <1>5, LoopTyped DEF SchedulerIInv, Sound
    <2> QED BY <1>4, <2>1 DEF Told, Terminal
  <1>7. r # NoItem
    BY LocalSchedulerAssumption
  <1>8. UNCHANGED <<sched, batch, fromQueue, taken, deferred>>
    BY <1>1 DEF loopVars
  <1>9. CASE accepting /\ Len(queue) < max_queue_size
    <2>1. /\ queue' = Append(queue, r) /\ unfinished' = unfinished + 1
          /\ status' = [status EXCEPT ![r] = "QUEUED"] /\ record' = [record EXCEPT ![r] = "QUEUED"]
          /\ store' = [store EXCEPT ![r] = "QUEUED"] /\ tracked' = tracked \cup {r}
          /\ gate' = [gate EXCEPT ![r] = "waiting"] /\ done' = done /\ started' = started
      BY <1>9 DEF Submit
    <2>2. r \notin Range(queue)
      BY <1>6, <1>7 DEF Queued
    <2>3. /\ queue' \in Seq(Request \cup {NoItem}) /\ Len(queue') = Len(queue) + 1 /\ IsInjective(queue')
          /\ Range(queue') = Range(queue) \cup {r}
      <3>1. r \in Request \cup {NoItem}
        OBVIOUS
      <3> QED BY <1>2, <1>3, <2>1, <2>2, <3>1, AppendFacts
    <2>4. Queued' = Queued \cup {r}
      BY <1>7, <2>3 DEF Queued
    <2>5. PICK s \in StatusSet : s = "QUEUED" /\ s \notin Terminal
      <3>1. "QUEUED" \in StatusSet /\ "QUEUED" \notin Terminal
        BY DEF StatusSet, Terminal
      <3> QED BY <3>1
    <2>6. done' = IF s \in Terminal THEN done \cup {r} ELSE done \ {r}
      BY <1>6, <2>1, <2>5
    <2>7. unfinished' \in Int
      BY <1>3, <2>1
    <2>8. Sound(Loop', Queued', IF sched' = "run" THEN "RUNNING" ELSE "QUEUED")
      BY <1>1, <1>4, <2>1, <2>4, <2>5, <2>6, <2>7, OneChanges
    <2>9. QueueAccounting'
      <3>1. PICK one \in 0..1 : one = IF sched \in {"collect", "run"} /\ fromQueue THEN 1 ELSE 0
        OBVIOUS
      <3>2. unfinished = Len(queue) + taken + one /\ Len(queue) \in Nat /\ taken \in Nat
        BY <1>2, <1>3, <3>1 DEF QueueAccounting, SchedulerTypeOK
      <3>3. unfinished' = Len(queue') + taken + one
        BY <2>1, <2>3, <3>1, <3>2
      <3> QED BY <1>8, <3>1, <3>3 DEF QueueAccounting
    <2>10. Closing'
      BY <1>1, <1>2, <1>7, <1>8, <1>9, <2>3 DEF Closing
    <2>11. Len(queue') <= max_queue_size
      BY <1>3, <1>9, <2>3, LocalSchedulerAssumption
    <2>12. gate' \in [Request -> InGate \cup {"idle", "refused", "finished", "raised"}]
      BY <1>3, <2>1 DEF InGate
    <2>13. record' \in [Request -> StatusSet] /\ store' \in [Request -> StatusSet \cup {"absent"}]
      BY <1>3, <2>1, <2>5
    <2>14. Handlers'
      BY <1>2, <1>3, <2>1 DEF Handlers
    <2>15. expired' \in SUBSET Request /\ tracked' \in SUBSET Request
      BY <1>1, <1>3, <2>1
    <2>16. SchedulerIInv'
      BY <1>1, <2>1, <2>3, <2>8, <2>9, <2>10, <2>11, <2>12, <2>13, <2>14, <2>15, HandlerFrame
    <2>17. Harmless
      BY <1>3, <2>1 DEF Harmless
    <2> QED BY <2>16, <2>17
  <1>10. CASE ~(accepting /\ Len(queue) < max_queue_size)
    <2>1. /\ SetItems(Finish(Items, r, "REJECTED"))
          /\ record' = [record EXCEPT ![r] = "REJECTED"] /\ store' = [store EXCEPT ![r] = "REJECTED"]
          /\ gate' = [gate EXCEPT ![r] = "finished"] /\ UNCHANGED <<queue, unfinished, tracked>>
      BY <1>10 DEF Submit
    <2>2. PICK e : e = Finish(Items, r, "REJECTED")
      OBVIOUS
    <2>3. PICK ns, nd, sd : ns = [status EXCEPT ![r] = "REJECTED"] /\ nd = done \cup {r} /\ sd = started
      OBVIOUS
    <2>4. e = [status |-> ns, done |-> nd, started |-> sd]
      BY <2>2, <2>3, FinishFields DEF Items
    <2>5. e.status = ns /\ e.done = nd /\ e.started = sd
      BY <2>4
    <2>6. status' = [status EXCEPT ![r] = "REJECTED"] /\ done' = done \cup {r} /\ started' = started
      BY <2>1, <2>2, <2>3, <2>5, Zenon DEF SetItems
    <2>7. PICK s \in StatusSet : s = "REJECTED" /\ s \in Terminal
      <3>1. "REJECTED" \in StatusSet /\ "REJECTED" \in Terminal
        BY DEF StatusSet, Terminal
      <3> QED BY <3>1
    <2>8. done' = IF s \in Terminal THEN done \cup {r} ELSE done \ {r}
      BY <2>6, <2>7
    <2>9. Queued' = Queued /\ unfinished' \in Int
      BY <1>3, <2>1 DEF Queued
    <2>10. Sound(Loop', Queued', IF sched' = "run" THEN "RUNNING" ELSE "QUEUED")
      BY <1>1, <1>4, <2>6, <2>7, <2>8, <2>9, OneChanges
    <2>11. gate' \in [Request -> InGate \cup {"idle", "refused", "finished", "raised"}]
      BY <1>3, <2>1
    <2>12. record' \in [Request -> StatusSet] /\ store' \in [Request -> StatusSet \cup {"absent"}]
      BY <1>3, <2>1, <2>7
    <2>13. Handlers'
      BY <1>2, <1>3, <2>1, <2>6 DEF Handlers
    <2>14. expired' \in SUBSET Request /\ tracked' \in SUBSET Request
      BY <1>1, <1>3, <2>1
    <2>15. SchedulerIInv'
      BY <1>1, <2>1, <2>6, <2>10, <2>11, <2>12, <2>13, <2>14, QueueStays, HandlerFrame
    <2>16. Harmless
      BY <1>3, <2>1, <2>6 DEF Harmless
    <2> QED BY <2>15, <2>16
  <1> QED BY <1>9, <1>10

\* The end of a handler that waited, once the request's status is terminal.
LEMMA ConcludeStep ==
    ASSUME SchedulerIInv, NEW r \in Request, gate[r] = "waiting", NEW known, Conclude(r, status'[r], known),
           UNCHANGED <<setup, queue, unfinished, accepting, expired, life, loopVars>>, started' = started,
           status' \in [Request -> StatusSet], status'[r] \in Terminal,
           status'[r] = status[r] \/ (status'[r] = "CANCELLED" /\ status[r] \notin Terminal),
           \A q \in Request : q # r => status'[q] = status[q],
           Sound(Loop', Queued', IF sched' = "run" THEN "RUNNING" ELSE "QUEUED")
    PROVE  SchedulerIInv' /\ Harmless
  <1>1. SchedulerTypeOK /\ Handlers
    BY DEF SchedulerIInv
  <1>2. /\ status \in [Request -> StatusSet] /\ record \in [Request -> StatusSet]
        /\ gate \in [Request -> InGate \cup {"idle", "refused", "finished", "raised"}]
        /\ store \in [Request -> StatusSet \cup {"absent"}] /\ tracked \in SUBSET Request /\ expired \in SUBSET Request
    BY <1>1 DEF SchedulerTypeOK
  <1>3. record[r] = "QUEUED" /\ status[r] # "RECEIVED" /\ "QUEUED" \notin Terminal
    BY <1>1, <1>2 DEF Handlers, Terminal
  <1>4. Terminal = {"COMPLETED", "FAILED", "REJECTED", "TIMEOUT", "CANCELLED"}
    BY DEF Terminal
  <1>5. CASE Refused(record[r], status'[r], known)
    <2>1. gate' = [gate EXCEPT ![r] = "raised"] /\ UNCHANGED <<record, store, tracked>>
      BY <1>5 DEF Conclude
    <2>2. gate' \in [Request -> InGate \cup {"idle", "refused", "finished", "raised"}]
      BY <1>2, <2>1
    <2>3. Handlers'
      <3> SUFFICES ASSUME NEW q \in Request
                   PROVE  /\ status'[q] = "RECEIVED" <=> gate'[q] \in {"idle", "validating", "refused"}
                          /\ status'[q] = "RECEIVED" => store'[q] = "absent"
                          /\ gate'[q] = "waiting" => record'[q] = "QUEUED"
                          /\ store'[q] = "CANCELLED" => status'[q] \in {"CANCELLED", "TIMEOUT", "FAILED", "REJECTED"}
        BY DEF Handlers
      <3> QED BY <1>1, <1>2, <1>3, <1>4, <2>1 DEF Handlers
    <2>4. SchedulerIInv'
      BY <1>2, <2>1, <2>2, <2>3, QueueStays, HandlerFrame
    <2>5. Harmless
      <3> SUFFICES ASSUME NEW q \in Request
                   PROVE  /\ status[q] = "CANCELLED" => status'[q] # "COMPLETED"
                          /\ store[q] = "CANCELLED" => store'[q] # "COMPLETED"
        BY DEF Harmless
      <3> QED BY <2>1
    <2> QED BY <2>4, <2>5
  <1>6. CASE ~Refused(record[r], status'[r], known)
    <2>1. /\ record' = [record EXCEPT ![r] = Finished(record[r], status'[r])] /\ store' = [store EXCEPT ![r] = record'[r]]
          /\ tracked' = tracked \ {r} /\ gate' = [gate EXCEPT ![r] = "finished"]
      BY <1>6 DEF Conclude
    <2>2. Finished(record[r], status'[r]) = status'[r]
      BY <1>3 DEF Finished
    <2>3. record' = [record EXCEPT ![r] = status'[r]] /\ record'[r] = status'[r]
      BY <1>2, <2>1, <2>2
    <2>4. store' = [store EXCEPT ![r] = status'[r]]
      BY <2>1, <2>3
    <2>5. status'[r] \in StatusSet
      OBVIOUS
    <2>6. /\ gate' \in [Request -> InGate \cup {"idle", "refused", "finished", "raised"}]
          /\ record' \in [Request -> StatusSet] /\ store' \in [Request -> StatusSet \cup {"absent"}]
          /\ tracked' \in SUBSET Request /\ expired' \in SUBSET Request
      BY <1>2, <2>1, <2>3, <2>4, <2>5
    <2>7. Handlers'
      <3> SUFFICES ASSUME NEW q \in Request
                   PROVE  /\ status'[q] = "RECEIVED" <=> gate'[q] \in {"idle", "validating", "refused"}
                          /\ status'[q] = "RECEIVED" => store'[q] = "absent"
                          /\ gate'[q] = "waiting" => record'[q] = "QUEUED"
                          /\ store'[q] = "CANCELLED" => status'[q] \in {"CANCELLED", "TIMEOUT", "FAILED", "REJECTED"}
        BY DEF Handlers
      <3>1. CASE q = r
        BY <1>2, <1>4, <2>1, <2>3, <2>4, <3>1
      <3>2. CASE q # r
        BY <1>1, <1>2, <2>1, <2>3, <2>4, <3>2 DEF Handlers
      <3> QED BY <3>1, <3>2
    <2>8. SchedulerIInv'
      BY <2>6, <2>7, QueueStays, HandlerFrame
    <2>9. Harmless
      <3> SUFFICES ASSUME NEW q \in Request
                   PROVE  /\ status[q] = "CANCELLED" => status'[q] # "COMPLETED"
                          /\ store[q] = "CANCELLED" => store'[q] # "COMPLETED"
        BY DEF Harmless
      <3>1. CASE q = r
        BY <1>1, <1>2, <2>4, <3>1 DEF Handlers
      <3>2. CASE q # r
        BY <1>2, <2>4, <3>2
      <3> QED BY <3>1, <3>2
    <2> QED BY <2>8, <2>9
  <1> QED BY <1>5, <1>6

LEMMA RespondStep ==
    ASSUME SchedulerIInv, NEW r \in Request, Respond(r)
    PROVE  SchedulerIInv' /\ Harmless
  <1>1. /\ gate[r] = "waiting" /\ r \in done /\ Conclude(r, status[r], r \in started)
        /\ UNCHANGED <<setup, queue, unfinished, accepting, expired, life, itemVars, loopVars>>
    BY DEF Respond
  <1>2. status' = status /\ started' = started
    BY <1>1 DEF itemVars
  <1>3. status \in [Request -> StatusSet]
    BY DEF SchedulerIInv, SchedulerTypeOK
  <1>4. done = {q \in Request : status[q] \in Terminal}
    BY LoopTyped DEF SchedulerIInv, Sound, Told
  <1>5. status'[r] \in Terminal /\ Conclude(r, status'[r], r \in started)
    BY <1>1, <1>2, <1>4
  <1>6. Sound(Loop', Queued', IF sched' = "run" THEN "RUNNING" ELSE "QUEUED")
    BY <1>1, SoundStays
  <1> QED BY <1>1, <1>2, <1>3, <1>5, <1>6, ConcludeStep

LEMMA DisconnectStep ==
    ASSUME SchedulerIInv, NEW r \in Request, Disconnect(r)
    PROVE  SchedulerIInv' /\ Harmless
  <1>1. /\ gate[r] = "waiting" /\ SetItems(Cancel(Items, r)) /\ Conclude(r, status'[r], FALSE)
        /\ UNCHANGED <<setup, queue, unfinished, accepting, expired, life, loopVars>>
    BY DEF Disconnect
  <1>2. status[r] # "RECEIVED"
    BY <1>1 DEF SchedulerIInv, Handlers
  <1>3. /\ Sound(Loop', Queued', IF sched' = "run" THEN "RUNNING" ELSE "QUEUED") /\ started' = started
        /\ status' \in [Request -> StatusSet] /\ status'[r] \in Terminal
        /\ status'[r] = status[r] \/ (status'[r] = "CANCELLED" /\ status[r] \notin Terminal)
        /\ \A q \in Request : q # r => status'[q] = status[q]
    BY <1>1, <1>2, CancelSound
  <1> QED BY <1>1, <1>3, ConcludeStep

LEMMA DeleteStep ==
    ASSUME SchedulerIInv, NEW r \in Request, Delete(r)
    PROVE  SchedulerIInv' /\ Harmless
  <1>1. /\ store[r] \notin Terminal \cup {"absent"} /\ SetItems(Cancel(Items, r))
        /\ UNCHANGED <<setup, queue, unfinished, accepting, expired, life, loopVars, gate, record>>
    BY DEF Delete
  <1>2. SchedulerTypeOK /\ Handlers
    BY DEF SchedulerIInv
  <1>3. status[r] # "RECEIVED"
    BY <1>1, <1>2 DEF Handlers
  <1>4. /\ Sound(Loop', Queued', IF sched' = "run" THEN "RUNNING" ELSE "QUEUED") /\ started' = started
        /\ status' \in [Request -> StatusSet] /\ status'[r] \in Terminal
        /\ status'[r] = status[r] \/ (status'[r] = "CANCELLED" /\ status[r] \notin Terminal)
        /\ \A q \in Request : q # r => status'[q] = status[q]
    BY <1>1, <1>3, CancelSound
  <1>5. (store' = store /\ tracked' = tracked) \/ (store' = [store EXCEPT ![r] = status'[r]] /\ tracked' = tracked \ {r})
    BY <1>1 DEF Delete, Finished
  <1>6. /\ gate \in [Request -> InGate \cup {"idle", "refused", "finished", "raised"}] /\ record \in [Request -> StatusSet]
        /\ store \in [Request -> StatusSet \cup {"absent"}] /\ tracked \in SUBSET Request /\ expired \in SUBSET Request
        /\ status \in [Request -> StatusSet]
    BY <1>2 DEF SchedulerTypeOK
  <1>7. store' \in [Request -> StatusSet \cup {"absent"}] /\ tracked' \in SUBSET Request
    <2>1. status'[r] \in StatusSet
      BY <1>4
    <2> QED BY <1>5, <1>6, <2>1
  <1>8. Terminal = {"COMPLETED", "FAILED", "REJECTED", "TIMEOUT", "CANCELLED"}
    BY DEF Terminal
  <1>9. \A q \in Request : /\ q # r => store'[q] = store[q]
                           /\ store'[r] = store[r] \/ store'[r] = status'[r]
    BY <1>5, <1>6
  <1>10. Handlers'
    <2> SUFFICES ASSUME NEW q \in Request
                 PROVE  /\ status'[q] = "RECEIVED" <=> gate'[q] \in {"idle", "validating", "refused"}
                        /\ status'[q] = "RECEIVED" => store'[q] = "absent"
                        /\ gate'[q] = "waiting" => record'[q] = "QUEUED"
                        /\ store'[q] = "CANCELLED" => status'[q] \in {"CANCELLED", "TIMEOUT", "FAILED", "REJECTED"}
      BY DEF Handlers
    <2>1. CASE q = r
      BY <1>1, <1>2, <1>3, <1>4, <1>8, <1>9, <2>1 DEF Handlers
    <2>2. CASE q # r
      BY <1>1, <1>2, <1>4, <1>9, <2>2 DEF Handlers
    <2> QED BY <2>1, <2>2
  <1>11. SchedulerIInv'
    BY <1>1, <1>4, <1>6, <1>7, <1>10, QueueStays, HandlerFrame
  <1>12. Harmless
    <2> SUFFICES ASSUME NEW q \in Request
                 PROVE  /\ status[q] = "CANCELLED" => status'[q] # "COMPLETED"
                        /\ store[q] = "CANCELLED" => store'[q] # "COMPLETED"
      BY DEF Harmless
    <2>1. CASE q = r
      BY <1>1, <1>4, <1>8, <2>1
    <2>2. CASE q # r
      BY <1>4, <1>9, <2>2
    <2> QED BY <2>1, <2>2
  <1> QED BY <1>11, <1>12

-----------------------------------------------------------------------------
(* The theorems *)

\* At the start nothing is anywhere.
LEMMA SchedulerStarts ==
    ASSUME SchedulerInit
    PROVE  SchedulerIInv
  <1> USE DEF SchedulerInit
  <1>1. PICK none : none = <<>> /\ Range(none) = {} /\ IsInjective(none) /\ Len(none) = 0 /\ DOMAIN none = {}
                    /\ \A T : none \in Seq(T)
    <2>1. Range(<<>>) = {} /\ IsInjective(<<>>) /\ Len(<<>>) = 0 /\ DOMAIN <<>> = {} /\ \A T : <<>> \in Seq(T)
      BY DEF Range, IsInjective
    <2> QED BY <2>1
  <1>2. queue = none /\ batch = none /\ deferred = none
    BY <1>1
  <1>3. /\ max_batch_size \in Nat /\ max_queue_size \in Nat
    BY LocalSchedulerAssumption
  <1>4. \A r \in Request : status[r] = "RECEIVED" /\ gate[r] = "idle" /\ store[r] = "absent"
    OBVIOUS
  <1>5. status \in [Request -> StatusSet] /\ record \in [Request -> StatusSet] /\ store \in [Request -> StatusSet \cup {"absent"}]
    BY DEF StatusSet
  <1>6. gate \in [Request -> InGate \cup {"idle", "refused", "finished", "raised"}]
    OBVIOUS
  <1>7. SchedulerTypeOK
    <2>1. queue \in Seq(Request \cup {NoItem}) /\ Len(queue) <= max_queue_size
      BY <1>1, <1>2, <1>3
    <2>2. batch \in Seq(Request) /\ deferred \in Seq(Request) /\ Len(batch) <= max_batch_size
      BY <1>1, <1>2, <1>3
    <2>3. taken \in 0..max_batch_size /\ unfinished \in Nat
      BY <1>3
    <2>4. setup \in Setups /\ accepting \in BOOLEAN /\ fromQueue \in BOOLEAN /\ {done, expired, started, tracked} \subseteq SUBSET Request
      OBVIOUS
    <2>5. sched \in {"top", "collect", "run", "done", "cancelled"} /\ life \in {"serving", "closing", "stopped"}
      OBVIOUS
    <2> HIDE DEF SchedulerInit
    <2> QED BY <1>5, <1>6, <2>1, <2>2, <2>3, <2>4, <2>5 DEF SchedulerTypeOK
  <1>8. QueueAccounting /\ LoopHolds
    BY <1>1, <1>2 DEF QueueAccounting, LoopHolds
  <1>9. Closing /\ Queued = {}
    BY <1>1, <1>2 DEF Closing, Queued
  <1>10. Handlers
    BY <1>4 DEF Handlers
  <1>11. Sound(Loop, Queued, "QUEUED")
    <2> HIDE DEF SchedulerInit
    <2>1. PICK i : i = Items /\ i = [status |-> status, done |-> done, started |-> started] /\ i.status = status /\ i.done = done
      <3>1. Items.status = status /\ Items.done = done
        BY DEF Items
      <3>2. Items = [status |-> status, done |-> done, started |-> started]
        BY DEF Items
      <3> QED BY <3>1, <3>2, Zenon
    <2>2. PICK c : c = [it |-> i, batch |-> batch, deferred |-> deferred, taken |-> taken, unfinished |-> unfinished]
      OBVIOUS
    <2>3. c = Loop
      BY <2>1, <2>2 DEF Loop
    <2>4. c.it = i /\ c.batch = none /\ c.deferred = none
      BY <1>2, <2>2
    <2>5. LoopType(c)
      BY <1>7, <2>1, <2>2 DEF LoopType, SchedulerTypeOK
    <2>6. Apart(c, Queued)
      BY <1>1, <1>9, <2>4 DEF Apart
    <2>7. Told(c, Queued, "QUEUED")
      <3>1. done = {}
        BY DEF SchedulerInit
      <3> QED BY <1>1, <1>4, <1>9, <2>1, <2>4, <3>1 DEF Told, Terminal
    <2>8. Compatible(none)
      BY <1>1 DEF Compatible
    <2> QED BY <2>3, <2>4, <2>5, <2>6, <2>7, <2>8 DEF Sound
  <1> QED BY <1>1, <1>2, <1>7, <1>8, <1>9, <1>10, <1>11 DEF SchedulerIInv

LEMMA SchedulerStays ==
    ASSUME SchedulerIInv, UNCHANGED schedulerVars
    PROVE  SchedulerIInv' /\ Harmless
  <1>1. /\ UNCHANGED <<setup, queue, unfinished, accepting, expired, life, itemVars, loopVars, gateVars>>
        /\ UNCHANGED <<status, done, started, gate, record, store, tracked>>
    BY DEF schedulerVars, itemVars, gateVars
  <1>2. SchedulerTypeOK /\ Handlers
    BY DEF SchedulerIInv
  <1>3. Handlers'
    BY <1>1, <1>2 DEF Handlers
  <1>4. /\ expired' \in SUBSET Request /\ tracked' \in SUBSET Request
        /\ gate' \in [Request -> InGate \cup {"idle", "refused", "finished", "raised"}]
        /\ record' \in [Request -> StatusSet] /\ store' \in [Request -> StatusSet \cup {"absent"}]
    BY <1>1, <1>2 DEF SchedulerTypeOK
  <1>5. SchedulerIInv'
    BY <1>1, <1>3, <1>4, QueueStays, SoundStays, HandlerFrame
  <1>6. Harmless
    BY <1>1 DEF Harmless
  <1> QED BY <1>5, <1>6

\* Every step keeps the invariant and completes nothing that was cancelled.
LEMMA SchedulerKeeps ==
    ASSUME SchedulerIInv, [SchedulerNext]_schedulerVars
    PROVE  SchedulerIInv' /\ Harmless
  <1>1. CASE SchedulerStep
    BY <1>1, RejectDeferredStep, TakeDeferredStep, TakeQueuedStep, CollectNextStep, CollectSentinelStep DEF SchedulerStep
  <1>2. CASE CloseWindow \/ ModelReturns \/ ModelRaises
    BY <1>2, CloseWindowStep, ModelReturnsStep, ModelRaisesStep
  <1>3. ASSUME NEW r \in Request, Arrive(r) \/ Invalid(r) \/ HandlerStep(r) \/ Disconnect(r) \/ Delete(r) \/ Expire(r)
        PROVE  SchedulerIInv' /\ Harmless
    BY <1>3, ArriveStep, SubmitStep, RespondStep, DisconnectStep, DeleteStep, ExpireStep DEF HandlerStep
  <1>4. CASE Close \/ Stopped \/ GraceExpires
    BY <1>4, CloseStep, StoppedStep, GraceExpiresStep
  <1>5. CASE UNCHANGED schedulerVars
    BY <1>5, SchedulerStays
  <1> QED BY <1>1, <1>2, <1>3, <1>4, <1>5 DEF SchedulerNext

\* A sequence without repetition holds an element once or not at all.
LEMMA HeldOnce ==
    ASSUME NEW s, IsInjective(s), NEW x
    PROVE  Cardinality({i \in DOMAIN s : s[i] = x}) = IF x \in Range(s) THEN 1 ELSE 0
  <1>1. CASE x \in Range(s)
    <2>1. PICK k \in DOMAIN s : s[k] = x
      BY <1>1 DEF Range
    <2>2. {i \in DOMAIN s : s[i] = x} = {k}
      BY <2>1 DEF IsInjective
    <2> QED BY <1>1, <2>2, FS_Singleton
  <1>2. CASE x \notin Range(s)
    <2>1. {i \in DOMAIN s : s[i] = x} = {}
      BY <1>2 DEF Range
    <2> QED BY <1>2, <2>1, FS_EmptySet
  <1> QED BY <1>1, <1>2

\* The invariant says what the run checks.
LEMMA SchedulerMeans ==
    ASSUME SchedulerIInv
    PROVE  SchedulerInv
  <1>1. SchedulerTypeOK /\ QueueAccounting /\ LoopHolds /\ Closing /\ Handlers /\ IsInjective(queue)
    BY DEF SchedulerIInv
  <1>2. /\ batch \in Seq(Request) /\ deferred \in Seq(Request) /\ queue \in Seq(Request \cup {NoItem})
        /\ status \in [Request -> StatusSet]
    BY <1>1 DEF SchedulerTypeOK
  <1>3. PICK x : x = IF sched = "run" THEN "RUNNING" ELSE "QUEUED"
    OBVIOUS
  <1>4. Apart(Loop, Queued) /\ Told(Loop, Queued, x) /\ Compatible(batch)
    BY <1>3, LoopTyped DEF SchedulerIInv, Sound
  <1>5. /\ Range(batch) \cap Range(deferred) = {} /\ Queued \cap (Range(batch) \cup Range(deferred)) = {}
        /\ IsInjective(batch) /\ IsInjective(deferred)
        /\ \A r \in Request : status[r] \in {"QUEUED", "RUNNING"} => r \in Queued \cup Range(deferred) \cup Range(batch)
        /\ done = {r \in Request : status[r] \in Terminal}
    BY <1>4, LoopTyped DEF Apart, Told
  <1>6. HandleHasOneOwner
    <2> SUFFICES ASSUME NEW r \in Request, status[r] \in {"QUEUED", "RUNNING"}
                 PROVE  Cardinality({i \in DOMAIN queue : queue[i] = r})
                          + Cardinality({i \in DOMAIN deferred : deferred[i] = r})
                          + Cardinality({i \in DOMAIN batch : batch[i] = r}) = 1
      BY DEF HandleHasOneOwner
    <2>1. r \in Queued <=> r \in Range(queue)
      BY LocalSchedulerAssumption DEF Queued
    <2>2. /\ Cardinality({i \in DOMAIN queue : queue[i] = r}) = IF r \in Range(queue) THEN 1 ELSE 0
          /\ Cardinality({i \in DOMAIN deferred : deferred[i] = r}) = IF r \in Range(deferred) THEN 1 ELSE 0
          /\ Cardinality({i \in DOMAIN batch : batch[i] = r}) = IF r \in Range(batch) THEN 1 ELSE 0
      BY <1>1, <1>5, HeldOnce
    <2>3. \/ r \in Range(queue) /\ r \notin Range(deferred) /\ r \notin Range(batch)
          \/ r \notin Range(queue) /\ r \in Range(deferred) /\ r \notin Range(batch)
          \/ r \notin Range(queue) /\ r \notin Range(deferred) /\ r \in Range(batch)
      BY <1>5, <2>1
    <2> QED BY <2>2, <2>3
  <1>7. BatchIsCompatible
    <2> SUFFICES ASSUME sched = "run"
                 PROVE  /\ Cardinality({Kind[r] : r \in Range(batch)}) = 1
                        /\ Len(batch) = 1 \/ BatchCost(batch) <= max_total_batch_tokens
                        /\ Range(batch) \subseteq started
      BY DEF BatchIsCompatible
    <2>1. batch # <<>> /\ Range(batch) \subseteq started
      BY <1>1 DEF LoopHolds
    <2>2. PICK n \in Nat \ {0} : n = Len(batch) /\ DOMAIN batch = 1..n
      BY <1>2, <2>1
    <2>3. {Kind[r] : r \in Range(batch)} = {Kind[batch[1]]}
      <3>1. 1 \in DOMAIN batch
        BY <2>2
      <3> QED BY <1>4, <3>1 DEF Compatible, Range
    <2>4. Len(batch) = 1 \/ BatchCost(batch) <= max_total_batch_tokens
      BY <1>4, <2>2 DEF Compatible
    <2> QED BY <2>1, <2>3, <2>4, FS_Singleton
  <1>8. NoAbandonedHandle
    <2> SUFFICES ASSUME life = "stopped", NEW r \in Request, gate[r] = "waiting", r \notin done
                 PROVE  LeftDeferred(r)
      BY DEF NoAbandonedHandle
    <2>1. ~accepting /\ sched \in {"done", "cancelled"} /\ batch = <<>>
      BY <1>1 DEF Closing, LoopHolds
    <2>2. status[r] \in {"QUEUED", "RUNNING"}
      <3>1. status[r] # "RECEIVED" /\ status[r] \notin Terminal /\ status[r] \in StatusSet
        BY <1>1, <1>2, <1>5 DEF Handlers
      <3> QED BY <3>1 DEF StatusSet
    <2>3. Queued = {} /\ Range(batch) = {}
      <3>1. queue = <<>> \/ queue = <<NoItem>>
        BY <1>1, <2>1 DEF Closing
      <3> QED BY <2>1, <3>1 DEF Queued, Range
    <2>4. r \in Range(deferred)
      BY <1>5, <2>2, <2>3
    <2>5. sched # "done"
      <3>1. Range(<<>>) = {}
        BY DEF Range
      <3> QED BY <1>1, <2>4, <3>1 DEF Closing
    <2> QED BY <2>1, <2>4, <2>5 DEF LeftDeferred
  <1> QED BY <1>1, <1>6, <1>7, <1>8 DEF SchedulerInv

\* SchedulerIInv in every state.
LEMMA SchedulerAlways == SchedulerSpec => []SchedulerIInv
  <1>1. SchedulerInit => SchedulerIInv
    BY SchedulerStarts
  <1>2. SchedulerIInv /\ [SchedulerNext]_schedulerVars => SchedulerIInv'
    BY SchedulerKeeps
  <1> QED BY <1>1, <1>2, PTL DEF SchedulerSpec

\* Whatever requests, sizes and budgets: the queue's unfinished count is what it
\* holds plus what the iteration took, every open handle is in the queue, the deque
\* or the batch, once, a running batch may share its model call, and a shutdown
\* leaves no handle open but the deque of a scheduler cancelled inside the model call.
THEOREM SchedulerCorrect == SchedulerSpec => []SchedulerInv
  <1>1. SchedulerIInv => SchedulerInv
    BY SchedulerMeans
  <1> QED BY <1>1, SchedulerAlways, PTL

\* A result that the model call still delivers, a disconnect, DELETE and the handler's
\* own end never turn a cancelled request or a record saved as cancelled into a
\* completed one.
THEOREM CancelledStaysCancelled == SchedulerSpec => CancelledNeverCompletes
  <1>1. SchedulerIInv /\ [SchedulerNext]_schedulerVars => [\A r \in Request :
           /\ status[r] = "CANCELLED" => status'[r] # "COMPLETED"
           /\ store[r] = "CANCELLED" => store'[r] # "COMPLETED"]_schedulerVars
    BY SchedulerKeeps DEF Harmless
  <1> QED BY <1>1, SchedulerAlways, PTL DEF SchedulerSpec, CancelledNeverCompletes

-----------------------------------------------------------------------------
(* The token backend's invariant *)

\* The ranges of the fields of a record.
MaskBits == Seq({0, 1})
OptToken == Nat \cup {None}
OptLogits == Seq(Nat) \cup {None}

\* An entry of a cache.
Entry == [token : Nat, position : Nat]

\* The cache c under the mask m spells h: after some padding, which is masked, the
\* tokens of h stand at consecutive places and were computed for these positions.
SpellsFrom(k, c, m, h) ==
    /\ Len(c) = k + Len(h) /\ Len(m) = k + Len(h)
    /\ \A i \in 1..(k + Len(h)) : m[i] = IF i <= k THEN 0 ELSE 1
    /\ \A i \in 1..Len(h) : c[k + i].token = h[i] /\ c[k + i].position = k + i - 1

Spells(c, m, h) == \E k \in Nat : SpellsFrom(k, c, m, h)

\* What the cache of a sequence spells that was fed n tokens of its prompt p and has
\* accepted the tokens of a: the last accepted token is not in it yet.
Spelled(p, n, a) == IF a = <<>> THEN SubSeq(p, 1, n) ELSE p \o Front(a)

\* A sequence with prompt p, its record q and its cache c.
RowIs(p, q, c, n, a, b, len) ==
    /\ n \in 0..Len(p) /\ Spells(c, q.mask, Spelled(p, n, a)) /\ q.position = Len(c)
    /\ a # <<>> => n = Len(p) /\ q.last = Last(a) /\ len = Len(c) /\ b = p \o Front(a)
    /\ q.logits # None => q.logits = p /\ Len(a) = 1

\* A snapshot q and its cache c.
SnapshotIs(q, c) == Spells(c, q.mask, q.prompt) /\ q.logits = q.prompt /\ q.position = Len(c)

BackendTypes ==
    /\ caches \in [Address -> Seq(Entry)]
    /\ sequences \in [Sequence -> SequenceCache \cup {None}]
    /\ snapshots \in [Slot -> PrefixSnapshot \cup {None}]
    /\ fed \in [Sequence -> Nat] /\ accepted \in [Sequence -> Seq(Nat)]
    /\ basis \in [Sequence -> Seq(Nat)] /\ cached \in [Sequence -> Nat]
    /\ failed \in SUBSET Sequence /\ stopped \in BOOLEAN

\* No two records share a cache.
OwnCaches ==
    /\ \A s \in Sequence : sequences[s] # None => sequences[s].cache \in Address
    /\ \A k \in Slot : snapshots[k] # None => snapshots[k].cache \in Address
    /\ \A s, t \in Sequence : s # t /\ sequences[s] # None /\ sequences[t] # None => sequences[s].cache # sequences[t].cache
    /\ \A k, l \in Slot : k # l /\ snapshots[k] # None /\ snapshots[l] # None => snapshots[k].cache # snapshots[l].cache
    /\ \A s \in Sequence, k \in Slot : sequences[s] # None /\ snapshots[k] # None => sequences[s].cache # snapshots[k].cache

RowHolds(s) ==
    /\ Usable(s) => RowIs(Prompt[s], sequences[s], caches[sequences[s].cache], fed[s], accepted[s], basis[s], cached[s])
    /\ Fresh(s) => fed[s] = 0 /\ accepted[s] = <<>>

SnapshotHolds(k) == snapshots[k] # None => SnapshotIs(snapshots[k], caches[snapshots[k].cache])

RowsHold == \A s \in Sequence : RowHolds(s)
SnapshotsHold == \A k \in Slot : SnapshotHolds(k)

\* The inductive invariant.
BackendIInv == BackendTypes /\ OwnCaches /\ RowsHold /\ SnapshotsHold

-----------------------------------------------------------------------------
(* Caches and masks *)

\* A list of one element.
LEMMA SingleFacts ==
    ASSUME NEW T, NEW t \in T
    PROVE  <<t>> \in Seq(T) /\ <<t>> # <<>> /\ Len(<<t>>) = 1 /\ <<t>>[1] = t
  <1>1. PICK s : s = <<t>>
    OBVIOUS
  <1>2. s \in Seq(T) /\ Len(s) = 1 /\ s[1] = t
    BY <1>1
  <1> QED BY <1>1, <1>2, EmptySeq

\* Lists cut before their last element.
LEMMA FrontFacts ==
    ASSUME NEW T, NEW x \in Seq(T), NEW t \in T
    PROVE  /\ Front(Append(x, t)) = x /\ Last(Append(x, t)) = t
           /\ Append(x, t) # <<>> /\ Append(x, t) \in Seq(T) /\ Append(x, t) = x \o <<t>>
  <1>1. PICK y : y = Append(x, t)
    OBVIOUS
  <1>2. PICK n \in Nat : n = Len(x)
    BY LenProperties
  <1>3. y \in Seq(T) /\ y # <<>> /\ Len(y) = n + 1 /\ y[n + 1] = t /\ \A i \in 1..n : y[i] = x[i]
    BY <1>1, <1>2, AppendProperties
  <1>4. PICK z : z = SubSeq(y, 1, n)
    OBVIOUS
  <1>5. \A i \in 1..n : y[i] \in T
    BY <1>2, <1>3, ElementOfSeq
  <1>6. z \in Seq(T) /\ Len(z) = (IF 1 <= n THEN n - 1 + 1 ELSE 0) /\ \A i \in 1..(n - 1 + 1) : z[i] = y[1 + i - 1]
    BY <1>4, <1>5, SubSeqProperties, 1 \in Int, n \in Int
  <1>7. Len(z) = n /\ \A i \in 1..n : z[i] = y[i]
    BY <1>6
  <1>8. z = x
    BY <1>2, <1>3, <1>6, <1>7, SeqEqual
  <1>9. Front(y) = z
    <2>1. Len(y) - 1 = n
      BY <1>3
    <2> QED BY <1>4, <2>1 DEF Front
  <1>10. Last(y) = t
    BY <1>3 DEF Last
  <1> QED BY <1>1, <1>3, <1>8, <1>9, <1>10, AppendIsConcat

LEMMA LastFacts ==
    ASSUME NEW T, NEW x \in Seq(T), x # <<>>
    PROVE  Front(x) \in Seq(T) /\ Last(x) \in T /\ Front(x) \o <<Last(x)>> = x
  <1>1. PICK s \in Seq(T), t \in T : x = Append(s, t)
    BY SequenceEmptyOrAppend
  <1>2. Front(x) = s /\ Last(x) = t
    BY <1>1, FrontFacts
  <1>3. x = s \o <<t>>
    BY <1>1, AppendIsConcat
  <1> QED BY <1>2, <1>3

LEMMA SingleFront ==
    ASSUME NEW T, NEW t \in T
    PROVE  Front(<<t>>) = <<>> /\ Last(<<t>>) = t
  <1>1. <<>> \in Seq(T) /\ <<t>> \in Seq(T)
    BY EmptySeq, SingleFacts
  <1>2. Append(<<>>, t) = <<t>>
    BY <1>1, AppendIsConcat, ConcatEmptySeq
  <1>3. Front(Append(<<>>, t)) = <<>> /\ Last(Append(<<>>, t)) = t
    BY <1>1, FrontFacts
  <1> QED BY <1>2, <1>3, Zenon

\* The places from k + 1 to n, in order.
LEMMA KeepUpper ==
    ASSUME NEW n \in Nat, NEW k \in 0..n, NEW S, \A i \in 1..n : i \in S <=> i > k
    PROVE  /\ Keep([i \in 1..n |-> i], S) \in Seq(Nat) /\ Len(Keep([i \in 1..n |-> i], S)) = n - k
           /\ \A j \in 1..(n - k) : Keep([i \in 1..n |-> i], S)[j] = k + j
  <1>1. PICK s : s = [i \in 1..n |-> i]
    OBVIOUS
  <1>2. s \in Seq(Nat) /\ Len(s) = n /\ \A i \in 1..n : s[i] = i
    BY <1>1
  <1>3. PICK g : /\ g[0] = <<>> /\ Keep(s, S) = g[n]
                 /\ \A i \in 1..n : g[i] = IF s[i] \in S THEN Append(g[i - 1], s[i]) ELSE g[i - 1]
    BY <1>2, KeepUnfolds
  <1> DEFINE Low(i) == i <= k /\ g[i] = <<>>
             High(i) == i >= k /\ g[i] \in Seq(Nat) /\ Len(g[i]) = i - k /\ \A j \in 1..(i - k) : g[i][j] = k + j
             K == {i \in 0..n : Low(i) \/ High(i)}
  <1>4. 0 \in K
    BY <1>3
  <1>5. ASSUME NEW i \in 1..n, i - 1 \in K PROVE i \in K
    <2>1. i \in 0..n /\ (Low(i - 1) \/ High(i - 1))
      BY <1>5
    <2>2. CASE i <= k
      <3>1. s[i] \notin S
        BY <1>2, <2>2
      <3>2. g[i] = g[i - 1]
        BY <1>3, <3>1
      <3>3. ~(i - 1 >= k)
        BY <2>2
      <3>4. g[i - 1] = <<>>
        BY <2>1, <3>3
      <3> QED BY <2>1, <2>2, <3>2, <3>4
    <2>3. CASE ~(i <= k)
      <3>1. s[i] \in S /\ s[i] = i /\ i \in Nat
        BY <1>2, <2>3
      <3>2. g[i] = Append(g[i - 1], i)
        BY <1>3, <3>1
      <3>3. PICK f : f = g[i - 1]
        OBVIOUS
      <3>4. f \in Seq(Nat) /\ Len(f) = i - 1 - k /\ \A j \in 1..(i - 1 - k) : f[j] = k + j
        <4>1. CASE Low(i - 1)
          <5>1. i - 1 - k = 0
            BY <2>3, <4>1
          <5>2. f = <<>>
            BY <3>3, <4>1
          <5>3. f \in Seq(Nat) /\ Len(f) = 0
            BY <5>2, EmptySeq
          <5> QED BY <5>1, <5>3
        <4>2. CASE High(i - 1)
          BY <3>3, <4>2
        <4> QED BY <2>1, <4>1, <4>2
      <3>5. PICK h : h = Append(f, i)
        OBVIOUS
      <3>6. h \in Seq(Nat) /\ Len(h) = Len(f) + 1 /\ h[Len(f) + 1] = i /\ \A j \in 1..Len(f) : h[j] = f[j]
        BY <3>1, <3>4, <3>5, AppendProperties
      <3>7. Len(h) = i - k /\ h[i - k] = i /\ \A j \in 1..(i - 1 - k) : h[j] = k + j
        BY <3>4, <3>6
      <3>8. \A j \in 1..(i - k) : j \in 1..(i - 1 - k) \/ (j = i - k /\ k + j = i)
        OBVIOUS
      <3>9. \A j \in 1..(i - k) : h[j] = k + j
        BY <3>7, <3>8
      <3>10. High(i)
        BY <2>3, <3>2, <3>3, <3>5, <3>6, <3>7, <3>9
      <3> QED BY <2>1, <3>10
    <2> QED BY <2>2, <2>3
  <1>6. n \in K
    <2> HIDE DEF K
    <2> QED BY <1>4, <1>5, Climbs
  <1>7. PICK f : f = g[n]
    OBVIOUS
  <1>8. f \in Seq(Nat) /\ Len(f) = n - k /\ \A j \in 1..(n - k) : f[j] = k + j
    <2>1. CASE Low(n)
      <3>1. n - k = 0
        BY <2>1
      <3>2. f = <<>>
        BY <1>7, <2>1
      <3>3. f \in Seq(Nat) /\ Len(f) = 0
        BY <3>2, EmptySeq
      <3> QED BY <3>1, <3>3
    <2>2. CASE High(n)
      BY <1>7, <2>2
    <2> QED BY <1>6, <2>1, <2>2
  <1> QED BY <1>1, <1>3, <1>7, <1>8

LEMMA ConcatPlaces ==
    ASSUME NEW T, NEW x \in Seq(T), NEW y \in Seq(T)
    PROVE  /\ x \o y \in Seq(T) /\ Len(x \o y) = Len(x) + Len(y) /\ Len(x) \in Nat /\ Len(y) \in Nat
           /\ \A i \in 1..Len(x) : (x \o y)[i] = x[i]
           /\ \A i \in 1..Len(y) : (x \o y)[Len(x) + i] = y[i]
  <1>1. PICK k \in Nat, l \in Nat : k = Len(x) /\ l = Len(y)
    BY LenProperties
  <1>2. PICK z : z = x \o y
    OBVIOUS
  <1>3. z \in Seq(T) /\ Len(z) = k + l /\ \A i \in 1..(k + l) : z[i] = IF i <= k THEN x[i] ELSE y[i - k]
    BY <1>1, <1>2, ConcatProperties
  <1>4. \A i \in 1..k : i \in 1..(k + l) /\ i <= k
    OBVIOUS
  <1>5. \A i \in 1..l : k + i \in 1..(k + l) /\ ~(k + i <= k) /\ k + i - k = i
    OBVIOUS
  <1>6. \A i \in 1..k : z[i] = x[i]
    BY <1>3, <1>4
  <1>7. \A i \in 1..l : z[k + i] = y[i]
    BY <1>3, <1>5
  <1> QED BY <1>1, <1>2, <1>3, <1>6, <1>7

\* Inputs that join a cache stand after what it held.
LEMMA ExtendedFacts ==
    ASSUME NEW c \in Seq(Entry), NEW u \in Seq(Nat), NEW b \in Nat
    PROVE  /\ Extended(c, u, b) \in Seq(Entry) /\ Len(Extended(c, u, b)) = Len(c) + Len(u)
           /\ \A i \in 1..Len(c) : Extended(c, u, b)[i] = c[i]
           /\ \A i \in 1..Len(u) : Extended(c, u, b)[Len(c) + i].token = u[i] /\ Extended(c, u, b)[Len(c) + i].position = b + i - 1
  <1>1. PICK n \in Nat : n = Len(u)
    BY LenProperties
  <1>2. PICK v : v = [i \in 1..n |-> [token |-> u[i], position |-> b + i - 1]]
    OBVIOUS
  <1>3. \A i \in 1..n : u[i] \in Nat /\ b + i - 1 \in Nat
    BY <1>1, ElementOfSeq
  <1>4. \A i \in 1..n : v[i] = [token |-> u[i], position |-> b + i - 1]
    BY <1>2
  <1>5. \A i \in 1..n : v[i] \in Entry /\ v[i].token = u[i] /\ v[i].position = b + i - 1
    <2>1. SUFFICES ASSUME NEW i \in 1..n PROVE v[i] \in Entry /\ v[i].token = u[i] /\ v[i].position = b + i - 1
      OBVIOUS
    <2>2. PICK t \in Nat : t = u[i]
      BY <1>3
    <2>3. PICK q \in Nat : q = b + i - 1
      BY <1>3
    <2>4. v[i] = [token |-> t, position |-> q]
      BY <1>4, <2>2, <2>3
    <2>5. v[i] \in Entry /\ v[i].token = t /\ v[i].position = q
      BY <2>4 DEF Entry
    <2> QED BY <2>2, <2>3, <2>5
  <1>6. v \in Seq(Entry) /\ Len(v) = n
    <2> HIDE DEF Entry
    <2> QED BY <1>2, <1>5
  <1>7. Extended(c, u, b) = c \o v
    BY <1>1, <1>2 DEF Extended
  <1>8. PICK z : z = c \o v
    OBVIOUS
  <1>9. /\ z \in Seq(Entry) /\ Len(z) = Len(c) + n /\ \A i \in 1..Len(c) : z[i] = c[i]
        /\ \A i \in 1..n : z[Len(c) + i] = v[i]
    <2>1. /\ c \o v \in Seq(Entry) /\ Len(c \o v) = Len(c) + Len(v) /\ (\A i \in 1..Len(c) : (c \o v)[i] = c[i])
          /\ \A i \in 1..Len(v) : (c \o v)[Len(c) + i] = v[i]
      <3>1. v \in Seq(Entry)
        BY <1>6
      <3> QED BY <3>1, ConcatPlaces
    <2> QED BY <1>6, <1>8, <2>1
  <1> QED BY <1>1, <1>5, <1>7, <1>8, <1>9

LEMMA OnesFacts ==
    ASSUME NEW n \in Nat
    PROVE  /\ Ones(n) \in Seq({0, 1}) /\ Len(Ones(n)) = n /\ \A i \in 1..n : Ones(n)[i] = 1
           /\ Zeros(n) \in Seq({0, 1}) /\ Zeros(n) \in Seq(Nat) /\ Len(Zeros(n)) = n /\ \A i \in 1..n : Zeros(n)[i] = 0
  BY DEF Ones, Zeros

\* Attention reads off what a cache spells, at consecutive positions.
LEMMA SpellsMeans ==
    ASSUME NEW c \in Seq(Entry), NEW m \in Seq({0, 1}), NEW h \in Seq(Nat), Spells(c, m, h)
    PROVE  /\ Attended(c, m) = h /\ Len(m) = Len(c)
           /\ \A i \in 2..Len(Visible(c, m)) : Visible(c, m)[i].position = Visible(c, m)[i - 1].position + 1
  <1>1. PICK k \in Nat : SpellsFrom(k, c, m, h)
    BY DEF Spells
  <1>2. PICK l \in Nat : l = Len(h)
    BY LenProperties
  <1>3. PICK n \in Nat : n = k + l
    OBVIOUS
  <1>4. /\ Len(c) = n /\ Len(m) = n /\ \A i \in 1..n : m[i] = IF i <= k THEN 0 ELSE 1
        /\ \A i \in 1..l : c[k + i].token = h[i] /\ c[k + i].position = k + i - 1
    BY <1>1, <1>2, <1>3 DEF SpellsFrom
  <1>5. DOMAIN c = 1..n /\ DOMAIN m = 1..n
    BY <1>4, LenProperties
  <1>6. PICK S : S = {i \in 1..n : m[i] = 1}
    OBVIOUS
  <1>7. \A i \in 1..n : i \in S <=> i > k
    BY <1>4, <1>6
  <1>8. PICK seen : seen = Keep([i \in 1..n |-> i], S)
    OBVIOUS
  <1>9. seen \in Seq(Nat) /\ Len(seen) = l /\ \A j \in 1..l : seen[j] = k + j
    <2>1. k \in 0..n /\ n - k = l
      BY <1>3
    <2> QED BY <1>7, <1>8, <2>1, KeepUpper
  <1>10. DOMAIN seen = 1..l
    BY <1>9, LenProperties
  <1>11. PICK v : v = [j \in 1..l |-> c[seen[j]]]
    OBVIOUS
  <1>12. Visible(c, m) = v
    BY <1>5, <1>6, <1>8, <1>10, <1>11 DEF Visible
  <1>13. \A j \in 1..l : v[j] = c[k + j]
    BY <1>9, <1>11
  <1>14. \A j \in 1..l : v[j].token = h[j] /\ v[j].position = k + j - 1
    BY <1>4, <1>13
  <1>15. DOMAIN v = 1..l /\ Len(v) = l
    BY <1>11
  <1>16. Attended(c, m) = h
    <2>1. Attended(c, m) = [j \in 1..l |-> v[j].token]
      BY <1>12, <1>15 DEF Attended
    <2>2. h = [j \in 1..l |-> h[j]]
      BY <1>2, LenProperties
    <2>3. [j \in 1..l |-> v[j].token] = [j \in 1..l |-> h[j]]
      BY <1>14
    <2> QED BY <2>1, <2>2, <2>3
  <1>17. \A i \in 2..l : v[i].position = v[i - 1].position + 1
    <2>1. SUFFICES ASSUME NEW i \in 2..l PROVE v[i].position = v[i - 1].position + 1
      OBVIOUS
    <2>2. i \in 1..l /\ i - 1 \in 1..l
      OBVIOUS
    <2>3. v[i].position = k + i - 1 /\ v[i - 1].position = k + (i - 1) - 1
      BY <1>14, <2>2
    <2> QED BY <2>3
  <1> QED BY <1>4, <1>12, <1>15, <1>16, <1>17

\* What joins a cache at its end is spelled after what it spelled.
LEMMA SpellsMore ==
    ASSUME NEW c \in Seq(Entry), NEW m \in Seq({0, 1}), NEW h \in Seq(Nat), NEW u \in Seq(Nat), Spells(c, m, h)
    PROVE  /\ Extended(c, u, Len(c)) \in Seq(Entry) /\ Len(Extended(c, u, Len(c))) = Len(c) + Len(u)
           /\ m \o Ones(Len(u)) \in Seq({0, 1}) /\ h \o u \in Seq(Nat)
           /\ Spells(Extended(c, u, Len(c)), m \o Ones(Len(u)), h \o u)
  <1>1. PICK k \in Nat : SpellsFrom(k, c, m, h)
    BY DEF Spells
  <1>2. PICK l \in Nat, r \in Nat : l = Len(h) /\ r = Len(u)
    BY LenProperties
  <1>3. PICK n \in Nat : n = k + l
    OBVIOUS
  <1>4. /\ Len(c) = n /\ Len(m) = n /\ \A i \in 1..n : m[i] = IF i <= k THEN 0 ELSE 1
        /\ \A i \in 1..l : c[k + i].token = h[i] /\ c[k + i].position = k + i - 1
    BY <1>1, <1>2, <1>3 DEF SpellsFrom
  <1>5. PICK d : d = Extended(c, u, Len(c))
    OBVIOUS
  <1>6. /\ d \in Seq(Entry) /\ Len(d) = n + r /\ \A i \in 1..n : d[i] = c[i]
        /\ \A i \in 1..r : d[n + i].token = u[i] /\ d[n + i].position = n + i - 1
    <2>1. d = Extended(c, u, n)
      BY <1>4, <1>5
    <2>2. PICK e : e = Extended(c, u, n)
      OBVIOUS
    <2>3. /\ Extended(c, u, n) \in Seq(Entry) /\ Len(Extended(c, u, n)) = Len(c) + Len(u)
          /\ \A i \in 1..Len(c) : Extended(c, u, n)[i] = c[i]
          /\ \A i \in 1..Len(u) :
                Extended(c, u, n)[Len(c) + i].token = u[i] /\ Extended(c, u, n)[Len(c) + i].position = n + i - 1
      BY ExtendedFacts, Zenon
    <2>4. /\ e \in Seq(Entry) /\ Len(e) = Len(c) + Len(u) /\ (\A i \in 1..Len(c) : e[i] = c[i])
          /\ \A i \in 1..Len(u) : e[Len(c) + i].token = u[i] /\ e[Len(c) + i].position = n + i - 1
      BY <2>2, <2>3
    <2> QED BY <1>2, <1>4, <2>1, <2>2, <2>4
  <1>7. PICK o \in Seq({0, 1}) : o = Ones(r) /\ Len(o) = r /\ \A i \in 1..r : o[i] = 1
    BY OnesFacts
  <1>8. PICK b : b = m \o o
    OBVIOUS
  <1>9. b \in Seq({0, 1}) /\ Len(b) = n + r /\ (\A i \in 1..n : b[i] = m[i]) /\ \A i \in 1..r : b[n + i] = o[i]
    <2>1. /\ m \o o \in Seq({0, 1}) /\ Len(m \o o) = Len(m) + Len(o) /\ (\A i \in 1..Len(m) : (m \o o)[i] = m[i])
          /\ \A i \in 1..Len(o) : (m \o o)[Len(m) + i] = o[i]
      BY ConcatPlaces
    <2> QED BY <1>4, <1>7, <1>8, <2>1
  <1>10. PICK g : g = h \o u
    OBVIOUS
  <1>11. g \in Seq(Nat) /\ Len(g) = l + r /\ (\A i \in 1..l : g[i] = h[i]) /\ \A i \in 1..r : g[l + i] = u[i]
    BY <1>2, <1>10, ConcatPlaces
  <1>12. k + (l + r) = n + r
    BY <1>3
  <1>13. \A i \in 1..(n + r) : b[i] = IF i <= k THEN 0 ELSE 1
    <2>1. SUFFICES ASSUME NEW i \in 1..(n + r) PROVE b[i] = IF i <= k THEN 0 ELSE 1
      OBVIOUS
    <2>2. CASE i <= n
      <3>1. i \in 1..n
        BY <2>2
      <3> QED BY <1>4, <1>9, <3>1
    <2>3. CASE ~(i <= n)
      <3>1. PICK j \in 1..r : i = n + j
        <4>1. i - n \in 1..r /\ i = n + (i - n)
          BY <2>3
        <4> QED BY <4>1
      <3>2. b[i] = 1
        BY <1>7, <1>9, <3>1
      <3>3. ~(i <= k)
        BY <1>3, <2>3
      <3> QED BY ONLY <3>2, <3>3
    <2> QED BY <2>2, <2>3
  <1>14. \A i \in 1..(l + r) : d[k + i].token = g[i] /\ d[k + i].position = k + i - 1
    <2>1. SUFFICES ASSUME NEW i \in 1..(l + r) PROVE d[k + i].token = g[i] /\ d[k + i].position = k + i - 1
      OBVIOUS
    <2>2. CASE i <= l
      <3>1. i \in 1..l /\ k + i \in 1..n
        BY <1>3, <2>2
      <3>2. d[k + i] = c[k + i] /\ g[i] = h[i]
        BY <1>6, <1>11, <3>1
      <3> QED BY <1>4, <3>1, <3>2
    <2>3. CASE ~(i <= l)
      <3>1. PICK j \in 1..r : i = l + j
        <4>1. i - l \in 1..r /\ i = l + (i - l)
          BY <2>3
        <4> QED BY <4>1
      <3>2. k + i = n + j
        BY <1>3, <3>1
      <3>3. d[k + i].token = u[j] /\ d[k + i].position = n + j - 1 /\ g[i] = u[j]
        BY <1>6, <1>11, <3>1, <3>2
      <3>4. d[k + i].token = g[i]
        BY ONLY <3>3, Zenon
      <3>5. d[k + i].position = k + i - 1
        <4>1. n + j - 1 = k + i - 1
          BY <3>2
        <4>2. d[k + i].position = n + j - 1
          BY ONLY <3>3, Zenon
        <4> QED BY ONLY <4>1, <4>2, Zenon
      <3> QED BY ONLY <3>4, <3>5, Zenon
    <2> QED BY <2>2, <2>3
  <1>15. SpellsFrom(k, d, b, g)
    BY <1>6, <1>9, <1>11, <1>12, <1>13, <1>14 DEF SpellsFrom
  <1>16. Spells(d, b, g)
    BY <1>15 DEF Spells
  <1> QED BY <1>2, <1>4, <1>5, <1>6, <1>7, <1>8, <1>9, <1>10, <1>11, <1>16

\* A prompt that is padded on the left, with its mask.
LEMMA PaddedSpells ==
    ASSUME NEW p \in Seq(Nat), NEW w \in Nat, Len(p) <= w
    PROVE  /\ Extended(<<>>, Zeros(w - Len(p)) \o p, 0) \in Seq(Entry) /\ Len(Extended(<<>>, Zeros(w - Len(p)) \o p, 0)) = w
           /\ Zeros(w - Len(p)) \o Ones(Len(p)) \in Seq({0, 1})
           /\ Spells(Extended(<<>>, Zeros(w - Len(p)) \o p, 0), Zeros(w - Len(p)) \o Ones(Len(p)), p)
  <1>1. PICK l \in Nat : l = Len(p)
    BY LenProperties
  <1>2. PICK k \in Nat : k = w - l /\ k + l = w
    <2>1. w - l \in Nat /\ (w - l) + l = w
      BY <1>1
    <2> QED BY <2>1
  <1>3. PICK z : z = Zeros(k)
    OBVIOUS
  <1>4. z \in Seq(Nat) /\ z \in Seq({0, 1}) /\ Len(z) = k /\ \A i \in 1..k : z[i] = 0
    BY <1>3, OnesFacts
  <1>5. PICK o \in Seq({0, 1}) : o = Ones(l) /\ Len(o) = l /\ \A i \in 1..l : o[i] = 1
    BY OnesFacts
  <1>6. PICK u : u = z \o p
    OBVIOUS
  <1>7. u \in Seq(Nat) /\ Len(u) = w /\ \A i \in 1..l : u[k + i] = p[i]
    <2>1. /\ z \o p \in Seq(Nat) /\ Len(z \o p) = Len(z) + Len(p) /\ Len(z) \in Nat /\ Len(p) \in Nat
          /\ \A i \in 1..Len(z) : (z \o p)[i] = z[i]
          /\ \A i \in 1..Len(p) : (z \o p)[Len(z) + i] = p[i]
      <3>1. z \in Seq(Nat) /\ p \in Seq(Nat)
        BY <1>4
      <3> QED BY ONLY <3>1, ConcatPlaces
    <2>2. u \in Seq(Nat) /\ Len(u) = k + l /\ \A i \in 1..l : u[k + i] = p[i]
      BY ONLY <1>1, <1>4, <1>6, <2>1, Zenon
    <2> QED BY <1>2, <2>2
  <1>8. PICK b : b = z \o o
    OBVIOUS
  <1>9. b \in Seq({0, 1}) /\ Len(b) = w /\ (\A i \in 1..k : b[i] = z[i]) /\ \A i \in 1..l : b[k + i] = o[i]
    <2>1. /\ z \o o \in Seq({0, 1}) /\ Len(z \o o) = Len(z) + Len(o) /\ (\A i \in 1..Len(z) : (z \o o)[i] = z[i])
          /\ \A i \in 1..Len(o) : (z \o o)[Len(z) + i] = o[i]
      <3>1. z \in Seq({0, 1})
        BY <1>4
      <3> QED BY <3>1, ConcatPlaces
    <2> QED BY <1>2, <1>4, <1>5, <1>8, <2>1
  <1>10. PICK d : d = Extended(<<>>, u, 0)
    OBVIOUS
  <1>11. <<>> \in Seq(Entry) /\ Len(<<>>) = 0
    BY EmptySeq
  <1>12. /\ d \in Seq(Entry) /\ Len(d) = 0 + w
         /\ \A i \in 1..w : d[0 + i].token = u[i] /\ d[0 + i].position = 0 + i - 1
    <2>1. PICK e \in Seq(Entry) : e = <<>> /\ Len(e) = 0
      BY <1>11
    <2>2. d = Extended(e, u, 0) /\ 0 \in Nat
      BY <1>10, <2>1
    <2>3. /\ d \in Seq(Entry) /\ Len(d) = Len(e) + Len(u)
          /\ \A i \in 1..Len(u) : d[Len(e) + i].token = u[i] /\ d[Len(e) + i].position = 0 + i - 1
      BY <1>7, <2>2, ExtendedFacts, ZenonT(60)
    <2> QED BY <1>7, <2>1, <2>3
  <1>13. Len(d) = w /\ \A i \in 1..w : d[i].token = u[i] /\ d[i].position = i - 1
    BY <1>12
  <1>14. \A i \in 1..w : b[i] = IF i <= k THEN 0 ELSE 1
    <2>1. SUFFICES ASSUME NEW i \in 1..w PROVE b[i] = IF i <= k THEN 0 ELSE 1
      OBVIOUS
    <2>2. CASE i <= k
      <3>1. i \in 1..k
        BY <2>2
      <3> QED BY <1>4, <1>9, <2>2, <3>1
    <2>3. CASE ~(i <= k)
      <3>1. PICK j \in 1..l : i = k + j
        <4>1. i - k \in 1..l /\ i = k + (i - k)
          BY <1>2, <2>3
        <4> QED BY <4>1
      <3>2. b[i] = 1
        BY <1>5, <1>9, <3>1
      <3> QED BY <2>3, <3>2
    <2> QED BY <2>2, <2>3
  <1>15. \A i \in 1..l : d[k + i].token = p[i] /\ d[k + i].position = k + i - 1
    <2>1. \A i \in 1..l : k + i \in 1..w
      BY <1>2
    <2>2. \A i \in 1..l : d[k + i].token = u[k + i] /\ d[k + i].position = (k + i) - 1
      BY <1>13, <2>1
    <2>3. \A i \in 1..l : (k + i) - 1 = k + i - 1
      OBVIOUS
    <2>4. \A i \in 1..l : u[k + i] = p[i]
      BY <1>7
    <2> QED BY <2>2, <2>3, <2>4, Zenon
  <1>16. SpellsFrom(k, d, b, p)
    BY <1>1, <1>2, <1>9, <1>13, <1>14, <1>15 DEF SpellsFrom
  <1>17. Spells(d, b, p)
    BY <1>16 DEF Spells
  <1> QED BY <1>1, <1>2, <1>3, <1>5, <1>6, <1>8, <1>9, <1>10, <1>12, <1>13, <1>17

-----------------------------------------------------------------------------
(* Addresses *)

\* A smaller finite set can be put into a larger one.
LEMMA FitsInto ==
    ASSUME NEW D, NEW F, IsFiniteSet(D), IsFiniteSet(F), Cardinality(D) <= Cardinality(F)
    PROVE  \E f \in [D -> F] : IsInjective(f)
  <1>1. PICK m \in Nat, n \in Nat : m = Cardinality(D) /\ n = Cardinality(F) /\ m <= n
    BY FS_CardinalityType
  <1>2. ExistsBijection(1..m, D) /\ ExistsBijection(1..n, F)
    BY <1>1, FS_CardinalityType
  <1>3. PICK d : d \in Bijection(1..m, D)
    BY <1>2 DEF ExistsBijection
  <1>4. PICK e : e \in Bijection(1..n, F)
    BY <1>2 DEF ExistsBijection
  <1>5. d \in [1..m -> D] /\ \A x \in D : \E i \in 1..m : d[i] = x
    BY <1>3, Fun_BijectionProperties
  <1>6. e \in [1..n -> F] /\ \A i, j \in 1..n : e[i] = e[j] => i = j
    BY <1>4, Fun_BijectionProperties
  <1> DEFINE at(x) == CHOOSE i \in 1..m : d[i] = x
             f == [x \in D |-> e[at(x)]]
  <1>7. \A x \in D : at(x) \in 1..m /\ d[at(x)] = x
    BY <1>5
  <1>8. \A x \in D : at(x) \in 1..n
    BY <1>1, <1>7
  <1>9. f \in [D -> F]
    BY <1>6, <1>8
  <1>10. \A x, y \in D : f[x] = f[y] => x = y
    <2>1. SUFFICES ASSUME NEW x \in D, NEW y \in D, f[x] = f[y] PROVE x = y
      OBVIOUS
    <2>2. e[at(x)] = e[at(y)]
      BY <2>1
    <2> HIDE DEF at
    <2>3. at(x) = at(y)
      BY <1>6, <1>8, <2>2
    <2> QED BY <1>7, <2>3
  <1>11. IsInjective(f)
    <2> HIDE DEF at
    <2> QED BY <1>10 DEF IsInjective
  <1> QED BY <1>9, <1>11

\* The addresses in use are no more than the records that use them.
LEMMA UsedAddresses ==
    ASSUME BackendTypes, NEW A, A = {s \in Sequence : sequences[s] # None}, NEW B, B = {k \in Slot : snapshots[k] # None}
    PROVE  /\ Cardinality(A) \in Nat /\ Cardinality(B) \in Nat /\ IsFiniteSet(Free(sequences))
           /\ Cardinality(Free(sequences)) \in Nat
           /\ Cardinality(Free(sequences)) >= Cardinality(Sequence) - Cardinality(A) + Cardinality(Slot) - Cardinality(B)
  <1>1. IsFiniteSet(Sequence) /\ IsFiniteSet(Slot)
    BY BackendAssumption
  <1>2. IsFiniteSet(A) /\ IsFiniteSet(B)
    BY <1>1, FS_Subset
  <1>3. PICK X : X = {sequences[s].cache : s \in A}
    OBVIOUS
  <1>4. PICK Y : Y = {snapshots[k].cache : k \in B}
    OBVIOUS
  <1>5. IsFiniteSet(X) /\ Cardinality(X) <= Cardinality(A)
    <2>1. PICK f : f = [s \in A |-> sequences[s].cache]
      OBVIOUS
    <2>2. f \in [A -> X] /\ \A x \in X : \E s \in A : f[s] = x
      BY <1>3, <2>1
    <2>3. f \in Surjection(A, X)
      BY <2>2, Fun_IsSurj
    <2> QED BY <1>2, <2>3, FS_Surjection
  <1>6. IsFiniteSet(Y) /\ Cardinality(Y) <= Cardinality(B)
    <2>1. PICK f : f = [k \in B |-> snapshots[k].cache]
      OBVIOUS
    <2>2. f \in [B -> Y] /\ \A x \in Y : \E k \in B : f[k] = x
      BY <1>4, <2>1
    <2>3. f \in Surjection(B, Y)
      BY <2>2, Fun_IsSurj
    <2> QED BY <1>2, <2>3, FS_Surjection
  <1>7. PICK Z : Z = X \cup Y
    OBVIOUS
  <1>8. IsFiniteSet(Z) /\ Cardinality(Z) = Cardinality(X) + Cardinality(Y) - Cardinality(X \cap Y)
    BY <1>5, <1>6, <1>7, FS_Union
  <1>9. IsFiniteSet(X \cap Y)
    BY <1>5, FS_Intersection
  <1>10. PICK m \in Nat, n \in Nat : m = Cardinality(Sequence) /\ n = Cardinality(Slot)
    BY <1>1, FS_CardinalityType
  <1>11. IsFiniteSet(Address) /\ Cardinality(Address) = m + n
    <2>1. Address = 1..(m + n) /\ m + n \in Int /\ 1 \in Int
      BY <1>10 DEF Address
    <2>2. IsFiniteSet(1..(m + n)) /\ Cardinality(1..(m + n)) = IF 1 > m + n THEN 0 ELSE m + n - 1 + 1
      BY <2>1, FS_Interval
    <2>3. Cardinality(1..(m + n)) = m + n
      BY <2>2
    <2> QED BY <2>1, <2>2, <2>3
  <1>12. Free(sequences) = Address \ Z
    BY <1>3, <1>4, <1>7 DEF Free
  <1>13. /\ IsFiniteSet(Address \ Z) /\ Cardinality(Address \ Z) = Cardinality(Address) - Cardinality(Address \cap Z)
         /\ IsFiniteSet(Address \cap Z) /\ Cardinality(Address \cap Z) <= Cardinality(Z)
    BY <1>8, <1>11, FS_Difference, FS_Intersection
  <1>14. PICK a \in Nat, b \in Nat, x \in Nat, y \in Nat :
           a = Cardinality(A) /\ b = Cardinality(B) /\ x = Cardinality(X) /\ y = Cardinality(Y)
    BY <1>2, <1>5, <1>6, FS_CardinalityType
  <1>15. PICK i \in Nat, z \in Nat, j \in Nat, g \in Nat :
           i = Cardinality(X \cap Y) /\ z = Cardinality(Z) /\ j = Cardinality(Address \cap Z) /\ g = Cardinality(Address \ Z)
    BY <1>8, <1>9, <1>13, FS_CardinalityType
  <1>16. x <= a /\ y <= b /\ z = x + y - i /\ g = m + n - j /\ j <= z
    BY <1>5, <1>6, <1>8, <1>11, <1>13, <1>14, <1>15
  <1>17. g >= m - a + n - b
    BY <1>16
  <1> QED BY <1>10, <1>12, <1>13, <1>14, <1>15, <1>17

\* There is an address for every sequence that has none, and for a snapshot in a
\* slot that is empty.
LEMMA AddressesLeft ==
    ASSUME BackendTypes
    PROVE  /\ \A D \in SUBSET Sequence : (\A s \in D : sequences[s] = None) => \E f \in [D -> Free(sequences)] : IsInjective(f)
           /\ \A k \in Slot : snapshots[k] = None => Free(sequences) # {}
  <1>1. PICK A : A = {s \in Sequence : sequences[s] # None}
    OBVIOUS
  <1>2. PICK B : B = {k \in Slot : snapshots[k] # None}
    OBVIOUS
  <1>3. PICK F : F = Free(sequences)
    OBVIOUS
  <1>4. /\ Cardinality(A) \in Nat /\ Cardinality(B) \in Nat /\ IsFiniteSet(F) /\ Cardinality(F) \in Nat
        /\ Cardinality(F) >= Cardinality(Sequence) - Cardinality(A) + Cardinality(Slot) - Cardinality(B)
    BY <1>1, <1>2, <1>3, UsedAddresses
  <1>5. IsFiniteSet(Sequence) /\ IsFiniteSet(Slot) /\ A \in SUBSET Sequence /\ B \in SUBSET Slot
    BY <1>1, <1>2, BackendAssumption
  <1>6. PICK m \in Nat, n \in Nat : m = Cardinality(Sequence) /\ n = Cardinality(Slot)
    BY <1>5, FS_CardinalityType
  <1>7. Cardinality(A) <= m /\ Cardinality(B) <= n
    BY <1>5, <1>6, FS_Subset
  <1>8. ASSUME NEW D \in SUBSET Sequence, \A s \in D : sequences[s] = None
        PROVE  \E f \in [D -> F] : IsInjective(f)
    <2>1. D \in SUBSET (Sequence \ A)
      BY <1>1, <1>8
    <2>2. IsFiniteSet(Sequence \ A) /\ Cardinality(Sequence \ A) = m - Cardinality(Sequence \cap A)
      BY <1>5, <1>6, FS_Difference
    <2>3. Sequence \cap A = A
      BY <1>5
    <2>4. IsFiniteSet(D) /\ Cardinality(D) <= Cardinality(Sequence \ A)
      BY <2>1, <2>2, FS_Subset
    <2>5. Cardinality(D) \in Nat
      BY <2>4, FS_CardinalityType
    <2>6. Cardinality(D) <= m - Cardinality(A)
      BY <2>2, <2>3, <2>4
    <2>7. Cardinality(F) >= m - Cardinality(A) + n - Cardinality(B)
      BY <1>4, <1>6
    <2>8. Cardinality(D) <= Cardinality(F)
      BY <1>4, <1>7, <2>5, <2>6, <2>7
    <2> QED BY <1>4, <2>4, <2>8, FitsInto
  <1>9. ASSUME NEW k \in Slot, snapshots[k] = None PROVE F # {}
    <2>1. B # Slot
      BY <1>2, <1>9
    <2>2. Cardinality(B) # n
      BY <1>5, <1>6, <2>1, FS_Subset
    <2>3. Cardinality(F) >= m - Cardinality(A) + n - Cardinality(B)
      BY <1>4, <1>6
    <2>4. Cardinality(F) > 0
      <3>1. PICK a \in Nat, b \in Nat, g \in Nat : a = Cardinality(A) /\ b = Cardinality(B) /\ g = Cardinality(F)
        BY <1>4
      <3>2. a <= m /\ b <= n /\ b # n /\ g >= m - a + n - b
        BY <1>7, <2>2, <2>3, <3>1
      <3>3. g > 0
        BY ONLY <3>2, a \in Nat, b \in Nat, m \in Nat, n \in Nat, g \in Nat
      <3> QED BY <3>1, <3>3
    <2> QED BY <2>4, FS_EmptySet
  <1> QED BY <1>3, <1>8, <1>9

\* The address that a new cache is given is one nothing refers to.
LEMMA NextAddress ==
    ASSUME BackendTypes, \/ \E s \in Sequence : sequences[s] = None
                         \/ \E k \in Slot : snapshots[k] = None
    PROVE  Min(Free(sequences)) \in Free(sequences)
  <1>1. Free(sequences) # {}
    <2>1. CASE \E k \in Slot : snapshots[k] = None
      BY <2>1, AddressesLeft
    <2>2. CASE \E s \in Sequence : sequences[s] = None
      <3>1. PICK s \in Sequence : sequences[s] = None
        BY <2>2
      <3>2. {s} \in SUBSET Sequence /\ \A t \in {s} : sequences[t] = None
        BY <3>1
      <3>3. \E f \in [{s} -> Free(sequences)] : IsInjective(f)
        BY <3>2, AddressesLeft
      <3>4. PICK f : f \in [{s} -> Free(sequences)]
        BY <3>3
      <3>5. f[s] \in Free(sequences)
        BY <3>4
      <3> QED BY <3>5
    <2> QED BY <2>1, <2>2
  <1>2. Free(sequences) \subseteq Nat
    <2>1. Cardinality(Sequence) \in Nat /\ Cardinality(Slot) \in Nat
      BY BackendAssumption, FS_CardinalityType
    <2>2. Address \subseteq Nat
      BY <2>1 DEF Address
    <2> QED BY <2>2 DEF Free
  <1>3. \E i \in Free(sequences) : \A j \in Free(sequences) : i <= j
    BY <1>1, <1>2, LeastNatural
  <1> QED BY <1>3 DEF Min

\* The rows of a batch are as wide as its longest prompt.
LEMMA WidthFacts ==
    ASSUME NEW S \in SUBSET Sequence, S # {}
    PROVE  Width(S) \in Nat /\ \A s \in S : Len(Prompt[s]) <= Width(S)
  <1>1. PICK L : L = {Len(Prompt[s]) : s \in S}
    OBVIOUS
  <1>2. \A s \in S : Len(Prompt[s]) \in Nat
    BY BackendAssumption, LenProperties
  <1>3. L \subseteq Nat /\ L # {}
    BY <1>1, <1>2
  <1>4. IsFiniteSet(L)
    <2>1. IsFiniteSet(S)
      BY BackendAssumption, FS_Subset
    <2>2. PICK f : f = [s \in S |-> Len(Prompt[s])]
      OBVIOUS
    <2>3. f \in [S -> L] /\ \A x \in L : \E s \in S : f[s] = x
      BY <1>1, <2>2
    <2>4. f \in Surjection(S, L)
      BY <2>3, Fun_IsSurj
    <2> QED BY <2>1, <2>4, FS_Surjection
  <1>5. PICK score : score = [x \in L |-> 0 - x]
    OBVIOUS
  <1>6. \A x \in L : score[x] = 0 - x /\ score[x] \in Int /\ x \in Nat
    BY <1>3, <1>5
  <1>7. PICK w \in L : \A v \in L : score[w] < score[v] \/ (score[w] = score[v] /\ w <= v)
    BY <1>3, <1>4, <1>6, LeastScore
  <1>8. \A v \in L : w >= v
    BY <1>6, <1>7
  <1>9. Max(L) \in L /\ \A v \in L : Max(L) >= v
    BY <1>8 DEF Max
  <1>10. Width(S) = Max(L)
    BY <1>1 DEF Width
  <1>11. PICK x : x = Max(L)
    OBVIOUS
  <1>12. \A s \in S : x >= Len(Prompt[s])
    BY <1>1, <1>9, <1>11
  <1> QED BY <1>2, <1>3, <1>9, <1>10, <1>11, <1>12

-----------------------------------------------------------------------------
(* Rows *)

\* A row whose cache spells the prompt, and that has a first token.
LEMMA FirstTokenRow ==
    ASSUME NEW p \in Seq(Nat), NEW t \in Nat, NEW q, NEW d, Spells(d, q.mask, p), q.position = Len(d), q.last = t, q.logits = p
    PROVE  RowIs(p, q, d, Len(p), <<t>>, p, Len(d))
  <1>1. Len(p) \in Nat
    BY LenProperties
  <1>2. PICK a \in Seq(Nat) : a = <<t>> /\ a # <<>> /\ Len(a) = 1
    BY SingleFacts
  <1>3. Front(a) = <<>> /\ Last(a) = t
    BY <1>2, SingleFront
  <1>4. p \o Front(a) = p
    BY <1>3, ConcatEmptySeq
  <1>5. Spelled(p, Len(p), a) = p
    BY <1>2, <1>4 DEF Spelled
  <1>6. Len(p) \in 0..Len(p)
    BY <1>1
  <1>7. RowIs(p, q, d, Len(p), a, p, Len(d))
    BY <1>2, <1>3, <1>4, <1>5, <1>6 DEF RowIs
  <1> QED BY <1>2, <1>7

\* The next n tokens of a prompt join a cache that spells the first f.
LEMMA ChunkSpells ==
    ASSUME NEW p \in Seq(Nat), NEW f \in Nat, NEW n \in Nat, f + n <= Len(p), NEW c \in Seq(Entry), NEW m \in Seq({0, 1}),
           Spells(c, m, SubSeq(p, 1, f)), NEW u, u = SubSeq(p, f + 1, f + n)
    PROVE  /\ u \in Seq(Nat) /\ Extended(c, u, Len(c)) \in Seq(Entry) /\ m \o Ones(Len(u)) \in Seq({0, 1})
           /\ Len(Extended(c, u, Len(c))) \in Nat
           /\ Spells(Extended(c, u, Len(c)), m \o Ones(Len(u)), SubSeq(p, 1, f + n))
  <1>1. Len(p) \in Nat /\ \A i \in 1..Len(p) : p[i] \in Nat
    BY LenProperties, ElementOfSeq
  <1>2. (\A i \in 1..f : p[i] \in Nat) /\ \A i \in (f + 1)..(f + n) : p[i] \in Nat
    <2>1. (\A i \in 1..f : i \in 1..Len(p)) /\ \A i \in (f + 1)..(f + n) : i \in 1..Len(p)
      BY <1>1
    <2> QED BY <1>1, <2>1
  <1>3. PICK h : h = SubSeq(p, 1, f)
    OBVIOUS
  <1>4. h \in Seq(Nat)
    BY <1>2, <1>3, SubSeqProperties, 1 \in Int, f \in Int
  <1>5. u \in Seq(Nat)
    BY <1>2, SubSeqProperties, f + 1 \in Int, f + n \in Int
  <1>6. h \o u = SubSeq(p, 1, f + n)
    <2>1. 1 \in 1..(Len(p) + 1) /\ f \in (1 - 1)..Len(p) /\ f + n \in f..Len(p)
      BY <1>1
    <2>2. SubSeq(p, 1, f) \o SubSeq(p, f + 1, f + n) = SubSeq(p, 1, f + n)
      BY <2>1, ConcatAdjacentSubSeq
    <2> QED BY <1>3, <2>2
  <1>7. Spells(c, m, h)
    BY <1>3
  <1>8. /\ Extended(c, u, Len(c)) \in Seq(Entry) /\ m \o Ones(Len(u)) \in Seq({0, 1})
        /\ Spells(Extended(c, u, Len(c)), m \o Ones(Len(u)), h \o u)
    BY <1>4, <1>5, <1>7, SpellsMore
  <1>9. Len(Extended(c, u, Len(c))) \in Nat
    BY <1>8, LenProperties
  <1> QED BY <1>5, <1>6, <1>8, <1>9

LEMMA NothingSpelled ==
    ASSUME NEW p \in Seq(Nat)
    PROVE  <<>> \in Seq(Entry) /\ <<>> \in Seq({0, 1}) /\ Spells(<<>>, <<>>, SubSeq(p, 1, 0))
  <1>1. <<>> \in Seq(Entry) /\ <<>> \in Seq({0, 1}) /\ Len(<<>>) = 0
    BY EmptySeq
  <1>2. SubSeq(p, 1, 0) = <<>>
    BY SubSeqEmpty, 1 \in Int, 0 \in Int, 0 < 1
  <1>3. PICK e : e = <<>> /\ Len(e) = 0
    BY <1>1
  <1>4. SpellsFrom(0, e, e, e)
    BY <1>3 DEF SpellsFrom
  <1>5. Spells(e, e, e)
    BY <1>4 DEF Spells
  <1> QED BY <1>1, <1>2, <1>3, <1>5

\* A prompt is the prefix that a snapshot has, and the suffix.
LEMMA PrefixFacts ==
    ASSUME NEW x \in Seq(Nat), NEW p \in Seq(Nat), IsStrictPrefix(x, p)
    PROVE  Len(x) \in Nat /\ Len(p) \in Nat /\ Len(x) <= Len(p) /\ SubSeq(p, 1, Len(x)) = x
  <1>1. Len(x) <= Len(p) /\ SubSeq(x, 1, Len(x)) = SubSeq(p, 1, Len(x))
    BY DEF IsStrictPrefix, IsPrefix
  <1>2. SubSeq(x, 1, Len(x)) = x
    BY SubSeqFull
  <1> QED BY <1>1, <1>2, LenProperties

LEMMA JoinedInAnyOrder ==
    ASSUME NEW x \in Seq(Nat), NEW y \in Seq(Nat), NEW z \in Seq(Nat)
    PROVE  (x \o y) \o z = x \o (y \o z)
  BY ConcatAssociative

\* The last token joins a cache that spells all before it.
LEMMA DecodedSpells ==
    ASSUME NEW p \in Seq(Nat), NEW a \in Seq(Nat), a # <<>>, NEW c \in Seq(Entry), NEW m \in Seq({0, 1}),
           Spells(c, m, p \o Front(a))
    PROVE  /\ Extended(c, <<Last(a)>>, Len(c)) \in Seq(Entry) /\ Len(Extended(c, <<Last(a)>>, Len(c))) = Len(c) + 1
           /\ m \o <<1>> \in Seq({0, 1}) /\ p \o a \in Seq(Nat) /\ Len(c) \in Nat
           /\ Spells(Extended(c, <<Last(a)>>, Len(c)), m \o <<1>>, p \o a)
           /\ Attended(Extended(c, <<Last(a)>>, Len(c)), m \o <<1>>) = p \o a
  <1>1. PICK f \in Seq(Nat) : f = Front(a)
    BY LastFacts
  <1>2. PICK l \in Nat : l = Last(a) /\ f \o <<l>> = a
    BY <1>1, LastFacts
  <1>3. PICK u \in Seq(Nat) : u = <<l>> /\ Len(u) = 1
    BY SingleFacts
  <1>4. p \o f \in Seq(Nat) /\ (p \o f) \o u = p \o a
    <2>1. (p \o f) \o u = p \o (f \o u)
      <3>1. \A x, y, z \in Seq(Nat) : (x \o y) \o z = x \o (y \o z)
        BY JoinedInAnyOrder, Zenon
      <3> QED BY <3>1
    <2>2. f \o u = a
      BY <1>2, <1>3
    <2> QED BY <2>1, <2>2, ConcatProperties
  <1>5. PICK g \in Seq(Nat) : g = p \o f
    BY <1>4
  <1>6. Spells(c, m, g)
    BY <1>1, <1>5
  <1>7. /\ Extended(c, u, Len(c)) \in Seq(Entry) /\ Len(Extended(c, u, Len(c))) = Len(c) + Len(u)
        /\ m \o Ones(Len(u)) \in Seq({0, 1}) /\ g \o u \in Seq(Nat)
        /\ Spells(Extended(c, u, Len(c)), m \o Ones(Len(u)), g \o u)
    BY <1>6, SpellsMore
  <1>8. Ones(Len(u)) = <<1>>
    <2>1. Ones(1) \in Seq({0, 1}) /\ Len(Ones(1)) = 1 /\ \A i \in 1..1 : Ones(1)[i] = 1
      BY OnesFacts
    <2>2. PICK v \in Seq({0, 1}) : v = <<1>> /\ Len(v) = 1 /\ v[1] = 1
      BY SingleFacts
    <2>3. Ones(1) = v
      <3>1. \A i \in 1..1 : Ones(1)[i] = v[i]
        BY <2>1, <2>2
      <3> QED BY <2>1, <2>2, <3>1, SeqEqual
    <2> QED BY <1>3, <2>2, <2>3
  <1>9. PICK d : d = Extended(c, u, Len(c))
    OBVIOUS
  <1>10. PICK k : k = m \o Ones(Len(u))
    OBVIOUS
  <1>11. d = Extended(c, <<Last(a)>>, Len(c)) /\ k = m \o <<1>> /\ g \o u = p \o a
    <2>1. u = <<Last(a)>>
      BY <1>2, <1>3
    <2> QED BY <1>4, <1>5, <1>8, <1>9, <1>10, <2>1, Zenon
  <1>12. d \in Seq(Entry) /\ Len(d) = Len(c) + 1 /\ k \in Seq({0, 1}) /\ p \o a \in Seq(Nat) /\ Spells(d, k, p \o a)
    <2>1. g \o u = p \o a
      BY <1>11
    <2>2. d \in Seq(Entry) /\ Len(d) = Len(c) + Len(u) /\ k \in Seq({0, 1}) /\ g \o u \in Seq(Nat) /\ Spells(d, k, g \o u)
      BY <1>7, <1>9, <1>10, Zenon
    <2> QED BY ONLY <1>3, <2>1, <2>2, Zenon
  <1>13. Attended(d, k) = p \o a
    BY <1>12, SpellsMeans
  <1>14. Len(c) \in Nat
    BY LenProperties
  <1> QED BY ONLY <1>11, <1>12, <1>13, <1>14, Zenon

-----------------------------------------------------------------------------
(* What a step leaves alone *)

LEMMA RowKept ==
    ASSUME NEW s \in Sequence, RowHolds(s), sequences'[s] = sequences[s], fed'[s] = fed[s], accepted'[s] = accepted[s],
           basis'[s] = basis[s], cached'[s] = cached[s], s \in failed => s \in failed', stopped' = stopped,
           sequences[s] # None => caches'[sequences[s].cache] = caches[sequences[s].cache]
    PROVE  RowHolds(s)'
  <1>1. Usable(s)' => Usable(s)
    BY DEF Usable, Has
  <1>2. Fresh(s)' => Fresh(s)
    BY DEF Fresh, Has
  <1>3. Usable(s) => sequences[s] # None
    BY DEF Usable, Has
  <1>4. Fresh(s)' => fed'[s] = 0 /\ accepted'[s] = <<>>
    BY <1>2 DEF RowHolds
  <1>5. ASSUME Usable(s)'
        PROVE  RowIs(Prompt[s], sequences'[s], caches'[sequences'[s].cache], fed'[s], accepted'[s], basis'[s], cached'[s])
    <2>1. RowIs(Prompt[s], sequences[s], caches[sequences[s].cache], fed[s], accepted[s], basis[s], cached[s])
      BY <1>1, <1>5 DEF RowHolds
    <2>2. caches'[sequences'[s].cache] = caches[sequences[s].cache]
      BY <1>1, <1>3, <1>5
    <2> QED BY <2>1, <2>2, Zenon
  <1> QED BY <1>4, <1>5 DEF RowHolds

LEMMA SnapshotKept ==
    ASSUME NEW k \in Slot, SnapshotHolds(k), snapshots'[k] = snapshots[k],
           snapshots[k] # None => caches'[snapshots[k].cache] = caches[snapshots[k].cache]
    PROVE  SnapshotHolds(k)'
  <1>1. SUFFICES ASSUME snapshots'[k] # None PROVE SnapshotIs(snapshots'[k], caches'[snapshots'[k].cache])
    BY DEF SnapshotHolds
  <1>2. SnapshotIs(snapshots[k], caches[snapshots[k].cache]) /\ caches'[snapshots[k].cache] = caches[snapshots[k].cache]
    BY <1>1 DEF SnapshotHolds
  <1> QED BY <1>2, Zenon

\* A cache in use is not at a free address.
LEMMA FreeFacts ==
    ASSUME NEW x \in Free(sequences)
    PROVE  /\ x \in Address
           /\ \A s \in Sequence : sequences[s] # None => sequences[s].cache # x
           /\ \A k \in Slot : snapshots[k] # None => snapshots[k].cache # x
  BY DEF Free

\* Rows are given new contents, in their caches or in new ones.
LEMMA UpdateRows ==
    ASSUME BackendIInv, BackendTypes', NEW D \in SUBSET Sequence, snapshots' = snapshots, stopped' = stopped,
           \A t \in Sequence \ D : /\ sequences'[t] = sequences[t] /\ fed'[t] = fed[t] /\ accepted'[t] = accepted[t]
                                   /\ basis'[t] = basis[t] /\ cached'[t] = cached[t],
           \A t \in failed : t \in failed',
           \A s \in D : /\ sequences'[s] # None
                        /\ \/ sequences[s] # None /\ sequences'[s].cache = sequences[s].cache
                           \/ sequences'[s].cache \in Free(sequences),
           \A s, t \in D : s # t => sequences'[s].cache # sequences'[t].cache,
           \A x \in Address : (\A s \in D : sequences'[s].cache # x) => caches'[x] = caches[x],
           \A s \in D : s \notin failed' =>
               RowIs(Prompt[s], sequences'[s], caches'[sequences'[s].cache], fed'[s], accepted'[s], basis'[s], cached'[s])
    PROVE  BackendIInv'
  <1>1. OwnCaches /\ RowsHold /\ SnapshotsHold
    BY DEF BackendIInv
  <1>2. ASSUME NEW s \in D, NEW t \in Sequence \ D, sequences[t] # None PROVE sequences'[s].cache # sequences[t].cache
    <2>1. CASE sequences[s] # None /\ sequences'[s].cache = sequences[s].cache
      BY <1>1, <1>2, <2>1 DEF OwnCaches
    <2>2. CASE sequences'[s].cache \in Free(sequences)
      BY <1>2, <2>2, FreeFacts
    <2> QED BY <2>1, <2>2
  <1>3. ASSUME NEW s \in D, NEW k \in Slot, snapshots[k] # None PROVE sequences'[s].cache # snapshots[k].cache
    <2>1. CASE sequences[s] # None /\ sequences'[s].cache = sequences[s].cache
      BY <1>1, <1>3, <2>1 DEF OwnCaches
    <2>2. CASE sequences'[s].cache \in Free(sequences)
      BY <1>3, <2>2, FreeFacts
    <2> QED BY <2>1, <2>2
  <1>4. \A s \in D : sequences'[s].cache \in Address
    <2>1. SUFFICES ASSUME NEW s \in D PROVE sequences'[s].cache \in Address
      OBVIOUS
    <2>2. CASE sequences[s] # None /\ sequences'[s].cache = sequences[s].cache
      BY <1>1, <2>2 DEF OwnCaches
    <2>3. CASE sequences'[s].cache \in Free(sequences)
      BY <2>3, FreeFacts
    <2> QED BY <2>2, <2>3
  <1>5. OwnCaches'
    <2>1. \A s \in Sequence : sequences'[s] # None => sequences'[s].cache \in Address
      BY <1>1, <1>4 DEF OwnCaches
    <2>2. \A k \in Slot : snapshots'[k] # None => snapshots'[k].cache \in Address
      BY <1>1 DEF OwnCaches
    <2>3. ASSUME NEW s \in Sequence, NEW t \in Sequence, s # t, sequences'[s] # None, sequences'[t] # None
          PROVE  sequences'[s].cache # sequences'[t].cache
      <3>1. CASE s \in D /\ t \in D
        BY <2>3, <3>1
      <3>2. CASE s \in D /\ t \notin D
        BY <1>2, <2>3, <3>2
      <3>3. CASE s \notin D /\ t \in D
        BY <1>2, <2>3, <3>3
      <3>4. CASE s \notin D /\ t \notin D
        BY <1>1, <2>3, <3>4 DEF OwnCaches
      <3> QED BY <3>1, <3>2, <3>3, <3>4
    <2>4. \A k, l \in Slot : k # l /\ snapshots'[k] # None /\ snapshots'[l] # None => snapshots'[k].cache # snapshots'[l].cache
      BY <1>1 DEF OwnCaches
    <2>5. ASSUME NEW s \in Sequence, NEW k \in Slot, sequences'[s] # None, snapshots'[k] # None
          PROVE  sequences'[s].cache # snapshots'[k].cache
      <3>1. CASE s \in D
        BY <1>3, <2>5, <3>1
      <3>2. CASE s \notin D
        BY <1>1, <2>5, <3>2 DEF OwnCaches
      <3> QED BY <3>1, <3>2
    <2> QED BY <2>1, <2>2, <2>3, <2>4, <2>5 DEF OwnCaches
  <1>6. RowsHold'
    <2>1. SUFFICES ASSUME NEW s \in Sequence PROVE RowHolds(s)'
      BY DEF RowsHold
    <2>2. CASE s \in D
      <3>1. ~Fresh(s)'
        BY <2>2 DEF Fresh, Has
      <3>2. Usable(s)' => s \notin failed'
        BY DEF Usable
      <3>3. Usable(s)' => RowIs(Prompt[s], sequences'[s], caches'[sequences'[s].cache], fed'[s], accepted'[s], basis'[s], cached'[s])
        BY <2>2, <3>2
      <3> QED BY <3>1, <3>3 DEF RowHolds
    <2>3. CASE s \notin D
      <3>1. RowHolds(s) /\ s \in Sequence \ D
        BY <1>1, <2>3 DEF RowsHold
      <3>2. /\ sequences'[s] = sequences[s] /\ fed'[s] = fed[s] /\ accepted'[s] = accepted[s]
            /\ basis'[s] = basis[s] /\ cached'[s] = cached[s] /\ (s \in failed => s \in failed') /\ stopped' = stopped
        BY <3>1
      <3>3. sequences[s] # None => caches'[sequences[s].cache] = caches[sequences[s].cache]
        <4>1. HAVE sequences[s] # None
        <4>2. sequences[s].cache \in Address /\ \A r \in D : sequences'[r].cache # sequences[s].cache
          BY <1>1, <1>2, <3>1, <4>1 DEF OwnCaches
        <4> QED BY <4>2
      <3> QED BY <3>1, <3>2, <3>3, RowKept
    <2> QED BY <2>2, <2>3
  <1>7. SnapshotsHold'
    <2>1. SUFFICES ASSUME NEW k \in Slot PROVE SnapshotHolds(k)'
      BY DEF SnapshotsHold
    <2>2. SnapshotHolds(k) /\ snapshots'[k] = snapshots[k]
      BY <1>1 DEF SnapshotsHold
    <2>3. snapshots[k] # None => caches'[snapshots[k].cache] = caches[snapshots[k].cache]
      <3>1. HAVE snapshots[k] # None
      <3>2. snapshots[k].cache \in Address /\ \A r \in D : sequences'[r].cache # snapshots[k].cache
        BY <1>1, <1>3, <3>1 DEF OwnCaches
      <3> QED BY <3>2
    <2> QED BY <2>2, <2>3, SnapshotKept
  <1> QED BY <1>5, <1>6, <1>7 DEF BackendIInv

\* The record of a sequence.
LEMMA SequenceRecord ==
    ASSUME BackendTypes, NEW s \in Sequence, sequences[s] # None
    PROVE  /\ sequences[s] \in SequenceCache /\ sequences[s].cache \in Nat /\ sequences[s].mask \in Seq({0, 1})
           /\ sequences[s].position \in Nat /\ sequences[s].last \in Nat \cup {None} /\ sequences[s].logits \in Seq(Nat) \cup {None}
           /\ sequences[s] = [cache |-> sequences[s].cache, mask |-> sequences[s].mask, position |-> sequences[s].position,
                              last |-> sequences[s].last, logits |-> sequences[s].logits]
  <1>1. PICK q : q = sequences[s]
    OBVIOUS
  <1>2. q \in SequenceCache
    BY <1>1 DEF BackendTypes
  <1>3. /\ q.cache \in Nat /\ q.mask \in Seq({0, 1}) /\ q.position \in Nat /\ q.last \in Nat \cup {None} /\ q.logits \in Seq(Nat) \cup {None}
        /\ q = [cache |-> q.cache, mask |-> q.mask, position |-> q.position, last |-> q.last, logits |-> q.logits]
    BY <1>2 DEF SequenceCache
  <1> QED BY <1>1, <1>2, <1>3

LEMMA NewRecord ==
    \A x \in Nat, m \in MaskBits, n \in Nat, l \in OptToken, g \in OptLogits :
        \A q : q = [cache |-> x, mask |-> m, position |-> n, last |-> l, logits |-> g] =>
            q \in SequenceCache /\ q # None /\ q.cache = x /\ q.mask = m /\ q.position = n /\ q.last = l /\ q.logits = g
  <1>1. SUFFICES ASSUME NEW x \in Nat, NEW m \in MaskBits, NEW n \in Nat, NEW l \in OptToken, NEW g \in OptLogits,
                        NEW q, q = [cache |-> x, mask |-> m, position |-> n, last |-> l, logits |-> g]
                 PROVE  q \in SequenceCache /\ q # None /\ q.cache = x /\ q.mask = m /\ q.position = n /\ q.last = l /\ q.logits = g
    OBVIOUS
  <1>2. q \in SequenceCache /\ q.cache = x /\ q.mask = m /\ q.position = n /\ q.last = l /\ q.logits = g
    BY <1>1 DEF SequenceCache, MaskBits, OptToken, OptLogits
  <1> QED BY <1>2, BackendAssumption

LEMMA SnapshotRecord ==
    ASSUME BackendTypes, NEW k \in Slot, snapshots[k] # None
    PROVE  /\ snapshots[k] \in PrefixSnapshot /\ snapshots[k].cache \in Nat /\ snapshots[k].mask \in Seq({0, 1})
           /\ snapshots[k].position \in Nat /\ snapshots[k].logits \in Seq(Nat) /\ snapshots[k].prompt \in Seq(Nat)
  <1>1. PICK q : q = snapshots[k]
    OBVIOUS
  <1>2. q \in PrefixSnapshot
    BY <1>1 DEF BackendTypes
  <1>3. q.cache \in Nat /\ q.mask \in Seq({0, 1}) /\ q.position \in Nat /\ q.logits \in Seq(Nat) /\ q.prompt \in Seq(Nat)
    BY <1>2 DEF PrefixSnapshot
  <1> QED BY <1>1, <1>2, <1>3

LEMMA NewSnapshot ==
    \A x \in Nat, m \in MaskBits, n \in Nat, g \in Seq(Nat), p \in Seq(Nat) :
        \A q : q = [cache |-> x, mask |-> m, position |-> n, logits |-> g, prompt |-> p] =>
            q \in PrefixSnapshot /\ q # None /\ q.cache = x /\ q.mask = m /\ q.position = n /\ q.logits = g /\ q.prompt = p
  <1>1. SUFFICES ASSUME NEW x \in Nat, NEW m \in MaskBits, NEW n \in Nat, NEW g \in Seq(Nat), NEW p \in Seq(Nat),
                        NEW q, q = [cache |-> x, mask |-> m, position |-> n, logits |-> g, prompt |-> p]
                 PROVE  q \in PrefixSnapshot /\ q # None /\ q.cache = x /\ q.mask = m /\ q.position = n /\ q.logits = g /\ q.prompt = p
    OBVIOUS
  <1>2. q \in PrefixSnapshot /\ q.cache = x /\ q.mask = m /\ q.position = n /\ q.logits = g /\ q.prompt = p
    BY <1>1 DEF PrefixSnapshot, MaskBits
  <1> QED BY <1>2, BackendAssumption

LEMMA AddressesAreNumbers ==
    \A x \in Address : x \in Nat
  <1>1. Cardinality(Sequence) \in Nat /\ Cardinality(Slot) \in Nat
    BY BackendAssumption, FS_CardinalityType
  <1> QED BY <1>1 DEF Address

-----------------------------------------------------------------------------
(* Calls for one sequence *)

LEMMA UpdateOne ==
    ASSUME BackendIInv, NEW s \in Sequence, NEW x, NEW d \in Seq(Entry), NEW q \in SequenceCache, q # None, q.cache = x,
           \/ sequences[s] # None /\ x = sequences[s].cache
           \/ x \in Free(sequences),
           NEW f \in Nat, NEW a \in Seq(Nat), NEW b \in Seq(Nat), NEW n \in Nat,
           caches' = [caches EXCEPT ![x] = d], sequences' = [sequences EXCEPT ![s] = q],
           fed' = [fed EXCEPT ![s] = f], accepted' = [accepted EXCEPT ![s] = a],
           basis' = [basis EXCEPT ![s] = b], cached' = [cached EXCEPT ![s] = n],
           snapshots' = snapshots, stopped' = stopped, failed' = failed \/ failed' = failed \cup {s},
           s \notin failed' => RowIs(Prompt[s], q, d, f, a, b, n)
    PROVE  BackendIInv'
  <1>1. BackendTypes /\ OwnCaches
    BY DEF BackendIInv
  <1>2. x \in Address
    BY <1>1, FreeFacts DEF OwnCaches
  <1>3. caches' \in [Address -> Seq(Entry)] /\ caches'[x] = d /\ \A y \in Address : y # x => caches'[y] = caches[y]
    BY <1>1, <1>2 DEF BackendTypes
  <1>4. /\ sequences' \in [Sequence -> SequenceCache \cup {None}] /\ sequences'[s] = q
        /\ \A t \in Sequence \ {s} : sequences'[t] = sequences[t]
    BY <1>1 DEF BackendTypes
  <1>5. fed' \in [Sequence -> Nat] /\ fed'[s] = f /\ \A t \in Sequence \ {s} : fed'[t] = fed[t]
    BY <1>1 DEF BackendTypes
  <1>6. accepted' \in [Sequence -> Seq(Nat)] /\ accepted'[s] = a /\ \A t \in Sequence \ {s} : accepted'[t] = accepted[t]
    BY <1>1 DEF BackendTypes
  <1>7. basis' \in [Sequence -> Seq(Nat)] /\ basis'[s] = b /\ \A t \in Sequence \ {s} : basis'[t] = basis[t]
    BY <1>1 DEF BackendTypes
  <1>8. cached' \in [Sequence -> Nat] /\ cached'[s] = n /\ \A t \in Sequence \ {s} : cached'[t] = cached[t]
    BY <1>1 DEF BackendTypes
  <1>9. failed' \in SUBSET Sequence /\ \A t \in failed : t \in failed'
    BY <1>1 DEF BackendTypes
  <1>10. BackendTypes'
    BY <1>1, <1>3, <1>4, <1>5, <1>6, <1>7, <1>8, <1>9 DEF BackendTypes
  <1>11. PICK D \in SUBSET Sequence : D = {s}
    OBVIOUS
  <1>12. \A t \in Sequence \ D : /\ sequences'[t] = sequences[t] /\ fed'[t] = fed[t] /\ accepted'[t] = accepted[t]
                                 /\ basis'[t] = basis[t] /\ cached'[t] = cached[t]
    BY <1>4, <1>5, <1>6, <1>7, <1>8, <1>11
  <1>13. \A r \in D : /\ sequences'[r] # None
                      /\ \/ sequences[r] # None /\ sequences'[r].cache = sequences[r].cache
                         \/ sequences'[r].cache \in Free(sequences)
    BY <1>4, <1>11
  <1>14. \A r, t \in D : r # t => sequences'[r].cache # sequences'[t].cache
    BY <1>11
  <1>15. \A y \in Address : (\A r \in D : sequences'[r].cache # y) => caches'[y] = caches[y]
    BY <1>3, <1>4, <1>11
  <1>16. s \notin failed' =>
           RowIs(Prompt[s], sequences'[s], caches'[sequences'[s].cache], fed'[s], accepted'[s], basis'[s], cached'[s])
    BY <1>3, <1>4, <1>5, <1>6, <1>7, <1>8, Zenon
  <1>17. \A r \in D : r \notin failed' =>
           RowIs(Prompt[r], sequences'[r], caches'[sequences'[r].cache], fed'[r], accepted'[r], basis'[r], cached'[r])
    BY <1>11, <1>16
  <1> QED BY <1>9, <1>10, <1>12, <1>13, <1>14, <1>15, <1>17, UpdateRows

LEMMA SameIsExcept ==
    ASSUME NEW T, NEW f \in [Sequence -> T], NEW s \in Sequence
    PROVE  f = [f EXCEPT ![s] = f[s]]
  OBVIOUS

LEMMA ChunkStep ==
    ASSUME BackendIInv, NEW s \in Sequence, NEW b, NEW x, NEW m \in Seq({0, 1}), NEW c \in Seq(Entry), b.cache = x, b.mask = m,
           NEW f \in Nat, NEW n \in Nat, f + n <= Len(Prompt[s]), NEW u, u = SubSeq(Prompt[s], f + 1, f + n),
           Spells(c, m, SubSeq(Prompt[s], 1, f)),
           \/ sequences[s] # None /\ x = sequences[s].cache
           \/ x \in Free(sequences),
           NEW t, (t \in Nat /\ f + n = Len(Prompt[s])) \/ (t = None /\ accepted[s] = <<>>),
           Chunk(s, b, c, u, t), fed' = [fed EXCEPT ![s] = f + n], UNCHANGED <<snapshots, failed, stopped>>
    PROVE  BackendIInv'
  <1>1. BackendTypes /\ OwnCaches
    BY DEF BackendIInv
  <1>2. x \in Nat
    <2>1. x \in Address
      BY <1>1, FreeFacts DEF OwnCaches
    <2> QED BY <2>1, AddressesAreNumbers
  <1>3. PICK p \in Seq(Nat) : p = Prompt[s]
    BY BackendAssumption
  <1>4. PICK d : d = Extended(c, u, Len(c))
    OBVIOUS
  <1>5. PICK k : k = m \o Ones(Len(u))
    OBVIOUS
  <1>6. d \in Seq(Entry) /\ k \in Seq({0, 1}) /\ Len(d) \in Nat /\ Spells(d, k, SubSeq(p, 1, f + n))
    BY <1>3, <1>4, <1>5, ChunkSpells
  <1>7. PICK g : g = IF t = None THEN None ELSE Attended(d, k)
    OBVIOUS
  <1>8. PICK q : q = [cache |-> x, mask |-> k, position |-> Len(d), last |-> t, logits |-> g]
    OBVIOUS
  <1>9. caches' = [caches EXCEPT ![x] = d] /\ sequences' = [sequences EXCEPT ![s] = q]
    BY <1>4, <1>5, <1>7, <1>8 DEF Chunk
  <1>10. None \notin Nat
    BY BackendAssumption
  <1>11. CASE t = None
    <2>1. accepted' = accepted /\ basis' = basis /\ cached' = cached
      BY <1>11 DEF Chunk
    <2>2. /\ accepted' = [accepted EXCEPT ![s] = accepted[s]] /\ basis' = [basis EXCEPT ![s] = basis[s]]
          /\ cached' = [cached EXCEPT ![s] = cached[s]]
      BY <1>1, <2>1, SameIsExcept DEF BackendTypes
    <2>3. accepted[s] = <<>> /\ accepted[s] \in Seq(Nat) /\ basis[s] \in Seq(Nat) /\ cached[s] \in Nat
      BY <1>1, <1>10, <1>11 DEF BackendTypes
    <2>4. g = None
      BY <1>7, <1>11
    <2>5. q \in SequenceCache /\ q # None /\ q.cache = x /\ q.mask = k /\ q.position = Len(d) /\ q.logits = None
      <3>1. t \in OptToken /\ g \in OptLogits
        BY <1>11, <2>4 DEF OptToken, OptLogits
      <3>2. q \in SequenceCache /\ q # None /\ q.cache = x /\ q.mask = k /\ q.position = Len(d) /\ q.logits = g
        <4>1. k \in MaskBits /\ Len(d) \in Nat
          BY <1>6 DEF MaskBits
        <4> QED BY ONLY <1>2, <1>8, <3>1, <4>1, NewRecord
      <3> QED BY <2>4, <3>2
    <2>6. Spelled(p, f + n, accepted[s]) = SubSeq(p, 1, f + n)
      BY <2>3 DEF Spelled
    <2>7. f + n \in 0..Len(p)
      BY <1>3, LenProperties
    <2>8. RowIs(Prompt[s], q, d, f + n, accepted[s], basis[s], cached[s])
      BY <1>3, <1>6, <2>3, <2>5, <2>6, <2>7 DEF RowIs
    <2>9. f + n \in Nat /\ snapshots' = snapshots /\ stopped' = stopped /\ failed' = failed
      OBVIOUS
    <2> QED BY <1>6, <1>9, <2>2, <2>3, <2>5, <2>8, <2>9, UpdateOne
  <1>12. CASE t # None
    <2>1. t \in Nat /\ f + n = Len(p)
      BY <1>3, <1>12
    <2>2. SubSeq(p, 1, f + n) = p
      BY <2>1, SubSeqFull
    <2>3. Spells(d, k, p)
      BY <1>6, <2>2
    <2>4. Attended(d, k) = p
      BY <1>6, <2>3, SpellsMeans
    <2>5. g = p
      BY <1>7, <1>12, <2>4
    <2>6. q \in SequenceCache /\ q # None /\ q.cache = x /\ q.mask = k /\ q.position = Len(d) /\ q.last = t /\ q.logits = p
      <3>1. t \in OptToken /\ g \in OptLogits
        BY <2>1, <2>5 DEF OptToken, OptLogits
      <3>2. q \in SequenceCache /\ q # None /\ q.cache = x /\ q.mask = k /\ q.position = Len(d) /\ q.last = t /\ q.logits = g
        <4>1. k \in MaskBits /\ Len(d) \in Nat
          BY <1>6 DEF MaskBits
        <4> QED BY ONLY <1>2, <1>8, <3>1, <4>1, NewRecord
      <3> QED BY <2>5, <3>2
    <2>7. /\ accepted' = [accepted EXCEPT ![s] = <<t>>] /\ basis' = [basis EXCEPT ![s] = p]
          /\ cached' = [cached EXCEPT ![s] = Len(d)]
      BY <1>4, <1>5, <1>12, <2>4 DEF Chunk
    <2>8. <<t>> \in Seq(Nat)
      BY <2>1, SingleFacts
    <2>9. RowIs(Prompt[s], q, d, f + n, <<t>>, p, Len(d))
      BY <1>3, <2>1, <2>3, <2>6, FirstTokenRow
    <2>10. f + n \in Nat /\ snapshots' = snapshots /\ stopped' = stopped /\ failed' = failed
      OBVIOUS
    <2> QED BY <1>6, <1>9, <2>6, <2>7, <2>8, <2>9, <2>10, UpdateOne
  <1> QED BY <1>11, <1>12

\* The row of a sequence that is in use, and the cache it refers to.
LEMMA UsableRow ==
    ASSUME BackendIInv, NEW s \in Sequence, Usable(s)
    PROVE  /\ sequences[s] # None /\ sequences[s].cache \in Address /\ caches[sequences[s].cache] \in Seq(Entry)
           /\ RowIs(Prompt[s], sequences[s], caches[sequences[s].cache], fed[s], accepted[s], basis[s], cached[s])
  <1>1. sequences[s] # None
    BY DEF Usable, Has
  <1>2. sequences[s].cache \in Address
    BY <1>1 DEF BackendIInv, OwnCaches
  <1>3. caches[sequences[s].cache] \in Seq(Entry)
    BY <1>2 DEF BackendIInv, BackendTypes
  <1>4. RowHolds(s)
    BY DEF BackendIInv, RowsHold
  <1> QED BY <1>1, <1>2, <1>3, <1>4 DEF RowHolds

LEMMA PrefillChunkStep ==
    ASSUME BackendIInv, NEW s \in Sequence, NEW n \in 1..Len(Prompt[s]), PrefillChunk(s, n)
    PROVE  BackendIInv'
  <1>1. PICK t \in IF fed[s] + n = Len(Prompt[s]) THEN Vocabulary ELSE {None} :
           Chunk(s, Begun(s), Entries(s), SubSeq(Prompt[s], fed[s] + 1, fed[s] + n), t)
    BY DEF PrefillChunk
  <1>2. /\ Fresh(s) \/ (Usable(s) /\ accepted[s] = <<>>)
        /\ fed[s] + n <= Len(Prompt[s]) /\ fed' = [fed EXCEPT ![s] = @ + n] /\ UNCHANGED <<snapshots, failed, stopped>>
    BY DEF PrefillChunk
  <1>3. BackendTypes
    BY DEF BackendIInv
  <1>4. Prompt[s] \in Seq(Nat) /\ Len(Prompt[s]) \in Nat /\ Vocabulary \subseteq Nat
    BY BackendAssumption, LenProperties
  <1>5. PICK f \in Nat : f = fed[s]
    BY <1>3 DEF BackendTypes
  <1>6. n \in Nat /\ fed' = [fed EXCEPT ![s] = f + n] /\ f + n <= Len(Prompt[s])
    BY <1>2, <1>3, <1>4, <1>5 DEF BackendTypes
  <1>7. PICK u : u = SubSeq(Prompt[s], f + 1, f + n)
    OBVIOUS
  <1>8. Chunk(s, Begun(s), Entries(s), u, t)
    BY <1>1, <1>5, <1>7
  <1>9. accepted[s] = <<>>
    BY <1>2 DEF BackendIInv, RowsHold, RowHolds
  <1>10. (t \in Nat /\ f + n = Len(Prompt[s])) \/ (t = None /\ accepted[s] = <<>>)
    BY <1>1, <1>4, <1>5, <1>9
  <1>11. CASE Usable(s)
    <2>1. /\ sequences[s] # None /\ caches[sequences[s].cache] \in Seq(Entry)
          /\ RowIs(Prompt[s], sequences[s], caches[sequences[s].cache], fed[s], accepted[s], basis[s], cached[s])
      BY <1>11, UsableRow
    <2>2. sequences[s].mask \in Seq({0, 1})
      BY <1>3, <2>1, SequenceRecord
    <2>3. Spells(caches[sequences[s].cache], sequences[s].mask, SubSeq(Prompt[s], 1, f))
      BY <1>5, <1>9, <2>1 DEF RowIs, Spelled
    <2>4. PICK b : b = Begun(s)
      OBVIOUS
    <2>5. b.cache = sequences[s].cache /\ b.mask = sequences[s].mask
      BY <2>1, <2>4 DEF Begun, Has
    <2>6. PICK c : c = Entries(s)
      OBVIOUS
    <2>7. c = caches[sequences[s].cache]
      BY <2>1, <2>6 DEF Entries, Has
    <2>8. PICK m \in Seq({0, 1}) : m = sequences[s].mask
      BY <2>2
    <2>9. PICK x : x = sequences[s].cache
      OBVIOUS
    <2>10. c \in Seq(Entry) /\ b.cache = x /\ b.mask = m /\ Spells(c, m, SubSeq(Prompt[s], 1, f)) /\ Chunk(s, b, c, u, t)
      BY <1>8, <2>1, <2>3, <2>4, <2>5, <2>6, <2>7, <2>8, <2>9
    <2>11. \/ sequences[s] # None /\ x = sequences[s].cache
           \/ x \in Free(sequences)
      BY <2>1, <2>9
    <2>12. UNCHANGED <<snapshots, failed, stopped>>
      BY <1>2
    <2> QED BY <1>6, <1>7, <1>10, <2>10, <2>11, <2>12, ChunkStep
  <1>12. CASE Fresh(s)
    <2>1. sequences[s] = None
      BY <1>12 DEF Fresh, Has
    <2>2. f = 0
      BY <1>5, <1>12 DEF BackendIInv, RowsHold, RowHolds
    <2>3. PICK x \in Free(sequences) : x = Min(Free(sequences))
      BY <1>3, <2>1, NextAddress
    <2>4. PICK b : b = Begun(s)
      OBVIOUS
    <2>5. b.cache = x /\ b.mask = <<>>
      BY <2>1, <2>3, <2>4 DEF Begun, Has
    <2>6. PICK c : c = Entries(s)
      OBVIOUS
    <2>7. c = <<>>
      BY <2>1, <2>6 DEF Entries, Has
    <2>8. PICK m : m = <<>>
      OBVIOUS
    <2>9. m \in Seq({0, 1}) /\ c \in Seq(Entry) /\ Spells(c, m, SubSeq(Prompt[s], 1, f))
      BY <1>4, <2>2, <2>7, <2>8, NothingSpelled
    <2>10. b.cache = x /\ b.mask = m /\ Chunk(s, b, c, u, t)
      BY <1>8, <2>4, <2>5, <2>6, <2>8
    <2>11. \/ sequences[s] # None /\ x = sequences[s].cache
           \/ x \in Free(sequences)
      OBVIOUS
    <2>12. UNCHANGED <<snapshots, failed, stopped>>
      BY <1>2
    <2> QED BY <1>6, <1>7, <1>10, <2>9, <2>10, <2>11, <2>12, ChunkStep
  <1> QED BY <1>2, <1>11, <1>12

\* Only the cache and the record of a sequence that failed change.
LEMMA FailedOne ==
    ASSUME BackendIInv, NEW s \in Sequence, NEW x, NEW d \in Seq(Entry), NEW q \in SequenceCache, q.cache = x,
           \/ sequences[s] # None /\ x = sequences[s].cache
           \/ x \in Free(sequences),
           caches' = [caches EXCEPT ![x] = d], sequences' = [sequences EXCEPT ![s] = q], failed' = failed \cup {s},
           UNCHANGED <<snapshots, fed, accepted, basis, cached, stopped>>
    PROVE  BackendIInv'
  <1>1. BackendTypes
    BY DEF BackendIInv
  <1>2. fed[s] \in Nat /\ accepted[s] \in Seq(Nat) /\ basis[s] \in Seq(Nat) /\ cached[s] \in Nat
    BY <1>1 DEF BackendTypes
  <1>3. /\ fed' = [fed EXCEPT ![s] = fed[s]] /\ accepted' = [accepted EXCEPT ![s] = accepted[s]]
        /\ basis' = [basis EXCEPT ![s] = basis[s]] /\ cached' = [cached EXCEPT ![s] = cached[s]]
    BY <1>1, SameIsExcept DEF BackendTypes
  <1>4. q # None
    BY BackendAssumption
  <1>5. snapshots' = snapshots /\ stopped' = stopped
    OBVIOUS
  <1>6. failed' = failed \/ failed' = failed \cup {s}
    OBVIOUS
  <1>7. s \notin failed' => RowIs(Prompt[s], q, d, fed[s], accepted[s], basis[s], cached[s])
    OBVIOUS
  <1>8. \/ sequences[s] # None /\ x = sequences[s].cache
        \/ x \in Free(sequences)
    OBVIOUS
  <1>9. caches' = [caches EXCEPT ![x] = d] /\ sequences' = [sequences EXCEPT ![s] = q] /\ q.cache = x
    OBVIOUS
  <1> QED BY ONLY BackendIInv, s \in Sequence, d \in Seq(Entry), q \in SequenceCache,
                  <1>2, <1>3, <1>4, <1>5, <1>6, <1>7, <1>8, <1>9, UpdateOne

LEMMA ChunkRaisesStep ==
    ASSUME BackendIInv, NEW s \in Sequence, NEW n \in 1..Len(Prompt[s]), ChunkRaises(s, n)
    PROVE  BackendIInv'
  <1>1. /\ Usable(s) /\ fed[s] + n <= Len(Prompt[s]) /\ failed' = failed \cup {s}
        /\ UNCHANGED <<sequences, snapshots, fed, accepted, basis, cached, stopped>>
        /\ \/ UNCHANGED caches
           \/ caches' = [caches EXCEPT ![sequences[s].cache] =
                            Extended(@, SubSeq(Prompt[s], fed[s] + 1, fed[s] + n), Len(@))]
    BY DEF ChunkRaises
  <1>2. BackendTypes
    BY DEF BackendIInv
  <1>3. sequences[s] # None /\ sequences[s].cache \in Address /\ caches[sequences[s].cache] \in Seq(Entry)
    BY <1>1, UsableRow
  <1>4. PICK x \in Address : x = sequences[s].cache
    BY <1>3
  <1>5. PICK q \in SequenceCache : q = sequences[s] /\ q.cache = x
    BY <1>2, <1>3, <1>4, SequenceRecord
  <1>6. PICK c \in Seq(Entry) : c = caches[x]
    BY <1>3, <1>4
  <1>7. PICK u : u = SubSeq(Prompt[s], fed[s] + 1, fed[s] + n)
    OBVIOUS
  <1>8. Prompt[s] \in Seq(Nat) /\ Len(Prompt[s]) \in Nat /\ fed[s] \in Nat
    BY <1>2, BackendAssumption, LenProperties DEF BackendTypes
  <1>9. u \in Seq(Nat)
    <2>1. \A i \in (fed[s] + 1)..(fed[s] + n) : i \in 1..Len(Prompt[s])
      BY <1>1, <1>8
    <2>2. \A i \in (fed[s] + 1)..(fed[s] + n) : Prompt[s][i] \in Nat
      BY <1>8, <2>1, ElementOfSeq
    <2>3. fed[s] + 1 \in Int /\ fed[s] + n \in Int
      BY <1>8
    <2> QED BY <1>7, <2>2, <2>3, SubSeqProperties
  <1>10. PICK d \in Seq(Entry) : caches' = [caches EXCEPT ![x] = d]
    <2>1. CASE UNCHANGED caches
      <3>1. caches' = [caches EXCEPT ![x] = c]
        BY <1>2, <1>6, <2>1 DEF BackendTypes
      <3> QED BY <3>1
    <2>2. CASE caches' = [caches EXCEPT ![sequences[s].cache] =
                            Extended(@, SubSeq(Prompt[s], fed[s] + 1, fed[s] + n), Len(@))]
      <3>1. caches' = [caches EXCEPT ![x] = Extended(c, u, Len(c))]
        BY <1>2, <1>4, <1>6, <1>7, <2>2 DEF BackendTypes
      <3>2. Len(c) \in Nat
        BY LenProperties
      <3>3. Extended(c, u, Len(c)) \in Seq(Entry)
        BY <1>9, <3>2, ExtendedFacts
      <3> QED BY <3>1, <3>3
    <2> QED BY <1>1, <2>1, <2>2
  <1>11. sequences' = [sequences EXCEPT ![s] = q]
    BY <1>1, <1>2, <1>5, SameIsExcept DEF BackendTypes
  <1>12. sequences[s] # None /\ x = sequences[s].cache /\ failed' = failed \cup {s}
         /\ UNCHANGED <<snapshots, fed, accepted, basis, cached, stopped>>
    BY <1>1, <1>3, <1>4
  <1> QED BY <1>5, <1>10, <1>11, <1>12, FailedOne

\* A snapshot and the cache it refers to.
LEMMA SnapshotRow ==
    ASSUME BackendIInv, NEW k \in Slot, snapshots[k] # None
    PROVE  /\ snapshots[k].cache \in Address /\ caches[snapshots[k].cache] \in Seq(Entry)
           /\ snapshots[k].mask \in Seq({0, 1}) /\ snapshots[k].position \in Nat /\ snapshots[k].prompt \in Seq(Nat)
           /\ snapshots[k].logits = snapshots[k].prompt /\ snapshots[k].position = Len(caches[snapshots[k].cache])
           /\ Spells(caches[snapshots[k].cache], snapshots[k].mask, snapshots[k].prompt)
  <1>1. BackendTypes /\ OwnCaches /\ SnapshotHolds(k)
    BY DEF BackendIInv, SnapshotsHold
  <1>2. snapshots[k].cache \in Address
    BY <1>1 DEF OwnCaches
  <1>3. caches[snapshots[k].cache] \in Seq(Entry)
    BY <1>1, <1>2 DEF BackendTypes
  <1>4. snapshots[k].mask \in Seq({0, 1}) /\ snapshots[k].position \in Nat /\ snapshots[k].prompt \in Seq(Nat)
    BY <1>1, SnapshotRecord
  <1>5. SnapshotIs(snapshots[k], caches[snapshots[k].cache])
    BY <1>1 DEF SnapshotHolds
  <1> QED BY <1>2, <1>3, <1>4, <1>5 DEF SnapshotIs

LEMMA RestoreStep ==
    ASSUME BackendIInv, NEW s \in Sequence, NEW k \in Slot, Restore(s, k)
    PROVE  BackendIInv'
  <1>1. PICK o : o = snapshots[k]
    OBVIOUS
  <1>2. PICK x : x = Min(Free(sequences))
    OBVIOUS
  <1>3. PICK d : d = caches[o.cache]
    OBVIOUS
  <1>4. /\ Fresh(s) /\ o # None /\ o.prompt = Prompt[s] /\ caches' = [caches EXCEPT ![x] = d]
        /\ fed' = [fed EXCEPT ![s] = Len(Prompt[s])] /\ basis' = [basis EXCEPT ![s] = o.logits]
        /\ cached' = [cached EXCEPT ![s] = Len(d)] /\ snapshots' = snapshots /\ failed' = failed /\ stopped' = stopped
    BY <1>1, <1>2, <1>3 DEF Restore
  <1>5. PICK t \in Vocabulary :
          /\ sequences' = [sequences EXCEPT ![s] =
                [cache |-> x, mask |-> o.mask, position |-> o.position, last |-> t, logits |-> o.logits]]
          /\ accepted' = [accepted EXCEPT ![s] = <<t>>]
    BY <1>1, <1>2 DEF Restore
  <1>6. /\ d \in Seq(Entry) /\ o.mask \in Seq({0, 1}) /\ o.position \in Nat /\ o.prompt \in Seq(Nat)
        /\ o.logits = o.prompt /\ o.position = Len(d) /\ Spells(d, o.mask, o.prompt)
    BY <1>1, <1>3, <1>4, SnapshotRow
  <1>7. BackendTypes /\ sequences[s] = None
    BY <1>4 DEF BackendIInv, Fresh, Has
  <1>8. x \in Free(sequences)
    BY <1>2, <1>7, NextAddress
  <1>9. x \in Nat
    BY <1>8, FreeFacts, AddressesAreNumbers
  <1>10. t \in Nat
    BY BackendAssumption
  <1>11. PICK m : m = o.mask
    OBVIOUS
  <1>12. PICK n : n = o.position
    OBVIOUS
  <1>13. PICK p : p = o.prompt
    OBVIOUS
  <1>14. PICK q : q = [cache |-> x, mask |-> m, position |-> n, last |-> t, logits |-> p]
    OBVIOUS
  <1>15. m \in MaskBits /\ n \in Nat /\ p \in Seq(Nat) /\ p \in OptLogits /\ t \in OptToken
    BY <1>6, <1>10, <1>11, <1>12, <1>13 DEF MaskBits, OptLogits, OptToken
  <1>16. q \in SequenceCache /\ q # None /\ q.cache = x /\ q.mask = m /\ q.position = n /\ q.last = t /\ q.logits = p
    BY ONLY <1>9, <1>14, <1>15, NewRecord
  <1>17. sequences' = [sequences EXCEPT ![s] = q]
    BY <1>5, <1>6, <1>11, <1>12, <1>13, <1>14
  <1>18. basis' = [basis EXCEPT ![s] = p] /\ p = Prompt[s]
    BY <1>4, <1>6, <1>13
  <1>19. Spells(d, q.mask, p) /\ q.position = Len(d) /\ Len(d) \in Nat
    BY <1>6, <1>11, <1>12, <1>13, <1>16
  <1>20. RowIs(p, q, d, Len(p), <<t>>, p, Len(d))
    BY <1>10, <1>15, <1>16, <1>19, FirstTokenRow
  <1>21. <<t>> \in Seq(Nat) /\ Len(p) \in Nat
    BY <1>10, <1>15, SingleFacts, LenProperties
  <1>22. s \notin failed' => RowIs(Prompt[s], q, d, Len(p), <<t>>, p, Len(d))
    BY <1>18, <1>20
  <1>23. \/ sequences[s] # None /\ x = sequences[s].cache
         \/ x \in Free(sequences)
    BY <1>8
  <1>24. failed' = failed \/ failed' = failed \cup {s}
    BY <1>4
  <1>25. caches' = [caches EXCEPT ![x] = d] /\ fed' = [fed EXCEPT ![s] = Len(p)] /\ cached' = [cached EXCEPT ![s] = Len(d)]
    BY <1>4, <1>18
  <1>26. accepted' = [accepted EXCEPT ![s] = <<t>>] /\ snapshots' = snapshots /\ stopped' = stopped /\ d \in Seq(Entry)
    BY <1>4, <1>5, <1>6
  <1> QED BY ONLY BackendIInv, s \in Sequence, <1>15, <1>16, <1>17, <1>18, <1>19, <1>21, <1>22, <1>23, <1>24, <1>25, <1>26, UpdateOne

\* The prompt of a sequence continues that of a snapshot.
LEMMA ResumeStep ==
    ASSUME BackendIInv, NEW s \in Sequence, NEW k \in Slot, Resume(s, k)
    PROVE  BackendIInv'
  <1>1. PICK o : o = snapshots[k]
    OBVIOUS
  <1>2. PICK x : x = Min(Free(sequences))
    OBVIOUS
  <1>3. PICK c : c = caches[o.cache]
    OBVIOUS
  <1>4. PICK m : m = o.mask
    OBVIOUS
  <1>5. PICK b : b = [cache |-> x, mask |-> m]
    OBVIOUS
  <1>6. PICK u : u = Suffix(s, o)
    OBVIOUS
  <1>7. /\ Fresh(s) /\ o # None /\ Extends(s, o) /\ fed' = [fed EXCEPT ![s] = Len(Prompt[s])]
        /\ UNCHANGED <<snapshots, failed, stopped>>
    BY <1>1 DEF Resume
  <1>8. PICK t \in Vocabulary : Chunk(s, b, c, u, t)
    BY <1>1, <1>2, <1>3, <1>4, <1>5, <1>6 DEF Resume
  <1>9. c \in Seq(Entry) /\ m \in Seq({0, 1}) /\ o.prompt \in Seq(Nat) /\ Spells(c, m, o.prompt)
    BY <1>1, <1>3, <1>4, <1>7, SnapshotRow
  <1>10. PICK p \in Seq(Nat) : p = Prompt[s]
    BY BackendAssumption
  <1>11. PICK f : f = Len(o.prompt)
    OBVIOUS
  <1>12. f \in Nat /\ Len(p) \in Nat /\ f <= Len(p) /\ SubSeq(p, 1, f) = o.prompt
    BY <1>7, <1>9, <1>10, <1>11, PrefixFacts DEF Extends
  <1>13. PICK n \in Nat : f + n = Len(p)
    <2>1. Len(p) - f \in Nat /\ f + (Len(p) - f) = Len(p)
      BY <1>12
    <2> QED BY <2>1
  <1>14. BackendTypes /\ sequences[s] = None
    BY <1>7 DEF BackendIInv, Fresh, Has
  <1>15. x \in Free(sequences)
    BY <1>2, <1>14, NextAddress
  <1>16. \/ sequences[s] # None /\ x = sequences[s].cache
         \/ x \in Free(sequences)
    BY <1>15
  <1>17. (t \in Nat /\ f + n = Len(Prompt[s])) \/ (t = None /\ accepted[s] = <<>>)
    BY <1>10, <1>13, BackendAssumption
  <1>18. f + n <= Len(Prompt[s]) /\ fed' = [fed EXCEPT ![s] = f + n]
    <2>1. f + n <= Len(p)
      BY <1>12, <1>13
    <2>2. Len(Prompt[s]) = f + n /\ Len(Prompt[s]) = Len(p)
      BY <1>10, <1>13
    <2>3. fed' = [fed EXCEPT ![s] = Len(Prompt[s])]
      BY <1>7
    <2> QED BY ONLY <2>1, <2>2, <2>3
  <1>19. u = SubSeq(Prompt[s], f + 1, f + n)
    BY <1>6, <1>10, <1>11, <1>13 DEF Suffix
  <1>20. Spells(c, m, SubSeq(Prompt[s], 1, f)) /\ b.cache = x /\ b.mask = m
    BY <1>5, <1>9, <1>10, <1>12
  <1>21. f \in Nat /\ n \in Nat /\ c \in Seq(Entry) /\ m \in Seq({0, 1}) /\ Chunk(s, b, c, u, t)
    BY <1>8, <1>9, <1>12
  <1>22. UNCHANGED <<snapshots, failed, stopped>>
    BY <1>7
  <1> QED BY ONLY BackendIInv, s \in Sequence, <1>16, <1>17, <1>18, <1>19, <1>20, <1>21, <1>22, ChunkStep

LEMMA ResumeRaisesStep ==
    ASSUME BackendIInv, NEW s \in Sequence, NEW k \in Slot, ResumeRaises(s, k)
    PROVE  BackendIInv'
  <1>1. PICK o : o = snapshots[k]
    OBVIOUS
  <1>2. PICK x : x = Min(Free(sequences))
    OBVIOUS
  <1>3. PICK d : d = caches[o.cache]
    OBVIOUS
  <1>4. PICK m : m = o.mask
    OBVIOUS
  <1>5. PICK n : n = o.position
    OBVIOUS
  <1>6. PICK g : g = o.logits
    OBVIOUS
  <1>7. PICK q : q = [cache |-> x, mask |-> m, position |-> n, last |-> None, logits |-> g]
    OBVIOUS
  <1>8. /\ Fresh(s) /\ o # None /\ caches' = [caches EXCEPT ![x] = d] /\ sequences' = [sequences EXCEPT ![s] = q]
        /\ failed' = failed \cup {s} /\ UNCHANGED <<snapshots, fed, accepted, basis, cached, stopped>>
    BY <1>1, <1>2, <1>3, <1>4, <1>5, <1>6, <1>7 DEF ResumeRaises
  <1>9. d \in Seq(Entry) /\ o.mask \in Seq({0, 1}) /\ o.position \in Nat /\ o.logits \in Seq(Nat)
    BY <1>1, <1>3, <1>8, SnapshotRow
  <1>10. BackendTypes /\ sequences[s] = None
    BY <1>8 DEF BackendIInv, Fresh, Has
  <1>11. x \in Free(sequences)
    BY <1>2, <1>10, NextAddress
  <1>12. x \in Nat
    BY <1>11, FreeFacts, AddressesAreNumbers
  <1>13. m \in MaskBits /\ n \in Nat /\ g \in OptLogits /\ None \in OptToken
    BY <1>4, <1>5, <1>6, <1>9 DEF MaskBits, OptLogits, OptToken
  <1>14. q \in SequenceCache /\ q.cache = x
    BY ONLY <1>7, <1>12, <1>13, NewRecord
  <1>15. \/ sequences[s] # None /\ x = sequences[s].cache
         \/ x \in Free(sequences)
    BY <1>11
  <1> QED BY ONLY BackendIInv, s \in Sequence, <1>8, <1>9, <1>14, <1>15, FailedOne

LEMMA SnapshotStep ==
    ASSUME BackendIInv, NEW s \in Sequence, NEW k \in Slot, Snapshot(s, k)
    PROVE  BackendIInv'
  <1>1. BackendTypes /\ OwnCaches /\ RowsHold /\ SnapshotsHold
    BY DEF BackendIInv
  <1>2. PICK x : x = Min(Free(sequences))
    OBVIOUS
  <1>3. PICK d : d = caches[sequences[s].cache]
    OBVIOUS
  <1>4. PICK m : m = sequences[s].mask
    OBVIOUS
  <1>5. PICK n : n = sequences[s].position
    OBVIOUS
  <1>6. PICK g : g = sequences[s].logits
    OBVIOUS
  <1>7. PICK p \in Seq(Nat) : p = Prompt[s]
    BY BackendAssumption
  <1>8. PICK o : o = [cache |-> x, mask |-> m, position |-> n, logits |-> g, prompt |-> p]
    OBVIOUS
  <1>9. /\ Usable(s) /\ g # None /\ snapshots[k] = None /\ caches' = [caches EXCEPT ![x] = d]
        /\ snapshots' = [snapshots EXCEPT ![k] = o]
        /\ UNCHANGED <<sequences, fed, accepted, basis, cached, failed, stopped>>
    BY <1>2, <1>3, <1>4, <1>5, <1>6, <1>7, <1>8 DEF Snapshot, SnapshotCache
  <1>10. sequences[s] # None /\ d \in Seq(Entry) /\ RowIs(p, sequences[s], d, fed[s], accepted[s], basis[s], cached[s])
    BY <1>3, <1>7, <1>9, UsableRow
  <1>11. m \in MaskBits /\ n \in Nat
    BY <1>1, <1>4, <1>5, <1>10, SequenceRecord DEF MaskBits
  <1>12. g = p /\ Len(accepted[s]) = 1 /\ n = Len(d)
    BY <1>5, <1>6, <1>9, <1>10 DEF RowIs
  <1>13. Spells(d, m, p)
    <2>1. accepted[s] \in Seq(Nat)
      BY <1>1 DEF BackendTypes
    <2>2. accepted[s] # <<>>
      <3>1. PICK e : e = <<>> /\ Len(e) = 0
        BY EmptySeq
      <3>2. PICK a : a = accepted[s]
        OBVIOUS
      <3>3. Len(a) = 1
        BY <1>12, <3>2
      <3>4. a # e
        <4>1. Len(e) = 0
          BY <3>1
        <4>2. SUFFICES ASSUME a = e PROVE 1 = 0
          OBVIOUS
        <4>3. Len(a) = Len(e)
          BY <4>2
        <4> QED BY ONLY <3>3, <4>1, <4>3, Zenon
      <3> QED BY <3>1, <3>2, <3>4, Zenon
    <2>3. Spells(d, m, p \o Front(accepted[s]))
      BY <1>4, <1>10, <2>2 DEF RowIs, Spelled
    <2>4. PICK y \in Seq(Nat), t \in Nat : accepted[s] = Append(y, t)
      BY <2>1, <2>2, SequenceEmptyOrAppend
    <2>5. Len(accepted[s]) = Len(y) + 1 /\ Len(y) \in Nat
      BY <2>4, AppendProperties, LenProperties
    <2>6. Len(y) = 0
      <3>1. Len(y) + 1 = 1 /\ Len(y) \in Nat
        BY ONLY <1>12, <2>5
      <3> QED BY ONLY <3>1
    <2>7. y = <<>>
      BY <2>6, EmptySeq
    <2>8. Front(accepted[s]) = y
      BY <2>4, FrontFacts, ZenonT(60)
    <2>9. p \o Front(accepted[s]) = p
      BY <2>7, <2>8, ConcatEmptySeq
    <2> QED BY <2>3, <2>9
  <1>14. x \in Free(sequences)
    BY <1>1, <1>2, <1>9, NextAddress
  <1>15. x \in Address /\ x \in Nat
    BY <1>14, FreeFacts, AddressesAreNumbers
  <1>16. g \in Seq(Nat)
    BY <1>12
  <1>17. o \in PrefixSnapshot /\ o # None /\ o.cache = x /\ o.mask = m /\ o.position = n /\ o.logits = g /\ o.prompt = p
    BY ONLY <1>8, <1>11, <1>15, <1>16, p \in Seq(Nat), NewSnapshot
  <1>18. SnapshotIs(o, d)
    BY <1>12, <1>13, <1>17 DEF SnapshotIs
  <1>19. caches' \in [Address -> Seq(Entry)] /\ caches'[x] = d /\ \A y \in Address : y # x => caches'[y] = caches[y]
    BY <1>1, <1>9, <1>10, <1>15 DEF BackendTypes
  <1>20. /\ snapshots' \in [Slot -> PrefixSnapshot \cup {None}] /\ snapshots'[k] = o
         /\ \A l \in Slot : l # k => snapshots'[l] = snapshots[l]
    BY <1>1, <1>9, <1>17 DEF BackendTypes
  <1>21. BackendTypes'
    BY <1>1, <1>9, <1>19, <1>20 DEF BackendTypes
  <1>22. /\ \A r \in Sequence : sequences[r] # None => sequences[r].cache # x
         /\ \A l \in Slot : snapshots[l] # None => snapshots[l].cache # x
    BY <1>14, FreeFacts
  <1>23. OwnCaches'
    <2>1. \A r \in Sequence : sequences'[r] # None => sequences'[r].cache \in Address
      BY <1>1, <1>9 DEF OwnCaches
    <2>2. \A l \in Slot : snapshots'[l] # None => snapshots'[l].cache \in Address
      BY <1>1, <1>15, <1>17, <1>20 DEF OwnCaches
    <2>3. \A r, t \in Sequence : r # t /\ sequences'[r] # None /\ sequences'[t] # None => sequences'[r].cache # sequences'[t].cache
      BY <1>1, <1>9 DEF OwnCaches
    <2>4. ASSUME NEW i \in Slot, NEW j \in Slot, i # j, snapshots'[i] # None, snapshots'[j] # None
          PROVE  snapshots'[i].cache # snapshots'[j].cache
      <3>1. CASE i = k
        BY <1>17, <1>20, <1>22, <2>4, <3>1
      <3>2. CASE j = k
        BY <1>17, <1>20, <1>22, <2>4, <3>2
      <3>3. CASE i # k /\ j # k
        BY <1>1, <1>20, <2>4, <3>3 DEF OwnCaches
      <3> QED BY <3>1, <3>2, <3>3
    <2>5. ASSUME NEW r \in Sequence, NEW l \in Slot, sequences'[r] # None, snapshots'[l] # None
          PROVE  sequences'[r].cache # snapshots'[l].cache
      <3>1. CASE l = k
        BY <1>9, <1>17, <1>20, <1>22, <2>5, <3>1
      <3>2. CASE l # k
        BY <1>1, <1>9, <1>20, <2>5, <3>2 DEF OwnCaches
      <3> QED BY <3>1, <3>2
    <2> QED BY <2>1, <2>2, <2>3, <2>4, <2>5 DEF OwnCaches
  <1>24. RowsHold'
    <2>1. SUFFICES ASSUME NEW r \in Sequence PROVE RowHolds(r)'
      BY DEF RowsHold
    <2>2. RowHolds(r)
      BY <1>1 DEF RowsHold
    <2>3. sequences[r] # None => caches'[sequences[r].cache] = caches[sequences[r].cache]
      BY <1>1, <1>19, <1>22 DEF OwnCaches
    <2>4. /\ sequences'[r] = sequences[r] /\ fed'[r] = fed[r] /\ accepted'[r] = accepted[r]
          /\ basis'[r] = basis[r] /\ cached'[r] = cached[r] /\ (r \in failed => r \in failed') /\ stopped' = stopped
      BY <1>9
    <2> QED BY <2>2, <2>3, <2>4, RowKept
  <1>25. SnapshotsHold'
    <2>1. SUFFICES ASSUME NEW l \in Slot PROVE SnapshotHolds(l)'
      BY DEF SnapshotsHold
    <2>2. CASE l = k
      <3>1. SnapshotIs(snapshots'[l], caches'[snapshots'[l].cache])
        BY <1>17, <1>18, <1>19, <1>20, <2>2
      <3> QED BY <3>1 DEF SnapshotHolds
    <2>3. CASE l # k
      <3>1. SnapshotHolds(l) /\ snapshots'[l] = snapshots[l]
        BY <1>1, <1>20, <2>3 DEF SnapshotsHold
      <3>2. snapshots[l] # None => caches'[snapshots[l].cache] = caches[snapshots[l].cache]
        BY <1>1, <1>19, <1>22 DEF OwnCaches
      <3> QED BY <3>1, <3>2, SnapshotKept
    <2> QED BY <2>2, <2>3
  <1> QED BY <1>21, <1>23, <1>24, <1>25 DEF BackendIInv

\* A cache that is collected is emptied, the others stay as they are.
LEMMA CollectFacts ==
    ASSUME BackendTypes, NEW X, Collect(X)
    PROVE  caches' \in [Address -> Seq(Entry)] /\ \A x \in Address : x \notin X => caches'[x] = caches[x]
  <1>1. <<>> \in Seq(Entry)
    BY EmptySeq
  <1> QED BY <1>1 DEF Collect, BackendTypes

LEMMA ForgetStep ==
    ASSUME BackendIInv, NEW k \in Slot, Forget(k)
    PROVE  BackendIInv'
  <1>1. BackendTypes /\ OwnCaches /\ RowsHold /\ SnapshotsHold
    BY DEF BackendIInv
  <1>2. /\ snapshots[k] # None /\ snapshots' = [snapshots EXCEPT ![k] = None] /\ Collect({snapshots[k].cache})
        /\ UNCHANGED <<sequences, fed, accepted, basis, cached, failed, stopped>>
    BY DEF Forget
  <1>3. caches' \in [Address -> Seq(Entry)] /\ \A x \in Address : x # snapshots[k].cache => caches'[x] = caches[x]
    BY <1>1, <1>2, CollectFacts
  <1>4. /\ snapshots' \in [Slot -> PrefixSnapshot \cup {None}] /\ snapshots'[k] = None
        /\ \A l \in Slot : l # k => snapshots'[l] = snapshots[l]
    BY <1>1, <1>2 DEF BackendTypes
  <1>5. BackendTypes'
    BY <1>1, <1>2, <1>3, <1>4 DEF BackendTypes
  <1>6. OwnCaches'
    BY <1>1, <1>2, <1>4 DEF OwnCaches
  <1>7. RowsHold'
    <2>1. SUFFICES ASSUME NEW r \in Sequence PROVE RowHolds(r)'
      BY DEF RowsHold
    <2>2. RowHolds(r)
      BY <1>1 DEF RowsHold
    <2>3. sequences[r] # None => caches'[sequences[r].cache] = caches[sequences[r].cache]
      BY <1>1, <1>2, <1>3 DEF OwnCaches
    <2>4. /\ sequences'[r] = sequences[r] /\ fed'[r] = fed[r] /\ accepted'[r] = accepted[r]
          /\ basis'[r] = basis[r] /\ cached'[r] = cached[r] /\ (r \in failed => r \in failed') /\ stopped' = stopped
      BY <1>2
    <2> QED BY <2>2, <2>3, <2>4, RowKept
  <1>8. SnapshotsHold'
    <2>1. SUFFICES ASSUME NEW l \in Slot PROVE SnapshotHolds(l)'
      BY DEF SnapshotsHold
    <2>2. CASE l = k
      BY <1>4, <2>2 DEF SnapshotHolds
    <2>3. CASE l # k
      <3>1. SnapshotHolds(l) /\ snapshots'[l] = snapshots[l]
        BY <1>1, <1>4, <2>3 DEF SnapshotsHold
      <3>2. snapshots[l] # None => caches'[snapshots[l].cache] = caches[snapshots[l].cache]
        BY <1>1, <1>2, <1>3, <2>3 DEF OwnCaches
      <3> QED BY <3>1, <3>2, SnapshotKept
    <2> QED BY <2>2, <2>3
  <1> QED BY <1>5, <1>6, <1>7, <1>8 DEF BackendIInv

LEMMA ReleaseSequenceStep ==
    ASSUME BackendIInv, NEW s \in Sequence, ReleaseSequence(s)
    PROVE  BackendIInv'
  <1>1. BackendTypes /\ OwnCaches /\ RowsHold /\ SnapshotsHold
    BY DEF BackendIInv
  <1>2. PICK X : X = IF Has(s) THEN {sequences[s].cache} ELSE {}
    OBVIOUS
  <1>3. /\ Collect(X) /\ sequences' = [sequences EXCEPT ![s] = None] /\ failed' = failed \ {s}
        /\ fed' = [fed EXCEPT ![s] = 0] /\ accepted' = [accepted EXCEPT ![s] = <<>>] /\ basis' = [basis EXCEPT ![s] = <<>>]
        /\ cached' = [cached EXCEPT ![s] = 0] /\ snapshots' = snapshots /\ stopped' = stopped
    BY <1>2 DEF ReleaseSequence
  <1>4. caches' \in [Address -> Seq(Entry)] /\ \A x \in Address : x \notin X => caches'[x] = caches[x]
    BY <1>1, <1>3, CollectFacts
  <1>5. /\ sequences' \in [Sequence -> SequenceCache \cup {None}] /\ sequences'[s] = None
        /\ \A t \in Sequence : t # s => sequences'[t] = sequences[t]
    BY <1>1, <1>3 DEF BackendTypes
  <1>6. fed' \in [Sequence -> Nat] /\ fed'[s] = 0 /\ \A t \in Sequence : t # s => fed'[t] = fed[t]
    BY <1>1, <1>3 DEF BackendTypes
  <1>7. <<>> \in Seq(Nat)
    BY EmptySeq
  <1>8. accepted' \in [Sequence -> Seq(Nat)] /\ accepted'[s] = <<>> /\ \A t \in Sequence : t # s => accepted'[t] = accepted[t]
    BY <1>1, <1>3, <1>7 DEF BackendTypes
  <1>9. basis' \in [Sequence -> Seq(Nat)] /\ \A t \in Sequence : t # s => basis'[t] = basis[t]
    BY <1>1, <1>3, <1>7 DEF BackendTypes
  <1>10. cached' \in [Sequence -> Nat] /\ \A t \in Sequence : t # s => cached'[t] = cached[t]
    BY <1>1, <1>3 DEF BackendTypes
  <1>11. failed' \in SUBSET Sequence /\ snapshots' \in [Slot -> PrefixSnapshot \cup {None}] /\ stopped' \in BOOLEAN
    BY <1>1, <1>3 DEF BackendTypes
  <1>12. BackendTypes'
    BY <1>4, <1>5, <1>6, <1>8, <1>9, <1>10, <1>11 DEF BackendTypes
  <1>13. OwnCaches'
    <2>1. \A t \in Sequence : sequences'[t] # None => t # s /\ sequences'[t] = sequences[t]
      BY <1>5
    <2> QED BY <1>1, <1>3, <2>1 DEF OwnCaches
  <1>14. ASSUME NEW t \in Sequence, t # s, sequences[t] # None PROVE caches'[sequences[t].cache] = caches[sequences[t].cache]
    <2>1. sequences[t].cache \in Address /\ sequences[t].cache \notin X
      BY <1>1, <1>2, <1>14 DEF OwnCaches, Has
    <2> QED BY <1>4, <2>1
  <1>15. ASSUME NEW k \in Slot, snapshots[k] # None PROVE caches'[snapshots[k].cache] = caches[snapshots[k].cache]
    <2>1. snapshots[k].cache \in Address /\ snapshots[k].cache \notin X
      BY <1>1, <1>2, <1>15 DEF OwnCaches, Has
    <2> QED BY <1>4, <2>1
  <1>16. RowsHold'
    <2>1. SUFFICES ASSUME NEW t \in Sequence PROVE RowHolds(t)'
      BY DEF RowsHold
    <2>2. CASE t = s
      <3>1. ~Usable(t)' /\ fed'[t] = 0 /\ accepted'[t] = <<>>
        BY <1>5, <1>6, <1>8, <2>2 DEF Usable, Has
      <3> QED BY <3>1 DEF RowHolds
    <2>3. CASE t # s
      <3>1. RowHolds(t)
        BY <1>1 DEF RowsHold
      <3>2. sequences[t] # None => caches'[sequences[t].cache] = caches[sequences[t].cache]
        BY <1>14, <2>3
      <3>3. /\ sequences'[t] = sequences[t] /\ fed'[t] = fed[t] /\ accepted'[t] = accepted[t]
            /\ basis'[t] = basis[t] /\ cached'[t] = cached[t]
        BY <1>5, <1>6, <1>8, <1>9, <1>10, <2>3
      <3>4. (t \in failed => t \in failed') /\ stopped' = stopped
        BY <1>3, <2>3
      <3> QED BY <3>1, <3>2, <3>3, <3>4, RowKept
    <2> QED BY <2>2, <2>3
  <1>17. SnapshotsHold'
    <2>1. SUFFICES ASSUME NEW k \in Slot PROVE SnapshotHolds(k)'
      BY DEF SnapshotsHold
    <2>2. SnapshotHolds(k) /\ snapshots'[k] = snapshots[k]
      BY <1>1, <1>3 DEF SnapshotsHold
    <2> QED BY <1>15, <2>2, SnapshotKept
  <1> QED BY <1>12, <1>13, <1>16, <1>17 DEF BackendIInv

LEMMA ShutdownStep ==
    ASSUME BackendIInv, Shutdown
    PROVE  BackendIInv'
  <1>1. BackendTypes /\ OwnCaches /\ RowsHold /\ SnapshotsHold
    BY DEF BackendIInv
  <1>2. PICK X : X = {sequences[s].cache : s \in {t \in Sequence : Has(t)}}
    OBVIOUS
  <1>3. /\ stopped' = TRUE /\ sequences' = [s \in Sequence |-> None] /\ Collect(X)
        /\ UNCHANGED <<snapshots, fed, accepted, basis, cached, failed>>
    BY <1>2 DEF Shutdown, None0
  <1>4. caches' \in [Address -> Seq(Entry)] /\ \A x \in Address : x \notin X => caches'[x] = caches[x]
    BY <1>1, <1>3, CollectFacts
  <1>5. sequences' \in [Sequence -> SequenceCache \cup {None}] /\ \A s \in Sequence : sequences'[s] = None
    BY <1>3
  <1>6. BackendTypes'
    BY <1>1, <1>3, <1>4, <1>5 DEF BackendTypes
  <1>7. OwnCaches'
    BY <1>1, <1>3, <1>5 DEF OwnCaches
  <1>8. RowsHold'
    <2>1. \A s \in Sequence : ~Usable(s)' /\ ~Fresh(s)'
      BY <1>3 DEF Usable, Fresh
    <2> QED BY <2>1 DEF RowsHold, RowHolds
  <1>9. SnapshotsHold'
    <2>1. SUFFICES ASSUME NEW k \in Slot PROVE SnapshotHolds(k)'
      BY DEF SnapshotsHold
    <2>2. SnapshotHolds(k) /\ snapshots'[k] = snapshots[k]
      BY <1>1, <1>3 DEF SnapshotsHold
    <2>3. snapshots[k] # None => caches'[snapshots[k].cache] = caches[snapshots[k].cache]
      <3>1. HAVE snapshots[k] # None
      <3>2. snapshots[k].cache \in Address /\ snapshots[k].cache \notin X
        BY <1>1, <1>2, <3>1 DEF OwnCaches, Has
      <3> QED BY <1>4, <3>2
    <2> QED BY <2>2, <2>3, SnapshotKept
  <1> QED BY <1>6, <1>7, <1>8, <1>9 DEF BackendIInv

-----------------------------------------------------------------------------
(* Calls for a batch *)

LEMMA PrefillRowsStep ==
    ASSUME BackendIInv, NEW S \in SUBSET Sequence, S # {}, \A s \in S : Fresh(s), NEW rows \in SUBSET S,
           NEW out \in [rows -> Vocabulary], PrefillRows(S, rows, out), snapshots' = snapshots, stopped' = stopped,
           failed' = failed \/ failed' = failed \cup S
    PROVE  BackendIInv'
  <1>1. BackendTypes
    BY DEF BackendIInv
  <1>2. \A s \in rows : s \in Sequence /\ sequences[s] = None
    BY DEF Fresh, Has
  <1>3. PICK w \in Nat : w = Width(S) /\ \A s \in S : Len(Prompt[s]) <= w
    BY WidthFacts
  <1>4. PICK at : at = CHOOSE f \in [rows -> Free(sequences)] : IsInjective(f)
    OBVIOUS
  <1>5. at \in [rows -> Free(sequences)] /\ IsInjective(at)
    <2>1. rows \in SUBSET Sequence /\ \A s \in rows : sequences[s] = None
      BY <1>2
    <2>2. \E f \in [rows -> Free(sequences)] : IsInjective(f)
      BY <1>1, <2>1, AddressesLeft
    <2> QED BY <1>4, <2>2
  <1>6. /\ \A s \in rows : at[s] \in Free(sequences) /\ at[s] \in Address /\ at[s] \in Nat
        /\ \A s, t \in rows : at[s] = at[t] => s = t
    <2>1. \A s \in rows : at[s] \in Free(sequences)
      BY <1>5
    <2>2. \A s, t \in rows : at[s] = at[t] => s = t
      BY <1>5 DEF IsInjective
    <2> QED BY <2>1, <2>2, FreeFacts, AddressesAreNumbers
  <1> DEFINE c(s) == Extended(<<>>, Padded(s, w).input, 0)
             m(s) == Padded(s, w).mask
             q(s) == [cache |-> at[s], mask |-> m(s), position |-> w, last |-> out[s], logits |-> Attended(c(s), m(s))]
  <1>7. /\ caches' = [x \in Address |-> IF \E s \in rows : at[s] = x THEN c(CHOOSE s \in rows : at[s] = x) ELSE caches[x]]
        /\ sequences' = [s \in Sequence |-> IF s \notin rows THEN sequences[s] ELSE q(s)]
        /\ fed' = [s \in Sequence |-> IF s \in rows THEN Len(Prompt[s]) ELSE fed[s]]
        /\ accepted' = [s \in Sequence |-> IF s \in rows THEN <<out[s]>> ELSE accepted[s]]
        /\ basis' = [s \in Sequence |-> IF s \in rows THEN Attended(c(s), m(s)) ELSE basis[s]]
        /\ cached' = [s \in Sequence |-> IF s \in rows THEN w ELSE cached[s]]
    BY <1>3, <1>4 DEF PrefillRows
  <1>8. ASSUME NEW s \in rows
        PROVE  /\ Prompt[s] \in Seq(Nat) /\ c(s) \in Seq(Entry) /\ Len(c(s)) = w /\ m(s) \in Seq({0, 1})
               /\ Spells(c(s), m(s), Prompt[s]) /\ Attended(c(s), m(s)) = Prompt[s]
    <2>1. PICK p \in Seq(Nat) : p = Prompt[s] /\ Len(p) <= w
      BY <1>2, <1>3, BackendAssumption
    <2>2. c(s) = Extended(<<>>, Zeros(w - Len(p)) \o p, 0) /\ m(s) = Zeros(w - Len(p)) \o Ones(Len(p))
      BY <2>1 DEF Padded
    <2>3. /\ Extended(<<>>, Zeros(w - Len(p)) \o p, 0) \in Seq(Entry) /\ Len(Extended(<<>>, Zeros(w - Len(p)) \o p, 0)) = w
          /\ Zeros(w - Len(p)) \o Ones(Len(p)) \in Seq({0, 1})
          /\ Spells(Extended(<<>>, Zeros(w - Len(p)) \o p, 0), Zeros(w - Len(p)) \o Ones(Len(p)), p)
      BY <2>1, PaddedSpells
    <2> HIDE DEF c, m
    <2>4. c(s) \in Seq(Entry) /\ Len(c(s)) = w /\ m(s) \in Seq({0, 1}) /\ Spells(c(s), m(s), p)
      BY ONLY <2>2, <2>3, Zenon
    <2>5. Attended(c(s), m(s)) = p
      BY <2>4, SpellsMeans
    <2> QED BY <2>1, <2>4, <2>5
  <1>9. \A s \in rows : out[s] \in Nat
    BY BackendAssumption
  <1>10. ASSUME NEW s \in rows
         PROVE  /\ q(s) \in SequenceCache /\ q(s) # None /\ q(s).cache = at[s] /\ q(s).mask = m(s) /\ q(s).position = w
                /\ q(s).last = out[s] /\ q(s).logits = Prompt[s]
    <2>1. PICK x : x = at[s]
      OBVIOUS
    <2>2. PICK k : k = m(s)
      OBVIOUS
    <2>3. PICK t : t = out[s]
      OBVIOUS
    <2>4. PICK p : p = Prompt[s]
      OBVIOUS
    <2>5. x \in Nat /\ k \in MaskBits /\ t \in OptToken /\ p \in OptLogits /\ w \in Nat
      BY <1>6, <1>8, <1>9, <2>1, <2>2, <2>3, <2>4 DEF MaskBits, OptToken, OptLogits
    <2>6. PICK r : r = [cache |-> x, mask |-> k, position |-> w, last |-> t, logits |-> p]
      OBVIOUS
    <2>7. q(s) = r
      <3>1. Attended(c(s), m(s)) = p
        BY <1>8, <2>4
      <3> QED BY <2>1, <2>2, <2>3, <2>6, <3>1
    <2>8. r \in SequenceCache /\ r # None /\ r.cache = x /\ r.mask = k /\ r.position = w /\ r.last = t /\ r.logits = p
      BY ONLY <2>5, <2>6, NewRecord
    <2> HIDE DEF q
    <2> QED BY ONLY <2>1, <2>2, <2>3, <2>4, <2>7, <2>8
  <1> HIDE DEF c, m, q
  <1>11. \A s \in rows : caches'[at[s]] = c(s)
    <2>1. SUFFICES ASSUME NEW s \in rows PROVE caches'[at[s]] = c(s)
      OBVIOUS
    <2>2. PICK r : r = CHOOSE t \in rows : at[t] = at[s]
      OBVIOUS
    <2>3. r \in rows /\ at[r] = at[s]
      BY <2>2
    <2>4. r = s
      BY <1>6, <2>3
    <2>5. caches'[at[s]] = c(CHOOSE t \in rows : at[t] = at[s])
      BY <1>6, <1>7
    <2> QED BY <2>2, <2>4, <2>5
  <1>12. \A x \in Address : (\A s \in rows : at[s] # x) => caches'[x] = caches[x]
    BY <1>7
  <1>13. caches' \in [Address -> Seq(Entry)]
    <2>1. ASSUME NEW x \in Address PROVE caches'[x] \in Seq(Entry)
      <3>1. CASE \E s \in rows : at[s] = x
        <4>1. PICK s \in rows : at[s] = x
          BY <3>1
        <4> QED BY <1>8, <1>11, <4>1
      <3>2. CASE \A s \in rows : at[s] # x
        BY <1>1, <1>12, <3>2 DEF BackendTypes
      <3> QED BY <3>1, <3>2
    <2>2. caches' = [x \in Address |-> caches'[x]]
      BY <1>7
    <2> QED BY <2>1, <2>2
  <1>14. /\ sequences' \in [Sequence -> SequenceCache \cup {None}] /\ (\A s \in rows : sequences'[s] = q(s))
         /\ \A s \in Sequence \ rows : sequences'[s] = sequences[s]
    BY <1>1, <1>2, <1>7, <1>10 DEF BackendTypes
  <1>15. /\ fed' \in [Sequence -> Nat] /\ (\A s \in rows : fed'[s] = Len(Prompt[s]))
         /\ \A s \in Sequence \ rows : fed'[s] = fed[s]
    <2>1. \A s \in rows : Len(Prompt[s]) \in Nat
      BY <1>8, LenProperties
    <2> QED BY <1>1, <1>2, <1>7, <2>1 DEF BackendTypes
  <1>16. /\ accepted' \in [Sequence -> Seq(Nat)] /\ (\A s \in rows : accepted'[s] = <<out[s]>>)
         /\ \A s \in Sequence \ rows : accepted'[s] = accepted[s]
    <2>1. \A s \in rows : <<out[s]>> \in Seq(Nat)
      BY <1>9, SingleFacts
    <2> QED BY <1>1, <1>2, <1>7, <2>1 DEF BackendTypes
  <1>17. /\ basis' \in [Sequence -> Seq(Nat)] /\ (\A s \in rows : basis'[s] = Prompt[s])
         /\ \A s \in Sequence \ rows : basis'[s] = basis[s]
    BY <1>1, <1>2, <1>7, <1>8 DEF BackendTypes
  <1>18. /\ cached' \in [Sequence -> Nat] /\ (\A s \in rows : cached'[s] = w)
         /\ \A s \in Sequence \ rows : cached'[s] = cached[s]
    BY <1>1, <1>2, <1>7 DEF BackendTypes
  <1>19. failed' \in SUBSET Sequence /\ \A t \in failed : t \in failed'
    BY <1>1 DEF BackendTypes
  <1>20. BackendTypes'
    BY <1>1, <1>13, <1>14, <1>15, <1>16, <1>17, <1>18, <1>19 DEF BackendTypes
  <1>21. \A s \in rows : s \notin failed' =>
           RowIs(Prompt[s], sequences'[s], caches'[sequences'[s].cache], fed'[s], accepted'[s], basis'[s], cached'[s])
    <2>1. SUFFICES ASSUME NEW s \in rows
                   PROVE  RowIs(Prompt[s], sequences'[s], caches'[sequences'[s].cache], fed'[s], accepted'[s], basis'[s], cached'[s])
      OBVIOUS
    <2>2. PICK p \in Seq(Nat) : p = Prompt[s]
      BY <1>8
    <2>3. PICK t \in Nat : t = out[s]
      BY <1>9
    <2>4. PICK r : r = q(s)
      OBVIOUS
    <2>5. PICK d : d = c(s)
      OBVIOUS
    <2>6. Spells(d, r.mask, p) /\ r.position = Len(d) /\ r.last = t /\ r.logits = p /\ Len(d) = w
      BY <1>8, <1>10, <2>2, <2>3, <2>4, <2>5
    <2>7. RowIs(p, r, d, Len(p), <<t>>, p, Len(d))
      BY <2>6, FirstTokenRow
    <2>8. sequences'[s] = r /\ caches'[sequences'[s].cache] = d
      BY <1>10, <1>11, <1>14, <2>4, <2>5
    <2>9. fed'[s] = Len(p) /\ accepted'[s] = <<t>> /\ basis'[s] = p /\ cached'[s] = Len(d) /\ Prompt[s] = p
      BY <1>15, <1>16, <1>17, <1>18, <2>2, <2>3, <2>6
    <2> QED BY ONLY <2>7, <2>8, <2>9, Zenon
  <1>22. \A t \in Sequence \ rows : /\ sequences'[t] = sequences[t] /\ fed'[t] = fed[t] /\ accepted'[t] = accepted[t]
                                    /\ basis'[t] = basis[t] /\ cached'[t] = cached[t]
    BY <1>14, <1>15, <1>16, <1>17, <1>18
  <1>23. \A s \in rows : sequences'[s] # None /\ sequences'[s].cache = at[s]
    BY <1>10, <1>14
  <1>24. \A s \in rows : /\ sequences'[s] # None
                         /\ \/ sequences[s] # None /\ sequences'[s].cache = sequences[s].cache
                            \/ sequences'[s].cache \in Free(sequences)
    BY <1>6, <1>23
  <1>25. \A s, t \in rows : s # t => sequences'[s].cache # sequences'[t].cache
    BY <1>6, <1>23
  <1>26. \A x \in Address : (\A s \in rows : sequences'[s].cache # x) => caches'[x] = caches[x]
    BY <1>12, <1>23
  <1>27. rows \in SUBSET Sequence /\ \A t \in failed : t \in failed'
    BY <1>2, <1>19
  <1> QED BY ONLY BackendIInv, snapshots' = snapshots, stopped' = stopped,
                  <1>20, <1>21, <1>22, <1>24, <1>25, <1>26, <1>27, UpdateRows

LEMMA DecodeRowsStep ==
    ASSUME BackendIInv, NEW S \in SUBSET Sequence, Batch(S), NEW first \in S, NEW rows \in SUBSET S,
           NEW out \in [rows -> Vocabulary], DecodeRows(first, rows, out), snapshots' = snapshots, stopped' = stopped, fed' = fed,
           failed' = failed \/ failed' = failed \cup S
    PROVE  BackendIInv'
  <1>1. BackendTypes /\ OwnCaches
    BY DEF BackendIInv
  <1>2. ASSUME NEW s \in S
        PROVE  /\ s \in Sequence /\ sequences[s] # None /\ sequences[s].cache \in Address /\ caches[sequences[s].cache] \in Seq(Entry)
               /\ RowIs(Prompt[s], sequences[s], caches[sequences[s].cache], fed[s], accepted[s], basis[s], cached[s])
               /\ accepted[s] # <<>> /\ accepted[s] \in Seq(Nat) /\ Prompt[s] \in Seq(Nat)
    <2>1. s \in Sequence /\ Usable(s) /\ accepted[s] # <<>>
      BY DEF Batch, Decodable
    <2>2. /\ sequences[s] # None /\ sequences[s].cache \in Address /\ caches[sequences[s].cache] \in Seq(Entry)
          /\ RowIs(Prompt[s], sequences[s], caches[sequences[s].cache], fed[s], accepted[s], basis[s], cached[s])
      BY <2>1, UsableRow
    <2>3. accepted[s] \in Seq(Nat) /\ Prompt[s] \in Seq(Nat)
      BY <1>1, <2>1, BackendAssumption DEF BackendTypes
    <2> QED BY <2>1, <2>2, <2>3
  <1>3. \A s \in S : sequences[s].position = Len(caches[sequences[s].cache]) /\ cached[s] = Len(caches[sequences[s].cache])
    <2>1. SUFFICES ASSUME NEW s \in S
                   PROVE  sequences[s].position = Len(caches[sequences[s].cache]) /\ cached[s] = Len(caches[sequences[s].cache])
      OBVIOUS
    <2> QED BY <1>2 DEF RowIs
  <1>4. \A s \in S : sequences[first].position = Len(caches[sequences[s].cache])
    <2>1. SUFFICES ASSUME NEW s \in S PROVE sequences[first].position = Len(caches[sequences[s].cache])
      OBVIOUS
    <2>2. cached[first] = cached[s]
      BY DEF Batch
    <2> QED BY <1>3, <2>2
  <1> DEFINE at(s) == sequences[s].cache
             m(s) == sequences[s].mask \o <<1>>
             c(s) == Extended(caches[at(s)], <<sequences[s].last>>, sequences[first].position)
             q(s) == [sequences[s] EXCEPT !.mask = m(s), !.position = @ + 1, !.last = out[s], !.logits = None]
  <1>5. /\ caches' = [x \in Address |-> IF \E s \in rows : at(s) = x THEN c(CHOOSE s \in rows : at(s) = x) ELSE caches[x]]
        /\ sequences' = [s \in Sequence |-> IF s \in rows THEN q(s) ELSE sequences[s]]
        /\ accepted' = [s \in Sequence |-> IF s \in rows THEN Append(accepted[s], out[s]) ELSE accepted[s]]
        /\ basis' = [s \in Sequence |-> IF s \in rows THEN Attended(c(s), m(s)) ELSE basis[s]]
        /\ cached' = [s \in Sequence |-> IF s \in rows THEN Len(c(s)) ELSE cached[s]]
    BY DEF DecodeRows
  <1>6. \A s \in rows : out[s] \in Nat /\ s \in S /\ s \in Sequence
    BY BackendAssumption
  <1>7. \A s, t \in rows : at(s) = at(t) => s = t
    <2>1. SUFFICES ASSUME NEW s \in rows, NEW t \in rows, at(s) = at(t) PROVE s = t
      OBVIOUS
    <2>2. sequences[s] # None /\ sequences[t] # None /\ s \in Sequence /\ t \in Sequence
      BY <1>2, <1>6
    <2> QED BY <1>1, <2>1, <2>2 DEF OwnCaches
  <1>8. ASSUME NEW s \in rows
        PROVE  /\ q(s) \in SequenceCache /\ q(s) # None /\ q(s).cache = at(s) /\ q(s).mask = m(s)
               /\ q(s).position = sequences[s].position + 1 /\ q(s).last = out[s] /\ q(s).logits = None
    <2>1. s \in Sequence /\ sequences[s] # None
      BY <1>2, <1>6
    <2>2. PICK o : o = sequences[s]
      OBVIOUS
    <2>3. PICK x : x = o.cache
      OBVIOUS
    <2>4. PICK k : k = o.mask
      OBVIOUS
    <2>5. PICK n : n = o.position
      OBVIOUS
    <2>6. PICK l : l = o.last
      OBVIOUS
    <2>7. PICK g : g = o.logits
      OBVIOUS
    <2>8. /\ x \in Nat /\ k \in MaskBits /\ n \in Nat /\ l \in OptToken /\ g \in OptLogits
          /\ o = [cache |-> x, mask |-> k, position |-> n, last |-> l, logits |-> g]
      BY <1>1, <2>1, <2>2, <2>3, <2>4, <2>5, <2>6, <2>7, SequenceRecord DEF MaskBits, OptToken, OptLogits
    <2>9. PICK j : j = m(s)
      OBVIOUS
    <2>10. j \in MaskBits
      <3>1. k \in Seq({0, 1}) /\ <<1>> \in Seq({0, 1})
        BY <2>8, SingleFacts DEF MaskBits
      <3>2. k \o <<1>> \in Seq({0, 1})
        BY <3>1, ConcatProperties
      <3> QED BY <2>2, <2>4, <2>9, <3>2 DEF MaskBits
    <2>11. PICK t \in Nat : t = out[s]
      BY <1>6
    <2>12. PICK r : r = [o EXCEPT !.mask = j, !.position = @ + 1, !.last = t, !.logits = None]
      OBVIOUS
    <2>13. q(s) = r
      BY ONLY <2>2, <2>9, <2>11, <2>12
    <2>14. r \in SequenceCache /\ r # None /\ r.cache = x /\ r.mask = j /\ r.position = n + 1 /\ r.last = t /\ r.logits = None
      <3>1. PICK i \in Nat : i = n + 1
        BY <2>8
      <3>2. o = [cache |-> x, mask |-> k, position |-> n, last |-> l, logits |-> g]
        BY <2>8
      <3>3. r = [cache |-> x, mask |-> j, position |-> i, last |-> t, logits |-> None]
        BY ONLY <2>12, <3>1, <3>2
      <3>4. x \in Nat /\ t \in OptToken /\ None \in OptLogits
        BY <2>8 DEF OptToken, OptLogits
      <3>5. r \in SequenceCache /\ r # None /\ r.cache = x /\ r.mask = j /\ r.position = i /\ r.last = t /\ r.logits = None
        BY ONLY i \in Nat, <2>10, <3>3, <3>4, NewRecord
      <3> QED BY ONLY <3>1, <3>5
    <2>15. x = at(s) /\ n = sequences[s].position
      BY <2>2, <2>3, <2>5
    <2> HIDE DEF q, m, at
    <2> QED BY ONLY <2>9, <2>11, <2>13, <2>14, <2>15
  <1>9. ASSUME NEW s \in rows
        PROVE  /\ c(s) \in Seq(Entry) /\ Attended(c(s), m(s)) \in Seq(Nat) /\ Len(c(s)) \in Nat
               /\ RowIs(Prompt[s], q(s), c(s), fed[s], Append(accepted[s], out[s]), Attended(c(s), m(s)), Len(c(s)))
    <2>1. PICK o : o = sequences[s]
      OBVIOUS
    <2>2. PICK d : d = caches[at(s)]
      OBVIOUS
    <2>3. s \in S /\ o # None /\ d \in Seq(Entry)
      BY <1>2, <1>6, <2>1, <2>2
    <2>4. PICK a \in Seq(Nat) : a = accepted[s]
      BY <1>2, <2>3
    <2>5. PICK p \in Seq(Nat) : p = Prompt[s]
      BY <1>2, <2>3
    <2>6. a # <<>> /\ RowIs(p, o, d, fed[s], a, basis[s], cached[s])
      BY <1>2, <2>1, <2>2, <2>3, <2>4, <2>5
    <2>7. o.mask \in Seq({0, 1})
      BY <1>1, <1>6, <2>1, <2>3, SequenceRecord
    <2>8. PICK t \in Nat : t = out[s]
      BY <1>6
    <2>9. PICK e : e = c(s)
      OBVIOUS
    <2>10. e = Extended(d, <<o.last>>, Len(d))
      BY <1>4, <2>1, <2>2, <2>3, <2>9
    <2>11. PICK r : r = q(s)
      OBVIOUS
    <2>12. r.mask = o.mask \o <<1>> /\ r.position = o.position + 1 /\ r.last = t /\ r.logits = None
      <3>1. m(s) = o.mask \o <<1>>
        BY <2>1
      <3> HIDE DEF q, m, at
      <3> QED BY <1>8, <2>1, <2>8, <2>11, <3>1
    <2>13. PICK n : n = fed[s]
      OBVIOUS
    <2>14. /\ n \in 0..Len(p) /\ Spells(d, o.mask, p \o Front(a)) /\ o.position = Len(d)
           /\ n = Len(p) /\ o.last = Last(a)
      BY <2>6, <2>13 DEF RowIs, Spelled
    <2>15. PICK k \in Seq({0, 1}) : k = o.mask
      BY <2>7
    <2>16. PICK f \in Seq(Entry) : f = d
      BY <2>3
    <2>17. Spells(f, k, p \o Front(a))
      BY <2>14, <2>15, <2>16
    <2>18. /\ Extended(f, <<Last(a)>>, Len(f)) \in Seq(Entry) /\ Len(Extended(f, <<Last(a)>>, Len(f))) = Len(f) + 1
           /\ p \o a \in Seq(Nat) /\ Len(f) \in Nat
           /\ Spells(Extended(f, <<Last(a)>>, Len(f)), k \o <<1>>, p \o a)
           /\ Attended(Extended(f, <<Last(a)>>, Len(f)), k \o <<1>>) = p \o a
      BY <2>6, <2>17, DecodedSpells
    <2>19. e = Extended(f, <<Last(a)>>, Len(f)) /\ r.mask = k \o <<1>> /\ m(s) = k \o <<1>>
      BY <2>1, <2>10, <2>12, <2>14, <2>15, <2>16
    <2> HIDE DEF q, m, at, c
    <2>20. /\ e \in Seq(Entry) /\ Len(e) = Len(f) + 1 /\ p \o a \in Seq(Nat) /\ Len(f) \in Nat
           /\ Spells(e, r.mask, p \o a) /\ Attended(e, m(s)) = p \o a
      BY ONLY <2>18, <2>19, Zenon
    <2>21. r.position = Len(e) /\ Len(e) \in Nat
      BY ONLY <2>12, <2>14, <2>16, <2>20
    <2>22. PICK v : v = Append(a, t)
      OBVIOUS
    <2>23. v # <<>> /\ Front(v) = a /\ Last(v) = t
      BY <2>22, FrontFacts, ZenonT(60)
    <2>24. Spelled(p, n, v) = p \o a
      BY <2>23 DEF Spelled
    <2>25. RowIs(p, r, e, n, v, p \o a, Len(e))
      BY ONLY <2>12, <2>14, <2>20, <2>21, <2>23, <2>24 DEF RowIs
    <2>26. RowIs(p, r, e, n, Append(a, t), Attended(e, m(s)), Len(e)) /\ Attended(e, m(s)) \in Seq(Nat)
      BY ONLY <2>20, <2>22, <2>25, Zenon
    <2> QED BY ONLY <2>4, <2>5, <2>8, <2>9, <2>11, <2>13, <2>20, <2>21, <2>26, Zenon
  <1>10. \A s \in rows : at(s) \in Address
    BY <1>2, <1>6
  <1> HIDE DEF at, c, m, q
  <1>11. \A s \in rows : caches'[at(s)] = c(s)
    <2>1. SUFFICES ASSUME NEW s \in rows PROVE caches'[at(s)] = c(s)
      OBVIOUS
    <2>2. PICK r : r = CHOOSE t \in rows : at(t) = at(s)
      OBVIOUS
    <2>3. r \in rows /\ at(r) = at(s)
      BY <2>2
    <2>4. r = s
      BY <1>7, <2>3
    <2>5. caches'[at(s)] = c(CHOOSE t \in rows : at(t) = at(s))
      BY <1>5, <1>10
    <2> QED BY <2>2, <2>4, <2>5
  <1>12. \A x \in Address : (\A s \in rows : at(s) # x) => caches'[x] = caches[x]
    BY <1>5
  <1>13. caches' \in [Address -> Seq(Entry)]
    <2>1. ASSUME NEW x \in Address PROVE caches'[x] \in Seq(Entry)
      <3>1. CASE \E s \in rows : at(s) = x
        <4>1. PICK s \in rows : at(s) = x
          BY <3>1
        <4> QED BY <1>9, <1>11, <4>1
      <3>2. CASE \A s \in rows : at(s) # x
        BY <1>1, <1>12, <3>2 DEF BackendTypes
      <3> QED BY <3>1, <3>2
    <2>2. caches' = [x \in Address |-> caches'[x]]
      BY <1>5
    <2> QED BY <2>1, <2>2
  <1>14. /\ sequences' \in [Sequence -> SequenceCache \cup {None}] /\ (\A s \in rows : sequences'[s] = q(s))
         /\ \A s \in Sequence \ rows : sequences'[s] = sequences[s]
    BY <1>1, <1>5, <1>6, <1>8 DEF BackendTypes
  <1>15. /\ accepted' \in [Sequence -> Seq(Nat)] /\ (\A s \in rows : accepted'[s] = Append(accepted[s], out[s]))
         /\ \A s \in Sequence \ rows : accepted'[s] = accepted[s]
    <2>1. \A s \in rows : Append(accepted[s], out[s]) \in Seq(Nat)
      BY <1>2, <1>6, AppendProperties
    <2> QED BY <1>1, <1>5, <1>6, <2>1 DEF BackendTypes
  <1>16. /\ basis' \in [Sequence -> Seq(Nat)] /\ (\A s \in rows : basis'[s] = Attended(c(s), m(s)))
         /\ \A s \in Sequence \ rows : basis'[s] = basis[s]
    BY <1>1, <1>5, <1>6, <1>9 DEF BackendTypes
  <1>17. /\ cached' \in [Sequence -> Nat] /\ (\A s \in rows : cached'[s] = Len(c(s)))
         /\ \A s \in Sequence \ rows : cached'[s] = cached[s]
    BY <1>1, <1>5, <1>6, <1>9 DEF BackendTypes
  <1>18. failed' \in SUBSET Sequence /\ \A t \in failed : t \in failed'
    BY <1>1 DEF BackendTypes
  <1>19. BackendTypes'
    BY <1>1, <1>13, <1>14, <1>15, <1>16, <1>17, <1>18 DEF BackendTypes
  <1>20. \A s \in rows : s \notin failed' =>
           RowIs(Prompt[s], sequences'[s], caches'[sequences'[s].cache], fed'[s], accepted'[s], basis'[s], cached'[s])
    <2>1. SUFFICES ASSUME NEW s \in rows
                   PROVE  RowIs(Prompt[s], sequences'[s], caches'[sequences'[s].cache], fed'[s], accepted'[s], basis'[s], cached'[s])
      OBVIOUS
    <2>2. RowIs(Prompt[s], q(s), c(s), fed[s], Append(accepted[s], out[s]), Attended(c(s), m(s)), Len(c(s)))
      BY <1>9
    <2>3. sequences'[s] = q(s) /\ caches'[sequences'[s].cache] = c(s)
      BY <1>8, <1>11, <1>14
    <2>4. fed'[s] = fed[s] /\ accepted'[s] = Append(accepted[s], out[s]) /\ basis'[s] = Attended(c(s), m(s)) /\ cached'[s] = Len(c(s))
      BY <1>15, <1>16, <1>17
    <2> QED BY ONLY <2>2, <2>3, <2>4, Zenon
  <1>21. \A t \in Sequence \ rows : /\ sequences'[t] = sequences[t] /\ fed'[t] = fed[t] /\ accepted'[t] = accepted[t]
                                    /\ basis'[t] = basis[t] /\ cached'[t] = cached[t]
    BY <1>14, <1>15, <1>16, <1>17
  <1>22. \A s \in rows : sequences'[s] # None /\ sequences'[s].cache = at(s) /\ sequences[s] # None /\ sequences[s].cache = at(s)
    <2>1. \A s \in rows : sequences[s] # None /\ sequences[s].cache = at(s)
      BY <1>2, <1>6 DEF at
    <2> QED BY <1>8, <1>14, <2>1
  <1>23. \A s \in rows : /\ sequences'[s] # None
                         /\ \/ sequences[s] # None /\ sequences'[s].cache = sequences[s].cache
                            \/ sequences'[s].cache \in Free(sequences)
    BY <1>22
  <1>24. \A s, t \in rows : s # t => sequences'[s].cache # sequences'[t].cache
    BY <1>7, <1>22
  <1>25. \A x \in Address : (\A s \in rows : sequences'[s].cache # x) => caches'[x] = caches[x]
    BY <1>12, <1>22
  <1>26. rows \in SUBSET Sequence /\ \A t \in failed : t \in failed'
    BY <1>6, <1>18
  <1> QED BY ONLY BackendIInv, snapshots' = snapshots, stopped' = stopped,
                  <1>19, <1>20, <1>21, <1>23, <1>24, <1>25, <1>26, UpdateRows

LEMMA DecodeRaisesOneStep ==
    ASSUME BackendIInv, NEW S \in SUBSET Sequence, Batch(S), Cardinality(S) = 1, NEW s \in S,
           sequences' = [sequences EXCEPT ![s].mask = Append(@, 1)],
           \/ UNCHANGED caches
           \/ caches' = [caches EXCEPT ![sequences[s].cache] = Extended(@, <<sequences[s].last>>, sequences[s].position)],
           failed' = failed \cup S, UNCHANGED <<snapshots, fed, accepted, basis, cached, stopped>>
    PROVE  BackendIInv'
  <1>1. BackendTypes
    BY DEF BackendIInv
  <1>2. S = {s}
    <2>1. IsFiniteSet(S)
      BY BackendAssumption, FS_Subset
    <2>2. \E x : S = {x}
      BY <2>1, FS_Singleton
    <2> QED BY <2>2
  <1>3. s \in Sequence /\ Usable(s) /\ accepted[s] # <<>>
    BY DEF Batch, Decodable
  <1>4. /\ sequences[s] # None /\ sequences[s].cache \in Address /\ caches[sequences[s].cache] \in Seq(Entry)
        /\ RowIs(Prompt[s], sequences[s], caches[sequences[s].cache], fed[s], accepted[s], basis[s], cached[s])
    BY <1>3, UsableRow
  <1>5. PICK o : o = sequences[s]
    OBVIOUS
  <1>6. PICK x : x = o.cache
    OBVIOUS
  <1>7. PICK k : k = o.mask
    OBVIOUS
  <1>8. PICK n : n = o.position
    OBVIOUS
  <1>9. PICK l : l = o.last
    OBVIOUS
  <1>10. PICK g : g = o.logits
    OBVIOUS
  <1>11. x \in Nat /\ k \in Seq({0, 1}) /\ n \in Nat /\ l \in OptToken /\ g \in OptLogits
    BY <1>1, <1>3, <1>4, <1>5, <1>6, <1>7, <1>8, <1>9, <1>10, SequenceRecord DEF OptToken, OptLogits
  <1>12. o = [cache |-> x, mask |-> k, position |-> n, last |-> l, logits |-> g]
    BY <1>1, <1>3, <1>4, <1>5, <1>6, <1>7, <1>8, <1>9, <1>10, SequenceRecord
  <1>13. PICK j : j = Append(k, 1)
    OBVIOUS
  <1>14. j \in MaskBits
    <2>1. 1 \in {0, 1}
      OBVIOUS
    <2>2. Append(k, 1) \in Seq({0, 1})
      BY <1>11, <2>1, AppendProperties
    <2> QED BY <1>13, <2>2 DEF MaskBits
  <1>15. PICK q : q = [cache |-> x, mask |-> j, position |-> n, last |-> l, logits |-> g]
    OBVIOUS
  <1>16. q \in SequenceCache /\ q # None /\ q.cache = x
    BY ONLY <1>11, <1>14, <1>15, NewRecord
  <1>17. sequences' = [sequences EXCEPT ![s] = q]
    <2>1. PICK e : e = [o EXCEPT !.mask = Append(@, 1)]
      OBVIOUS
    <2>2. PICK y : y = [o EXCEPT !.mask = j]
      OBVIOUS
    <2>3. y = q
      BY ONLY <1>12, <1>15, <2>2
    <2>4. e = y
      BY <1>7, <1>13, <2>1, <2>2
    <2>5. sequences' = [sequences EXCEPT ![s] = e]
      BY <1>3, <1>5, <2>1
    <2> QED BY <2>3, <2>4, <2>5
  <1>18. PICK c \in Seq(Entry) : c = caches[x]
    BY <1>4, <1>5, <1>6
  <1>19. l \in Nat
    <2>1. accepted[s] \in Seq(Nat) /\ l = Last(accepted[s])
      BY <1>1, <1>3, <1>4, <1>5, <1>9 DEF BackendTypes, RowIs
    <2> QED BY <1>3, <2>1, LastFacts
  <1>20. PICK d \in Seq(Entry) : caches' = [caches EXCEPT ![x] = d]
    <2>1. CASE UNCHANGED caches
      <3>1. caches' = [caches EXCEPT ![x] = c]
        BY <1>1, <1>18, <2>1 DEF BackendTypes
      <3> QED BY <3>1
    <2>2. CASE caches' = [caches EXCEPT ![sequences[s].cache] = Extended(@, <<sequences[s].last>>, sequences[s].position)]
      <3>1. PICK u \in Seq(Nat) : u = <<l>>
        BY <1>19, SingleFacts
      <3>2. caches' = [caches EXCEPT ![x] = Extended(c, u, n)]
        BY <1>5, <1>6, <1>8, <1>9, <1>18, <2>2, <3>1
      <3>3. Extended(c, u, n) \in Seq(Entry)
        BY <1>11, ExtendedFacts
      <3> QED BY <3>2, <3>3
    <2> QED BY <2>1, <2>2
  <1>21. \/ sequences[s] # None /\ x = sequences[s].cache
         \/ x \in Free(sequences)
    BY <1>4, <1>5, <1>6
  <1>22. failed' = failed \cup {s} /\ UNCHANGED <<snapshots, fed, accepted, basis, cached, stopped>>
    BY <1>2
  <1> QED BY ONLY BackendIInv, d \in Seq(Entry), <1>3, <1>16, <1>17, <1>20, <1>21, <1>22, FailedOne

-----------------------------------------------------------------------------
(* The inductive invariant and what it implies *)

LEMMA BackendStarts ==
    ASSUME BackendInit
    PROVE  BackendIInv
  <1>1. <<>> \in Seq(Entry) /\ <<>> \in Seq(Nat)
    BY EmptySeq
  <1>2. BackendTypes
    BY <1>1 DEF BackendInit, BackendTypes, None0
  <1>3. (\A s \in Sequence : sequences[s] = None /\ fed[s] = 0 /\ accepted[s] = <<>>) /\ \A k \in Slot : snapshots[k] = None
    BY DEF BackendInit, None0
  <1>4. OwnCaches
    BY <1>3 DEF OwnCaches
  <1>5. RowsHold /\ SnapshotsHold
    BY <1>3 DEF RowsHold, RowHolds, SnapshotsHold, SnapshotHolds, Usable, Has
  <1> QED BY <1>2, <1>4, <1>5 DEF BackendIInv

LEMMA BatchStep ==
    ASSUME BackendIInv, NEW S \in SUBSET Sequence, S # {}, Prefill(S) \/ PrefillRaises(S) \/ Decode(S) \/ DecodeRaises(S)
    PROVE  BackendIInv'
  <1>1. CASE Prefill(S)
    <2>1. PICK out \in [S -> Vocabulary] : PrefillRows(S, S, out)
      BY <1>1 DEF Prefill
    <2>2. (\A s \in S : Fresh(s)) /\ snapshots' = snapshots /\ failed' = failed /\ stopped' = stopped
      BY <1>1 DEF Prefill
    <2>3. S \in SUBSET S /\ (failed' = failed \/ failed' = failed \cup S)
      BY <2>2
    <2> QED BY <2>1, <2>2, <2>3, PrefillRowsStep
  <1>2. CASE PrefillRaises(S)
    <2>1. PICK rows \in SUBSET S : \E out \in [rows -> Vocabulary] : PrefillRows(S, rows, out)
      BY <1>2 DEF PrefillRaises
    <2>2. PICK out \in [rows -> Vocabulary] : PrefillRows(S, rows, out)
      BY <2>1
    <2>3. (\A s \in S : Fresh(s)) /\ snapshots' = snapshots /\ stopped' = stopped /\ (failed' = failed \/ failed' = failed \cup S)
      BY <1>2 DEF PrefillRaises
    <2> QED BY <2>2, <2>3, PrefillRowsStep
  <1>3. CASE Decode(S)
    <2>1. PICK first \in S, out \in [S -> Vocabulary] : DecodeRows(first, S, out)
      BY <1>3 DEF Decode
    <2>2. Batch(S) /\ snapshots' = snapshots /\ failed' = failed /\ stopped' = stopped /\ fed' = fed
      BY <1>3 DEF Decode
    <2>3. S \in SUBSET S /\ (failed' = failed \/ failed' = failed \cup S)
      BY <2>2
    <2> QED BY <2>1, <2>2, <2>3, DecodeRowsStep
  <1>4. CASE DecodeRaises(S)
    <2>1. Batch(S) /\ failed' = failed \cup S /\ snapshots' = snapshots /\ fed' = fed /\ stopped' = stopped
      BY <1>4 DEF DecodeRaises
    <2>2. CASE Cardinality(S) = 1
      <3>1. UNCHANGED <<snapshots, fed, accepted, basis, cached, stopped>>
        BY <1>4, <2>1, <2>2 DEF DecodeRaises
      <3>2. PICK s \in S :
              /\ sequences' = [sequences EXCEPT ![s].mask = Append(@, 1)]
              /\ \/ UNCHANGED caches
                 \/ caches' = [caches EXCEPT ![sequences[s].cache] =
                                  Extended(@, <<sequences[s].last>>, sequences[s].position)]
        BY <1>4, <2>2 DEF DecodeRaises
      <3> QED BY <2>1, <2>2, <3>1, <3>2, DecodeRaisesOneStep
    <2>3. CASE Cardinality(S) > 1
      <3>1. ~(Cardinality(S) = 1)
        BY <2>3
      <3>2. PICK first \in S, rows \in SUBSET S : \E out \in [rows -> Vocabulary] : DecodeRows(first, rows, out)
        BY <1>4, <3>1 DEF DecodeRaises
      <3>3. PICK out \in [rows -> Vocabulary] : DecodeRows(first, rows, out)
        BY <3>2
      <3>4. failed' = failed \/ failed' = failed \cup S
        BY <2>1
      <3> QED BY <2>1, <3>3, <3>4, DecodeRowsStep
    <2> QED BY <1>4, <2>2, <2>3 DEF DecodeRaises
  <1> QED BY <1>1, <1>2, <1>3, <1>4

LEMMA BackendStep ==
    ASSUME BackendIInv, BackendNext
    PROVE  BackendIInv'
  <1>1. CASE \E S \in (SUBSET Sequence) \ {{}} : Prefill(S) \/ PrefillRaises(S) \/ Decode(S) \/ DecodeRaises(S)
    BY <1>1, BatchStep
  <1>2. ASSUME NEW s \in Sequence, \E n \in 1..Len(Prompt[s]) : PrefillChunk(s, n) \/ ChunkRaises(s, n) PROVE BackendIInv'
    BY <1>2, PrefillChunkStep, ChunkRaisesStep
  <1>3. ASSUME NEW s \in Sequence, \E k \in Slot : Snapshot(s, k) \/ Restore(s, k) \/ Resume(s, k) \/ ResumeRaises(s, k)
        PROVE  BackendIInv'
    BY <1>3, SnapshotStep, RestoreStep, ResumeStep, ResumeRaisesStep
  <1>4. ASSUME NEW s \in Sequence, ReleaseSequence(s) PROVE BackendIInv'
    BY <1>4, ReleaseSequenceStep
  <1>5. ASSUME NEW k \in Slot, Forget(k) PROVE BackendIInv'
    BY <1>5, ForgetStep
  <1>6. CASE Shutdown
    BY <1>6, ShutdownStep
  <1> QED BY <1>1, <1>2, <1>3, <1>4, <1>5, <1>6 DEF BackendNext

LEMMA BackendStutters ==
    ASSUME BackendIInv, UNCHANGED backendVars
    PROVE  BackendIInv'
  <1>1. /\ caches' = caches /\ sequences' = sequences /\ snapshots' = snapshots /\ fed' = fed /\ accepted' = accepted
        /\ basis' = basis /\ cached' = cached /\ failed' = failed /\ stopped' = stopped
    BY DEF backendVars
  <1> QED BY <1>1 DEF BackendIInv, BackendTypes, OwnCaches, RowsHold, RowHolds, SnapshotsHold, SnapshotHolds, Usable, Fresh, Has

LEMMA BackendInvariant == BackendSpec => []BackendIInv
  <1>1. BackendInit => BackendIInv
    BY BackendStarts
  <1>2. BackendIInv /\ [BackendNext]_backendVars => BackendIInv'
    BY BackendStep, BackendStutters
  <1> QED BY <1>1, <1>2, PTL DEF BackendSpec

\* What the row of an intact sequence says.
LEMMA IntactRow ==
    ASSUME BackendIInv, NEW s \in Intact
    PROVE  /\ Attended(caches[sequences[s].cache], sequences[s].mask) =
                  Given(s) \o (IF accepted[s] = <<>> THEN <<>> ELSE Front(accepted[s]))
           /\ Len(sequences[s].mask) = Len(caches[sequences[s].cache]) /\ sequences[s].position = Len(caches[sequences[s].cache])
           /\ \A i \in 2..Len(Visible(caches[sequences[s].cache], sequences[s].mask)) :
                  Visible(caches[sequences[s].cache], sequences[s].mask)[i].position =
                      Visible(caches[sequences[s].cache], sequences[s].mask)[i - 1].position + 1
           /\ accepted[s] # <<>> =>
                  /\ sequences[s].last = Last(accepted[s]) /\ cached[s] = Len(caches[sequences[s].cache])
                  /\ basis[s] = Prompt[s] \o Front(accepted[s])
  <1>1. s \in Sequence /\ Usable(s) /\ BackendTypes
    BY DEF Intact, BackendIInv
  <1>2. PICK q : q = sequences[s]
    OBVIOUS
  <1>3. PICK c : c = caches[q.cache]
    OBVIOUS
  <1>4. PICK a : a = accepted[s]
    OBVIOUS
  <1>5. PICK p \in Seq(Nat) : p = Prompt[s]
    BY <1>1, BackendAssumption
  <1>6. q # None /\ c \in Seq(Entry) /\ a \in Seq(Nat) /\ RowIs(p, q, c, fed[s], a, basis[s], cached[s])
    BY <1>1, <1>2, <1>3, <1>4, <1>5, UsableRow DEF BackendTypes
  <1>7. q.mask \in Seq({0, 1})
    BY <1>1, <1>2, <1>6, SequenceRecord
  <1>8. /\ fed[s] \in 0..Len(p) /\ Spells(c, q.mask, Spelled(p, fed[s], a)) /\ q.position = Len(c)
        /\ a # <<>> => fed[s] = Len(p) /\ q.last = Last(a) /\ cached[s] = Len(c) /\ basis[s] = p \o Front(a)
    BY <1>6 DEF RowIs
  <1>9. PICK h : h = Spelled(p, fed[s], a)
    OBVIOUS
  <1>10. PICK v : v = SubSeq(p, 1, fed[s])
    OBVIOUS
  <1>11. v \in Seq(Nat) /\ Given(s) = v
    <2>1. Len(p) \in Nat /\ \A i \in 1..Len(p) : p[i] \in Nat
      BY LenProperties, ElementOfSeq
    <2>2. fed[s] \in Int /\ 1 \in Int /\ \A i \in 1..fed[s] : p[i] \in Nat
      <3>1. \A i \in 1..fed[s] : i \in 1..Len(p)
        BY <1>8, <2>1
      <3> QED BY <1>8, <2>1, <3>1
    <2>3. v \in Seq(Nat)
      BY <1>10, <2>2, SubSeqProperties
    <2> QED BY <1>5, <1>10, <2>3 DEF Given
  <1>12. h \in Seq(Nat) /\ h = v \o (IF a = <<>> THEN <<>> ELSE Front(a))
    <2>1. CASE a = <<>>
      <3>1. h = v
        BY <1>9, <1>10, <2>1 DEF Spelled
      <3>2. v \o <<>> = v
        BY <1>11, ConcatEmptySeq
      <3> QED BY <1>11, <2>1, <3>1, <3>2
    <2>2. CASE a # <<>>
      <3>1. h = p \o Front(a)
        BY <1>9, <2>2 DEF Spelled
      <3>2. v = p
        BY <1>8, <1>10, <2>2, SubSeqFull
      <3>3. Front(a) \in Seq(Nat)
        BY <1>6, <2>2, LastFacts
      <3>4. p \o Front(a) \in Seq(Nat)
        BY <3>3, ConcatProperties
      <3> QED BY <2>2, <3>1, <3>2, <3>4
    <2> QED BY <2>1, <2>2
  <1>13. Spells(c, q.mask, h)
    BY <1>8, <1>9
  <1>14. PICK m \in Seq({0, 1}) : m = q.mask
    BY <1>7
  <1>15. /\ Attended(c, m) = h /\ Len(m) = Len(c)
         /\ \A i \in 2..Len(Visible(c, m)) : Visible(c, m)[i].position = Visible(c, m)[i - 1].position + 1
    BY <1>6, <1>12, <1>13, <1>14, SpellsMeans
  <1>16. m = sequences[s].mask /\ c = caches[sequences[s].cache]
    BY <1>2, <1>3, <1>14
  <1>17. Attended(c, m) = Given(s) \o (IF accepted[s] = <<>> THEN <<>> ELSE Front(accepted[s]))
    BY ONLY <1>4, <1>11, <1>12, <1>15
  <1>18. sequences[s].position = Len(c)
    BY <1>2, <1>8
  <1>19. accepted[s] # <<>> =>
           /\ sequences[s].last = Last(accepted[s]) /\ cached[s] = Len(c) /\ basis[s] = Prompt[s] \o Front(accepted[s])
    BY ONLY <1>2, <1>4, <1>5, <1>8
  <1> QED BY ONLY <1>15, <1>16, <1>17, <1>18, <1>19, Zenon

\* The cache of every sequence under its mask spells the prompt so far and the accepted
\* tokens but the last, in rows of their own that agree with mask, position and length:
\* prefill, prefill_chunk, resume_prefix, decode and decode_batch keep it so.
THEOREM CachesSpellSequences == BackendSpec => []CacheSpellsSequence
  <1>1. BackendIInv => CacheSpellsSequence
    <2>1. SUFFICES ASSUME BackendIInv, NEW s \in Intact
                   PROVE  LET q == sequences[s]
                              c == caches[q.cache]
                              v == Visible(c, q.mask)
                          IN  /\ Attended(c, q.mask) = Given(s) \o (IF accepted[s] = <<>> THEN <<>> ELSE Front(accepted[s]))
                              /\ \A i \in 2..Len(v) : v[i].position = v[i - 1].position + 1
                              /\ Len(q.mask) = Len(c) /\ q.position = Len(c)
                              /\ accepted[s] # <<>> => q.last = Last(accepted[s]) /\ cached[s] = Len(c)
                              /\ \A t \in Intact \ {s} : sequences[t].cache # q.cache
      BY DEF CacheSpellsSequence
    <2>2. \A t \in Intact \ {s} : sequences[t].cache # sequences[s].cache
      BY <2>1 DEF BackendIInv, OwnCaches, Intact, Usable, Has
    <2>3. /\ Attended(caches[sequences[s].cache], sequences[s].mask) =
                 Given(s) \o (IF accepted[s] = <<>> THEN <<>> ELSE Front(accepted[s]))
          /\ Len(sequences[s].mask) = Len(caches[sequences[s].cache]) /\ sequences[s].position = Len(caches[sequences[s].cache])
          /\ \A i \in 2..Len(Visible(caches[sequences[s].cache], sequences[s].mask)) :
                 Visible(caches[sequences[s].cache], sequences[s].mask)[i].position =
                     Visible(caches[sequences[s].cache], sequences[s].mask)[i - 1].position + 1
          /\ accepted[s] # <<>> =>
                 sequences[s].last = Last(accepted[s]) /\ cached[s] = Len(caches[sequences[s].cache])
      BY <2>1, IntactRow, Zenon
    <2> QED BY ONLY <2>2, <2>3, Zenon
  <1> QED BY <1>1, BackendInvariant, PTL

\* Every token was sampled from logits of its own sequence's prompt and earlier tokens,
\* whichever of prefill_batch, prefill_chunk, restore_prefix, resume_prefix and
\* decode_batch produced it, and whatever other sequences and snapshots did.
THEOREM TokensFromOwnHistory == BackendSpec => []SampledFromOwnHistory
  <1>1. BackendIInv => SampledFromOwnHistory
    BY IntactRow DEF SampledFromOwnHistory
  <1> QED BY <1>1, BackendInvariant, PTL

\* A prefix snapshot stays what snapshot_prefix made it: copies keep it apart from
\* the sequence it was taken from and from those restored or resumed from it.
THEOREM SnapshotsStayFrozen == BackendSpec => []SnapshotsFrozen
  <1>1. BackendIInv => SnapshotsFrozen
    <2>1. SUFFICES ASSUME BackendIInv, NEW k \in Slot, snapshots[k] # None
                   PROVE  /\ Attended(caches[snapshots[k].cache], snapshots[k].mask) = snapshots[k].prompt
                          /\ snapshots[k].logits = snapshots[k].prompt
                          /\ Len(snapshots[k].mask) = Len(caches[snapshots[k].cache])
                          /\ snapshots[k].position = Len(snapshots[k].mask)
      BY DEF SnapshotsFrozen
    <2>2. PICK p : p = snapshots[k].prompt
      OBVIOUS
    <2>3. PICK m : m = snapshots[k].mask
      OBVIOUS
    <2>4. PICK c : c = caches[snapshots[k].cache]
      OBVIOUS
    <2>5. /\ c \in Seq(Entry) /\ m \in Seq({0, 1}) /\ p \in Seq(Nat) /\ Spells(c, m, p)
          /\ snapshots[k].logits = p /\ snapshots[k].position = Len(c)
      BY <2>1, <2>2, <2>3, <2>4, SnapshotRow
    <2>6. Attended(c, m) = p /\ Len(m) = Len(c)
      BY <2>5, SpellsMeans
    <2> QED BY ONLY <2>2, <2>3, <2>4, <2>5, <2>6
  <1> QED BY <1>1, BackendInvariant, PTL

=============================================================================
