------------------------- MODULE TokenEngineProofs --------------------------
(***************************************************************************)
(* Proofs about TokenEngine, for every set of requests, prompts, limits,   *)
(* policies, chunk sizes, caches and pools of blocks, whether or not       *)
(* backend calls and snapshots fail.                                       *)
(*                                                                         *)
(* The inductive invariant IInv says when a sequence is active, what its   *)
(* phase says about its record, what the scheduler's loops may hold at     *)
(* each of its awaits and which results are at hand, who owns blocks and   *)
(* backend state, and what a task that has not started, or has ended, and  *)
(* a shutdown leave.  A step is proved to preserve it by the kind of step  *)
(* it is: QuietStep for one that ends no sequence, CallStep for a backend  *)
(* call, AdvanceStep for a sequence that goes on, TerminateStep and        *)
(* FinishStep for one that ends.  FaultInv, on top of it, says where the   *)
(* failures that are at hand come from.                                    *)
(***************************************************************************)
EXTENDS TokenEngine, FoldFacts

-----------------------------------------------------------------------------
(* The inductive invariant *)

Alive == {"QUEUED", "PREFILL", "DECODE"}
Unfilled == {"QUEUED", "PREFILL"}
Entries == [prompt : Seq(Nat), length : Nat]

\* The scheduler's local variables.
SchedType(s) ==
    s \in [pc : {"off", "loop", "sweep", "idle", "prefill", "restore", "call",
                     "chunks", "decode", "exited", "dead"} \cup Accepting,
               todo : Seq(Request), batch : Seq(Request), got : Seq(Result),
               entry : {<<>>} \cup Entries,
               closing : {<<>>} \cup (Request \X TerminalEvent), turn : BOOLEAN]

\* The sequence whose backend state is being released.
Closing(s) == IF s.closing = <<>> THEN {} ELSE {s.closing[1]}

\* A sequence is active while its phase says so and until it has been released.
Membership ==
    /\ IsInjective(active)
    /\ \A r \in Request : IsActive(r) <=> seq[r].phase \in Alive \/ r \in Closing(sched)
    /\ \A r \in Closing(sched) : seq[r].phase \in Terminal
    /\ \A r \in finished : seq[r].phase \in Terminal /\ ~IsActive(r)

\* What a phase says about the record.
Filled(r) ==
    /\ seq[r].phase \in {"NONE", "QUEUED"} => ~seq[r].tokenized /\ ~seq[r].created
    /\ seq[r].phase \in {"NONE", "QUEUED", "PREFILL"} => seq[r].generated = 0
    /\ seq[r].phase \in {"PREFILL", "DECODE"} => seq[r].tokenized /\ seq[r].created
    /\ seq[r].phase = "DECODE" => r \in backend /\ seq[r].generated \in 1..(MaxNew[r] - 1)
    /\ seq[r].generated <= MaxNew[r]

Records == \A r \in Request : Filled(r)

InPhase(sq, rs, P) == \A i \in DOMAIN rs : sq[rs[i]].phase \in P

\* What is to be done is to be done once, for sequences that go on.
Work(s, sq) ==
    /\ IsInjective(s.todo) /\ IsInjective(s.batch) /\ Range(s.todo) \cap Range(s.batch) = {}
    /\ InPhase(sq, s.todo, Alive) /\ InPhase(sq, s.batch, Alive)

\* A hit that waits to be restored is a prefix of the prompt.
Hit(s) ==
    /\ s.entry \in Entries
    /\ IsPrefixOf(s.entry.prompt, Prompt[s.todo[1]])
    /\ Len(s.entry.prompt) <= s.entry.length

\* Where the scheduler's loops may be.
Stage(s, sq) ==
    /\ s.pc \in {"off", "loop", "idle", "exited"} => s.todo = <<>>
    /\ s.pc \in {"off", "loop", "idle", "exited", "sweep", "chunks", "acceptChunk",
                 "acceptPrefill", "acceptDecode"} => s.batch = <<>>
    /\ s.pc \in {"prefill", "restore", "chunks"} \cup Accepting => s.todo # <<>>
    /\ s.pc \in {"call", "decode"} => s.todo = <<>> /\ s.batch # <<>>
    /\ s.pc \in {"prefill", "restore", "acceptRestore"} => InPhase(sq, s.todo, Unfilled)
    /\ s.pc \in {"restore", "acceptRestore"} => sq[s.todo[1]].phase = "PREFILL" /\ Hit(s)
    /\ s.pc \in {"prefill", "restore", "acceptRestore", "call"} => InPhase(sq, s.batch, {"PREFILL"})
    /\ s.pc \in {"chunks", "acceptChunk", "acceptPrefill"} => InPhase(sq, s.todo, {"PREFILL"})
    /\ s.pc = "acceptDecode" => InPhase(sq, s.todo, {"DECODE"})
    /\ s.pc = "decode" => /\ InPhase(sq, s.batch, {"DECODE"}) /\ Len(s.batch) <= MaxBatch
                          /\ \A i \in DOMAIN s.batch : sq[s.batch[i]].length = sq[s.batch[1]].length

\* The results at hand are those of the next sequences; one that did not fail left
\* its sequence in the backend, with the whole prompt in its cache.
Results(s, sq, bk) ==
    /\ s.pc \in {"acceptPrefill", "acceptDecode"} => Len(s.got) = Len(s.todo)
    /\ s.pc \in {"acceptRestore", "acceptChunk"} => Len(s.got) = 1
    /\ s.pc \in Accepting => \A i \in DOMAIN s.got : s.got[i] # "fail" =>
          s.todo[i] \in bk /\ (s.pc # "acceptDecode" => Len(Prompt[s.todo[i]]) <= sq[s.todo[i]].length)

Plan(s, sq, bk) == Work(s, sq) /\ Stage(s, sq) /\ Results(s, sq, bk)

\* A cache as CacheIsBounded asks for it.
Bounded(c) ==
    /\ c \in Seq(Entries) /\ Fits(c, MaxEntries, MaxCached)
    /\ \A i, j \in DOMAIN c : c[i].prompt = c[j].prompt => i = j
    /\ \A i \in DOMAIN c : Len(c[i].prompt) <= c[i].length

\* Blocks and backend state belong to active sequences, as many blocks as were
\* asked for before the prompt is known and as many as it needs afterwards.
Ownership ==
    /\ DOMAIN holds = Range(active)
    /\ \A r \in DOMAIN holds : KV!Exclusive(r)
    /\ \A r \in backend : IsActive(r) /\ seq[r].created
    /\ \A r \in Range(active) :
          IF seq[r].tokenized THEN Len(Prompt[r]) + MaxNew[r] <= Cardinality(holds[r]) * BlockSize
          ELSE Cardinality(holds[r]) = BlocksForTokens(Estimate[r] + MaxNew[r])

\* What the task that has not started, or has ended, and shutdown leave.
Quiet ==
    /\ sched.pc = "off" => sched.closing = <<>> /\ backend = {}
    /\ sched.pc = "exited" => closed /\ active = <<>>
    /\ NoLostWakeup
    /\ closed <=> down # "no"
    /\ down \in {"stopping", "done"} => active = <<>>
    /\ down = "done" => backend = {} /\ cache = <<>>

\* The inductive invariant.
IInv ==
    /\ TypeOK /\ SchedType(sched) /\ Membership /\ Records /\ Plan(sched, seq, backend)
    /\ Ownership /\ Bounded(cache) /\ Quiet /\ StreamsEndOnce

-----------------------------------------------------------------------------
(* Blocks *)

\* blocks_for_tokens rounds up.
LEMMA BlocksCover ==
    ASSUME NEW n \in Nat
    PROVE  BlocksForTokens(n) \in Nat /\ n <= BlocksForTokens(n) * BlockSize
  <1>1. BlockSize \in Nat \ {0}
    BY EngineAssumption
  <1>2. PICK m \in Nat : m = n + BlockSize - 1
    <2>1. n + BlockSize - 1 \in Nat
      BY <1>1
    <2> QED BY <2>1
  <1>3. PICK d \in Nat, e \in Nat : d = m \div BlockSize /\ e = m % BlockSize /\ e < BlockSize
    BY <1>1
  <1>4. m = BlockSize * d + e
    BY <1>1, <1>3
  <1>5. PICK p \in Nat : p = BlockSize * d /\ p = d * BlockSize
    BY <1>1
  <1>6. n <= p
    BY <1>1, <1>2, <1>3, <1>4, <1>5
  <1> QED BY <1>2, <1>3, <1>5, <1>6 DEF BlocksForTokens

\* There are as many blocks as are chosen of a set that has them.
LEMMA SomeFacts ==
    ASSUME NEW S, IsFiniteSet(S), NEW n \in Nat, n <= Cardinality(S)
    PROVE  Some(n, S) \subseteq S /\ Cardinality(Some(n, S)) = n /\ IsFiniteSet(Some(n, S))
  <1>1. PICK bad : bad = {T \in SUBSET S : n <= Cardinality(T)}
    OBVIOUS
  <1>2. S \in bad /\ \A T \in bad : T \subseteq S
    BY <1>1
  <1>3. PICK T \in bad : IsFiniteSet(T) /\ \A x \in T : T \ {x} \notin bad
    BY <1>2, SmallestSet
  <1>4. T \in SUBSET S /\ Cardinality(T) \in Nat /\ n <= Cardinality(T)
    BY <1>1, <1>3, FS_CardinalityType
  <1>5. ASSUME n < Cardinality(T) PROVE FALSE
    <2>1. PICK x : x \in T
      BY <1>4, <1>5, FS_EmptySet
    <2>2. Cardinality(T \ {x}) = Cardinality(T) - 1
      BY <1>3, <2>1, FS_RemoveElement
    <2>3. T \ {x} \in bad
      BY <1>1, <1>4, <1>5, <2>2
    <2> QED BY <1>3, <2>1, <2>3
  <1>6. Cardinality(T) = n
    BY <1>4, <1>5
  <1>7. \E U \in SUBSET S : Cardinality(U) = n
    BY <1>4, <1>6
  <1>8. Some(n, S) \in SUBSET S /\ Cardinality(Some(n, S)) = n
    BY <1>7 DEF Some
  <1> QED BY <1>8, FS_Subset

-----------------------------------------------------------------------------
(* Sequences of requests *)

\* Taking a request out of the active ones.
LEMMA DropFacts ==
    ASSUME NEW s \in Seq(Request), IsInjective(s), NEW r
    PROVE  Drop(s, r) \in Seq(Request) /\ Range(Drop(s, r)) = Range(s) \ {r} /\ IsInjective(Drop(s, r))
  <1>1. Range(s) \subseteq Request
    BY DEF Range
  <1>2. PICK S : S = Request \ {r}
    OBVIOUS
  <1>3. Keep(s, S) \in Seq(Request) /\ Range(Keep(s, S)) = Range(s) \cap S /\ IsInjective(Keep(s, S))
    BY KeepFacts
  <1> QED BY <1>1, <1>2, <1>3 DEF Drop

\* The first n of a sequence.
LEMMA FirstFacts ==
    ASSUME NEW s \in Seq(Request), IsInjective(s), NEW n \in Nat \ {0}
    PROVE  /\ First(s, n) \in Seq(Request) /\ Range(First(s, n)) \subseteq Range(s)
           /\ IsInjective(First(s, n)) /\ Len(First(s, n)) <= n
           /\ s # <<>> => First(s, n) # <<>>
  <1>1. Len(s) \in Nat
    OBVIOUS
  <1>2. PICK k \in 0..Len(s) : k = (IF n < Len(s) THEN n ELSE Len(s)) /\ k <= n /\ (Len(s) > 0 => k > 0)
    BY <1>1
  <1>3. PICK p, q : Cut(s, k, p, q)
    BY <1>2 DEF Cut
  <1>4. p = First(s, n)
    BY <1>2, <1>3 DEF Cut, First
  <1>5. p \in Seq(Request) /\ Len(p) = k /\ Range(s) = Range(p) \cup Range(q)
    BY <1>3, CutInTwo
  <1>6. IsInjective(p)
    BY <1>3, CutInTwo
  <1>7. s # <<>> => Len(s) > 0
    OBVIOUS
  <1>8. k > 0 => p # <<>>
    BY <1>5
  <1> QED BY <1>2, <1>4, <1>5, <1>6, <1>7, <1>8

\* The longest of the prompts in a batch.
LEMMA WidestFacts ==
    ASSUME NEW s \in Seq(Request), s # <<>>, NEW L, L = {Len(Prompt[r]) : r \in Range(s)}
    PROVE  LargestOf(L) \in Nat /\ \A i \in DOMAIN s : Len(Prompt[s[i]]) <= LargestOf(L)
  <1>1. PICK n \in Nat \ {0} : n = Len(s) /\ DOMAIN s = 1..n
    OBVIOUS
  <1>2. \A i \in 1..n : s[i] \in Request /\ Len(Prompt[s[i]]) \in Nat
    BY <1>1, EngineAssumption
  <1>3. PICK D : D = 1..n /\ IsFiniteSet(D) /\ D \subseteq Nat /\ D # {}
    <2>1. IsFiniteSet(1..n)
      BY FS_Interval
    <2>2. 1..n \subseteq Nat /\ 1 \in 1..n
      OBVIOUS
    <2> QED BY <2>1, <2>2
  <1>4. PICK f : \A i \in D : f[i] \in Int /\ f[i] = 0 - Len(Prompt[s[i]])
    <2> DEFINE f == [i \in D |-> 0 - Len(Prompt[s[i]])]
    <2>1. \A i \in D : f[i] \in Int /\ f[i] = 0 - Len(Prompt[s[i]])
      BY <1>2, <1>3
    <2> QED BY <2>1
  <1>5. PICK w \in D : \A x \in D : f[w] < f[x] \/ (f[w] = f[x] /\ w <= x)
    <2>1. \A i \in D : f[i] \in Int
      BY <1>4
    <2> QED BY ONLY <1>3, <2>1, LeastScore
  <1>6. \A x \in D : Len(Prompt[s[w]]) >= Len(Prompt[s[x]])
    BY <1>2, <1>3, <1>4, <1>5
  <1>7. L = {Len(Prompt[s[i]]) : i \in D}
    BY <1>1, <1>3 DEF Range
  <1>8. LargestOf(L) \in L /\ \A m \in L : LargestOf(L) >= m
    <2>1. Len(Prompt[s[w]]) \in L /\ \A m \in L : Len(Prompt[s[w]]) >= m
      BY <1>6, <1>7
    <2> QED BY <2>1 DEF LargestOf
  <1> QED BY <1>1, <1>2, <1>3, <1>7, <1>8

\* The waiting and the running sequences are the active ones, by phase.
LEMMA SetsFacts ==
    ASSUME TypeOK, IsInjective(active)
    PROVE  /\ Waiting \in Seq(Request) /\ Running \in Seq(Request)
           /\ IsInjective(Waiting) /\ IsInjective(Running)
           /\ Range(Waiting) = {r \in Range(active) : seq[r].phase \in Unfilled}
           /\ Range(Running) = {r \in Range(active) : seq[r].phase = "DECODE"}
  <1>1. active \in Seq(Request) /\ Range(active) \subseteq Request
    BY DEF TypeOK, Range
  <1>2. PICK W : W = {r \in Request : seq[r].phase \in {"QUEUED", "PREFILL"}}
    OBVIOUS
  <1>3. PICK R : R = {r \in Request : seq[r].phase = "DECODE"}
    OBVIOUS
  <1>4. Keep(active, W) \in Seq(Request) /\ IsInjective(Keep(active, W)) /\ Range(Keep(active, W)) = Range(active) \cap W
    BY <1>1, KeepFacts
  <1>5. Keep(active, R) \in Seq(Request) /\ IsInjective(Keep(active, R)) /\ Range(Keep(active, R)) = Range(active) \cap R
    BY <1>1, KeepFacts
  <1>6. Waiting = Keep(active, W) /\ Running = Keep(active, R)
    BY <1>2, <1>3 DEF Waiting, Running
  <1> QED BY <1>1, <1>2, <1>3, <1>4, <1>5, <1>6 DEF Unfilled

\* The decode batch: running sequences, no more than fit, with equal cache lengths.
LEMMA DecodeIdsFacts ==
    ASSUME TypeOK, IsInjective(active), Running # <<>>
    PROVE  /\ DecodeIds \in Seq(Request) /\ IsInjective(DecodeIds) /\ Range(DecodeIds) \subseteq Range(Running)
           /\ DecodeIds # <<>> /\ Len(DecodeIds) <= MaxBatch
           /\ \A i, j \in DOMAIN DecodeIds : seq[DecodeIds[i]].length = seq[DecodeIds[j]].length
  <1>1. PICK c : /\ c = First(Running, MaxBatch) /\ c \in Seq(Request) /\ IsInjective(c)
                 /\ Range(c) \subseteq Range(Running) /\ Len(c) <= MaxBatch /\ c # <<>>
    BY SetsFacts, FirstFacts, EngineAssumption
  <1>2. PICK L : L = {seq[r].length : r \in Range(c)}
    OBVIOUS
  <1>3. L \subseteq Nat /\ L # {}
    <2>1. \A r \in Range(c) : r \in Request /\ seq[r].length \in Nat
      BY <1>1 DEF TypeOK, Range
    <2>2. c[1] \in Range(c)
      BY <1>1 DEF Range
    <2> QED BY <1>2, <2>1, <2>2
  <1>4. SmallestOf(L) \in L
    <2>1. \E i \in L : \A j \in L : i <= j
      BY <1>3, LeastNatural
    <2> QED BY <2>1 DEF SmallestOf
  <1>5. PICK S : S = {r \in Request : seq[r].length = SmallestOf(L)}
    OBVIOUS
  <1>6. DecodeIds = Keep(c, S)
    BY <1>1, <1>2, <1>5 DEF DecodeIds
  <1>7. PICK d : d = Keep(c, S) /\ d \in Seq(Request) /\ Len(d) <= Len(c) /\ IsInjective(d) /\ Range(d) = Range(c) \cap S
    BY <1>1, KeepFacts
  <1>8. Range(d) # {}
    <2>1. PICK r \in Range(c) : seq[r].length = SmallestOf(L)
      BY <1>2, <1>4
    <2>2. r \in Request
      BY <1>1 DEF Range
    <2> QED BY <1>5, <1>7, <2>1, <2>2
  <1>9. d # <<>>
    BY <1>8 DEF Range
  <1>10. \A i \in DOMAIN d : d[i] \in S
    BY <1>7 DEF Range
  <1>11. Len(d) \in Nat /\ Len(c) \in Nat /\ MaxBatch \in Nat
    BY <1>1, <1>7, EngineAssumption
  <1>12. Len(d) <= MaxBatch
    BY <1>1, <1>7, <1>11
  <1>13. \A i, j \in DOMAIN d : seq[d[i]].length = seq[d[j]].length
    BY <1>5, <1>10
  <1> QED BY <1>1, <1>6, <1>7, <1>9, <1>12, <1>13

-----------------------------------------------------------------------------
(* The prefix cache *)

\* The running totals of the lengths of cached prompts.
Totals(c, g) == g[0] = 0 /\ \A i \in 1..Len(c) : g[i] = g[i - 1] + Len(c[i].prompt)

\* CachedTokens is the last of them.
LEMMA TotalsExist ==
    ASSUME NEW c \in Seq(Entries)
    PROVE  \E g : Totals(c, g) /\ CachedTokens(c) = g[Len(c)] /\ \A i \in 0..Len(c) : g[i] \in Nat
  <1> DEFINE n == Len(c)
             Is(g) == g = [i \in 0..n |-> IF i = 0 THEN 0 ELSE g[i - 1] + Len(c[i].prompt)]
             step == [p \in Nat \X (1..n) |-> p[1] + Len(c[p[2]].prompt)]
  <1>0. n \in Nat /\ \A i \in 1..n : Len(c[i].prompt) \in Nat
    BY DEF Entries
  <1>1. step \in [Nat \X (1..n) -> Nat]
    BY <1>0
  <1>2. PICK g \in [0..n -> Nat] : g[0] = 0 /\ \A i \in 1..n : g[i] = step[<<g[i - 1], i>>]
    <2> DEFINE A == Nat
               base == 0
    <2>1. base \in A /\ Steps(A, n, step)
      BY <1>1 DEF Steps
    <2> HIDE DEF A, base, n, step
    <2>2. PICK g : Iteration(A, base, n, step, g)
      BY <1>0, <2>1, Iterates
    <2> QED BY <2>2 DEF A, base, Iteration
  <1>3. \A i \in 1..n : g[i] = g[i - 1] + Len(c[i].prompt)
    <2> SUFFICES ASSUME NEW i \in 1..n PROVE g[i] = g[i - 1] + Len(c[i].prompt)
      OBVIOUS
    <2>1. g[i - 1] \in Nat /\ g[i] = step[<<g[i - 1], i>>]
      <3>1. i - 1 \in 0..n
        BY <1>0
      <3> HIDE DEF step, n
      <3> QED BY <1>2, <3>1
    <2> QED BY <2>1
  <1>4. Is(g)
    <2>1. \A i \in 0..n : i # 0 => i \in 1..n
      BY <1>0
    <2> HIDE DEF n, step
    <2> QED BY <1>2, <1>3, <2>1
  <1>5. PICK h : Is(h) /\ CachedTokens(c) = h[n]
    BY <1>4 DEF CachedTokens
  <1>6. h[0] = 0 /\ \A i \in 1..n : h[i] = h[i - 1] + Len(c[i].prompt)
    <2>1. 0 \in 0..n /\ \A i \in 1..n : i \in 0..n /\ i # 0
      BY <1>0
    <2> HIDE DEF n, step
    <2> QED BY <1>5, <2>1
  <1>7. \A i \in 0..n : h[i] \in Nat
    <2>1. PICK S : S = {i \in 0..n : h[i] \in Nat}
      OBVIOUS
    <2>2. 0 \in S /\ \A i \in 1..n : i - 1 \in S => i \in S
      <3> HIDE DEF n, step, Is
      <3>1. 0 \in S
        BY <1>0, <1>6, <2>1
      <3>2. ASSUME NEW i \in 1..n, i - 1 \in S PROVE i \in S
        <4>1. h[i - 1] \in Nat /\ Len(c[i].prompt) \in Nat /\ h[i] = h[i - 1] + Len(c[i].prompt) /\ i \in 0..n
          BY <1>0, <1>6, <2>1, <3>2
        <4> QED BY <2>1, <4>1
      <3> QED BY <3>1, <3>2
    <2>3. \A i \in 0..n : i \in S
      <3> HIDE DEF n, step, Is
      <3> QED BY <1>0, <2>2, Climbs
    <2> QED BY <2>1, <2>3
  <1> QED BY <1>5, <1>6, <1>7 DEF Totals

\* The same totals give the same sum.
LEMMA MovedTotals ==
    ASSUME NEW c \in Seq(Entries), NEW d \in Seq(Entries), NEW k \in 1..Len(c), Len(d) = Len(c),
           \A i \in 1..Len(c) : d[i] = IF i < k THEN c[i] ELSE IF i < Len(c) THEN c[i + 1] ELSE c[k]
    PROVE  CachedTokens(d) = CachedTokens(c)
  <1>1. PICK n \in Nat : n = Len(c) /\ k \in 1..n
    OBVIOUS
  <1>2. PICK g : Totals(c, g) /\ CachedTokens(c) = g[n] /\ \A i \in 0..n : g[i] \in Nat
    BY <1>1, TotalsExist
  <1>3. PICK h : Totals(d, h) /\ CachedTokens(d) = h[n] /\ \A i \in 0..n : h[i] \in Nat
    BY <1>1, TotalsExist
  <1>4. \A i \in 1..n : Len(c[i].prompt) \in Nat
    BY <1>1 DEF Entries
  <1>5. PICK l : l \in [1..n -> Nat] /\ \A i \in 1..n : l[i] = Len(c[i].prompt)
    <2> DEFINE l == [i \in 1..n |-> Len(c[i].prompt)]
    <2>1. l \in [1..n -> Nat] /\ \A i \in 1..n : l[i] = Len(c[i].prompt)
      BY <1>4
    <2> QED BY <2>1
  <1>6. g[0] = 0 /\ \A i \in 1..n : g[i] = g[i - 1] + l[i]
    BY <1>1, <1>2, <1>5 DEF Totals
  <1>7. h[0] = 0 /\ \A i \in 1..n : h[i] = h[i - 1] + (IF i < k THEN l[i] ELSE IF i < n THEN l[i + 1] ELSE l[k])
    <2>1. h[0] = 0 /\ \A i \in 1..n : h[i] = h[i - 1] + Len(d[i].prompt)
      BY <1>1, <1>3 DEF Totals
    <2>2. \A i \in 1..n : Len(d[i].prompt) = IF i < k THEN l[i] ELSE IF i < n THEN l[i + 1] ELSE l[k]
      BY <1>1, <1>5
    <2> QED BY <2>1, <2>2
  <1>8. PICK S : S = {i \in 0..n : IF i < k THEN h[i] = g[i]
                                   ELSE IF i < n THEN h[i] + l[k] = g[i + 1] ELSE h[i] = g[n]}
    OBVIOUS
  <1>9. 0 \in S
    BY <1>1, <1>6, <1>7, <1>8
  <1>10. \A i \in 1..n : i - 1 \in S => i \in S
    <2> SUFFICES ASSUME NEW i \in 1..n, i - 1 \in S PROVE i \in S
      OBVIOUS
    <2>1. /\ g[i] \in Nat /\ g[i - 1] \in Nat /\ h[i] \in Nat /\ h[i - 1] \in Nat /\ l[i] \in Nat /\ l[k] \in Nat
          /\ g[k] \in Nat /\ g[k - 1] \in Nat /\ g[k] = g[k - 1] + l[k] /\ g[i] = g[i - 1] + l[i]
      BY <1>1, <1>2, <1>3, <1>5, <1>6
    <2>2. IF i - 1 < k THEN h[i - 1] = g[i - 1] ELSE IF i - 1 < n THEN h[i - 1] + l[k] = g[i] ELSE h[i - 1] = g[n]
      BY <1>1, <1>8
    <2>3. CASE i < k
      <3>1. h[i] = g[i]
        BY <1>1, <1>7, <2>1, <2>2, <2>3
      <3> QED BY <1>1, <1>8, <2>3, <3>1
    <2>4. CASE i >= k /\ i < n
      <3>1. l[i + 1] \in Nat /\ g[i + 1] \in Nat /\ g[i + 1] = g[i] + l[i + 1] /\ h[i] = h[i - 1] + l[i + 1]
        BY <1>1, <1>2, <1>5, <1>6, <1>7, <2>4
      <3>2. h[i] + l[k] = g[i + 1]
        <4>1. CASE i = k
          BY <1>1, <2>1, <2>2, <3>1, <4>1
        <4>2. CASE i > k
          <5>1. h[i - 1] + l[k] = g[i]
            BY <1>1, <2>2, <2>4, <4>2
          <5>2. \A x, y, z, w \in Nat : x + y = z => (x + w) + y = z + w
            OBVIOUS
          <5>3. (h[i - 1] + l[i + 1]) + l[k] = g[i] + l[i + 1]
            <6>1. h[i - 1] \in Nat /\ l[k] \in Nat /\ g[i] \in Nat /\ l[i + 1] \in Nat
              BY <2>1, <3>1
            <6> QED BY ONLY <5>1, <5>2, <6>1
          <5> QED BY <3>1, <5>3
        <4> QED BY <1>1, <2>4, <4>1, <4>2
      <3> QED BY <1>1, <1>8, <2>4, <3>2
    <2>5. CASE i = n
      <3>1. h[n] = h[n - 1] + l[k]
        BY <1>1, <1>7
      <3>2. h[n] = g[n]
        <4>1. CASE n = k
          BY <1>1, <2>1, <2>2, <2>5, <3>1, <4>1
        <4>2. CASE n > k
          BY <1>1, <2>1, <2>2, <2>5, <3>1, <4>2
        <4> QED BY <1>1, <4>1, <4>2
      <3> QED BY <1>1, <1>8, <2>5, <3>2
    <2> QED BY <1>1, <2>3, <2>4, <2>5
  <1>11. n \in S
    <2>1. \A i \in 0..n : i \in S
      BY <1>9, <1>10, Climbs
    <2> QED BY <2>1
  <1> QED BY <1>1, <1>2, <1>3, <1>8, <1>11

\* A hit becomes the most recently used entry.
LEMMA MoveToEndBounded ==
    ASSUME NEW c, Bounded(c), NEW k \in DOMAIN c
    PROVE  Bounded(MoveToEnd(c, k))
  <1>1. PICK n \in Nat : n = Len(c) /\ DOMAIN c = 1..n /\ k \in 1..n /\ c \in Seq(Entries)
    BY DEF Bounded
  <1>2. PICK d : d = MoveToEnd(c, k)
    OBVIOUS
  <1>3. PICK a : a = SubSeq(c, 1, k - 1) /\ a \in Seq(Entries) /\ Len(a) = k - 1 /\ \A i \in 1..(k - 1) : a[i] = c[i]
    <2>1. k - 1 \in 0..Len(c)
      BY <1>1
    <2>2. PICK a, z : Cut(c, k - 1, a, z)
      BY <2>1 DEF Cut
    <2>3. a \in Seq(Entries) /\ Len(a) = k - 1 /\ a = SubSeq(c, 1, k - 1)
      BY <1>1, <2>2, CutInTwo DEF Cut
    <2>4. \A i \in 1..(k - 1) : a[i] = c[i]
      BY <1>1, <2>3
    <2> QED BY <2>3, <2>4
  <1>4. PICK b : b = SubSeq(c, k + 1, n) /\ b \in Seq(Entries) /\ Len(b) = n - k /\ \A i \in 1..(n - k) : b[i] = c[k + i]
    <2>1. k \in 0..Len(c)
      BY <1>1
    <2>2. PICK z, b : Cut(c, k, z, b)
      BY <2>1 DEF Cut
    <2>3. b \in Seq(Entries) /\ Len(b) = n - k /\ b = SubSeq(c, k + 1, n) /\ \A i \in 1..(n - k) : b[i] = c[k + i]
      BY <1>1, <2>2, CutInTwo DEF Cut
    <2> QED BY <2>3
  <1>5. PICK e : e = a \o b /\ e \in Seq(Entries) /\ Len(e) = n - 1
                 /\ \A i \in 1..(n - 1) : e[i] = IF i < k THEN c[i] ELSE c[i + 1]
    <2>1. PICK e : e = a \o b
      OBVIOUS
    <2>2. e \in Seq(Entries) /\ Len(e) = Len(a) + Len(b)
      BY <1>3, <1>4, <2>1, ConcatFacts
    <2>3. Len(a) = k - 1 /\ Len(b) = n - k /\ k \in Int /\ n \in Int
      BY <1>1, <1>3, <1>4
    <2>4. Len(e) = n - 1
      BY ONLY <2>2, <2>3
    <2>5. \A i \in 1..(k - 1) : e[i] = c[i]
      <3>1. \A i \in 1..(k - 1) : (a \o b)[i] = a[i]
        BY <1>3, <1>4, ConcatFacts
      <3> QED BY <1>3, <2>1, <3>1
    <2>6. \A i \in k..(n - 1) : e[i] = c[i + 1]
      <3> SUFFICES ASSUME NEW i \in k..(n - 1) PROVE e[i] = c[i + 1]
        OBVIOUS
      <3>1. i \in 1..(Len(a) + Len(b)) /\ ~(i <= Len(a)) /\ i - Len(a) \in 1..(n - k) /\ k + (i - Len(a)) = i + 1
        BY ONLY <2>3, i \in k..(n - 1), k \in 1..n
      <3>2. e[i] = b[i - Len(a)]
        BY <1>3, <1>4, <2>1, <3>1, ConcatProperties
      <3> QED BY <1>4, <3>1, <3>2
    <2>7. \A i \in 1..(n - 1) : IF i < k THEN i \in 1..(k - 1) ELSE i \in k..(n - 1)
      BY ONLY <2>3
    <2> QED BY ONLY <2>1, <2>2, <2>4, <2>5, <2>6, <2>7
  <1>6. d = Append(e, c[k]) /\ c[k] \in Entries
    BY <1>1, <1>2, <1>3, <1>4, <1>5 DEF MoveToEnd, WithoutPosition
  <1>7. d \in Seq(Entries) /\ Len(d) = n /\ DOMAIN d = 1..n
    BY <1>1, <1>5, <1>6
  <1>8. \A i \in 1..n : d[i] = IF i < k THEN c[i] ELSE IF i < n THEN c[i + 1] ELSE c[k]
    <2>1. \A i \in 1..(n - 1) : d[i] = e[i]
      BY <1>1, <1>5, <1>6
    <2>2. d[n] = c[k]
      BY <1>1, <1>5, <1>6
    <2>3. \A i \in 1..n : IF i < k THEN i \in 1..(n - 1) ELSE IF i < n THEN i \in 1..(n - 1) ELSE i = n
      BY <1>1
    <2>4. \A i \in 1..(n - 1) : e[i] = IF i < k THEN c[i] ELSE c[i + 1]
      BY <1>5
    <2> QED BY ONLY <2>1, <2>2, <2>3, <2>4
  <1>9. CachedTokens(d) = CachedTokens(c)
    BY <1>1, <1>7, <1>8, MovedTotals
  <1>10. Fits(d, MaxEntries, MaxCached)
    BY <1>1, <1>7, <1>9 DEF Bounded, Fits
  <1>11. ASSUME NEW i \in 1..n, NEW j \in 1..n, d[i].prompt = d[j].prompt PROVE i = j
    <2>1. \A x, y \in 1..n : c[x].prompt = c[y].prompt => x = y
      BY <1>1 DEF Bounded
    <2> QED BY <1>1, <1>8, <1>11, <2>1
  <1>12. \A i \in 1..n : Len(d[i].prompt) <= d[i].length
    <2>1. \A x \in 1..n : Len(c[x].prompt) <= c[x].length
      BY <1>1 DEF Bounded
    <2> QED BY <1>1, <1>8, <2>1
  <1> QED BY <1>2, <1>7, <1>10, <1>11, <1>12 DEF Bounded

\* An empty cache fits.
LEMMA EmptyBounded == Bounded(<<>>)
  <1>1. <<>> \in Seq(Entries) /\ Len(<<>>) = 0 /\ DOMAIN <<>> = {}
    OBVIOUS
  <1>2. PICK g : Totals(<<>>, g) /\ CachedTokens(<<>>) = g[0]
    BY <1>1, TotalsExist
  <1>3. CachedTokens(<<>>) = 0
    BY <1>2 DEF Totals
  <1>4. Fits(<<>>, MaxEntries, MaxCached)
    BY <1>1, <1>3, EngineAssumption DEF Fits
  <1> QED BY <1>1, <1>4 DEF Bounded

\* Eviction makes room, and only drops entries.
LEMMA EvictedBounded ==
    ASSUME NEW c \in Seq(Entries),
           \A i, j \in DOMAIN c : c[i].prompt = c[j].prompt => i = j,
           \A i \in DOMAIN c : Len(c[i].prompt) <= c[i].length
    PROVE  Bounded(Evicted(c, MaxEntries, MaxCached))
  <1>1. PICK D : D = {n \in 0..Len(c) : Fits(SubSeq(c, n + 1, Len(c)), MaxEntries, MaxCached)}
    OBVIOUS
  <1>2. Len(c) \in D
    <2>1. SubSeq(c, Len(c) + 1, Len(c)) = <<>> /\ Len(c) \in 0..Len(c)
      OBVIOUS
    <2> QED BY <1>1, <2>1, EmptyBounded DEF Bounded
  <1>3. D \subseteq Nat
    BY <1>1
  <1>4. PICK k \in D : \A m \in D : k <= m
    BY <1>2, <1>3, LeastNatural
  <1>5. PICK f : f \in D /\ f = CHOOSE n \in D : \A m \in D : n <= m
    BY <1>4
  <1>6. Evicted(c, MaxEntries, MaxCached) = SubSeq(c, f + 1, Len(c))
    BY <1>1, <1>5 DEF Evicted
  <1>7. PICK d : d = SubSeq(c, f + 1, Len(c)) /\ Fits(d, MaxEntries, MaxCached) /\ f \in 0..Len(c)
    <2>1. f \in D
      BY <1>5
    <2> QED BY ONLY <1>1, <2>1
  <1>8. PICK p : Cut(c, f, p, d)
    BY <1>7 DEF Cut
  <1>9. d \in Seq(Entries) /\ Len(d) = Len(c) - f /\ \A j \in 1..(Len(c) - f) : d[j] = c[f + j]
    BY <1>8, CutInTwo
  <1>10. \A j \in DOMAIN d : f + j \in DOMAIN c /\ d[j] = c[f + j] /\ j \in Nat
    BY <1>7, <1>9
  <1>11. \A i, j \in DOMAIN d : d[i].prompt = d[j].prompt => i = j
    <2>1. f \in Nat /\ \A x, y \in Nat : f + x = f + y => x = y
      BY <1>7
    <2> QED BY <1>10, <2>1
  <1>12. \A i \in DOMAIN d : Len(d[i].prompt) <= d[i].length
    BY <1>10
  <1> QED BY <1>6, <1>7, <1>9, <1>11, <1>12 DEF Bounded

\* put keeps the cache within its limits and its keys apart.
LEMMA PutEntryBounded ==
    ASSUME NEW c, Bounded(c), NEW p \in Seq(Nat), NEW l \in Nat, Len(p) <= l
    PROVE  Bounded(PutEntry(c, p, l, MaxEntries, MaxCached))
  <1>1. c \in Seq(Entries)
    BY DEF Bounded
  <1>2. PICK S : S = {e \in Range(c) : e.prompt # p}
    OBVIOUS
  <1>3. IsInjective(c)
    BY <1>1 DEF Bounded, IsInjective
  <1>4. PICK w : w = Keep(c, S) /\ w \in Seq(Entries) /\ Range(w) = Range(c) \cap S /\ IsInjective(w)
    BY <1>1, <1>3, KeepFacts
  <1>5. w = WithoutKey(c, p)
    BY <1>2, <1>4 DEF WithoutKey
  <1>6. \A i \in DOMAIN w : w[i].prompt # p /\ \E a \in DOMAIN c : w[i] = c[a]
    BY <1>2, <1>4 DEF Range
  <1>7. \A i, j \in DOMAIN w : w[i].prompt = w[j].prompt => i = j
    BY <1>4, <1>6 DEF IsInjective, Bounded
  <1>8. \A i \in DOMAIN w : Len(w[i].prompt) <= w[i].length
    BY <1>6 DEF Bounded
  <1>9. PICK e : e \in Entries /\ e = [prompt |-> p, length |-> l] /\ e.prompt = p /\ e.length = l
    <2> DEFINE e == [prompt |-> p, length |-> l]
    <2>1. e \in [prompt : Seq(Nat), length : Nat] /\ e.prompt = p /\ e.length = l
      OBVIOUS
    <2> QED BY <2>1, Zenon DEF Entries
  <1>10. PICK d : d = Append(w, e) /\ d \in Seq(Entries)
    BY <1>4, <1>9, AppendFacts
  <1>11. \A i \in DOMAIN d : (i \in DOMAIN w /\ d[i] = w[i]) \/ (i = Len(w) + 1 /\ d[i] = e)
    BY <1>4, <1>9, <1>10
  <1>12. \A i, j \in DOMAIN d : d[i].prompt = d[j].prompt => i = j
    BY <1>6, <1>7, <1>9, <1>11
  <1>13. \A i \in DOMAIN d : Len(d[i].prompt) <= d[i].length
    BY <1>8, <1>9, <1>11
  <1>14. Bounded(Evicted(d, MaxEntries, MaxCached))
    BY <1>10, <1>12, <1>13, EvictedBounded
  <1> QED BY <1>5, <1>9, <1>10, <1>14 DEF PutEntry

-----------------------------------------------------------------------------
(* The scheduler's plan *)

\* A record with one field replaced.
LEMMA SchedFields ==
    ASSUME NEW s, SchedType(s)
    PROVE  /\ s.todo \in Seq(Request) /\ s.batch \in Seq(Request) /\ s.got \in Seq(Result)
           /\ DOMAIN s.todo = 1..Len(s.todo) /\ DOMAIN s.batch = 1..Len(s.batch) /\ DOMAIN s.got = 1..Len(s.got)
           /\ Len(s.todo) \in Nat /\ Len(s.batch) \in Nat /\ Len(s.got) \in Nat
           /\ s.todo # <<>> <=> Len(s.todo) > 0
           /\ s.batch # <<>> <=> Len(s.batch) > 0
  BY DEF SchedType

\* A plan depends on the phases and lengths of the sequences in it.
LEMMA PlanFrame ==
    ASSUME NEW s, SchedType(s), NEW sq, NEW bk, Plan(s, sq, bk), NEW tq, NEW ck,
           \A x \in Range(s.todo) \cup Range(s.batch) :
               tq[x].phase = sq[x].phase /\ tq[x].length = sq[x].length /\ (x \in bk => x \in ck)
    PROVE  Plan(s, tq, ck)
  <1>1. /\ \A i \in DOMAIN s.todo : s.todo[i] \in Range(s.todo)
        /\ \A i \in DOMAIN s.batch : s.batch[i] \in Range(s.batch)
    BY DEF Range
  <1>2. /\ \A P : InPhase(sq, s.todo, P) => InPhase(tq, s.todo, P)
        /\ \A P : InPhase(sq, s.batch, P) => InPhase(tq, s.batch, P)
    BY <1>1 DEF InPhase
  <1>3. /\ s.todo # <<>> => 1 \in DOMAIN s.todo
        /\ s.batch # <<>> => 1 \in DOMAIN s.batch
    BY SchedFields
  <1>4. Work(s, tq)
    BY <1>2 DEF Plan, Work
  <1>5. Stage(s, tq)
    BY <1>1, <1>2, <1>3 DEF Plan, Stage, Accepting
  <1>6. Results(s, tq, ck)
    <2>1. s.pc \in Accepting => DOMAIN s.got \subseteq DOMAIN s.todo
      BY SchedFields DEF Plan, Results, Stage, Accepting
    <2> QED BY <1>1, <2>1 DEF Plan, Results
  <1> QED BY <1>4, <1>5, <1>6 DEF Plan

\* Where _run_prefill goes on.
LEMMA ContinuePrefillPlan ==
    ASSUME NEW s, SchedType(s), NEW sq, NEW bk, Work(s, sq),
           InPhase(sq, s.todo, Unfilled), InPhase(sq, s.batch, {"PREFILL"})
    PROVE  /\ SchedType(ContinuePrefill(s)) /\ Plan(ContinuePrefill(s), sq, bk)
           /\ ContinuePrefill(s).closing = s.closing /\ ContinuePrefill(s).pc \in {"prefill", "loop", "chunks", "call"}
           /\ Range(ContinuePrefill(s).todo) \cup Range(ContinuePrefill(s).batch) = Range(s.todo) \cup Range(s.batch)
  <1>1. PICK t : t = ContinuePrefill(s)
    OBVIOUS
  <1>2. IsInjective(<<>>) /\ Range(<<>>) = {}
    BY DEF IsInjective, Range
  <1>3. CASE s.todo # <<>>
    <2>1. t = [s EXCEPT !.pc = "prefill"]
      BY <1>1, <1>3 DEF ContinuePrefill
    <2>2. SchedType(t) /\ t.todo = s.todo /\ t.batch = s.batch /\ t.pc = "prefill" /\ t.closing = s.closing
      BY <2>1 DEF SchedType
    <2>3. Plan(t, sq, bk)
      BY <1>3, <2>2 DEF Plan, Work, Stage, Results, Accepting
    <2> QED BY <1>1, <2>2, <2>3
  <1>4. CASE s.todo = <<>> /\ s.batch = <<>>
    <2>1. t = [s EXCEPT !.pc = "loop"]
      BY <1>1, <1>4 DEF ContinuePrefill
    <2>2. SchedType(t) /\ t.todo = s.todo /\ t.batch = s.batch /\ t.pc = "loop" /\ t.closing = s.closing
      BY <2>1 DEF SchedType
    <2>3. Plan(t, sq, bk)
      BY <1>4, <2>2 DEF Plan, Work, Stage, Results, Accepting
    <2> QED BY <1>1, <2>2, <2>3
  <1>5. CASE s.todo = <<>> /\ s.batch # <<>> /\ ChunkSize > 0
    <2>1. t = [s EXCEPT !.pc = "chunks", !.todo = s.batch, !.batch = <<>>]
      BY <1>1, <1>5 DEF ContinuePrefill
    <2>2. SchedType(t) /\ t.todo = s.batch /\ t.batch = <<>> /\ t.pc = "chunks" /\ t.closing = s.closing
      <3>1. s.batch \in Seq(Request) /\ <<>> \in Seq(Request)
        BY SchedFields
      <3>2. PICK u \in Seq(Request), w \in Seq(Request) : u = s.batch /\ w = <<>>
        BY <3>1
      <3>3. t = [s EXCEPT !.pc = "chunks", !.todo = u, !.batch = w]
        BY <2>1, <3>2
      <3>4. SchedType(t) /\ t.todo = u /\ t.batch = w /\ t.pc = "chunks" /\ t.closing = s.closing
        BY <3>3 DEF SchedType
      <3> QED BY <3>2, <3>4
    <2>3. Plan(t, sq, bk)
      BY <1>2, <1>5, <2>2 DEF Plan, Work, Stage, Results, Accepting, InPhase
    <2> QED BY <1>1, <1>2, <1>5, <2>2, <2>3
  <1>6. CASE s.todo = <<>> /\ s.batch # <<>> /\ ~(ChunkSize > 0)
    <2>1. t = [s EXCEPT !.pc = "call"]
      BY <1>1, <1>6 DEF ContinuePrefill
    <2>2. SchedType(t) /\ t.todo = s.todo /\ t.batch = s.batch /\ t.pc = "call" /\ t.closing = s.closing
      BY <2>1 DEF SchedType
    <2>3. Plan(t, sq, bk)
      BY <1>6, <2>2 DEF Plan, Work, Stage, Results, Accepting
    <2> QED BY <1>1, <2>2, <2>3
  <1> QED BY <1>3, <1>4, <1>5, <1>6

\* Where the chunk loop goes on.
LEMMA ContinueChunksPlan ==
    ASSUME NEW s, SchedType(s), NEW sq, NEW bk, Work(s, sq), s.batch = <<>>, InPhase(sq, s.todo, {"PREFILL"})
    PROVE  /\ SchedType(ContinueChunks(s)) /\ Plan(ContinueChunks(s), sq, bk)
           /\ ContinueChunks(s).closing = s.closing /\ ContinueChunks(s).pc \in {"loop", "chunks"}
           /\ ContinueChunks(s).todo = s.todo /\ ContinueChunks(s).batch = s.batch
  <1>1. PICK t : t = ContinueChunks(s)
    OBVIOUS
  <1>2. SchedType(t) /\ t.todo = s.todo /\ t.batch = s.batch /\ t.closing = s.closing /\ t.pc = IF s.todo = <<>> THEN "loop" ELSE "chunks"
    BY <1>1 DEF ContinueChunks, SchedType
  <1>3. Plan(t, sq, bk)
    BY <1>2 DEF Plan, Work, Stage, Results, Accepting
  <1> QED BY <1>1, <1>2, <1>3

\* Where the loop over a batch's results goes on.
LEMMA ContinueAcceptingPlan ==
    ASSUME NEW s, SchedType(s), NEW sq, NEW bk, Work(s, sq), s.pc \in {"acceptPrefill", "acceptDecode"}, s.batch = <<>>,
           InPhase(sq, s.todo, IF s.pc = "acceptDecode" THEN {"DECODE"} ELSE {"PREFILL"}), Results(s, sq, bk)
    PROVE  /\ SchedType(ContinueAccepting(s)) /\ Plan(ContinueAccepting(s), sq, bk)
           /\ ContinueAccepting(s).closing = s.closing /\ ContinueAccepting(s).pc \in {"loop"} \cup Accepting
           /\ ContinueAccepting(s).todo = s.todo /\ ContinueAccepting(s).batch = s.batch
  <1>1. PICK t : t = ContinueAccepting(s)
    OBVIOUS
  <1>2. /\ SchedType(t) /\ t.todo = s.todo /\ t.batch = s.batch /\ t.got = s.got /\ t.closing = s.closing
        /\ t.pc = IF s.todo = <<>> THEN "loop" ELSE s.pc
    BY <1>1 DEF ContinueAccepting, SchedType
  <1>3. CASE s.todo = <<>>
    BY <1>1, <1>2, <1>3 DEF Plan, Work, Stage, Results, Accepting
  <1>4. CASE s.todo # <<>>
    <2>1. Work(t, sq) /\ Results(t, sq, bk)
      BY <1>2, <1>4 DEF Work, Results
    <2>2. Stage(t, sq)
      BY <1>2, <1>4 DEF Stage, Accepting
    <2> QED BY <1>1, <1>2, <1>4, <2>1, <2>2 DEF Plan, Accepting
  <1> QED BY <1>3, <1>4

\* The record after the head of todo has been handled.
LEMMA AfterAcceptPlan ==
    ASSUME IInv, sched.pc \in Accepting, sched.closing = <<>>, NEW r, r = Head(sched.todo)
    PROVE  /\ SchedType(AfterAccept) /\ Plan(AfterAccept, seq, backend) /\ AfterAccept.closing = <<>>
           /\ AfterAccept.pc \notin {"off", "idle", "exited", "sweep"}
           /\ r \in Request /\ r = sched.todo[1] /\ seq[r].phase \in {"PREFILL", "DECODE"}
           /\ r \notin Range(AfterAccept.todo) \cup Range(AfterAccept.batch)
           /\ Head(sched.got) \in Result /\ Head(sched.got) = sched.got[1] /\ 1 \in DOMAIN sched.got
  <1>1. SchedType(sched) /\ Work(sched, seq) /\ Stage(sched, seq) /\ Results(sched, seq, backend)
    BY DEF IInv, Plan
  <1>2. /\ sched.todo \in Seq(Request) /\ sched.todo # <<>> /\ Len(sched.todo) > 0 /\ sched.got \in Seq(Result)
        /\ IsInjective(sched.todo) /\ Len(sched.got) > 0 /\ DOMAIN sched.todo = 1..Len(sched.todo)
    BY <1>1, SchedFields DEF Stage, Work, Results, Accepting
  <1>3. PICK u : /\ u = Tail(sched.todo) /\ u \in Seq(Request) /\ Len(u) = Len(sched.todo) - 1
                 /\ \A j \in 1..(Len(sched.todo) - 1) : u[j] = sched.todo[j + 1]
    BY <1>2, RestFacts
  <1>4. IsInjective(u) /\ Range(u) = Range(sched.todo) \ {sched.todo[1]}
    BY <1>2, <1>3, RestFacts
  <1>5. PICK g : /\ g = Tail(sched.got) /\ g \in Seq(Result) /\ Len(g) = Len(sched.got) - 1
                 /\ \A j \in 1..(Len(sched.got) - 1) : g[j] = sched.got[j + 1]
    BY <1>2, RestFacts
  <1>6. r = sched.todo[1] /\ r \in Request /\ r \in Range(sched.todo) /\ 1 \in DOMAIN sched.todo
    BY <1>2 DEF Range
  <1>7. seq[r].phase \in {"PREFILL", "DECODE"}
    BY <1>1, <1>6 DEF Stage, Accepting, InPhase
  <1>8. PICK s : s = [sched EXCEPT !.todo = Tail(@), !.got = Tail(@), !.entry = <<>>]
    OBVIOUS
  <1>9. SchedType(s) /\ s.pc = sched.pc /\ s.todo = u /\ s.got = g /\ s.batch = sched.batch /\ s.closing = <<>>
    BY <1>1, <1>3, <1>5, <1>8 DEF SchedType
  <1>10. \A j \in DOMAIN u : j + 1 \in DOMAIN sched.todo /\ u[j] = sched.todo[j + 1]
    BY <1>2, <1>3
  <1>11. \A P : InPhase(seq, sched.todo, P) => InPhase(seq, u, P)
    BY <1>10 DEF InPhase
  <1>12. Work(s, seq)
    BY <1>1, <1>4, <1>9, <1>11 DEF Work
  <1>13. r \notin Range(u) \cup Range(sched.batch)
    BY <1>1, <1>4, <1>6 DEF Work
  <1>14. AfterAccept = CASE s.pc = "acceptRestore" -> ContinuePrefill(s)
                         [] s.pc = "acceptChunk"   -> ContinueChunks(s)
                         [] OTHER                  -> ContinueAccepting(s)
    BY <1>8 DEF AfterAccept
  <1>15. CASE sched.pc = "acceptRestore"
    <2>1. AfterAccept = ContinuePrefill(s)
      BY <1>9, <1>14, <1>15
    <2>2. InPhase(seq, s.todo, Unfilled) /\ InPhase(seq, s.batch, {"PREFILL"})
      BY <1>1, <1>9, <1>11, <1>15 DEF Stage
    <2>3. /\ SchedType(ContinuePrefill(s)) /\ Plan(ContinuePrefill(s), seq, backend)
          /\ ContinuePrefill(s).closing = s.closing /\ ContinuePrefill(s).pc \in {"prefill", "loop", "chunks", "call"}
          /\ Range(ContinuePrefill(s).todo) \cup Range(ContinuePrefill(s).batch) = Range(s.todo) \cup Range(s.batch)
      BY <1>9, <1>12, <2>2, ContinuePrefillPlan
    <2> QED BY <1>2, <1>6, <1>7, <1>9, <1>13, <2>1, <2>3
  <1>16. CASE sched.pc = "acceptChunk"
    <2>1. AfterAccept = ContinueChunks(s)
      BY <1>9, <1>14, <1>16
    <2>2. s.batch = <<>> /\ InPhase(seq, s.todo, {"PREFILL"})
      BY <1>1, <1>9, <1>11, <1>16 DEF Stage
    <2>3. /\ SchedType(ContinueChunks(s)) /\ Plan(ContinueChunks(s), seq, backend)
          /\ ContinueChunks(s).closing = s.closing /\ ContinueChunks(s).pc \in {"loop", "chunks"}
          /\ ContinueChunks(s).todo = s.todo /\ ContinueChunks(s).batch = s.batch
      BY <1>9, <1>12, <2>2, ContinueChunksPlan
    <2> QED BY <1>2, <1>6, <1>7, <1>9, <1>13, <2>1, <2>3
  <1>17. CASE sched.pc \in {"acceptPrefill", "acceptDecode"}
    <2>1. AfterAccept = ContinueAccepting(s)
      BY <1>9, <1>14, <1>17
    <2>2. s.batch = <<>> /\ InPhase(seq, s.todo, IF s.pc = "acceptDecode" THEN {"DECODE"} ELSE {"PREFILL"})
      BY <1>1, <1>9, <1>11, <1>17 DEF Stage
    <2>3. Results(s, seq, backend)
      <3>1. Len(g) = Len(u)
        BY <1>1, <1>2, <1>3, <1>5, <1>17 DEF Results
      <3>2. \A i \in DOMAIN g : i \in Nat /\ i + 1 \in DOMAIN sched.got /\ g[i] = sched.got[i + 1] /\ u[i] = sched.todo[i + 1]
        BY <1>2, <1>3, <1>5, <3>1
      <3> QED BY <1>1, <1>9, <1>17, <3>1, <3>2 DEF Results, Accepting
    <2>4. /\ SchedType(ContinueAccepting(s)) /\ Plan(ContinueAccepting(s), seq, backend)
          /\ ContinueAccepting(s).closing = s.closing /\ ContinueAccepting(s).pc \in {"loop"} \cup Accepting
          /\ ContinueAccepting(s).todo = s.todo /\ ContinueAccepting(s).batch = s.batch
      BY <1>9, <1>12, <1>17, <2>2, <2>3, ContinueAcceptingPlan
    <2> QED BY <1>2, <1>6, <1>7, <1>9, <1>13, <2>1, <2>4 DEF Accepting
  <1> QED BY <1>15, <1>16, <1>17 DEF Accepting

-----------------------------------------------------------------------------
(* Steps that end no sequence *)

\* A sequence's record.
SequenceState ==
    [phase : {"NONE", "QUEUED", "PREFILL", "DECODE"} \cup Terminal,
     cancelled : BOOLEAN, expired : BOOLEAN, tokenized : BOOLEAN, created : BOOLEAN,
     offset : Nat, length : Nat, generated : Nat]

\* The fields that say how far a sequence is.
SameStanding(s, t) ==
    /\ t.phase = s.phase /\ t.tokenized = s.tokenized
    /\ t.created = s.created /\ t.generated = s.generated

\* Streams stay well formed while nobody moves between the sets and no event is put.
LEMMA StreamsFrame ==
    ASSUME StreamsEndOnce, UNCHANGED <<active, events>>,
           \A x \in Request : seq'[x].phase = seq[x].phase,
           \A x \in Request : reader'[x] \in {"none", "get", "yield"} => reader[x] \in {"none", "get", "yield"}
    PROVE  StreamsEndOnce'
  BY DEF StreamsEndOnce, Done, IsActive

\* A sequence that goes on is active.
LEMMA AliveIsActive ==
    ASSUME IInv, NEW r \in Request, seq[r].phase \in Alive
    PROVE  IsActive(r) /\ active # <<>> /\ r \notin finished /\ r \notin Closing(sched) /\ ~Done(r)
  <1>1. IsActive(r)
    BY DEF IInv, Membership
  <1>2. active # <<>>
    BY <1>1 DEF IsActive, Range
  <1> QED BY <1>1, <1>2 DEF IInv, Membership, Alive, Terminal, Done

\* A step after which everybody is where he was.
LEMMA QuietStep ==
    ASSUME IInv, TypeOK', SchedType(sched'), Plan(sched', seq', backend'), UNCHANGED <<active, holds>>,
           sched'.closing = sched.closing, \A x \in Request : SameStanding(seq[x], seq'[x]),
           backend \subseteq backend', \A x \in backend' \ backend : seq[x].phase \in {"PREFILL", "DECODE"},
           finished' \subseteq finished, Bounded(cache'), Quiet', StreamsEndOnce'
    PROVE  IInv'
  <1>1. /\ TypeOK /\ Membership /\ Records /\ Ownership
        /\ backend' \subseteq Request /\ Range(active) \subseteq Request /\ finished \subseteq Request
    <2>1. TypeOK /\ Membership /\ Records /\ Ownership
      BY DEF IInv
    <2>2. active \in Seq(Request) /\ finished \subseteq Request
      BY <2>1 DEF TypeOK
    <2>3. backend' \subseteq Request
      BY DEF TypeOK
    <2>4. Range(active) \subseteq Request
      BY <2>2 DEF Range
    <2> QED BY <2>1, <2>2, <2>3, <2>4
  <1>2. Closing(sched') = Closing(sched) /\ Closing(sched) \subseteq Request
    BY DEF Closing, IInv, SchedType
  <1>3. Membership'
    BY <1>1, <1>2 DEF Membership, IsActive, SameStanding
  <1>4. Records'
    <2> SUFFICES ASSUME NEW r \in Request PROVE Filled(r)'
      BY DEF Records
    <2>1. Filled(r)
      BY <1>1 DEF Records
    <2> QED BY <2>1 DEF Filled, SameStanding
  <1>5. Ownership'
    <2>1. (\A r \in DOMAIN holds : KV!Exclusive(r))'
      BY <1>1 DEF Ownership, KV!Exclusive
    <2>2. (\A r \in backend : IsActive(r) /\ seq[r].created)'
      <3> SUFFICES ASSUME NEW r \in backend' PROVE r \in Range(active) /\ seq'[r].created
        BY DEF IsActive
      <3>1. CASE r \in backend
        BY <1>1, <3>1 DEF Ownership, IsActive, SameStanding
      <3>2. CASE r \notin backend
        BY <1>1, <3>2, AliveIsActive DEF Records, Filled, IsActive, SameStanding, Alive
      <3> QED BY <3>1, <3>2
    <2>3. \A r \in Range(active) :
             IF seq'[r].tokenized THEN Len(Prompt[r]) + MaxNew[r] <= Cardinality(holds[r]) * BlockSize
             ELSE Cardinality(holds[r]) = BlocksForTokens(Estimate[r] + MaxNew[r])
      BY <1>1 DEF Ownership, SameStanding
    <2> QED BY <1>1, <2>1, <2>2, <2>3 DEF Ownership
  <1> QED BY <1>3, <1>4, <1>5 DEF IInv

\* A step of a caller or a reader.
LEMMA CallerStep ==
    ASSUME IInv, seq' \in [Request -> SequenceState],
           \A x \in Request : SameStanding(seq[x], seq'[x]) /\ seq'[x].length = seq[x].length,
           UNCHANGED <<active, holds, cache, backend, sched, closed, down, faulted>>, wake' \in {TRUE, wake},
           finished' \subseteq finished, reader' \in [Request -> {"none", "get", "yield", "last", "drain", "gone"}],
           events' \in [Request -> Seq(TerminalEvent \cup {"token"})], StreamsEndOnce'
    PROVE  IInv'
  <1>1. TypeOK /\ SchedType(sched) /\ Plan(sched, seq, backend) /\ Quiet
    BY DEF IInv
  <1>2. TypeOK'
    BY <1>1 DEF TypeOK, SequenceState
  <1>3. Range(sched.todo) \cup Range(sched.batch) \subseteq Request
    BY <1>1 DEF TypeOK, Range
  <1>4. Plan(sched, seq', backend)
    BY <1>1, <1>3, PlanFrame DEF SameStanding
  <1>5. Quiet'
    BY <1>1 DEF Quiet, NoLostWakeup, TypeOK
  <1>6. SchedType(sched') /\ Plan(sched', seq', backend') /\ Bounded(cache')
    BY <1>1, <1>4 DEF IInv
  <1> QED BY <1>2, <1>5, <1>6, QuietStep

\* A step of the scheduler task that ends no sequence and begins none.
LEMMA SchedulerStep ==
    ASSUME IInv, SchedType(sched'), sched'.closing = sched.closing, Plan(sched', seq', backend'),
           UNCHANGED <<active, finished, events, reader, holds, closed, down>>,
           seq' \in [Request -> SequenceState], \A x \in Request : SameStanding(seq[x], seq'[x]),
           backend' \subseteq Request, backend \subseteq backend',
           \A x \in backend' \ backend : seq[x].phase \in {"PREFILL", "DECODE"},
           Bounded(cache'), faulted' \subseteq Request, wake' \in BOOLEAN,
           sched'.pc # "off", sched'.pc = "exited" => closed /\ active = <<>>,
           sched'.pc = "idle" => wake' \/ active = <<>>,
           active = <<>> => backend' = backend /\ cache' = cache
    PROVE  IInv'
  <1>1. TypeOK /\ Quiet /\ StreamsEndOnce
    BY DEF IInv
  <1>2. TypeOK'
    <2>1. cache' \in Seq([prompt : Seq(Nat), length : Nat])
      BY DEF Bounded, Entries
    <2>2. /\ sched'.pc \in {"off", "loop", "sweep", "idle", "prefill", "restore", "call",
                     "chunks", "decode", "exited", "dead"} \cup Accepting
          /\ sched'.todo \in Seq(Request) /\ sched'.batch \in Seq(Request)
          /\ sched'.got \in Seq(Result) /\ sched'.turn \in BOOLEAN
      BY DEF SchedType
    <2> QED BY <1>1, <2>1, <2>2 DEF TypeOK, SequenceState
  <1>3. Quiet'
    BY <1>1 DEF Quiet, NoLostWakeup
  <1>4. StreamsEndOnce'
    BY <1>1, StreamsFrame DEF SameStanding
  <1> QED BY <1>2, <1>3, <1>4, QuietStep

-----------------------------------------------------------------------------
(* Callers and readers *)

LEMMA RecordType == ASSUME TypeOK PROVE seq \in [Request -> SequenceState]
  BY DEF TypeOK, SequenceState

\* Flags say nothing about how far a sequence is.
LEMMA FlagSet ==
    ASSUME IInv, NEW r \in Request, NEW q,
           q \in {[seq EXCEPT ![r].cancelled = TRUE], [seq EXCEPT ![r].expired = TRUE], seq}
    PROVE  q \in [Request -> SequenceState] /\ \A x \in Request : SameStanding(seq[x], q[x]) /\ q[x].length = seq[x].length
  <1>1. seq \in [Request -> SequenceState]
    BY RecordType DEF IInv
  <1>2. CASE q = seq
    BY <1>1, <1>2 DEF SameStanding
  <1>3. CASE q = [seq EXCEPT ![r].cancelled = TRUE]
    <2>1. q \in [Request -> SequenceState]
      BY <1>1, <1>3 DEF SequenceState
    <2> QED BY <1>1, <1>3, <2>1 DEF SequenceState, SameStanding
  <1>4. CASE q = [seq EXCEPT ![r].expired = TRUE]
    <2>1. q \in [Request -> SequenceState]
      BY <1>1, <1>4 DEF SequenceState
    <2> QED BY <1>1, <1>4, <2>1 DEF SequenceState, SameStanding
  <1> QED BY <1>2, <1>3, <1>4

\* A step that only sets a flag, wakes the scheduler or moves a reader.
LEMMA ReaderStep ==
    ASSUME IInv, NEW r \in Request,
           seq' \in {[seq EXCEPT ![r].cancelled = TRUE], [seq EXCEPT ![r].expired = TRUE], seq},
           UNCHANGED <<active, events, holds, cache, backend, sched, closed, down, faulted>>, wake' \in {TRUE, wake},
           finished' \subseteq finished, NEW to \in {"none", "get", "yield", "last", "drain", "gone"},
           reader' = [reader EXCEPT ![r] = to] \/ reader' = reader,
           to \in {"none", "get", "yield"} => reader[r] \in {"none", "get", "yield"}
    PROVE  IInv'
  <1>1. TypeOK /\ StreamsEndOnce
    BY DEF IInv
  <1>2. seq' \in [Request -> SequenceState] /\ \A x \in Request : SameStanding(seq[x], seq'[x]) /\ seq'[x].length = seq[x].length
    BY FlagSet
  <1>3. /\ reader' \in [Request -> {"none", "get", "yield", "last", "drain", "gone"}]
        /\ \A x \in Request : reader'[x] \in {"none", "get", "yield"} => reader[x] \in {"none", "get", "yield"}
    BY <1>1 DEF TypeOK
  <1>4. StreamsEndOnce'
    BY <1>1, <1>2, <1>3, StreamsFrame DEF SameStanding
  <1>5. events' \in [Request -> Seq(TerminalEvent \cup {"token"})]
    BY <1>1 DEF TypeOK
  <1> QED BY <1>2, <1>3, <1>4, <1>5, CallerStep

LEMMA CancelIInv == ASSUME IInv, NEW r \in Request, Cancel(r) PROVE IInv'
  <1>1. PICK to \in {"none", "get", "yield", "last", "drain", "gone"} : to = "gone"
    OBVIOUS
  <1> QED BY <1>1, ReaderStep DEF Cancel, SignalCancellation

LEMMA ExpireIInv == ASSUME IInv, NEW r \in Request, Expire(r) PROVE IInv'
  <1>1. PICK to \in {"none", "get", "yield", "last", "drain", "gone"} : to = "gone"
    OBVIOUS
  <1> QED BY <1>1, ReaderStep DEF Expire

LEMMA ResumeReaderIInv == ASSUME IInv, NEW r \in Request, ResumeReader(r) PROVE IInv'
  <1>1. PICK to \in {"none", "get", "yield", "last", "drain", "gone"} :
            /\ reader' = [reader EXCEPT ![r] = to] /\ to = IF reader[r] = "yield" THEN "get" ELSE "gone"
            /\ finished' \subseteq finished
    BY DEF ResumeReader
  <1> QED BY <1>1, ReaderStep DEF ResumeReader

LEMMA CloseReaderIInv == ASSUME IInv, NEW r \in Request, CloseReader(r) PROVE IInv'
  <1>1. PICK to \in {"none", "get", "yield", "last", "drain", "gone"} : to = "gone"
    OBVIOUS
  <1>2. finished' \subseteq finished /\ wake' \in {TRUE, wake} /\ seq' \in {[seq EXCEPT ![r].cancelled = TRUE], seq}
    BY DEF CloseReader, SignalCancellation
  <1> QED BY <1>1, <1>2, ReaderStep DEF CloseReader

LEMMA CancelReaderIInv == ASSUME IInv, NEW r \in Request, CancelReader(r) PROVE IInv'
  <1>1. PICK to \in {"none", "get", "yield", "last", "drain", "gone"} : to = "drain"
    OBVIOUS
  <1> QED BY <1>1, ReaderStep DEF CancelReader, SignalCancellation

LEMMA ReaderDrainedIInv == ASSUME IInv, NEW r \in Request, ReaderDrained(r) PROVE IInv'
  <1>1. PICK to \in {"none", "get", "yield", "last", "drain", "gone"} : to = "gone"
    OBVIOUS
  <1> QED BY <1>1, ReaderStep DEF ReaderDrained

LEMMA StartStreamIInv == ASSUME IInv, NEW r \in Request, StartStream(r) PROVE IInv'
  <1>1. CASE sched.pc # "off"
    <2>1. PICK to \in {"none", "get", "yield", "last", "drain", "gone"} : to = "get"
      OBVIOUS
    <2> QED BY <1>1, <2>1, ReaderStep DEF StartStream
  <1>2. CASE sched.pc = "off"
    <2>1. TypeOK /\ SchedType(sched) /\ Plan(sched, seq, backend) /\ Quiet /\ StreamsEndOnce /\ Bounded(cache)
      BY DEF IInv
    <2>2. UNCHANGED <<seq, active, finished, events, holds, cache, backend, wake, closed, down, faulted>>
      BY DEF StartStream
    <2>3. PICK t : t = sched' /\ t = [sched EXCEPT !.pc = "loop"]
      BY <1>2 DEF StartStream
    <2>4. SchedType(t) /\ t.pc = "loop" /\ t.todo = sched.todo /\ t.batch = sched.batch /\ t.closing = sched.closing
      BY <2>1, <2>3 DEF SchedType
    <2>5. Plan(t, seq, backend)
      BY <1>2, <2>1, <2>4 DEF Plan, Work, Stage, Results, Accepting
    <2>6. /\ reader' \in [Request -> {"none", "get", "yield", "last", "drain", "gone"}]
          /\ \A x \in Request : reader'[x] \in {"none", "get", "yield"} => reader[x] \in {"none", "get", "yield"}
      BY <2>1 DEF TypeOK, StartStream
    <2>7. StreamsEndOnce'
      BY <2>1, <2>2, <2>6, StreamsFrame
    <2>8. TypeOK'
      BY <2>1, <2>2, <2>3, <2>4, <2>6 DEF TypeOK, SchedType
    <2>9. Quiet'
      BY <2>1, <2>2, <2>3, <2>4 DEF Quiet, NoLostWakeup
    <2>10. \A x \in Request : SameStanding(seq[x], seq'[x])
      BY <2>2 DEF SameStanding
    <2>11. SchedType(sched') /\ Plan(sched', seq', backend') /\ Bounded(cache') /\ sched'.closing = sched.closing
      BY <2>1, <2>2, <2>3, <2>4, <2>5
    <2> QED BY <2>2, <2>7, <2>8, <2>9, <2>10, <2>11, QuietStep
  <1> QED BY <1>1, <1>2

\* Only the reader that takes the terminal event stops expecting it.
LEMMA ReadEventIInv == ASSUME IInv, NEW r \in Request, ReadEvent(r) PROVE IInv'
  <1>1. TypeOK /\ StreamsEndOnce
    BY DEF IInv
  <1>2. UNCHANGED <<seq, active, holds, cache, backend, sched, wake, closed, down, faulted>>
    BY DEF ReadEvent
  <1>3. PICK old \in Seq(TerminalEvent \cup {"token"}) : old = events[r] /\ Len(old) > 0 /\ reader[r] = "get" /\ old[1] \in TerminalEvent \cup {"token"}
    BY <1>1 DEF TypeOK, ReadEvent
  <1>4. PICK q : /\ q = Tail(old) /\ q \in Seq(TerminalEvent \cup {"token"}) /\ Len(q) = Len(old) - 1
                 /\ \A j \in 1..(Len(old) - 1) : q[j] = old[j + 1]
    <2>1. PICK E : E = TerminalEvent \cup {"token"}
      OBVIOUS
    <2>2. old \in Seq(E) /\ Len(old) > 0
      BY <1>3, <2>1
    <2>3. /\ Tail(old) \in Seq(E) /\ Len(Tail(old)) = Len(old) - 1
          /\ \A j \in 1..(Len(old) - 1) : Tail(old)[j] = old[j + 1]
      BY <2>2, RestFacts
    <2> QED BY <2>1, <2>3
  <1>5. PICK to : /\ to \in {"none", "get", "yield", "last", "drain", "gone"} /\ reader' = [reader EXCEPT ![r] = to]
                  /\ to \in {"none", "get", "yield"} => old[1] = "token"
    <2>1. PICK ev : ev = Head(events[r]) /\ ev = old[1]
      BY <1>3
    <2>2. reader' = [reader EXCEPT ![r] = CASE ev = "token" -> "yield" [] ev = "ERROR" -> "gone" [] OTHER -> "last"]
      BY <2>1 DEF ReadEvent
    <2>3. PICK to : to = CASE ev = "token" -> "yield" [] ev = "ERROR" -> "gone" [] OTHER -> "last"
      OBVIOUS
    <2>4. to \in {"yield", "gone", "last"} /\ (to = "yield" => ev = "token")
      BY <2>3
    <2> QED BY <2>1, <2>2, <2>3, <2>4
  <1>6. events' = [events EXCEPT ![r] = q] /\ finished' \subseteq finished
    BY <1>3, <1>4 DEF ReadEvent
  <1>7. /\ events' \in [Request -> Seq(TerminalEvent \cup {"token"})]
        /\ reader' \in [Request -> {"none", "get", "yield", "last", "drain", "gone"}]
    BY <1>1, <1>4, <1>5, <1>6 DEF TypeOK
  <1>8. \A x \in Request : SameStanding(seq[x], seq'[x]) /\ seq'[x].length = seq[x].length
    BY <1>2 DEF SameStanding
  <1>9. StreamsEndOnce'
    <2> SUFFICES ASSUME NEW x \in Request
                 PROVE  /\ \A i \in DOMAIN events'[x] :
                              events'[x][i] \in TerminalEvent => i = Len(events'[x]) /\ Done(x)
                        /\ Done(x) /\ reader'[x] \in {"none", "get", "yield"} =>
                              events'[x] # <<>> /\ events'[x][Len(events'[x])] \in TerminalEvent
      BY <1>2 DEF StreamsEndOnce, Done, IsActive
    <2>1. CASE x # r
      BY <1>1, <1>5, <1>6, <2>1 DEF StreamsEndOnce, TypeOK
    <2>2. CASE x = r
      <3>1. events'[x] = q /\ reader'[x] = to
        BY <1>1, <1>5, <1>6, <2>2 DEF TypeOK
      <3>2. /\ \A i \in DOMAIN old : old[i] \in TerminalEvent => i = Len(old) /\ Done(r)
            /\ Done(r) => old[Len(old)] \in TerminalEvent
        BY <1>1, <1>3 DEF StreamsEndOnce
      <3>3. \A i \in DOMAIN q : i \in Nat /\ i + 1 \in DOMAIN old /\ q[i] = old[i + 1]
        BY <1>3, <1>4
      <3>4. \A i \in DOMAIN q : q[i] \in TerminalEvent => i = Len(q) /\ Done(r)
        BY <1>3, <1>4, <3>2, <3>3
      <3>5. Done(r) /\ to \in {"none", "get", "yield"} => q # <<>> /\ q[Len(q)] \in TerminalEvent
        <4> SUFFICES ASSUME Done(r), to \in {"none", "get", "yield"} PROVE q # <<>> /\ q[Len(q)] \in TerminalEvent
          OBVIOUS
        <4>1. old[1] = "token" /\ old[Len(old)] \in TerminalEvent
          BY <1>5, <3>2
        <4>2. Len(old) # 1
          BY <4>1 DEF TerminalEvent
        <4>3. PICK n \in Nat : n = Len(old)
          BY <1>3
        <4>4. Len(q) = n - 1 /\ n - 1 \in 1..(n - 1) /\ \A j \in 1..(n - 1) : q[j] = old[j + 1]
          <5>1. n > 0 /\ n # 1
            BY <1>3, <4>2, <4>3
          <5>2. Len(q) = n - 1 /\ \A j \in 1..(n - 1) : q[j] = old[j + 1]
            BY <1>4, <4>3
          <5>3. n - 1 \in 1..(n - 1)
            BY ONLY <4>3, <5>1
          <5> QED BY <5>2, <5>3
        <4>5. q[n - 1] = old[n]
          BY ONLY <4>3, <4>4
        <4> QED BY <4>1, <4>3, <4>4, <4>5
      <3> QED BY <2>2, <3>1, <3>4, <3>5
    <2> QED BY <2>1, <2>2
  <1>10. seq' \in [Request -> SequenceState]
    BY <1>1, <1>2, RecordType
  <1> QED BY <1>2, <1>6, <1>7, <1>8, <1>9, <1>10, CallerStep

-----------------------------------------------------------------------------
(* The scheduler task between the model calls *)

\* A step that only moves the scheduler on.
LEMMA ControlStep ==
    ASSUME IInv, UNCHANGED <<seq, active, finished, events, reader, holds, cache, backend, closed, down>>,
           faulted' \subseteq Request, wake' \in BOOLEAN, NEW t, sched' = t, SchedType(t), t.closing = sched.closing,
           Plan(t, seq, backend), t.pc # "off", t.pc = "exited" => closed /\ active = <<>>,
           t.pc = "idle" => wake' \/ active = <<>>
    PROVE  IInv'
  <1>1. TypeOK /\ Bounded(cache)
    BY DEF IInv
  <1>2. seq' \in [Request -> SequenceState] /\ \A x \in Request : SameStanding(seq[x], seq'[x])
    BY <1>1, RecordType DEF SameStanding
  <1>3. backend' \subseteq Request /\ backend \subseteq backend' /\ backend' \ backend = {} /\ Bounded(cache')
    BY <1>1 DEF TypeOK
  <1>4. SchedType(sched') /\ sched'.closing = sched.closing /\ Plan(sched', seq', backend')
    OBVIOUS
  <1> QED BY <1>2, <1>3, <1>4, SchedulerStep

\* While nothing is being released every active sequence goes on.
LEMMA ActiveIsAlive ==
    ASSUME IInv, sched.closing = <<>>
    PROVE  /\ active \in Seq(Request) /\ IsInjective(active) /\ Range(active) \subseteq Request
           /\ \A x \in Range(active) : seq[x].phase \in Alive
           /\ InPhase(seq, active, Alive)
  <1>1. TypeOK /\ Membership
    BY DEF IInv
  <1>2. active \in Seq(Request) /\ IsInjective(active)
    BY <1>1 DEF TypeOK, Membership
  <1>3. Range(active) \subseteq Request /\ \A i \in DOMAIN active : active[i] \in Range(active)
    BY <1>2 DEF Range
  <1>4. \A x \in Range(active) : seq[x].phase \in Alive
    BY <1>1, <1>3 DEF Membership, Closing, IsActive
  <1> QED BY <1>2, <1>3, <1>4 DEF InPhase

LEMMA LoopIInv == ASSUME IInv, Loop PROVE IInv'
  <1>1. SchedType(sched) /\ Plan(sched, seq, backend) /\ Bounded(cache) /\ TypeOK
    BY DEF IInv
  <1>2. sched.pc = "loop" /\ sched.closing = <<>> /\ UNCHANGED <<seq, active, finished, events, reader, holds, cache, backend, wake, closed, down, faulted>>
    BY DEF Loop, At
  <1>3. sched.todo = <<>> /\ sched.batch = <<>>
    BY <1>1, <1>2 DEF Plan, Stage
  <1>4. IsInjective(<<>>) /\ Range(<<>>) = {}
    BY DEF IsInjective, Range
  <1>5. CASE closed /\ active = <<>>
    <2>1. PICK t : t = sched' /\ t = [sched EXCEPT !.pc = "exited"]
      BY <1>5 DEF Loop
    <2>2. SchedType(t) /\ t.pc = "exited" /\ t.todo = <<>> /\ t.batch = <<>> /\ t.closing = sched.closing
      BY <1>1, <1>3, <2>1 DEF SchedType
    <2>3. Plan(t, seq, backend)
      BY <1>4, <2>2 DEF Plan, Work, Stage, Results, InPhase, Accepting
    <2> QED BY <1>1, <1>2, <1>5, <2>1, <2>2, <2>3, ControlStep DEF TypeOK
  <1>6. CASE ~(closed /\ active = <<>>)
    <2>1. PICK t : t = sched' /\ t = [sched EXCEPT !.pc = "sweep", !.todo = active]
      BY <1>6 DEF Loop
    <2>2. active \in Seq(Request) /\ IsInjective(active) /\ InPhase(seq, active, Alive)
      BY <1>2, ActiveIsAlive
    <2>3. SchedType(t) /\ t.pc = "sweep" /\ t.todo = active /\ t.batch = <<>> /\ t.closing = sched.closing
      BY <1>1, <1>3, <2>1, <2>2 DEF SchedType
    <2>4. Plan(t, seq, backend)
      BY <1>4, <2>2, <2>3 DEF Plan, Work, Stage, Results, InPhase, Accepting
    <2> QED BY <1>1, <1>2, <2>1, <2>3, <2>4, ControlStep DEF TypeOK
  <1> QED BY <1>5, <1>6

LEMMA WakeUpIInv == ASSUME IInv, WakeUp PROVE IInv'
  <1>1. SchedType(sched) /\ Plan(sched, seq, backend) /\ Bounded(cache) /\ TypeOK
    BY DEF IInv
  <1>2. sched.pc = "idle" /\ UNCHANGED <<seq, active, finished, events, reader, holds, cache, backend, wake, closed, down, faulted>>
    BY DEF WakeUp, At
  <1>3. PICK t : t = sched' /\ t = [sched EXCEPT !.pc = "loop"]
    BY DEF WakeUp
  <1>4. SchedType(t) /\ t.pc = "loop" /\ t.todo = sched.todo /\ t.batch = sched.batch /\ t.closing = sched.closing
    BY <1>1, <1>3 DEF SchedType
  <1>5. Plan(t, seq, backend)
    BY <1>1, <1>2, <1>4 DEF Plan, Work, Stage, Results, Accepting
  <1> QED BY <1>1, <1>2, <1>3, <1>4, <1>5, ControlStep DEF TypeOK

\* A raised snapshot_prefix leaves everything as it is, for good.
LEMMA SnapshotRaisesIInv == ASSUME IInv, SnapshotRaises PROVE IInv'
  <1>1. SchedType(sched) /\ Plan(sched, seq, backend) /\ Bounded(cache) /\ TypeOK
    BY DEF IInv
  <1>2. /\ sched.pc \in Accepting /\ sched.closing = <<>>
        /\ UNCHANGED <<seq, active, finished, events, reader, holds, cache, backend, wake, closed, down>>
    BY DEF SnapshotRaises, At, Accepting
  <1>3. PICK t : t = sched' /\ t = [sched EXCEPT !.pc = "dead"]
    BY DEF SnapshotRaises
  <1>4. SchedType(t) /\ t.pc = "dead" /\ t.todo = sched.todo /\ t.batch = sched.batch /\ t.closing = sched.closing
    BY <1>1, <1>3 DEF SchedType
  <1>5. Plan(t, seq, backend)
    BY <1>1, <1>2, <1>4 DEF Plan, Work, Stage, Results, Accepting
  <1>6. Head(sched.todo) \in Request
    BY <1>2, AfterAcceptPlan
  <1>7. faulted' \subseteq Request
    BY <1>1, <1>6 DEF SnapshotRaises, TypeOK
  <1> QED BY <1>1, <1>2, <1>3, <1>4, <1>5, <1>7, ControlStep DEF TypeOK

\* The next iteration works on sequences that are there, and sleeps only without any.
LEMMA DecideIInv == ASSUME IInv, Decide PROVE IInv'
  <1>1. SchedType(sched) /\ Plan(sched, seq, backend) /\ Bounded(cache) /\ TypeOK /\ IsInjective(active)
    BY DEF IInv, Membership
  <1>2. /\ sched.pc = "sweep" /\ sched.closing = <<>>
        /\ UNCHANGED <<seq, active, finished, events, reader, holds, cache, backend, closed, down, faulted>>
    BY DEF Decide, At
  <1>3. sched.batch = <<>> /\ sched.turn \in BOOLEAN
    BY <1>1, <1>2 DEF Plan, Stage, SchedType
  <1>4. IsInjective(<<>>) /\ Range(<<>>) = {} /\ <<>> \in Seq(Request)
    BY DEF IsInjective, Range
  <1>5. PICK turn \in BOOLEAN : turn = IF Policy = "balanced" THEN ~sched.turn ELSE sched.turn
    BY <1>3
  <1>6. PICK s : s = [sched EXCEPT !.todo = <<>>, !.turn = turn]
    OBVIOUS
  <1>7. SchedType(s) /\ s.todo = <<>> /\ s.batch = <<>> /\ s.closing = sched.closing /\ s.pc = "sweep"
    BY <1>1, <1>2, <1>3, <1>4, <1>5, <1>6 DEF SchedType
  <1>8. /\ Waiting \in Seq(Request) /\ Running \in Seq(Request) /\ IsInjective(Waiting) /\ IsInjective(Running)
        /\ Range(Waiting) = {x \in Range(active) : seq[x].phase \in Unfilled}
        /\ Range(Running) = {x \in Range(active) : seq[x].phase = "DECODE"}
    BY <1>1, SetsFacts
  <1>9. wake' \in BOOLEAN /\ faulted' \subseteq Request
    BY <1>1, <1>2 DEF Decide, TypeOK
  <1>10. CASE Waiting = <<>> /\ Running = <<>>
    <2>1. active = <<>>
      <3>1. \A x \in Range(active) : FALSE
        BY <1>2, <1>4, <1>8, <1>10, ActiveIsAlive DEF Alive, Unfilled
      <3>2. active \in Seq(Request)
        BY <1>2, ActiveIsAlive
      <3> QED BY <3>1, <3>2 DEF Range
    <2>2. PICK t : t = sched' /\ t = [s EXCEPT !.pc = Sleep]
      BY <1>5, <1>6, <1>10 DEF Decide
    <2>3. PICK p \in {"idle", "exited"} : p = Sleep /\ (p = "exited" => closed)
      BY DEF Sleep
    <2>4. SchedType(t) /\ t.pc = p /\ t.todo = <<>> /\ t.batch = <<>> /\ t.closing = sched.closing
      BY <1>7, <2>2, <2>3 DEF SchedType
    <2>5. Plan(t, seq, backend)
      BY <1>4, <2>4 DEF Plan, Work, Stage, Results, InPhase, Accepting
    <2> QED BY <1>1, <1>2, <1>9, <2>1, <2>2, <2>3, <2>4, <2>5, ControlStep
  <1>11. CASE ~(Waiting = <<>> /\ Running = <<>>) /\ DecodeChosen(turn)
    <2>1. Running # <<>>
      BY <1>11, EngineAssumption DEF DecodeChosen
    <2>2. /\ DecodeIds \in Seq(Request) /\ IsInjective(DecodeIds) /\ Range(DecodeIds) \subseteq Range(Running)
          /\ DecodeIds # <<>> /\ Len(DecodeIds) <= MaxBatch
          /\ \A i, j \in DOMAIN DecodeIds : seq[DecodeIds[i]].length = seq[DecodeIds[j]].length
      BY <1>1, <2>1, DecodeIdsFacts
    <2>3. PICK ids \in Seq(Request) : ids = DecodeIds
      BY <2>2
    <2>4. PICK t : t = sched' /\ t = [s EXCEPT !.pc = "decode", !.batch = ids]
      BY <1>5, <1>6, <1>11, <2>3 DEF Decide
    <2>5. SchedType(t) /\ t.pc = "decode" /\ t.todo = <<>> /\ t.batch = ids /\ t.closing = sched.closing
      BY <1>7, <2>4 DEF SchedType
    <2>6. \A i \in DOMAIN ids : ids[i] \in Range(ids)
      BY DEF Range
    <2>7. InPhase(seq, ids, {"DECODE"}) /\ InPhase(seq, ids, Alive)
      BY <1>8, <2>2, <2>3, <2>6 DEF InPhase, Alive
    <2>8. 1 \in DOMAIN ids
      BY <2>2, <2>3
    <2>9. Work(t, seq)
      BY <1>4, <2>2, <2>3, <2>5, <2>7 DEF Work, InPhase
    <2>10. Stage(t, seq)
      BY <2>2, <2>3, <2>5, <2>7, <2>8 DEF Stage, Accepting
    <2>11. Plan(t, seq, backend)
      BY <2>5, <2>9, <2>10 DEF Plan, Results, Accepting
    <2> QED BY <1>1, <1>2, <1>9, <2>4, <2>5, <2>11, ControlStep
  <1>12. CASE ~(Waiting = <<>> /\ Running = <<>>) /\ ~DecodeChosen(turn)
    <2>1. PICK ids \in Seq(Request) : /\ ids = First(Waiting, MaxBatch) /\ Range(ids) \subseteq Range(Waiting)
                                      /\ IsInjective(ids)
      BY <1>8, FirstFacts, EngineAssumption
    <2>2. PICK u : u = [s EXCEPT !.todo = ids]
      OBVIOUS
    <2>3. SchedType(u) /\ u.todo = ids /\ u.batch = <<>> /\ u.closing = sched.closing
      BY <1>7, <2>2 DEF SchedType
    <2>4. PICK t : t = sched' /\ t = ContinuePrefill(u)
      BY <1>5, <1>6, <1>12, <2>1, <2>2 DEF Decide
    <2>5. \A i \in DOMAIN ids : ids[i] \in Range(ids)
      BY DEF Range
    <2>6. InPhase(seq, ids, Unfilled) /\ InPhase(seq, ids, Alive)
      BY <1>8, <2>1, <2>5 DEF InPhase, Alive, Unfilled
    <2>7. Work(u, seq) /\ InPhase(seq, u.todo, Unfilled) /\ InPhase(seq, u.batch, {"PREFILL"})
      BY <1>4, <2>1, <2>3, <2>6 DEF Work, InPhase
    <2>8. SchedType(t) /\ Plan(t, seq, backend) /\ t.closing = sched.closing /\ t.pc \in {"prefill", "loop", "chunks", "call"}
      BY <2>3, <2>4, <2>7, ContinuePrefillPlan
    <2> QED BY <1>1, <1>2, <1>9, <2>4, <2>8, ControlStep
  <1> QED BY <1>10, <1>11, <1>12

-----------------------------------------------------------------------------
(* The model calls *)

\* What a call returns and leaves in the backend.
LEMMA CallFacts ==
    ASSUME TypeOK, NEW rs \in Seq(Request), IsInjective(rs), NEW refused,
           NEW got \in Outcomes(Len(rs), refused), CallReturns(rs, got, refused)
    PROVE  /\ got \in Seq(Result) /\ Len(got) = Len(rs) /\ DOMAIN got = DOMAIN rs
           /\ backend \subseteq backend' /\ backend' \subseteq backend \cup Range(rs)
           /\ faulted' \subseteq Request /\ backend' \subseteq Request
           /\ \A i \in DOMAIN rs : got[i] # "fail" => rs[i] \in backend'
  <1>1. PICK n \in Nat : n = Len(rs) /\ DOMAIN rs = 1..n
    OBVIOUS
  <1>2. got \in [1..n -> Result]
    BY <1>1 DEF Outcomes, Result
  <1>3. got \in Seq(Result) /\ Len(got) = n /\ DOMAIN got = 1..n
    BY <1>1, <1>2
  <1>4. PICK failed : failed = {rs[i] : i \in {j \in DOMAIN rs : got[j] = "fail"}}
    OBVIOUS
  <1>5. Range(rs) \subseteq Request /\ failed \subseteq Range(rs) /\ \A i \in DOMAIN rs : rs[i] \in Range(rs)
    BY <1>4 DEF Range
  <1>6. \A i \in DOMAIN rs : got[i] # "fail" => rs[i] \notin failed
    BY <1>4 DEF IsInjective
  <1>7. faulted' = IF refused THEN faulted ELSE faulted \cup failed
    BY <1>4 DEF CallReturns
  <1>8. PICK partial \in SUBSET failed : backend' = backend \cup (Range(rs) \ failed) \cup partial
    BY <1>4 DEF CallReturns
  <1> QED BY <1>1, <1>3, <1>5, <1>6, <1>7, <1>8 DEF TypeOK

\* A call for sequences that are being filled or decoded.
LEMMA CallStep ==
    ASSUME IInv, NEW rs \in Seq(Request), rs # <<>>, IsInjective(rs), InPhase(seq, rs, {"PREFILL", "DECODE"}),
           NEW refused, NEW got \in Outcomes(Len(rs), refused), CallReturns(rs, got, refused),
           UNCHANGED <<active, finished, events, reader, holds, cache, wake, closed, down>>,
           seq' \in [Request -> SequenceState], \A x \in Request : SameStanding(seq[x], seq'[x]),
           SchedType(sched'), sched'.closing = sched.closing, Plan(sched', seq', backend'),
           sched'.pc \notin {"off", "exited", "idle"}
    PROVE  IInv'
  <1>1. TypeOK /\ Bounded(cache)
    BY DEF IInv
  <1>2. backend \subseteq backend' /\ backend' \subseteq backend \cup Range(rs) /\ faulted' \subseteq Request /\ backend' \subseteq Request
    BY <1>1, CallFacts
  <1>3. \A x \in Range(rs) : x \in Request /\ seq[x].phase \in {"PREFILL", "DECODE"}
    BY DEF InPhase, Range
  <1>4. \A x \in backend' \ backend : seq[x].phase \in {"PREFILL", "DECODE"}
    BY <1>2, <1>3
  <1>5. active # <<>>
    <2>1. rs[1] \in Request /\ rs[1] \in Range(rs)
      BY DEF Range
    <2> QED BY <1>3, <2>1, AliveIsActive DEF Alive
  <1>6. wake' \in BOOLEAN /\ Bounded(cache')
    BY <1>1 DEF TypeOK
  <1> QED BY <1>2, <1>4, <1>5, <1>6, SchedulerStep

LEMMA InPhaseFrame ==
    ASSUME NEW rs \in Seq(Request), NEW sq, NEW tq, \A x \in Request : SameStanding(sq[x], tq[x]), NEW P, InPhase(sq, rs, P)
    PROVE  InPhase(tq, rs, P)
  <1>1. \A i \in DOMAIN rs : rs[i] \in Request
    OBVIOUS
  <1> QED BY <1>1 DEF InPhase, SameStanding

\* A call for one sequence.
LEMMA SingleFacts ==
    ASSUME NEW r \in Request
    PROVE  <<r>> \in Seq(Request) /\ Len(<<r>>) = 1 /\ <<r>>[1] = r /\ IsInjective(<<r>>) /\ <<r>> # <<>> /\ DOMAIN <<r>> = {1} /\ Range(<<r>>) = {r}
  <1>1. <<r>> \in Seq(Request) /\ Len(<<r>>) = 1 /\ <<r>>[1] = r /\ <<r>> # <<>>
    OBVIOUS
  <1>2. DOMAIN <<r>> = {1}
    <2>1. DOMAIN <<r>> = 1..Len(<<r>>)
      BY <1>1
    <2>2. 1..1 = {1}
      OBVIOUS
    <2> QED BY <1>1, <2>1, <2>2
  <1>3. IsInjective(<<r>>)
    BY <1>2 DEF IsInjective
  <1>4. Range(<<r>>) = {r}
    BY <1>1, <1>2 DEF Range
  <1> QED BY <1>1, <1>2, <1>3, <1>4

LEMMA RestoreIInv == ASSUME IInv, Restore PROVE IInv'
  <1>1. SchedType(sched) /\ Work(sched, seq) /\ Stage(sched, seq) /\ TypeOK
    BY DEF IInv, Plan
  <1>2. /\ sched.pc = "restore" /\ sched.closing = <<>>
        /\ UNCHANGED <<active, finished, events, reader, holds, cache, wake, closed, down>>
    BY DEF Restore, At
  <1>3. /\ sched.todo \in Seq(Request) /\ sched.todo # <<>> /\ sched.batch \in Seq(Request) /\ Len(sched.todo) > 0
    BY <1>1, <1>2, SchedFields DEF Stage
  <1>4. PICK r \in Request : r = Head(sched.todo) /\ r = sched.todo[1] /\ 1 \in DOMAIN sched.todo
    BY <1>3
  <1>5. seq[r].phase = "PREFILL" /\ Hit(sched)
    BY <1>1, <1>2, <1>4 DEF Stage
  <1>6. PICK refused, got : /\ got \in Outcomes(1, refused) /\ CallReturns(<<r>>, got, refused)
                            /\ seq' = IF got[1] = "fail" THEN seq
                                      ELSE [seq EXCEPT ![r].length = sched.entry.length + Len(Prompt[r]) - Len(sched.entry.prompt)]
                            /\ sched' = [sched EXCEPT !.pc = "acceptRestore", !.got = got]
    BY <1>4 DEF Restore
  <1>7. PICK rs \in Seq(Request) : rs = <<r>> /\ Len(rs) = 1 /\ rs[1] = r /\ IsInjective(rs) /\ rs # <<>> /\ DOMAIN rs = {1}
    BY SingleFacts
  <1>8. got \in Outcomes(Len(rs), refused) /\ CallReturns(rs, got, refused)
    BY <1>6, <1>7
  <1>9. got \in Seq(Result) /\ Len(got) = 1 /\ (got[1] # "fail" => r \in backend')
    <2>1. /\ got \in Seq(Result) /\ Len(got) = Len(rs)
          /\ \A i \in DOMAIN rs : got[i] # "fail" => rs[i] \in backend'
      BY <1>1, <1>7, <1>8, CallFacts
    <2> QED BY <1>7, <2>1
  <1>10. InPhase(seq, rs, {"PREFILL", "DECODE"})
    BY <1>5, <1>7 DEF InPhase
  <1>11. PICK l \in Nat : l = sched.entry.length + Len(Prompt[r]) - Len(sched.entry.prompt) /\ Len(Prompt[r]) <= l
    <2>1. PICK a, b, c \in Nat : a = sched.entry.length /\ b = Len(Prompt[r]) /\ c = Len(sched.entry.prompt) /\ c <= a
      BY <1>5, EngineAssumption DEF Hit, Entries
    <2>2. \A x, y, z \in Nat : z <= x => x + y - z \in Nat /\ y <= x + y - z
      OBVIOUS
    <2>3. a + b - c \in Nat /\ b <= a + b - c
      BY <2>1, <2>2
    <2> QED BY <2>1, <2>3
  <1>12. seq \in [Request -> SequenceState]
    BY <1>1, RecordType
  <1>13. /\ seq' \in [Request -> SequenceState] /\ \A x \in Request : SameStanding(seq[x], seq'[x])
         /\ got[1] # "fail" => Len(Prompt[r]) <= seq'[r].length
    BY <1>6, <1>11, <1>12 DEF SequenceState, SameStanding
  <1>14. PICK t : t = sched' /\ t = [sched EXCEPT !.pc = "acceptRestore", !.got = got]
    BY <1>6
  <1>15. /\ SchedType(t) /\ t.pc = "acceptRestore" /\ t.todo = sched.todo /\ t.batch = sched.batch /\ t.got = got
         /\ t.entry = sched.entry /\ t.closing = sched.closing
    BY <1>1, <1>9, <1>14 DEF SchedType, Accepting
  <1>16. \A P : /\ InPhase(seq, sched.todo, P) => InPhase(seq', sched.todo, P)
                /\ InPhase(seq, sched.batch, P) => InPhase(seq', sched.batch, P)
    BY <1>3, <1>13, InPhaseFrame
  <1>17. Work(t, seq')
    BY <1>1, <1>15, <1>16 DEF Work
  <1>18. Stage(t, seq')
    <2>1. seq'[r].phase = "PREFILL" /\ Hit(t)
      BY <1>5, <1>13, <1>15 DEF Hit, SameStanding
    <2>2. InPhase(seq', t.todo, Unfilled) /\ InPhase(seq', t.batch, {"PREFILL"}) /\ t.todo # <<>>
      BY <1>1, <1>2, <1>3, <1>15, <1>16 DEF Stage
    <2> QED BY <1>4, <1>15, <2>1, <2>2 DEF Stage, Accepting
  <1>19. Results(t, seq', backend')
    <2>1. DOMAIN got = {1}
      BY <1>9
    <2> QED BY <1>4, <1>9, <1>13, <1>15, <2>1 DEF Results, Accepting
  <1>20. SchedType(sched') /\ sched'.closing = sched.closing /\ Plan(sched', seq', backend') /\ sched'.pc \notin {"off", "exited", "idle"}
    BY <1>14, <1>15, <1>17, <1>18, <1>19 DEF Plan
  <1> QED BY <1>2, <1>7, <1>8, <1>10, <1>13, <1>20, CallStep

\* The results of a call for the whole batch are handled one by one.
LEMMA BatchReturned ==
    ASSUME IInv, sched.pc \in {"call", "decode"}, NEW got \in Seq(Result), Len(got) = Len(sched.batch),
           NEW pc, pc = IF sched.pc = "call" THEN "acceptPrefill" ELSE "acceptDecode",
           sched' = [sched EXCEPT !.pc = pc, !.todo = sched.batch, !.batch = <<>>, !.got = got],
           seq' \in [Request -> SequenceState], \A x \in Request : SameStanding(seq[x], seq'[x]),
           \A i \in DOMAIN got : got[i] # "fail" => sched.batch[i] \in backend' /\
               (sched.pc = "call" => Len(Prompt[sched.batch[i]]) <= seq'[sched.batch[i]].length)
    PROVE  SchedType(sched') /\ sched'.closing = sched.closing /\ Plan(sched', seq', backend') /\ sched'.pc \notin {"off", "exited", "idle"}
  <1>1. SchedType(sched) /\ Work(sched, seq) /\ Stage(sched, seq)
    BY DEF IInv, Plan
  <1>2. PICK rs \in Seq(Request), e \in Seq(Request) : rs = sched.batch /\ e = <<>> /\ rs # <<>>
    BY <1>1, SchedFields DEF Stage
  <1>3. PICK t : t = sched' /\ t = [sched EXCEPT !.pc = pc, !.todo = rs, !.batch = e, !.got = got]
    BY <1>2
  <1>4. SchedType(t) /\ t.pc = pc /\ t.todo = rs /\ t.batch = e /\ t.got = got /\ t.closing = sched.closing
    <2>1. pc \in Accepting
      BY DEF Accepting
    <2> QED BY <1>1, <1>3, <2>1 DEF SchedType
  <1>5. IsInjective(<<>>) /\ Range(<<>>) = {}
    BY DEF IsInjective, Range
  <1>6. \A P : InPhase(seq, rs, P) => InPhase(seq', rs, P)
    BY InPhaseFrame
  <1>7. Work(t, seq')
    BY <1>1, <1>2, <1>4, <1>5, <1>6 DEF Work, InPhase
  <1>8. Stage(t, seq')
    <2>1. InPhase(seq', rs, IF pc = "acceptDecode" THEN {"DECODE"} ELSE {"PREFILL"})
      BY <1>1, <1>2, <1>6 DEF Stage
    <2> QED BY <1>2, <1>4, <2>1 DEF Stage, Accepting
  <1>9. Results(t, seq', backend')
    BY <1>2, <1>4 DEF Results, Accepting
  <1> QED BY <1>3, <1>4, <1>7, <1>8, <1>9 DEF Plan, Accepting

LEMMA PrefillCallIInv == ASSUME IInv, PrefillCall PROVE IInv'
  <1>1. SchedType(sched) /\ Work(sched, seq) /\ Stage(sched, seq) /\ TypeOK
    BY DEF IInv, Plan
  <1>2. sched.pc = "call" /\ UNCHANGED <<active, finished, events, reader, holds, cache, wake, closed, down>>
    BY DEF PrefillCall, At
  <1>3. PICK rs \in Seq(Request) : rs = sched.batch /\ rs # <<>> /\ IsInjective(rs) /\ InPhase(seq, rs, {"PREFILL"})
    BY <1>1, <1>2, SchedFields DEF Stage, Work
  <1>4. PICK width \in Nat : /\ width = LargestOf({Len(Prompt[r]) : r \in Range(rs)})
                             /\ \A i \in DOMAIN rs : Len(Prompt[rs[i]]) <= width
    <2>1. PICK L : L = {Len(Prompt[r]) : r \in Range(rs)}
      OBVIOUS
    <2>2. LargestOf(L) \in Nat /\ \A i \in DOMAIN rs : Len(Prompt[rs[i]]) <= LargestOf(L)
      BY <1>3, <2>1, WidestFacts
    <2> QED BY <2>1, <2>2
  <1>5. PICK refused, got : /\ got \in Outcomes(Len(rs), refused) /\ CallReturns(rs, got, refused)
                            /\ seq' = [r \in Request |->
                                         IF \E i \in DOMAIN rs : rs[i] = r /\ got[i] # "fail"
                                         THEN [seq[r] EXCEPT !.length = width] ELSE seq[r]]
                            /\ sched' = [sched EXCEPT !.pc = "acceptPrefill", !.todo = rs, !.batch = <<>>, !.got = got]
    <2>1. PICK refused : refused = (Range(rs) \cap backend # {})
      OBVIOUS
    <2>2. PICK got \in Outcomes(Len(sched.batch), Range(sched.batch) \cap backend # {}) :
             /\ CallReturns(sched.batch, got, Range(sched.batch) \cap backend # {})
             /\ seq' = [r \in Request |->
                          IF \E i \in DOMAIN sched.batch : sched.batch[i] = r /\ got[i] # "fail"
                          THEN [seq[r] EXCEPT !.length = LargestOf({Len(Prompt[x]) : x \in Range(sched.batch)})] ELSE seq[r]]
             /\ sched' = [sched EXCEPT !.pc = "acceptPrefill", !.todo = sched.batch, !.batch = <<>>, !.got = got]
      BY Zenon DEF PrefillCall
    <2>3. got \in Outcomes(Len(rs), refused)
      BY <1>3, <2>1, <2>2, Zenon
    <2>4. CallReturns(rs, got, refused)
      BY <1>3, <2>1, <2>2, Zenon
    <2>5. seq' = [r \in Request |->
                    IF \E i \in DOMAIN rs : rs[i] = r /\ got[i] # "fail"
                    THEN [seq[r] EXCEPT !.length = width] ELSE seq[r]]
      BY <1>3, <1>4, <2>2
    <2>6. sched' = [sched EXCEPT !.pc = "acceptPrefill", !.todo = rs, !.batch = <<>>, !.got = got]
      BY <1>3, <2>2
    <2> QED BY <2>3, <2>4, <2>5, <2>6, Zenon
  <1>6. /\ got \in Seq(Result) /\ Len(got) = Len(rs) /\ DOMAIN got = DOMAIN rs
        /\ \A i \in DOMAIN rs : got[i] # "fail" => rs[i] \in backend'
    BY <1>1, <1>3, <1>5, CallFacts
  <1>7. seq \in [Request -> SequenceState]
    BY <1>1, RecordType
  <1>8. \A x \in Request : [seq[x] EXCEPT !.length = width] \in SequenceState /\ SameStanding(seq[x], [seq[x] EXCEPT !.length = width])
                           /\ [seq[x] EXCEPT !.length = width].length = width
    BY <1>7 DEF SequenceState, SameStanding
  <1>9. seq' \in [Request -> SequenceState] /\ \A x \in Request : SameStanding(seq[x], seq'[x])
    BY <1>5, <1>7, <1>8 DEF SameStanding
  <1>10. \A i \in DOMAIN rs : rs[i] \in Request /\ (got[i] # "fail" => seq'[rs[i]].length = width)
    BY <1>3, <1>5, <1>8
  <1>11. InPhase(seq, rs, {"PREFILL", "DECODE"})
    BY <1>3 DEF InPhase
  <1>12. \A i \in DOMAIN got : got[i] # "fail" => sched.batch[i] \in backend' /\
               (sched.pc = "call" => Len(Prompt[sched.batch[i]]) <= seq'[sched.batch[i]].length)
    BY <1>3, <1>4, <1>6, <1>10
  <1>13. SchedType(sched') /\ sched'.closing = sched.closing /\ Plan(sched', seq', backend') /\ sched'.pc \notin {"off", "exited", "idle"}
    <2>1. PICK pc : pc = IF sched.pc = "call" THEN "acceptPrefill" ELSE "acceptDecode"
      OBVIOUS
    <2>2. sched' = [sched EXCEPT !.pc = pc, !.todo = sched.batch, !.batch = <<>>, !.got = got]
      BY <1>2, <1>3, <1>5, <2>1
    <2> QED BY <1>2, <1>3, <1>6, <1>9, <1>12, <2>1, <2>2, BatchReturned
  <1> QED BY <1>2, <1>3, <1>5, <1>9, <1>11, <1>13, CallStep

LEMMA DecodeIInv == ASSUME IInv, Decode PROVE IInv'
  <1>1. SchedType(sched) /\ Work(sched, seq) /\ Stage(sched, seq) /\ TypeOK
    BY DEF IInv, Plan
  <1>2. sched.pc = "decode" /\ UNCHANGED <<active, finished, events, reader, holds, cache, wake, closed, down>>
    BY DEF Decode, At
  <1>3. PICK rs \in Seq(Request) : rs = sched.batch /\ rs # <<>> /\ IsInjective(rs) /\ InPhase(seq, rs, {"DECODE"})
    BY <1>1, <1>2, SchedFields DEF Stage, Work
  <1>4. PICK refused, got : /\ got \in Outcomes(Len(rs), refused) /\ CallReturns(rs, got, refused)
                            /\ seq' = [r \in Request |->
                                         IF \E i \in DOMAIN rs : rs[i] = r /\ got[i] # "fail"
                                         THEN [seq[r] EXCEPT !.length = @ + 1] ELSE seq[r]]
                            /\ sched' = [sched EXCEPT !.pc = "acceptDecode", !.todo = rs, !.batch = <<>>, !.got = got]
    <2>1. PICK refused : refused = ~(Range(rs) \subseteq backend)
      OBVIOUS
    <2>2. PICK got \in Outcomes(Len(sched.batch), ~(Range(sched.batch) \subseteq backend)) :
             /\ CallReturns(sched.batch, got, ~(Range(sched.batch) \subseteq backend))
             /\ seq' = [r \in Request |->
                          IF \E i \in DOMAIN sched.batch : sched.batch[i] = r /\ got[i] # "fail"
                          THEN [seq[r] EXCEPT !.length = @ + 1] ELSE seq[r]]
             /\ sched' = [sched EXCEPT !.pc = "acceptDecode", !.todo = sched.batch, !.batch = <<>>, !.got = got]
      BY Zenon DEF Decode
    <2>3. got \in Outcomes(Len(rs), refused)
      BY <1>3, <2>1, <2>2, Zenon
    <2>4. CallReturns(rs, got, refused)
      BY <1>3, <2>1, <2>2, Zenon
    <2>5. seq' = [r \in Request |->
                    IF \E i \in DOMAIN rs : rs[i] = r /\ got[i] # "fail"
                    THEN [seq[r] EXCEPT !.length = @ + 1] ELSE seq[r]]
      BY <1>3, <2>2
    <2>6. sched' = [sched EXCEPT !.pc = "acceptDecode", !.todo = rs, !.batch = <<>>, !.got = got]
      BY <1>3, <2>2
    <2> QED BY <2>3, <2>4, <2>5, <2>6, Zenon
  <1>5. /\ got \in Seq(Result) /\ Len(got) = Len(rs) /\ DOMAIN got = DOMAIN rs
        /\ \A i \in DOMAIN rs : got[i] # "fail" => rs[i] \in backend'
    BY <1>1, <1>3, <1>4, CallFacts
  <1>6. seq \in [Request -> SequenceState]
    BY <1>1, RecordType
  <1>7. \A x \in Request : [seq[x] EXCEPT !.length = @ + 1] \in SequenceState /\ SameStanding(seq[x], [seq[x] EXCEPT !.length = @ + 1])
    <2> SUFFICES ASSUME NEW x \in Request
                 PROVE  [seq[x] EXCEPT !.length = @ + 1] \in SequenceState /\ SameStanding(seq[x], [seq[x] EXCEPT !.length = @ + 1])
      OBVIOUS
    <2>1. PICK q \in SequenceState : q = seq[x]
      BY <1>6
    <2>2. PICK l \in Nat : l = q.length + 1
      BY DEF SequenceState
    <2>3. PICK t : t = [q EXCEPT !.length = l]
      OBVIOUS
    <2>4. t \in SequenceState /\ SameStanding(q, t)
      BY <2>3 DEF SequenceState, SameStanding
    <2> QED BY <2>1, <2>2, <2>3, <2>4
  <1>8. seq' \in [Request -> SequenceState] /\ \A x \in Request : SameStanding(seq[x], seq'[x])
    BY <1>4, <1>6, <1>7 DEF SameStanding
  <1>9. InPhase(seq, rs, {"PREFILL", "DECODE"})
    BY <1>3 DEF InPhase
  <1>10. SchedType(sched') /\ sched'.closing = sched.closing /\ Plan(sched', seq', backend') /\ sched'.pc \notin {"off", "exited", "idle"}
    <2>1. PICK pc : pc = IF sched.pc = "call" THEN "acceptPrefill" ELSE "acceptDecode"
      OBVIOUS
    <2>2. sched' = [sched EXCEPT !.pc = pc, !.todo = sched.batch, !.batch = <<>>, !.got = got]
      BY <1>2, <1>3, <1>4, <2>1
    <2>3. \A i \in DOMAIN got : got[i] # "fail" => sched.batch[i] \in backend' /\
               (sched.pc = "call" => Len(Prompt[sched.batch[i]]) <= seq'[sched.batch[i]].length)
      BY <1>2, <1>3, <1>5
    <2> QED BY <1>2, <1>3, <1>5, <1>8, <2>1, <2>2, <2>3, BatchReturned
  <1> QED BY <1>2, <1>3, <1>4, <1>8, <1>9, <1>10, CallStep

LEMMA ChunkIInv == ASSUME IInv, Chunk PROVE IInv'
  <1>1. SchedType(sched) /\ Work(sched, seq) /\ Stage(sched, seq) /\ TypeOK
    BY DEF IInv, Plan
  <1>2. /\ sched.pc = "chunks" /\ sched.closing = <<>> /\ sched.batch = <<>>
        /\ UNCHANGED <<active, finished, events, reader, holds, cache, wake, closed, down>>
    BY <1>1 DEF Chunk, At, Stage
  <1>3. /\ sched.todo \in Seq(Request) /\ sched.todo # <<>> /\ Len(sched.todo) > 0 /\ IsInjective(sched.todo)
        /\ InPhase(seq, sched.todo, {"PREFILL"})
    BY <1>1, <1>2, SchedFields DEF Stage, Work
  <1>4. PICK r \in Request : r = Head(sched.todo) /\ r = sched.todo[1] /\ 1 \in DOMAIN sched.todo
    BY <1>3
  <1>5. PICK size \in Nat, end \in Nat : /\ size = Len(Prompt[r])
                              /\ end = IF seq[r].offset + ChunkSize < size THEN seq[r].offset + ChunkSize ELSE size
    <2>1. PICK size \in Nat, from \in Nat, chunk \in Nat : size = Len(Prompt[r]) /\ from = seq[r].offset /\ chunk = ChunkSize
      <3>1. Len(Prompt[r]) \in Nat /\ ChunkSize \in Nat
        BY EngineAssumption
      <3>2. seq[r].offset \in Nat
        BY <1>1 DEF TypeOK
      <3> QED BY <3>1, <3>2
    <2>2. (IF from + chunk < size THEN from + chunk ELSE size) \in Nat
      OBVIOUS
    <2> QED BY <2>1, <2>2
  <1>6. PICK got : /\ got \in Outcomes(1, FALSE) /\ CallReturns(<<r>>, got, FALSE)
                   /\ IF got[1] = "fail" THEN UNCHANGED seq
                      ELSE seq' = [seq EXCEPT ![r].offset = end, ![r].length = IF end = size THEN size ELSE @]
                   /\ sched' = IF got[1] # "fail" /\ end < size
                               THEN ContinueChunks([sched EXCEPT !.todo = Tail(@)])
                               ELSE [sched EXCEPT !.pc = "acceptChunk", !.got = got]
    BY <1>4, <1>5 DEF Chunk
  <1>7. PICK rs \in Seq(Request) : rs = <<r>> /\ Len(rs) = 1 /\ rs[1] = r /\ IsInjective(rs) /\ rs # <<>> /\ DOMAIN rs = {1}
    BY SingleFacts
  <1>8. got \in Outcomes(Len(rs), FALSE) /\ CallReturns(rs, got, FALSE)
    BY <1>6, <1>7
  <1>9. got \in Seq(Result) /\ Len(got) = 1 /\ (got[1] # "fail" => r \in backend')
    <2>1. /\ got \in Seq(Result) /\ Len(got) = Len(rs)
          /\ \A i \in DOMAIN rs : got[i] # "fail" => rs[i] \in backend'
      BY <1>1, <1>7, <1>8, CallFacts
    <2> QED BY <1>7, <2>1
  <1>10. InPhase(seq, rs, {"PREFILL", "DECODE"})
    BY <1>3, <1>4, <1>7 DEF InPhase
  <1>11. seq \in [Request -> SequenceState]
    BY <1>1, RecordType
  <1>12. /\ seq' \in [Request -> SequenceState] /\ \A x \in Request : SameStanding(seq[x], seq'[x])
         /\ got[1] # "fail" /\ end = size => Len(Prompt[r]) <= seq'[r].length
    <2>1. CASE got[1] = "fail"
      BY <1>6, <1>11, <2>1 DEF SameStanding
    <2>2. CASE got[1] # "fail"
      <3>1. PICK l \in Nat : l = IF end = size THEN size ELSE seq[r].length
        BY <1>11 DEF SequenceState
      <3>2. seq' = [seq EXCEPT ![r] = [seq[r] EXCEPT !.offset = end, !.length = l]]
        BY <1>6, <1>11, <2>2, <3>1
      <3>3. PICK q : q = [seq[r] EXCEPT !.offset = end, !.length = l]
        OBVIOUS
      <3>4. q \in SequenceState /\ SameStanding(seq[r], q) /\ q.length = l
        BY <1>11, <3>3 DEF SequenceState, SameStanding
      <3> QED BY <1>5, <1>11, <3>1, <3>2, <3>3, <3>4 DEF SameStanding
    <2> QED BY <2>1, <2>2
  <1>13. \A P : InPhase(seq, sched.todo, P) => InPhase(seq', sched.todo, P)
    BY <1>3, <1>12, InPhaseFrame
  <1>14. IsInjective(<<>>) /\ Range(<<>>) = {}
    BY DEF IsInjective, Range
  <1>15. CASE got[1] # "fail" /\ end < size
    <2>1. PICK u \in Seq(Request) : /\ u = Tail(sched.todo) /\ IsInjective(u) /\ Len(u) = Len(sched.todo) - 1
                                    /\ \A j \in 1..(Len(sched.todo) - 1) : u[j] = sched.todo[j + 1]
      BY <1>3, RestFacts
    <2>2. \A j \in DOMAIN u : j + 1 \in DOMAIN sched.todo /\ u[j] = sched.todo[j + 1]
      BY <1>3, <2>1
    <2>3. \A P : InPhase(seq', sched.todo, P) => InPhase(seq', u, P)
      BY <2>2 DEF InPhase
    <2>4. PICK s : s = [sched EXCEPT !.todo = u]
      OBVIOUS
    <2>5. SchedType(s) /\ s.todo = u /\ s.batch = <<>> /\ s.closing = sched.closing
      BY <1>1, <1>2, <2>4 DEF SchedType
    <2>6. sched' = ContinueChunks(s)
      BY <1>6, <1>15, <2>1, <2>4
    <2>7. Work(s, seq') /\ InPhase(seq', s.todo, {"PREFILL"})
      <3>1. InPhase(seq', u, Alive) /\ InPhase(seq', u, {"PREFILL"}) /\ InPhase(seq', <<>>, Alive)
        <4>1. InPhase(seq, sched.todo, Alive)
          BY <1>1 DEF Work
        <4>2. InPhase(seq', u, Alive) /\ InPhase(seq', u, {"PREFILL"})
          BY <1>3, <1>13, <2>3, <4>1
        <4>3. InPhase(seq', <<>>, Alive)
          BY DEF InPhase
        <4> QED BY <4>2, <4>3
      <3> QED BY <1>14, <2>1, <2>5, <3>1 DEF Work
    <2>8. /\ SchedType(ContinueChunks(s)) /\ Plan(ContinueChunks(s), seq', backend')
          /\ ContinueChunks(s).closing = s.closing /\ ContinueChunks(s).pc \in {"loop", "chunks"}
      BY <2>5, <2>7, ContinueChunksPlan
    <2>9. SchedType(sched') /\ sched'.closing = sched.closing /\ Plan(sched', seq', backend') /\ sched'.pc \notin {"off", "exited", "idle"}
      BY <2>5, <2>6, <2>8
    <2> QED BY <1>2, <1>7, <1>8, <1>10, <1>12, <2>9, CallStep
  <1>16. CASE ~(got[1] # "fail" /\ end < size)
    <2>1. PICK t : t = sched' /\ t = [sched EXCEPT !.pc = "acceptChunk", !.got = got]
      BY <1>6, <1>16
    <2>2. SchedType(t) /\ t.pc = "acceptChunk" /\ t.todo = sched.todo /\ t.batch = <<>> /\ t.got = got /\ t.closing = sched.closing
      BY <1>1, <1>2, <1>9, <2>1 DEF SchedType, Accepting
    <2>3. got[1] # "fail" => end = size
      BY <1>5, <1>16, <1>11, EngineAssumption DEF SequenceState
    <2>4. Work(t, seq')
      BY <1>1, <1>2, <1>13, <1>14, <2>2 DEF Work, InPhase
    <2>5. Stage(t, seq')
      BY <1>3, <1>13, <2>2 DEF Stage, Accepting
    <2>6. Results(t, seq', backend')
      <3>1. DOMAIN got = {1}
        BY <1>9
      <3> QED BY <1>4, <1>9, <1>12, <2>2, <2>3, <3>1 DEF Results, Accepting
    <2>7. SchedType(sched') /\ sched'.closing = sched.closing /\ Plan(sched', seq', backend') /\ sched'.pc \notin {"off", "exited", "idle"}
      BY <2>1, <2>2, <2>4, <2>5, <2>6 DEF Plan
    <2> QED BY <1>2, <1>7, <1>8, <1>10, <1>12, <2>7, CallStep
  <1> QED BY <1>15, <1>16

-----------------------------------------------------------------------------
(* The end of a sequence *)

\* A queue without a terminal event.
Open(q) == q \in Seq(TerminalEvent \cup {"token"}) /\ \A i \in DOMAIN q : q[i] \notin TerminalEvent

LEMMA OpenUntilDone ==
    ASSUME IInv, NEW r \in Request, IsActive(r)
    PROVE  Open(events[r]) /\ Open(Append(events[r], "token"))
  <1>1. TypeOK /\ StreamsEndOnce
    BY DEF IInv
  <1>2. PICK q \in Seq(TerminalEvent \cup {"token"}) : q = events[r] /\ \A i \in DOMAIN q : q[i] \notin TerminalEvent
    BY <1>1 DEF TypeOK, StreamsEndOnce, Done
  <1>3. PICK E : E = TerminalEvent \cup {"token"} /\ "token" \in E
    OBVIOUS
  <1>4. PICK t : t = Append(q, "token")
    OBVIOUS
  <1>5. t \in Seq(E) /\ Len(t) = Len(q) + 1 /\ Len(q) \in Nat /\ \A i \in 1..Len(q) : t[i] = q[i]
    BY <1>3, <1>4
  <1>6. t[Len(q) + 1] = "token" /\ "token" \notin TerminalEvent
    BY <1>4 DEF TerminalEvent
  <1>7. \A i \in DOMAIN t : i \in 1..Len(q) \/ i = Len(q) + 1
    BY <1>5
  <1>8. \A i \in DOMAIN t : t[i] \notin TerminalEvent
    BY <1>2, <1>5, <1>6, <1>7
  <1> QED BY <1>2, <1>3, <1>4, <1>5, <1>8 DEF Open

\* An owner leaves with what it holds.
LEMMA DropOwner ==
    ASSUME IInv, NEW r \in Request, KV!Drop(r), active' = Drop(active, r)
    PROVE  /\ active' \in Seq(Request) /\ IsInjective(active') /\ Range(active') = Range(active) \ {r}
           /\ DOMAIN holds' = Range(active') /\ holds' \in [DOMAIN holds' -> SUBSET Block] /\ DOMAIN holds' \subseteq Request
           /\ \A x \in DOMAIN holds' : KV!Exclusive(x)'
           /\ \A x \in Range(active') : holds'[x] = holds[x]
  <1>1. TypeOK /\ Membership /\ Ownership
    BY DEF IInv
  <1>2. active \in Seq(Request) /\ IsInjective(active) /\ DOMAIN holds = Range(active)
    BY <1>1 DEF TypeOK, Membership, Ownership
  <1>3. active' \in Seq(Request) /\ IsInjective(active') /\ Range(active') = Range(active) \ {r}
    BY <1>2, DropFacts
  <1>4. holds' = [p \in DOMAIN holds \ {r} |-> holds[p]]
    BY DEF KV!Drop
  <1>5. DOMAIN holds' = Range(active') /\ holds' \in [DOMAIN holds' -> SUBSET Block] /\ DOMAIN holds' \subseteq Request
    BY <1>1, <1>2, <1>3, <1>4 DEF TypeOK
  <1>6. \A x \in DOMAIN holds' : KV!Exclusive(x)'
    BY <1>1, <1>4 DEF Ownership, KV!Exclusive
  <1> QED BY <1>2, <1>3, <1>4, <1>5, <1>6

\* The terminal event goes behind the queued ones when the sequence leaves.
LEMMA LastEvent ==
    ASSUME IInv, NEW r \in Request, NEW q, Open(q), NEW terminal \in TerminalEvent, UNCHANGED reader,
           events' = [events EXCEPT ![r] = Append(q, terminal)], Range(active') = Range(active) \ {r},
           seq'[r].phase \in Terminal, \A x \in Request \ {r} : seq'[x] = seq[x]
    PROVE  StreamsEndOnce' /\ events' \in [Request -> Seq(TerminalEvent \cup {"token"})]
  <1>1. TypeOK /\ StreamsEndOnce
    BY DEF IInv
  <1>2. PICK E : E = TerminalEvent \cup {"token"} /\ terminal \in E
    OBVIOUS
  <1>3. PICK t : t = Append(q, terminal)
    OBVIOUS
  <1>4. /\ t \in Seq(E) /\ Len(t) = Len(q) + 1 /\ Len(q) \in Nat /\ \A i \in 1..Len(q) : t[i] = q[i]
        /\ t[Len(q) + 1] = terminal /\ DOMAIN q = 1..Len(q) /\ DOMAIN t = 1..Len(t)
    BY <1>2, <1>3 DEF Open
  <1>5. events' = [events EXCEPT ![r] = t] /\ events \in [Request -> Seq(E)]
    BY <1>1, <1>2, <1>3 DEF TypeOK
  <1>6. events' \in [Request -> Seq(E)]
    BY <1>4, <1>5
  <1>7. \A i \in DOMAIN t : t[i] \in TerminalEvent => i = Len(t)
    <2> SUFFICES ASSUME NEW i \in DOMAIN t, t[i] \in TerminalEvent PROVE i = Len(t)
      OBVIOUS
    <2>1. i \in 1..Len(q) \/ i = Len(q) + 1
      BY <1>4
    <2>2. \A j \in 1..Len(q) : t[j] \notin TerminalEvent
      BY <1>4 DEF Open
    <2> QED BY <1>4, <2>1, <2>2
  <1>8. t # <<>> /\ t[Len(t)] \in TerminalEvent
    BY <1>4
  <1>9. StreamsEndOnce'
    <2> SUFFICES ASSUME NEW x \in Request
                 PROVE  /\ \A i \in DOMAIN events'[x] :
                              events'[x][i] \in TerminalEvent => i = Len(events'[x]) /\ Done(x)'
                        /\ Done(x)' /\ reader'[x] \in {"none", "get", "yield"} =>
                              events'[x] # <<>> /\ events'[x][Len(events'[x])] \in TerminalEvent
      BY DEF StreamsEndOnce
    <2>1. CASE x # r
      <3>1. events'[x] = events[x] /\ Done(x)' = Done(x)
        BY <1>5, <2>1 DEF Done, IsActive
      <3> QED BY <1>1, <3>1 DEF StreamsEndOnce
    <2>2. CASE x = r
      <3>1. events'[x] = t /\ Done(x)'
        BY <1>5, <2>2 DEF Done, IsActive
      <3> QED BY <1>7, <1>8, <3>1
    <2> QED BY <2>1, <2>2
  <1> QED BY <1>2, <1>6, <1>9

\* A sequence leaves: nothing of it stays behind.
LEMMA FinishStep ==
    ASSUME IInv, NEW r \in Request, IsActive(r), NEW q, Open(q), NEW terminal \in TerminalEvent, Finish(r, terminal, q),
           seq' \in [Request -> SequenceState], seq'[r].phase \in Terminal, seq'[r].generated <= MaxNew[r],
           \A x \in Request \ {r} : seq'[x] = seq[x], backend' = backend \ {r},
           NEW t, sched' = t, SchedType(t), t.closing = <<>>, Closing(sched) \subseteq {r}, Plan(t, seq', backend'),
           t.pc \notin {"off", "exited"}, Bounded(cache'), faulted' \subseteq Request, UNCHANGED <<reader, closed, down>>
    PROVE  IInv'
  <1>1. TypeOK /\ Membership /\ Records /\ Ownership /\ Quiet
    BY DEF IInv
  <1>2. /\ KV!Drop(r) /\ active' = Drop(active, r) /\ finished' = finished \cup {r}
        /\ events' = [events EXCEPT ![r] = Append(q, terminal)] /\ wake' = TRUE
    BY DEF Finish
  <1>3. /\ active' \in Seq(Request) /\ IsInjective(active') /\ Range(active') = Range(active) \ {r}
        /\ DOMAIN holds' = Range(active') /\ holds' \in [DOMAIN holds' -> SUBSET Block] /\ DOMAIN holds' \subseteq Request
    BY <1>2, DropOwner
  <1>4. /\ \A x \in DOMAIN holds' : KV!Exclusive(x)'
        /\ \A x \in Range(active') : holds'[x] = holds[x]
    BY <1>2, DropOwner
  <1>5. StreamsEndOnce' /\ events' \in [Request -> Seq(TerminalEvent \cup {"token"})]
    BY <1>2, <1>3, LastEvent
  <1>6. Range(active') \subseteq Request /\ active # <<>>
    BY <1>3 DEF IsActive, Range
  <1>7. TypeOK'
    <2>1. cache' \in Seq([prompt : Seq(Nat), length : Nat])
      BY DEF Bounded, Entries
    <2>2. /\ sched'.pc \in {"off", "loop", "sweep", "idle", "prefill", "restore", "call",
                     "chunks", "decode", "exited", "dead"} \cup Accepting
          /\ sched'.todo \in Seq(Request) /\ sched'.batch \in Seq(Request)
          /\ sched'.got \in Seq(Result) /\ sched'.turn \in BOOLEAN
      BY DEF SchedType
    <2> QED BY <1>1, <1>2, <1>3, <1>5, <2>1, <2>2 DEF TypeOK, SequenceState
  <1>8. Closing(t) = {}
    BY DEF Closing
  <1>9. Membership'
    <2>1. \A x \in Request : IsActive(x)' <=> seq'[x].phase \in Alive
      <3> SUFFICES ASSUME NEW x \in Request PROVE IsActive(x)' <=> seq'[x].phase \in Alive
        OBVIOUS
      <3>1. CASE x = r
        BY <1>3, <3>1 DEF IsActive, Alive, Terminal
      <3>2. CASE x # r
        BY <1>1, <1>3, <3>2 DEF Membership, IsActive
      <3> QED BY <3>1, <3>2
    <2>2. \A x \in finished' : seq'[x].phase \in Terminal /\ ~IsActive(x)'
      BY <1>1, <1>2, <1>3 DEF Membership, TypeOK, IsActive
    <2> QED BY <1>3, <1>8, <2>1, <2>2 DEF Membership
  <1>10. Records'
    <2> SUFFICES ASSUME NEW x \in Request PROVE Filled(x)'
      BY DEF Records
    <2>1. CASE x = r
      BY <2>1 DEF Filled, Terminal
    <2>2. CASE x # r
      BY <1>1, <2>2 DEF Records, Filled
    <2> QED BY <2>1, <2>2
  <1>11. Ownership'
    <2>1. (\A x \in backend : IsActive(x) /\ seq[x].created)'
      BY <1>1, <1>3 DEF Ownership, IsActive, TypeOK
    <2>2. \A x \in Range(active') :
             IF seq'[x].tokenized THEN Len(Prompt[x]) + MaxNew[x] <= Cardinality(holds'[x]) * BlockSize
             ELSE Cardinality(holds'[x]) = BlocksForTokens(Estimate[x] + MaxNew[x])
      <3> SUFFICES ASSUME NEW x \in Range(active')
                   PROVE  IF seq'[x].tokenized THEN Len(Prompt[x]) + MaxNew[x] <= Cardinality(holds'[x]) * BlockSize
                          ELSE Cardinality(holds'[x]) = BlocksForTokens(Estimate[x] + MaxNew[x])
        OBVIOUS
      <3>1. seq'[x] = seq[x] /\ holds'[x] = holds[x] /\ x \in Range(active)
        BY <1>3, <1>4, <1>6
      <3> QED BY <1>1, <3>1 DEF Ownership
    <2> QED BY <1>3, <1>4, <2>1, <2>2 DEF Ownership
  <1>12. Quiet'
    BY <1>1, <1>2, <1>6 DEF Quiet, NoLostWakeup
  <1>13. SchedType(sched') /\ Plan(sched', seq', backend')
    OBVIOUS
  <1> QED BY <1>5, <1>7, <1>9, <1>10, <1>11, <1>12, <1>13 DEF IInv

LEMMA ReleasedIInv == ASSUME IInv, Released PROVE IInv'
  <1>1. TypeOK /\ SchedType(sched) /\ Membership /\ Records /\ Plan(sched, seq, backend) /\ Quiet /\ Bounded(cache)
    BY DEF IInv
  <1>2. PICK r \in Request, terminal \in TerminalEvent : r = sched.closing[1] /\ terminal = sched.closing[2] /\ Closing(sched) = {r}
    BY <1>1 DEF SchedType, Released, Closing
  <1>3. /\ Finish(r, terminal, events[r]) /\ seq' = [seq EXCEPT ![r].created = FALSE] /\ backend' = backend \ {r}
        /\ sched.closing # <<>> /\ UNCHANGED <<reader, cache, closed, down, faulted>>
    BY <1>2 DEF Released
  <1>4. IsActive(r) /\ seq[r].phase \in Terminal
    BY <1>1, <1>2 DEF Membership
  <1>5. Open(events[r])
    BY <1>4, OpenUntilDone
  <1>6. seq \in [Request -> SequenceState]
    BY <1>1, RecordType
  <1>7. PICK s : s = [seq[r] EXCEPT !.created = FALSE]
    OBVIOUS
  <1>8. s \in SequenceState /\ s.phase = seq[r].phase /\ s.generated = seq[r].generated
    BY <1>6, <1>7 DEF SequenceState
  <1>9. seq' = [seq EXCEPT ![r] = s]
    BY <1>3, <1>6, <1>7
  <1>10. /\ seq' \in [Request -> SequenceState] /\ seq'[r].phase \in Terminal /\ seq'[r].generated <= MaxNew[r]
         /\ \A x \in Request \ {r} : seq'[x] = seq[x]
    BY <1>1, <1>4, <1>6, <1>8, <1>9 DEF Records, Filled
  <1>11. PICK t : t = sched' /\ t = [sched EXCEPT !.closing = <<>>]
    BY DEF Released
  <1>12. /\ SchedType(t) /\ t.closing = <<>> /\ t.pc = sched.pc /\ t.todo = sched.todo /\ t.batch = sched.batch
         /\ t.got = sched.got /\ t.entry = sched.entry
    BY <1>1, <1>11 DEF SchedType
  <1>13. Plan(t, seq, backend)
    BY <1>1, <1>12 DEF Plan, Work, Stage, Results, Hit
  <1>14. \A x \in Range(t.todo) \cup Range(t.batch) : x \in Request \ {r}
    <2>1. \A x \in Range(t.todo) \cup Range(t.batch) : x \in Request /\ seq[x].phase \in Alive
      BY <1>12, <1>13 DEF Plan, Work, InPhase, Range, SchedType
    <2> QED BY <1>4, <2>1 DEF Alive, Terminal
  <1>15. Plan(t, seq', backend')
    BY <1>3, <1>10, <1>12, <1>13, <1>14, PlanFrame
  <1>16. t.pc \notin {"off", "exited"}
    <2>1. active # <<>>
      BY <1>4 DEF IsActive, Range
    <2> QED BY <1>1, <1>3, <1>12, <2>1 DEF Quiet
  <1>17. faulted' \subseteq Request /\ Bounded(cache')
    BY <1>1, <1>3 DEF TypeOK
  <1> QED BY <1>2, <1>3, <1>4, <1>5, <1>10, <1>11, <1>12, <1>15, <1>16, <1>17, FinishStep

\* _complete or _fail of a sequence that the scheduler has nothing left to do for.
LEMMA TerminateStep ==
    ASSUME IInv, NEW r \in Request, seq[r].phase \in Alive, sched.closing = <<>>,
           NEW s \in SequenceState, s.created = seq[r].created, s.tokenized = seq[r].tokenized, s.generated <= MaxNew[r],
           NEW terminal \in TerminalEvent, NEW q, Open(q), NEW next, Terminate(r, s, terminal, next, q),
           SchedType(next), next.closing = <<>>, Plan(next, seq, backend), next.pc \notin {"off", "idle", "exited"},
           r \notin Range(next.todo) \cup Range(next.batch),
           UNCHANGED <<reader, backend, closed, down>>, Bounded(cache'), faulted' \subseteq Request
    PROVE  IInv'
  <1>1. TypeOK /\ Membership /\ Records /\ Ownership /\ Quiet /\ StreamsEndOnce
    BY DEF IInv
  <1>2. seq \in [Request -> SequenceState]
    BY <1>1, RecordType
  <1>3. IsActive(r) /\ active # <<>> /\ r \notin finished
    BY AliveIsActive
  <1>4. PICK p \in Terminal : p = PhaseFor(terminal)
    BY DEF PhaseFor, Terminal
  <1>5. PICK w : w = [s EXCEPT !.phase = p]
    OBVIOUS
  <1>6. w \in SequenceState /\ w.phase = p /\ w.created = s.created /\ w.tokenized = s.tokenized /\ w.generated = s.generated
    BY <1>5 DEF SequenceState
  <1>7. seq' = [seq EXCEPT ![r] = w]
    BY <1>4, <1>5 DEF Terminate
  <1>8. /\ seq' \in [Request -> SequenceState] /\ seq'[r] = w /\ \A x \in Request \ {r} : seq'[x] = seq[x]
    BY <1>2, <1>6, <1>7
  <1>9. \A x \in Range(next.todo) \cup Range(next.batch) : x \in Request \ {r}
    BY DEF SchedType, Range
  <1>10. Plan(next, seq', backend)
    BY <1>8, <1>9, PlanFrame
  <1>11. Closing(sched) = {}
    BY DEF Closing
  <1>12. CASE ~s.created
    <2>1. sched' = next /\ Finish(r, terminal, q)
      BY <1>12 DEF Terminate
    <2>2. backend' = backend \ {r}
      BY <1>1, <1>12 DEF Ownership
    <2>3. Plan(next, seq', backend')
      BY <1>10
    <2>4. seq'[r].phase \in Terminal /\ seq'[r].generated <= MaxNew[r]
      BY <1>6, <1>8
    <2>5. Closing(sched) \subseteq {r} /\ next.pc \notin {"off", "exited"}
      BY <1>11
    <2> QED BY <1>3, <1>8, <2>1, <2>2, <2>3, <2>4, <2>5, FinishStep
  <1>13. CASE s.created
    <2>1. /\ sched' = [next EXCEPT !.closing = <<r, terminal>>] /\ events' = [events EXCEPT ![r] = q]
          /\ UNCHANGED <<active, finished, holds, wake>>
      BY <1>13 DEF Terminate
    <2>2. PICK c \in {<<>>} \cup (Request \X TerminalEvent) : c = <<r, terminal>> /\ c # <<>> /\ c[1] = r
      <3>1. <<r, terminal>> \in Request \X TerminalEvent /\ <<r, terminal>>[1] = r
        OBVIOUS
      <3>2. Len(<<r, terminal>>) = 2 /\ Len(<<>>) = 0
        OBVIOUS
      <3>3. <<r, terminal>> # <<>>
        BY <3>2
      <3> QED BY <3>1, <3>3
    <2>3. PICK t : t = sched' /\ t = [next EXCEPT !.closing = c]
      BY <2>1, <2>2
    <2>4. /\ SchedType(t) /\ t.closing = c /\ t.pc = next.pc /\ t.todo = next.todo /\ t.batch = next.batch
          /\ t.got = next.got /\ t.entry = next.entry
      BY <2>3 DEF SchedType
    <2>5. Plan(t, seq', backend')
      BY <1>10, <2>4 DEF Plan, Work, Stage, Results, Hit
    <2>6. Closing(t) = {r}
      BY <2>2, <2>4 DEF Closing
    <2>7. events' \in [Request -> Seq(TerminalEvent \cup {"token"})]
      BY <1>1, <2>1 DEF TypeOK, Open
    <2>8. TypeOK'
      <3>1. cache' \in Seq([prompt : Seq(Nat), length : Nat])
        BY DEF Bounded, Entries
      <3>2. /\ sched'.pc \in {"off", "loop", "sweep", "idle", "prefill", "restore", "call",
                       "chunks", "decode", "exited", "dead"} \cup Accepting
            /\ sched'.todo \in Seq(Request) /\ sched'.batch \in Seq(Request)
            /\ sched'.got \in Seq(Result) /\ sched'.turn \in BOOLEAN
        BY <2>3, <2>4 DEF SchedType
      <3> QED BY <1>1, <1>8, <2>1, <2>7, <3>1, <3>2 DEF TypeOK, SequenceState
    <2>9. Membership'
      <3>1. \A x \in Request : IsActive(x)' <=> seq'[x].phase \in Alive \/ x \in {r}
        BY <1>1, <1>3, <1>8, <1>11, <2>1 DEF Membership, IsActive
      <3>2. IsInjective(active') /\ \A x \in finished' : seq'[x].phase \in Terminal /\ ~IsActive(x)'
        BY <1>1, <1>3, <1>8, <2>1 DEF Membership, TypeOK, IsActive
      <3> QED BY <1>6, <1>8, <2>3, <2>6, <3>1, <3>2 DEF Membership
    <2>10. Records'
      <3> SUFFICES ASSUME NEW x \in Request PROVE Filled(x)'
        BY DEF Records
      <3>1. CASE x = r
        BY <1>6, <1>8, <3>1 DEF Filled, Terminal
      <3>2. CASE x # r
        BY <1>1, <1>8, <3>2 DEF Records, Filled
      <3> QED BY <3>1, <3>2
    <2>11. Ownership'
      <3>1. \A x \in Request : seq'[x].created = seq[x].created /\ seq'[x].tokenized = seq[x].tokenized
        BY <1>6, <1>8
      <3>2. Range(active) \subseteq Request /\ backend \subseteq Request
        BY <1>1 DEF TypeOK, Range
      <3>3. (\A x \in backend : IsActive(x) /\ seq[x].created)'
        BY <1>1, <2>1, <3>1, <3>2 DEF Ownership, IsActive
      <3>4. (\A x \in DOMAIN holds : KV!Exclusive(x))'
        BY <1>1, <2>1 DEF Ownership, KV!Exclusive
      <3>5. \A x \in Range(active) :
              IF seq'[x].tokenized THEN Len(Prompt[x]) + MaxNew[x] <= Cardinality(holds[x]) * BlockSize
              ELSE Cardinality(holds[x]) = BlocksForTokens(Estimate[x] + MaxNew[x])
        BY <1>1, <3>1, <3>2 DEF Ownership
      <3> QED BY <1>1, <2>1, <3>3, <3>4, <3>5 DEF Ownership
    <2>12. Quiet'
      BY <1>1, <1>3, <2>1, <2>3, <2>4 DEF Quiet, NoLostWakeup
    <2>13. StreamsEndOnce'
      <3> SUFFICES ASSUME NEW x \in Request
                   PROVE  /\ \A i \in DOMAIN events'[x] :
                                events'[x][i] \in TerminalEvent => i = Len(events'[x]) /\ Done(x)'
                          /\ Done(x)' /\ reader'[x] \in {"none", "get", "yield"} =>
                                events'[x] # <<>> /\ events'[x][Len(events'[x])] \in TerminalEvent
        BY DEF StreamsEndOnce
      <3>1. CASE x # r
        <4>1. events'[x] = events[x] /\ Done(x)' = Done(x)
          BY <1>8, <2>1, <3>1 DEF Done, IsActive
        <4> QED BY <1>1, <4>1 DEF StreamsEndOnce
      <3>2. CASE x = r
        <4>1. events'[x] = q /\ ~Done(x)'
          BY <1>1, <1>3, <2>1, <3>2 DEF Done, IsActive, TypeOK
        <4> QED BY <4>1 DEF Open
      <3> QED BY <3>1, <3>2
    <2>14. SchedType(sched') /\ Plan(sched', seq', backend')
      BY <2>3, <2>4, <2>5
    <2> QED BY <2>8, <2>9, <2>10, <2>11, <2>12, <2>13, <2>14 DEF IInv
  <1> QED BY <1>12, <1>13

LEMMA SweepIInv == ASSUME IInv, Sweep PROVE IInv'
  <1>1. TypeOK /\ SchedType(sched) /\ Work(sched, seq) /\ Stage(sched, seq) /\ Records /\ Bounded(cache)
    BY DEF IInv, Plan
  <1>2. sched.pc = "sweep" /\ sched.closing = <<>> /\ UNCHANGED <<reader, cache, backend, closed, down, faulted>>
    BY DEF Sweep, At
  <1>3. PICK i \in DOMAIN sched.todo :
            Terminate(sched.todo[i], seq[sched.todo[i]], Interruption(sched.todo[i]),
                      [sched EXCEPT !.todo = SubSeq(@, i + 1, Len(@))], events[sched.todo[i]])
    BY DEF Sweep
  <1>4. PICK todo \in Seq(Request) : todo = sched.todo /\ IsInjective(todo) /\ InPhase(seq, todo, Alive) /\ sched.batch = <<>>
    BY <1>1, <1>2, SchedFields DEF Work, Stage
  <1>5. PICK r \in Request : r = todo[i] /\ seq[r].phase \in Alive
    BY <1>3, <1>4 DEF InPhase
  <1>6. PICK rest : rest = SubSeq(todo, i + 1, Len(todo))
    OBVIOUS
  <1>7. PICK first : first = SubSeq(todo, 1, i)
    OBVIOUS
  <1>8. i \in 1..Len(todo) /\ Cut(todo, i, first, rest)
    BY <1>3, <1>4, <1>6, <1>7 DEF Cut
  <1>9. /\ rest \in Seq(Request) /\ IsInjective(rest) /\ Range(rest) \subseteq Range(todo)
        /\ Range(first) \cap Range(rest) = {} /\ Range(first) = {todo[j] : j \in 1..i}
    BY <1>4, <1>8, CutInTwo
  <1>10. r \notin Range(rest)
    BY <1>5, <1>8, <1>9
  <1>11. PICK next : next = [sched EXCEPT !.todo = rest]
    OBVIOUS
  <1>12. /\ SchedType(next) /\ next.pc = "sweep" /\ next.todo = rest /\ next.batch = <<>> /\ next.closing = <<>>
    BY <1>1, <1>2, <1>4, <1>9, <1>11 DEF SchedType
  <1>13. IsInjective(<<>>) /\ Range(<<>>) = {}
    BY DEF IsInjective, Range
  <1>14. InPhase(seq, rest, Alive) /\ InPhase(seq, <<>>, Alive)
    <2>1. \A x \in Range(todo) : seq[x].phase \in Alive
      BY <1>4 DEF InPhase, Range
    <2>2. \A j \in DOMAIN rest : rest[j] \in Range(rest)
      BY DEF Range
    <2>3. InPhase(seq, rest, Alive)
      BY <1>9, <2>1, <2>2 DEF InPhase
    <2>4. InPhase(seq, <<>>, Alive)
      BY DEF InPhase
    <2> QED BY <2>3, <2>4
  <1>15. Plan(next, seq, backend)
    BY <1>9, <1>12, <1>13, <1>14 DEF Plan, Work, Stage, Results, Accepting
  <1>16. PICK terminal \in TerminalEvent : terminal = Interruption(r)
    BY DEF Interruption, TerminalEvent
  <1>17. PICK s \in SequenceState : s = seq[r]
    BY <1>1, RecordType
  <1>18. Terminate(r, s, terminal, next, events[r])
    BY <1>3, <1>4, <1>5, <1>6, <1>11, <1>16, <1>17
  <1>19. s.generated <= MaxNew[r]
    BY <1>1, <1>17 DEF Records, Filled
  <1>20. Open(events[r])
    BY <1>5, AliveIsActive, OpenUntilDone
  <1>21. r \notin Range(next.todo) \cup Range(next.batch) /\ next.pc \notin {"off", "idle", "exited"}
    BY <1>10, <1>12, <1>13
  <1>22. Bounded(cache') /\ faulted' \subseteq Request
    BY <1>1, <1>2 DEF TypeOK
  <1> QED BY <1>2, <1>5, <1>12, <1>15, <1>16, <1>17, <1>18, <1>19, <1>20, <1>21, <1>22, TerminateStep

\* The head of _run_prefill's loop and what is left behind it.
LEMMA PrefillHead ==
    ASSUME IInv, sched.pc = "prefill", NEW r, r = Head(sched.todo)
    PROVE  /\ r \in Request /\ r = sched.todo[1] /\ seq[r].phase \in Unfilled /\ r \notin Range(sched.batch)
           /\ Tail(sched.todo) \in Seq(Request) /\ IsInjective(Tail(sched.todo))
           /\ Range(sched.todo) = Range(Tail(sched.todo)) \cup {r} /\ r \notin Range(Tail(sched.todo))
           /\ InPhase(seq, Tail(sched.todo), Unfilled) /\ InPhase(seq, sched.batch, {"PREFILL"})
  <1>1. SchedType(sched) /\ Work(sched, seq) /\ Stage(sched, seq)
    BY DEF IInv, Plan
  <1>2. PICK todo \in Seq(Request) : todo = sched.todo /\ todo # <<>> /\ Len(todo) > 0 /\ IsInjective(todo) /\ DOMAIN todo = 1..Len(todo)
    BY <1>1, SchedFields DEF Work, Stage
  <1>3. PICK u : /\ u = Tail(todo) /\ u \in Seq(Request) /\ IsInjective(u) /\ Len(u) = Len(todo) - 1
                 /\ Range(u) = Range(todo) \ {todo[1]} /\ \A j \in 1..(Len(todo) - 1) : u[j] = todo[j + 1]
    <2>1. /\ Tail(todo) \in Seq(Request) /\ Len(Tail(todo)) = Len(todo) - 1
          /\ \A j \in 1..(Len(todo) - 1) : Tail(todo)[j] = todo[j + 1]
      BY <1>2, RestFacts
    <2>2. IsInjective(Tail(todo)) /\ Range(Tail(todo)) = Range(todo) \ {todo[1]}
      BY <1>2, RestFacts
    <2> QED BY <2>1, <2>2
  <1>4. r = todo[1] /\ 1 \in DOMAIN todo /\ r \in Request /\ r \in Range(todo)
    BY <1>2 DEF Range
  <1>5. \A j \in DOMAIN u : j + 1 \in DOMAIN todo /\ u[j] = todo[j + 1]
    BY <1>2, <1>3
  <1>6. InPhase(seq, todo, Unfilled) /\ InPhase(seq, sched.batch, {"PREFILL"}) /\ Range(todo) \cap Range(sched.batch) = {}
    BY <1>1, <1>2 DEF Stage, Work
  <1>7. InPhase(seq, u, Unfilled) /\ seq[r].phase \in Unfilled
    BY <1>4, <1>5, <1>6 DEF InPhase
  <1> QED BY <1>2, <1>3, <1>4, <1>6, <1>7

LEMMA PrefillRejectedIInv == ASSUME IInv, PrefillRejected PROVE IInv'
  <1>1. TypeOK /\ SchedType(sched) /\ Work(sched, seq) /\ Stage(sched, seq) /\ Records /\ Bounded(cache)
    BY DEF IInv, Plan
  <1>2. sched.pc = "prefill" /\ sched.closing = <<>> /\ UNCHANGED <<reader, cache, backend, closed, down>>
    BY DEF PrefillRejected, At
  <1>3. PICK r \in Request, u \in Seq(Request) :
            /\ r = Head(sched.todo) /\ u = Tail(sched.todo) /\ seq[r].phase \in Unfilled /\ r \notin Range(sched.batch)
            /\ IsInjective(u) /\ Range(sched.todo) = Range(u) \cup {r} /\ r \notin Range(u)
            /\ InPhase(seq, u, Unfilled) /\ InPhase(seq, sched.batch, {"PREFILL"})
    BY <1>2, PrefillHead
  <1>4. faulted' \subseteq Request /\ Bounded(cache')
    BY <1>1, <1>2, <1>3 DEF PrefillRejected, TypeOK
  <1>5. PICK n : n = [sched EXCEPT !.todo = u]
    OBVIOUS
  <1>6. SchedType(n) /\ n.todo = u /\ n.batch = sched.batch /\ n.closing = <<>>
    BY <1>1, <1>2, <1>5 DEF SchedType
  <1>7. InPhase(seq, u, Alive)
    BY <1>3 DEF InPhase, Unfilled, Alive
  <1>8. Work(n, seq)
    BY <1>1, <1>3, <1>6, <1>7 DEF Work
  <1>9. PICK next : next = ContinuePrefill(n)
    OBVIOUS
  <1>10. /\ SchedType(next) /\ Plan(next, seq, backend) /\ next.closing = <<>> /\ next.pc \in {"prefill", "loop", "chunks", "call"}
         /\ Range(next.todo) \cup Range(next.batch) = Range(u) \cup Range(sched.batch)
    BY <1>3, <1>6, <1>8, <1>9, ContinuePrefillPlan
  <1>11. PICK s \in SequenceState : s = seq[r]
    BY <1>1, RecordType
  <1>12. PICK terminal \in TerminalEvent : terminal = "ERROR"
    BY DEF TerminalEvent
  <1>13. Terminate(r, s, terminal, next, events[r])
    BY <1>3, <1>5, <1>9, <1>11, <1>12 DEF PrefillRejected
  <1>14. s.generated <= MaxNew[r] /\ seq[r].phase \in Alive
    BY <1>1, <1>3, <1>11 DEF Records, Filled, Unfilled, Alive
  <1>15. Open(events[r])
    BY <1>14, AliveIsActive, OpenUntilDone
  <1>16. r \notin Range(next.todo) \cup Range(next.batch) /\ next.pc \notin {"off", "idle", "exited"}
    BY <1>3, <1>10
  <1> QED BY <1>2, <1>4, <1>10, <1>11, <1>12, <1>13, <1>14, <1>15, <1>16, TerminateStep

LEMMA RestoreSnapshotRaisesIInv == ASSUME IInv, RestoreSnapshotRaises PROVE IInv'
  <1>1. TypeOK /\ Records /\ Bounded(cache)
    BY DEF IInv
  <1>2. sched.pc \in Accepting /\ sched.closing = <<>> /\ UNCHANGED <<reader, cache, backend, closed, down>>
    BY DEF RestoreSnapshotRaises, At, Accepting
  <1>3. PICK r, next : r \in Request
            /\ r = Head(sched.todo) /\ next = AfterAccept
            /\ SchedType(next) /\ Plan(next, seq, backend) /\ next.closing = <<>>
            /\ next.pc \notin {"off", "idle", "exited", "sweep"} /\ seq[r].phase \in {"PREFILL", "DECODE"}
            /\ r \notin Range(next.todo) \cup Range(next.batch)
    BY <1>2, AfterAcceptPlan
  <1>4. faulted' \subseteq Request /\ Bounded(cache')
    BY <1>1, <1>2, <1>3 DEF RestoreSnapshotRaises, TypeOK
  <1>5. PICK s \in SequenceState : s = seq[r]
    BY <1>1, <1>3, RecordType
  <1>6. PICK terminal \in TerminalEvent : terminal = "ERROR"
    BY DEF TerminalEvent
  <1>7. Terminate(r, s, terminal, next, events[r])
    BY <1>3, <1>5, <1>6 DEF RestoreSnapshotRaises
  <1>8. s.generated <= MaxNew[r] /\ seq[r].phase \in Alive
    BY <1>1, <1>3, <1>5 DEF Records, Filled, Alive
  <1>9. Open(events[r])
    BY <1>3, <1>8, AliveIsActive, OpenUntilDone
  <1> QED BY <1>2, <1>3, <1>4, <1>5, <1>6, <1>7, <1>8, <1>9, TerminateStep

-----------------------------------------------------------------------------
(* A sequence goes on *)

LEMMA AdvanceStep ==
    ASSUME IInv, NEW r \in Request, seq[r].phase \in Alive, sched.closing = <<>>,
           NEW s \in SequenceState, s.phase \in {"PREFILL", "DECODE"}, s.tokenized, s.created,
           s.phase = "PREFILL" => s.generated = 0, s.phase = "DECODE" => r \in backend /\ s.generated \in 1..(MaxNew[r] - 1),
           s.generated <= MaxNew[r], seq' = [seq EXCEPT ![r] = s], NEW q, Open(q), events' = [events EXCEPT ![r] = q],
           UNCHANGED <<active, finished, reader, backend, wake, closed, down, faulted>>,
           NEW t, sched' = t, SchedType(t), t.closing = <<>>, Plan(t, seq', backend), t.pc \notin {"off", "idle", "exited"},
           Bounded(cache'), DOMAIN holds' = Range(active), holds' \in [Range(active) -> SUBSET Block],
           \A x \in Range(active) : KV!Exclusive(x)', \A x \in Range(active) \ {r} : holds'[x] = holds[x],
           Len(Prompt[r]) + MaxNew[r] <= Cardinality(holds'[r]) * BlockSize
    PROVE  IInv'
  <1>1. TypeOK /\ Membership /\ Records /\ Ownership /\ Quiet /\ StreamsEndOnce
    BY DEF IInv
  <1>2. seq \in [Request -> SequenceState]
    BY <1>1, RecordType
  <1>3. IsActive(r) /\ active # <<>> /\ r \notin finished
    BY AliveIsActive
  <1>4. seq' \in [Request -> SequenceState] /\ seq'[r] = s /\ \A x \in Request \ {r} : seq'[x] = seq[x]
    BY <1>2
  <1>5. events' \in [Request -> Seq(TerminalEvent \cup {"token"})]
    BY <1>1 DEF TypeOK, Open
  <1>6. Range(active) \subseteq Request /\ backend \subseteq Request
    BY <1>1 DEF TypeOK, Range
  <1>7. TypeOK'
    <2>1. cache' \in Seq([prompt : Seq(Nat), length : Nat])
      BY DEF Bounded, Entries
    <2>2. /\ sched'.pc \in {"off", "loop", "sweep", "idle", "prefill", "restore", "call",
                     "chunks", "decode", "exited", "dead"} \cup Accepting
          /\ sched'.todo \in Seq(Request) /\ sched'.batch \in Seq(Request)
          /\ sched'.got \in Seq(Result) /\ sched'.turn \in BOOLEAN
      BY DEF SchedType
    <2> QED BY <1>1, <1>4, <1>5, <1>6, <2>1, <2>2 DEF TypeOK, SequenceState
  <1>8. Closing(sched) = {} /\ Closing(t) = {}
    BY DEF Closing
  <1>9. Membership'
    <2>1. \A x \in Request : IsActive(x)' <=> seq'[x].phase \in Alive
      <3> SUFFICES ASSUME NEW x \in Request PROVE IsActive(x)' <=> seq'[x].phase \in Alive
        OBVIOUS
      <3>1. CASE x = r
        BY <1>3, <1>4, <3>1 DEF IsActive, Alive
      <3>2. CASE x # r
        BY <1>1, <1>4, <1>8, <3>2 DEF Membership, IsActive
      <3> QED BY <3>1, <3>2
    <2>2. \A x \in finished' : seq'[x].phase \in Terminal /\ ~IsActive(x)'
      BY <1>1, <1>3, <1>4 DEF Membership, TypeOK, IsActive
    <2>3. IsInjective(active')
      BY <1>1 DEF Membership
    <2> QED BY <1>8, <2>1, <2>2, <2>3 DEF Membership
  <1>10. Records'
    <2> SUFFICES ASSUME NEW x \in Request PROVE Filled(x)'
      BY DEF Records
    <2>1. CASE x = r
      BY <1>4, <2>1 DEF Filled
    <2>2. CASE x # r
      BY <1>1, <1>4, <2>2 DEF Records, Filled
    <2> QED BY <2>1, <2>2
  <1>11. Ownership'
    <2>1. (\A x \in backend : IsActive(x) /\ seq[x].created)'
      <3> SUFFICES ASSUME NEW x \in backend PROVE x \in Range(active) /\ seq'[x].created
        BY DEF IsActive
      <3>1. x \in Range(active) /\ seq[x].created
        BY <1>1 DEF Ownership, IsActive
      <3> QED BY <1>4, <1>6, <3>1
    <2>2. \A x \in Range(active) :
             IF seq'[x].tokenized THEN Len(Prompt[x]) + MaxNew[x] <= Cardinality(holds'[x]) * BlockSize
             ELSE Cardinality(holds'[x]) = BlocksForTokens(Estimate[x] + MaxNew[x])
      <3> SUFFICES ASSUME NEW x \in Range(active)
                   PROVE  IF seq'[x].tokenized THEN Len(Prompt[x]) + MaxNew[x] <= Cardinality(holds'[x]) * BlockSize
                          ELSE Cardinality(holds'[x]) = BlocksForTokens(Estimate[x] + MaxNew[x])
        OBVIOUS
      <3>1. CASE x = r
        BY <1>4, <3>1
      <3>2. CASE x # r
        <4>1. seq'[x] = seq[x] /\ holds'[x] = holds[x]
          BY <1>4, <1>6, <3>2
        <4> QED BY <1>1, <4>1 DEF Ownership
      <3> QED BY <3>1, <3>2
    <2> QED BY <2>1, <2>2 DEF Ownership
  <1>12. Quiet'
    BY <1>1, <1>3 DEF Quiet, NoLostWakeup
  <1>13. StreamsEndOnce'
    <2> SUFFICES ASSUME NEW x \in Request
                 PROVE  /\ \A i \in DOMAIN events'[x] :
                              events'[x][i] \in TerminalEvent => i = Len(events'[x]) /\ Done(x)'
                        /\ Done(x)' /\ reader'[x] \in {"none", "get", "yield"} =>
                              events'[x] # <<>> /\ events'[x][Len(events'[x])] \in TerminalEvent
      BY DEF StreamsEndOnce
    <2>1. CASE x # r
      <3>1. events'[x] = events[x] /\ Done(x)' = Done(x)
        BY <1>4, <2>1 DEF Done, IsActive
      <3> QED BY <1>1, <3>1 DEF StreamsEndOnce
    <2>2. CASE x = r
      <3>1. events'[x] = q /\ ~Done(x)'
        BY <1>1, <1>3, <2>2 DEF Done, IsActive, TypeOK
      <3> QED BY <3>1 DEF Open
    <2> QED BY <2>1, <2>2
  <1>14. SchedType(sched') /\ Plan(sched', seq', backend')
    OBVIOUS
  <1> QED BY <1>7, <1>9, <1>10, <1>11, <1>12, <1>13, <1>14 DEF IInv

\* What _accept_token decides.
LEMMA VerdictFacts ==
    ASSUME IInv, NEW r \in Request, seq[r].phase \in {"PREFILL", "DECODE"}, NEW result \in Result
    PROVE  /\ Verdict(r, result) \in TerminalEvent \cup {"token"}
           /\ seq[r].generated + 1 \in Nat /\ seq[r].generated + 1 <= MaxNew[r] /\ seq[r].generated + 1 > 0
           /\ Verdict(r, result) = "token" => /\ result # "fail" /\ ~Interrupted(r)
                                              /\ seq[r].generated + 1 \in 1..(MaxNew[r] - 1)
           /\ Verdict(r, result) = "LENGTH" => ~Interrupted(r)
           /\ Verdict(r, result) = "ERROR" => result = "fail"
  <1>1. TypeOK /\ Records
    BY DEF IInv
  <1>2. PICK m \in Nat \ {0}, g \in Nat : m = MaxNew[r] /\ g = seq[r].generated /\ (g = 0 \/ g \in 1..(m - 1))
    <2>1. MaxNew[r] \in Nat \ {0}
      BY EngineAssumption
    <2>2. seq[r].generated \in Nat /\ (seq[r].generated = 0 \/ seq[r].generated \in 1..(MaxNew[r] - 1))
      BY <1>1 DEF TypeOK, Records, Filled
    <2> QED BY <2>1, <2>2
  <1>3. g + 1 \in Nat /\ g + 1 <= m /\ g + 1 > 0 /\ (~(g + 1 >= m) => g + 1 \in 1..(m - 1))
    BY <1>2
  <1>4. Interruption(r) \in {"CANCELLED", "TIMEOUT"}
    BY DEF Interruption
  <1>5. CASE result = "fail"
    <2>1. Verdict(r, result) = "ERROR"
      BY <1>5 DEF Verdict
    <2> QED BY <1>2, <1>3, <1>5, <2>1 DEF TerminalEvent
  <1>6. CASE result # "fail" /\ Interrupted(r)
    <2>1. Verdict(r, result) = Interruption(r)
      BY <1>6 DEF Verdict
    <2> QED BY <1>2, <1>3, <1>4, <2>1 DEF TerminalEvent
  <1>7. CASE result = "end" /\ ~Interrupted(r)
    <2>1. Verdict(r, result) = "EOS"
      BY <1>7 DEF Verdict
    <2> QED BY <1>2, <1>3, <2>1 DEF TerminalEvent
  <1>8. CASE result \notin {"fail", "end"} /\ ~Interrupted(r)
    <2>1. Verdict(r, result) = IF g + 1 >= m THEN "LENGTH" ELSE "token"
      BY <1>2, <1>8 DEF Verdict
    <2> QED BY <1>2, <1>3, <1>8, <2>1 DEF TerminalEvent
  <1> QED BY <1>5, <1>6, <1>7, <1>8

LEMMA AcceptIInv == ASSUME IInv, Accept PROVE IInv'
  <1>1. TypeOK /\ Records /\ Bounded(cache) /\ Ownership /\ Results(sched, seq, backend)
    BY DEF IInv, Plan
  <1>2. sched.pc \in Accepting /\ sched.closing = <<>> /\ UNCHANGED <<reader, backend, closed, down, faulted>>
    BY DEF Accept, At
  <1>3. PICK r, next : /\ r \in Request /\ r = Head(sched.todo) /\ next = AfterAccept /\ r = sched.todo[1]
            /\ SchedType(next) /\ Plan(next, seq, backend) /\ next.closing = <<>>
            /\ next.pc \notin {"off", "idle", "exited", "sweep"} /\ seq[r].phase \in {"PREFILL", "DECODE"}
            /\ r \notin Range(next.todo) \cup Range(next.batch)
    BY <1>2, AfterAcceptPlan
  <1>4. PICK result \in Result : result = Head(sched.got) /\ result = sched.got[1] /\ 1 \in DOMAIN sched.got
    BY <1>2, AfterAcceptPlan
  <1>5. PICK verdict : verdict = Verdict(r, result)
    OBVIOUS
  <1>6. PICK n \in Nat : n = seq[r].generated + 1 /\ n <= MaxNew[r] /\ (verdict = "token" => result # "fail" /\ n \in 1..(MaxNew[r] - 1))
    BY <1>3, <1>5, VerdictFacts
  <1>7. verdict \in TerminalEvent \cup {"token"}
    BY <1>3, <1>5, VerdictFacts
  <1>8. PICK s, q : /\ s = (IF verdict \in {"token", "LENGTH"} THEN [seq[r] EXCEPT !.phase = "DECODE", !.generated = n] ELSE seq[r])
                    /\ q = (IF verdict \in {"token", "LENGTH"} THEN Append(events[r], "token") ELSE events[r])
    OBVIOUS
  <1>9. seq \in [Request -> SequenceState] /\ seq[r] \in SequenceState
    BY <1>1, <1>3, RecordType
  <1>10. /\ s \in SequenceState /\ s.created = seq[r].created /\ s.tokenized = seq[r].tokenized /\ s.generated <= MaxNew[r]
         /\ verdict = "token" => s.phase = "DECODE" /\ s.generated = n
    <2>1. seq[r].generated <= MaxNew[r]
      BY <1>1, <1>3 DEF Records, Filled
    <2>2. CASE verdict \in {"token", "LENGTH"}
      <3>1. s = [seq[r] EXCEPT !.phase = "DECODE", !.generated = n]
        BY <1>8, <2>2
      <3> QED BY <1>6, <1>9, <3>1 DEF SequenceState
    <2>3. CASE verdict \notin {"token", "LENGTH"}
      BY <1>8, <1>9, <2>1, <2>3
    <2> QED BY <2>2, <2>3
  <1>11. seq[r].phase \in Alive /\ IsActive(r)
    BY <1>3, AliveIsActive DEF Alive
  <1>12. Open(q)
    BY <1>3, <1>8, <1>11, OpenUntilDone
  <1>13. Bounded(cache') /\ faulted' \subseteq Request
    <2>1. CASE Stores /\ result # "fail"
      <3>1. cache' = PutEntry(cache, Prompt[r], seq[r].length, MaxEntries, MaxCached)
        BY <1>3, <1>4, <2>1 DEF Accept
      <3>2. sched.pc # "acceptDecode"
        BY <2>1 DEF Stores
      <3>3. Len(Prompt[r]) <= seq[r].length /\ seq[r].length \in Nat /\ Prompt[r] \in Seq(Nat)
        BY <1>1, <1>2, <1>3, <1>4, <2>1, <3>2, EngineAssumption DEF Results, TypeOK
      <3>4. Bounded(PutEntry(cache, Prompt[r], seq[r].length, MaxEntries, MaxCached))
        BY <1>1, <3>3, PutEntryBounded
      <3> QED BY <1>1, <1>2, <3>1, <3>4 DEF TypeOK
    <2>2. CASE ~(Stores /\ result # "fail")
      <3>1. cache' = cache
        BY <1>3, <1>4, <2>2 DEF Accept
      <3> QED BY <1>1, <1>2, <3>1 DEF TypeOK
    <2> QED BY <2>1, <2>2
  <1>14. \/ /\ verdict = "token" /\ seq' = [seq EXCEPT ![r] = s] /\ events' = [events EXCEPT ![r] = q]
            /\ sched' = next /\ UNCHANGED <<active, finished, holds, wake>>
         \/ verdict # "token" /\ Terminate(r, s, verdict, next, q)
    BY <1>3, <1>4, <1>5, <1>6, <1>8 DEF Accept
  <1>15. CASE verdict # "token"
    <2>1. verdict \in TerminalEvent /\ Terminate(r, s, verdict, next, q) /\ next.pc \notin {"off", "idle", "exited"}
      BY <1>3, <1>7, <1>14, <1>15
    <2> QED BY <1>2, <1>3, <1>10, <1>11, <1>12, <1>13, <2>1, TerminateStep
  <1>16. CASE verdict = "token"
    <2>1. /\ seq' = [seq EXCEPT ![r] = s] /\ events' = [events EXCEPT ![r] = q]
          /\ sched' = next /\ UNCHANGED <<active, finished, holds, wake>>
      BY <1>14, <1>16
    <2>2. r \in backend
      BY <1>1, <1>2, <1>3, <1>4, <1>6, <1>16 DEF Results
    <2>3. s.tokenized /\ s.created
      BY <1>1, <1>3, <1>10 DEF Records, Filled
    <2>4. \A x \in Range(next.todo) \cup Range(next.batch) : x \in Request \ {r}
      BY <1>3 DEF SchedType, Range
    <2>5. Plan(next, seq', backend)
      BY <1>3, <1>9, <2>1, <2>4, PlanFrame
    <2>6. DOMAIN holds' = Range(active) /\ holds' \in [Range(active) -> SUBSET Block]
      BY <1>1, <2>1 DEF Ownership, TypeOK
    <2>7. \A x \in Range(active) : KV!Exclusive(x)'
      BY <1>1, <2>1 DEF Ownership, KV!Exclusive
    <2>8. Len(Prompt[r]) + MaxNew[r] <= Cardinality(holds'[r]) * BlockSize
      <3>1. r \in Range(active) /\ seq[r].tokenized
        BY <1>10, <1>11, <2>3 DEF IsActive
      <3> QED BY <1>1, <2>1, <3>1 DEF Ownership
    <2>9. /\ s.phase \in {"PREFILL", "DECODE"} /\ (s.phase = "PREFILL" => s.generated = 0)
          /\ (s.phase = "DECODE" => r \in backend /\ s.generated \in 1..(MaxNew[r] - 1))
      BY <1>6, <1>10, <1>16, <2>2
    <2>10. next.pc \notin {"off", "idle", "exited"} /\ \A x \in Range(active) \ {r} : holds'[x] = holds[x]
      BY <1>3, <2>1
    <2> QED BY <1>2, <1>3, <1>10, <1>11, <1>12, <1>13, <2>1, <2>3, <2>5, <2>6, <2>7, <2>8, <2>9, <2>10, AdvanceStep
  <1> QED BY <1>15, <1>16

-----------------------------------------------------------------------------
(* Reservations and the beginning of a prefill *)

\* One owner's blocks are set.
LEMMA GivenBlocks ==
    ASSUME TypeOK, \A x \in DOMAIN holds : KV!Exclusive(x), NEW r \in Request, NEW S \in SUBSET Block,
           \A x \in DOMAIN holds \ {r} : holds[x] \cap S = {}, holds' = KV!Holding(r, S)
    PROVE  /\ DOMAIN holds' = DOMAIN holds \cup {r} /\ holds' \in [DOMAIN holds \cup {r} -> SUBSET Block]
           /\ holds'[r] = S /\ \A x \in DOMAIN holds \ {r} : holds'[x] = holds[x]
           /\ \A x \in DOMAIN holds \cup {r} : KV!Exclusive(x)'
  <1>1. holds' = [p \in DOMAIN holds \cup {r} |-> IF p = r THEN S ELSE holds[p]]
    BY DEF KV!Holding
  <1>2. DOMAIN holds' = DOMAIN holds \cup {r} /\ holds'[r] = S /\ \A x \in DOMAIN holds \ {r} : holds'[x] = holds[x]
    BY <1>1
  <1>3. holds' \in [DOMAIN holds \cup {r} -> SUBSET Block]
    BY <1>1 DEF TypeOK
  <1>4. \A x, y \in DOMAIN holds' : x # y => holds'[x] \cap holds'[y] = {}
    <2> SUFFICES ASSUME NEW x \in DOMAIN holds', NEW y \in DOMAIN holds', x # y PROVE holds'[x] \cap holds'[y] = {}
      OBVIOUS
    <2>1. CASE x = r \/ y = r
      BY <1>2, <2>1
    <2>2. CASE x # r /\ y # r
      BY <1>2, <2>2 DEF KV!Exclusive
    <2> QED BY <2>1, <2>2
  <1>5. \A x \in DOMAIN holds \cup {r} : KV!Exclusive(x)'
    BY <1>2, <1>4 DEF KV!Exclusive
  <1> QED BY <1>2, <1>3, <1>5

\* Free blocks are nobody's.
LEMMA FreeBlocks ==
    ASSUME NEW S, S \subseteq KV!Available
    PROVE  S \in SUBSET Block /\ IsFiniteSet(KV!Available) /\ \A x \in DOMAIN holds : holds[x] \cap S = {}
  <1>1. KV!Available \subseteq Block
    BY DEF KV!Available
  <1>2. IsFiniteSet(KV!Available)
    BY <1>1, EngineAssumption, FS_Subset
  <1>3. \A x \in DOMAIN holds : holds[x] \cap KV!Available = {}
    BY DEF KV!Available, KV!Allocated
  <1> QED BY <1>1, <1>2, <1>3

\* resize leaves the owner with the blocks its prompt and its output need.
LEMMA ResizeFacts ==
    ASSUME IInv, NEW r \in Request, IsActive(r), ResizeFits(r), Resize(r)
    PROVE  /\ DOMAIN holds' = Range(active) /\ holds' \in [Range(active) -> SUBSET Block]
           /\ \A x \in Range(active) : KV!Exclusive(x)'
           /\ \A x \in Range(active) \ {r} : holds'[x] = holds[x]
           /\ Len(Prompt[r]) + MaxNew[r] <= Cardinality(holds'[r]) * BlockSize
  <1>1. /\ TypeOK /\ DOMAIN holds = Range(active) /\ r \in DOMAIN holds /\ \A x \in DOMAIN holds : KV!Exclusive(x)
    BY DEF IInv, Ownership, IsActive
  <1>2. PICK k \in Nat, need \in Nat : k = Len(Prompt[r]) + MaxNew[r] /\ need = BlocksForTokens(k) /\ k <= need * BlockSize
    <2>1. Len(Prompt[r]) + MaxNew[r] \in Nat
      BY EngineAssumption
    <2> QED BY <2>1, BlocksCover
  <1>3. holds[r] \in SUBSET Block /\ IsFiniteSet(holds[r])
    <2>1. holds[r] \in SUBSET Block
      BY <1>1 DEF TypeOK
    <2> QED BY <2>1, EngineAssumption, FS_Subset
  <1>4. IsFiniteSet(KV!Available)
    BY FreeBlocks
  <1>5. PICK have \in Nat, free \in Nat : have = Cardinality(holds[r]) /\ free = Cardinality(KV!Available) /\ need <= have + free
    <2>1. Cardinality(holds[r]) \in Nat /\ Cardinality(KV!Available) \in Nat
      BY <1>3, <1>4, FS_CardinalityType
    <2>2. need <= Cardinality(holds[r]) + Cardinality(KV!Available)
      BY <1>2 DEF ResizeFits
    <2> QED BY <2>1, <2>2
  <1>6. SUFFICES \E S \in SUBSET Block : /\ holds' = KV!Holding(r, S) /\ Cardinality(S) = need
                                         /\ \A x \in DOMAIN holds \ {r} : holds[x] \cap S = {}
    <2>1. PICK S \in SUBSET Block : /\ holds' = KV!Holding(r, S) /\ Cardinality(S) = need
                                    /\ \A x \in DOMAIN holds \ {r} : holds[x] \cap S = {}
      BY <1>6
    <2>2. /\ DOMAIN holds' = DOMAIN holds \cup {r} /\ holds' \in [DOMAIN holds \cup {r} -> SUBSET Block]
          /\ holds'[r] = S /\ \A x \in DOMAIN holds \ {r} : holds'[x] = holds[x]
      BY <1>1, <2>1, GivenBlocks
    <2>3. \A x \in DOMAIN holds \cup {r} : KV!Exclusive(x)'
      BY <1>1, <2>1, GivenBlocks
    <2>4. DOMAIN holds \cup {r} = Range(active)
      BY <1>1
    <2> QED BY <1>1, <1>2, <2>1, <2>2, <2>3, <2>4
  <1>7. CASE have <= need
    <2>1. PICK m, S : m \in Nat /\ m = need - have /\ m <= free /\ S = Some(m, KV!Available)
      BY <1>5, <1>7
    <2>2. S \subseteq KV!Available /\ Cardinality(S) = m /\ IsFiniteSet(S)
      BY <1>4, <1>5, <2>1, SomeFacts
    <2>3. S \in SUBSET Block /\ \A x \in DOMAIN holds : holds[x] \cap S = {}
      BY <2>2, FreeBlocks
    <2>4. holds' = KV!Holding(r, holds[r] \cup S)
      BY <1>2, <1>5, <1>7, <2>1 DEF Resize, KV!Grow
    <2>5. Cardinality(holds[r] \cup S) = Cardinality(holds[r]) + Cardinality(S) - Cardinality(holds[r] \cap S)
      BY <1>3, <2>2, FS_Union
    <2>6. Cardinality(holds[r] \cap S) = 0
      BY <1>1, <2>3, FS_EmptySet
    <2>7. Cardinality(holds[r] \cup S) = need
      BY <1>5, <2>1, <2>2, <2>5, <2>6
    <2>8. \A x \in DOMAIN holds \ {r} : holds[x] \cap (holds[r] \cup S) = {}
      BY <1>1, <2>3 DEF KV!Exclusive
    <2>9. holds[r] \cup S \in SUBSET Block
      BY <1>3, <2>3
    <2> QED BY <2>4, <2>7, <2>8, <2>9
  <1>8. CASE ~(have <= need)
    <2>1. PICK m, S : m \in Nat /\ m = have - need /\ m <= have /\ S = Some(m, holds[r])
      BY <1>5, <1>8
    <2>2. S \subseteq holds[r] /\ Cardinality(S) = m /\ IsFiniteSet(S)
      BY <1>3, <1>5, <2>1, SomeFacts
    <2>3. holds' = KV!Holding(r, holds[r] \ S)
      BY <1>2, <1>5, <1>8, <2>1 DEF Resize, KV!Shrink
    <2>4. Cardinality(holds[r] \ S) = Cardinality(holds[r]) - Cardinality(holds[r] \cap S)
      BY <1>3, <2>2, FS_Difference
    <2>5. holds[r] \cap S = S
      BY <2>2
    <2>6. Cardinality(holds[r] \ S) = need
      <3>1. Cardinality(holds[r] \ S) = have - m
        BY <1>5, <2>2, <2>4, <2>5
      <3>2. have - m = need
        BY <2>1
      <3> QED BY <3>1, <3>2
    <2>7. \A x \in DOMAIN holds \ {r} : holds[x] \cap (holds[r] \ S) = {}
      BY <1>1 DEF KV!Exclusive
    <2>8. holds[r] \ S \in SUBSET Block
      BY <1>3
    <2> QED BY <2>3, <2>6, <2>7, <2>8
  <1> QED BY <1>7, <1>8

\* A hit is a position of the cache whose prompt is a prefix.
LEMMA LongestPrefixFacts ==
    ASSUME NEW c, Bounded(c), NEW p \in Seq(Nat), Matching(c, p) # {}
    PROVE  /\ LongestPrefix(c, p) \in DOMAIN c /\ c[LongestPrefix(c, p)] \in Entries
           /\ IsPrefixOf(c[LongestPrefix(c, p)].prompt, p)
           /\ Len(c[LongestPrefix(c, p)].prompt) <= c[LongestPrefix(c, p)].length
  <1>1. c \in Seq(Entries) /\ \A i \in DOMAIN c : c[i] \in Entries /\ Len(c[i].prompt) \in Nat /\ Len(c[i].prompt) <= c[i].length
    <2>1. c \in Seq(Entries) /\ \A i \in DOMAIN c : Len(c[i].prompt) <= c[i].length
      BY DEF Bounded
    <2>2. \A i \in DOMAIN c : c[i] \in Entries
      BY <2>1
    <2> QED BY <2>1, <2>2 DEF Entries
  <1>2. PICK M : M = Matching(c, p) /\ M # {}
    OBVIOUS
  <1>3. \A i \in M : i \in DOMAIN c /\ IsPrefixOf(c[i].prompt, p)
    BY <1>2 DEF Matching
  <1>4. \A i \in M : Len(c[i].prompt) <= Len(p) /\ Len(p) \in Nat
    BY <1>3 DEF IsPrefixOf
  <1>5. PICK k \in M : \A j \in M : Len(c[j].prompt) <= Len(c[k].prompt)
    <2>1. PICK D : D = {Len(p) - Len(c[i].prompt) : i \in M}
      OBVIOUS
    <2>2. D \subseteq Nat /\ D # {}
      BY <1>1, <1>2, <1>3, <1>4, <2>1
    <2>3. PICK d \in D : \A e \in D : d <= e
      BY <2>2, LeastNatural
    <2>4. PICK k \in M : d = Len(p) - Len(c[k].prompt)
      BY <2>1
    <2>5. \A j \in M : Len(p) - Len(c[k].prompt) <= Len(p) - Len(c[j].prompt)
      BY <2>1, <2>3, <2>4
    <2>6. \A x, y, z \in Nat : x - y <= x - z => z <= y
      OBVIOUS
    <2> QED BY <1>1, <1>3, <1>4, <2>4, <2>5, <2>6
  <1>6. LongestPrefix(c, p) = CHOOSE i \in M : \A j \in M : Len(c[j].prompt) <= Len(c[i].prompt)
    BY <1>2 DEF LongestPrefix
  <1>7. LongestPrefix(c, p) \in M
    BY <1>5, <1>6
  <1> QED BY <1>1, <1>3, <1>7

LEMMA BeginPrefillIInv == ASSUME IInv, BeginPrefill PROVE IInv'
  <1>1. TypeOK /\ SchedType(sched) /\ Work(sched, seq) /\ Stage(sched, seq) /\ Records /\ Bounded(cache) /\ Ownership
    BY DEF IInv, Plan
  <1>2. /\ sched.pc = "prefill" /\ sched.closing = <<>>
        /\ UNCHANGED <<active, finished, events, reader, backend, wake, closed, down, faulted>>
    BY DEF BeginPrefill, At
  <1>3. PICK r \in Request, u \in Seq(Request) :
            /\ r = Head(sched.todo) /\ r = sched.todo[1] /\ u = Tail(sched.todo) /\ seq[r].phase \in Unfilled
            /\ r \notin Range(sched.batch) /\ IsInjective(u) /\ Range(sched.todo) = Range(u) \cup {r} /\ r \notin Range(u)
            /\ InPhase(seq, u, Unfilled) /\ InPhase(seq, sched.batch, {"PREFILL"})
    BY <1>2, PrefillHead
  <1>4. seq[r].phase \in Alive
    BY <1>3 DEF Unfilled, Alive
  <1>5. IsActive(r) /\ Open(events[r])
    BY <1>4, AliveIsActive, OpenUntilDone
  <1>6. seq \in [Request -> SequenceState] /\ seq[r] \in SequenceState /\ events \in [Request -> Seq(TerminalEvent \cup {"token"})]
    BY <1>1, RecordType DEF TypeOK
  <1>7. PICK s : s = [seq[r] EXCEPT !.tokenized = TRUE, !.phase = "PREFILL", !.created = TRUE]
    OBVIOUS
  <1>8. s \in SequenceState /\ s.phase = "PREFILL" /\ s.tokenized /\ s.created /\ s.generated = seq[r].generated
    BY <1>6, <1>7 DEF SequenceState
  <1>9. seq' = [seq EXCEPT ![r] = s]
    BY <1>3, <1>6, <1>7 DEF BeginPrefill
  <1>10. s.generated = 0 /\ s.generated <= MaxNew[r]
    <2>1. seq[r].generated = 0
      BY <1>1, <1>3 DEF Records, Filled, Unfilled
    <2> QED BY <1>8, <2>1, EngineAssumption
  <1>11. events' = [events EXCEPT ![r] = events[r]]
    BY <1>2, <1>6
  <1>12. /\ DOMAIN holds' = Range(active) /\ holds' \in [Range(active) -> SUBSET Block]
         /\ \A x \in Range(active) : KV!Exclusive(x)'
         /\ \A x \in Range(active) \ {r} : holds'[x] = holds[x]
         /\ Len(Prompt[r]) + MaxNew[r] <= Cardinality(holds'[r]) * BlockSize
    <2>1. CASE ~seq[r].tokenized
      <3>1. ResizeFits(r) /\ Resize(r)
        BY <1>3, <2>1 DEF BeginPrefill
      <3> QED BY <1>5, <3>1, ResizeFacts
    <2>2. CASE seq[r].tokenized
      <3>1. holds' = holds
        BY <1>3, <2>2 DEF BeginPrefill
      <3>2. DOMAIN holds' = Range(active) /\ holds' \in [Range(active) -> SUBSET Block]
        BY <1>1, <3>1 DEF Ownership, TypeOK
      <3>3. \A x \in Range(active) : KV!Exclusive(x)'
        BY <1>1, <3>1 DEF Ownership, KV!Exclusive
      <3>4. r \in Range(active)
        BY <1>5 DEF IsActive
      <3>5. Len(Prompt[r]) + MaxNew[r] <= Cardinality(holds[r]) * BlockSize
        BY <1>1, <2>2, <3>4 DEF Ownership
      <3> QED BY <3>1, <3>2, <3>3, <3>5
    <2> QED BY <2>1, <2>2
  <1>13. seq'[r] = s /\ \A x \in Request \ {r} : seq'[x] = seq[x]
    BY <1>6, <1>9
  <1>14. sched.todo \in Seq(Request) /\ sched.todo # <<>> /\ sched.batch \in Seq(Request) /\ 1 \in DOMAIN sched.todo
    BY <1>1, <1>2, SchedFields DEF Stage
  <1>15. \A x \in Range(sched.todo) \cup Range(sched.batch) : x \in Request
    BY <1>14 DEF Range
  <1>16. /\ \A x \in Range(sched.todo) : seq'[x].phase \in Unfilled
         /\ \A x \in Range(sched.batch) : seq'[x].phase = "PREFILL"
    <2>1. /\ \A x \in Range(u) : seq[x].phase \in Unfilled
          /\ \A x \in Range(sched.batch) : seq[x].phase = "PREFILL"
      BY <1>3 DEF InPhase, Range
    <2> QED BY <1>3, <1>8, <1>13, <1>15, <2>1 DEF Unfilled
  <1>17. InPhase(seq', sched.todo, Unfilled) /\ InPhase(seq', u, Unfilled) /\ InPhase(seq', sched.batch, {"PREFILL"})
    <2>1. /\ \A i \in DOMAIN sched.todo : sched.todo[i] \in Range(sched.todo)
          /\ \A i \in DOMAIN u : u[i] \in Range(u)
          /\ \A i \in DOMAIN sched.batch : sched.batch[i] \in Range(sched.batch)
      BY DEF Range
    <2> QED BY <1>3, <1>16, <2>1 DEF InPhase
  <1>18. Lookup(r)
    BY <1>3 DEF BeginPrefill
  <1>19. PICK hits : hits = IF MaxEntries = 0 THEN {} ELSE Matching(cache, Prompt[r])
    OBVIOUS
  <1>20. CASE hits = {}
    <2>1. sched' = ContinuePrefill([sched EXCEPT !.todo = Tail(@), !.batch = Append(@, r)]) /\ cache' = cache
      BY <1>18, <1>19, <1>20 DEF Lookup
    <2>2. PICK b \in Seq(Request) : /\ b = Append(sched.batch, r) /\ Range(b) = Range(sched.batch) \cup {r} /\ IsInjective(b)
      <3>1. IsInjective(sched.batch)
        BY <1>1 DEF Work
      <3> QED BY <1>3, <1>14, <3>1, AppendFacts
    <2>3. PICK n : n = [sched EXCEPT !.todo = u, !.batch = b]
      OBVIOUS
    <2>4. SchedType(n) /\ n.todo = u /\ n.batch = b /\ n.closing = <<>>
      BY <1>1, <1>2, <2>3 DEF SchedType
    <2>5. sched' = ContinuePrefill(n)
      BY <1>3, <2>1, <2>2, <2>3
    <2>6. InPhase(seq', b, {"PREFILL"})
      <3>1. \A x \in Range(b) : seq'[x].phase = "PREFILL"
        BY <1>8, <1>13, <1>16, <2>2
      <3> QED BY <3>1 DEF InPhase, Range
    <2>7. Range(u) \cap Range(b) = {}
      BY <1>1, <1>3, <2>2 DEF Work
    <2>8. Work(n, seq')
      <3>1. InPhase(seq', u, Alive) /\ InPhase(seq', b, Alive)
        BY <1>17, <2>6 DEF InPhase, Unfilled, Alive
      <3> QED BY <1>3, <2>2, <2>4, <2>7, <3>1 DEF Work
    <2>9. PICK t : t = ContinuePrefill(n)
      OBVIOUS
    <2>10. SchedType(t) /\ Plan(t, seq', backend) /\ t.closing = <<>> /\ t.pc \notin {"off", "idle", "exited"}
      BY <1>17, <2>4, <2>6, <2>8, <2>9, ContinuePrefillPlan
    <2>11. sched' = t /\ Bounded(cache')
      BY <1>1, <2>1, <2>5, <2>9
    <2> QED BY <1>2, <1>4, <1>5, <1>8, <1>9, <1>10, <1>11, <1>12, <2>10, <2>11, AdvanceStep
  <1>21. CASE hits # {}
    <2>1. PICK hit : hit = LongestPrefix(cache, Prompt[r])
      OBVIOUS
    <2>2. sched' = [sched EXCEPT !.pc = "restore", !.entry = cache[hit]] /\ cache' = MoveToEnd(cache, hit)
      BY <1>18, <1>19, <1>21, <2>1 DEF Lookup
    <2>3. Prompt[r] \in Seq(Nat) /\ Matching(cache, Prompt[r]) # {}
      BY <1>19, <1>21, EngineAssumption
    <2>4. /\ hit \in DOMAIN cache /\ cache[hit] \in Entries /\ IsPrefixOf(cache[hit].prompt, Prompt[r])
          /\ Len(cache[hit].prompt) <= cache[hit].length
      BY <1>1, <2>1, <2>3, LongestPrefixFacts
    <2>5. Bounded(cache')
      BY <1>1, <2>2, <2>4, MoveToEndBounded
    <2>6. PICK e \in Entries : e = cache[hit] /\ IsPrefixOf(e.prompt, Prompt[r]) /\ Len(e.prompt) <= e.length
      BY <2>4
    <2>7. PICK t : t = [sched EXCEPT !.pc = "restore", !.entry = e]
      OBVIOUS
    <2>8. SchedType(t) /\ t.pc = "restore" /\ t.todo = sched.todo /\ t.batch = sched.batch /\ t.entry = e /\ t.closing = <<>>
      BY <1>1, <1>2, <2>7 DEF SchedType
    <2>9. sched' = t
      BY <2>2, <2>6, <2>7
    <2>10. Work(t, seq')
      <3>1. InPhase(seq', sched.todo, Alive) /\ InPhase(seq', sched.batch, Alive)
        BY <1>17 DEF InPhase, Unfilled, Alive
      <3> QED BY <1>1, <2>8, <3>1 DEF Work
    <2>11. Stage(t, seq')
      <3>1. Hit(t) /\ seq'[t.todo[1]].phase = "PREFILL"
        BY <1>3, <1>8, <1>13, <2>6, <2>8 DEF Hit
      <3> QED BY <1>14, <1>17, <2>8, <3>1 DEF Stage, Accepting
    <2>12. Plan(t, seq', backend)
      BY <2>8, <2>10, <2>11 DEF Plan, Results, Accepting
    <2>13. t.pc \notin {"off", "idle", "exited"}
      BY <2>8
    <2> QED BY <1>2, <1>4, <1>5, <1>8, <1>9, <1>10, <1>11, <1>12, <2>5, <2>8, <2>9, <2>12, <2>13, AdvanceStep
  <1> QED BY <1>20, <1>21

LEMMA ReserveIInv == ASSUME IInv, NEW r \in Request, Reserve(r) PROVE IInv'
  <1>1. TypeOK /\ SchedType(sched) /\ Membership /\ Records /\ Plan(sched, seq, backend) /\ Ownership /\ Quiet /\ StreamsEndOnce /\ Bounded(cache)
    BY DEF IInv
  <1>2. /\ ~closed /\ seq[r].phase = "NONE" /\ active' = Append(active, r) /\ seq' = [seq EXCEPT ![r].phase = "QUEUED"]
        /\ wake' = TRUE /\ UNCHANGED <<finished, events, reader, cache, backend, sched, closed, down, faulted>>
    BY DEF Reserve
  <1>3. PICK k \in Nat, need \in Nat : k = Estimate[r] + MaxNew[r] /\ need = BlocksForTokens(k)
    <2>1. Estimate[r] + MaxNew[r] \in Nat
      BY EngineAssumption
    <2> QED BY <2>1, BlocksCover
  <1>4. PICK S : S = Some(need, KV!Available)
    OBVIOUS
  <1>5. need <= Cardinality(KV!Available) /\ KV!Acquire(r, S)
    BY <1>3, <1>4 DEF Reserve
  <1>6. r \notin DOMAIN holds /\ S \subseteq KV!Available /\ holds' = KV!Holding(r, S)
    BY <1>5 DEF KV!Acquire
  <1>7. S \in SUBSET Block /\ IsFiniteSet(KV!Available) /\ \A x \in DOMAIN holds : holds[x] \cap S = {}
    BY <1>6, FreeBlocks
  <1>8. Cardinality(S) = need
    BY <1>3, <1>4, <1>5, <1>7, SomeFacts
  <1>9. \A x \in DOMAIN holds : KV!Exclusive(x)
    BY <1>1 DEF Ownership
  <1>10. /\ DOMAIN holds' = DOMAIN holds \cup {r} /\ holds' \in [DOMAIN holds \cup {r} -> SUBSET Block]
         /\ holds'[r] = S /\ \A x \in DOMAIN holds \ {r} : holds'[x] = holds[x]
    BY <1>1, <1>6, <1>7, <1>9, GivenBlocks
  <1>11. \A x \in DOMAIN holds \cup {r} : KV!Exclusive(x)'
    BY <1>1, <1>6, <1>7, <1>9, GivenBlocks
  <1>12. active \in Seq(Request) /\ IsInjective(active) /\ DOMAIN holds = Range(active) /\ r \notin Range(active) /\ Range(active) \subseteq Request
    BY <1>1, <1>6 DEF TypeOK, Membership, Ownership
  <1>13. active' \in Seq(Request) /\ Range(active') = Range(active) \cup {r} /\ IsInjective(active')
    BY <1>2, <1>12, AppendFacts
  <1>14. seq \in [Request -> SequenceState]
    BY <1>1, RecordType
  <1>15. PICK s : s = [seq[r] EXCEPT !.phase = "QUEUED"]
    OBVIOUS
  <1>16. /\ s \in SequenceState /\ s.phase = "QUEUED" /\ s.tokenized = seq[r].tokenized /\ s.created = seq[r].created
         /\ s.generated = seq[r].generated
    BY <1>14, <1>15 DEF SequenceState
  <1>17. seq' \in [Request -> SequenceState] /\ seq'[r] = s /\ \A x \in Request \ {r} : seq'[x] = seq[x]
    BY <1>2, <1>14, <1>15, <1>16
  <1>18. TypeOK'
    <2>1. DOMAIN holds' \subseteq Request /\ holds' \in [DOMAIN holds' -> SUBSET Block]
      BY <1>10, <1>12
    <2> QED BY <1>1, <1>2, <1>13, <1>17, <2>1 DEF TypeOK, SequenceState
  <1>19. ~seq[r].tokenized /\ ~seq[r].created /\ seq[r].generated = 0
    BY <1>1, <1>2 DEF Records, Filled
  <1>20. r \notin Closing(sched) /\ r \notin finished
    BY <1>1, <1>2 DEF Membership, Terminal
  <1>21. Membership'
    <2>1. \A x \in Request : IsActive(x)' <=> seq'[x].phase \in Alive \/ x \in Closing(sched)
      <3> SUFFICES ASSUME NEW x \in Request PROVE IsActive(x)' <=> seq'[x].phase \in Alive \/ x \in Closing(sched)
        OBVIOUS
      <3>1. CASE x = r
        BY <1>13, <1>16, <1>17, <3>1 DEF IsActive, Alive
      <3>2. CASE x # r
        BY <1>1, <1>13, <1>17, <3>2 DEF Membership, IsActive
      <3> QED BY <3>1, <3>2
    <2>2. Closing(sched) \subseteq Request /\ finished \subseteq Request
      BY <1>1 DEF Closing, SchedType, TypeOK
    <2>3. (\A x \in Closing(sched) : seq'[x].phase \in Terminal) /\ \A x \in finished : seq'[x].phase \in Terminal /\ ~IsActive(x)'
      BY <1>1, <1>13, <1>17, <1>20, <2>2 DEF Membership, IsActive
    <2> QED BY <1>2, <1>13, <2>1, <2>3 DEF Membership, Closing
  <1>22. Records'
    <2> SUFFICES ASSUME NEW x \in Request PROVE Filled(x)'
      BY DEF Records
    <2>1. CASE x = r
      <3>1. 0 <= MaxNew[r]
        BY EngineAssumption
      <3> QED BY <1>16, <1>17, <1>19, <2>1, <3>1 DEF Filled
    <2>2. CASE x # r
      BY <1>1, <1>2, <1>17, <2>2 DEF Records, Filled
    <2> QED BY <2>1, <2>2
  <1>23. Ownership'
    <2>1. (\A x \in backend : IsActive(x) /\ seq[x].created)'
      <3> SUFFICES ASSUME NEW x \in backend PROVE x \in Range(active') /\ seq'[x].created
        BY <1>2 DEF IsActive
      <3>1. x \in Range(active) /\ seq[x].created
        BY <1>1 DEF Ownership, IsActive
      <3> QED BY <1>12, <1>13, <1>17, <3>1
    <2>2. \A x \in Range(active') :
             IF seq'[x].tokenized THEN Len(Prompt[x]) + MaxNew[x] <= Cardinality(holds'[x]) * BlockSize
             ELSE Cardinality(holds'[x]) = BlocksForTokens(Estimate[x] + MaxNew[x])
      <3> SUFFICES ASSUME NEW x \in Range(active')
                   PROVE  IF seq'[x].tokenized THEN Len(Prompt[x]) + MaxNew[x] <= Cardinality(holds'[x]) * BlockSize
                          ELSE Cardinality(holds'[x]) = BlocksForTokens(Estimate[x] + MaxNew[x])
        OBVIOUS
      <3>1. CASE x = r
        BY <1>3, <1>8, <1>10, <1>16, <1>17, <1>19, <3>1
      <3>2. CASE x # r
        <4>1. seq'[x] = seq[x] /\ holds'[x] = holds[x] /\ x \in Range(active)
          BY <1>10, <1>12, <1>13, <1>17, <3>2
        <4> QED BY <1>1, <4>1 DEF Ownership
      <3> QED BY <3>1, <3>2
    <2> QED BY <1>10, <1>11, <1>12, <1>13, <2>1, <2>2 DEF Ownership
  <1>24. Plan(sched', seq', backend')
    <2>1. \A x \in Range(sched.todo) \cup Range(sched.batch) : x \in Request /\ seq[x].phase \in Alive
      BY <1>1 DEF Plan, Work, InPhase, Range, SchedType
    <2>2. \A x \in Range(sched.todo) \cup Range(sched.batch) : x \in Request \ {r}
      BY <1>2, <2>1 DEF Alive
    <2>3. Plan(sched, seq', backend)
      BY <1>1, <1>17, <2>2, PlanFrame
    <2> QED BY <1>2, <2>3
  <1>25. Quiet'
    BY <1>1, <1>2 DEF Quiet, NoLostWakeup
  <1>26. StreamsEndOnce'
    <2>1. ~Done(r) /\ ~Done(r)'
      BY <1>2, <1>16, <1>17 DEF Done, Terminal
    <2>2. \A x \in Request \ {r} : Done(x)' = Done(x)
      BY <1>13, <1>17 DEF Done, IsActive
    <2> QED BY <1>1, <1>2, <2>1, <2>2 DEF StreamsEndOnce
  <1>27. SchedType(sched') /\ Bounded(cache')
    BY <1>1, <1>2
  <1> QED BY <1>18, <1>21, <1>22, <1>23, <1>24, <1>25, <1>26, <1>27 DEF IInv

-----------------------------------------------------------------------------
(* Shutdown *)

\* A scheduler is told to cancel everything.
LEMMA ShutdownWaitsIInv == ASSUME IInv, Shutdown, sched.pc # "off" PROVE IInv'
  <1>1. TypeOK /\ SchedType(sched) /\ Plan(sched, seq, backend) /\ Quiet /\ StreamsEndOnce /\ Bounded(cache)
    BY DEF IInv
  <1>2. /\ ~closed /\ closed' = TRUE /\ wake' = TRUE /\ down' = "waiting"
        /\ seq' = [r \in Request |-> IF IsActive(r) THEN [seq[r] EXCEPT !.cancelled = TRUE] ELSE seq[r]]
        /\ UNCHANGED <<active, finished, events, holds, reader, cache, backend, sched, faulted>>
    BY DEF Shutdown
  <1>3. seq \in [Request -> SequenceState]
    BY <1>1, RecordType
  <1>4. \A x \in Request : /\ [seq[x] EXCEPT !.cancelled = TRUE] \in SequenceState
                           /\ SameStanding(seq[x], [seq[x] EXCEPT !.cancelled = TRUE])
                           /\ [seq[x] EXCEPT !.cancelled = TRUE].length = seq[x].length
    BY <1>3 DEF SequenceState, SameStanding
  <1>5. seq' \in [Request -> SequenceState] /\ \A x \in Request : SameStanding(seq[x], seq'[x]) /\ seq'[x].length = seq[x].length
    BY <1>2, <1>3, <1>4 DEF SameStanding
  <1>6. TypeOK'
    BY <1>1, <1>2, <1>5 DEF TypeOK, SequenceState
  <1>7. Plan(sched', seq', backend')
    <2>1. Range(sched.todo) \cup Range(sched.batch) \subseteq Request
      BY <1>1 DEF TypeOK, Range
    <2>2. Plan(sched, seq', backend)
      BY <1>1, <1>5, <2>1, PlanFrame DEF SameStanding
    <2> QED BY <1>2, <2>2
  <1>8. Quiet'
    BY <1>1, <1>2 DEF Quiet, NoLostWakeup
  <1>9. StreamsEndOnce'
    BY <1>1, <1>2, <1>5, StreamsFrame DEF SameStanding
  <1>10. SchedType(sched') /\ Bounded(cache') /\ sched'.closing = sched.closing
    BY <1>1, <1>2
  <1> QED BY <1>2, <1>5, <1>6, <1>7, <1>8, <1>9, <1>10, QuietStep

\* Without a scheduler every sequence is completed on the spot.
LEMMA ShutdownAtOnceIInv == ASSUME IInv, Shutdown, sched.pc = "off" PROVE IInv'
  <1>1. TypeOK /\ SchedType(sched) /\ Membership /\ Records /\ Plan(sched, seq, backend) /\ Quiet /\ StreamsEndOnce /\ Bounded(cache)
    BY DEF IInv
  <1>2. /\ closed' = TRUE /\ wake' = TRUE /\ down' = "stopping"
        /\ seq' = [r \in Request |-> IF IsActive(r) THEN [seq[r] EXCEPT !.cancelled = TRUE, !.phase = "CANCELLED"] ELSE seq[r]]
        /\ holds' = [r \in {} |-> {}] /\ finished' = finished \cup Range(active) /\ active' = <<>>
        /\ events' = [r \in Request |-> IF IsActive(r) THEN Append(events[r], "CANCELLED") ELSE events[r]]
        /\ UNCHANGED <<reader, cache, backend, sched, faulted>>
    BY DEF Shutdown
  <1>3. sched.closing = <<>> /\ backend = {} /\ Closing(sched) = {}
    BY <1>1 DEF Quiet, Closing
  <1>4. seq \in [Request -> SequenceState] /\ active \in Seq(Request) /\ Range(active) \subseteq Request /\ Range(<<>>) = {}
    BY <1>1, RecordType DEF TypeOK, Range
  <1>5. \A x \in Request : \E q : /\ q = [seq[x] EXCEPT !.cancelled = TRUE, !.phase = "CANCELLED"]
                                  /\ q \in SequenceState /\ q.phase = "CANCELLED" /\ q.generated = seq[x].generated
    <2> SUFFICES ASSUME NEW x \in Request
                 PROVE  \E q : /\ q = [seq[x] EXCEPT !.cancelled = TRUE, !.phase = "CANCELLED"]
                               /\ q \in SequenceState /\ q.phase = "CANCELLED" /\ q.generated = seq[x].generated
      OBVIOUS
    <2>1. PICK q : q = [seq[x] EXCEPT !.cancelled = TRUE, !.phase = "CANCELLED"]
      OBVIOUS
    <2>2. q \in SequenceState /\ q.phase = "CANCELLED" /\ q.generated = seq[x].generated
      BY <1>4, <2>1 DEF SequenceState, Terminal
    <2> QED BY <2>1, <2>2
  <1>6. /\ seq' \in [Request -> SequenceState] /\ \A x \in Request : seq'[x].generated = seq[x].generated
        /\ \A x \in Request : IsActive(x) => seq'[x].phase = "CANCELLED"
        /\ \A x \in Request : ~IsActive(x) => seq'[x] = seq[x]
    BY <1>2, <1>4, <1>5
  <1>7. \A x \in Request : seq'[x].phase \notin Alive
    BY <1>1, <1>3, <1>6 DEF Membership, Alive
  <1>8. PICK E : E = TerminalEvent \cup {"token"} /\ "CANCELLED" \in E
    <2>1. "CANCELLED" \in TerminalEvent
      BY DEF TerminalEvent
    <2> QED BY <2>1
  <1>9. events \in [Request -> Seq(E)]
    BY <1>1, <1>8 DEF TypeOK
  <1>10. events' \in [Request -> Seq(E)]
    <2>1. \A x \in Request : Append(events[x], "CANCELLED") \in Seq(E) /\ events[x] \in Seq(E)
      <3> SUFFICES ASSUME NEW x \in Request PROVE Append(events[x], "CANCELLED") \in Seq(E) /\ events[x] \in Seq(E)
        OBVIOUS
      <3>1. events[x] \in Seq(E)
        BY <1>9
      <3> QED BY <1>8, <3>1
    <2> QED BY <1>2, <2>1
  <1>11. TypeOK'
    <2>1. DOMAIN holds' = {} /\ holds' \in [DOMAIN holds' -> SUBSET Block] /\ active' \in Seq(Request)
      <3>1. DOMAIN holds' = {} /\ active' \in Seq(Request)
        <4>1. <<>> \in Seq(Request)
          OBVIOUS
        <4>2. \A f : f = [r \in {} |-> {}] => DOMAIN f = {}
          OBVIOUS
        <4> QED BY <1>2, <4>1, <4>2
      <3>2. \A f : f = [r \in {} |-> {}] => f \in [DOMAIN f -> SUBSET Block]
        OBVIOUS
      <3> QED BY <1>2, <3>1, <3>2
    <2>2. finished' \subseteq Request
      BY <1>1, <1>2, <1>4 DEF TypeOK
    <2> QED BY <1>1, <1>2, <1>6, <1>8, <1>10, <2>1, <2>2 DEF TypeOK, SequenceState
  <1>12. Membership'
    <2>1. \A x \in finished' : seq'[x].phase \in Terminal
      <3> SUFFICES ASSUME NEW x \in finished' PROVE seq'[x].phase \in Terminal
        OBVIOUS
      <3>1. x \in Request /\ (x \in finished \/ IsActive(x))
        BY <1>1, <1>2, <1>4 DEF TypeOK, IsActive
      <3> QED BY <1>1, <1>6, <3>1 DEF Membership, Terminal
    <2>2. IsInjective(active') /\ \A x \in Request : ~IsActive(x)'
      <3>1. IsInjective(<<>>)
        BY DEF IsInjective
      <3> QED BY <1>2, <1>4, <3>1 DEF IsActive
    <2>3. Closing(sched)' = {}
      BY <1>2, <1>3 DEF Closing
    <2>4. \A x \in finished' : x \in Request
      BY <1>1, <1>2, <1>4 DEF TypeOK
    <2> QED BY <1>7, <2>1, <2>2, <2>3, <2>4 DEF Membership
  <1>13. Records'
    <2> SUFFICES ASSUME NEW x \in Request PROVE Filled(x)'
      BY DEF Records
    <2>1. CASE IsActive(x)
      BY <1>1, <1>6, <2>1 DEF Records, Filled
    <2>2. CASE ~IsActive(x)
      BY <1>1, <1>2, <1>6, <2>2 DEF Records, Filled
    <2> QED BY <2>1, <2>2
  <1>14. Plan(sched', seq', backend')
    <2>1. sched.todo = <<>> /\ sched.batch = <<>>
      BY <1>1 DEF Plan, Stage
    <2>2. Plan(sched, seq', backend)
      BY <1>1, <1>4, <2>1, PlanFrame
    <2> QED BY <1>2, <2>2
  <1>15. Ownership'
    BY <1>2, <1>3, <1>4 DEF Ownership
  <1>16. Quiet'
    BY <1>1, <1>2, <1>3 DEF Quiet, NoLostWakeup
  <1>17. StreamsEndOnce'
    <2> SUFFICES ASSUME NEW x \in Request
                 PROVE  /\ \A i \in DOMAIN events'[x] :
                              events'[x][i] \in TerminalEvent => i = Len(events'[x]) /\ Done(x)'
                        /\ Done(x)' /\ reader'[x] \in {"none", "get", "yield"} =>
                              events'[x] # <<>> /\ events'[x][Len(events'[x])] \in TerminalEvent
      BY DEF StreamsEndOnce
    <2>1. CASE ~IsActive(x)
      <3>1. events'[x] = events[x] /\ Done(x)' = Done(x)
        BY <1>2, <1>4, <1>6, <2>1 DEF Done, IsActive
      <3> QED BY <1>1, <1>2, <3>1 DEF StreamsEndOnce
    <2>2. CASE IsActive(x)
      <3>1. Done(x)'
        BY <1>2, <1>4, <1>6, <2>2 DEF Done, IsActive, Terminal
      <3>2. Open(events[x])
        BY <2>2, OpenUntilDone
      <3>3. PICK q, t : q \in Seq(E) /\ q = events[x] /\ t = events'[x] /\ t = Append(q, "CANCELLED")
        BY <1>2, <1>9, <2>2
      <3>4. /\ Len(t) = Len(q) + 1 /\ Len(q) \in Nat /\ \A i \in 1..Len(q) : t[i] = q[i]
            /\ t[Len(q) + 1] = "CANCELLED" /\ DOMAIN q = 1..Len(q) /\ DOMAIN t = 1..Len(t)
        BY <1>8, <3>3
      <3>5. \A i \in 1..Len(q) : t[i] \notin TerminalEvent
        BY <3>2, <3>3, <3>4 DEF Open
      <3>6. \A i \in DOMAIN t : i \in 1..Len(q) \/ i = Len(t)
        BY <3>4
      <3>7. t # <<>> /\ t[Len(t)] \in TerminalEvent
        BY <3>4 DEF TerminalEvent
      <3> QED BY <3>1, <3>3, <3>5, <3>6, <3>7
    <2> QED BY <2>1, <2>2
  <1>18. SchedType(sched') /\ Bounded(cache')
    BY <1>1, <1>2
  <1> QED BY <1>11, <1>12, <1>13, <1>14, <1>15, <1>16, <1>17, <1>18 DEF IInv

LEMMA ShutdownEndsIInv == ASSUME IInv, ShutdownEnds PROVE IInv'
  <1>1. TypeOK /\ SchedType(sched) /\ Membership /\ Records /\ Plan(sched, seq, backend) /\ Ownership /\ Quiet /\ StreamsEndOnce
    BY DEF IInv
  <1>2. /\ cache' = <<>> /\ backend' = {} /\ down' = "done" /\ (down = "stopping" \/ sched.pc = "exited")
        /\ UNCHANGED <<seq, active, finished, events, reader, holds, sched, wake, closed, faulted>>
    BY DEF ShutdownEnds
  <1>3. active = <<>> /\ Range(active) = {} /\ closed
    BY <1>1, <1>2 DEF Quiet, Range, ShutdownEnds
  <1>4. \A x \in Request : seq[x].phase \notin Alive
    BY <1>1, <1>3 DEF Membership, IsActive
  <1>5. Records'
    <2> SUFFICES ASSUME NEW x \in Request PROVE Filled(x)'
      BY DEF Records
    <2> QED BY <1>1, <1>2, <1>4 DEF Records, Filled, Alive
  <1>6. Plan(sched', seq', backend')
    <2>1. \A x \in Range(sched.todo) \cup Range(sched.batch) : x \in Request /\ seq[x].phase \in Alive
      BY <1>1 DEF Plan, Work, InPhase, Range, SchedType
    <2>2. Plan(sched, seq, backend')
      BY <1>1, <1>4, <2>1, PlanFrame
    <2> QED BY <1>2, <2>2
  <1>7. TypeOK'
    <2>1. cache' \in Seq([prompt : Seq(Nat), length : Nat])
      BY <1>2
    <2> QED BY <1>1, <1>2, <2>1 DEF TypeOK
  <1>8. Membership'
    BY <1>1, <1>2 DEF Membership, IsActive, Closing
  <1>9. Ownership'
    BY <1>1, <1>2, <1>3 DEF Ownership
  <1>10. Quiet'
    BY <1>1, <1>2, <1>3 DEF Quiet, NoLostWakeup
  <1>11. StreamsEndOnce'
    BY <1>1, <1>2, StreamsFrame
  <1>12. SchedType(sched') /\ Bounded(cache')
    BY <1>1, <1>2, EmptyBounded
  <1> QED BY <1>5, <1>6, <1>7, <1>8, <1>9, <1>10, <1>11, <1>12 DEF IInv

LEMMA ShutdownRaisesIInv == ASSUME IInv, ShutdownRaises PROVE IInv'
  <1>1. TypeOK /\ SchedType(sched) /\ Plan(sched, seq, backend) /\ Quiet /\ StreamsEndOnce /\ Bounded(cache)
    BY DEF IInv
  <1>2. /\ down = "waiting" /\ down' = "failed"
        /\ UNCHANGED <<seq, active, finished, events, reader, holds, cache, backend, sched, wake, closed, faulted>>
    BY DEF ShutdownRaises
  <1>3. TypeOK'
    BY <1>1, <1>2 DEF TypeOK
  <1>4. Quiet'
    BY <1>1, <1>2 DEF Quiet, NoLostWakeup
  <1>5. StreamsEndOnce'
    BY <1>1, <1>2, StreamsFrame
  <1>6. \A x \in Request : SameStanding(seq[x], seq'[x])
    BY <1>2 DEF SameStanding
  <1>7. SchedType(sched') /\ Plan(sched', seq', backend') /\ Bounded(cache') /\ sched'.closing = sched.closing
    BY <1>1, <1>2
  <1> QED BY <1>2, <1>3, <1>4, <1>5, <1>6, <1>7, QuietStep

-----------------------------------------------------------------------------
(* The invariants *)

LEMMA InitIInv == ASSUME Init PROVE IInv
  <1>1. Range(<<>>) = {} /\ IsInjective(<<>>) /\ <<>> \in Seq(Request) /\ <<>> \in Seq(Result)
    BY DEF Range, IsInjective
  <1>2. holds = [o \in {} |-> {}]
    BY DEF Init, KV!Init
  <1>3. seq \in [Request -> SequenceState] /\ \A r \in Request : /\ seq[r].phase = "NONE" /\ ~seq[r].tokenized
                                                                 /\ ~seq[r].created /\ seq[r].generated = 0
    BY DEF Init, SequenceState
  <1>4. sched = [pc |-> "off", todo |-> <<>>, batch |-> <<>>, got |-> <<>>, entry |-> <<>>, closing |-> <<>>, turn |-> FALSE]
    BY DEF Init
  <1>5. SchedType(sched) /\ sched.closing = <<>> /\ sched.todo = <<>> /\ sched.batch = <<>> /\ sched.pc = "off"
    BY <1>1, <1>4 DEF SchedType
  <1>6. TypeOK
    <2>1. /\ active \in Seq(Request) /\ finished \subseteq Request /\ cache \in Seq([prompt : Seq(Nat), length : Nat])
          /\ backend \subseteq Request /\ wake \in BOOLEAN /\ closed \in BOOLEAN /\ faulted \subseteq Request
          /\ down \in {"no", "waiting", "stopping", "done", "failed"}
      <3>1. /\ active = <<>> /\ finished = {} /\ cache = <<>> /\ backend = {} /\ wake = FALSE /\ closed = FALSE
            /\ down = "no" /\ faulted = {}
        BY DEF Init
      <3>2. <<>> \in Seq(Request) /\ <<>> \in Seq([prompt : Seq(Nat), length : Nat])
        OBVIOUS
      <3> QED BY <3>1, <3>2
    <2>2. events \in [Request -> Seq(TerminalEvent \cup {"token"})]
      <3>1. <<>> \in Seq(TerminalEvent \cup {"token"})
        OBVIOUS
      <3> QED BY <3>1 DEF Init
    <2>3. reader \in [Request -> {"none", "get", "yield", "last", "drain", "gone"}]
      BY DEF Init
    <2>4. DOMAIN holds \subseteq Request /\ holds \in [DOMAIN holds -> SUBSET Block]
      BY <1>2
    <2> QED BY <1>3, <1>5, <2>1, <2>2, <2>3, <2>4 DEF TypeOK, SequenceState, SchedType
  <1>7. Membership
    BY <1>1, <1>3, <1>5 DEF Init, Membership, IsActive, Alive, Closing
  <1>8. Records
    <2> SUFFICES ASSUME NEW r \in Request PROVE Filled(r)
      BY DEF Records
    <2>1. 0 <= MaxNew[r]
      BY EngineAssumption
    <2> QED BY <1>3, <2>1 DEF Filled
  <1>9. Plan(sched, seq, backend)
    BY <1>1, <1>5 DEF Plan, Work, Stage, Results, InPhase, Accepting
  <1>10. Ownership
    BY <1>1, <1>2 DEF Init, Ownership
  <1>11. Bounded(cache)
    BY EmptyBounded DEF Init
  <1>12. Quiet
    BY <1>5 DEF Init, Quiet, NoLostWakeup
  <1>13. StreamsEndOnce
    BY <1>3 DEF Init, StreamsEndOnce, Done, Terminal
  <1> QED BY <1>5, <1>6, <1>7, <1>8, <1>9, <1>10, <1>11, <1>12, <1>13 DEF IInv

LEMMA SameIInv == ASSUME IInv, UNCHANGED vars PROVE IInv'
  <1>1. UNCHANGED <<seq, active, finished, events, reader, holds, cache, backend, sched, wake, closed, down, faulted>>
    BY DEF vars
  <1>2. /\ TypeOK /\ SchedType(sched) /\ Plan(sched, seq, backend) /\ Bounded(cache) /\ Quiet /\ StreamsEndOnce
    BY DEF IInv
  <1>3. TypeOK' /\ Quiet'
    BY <1>1, <1>2 DEF TypeOK, Quiet, NoLostWakeup
  <1>4. StreamsEndOnce'
    BY <1>1, <1>2, StreamsFrame
  <1>5. \A x \in Request : SameStanding(seq[x], seq'[x])
    BY <1>1 DEF SameStanding
  <1>6. SchedType(sched') /\ Plan(sched', seq', backend') /\ Bounded(cache') /\ sched'.closing = sched.closing
    BY <1>1, <1>2
  <1> QED BY <1>1, <1>3, <1>4, <1>5, <1>6, QuietStep

LEMMA NextIInv == ASSUME IInv, [Next]_vars PROVE IInv'
  <1>1. CASE Scheduler
    BY <1>1, LoopIInv, SweepIInv, DecideIInv, WakeUpIInv, BeginPrefillIInv, PrefillRejectedIInv, RestoreIInv,
       PrefillCallIInv, ChunkIInv, DecodeIInv, AcceptIInv, ReleasedIInv, RestoreSnapshotRaisesIInv, SnapshotRaisesIInv DEF Scheduler
  <1>2. ASSUME NEW r \in Request, Caller(r) PROVE IInv'
    BY <1>2, ReserveIInv, StartStreamIInv, CancelIInv, ExpireIInv, CloseReaderIInv, CancelReaderIInv DEF Caller
  <1>3. ASSUME NEW r \in Request, Consumer(r) PROVE IInv'
    BY <1>3, ReadEventIInv, ResumeReaderIInv, ReaderDrainedIInv DEF Consumer
  <1>4. CASE Shutdown \/ ShutdownEnds \/ ShutdownRaises
    BY <1>4, ShutdownWaitsIInv, ShutdownAtOnceIInv, ShutdownEndsIInv, ShutdownRaisesIInv
  <1>5. CASE UNCHANGED vars
    BY <1>5, SameIInv
  <1> QED BY <1>1, <1>2, <1>3, <1>4, <1>5 DEF Next

\* The plan holds only live sequences, and decodes those that the backend knows.
LEMMA IInvImplies == ASSUME IInv PROVE EngineInv /\ BlocksCoverTokens /\ StreamsEndOnce
  <1>1. /\ TypeOK /\ SchedType(sched) /\ Membership /\ Records /\ Work(sched, seq) /\ Stage(sched, seq)
        /\ Ownership /\ Bounded(cache) /\ Quiet /\ StreamsEndOnce
    BY DEF IInv, Plan
  <1>2. /\ sched.todo \in Seq(Request) /\ sched.batch \in Seq(Request) /\ DOMAIN sched.batch = 1..Len(sched.batch)
        /\ Len(sched.batch) \in Nat /\ (sched.batch # <<>> <=> Len(sched.batch) > 0)
    BY <1>1, SchedFields
  <1>3. \A x \in Range(sched.todo) \cup Range(sched.batch) : x \in Request /\ seq[x].phase \in Alive
    BY <1>1, <1>2 DEF Work, InPhase, Range
  <1>4. Range(sched.todo) \cup Range(sched.batch) \subseteq Range(active)
    BY <1>1, <1>3 DEF Membership, IsActive
  <1>5. OwnershipFollowsActive
    <2>1. backend \subseteq {r \in Range(active) : seq[r].created}
      BY <1>1 DEF Ownership, IsActive
    <2>2. finished \cap Range(active) = {}
      BY <1>1 DEF Membership, IsActive
    <2> QED BY <1>1, <1>4, <2>1, <2>2 DEF OwnershipFollowsActive, Ownership
  <1>6. BlocksCoverTokens
    BY <1>1, <1>5 DEF BlocksCoverTokens, Ownership
  <1>7. TokenBudget
    BY <1>1 DEF TokenBudget, Records, Filled
  <1>8. DecodeBatchesAreUniform
    <2> SUFFICES ASSUME sched.pc = "decode"
                 PROVE  /\ Len(sched.batch) \in 1..MaxBatch
                        /\ \A r \in Range(sched.batch) :
                              seq[r].phase = "DECODE" /\ r \in backend /\ seq[r].length = seq[sched.batch[1]].length
      BY DEF DecodeBatchesAreUniform
    <2>1. /\ sched.batch # <<>> /\ Len(sched.batch) <= MaxBatch /\ InPhase(seq, sched.batch, {"DECODE"})
          /\ \A i \in DOMAIN sched.batch : seq[sched.batch[i]].length = seq[sched.batch[1]].length
      BY <1>1 DEF Stage
    <2>2. Len(sched.batch) \in 1..MaxBatch
      BY <1>2, <2>1, EngineAssumption
    <2>3. \A r \in Range(sched.batch) : seq[r].phase = "DECODE" /\ seq[r].length = seq[sched.batch[1]].length
      BY <2>1 DEF InPhase, Range
    <2> QED BY <1>1, <1>3, <2>2, <2>3 DEF Records, Filled
  <1>9. CacheIsBounded
    BY <1>1 DEF CacheIsBounded, Bounded
  <1>10. NoLostWakeup /\ ShutdownLeavesNothing
    <2>1. down = "done" => active = <<>> /\ backend = {} /\ cache = <<>>
      BY <1>1 DEF Quiet
    <2>2. active = <<>> => DOMAIN holds = {}
      BY <1>1 DEF Ownership, Range
    <2> QED BY <1>1, <2>1, <2>2 DEF Quiet, ShutdownLeavesNothing
  <1> QED BY <1>1, <1>5, <1>6, <1>7, <1>8, <1>9, <1>10 DEF EngineInv

\* Blocks, backend state and the scheduler's plans stay with the active sequences
\* whatever interrupts an iteration; batches are uniform, budgets and cache limits
\* hold, no wakeup is lost and shutdown leaves nothing.
THEOREM EngineCorrect == Spec => []EngineInv
  <1>1. Init => IInv
    BY InitIInv
  <1>2. IInv /\ [Next]_vars => IInv'
    BY NextIInv
  <1>3. IInv => EngineInv
    BY IInvImplies
  <1> QED BY <1>1, <1>2, <1>3, PTL DEF Spec

\* Once a prompt is tokenized its blocks cover it and everything it may still
\* generate: resize and the reservation never leave a sequence short.
THEOREM BlocksAlwaysCover == Spec => []BlocksCoverTokens
  <1>1. Init => IInv
    BY InitIInv
  <1>2. IInv /\ [Next]_vars => IInv'
    BY NextIInv
  <1>3. IInv => BlocksCoverTokens
    BY IInvImplies
  <1> QED BY <1>1, <1>2, <1>3, PTL DEF Spec

\* Every stream gets one terminal event, behind its tokens, and it stays in the
\* queue until its reader takes it.
THEOREM StreamsEndOnceCorrect == Spec => []StreamsEndOnce
  <1>1. Init => IInv
    BY InitIInv
  <1>2. IInv /\ [Next]_vars => IInv'
    BY NextIInv
  <1>3. IInv => StreamsEndOnce
    BY IInvImplies
  <1> QED BY <1>1, <1>2, <1>3, PTL DEF Spec

-----------------------------------------------------------------------------
(* Silence after an interruption *)

\* Nothing, a taken event or a terminal event is no token.
Silent(old, new) == new = old \/ (new = Tail(old) /\ old # <<>>) \/ \E e \in TerminalEvent : new = Append(old, e)

LEMMA SilentFacts ==
    ASSUME TypeOK, NEW r \in Request, Silent(events[r], events'[r])
    PROVE  ~TokenQueued(r)
  <1>1. PICK E : E = TerminalEvent \cup {"token"} /\ TerminalEvent \subseteq E
    OBVIOUS
  <1>2. PICK old \in Seq(E) : old = events[r] /\ Len(old) \in Nat
    BY <1>1 DEF TypeOK
  <1>3. CASE events'[r] = old
    BY <1>2, <1>3 DEF TokenQueued
  <1>4. CASE events'[r] = Tail(old) /\ old # <<>>
    <2>1. Len(old) > 0
      BY <1>2, <1>4
    <2>2. Len(Tail(old)) = Len(old) - 1
      BY <1>2, <2>1, RestFacts
    <2> QED BY <1>2, <1>4, <2>2 DEF TokenQueued
  <1>5. ASSUME NEW e \in TerminalEvent, events'[r] = Append(old, e) PROVE ~TokenQueued(r)
    <2>1. Append(old, e)[Len(old) + 1] = e
      BY <1>1, <1>2
    <2>2. e # "token"
      BY DEF TerminalEvent
    <2> QED BY <1>2, <1>5, <2>1, <2>2 DEF TokenQueued
  <1> QED BY <1>2, <1>3, <1>4, <1>5 DEF Silent

\* The end of a sequence delivers what was queued and a terminal event.
LEMMA TerminateSilent ==
    ASSUME TypeOK, NEW r \in Request, NEW x \in Request, NEW s, NEW terminal \in TerminalEvent, NEW next, NEW q,
           Terminate(x, s, terminal, next, q), x = r => q = events[r]
    PROVE  Silent(events[r], events'[r])
  <1>1. \/ events' = [events EXCEPT ![x] = q]
        \/ events' = [events EXCEPT ![x] = Append(q, terminal)]
    BY DEF Terminate, Finish
  <1>2. events'[r] = events[r] \/ (x = r /\ events'[r] = Append(events[r], terminal))
    BY <1>1 DEF TypeOK
  <1> QED BY <1>2 DEF Silent

LEMMA InterruptedStep ==
    ASSUME IInv, [Next]_vars, NEW r \in Request, Interrupted(r)
    PROVE  ~TokenQueued(r)
  <1>1. TypeOK /\ SchedType(sched)
    BY DEF IInv
  <1>2. SUFFICES Silent(events[r], events'[r])
    BY <1>1, SilentFacts
  <1>3. CASE UNCHANGED events
    BY <1>3 DEF Silent
  <1>4. ASSUME NEW x \in Request, ReadEvent(x) PROVE Silent(events[r], events'[r])
    <2>1. events' = [events EXCEPT ![x] = Tail(events[x])] /\ events[x] # <<>>
      BY <1>4 DEF ReadEvent
    <2>2. events'[r] = events[r] \/ (x = r /\ events'[r] = Tail(events[r]))
      BY <1>1, <2>1 DEF TypeOK
    <2> QED BY <2>1, <2>2 DEF Silent
  <1>5. CASE Shutdown
    <2>1. UNCHANGED events \/ events' = [x \in Request |-> IF IsActive(x) THEN Append(events[x], "CANCELLED") ELSE events[x]]
      BY <1>5 DEF Shutdown
    <2>2. events'[r] = events[r] \/ events'[r] = Append(events[r], "CANCELLED")
      BY <2>1
    <2> QED BY <2>2 DEF Silent, TerminalEvent
  <1>6. CASE Released
    <2>1. PICK x \in Request, terminal \in TerminalEvent : x = sched.closing[1] /\ terminal = sched.closing[2]
      BY <1>1, <1>6 DEF SchedType, Released
    <2>2. events' = [events EXCEPT ![x] = Append(events[x], terminal)]
      BY <1>6, <2>1 DEF Released, Finish
    <2>3. events'[r] = events[r] \/ events'[r] = Append(events[r], terminal)
      BY <1>1, <2>2 DEF TypeOK
    <2> QED BY <2>3 DEF Silent
  <1>7. CASE Sweep
    <2>1. PICK i \in DOMAIN sched.todo :
            Terminate(sched.todo[i], seq[sched.todo[i]], Interruption(sched.todo[i]),
                      [sched EXCEPT !.todo = SubSeq(@, i + 1, Len(@))], events[sched.todo[i]])
      BY <1>7 DEF Sweep
    <2>2. PICK x \in Request, terminal \in TerminalEvent : x = sched.todo[i] /\ terminal = Interruption(x)
      BY <1>1, <2>1 DEF SchedType, Interruption, TerminalEvent
    <2>3. PICK next, s : next = [sched EXCEPT !.todo = SubSeq(@, i + 1, Len(@))] /\ s = seq[x]
      OBVIOUS
    <2>4. Terminate(x, s, terminal, next, events[x])
      BY <2>1, <2>2, <2>3
    <2> QED BY <1>1, <2>4, TerminateSilent
  <1>8. CASE PrefillRejected
    <2>1. sched.pc = "prefill"
      BY <1>8 DEF PrefillRejected, At
    <2>2. PICK x \in Request, terminal \in TerminalEvent : x = Head(sched.todo) /\ terminal = "ERROR"
      BY <2>1, PrefillHead DEF TerminalEvent
    <2>3. PICK next, s : next = ContinuePrefill([sched EXCEPT !.todo = Tail(@)]) /\ s = seq[x]
      OBVIOUS
    <2>4. Terminate(x, s, terminal, next, events[x])
      BY <1>8, <2>2, <2>3 DEF PrefillRejected
    <2> QED BY <1>1, <2>4, TerminateSilent
  <1>9. CASE RestoreSnapshotRaises
    <2>1. sched.pc \in Accepting /\ sched.closing = <<>>
      BY <1>9 DEF RestoreSnapshotRaises, At, Accepting
    <2>2. PICK x \in Request, terminal \in TerminalEvent : x = Head(sched.todo) /\ terminal = "ERROR"
      BY <2>1, AfterAcceptPlan DEF TerminalEvent
    <2>3. PICK next, s : next = AfterAccept /\ s = seq[x]
      OBVIOUS
    <2>4. Terminate(x, s, terminal, next, events[x])
      BY <1>9, <2>2, <2>3 DEF RestoreSnapshotRaises
    <2> QED BY <1>1, <2>4, TerminateSilent
  <1>10. CASE Accept
    <2>1. sched.pc \in Accepting /\ sched.closing = <<>>
      BY <1>10 DEF Accept, At
    <2>2. PICK x \in Request, result \in Result : x = Head(sched.todo) /\ result = Head(sched.got) /\ seq[x].phase \in {"PREFILL", "DECODE"}
      BY <2>1, AfterAcceptPlan
    <2>3. PICK verdict : verdict = Verdict(x, result)
      OBVIOUS
    <2>4. verdict \in TerminalEvent \cup {"token"} /\ (verdict \in {"token", "LENGTH"} => ~Interrupted(x))
      BY <2>2, <2>3, VerdictFacts
    <2>5. PICK s, q, next :
            /\ s = (IF verdict \in {"token", "LENGTH"} THEN [seq[x] EXCEPT !.phase = "DECODE", !.generated = @ + 1] ELSE seq[x])
            /\ q = (IF verdict \in {"token", "LENGTH"} THEN Append(events[x], "token") ELSE events[x])
            /\ next = AfterAccept
      OBVIOUS
    <2>6. \/ verdict = "token" /\ events' = [events EXCEPT ![x] = q]
          \/ verdict # "token" /\ Terminate(x, s, verdict, next, q)
      BY <1>10, <2>2, <2>3, <2>5 DEF Accept
    <2>7. x = r => q = events[r] /\ verdict # "token"
      BY <2>4, <2>5
    <2>8. CASE verdict = "token"
      BY <1>1, <2>6, <2>7, <2>8 DEF TypeOK, Silent
    <2>9. CASE verdict # "token"
      <3>1. verdict \in TerminalEvent /\ Terminate(x, s, verdict, next, q)
        BY <2>4, <2>6, <2>9
      <3> QED BY <1>1, <2>7, <3>1, TerminateSilent
    <2> QED BY <2>8, <2>9
  <1> QED
    BY <1>3, <1>4, <1>5, <1>6, <1>7, <1>8, <1>9, <1>10
       DEF Next, Scheduler, Caller, Consumer, vars, Loop, Decide, WakeUp, BeginPrefill, Restore, PrefillCall, Chunk, Decode,
           SnapshotRaises, Reserve, StartStream, Cancel, Expire, CloseReader, CancelReader, ResumeReader, ReaderDrained,
           ShutdownEnds, ShutdownRaises

\* Once a sequence is cancelled or past its deadline no token of it is delivered,
\* even if a model call for it was in flight.
THEOREM InterruptedStaysSilent == Spec => InterruptedIsSilent
  <1>1. Init => IInv
    BY InitIInv
  <1>2. IInv /\ [Next]_vars => IInv'
    BY NextIInv
  <1>3. IInv /\ [Next]_vars => [\A r \in Request : Interrupted(r) => ~TokenQueued(r)]_vars
    BY InterruptedStep
  <1> QED BY <1>1, <1>2, <1>3, PTL DEF Spec, InterruptedIsSilent

-----------------------------------------------------------------------------
(* When a sequence fails *)

\* Reservations are exact, and no sequence meets its own prompt in the cache again.
Exact == \A r \in Request : Estimate[r] = Len(Prompt[r])
OneLookup == ChunkSize = 0 \/ MaxEntries = 0

Resting == {"off", "loop", "idle", "exited", "sweep"}

\* A prompt that is prefilled in one go was not begun before its turn.
Unbegun(s, sq, bk) ==
    ChunkSize = 0 =>
        /\ s.pc \notin {"chunks", "acceptChunk"}
        /\ s.pc = "prefill" => InPhase(sq, s.todo, {"QUEUED"})
        /\ s.pc \in {"restore", "acceptRestore"} => \A i \in 2..Len(s.todo) : sq[s.todo[i]].phase = "QUEUED"
        /\ s.pc = "restore" => s.todo[1] \notin bk
        /\ s.pc \in {"prefill", "restore", "acceptRestore", "call"} => Range(s.batch) \cap bk = {}
        /\ \A r \in Request : sq[r].phase = "PREFILL" => r \in Range(s.todo) \cup Range(s.batch) /\ s.pc \notin Resting

\* A failure at hand is a fault of the backend.
Blamed(s, ft) ==
    /\ ChunkSize # 0 => s.pc # "call"
    /\ MaxEntries = 0 => s.pc \notin {"restore", "acceptRestore"}
    /\ s.pc \in Accepting => \A i \in DOMAIN s.got : s.got[i] = "fail" => s.todo[i] \in ft

\* The inductive invariant for failures, on top of IInv.
FaultInv == Unbegun(sched, seq, backend) /\ Blamed(sched, faulted) /\ FailsOnlyOnBackendFault

\* No failure and no prefill out of nothing.
Innocent ==
    /\ faulted \subseteq faulted'
    /\ \A x \in Request : /\ seq'[x].phase = "FAILED" => seq[x].phase = "FAILED" \/ x \in faulted'
                          /\ seq'[x].phase = "PREFILL" => seq[x].phase = "PREFILL"

LEMMA InnocentFails == ASSUME FaultInv, Innocent PROVE FailsOnlyOnBackendFault'
  BY DEF FaultInv, Innocent, FailsOnlyOnBackendFault

\* Both depend on the loops and not on what is being released.
LEMMA SameControl ==
    ASSUME NEW s, NEW t, t.pc = s.pc, t.todo = s.todo, t.batch = s.batch, t.got = s.got,
           NEW sq, NEW bk, NEW ft, Unbegun(s, sq, bk), Blamed(s, ft)
    PROVE  Unbegun(t, sq, bk) /\ Blamed(t, ft)
  BY DEF Unbegun, Blamed

\* A step outside the scheduler's loops.
LEMMA FaultFrame ==
    ASSUME IInv, FaultInv, Innocent, sched'.pc = sched.pc, sched'.todo = sched.todo, sched'.batch = sched.batch, sched'.got = sched.got,
           \A x \in Request : seq[x].phase = "QUEUED" => seq'[x].phase = "QUEUED" \/ sched.pc = "off", backend' \subseteq backend
    PROVE  FaultInv'
  <1>1. SchedType(sched) /\ Unbegun(sched, seq, backend) /\ Blamed(sched, faulted) /\ Stage(sched, seq)
    BY DEF IInv, FaultInv, Plan
  <1>2. \A i \in DOMAIN sched.todo : sched.todo[i] \in Request
    BY <1>1 DEF SchedType
  <1>3. DOMAIN sched.todo = 1..Len(sched.todo) /\ Len(sched.todo) \in Nat
    BY <1>1, SchedFields
  <1>4. \A i \in 2..Len(sched.todo) : i \in DOMAIN sched.todo
    BY <1>3
  <1>5. Unbegun(sched, seq', backend')
    <2> SUFFICES ASSUME ChunkSize = 0
                 PROVE  /\ sched.pc \notin {"chunks", "acceptChunk"}
                        /\ sched.pc = "prefill" => InPhase(seq', sched.todo, {"QUEUED"})
                        /\ sched.pc \in {"restore", "acceptRestore"} => \A i \in 2..Len(sched.todo) : seq'[sched.todo[i]].phase = "QUEUED"
                        /\ sched.pc = "restore" => sched.todo[1] \notin backend'
                        /\ sched.pc \in {"prefill", "restore", "acceptRestore", "call"} => Range(sched.batch) \cap backend' = {}
                        /\ \A r \in Request : seq'[r].phase = "PREFILL" => r \in Range(sched.todo) \cup Range(sched.batch) /\ sched.pc \notin Resting
      BY DEF Unbegun
    <2>1. sched.pc = "prefill" => InPhase(seq', sched.todo, {"QUEUED"})
      BY <1>1, <1>2 DEF Unbegun, InPhase
    <2>2. sched.pc \in {"restore", "acceptRestore"} => \A i \in 2..Len(sched.todo) : seq'[sched.todo[i]].phase = "QUEUED"
      BY <1>1, <1>2, <1>4 DEF Unbegun
    <2>3. \A r \in Request : seq'[r].phase = "PREFILL" => r \in Range(sched.todo) \cup Range(sched.batch) /\ sched.pc \notin Resting
      BY <1>1 DEF Unbegun, Innocent
    <2> QED BY <1>1, <2>1, <2>2, <2>3 DEF Unbegun
  <1>6. Blamed(sched, faulted')
    BY <1>1 DEF Blamed, Innocent
  <1>7. Unbegun(sched', seq', backend') /\ Blamed(sched', faulted')
    BY <1>5, <1>6, SameControl
  <1> QED BY <1>7, InnocentFails DEF FaultInv

\* A step between iterations.
LEMMA RestingStep ==
    ASSUME FaultInv, Innocent, sched.pc \in Resting, sched'.pc \in Resting
    PROVE  FaultInv'
  <1>1. Unbegun(sched', seq', backend')
    BY DEF FaultInv, Unbegun, Innocent, Resting
  <1>2. Blamed(sched', faulted')
    BY DEF Blamed, Resting, Accepting
  <1> QED BY <1>1, <1>2, InnocentFails DEF FaultInv

\* Where _run_prefill goes on.
LEMMA ContinuePrefillFault ==
    ASSUME NEW s, SchedType(s), NEW sq, NEW bk, NEW ft,
           ChunkSize = 0 => /\ InPhase(sq, s.todo, {"QUEUED"}) /\ Range(s.batch) \cap bk = {}
                            /\ \A r \in Request : sq[r].phase = "PREFILL" => r \in Range(s.batch)
    PROVE  Unbegun(ContinuePrefill(s), sq, bk) /\ Blamed(ContinuePrefill(s), ft)
  <1>1. PICK t : t = ContinuePrefill(s)
    OBVIOUS
  <1>2. ChunkSize \in Nat /\ Range(<<>>) = {}
    BY EngineAssumption DEF Range
  <1>3. CASE s.todo # <<>>
    <2>1. t = [s EXCEPT !.pc = "prefill"]
      BY <1>1, <1>3 DEF ContinuePrefill
    <2>2. t.todo = s.todo /\ t.batch = s.batch /\ t.pc = "prefill"
      BY <2>1 DEF SchedType
    <2> QED BY <1>1, <2>2 DEF Unbegun, Blamed, Accepting, Resting
  <1>4. CASE s.todo = <<>> /\ s.batch = <<>>
    <2>1. t = [s EXCEPT !.pc = "loop"]
      BY <1>1, <1>4 DEF ContinuePrefill
    <2>2. t.pc = "loop"
      BY <2>1 DEF SchedType
    <2> QED BY <1>1, <1>2, <1>4, <2>2 DEF Unbegun, Blamed, Accepting
  <1>5. CASE s.todo = <<>> /\ s.batch # <<>> /\ ChunkSize > 0
    <2>1. t = [s EXCEPT !.pc = "chunks", !.todo = s.batch, !.batch = <<>>]
      BY <1>1, <1>5 DEF ContinuePrefill
    <2>2. t.pc = "chunks"
      BY <2>1 DEF SchedType
    <2> QED BY <1>1, <1>2, <1>5, <2>2 DEF Unbegun, Blamed, Accepting
  <1>6. CASE s.todo = <<>> /\ s.batch # <<>> /\ ~(ChunkSize > 0)
    <2>1. t = [s EXCEPT !.pc = "call"]
      BY <1>1, <1>6 DEF ContinuePrefill
    <2>2. t.todo = s.todo /\ t.batch = s.batch /\ t.pc = "call"
      BY <2>1 DEF SchedType
    <2>3. ChunkSize = 0
      BY <1>2, <1>6
    <2> QED BY <1>1, <2>2, <2>3 DEF Unbegun, Blamed, Accepting, Resting
  <1> QED BY <1>3, <1>4, <1>5, <1>6

\* The failures of a call that was not refused.
LEMMA CallBlames ==
    ASSUME NEW rs \in Seq(Request), NEW refused, ~refused, NEW got, CallReturns(rs, got, refused)
    PROVE  faulted \subseteq faulted' /\ \A i \in DOMAIN rs : got[i] = "fail" => rs[i] \in faulted'
  BY DEF CallReturns

\* What ends the sequence says whether it failed.
LEMMA TerminateFacts ==
    ASSUME TypeOK, NEW r \in Request, NEW s \in SequenceState, NEW terminal \in TerminalEvent, NEW next, SchedType(next),
           NEW q, Terminate(r, s, terminal, next, q)
    PROVE  /\ \A x \in Request \ {r} : seq'[x] = seq[x]
           /\ seq'[r].phase \in Terminal /\ (seq'[r].phase = "FAILED" => terminal = "ERROR")
           /\ sched'.pc = next.pc /\ sched'.todo = next.todo /\ sched'.batch = next.batch /\ sched'.got = next.got
  <1>1. PICK p \in Terminal : p = PhaseFor(terminal) /\ (p = "FAILED" => terminal = "ERROR")
    BY DEF PhaseFor, Terminal, TerminalEvent
  <1>2. seq \in [Request -> SequenceState]
    BY RecordType
  <1>3. PICK w : w = [s EXCEPT !.phase = p]
    OBVIOUS
  <1>4. w.phase = p
    BY <1>3 DEF SequenceState
  <1>5. seq' = [seq EXCEPT ![r] = w]
    BY <1>1, <1>3 DEF Terminate
  <1>6. sched' = next \/ sched' = [next EXCEPT !.closing = <<r, terminal>>]
    BY DEF Terminate
  <1>7. sched'.pc = next.pc /\ sched'.todo = next.todo /\ sched'.batch = next.batch /\ sched'.got = next.got
    BY <1>6 DEF SchedType
  <1> QED BY <1>1, <1>2, <1>4, <1>5, <1>7

\* A step that moves no sequence to another phase.
LEMMA SamePhases ==
    ASSUME IInv, FaultInv, \A x \in Request : seq'[x].phase = seq[x].phase, faulted \subseteq faulted', backend' \subseteq backend,
           sched' = sched \/ (sched.pc \in Resting /\ sched'.pc \in Resting)
    PROVE  FaultInv'
  <1>1. Innocent
    BY DEF Innocent
  <1> QED BY <1>1, FaultFrame, RestingStep

LEMMA CallerFault == ASSUME IInv, FaultInv, NEW r \in Request, Caller(r) PROVE FaultInv'
  <1>1. seq \in [Request -> SequenceState] /\ SchedType(sched)
    BY RecordType DEF IInv
  <1>2. CASE Reserve(r)
    <2>1. seq[r].phase = "NONE" /\ seq' = [seq EXCEPT ![r].phase = "QUEUED"] /\ UNCHANGED <<sched, backend, faulted>>
      BY <1>2 DEF Reserve
    <2>2. seq'[r].phase = "QUEUED" /\ \A x \in Request \ {r} : seq'[x] = seq[x]
      BY <1>1, <2>1 DEF SequenceState
    <2>3. Innocent
      BY <2>1, <2>2 DEF Innocent
    <2>4. \A x \in Request : seq[x].phase = "QUEUED" => seq'[x].phase = "QUEUED"
      BY <2>2
    <2>5. UNCHANGED <<sched, backend, faulted>>
      BY <2>1
    <2> QED BY <2>3, <2>4, <2>5, FaultFrame
  <1>3. CASE StartStream(r)
    <2>1. UNCHANGED <<seq, backend, faulted>> /\ (sched' = sched \/ (sched.pc = "off" /\ sched' = [sched EXCEPT !.pc = "loop"]))
      BY <1>3 DEF StartStream
    <2>2. sched' = sched \/ (sched.pc \in Resting /\ sched'.pc \in Resting)
      BY <1>1, <2>1 DEF SchedType, Resting
    <2> QED BY <2>1, <2>2, SamePhases
  <1>4. CASE Cancel(r) \/ Expire(r) \/ CloseReader(r) \/ CancelReader(r)
    <2>1. /\ UNCHANGED <<sched, backend, faulted>>
          /\ seq' \in {[seq EXCEPT ![r].cancelled = TRUE], [seq EXCEPT ![r].expired = TRUE], seq}
      BY <1>4 DEF Cancel, Expire, CloseReader, CancelReader, SignalCancellation
    <2>2. \A x \in Request : seq'[x].phase = seq[x].phase
      <3>1. \A x \in Request : SameStanding(seq[x], seq'[x])
        BY <2>1, FlagSet
      <3> QED BY <3>1 DEF SameStanding
    <2> QED BY <2>1, <2>2, SamePhases
  <1> QED BY <1>2, <1>3, <1>4 DEF Caller

LEMMA ShutdownFault == ASSUME IInv, FaultInv, Shutdown PROVE FaultInv'
  <1>1. seq \in [Request -> SequenceState] /\ UNCHANGED <<sched, backend, faulted>>
    BY RecordType DEF IInv, Shutdown
  <1>2. \A x \in Request : /\ [seq[x] EXCEPT !.cancelled = TRUE].phase = seq[x].phase
                           /\ [seq[x] EXCEPT !.cancelled = TRUE, !.phase = "CANCELLED"].phase = "CANCELLED"
    BY <1>1 DEF SequenceState
  <1>3. CASE sched.pc = "off"
    <2>1. seq' = [x \in Request |-> IF IsActive(x) THEN [seq[x] EXCEPT !.cancelled = TRUE, !.phase = "CANCELLED"] ELSE seq[x]]
      BY <1>3 DEF Shutdown
    <2>2. \A x \in Request : seq'[x].phase \in {"CANCELLED", seq[x].phase}
      BY <1>2, <2>1
    <2>3. Innocent
      BY <1>1, <2>2 DEF Innocent
    <2>4. sched' = sched /\ backend' = backend
      BY <1>1
    <2> QED BY <1>3, <2>3, <2>4, FaultFrame
  <1>4. CASE sched.pc # "off"
    <2>1. seq' = [x \in Request |-> IF IsActive(x) THEN [seq[x] EXCEPT !.cancelled = TRUE] ELSE seq[x]]
      BY <1>4 DEF Shutdown
    <2>2. \A x \in Request : seq'[x].phase = seq[x].phase
      BY <1>2, <2>1
    <2> QED BY <1>1, <2>2, SamePhases
  <1> QED BY <1>3, <1>4

LEMMA StillFault ==
    ASSUME IInv, FaultInv,
           (\E r \in Request : Consumer(r)) \/ Loop \/ WakeUp \/ ShutdownEnds \/ ShutdownRaises \/ UNCHANGED vars
    PROVE  FaultInv'
  <1>1. SchedType(sched)
    BY DEF IInv
  <1>2. UNCHANGED <<seq, faulted>> /\ backend' \subseteq backend
    BY DEF Consumer, ReadEvent, ResumeReader, ReaderDrained, Loop, WakeUp, ShutdownEnds, ShutdownRaises, vars
  <1>3. CASE Loop
    <2>1. sched.pc = "loop" /\ (sched' = [sched EXCEPT !.pc = "exited"] \/ sched' = [sched EXCEPT !.pc = "sweep", !.todo = active])
      BY <1>3 DEF Loop, At
    <2>2. sched.pc \in Resting /\ sched'.pc \in Resting
      BY <1>1, <2>1 DEF SchedType, Resting
    <2> QED BY <1>2, <2>2, SamePhases
  <1>4. CASE WakeUp
    <2>1. sched.pc = "idle" /\ sched' = [sched EXCEPT !.pc = "loop"]
      BY <1>4 DEF WakeUp, At
    <2>2. sched.pc \in Resting /\ sched'.pc \in Resting
      BY <1>1, <2>1 DEF SchedType, Resting
    <2> QED BY <1>2, <2>2, SamePhases
  <1>5. CASE sched' = sched
    BY <1>2, <1>5, SamePhases
  <1> QED BY <1>3, <1>4, <1>5 DEF Consumer, ReadEvent, ResumeReader, ReaderDrained, ShutdownEnds, ShutdownRaises, vars

\* The released sequence was not to be worked on.
LEMMA ReleasedFault == ASSUME IInv, FaultInv, Released PROVE FaultInv'
  <1>1. seq \in [Request -> SequenceState] /\ SchedType(sched)
    BY RecordType DEF IInv
  <1>2. PICK r \in Request : r = sched.closing[1]
    BY <1>1 DEF Released, SchedType
  <1>3. seq' = [seq EXCEPT ![r].created = FALSE] /\ sched' = [sched EXCEPT !.closing = <<>>] /\ faulted' = faulted /\ backend' \subseteq backend
    BY <1>2 DEF Released
  <1>4. \A x \in Request : seq'[x].phase = seq[x].phase
    BY <1>1, <1>3 DEF SequenceState
  <1>5. sched'.pc = sched.pc /\ sched'.todo = sched.todo /\ sched'.batch = sched.batch /\ sched'.got = sched.got
    BY <1>1, <1>3 DEF SchedType
  <1>6. Innocent
    BY <1>3, <1>4 DEF Innocent
  <1> QED BY <1>3, <1>4, <1>5, <1>6, FaultFrame

LEMMA SweepFault == ASSUME IInv, FaultInv, Sweep PROVE FaultInv'
  <1>1. TypeOK /\ SchedType(sched) /\ seq \in [Request -> SequenceState] /\ sched.pc = "sweep" /\ UNCHANGED <<backend, faulted>>
    BY RecordType DEF IInv, Sweep, At
  <1>2. PICK i \in DOMAIN sched.todo :
          Terminate(sched.todo[i], seq[sched.todo[i]], Interruption(sched.todo[i]),
                    [sched EXCEPT !.todo = SubSeq(@, i + 1, Len(@))], events[sched.todo[i]])
    BY DEF Sweep
  <1>3. PICK x \in Request, terminal \in TerminalEvent : x = sched.todo[i] /\ terminal = Interruption(x) /\ terminal # "ERROR"
    BY <1>1, <1>2 DEF SchedType, Interruption, TerminalEvent
  <1>4. PICK next, s, q : next = [sched EXCEPT !.todo = SubSeq(@, i + 1, Len(@))] /\ s = seq[x] /\ q = events[x]
    OBVIOUS
  <1>5. Terminate(x, s, terminal, next, q)
    BY <1>2, <1>3, <1>4
  <1>6. SchedType(next) /\ next.pc = "sweep" /\ s \in SequenceState
    <2>1. i + 1 \in Nat /\ Len(sched.todo) \in Nat /\ SubSeq(sched.todo, i + 1, Len(sched.todo)) \in Seq(Request)
      <3>1. sched.todo \in Seq(Request) /\ Len(sched.todo) \in Nat /\ i \in 1..Len(sched.todo)
        BY <1>1, <1>2, SchedFields
      <3> QED BY <3>1
    <2>2. PICK w \in Seq(Request) : w = SubSeq(sched.todo, i + 1, Len(sched.todo))
      BY <2>1
    <2>3. next = [sched EXCEPT !.todo = w]
      BY <1>4, <2>2
    <2> QED BY <1>1, <1>4, <2>3 DEF SchedType
  <1>7. /\ \A y \in Request \ {x} : seq'[y] = seq[y]
        /\ seq'[x].phase \in Terminal /\ seq'[x].phase # "FAILED" /\ sched'.pc = "sweep"
    BY <1>1, <1>3, <1>5, <1>6, TerminateFacts
  <1>8. Innocent
    BY <1>1, <1>7 DEF Innocent, Terminal
  <1> QED BY <1>1, <1>7, <1>8, RestingStep DEF Resting

LEMMA FailsFrame ==
    ASSUME FaultInv, faulted \subseteq faulted',
           \A x \in Request : seq'[x].phase = "FAILED" => seq[x].phase = "FAILED" \/ x \in faulted'
    PROVE  FailsOnlyOnBackendFault'
  BY DEF FaultInv, FailsOnlyOnBackendFault

LEMMA DecideFault == ASSUME IInv, FaultInv, Decide PROVE FaultInv'
  <1>1. SchedType(sched) /\ Stage(sched, seq) /\ TypeOK /\ IsInjective(active)
    BY DEF IInv, Plan, Membership
  <1>2. sched.pc = "sweep" /\ UNCHANGED <<seq, backend, faulted>>
    BY DEF Decide, At
  <1>3. sched.batch = <<>> /\ sched.turn \in BOOLEAN /\ <<>> \in Seq(Request) /\ Range(<<>>) = {}
    BY <1>1, <1>2 DEF Stage, SchedType, Range
  <1>4. PICK turn \in BOOLEAN : turn = IF Policy = "balanced" THEN ~sched.turn ELSE sched.turn
    BY <1>3
  <1>5. PICK s : s = [sched EXCEPT !.todo = <<>>, !.turn = turn]
    OBVIOUS
  <1>6. SchedType(s) /\ s.todo = <<>> /\ s.batch = <<>>
    BY <1>1, <1>3, <1>4, <1>5 DEF SchedType
  <1>7. ChunkSize = 0 => \A x \in Request : seq[x].phase # "PREFILL"
    BY <1>2 DEF FaultInv, Unbegun, Resting
  <1>8. FailsOnlyOnBackendFault'
    BY <1>2, FailsFrame
  <1>9. CASE Waiting = <<>> /\ Running = <<>>
    <2>1. PICK t : t = sched' /\ t = [s EXCEPT !.pc = Sleep]
      BY <1>4, <1>5, <1>9 DEF Decide
    <2>2. PICK p \in {"idle", "exited"} : p = Sleep
      BY DEF Sleep
    <2>3. t.pc = p
      BY <1>6, <2>1, <2>2 DEF SchedType
    <2>4. sched.pc \in Resting /\ sched'.pc \in Resting
      BY <1>2, <2>1, <2>3 DEF Resting
    <2> QED BY <1>2, <2>4, SamePhases
  <1>10. CASE ~(Waiting = <<>> /\ Running = <<>>) /\ DecodeChosen(turn)
    <2>1. PICK t, ids : t = sched' /\ ids = DecodeIds /\ t = [s EXCEPT !.pc = "decode", !.batch = ids]
      BY <1>4, <1>5, <1>10 DEF Decide
    <2>2. t.pc = "decode"
      BY <1>6, <2>1 DEF SchedType
    <2>3. Unbegun(t, seq, backend) /\ Blamed(t, faulted)
      BY <1>7, <2>2 DEF Unbegun, Blamed, Accepting
    <2> QED BY <1>2, <1>8, <2>1, <2>3 DEF FaultInv
  <1>11. CASE ~(Waiting = <<>> /\ Running = <<>>) /\ ~DecodeChosen(turn)
    <2>1. /\ Waiting \in Seq(Request) /\ IsInjective(Waiting)
          /\ Range(Waiting) = {x \in Range(active) : seq[x].phase \in Unfilled}
      BY <1>1, SetsFacts
    <2>2. PICK ids \in Seq(Request) : ids = First(Waiting, MaxBatch) /\ Range(ids) \subseteq Range(Waiting)
      BY <2>1, FirstFacts, EngineAssumption
    <2>3. PICK u : u = [s EXCEPT !.todo = ids]
      OBVIOUS
    <2>4. SchedType(u) /\ u.todo = ids /\ u.batch = <<>>
      BY <1>6, <2>3 DEF SchedType
    <2>5. ChunkSize = 0 => InPhase(seq, ids, {"QUEUED"})
      <3>1. \A i \in DOMAIN ids : ids[i] \in Range(ids) /\ ids[i] \in Request
        BY DEF Range
      <3> QED BY <1>7, <2>1, <2>2, <3>1 DEF InPhase, Unfilled
    <2>6. Unbegun(ContinuePrefill(u), seq, backend) /\ Blamed(ContinuePrefill(u), faulted)
      BY <1>3, <1>7, <2>4, <2>5, ContinuePrefillFault
    <2>7. sched' = ContinuePrefill(u)
      BY <1>4, <1>5, <1>11, <2>2, <2>3 DEF Decide
    <2> QED BY <1>2, <1>8, <2>6, <2>7 DEF FaultInv
  <1> QED BY <1>9, <1>10, <1>11

\* The prompts whose turn has not come are unknown to the backend.
LEMMA PrefillUnbegun ==
    ASSUME IInv, FaultInv, ChunkSize = 0, sched.pc = "prefill"
    PROVE  /\ \A x \in Range(sched.todo) : x \in Request /\ seq[x].phase = "QUEUED" /\ x \notin backend
           /\ Range(sched.batch) \cap backend = {}
           /\ \A x \in Request : seq[x].phase = "PREFILL" => x \in Range(sched.batch)
  <1>1. SchedType(sched) /\ Records /\ Ownership /\ Unbegun(sched, seq, backend)
    BY DEF IInv, FaultInv
  <1>2. \A i \in DOMAIN sched.todo : sched.todo[i] \in Request
    BY <1>1 DEF SchedType
  <1>3. \A x \in Range(sched.todo) : x \in Request /\ seq[x].phase = "QUEUED"
    BY <1>1, <1>2 DEF Unbegun, InPhase, Range
  <1>4. \A x \in Range(sched.todo) : x \notin backend
    BY <1>1, <1>3 DEF Records, Filled, Ownership
  <1> QED BY <1>1, <1>3, <1>4 DEF Unbegun

LEMMA BeginPrefillFault == ASSUME IInv, FaultInv, BeginPrefill PROVE FaultInv'
  <1>1. SchedType(sched) /\ Work(sched, seq) /\ seq \in [Request -> SequenceState]
    BY RecordType DEF IInv, Plan
  <1>2. sched.pc = "prefill" /\ UNCHANGED <<backend, faulted>>
    BY DEF BeginPrefill, At
  <1>3. PICK r \in Request, u \in Seq(Request) :
            /\ r = Head(sched.todo) /\ r = sched.todo[1] /\ u = Tail(sched.todo)
            /\ r \notin Range(sched.batch) /\ Range(sched.todo) = Range(u) \cup {r} /\ r \notin Range(u)
    BY <1>2, PrefillHead
  <1>4. seq' = [seq EXCEPT ![r].tokenized = TRUE, ![r].phase = "PREFILL", ![r].created = TRUE] /\ Lookup(r)
    BY <1>3 DEF BeginPrefill
  <1>5. seq'[r].phase = "PREFILL" /\ \A x \in Request \ {r} : seq'[x] = seq[x]
    BY <1>1, <1>4 DEF SequenceState
  <1>6. FailsOnlyOnBackendFault'
    BY <1>2, <1>5, FailsFrame
  <1>7. ChunkSize = 0 => /\ \A x \in Range(sched.todo) : x \in Request /\ seq[x].phase = "QUEUED" /\ x \notin backend
                         /\ Range(sched.batch) \cap backend = {}
                         /\ \A x \in Request : seq[x].phase = "PREFILL" => x \in Range(sched.batch)
    BY <1>2, PrefillUnbegun
  <1>8. r \in Range(sched.todo)
    BY <1>3
  <1>9. PICK hits : hits = IF MaxEntries = 0 THEN {} ELSE Matching(cache, Prompt[r])
    OBVIOUS
  <1>10. CASE hits = {}
    <2>1. sched' = ContinuePrefill([sched EXCEPT !.todo = Tail(@), !.batch = Append(@, r)])
      BY <1>4, <1>9, <1>10 DEF Lookup
    <2>2. PICK b \in Seq(Request) : b = Append(sched.batch, r) /\ Range(b) = Range(sched.batch) \cup {r} /\ IsInjective(b)
      <3>1. sched.batch \in Seq(Request) /\ IsInjective(sched.batch)
        BY <1>1 DEF Work, SchedType
      <3> QED BY <1>3, <3>1, AppendFacts
    <2>3. PICK n : n = [sched EXCEPT !.todo = u, !.batch = b]
      OBVIOUS
    <2>4. SchedType(n) /\ n.todo = u /\ n.batch = b
      BY <1>1, <2>3 DEF SchedType
    <2>5. sched' = ContinuePrefill(n)
      BY <1>3, <2>1, <2>2, <2>3
    <2>6. ChunkSize = 0 => InPhase(seq', u, {"QUEUED"})
      <3>1. \A i \in DOMAIN u : u[i] \in Range(u) /\ u[i] \in Request
        BY DEF Range
      <3> QED BY <1>3, <1>5, <1>7, <3>1 DEF InPhase
    <2>7. ChunkSize = 0 => Range(b) \cap backend = {} /\ \A x \in Request : seq'[x].phase = "PREFILL" => x \in Range(b)
      BY <1>5, <1>7, <1>8, <2>2
    <2>8. Unbegun(ContinuePrefill(n), seq', backend) /\ Blamed(ContinuePrefill(n), faulted)
      BY <2>4, <2>6, <2>7, ContinuePrefillFault
    <2> QED BY <1>2, <1>6, <2>5, <2>8 DEF FaultInv
  <1>11. CASE hits # {}
    <2>1. PICK hit : hit = LongestPrefix(cache, Prompt[r])
      OBVIOUS
    <2>2. PICK t : t = sched' /\ t = [sched EXCEPT !.pc = "restore", !.entry = cache[hit]]
      BY <1>4, <1>9, <1>11, <2>1 DEF Lookup
    <2>3. t.pc = "restore" /\ t.todo = sched.todo /\ t.batch = sched.batch
      BY <1>1, <2>2 DEF SchedType
    <2>4. Blamed(t, faulted)
      BY <1>9, <1>11, <2>3 DEF Blamed, Accepting
    <2>5. ChunkSize = 0 => \A i \in 2..Len(sched.todo) : seq'[sched.todo[i]].phase = "QUEUED"
      <3>1. sched.todo \in Seq(Request) /\ DOMAIN sched.todo = 1..Len(sched.todo) /\ Len(sched.todo) \in Nat /\ IsInjective(sched.todo)
        BY <1>1, SchedFields DEF Work
      <3>2. \A i \in 2..Len(sched.todo) : i \in DOMAIN sched.todo /\ 1 \in DOMAIN sched.todo /\ i # 1
        BY <3>1
      <3>3. \A i \in 2..Len(sched.todo) : sched.todo[i] \in Range(sched.todo) /\ sched.todo[i] # r
        BY <1>3, <3>1, <3>2 DEF IsInjective, Range
      <3> QED BY <1>5, <1>7, <3>3
    <2>6. ChunkSize = 0 => \A x \in Request : seq'[x].phase = "PREFILL" => x \in Range(sched.todo) \cup Range(sched.batch)
      BY <1>5, <1>7, <1>8
    <2>7. Unbegun(t, seq', backend)
      BY <1>3, <1>7, <1>8, <2>3, <2>5, <2>6 DEF Unbegun, Resting
    <2> QED BY <1>2, <1>6, <2>2, <2>4, <2>7 DEF FaultInv
  <1> QED BY <1>10, <1>11

\* With an exact reservation the blocks are there already.
LEMMA ExactFits ==
    ASSUME Exact, IInv, NEW r \in Request, IsActive(r), ~seq[r].tokenized
    PROVE  ResizeFits(r)
  <1>1. Cardinality(holds[r]) = BlocksForTokens(Len(Prompt[r]) + MaxNew[r])
    BY DEF Exact, IInv, Ownership, IsActive
  <1>2. Len(Prompt[r]) + MaxNew[r] \in Nat
    BY EngineAssumption
  <1>3. Cardinality(holds[r]) \in Nat
    BY <1>1, <1>2, BlocksCover
  <1>4. Cardinality(KV!Available) \in Nat
    <2>1. IsFiniteSet(KV!Available)
      BY FreeBlocks
    <2> QED BY <2>1, FS_CardinalityType
  <1> QED BY <1>1, <1>3, <1>4 DEF ResizeFits

LEMMA ContinuePrefillType == ASSUME NEW s, SchedType(s) PROVE SchedType(ContinuePrefill(s))
  <1>1. <<>> \in Seq(Request)
    OBVIOUS
  <1> QED BY <1>1 DEF ContinuePrefill, SchedType

LEMMA PrefillRejectedFault == ASSUME Exact, IInv, FaultInv, PrefillRejected PROVE FaultInv'
  <1>1. TypeOK /\ SchedType(sched) /\ seq \in [Request -> SequenceState]
    BY RecordType DEF IInv
  <1>2. sched.pc = "prefill" /\ backend' = backend
    BY DEF PrefillRejected, At
  <1>3. PICK r \in Request, u \in Seq(Request) :
            /\ r = Head(sched.todo) /\ u = Tail(sched.todo) /\ seq[r].phase \in Unfilled /\ r \notin Range(sched.batch)
            /\ Range(sched.todo) = Range(u) \cup {r} /\ r \notin Range(u)
    BY <1>2, PrefillHead
  <1>4. IsActive(r)
    BY <1>3, AliveIsActive DEF Unfilled, Alive
  <1>5. faulted' = faulted \cup {r}
    <2>1. ~seq[r].tokenized /\ (faulted' = faulted \cup {r} \/ ~ResizeFits(r))
      BY <1>3 DEF PrefillRejected
    <2> QED BY <1>4, <2>1, ExactFits
  <1>6. PICK n : n = [sched EXCEPT !.todo = u]
    OBVIOUS
  <1>7. SchedType(n) /\ n.todo = u /\ n.batch = sched.batch
    BY <1>1, <1>6 DEF SchedType
  <1>8. PICK next, s, q, terminal : next = ContinuePrefill(n) /\ s = seq[r] /\ q = events[r] /\ terminal = "ERROR" /\ terminal \in TerminalEvent
    BY DEF TerminalEvent
  <1>9. Terminate(r, s, terminal, next, q)
    BY <1>3, <1>6, <1>8 DEF PrefillRejected
  <1>10. SchedType(next) /\ s \in SequenceState
    BY <1>1, <1>7, <1>8, ContinuePrefillType
  <1>11. /\ \A x \in Request \ {r} : seq'[x] = seq[x]
         /\ seq'[r].phase \in Terminal
         /\ sched'.pc = next.pc /\ sched'.todo = next.todo /\ sched'.batch = next.batch /\ sched'.got = next.got
    BY <1>1, <1>8, <1>9, <1>10, TerminateFacts
  <1>12. ChunkSize = 0 => /\ InPhase(seq', u, {"QUEUED"}) /\ Range(sched.batch) \cap backend = {}
                          /\ \A x \in Request : seq'[x].phase = "PREFILL" => x \in Range(sched.batch)
    <2>1. \A i \in DOMAIN u : u[i] \in Range(u) /\ u[i] \in Request
      BY DEF Range
    <2>2. ChunkSize = 0 => /\ \A x \in Range(sched.todo) : seq[x].phase = "QUEUED"
                           /\ Range(sched.batch) \cap backend = {}
                           /\ \A x \in Request : seq[x].phase = "PREFILL" => x \in Range(sched.batch)
      BY <1>2, PrefillUnbegun
    <2> QED BY <1>3, <1>11, <2>1, <2>2 DEF InPhase, Terminal
  <1>13. Unbegun(next, seq', backend') /\ Blamed(next, faulted')
    BY <1>2, <1>7, <1>8, <1>12, ContinuePrefillFault
  <1>14. Unbegun(sched', seq', backend') /\ Blamed(sched', faulted')
    BY <1>11, <1>13, SameControl
  <1>15. FailsOnlyOnBackendFault'
    BY <1>5, <1>11, FailsFrame
  <1> QED BY <1>14, <1>15 DEF FaultInv

LEMMA RestoreFault == ASSUME OneLookup, IInv, FaultInv, Restore PROVE FaultInv'
  <1>1. TypeOK /\ SchedType(sched) /\ Work(sched, seq) /\ Stage(sched, seq) /\ seq \in [Request -> SequenceState]
    BY RecordType DEF IInv, Plan
  <1>2. sched.pc = "restore" /\ Unbegun(sched, seq, backend) /\ Blamed(sched, faulted)
    BY DEF Restore, At, FaultInv
  <1>3. ChunkSize = 0 /\ MaxEntries # 0
    BY <1>2 DEF Blamed, OneLookup
  <1>4. sched.todo \in Seq(Request) /\ sched.todo # <<>> /\ Len(sched.todo) > 0 /\ DOMAIN sched.todo = 1..Len(sched.todo) /\ Len(sched.todo) \in Nat
    BY <1>1, <1>2, SchedFields DEF Stage
  <1>5. PICK r \in Request : r = Head(sched.todo) /\ r = sched.todo[1] /\ 1 \in DOMAIN sched.todo
    BY <1>4
  <1>6. PICK refused, got, l : /\ refused = (r \in backend) /\ got \in Outcomes(1, refused) /\ CallReturns(<<r>>, got, refused)
                               /\ seq' = seq \/ seq' = [seq EXCEPT ![r].length = l]
                               /\ sched' = [sched EXCEPT !.pc = "acceptRestore", !.got = got]
    BY <1>5 DEF Restore
  <1>7. ~refused
    BY <1>2, <1>3, <1>5, <1>6 DEF Unbegun
  <1>8. PICK rs \in Seq(Request) : rs = <<r>> /\ Len(rs) = 1 /\ rs[1] = r /\ IsInjective(rs) /\ DOMAIN rs = {1} /\ Range(rs) = {r}
    BY SingleFacts
  <1>9. got \in Outcomes(Len(rs), refused) /\ CallReturns(rs, got, refused)
    BY <1>6, <1>8
  <1>10. got \in Seq(Result) /\ DOMAIN got = DOMAIN rs /\ backend' \subseteq backend \cup Range(rs)
    BY <1>1, <1>8, <1>9, CallFacts
  <1>11. faulted \subseteq faulted' /\ \A i \in DOMAIN rs : got[i] = "fail" => rs[i] \in faulted'
    BY <1>7, <1>8, <1>9, CallBlames
  <1>12. \A x \in Request : seq'[x].phase = seq[x].phase
    <2>1. PICK q : q = [seq[r] EXCEPT !.length = l]
      OBVIOUS
    <2>2. q.phase = seq[r].phase
      BY <1>1, <2>1 DEF SequenceState
    <2>3. seq' = seq \/ seq' = [seq EXCEPT ![r] = q]
      BY <1>1, <1>6, <2>1
    <2> QED BY <1>1, <2>2, <2>3
  <1>13. PICK t : t = sched' /\ t = [sched EXCEPT !.pc = "acceptRestore", !.got = got]
    BY <1>6
  <1>14. t.pc = "acceptRestore" /\ t.todo = sched.todo /\ t.batch = sched.batch /\ t.got = got
    BY <1>1, <1>13 DEF SchedType
  <1>15. Blamed(t, faulted')
    BY <1>3, <1>5, <1>8, <1>10, <1>11, <1>14 DEF Blamed
  <1>16. Unbegun(t, seq', backend')
    <2>1. \A i \in 2..Len(sched.todo) : sched.todo[i] \in Request
      BY <1>4
    <2>2. \A i \in 2..Len(sched.todo) : seq'[sched.todo[i]].phase = "QUEUED"
      BY <1>2, <1>3, <1>12, <2>1 DEF Unbegun
    <2>3. r \in Range(sched.todo)
      BY <1>5 DEF Range
    <2>4. Range(sched.batch) \cap backend' = {}
      BY <1>1, <1>2, <1>3, <1>8, <1>10, <2>3 DEF Unbegun, Work
    <2>5. \A x \in Request : seq'[x].phase = "PREFILL" => x \in Range(sched.todo) \cup Range(sched.batch)
      BY <1>2, <1>3, <1>12 DEF Unbegun
    <2> QED BY <1>14, <2>2, <2>4, <2>5 DEF Unbegun, Resting
  <1>17. FailsOnlyOnBackendFault'
    BY <1>11, <1>12, FailsFrame
  <1> QED BY <1>13, <1>15, <1>16, <1>17 DEF FaultInv

\* The results of a call for the whole batch.
LEMMA BatchFault ==
    ASSUME IInv, FaultInv, sched.pc \in {"call", "decode"}, NEW rs \in Seq(Request), rs = sched.batch,
           NEW got, DOMAIN got = DOMAIN rs, NEW pc \in {"acceptPrefill", "acceptDecode"},
           sched' = [sched EXCEPT !.pc = pc, !.todo = rs, !.batch = <<>>, !.got = got],
           \A x \in Request : seq'[x].phase = seq[x].phase, faulted \subseteq faulted',
           \A i \in DOMAIN rs : got[i] = "fail" => rs[i] \in faulted'
    PROVE  FaultInv'
  <1>1. SchedType(sched) /\ Stage(sched, seq) /\ Unbegun(sched, seq, backend)
    BY DEF IInv, Plan, FaultInv
  <1>2. PICK t, e : t = sched' /\ e = <<>> /\ t = [sched EXCEPT !.pc = pc, !.todo = rs, !.batch = e, !.got = got]
    OBVIOUS
  <1>3. t.pc = pc /\ t.todo = rs /\ t.got = got
    BY <1>1, <1>2 DEF SchedType
  <1>4. Range(sched.todo) = {}
    BY <1>1 DEF Stage, Range
  <1>5. Unbegun(t, seq', backend')
    BY <1>1, <1>3, <1>4 DEF Unbegun, Resting
  <1>6. Blamed(t, faulted')
    BY <1>3 DEF Blamed
  <1>7. FailsOnlyOnBackendFault'
    BY FailsFrame
  <1> QED BY <1>2, <1>5, <1>6, <1>7 DEF FaultInv

LEMMA PrefillCallFault == ASSUME IInv, FaultInv, PrefillCall PROVE FaultInv'
  <1>1. TypeOK /\ SchedType(sched) /\ Work(sched, seq) /\ Stage(sched, seq) /\ seq \in [Request -> SequenceState]
    BY RecordType DEF IInv, Plan
  <1>2. sched.pc = "call" /\ Unbegun(sched, seq, backend) /\ Blamed(sched, faulted)
    BY DEF PrefillCall, At, FaultInv
  <1>3. PICK rs \in Seq(Request) : rs = sched.batch /\ IsInjective(rs)
    BY <1>1, SchedFields DEF Work
  <1>4. PICK refused : refused = (Range(rs) \cap backend # {})
    OBVIOUS
  <1>5. ~refused
    BY <1>2, <1>3, <1>4 DEF Unbegun, Blamed
  <1>6. PICK got \in Outcomes(Len(sched.batch), Range(sched.batch) \cap backend # {}) :
             /\ CallReturns(sched.batch, got, Range(sched.batch) \cap backend # {})
             /\ seq' = [r \in Request |->
                          IF \E i \in DOMAIN sched.batch : sched.batch[i] = r /\ got[i] # "fail"
                          THEN [seq[r] EXCEPT !.length = LargestOf({Len(Prompt[x]) : x \in Range(sched.batch)})] ELSE seq[r]]
             /\ sched' = [sched EXCEPT !.pc = "acceptPrefill", !.todo = sched.batch, !.batch = <<>>, !.got = got]
    BY Zenon DEF PrefillCall
  <1>7. got \in Outcomes(Len(rs), refused)
    BY <1>3, <1>4, <1>6, Zenon
  <1>8. CallReturns(rs, got, refused)
    BY <1>3, <1>4, <1>6, Zenon
  <1>9. DOMAIN got = DOMAIN rs
    BY <1>1, <1>3, <1>7, <1>8, CallFacts
  <1>10. faulted \subseteq faulted' /\ \A i \in DOMAIN rs : got[i] = "fail" => rs[i] \in faulted'
    BY <1>5, <1>8, CallBlames
  <1>11. \A x \in Request : seq'[x].phase = seq[x].phase
    <2>1. PICK w : w = LargestOf({Len(Prompt[x]) : x \in Range(sched.batch)})
      OBVIOUS
    <2>2. \A x \in Request : seq'[x] \in {seq[x], [seq[x] EXCEPT !.length = w]}
      BY <1>6, <2>1
    <2>3. \A x \in Request : [seq[x] EXCEPT !.length = w].phase = seq[x].phase
      BY <1>1 DEF SequenceState
    <2> QED BY <2>2, <2>3
  <1>12. sched' = [sched EXCEPT !.pc = "acceptPrefill", !.todo = rs, !.batch = <<>>, !.got = got]
    BY <1>3, <1>6
  <1> QED BY <1>2, <1>3, <1>9, <1>10, <1>11, <1>12, BatchFault

\* What is decoded is known to the backend.
LEMMA DecodeFault == ASSUME IInv, FaultInv, Decode PROVE FaultInv'
  <1>1. TypeOK /\ SchedType(sched) /\ Work(sched, seq) /\ Stage(sched, seq) /\ Records /\ seq \in [Request -> SequenceState]
    BY RecordType DEF IInv, Plan
  <1>2. sched.pc = "decode"
    BY DEF Decode, At
  <1>3. PICK rs \in Seq(Request) : rs = sched.batch /\ IsInjective(rs) /\ InPhase(seq, rs, {"DECODE"})
    BY <1>1, <1>2, SchedFields DEF Work, Stage
  <1>4. PICK refused : refused = ~(Range(rs) \subseteq backend)
    OBVIOUS
  <1>5. ~refused
    <2>1. \A i \in DOMAIN rs : rs[i] \in Request /\ seq[rs[i]].phase = "DECODE"
      BY <1>3 DEF InPhase
    <2>2. \A i \in DOMAIN rs : rs[i] \in backend
      BY <1>1, <2>1 DEF Records, Filled
    <2> QED BY <1>4, <2>2 DEF Range
  <1>6. PICK got \in Outcomes(Len(sched.batch), ~(Range(sched.batch) \subseteq backend)) :
             /\ CallReturns(sched.batch, got, ~(Range(sched.batch) \subseteq backend))
             /\ seq' = [r \in Request |->
                          IF \E i \in DOMAIN sched.batch : sched.batch[i] = r /\ got[i] # "fail"
                          THEN [seq[r] EXCEPT !.length = @ + 1] ELSE seq[r]]
             /\ sched' = [sched EXCEPT !.pc = "acceptDecode", !.todo = sched.batch, !.batch = <<>>, !.got = got]
    BY Zenon DEF Decode
  <1>7. got \in Outcomes(Len(rs), refused)
    BY <1>3, <1>4, <1>6, Zenon
  <1>8. CallReturns(rs, got, refused)
    BY <1>3, <1>4, <1>6, Zenon
  <1>9. DOMAIN got = DOMAIN rs
    BY <1>1, <1>3, <1>7, <1>8, CallFacts
  <1>10. faulted \subseteq faulted' /\ \A i \in DOMAIN rs : got[i] = "fail" => rs[i] \in faulted'
    BY <1>5, <1>8, CallBlames
  <1>11. \A x \in Request : seq'[x].phase = seq[x].phase
    <2>1. \A x \in Request : seq'[x] \in {seq[x], [seq[x] EXCEPT !.length = @ + 1]}
      BY <1>6
    <2>2. \A x \in Request : [seq[x] EXCEPT !.length = @ + 1].phase = seq[x].phase
      BY <1>1 DEF SequenceState
    <2> QED BY <2>1, <2>2
  <1>12. sched' = [sched EXCEPT !.pc = "acceptDecode", !.todo = rs, !.batch = <<>>, !.got = got]
    BY <1>3, <1>6
  <1> QED BY <1>2, <1>3, <1>9, <1>10, <1>11, <1>12, BatchFault

LEMMA ChunkFault == ASSUME IInv, FaultInv, Chunk PROVE FaultInv'
  <1>1. TypeOK /\ SchedType(sched) /\ Stage(sched, seq) /\ seq \in [Request -> SequenceState]
    BY RecordType DEF IInv, Plan
  <1>2. sched.pc = "chunks" /\ Unbegun(sched, seq, backend) /\ Blamed(sched, faulted)
    BY DEF Chunk, At, FaultInv
  <1>3. ChunkSize # 0
    BY <1>2 DEF Unbegun
  <1>4. sched.todo \in Seq(Request) /\ sched.todo # <<>> /\ Len(sched.todo) > 0
    BY <1>1, <1>2, SchedFields DEF Stage
  <1>5. PICK r \in Request : r = Head(sched.todo) /\ r = sched.todo[1]
    BY <1>4
  <1>6. PICK got, o, l : /\ got \in Outcomes(1, FALSE) /\ CallReturns(<<r>>, got, FALSE)
                         /\ seq' = seq \/ seq' = [seq EXCEPT ![r].offset = o, ![r].length = l]
                         /\ \/ sched' = ContinueChunks([sched EXCEPT !.todo = Tail(@)])
                            \/ sched' = [sched EXCEPT !.pc = "acceptChunk", !.got = got]
    <2>1. PICK size, end : /\ size = Len(Prompt[r])
                           /\ end = IF seq[r].offset + ChunkSize < size THEN seq[r].offset + ChunkSize ELSE size
      OBVIOUS
    <2>2. PICK got \in Outcomes(1, FALSE) :
             /\ CallReturns(<<r>>, got, FALSE)
             /\ IF got[1] = "fail" THEN UNCHANGED seq
                ELSE seq' = [seq EXCEPT ![r].offset = end, ![r].length = IF end = size THEN size ELSE @]
             /\ sched' = IF got[1] # "fail" /\ end < size
                         THEN ContinueChunks([sched EXCEPT !.todo = Tail(@)])
                         ELSE [sched EXCEPT !.pc = "acceptChunk", !.got = got]
      BY <1>5, <2>1 DEF Chunk
    <2>3. PICK l : l = IF end = size THEN size ELSE seq[r].length
      OBVIOUS
    <2>4. seq' = seq \/ seq' = [seq EXCEPT ![r].offset = end, ![r].length = l]
      BY <1>1, <2>2, <2>3 DEF SequenceState
    <2> QED BY <2>2, <2>4
  <1>7. PICK rs \in Seq(Request) : rs = <<r>> /\ Len(rs) = 1 /\ rs[1] = r /\ IsInjective(rs) /\ DOMAIN rs = {1}
    BY SingleFacts
  <1>8. got \in Outcomes(Len(rs), FALSE) /\ CallReturns(rs, got, FALSE)
    BY <1>6, <1>7
  <1>9. DOMAIN got = {1} /\ got \in Seq(Result)
    BY <1>1, <1>7, <1>8, CallFacts
  <1>10. faulted \subseteq faulted' /\ \A i \in DOMAIN rs : got[i] = "fail" => rs[i] \in faulted'
    <2>1. PICK refused : refused = FALSE
      OBVIOUS
    <2> QED BY <1>8, <2>1, CallBlames
  <1>11. \A x \in Request : seq'[x].phase = seq[x].phase
    <2>1. PICK q : q = [seq[r] EXCEPT !.offset = o, !.length = l]
      OBVIOUS
    <2>2. q.phase = seq[r].phase
      BY <1>1, <2>1 DEF SequenceState
    <2>3. seq' = seq \/ seq' = [seq EXCEPT ![r] = q]
      BY <1>1, <1>6, <2>1
    <2> QED BY <1>1, <2>2, <2>3
  <1>12. Blamed(sched', faulted')
    <2>1. CASE sched' = [sched EXCEPT !.pc = "acceptChunk", !.got = got]
      <3>1. PICK t : t = sched' /\ t = [sched EXCEPT !.pc = "acceptChunk", !.got = got]
        BY <2>1
      <3>2. t.pc = "acceptChunk" /\ t.todo = sched.todo /\ t.got = got
        BY <1>1, <3>1 DEF SchedType
      <3> QED BY <1>5, <1>7, <1>9, <1>10, <3>1, <3>2 DEF Blamed
    <2>2. CASE sched' = ContinueChunks([sched EXCEPT !.todo = Tail(@)])
      <3>1. PICK n, p : n = [sched EXCEPT !.todo = Tail(@)] /\ p = IF n.todo = <<>> THEN "loop" ELSE "chunks"
        OBVIOUS
      <3>2. PICK t : t = sched' /\ t = [n EXCEPT !.pc = p]
        BY <2>2, <3>1 DEF ContinueChunks
      <3>3. t.pc = p
        BY <1>1, <3>1, <3>2 DEF SchedType
      <3> QED BY <3>1, <3>2, <3>3 DEF Blamed, Accepting
    <2> QED BY <1>6, <2>1, <2>2
  <1>13. Unbegun(sched', seq', backend')
    BY <1>3 DEF Unbegun
  <1>14. FailsOnlyOnBackendFault'
    BY <1>10, <1>11, FailsFrame
  <1> QED BY <1>12, <1>13, <1>14 DEF FaultInv

\* Where the scheduler goes on once the first result has been handled.
LEMMA AfterAcceptFault ==
    ASSUME IInv, FaultInv, sched.pc \in Accepting, sched.closing = <<>>, NEW r, r = Head(sched.todo),
           NEW sq, sq[r].phase # "PREFILL", \A x \in Request \ {r} : sq[x].phase = seq[x].phase, NEW ft, faulted \subseteq ft
    PROVE  Unbegun(AfterAccept, sq, backend) /\ Blamed(AfterAccept, ft)
  <1>1. /\ SchedType(sched) /\ Work(sched, seq) /\ Stage(sched, seq) /\ Results(sched, seq, backend)
        /\ Unbegun(sched, seq, backend) /\ Blamed(sched, faulted)
    BY DEF IInv, Plan, FaultInv
  <1>2. /\ sched.todo \in Seq(Request) /\ sched.todo # <<>> /\ Len(sched.todo) > 0 /\ sched.got \in Seq(Result)
        /\ IsInjective(sched.todo) /\ Len(sched.got) > 0 /\ DOMAIN sched.todo = 1..Len(sched.todo)
    BY <1>1, SchedFields DEF Stage, Work, Results, Accepting
  <1>3. PICK u : /\ u = Tail(sched.todo) /\ u \in Seq(Request) /\ Len(u) = Len(sched.todo) - 1
                 /\ \A j \in 1..(Len(sched.todo) - 1) : u[j] = sched.todo[j + 1]
    BY ONLY <1>2, RestFacts
  <1>4. Range(u) = Range(sched.todo) \ {sched.todo[1]}
    BY <1>2, <1>3, RestFacts
  <1>5. PICK g : /\ g = Tail(sched.got) /\ g \in Seq(Result) /\ Len(g) = Len(sched.got) - 1
                 /\ \A j \in 1..(Len(sched.got) - 1) : g[j] = sched.got[j + 1]
    BY ONLY <1>2, RestFacts
  <1>6. r = sched.todo[1] /\ r \in Request
    BY <1>2
  <1>7. \A j \in DOMAIN u : j + 1 \in 2..Len(sched.todo) /\ u[j] = sched.todo[j + 1] /\ u[j] \in Range(u) /\ u[j] \in Request \ {r}
    <2>1. \A j \in DOMAIN u : j + 1 \in 2..Len(sched.todo) /\ u[j] = sched.todo[j + 1] /\ u[j] \in Request
      BY <1>2, <1>3
    <2>2. \A j \in DOMAIN u : u[j] \in Range(u)
      BY DEF Range
    <2> QED BY <1>4, <1>6, <2>1, <2>2
  <1>8. PICK s : s = [sched EXCEPT !.todo = Tail(@), !.got = Tail(@), !.entry = <<>>]
    OBVIOUS
  <1>9. SchedType(s) /\ s.pc = sched.pc /\ s.todo = u /\ s.got = g /\ s.batch = sched.batch
    BY <1>1, <1>3, <1>5, <1>8 DEF SchedType
  <1>10. AfterAccept = CASE s.pc = "acceptRestore" -> ContinuePrefill(s)
                         [] s.pc = "acceptChunk"   -> ContinueChunks(s)
                         [] OTHER                  -> ContinueAccepting(s)
    BY <1>8 DEF AfterAccept
  <1>11. ChunkSize = 0 => \A x \in Request : sq[x].phase = "PREFILL" => seq[x].phase = "PREFILL" /\ x \in Range(u) \cup Range(sched.batch)
    BY <1>1, <1>4, <1>6 DEF Unbegun
  <1>12. CASE sched.pc = "acceptRestore"
    <2>1. AfterAccept = ContinuePrefill(s)
      BY <1>9, <1>10, <1>12
    <2>2. ChunkSize = 0 => \A i \in 2..Len(sched.todo) : seq[sched.todo[i]].phase = "QUEUED"
      BY <1>1, <1>12 DEF Unbegun
    <2>3. ChunkSize = 0 => \A j \in DOMAIN u : seq[u[j]].phase = "QUEUED"
      BY <1>7, <2>2
    <2>4. ChunkSize = 0 => InPhase(sq, u, {"QUEUED"})
      BY <1>7, <2>3 DEF InPhase
    <2>5. ChunkSize = 0 => \A x \in Range(u) : seq[x].phase = "QUEUED"
      BY <2>3 DEF Range
    <2>6. ChunkSize = 0 => Range(sched.batch) \cap backend = {} /\ \A x \in Request : sq[x].phase = "PREFILL" => x \in Range(sched.batch)
      BY <1>1, <1>11, <1>12, <2>5 DEF Unbegun
    <2> QED BY <1>9, <2>1, <2>4, <2>6, ContinuePrefillFault
  <1>13. CASE sched.pc = "acceptChunk"
    <2>1. PICK p, t : p \in {"loop", "chunks"} /\ t = AfterAccept /\ t = [s EXCEPT !.pc = p]
      BY <1>9, <1>10, <1>13 DEF ContinueChunks
    <2>2. t.pc = p
      BY <1>9, <2>1 DEF SchedType
    <2>3. ChunkSize # 0
      BY <1>1, <1>13 DEF Unbegun
    <2> QED BY <2>1, <2>2, <2>3 DEF Unbegun, Blamed, Accepting
  <1>14. CASE sched.pc \in {"acceptPrefill", "acceptDecode"}
    <2>1. PICK p, t : p = (IF u = <<>> THEN "loop" ELSE sched.pc) /\ t = AfterAccept /\ t = [s EXCEPT !.pc = p]
      BY <1>9, <1>10, <1>14 DEF ContinueAccepting
    <2>2. t.pc = p /\ t.todo = u /\ t.got = g
      BY <1>9, <2>1 DEF SchedType
    <2>3. Range(sched.batch) = {} /\ (u = <<>> => Range(u) = {})
      BY <1>1, <1>14 DEF Stage, Range
    <2>4. Unbegun(t, sq, backend)
      BY <1>11, <1>14, <2>1, <2>2, <2>3 DEF Unbegun, Resting
    <2>5. \A i \in DOMAIN g : i + 1 \in DOMAIN sched.got /\ g[i] = sched.got[i + 1] /\ u[i] = sched.todo[i + 1]
      <3>1. Len(g) = Len(u) /\ DOMAIN g = 1..Len(g) /\ Len(g) \in Nat /\ DOMAIN sched.got = 1..Len(sched.got)
        BY <1>1, <1>2, <1>3, <1>5, <1>14 DEF Results
      <3> QED BY <1>2, <1>3, <1>5, <3>1
    <2>6. \A i \in DOMAIN sched.got : sched.got[i] = "fail" => sched.todo[i] \in ft
      BY <1>1 DEF Blamed
    <2>7. \A i \in DOMAIN g : g[i] = "fail" => u[i] \in ft
      BY <2>5, <2>6
    <2>8. Blamed(t, ft)
      BY <1>14, <2>1, <2>2, <2>7 DEF Blamed
    <2> QED BY <2>1, <2>4, <2>8
  <1> QED BY <1>12, <1>13, <1>14 DEF Accepting

\* A handled result moves its sequence on, or ends it.
LEMMA HandledFault ==
    ASSUME IInv, FaultInv, sched.pc \in Accepting, sched.closing = <<>>, NEW r, r = Head(sched.todo), backend' = backend,
           NEW next, next = AfterAccept, seq'[r].phase # "PREFILL", seq'[r].phase = "FAILED" => r \in faulted',
           \A x \in Request \ {r} : seq'[x] = seq[x], faulted \subseteq faulted',
           sched'.pc = next.pc, sched'.todo = next.todo, sched'.batch = next.batch, sched'.got = next.got
    PROVE  FaultInv'
  <1>1. Unbegun(next, seq', backend') /\ Blamed(next, faulted')
    BY AfterAcceptFault
  <1>2. Unbegun(sched', seq', backend') /\ Blamed(sched', faulted')
    BY <1>1, SameControl
  <1>3. FailsOnlyOnBackendFault'
    BY FailsFrame
  <1> QED BY <1>2, <1>3 DEF FaultInv

LEMMA AcceptFault == ASSUME IInv, FaultInv, Accept PROVE FaultInv'
  <1>1. TypeOK /\ seq \in [Request -> SequenceState]
    BY RecordType DEF IInv
  <1>2. sched.pc \in Accepting /\ sched.closing = <<>> /\ UNCHANGED <<backend, faulted>>
    BY DEF Accept, At
  <1>3. PICK r, next : /\ r \in Request /\ r = Head(sched.todo) /\ next = AfterAccept /\ r = sched.todo[1]
                       /\ SchedType(next) /\ seq[r].phase \in {"PREFILL", "DECODE"}
    BY <1>2, AfterAcceptPlan
  <1>4. PICK result \in Result : result = Head(sched.got) /\ result = sched.got[1] /\ 1 \in DOMAIN sched.got
    BY <1>2, AfterAcceptPlan
  <1>5. PICK verdict : verdict = Verdict(r, result)
    OBVIOUS
  <1>6. /\ verdict \in TerminalEvent \cup {"token"} /\ (verdict = "ERROR" => result = "fail")
        /\ seq[r].generated + 1 \in Nat
    BY <1>3, <1>5, VerdictFacts
  <1>7. verdict = "ERROR" => r \in faulted
    BY <1>2, <1>3, <1>4, <1>6 DEF FaultInv, Blamed
  <1>8. PICK n \in Nat : n = seq[r].generated + 1
    BY <1>6
  <1>9. PICK s, q : /\ s = (IF verdict \in {"token", "LENGTH"} THEN [seq[r] EXCEPT !.phase = "DECODE", !.generated = n] ELSE seq[r])
                    /\ q = (IF verdict \in {"token", "LENGTH"} THEN Append(events[r], "token") ELSE events[r])
    OBVIOUS
  <1>10. s \in SequenceState /\ (verdict = "token" => s.phase = "DECODE")
    BY <1>1, <1>3, <1>9 DEF SequenceState
  <1>11. \/ verdict = "token" /\ seq' = [seq EXCEPT ![r] = s] /\ sched' = next
         \/ verdict # "token" /\ Terminate(r, s, verdict, next, q)
    BY <1>3, <1>4, <1>5, <1>8, <1>9 DEF Accept
  <1>12. CASE verdict = "token"
    <2>1. seq'[r].phase = "DECODE" /\ \A x \in Request \ {r} : seq'[x] = seq[x]
      BY <1>1, <1>3, <1>10, <1>11, <1>12
    <2> QED BY <1>2, <1>3, <1>11, <1>12, <2>1, HandledFault
  <1>13. CASE verdict # "token"
    <2>1. verdict \in TerminalEvent /\ Terminate(r, s, verdict, next, q)
      BY <1>6, <1>11, <1>13
    <2>2. /\ \A x \in Request \ {r} : seq'[x] = seq[x]
          /\ seq'[r].phase \in Terminal /\ (seq'[r].phase = "FAILED" => verdict = "ERROR")
          /\ sched'.pc = next.pc /\ sched'.todo = next.todo /\ sched'.batch = next.batch /\ sched'.got = next.got
      BY <1>1, <1>3, <1>10, <2>1, TerminateFacts
    <2>3. seq'[r].phase # "PREFILL" /\ (seq'[r].phase = "FAILED" => r \in faulted') /\ backend' = backend /\ faulted \subseteq faulted'
      BY <1>2, <1>7, <2>2 DEF Terminal
    <2> QED BY <1>2, <1>3, <2>2, <2>3, HandledFault
  <1> QED BY <1>12, <1>13

LEMMA RestoreSnapshotRaisesFault == ASSUME IInv, FaultInv, RestoreSnapshotRaises PROVE FaultInv'
  <1>1. TypeOK /\ seq \in [Request -> SequenceState]
    BY RecordType DEF IInv
  <1>2. sched.pc \in Accepting /\ sched.closing = <<>> /\ backend' = backend
    BY DEF RestoreSnapshotRaises, At, Accepting
  <1>3. PICK r, next : r \in Request /\ r = Head(sched.todo) /\ next = AfterAccept /\ SchedType(next)
    BY <1>2, AfterAcceptPlan
  <1>4. PICK s, q, terminal : s = seq[r] /\ s \in SequenceState /\ q = events[r] /\ terminal = "ERROR" /\ terminal \in TerminalEvent
    BY <1>1, <1>3 DEF TerminalEvent
  <1>5. Terminate(r, s, terminal, next, q) /\ faulted' = faulted \cup {r}
    BY <1>3, <1>4 DEF RestoreSnapshotRaises
  <1>6. /\ \A x \in Request \ {r} : seq'[x] = seq[x]
        /\ seq'[r].phase \in Terminal
        /\ sched'.pc = next.pc /\ sched'.todo = next.todo /\ sched'.batch = next.batch /\ sched'.got = next.got
    BY <1>1, <1>3, <1>4, <1>5, TerminateFacts
  <1>7. seq'[r].phase # "PREFILL" /\ r \in faulted' /\ faulted \subseteq faulted'
    BY <1>5, <1>6 DEF Terminal
  <1> QED BY <1>2, <1>3, <1>6, <1>7, HandledFault

LEMMA SnapshotRaisesFault == ASSUME IInv, FaultInv, SnapshotRaises PROVE FaultInv'
  <1>1. SchedType(sched) /\ Unbegun(sched, seq, backend) /\ sched.pc \in {"acceptPrefill", "acceptChunk"}
    BY DEF IInv, FaultInv, SnapshotRaises
  <1>2. PICK t : t = sched' /\ t = [sched EXCEPT !.pc = "dead"]
    BY DEF SnapshotRaises
  <1>3. t.pc = "dead" /\ t.todo = sched.todo /\ t.batch = sched.batch
    BY <1>1, <1>2 DEF SchedType
  <1>4. UNCHANGED <<seq, backend>> /\ faulted \subseteq faulted'
    BY DEF SnapshotRaises
  <1>5. Unbegun(t, seq, backend) /\ Blamed(t, faulted')
    BY <1>1, <1>3 DEF Unbegun, Blamed, Resting, Accepting
  <1>6. FailsOnlyOnBackendFault'
    BY <1>4, FailsFrame
  <1> QED BY <1>2, <1>4, <1>5, <1>6 DEF FaultInv

LEMMA NextFault == ASSUME Exact, OneLookup, IInv, FaultInv, [Next]_vars PROVE FaultInv'
  <1>1. CASE Scheduler
    BY <1>1, StillFault, SweepFault, DecideFault, BeginPrefillFault, PrefillRejectedFault, RestoreFault, PrefillCallFault,
       ChunkFault, DecodeFault, AcceptFault, ReleasedFault, RestoreSnapshotRaisesFault, SnapshotRaisesFault DEF Scheduler
  <1>2. ASSUME NEW r \in Request, Caller(r) PROVE FaultInv'
    BY <1>2, CallerFault
  <1>3. CASE (\E r \in Request : Consumer(r)) \/ ShutdownEnds \/ ShutdownRaises \/ UNCHANGED vars
    BY <1>3, StillFault
  <1>4. CASE Shutdown
    BY <1>4, ShutdownFault
  <1> QED BY <1>1, <1>2, <1>3, <1>4 DEF Next

LEMMA InitFault == ASSUME Init PROVE FaultInv
  <1>1. sched = [pc |-> "off", todo |-> <<>>, batch |-> <<>>, got |-> <<>>, entry |-> <<>>, closing |-> <<>>, turn |-> FALSE]
    BY DEF Init
  <1>2. sched.pc = "off"
    BY <1>1
  <1>3. \A r \in Request : seq[r].phase = "NONE"
    BY DEF Init
  <1> QED BY <1>2, <1>3 DEF FaultInv, Unbegun, Blamed, Accepting, FailsOnlyOnBackendFault

\* When reservations are exact and prompts are prefilled in one go, or nothing is
\* cached, a sequence fails only if one of its own backend calls failed: neither
\* the scheduler nor a peer makes it fail.
THEOREM FailuresAreFaults == Exact /\ OneLookup /\ Spec => []FailsOnlyOnBackendFault
  <1>1. SUFFICES ASSUME Exact, OneLookup PROVE Spec => []FailsOnlyOnBackendFault
    OBVIOUS
  <1>2. Init => IInv /\ FaultInv
    BY InitIInv, InitFault
  <1>3. IInv /\ FaultInv /\ [Next]_vars => IInv' /\ FaultInv'
    BY <1>1, NextIInv, NextFault
  <1>4. FaultInv => FailsOnlyOnBackendFault
    BY DEF FaultInv
  <1> QED BY <1>2, <1>3, <1>4, PTL DEF Spec

=============================================================================
