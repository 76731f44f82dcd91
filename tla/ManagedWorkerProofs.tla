------------------------ MODULE ManagedWorkerProofs -------------------------
(***************************************************************************)
(* Proofs about ManagedWorker for any sets of models, requests and         *)
(* callers: its books (WorkerBooksHold) and what has ended (EndsAreFinal). *)
(*                                                                         *)
(* WorkerInv is not inductive.  Reservations need the places of all        *)
(* callers: a load in progress has exactly one owner, so the finally       *)
(* clause gives back what its own caller reserved (LoadsOwned).  Requests  *)
(* need to know where a status puts them: what is QUEUED is in the queue   *)
(* once, what RUNS is in the batch of an execution loop that has not ended *)
(* it, and nothing in a batch is still queued (StatusTells).  A model is   *)
(* evicted or unloaded only when nothing is queued for it, and only queued *)
(* requests are taken, so none waits for a model that is gone.             *)
(***************************************************************************)
EXTENDS ManagedWorker, FoldFacts

-----------------------------------------------------------------------------
(* The inductive invariant *)

\* Where a caller of load_model is.
LoaderRecord == [at : InLoad \cup {"idle", "wait"}, model : Model \cup {NoModel},
                 joined : Nat, attempt : Nat, evict : Seq(Model), todo : Seq(Model)]

\* It is at a model unless it is idle, and at an eviction while one is left.
Sound(x) == (x.at # "idle" => x.model \in Model) /\ (x.at = "evict" => x.todo # <<>>)

\* So is every caller.
LoadersTyped == loader \in [Loader -> LoaderRecord] /\ \A l \in Loader : Sound(loader[l])

\* The evictor has models left where it unloads, and a scan where it sorts.
EvictorTyped ==
    /\ evictor \in [at : {"idle", "sort", "unload", "runtime"}, todo : Seq(Model),
                    scan : SUBSET Model, api : BOOLEAN]
    /\ evictor.at \in {"unload", "runtime"} => evictor.todo # <<>>
    /\ evictor.at = "sort" => evictor.scan # {}

\* Only known models; uses in some order.
ModelsTyped ==
    /\ resident \subseteq Model /\ loading \subseteq Model /\ loaded \subseteq Model
    /\ incoming \subseteq Model /\ unloading \subseteq Model
    /\ lru \in Seq(Model) /\ attempts \in [Model -> Nat] /\ failures \in [Model -> Nat]

\* Queue and batch within their sizes.
WorkTyped ==
    /\ health \in {"registering", "healthy", "stopped"} /\ draining \in BOOLEAN /\ stop \in BOOLEAN
    /\ queue \in Seq(Request) /\ Len(queue) <= max_queue_depth
    /\ batch \in Seq(Request) /\ Len(batch) <= max_batch_size
    /\ exec \in {"idle", "enter", "call", "generate", "failed", "done"}
    /\ app \in {"off", "running", "failing", "unloading"}
    /\ status \in [Request -> Terminal \cup {"ASSIGNED", "QUEUED", "RUNNING"}]

\* The fields with their types.
Types == LoadersTyped /\ EvictorTyped /\ ModelsTyped /\ WorkTyped

\* The loaders of a model, of which a load in progress has one.
Mine(m) == {l \in Loader : loader[l].model = m /\ loader[l].at \in InLoad}

\* A load has one owner, other models have none, and the loads' memory is reserved.
LoadsOwned ==
    /\ \A m \in Model : /\ m \in loading => \E l \in Loader : Mine(m) = {l}
                        /\ m \notin loading => Mine(m) = {}
    /\ reserved = Sum(loading)

\* The status of a request tells where it is.
StatusTells ==
    /\ IsInjective(queue)
    /\ \A r \in Request : status[r] = "QUEUED" <=> r \in Range(queue)
    /\ \A r \in Request : status[r] = "RUNNING" => r \in Range(batch) /\ exec \in {"call", "generate", "done"}
    /\ exec \in {"call", "generate", "failed", "done"} <=> batch # <<>>
    /\ \A r \in Range(batch) : status[r] \in Terminal \cup {"RUNNING"}

\* A stopped worker has passed through shutdown and has not been started again.
StoppedIsIdle == health = "stopped" => app \in {"unloading", "off"} /\ exec = "idle" /\ queue = <<>>

\* What is said of requests.
Work == QueuedModelResident /\ StatusTells /\ StoppedIsIdle

\* The inductive invariant.
IInv == Types /\ LoadsOwned /\ Work

\* What TerminalIsFinal says of one step.
Ends == \A r \in Request : status[r] \in Terminal => status'[r] = status[r]

-----------------------------------------------------------------------------
(* What the operators of the model compute *)

\* Reservations: a load adds the size of its model, its end takes it back.
LEMMA SizeFacts ==
    ASSUME NEW S, S \subseteq Model, NEW m \in Model
    PROVE  /\ Sum(S) \in Nat /\ Size[m] \in Nat
           /\ m \notin S => Sum(S \cup {m}) = Sum(S) + Size[m]
           /\ m \in S => Sum(S \ {m}) = Sum(S) - Size[m]
  <1>1. IsFiniteSet(S) /\ (\A x \in S : Size[x] \in Nat) /\ Size[m] \in Nat
    BY WorkerAssumption, FS_Subset
  <1>2. SumFunctionOnSet(Size, S) \in Nat
    BY <1>1, SumNat
  <1>3. m \notin S => SumFunctionOnSet(Size, S \cup {m}) = SumFunctionOnSet(Size, S) + Size[m]
    BY <1>1, SumAdds
  <1>4. ASSUME m \in S PROVE SumFunctionOnSet(Size, S \ {m}) = SumFunctionOnSet(Size, S) - Size[m]
    <2>1. SumFunctionOnSet(Size, S) = Size[m] + SumFunctionOnSet(Size, S \ {m})
      BY <1>1, <1>4, SumRemoves
    <2>2. IsFiniteSet(S \ {m}) /\ \A x \in S \ {m} : Size[x] \in Nat
      BY <1>1, FS_Subset
    <2>3. SumFunctionOnSet(Size, S \ {m}) \in Nat
      BY <2>2, SumNat
    <2> QED BY <1>1, <1>2, <2>1, <2>3
  <1> QED BY <1>1, <1>2, <1>3, <1>4 DEF Sum

\* Times of use stay sequences of models.
LEMMA UseFacts ==
    ASSUME NEW s \in Seq(Model), NEW S, NEW m \in Model
    PROVE  Drop(s, S) \in Seq(Model) /\ Touch(s, m) \in Seq(Model)
  <1>1. Keep(s, Model \ S) \in Seq(Model) /\ Keep(s, Model \ {m}) \in Seq(Model)
    BY KeepFacts
  <1> QED BY <1>1 DEF Drop, Touch

\* The first of a list of models, and the rest.
LEMMA TailFacts ==
    ASSUME NEW s \in Seq(Model), s # <<>>
    PROVE  Head(s) \in Model /\ Tail(s) \in Seq(Model) /\ (Len(s) # 1 => Tail(s) # <<>>)
  <1>1. Head(s) \in Model /\ Tail(s) \in Seq(Model) /\ Len(s) \in Nat \ {0}
    OBVIOUS
  <1>2. Len(Tail(s)) = Len(s) - 1
    OBVIOUS
  <1>3. Tail(s) = <<>> <=> Len(Tail(s)) = 0
    BY <1>1, EmptySeq
  <1> QED BY <1>1, <1>2, <1>3

\* Only idle resident models are evicted.
LEMMA EvictionFacts ==
    ASSUME ModelsTyped, NEW m \in Model
    PROVE  Evictions(m) \in Seq(Model) /\ Range(Evictions(m)) \subseteq Evictable
  <1>1. EvictionOrder \in Seq(Model) /\ Range(EvictionOrder) \subseteq Evictable
    <2> DEFINE R == resident \ Range(lru)
               s == SetToSeq(R) \o lru
    <2>1. R \subseteq Model /\ IsFiniteSet(R) /\ lru \in Seq(Model)
      BY WorkerAssumption, FS_Subset DEF ModelsTyped
    <2>2. SetToSeq(R) \in Seq(Model)
      <3>1. SetToSeq(R) \in Seq(R)
        <4> HIDE DEF R
        <4> QED BY <2>1, EnumerationFacts
      <3> QED BY <2>1, <3>1
    <2>3. s \in Seq(Model)
      BY <2>1, <2>2
    <2> HIDE DEF s
    <2>4. Keep(s, Evictable) \in Seq(Model) /\ Range(Keep(s, Evictable)) \subseteq Evictable
      BY <2>3, KeepFacts
    <2> QED BY <2>4 DEF EvictionOrder, s
  <1> DEFINE ks == {k \in 0..Len(EvictionOrder) : Usable + SizeOf(SubSeq(EvictionOrder, 1, k)) >= Size[m]}
  <1>2. CASE ks = {}
    BY <1>2 DEF Evictions, Range
  <1>3. CASE ks # {}
    <2>1. ks \subseteq Nat
      OBVIOUS
    <2>2. Min(ks) \in ks
      <3> HIDE DEF ks
      <3>1. \E i \in ks : \A j \in ks : i <= j
        BY <1>3, <2>1, LeastNatural
      <3> QED BY <3>1 DEF Min
    <2>3. Min(ks) \in 0..Len(EvictionOrder)
      BY <2>2
    <2>4. Evictions(m) = SubSeq(EvictionOrder, 1, Min(ks))
      BY <1>3 DEF Evictions
    <2> HIDE DEF ks
    <2>5. PICK k \in 0..Len(EvictionOrder) : Evictions(m) = SubSeq(EvictionOrder, 1, k)
      BY <2>3, <2>4
    <2>6. Evictions(m) \in Seq(Model) /\ \A i \in DOMAIN Evictions(m) : i \in DOMAIN EvictionOrder /\ Evictions(m)[i] = EvictionOrder[i]
      BY <1>1, <2>5
    <2> QED BY <1>1, <2>6 DEF Range
  <1> QED BY <1>2, <1>3

-----------------------------------------------------------------------------
(* The selection of a batch *)

\* What execute_batch's selection is made of.
SelectionType == [batch : Seq(Request), deferred : Seq(Request), late : SUBSET Request]

\* One request considered goes to exactly one of the three.
LEMMA ConsiderFacts ==
    ASSUME NEW sel \in SelectionType, NEW r \in Request
    PROVE  /\ Consider(sel, r) \in SelectionType
           /\ \/ /\ Consider(sel, r).batch = Append(sel.batch, r) /\ Len(sel.batch) # max_batch_size
                 /\ Consider(sel, r).deferred = sel.deferred /\ Consider(sel, r).late = sel.late
              \/ /\ Consider(sel, r).deferred = Append(sel.deferred, r)
                 /\ Consider(sel, r).batch = sel.batch /\ Consider(sel, r).late = sel.late
              \/ /\ Consider(sel, r).late = sel.late \cup {r}
                 /\ Consider(sel, r).batch = sel.batch /\ Consider(sel, r).deferred = sel.deferred
  <1>1. /\ sel.batch \in Seq(Request) /\ sel.deferred \in Seq(Request) /\ sel.late \in SUBSET Request
        /\ sel = [batch |-> sel.batch, deferred |-> sel.deferred, late |-> sel.late]
    BY DEF SelectionType
  <1>2. Append(sel.batch, r) \in Seq(Request) /\ Append(sel.deferred, r) \in Seq(Request)
    BY <1>1
  <1>3. \/ Consider(sel, r) = [sel EXCEPT !.deferred = Append(@, r)]
        \/ Consider(sel, r) = [sel EXCEPT !.late = @ \cup {r}]
        \/ Consider(sel, r) = [sel EXCEPT !.batch = Append(@, r)] /\ Len(sel.batch) # max_batch_size
    BY DEF Consider
  <1>4. CASE Consider(sel, r) = [sel EXCEPT !.deferred = Append(@, r)]
    <2>1. Consider(sel, r) = [batch |-> sel.batch, deferred |-> Append(sel.deferred, r), late |-> sel.late]
      BY <1>1, <1>4
    <2> QED BY <1>2, <1>1, <2>1 DEF SelectionType
  <1>5. CASE Consider(sel, r) = [sel EXCEPT !.late = @ \cup {r}]
    BY <1>1, <1>5 DEF SelectionType
  <1>6. CASE Consider(sel, r) = [sel EXCEPT !.batch = Append(@, r)] /\ Len(sel.batch) # max_batch_size
    <2>1. Consider(sel, r) = [batch |-> Append(sel.batch, r), deferred |-> sel.deferred, late |-> sel.late]
      BY <1>1, <1>6
    <2> QED BY <1>2, <1>1, <1>6, <2>1 DEF SelectionType
  <1> QED BY <1>3, <1>4, <1>5, <1>6

\* The selection, request by request.
LEMMA SelectionUnfolds ==
    ASSUME queue \in Seq(Request)
    PROVE  \E g : /\ Selection = g[Len(queue)] /\ g[0] = [batch |-> <<>>, deferred |-> <<>>, late |-> {}]
                  /\ \A i \in 1..Len(queue) : g[i] = Consider(g[i - 1], queue[i])
  <1> DEFINE n == Len(queue)
             start == [batch |-> <<>>, deferred |-> <<>>, late |-> {}]
             Is(g) == g = [i \in 0..n |-> IF i = 0 THEN start ELSE Consider(g[i - 1], queue[i])]
             step == [p \in SelectionType \X (1..n) |-> Consider(p[1], queue[p[2]])]
  <1>1. n \in Nat /\ start \in SelectionType /\ Steps(SelectionType, n, step)
    <2>1. start \in SelectionType
      BY DEF SelectionType
    <2>2. \A p \in SelectionType \X (1..n) : Consider(p[1], queue[p[2]]) \in SelectionType
      BY ConsiderFacts
    <2> QED BY <2>1, <2>2 DEF Steps
  <1>2. PICK g : Iteration(SelectionType, start, n, step, g)
    <2> HIDE DEF n, start, step
    <2> QED BY <1>1, Iterates
  <1>3. ASSUME NEW i \in 1..n PROVE g[i] = Consider(g[i - 1], queue[i])
    <2>1. i - 1 \in 0..n
      BY <1>1
    <2>2. g[i - 1] \in SelectionType /\ g[i] = step[<<g[i - 1], i>>]
      <3> HIDE DEF n, start, step
      <3> QED BY <1>2, <2>1 DEF Iteration
    <2> QED BY <2>2
  <1>4. Is(g)
    <2>1. \A i \in 0..n : i # 0 => i \in 1..n
      BY <1>1
    <2> HIDE DEF n, step, start
    <2> QED BY <1>2, <1>3, <2>1 DEF Iteration
  <1>5. PICK h : Is(h) /\ Selection = h[n]
    BY <1>4 DEF Selection
  <1>6. h[0] = start /\ \A i \in 1..n : h[i] = Consider(h[i - 1], queue[i])
    <2>1. 0 \in 0..n /\ \A i \in 1..n : i \in 0..n /\ i # 0
      BY <1>1
    <2> HIDE DEF n, step, start
    <2> QED BY <1>5, <2>1
  <1> QED BY <1>5, <1>6

\* The queue is split into the batch, the deferred and the late requests.
LEMMA SelectionFacts ==
    ASSUME queue \in Seq(Request), IsInjective(queue)
    PROVE  /\ Selection.batch \in Seq(Request) /\ Len(Selection.batch) <= max_batch_size
           /\ Selection.deferred \in Seq(Request) /\ Len(Selection.deferred) <= Len(queue)
           /\ IsInjective(Selection.deferred)
           /\ Range(queue) = Range(Selection.batch) \cup Range(Selection.deferred) \cup Selection.late
           /\ Range(Selection.batch) \cap Range(Selection.deferred) = {}
           /\ Selection.late \cap (Range(Selection.batch) \cup Range(Selection.deferred)) = {}
  <1> DEFINE n == Len(queue)
             Seen(i) == {queue[j] : j \in 1..i}
             Split(s, i) == /\ s \in SelectionType
                            /\ Len(s.batch) <= max_batch_size /\ Len(s.deferred) <= i /\ IsInjective(s.deferred)
                            /\ Seen(i) = Range(s.batch) \cup Range(s.deferred) \cup s.late
                            /\ Range(s.batch) \cap Range(s.deferred) = {}
                            /\ s.late \cap (Range(s.batch) \cup Range(s.deferred)) = {}
  <1>1. PICK g : /\ Selection = g[n] /\ g[0] = [batch |-> <<>>, deferred |-> <<>>, late |-> {}]
                 /\ \A i \in 1..n : g[i] = Consider(g[i - 1], queue[i])
    BY SelectionUnfolds
  <1> DEFINE K == {i \in 0..n : Split(g[i], i)}
  <1>2. n \in Nat /\ DOMAIN queue = 1..n /\ max_batch_size \in Nat
    BY WorkerAssumption
  <1>3. 0 \in K
    <2>1. /\ g[0].batch = <<>> /\ g[0].deferred = <<>> /\ g[0].late = {} /\ g[0] \in SelectionType
          /\ Seen(0) = {}
      BY <1>1 DEF SelectionType
    <2>2. Len(<<>>) = 0 /\ DOMAIN <<>> = {}
      OBVIOUS
    <2>3. Split(g[0], 0)
      BY <1>2, <2>1, <2>2 DEF Range, IsInjective
    <2> HIDE DEF Split
    <2> QED BY <1>2, <2>3
  <1>4. ASSUME NEW i \in 1..n, i - 1 \in K PROVE i \in K
    <2>1. PICK s : s = g[i - 1] /\ Split(s, i - 1)
      BY <1>4
    <2>2. PICK r \in Request : r = queue[i]
      BY <1>2
    <2>3. PICK t : t = g[i] /\ t = Consider(s, r)
      BY <1>1, <2>1, <2>2
    <2>4. r \notin Seen(i - 1)
      BY <1>2, <2>2 DEF IsInjective
    <2>5. Seen(i) = Seen(i - 1) \cup {r}
      <3>1. 1..i = (1..(i - 1)) \cup {i}
        BY <1>2
      <3> QED BY <2>2, <3>1
    <2> HIDE DEF Seen
    <2>6. s \in SelectionType /\ s.batch \in Seq(Request) /\ s.deferred \in Seq(Request)
      BY <2>1 DEF SelectionType
    <2>7. /\ Len(Append(s.batch, r)) = Len(s.batch) + 1 /\ Range(Append(s.batch, r)) = Range(s.batch) \cup {r}
          /\ Len(s.batch) \in Nat
      BY <2>6, AppendFacts
    <2>8. /\ Len(Append(s.deferred, r)) = Len(s.deferred) + 1
          /\ Range(Append(s.deferred, r)) = Range(s.deferred) \cup {r} /\ Len(s.deferred) \in Nat
          /\ IsInjective(Append(s.deferred, r))
      BY <2>1, <2>4, <2>6, AppendFacts
    <2>9. i \in Nat /\ Len(s.deferred) <= i /\ Len(s.deferred) + 1 <= i
      BY <1>2, <2>1, <2>8
    <2>10. Split(t, i)
      <3>1. t \in SelectionType
        BY <2>3, <2>6, ConsiderFacts
      <3>2. CASE t.batch = Append(s.batch, r) /\ Len(s.batch) # max_batch_size /\ t.deferred = s.deferred /\ t.late = s.late
        <4>1. Len(t.batch) <= max_batch_size
          BY <1>2, <2>1, <2>7, <3>2
        <4> QED BY <2>1, <2>4, <2>5, <2>7, <2>9, <3>1, <3>2, <4>1
      <3>3. CASE t.deferred = Append(s.deferred, r) /\ t.batch = s.batch /\ t.late = s.late
        <4>1. Len(t.deferred) <= i
          BY <2>8, <2>9, <3>3
        <4> QED BY <2>1, <2>4, <2>5, <2>8, <3>1, <3>3, <4>1
      <3>4. CASE t.late = s.late \cup {r} /\ t.batch = s.batch /\ t.deferred = s.deferred
        BY <2>1, <2>4, <2>5, <2>9, <3>1, <3>4
      <3> HIDE DEF Split
      <3> QED BY <2>3, <2>6, <3>2, <3>3, <3>4, ConsiderFacts
    <2>11. Split(g[i], i)
      BY <2>3, <2>10
    <2>12. i \in 0..n
      BY <1>2
    <2> HIDE DEF Split, n
    <2> QED BY <2>11, <2>12
  <1>5. n \in K
    <2> HIDE DEF K, n
    <2> QED BY <1>2, <1>3, <1>4, Climbs
  <1>6. Split(Selection, n)
    BY <1>1, <1>5
  <1>7. Seen(n) = Range(queue)
    BY <1>2 DEF Range
  <1> QED BY <1>6, <1>7 DEF SelectionType

-----------------------------------------------------------------------------
(* What a step leaves alone *)

\* Loads keep their owners when no loader enters or leaves.
LEMMA SameLoads ==
    ASSUME LoadsOwned, UNCHANGED <<loading, reserved>>,
           \A k \in Loader : /\ loader'[k].at \in InLoad <=> loader[k].at \in InLoad
                             /\ loader[k].at \in InLoad => loader'[k].model = loader[k].model
    PROVE  LoadsOwned'
  <1>1. \A m : Mine(m)' = Mine(m)
    BY DEF Mine
  <1> QED BY <1>1 DEF LoadsOwned

\* Work is not affected when queued requests keep their models.
LEMMA SameWork ==
    ASSUME IInv, UNCHANGED <<queue, batch, exec, status, health>>, app' = app \/ app = "running",
           \A r \in Range(queue) : ModelOf[r] \in resident'
    PROVE  Work' /\ Ends
  <1>1. QueuedModelResident'
    BY DEF QueuedModelResident
  <1>2. StatusTells'
    BY DEF IInv, Work, StatusTells
  <1>3. StoppedIsIdle'
    BY DEF IInv, Work, StoppedIsIdle
  <1>4. Ends
    BY DEF Ends
  <1> QED BY <1>1, <1>2, <1>3, <1>4 DEF Work

\* A loader gets another record.
LEMMA LoaderSet ==
    ASSUME LoadersTyped, NEW l \in Loader, NEW x \in LoaderRecord, Sound(x), loader' = [loader EXCEPT ![l] = x]
    PROVE  LoadersTyped' /\ loader'[l] = x /\ \A k \in Loader : k # l => loader'[k] = loader[k]
  <1>1. /\ loader' \in [Loader -> LoaderRecord] /\ loader'[l] = x
        /\ \A k \in Loader : k # l => loader'[k] = loader[k]
    BY DEF LoadersTyped
  <1>2. \A k \in Loader : Sound(loader'[k])
    BY <1>1 DEF LoadersTyped
  <1>3. LoadersTyped'
    BY <1>1, <1>2 DEF LoadersTyped, Sound
  <1> QED BY <1>1, <1>3

\* A loader goes on to its next call.
LEMMA GotoFacts ==
    ASSUME LoadersTyped, NEW l \in Loader, NEW pc \in InLoad \ {"evict"}, Goto(l, pc), loader[l].at \in InLoad
    PROVE  /\ LoadersTyped' /\ loader'[l].at = pc /\ loader'[l].model = loader[l].model
           /\ \A k \in Loader : k # l => loader'[k] = loader[k]
           /\ loader[l].model \in Model
  <1> DEFINE x == [loader[l] EXCEPT !.at = pc]
  <1>1. loader[l] \in LoaderRecord /\ Sound(loader[l]) /\ loader[l].at # "idle"
    BY DEF LoadersTyped, InLoad
  <1>2. x \in LoaderRecord /\ x.at = pc /\ x.model = loader[l].model
    BY <1>1 DEF LoaderRecord
  <1>3. Sound(x)
    BY <1>1, <1>2 DEF Sound
  <1>4. loader' = [loader EXCEPT ![l] = x]
    BY DEF Goto
  <1> HIDE DEF x
  <1> QED BY <1>1, <1>2, <1>3, <1>4, LoaderSet DEF Sound

\* Queued requests have resident models, which are busy.
LEMMA QueuedFacts ==
    ASSUME IInv
    PROVE  \A r \in Range(queue) : r \in Request /\ ModelOf[r] \in resident /\ Queued(ModelOf[r])
  <1>1. Range(queue) \subseteq Request
    BY DEF IInv, Types, WorkTyped, Range
  <1> QED BY <1>1 DEF IInv, Work, QueuedModelResident, Queued

-----------------------------------------------------------------------------
(* The steps of load_model *)

\* A call that returns or begins to wait holds nothing, before and after.
LEMMA StaysOut ==
    ASSUME IInv, NEW l \in Loader, loader[l].at \notin InLoad,
           NEW x \in LoaderRecord, Sound(x), x.at \notin InLoad, loader' = [loader EXCEPT ![l] = x],
           UNCHANGED <<resident, loading, reserved, attempts, failures>>, lru' \in Seq(Model),
           UNCHANGED <<runtimeVars, workVars, lifeVars, evictor>>
    PROVE  IInv' /\ Ends
  <1>1. Types
    BY DEF IInv
  <1>2. LoadersTyped' /\ loader'[l] = x /\ \A k \in Loader : k # l => loader'[k] = loader[k]
    BY <1>1, LoaderSet DEF Types
  <1>3. Types'
    <2>1. ModelsTyped'
      BY <1>1 DEF Types, ModelsTyped, runtimeVars, lifeVars
    <2>2. WorkTyped'
      BY <1>1 DEF Types, WorkTyped, workVars, lifeVars
    <2>3. EvictorTyped'
      BY <1>1 DEF Types, EvictorTyped
    <2> QED BY <1>2, <2>1, <2>2, <2>3 DEF Types
  <1>4. LoadsOwned'
    <2>1. \A k \in Loader : /\ loader'[k].at \in InLoad <=> loader[k].at \in InLoad
                            /\ loader[k].at \in InLoad => loader'[k].model = loader[k].model
      BY <1>2
    <2> QED BY <2>1, SameLoads DEF IInv
  <1>5. Work' /\ Ends
    BY QueuedFacts, SameWork DEF workVars, lifeVars
  <1> QED BY <1>3, <1>4, <1>5 DEF IInv

\* The model is resident.
LEMMA HitStep ==
    ASSUME IInv, NEW l \in Loader, NEW m \in Model, loader[l].at \notin InLoad, Hit(l, m),
           UNCHANGED <<runtimeVars, workVars, lifeVars, evictor>>
    PROVE  IInv' /\ Ends
  <1>1. Idle \in LoaderRecord /\ Sound(Idle) /\ Idle.at \notin InLoad
    BY DEF Idle, LoaderRecord, Sound, InLoad
  <1>2. lru' \in Seq(Model)
    BY UseFacts DEF Hit, IInv, Types, ModelsTyped
  <1> QED BY <1>1, <1>2, StaysOut DEF Hit

\* A caller becomes the loader of a model that nobody loads: idle models make
\* room, and the memory is reserved.
LEMMA ReserveStep ==
    ASSUME IInv, NEW l \in Loader, NEW m \in Model, loader[l].at \notin InLoad, m \notin loading, Reserve(l, m),
           UNCHANGED <<runtimeVars, workVars, lifeVars, evictor>>
    PROVE  IInv' /\ Ends
  <1>1. Types /\ LoadersTyped /\ ModelsTyped /\ lru \in Seq(Model)
    BY DEF IInv, Types, ModelsTyped
  <1>2. CASE ~HasRoom(m)
    <2>1. Idle \in LoaderRecord /\ Sound(Idle) /\ Idle.at \notin InLoad
      BY DEF Idle, LoaderRecord, Sound, InLoad
    <2> QED BY <1>1, <1>2, <2>1, StaysOut DEF Reserve, modelVars
  <1>3. CASE HasRoom(m)
    <2>1. PICK out : out = Evictions(m) /\ out \in Seq(Model) /\ Range(out) \subseteq Evictable
      BY <1>1, EvictionFacts
    <2> DEFINE x == [Idle EXCEPT !.at = IF out = <<>> THEN "load" ELSE "evict",
                                 !.model = m, !.attempt = attempts[m] + 1, !.evict = out, !.todo = out]
    <2>2. /\ resident' = resident \ Range(out) /\ lru' = Drop(lru, Range(out))
          /\ attempts' = [attempts EXCEPT ![m] = @ + 1] /\ loading' = loading \cup {m}
          /\ reserved' = reserved + Size[m] /\ loader' = [loader EXCEPT ![l] = x] /\ failures' = failures
      BY <1>3, <2>1 DEF Reserve
    <2>3. attempts[m] + 1 \in Nat
      BY <1>1 DEF ModelsTyped
    <2>4. x \in LoaderRecord /\ Sound(x) /\ x.at \in InLoad /\ x.model = m
      <3>1. Idle \in LoaderRecord
        BY DEF Idle, LoaderRecord
      <3>2. PICK pc : pc = (IF out = <<>> THEN "load" ELSE "evict") /\ pc \in InLoad
        BY DEF InLoad
      <3>3. x = [Idle EXCEPT !.at = pc, !.model = m, !.attempt = attempts[m] + 1, !.evict = out, !.todo = out]
        BY <3>2
      <3> HIDE DEF x
      <3>4. x \in LoaderRecord /\ x.at = pc /\ x.model = m /\ x.todo = out
        BY <2>1, <2>3, <3>1, <3>2, <3>3 DEF LoaderRecord
      <3> QED BY <3>2, <3>4 DEF Sound
    <2> HIDE DEF x
    <2>5. LoadersTyped' /\ loader'[l] = x /\ \A k \in Loader : k # l => loader'[k] = loader[k]
      BY <1>1, <2>2, <2>4, LoaderSet
    <2>6. Types'
      <3>1. ModelsTyped'
        <4>1. lru' \in Seq(Model)
          BY <1>1, <2>2, UseFacts
        <4>2. attempts' \in [Model -> Nat]
          BY <1>1, <2>2, <2>3 DEF ModelsTyped
        <4> QED BY <1>1, <2>2, <4>1, <4>2 DEF ModelsTyped, runtimeVars, lifeVars
      <3>2. WorkTyped'
        BY <1>1 DEF Types, WorkTyped, workVars, lifeVars
      <3>3. EvictorTyped'
        BY <1>1 DEF Types, EvictorTyped
      <3> QED BY <2>5, <3>1, <3>2, <3>3 DEF Types
    <2>7. LoadsOwned'
      <3>1. Mine(m) = {} /\ reserved = Sum(loading) /\ loading \subseteq Model
        BY <1>1 DEF IInv, LoadsOwned, ModelsTyped
      <3>2. Mine(m)' = {l}
        BY <2>4, <2>5, <3>1 DEF Mine
      <3>3. \A n \in Model : n # m => Mine(n)' = Mine(n)
        BY <2>4, <2>5 DEF Mine
      <3>4. reserved' = Sum(loading')
        BY <2>2, <3>1, SizeFacts
      <3>5. \A n \in Model : /\ n \in loading' => \E k \in Loader : Mine(n)' = {k}
                             /\ n \notin loading' => Mine(n)' = {}
        BY <2>2, <3>2, <3>3 DEF IInv, LoadsOwned
      <3>6. Sum(loading)' = Sum(loading')
        BY DEF Sum
      <3> QED BY <3>4, <3>5, <3>6 DEF LoadsOwned
    <2>8. Work' /\ Ends
      <3>1. \A r \in Range(queue) : ModelOf[r] \in resident'
        BY <2>1, <2>2, QueuedFacts DEF Evictable, Busy
      <3> QED BY <3>1, SameWork DEF workVars, lifeVars
    <2> QED BY <2>6, <2>7, <2>8 DEF IInv
  <1> QED BY <1>2, <1>3

\* A hit, a wait, or an attempt of its own.
LEMMA LoadModelStep ==
    ASSUME IInv, NEW l \in Loader, NEW m \in Model, LoadModel(l, m)
    PROVE  IInv' /\ Ends
  <1>1. /\ loader[l].at = "idle" /\ loader[l].at \notin InLoad /\ Types /\ attempts[m] \in Nat
        /\ UNCHANGED <<runtimeVars, workVars, lifeVars, evictor>>
    BY DEF LoadModel, InLoad, IInv, Types, ModelsTyped
  <1>2. CASE m \in resident /\ Hit(l, m)
    BY <1>1, <1>2, HitStep
  <1>3. CASE /\ loader' = [loader EXCEPT ![l] = [Idle EXCEPT !.at = "wait", !.model = m, !.joined = attempts[m]]]
             /\ UNCHANGED modelVars
    <2> DEFINE x == [Idle EXCEPT !.at = "wait", !.model = m, !.joined = attempts[m]]
    <2>1. Idle \in LoaderRecord
      BY DEF Idle, LoaderRecord
    <2>2. x \in LoaderRecord /\ x.at = "wait" /\ x.model = m
      BY <1>1, <2>1 DEF LoaderRecord
    <2>3. loader' = [loader EXCEPT ![l] = x]
      BY <1>3
    <2> HIDE DEF x
    <2>4. Sound(x) /\ x.at \notin InLoad
      BY <2>2 DEF Sound, InLoad
    <2>5. lru' \in Seq(Model) /\ UNCHANGED <<resident, loading, reserved, attempts, failures>>
      BY <1>1, <1>3 DEF Types, ModelsTyped, modelVars
    <2> QED BY <1>1, <2>2, <2>3, <2>4, <2>5, StaysOut
  <1>4. CASE m \notin resident /\ ~Joins(m) /\ Reserve(l, m)
    BY <1>1, <1>4, ReserveStep DEF Joins
  <1> QED BY <1>2, <1>3, <1>4 DEF LoadModel

\* A waiter finds the load over: a hit, a failure, or an attempt of its own.
LEMMA WakeStep ==
    ASSUME IInv, NEW l \in Loader, Wake(l)
    PROVE  IInv' /\ Ends
  <1>1. PICK m \in Model : m = loader[l].model
    BY DEF Wake, IInv, Types, LoadersTyped, Sound
  <1>2. /\ loader[l].at \notin InLoad /\ m \notin loading /\ Types
        /\ UNCHANGED <<runtimeVars, workVars, lifeVars, evictor>>
    BY <1>1 DEF Wake, InLoad, IInv
  <1>3. CASE Hit(l, m)
    BY <1>2, <1>3, HitStep
  <1>4. CASE loader' = [loader EXCEPT ![l] = Idle] /\ UNCHANGED modelVars
    <2>1. Idle \in LoaderRecord /\ Sound(Idle) /\ Idle.at \notin InLoad
      BY DEF Idle, LoaderRecord, Sound, InLoad
    <2>2. lru' \in Seq(Model) /\ UNCHANGED <<resident, loading, reserved, attempts, failures>>
      BY <1>2, <1>4 DEF Types, ModelsTyped, modelVars
    <2> QED BY <1>2, <1>4, <2>1, <2>2, StaysOut
  <1>5. CASE Reserve(l, m)
    BY <1>2, <1>5, ReserveStep
  <1> QED BY <1>1, <1>3, <1>4, <1>5 DEF Wake

\* A loader inside its load goes on; models may come and go in the runtime, and
\* become resident.
LEMMA GoesOn ==
    ASSUME IInv, LoadersTyped', NEW l \in Loader, loader[l].at \in InLoad, loader'[l].at \in InLoad,
           loader'[l].model = loader[l].model, \A k \in Loader : k # l => loader'[k] = loader[k],
           ModelsTyped', resident \subseteq resident',
           UNCHANGED <<loading, reserved, workVars, lifeVars, evictor>>
    PROVE  IInv' /\ Ends
  <1>1. Types
    BY DEF IInv
  <1>2. Types'
    <2>1. WorkTyped'
      BY <1>1 DEF Types, WorkTyped, workVars, lifeVars
    <2>2. EvictorTyped'
      BY <1>1 DEF Types, EvictorTyped
    <2> QED BY <2>1, <2>2 DEF Types
  <1>3. LoadsOwned'
    <2>1. \A k \in Loader : /\ loader'[k].at \in InLoad <=> loader[k].at \in InLoad
                            /\ loader[k].at \in InLoad => loader'[k].model = loader[k].model
      OBVIOUS
    <2> QED BY <2>1, SameLoads DEF IInv
  <1>4. Work' /\ Ends
    BY QueuedFacts, SameWork DEF workVars, lifeVars
  <1> QED BY <1>2, <1>3, <1>4 DEF IInv

\* One evicted model is unloaded, or the call raises.
LEMMA EvictOneStep ==
    ASSUME IInv, NEW l \in Loader, EvictOne(l)
    PROVE  IInv' /\ Ends
  <1>1. Types /\ LoadersTyped /\ loader[l].at = "evict" /\ loader[l].at \in InLoad
    BY DEF IInv, Types, EvictOne, InLoad
  <1>2. loader[l] \in LoaderRecord /\ loader[l].model \in Model /\ loader[l].todo # <<>> /\ loader[l].todo \in Seq(Model)
    BY <1>1 DEF LoadersTyped, Sound, LoaderRecord
  <1>3. ModelsTyped' /\ resident' = resident
    BY <1>1 DEF EvictOne, Types, ModelsTyped, modelVars, lifeVars
  <1>4. CASE Goto(l, "fail")
    <2>1. "fail" \in InLoad \ {"evict"}
      BY DEF InLoad
    <2>2. /\ LoadersTyped' /\ loader'[l].at \in InLoad /\ loader'[l].model = loader[l].model
          /\ \A k \in Loader : k # l => loader'[k] = loader[k]
      BY <1>1, <1>4, <2>1, GotoFacts
    <2> QED BY <1>1, <1>3, <2>2, GoesOn DEF EvictOne, modelVars
  <1>5. CASE loader' = [loader EXCEPT ![l].todo = Tail(@), ![l].at = IF Len(loader[l].todo) = 1 THEN "load" ELSE "evict"]
    <2>1. PICK pc, t : pc = (IF Len(loader[l].todo) = 1 THEN "load" ELSE "evict") /\ t = Tail(loader[l].todo)
      OBVIOUS
    <2>2. t \in Seq(Model) /\ (pc = "evict" => t # <<>>) /\ pc \in {"load", "evict"} /\ pc \in InLoad
      BY <1>2, <2>1, TailFacts DEF InLoad
    <2> DEFINE x == [loader[l] EXCEPT !.todo = t, !.at = pc]
    <2>3. x \in LoaderRecord /\ x.at = pc /\ x.todo = t /\ x.model = loader[l].model
      BY <1>2, <2>2 DEF LoaderRecord
    <2>4. loader' = [loader EXCEPT ![l] = x]
      BY <1>1, <1>5, <2>1 DEF LoadersTyped
    <2> HIDE DEF x
    <2>5. Sound(x)
      BY <1>2, <2>2, <2>3 DEF Sound
    <2>6. LoadersTyped' /\ loader'[l] = x /\ \A k \in Loader : k # l => loader'[k] = loader[k]
      BY <1>1, <2>3, <2>4, <2>5, LoaderSet
    <2> QED BY <1>1, <1>3, <2>2, <2>3, <2>6, GoesOn DEF EvictOne, modelVars
  <1> QED BY <1>4, <1>5 DEF EvictOne

\* The calls into the runtime, publication and the except clause.
LEMMA CallSteps ==
    ASSUME IInv, NEW l \in Loader,
           RuntimeLoad(l) \/ RuntimeLoaded(l) \/ Warmup(l) \/ Publish(l) \/ LoadFails(l)
    PROVE  IInv' /\ Ends
  <1>1. Types /\ LoadersTyped /\ ModelsTyped /\ loader[l].at \in InLoad
    BY DEF IInv, Types, RuntimeLoad, RuntimeLoaded, Warmup, Publish, LoadFails, InLoad
  <1>2. loader[l] \in LoaderRecord /\ loader[l].model \in Model /\ loader[l].evict \in Seq(Model) /\ loader[l].attempt \in Nat
    BY <1>1 DEF LoadersTyped, Sound, LoaderRecord, InLoad
  <1>3. PICK pc \in InLoad \ {"evict"} : Goto(l, pc)
    <2>1. {"warm", "fail", "loading", "publish", "cleanup"} \subseteq InLoad \ {"evict"}
      BY DEF InLoad
    <2>2. CASE RuntimeLoad(l)
      BY <2>1, <2>2 DEF RuntimeLoad
    <2>3. CASE RuntimeLoaded(l) \/ Warmup(l) \/ Publish(l) \/ LoadFails(l)
      BY <2>1, <2>3 DEF RuntimeLoaded, Warmup, Publish, LoadFails
    <2> QED BY <2>2, <2>3
  <1>4. /\ LoadersTyped' /\ loader'[l].at \in InLoad /\ loader'[l].model = loader[l].model
        /\ \A k \in Loader : k # l => loader'[k] = loader[k]
    BY <1>1, <1>3, GotoFacts
  <1>5. ModelsTyped' /\ resident \subseteq resident' /\ UNCHANGED <<loading, reserved, workVars, lifeVars, evictor>>
    <2>1. CASE RuntimeLoad(l)
      BY <1>1, <1>2, <2>1 DEF RuntimeLoad, ModelsTyped, modelVars, lifeVars
    <2>2. CASE RuntimeLoaded(l)
      BY <1>1, <1>2, <2>2 DEF RuntimeLoaded, ModelsTyped, modelVars, lifeVars
    <2>3. CASE Warmup(l)
      BY <1>1, <1>2, <2>3 DEF Warmup, ModelsTyped, modelVars, runtimeVars, lifeVars
    <2>4. CASE Publish(l)
      <3>1. lru' \in Seq(Model)
        BY <1>1, <1>2, <2>4, UseFacts DEF Publish, ModelsTyped
      <3> QED BY <1>1, <1>2, <2>4, <3>1 DEF Publish, ModelsTyped, runtimeVars, lifeVars
    <2>5. CASE LoadFails(l)
      <3>1. PICK kept : kept = Keep(loader[l].evict, loaded) /\ kept \in Seq(Model)
        BY <1>2, KeepFacts
      <3>2. Range(kept) \subseteq Model /\ Drop(lru, Range(kept)) \in Seq(Model)
        BY <1>1, <1>2, <3>1, UseFacts DEF Range, ModelsTyped
      <3>3. lru' \in Seq(Model) /\ resident' = resident \cup Range(kept)
        BY <2>5, <3>1, <3>2 DEF LoadFails
      <3> QED BY <1>1, <1>2, <2>5, <3>2, <3>3 DEF LoadFails, ModelsTyped, runtimeVars, lifeVars
    <2> QED BY <2>1, <2>2, <2>3, <2>4, <2>5
  <1> QED BY <1>1, <1>4, <1>5, GoesOn

\* The finally clause gives the reservation back.
LEMMA CleanupStep ==
    ASSUME IInv, NEW l \in Loader, Cleanup(l)
    PROVE  IInv' /\ Ends
  <1>1. Types /\ LoadersTyped /\ loader[l].at \in InLoad /\ loader' = [loader EXCEPT ![l] = Idle]
    BY DEF IInv, Types, Cleanup, InLoad
  <1>2. PICK m \in Model : m = loader[l].model
    BY <1>1 DEF LoadersTyped, Sound, InLoad
  <1>3. Idle \in LoaderRecord /\ Sound(Idle) /\ Idle.at \notin InLoad
    BY DEF Idle, LoaderRecord, Sound, InLoad
  <1>4. LoadersTyped' /\ loader'[l] = Idle /\ \A k \in Loader : k # l => loader'[k] = loader[k]
    BY <1>1, <1>3, LoaderSet
  <1>5. Types'
    <2>1. ModelsTyped'
      BY <1>1 DEF Types, ModelsTyped, runtimeVars, lifeVars, Cleanup
    <2>2. WorkTyped'
      BY <1>1 DEF Types, WorkTyped, workVars, lifeVars, Cleanup
    <2>3. EvictorTyped'
      BY <1>1 DEF Types, EvictorTyped, Cleanup
    <2> QED BY <1>4, <2>1, <2>2, <2>3 DEF Types
  <1>6. LoadsOwned'
    <2>1. l \in Mine(m)
      BY <1>1, <1>2 DEF Mine
    <2>2. m \in loading /\ Mine(m) = {l} /\ reserved = Sum(loading) /\ loading \subseteq Model
      BY <1>1, <2>1 DEF IInv, LoadsOwned, Types, ModelsTyped
    <2>3. Mine(m)' = {}
      BY <1>3, <1>4, <2>2 DEF Mine
    <2>4. \A n \in Model : n # m => Mine(n)' = Mine(n)
      BY <1>2, <1>3, <1>4 DEF Mine
    <2>5. loading' = loading \ {m} /\ reserved' = reserved - Size[m]
      BY <1>2 DEF Cleanup
    <2>6. reserved' = Sum(loading') /\ Sum(loading)' = Sum(loading')
      BY <2>2, <2>5, SizeFacts DEF Sum
    <2>7. \A n \in Model : /\ n \in loading' => \E k \in Loader : Mine(n)' = {k}
                           /\ n \notin loading' => Mine(n)' = {}
      BY <2>3, <2>4, <2>5 DEF IInv, LoadsOwned
    <2> QED BY <2>6, <2>7 DEF LoadsOwned
  <1>7. Work' /\ Ends
    BY QueuedFacts, SameWork DEF Cleanup, workVars, lifeVars
  <1> QED BY <1>5, <1>6, <1>7 DEF IInv

-----------------------------------------------------------------------------
(* The steps of the evictor, of unload_model and of the application *)

\* Steps that touch neither loaders nor requests.
LEMMA Aside ==
    ASSUME IInv, EvictorTyped', ModelsTyped', UNCHANGED <<loader, loading, reserved, workVars, health>>,
           draining' \in BOOLEAN, stop' \in BOOLEAN, app' \in {"off", "running", "failing", "unloading"},
           app' = app \/ app = "running",
           \A r \in Range(queue) : ModelOf[r] \in resident'
    PROVE  IInv' /\ Ends
  <1>1. Types
    BY DEF IInv
  <1>2. LoadersTyped' /\ WorkTyped'
    BY <1>1 DEF Types, LoadersTyped, WorkTyped, workVars
  <1>3. LoadsOwned'
    BY SameLoads DEF IInv
  <1>4. Work' /\ Ends
    BY SameWork DEF workVars
  <1> QED BY <1>2, <1>3, <1>4 DEF IInv, Types

\* No eviction under way, and the next one.
LEMMA EvictorFacts ==
    ASSUME EvictorTyped
    PROVE  /\ evictor' = NoEviction => EvictorTyped'
           /\ evictor.at \in {"unload", "runtime"} =>
                 Head(evictor.todo) \in Model /\ (evictor' = NextUnload => EvictorTyped')
  <1>1. evictor' = NoEviction => EvictorTyped'
    BY DEF NoEviction, EvictorTyped
  <1>2. ASSUME evictor.at \in {"unload", "runtime"}
        PROVE  Head(evictor.todo) \in Model /\ (evictor' = NextUnload => EvictorTyped')
    <2>1. evictor.todo \in Seq(Model) /\ evictor.todo # <<>> /\ evictor.scan \in SUBSET Model /\ evictor.api \in BOOLEAN
      BY <1>2 DEF EvictorTyped
    <2>2. PICK t : t = Tail(evictor.todo)
      OBVIOUS
    <2>3. Head(evictor.todo) \in Model /\ t \in Seq(Model) /\ (Len(evictor.todo) # 1 => t # <<>>)
      BY <2>1, <2>2, TailFacts
    <2>4. ASSUME Len(evictor.todo) # 1, evictor' = [evictor EXCEPT !.at = "unload", !.todo = t] PROVE EvictorTyped'
      BY <2>3, <2>4 DEF EvictorTyped
    <2>5. evictor' = NextUnload => EvictorTyped'
      BY <1>1, <2>2, <2>4 DEF NextUnload
    <2> QED BY <2>3, <2>5
  <1> QED BY <1>1, <1>2

\* An exception of the eviction loop ends the loops.
LEMMA RaisesFacts ==
    ASSUME IInv, EvictorRaises
    PROVE  /\ EvictorTyped' /\ UNCHANGED <<health, draining, stop, unloading, starts>>
           /\ draining' \in BOOLEAN /\ stop' \in BOOLEAN /\ app' \in {"off", "running", "failing", "unloading"}
           /\ app' = app \/ app = "running"
  BY EvictorFacts DEF IInv, Types, WorkTyped, EvictorRaises, LoopFails

\* The scan, the sort, and calls from outside.
LEMMA EvictorBegins ==
    ASSUME IInv, EvictScan \/ EvictSort \/ \E m \in Model : UnloadModel(m)
    PROVE  IInv' /\ Ends
  <1>1. Types /\ ModelsTyped /\ EvictorTyped /\ draining \in BOOLEAN /\ stop \in BOOLEAN
        /\ app \in {"off", "running", "failing", "unloading"}
    BY DEF IInv, Types, WorkTyped
  <1>2. /\ ModelsTyped' /\ \A r \in Range(queue) : ModelOf[r] \in resident'
        /\ UNCHANGED <<loader, loading, reserved, workVars, health>>
    <2>1. UNCHANGED <<modelVars, runtimeVars, workVars, loader, unloading, health>>
      BY DEF EvictScan, EvictSort, UnloadModel, lifeVars, EvictorRaises
    <2> QED BY <1>1, <2>1, QueuedFacts DEF modelVars, runtimeVars, ModelsTyped
  <1>3. CASE EvictScan
    <2>1. PICK E \in (SUBSET (Evictable \cap Range(lru))) \ {{}} : evictor' = [NoEviction EXCEPT !.at = "sort", !.scan = E]
      BY <1>3 DEF EvictScan
    <2>2. E \in SUBSET Model /\ E # {}
      <3>1. Evictable \subseteq Model
        BY <1>1 DEF Evictable, ModelsTyped
      <3>2. E \in SUBSET (Evictable \cap Range(lru)) /\ E # {}
        OBVIOUS
      <3> QED BY <3>1, <3>2
    <2>3. NoEviction \in [at : {"idle", "sort", "unload", "runtime"}, todo : Seq(Model), scan : SUBSET Model, api : BOOLEAN]
      BY DEF NoEviction
    <2>4. evictor' \in [at : {"idle", "sort", "unload", "runtime"}, todo : Seq(Model), scan : SUBSET Model, api : BOOLEAN]
          /\ evictor'.at = "sort" /\ evictor'.scan = E
      BY <2>1, <2>2, <2>3
    <2>5. EvictorTyped'
      BY <2>2, <2>4 DEF EvictorTyped
    <2> QED BY <1>1, <1>2, <1>3, <2>5, Aside DEF EvictScan, lifeVars
  <1>4. CASE EvictSort
    <2>1. CASE EvictorRaises
      BY <1>2, <2>1, RaisesFacts, Aside
    <2>2. CASE /\ evictor.scan \subseteq Range(lru) /\ UNCHANGED lifeVars
               /\ evictor' = [NoEviction EXCEPT !.at = "unload", !.todo = Keep(lru, evictor.scan)]
      <3>1. PICK t : t = Keep(lru, evictor.scan) /\ t \in Seq(Model) /\ Range(t) = Range(lru) \cap evictor.scan
        BY <1>1, KeepFacts DEF ModelsTyped
      <3>2. evictor.scan # {}
        BY <1>1, <1>4 DEF EvictorTyped, EvictSort
      <3>3. t # <<>>
        BY <2>2, <3>1, <3>2 DEF Range
      <3>4. EvictorTyped'
        BY <2>2, <3>1, <3>3 DEF EvictorTyped, NoEviction
      <3> QED BY <1>1, <1>2, <2>2, <3>4, Aside DEF lifeVars
    <2> QED BY <1>4, <2>1, <2>2 DEF EvictSort
  <1>5. CASE \E m \in Model : UnloadModel(m)
    <2>1. PICK m \in Model : UnloadModel(m)
      BY <1>5
    <2>2. PICK t : t = <<m>> /\ t \in Seq(Model) /\ t # <<>>
      <3>1. <<m>> \in Seq(Model) /\ Len(<<m>>) = 1
        OBVIOUS
      <3> QED BY <3>1, EmptySeq
    <2>3. EvictorTyped'
      BY <2>1, <2>2 DEF EvictorTyped, NoEviction, UnloadModel
    <2> QED BY <1>1, <1>2, <2>1, <2>3, Aside DEF UnloadModel, lifeVars
  <1> QED BY <1>3, <1>4, <1>5

\* unload_model takes a model nobody has queued for, or raises.
LEMMA UnpublishStep ==
    ASSUME IInv, Unpublish
    PROVE  IInv' /\ Ends
  <1>1. Types /\ ModelsTyped /\ EvictorTyped /\ draining \in BOOLEAN /\ stop \in BOOLEAN
        /\ app \in {"off", "running", "failing", "unloading"} /\ evictor.at = "unload"
    BY DEF IInv, Types, WorkTyped, Unpublish
  <1>2. PICK m \in Model : m = Head(evictor.todo)
    BY <1>1, EvictorFacts
  <1>3. UNCHANGED <<loading, reserved, attempts, failures, runtimeVars, workVars, loader>>
    BY DEF Unpublish
  <1>4. CASE HeldBack(m) /\ EvictorRaises /\ UNCHANGED <<resident, lru>>
    <2>1. ModelsTyped'
      BY <1>1, <1>3, <1>4, RaisesFacts DEF ModelsTyped, runtimeVars
    <2> QED BY <1>3, <1>4, <2>1, RaisesFacts, QueuedFacts, Aside
  <1>5. CASE evictor' = NextUnload /\ UNCHANGED <<resident, lru, lifeVars>>
    <2>1. ModelsTyped'
      BY <1>1, <1>3, <1>5 DEF ModelsTyped, runtimeVars, lifeVars
    <2>2. EvictorTyped'
      BY <1>1, <1>5, EvictorFacts
    <2> QED BY <1>1, <1>3, <1>5, <2>1, <2>2, QueuedFacts, Aside DEF lifeVars
  <1>6. CASE /\ ~HeldBack(m) /\ resident' = resident \ {m} /\ lru' = Drop(lru, {m})
             /\ evictor' = [evictor EXCEPT !.at = "runtime"] /\ UNCHANGED lifeVars
    <2>1. ModelsTyped'
      <3>1. lru' \in Seq(Model)
        BY <1>1, <1>6, UseFacts DEF ModelsTyped
      <3> QED BY <1>1, <1>3, <1>6, <3>1 DEF ModelsTyped, runtimeVars, lifeVars
    <2>2. EvictorTyped'
      BY <1>1, <1>6 DEF EvictorTyped
    <2>3. \A r \in Range(queue) : ModelOf[r] \in resident'
      BY <1>6, QueuedFacts DEF HeldBack
    <2> QED BY <1>1, <1>3, <1>6, <2>1, <2>2, <2>3, Aside DEF lifeVars
  <1> QED BY <1>2, <1>4, <1>5, <1>6 DEF Unpublish

\* The runtime unloads it, or raises and it is put back.
LEMMA RuntimeUnloadStep ==
    ASSUME IInv, RuntimeUnload
    PROVE  IInv' /\ Ends
  <1>1. Types /\ ModelsTyped /\ EvictorTyped /\ draining \in BOOLEAN /\ stop \in BOOLEAN
        /\ app \in {"off", "running", "failing", "unloading"} /\ evictor.at = "runtime"
    BY DEF IInv, Types, WorkTyped, RuntimeUnload
  <1>2. PICK m \in Model : m = Head(evictor.todo)
    BY <1>1, EvictorFacts
  <1>3. UNCHANGED <<incoming, loading, reserved, attempts, failures, workVars, loader>>
    BY DEF RuntimeUnload
  <1>4. CASE loaded' = loaded \ {m} /\ evictor' = NextUnload /\ UNCHANGED <<resident, lru, lifeVars>>
    <2>1. ModelsTyped'
      BY <1>1, <1>3, <1>4 DEF ModelsTyped, lifeVars
    <2>2. EvictorTyped'
      BY <1>1, <1>4, EvictorFacts
    <2> QED BY <1>1, <1>3, <1>4, <2>1, <2>2, QueuedFacts, Aside DEF lifeVars
  <1>5. CASE resident' = resident \cup {m} /\ lru' = Touch(lru, m) /\ EvictorRaises /\ UNCHANGED loaded
    <2>1. ModelsTyped'
      <3>1. lru' \in Seq(Model)
        BY <1>1, <1>5, UseFacts DEF ModelsTyped
      <3> QED BY <1>1, <1>3, <1>5, <3>1, RaisesFacts DEF ModelsTyped
    <2>2. \A r \in Range(queue) : ModelOf[r] \in resident'
      BY <1>5, QueuedFacts
    <2> QED BY <1>3, <1>5, <2>1, <2>2, RaisesFacts, Aside
  <1> QED BY <1>2, <1>4, <1>5 DEF RuntimeUnload

\* Stop, and the end of a shutdown.
LEMMA StopSteps ==
    ASSUME IInv, Stop \/ Unregister \/ \E m \in Model : ShutdownUnload(m)
    PROVE  IInv' /\ Ends
  <1>1. Types /\ ModelsTyped /\ EvictorTyped /\ draining \in BOOLEAN /\ stop \in BOOLEAN
        /\ app \in {"off", "running", "failing", "unloading"}
    BY DEF IInv, Types, WorkTyped
  <1>2. EvictorTyped' /\ UNCHANGED <<modelVars, workVars, loader, health>>
    BY <1>1 DEF Stop, Unregister, ShutdownUnload, EvictorTyped
  <1>3. ModelsTyped'
    BY <1>1, <1>2 DEF Stop, Unregister, ShutdownUnload, ModelsTyped, modelVars, runtimeVars
  <1>4. CASE Stop \/ \E m \in Model : ShutdownUnload(m)
    <2>1. draining' \in BOOLEAN /\ stop' \in BOOLEAN /\ app' = app
      BY <1>1, <1>4 DEF Stop, ShutdownUnload
    <2> QED BY <1>1, <1>2, <1>3, <2>1, QueuedFacts, Aside DEF modelVars
  <1>5. CASE Unregister
    <2>1. LoadersTyped' /\ WorkTyped'
      BY <1>1, <1>2, <1>5 DEF Types, LoadersTyped, WorkTyped, workVars, Unregister
    <2>2. LoadsOwned'
      BY <1>2, SameLoads DEF IInv, modelVars
    <2>3. StoppedIsIdle' /\ app' = "off"
      BY <1>2, <1>5 DEF IInv, Work, StoppedIsIdle, Unregister, workVars
    <2>4. QueuedModelResident' /\ StatusTells' /\ Ends
      BY <1>2 DEF IInv, Work, QueuedModelResident, StatusTells, Ends, workVars, modelVars
    <2> QED BY <1>2, <1>3, <2>1, <2>2, <2>3, <2>4 DEF IInv, Types, Work
  <1> QED BY <1>4, <1>5

\* A run of the application begins, before or after a shutdown.
LEMMA RegisterStep ==
    ASSUME IInv, Register
    PROVE  IInv' /\ Ends
  <1>1. Types /\ LoadsOwned /\ Work /\ draining \in BOOLEAN
    BY DEF IInv, Types, WorkTyped
  <1>2. health' = "healthy" /\ draining' \in BOOLEAN /\ app' = "running"
    BY <1>1 DEF Register
  <1>3. LoadersTyped' /\ EvictorTyped' /\ ModelsTyped'
    BY <1>1 DEF Types, LoadersTyped, EvictorTyped, ModelsTyped, Register, modelVars, runtimeVars
  <1>4. WorkTyped'
    BY <1>1, <1>2 DEF Types, WorkTyped, Register, workVars
  <1>5. LoadsOwned'
    BY <1>1, SameLoads DEF Register, modelVars
  <1>6. QueuedModelResident' /\ StatusTells' /\ Ends
    BY <1>1 DEF Work, QueuedModelResident, StatusTells, Ends, Register, workVars, modelVars
  <1>7. StoppedIsIdle'
    BY <1>2 DEF StoppedIsIdle
  <1> QED BY <1>3, <1>4, <1>5, <1>6, <1>7 DEF IInv, Types, Work

\* What was queued fails, what was resident is forgotten.
LEMMA ShutdownBegins ==
    ASSUME IInv, Shutdown
    PROVE  IInv' /\ Ends
  <1>1. Types /\ LoadsOwned /\ Work /\ queue \in Seq(Request) /\ exec = "idle"
    BY DEF IInv, Types, WorkTyped, Shutdown, LoopsOver
  <1>2. /\ queue' = <<>> /\ resident' = {} /\ app' = "unloading" /\ health' = "stopped" /\ exec' = exec
        /\ batch' = batch
    BY DEF Shutdown
  <1>3. \A r \in Request : Contains(queue, r) <=> r \in Range(queue)
    BY <1>1 DEF Contains, Range
  <1>4. \A r \in Request : status'[r] = IF r \in Range(queue) THEN "FAILED" ELSE status[r]
    BY <1>3 DEF Shutdown
  <1>5. LoadersTyped' /\ EvictorTyped' /\ ModelsTyped'
    BY <1>1 DEF Types, LoadersTyped, EvictorTyped, ModelsTyped, Shutdown, runtimeVars
  <1>6. WorkTyped'
    <2>1. status' \in [Request -> Terminal \cup {"ASSIGNED", "QUEUED", "RUNNING"}]
      BY <1>1 DEF Types, WorkTyped, Shutdown, Terminal
    <2>2. <<>> \in Seq(Request) /\ Len(<<>>) = 0 /\ max_queue_depth \in Nat
      BY WorkerAssumption
    <2>3. Len(queue') <= max_queue_depth
      BY <1>2, <2>2
    <2> QED BY <1>1, <1>2, <2>1, <2>2, <2>3 DEF Types, WorkTyped, Shutdown
  <1>7. LoadsOwned'
    BY <1>1, SameLoads DEF Shutdown
  <1>8. Range(queue') = {} /\ IsInjective(queue')
    BY <1>2 DEF Range, IsInjective
  <1>9. Work'
    <2>1. QueuedModelResident' /\ StoppedIsIdle'
      BY <1>1, <1>2, <1>8 DEF QueuedModelResident, StoppedIsIdle
    <2>2. Range(batch') = {}
      BY <1>1, <1>2 DEF Work, StatusTells, Range
    <2>3. StatusTells'
      BY <1>1, <1>2, <1>4, <1>8, <2>2 DEF Work, StatusTells
    <2> QED BY <2>1, <2>3 DEF Work
  <1>10. Ends
    BY <1>1, <1>4 DEF Ends, Work, StatusTells, Terminal
  <1> QED BY <1>5, <1>6, <1>7, <1>9, <1>10 DEF IInv, Types

-----------------------------------------------------------------------------
(* The local queue and the execution loop *)

\* Steps that touch neither loads nor the evictor.
LEMMA WorkStep ==
    ASSUME IInv, lru' \in Seq(Model), UNCHANGED <<resident, loading, reserved, attempts, failures>>,
           UNCHANGED <<runtimeVars, unloading, loader, evictor, health, draining, stop>>,
           WorkTyped', QueuedModelResident', StatusTells', StoppedIsIdle'
    PROVE  IInv'
  <1>1. Types
    BY DEF IInv
  <1>2. LoadersTyped' /\ EvictorTyped'
    BY <1>1 DEF Types, LoadersTyped, EvictorTyped
  <1>3. ModelsTyped'
    BY <1>1 DEF Types, ModelsTyped, runtimeVars
  <1>4. LoadsOwned'
    BY SameLoads DEF IInv
  <1> QED BY <1>2, <1>3, <1>4 DEF IInv, Types, Work

\* A request is accepted for a resident model.
LEMMA EnqueueStep ==
    ASSUME IInv, NEW r \in Request, EnqueueRequest(r)
    PROVE  IInv' /\ Ends
  <1>1. /\ Types /\ WorkTyped /\ ModelsTyped /\ StatusTells /\ QueuedModelResident
        /\ queue \in Seq(Request) /\ IsInjective(queue) /\ status[r] = "ASSIGNED"
    BY DEF IInv, Types, WorkTyped, Work, StatusTells, EnqueueRequest
  <1>2. r \notin Range(queue) /\ r \notin Range(batch)
    BY <1>1 DEF StatusTells, Terminal
  <1>3. /\ queue' \in Seq(Request) /\ Len(queue') = Len(queue) + 1 /\ Len(queue) \in Nat
        /\ Range(queue') = Range(queue) \cup {r} /\ IsInjective(queue')
    BY <1>1, <1>2, AppendFacts DEF EnqueueRequest
  <1>4. /\ status' \in [Request -> Terminal \cup {"ASSIGNED", "QUEUED", "RUNNING"}] /\ status'[r] = "QUEUED"
        /\ \A q \in Request : q # r => status'[q] = status[q]
    BY <1>1 DEF WorkTyped, EnqueueRequest
  <1>5. WorkTyped'
    <2>1. Len(queue') <= max_queue_depth
      BY <1>3, WorkerAssumption DEF EnqueueRequest
    <2> QED BY <1>1, <1>3, <1>4, <2>1 DEF WorkTyped, EnqueueRequest, lifeVars
  <1>6. QueuedModelResident'
    BY <1>1, <1>3 DEF QueuedModelResident, EnqueueRequest, modelVars
  <1>7. StatusTells'
    <2>1. \A q \in Range(batch) : q \in Request /\ q # r
      BY <1>1, <1>2 DEF WorkTyped, Range
    <2>2. UNCHANGED <<batch, exec>>
      BY DEF EnqueueRequest
    <2> QED BY <1>1, <1>2, <1>3, <1>4, <2>1, <2>2 DEF StatusTells
  <1>8. StoppedIsIdle'
    BY DEF StoppedIsIdle, EnqueueRequest, Accepting, lifeVars
  <1>9. IInv'
    BY <1>1, <1>5, <1>6, <1>7, <1>8, WorkStep DEF EnqueueRequest, modelVars, lifeVars, ModelsTyped
  <1>10. Ends
    BY <1>1, <1>4 DEF Ends, Terminal
  <1> QED BY <1>9, <1>10

\* A request is cancelled, in the queue or in the batch.
LEMMA CancelStep ==
    ASSUME IInv, NEW r \in Request, CancelRequest(r)
    PROVE  IInv' /\ Ends
  <1>1. /\ Types /\ WorkTyped /\ ModelsTyped /\ StatusTells /\ QueuedModelResident
        /\ queue \in Seq(Request) /\ IsInjective(queue)
    BY DEF IInv, Types, WorkTyped, Work, StatusTells
  <1>2. status[r] \notin Terminal
    <2>1. Contains(queue, r) => r \in Range(queue)
      BY <1>1 DEF Contains, Range
    <2> QED BY <1>1, <2>1 DEF CancelRequest, StatusTells, Terminal
  <1>3. /\ queue' \in Seq(Request) /\ Len(queue') <= Len(queue) /\ Range(queue') = Range(queue) \ {r}
        /\ IsInjective(queue')
    <2>1. Range(queue) \subseteq Request
      BY <1>1 DEF Range
    <2>2. PICK S : S = Request \ {r}
      OBVIOUS
    <2>3. queue' = Keep(queue, S)
      BY <2>2 DEF CancelRequest
    <2>4. /\ queue' \in Seq(Request) /\ Len(queue') <= Len(queue) /\ Range(queue') = Range(queue) \cap S
          /\ IsInjective(queue')
      BY <1>1, <2>3, KeepFacts
    <2> QED BY <2>1, <2>2, <2>4
  <1>4. /\ status' \in [Request -> Terminal \cup {"ASSIGNED", "QUEUED", "RUNNING"}] /\ status'[r] = "CANCELLED"
        /\ \A q \in Request : q # r => status'[q] = status[q]
    BY <1>1 DEF WorkTyped, CancelRequest, Terminal
  <1>5. WorkTyped'
    <2>1. Len(queue') <= max_queue_depth
      BY <1>1, <1>3, WorkerAssumption DEF WorkTyped
    <2> QED BY <1>1, <1>3, <1>4, <2>1 DEF WorkTyped, CancelRequest, lifeVars
  <1>6. QueuedModelResident'
    BY <1>1, <1>3 DEF QueuedModelResident, CancelRequest, modelVars
  <1>7. StatusTells'
    <2>1. \A q \in Range(batch) : q \in Request
      BY <1>1 DEF WorkTyped, Range
    <2>2. UNCHANGED <<batch, exec>>
      BY DEF CancelRequest
    <2> QED BY <1>1, <1>3, <1>4, <2>1, <2>2 DEF StatusTells, Terminal
  <1>8. StoppedIsIdle'
    <2>1. queue = <<>> => queue' = <<>>
      BY <1>1, <1>3, EmptySeq
    <2> QED BY <2>1 DEF IInv, Work, StoppedIsIdle, CancelRequest, lifeVars
  <1>9. IInv'
    BY <1>1, <1>5, <1>6, <1>7, <1>8, WorkStep DEF CancelRequest, modelVars, lifeVars, ModelsTyped
  <1>10. Ends
    BY <1>2, <1>4 DEF Ends
  <1> QED BY <1>9, <1>10

\* A deadline passes.
LEMMA ExpireStep ==
    ASSUME IInv, NEW r \in Request, Expire(r)
    PROVE  IInv' /\ Ends
  <1>1. UNCHANGED <<queue, batch, exec, status, modelVars, runtimeVars, lifeVars, loader, evictor>>
    BY DEF Expire
  <1>2. Types
    BY DEF IInv
  <1>3. WorkTyped' /\ lru' \in Seq(Model)
    BY <1>1, <1>2 DEF Types, WorkTyped, lifeVars, ModelsTyped, modelVars
  <1>4. Work' /\ Ends
    BY <1>1, QueuedFacts, SameWork DEF modelVars, lifeVars
  <1> QED BY <1>1, <1>3, <1>4, WorkStep DEF Work, modelVars, lifeVars

\* Steps between the critical sections of execute_batch.
LEMMA ExecutionSteps ==
    ASSUME IInv, ExecuteBatch \/ GenerateStarts \/ GenerateReturns
    PROVE  IInv' /\ Ends
  <1>1. UNCHANGED <<queue, batch, status, modelVars, runtimeVars, lifeVars, loader, evictor>>
    BY DEF ExecuteBatch, GenerateStarts, GenerateReturns
  <1>2. Types /\ StatusTells /\ QueuedModelResident /\ StoppedIsIdle
    BY DEF IInv, Work
  <1>3. WorkTyped' /\ lru' \in Seq(Model)
    <2>1. exec' \in {"idle", "enter", "call", "generate", "failed", "done"}
      BY DEF ExecuteBatch, GenerateStarts, GenerateReturns
    <2> QED BY <1>1, <1>2, <2>1 DEF Types, WorkTyped, lifeVars, ModelsTyped, modelVars
  <1>4. QueuedModelResident' /\ Ends
    BY <1>1, <1>2 DEF QueuedModelResident, modelVars, Ends
  <1>5. StoppedIsIdle'
    BY <1>1, <1>2 DEF StoppedIsIdle, ExecuteBatch, GenerateStarts, GenerateReturns, lifeVars
  <1>6. StatusTells'
    BY <1>1, <1>2 DEF StatusTells, ExecuteBatch, GenerateStarts, GenerateReturns
  <1> QED BY <1>1, <1>3, <1>4, <1>5, <1>6, WorkStep DEF modelVars, lifeVars

\* execute_batch takes a batch, defers what does not fit, times out what is late.
LEMMA TakeBatchStep ==
    ASSUME IInv, TakeBatch
    PROVE  IInv' /\ Ends
  <1>1. /\ Types /\ WorkTyped /\ ModelsTyped /\ StatusTells /\ QueuedModelResident /\ StoppedIsIdle
        /\ queue \in Seq(Request) /\ IsInjective(queue) /\ exec = "enter"
        /\ \A r \in Request : status[r] = "QUEUED" <=> r \in Range(queue)
        /\ \A r \in Request : status[r] # "RUNNING"
    BY DEF IInv, Types, WorkTyped, Work, StatusTells, TakeBatch
  <1>2. PICK b, d, late : b = Selection.batch /\ d = Selection.deferred /\ late = Selection.late
    OBVIOUS
  <1>3. /\ b \in Seq(Request) /\ Len(b) <= max_batch_size /\ d \in Seq(Request) /\ Len(d) <= Len(queue)
        /\ IsInjective(d) /\ Range(queue) = Range(b) \cup Range(d) \cup late
        /\ Range(b) \cap Range(d) = {} /\ late \cap (Range(b) \cup Range(d)) = {}
    BY <1>1, <1>2, SelectionFacts
  <1>4. /\ queue' = d /\ batch' = b /\ exec' = IF b = <<>> THEN "idle" ELSE "call"
        /\ lru' = IF b = <<>> THEN lru ELSE Touch(lru, ModelOf[Head(b)])
        /\ status' = [r \in Request |-> IF r \in late THEN "TIMED_OUT"
                                        ELSE IF r \in Range(b) THEN "RUNNING" ELSE status[r]]
        /\ UNCHANGED <<resident, loading, reserved, attempts, failures, runtimeVars, lifeVars, loader, evictor>>
    BY <1>2 DEF TakeBatch
  <1>5. \A r \in Request : status'[r] = IF r \in late THEN "TIMED_OUT"
                                        ELSE IF r \in Range(b) THEN "RUNNING" ELSE status[r]
    BY <1>4
  <1>6. WorkTyped'
    <2>1. status' \in [Request -> Terminal \cup {"ASSIGNED", "QUEUED", "RUNNING"}]
      BY <1>1, <1>4 DEF WorkTyped, Terminal
    <2>2. Len(d) <= max_queue_depth
      BY <1>1, <1>3, WorkerAssumption DEF WorkTyped
    <2> QED BY <1>1, <1>3, <1>4, <2>1, <2>2 DEF WorkTyped, lifeVars
  <1>7. lru' \in Seq(Model)
    <2>1. ASSUME b # <<>> PROVE ModelOf[Head(b)] \in Model
      <3>1. Head(b) \in Request
        BY <1>3, <2>1
      <3> QED BY <3>1, WorkerAssumption
    <2> QED BY <1>1, <1>4, <2>1, UseFacts DEF ModelsTyped
  <1>8. QueuedModelResident'
    BY <1>1, <1>3, <1>4 DEF QueuedModelResident
  <1>9. StatusTells'
    <2>1. Range(b) \subseteq Request
      BY <1>3 DEF Range
    <2>2. \A r \in Request : status'[r] = "QUEUED" <=> r \in Range(d)
      BY <1>1, <1>3, <1>5
    <2>3. \A r \in Request : status'[r] = "RUNNING" => r \in Range(b) /\ exec' = "call"
      <3>1. b = <<>> => Range(b) = {}
        BY DEF Range
      <3> QED BY <1>1, <1>4, <1>5, <3>1
    <2>4. \A r \in Range(b) : status'[r] = "RUNNING"
      BY <1>3, <1>5, <2>1
    <2> QED BY <1>3, <1>4, <2>2, <2>3, <2>4 DEF StatusTells
  <1>10. StoppedIsIdle'
    BY <1>1, <1>4 DEF StoppedIsIdle, lifeVars
  <1>11. IInv'
    BY <1>4, <1>6, <1>7, <1>8, <1>9, <1>10, WorkStep DEF lifeVars
  <1>12. Ends
    BY <1>1, <1>3, <1>5 DEF Ends, Terminal
  <1> QED BY <1>11, <1>12

\* Settling a batch moves what runs, and nothing that ended.
LEMMA SettleFacts ==
    ASSUME IInv, NEW s \in {"COMPLETED", "FAILED"}, Settle(s)
    PROVE  /\ status' \in [Request -> Terminal \cup {"ASSIGNED", "QUEUED", "RUNNING"}] /\ Ends
           /\ \A r \in Request : status'[r] = "QUEUED" <=> status[r] = "QUEUED"
           /\ \A r \in Request : status'[r] # "RUNNING"
           /\ \A r \in Range(batch) : status'[r] \in Terminal
  <1>1. /\ status \in [Request -> Terminal \cup {"ASSIGNED", "QUEUED", "RUNNING"}] /\ s \in Terminal
        /\ Range(batch) \subseteq Request
    BY DEF IInv, Types, WorkTyped, Range, Terminal
  <1>2. /\ \A r \in Request : status[r] = "RUNNING" => r \in Range(batch)
        /\ \A r \in Range(batch) : status[r] \in Terminal \cup {"RUNNING"}
    BY DEF IInv, Work, StatusTells
  <1>3. \A r \in Request : status'[r] = IF r \in Range(batch) /\ status[r] \notin Terminal THEN s ELSE status[r]
    BY DEF Settle
  <1>4. status' \in [Request -> Terminal \cup {"ASSIGNED", "QUEUED", "RUNNING"}]
    BY <1>1 DEF Settle
  <1>5. Ends
    BY <1>3 DEF Ends
  <1>6. \A r \in Range(batch) : status'[r] \in Terminal
    BY <1>1, <1>3
  <1>7. \A r \in Request : status'[r] # "RUNNING"
    BY <1>1, <1>2, <1>3, <1>6 DEF Terminal
  <1>8. \A r \in Request : status'[r] = "QUEUED" <=> status[r] = "QUEUED"
    BY <1>1, <1>2, <1>3 DEF Terminal
  <1> QED BY <1>4, <1>5, <1>6, <1>7, <1>8

\* The batch ends, well or badly.
LEMMA BatchEnds ==
    ASSUME IInv, GenerateRaises \/ CompleteBatch \/ ExecutionFails
    PROVE  IInv' /\ Ends
  <1>1. Types /\ WorkTyped /\ StatusTells /\ QueuedModelResident /\ StoppedIsIdle
    BY DEF IInv, Types, Work
  <1>2. UNCHANGED <<queue, modelVars, runtimeVars, health, draining, stop, unloading, loader, evictor>>
    BY DEF GenerateRaises, CompleteBatch, ExecutionFails, lifeVars
  <1>3. QueuedModelResident' /\ lru' \in Seq(Model)
    BY <1>1, <1>2 DEF QueuedModelResident, modelVars, Types, ModelsTyped
  <1>4. <<>> \in Seq(Request) /\ Len(<<>>) = 0 /\ max_batch_size \in Nat /\ Range(<<>>) = {}
    BY WorkerAssumption DEF Range
  <1>5. CASE GenerateRaises
    <2>1. Settle("FAILED") /\ exec' = "failed" /\ batch' = batch /\ app' = app /\ exec \in {"call", "generate"}
      BY <1>5 DEF GenerateRaises, lifeVars
    <2>2. WorkTyped'
      BY <1>1, <1>2, <2>1, SettleFacts DEF WorkTyped
    <2>3. StatusTells'
      BY <1>1, <1>2, <2>1, SettleFacts DEF StatusTells
    <2>4. StoppedIsIdle'
      BY <1>1, <1>2, <2>1 DEF StoppedIsIdle
    <2> QED BY <1>2, <1>3, <2>1, <2>2, <2>3, <2>4, SettleFacts, WorkStep DEF modelVars
  <1>6. CASE CompleteBatch
    <2>1. Settle("COMPLETED") /\ exec' = "idle" /\ batch' = <<>> /\ app' = app
      BY <1>6 DEF CompleteBatch, lifeVars
    <2>2. WorkTyped'
      <3>1. batch' \in Seq(Request) /\ Len(batch') <= max_batch_size
        BY <1>4, <2>1
      <3> QED BY <1>1, <1>2, <2>1, <3>1, SettleFacts DEF WorkTyped
    <2>3. StatusTells'
      BY <1>1, <1>2, <1>4, <2>1, SettleFacts DEF StatusTells
    <2>4. StoppedIsIdle'
      BY <1>1, <1>2, <2>1 DEF StoppedIsIdle
    <2> QED BY <1>2, <1>3, <2>1, <2>2, <2>3, <2>4, SettleFacts, WorkStep DEF modelVars
  <1>7. CASE ExecutionFails
    <2>1. /\ exec = "failed" /\ exec' = "idle" /\ batch' = <<>> /\ status' = status
          /\ app' = IF app = "running" THEN "failing" ELSE app
      BY <1>7 DEF ExecutionFails, LoopFails
    <2>2. WorkTyped'
      <3>1. batch' \in Seq(Request) /\ Len(batch') <= max_batch_size
        BY <1>4, <2>1
      <3> QED BY <1>1, <1>2, <2>1, <3>1 DEF WorkTyped
    <2>3. StatusTells'
      BY <1>1, <1>2, <1>4, <2>1 DEF StatusTells
    <2>4. StoppedIsIdle'
      BY <1>1, <1>2, <2>1 DEF StoppedIsIdle
    <2>5. Ends
      BY <2>1 DEF Ends
    <2> QED BY <1>2, <1>3, <2>1, <2>2, <2>3, <2>4, <2>5, WorkStep DEF modelVars
  <1> QED BY <1>5, <1>6, <1>7

-----------------------------------------------------------------------------
(* The theorems *)

\* A worker that has not run yet.
LEMMA InitIInv ==
    ASSUME Init
    PROVE  IInv
  <1>1. <<>> \in Seq(Request) /\ <<>> \in Seq(Model) /\ Len(<<>>) = 0 /\ Range(<<>>) = {} /\ IsInjective(<<>>)
    BY DEF Range, IsInjective
  <1>2. Idle \in LoaderRecord /\ Sound(Idle) /\ Idle.at \notin InLoad
    BY DEF Idle, LoaderRecord, Sound, InLoad
  <1>3. LoadersTyped
    BY <1>2 DEF Init, LoadersTyped
  <1>4. EvictorTyped
    BY DEF Init, EvictorTyped, NoEviction
  <1>5. ModelsTyped
    BY <1>1 DEF Init, ModelsTyped
  <1>6. WorkTyped
    <2>1. max_queue_depth \in Nat /\ max_batch_size \in Nat
      BY WorkerAssumption
    <2>2. Len(queue) <= max_queue_depth /\ Len(batch) <= max_batch_size
      BY <1>1, <2>1 DEF Init
    <2> QED BY <1>1, <2>2 DEF Init, WorkTyped
  <1>7. LoadsOwned
    <2>1. \A m \in Model : Mine(m) = {} /\ m \notin loading
      BY <1>2 DEF Init, Mine
    <2>2. Sum(loading) = 0 /\ reserved = 0
      BY SumUnfolds, FS_EmptySet DEF Init, Sum
    <2> QED BY <2>1, <2>2 DEF LoadsOwned
  <1>8. Work
    BY <1>1 DEF Init, Work, QueuedModelResident, StatusTells, StoppedIsIdle, Terminal
  <1> QED BY <1>3, <1>4, <1>5, <1>6, <1>7, <1>8 DEF IInv, Types

\* Every step keeps the invariant and what has ended.
LEMMA NextIInv ==
    ASSUME IInv, [Next]_vars
    PROVE  IInv' /\ Ends
  <1>1. CASE \E l \in Loader : LoaderStep(l) \/ \E m \in Model : LoadModel(l, m)
    BY <1>1, LoadModelStep, WakeStep, EvictOneStep, CallSteps, CleanupStep DEF LoaderStep
  <1>2. CASE \E r \in Request : EnqueueRequest(r) \/ CancelRequest(r) \/ Expire(r)
    BY <1>2, EnqueueStep, CancelStep, ExpireStep
  <1>3. CASE (\E m \in Model : UnloadModel(m)) \/ EvictScan \/ EvictorStep
    BY <1>3, EvictorBegins, UnpublishStep, RuntimeUnloadStep DEF EvictorStep
  <1>4. CASE ExecutionStep
    BY <1>4, ExecutionSteps, TakeBatchStep, BatchEnds DEF ExecutionStep
  <1>5. CASE ShutdownStep \/ Register \/ Stop
    BY <1>5, ShutdownBegins, StopSteps, RegisterStep DEF ShutdownStep
  <1>6. CASE UNCHANGED vars
    <2>1. UNCHANGED <<modelVars, runtimeVars, workVars, lifeVars, loader, evictor>>
      BY <1>6 DEF vars
    <2>2. EvictorTyped' /\ ModelsTyped' /\ draining \in BOOLEAN /\ stop \in BOOLEAN
          /\ app \in {"off", "running", "failing", "unloading"}
      BY <2>1 DEF IInv, Types, EvictorTyped, ModelsTyped, WorkTyped, modelVars, runtimeVars, lifeVars
    <2> QED BY <2>1, <2>2, QueuedFacts, Aside DEF modelVars, lifeVars
  <1> QED BY <1>1, <1>2, <1>3, <1>4, <1>5, <1>6 DEF Next

\* The invariant is a strengthening of WorkerInv.
LEMMA IInvImplies ==
    ASSUME IInv
    PROVE  WorkerInv
  <1>1. Types /\ LoadsOwned /\ Work
    BY DEF IInv
  <1>2. reserved \in Nat
    <2>1. loading \subseteq Model /\ reserved = Sum(loading)
      BY <1>1 DEF Types, ModelsTyped, LoadsOwned
    <2>2. IsFiniteSet(loading) /\ \A m \in loading : Size[m] \in Nat
      BY <2>1, WorkerAssumption, FS_Subset
    <2>3. SumFunctionOnSet(Size, loading) \in Nat
      BY <2>2, SumNat
    <2> QED BY <2>1, <2>3 DEF Sum
  <1>3. TypeOK
    <2>1. \A l \in Loader : loader[l].at \in InLoad \cup {"idle", "wait"}
      BY <1>1 DEF Types, LoadersTyped, LoaderRecord
    <2>2. {resident, loading, loaded, incoming, unloading} \subseteq SUBSET Model /\ lru \in Seq(Model)
          /\ attempts \in [Model -> Nat] /\ failures \in [Model -> Nat]
      BY <1>1 DEF Types, ModelsTyped
    <2> QED BY <1>1, <1>2, <2>1, <2>2 DEF TypeOK, Types, WorkTyped
  <1>4. ReservationsMatchLoads
    <2>1. ASSUME NEW m \in Model PROVE Cardinality(Mine(m)) = IF m \in loading THEN 1 ELSE 0
      BY <1>1, FS_Singleton, FS_EmptySet DEF LoadsOwned
    <2> QED BY <1>1, <2>1 DEF ReservationsMatchLoads, LoadsOwned, Mine
  <1>5. StoppedLeavesNoWork
    BY <1>1 DEF Work, StatusTells, StoppedIsIdle, StoppedLeavesNoWork, Range
  <1> QED BY <1>1, <1>3, <1>4, <1>5 DEF WorkerInv, Work

\* The worker's bookkeeping holds in every reachable state, for any models, requests,
\* callers and memory sizes: reservations are those of the loads in progress, each of
\* which one caller owns; no request waits for a model that was evicted; a stopped
\* worker leaves nothing undone (apps/worker/service.py).
THEOREM WorkerBooksHold == Spec => []WorkerInv
  <1>1. Init => IInv
    BY InitIInv
  <1>2. IInv /\ [Next]_vars => IInv'
    BY NextIInv
  <1>3. IInv => WorkerInv
    BY IInvImplies
  <1> QED BY <1>1, <1>2, <1>3, PTL DEF Spec

\* Whatever order cancellations, deadlines, failures and outputs arrive in, a request
\* that ended keeps the status it ended with.
THEOREM EndsAreFinal == Spec => TerminalIsFinal
  <1>1. Init => IInv
    BY InitIInv
  <1>2. IInv /\ [Next]_vars => IInv'
    BY NextIInv
  <1>3. IInv /\ [Next]_vars => [\A r \in Request : status[r] \in Terminal => status'[r] = status[r]]_vars
    BY NextIInv DEF Ends
  <1> QED BY <1>1, <1>2, <1>3, PTL DEF Spec, TerminalIsFinal

=============================================================================
