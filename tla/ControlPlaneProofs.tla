------------------------- MODULE ControlPlaneProofs -------------------------
(***************************************************************************)
(* Proofs about ControlPlane, for every number of processes, workers and   *)
(* requests and every deployment of Setups.                                *)
(*                                                                         *)
(* The argument is one of ownership.  Records are shared objects, yet each *)
(* is in one place: in one global queue, with one consumer, or at one      *)
(* worker, in its queue or executing; only an in-process worker and the    *)
(* consumer that awaits it share one.  The place tells the status, so      *)
(* every handler knows which transition it makes.  The second half counts  *)
(* the records of one request: unless the request was put back, one of     *)
(* them at most may still start or is executing, and none once its         *)
(* cancellation has found its record.                                      *)
(***************************************************************************)
EXTENDS ControlPlane, FiniteSetTheorems, SequenceTheorems, WellFoundedInduction, TLAPS

-----------------------------------------------------------------------------
(* The inductive invariant *)

\* Addresses a process or a worker has in its hands.
Busy(p) == consumer[p].pc # "idle"
PlaneSide(p) == global_queue[p] \cup (IF Busy(p) THEN {consumer[p].obj} ELSE {})
WorkerSide(w) == Range(queue[w]) \cup running[w]

\* Every pointer leads to a record.
Pointers ==
    /\ \A p \in Process :
          /\ PlaneSide(p) \subseteq DOMAIN heap
          /\ ~Busy(p) => consumer[p] = Idle
          /\ consumer[p].pc \in {"answer", "commit", "await"} => consumer[p].remote \in DOMAIN heap
    /\ \A w \in Worker : WorkerSide(w) \subseteq DOMAIN heap

\* Shared by a consumer and an in-process worker.
SharedWithWorker(p) ==
    IF setup.transport = "local" /\ consumer[p].pc \in {"commit", "await"} THEN {consumer[p].obj} ELSE {}

\* A record is in one place.
OnePlace ==
    /\ \A p, q \in Process : p # q => PlaneSide(p) \cap PlaneSide(q) = {}
    /\ \A p \in Process : Busy(p) => consumer[p].obj \notin global_queue[p]
    /\ \A v, w \in Worker : v # w => WorkerSide(v) \cap WorkerSide(w) = {}
    /\ \A w \in Worker : IsInjective(queue[w]) /\ Range(queue[w]) \cap running[w] = {}
    /\ \A p \in Process, w \in Worker : PlaneSide(p) \cap WorkerSide(w) \subseteq SharedWithWorker(p)

Assigned(pc) == pc \in {"save", "prepare", "handoff", "answer"}

\* Its place tells its status.
PlaceTellsStatus ==
    /\ \A p \in Process :
          /\ \A a \in global_queue[p] : heap[a].status \in {"queued"} \cup Terminal
          /\ consumer[p].pc \in {"assign", "rejected"} => Held(p).status = "queued"
          /\ Assigned(consumer[p].pc) => Held(p).status = "assigned"
          /\ setup.transport = "local" /\ consumer[p].pc \in {"commit", "await"} => consumer[p].remote = consumer[p].obj
          /\ setup.transport = "http" /\ consumer[p].pc \in {"commit", "await"} => Held(p).status \in {"queued"} \cup Terminal
          /\ setup.transport = "local" => consumer[p].pc # "answer"
    /\ \A w \in Worker :
          /\ \A a \in Range(queue[w]) : heap[a].status = "queued"
          /\ \A a \in running[w] : heap[a].status \in {"running"} \cup Terminal
          /\ \A a, b \in running[w] : a = b
          /\ \A a \in WorkerSide(w) : heap[a].worker # NoWorker

\* A cancellation under way has a copy, a recovery that saves a record.
ActorRecords ==
    \A p \in Process :
        /\ canceller[p].pc # "idle" => canceller[p].copy \in Record
        /\ supervisor[p].pc = "saveq" => supervisor[p].obj \in DOMAIN heap

\* A placement reservation lasts as long as its dispatch; an unsaved one stays.
Reservations ==
    \A p \in Process :
        InFlight(p) \subseteq reserved[p] /\ reserved[p] \subseteq InFlight(p) \cup unsaved

Core == Pointers /\ OnePlace /\ PlaceTellsStatus /\ NoRequestLost

IInv == TypeOK /\ Core /\ ActorRecords /\ Reservations

-----------------------------------------------------------------------------
(* Numbers, records and the heap *)

\* A nonempty set of natural numbers has a least one.
LEMMA LeastNatural ==
    ASSUME NEW S, S \subseteq Nat, S # {}
    PROVE  Min(S) \in S /\ \A i \in S : Min(S) <= i
  <1>1. PICK x \in S : \A y \in S : ~(<<y, x>> \in OpToRel(<, Nat))
    BY NatLessThanWellFounded, WFMin
  <1>2. ASSUME NEW y \in S PROVE x <= y
    <2>1. x \in Nat /\ y \in Nat /\ ~(<<y, x>> \in {ss \in Nat \X Nat : ss[1] < ss[2]})
      BY <1>1, Zenon DEF OpToRel
    <2> QED BY <2>1
  <1> QED BY <1>2 DEF Min

\* What the handlers make of a record is a record of the same request.
LEMMA RecordFacts ==
    ASSUME NEW x \in Record, NEW target \in DOMAIN Allowed, NEW y \in Record, NEW st
    PROVE  /\ Transition(x, target) \in Record /\ Transition(x, target).status = target
           /\ Transition(x, target).req = x.req /\ Transition(x, target).worker = x.worker
           /\ Transition(x, target).attempts = x.attempts
           /\ EndIfOpen(x, target) \in Record /\ EndIfOpen(x, target).req = x.req
           /\ EndIfOpen(x, target).worker = x.worker
           /\ Applied(x, y) \in Record /\ Applied(x, y).req = x.req
           /\ Applied(x, y).status = y.status /\ Applied(x, y).worker = y.worker
           /\ Persisted(st, x) \in Record /\ Persisted(st, x).req = x.req
  <1>1. /\ Transition(x, target) \in Record /\ Transition(x, target).status = target
        /\ Transition(x, target).req = x.req /\ Transition(x, target).worker = x.worker
        /\ Transition(x, target).attempts = x.attempts
    BY DEF Record, Transition
  <1>2. /\ EndIfOpen(x, target) \in Record /\ EndIfOpen(x, target).req = x.req
        /\ EndIfOpen(x, target).worker = x.worker
    BY <1>1 DEF EndIfOpen
  <1>3. /\ Applied(x, y) \in Record /\ Applied(x, y).req = x.req
        /\ Applied(x, y).status = y.status /\ Applied(x, y).worker = y.worker
    BY DEF Record, Applied
  <1>4. Persisted(st, x) \in Record /\ Persisted(st, x).req = x.req
    BY DEF Record, Persisted
  <1> QED BY <1>1, <1>2, <1>3, <1>4

\* Statuses.
LEMMA Statuses ==
    /\ Terminal \subseteq DOMAIN Allowed
    /\ {"queued", "assigned", "running"} \subseteq DOMAIN Allowed
    /\ {"queued", "assigned", "running"} \cap Terminal = {}
    /\ "cancelled" \in Terminal /\ "failed" \in Terminal /\ "timed_out" \in Terminal /\ "completed" \in Terminal
  BY DEF Terminal, Allowed

\* The heap after one record changed.
LEMMA HeapUpdate ==
    ASSUME heap \in Seq(Record), NEW a \in DOMAIN heap, NEW x \in Record, heap' = [heap EXCEPT ![a] = x]
    PROVE  /\ heap' \in Seq(Record) /\ Len(heap') = Len(heap) /\ DOMAIN heap' = DOMAIN heap
           /\ heap'[a] = x /\ \A b \in DOMAIN heap : b # a => heap'[b] = heap[b]
  OBVIOUS

\* The heap after several did.
LEMMA HeapMap ==
    ASSUME heap \in Seq(Record), heap' = [a \in DOMAIN heap |-> heap'[a]],
           \A a \in DOMAIN heap : heap'[a] \in Record
    PROVE  heap' \in Seq(Record) /\ Len(heap') = Len(heap) /\ DOMAIN heap' = DOMAIN heap
  OBVIOUS

\* The heap after a record was created.
LEMMA HeapAppend ==
    ASSUME heap \in Seq(Record), NEW x \in Record, heap' = Append(heap, x)
    PROVE  /\ heap' \in Seq(Record) /\ Len(heap') = Len(heap) + 1
           /\ DOMAIN heap' = DOMAIN heap \cup {Len(heap) + 1} /\ Len(heap) + 1 \notin DOMAIN heap
           /\ heap'[Len(heap) + 1] = x /\ \A a \in DOMAIN heap : heap'[a] = heap[a]
  OBVIOUS

-----------------------------------------------------------------------------
(* Moves of records, whichever action makes them *)

\* Nothing moves.
LEMMA NothingMoves ==
    ASSUME Core, UNCHANGED <<setup, heap, global_queue, consumer, queue, running, abandoned>>
    PROVE  Core'
  <1>1. Pointers'
    BY DEF Core, Pointers, PlaneSide, WorkerSide, Busy
  <1>2. OnePlace'
    BY DEF Core, OnePlace, PlaneSide, WorkerSide, Busy, SharedWithWorker
  <1>3. PlaceTellsStatus'
    BY DEF Core, PlaceTellsStatus, WorkerSide, Held, IsTerminal, Assigned
  <1>4. NoRequestLost'
    BY DEF Core, NoRequestLost, IsTerminal
  <1> QED BY <1>1, <1>2, <1>3, <1>4 DEF Core

\* May the consumer of p go on with c when its record has become x?
Onward(p, c, x) ==
    \/ c = Idle /\ IsTerminal(x)
    \/ /\ c.pc # "idle" /\ c.obj = consumer[p].obj
       /\ c.pc \in {"assign", "rejected"} => x.status = "queued"
       /\ Assigned(c.pc) => x.status = "assigned"
       /\ c.pc \in {"answer", "commit", "await"} => c.remote \in DOMAIN heap
       /\ setup.transport = "http" /\ c.pc \in {"commit", "await"} => x.status \in {"queued"} \cup Terminal
       /\ setup.transport = "local" /\ c.pc \in {"commit", "await"} =>
             c.remote = c.obj /\ consumer[p].pc \in {"commit", "await"}
       /\ setup.transport = "local" => c.pc # "answer"
       /\ SharedWithWorker(p) # {} => c.pc \in {"commit", "await"}

\* A consumer changes the record it holds and goes on, or lets go of an ended
\* one; a record shared with a worker it leaves alone.
LEMMA ConsumerMoves ==
    ASSUME TypeOK, Core, NEW p \in Process, Busy(p),
           NEW x \in Record, heap' = [heap EXCEPT ![consumer[p].obj] = x],
           SharedWithWorker(p) # {} => x = Held(p),
           NEW c \in [pc : ConsumerPc, obj : 0..MaxRecords, remote : 0..MaxRecords],
           consumer' = [consumer EXCEPT ![p] = c], Onward(p, c, x),
           UNCHANGED <<setup, global_queue, queue, running, abandoned>>
    PROVE  Core'
  <1> DEFINE a == consumer[p].obj
  <1>1. /\ heap \in Seq(Record)
        /\ consumer \in [Process -> [pc : ConsumerPc, obj : 0..MaxRecords, remote : 0..MaxRecords]]
    BY DEF TypeOK
  <1>2. a \in PlaneSide(p) /\ a \in DOMAIN heap
    BY DEF Core, Pointers, PlaneSide
  <1>3. /\ DOMAIN heap' = DOMAIN heap /\ heap'[a] = x
        /\ \A b \in DOMAIN heap : b # a => heap'[b] = heap[b]
    BY <1>1, <1>2, HeapUpdate
  <1>4. consumer'[p] = c /\ \A q \in Process : q # p => consumer'[q] = consumer[q]
    BY <1>1
  <1>5. \A w \in Worker : a \in WorkerSide(w) => x = heap[a]
    <2> SUFFICES ASSUME NEW w \in Worker, a \in WorkerSide(w) PROVE x = heap[a]
      OBVIOUS
    <2>1. a \in SharedWithWorker(p)
      BY <1>2 DEF Core, OnePlace
    <2> QED BY <2>1 DEF Held
  <1>6. \A q \in Process : q # p => a \notin PlaneSide(q)
    BY <1>2 DEF Core, OnePlace
  <1>7. a \notin global_queue[p]
    BY DEF Core, OnePlace
  <1>8. Pointers'
    <2>1. c.pc = "idle" => c = Idle
      BY DEF Onward
    <2>2. PlaneSide(p)' \subseteq PlaneSide(p)
      BY <1>4 DEF PlaneSide, Busy, Onward, Idle
    <2>3. \A q \in Process : q # p => PlaneSide(q)' = PlaneSide(q)
      BY <1>4 DEF PlaneSide, Busy
    <2>4. \A w \in Worker : WorkerSide(w)' = WorkerSide(w)
      BY DEF WorkerSide
    <2>5. ASSUME NEW q \in Process
          PROVE  /\ ~Busy(q)' => consumer'[q] = Idle
                 /\ consumer'[q].pc \in {"answer", "commit", "await"} => consumer'[q].remote \in DOMAIN heap
      <3>1. CASE q = p
        BY <1>4, <2>1, <3>1 DEF Busy, Onward, Idle
      <3>2. CASE q # p
        BY <1>4, <3>2 DEF Busy, Core, Pointers
      <3> QED BY <3>1, <3>2
    <2> QED BY <1>3, <2>2, <2>3, <2>4, <2>5 DEF Core, Pointers, Idle
  <1>9. OnePlace'
    <2>1. PlaneSide(p)' \subseteq PlaneSide(p)
      BY <1>4 DEF PlaneSide, Busy, Onward, Idle
    <2>2. \A q \in Process : q # p => PlaneSide(q)' = PlaneSide(q) /\ SharedWithWorker(q)' = SharedWithWorker(q)
      BY <1>4 DEF PlaneSide, Busy, SharedWithWorker
    <2>3. \A w \in Worker : WorkerSide(w)' = WorkerSide(w)
      BY DEF WorkerSide
    <2>4. \A q \in Process : Busy(q)' => consumer'[q].obj \notin global_queue'[q]
      BY <1>4, <1>7 DEF Busy, Onward, Idle, Core, OnePlace
    <2>5. ASSUME NEW w \in Worker, NEW b \in PlaneSide(p)', b \in WorkerSide(w)
          PROVE  b \in SharedWithWorker(p)'
      <3>1. b \in SharedWithWorker(p)
        BY <2>1, <2>5 DEF Core, OnePlace
      <3>2. b = a /\ setup.transport = "local" /\ consumer[p].pc \in {"commit", "await"}
        BY <3>1 DEF SharedWithWorker
      <3>3. c.pc # "idle"
        BY <1>4, <1>7, <2>5, <3>2 DEF PlaneSide, Busy
      <3>4. c.obj = a /\ c.pc \in {"commit", "await"}
        BY <3>1, <3>3 DEF Onward, Idle
      <3> QED BY <1>4, <3>2, <3>4 DEF SharedWithWorker
    <2> QED BY <2>1, <2>2, <2>3, <2>4, <2>5 DEF Core, OnePlace
  <1>10. PlaceTellsStatus'
    <2>1. ASSUME NEW q \in Process, q # p
          PROVE  /\ \A b \in global_queue[q] : heap'[b] = heap[b]
                 /\ Busy(q) => Held(q)' = Held(q)
                 /\ consumer'[q] = consumer[q]
      BY <1>3, <1>4, <1>6, <2>1 DEF PlaneSide, Held, Core, Pointers
    <2>2. \A b \in global_queue[p] : heap'[b] = heap[b]
      BY <1>3, <1>7 DEF Core, Pointers, PlaneSide
    <2>3. \A w \in Worker : \A b \in WorkerSide(w) : heap'[b] = heap[b]
      BY <1>3, <1>5 DEF Core, Pointers
    <2>4. c.pc # "idle" => Held(p)' = x
      BY <1>3, <1>4 DEF Held, Onward, Idle
    <2>5. ASSUME NEW q \in Process
          PROVE  /\ \A b \in global_queue'[q] : heap'[b].status \in {"queued"} \cup Terminal
                 /\ consumer'[q].pc \in {"assign", "rejected"} => Held(q)'.status = "queued"
                 /\ Assigned(consumer'[q].pc) => Held(q)'.status = "assigned"
                 /\ setup'.transport = "local" /\ consumer'[q].pc \in {"commit", "await"} =>
                       consumer'[q].remote = consumer'[q].obj
                 /\ setup'.transport = "http" /\ consumer'[q].pc \in {"commit", "await"} =>
                       Held(q)'.status \in {"queued"} \cup Terminal
                 /\ setup'.transport = "local" => consumer'[q].pc # "answer"
      <3>1. CASE q = p
        BY <1>4, <2>2, <2>4, <3>1 DEF Core, PlaceTellsStatus, Onward, Idle, Assigned
      <3>2. CASE q # p
        BY <2>1, <3>2 DEF Core, PlaceTellsStatus, Assigned, Busy
      <3> QED BY <3>1, <3>2
    <2>6. ASSUME NEW w \in Worker
          PROVE  /\ \A b \in Range(queue'[w]) : heap'[b].status = "queued"
                 /\ \A b \in running'[w] : heap'[b].status \in {"running"} \cup Terminal
                 /\ \A b, d \in running'[w] : b = d
                 /\ \A b \in WorkerSide(w)' : heap'[b].worker # NoWorker
      BY <2>3 DEF Core, PlaceTellsStatus, WorkerSide
    <2> QED BY <2>5, <2>6 DEF PlaceTellsStatus
  <1>11. NoRequestLost'
    <2> SUFFICES ASSUME NEW b \in DOMAIN heap, ~IsTerminal(heap'[b]), heap'[b].worker = NoWorker
                 PROVE  b \in abandoned' \/ \E q \in Process : b \in global_queue'[q] \/ consumer'[q].obj = b
      BY <1>3 DEF NoRequestLost
    <2>1. CASE b = a
      <3>1. c # Idle
        BY <1>3, <2>1 DEF Onward, IsTerminal, Idle
      <3> QED BY <1>4, <2>1, <3>1 DEF Onward
    <2>2. CASE b # a
      <3>1. b \in abandoned \/ \E q \in Process : b \in global_queue[q] \/ consumer[q].obj = b
        BY <1>3, <2>2 DEF Core, NoRequestLost, IsTerminal
      <3> QED BY <1>4, <2>2, <3>1
    <2> QED BY <2>1, <2>2
  <1> QED BY <1>8, <1>9, <1>10, <1>11 DEF Core

\* Core', from what each place and each record has become.
LEMMA CoreFromPlaces ==
    ASSUME Core, DOMAIN heap \subseteq DOMAIN heap', setup' = setup,
           \A q \in Process : PlaneSide(q)' \subseteq DOMAIN heap',
           \A q \in Process :
              /\ ~Busy(q)' => consumer'[q] = Idle
              /\ consumer'[q].pc \in {"answer", "commit", "await"} => consumer'[q].remote \in DOMAIN heap',
           \A w \in Worker : WorkerSide(w)' \subseteq DOMAIN heap',
           OnePlace', PlaceTellsStatus', NoRequestLost'
    PROVE  Core'
  BY DEF Core, Pointers

\* A record is created; it enters the queue of p or is done with.  What leaves
\* that queue has ended or is abandoned.
LEMMA RecordEnters ==
    ASSUME TypeOK, Core, NEW p \in Process, NEW x \in Record, heap' = Append(heap, x),
           NEW S, S \subseteq global_queue[p] \cup {Len(heap) + 1},
           global_queue' = [global_queue EXCEPT ![p] = S],
           x.status \in {"queued"} \cup Terminal,
           IsTerminal(x) \/ Len(heap) + 1 \in S,
           abandoned \subseteq abandoned',
           \A a \in global_queue[p] \ S : IsTerminal(heap[a]) \/ a \in abandoned',
           UNCHANGED <<setup, consumer, queue, running>>
    PROVE  Core'
  <1> DEFINE n == Len(heap) + 1
  <1>1. heap \in Seq(Record) /\ global_queue \in [Process -> SUBSET Addr]
    BY DEF TypeOK
  <1>2. /\ DOMAIN heap' = DOMAIN heap \cup {n} /\ n \notin DOMAIN heap
        /\ heap'[n] = x /\ \A a \in DOMAIN heap : heap'[a] = heap[a]
    BY <1>1, HeapAppend
  <1> HIDE DEF n
  <1>3. global_queue'[p] = S /\ \A q \in Process : q # p => global_queue'[q] = global_queue[q]
    BY <1>1
  <1>4. S \subseteq global_queue[p] \cup {n}
    BY DEF n
  <1>5. /\ PlaneSide(p)' \subseteq PlaneSide(p) \cup {n}
        /\ \A q \in Process : q # p => PlaneSide(q)' = PlaneSide(q)
        /\ \A w \in Worker : WorkerSide(w)' = WorkerSide(w)
        /\ \A q \in Process : SharedWithWorker(q)' = SharedWithWorker(q)
    BY <1>3, <1>4 DEF PlaneSide, WorkerSide, SharedWithWorker, Busy
  <1>6. /\ \A q \in Process : PlaneSide(q) \subseteq DOMAIN heap
        /\ \A w \in Worker : WorkerSide(w) \subseteq DOMAIN heap
    BY DEF Core, Pointers
  <1>7. /\ \A q \in Process : PlaneSide(q)' \subseteq DOMAIN heap'
        /\ \A w \in Worker : WorkerSide(w)' \subseteq DOMAIN heap'
    BY <1>2, <1>5, <1>6
  <1>8. ASSUME NEW q \in Process
        PROVE  /\ ~Busy(q)' => consumer'[q] = Idle
               /\ consumer'[q].pc \in {"answer", "commit", "await"} => consumer'[q].remote \in DOMAIN heap'
    BY <1>2 DEF Core, Pointers, Busy
  <1>9. OnePlace'
    <2>1. \A q \in Process : Busy(q)' => consumer'[q].obj \notin global_queue'[q]
      BY <1>2, <1>3, <1>4, <1>6 DEF Core, OnePlace, Busy, PlaneSide
    <2> QED BY <1>2, <1>5, <1>6, <2>1 DEF Core, OnePlace
  <1>10. PlaceTellsStatus'
    <2>1. \A q \in Process : Busy(q) => Held(q)' = Held(q)
      BY <1>2, <1>6 DEF PlaneSide, Held
    <2>2. \A q \in Process : \A b \in global_queue'[q] : heap'[b].status \in {"queued"} \cup Terminal
      BY <1>2, <1>3, <1>4, <1>6 DEF Core, PlaceTellsStatus, PlaneSide
    <2>3. ASSUME NEW q \in Process
          PROVE  /\ consumer'[q].pc \in {"assign", "rejected"} => Held(q)'.status = "queued"
                 /\ Assigned(consumer'[q].pc) => Held(q)'.status = "assigned"
                 /\ setup'.transport = "local" /\ consumer'[q].pc \in {"commit", "await"} =>
                       consumer'[q].remote = consumer'[q].obj
                 /\ setup'.transport = "http" /\ consumer'[q].pc \in {"commit", "await"} =>
                       Held(q)'.status \in {"queued"} \cup Terminal
                 /\ setup'.transport = "local" => consumer'[q].pc # "answer"
      BY <2>1 DEF Core, PlaceTellsStatus, Assigned, Busy
    <2>4. ASSUME NEW w \in Worker
          PROVE  /\ \A b \in Range(queue'[w]) : heap'[b].status = "queued"
                 /\ \A b \in running'[w] : heap'[b].status \in {"running"} \cup Terminal
                 /\ \A b, d \in running'[w] : b = d
                 /\ \A b \in WorkerSide(w)' : heap'[b].worker # NoWorker
      BY <1>2, <1>6 DEF Core, PlaceTellsStatus, WorkerSide
    <2> QED BY <2>2, <2>3, <2>4 DEF PlaceTellsStatus
  <1>11. NoRequestLost'
    <2> SUFFICES ASSUME NEW b \in DOMAIN heap', ~IsTerminal(heap'[b]), heap'[b].worker = NoWorker
                 PROVE  b \in abandoned' \/ \E q \in Process : b \in global_queue'[q] \/ consumer'[q].obj = b
      BY DEF NoRequestLost
    <2>1. CASE b = n
      BY <1>2, <1>3, <2>1 DEF n
    <2>2. CASE b \in DOMAIN heap
      <3>1. b \in abandoned \/ \E q \in Process : b \in global_queue[q] \/ consumer[q].obj = b
        BY <1>2, <2>2 DEF Core, NoRequestLost, IsTerminal
      <3>2. b \in global_queue[p] => b \in S \/ b \in abandoned'
        BY <1>2, <2>2
      <3> QED BY <1>3, <3>1, <3>2
    <2> QED BY <1>2, <2>1, <2>2
  <1> QED BY <1>2, <1>7, <1>8, <1>9, <1>10, <1>11, CoreFromPlaces

\* Records D end and leave the queue of p.
LEMMA RecordsLeaveQueue ==
    ASSUME TypeOK, Core, NEW p \in Process, NEW D, D \subseteq global_queue[p],
           DOMAIN heap' = DOMAIN heap,
           \A a \in DOMAIN heap : IF a \in D THEN IsTerminal(heap'[a]) ELSE heap'[a] = heap[a],
           global_queue' = [global_queue EXCEPT ![p] = @ \ D],
           UNCHANGED <<setup, consumer, queue, running, abandoned>>
    PROVE  Core'
  <1>1. global_queue \in [Process -> SUBSET Addr]
    BY DEF TypeOK
  <1>2. global_queue'[p] = global_queue[p] \ D /\ \A q \in Process : q # p => global_queue'[q] = global_queue[q]
    BY <1>1
  <1>3. /\ \A q \in Process : PlaneSide(q)' \subseteq PlaneSide(q) /\ SharedWithWorker(q)' = SharedWithWorker(q)
        /\ \A w \in Worker : WorkerSide(w)' = WorkerSide(w)
    BY <1>2 DEF PlaneSide, WorkerSide, SharedWithWorker, Busy
  <1>4. /\ \A q \in Process : PlaneSide(q) \subseteq DOMAIN heap
        /\ \A w \in Worker : WorkerSide(w) \subseteq DOMAIN heap
    BY DEF Core, Pointers
  <1>5. /\ \A q \in Process : Busy(q) => consumer[q].obj \notin D
        /\ \A q \in Process : q # p => global_queue[q] \cap D = {}
        /\ \A w \in Worker : WorkerSide(w) \cap D = {}
    <2>1. \A q \in Process : Busy(q) => consumer[q].obj \notin D
      BY DEF Core, OnePlace, PlaneSide
    <2>2. \A q \in Process : q # p => global_queue[q] \cap D = {}
      BY DEF Core, OnePlace, PlaneSide
    <2>3. ASSUME NEW w \in Worker, NEW d \in D PROVE d \notin WorkerSide(w)
      <3>1. d \in PlaneSide(p) /\ d \notin SharedWithWorker(p)
        BY DEF PlaneSide, SharedWithWorker, Core, OnePlace, Busy
      <3> QED BY <3>1 DEF Core, OnePlace
    <2> QED BY <2>1, <2>2, <2>3
  <1>6. OnePlace'
    <2>1. \A q \in Process : Busy(q)' => consumer'[q].obj \notin global_queue'[q]
      BY <1>2 DEF Core, OnePlace, Busy
    <2> QED BY <1>3, <2>1 DEF Core, OnePlace
  <1>7. PlaceTellsStatus'
    <2>1. \A q \in Process : Busy(q) => Held(q)' = Held(q)
      BY <1>4, <1>5 DEF PlaneSide, Held
    <2>2. \A q \in Process : \A b \in global_queue'[q] : heap'[b].status \in {"queued"} \cup Terminal
      BY <1>2, <1>4, <1>5 DEF Core, PlaceTellsStatus, PlaneSide
    <2>3. ASSUME NEW q \in Process
          PROVE  /\ consumer'[q].pc \in {"assign", "rejected"} => Held(q)'.status = "queued"
                 /\ Assigned(consumer'[q].pc) => Held(q)'.status = "assigned"
                 /\ setup'.transport = "local" /\ consumer'[q].pc \in {"commit", "await"} =>
                       consumer'[q].remote = consumer'[q].obj
                 /\ setup'.transport = "http" /\ consumer'[q].pc \in {"commit", "await"} =>
                       Held(q)'.status \in {"queued"} \cup Terminal
                 /\ setup'.transport = "local" => consumer'[q].pc # "answer"
      BY <2>1 DEF Core, PlaceTellsStatus, Assigned, Busy
    <2>4. ASSUME NEW w \in Worker
          PROVE  /\ \A b \in Range(queue'[w]) : heap'[b].status = "queued"
                 /\ \A b \in running'[w] : heap'[b].status \in {"running"} \cup Terminal
                 /\ \A b, d \in running'[w] : b = d
                 /\ \A b \in WorkerSide(w)' : heap'[b].worker # NoWorker
      BY <1>4, <1>5 DEF Core, PlaceTellsStatus, WorkerSide
    <2> QED BY <2>2, <2>3, <2>4 DEF PlaceTellsStatus
  <1>8. NoRequestLost'
    <2> SUFFICES ASSUME NEW b \in DOMAIN heap, ~IsTerminal(heap'[b]), heap'[b].worker = NoWorker
                 PROVE  b \in abandoned' \/ \E q \in Process : b \in global_queue'[q] \/ consumer'[q].obj = b
      BY DEF NoRequestLost
    <2>1. b \notin D /\ heap'[b] = heap[b]
      OBVIOUS
    <2>2. b \in abandoned \/ \E q \in Process : b \in global_queue[q] \/ consumer[q].obj = b
      BY <2>1 DEF Core, NoRequestLost, IsTerminal
    <2> QED BY <1>2, <2>1, <2>2
  <1>9. ASSUME NEW q \in Process
        PROVE  /\ ~Busy(q)' => consumer'[q] = Idle
               /\ consumer'[q].pc \in {"answer", "commit", "await"} => consumer'[q].remote \in DOMAIN heap'
    BY DEF Core, Pointers, Busy
  <1> QED BY <1>3, <1>4, <1>6, <1>7, <1>8, <1>9, CoreFromPlaces

\* A record goes from the queue of p to its consumer, or back.
LEMMA QueueAndConsumer ==
    ASSUME TypeOK, Core, NEW p \in Process, consumer[p].pc \in {"idle", "rejected"},
           NEW S, NEW c \in [pc : ConsumerPc, obj : 0..MaxRecords, remote : 0..MaxRecords],
           S \cup (IF c.pc # "idle" THEN {c.obj} ELSE {}) = PlaneSide(p),
           \/ c = Idle
           \/ c.pc = "assign" /\ c.obj \notin S /\ heap[c.obj].status = "queued",
           \A a \in S : heap[a].status \in {"queued"} \cup Terminal,
           global_queue' = [global_queue EXCEPT ![p] = S], consumer' = [consumer EXCEPT ![p] = c],
           UNCHANGED <<setup, heap, queue, running, abandoned>>
    PROVE  Core'
  <1>1. /\ global_queue \in [Process -> SUBSET Addr]
        /\ consumer \in [Process -> [pc : ConsumerPc, obj : 0..MaxRecords, remote : 0..MaxRecords]]
    BY DEF TypeOK
  <1>2. /\ global_queue'[p] = S /\ consumer'[p] = c
        /\ \A q \in Process : q # p => global_queue'[q] = global_queue[q] /\ consumer'[q] = consumer[q]
    BY <1>1
  <1>3. /\ \A q \in Process : PlaneSide(q)' = PlaneSide(q)
        /\ \A w \in Worker : WorkerSide(w)' = WorkerSide(w)
    BY <1>2 DEF PlaneSide, WorkerSide, Busy
  <1>4. \A q \in Process : SharedWithWorker(q)' = SharedWithWorker(q)
    BY <1>2 DEF SharedWithWorker, Idle
  <1>5. /\ \A q \in Process : PlaneSide(q) \subseteq DOMAIN heap
        /\ \A w \in Worker : WorkerSide(w) \subseteq DOMAIN heap
    BY DEF Core, Pointers
  <1>6. ASSUME NEW q \in Process
        PROVE  /\ ~Busy(q)' => consumer'[q] = Idle
               /\ consumer'[q].pc \in {"answer", "commit", "await"} => consumer'[q].remote \in DOMAIN heap'
    BY <1>2 DEF Core, Pointers, Busy, Idle
  <1>7. OnePlace'
    <2>1. \A q \in Process : Busy(q)' => consumer'[q].obj \notin global_queue'[q]
      BY <1>2 DEF Core, OnePlace, Busy, Idle
    <2> QED BY <1>3, <1>4, <2>1 DEF Core, OnePlace
  <1>8. PlaceTellsStatus'
    <2>1. ASSUME NEW q \in Process
          PROVE  /\ \A b \in global_queue'[q] : heap'[b].status \in {"queued"} \cup Terminal
                 /\ consumer'[q].pc \in {"assign", "rejected"} => Held(q)'.status = "queued"
                 /\ Assigned(consumer'[q].pc) => Held(q)'.status = "assigned"
                 /\ setup'.transport = "local" /\ consumer'[q].pc \in {"commit", "await"} =>
                       consumer'[q].remote = consumer'[q].obj
                 /\ setup'.transport = "http" /\ consumer'[q].pc \in {"commit", "await"} =>
                       Held(q)'.status \in {"queued"} \cup Terminal
                 /\ setup'.transport = "local" => consumer'[q].pc # "answer"
      <3>1. CASE q = p
        BY <1>2, <3>1 DEF Idle, Held, Assigned
      <3>2. CASE q # p
        BY <1>2, <3>2 DEF Core, PlaceTellsStatus, Assigned, Held
      <3> QED BY <3>1, <3>2
    <2>2. ASSUME NEW w \in Worker
          PROVE  /\ \A b \in Range(queue'[w]) : heap'[b].status = "queued"
                 /\ \A b \in running'[w] : heap'[b].status \in {"running"} \cup Terminal
                 /\ \A b, d \in running'[w] : b = d
                 /\ \A b \in WorkerSide(w)' : heap'[b].worker # NoWorker
      BY <1>3 DEF Core, PlaceTellsStatus
    <2> QED BY <2>1, <2>2 DEF PlaceTellsStatus
  <1>9. NoRequestLost'
    <2> SUFFICES ASSUME NEW b \in DOMAIN heap, ~IsTerminal(heap[b]), heap[b].worker = NoWorker
                 PROVE  b \in abandoned' \/ \E q \in Process : b \in global_queue'[q] \/ consumer'[q].obj = b
      BY DEF NoRequestLost, IsTerminal
    <2>1. b \in abandoned \/ \E q \in Process : b \in global_queue[q] \/ consumer[q].obj = b
      BY DEF Core, NoRequestLost
    <2>2. b # 0
      BY DEF TypeOK
    <2>3. b \in global_queue[p] \/ consumer[p].obj = b => b \in PlaneSide(p)
      BY <2>2 DEF PlaneSide, Core, Pointers, Idle
    <2>4. b \in PlaneSide(p) => b \in global_queue'[p] \/ consumer'[p].obj = b
      BY <1>2
    <2> QED BY <1>2, <2>1, <2>3, <2>4
  <1> QED BY <1>3, <1>5, <1>6, <1>7, <1>8, <1>9, CoreFromPlaces

\* The consumer of p hands a record over to worker w: its own to one in process,
\* a new one to a remote one.
LEMMA HandedOver ==
    ASSUME TypeOK, Core, NEW p \in Process, consumer[p].pc = "handoff", NEW w \in Worker, NEW a,
           DOMAIN heap' = DOMAIN heap \cup {a}, \A b \in DOMAIN heap : b # a => heap'[b] = heap[b],
           heap'[a].status = "queued", heap'[a].worker # NoWorker,
           NEW c \in [pc : ConsumerPc, obj : 0..MaxRecords, remote : 0..MaxRecords],
           c.obj = consumer[p].obj, c.remote = a,
           \/ setup.transport = "local" /\ a = consumer[p].obj /\ c.pc = "commit"
           \/ setup.transport = "http" /\ a \notin DOMAIN heap /\ c.pc = "answer",
           a \in Addr, queue' = [queue EXCEPT ![w] = Append(@, a)], consumer' = [consumer EXCEPT ![p] = c],
           UNCHANGED <<setup, global_queue, running, abandoned>>
    PROVE  Core'
  <1>1. /\ queue \in [Worker -> Seq(Addr)]
        /\ consumer \in [Process -> [pc : ConsumerPc, obj : 0..MaxRecords, remote : 0..MaxRecords]]
    BY DEF TypeOK
  <1>2. /\ consumer'[p] = c /\ \A q \in Process : q # p => consumer'[q] = consumer[q]
        /\ queue'[w] = Append(queue[w], a) /\ \A v \in Worker : v # w => queue'[v] = queue[v]
    BY <1>1
  <1>3. /\ \A q \in Process : PlaneSide(q) \subseteq DOMAIN heap
        /\ \A v \in Worker : WorkerSide(v) \subseteq DOMAIN heap
    BY DEF Core, Pointers
  <1>4. consumer[p].obj \in PlaneSide(p)
    BY DEF PlaneSide, Busy
  <1>5. a \in DOMAIN heap => a = consumer[p].obj /\ setup.transport = "local"
    BY <1>3, <1>4
  <1>6. /\ \A v \in Worker : a \notin WorkerSide(v)
        /\ \A q \in Process : q # p => a \notin PlaneSide(q)
        /\ \A q \in Process : a \notin global_queue[q]
    <2>1. \A v \in Worker : consumer[p].obj \notin WorkerSide(v)
      BY <1>4 DEF Core, OnePlace, SharedWithWorker
    <2>2. \A q \in Process : q # p => consumer[p].obj \notin PlaneSide(q)
      BY <1>4 DEF Core, OnePlace
    <2>3. consumer[p].obj \notin global_queue[p]
      BY DEF Core, OnePlace, Busy
    <2> QED BY <1>3, <1>5, <2>1, <2>2, <2>3 DEF PlaneSide
  <1>7. \A q \in Process : PlaneSide(q)' = PlaneSide(q)
    BY <1>2 DEF PlaneSide, Busy
  <1>8. /\ Range(queue'[w]) = Range(queue[w]) \cup {a}
        /\ IsInjective(queue[w]) => IsInjective(queue'[w])
    <2>1. queue[w] \in Seq(Addr) /\ a \notin Range(queue[w])
      BY <1>1, <1>6 DEF WorkerSide
    <2> QED BY <1>2, <2>1 DEF Range, IsInjective
  <1>9. WorkerSide(w)' = WorkerSide(w) \cup {a} /\ \A v \in Worker : v # w => WorkerSide(v)' = WorkerSide(v)
    BY <1>2, <1>8 DEF WorkerSide
  <1>10. /\ SharedWithWorker(p) = {} /\ (setup.transport = "local" => SharedWithWorker(p)' = {a})
         /\ \A q \in Process : q # p => SharedWithWorker(q)' = SharedWithWorker(q)
    BY <1>2 DEF SharedWithWorker
  <1>11. ASSUME NEW q \in Process
         PROVE  /\ ~Busy(q)' => consumer'[q] = Idle
                /\ consumer'[q].pc \in {"answer", "commit", "await"} => consumer'[q].remote \in DOMAIN heap'
    BY <1>2 DEF Core, Pointers, Busy
  <1>12. OnePlace'
    <2>1. \A q \in Process : Busy(q)' => consumer'[q].obj \notin global_queue'[q]
      BY <1>2 DEF Core, OnePlace, Busy
    <2>2. \A v \in Worker : IsInjective(queue'[v]) /\ Range(queue'[v]) \cap running'[v] = {}
      BY <1>2, <1>6, <1>8 DEF Core, OnePlace, WorkerSide
    <2>3. ASSUME NEW q \in Process, NEW v \in Worker, NEW b \in PlaneSide(q)', b \in WorkerSide(v)'
          PROVE  b \in SharedWithWorker(q)'
      <3>1. CASE b = a
        BY <1>3, <1>5, <1>6, <1>7, <1>10, <2>3, <3>1
      <3>2. CASE b # a
        BY <1>7, <1>9, <1>10, <2>3, <3>2 DEF Core, OnePlace
      <3> QED BY <3>1, <3>2
    <2>4. \A v, u \in Worker : v # u => WorkerSide(v)' \cap WorkerSide(u)' = {}
      BY <1>6, <1>9 DEF Core, OnePlace
    <2> QED BY <1>7, <2>1, <2>2, <2>3, <2>4 DEF Core, OnePlace
  <1>13. PlaceTellsStatus'
    <2>1. ASSUME NEW q \in Process, q # p, Busy(q)
          PROVE  Held(q)' = Held(q)
      BY <1>2, <1>3, <1>6, <2>1 DEF Held, PlaneSide
    <2>2. \A q \in Process : \A b \in global_queue[q] : heap'[b] = heap[b]
      BY <1>3, <1>6 DEF PlaneSide
    <2>3. setup.transport = "http" => Held(p)' = Held(p)
      BY <1>2, <1>3, <1>4 DEF Held
    <2>4. ASSUME NEW q \in Process
          PROVE  /\ \A b \in global_queue'[q] : heap'[b].status \in {"queued"} \cup Terminal
                 /\ consumer'[q].pc \in {"assign", "rejected"} => Held(q)'.status = "queued"
                 /\ Assigned(consumer'[q].pc) => Held(q)'.status = "assigned"
                 /\ setup'.transport = "local" /\ consumer'[q].pc \in {"commit", "await"} =>
                       consumer'[q].remote = consumer'[q].obj
                 /\ setup'.transport = "http" /\ consumer'[q].pc \in {"commit", "await"} =>
                       Held(q)'.status \in {"queued"} \cup Terminal
                 /\ setup'.transport = "local" => consumer'[q].pc # "answer"
      <3>1. CASE q = p
        BY <1>2, <2>2, <2>3, <3>1 DEF Core, PlaceTellsStatus, Assigned
      <3>2. CASE q # p
        BY <1>2, <2>1, <2>2, <3>2 DEF Core, PlaceTellsStatus, Assigned, Busy
      <3> QED BY <3>1, <3>2
    <2>5. \A v \in Worker : \A b \in WorkerSide(v) : heap'[b] = heap[b]
      BY <1>3, <1>6
    <2>6. ASSUME NEW v \in Worker
          PROVE  /\ \A b \in Range(queue'[v]) : heap'[b].status = "queued"
                 /\ \A b \in running'[v] : heap'[b].status \in {"running"} \cup Terminal
                 /\ \A b, d \in running'[v] : b = d
                 /\ \A b \in WorkerSide(v)' : heap'[b].worker # NoWorker
      BY <1>2, <1>8, <1>9, <2>5 DEF Core, PlaceTellsStatus, WorkerSide
    <2> QED BY <2>4, <2>6 DEF PlaceTellsStatus
  <1>14. NoRequestLost'
    <2> SUFFICES ASSUME NEW b \in DOMAIN heap', ~IsTerminal(heap'[b]), heap'[b].worker = NoWorker
                 PROVE  b \in abandoned' \/ \E q \in Process : b \in global_queue'[q] \/ consumer'[q].obj = b
      BY DEF NoRequestLost
    <2>1. b \in DOMAIN heap /\ heap'[b] = heap[b]
      OBVIOUS
    <2>2. b \in abandoned \/ \E q \in Process : b \in global_queue[q] \/ consumer[q].obj = b
      BY <2>1 DEF Core, NoRequestLost
    <2> QED BY <1>2, <2>2
  <1>15. /\ \A q \in Process : PlaneSide(q)' \subseteq DOMAIN heap'
         /\ \A v \in Worker : WorkerSide(v)' \subseteq DOMAIN heap'
    BY <1>3, <1>7, <1>9
  <1> QED BY <1>11, <1>12, <1>13, <1>14, <1>15, CoreFromPlaces

\* Worker w goes on with the records it has; E are records that clients of
\* remote workers kept and end now.
LEMMA WorkerMoves ==
    ASSUME TypeOK, Core, NEW w \in Worker, NEW s \in Seq(Addr), NEW R, NEW E,
           DOMAIN heap' = DOMAIN heap,
           \A a \in E : setup.transport = "http" /\ IsTerminal(heap'[a]) /\
              \E q \in Process : consumer[q].pc \in {"commit", "await"} /\ consumer[q].obj = a,
           \A a \in DOMAIN heap \ E :
               heap'[a] = heap[a] \/ (a \in WorkerSide(w) /\ heap'[a].worker = heap[a].worker),
           queue' = [queue EXCEPT ![w] = s], running' = [running EXCEPT ![w] = R],
           Range(s) \subseteq Range(queue[w]), IsInjective(s), R \subseteq WorkerSide(w), Range(s) \cap R = {},
           \A a \in Range(s) : heap'[a] = heap[a],
           \A a \in R : heap'[a].status \in {"running"} \cup Terminal, \A a, b \in R : a = b,
           UNCHANGED <<setup, global_queue, consumer, abandoned>>
    PROVE  Core'
  <1>1. queue \in [Worker -> Seq(Addr)] /\ running \in [Worker -> SUBSET Addr]
    BY DEF TypeOK
  <1>2. /\ queue'[w] = s /\ running'[w] = R
        /\ \A v \in Worker : v # w => queue'[v] = queue[v] /\ running'[v] = running[v]
    BY <1>1
  <1>3. /\ \A q \in Process : PlaneSide(q) \subseteq DOMAIN heap
        /\ \A v \in Worker : WorkerSide(v) \subseteq DOMAIN heap
    BY DEF Core, Pointers
  <1>4. /\ \A q \in Process : PlaneSide(q)' = PlaneSide(q) /\ SharedWithWorker(q)' = SharedWithWorker(q)
        /\ \A v \in Worker : v # w => WorkerSide(v)' = WorkerSide(v)
        /\ WorkerSide(w)' \subseteq WorkerSide(w)
    BY <1>2 DEF PlaneSide, WorkerSide, SharedWithWorker, Busy
  <1>5. ASSUME NEW e \in E
        PROVE  /\ \A q \in Process : e \notin global_queue[q]
               /\ \A v \in Worker : e \notin WorkerSide(v)
    <2>1. PICK q \in Process : consumer[q].pc \in {"commit", "await"} /\ consumer[q].obj = e
      OBVIOUS
    <2>2. e \in PlaneSide(q) /\ e \notin global_queue[q] /\ SharedWithWorker(q) = {}
      BY <2>1 DEF PlaneSide, Busy, Core, OnePlace, SharedWithWorker
    <2> QED BY <2>2 DEF Core, OnePlace, PlaneSide
  <1>6. ASSUME NEW q \in Process
        PROVE  \A a \in global_queue[q] : heap'[a] = heap[a]
    <2> SUFFICES ASSUME NEW a \in global_queue[q] PROVE heap'[a] = heap[a]
      OBVIOUS
    <2>1. a \in PlaneSide(q) /\ a \notin SharedWithWorker(q)
      BY DEF PlaneSide, SharedWithWorker, Core, OnePlace, Busy
    <2> QED BY <1>3, <1>5, <2>1 DEF Core, OnePlace
  <1>7. ASSUME NEW q \in Process, Busy(q)
        PROVE  \/ Held(q)' = Held(q)
               \/ consumer[q].pc \in {"commit", "await"} /\ (setup.transport = "http" => IsTerminal(Held(q)'))
    <2>1. consumer[q].obj \in PlaneSide(q) /\ consumer[q].obj \in DOMAIN heap
      BY <1>3, <1>7 DEF PlaneSide
    <2>2. CASE consumer[q].obj \in E
      <3>1. PICK z \in Process : consumer[z].pc \in {"commit", "await"} /\ consumer[z].obj = consumer[q].obj
        BY <2>2
      <3>2. consumer[q].obj \in PlaneSide(z)
        BY <3>1 DEF PlaneSide, Busy
      <3>3. z = q
        BY <2>1, <3>2 DEF Core, OnePlace
      <3> QED BY <2>2, <3>1, <3>3 DEF Held
    <2>3. CASE consumer[q].obj \in WorkerSide(w)
      <3>1. consumer[q].obj \in SharedWithWorker(q)
        BY <2>1, <2>3 DEF Core, OnePlace
      <3> QED BY <3>1 DEF SharedWithWorker
    <2>4. CASE consumer[q].obj \notin E \cup WorkerSide(w)
      BY <2>1, <2>4 DEF Held
    <2> QED BY <2>2, <2>3, <2>4
  <1>8. OnePlace'
    <2>1. \A q \in Process : Busy(q)' => consumer'[q].obj \notin global_queue'[q]
      BY DEF Core, OnePlace, Busy
    <2>2. \A v \in Worker : IsInjective(queue'[v]) /\ Range(queue'[v]) \cap running'[v] = {}
      BY <1>2 DEF Core, OnePlace
    <2>3. \A v, u \in Worker : v # u => WorkerSide(v)' \cap WorkerSide(u)' = {}
      BY <1>4 DEF Core, OnePlace
    <2>4. \A q \in Process, v \in Worker : PlaneSide(q)' \cap WorkerSide(v)' \subseteq SharedWithWorker(q)'
      BY <1>4 DEF Core, OnePlace
    <2> QED BY <1>4, <2>1, <2>2, <2>3, <2>4 DEF Core, OnePlace
  <1>9. PlaceTellsStatus'
    <2>1. ASSUME NEW q \in Process
          PROVE  /\ \A b \in global_queue'[q] : heap'[b].status \in {"queued"} \cup Terminal
                 /\ consumer'[q].pc \in {"assign", "rejected"} => Held(q)'.status = "queued"
                 /\ Assigned(consumer'[q].pc) => Held(q)'.status = "assigned"
                 /\ setup'.transport = "local" /\ consumer'[q].pc \in {"commit", "await"} =>
                       consumer'[q].remote = consumer'[q].obj
                 /\ setup'.transport = "http" /\ consumer'[q].pc \in {"commit", "await"} =>
                       Held(q)'.status \in {"queued"} \cup Terminal
                 /\ setup'.transport = "local" => consumer'[q].pc # "answer"
      BY <1>6, <1>7 DEF Core, PlaceTellsStatus, Assigned, Busy, IsTerminal
    <2>2. ASSUME NEW v \in Worker, v # w
          PROVE  /\ \A b \in Range(queue'[v]) : heap'[b].status = "queued"
                 /\ \A b \in running'[v] : heap'[b].status \in {"running"} \cup Terminal
                 /\ \A b, d \in running'[v] : b = d
                 /\ \A b \in WorkerSide(v)' : heap'[b].worker # NoWorker
      <3>1. \A b \in WorkerSide(v) : heap'[b] = heap[b]
        BY <1>3, <1>5, <2>2 DEF Core, OnePlace
      <3> QED BY <1>2, <1>4, <2>2, <3>1 DEF Core, PlaceTellsStatus, WorkerSide
    <2>3. /\ \A b \in Range(queue'[w]) : heap'[b].status = "queued"
          /\ \A b \in running'[w] : heap'[b].status \in {"running"} \cup Terminal
          /\ \A b, d \in running'[w] : b = d
          /\ \A b \in WorkerSide(w)' : heap'[b].worker # NoWorker
      <3>1. \A b \in WorkerSide(w) : heap'[b].worker = heap[b].worker
        BY <1>3, <1>5
      <3> QED BY <1>2, <1>4, <3>1 DEF Core, PlaceTellsStatus
    <2> QED BY <2>1, <2>2, <2>3 DEF PlaceTellsStatus
  <1>10. NoRequestLost'
    <2> SUFFICES ASSUME NEW b \in DOMAIN heap, ~IsTerminal(heap'[b]), heap'[b].worker = NoWorker
                 PROVE  b \in abandoned' \/ \E q \in Process : b \in global_queue'[q] \/ consumer'[q].obj = b
      BY DEF NoRequestLost
    <2>1. heap'[b] = heap[b]
      BY DEF Core, PlaceTellsStatus
    <2>2. b \in abandoned \/ \E q \in Process : b \in global_queue[q] \/ consumer[q].obj = b
      BY <2>1 DEF Core, NoRequestLost, IsTerminal
    <2> QED BY <2>2
  <1>11. ASSUME NEW q \in Process
         PROVE  /\ ~Busy(q)' => consumer'[q] = Idle
                /\ consumer'[q].pc \in {"answer", "commit", "await"} => consumer'[q].remote \in DOMAIN heap'
    BY DEF Core, Pointers, Busy
  <1>12. /\ \A q \in Process : PlaneSide(q)' \subseteq DOMAIN heap'
         /\ \A v \in Worker : WorkerSide(v)' \subseteq DOMAIN heap'
    BY <1>3, <1>4
  <1> QED BY <1>8, <1>9, <1>10, <1>11, <1>12, CoreFromPlaces

-----------------------------------------------------------------------------
(* Steps of a consumer *)

\* What NoInvalidTransition asks of a step.
Lawful ==
    \A a \in DOMAIN heap :
        \/ heap'[a].status \in Allowed[heap[a].status] \cup {heap[a].status}
        \/ setup.transport = "http" /\ \E p \in Process : At(p, "await") /\ consumer[p].obj = a

\* The store after a save, or without one.
LEMMA StoreTyped ==
    ASSUME TypeOK, NEW x \in Record, Save(x) \/ UNCHANGED store
    PROVE  store' \in [Request -> Record \cup {<<>>}]
  <1>1. Copy(x) \in Record /\ x.req \in Request
    BY RecordFacts, Statuses DEF Copy, Record
  <1> QED BY <1>1 DEF TypeOK, Save

\* Reservations depend on the records only through their requests.
LEMMA ReservationsKept ==
    ASSUME TypeOK, Core, Reservations, DOMAIN heap \subseteq DOMAIN heap',
           \A a \in DOMAIN heap : heap'[a].req = heap[a].req,
           UNCHANGED <<consumer, reserved, unsaved>>
    PROVE  Reservations'
  <1> SUFFICES ASSUME NEW p \in Process
               PROVE  InFlight(p)' = InFlight(p)
    BY DEF Reservations
  <1>1. Busy(p) => consumer[p].obj \in DOMAIN heap
    BY DEF Core, Pointers, PlaneSide
  <1> QED BY <1>1 DEF InFlight, Held, Busy

\* The steps of the other actors are not in the way of cancellations and recoveries.
LEMMA ActorRecordsKept ==
    ASSUME ActorRecords, DOMAIN heap \subseteq DOMAIN heap', UNCHANGED <<canceller, supervisor>>
    PROVE  ActorRecords'
  BY DEF ActorRecords

Dispatching == {"save", "prepare", "handoff", "answer", "commit"}

\* A consumer turns its record into x and goes on as c; R and U are the
\* reservations and unsaved requests it leaves.
LEMMA ConsumerGoesOn ==
    ASSUME IInv, NEW p \in Process, Busy(p),
           NEW x \in Record, heap' = [heap EXCEPT ![consumer[p].obj] = x], x.req = Held(p).req,
           SharedWithWorker(p) # {} => x = Held(p),
           \/ x.status \in Allowed[Held(p).status] \cup {Held(p).status}
           \/ setup.transport = "http" /\ At(p, "await"),
           NEW c \in [pc : ConsumerPc, obj : 0..MaxRecords, remote : 0..MaxRecords],
           consumer' = [consumer EXCEPT ![p] = c], Onward(p, c, x),
           store' \in [Request -> Record \cup {<<>>}], events' \in Nat,
           reserved' \in [Process -> SUBSET Request],
           \A q \in Process : q # p => reserved'[q] = reserved[q],
           unsaved \subseteq unsaved', unsaved' \subseteq Request,
           c.pc \in Dispatching => Held(p).req \in reserved'[p],
           reserved'[p] \subseteq unsaved' \cup (IF c.pc \in Dispatching THEN {Held(p).req} ELSE {}),
           UNCHANGED <<setup, late, global_queue, health, directory, canceller, supervisor, lease,
                       workerVars, runs, confirmed, rerun, abandoned>>
    PROVE  IInv' /\ Lawful
  <1> DEFINE a == consumer[p].obj
  <1>1. TypeOK /\ Core /\ ActorRecords /\ Reservations
    BY DEF IInv
  <1>2. heap \in Seq(Record) /\ Len(heap) <= MaxRecords
    BY <1>1 DEF TypeOK
  <1>3. a \in DOMAIN heap
    BY <1>1 DEF Core, Pointers, PlaneSide
  <1>4. /\ heap' \in Seq(Record) /\ Len(heap') = Len(heap) /\ DOMAIN heap' = DOMAIN heap
        /\ heap'[a] = x /\ \A b \in DOMAIN heap : b # a => heap'[b] = heap[b]
    BY <1>2, <1>3, HeapUpdate
  <1>5. consumer'[p] = c /\ \A q \in Process : q # p => consumer'[q] = consumer[q]
    BY <1>1 DEF TypeOK
  <1>6. TypeOK'
    BY <1>1, <1>2, <1>4 DEF TypeOK, workerVars
  <1>7. Core'
    <2>1. UNCHANGED <<setup, global_queue, queue, running, abandoned>>
      BY DEF workerVars
    <2> QED BY <1>1, <2>1, ConsumerMoves
  <1>8. ActorRecords'
    BY <1>1, <1>4, ActorRecordsKept
  <1>9. Reservations'
    <2> SUFFICES ASSUME NEW q \in Process
                 PROVE  InFlight(q)' \subseteq reserved'[q] /\ reserved'[q] \subseteq InFlight(q)' \cup unsaved'
      BY DEF Reservations
    <2>1. CASE q = p
      <3>1. c.pc \in Dispatching => Held(p)' = x
        BY <1>4, <1>5 DEF Held, Onward, Idle, Dispatching
      <3>2. InFlight(p)' = IF c.pc \in Dispatching THEN {Held(p).req} ELSE {}
        BY <1>5, <3>1 DEF InFlight, Dispatching
      <3> QED BY <2>1, <3>2
    <2>2. CASE q # p
      <3>1. Busy(q) => consumer[q].obj \in DOMAIN heap
        BY <1>1 DEF Core, Pointers, PlaneSide
      <3>2. Busy(q) => Held(q)'.req = Held(q).req
        BY <1>4, <1>5, <2>2, <3>1 DEF Held
      <3>3. InFlight(q)' = InFlight(q)
        BY <1>5, <2>2, <3>2 DEF InFlight, Busy
      <3> QED BY <1>1, <2>2, <3>3 DEF Reservations
    <2> QED BY <2>1, <2>2
  <1>10. Lawful
    BY <1>3, <1>4 DEF Lawful, Held
  <1> QED BY <1>6, <1>7, <1>8, <1>9, <1>10 DEF IInv

\* What a consumer at work knows.
LEMMA Holding ==
    ASSUME IInv, NEW p \in Process, Busy(p)
    PROVE  /\ Held(p) \in Record /\ Held(p).req \in Request /\ Held(p).status \in DOMAIN Allowed
           /\ consumer[p] \in [pc : ConsumerPc, obj : 0..MaxRecords, remote : 0..MaxRecords]
           /\ consumer[p].obj \in DOMAIN heap
           /\ heap = [heap EXCEPT ![consumer[p].obj] = Held(p)]
           /\ consumer[p].pc \in {"assign", "rejected"} => Held(p).status = "queued"
           /\ Assigned(consumer[p].pc) => Held(p).status = "assigned"
           /\ consumer[p].pc \in Dispatching => Held(p).req \in reserved[p]
           /\ reserved[p] \subseteq unsaved \cup (IF consumer[p].pc \in Dispatching THEN {Held(p).req} ELSE {})
           /\ reserved \in [Process -> SUBSET Request] /\ unsaved \subseteq Request /\ events \in Nat
           /\ SharedWithWorker(p) # {} => setup.transport = "local" /\ consumer[p].pc \in {"commit", "await"}
  <1>1. TypeOK /\ Core /\ Reservations
    BY DEF IInv
  <1>2. consumer[p].obj \in DOMAIN heap
    BY <1>1 DEF Core, Pointers, PlaneSide
  <1>3. heap \in Seq(Record)
    BY <1>1 DEF TypeOK
  <1>4. Held(p) \in Record /\ heap = [heap EXCEPT ![consumer[p].obj] = Held(p)]
    BY <1>2, <1>3 DEF Held
  <1>5. Held(p).req \in Request /\ Held(p).status \in DOMAIN Allowed
    BY <1>4 DEF Record
  <1>6. /\ consumer[p].pc \in Dispatching => Held(p).req \in reserved[p]
        /\ reserved[p] \subseteq unsaved \cup (IF consumer[p].pc \in Dispatching THEN {Held(p).req} ELSE {})
    BY <1>1 DEF Reservations, InFlight, Dispatching
  <1>7. /\ reserved \in [Process -> SUBSET Request] /\ unsaved \subseteq Request /\ events \in Nat
        /\ consumer[p] \in [pc : ConsumerPc, obj : 0..MaxRecords, remote : 0..MaxRecords]
    BY <1>1 DEF TypeOK
  <1>8. /\ consumer[p].pc \in {"assign", "rejected"} => Held(p).status = "queued"
        /\ Assigned(consumer[p].pc) => Held(p).status = "assigned"
        /\ SharedWithWorker(p) # {} => setup.transport = "local" /\ consumer[p].pc \in {"commit", "await"}
    BY <1>1 DEF Core, PlaceTellsStatus, SharedWithWorker
  <1> QED BY <1>2, <1>4, <1>5, <1>6, <1>7, <1>8

\* The transitions the handlers make.
LEMMA Transitions ==
    /\ {"assigned", "running", "timed_out", "cancelled", "failed"} \subseteq Allowed["queued"]
    /\ {"queued", "timed_out", "cancelled", "failed"} \subseteq Allowed["assigned"]
    /\ {"completed", "timed_out", "cancelled", "failed"} \subseteq Allowed["running"]
  BY DEF Allowed

\* Where Goto and Leave take a consumer.
LEMMA NextPlace ==
    ASSUME TypeOK, NEW p \in Process, NEW pc \in ConsumerPc
    PROVE  /\ LET c == [consumer[p] EXCEPT !.pc = pc]
              IN  /\ c \in [pc : ConsumerPc, obj : 0..MaxRecords, remote : 0..MaxRecords]
                  /\ c.pc = pc /\ c.obj = consumer[p].obj /\ c.remote = consumer[p].remote
                  /\ Goto(p, pc) => consumer' = [consumer EXCEPT ![p] = c]
           /\ Idle \in [pc : ConsumerPc, obj : 0..MaxRecords, remote : 0..MaxRecords]
           /\ Idle.pc = "idle"
           /\ Leave(p) => consumer' = [consumer EXCEPT ![p] = Idle]
  <1>1. /\ consumer \in [Process -> [pc : ConsumerPc, obj : 0..MaxRecords, remote : 0..MaxRecords]]
        /\ MaxRecords \in Nat
    BY ControlPlaneAssumption DEF TypeOK
  <1> QED BY <1>1 DEF Goto, Leave, Idle, ConsumerPc

\* Too late, without a worker or reserved already: the record ends.
LEMMA AssignRaisesStep ==
    ASSUME IInv, NEW p \in Process, AssignRaises(p)
    PROVE  IInv' /\ Lawful
  <1> DEFINE y == IF Held(p).req \in late THEN Transition(Held(p), "timed_out") ELSE Held(p)
  <1> DEFINE x == EndIfOpen(y, "failed")
  <1>1. At(p, "assign") /\ Busy(p) /\ TypeOK
    BY DEF AssignRaises, At, Busy, IInv
  <1>2. Held(p) \in Record /\ Held(p).status = "queued" /\ Held(p).req \in Request
    BY <1>1, Holding DEF At
  <1>3. y \in Record /\ y.req = Held(p).req /\ y.status \in {"timed_out", "queued"}
    BY <1>2, RecordFacts, Statuses
  <1>4. FailAndSave(p, y, "failed")
    BY DEF AssignRaises
  <1> HIDE DEF y
  <1>5. x \in Record /\ x.req = Held(p).req /\ IsTerminal(x) /\ x.status \in {"timed_out", "failed"}
    BY <1>3, RecordFacts, Statuses DEF EndIfOpen, IsTerminal
  <1>6. Transition(y, "failed") \in Record
    BY <1>3, RecordFacts, Statuses
  <1>7. heap' = [heap EXCEPT ![consumer[p].obj] = x] /\ Leave(p)
    BY <1>4 DEF FailAndSave, SetHeld
  <1>8. store' \in [Request -> Record \cup {<<>>}]
    BY <1>1, <1>4, <1>6, StoreTyped DEF FailAndSave
  <1>9. /\ UNCHANGED <<setup, late, global_queue, health, directory, reserved, canceller, supervisor, lease,
                       workerVars, events, runs, unsaved, confirmed, rerun, abandoned>>
    BY DEF AssignRaises, planeVars, historyVars
  <1>10. x.status \in Allowed[Held(p).status]
    BY <1>2, <1>5, Transitions
  <1>11. /\ SharedWithWorker(p) = {} /\ reserved[p] \subseteq unsaved
         /\ reserved' \in [Process -> SUBSET Request] /\ events' \in Nat /\ unsaved' \subseteq Request
    BY <1>1, <1>9, Holding DEF At, Dispatching
  <1>12. /\ consumer' = [consumer EXCEPT ![p] = Idle] /\ Idle.pc \notin Dispatching
         /\ Idle \in [pc : ConsumerPc, obj : 0..MaxRecords, remote : 0..MaxRecords]
    BY <1>1, <1>7, NextPlace DEF Dispatching, Idle, ConsumerPc
  <1>13. Onward(p, Idle, x)
    BY <1>5 DEF Onward
  <1> HIDE DEF x
  <1> QED BY <1>1, <1>5, <1>7, <1>8, <1>9, <1>10, <1>11, <1>12, <1>13, ConsumerGoesOn

\* A worker is chosen: QUEUED -> ASSIGNED, in the consumer's hands only.
LEMMA AssignStep ==
    ASSUME IInv, NEW p \in Process, Assign(p)
    PROVE  IInv' /\ Lawful
  <1> DEFINE c == [consumer[p] EXCEPT !.pc = "save"]
  <1>1. At(p, "assign") /\ Busy(p) /\ TypeOK
    BY DEF Assign, At, Busy, IInv
  <1>2. Held(p) \in Record /\ Held(p).status = "queued" /\ Held(p).req \in Request
    BY <1>1, Holding DEF At
  <1>3. PICK w \in Eligible(p) :
            SetHeld(p, Transition([Held(p) EXCEPT !.worker = w, !.attempts = @ + 1], "assigned"))
    BY DEF Assign
  <1> DEFINE x == Transition([Held(p) EXCEPT !.worker = w, !.attempts = @ + 1], "assigned")
  <1>4. x \in Record /\ x.req = Held(p).req /\ x.status = "assigned"
    <2> DEFINE y == [Held(p) EXCEPT !.worker = w, !.attempts = @ + 1]
    <2>1. w \in Worker /\ Held(p).attempts + 1 \in Nat
      BY <1>2 DEF Record, Eligible
    <2>2. y \in Record /\ y.req = Held(p).req
      BY <1>2, <2>1 DEF Record
    <2> HIDE DEF y
    <2>3. Transition(y, "assigned") \in Record /\ Transition(y, "assigned").req = y.req
          /\ Transition(y, "assigned").status = "assigned"
      BY <2>2, RecordFacts, Statuses
    <2> QED BY <2>2, <2>3 DEF y
  <1>5. heap' = [heap EXCEPT ![consumer[p].obj] = x]
    BY <1>3 DEF SetHeld
  <1>6. /\ c \in [pc : ConsumerPc, obj : 0..MaxRecords, remote : 0..MaxRecords]
        /\ c.pc = "save" /\ c.obj = consumer[p].obj /\ consumer' = [consumer EXCEPT ![p] = c]
    BY <1>1, NextPlace DEF Assign, ConsumerPc
  <1> HIDE DEF x, c
  <1>7. x.status \in Allowed[Held(p).status]
    BY <1>2, <1>4, Transitions
  <1>8. SharedWithWorker(p) = {} /\ reserved[p] \subseteq unsaved
    BY <1>1, Holding DEF At, Dispatching
  <1>9. Onward(p, c, x)
    BY <1>4, <1>6, <1>8 DEF Onward, Assigned
  <1>10. /\ UNCHANGED <<setup, late, global_queue, health, directory, canceller, supervisor, lease,
                       workerVars, runs, confirmed, rerun, abandoned>>
         /\ UNCHANGED <<store, events, unsaved>>
    BY DEF Assign, historyVars
  <1>11. reserved' = [reserved EXCEPT ![p] = @ \cup {Held(p).req}]
    BY DEF Assign
  <1>12. /\ reserved' \in [Process -> SUBSET Request] /\ reserved'[p] = reserved[p] \cup {Held(p).req}
         /\ \A q \in Process : q # p => reserved'[q] = reserved[q]
    BY <1>1, <1>2, <1>11 DEF TypeOK
  <1>13. store' \in [Request -> Record \cup {<<>>}] /\ events' \in Nat /\ unsaved' \subseteq Request
    BY <1>1, <1>10 DEF TypeOK
  <1>14. /\ c.pc \in Dispatching => Held(p).req \in reserved'[p]
         /\ reserved'[p] \subseteq unsaved' \cup (IF c.pc \in Dispatching THEN {Held(p).req} ELSE {})
         /\ unsaved \subseteq unsaved'
    BY <1>6, <1>8, <1>10, <1>12 DEF Dispatching
  <1> QED BY <1>1, <1>4, <1>5, <1>6, <1>7, <1>8, <1>9, <1>10, <1>12, <1>13, <1>14, ConsumerGoesOn

\* The first save changes the store and not the record.
LEMMA SaveAssignedStep ==
    ASSUME IInv, NEW p \in Process, SaveAssigned(p)
    PROVE  IInv' /\ Lawful
  <1> DEFINE c == [consumer[p] EXCEPT !.pc = "prepare"]
  <1>1. At(p, "save") /\ Busy(p) /\ TypeOK
    BY DEF SaveAssigned, At, Busy, IInv
  <1>2. /\ Held(p) \in Record /\ Held(p).status = "assigned" /\ SharedWithWorker(p) = {}
        /\ heap' = [heap EXCEPT ![consumer[p].obj] = Held(p)]
    BY <1>1, Holding DEF At, Assigned, SaveAssigned
  <1>3. /\ c \in [pc : ConsumerPc, obj : 0..MaxRecords, remote : 0..MaxRecords]
        /\ c.pc = "prepare" /\ c.obj = consumer[p].obj /\ consumer' = [consumer EXCEPT ![p] = c]
    BY <1>1, NextPlace DEF SaveAssigned, ConsumerPc
  <1> HIDE DEF c
  <1>4. Onward(p, c, Held(p))
    BY <1>2, <1>3 DEF Onward, Assigned
  <1>5. UNCHANGED <<setup, late, global_queue, health, directory, canceller, supervisor, lease,
                    workerVars, runs, confirmed, rerun, abandoned, reserved, unsaved, events>>
    BY DEF SaveAssigned, historyVars, planeVars
  <1>6. store' \in [Request -> Record \cup {<<>>}]
    BY <1>1, <1>2, StoreTyped DEF SaveAssigned
  <1>7. /\ reserved' \in [Process -> SUBSET Request] /\ events' \in Nat /\ unsaved' \subseteq Request
        /\ \A q \in Process : q # p => reserved'[q] = reserved[q]
        /\ c.pc \in Dispatching => Held(p).req \in reserved'[p]
        /\ reserved'[p] \subseteq unsaved' \cup (IF c.pc \in Dispatching THEN {Held(p).req} ELSE {})
        /\ unsaved \subseteq unsaved'
    BY <1>1, <1>3, <1>5, Holding DEF At, Dispatching
  <1> QED BY <1>1, <1>2, <1>3, <1>4, <1>5, <1>6, <1>7, ConsumerGoesOn

\* The first save fails: the reservation stays, as unsaved says.
LEMMA SaveAssignedRaisesStep ==
    ASSUME IInv, NEW p \in Process, SaveAssignedRaises(p)
    PROVE  IInv' /\ Lawful
  <1> DEFINE x == Transition(Held(p), "failed")
  <1>1. At(p, "save") /\ Busy(p) /\ TypeOK
    BY DEF SaveAssignedRaises, At, Busy, IInv
  <1>2. /\ Held(p) \in Record /\ Held(p).status = "assigned" /\ SharedWithWorker(p) = {}
        /\ Held(p).req \in Request
    BY <1>1, Holding DEF At, Assigned
  <1>3. /\ x \in Record /\ x.req = Held(p).req /\ x.status = "failed" /\ IsTerminal(x)
        /\ x.status \in Allowed[Held(p).status]
    BY <1>2, RecordFacts, Statuses, Transitions DEF IsTerminal
  <1>4. heap' = [heap EXCEPT ![consumer[p].obj] = x]
    BY DEF SaveAssignedRaises, SetHeld
  <1> HIDE DEF x
  <1>5. /\ consumer' = [consumer EXCEPT ![p] = Idle] /\ Idle.pc \notin Dispatching
        /\ Idle \in [pc : ConsumerPc, obj : 0..MaxRecords, remote : 0..MaxRecords]
        /\ Onward(p, Idle, x)
    BY <1>1, <1>3, NextPlace DEF SaveAssignedRaises, Dispatching, Idle, ConsumerPc, Onward
  <1>6. /\ UNCHANGED <<setup, late, global_queue, health, directory, canceller, supervisor, lease,
                       workerVars, runs, confirmed, rerun, abandoned>>
        /\ UNCHANGED <<store, reserved>> /\ unsaved' = unsaved \cup {Held(p).req} /\ events' = events + 1
    BY DEF SaveAssignedRaises, planeVars, Event
  <1>7. /\ reserved' \in [Process -> SUBSET Request] /\ events' \in Nat /\ unsaved' \subseteq Request
        /\ \A q \in Process : q # p => reserved'[q] = reserved[q]
        /\ reserved'[p] \subseteq unsaved' /\ unsaved \subseteq unsaved'
    BY <1>1, <1>2, <1>6, Holding DEF At, Dispatching
  <1>8. store' \in [Request -> Record \cup {<<>>}]
    BY <1>1, <1>6 DEF TypeOK
  <1> QED BY <1>1, <1>2, <1>3, <1>4, <1>5, <1>6, <1>7, <1>8, ConsumerGoesOn

\* dispatch's error handler, from wherever it is entered.
LEMMA RejectStep ==
    ASSUME IInv, NEW p \in Process, consumer[p].pc \in {"prepare", "handoff", "answer"}, Reject(p),
           events' \in Nat,
           UNCHANGED <<setup, store, late, global_queue, health, directory, canceller, supervisor, lease,
                       workerVars, historyVars>>
    PROVE  IInv' /\ Lawful
  <1> DEFINE x == [Transition(Held(p), "queued") EXCEPT !.worker = NoWorker]
  <1> DEFINE c == [consumer[p] EXCEPT !.pc = "rejected"]
  <1>1. Busy(p) /\ TypeOK
    BY DEF Busy, IInv
  <1>2. /\ Held(p) \in Record /\ Held(p).status = "assigned" /\ SharedWithWorker(p) = {}
        /\ Held(p).req \in Request
    BY <1>1, Holding DEF Assigned
  <1>3. x \in Record /\ x.req = Held(p).req /\ x.status = "queued"
    <2>1. Transition(Held(p), "queued") \in Record /\ Transition(Held(p), "queued").req = Held(p).req
          /\ Transition(Held(p), "queued").status = "queued"
      BY <1>2, RecordFacts, Statuses
    <2> QED BY <2>1 DEF Record
  <1>4. x.status \in Allowed[Held(p).status]
    BY <1>2, <1>3, Transitions
  <1>5. heap' = [heap EXCEPT ![consumer[p].obj] = x]
    BY DEF Reject, SetHeld
  <1>6. /\ c \in [pc : ConsumerPc, obj : 0..MaxRecords, remote : 0..MaxRecords]
        /\ c.pc = "rejected" /\ c.obj = consumer[p].obj /\ consumer' = [consumer EXCEPT ![p] = c]
    BY <1>1, NextPlace DEF Reject, ConsumerPc
  <1> HIDE DEF x, c
  <1>7. Onward(p, c, x)
    BY <1>2, <1>3, <1>6 DEF Onward, Assigned
  <1>8. reserved' = [reserved EXCEPT ![p] = @ \ {Held(p).req}]
    BY DEF Reject, ReleaseAssignment
  <1>9. UNCHANGED <<unsaved, runs, confirmed, rerun, abandoned>>
    BY DEF historyVars
  <1>10. /\ reserved' \in [Process -> SUBSET Request] /\ unsaved' \subseteq Request
         /\ \A q \in Process : q # p => reserved'[q] = reserved[q]
         /\ reserved'[p] \subseteq unsaved' /\ unsaved \subseteq unsaved' /\ c.pc \notin Dispatching
    BY <1>1, <1>6, <1>8, <1>9, Holding DEF Dispatching
  <1>11. store' \in [Request -> Record \cup {<<>>}]
    BY <1>1 DEF TypeOK
  <1> QED BY <1>1, <1>2, <1>3, <1>4, <1>5, <1>6, <1>7, <1>9, <1>10, <1>11, ConsumerGoesOn

\* Preparing fails before the worker saw anything.
LEMMA PrepareRaisesStep ==
    ASSUME IInv, NEW p \in Process, PrepareRaises(p)
    PROVE  IInv' /\ Lawful
  <1>1. consumer[p].pc = "prepare" /\ Reject(p)
    BY DEF PrepareRaises, At
  <1>2. events' \in Nat
    BY DEF PrepareRaises, Event, IInv, TypeOK
  <1> QED BY <1>1, <1>2, RejectStep DEF PrepareRaises

\* The worker refuses, or the call is lost before it arrives.
LEMMA HandoffRaisesStep ==
    ASSUME IInv, NEW p \in Process, HandoffRaises(p)
    PROVE  IInv' /\ Lawful
  <1>1. consumer[p].pc \in {"handoff", "answer"} /\ Reject(p)
    BY DEF HandoffRaises, At
  <1>2. events' \in Nat
    BY DEF HandoffRaises, Event, IInv, TypeOK
  <1> QED BY <1>1, <1>2, RejectStep DEF HandoffRaises

\* A prepared record stays ASSIGNED; a late one ends and is released.
LEMMA PrepareStep ==
    ASSUME IInv, NEW p \in Process, Prepare(p)
    PROVE  IInv' /\ Lawful
  <1>1. At(p, "prepare") /\ Busy(p) /\ TypeOK
    BY DEF Prepare, At, Busy, IInv
  <1>2. /\ Held(p) \in Record /\ Held(p).status = "assigned" /\ SharedWithWorker(p) = {}
        /\ Held(p).req \in Request /\ heap = [heap EXCEPT ![consumer[p].obj] = Held(p)]
        /\ Held(p).req \in reserved[p] /\ reserved[p] \subseteq unsaved \cup {Held(p).req}
        /\ reserved \in [Process -> SUBSET Request] /\ unsaved \subseteq Request /\ events \in Nat
    BY <1>1, Holding DEF At, Assigned, Dispatching
  <1>3. UNCHANGED <<setup, late, global_queue, health, directory, canceller, supervisor, lease,
                    workerVars, runs, confirmed, rerun, abandoned, store, events, unsaved>>
    BY DEF Prepare, historyVars
  <1>4. store' \in [Request -> Record \cup {<<>>}]
    BY <1>1, <1>3 DEF TypeOK
  <1>5. CASE Held(p).req \in late
    <2> DEFINE x == Transition(Held(p), "timed_out")
    <2>1. /\ x \in Record /\ x.req = Held(p).req /\ IsTerminal(x)
          /\ x.status \in Allowed[Held(p).status]
      BY <1>2, RecordFacts, Statuses, Transitions DEF IsTerminal
    <2>2. heap' = [heap EXCEPT ![consumer[p].obj] = x]
      BY <1>5 DEF Prepare, SetHeld
    <2> HIDE DEF x
    <2>3. /\ consumer' = [consumer EXCEPT ![p] = Idle] /\ Idle.pc \notin Dispatching
          /\ Idle \in [pc : ConsumerPc, obj : 0..MaxRecords, remote : 0..MaxRecords]
          /\ Onward(p, Idle, x)
      BY <1>1, <1>5, <2>1, NextPlace DEF Prepare, Dispatching, Idle, ConsumerPc, Onward
    <2>4. reserved' = [reserved EXCEPT ![p] = @ \ {Held(p).req}]
      BY <1>5 DEF Prepare, ReleaseAssignment
    <2>5. /\ reserved' \in [Process -> SUBSET Request] /\ reserved'[p] \subseteq unsaved'
          /\ \A q \in Process : q # p => reserved'[q] = reserved[q]
      BY <1>2, <1>3, <2>4
    <2> QED BY <1>1, <1>2, <1>3, <1>4, <2>1, <2>2, <2>3, <2>5, ConsumerGoesOn
  <1>6. CASE Held(p).req \notin late
    <2> DEFINE c == [consumer[p] EXCEPT !.pc = "handoff"]
    <2>1. /\ c \in [pc : ConsumerPc, obj : 0..MaxRecords, remote : 0..MaxRecords]
          /\ c.pc = "handoff" /\ c.obj = consumer[p].obj /\ consumer' = [consumer EXCEPT ![p] = c]
      BY <1>1, <1>6, NextPlace DEF Prepare, ConsumerPc
    <2> HIDE DEF c
    <2>2. heap' = [heap EXCEPT ![consumer[p].obj] = Held(p)] /\ reserved' = reserved
      BY <1>2, <1>6 DEF Prepare
    <2>3. Onward(p, c, Held(p)) /\ c.pc \in Dispatching
      BY <1>2, <2>1 DEF Onward, Assigned, Dispatching
    <2> QED BY <1>1, <1>2, <1>3, <1>4, <2>1, <2>2, <2>3, ConsumerGoesOn
  <1> QED BY <1>5, <1>6

\* Requests travel in process or over HTTP.
LEMMA TheSetup ==
    ASSUME TypeOK
    PROVE  /\ setup.transport \in {"local", "http"} /\ setup.procs \subseteq Process
           /\ setup.workers \subseteq Worker /\ setup.requests \subseteq Request
  BY SetupsAssumption DEF TypeOK, Setup

\* The acceptance arrives, and the copy follows the record of the worker.
LEMMA AnswerStep ==
    ASSUME IInv, NEW p \in Process, Answer(p)
    PROVE  IInv' /\ Lawful
  <1> DEFINE x == Applied(Held(p), Transition(Held(p), "queued"))
  <1> DEFINE c == [consumer[p] EXCEPT !.pc = "commit"]
  <1>1. At(p, "answer") /\ Busy(p) /\ TypeOK /\ Core
    BY DEF Answer, At, Busy, IInv
  <1>2. /\ Held(p) \in Record /\ Held(p).status = "assigned" /\ SharedWithWorker(p) = {}
        /\ Held(p).req \in reserved[p] /\ reserved[p] \subseteq unsaved \cup {Held(p).req}
        /\ reserved \in [Process -> SUBSET Request] /\ unsaved \subseteq Request /\ events \in Nat
    BY <1>1, Holding DEF At, Assigned, Dispatching
  <1>3. x \in Record /\ x.req = Held(p).req /\ x.status = "queued"
    BY <1>2, RecordFacts, Statuses
  <1>4. x.status \in Allowed[Held(p).status]
    BY <1>2, <1>3, Transitions
  <1>5. heap' = [heap EXCEPT ![consumer[p].obj] = x]
    BY DEF Answer, SetHeld
  <1>6. /\ c \in [pc : ConsumerPc, obj : 0..MaxRecords, remote : 0..MaxRecords]
        /\ c.pc = "commit" /\ c.obj = consumer[p].obj /\ consumer' = [consumer EXCEPT ![p] = c]
        /\ c.remote = consumer[p].remote
    BY <1>1, NextPlace DEF Answer, ConsumerPc
  <1> HIDE DEF x, c
  <1>7. setup.transport # "local" /\ consumer[p].remote \in DOMAIN heap
    BY <1>1 DEF Core, PlaceTellsStatus, Pointers, At
  <1>8. Onward(p, c, x) /\ c.pc \in Dispatching
    BY <1>2, <1>3, <1>6, <1>7 DEF Onward, Assigned, Dispatching
  <1>9. UNCHANGED <<setup, late, global_queue, health, directory, canceller, supervisor, lease, workerVars,
                    runs, confirmed, rerun, abandoned, store, events, unsaved, reserved>>
    BY DEF Answer, historyVars, planeVars
  <1>10. store' \in [Request -> Record \cup {<<>>}]
    BY <1>1, <1>9 DEF TypeOK
  <1> QED BY <1>1, <1>2, <1>3, <1>4, <1>5, <1>6, <1>8, <1>9, <1>10, ConsumerGoesOn

\* The dispatch is saved and its reservation released.
LEMMA CommitStep ==
    ASSUME IInv, NEW p \in Process, Commit(p)
    PROVE  IInv' /\ Lawful
  <1> DEFINE c == [consumer[p] EXCEPT !.pc = "await"]
  <1>1. At(p, "commit") /\ Busy(p) /\ TypeOK /\ Core
    BY DEF Commit, At, Busy, IInv
  <1>2. /\ Held(p) \in Record /\ heap' = [heap EXCEPT ![consumer[p].obj] = Held(p)]
        /\ Held(p).req \in reserved[p] /\ reserved[p] \subseteq unsaved \cup {Held(p).req}
        /\ reserved \in [Process -> SUBSET Request] /\ unsaved \subseteq Request /\ events \in Nat
    BY <1>1, Holding DEF At, Dispatching, Commit
  <1>3. /\ c \in [pc : ConsumerPc, obj : 0..MaxRecords, remote : 0..MaxRecords]
        /\ c.pc = "await" /\ c.obj = consumer[p].obj /\ consumer' = [consumer EXCEPT ![p] = c]
        /\ c.remote = consumer[p].remote
    BY <1>1, NextPlace DEF Commit, ConsumerPc
  <1> HIDE DEF c
  <1>4. /\ consumer[p].remote \in DOMAIN heap
        /\ setup.transport = "local" => consumer[p].remote = consumer[p].obj
        /\ setup.transport = "http" => Held(p).status \in {"queued"} \cup Terminal
    BY <1>1 DEF Core, PlaceTellsStatus, Pointers, At
  <1>5. Onward(p, c, Held(p)) /\ c.pc \notin Dispatching
    BY <1>1, <1>3, <1>4 DEF Onward, Assigned, Dispatching, At
  <1>6. reserved' = [reserved EXCEPT ![p] = @ \ {Held(p).req}]
    BY DEF Commit, ReleaseAssignment
  <1>7. UNCHANGED <<setup, late, global_queue, health, directory, canceller, supervisor, lease, workerVars,
                    runs, confirmed, rerun, abandoned, events, unsaved>>
    BY DEF Commit, historyVars
  <1>8. /\ reserved' \in [Process -> SUBSET Request] /\ reserved'[p] \subseteq unsaved'
        /\ \A q \in Process : q # p => reserved'[q] = reserved[q]
    BY <1>2, <1>6, <1>7
  <1>9. store' \in [Request -> Record \cup {<<>>}]
    BY <1>1, <1>2, StoreTyped DEF Commit
  <1> QED BY <1>1, <1>2, <1>3, <1>5, <1>7, <1>8, <1>9, ConsumerGoesOn

\* The caller lets go of a record x that has ended or ends here.
LEMMA LetsGo ==
    ASSUME IInv, NEW p \in Process, At(p, "rejected") \/ At(p, "await"), NEW x \in Record, IsTerminal(x),
           x.req = Held(p).req, setup.transport = "local" /\ At(p, "await") => x = Held(p),
           At(p, "rejected") => x.status = "failed",
           heap' = [heap EXCEPT ![consumer[p].obj] = x], Save(x) \/ UNCHANGED store, Leave(p), events' \in Nat,
           UNCHANGED <<setup, late, planeVars, canceller, supervisor, lease, workerVars, historyVars>>
    PROVE  IInv' /\ Lawful
  <1>1. Busy(p) /\ TypeOK /\ setup.transport \in {"local", "http"}
    BY TheSetup DEF At, Busy, IInv
  <1>2. /\ Held(p).req \in Request /\ reserved[p] \subseteq unsaved
        /\ reserved \in [Process -> SUBSET Request] /\ unsaved \subseteq Request
        /\ SharedWithWorker(p) # {} => x = Held(p)
        /\ At(p, "rejected") => Held(p).status = "queued"
    BY <1>1, Holding DEF At, Dispatching
  <1>3. \/ x.status \in Allowed[Held(p).status] \cup {Held(p).status}
        \/ setup.transport = "http" /\ At(p, "await")
    BY <1>1, <1>2, Transitions
  <1>4. /\ consumer' = [consumer EXCEPT ![p] = Idle] /\ Idle.pc \notin Dispatching
        /\ Idle \in [pc : ConsumerPc, obj : 0..MaxRecords, remote : 0..MaxRecords]
        /\ Onward(p, Idle, x)
    BY <1>1, NextPlace DEF Dispatching, Idle, ConsumerPc, Onward
  <1>5. UNCHANGED <<global_queue, health, directory, reserved, unsaved, runs, confirmed, rerun, abandoned>>
    BY DEF planeVars, historyVars
  <1>6. store' \in [Request -> Record \cup {<<>>}]
    BY <1>1, StoreTyped
  <1> QED BY <1>1, <1>2, <1>3, <1>4, <1>5, <1>6, ConsumerGoesOn

\* The record after the caller's error handler.
LEMMA FailedRecord ==
    ASSUME IInv, NEW p \in Process, Busy(p), FailAndSave(p, Held(p), "failed")
    PROVE  LET x == EndIfOpen(Held(p), "failed")
           IN  /\ x \in Record /\ IsTerminal(x) /\ x.req = Held(p).req
               /\ heap' = [heap EXCEPT ![consumer[p].obj] = x] /\ Leave(p) /\ (Save(x) \/ UNCHANGED store)
               /\ IsTerminal(Held(p)) => x = Held(p)
               /\ ~IsTerminal(Held(p)) => x.status = "failed"
  <1>1. Held(p) \in Record
    BY Holding
  <1>2. /\ Transition(Held(p), "failed") \in Record /\ Transition(Held(p), "failed").status = "failed"
        /\ Transition(Held(p), "failed").req = Held(p).req /\ "failed" \in Terminal
    BY <1>1, RecordFacts, Statuses
  <1> QED BY <1>1, <1>2 DEF FailAndSave, SetHeld, EndIfOpen, IsTerminal

\* After a rejected dispatch the caller fails the record.
LEMMA GiveUpStep ==
    ASSUME IInv, NEW p \in Process, GiveUp(p)
    PROVE  IInv' /\ Lawful
  <1> DEFINE x == EndIfOpen(Held(p), "failed")
  <1>1. At(p, "rejected") /\ Busy(p)
    BY DEF GiveUp, At, Busy
  <1>2. Held(p).status = "queued" /\ ~IsTerminal(Held(p))
    BY <1>1, Holding, Statuses DEF At, IsTerminal
  <1>3. /\ x \in Record /\ IsTerminal(x) /\ x.req = Held(p).req /\ x.status = "failed"
        /\ heap' = [heap EXCEPT ![consumer[p].obj] = x] /\ Leave(p) /\ (Save(x) \/ UNCHANGED store)
    BY <1>1, <1>2, FailedRecord DEF GiveUp
  <1> HIDE DEF x
  <1>4. /\ events' \in Nat /\ ~At(p, "await")
        /\ UNCHANGED <<setup, late, planeVars, canceller, supervisor, lease, workerVars, historyVars>>
    BY <1>1 DEF GiveUp, IInv, TypeOK, At
  <1> QED BY <1>1, <1>3, <1>4, LetsGo

\* The execution ended: the consumer takes the result over, or fails.
LEMMA CollectStep ==
    ASSUME IInv, NEW p \in Process, Collect(p)
    PROVE  IInv' /\ Lawful
  <1> DEFINE y == heap[consumer[p].remote]
  <1>1. At(p, "await") /\ Busy(p) /\ IsTerminal(y) /\ TypeOK /\ Core
    BY DEF Collect, At, Busy, IInv
  <1>2. y \in Record /\ (setup.transport = "local" => y = Held(p)) /\ Held(p) \in Record
    <2>1. consumer[p].remote \in DOMAIN heap /\ heap \in Seq(Record)
      BY <1>1 DEF Core, Pointers, At, TypeOK
    <2>2. setup.transport = "local" => consumer[p].remote = consumer[p].obj
      BY <1>1 DEF Core, PlaceTellsStatus, At
    <2> QED BY <1>1, <2>1, <2>2, Holding DEF Held
  <1>3. /\ events' \in Nat
        /\ UNCHANGED <<setup, late, planeVars, canceller, supervisor, lease, workerVars, historyVars>>
    BY <1>1 DEF Collect, TypeOK
  <1>4. CASE y.status = "completed"
    <2> DEFINE x == Applied(Held(p), y)
    <2>1. x \in Record /\ x.req = Held(p).req /\ IsTerminal(x)
      BY <1>1, <1>2, RecordFacts, Statuses DEF IsTerminal
    <2>2. setup.transport = "local" => x = Held(p)
      BY <1>2 DEF Applied, Record
    <2>3. heap' = [heap EXCEPT ![consumer[p].obj] = x] /\ Leave(p) /\ Save(x)
      BY <1>4 DEF Collect, SetHeld
    <2>4. ~At(p, "rejected")
      BY <1>1 DEF At
    <2> HIDE DEF x
    <2> QED BY <1>1, <1>3, <2>1, <2>2, <2>3, <2>4, LetsGo
  <1>5. CASE y.status # "completed"
    <2> DEFINE x == EndIfOpen(Held(p), "failed")
    <2>1. FailAndSave(p, Held(p), "failed")
      BY <1>5 DEF Collect
    <2>2. /\ x \in Record /\ IsTerminal(x) /\ x.req = Held(p).req
          /\ heap' = [heap EXCEPT ![consumer[p].obj] = x] /\ Leave(p) /\ (Save(x) \/ UNCHANGED store)
          /\ IsTerminal(Held(p)) => x = Held(p)
      BY <1>1, <2>1, FailedRecord
    <2> HIDE DEF x
    <2>3. setup.transport = "local" => x = Held(p)
      BY <1>1, <1>2, <2>2
    <2>4. ~At(p, "rejected")
      BY <1>1 DEF At
    <2> QED BY <1>1, <1>3, <2>2, <2>3, <2>4, LetsGo
  <1> QED BY <1>4, <1>5

\* The worker does not answer: the consumer fails its own copy.
LEMMA CollectRaisesStep ==
    ASSUME IInv, NEW p \in Process, CollectRaises(p)
    PROVE  IInv' /\ Lawful
  <1> DEFINE x == EndIfOpen(Held(p), "failed")
  <1>1. At(p, "await") /\ Busy(p) /\ setup.transport = "http" /\ ~At(p, "rejected")
    BY DEF CollectRaises, At, Busy
  <1>2. /\ x \in Record /\ IsTerminal(x) /\ x.req = Held(p).req
        /\ heap' = [heap EXCEPT ![consumer[p].obj] = x] /\ Leave(p) /\ (Save(x) \/ UNCHANGED store)
    BY <1>1, FailedRecord DEF CollectRaises
  <1> HIDE DEF x
  <1>3. /\ events' \in Nat
        /\ UNCHANGED <<setup, late, planeVars, canceller, supervisor, lease, workerVars, historyVars>>
    BY DEF CollectRaises, IInv, TypeOK, Event
  <1> QED BY <1>1, <1>2, <1>3, LetsGo

\* A consumer that has no dispatch under way, before and after.
LEMMA NotDispatching ==
    ASSUME Reservations, TypeOK, NEW p \in Process, NEW c, consumer' = [consumer EXCEPT ![p] = c],
           consumer[p].pc \notin Dispatching, c.pc \notin Dispatching, UNCHANGED <<heap, reserved, unsaved>>
    PROVE  Reservations'
  <1>1. consumer'[p] = c /\ \A q \in Process : q # p => consumer'[q] = consumer[q]
    BY DEF TypeOK
  <1>2. \A q \in Process : InFlight(q)' = InFlight(q)
    BY <1>1 DEF InFlight, Held, Dispatching
  <1> QED BY <1>2 DEF Reservations

\* The records, unchanged, made no transition.
LEMMA StandsStill ==
    ASSUME heap' = heap
    PROVE  Lawful
  BY DEF Lawful

\* From the queue into the consumer's hands.
LEMMA TakeStep ==
    ASSUME IInv, NEW p \in Process, Take(p)
    PROVE  IInv' /\ Lawful
  <1>1. TypeOK /\ Core /\ ActorRecords /\ Reservations /\ consumer[p].pc = "idle"
    BY DEF IInv, Take, At
  <1>2. PICK o \in global_queue[p] :
          /\ ~IsTerminal(heap[o]) /\ global_queue' = [global_queue EXCEPT ![p] = @ \ {o}]
          /\ consumer' = [consumer EXCEPT ![p] = [pc |-> "assign", obj |-> o, remote |-> 0]]
    BY DEF Take
  <1> DEFINE c == [pc |-> "assign", obj |-> o, remote |-> 0]
  <1> DEFINE S == global_queue[p] \ {o}
  <1>3. /\ UNCHANGED <<setup, heap, store, late, health, directory, reserved, canceller, supervisor,
                       lease, up, queue, running, events>>
        /\ UNCHANGED <<runs, unsaved, confirmed, rerun, abandoned>>
    BY DEF Take, workerVars, historyVars
  <1>4. /\ global_queue \in [Process -> SUBSET Addr] /\ o \in Addr /\ MaxRecords \in Nat
        /\ consumer \in [Process -> [pc : ConsumerPc, obj : 0..MaxRecords, remote : 0..MaxRecords]]
    BY <1>1, ControlPlaneAssumption DEF TypeOK
  <1>5. c \in [pc : ConsumerPc, obj : 0..MaxRecords, remote : 0..MaxRecords]
    BY <1>4 DEF Addr, ConsumerPc
  <1>6. heap[o].status = "queued" /\ \A a \in S : heap[a].status \in {"queued"} \cup Terminal
    BY <1>1, <1>2 DEF Core, PlaceTellsStatus, IsTerminal
  <1>7. S \cup {o} = PlaneSide(p)
    BY <1>1 DEF PlaneSide, Busy
  <1>8. global_queue' = [global_queue EXCEPT ![p] = S]
    BY <1>2, <1>4
  <1>9. /\ c.pc = "assign" /\ c.obj = o /\ o \notin S /\ consumer' = [consumer EXCEPT ![p] = c]
        /\ S \subseteq Addr
    BY <1>2, <1>4
  <1> HIDE DEF c, S
  <1>10. Core'
    BY <1>1, <1>3, <1>5, <1>6, <1>7, <1>8, <1>9, QueueAndConsumer
  <1>11. TypeOK'
    BY <1>1, <1>3, <1>4, <1>5, <1>8, <1>9 DEF TypeOK
  <1>12. Reservations'
    BY <1>1, <1>3, <1>9, NotDispatching DEF Dispatching
  <1>13. ActorRecords'
    BY <1>1, <1>3, ActorRecordsKept
  <1> QED BY <1>3, <1>10, <1>11, <1>12, <1>13, StandsStill DEF IInv

\* A rejected record goes back into the queue, from one place to another.
LEMMA RequeueStep ==
    ASSUME IInv, NEW p \in Process, Requeue(p)
    PROVE  IInv' /\ Lawful
  <1> DEFINE S == global_queue[p] \cup {consumer[p].obj}
  <1>1. /\ TypeOK /\ Core /\ ActorRecords /\ Reservations /\ consumer[p].pc = "rejected" /\ Busy(p)
    BY DEF IInv, Requeue, At, Busy
  <1>2. /\ Held(p).status = "queued" /\ Held(p).req \in Request /\ consumer[p].obj \in DOMAIN heap
    BY <1>1, Holding
  <1>3. /\ global_queue \in [Process -> SUBSET Addr] /\ heap \in Seq(Record) /\ Len(heap) <= MaxRecords
        /\ MaxRecords \in Nat
        /\ consumer \in [Process -> [pc : ConsumerPc, obj : 0..MaxRecords, remote : 0..MaxRecords]]
    BY <1>1, ControlPlaneAssumption DEF TypeOK
  <1>4. global_queue' = [global_queue EXCEPT ![p] = S] /\ S \subseteq Addr
    BY <1>2, <1>3 DEF Requeue, Addr
  <1>5. /\ Idle \in [pc : ConsumerPc, obj : 0..MaxRecords, remote : 0..MaxRecords]
        /\ consumer' = [consumer EXCEPT ![p] = Idle] /\ Idle.pc = "idle"
    BY <1>1, NextPlace DEF Requeue, ConsumerPc
  <1>6. S = PlaneSide(p)
    BY <1>1 DEF PlaneSide
  <1>7. \A a \in S : heap[a].status \in {"queued"} \cup Terminal
    BY <1>1, <1>2 DEF Core, PlaceTellsStatus, Held
  <1>8. /\ UNCHANGED <<setup, heap, store, late, health, directory, reserved, canceller, supervisor, lease,
                       up, queue, running, events, runs, unsaved, confirmed, abandoned>>
        /\ rerun' \subseteq rerun \cup {<<Held(p).req, "caller">>}
    BY DEF Requeue, workerVars
  <1> HIDE DEF S
  <1>9. Core'
    BY <1>1, <1>4, <1>5, <1>6, <1>7, <1>8, QueueAndConsumer
  <1>10. TypeOK'
    <2>1. rerun' \subseteq Request \X {"caller", "recovery"}
      BY <1>1, <1>2, <1>8 DEF TypeOK
    <2> QED BY <1>1, <1>3, <1>4, <1>5, <1>8, <2>1 DEF TypeOK
  <1>11. Reservations'
    BY <1>1, <1>5, <1>8, NotDispatching DEF Dispatching
  <1>12. ActorRecords'
    BY <1>1, <1>8, ActorRecordsKept
  <1> QED BY <1>8, <1>9, <1>10, <1>11, <1>12, StandsStill DEF IInv

\* What a handoff leaves: the record x at address a, which the worker has and
\* the consumer, now c, awaits.
HandoffTo(p, x, a, c) ==
    /\ x.req = Held(p).req /\ x.status = "queued" /\ x.status \in Allowed["assigned"]
    /\ x.worker \in Worker /\ x.worker # NoWorker
    /\ queue' = [queue EXCEPT ![x.worker] = Append(@, a)]
    /\ c.obj = consumer[p].obj /\ c.remote = a
    /\ consumer' = [consumer EXCEPT ![p] = c]
    /\ heap' \in Seq(Record) /\ Len(heap') <= MaxRecords /\ DOMAIN heap' = DOMAIN heap \cup {a}
    /\ heap'[a] = x /\ \A b \in DOMAIN heap : b # a => heap'[b] = heap[b]
    /\ \/ setup.transport = "local" /\ a = consumer[p].obj /\ c.pc = "commit"
       \/ setup.transport = "http" /\ a \notin DOMAIN heap /\ c.pc = "answer"

\* What a handoff leaves: the record itself with the worker or, over HTTP, a new one.
LEMMA HandoffFacts ==
    ASSUME IInv, NEW p \in Process, Handoff(p)
    PROVE  \E x \in Record, a \in Addr, c \in [pc : ConsumerPc, obj : 0..MaxRecords, remote : 0..MaxRecords] :
              HandoffTo(p, x, a, c)
  <1> DEFINE x == Transition(Held(p), "queued")
  <1> DEFINE a == IF setup.transport = "local" THEN consumer[p].obj ELSE Len(heap) + 1
  <1> DEFINE pc == IF setup.transport = "local" THEN "commit" ELSE "answer"
  <1> DEFINE c == [consumer[p] EXCEPT !.remote = a, !.pc = pc]
  <1>1. /\ TypeOK /\ Core /\ ActorRecords /\ Reservations /\ consumer[p].pc = "handoff" /\ Busy(p)
        /\ setup.transport \in {"local", "http"}
    BY TheSetup DEF IInv, Handoff, At, Busy
  <1>2. /\ Held(p) \in Record /\ Held(p).status = "assigned" /\ consumer[p].obj \in DOMAIN heap
        /\ Held(p).req \in reserved[p] /\ reserved[p] \subseteq unsaved \cup {Held(p).req}
    BY <1>1, Holding DEF Assigned, Dispatching
  <1>3. x \in Record /\ x.req = Held(p).req /\ x.status = "queued" /\ x.status \in Allowed["assigned"]
    BY <1>2, RecordFacts, Statuses, Transitions
  <1>4. /\ x.worker \in up /\ a <= MaxRecords
        /\ heap' = IF setup.transport = "local" THEN [heap EXCEPT ![a] = x] ELSE Append(heap, x)
        /\ queue' = [queue EXCEPT ![x.worker] = Append(@, a)]
        /\ consumer' = [consumer EXCEPT ![p].remote = a, ![p].pc = pc]
    BY DEF Handoff
  <1>5. /\ UNCHANGED <<setup, store, late, global_queue, health, directory, reserved, canceller, supervisor,
                       lease, up, running, events>>
        /\ UNCHANGED <<runs, unsaved, confirmed, rerun, abandoned>>
    BY DEF Handoff, planeVars, historyVars
  <1>6. /\ heap \in Seq(Record) /\ Len(heap) <= MaxRecords /\ MaxRecords \in Nat
        /\ queue \in [Worker -> Seq(Addr)] /\ up \subseteq Worker /\ NoWorker \notin Worker
        /\ consumer \in [Process -> [pc : ConsumerPc, obj : 0..MaxRecords, remote : 0..MaxRecords]]
    BY <1>1, ControlPlaneAssumption DEF TypeOK
  <1>7. x.worker \in Worker /\ x.worker # NoWorker
    BY <1>4, <1>6
  <1>8. a \in Addr
    BY <1>2, <1>4, <1>6 DEF Addr
  <1>9. /\ c \in [pc : ConsumerPc, obj : 0..MaxRecords, remote : 0..MaxRecords]
        /\ c.obj = consumer[p].obj /\ c.remote = a /\ c.pc = pc
        /\ consumer' = [consumer EXCEPT ![p] = c]
    <2>1. consumer[p] \in [pc : ConsumerPc, obj : 0..MaxRecords, remote : 0..MaxRecords]
      BY <1>6
    <2>2. a \in 0..MaxRecords /\ pc \in ConsumerPc
      BY <1>6, <1>8 DEF Addr, ConsumerPc
    <2> HIDE DEF a, pc
    <2>3. /\ c \in [pc : ConsumerPc, obj : 0..MaxRecords, remote : 0..MaxRecords]
          /\ c.obj = consumer[p].obj /\ c.remote = a /\ c.pc = pc
      BY <2>1, <2>2
    <2> QED BY <1>4, <1>6, <2>3
  <1> HIDE DEF c, x
  <1>10. /\ heap' \in Seq(Record) /\ Len(heap') <= MaxRecords /\ DOMAIN heap' = DOMAIN heap \cup {a}
         /\ heap'[a] = x /\ \A b \in DOMAIN heap : b # a => heap'[b] = heap[b]
         /\ setup.transport = "http" => a \notin DOMAIN heap
    <2>1. CASE setup.transport = "local"
      <3>1. a = consumer[p].obj /\ heap' = [heap EXCEPT ![a] = x]
        BY <1>4, <2>1
      <3>2. a \in DOMAIN heap
        BY <1>2, <3>1
      <3> HIDE DEF a
      <3>3. heap \in Seq(Record) /\ x \in Record /\ heap' = [heap EXCEPT ![a] = x]
        BY <1>3, <1>6, <3>1
      <3>4. /\ heap' \in Seq(Record) /\ Len(heap') = Len(heap) /\ DOMAIN heap' = DOMAIN heap
            /\ heap'[a] = x /\ \A b \in DOMAIN heap : b # a => heap'[b] = heap[b]
        BY <3>2, <3>3, HeapUpdate
      <3> QED BY <1>6, <2>1, <3>2, <3>4
    <2>2. CASE setup.transport = "http"
      BY <1>3, <1>4, <1>6, <2>2, HeapAppend
    <2> QED BY <1>1, <2>1, <2>2
  <1>11. \/ setup.transport = "local" /\ a = consumer[p].obj /\ c.pc = "commit"
         \/ setup.transport = "http" /\ a \notin DOMAIN heap /\ c.pc = "answer"
    BY <1>1, <1>9, <1>10
  <1> HIDE DEF a, pc
  <1>12. HandoffTo(p, x, a, c)
    BY <1>3, <1>4, <1>7, <1>9, <1>10, <1>11 DEF HandoffTo
  <1> QED BY <1>3, <1>8, <1>9, <1>12

\* The worker gets the record, ASSIGNED -> QUEUED at its side.
LEMMA HandoffStep ==
    ASSUME IInv, NEW p \in Process, Handoff(p)
    PROVE  IInv' /\ Lawful
  <1>1. /\ TypeOK /\ Core /\ ActorRecords /\ Reservations /\ consumer[p].pc = "handoff" /\ Busy(p)
    BY DEF IInv, Handoff, At, Busy
  <1>2. /\ Held(p) \in Record /\ Held(p).status = "assigned" /\ consumer[p].obj \in DOMAIN heap
        /\ Held(p).req \in reserved[p] /\ reserved[p] \subseteq unsaved \cup {Held(p).req}
    BY <1>1, Holding DEF Assigned, Dispatching
  <1>3. PICK x \in Record, a \in Addr, c \in [pc : ConsumerPc, obj : 0..MaxRecords, remote : 0..MaxRecords] :
              HandoffTo(p, x, a, c)
    BY HandoffFacts
  <1>4. x.req = Held(p).req /\ x.status = "queued" /\ x.status \in Allowed["assigned"]
    BY <1>3 DEF HandoffTo
  <1>5. queue' = [queue EXCEPT ![x.worker] = Append(@, a)]
    BY <1>3 DEF HandoffTo
  <1>6. /\ UNCHANGED <<setup, store, late, global_queue, health, directory, reserved, canceller, supervisor,
                       lease, up, running, events>>
        /\ UNCHANGED <<runs, unsaved, confirmed, rerun, abandoned>>
    BY DEF Handoff, planeVars, historyVars
  <1>7. /\ heap \in Seq(Record) /\ Len(heap) <= MaxRecords /\ MaxRecords \in Nat
        /\ queue \in [Worker -> Seq(Addr)] /\ up \subseteq Worker /\ NoWorker \notin Worker
        /\ consumer \in [Process -> [pc : ConsumerPc, obj : 0..MaxRecords, remote : 0..MaxRecords]]
    BY <1>1, ControlPlaneAssumption DEF TypeOK
  <1>8. x.worker \in Worker /\ x.worker # NoWorker
    BY <1>3 DEF HandoffTo
  <1>9. c.obj = consumer[p].obj /\ c.remote = a /\ consumer' = [consumer EXCEPT ![p] = c]
    BY <1>3 DEF HandoffTo
  <1>10. /\ heap' \in Seq(Record) /\ Len(heap') <= MaxRecords /\ DOMAIN heap' = DOMAIN heap \cup {a}
         /\ heap'[a] = x /\ \A b \in DOMAIN heap : b # a => heap'[b] = heap[b]
    BY <1>3 DEF HandoffTo
  <1>11. \/ setup.transport = "local" /\ a = consumer[p].obj /\ c.pc = "commit"
         \/ setup.transport = "http" /\ a \notin DOMAIN heap /\ c.pc = "answer"
    BY <1>3 DEF HandoffTo
  <1>12. Core'
    <2>1. heap'[a].status = "queued" /\ heap'[a].worker # NoWorker
      BY <1>4, <1>8, <1>10
    <2> QED BY <1>1, <1>5, <1>6, <1>8, <1>3, <1>9, <1>10, <1>11, <2>1, HandedOver
  <1>13. TypeOK'
    <2>1. queue' \in [Worker -> Seq(Addr)]
      BY <1>5, <1>7, <1>8, <1>3
    <2>2. consumer' \in [Process -> [pc : ConsumerPc, obj : 0..MaxRecords, remote : 0..MaxRecords]]
      BY <1>7, <1>9
    <2> QED BY <1>1, <1>6, <1>10, <2>1, <2>2 DEF TypeOK
  <1>14. Reservations'
    <2> SUFFICES ASSUME NEW q \in Process PROVE InFlight(q)' = InFlight(q)
      BY <1>1, <1>6 DEF Reservations
    <2>1. /\ consumer'[p] = c /\ \A z \in Process : z # p => consumer'[z] = consumer[z]
      BY <1>7, <1>9
    <2>2. \A b \in DOMAIN heap : heap'[b].req = heap[b].req
      BY <1>4, <1>10, <1>11 DEF Held
    <2>3. Busy(q) => consumer[q].obj \in DOMAIN heap
      BY <1>1 DEF Core, Pointers, PlaneSide
    <2>4. CASE q = p
      BY <1>1, <1>2, <1>9, <1>11, <2>1, <2>2, <2>4 DEF InFlight, Held
    <2>5. CASE q # p
      BY <2>1, <2>2, <2>3, <2>5 DEF InFlight, Held, Busy
    <2> QED BY <2>4, <2>5
  <1>15. ActorRecords'
    BY <1>1, <1>6, <1>10, ActorRecordsKept
  <1>16. Lawful
    <2>1. a \in DOMAIN heap => heap[a] = Held(p)
      BY <1>11 DEF Held
    <2> QED BY <1>2, <1>4, <1>10, <2>1 DEF Lawful
  <1> QED BY <1>12, <1>13, <1>14, <1>15, <1>16 DEF IInv

-----------------------------------------------------------------------------
(* Records that are created *)

\* RecordEnters, with what it leaves of the other parts of the invariant.
LEMMA NewRecordStep ==
    ASSUME IInv, NEW p \in Process, NEW x \in Record, Len(heap) + 1 <= MaxRecords, heap' = Append(heap, x),
           NEW S, S \subseteq global_queue[p] \cup {Len(heap) + 1},
           global_queue' = [global_queue EXCEPT ![p] = S],
           x.status \in {"queued"} \cup Terminal, IsTerminal(x) \/ Len(heap) + 1 \in S,
           abandoned \subseteq abandoned', abandoned' \subseteq Addr,
           \A a \in global_queue[p] \ S : IsTerminal(heap[a]) \/ a \in abandoned',
           store' \in [Request -> Record \cup {<<>>}],
           rerun' \subseteq Request \X {"caller", "recovery"},
           supervisor' \in [Process -> [pc : SupervisorPc, todo : SUBSET Worker, list : SUBSET Record,
                                        obj : 0..MaxRecords]],
           \A q \in Process : supervisor'[q].pc = "saveq" => supervisor'[q].obj \in DOMAIN heap',
           UNCHANGED <<setup, late, health, directory, reserved, consumer, canceller, lease, workerVars,
                       events, runs, unsaved, confirmed>>
    PROVE  IInv' /\ Lawful
  <1>1. TypeOK /\ Core /\ ActorRecords /\ Reservations
    BY DEF IInv
  <1>2. /\ heap \in Seq(Record) /\ global_queue \in [Process -> SUBSET Addr] /\ MaxRecords \in Nat
    BY <1>1, ControlPlaneAssumption DEF TypeOK
  <1>3. /\ heap' \in Seq(Record) /\ Len(heap') = Len(heap) + 1
        /\ DOMAIN heap \subseteq DOMAIN heap' /\ \A a \in DOMAIN heap : heap'[a] = heap[a]
    BY <1>2, HeapAppend
  <1>4. UNCHANGED <<up, queue, running>>
    BY DEF workerVars
  <1>5. Core'
    BY <1>1, <1>4, RecordEnters
  <1>6. Reservations'
    BY <1>1, <1>3, ReservationsKept
  <1>7. ActorRecords'
    BY <1>1 DEF ActorRecords
  <1>8. Lawful
    BY <1>3 DEF Lawful
  <1>9. Len(heap) + 1 \in Addr
    BY <1>2 DEF Addr
  <1>10. global_queue' \in [Process -> SUBSET Addr]
    BY <1>2, <1>9
  <1>11. TypeOK'
    BY <1>1, <1>2, <1>3, <1>4, <1>10 DEF TypeOK
  <1> QED BY <1>5, <1>6, <1>7, <1>8, <1>11 DEF IInv

\* A new record is QUEUED and well-typed.
LEMMA NewRecordFacts ==
    ASSUME NEW r \in Request
    PROVE  NewRecord(r) \in Record /\ NewRecord(r).status = "queued"
  BY DEF NewRecord, Record, Allowed

\* A new record enters one queue.
LEMMA SubmitStep ==
    ASSUME IInv, NEW p \in Process, NEW r \in Request, Submit(p, r)
    PROVE  IInv' /\ Lawful
  <1> DEFINE S == global_queue[p] \cup {Len(heap) + 1}
  <1>1. TypeOK /\ ActorRecords
    BY DEF IInv
  <1>2. NewRecord(r) \in Record /\ NewRecord(r).status = "queued"
    BY NewRecordFacts
  <1>3. /\ heap' = Append(heap, NewRecord(r)) /\ Len(heap) + 1 <= MaxRecords
        /\ global_queue' = [global_queue EXCEPT ![p] = S]
        /\ UNCHANGED <<setup, late, health, directory, reserved, consumer, canceller, lease, workerVars,
                       events, runs, unsaved, confirmed>>
        /\ UNCHANGED <<rerun, abandoned, supervisor>>
    BY <1>1, ControlPlaneAssumption DEF Submit, actorVars, historyVars, TypeOK
  <1>4. store' \in [Request -> Record \cup {<<>>}]
    BY <1>1, <1>2, StoreTyped DEF Submit
  <1>5. \A q \in Process : supervisor'[q].pc = "saveq" => supervisor'[q].obj \in DOMAIN heap'
    BY <1>1, <1>2, <1>3, HeapAppend DEF ActorRecords, TypeOK
  <1>6. /\ abandoned' \subseteq Addr /\ rerun' \subseteq Request \X {"caller", "recovery"}
        /\ supervisor' \in [Process -> [pc : SupervisorPc, todo : SUBSET Worker, list : SUBSET Record,
                                        obj : 0..MaxRecords]]
    BY <1>1, <1>3 DEF TypeOK
  <1> QED BY <1>2, <1>3, <1>4, <1>5, <1>6, NewRecordStep

\* What _execute leaves has ended.
LEMMA ExecutionsEnd ==
    ASSUME TypeOK, NEW p \in Process, NEW x \in Record, NEW e \in Executions(p, x)
    PROVE  e[1] \in Record /\ IsTerminal(e[1]) /\ e[2] \in Record /\ e[1].req = x.req /\ e[2].req = x.req
  <1> DEFINE on(w, s) == [Transition(x, s) EXCEPT !.worker = w, !.attempts = @ + 1]
             ran(w, s) == [on(w, s) EXCEPT !.started = TRUE]
             reached == {w \in Eligible(p) : w \in directory[p] /\ w \in up}
  <1>1. ASSUME NEW w \in Worker \cup {NoWorker}, NEW s \in DOMAIN Allowed
        PROVE  /\ on(w, s) \in Record /\ on(w, s).status = s /\ on(w, s).req = x.req
               /\ ran(w, s) \in Record /\ ran(w, s).status = s /\ ran(w, s).req = x.req
    <2>1. Transition(x, s) \in Record /\ Transition(x, s).status = s /\ Transition(x, s).req = x.req
      BY RecordFacts
    <2>2. on(w, s) \in Record /\ on(w, s).status = s /\ on(w, s).req = x.req
      <3>1. Transition(x, s).attempts + 1 \in Nat
        BY <2>1 DEF Record
      <3> QED BY <2>1, <3>1 DEF Record
    <2> HIDE DEF on
    <2>3. ran(w, s) \in Record /\ ran(w, s).status = s /\ ran(w, s).req = x.req
      BY <2>2 DEF Record
    <2> QED BY <2>2, <2>3
  <1>2. reached \subseteq Worker /\ Eligible(p) \subseteq Worker
    BY DEF Eligible
  <1>3. \/ e = <<Transition(x, "timed_out"), x>>
        \/ e = <<Transition(x, "failed"), Transition(x, "failed")>>
        \/ e = <<on(NoWorker, "failed"), on(NoWorker, "failed")>>
        \/ \E w \in reached : e = <<on(w, "timed_out"), on(w, "assigned")>>
        \/ \E w \in reached : e = <<on(w, "timed_out"), on(w, "queued")>>
        \/ \E w \in reached : e = <<ran(w, "failed"), on(w, "queued")>>
        \/ \E w \in reached : e = <<ran(w, "completed"), ran(w, "completed")>>
    BY Zenon DEF Executions
  <1>4. /\ Transition(x, "timed_out") \in Record /\ Transition(x, "timed_out").status = "timed_out"
        /\ Transition(x, "failed") \in Record /\ Transition(x, "failed").status = "failed"
        /\ Transition(x, "timed_out").req = x.req /\ Transition(x, "failed").req = x.req
    BY RecordFacts, Statuses
  <1> HIDE DEF on, ran, reached
  <1>5. CASE e = <<Transition(x, "timed_out"), x>> \/ e = <<Transition(x, "failed"), Transition(x, "failed")>>
    BY <1>4, <1>5, Statuses DEF IsTerminal
  <1>6. CASE e = <<on(NoWorker, "failed"), on(NoWorker, "failed")>>
    BY <1>1, <1>6, Statuses DEF IsTerminal
  <1>7. CASE \E w \in reached : \/ e = <<on(w, "timed_out"), on(w, "assigned")>>
                                \/ e = <<on(w, "timed_out"), on(w, "queued")>>
                                \/ e = <<ran(w, "failed"), on(w, "queued")>>
                                \/ e = <<ran(w, "completed"), ran(w, "completed")>>
    <2>1. PICK w \in Worker : \/ e = <<on(w, "timed_out"), on(w, "assigned")>>
                              \/ e = <<on(w, "timed_out"), on(w, "queued")>>
                              \/ e = <<ran(w, "failed"), on(w, "queued")>>
                              \/ e = <<ran(w, "completed"), ran(w, "completed")>>
      BY <1>2, <1>7
    <2>2. /\ on(w, "timed_out") \in Record /\ on(w, "timed_out").status = "timed_out"
          /\ on(w, "assigned") \in Record /\ on(w, "queued") \in Record
          /\ ran(w, "failed") \in Record /\ ran(w, "failed").status = "failed"
          /\ ran(w, "completed") \in Record /\ ran(w, "completed").status = "completed"
          /\ \A s \in {"timed_out", "assigned", "queued"} : on(w, s).req = x.req
          /\ ran(w, "failed").req = x.req /\ ran(w, "completed").req = x.req
      BY <1>1, Statuses
    <2> QED BY <2>1, <2>2, Statuses DEF IsTerminal
  <1> QED BY <1>3, <1>5, <1>6, <1>7

\* A pipeline record has ended when it is submitted, or replaces an older one in the queue.
LEMMA PipelineSubmitStep ==
    ASSUME IInv, NEW p \in Process, NEW r \in Request, PipelineSubmit(p, r)
    PROVE  IInv' /\ Lawful
  <1> DEFINE a == Len(heap) + 1
             open == {o \in global_queue[p] : ~IsTerminal(heap[o])}
  <1>1. TypeOK /\ ActorRecords
    BY DEF IInv
  <1>2. NewRecord(r) \in Record /\ Transition(NewRecord(r), "failed") \in Record
        /\ IsTerminal(Transition(NewRecord(r), "failed"))
    BY NewRecordFacts, RecordFacts, Statuses DEF IsTerminal
  <1>3. /\ a <= MaxRecords
        /\ UNCHANGED <<setup, late, health, directory, reserved, consumer, canceller, lease, workerVars,
                       events, runs, unsaved, confirmed>>
        /\ UNCHANGED <<rerun, supervisor>>
    BY DEF PipelineSubmit, actorVars
  <1>4. /\ rerun' \subseteq Request \X {"caller", "recovery"} /\ abandoned \subseteq Addr
        /\ supervisor' \in [Process -> [pc : SupervisorPc, todo : SUBSET Worker, list : SUBSET Record,
                                        obj : 0..MaxRecords]]
        /\ global_queue[p] \subseteq Addr /\ heap \in Seq(Record)
    BY <1>1, <1>3 DEF TypeOK
  <1>5. ASSUME NEW x \in Record, heap' = Append(heap, x)
        PROVE  \A q \in Process : supervisor'[q].pc = "saveq" => supervisor'[q].obj \in DOMAIN heap'
    BY <1>1, <1>3, <1>4, <1>5, HeapAppend DEF ActorRecords
  <1>6. CASE \E e \in Executions(p, NewRecord(r)) :
                 /\ heap' = Append(heap, e[1]) /\ Save(e[2])
                 /\ global_queue' = [global_queue EXCEPT ![p] = open] /\ UNCHANGED abandoned
    <2>1. PICK e \in Executions(p, NewRecord(r)) :
                 /\ heap' = Append(heap, e[1]) /\ Save(e[2])
                 /\ global_queue' = [global_queue EXCEPT ![p] = open] /\ UNCHANGED abandoned
      BY <1>6
    <2>2. e[1] \in Record /\ IsTerminal(e[1]) /\ e[2] \in Record
      BY <1>1, <1>2, ExecutionsEnd
    <2>3. store' \in [Request -> Record \cup {<<>>}]
      BY <1>1, <2>1, <2>2, StoreTyped
    <2>4. /\ e[1].status \in {"queued"} \cup Terminal /\ open \subseteq global_queue[p] \cup {Len(heap) + 1}
          /\ \A b \in global_queue[p] \ open : IsTerminal(heap[b])
      BY <2>2 DEF IsTerminal
    <2>5. \A q \in Process : supervisor'[q].pc = "saveq" => supervisor'[q].obj \in DOMAIN heap'
      BY <1>5, <2>1, <2>2
    <2> HIDE DEF open
    <2> QED BY <1>3, <1>4, <2>1, <2>2, <2>3, <2>4, <2>5, NewRecordStep
  <1>7. CASE \E o \in open :
                 /\ heap' = Append(heap, Transition(NewRecord(r), "failed"))
                 /\ Save(Transition(NewRecord(r), "failed"))
                 /\ global_queue' = [global_queue EXCEPT ![p] = (open \ {o}) \cup {a}]
                 /\ abandoned' = abandoned \cup {o}
    <2>1. PICK o \in open :
                 /\ heap' = Append(heap, Transition(NewRecord(r), "failed"))
                 /\ Save(Transition(NewRecord(r), "failed"))
                 /\ global_queue' = [global_queue EXCEPT ![p] = (open \ {o}) \cup {a}]
                 /\ abandoned' = abandoned \cup {o}
      BY <1>7
    <2> DEFINE S == (open \ {o}) \cup {a}
               x == Transition(NewRecord(r), "failed")
    <2>2. store' \in [Request -> Record \cup {<<>>}]
      BY <1>1, <1>2, <2>1, StoreTyped
    <2>3. /\ x.status \in {"queued"} \cup Terminal /\ S \subseteq global_queue[p] \cup {Len(heap) + 1}
          /\ \A b \in global_queue[p] \ S : IsTerminal(heap[b]) \/ b \in abandoned'
          /\ abandoned \subseteq abandoned' /\ abandoned' \subseteq Addr
          /\ global_queue' = [global_queue EXCEPT ![p] = S]
      BY <1>2, <1>4, <2>1 DEF IsTerminal
    <2>4. \A q \in Process : supervisor'[q].pc = "saveq" => supervisor'[q].obj \in DOMAIN heap'
      BY <1>2, <1>5, <2>1
    <2>5. x \in Record /\ IsTerminal(x) /\ heap' = Append(heap, x)
      BY <1>2, <2>1
    <2> HIDE DEF open, S, x
    <2> QED BY <1>3, <1>4, <2>2, <2>3, <2>4, <2>5, NewRecordStep
  <1> QED BY <1>6, <1>7 DEF PipelineSubmit

-----------------------------------------------------------------------------
(* Steps of a worker *)

\* WorkerMoves, with what it leaves of the other parts of the invariant.
LEMMA WorkerGoesOn ==
    ASSUME TypeOK, Core, Reservations, NEW w \in Worker, NEW s \in Seq(Addr), NEW R \in SUBSET Addr, NEW E,
           heap' = [a \in DOMAIN heap |-> heap'[a]],
           \A a \in DOMAIN heap :
              /\ heap'[a] \in Record /\ heap'[a].req = heap[a].req
              /\ heap'[a].status \in Allowed[heap[a].status] \cup {heap[a].status},
           \A a \in E : setup.transport = "http" /\ IsTerminal(heap'[a]) /\
              \E q \in Process : consumer[q].pc \in {"commit", "await"} /\ consumer[q].obj = a,
           \A a \in DOMAIN heap \ E :
               heap'[a] = heap[a] \/ (a \in WorkerSide(w) /\ heap'[a].worker = heap[a].worker),
           queue' = [queue EXCEPT ![w] = s], running' = [running EXCEPT ![w] = R],
           Range(s) \subseteq Range(queue[w]), IsInjective(s), R \subseteq WorkerSide(w), Range(s) \cap R = {},
           \A a \in Range(s) : heap'[a] = heap[a],
           \A a \in R : heap'[a].status \in {"running"} \cup Terminal, \A a, b \in R : a = b,
           UNCHANGED <<setup, global_queue, consumer, abandoned, reserved, unsaved>>
    PROVE  /\ Core' /\ Reservations' /\ Lawful
           /\ heap' \in Seq(Record) /\ Len(heap') = Len(heap) /\ DOMAIN heap' = DOMAIN heap
           /\ queue' \in [Worker -> Seq(Addr)] /\ running' \in [Worker -> SUBSET Addr]
  <1>1. heap' \in Seq(Record) /\ Len(heap') = Len(heap) /\ DOMAIN heap' = DOMAIN heap
    BY HeapMap DEF TypeOK
  <1>2. Core'
    BY <1>1, WorkerMoves
  <1>3. Reservations'
    BY <1>1, ReservationsKept
  <1>4. queue' \in [Worker -> Seq(Addr)] /\ running' \in [Worker -> SUBSET Addr]
    BY DEF TypeOK
  <1>5. Lawful
    BY DEF Lawful
  <1> QED BY <1>1, <1>2, <1>3, <1>4, <1>5

\* A sequence split at i.
LEMMA SplitAt ==
    ASSUME NEW q \in Seq(Addr), IsInjective(q), NEW i \in 1..Len(q)
    PROVE  LET front == SubSeq(q, 1, i - 1)
               back == SubSeq(q, i + 1, Len(q))
           IN  /\ back \in Seq(Addr) /\ IsInjective(back)
               /\ Range(front) \subseteq Range(q) /\ Range(back) \subseteq Range(q)
               /\ q[i] \in Range(q) /\ q[i] \notin Range(front) /\ q[i] \notin Range(back)
               /\ Range(front) \cap Range(back) = {}
  <1> DEFINE front == SubSeq(q, 1, i - 1)
             back == SubSeq(q, i + 1, Len(q))
  <1>1. /\ front \in Seq(Addr) /\ Len(front) = i - 1 /\ \A j \in 1..(i - 1) : front[j] = q[j]
        /\ back \in Seq(Addr) /\ Len(back) = Len(q) - i /\ \A j \in 1..(Len(q) - i) : back[j] = q[i + j]
    OBVIOUS
  <1> HIDE DEF front, back
  <1>2. IsInjective(back)
    <2> SUFFICES ASSUME NEW j \in 1..(Len(q) - i), NEW k \in 1..(Len(q) - i), back[j] = back[k]
                 PROVE  j = k
      BY <1>1 DEF IsInjective
    <2>1. i + j \in 1..Len(q) /\ i + k \in 1..Len(q) /\ q[i + j] = q[i + k]
      BY <1>1
    <2>2. i + j = i + k
      BY <2>1 DEF IsInjective
    <2> QED BY <2>2
  <1>3. ASSUME NEW x \in Range(front) PROVE \E j \in 1..(i - 1) : x = q[j]
    BY <1>1 DEF Range
  <1>4. ASSUME NEW x \in Range(back) PROVE \E j \in (i + 1)..Len(q) : x = q[j]
    <2>1. PICK j \in 1..(Len(q) - i) : x = back[j]
      BY <1>1 DEF Range
    <2>2. i + j \in (i + 1)..Len(q) /\ x = q[i + j]
      BY <1>1, <2>1
    <2> QED BY <2>2
  <1>5. \A j \in 1..Len(q) : q[j] \in Range(q)
    BY DEF Range
  <1>6. Range(front) \subseteq Range(q) /\ Range(back) \subseteq Range(q) /\ q[i] \in Range(q)
    BY <1>3, <1>4, <1>5
  <1>7. q[i] \notin Range(front) /\ q[i] \notin Range(back) /\ Range(front) \cap Range(back) = {}
    BY <1>3, <1>4 DEF IsInjective
  <1> QED BY <1>1, <1>2, <1>6, <1>7 DEF front, back

\* What a worker has, and what it is doing with it.
LEMMA AtWork ==
    ASSUME TypeOK, Core, NEW w \in Worker
    PROVE  /\ queue[w] \in Seq(Addr) /\ running[w] \in SUBSET Addr /\ heap \in Seq(Record)
           /\ IsInjective(queue[w]) /\ Range(queue[w]) \cap running[w] = {}
           /\ Range(queue[w]) \subseteq DOMAIN heap /\ running[w] \subseteq DOMAIN heap
           /\ \A a \in DOMAIN heap : heap[a] \in Record
           /\ \A a \in Range(queue[w]) : heap[a].status = "queued"
           /\ \A a \in running[w] : heap[a].status \in {"running"} \cup Terminal
           /\ \A a, b \in running[w] : a = b
           /\ WorkerSide(w) = Range(queue[w]) \cup running[w]
  <1>1. queue[w] \in Seq(Addr) /\ running[w] \in SUBSET Addr /\ heap \in Seq(Record)
    BY DEF TypeOK
  <1>2. \A a \in DOMAIN heap : heap[a] \in Record
    BY <1>1
  <1> QED BY <1>1, <1>2 DEF Core, OnePlace, Pointers, PlaceTellsStatus, WorkerSide

\* What a start leaves: s of the queue, and `started`, one record or none, runs.
StartWith(w, s, started) ==
    /\ IsInjective(s) /\ Range(s) \subseteq Range(queue[w])
    /\ started \subseteq Range(queue[w]) /\ Range(s) \cap started = {}
    /\ \A a, b \in started : a = b
    /\ IsFiniteSet(started)
    /\ running' = [running EXCEPT ![w] = started] /\ queue' = [queue EXCEPT ![w] = s]
    /\ runs' = [r \in Request |-> runs[r] + Cardinality({a \in started : heap[a].req = r})]
    /\ heap' = [a \in DOMAIN heap |-> heap'[a]]
    /\ \A a \in DOMAIN heap :
          /\ heap'[a] \in Record /\ heap'[a].req = heap[a].req /\ heap'[a].worker = heap[a].worker
          /\ heap'[a].status \in Allowed[heap[a].status] \cup {heap[a].status}
          /\ a \in started => heap'[a].status = "running"
          /\ \/ heap'[a] = heap[a]
             \/ a \in Range(queue[w]) \ Range(s) /\ heap'[a].status \in {"running", "timed_out"}

\* What a start leaves: the ended and late records of the front are dropped, the next one executes.
LEMMA StartFacts ==
    ASSUME IInv, NEW w \in Worker, Start(w)
    PROVE  \E s \in Seq(Addr), started \in SUBSET Addr : StartWith(w, s, started)
  <1> DEFINE q == queue[w]
             i == SelectInSeq(queue[w], Executable)
             dropped == Range(IF i = 0 THEN q ELSE SubSeq(q, 1, i - 1))
             started == IF i = 0 THEN {} ELSE {q[i]}
             s == IF i = 0 THEN <<>> ELSE SubSeq(q, i + 1, Len(q))
  <1>1. TypeOK /\ Core /\ running[w] = {}
    BY DEF IInv, Start
  <1>2. /\ heap' = [a \in DOMAIN heap |->
                       CASE a \in dropped -> EndIfOpen(heap[a], "timed_out")
                         [] a \in started -> Transition(heap[a], "running")
                         [] OTHER -> heap[a]]
        /\ running' = [running EXCEPT ![w] = started] /\ queue' = [queue EXCEPT ![w] = s]
        /\ runs' = [r \in Request |-> runs[r] + Cardinality({a \in started : heap[a].req = r})]
    BY <1>1, AtWork DEF Start, TypeOK
  <1>3. i = 0 \/ i \in 1..Len(q)
    <2> DEFINE I == {j \in 1..Len(queue[w]) : Executable(queue[w][j])}
    <2>1. i = IF I # {} THEN Min(I) ELSE 0
      BY DEF SelectInSeq
    <2>2. I \subseteq Nat
      OBVIOUS
    <2>3. I # {} => Min(I) \in I
      BY <2>2, LeastNatural
    <2> HIDE DEF I
    <2>4. i = 0 \/ i \in I
      BY <2>1, <2>3
    <2> QED BY <2>4 DEF I
  <1> HIDE DEF i
  <1>4. /\ q \in Seq(Addr) /\ IsInjective(q) /\ Range(q) \subseteq DOMAIN heap /\ WorkerSide(w) = Range(q)
        /\ \A a \in DOMAIN heap : heap[a] \in Record
        /\ \A a \in Range(q) : heap[a].status = "queued"
    BY <1>1, AtWork
  <1>5. /\ s \in Seq(Addr) /\ IsInjective(s) /\ Range(s) \subseteq Range(q)
        /\ dropped \subseteq Range(q) /\ started \subseteq Range(q)
        /\ dropped \cap Range(s) = {} /\ started \cap Range(s) = {} /\ started \cap dropped = {}
        /\ \A a, b \in started : a = b
    <2> HIDE DEF q
    <2>1. CASE i = 0
      <3>1. <<>> \in Seq(Addr) /\ IsInjective(<<>>) /\ Range(<<>>) = {}
        BY DEF IsInjective, Range
      <3> QED BY <2>1, <3>1
    <2>2. CASE i \in 1..Len(q)
      <3>1. i # 0
        BY <1>4, <2>2
      <3> QED BY <1>4, <2>2, <3>1, SplitAt
    <2> QED BY <1>3, <2>1, <2>2
  <1> HIDE DEF q, dropped, started, s
  <1>6. ASSUME NEW a \in DOMAIN heap
        PROVE  /\ heap'[a] \in Record /\ heap'[a].req = heap[a].req /\ heap'[a].worker = heap[a].worker
               /\ heap'[a].status \in Allowed[heap[a].status] \cup {heap[a].status}
               /\ a \in started => heap'[a].status = "running"
               /\ \/ heap'[a] = heap[a]
                  \/ a \in dropped \cup started /\ heap'[a].status \in {"running", "timed_out"}
    <2>1. CASE a \in dropped
      <3>1. heap'[a] = Transition(heap[a], "timed_out") /\ heap[a].status = "queued" /\ a \notin started
        BY <1>2, <1>4, <1>5, <2>1, Statuses DEF EndIfOpen, IsTerminal
      <3>2. "timed_out" \in DOMAIN Allowed /\ "timed_out" \in Allowed["queued"] /\ heap[a] \in Record
        BY <1>4, Statuses, Transitions
      <3> QED BY <2>1, <3>1, <3>2, RecordFacts
    <2>2. CASE a \in started
      <3>1. heap'[a] = Transition(heap[a], "running") /\ heap[a].status = "queued"
        BY <1>2, <1>4, <1>5, <2>2
      <3>2. "running" \in DOMAIN Allowed /\ "running" \in Allowed["queued"] /\ heap[a] \in Record
        BY <1>4, Statuses, Transitions
      <3> QED BY <2>2, <3>1, <3>2, RecordFacts
    <2>3. CASE a \notin dropped \cup started
      BY <1>2, <1>4, <2>3
    <2> QED BY <2>1, <2>2, <2>3
  <1>7. Range(q) = Range(queue[w]) /\ Range(q) \subseteq Addr
    BY <1>4 DEF q, Range
  <1>8. IsFiniteSet(started)
    BY FS_EmptySet, FS_Singleton DEF started
  <1>9. heap' = [a \in DOMAIN heap |-> heap'[a]]
    BY <1>2
  <1>10. StartWith(w, s, started)
    BY <1>2, <1>5, <1>6, <1>7, <1>8, <1>9 DEF StartWith
  <1> QED BY <1>5, <1>7, <1>10

\* From the queue of a worker to its execution.
LEMMA StartStep ==
    ASSUME IInv, NEW w \in Worker, Start(w)
    PROVE  IInv' /\ Lawful
  <1>1. TypeOK /\ Core /\ ActorRecords /\ Reservations
    BY DEF IInv
  <1>2. PICK s \in Seq(Addr), started \in SUBSET Addr : StartWith(w, s, started)
    BY StartFacts
  <1>3. /\ UNCHANGED <<setup, store, late, up, events, unsaved, confirmed, rerun, abandoned>>
        /\ UNCHANGED <<global_queue, health, directory, reserved, consumer, canceller, supervisor, lease>>
    BY DEF Start, planeVars, actorVars
  <1>4. \A a \in DOMAIN heap :
          /\ heap'[a] \in Record /\ heap'[a].req = heap[a].req
          /\ heap'[a].status \in Allowed[heap[a].status] \cup {heap[a].status}
    BY <1>2 DEF StartWith
  <1>5. Range(queue[w]) \subseteq DOMAIN heap /\ WorkerSide(w) = Range(queue[w]) \cup running[w]
    BY <1>1, AtWork
  <1>6. /\ Core' /\ Reservations' /\ Lawful
        /\ heap' \in Seq(Record) /\ Len(heap') = Len(heap) /\ DOMAIN heap' = DOMAIN heap
        /\ queue' \in [Worker -> Seq(Addr)] /\ running' \in [Worker -> SUBSET Addr]
    <2>1. \A a \in DOMAIN heap \ {} :
              heap'[a] = heap[a] \/ (a \in WorkerSide(w) /\ heap'[a].worker = heap[a].worker)
      BY <1>2, <1>5 DEF StartWith
    <2>2. \A a \in Range(s) : heap'[a] = heap[a]
      BY <1>2, <1>5 DEF StartWith
    <2>3. \A a \in started : heap'[a].status \in {"running"} \cup Terminal
      BY <1>2, <1>5 DEF StartWith
    <2>4. /\ Range(s) \subseteq Range(queue[w]) /\ IsInjective(s) /\ started \subseteq WorkerSide(w)
          /\ Range(s) \cap started = {} /\ (\A a, b \in started : a = b)
          /\ heap' = [a \in DOMAIN heap |-> heap'[a]]
          /\ running' = [running EXCEPT ![w] = started] /\ queue' = [queue EXCEPT ![w] = s]
      BY <1>2, <1>5 DEF StartWith
    <2> QED BY <1>1, <1>3, <1>4, <2>1, <2>2, <2>3, <2>4, WorkerGoesOn
  <1>7. runs' \in [Request -> Nat]
    <2>1. ASSUME NEW r \in Request PROVE Cardinality({a \in started : heap[a].req = r}) \in Nat
      <3>1. IsFiniteSet({a \in started : heap[a].req = r})
        BY <1>2, FS_Subset DEF StartWith
      <3> QED BY <3>1, FS_CardinalityType
    <2>2. runs \in [Request -> Nat]
      BY <1>1 DEF TypeOK
    <2> QED BY <1>2, <2>1, <2>2 DEF StartWith
  <1>8. TypeOK'
    BY <1>1, <1>3, <1>6, <1>7 DEF TypeOK
  <1>9. ActorRecords'
    BY <1>1, <1>3, <1>6, ActorRecordsKept
  <1> QED BY <1>6, <1>8, <1>9 DEF IInv

\* An execution ends, and the record with it.
LEMMA FinishStep ==
    ASSUME IInv, NEW w \in Worker, Finish(w)
    PROVE  IInv' /\ Lawful
  <1>1. TypeOK /\ Core /\ ActorRecords /\ Reservations
    BY DEF IInv
  <1>2. PICK o \in running[w], target \in {"completed", "failed"} :
            heap' = [heap EXCEPT ![o] = EndIfOpen(@, target)]
    BY DEF Finish
  <1>3. /\ queue[w] \in Seq(Addr) /\ IsInjective(queue[w]) /\ heap \in Seq(Record)
        /\ \A a \in DOMAIN heap : heap[a] \in Record
        /\ o \in DOMAIN heap /\ o \in WorkerSide(w) /\ o \notin Range(queue[w])
        /\ heap[o].status \in {"running"} \cup Terminal
        /\ queue \in [Worker -> Seq(Addr)] /\ Range(queue[w]) \subseteq DOMAIN heap
    BY <1>1, AtWork DEF TypeOK
  <1> DEFINE x == EndIfOpen(heap[o], target)
  <1>4. /\ x \in Record /\ x.req = heap[o].req /\ x.worker = heap[o].worker
        /\ x.status \in Allowed[heap[o].status] \cup {heap[o].status}
    <2>1. target \in DOMAIN Allowed
      BY Statuses
    <2>2. /\ x \in Record /\ x.req = heap[o].req /\ x.worker = heap[o].worker
          /\ ~IsTerminal(heap[o]) => x.status = target
          /\ IsTerminal(heap[o]) => x = heap[o]
      BY <1>3, <2>1, RecordFacts DEF EndIfOpen
    <2> HIDE DEF x
    <2> QED BY <1>3, <2>2, Transitions DEF IsTerminal
  <1>5. heap' = [heap EXCEPT ![o] = x]
    BY <1>2
  <1> HIDE DEF x
  <1>6. /\ heap' \in Seq(Record) /\ DOMAIN heap' = DOMAIN heap /\ heap' = [a \in DOMAIN heap |-> heap'[a]]
        /\ heap'[o] = x /\ \A b \in DOMAIN heap : b # o => heap'[b] = heap[b]
    <2>1. /\ heap' \in Seq(Record) /\ DOMAIN heap' = DOMAIN heap
          /\ heap'[o] = x /\ \A b \in DOMAIN heap : b # o => heap'[b] = heap[b]
      BY <1>3, <1>4, <1>5, HeapUpdate
    <2> QED BY <2>1
  <1>7. /\ UNCHANGED <<setup, store, late, up, queue, events, runs, unsaved, confirmed, rerun, abandoned>>
        /\ UNCHANGED <<global_queue, health, directory, reserved, consumer, canceller, supervisor, lease>>
        /\ running' = [running EXCEPT ![w] = {}]
    BY DEF Finish, planeVars, actorVars, historyVars
  <1>8. /\ Core' /\ Reservations' /\ Lawful
        /\ heap' \in Seq(Record) /\ Len(heap') = Len(heap) /\ DOMAIN heap' = DOMAIN heap
        /\ queue' \in [Worker -> Seq(Addr)] /\ running' \in [Worker -> SUBSET Addr]
    <2>1. \A a \in DOMAIN heap :
              /\ heap'[a] \in Record /\ heap'[a].req = heap[a].req
              /\ heap'[a].status \in Allowed[heap[a].status] \cup {heap[a].status}
      BY <1>3, <1>4, <1>6
    <2>2. \A a \in DOMAIN heap \ {} :
              heap'[a] = heap[a] \/ (a \in WorkerSide(w) /\ heap'[a].worker = heap[a].worker)
      BY <1>3, <1>4, <1>6
    <2>3. \A a \in Range(queue[w]) : heap'[a] = heap[a]
      BY <1>3, <1>6
    <2>4. queue' = [queue EXCEPT ![w] = queue[w]]
      BY <1>3, <1>7
    <2>5. {} \in SUBSET Addr /\ {} \subseteq WorkerSide(w) /\ Range(queue[w]) \cap {} = {}
      OBVIOUS
    <2> QED BY <1>1, <1>3, <1>6, <1>7, <2>1, <2>2, <2>3, <2>4, <2>5, WorkerGoesOn
  <1>9. TypeOK'
    BY <1>1, <1>7, <1>8 DEF TypeOK
  <1>10. ActorRecords'
    BY <1>1, <1>7, <1>8, ActorRecordsKept
  <1> QED BY <1>8, <1>9, <1>10 DEF IInv

\* A crash takes all the records of the worker with it.
LEMMA CrashStep ==
    ASSUME IInv, NEW w \in Worker, Crash(w)
    PROVE  IInv' /\ Lawful
  <1>1. TypeOK /\ Core /\ ActorRecords /\ Reservations
    BY DEF IInv
  <1>2. /\ UNCHANGED <<setup, heap, store, late, runs, unsaved, confirmed, rerun, abandoned>>
        /\ UNCHANGED <<global_queue, health, directory, reserved, consumer, canceller, supervisor, lease>>
        /\ queue' = [queue EXCEPT ![w] = <<>>] /\ running' = [running EXCEPT ![w] = {}]
        /\ up' = up \ {w} /\ events' = events + 1
    BY DEF Crash, planeVars, actorVars, historyVars, Event
  <1>3. /\ <<>> \in Seq(Addr) /\ IsInjective(<<>>) /\ Range(<<>>) = {}
        /\ {} \in SUBSET Addr /\ {} \subseteq WorkerSide(w)
    BY DEF IsInjective, Range
  <1>4. /\ heap' = [a \in DOMAIN heap |-> heap'[a]] /\ DOMAIN heap' = DOMAIN heap
        /\ \A a \in DOMAIN heap : heap'[a] \in Record /\ heap'[a] = heap[a]
    BY <1>1, <1>2 DEF TypeOK
  <1>5. /\ Core' /\ Reservations' /\ Lawful
        /\ heap' \in Seq(Record) /\ Len(heap') = Len(heap) /\ DOMAIN heap' = DOMAIN heap
        /\ queue' \in [Worker -> Seq(Addr)] /\ running' \in [Worker -> SUBSET Addr]
    <2>1. \A a \in DOMAIN heap \ {} :
              heap'[a] = heap[a] \/ (a \in WorkerSide(w) /\ heap'[a].worker = heap[a].worker)
      BY <1>4
    <2>2. \A a \in DOMAIN heap :
              /\ heap'[a] \in Record /\ heap'[a].req = heap[a].req
              /\ heap'[a].status \in Allowed[heap[a].status] \cup {heap[a].status}
      BY <1>4
    <2> QED BY <1>1, <1>2, <1>3, <1>4, <2>1, <2>2, WorkerGoesOn
  <1>6. TypeOK'
    BY <1>1, <1>2, <1>5 DEF TypeOK
  <1>7. ActorRecords'
    BY <1>1, <1>2, <1>5, ActorRecordsKept
  <1> QED BY <1>5, <1>6, <1>7 DEF IInv

\* A shutdown fails what is queued at the worker; what runs goes on.
LEMMA ShutdownStep ==
    ASSUME IInv, NEW w \in Worker, Shutdown(w)
    PROVE  IInv' /\ Lawful
  <1>1. TypeOK /\ Core /\ ActorRecords /\ Reservations
    BY DEF IInv
  <1>2. /\ UNCHANGED <<setup, store, late, runs, unsaved, confirmed, rerun, abandoned, running>>
        /\ UNCHANGED <<global_queue, directory, reserved, consumer, canceller, supervisor, lease>>
        /\ queue' = [queue EXCEPT ![w] = <<>>] /\ up' = up \ {w} /\ events' = events + 1
        /\ heap' = [a \in DOMAIN heap |-> IF a \in Range(queue[w]) THEN Transition(heap[a], "failed") ELSE heap[a]]
        /\ health' = [p \in Process |-> [health[p] EXCEPT ![w] = "none"]]
    BY DEF Shutdown, actorVars, historyVars, Event
  <1>3. /\ <<>> \in Seq(Addr) /\ IsInjective(<<>>) /\ Range(<<>>) = {}
    BY DEF IsInjective, Range
  <1>4. /\ running[w] \in SUBSET Addr /\ Range(queue[w]) \cap running[w] = {}
        /\ \A a \in DOMAIN heap : heap[a] \in Record
        /\ \A a \in Range(queue[w]) : heap[a].status = "queued"
        /\ \A a \in running[w] : heap[a].status \in {"running"} \cup Terminal
        /\ \A a, b \in running[w] : a = b
        /\ WorkerSide(w) = Range(queue[w]) \cup running[w] /\ running[w] \subseteq DOMAIN heap
        /\ running \in [Worker -> SUBSET Addr]
    BY <1>1, AtWork DEF TypeOK
  <1>5. ASSUME NEW a \in DOMAIN heap
        PROVE  /\ heap'[a] \in Record /\ heap'[a].req = heap[a].req /\ heap'[a].worker = heap[a].worker
               /\ heap'[a].status \in Allowed[heap[a].status] \cup {heap[a].status}
               /\ a \notin Range(queue[w]) => heap'[a] = heap[a]
    <2>1. CASE a \in Range(queue[w])
      <3>1. heap'[a] = Transition(heap[a], "failed") /\ heap[a].status = "queued"
        BY <1>2, <1>4, <2>1
      <3> QED BY <1>4, <2>1, <3>1, RecordFacts, Statuses, Transitions
    <2>2. CASE a \notin Range(queue[w])
      BY <1>2, <1>4, <2>2
    <2> QED BY <2>1, <2>2
  <1>6. /\ Core' /\ Reservations' /\ Lawful
        /\ heap' \in Seq(Record) /\ Len(heap') = Len(heap) /\ DOMAIN heap' = DOMAIN heap
        /\ queue' \in [Worker -> Seq(Addr)] /\ running' \in [Worker -> SUBSET Addr]
    <2>1. \A a \in DOMAIN heap \ {} :
              heap'[a] = heap[a] \/ (a \in WorkerSide(w) /\ heap'[a].worker = heap[a].worker)
      BY <1>4, <1>5
    <2>2. \A a \in running[w] : heap'[a].status \in {"running"} \cup Terminal
      BY <1>4, <1>5
    <2>3. running' = [running EXCEPT ![w] = running[w]]
      BY <1>2, <1>4
    <2>4. heap' = [a \in DOMAIN heap |-> heap'[a]]
      BY <1>2
    <2>5. running[w] \subseteq WorkerSide(w) /\ Range(<<>>) \subseteq Range(queue[w]) /\ Range(<<>>) \cap running[w] = {}
          /\ \A a \in Range(<<>>) : heap'[a] = heap[a]
      BY <1>3, <1>4
    <2> QED BY <1>1, <1>2, <1>3, <1>4, <1>5, <2>1, <2>2, <2>3, <2>4, <2>5, WorkerGoesOn
  <1>7. TypeOK'
    <2>1. health' \in [Process -> [Worker -> {"healthy", "suspect", "unhealthy", "none"}]]
      BY <1>1, <1>2 DEF TypeOK
    <2> QED BY <1>1, <1>2, <1>6, <2>1 DEF TypeOK
  <1>8. ActorRecords'
    BY <1>1, <1>2, <1>6, ActorRecordsKept
  <1> QED BY <1>6, <1>7, <1>8 DEF IInv

-----------------------------------------------------------------------------
(* Steps that move no record *)

\* Steps that touch no record, place or reservation keep the invariant.
LEMMA Quiet ==
    ASSUME IInv, UNCHANGED <<setup, heap, global_queue, consumer, queue, running, abandoned, reserved, unsaved>>,
           TypeOK', ActorRecords'
    PROVE  IInv' /\ Lawful
  <1>1. Core' /\ Reservations'
    BY NothingMoves, ReservationsKept DEF IInv
  <1> QED BY <1>1, StandsStill DEF IInv

\* A restarted worker has nothing.
LEMMA RestartStep ==
    ASSUME IInv, NEW w \in Worker, Restart(w)
    PROVE  IInv' /\ Lawful
  <1>1. TypeOK'
    BY DEF IInv, TypeOK, Restart, planeVars, actorVars, historyVars
  <1>2. ActorRecords'
    BY DEF IInv, ActorRecords, Restart, actorVars
  <1> QED BY <1>1, <1>2, Quiet DEF Restart, planeVars, actorVars, historyVars

\* The registry does not touch records.
LEMMA RegistryStep ==
    ASSUME IInv, NEW p \in Process, NEW w \in Worker, Register(p, w) \/ Heartbeat(p, w)
    PROVE  IInv' /\ Lawful
  <1>1. health' = [health EXCEPT ![p][w] = "healthy"] /\ directory' \in [Process -> SUBSET Worker]
    <2>1. directory \in [Process -> SUBSET Worker]
      BY DEF IInv, TypeOK
    <2>2. CASE Register(p, w)
      BY <2>1, <2>2 DEF Register
    <2>3. CASE Heartbeat(p, w)
      BY <2>1, <2>3 DEF Heartbeat
    <2> QED BY <2>2, <2>3
  <1>2. UNCHANGED <<setup, heap, store, late, global_queue, reserved, consumer, canceller, supervisor, lease,
                    up, queue, running, events, runs, unsaved, confirmed, rerun, abandoned>>
    BY DEF Register, Heartbeat, actorVars, workerVars, historyVars
  <1>3. health' \in [Process -> [Worker -> {"healthy", "suspect", "unhealthy", "none"}]]
    BY <1>1 DEF IInv, TypeOK
  <1>4. TypeOK'
    BY <1>1, <1>2, <1>3 DEF IInv, TypeOK
  <1>5. ActorRecords'
    BY <1>2 DEF IInv, ActorRecords
  <1> QED BY <1>2, <1>4, <1>5, Quiet

\* A cancellation reads a copy.
LEMMA CancelGetStep ==
    ASSUME IInv, NEW p \in Process, NEW r \in Request, CancelGet(p, r)
    PROVE  IInv' /\ Lawful
  <1>1. store[r] \in Record
    BY DEF IInv, TypeOK, CancelGet
  <1>2. /\ canceller' = [canceller EXCEPT ![p] = [pc |-> "act", copy |-> store[r]]] /\ events' = events + 1
        /\ UNCHANGED <<setup, heap, store, late, global_queue, health, directory, reserved, consumer, supervisor,
                       lease, up, queue, running, runs, unsaved, confirmed, rerun, abandoned>>
    BY DEF CancelGet, Event, planeVars, workerVars, historyVars
  <1>3. TypeOK'
    BY <1>1, <1>2 DEF IInv, TypeOK
  <1>4. ActorRecords'
    BY <1>1, <1>2 DEF IInv, ActorRecords, TypeOK
  <1> QED BY <1>2, <1>3, <1>4, Quiet

\* A cancellation saves its copy.
LEMMA CancelSaveStep ==
    ASSUME IInv, NEW p \in Process, CancelSave(p)
    PROVE  IInv' /\ Lawful
  <1> DEFINE x == canceller[p].copy
  <1>1. x \in Record /\ x.req \in Request /\ Transition(x, "cancelled") \in Record
    <2>1. x \in Record
      BY DEF IInv, ActorRecords, CancelSave
    <2> QED BY <2>1, RecordFacts, Statuses DEF Record
  <1>2. /\ canceller' = [canceller EXCEPT ![p] = NoCancel] /\ confirmed' = confirmed \cup {x.req}
        /\ UNCHANGED <<setup, heap, late, global_queue, health, directory, reserved, consumer, supervisor,
                       lease, up, queue, running, events, runs, unsaved, rerun, abandoned>>
    BY DEF CancelSave, planeVars, workerVars
  <1>3. store' \in [Request -> Record \cup {<<>>}]
    BY <1>1, StoreTyped DEF CancelSave, IInv
  <1>4. TypeOK'
    BY <1>1, <1>2, <1>3 DEF IInv, TypeOK, NoCancel
  <1>5. ActorRecords'
    BY <1>2 DEF IInv, ActorRecords, TypeOK, NoCancel
  <1> QED BY <1>2, <1>4, <1>5, Quiet

\* Time passes for a request.
LEMMA DeadlinePassesStep ==
    ASSUME IInv, NEW r \in Request, DeadlinePasses(r)
    PROVE  IInv' /\ Lawful
  <1>1. /\ late' = late \cup {r} /\ events' = events + 1
        /\ UNCHANGED <<setup, heap, store, global_queue, health, directory, reserved, consumer, canceller, supervisor,
                       lease, up, queue, running, runs, unsaved, confirmed, rerun, abandoned>>
    BY DEF DeadlinePasses, Event, planeVars, actorVars, workerVars, historyVars
  <1>2. TypeOK'
    BY <1>1 DEF IInv, TypeOK
  <1>3. ActorRecords'
    BY <1>1 DEF IInv, ActorRecords
  <1> QED BY <1>1, <1>2, <1>3, Quiet

\* Time passes for the lease.
LEMMA LeaseExpiresStep ==
    ASSUME IInv, LeaseExpires
    PROVE  IInv' /\ Lawful
  <1>1. /\ lease' = None /\ events' = events + 1
        /\ UNCHANGED <<setup, heap, store, late, global_queue, health, directory, reserved, consumer, canceller,
                       supervisor, up, queue, running, runs, unsaved, confirmed, rerun, abandoned>>
    BY DEF LeaseExpires, Event, planeVars, workerVars, historyVars
  <1>2. TypeOK'
    BY <1>1 DEF IInv, TypeOK
  <1>3. ActorRecords'
    BY <1>1 DEF IInv, ActorRecords
  <1> QED BY <1>1, <1>2, <1>3, Quiet

-----------------------------------------------------------------------------
(* Steps of a supervisor *)

SupState == [pc : SupervisorPc, todo : SUBSET Worker, list : SUBSET Record, obj : 0..MaxRecords]

\* A supervisor goes on as s; it writes the store, the lease and its registry.
LEMMA SupervisorGoesOn ==
    ASSUME IInv, NEW p \in Process, NEW s \in SupState, SupGoto(p, s),
           s.pc = "saveq" => s.obj \in DOMAIN heap,
           store' \in [Request -> Record \cup {<<>>}], lease' \in Process \cup {None},
           health' \in [Process -> [Worker -> {"healthy", "suspect", "unhealthy", "none"}]],
           directory' \in [Process -> SUBSET Worker], events' \in Nat,
           UNCHANGED <<setup, heap, late, global_queue, reserved, consumer, canceller, workerVars, historyVars>>
    PROVE  IInv' /\ Lawful
  <1>1. /\ supervisor' = [supervisor EXCEPT ![p] = s]
        /\ UNCHANGED <<up, queue, running, runs, unsaved, confirmed, rerun, abandoned>>
    BY DEF SupGoto, workerVars, historyVars
  <1>2. TypeOK'
    BY <1>1 DEF IInv, TypeOK, SupState
  <1>3. ActorRecords'
    BY <1>1 DEF IInv, ActorRecords, TypeOK
  <1> QED BY <1>1, <1>2, <1>3, Quiet

\* What a supervisor knows.
LEMMA Supervising ==
    ASSUME IInv, NEW p \in Process
    PROVE  /\ supervisor[p].todo \in SUBSET Worker /\ supervisor[p].list \in SUBSET Record
           /\ store \in [Request -> Record \cup {<<>>}] /\ lease \in Process \cup {None}
           /\ health \in [Process -> [Worker -> {"healthy", "suspect", "unhealthy", "none"}]]
           /\ directory \in [Process -> SUBSET Worker] /\ events \in Nat
           /\ heap \in Seq(Record) /\ Len(heap) <= MaxRecords /\ MaxRecords \in Nat
           /\ supervisor \in [Process -> SupState]
           /\ rerun \subseteq Request \X {"caller", "recovery"} /\ abandoned \subseteq Addr
           /\ Sup(p, "saveq") => heap[supervisor[p].obj] \in Record
  <1>1. TypeOK /\ ActorRecords /\ MaxRecords \in Nat
    BY ControlPlaneAssumption DEF IInv
  <1>2. supervisor \in [Process -> SupState] /\ heap \in Seq(Record)
    BY <1>1 DEF TypeOK, SupState
  <1>3. supervisor[p].todo \in SUBSET Worker /\ supervisor[p].list \in SUBSET Record
    BY <1>2 DEF SupState
  <1>4. Sup(p, "saveq") => heap[supervisor[p].obj] \in Record
    BY <1>1, <1>2 DEF Sup, ActorRecords
  <1> QED BY <1>1, <1>2, <1>3, <1>4 DEF TypeOK

\* A supervisor state built by SupAt is well-typed.
LEMMA SupAtTyped ==
    ASSUME NEW pc \in SupervisorPc, NEW todo \in SUBSET Worker, NEW list \in SUBSET Record, NEW obj \in 0..MaxRecords
    PROVE  /\ SupAt(pc, todo, list, obj) \in SupState
           /\ SupAt(pc, todo, list, obj).pc = pc /\ SupAt(pc, todo, list, obj).obj = obj
  BY DEF SupAt, SupState

\* A supervisor state built by SupIdle is well-typed.
LEMMA SupIdleTyped ==
    ASSUME NEW pc \in SupervisorPc
    PROVE  SupIdle(pc) \in SupState /\ SupIdle(pc).pc = pc
  <1>1. 0 \in 0..MaxRecords
    BY ControlPlaneAssumption
  <1> QED BY <1>1, SupAtTyped DEF SupIdle

\* With or without the lease.
LEMMA SupLeaseStep ==
    ASSUME IInv, NEW p \in Process, SupWakes(p) \/ SupRenew(p) \/ SupAcquire(p) \/ SupFails(p) \/ SupStops(p)
    PROVE  IInv' /\ Lawful
  <1>1. PICK pc \in {"renew", "acquire", "expire", "wait", "failed", "stopped"} : SupGoto(p, SupIdle(pc))
    BY DEF SupWakes, SupRenew, SupAcquire, SupFails, SupStops, Waiting
  <1>2. pc \in SupervisorPc /\ pc # "saveq"
    BY <1>1 DEF SupervisorPc
  <1>3. SupIdle(pc) \in SupState /\ SupIdle(pc).pc # "saveq"
    BY <1>2, SupIdleTyped
  <1>4. lease' \in Process \cup {None}
    BY Supervising DEF SupWakes, SupRenew, SupAcquire, SupFails, SupStops, Release
  <1>5. UNCHANGED <<setup, heap, store, late, health, directory, events, global_queue, reserved, consumer,
                    canceller, workerVars, historyVars>>
    BY DEF SupWakes, SupRenew, SupAcquire, SupFails, SupStops, planeVars
  <1> QED BY <1>1, <1>3, <1>4, <1>5, Supervising, SupervisorGoesOn

\* The supervisor marks workers unhealthy or suspect.
LEMMA SupExpireStep ==
    ASSUME IInv, NEW p \in Process, SupExpire(p)
    PROVE  IInv' /\ Lawful
  <1>1. PICK expired \in SUBSET {w \in Worker : health[p][w] \in {"healthy", "suspect"}} :
        \E delayed \in SUBSET (Eligible(p) \ expired) :
          /\ health' = [health EXCEPT ![p] = [w \in Worker |->
                            CASE w \in expired -> "unhealthy" [] w \in delayed -> "suspect" [] OTHER -> @[w]]]
          /\ SupGoto(p, IF expired = {} THEN Waiting ELSE SupAt("recover", expired, {}, 0))
          /\ IF expired \cup delayed = {} THEN UNCHANGED events ELSE Event
    BY DEF SupExpire
  <1>7. PICK delayed \in SUBSET (Eligible(p) \ expired) :
          /\ health' = [health EXCEPT ![p] = [w \in Worker |->
                            CASE w \in expired -> "unhealthy" [] w \in delayed -> "suspect" [] OTHER -> @[w]]]
          /\ SupGoto(p, IF expired = {} THEN Waiting ELSE SupAt("recover", expired, {}, 0))
          /\ IF expired \cup delayed = {} THEN UNCHANGED events ELSE Event
    BY <1>1
  <1> DEFINE s == IF expired = {} THEN Waiting ELSE SupAt("recover", expired, {}, 0)
  <1>2. s \in SupState /\ s.pc # "saveq"
    <2>1. expired \in SUBSET Worker /\ {} \in SUBSET Record /\ 0 \in 0..MaxRecords
      BY ControlPlaneAssumption
    <2>2. "recover" \in SupervisorPc /\ "wait" \in SupervisorPc
      BY DEF SupervisorPc
    <2> QED BY <2>1, <2>2, SupAtTyped, SupIdleTyped DEF Waiting
  <1> HIDE DEF s
  <1>3. health' \in [Process -> [Worker -> {"healthy", "suspect", "unhealthy", "none"}]]
    <2> DEFINE h == [w \in Worker |-> CASE w \in expired -> "unhealthy" [] w \in delayed -> "suspect"
                                        [] OTHER -> health[p][w]]
    <2>1. health' = [health EXCEPT ![p] = h] /\ health \in [Process -> [Worker -> {"healthy", "suspect", "unhealthy", "none"}]]
      BY <1>7, Supervising
    <2>2. h \in [Worker -> {"healthy", "suspect", "unhealthy", "none"}]
      BY <2>1
    <2> HIDE DEF h
    <2> QED BY <2>1, <2>2
  <1>4. events' \in Nat
    BY <1>7, Supervising DEF Event
  <1>5. UNCHANGED <<setup, heap, store, late, directory, lease, global_queue, reserved, consumer, canceller,
                    workerVars, historyVars>>
    BY DEF SupExpire
  <1>6. SupGoto(p, s)
    BY <1>7 DEF s
  <1> QED BY <1>2, <1>3, <1>4, <1>5, <1>6, Supervising, SupervisorGoesOn

\* The supervisor reads what the store lists.
LEMMA SupRecoverStep ==
    ASSUME IInv, NEW p \in Process, SupRecover(p)
    PROVE  IInv' /\ Lawful
  <1>1. PICK w \in supervisor[p].todo :
          /\ directory' = [directory EXCEPT ![p] = @ \ {w}]
          /\ SupGoto(p, SupAt("walk", supervisor[p].todo \ {w},
                {store[r] : r \in {q \in Request :
                    store[q] # <<>> /\ store[q].worker = w /\ ~IsTerminal(store[q])}}, 0))
    BY DEF SupRecover
  <1> DEFINE list == {store[r] : r \in {q \in Request :
                         store[q] # <<>> /\ store[q].worker = w /\ ~IsTerminal(store[q])}}
             s == SupAt("walk", supervisor[p].todo \ {w}, list, 0)
  <1>2. s \in SupState /\ s.pc # "saveq"
    <2>1. list \in SUBSET Record
      BY Supervising
    <2>2. supervisor[p].todo \ {w} \in SUBSET Worker /\ 0 \in 0..MaxRecords /\ "walk" \in SupervisorPc
      BY Supervising DEF SupervisorPc
    <2> HIDE DEF list
    <2> QED BY <2>1, <2>2, SupAtTyped
  <1>3. directory' \in [Process -> SUBSET Worker]
    BY <1>1, Supervising
  <1>4. UNCHANGED <<setup, heap, store, late, health, lease, events, global_queue, reserved, consumer, canceller,
                    workerVars, historyVars>>
    BY DEF SupRecover
  <1>5. SupGoto(p, s)
    BY <1>1
  <1> HIDE DEF s
  <1> QED BY <1>2, <1>3, <1>4, <1>5, Supervising, SupervisorGoesOn

\* Continue goes to a state without a record to save.
LEMMA ContinueTyped ==
    ASSUME IInv, NEW p \in Process, NEW list \in SUBSET Record, Continue(p, list)
    PROVE  \E s \in SupState : s.pc # "saveq" /\ SupGoto(p, s)
  <1>1. /\ supervisor[p].todo \in SUBSET Worker /\ 0 \in 0..MaxRecords /\ {} \in SUBSET Record
        /\ {"walk", "recover", "wait"} \subseteq SupervisorPc
    BY Supervising DEF SupervisorPc
  <1>2. /\ SupAt("walk", supervisor[p].todo, list, 0) \in SupState
        /\ SupAt("walk", supervisor[p].todo, list, 0).pc = "walk"
        /\ SupAt("recover", supervisor[p].todo, {}, 0) \in SupState
        /\ SupAt("recover", supervisor[p].todo, {}, 0).pc = "recover"
        /\ Waiting \in SupState /\ Waiting.pc = "wait"
    BY <1>1, SupAtTyped, SupIdleTyped DEF Waiting
  <1> QED BY <1>2 DEF Continue

\* The supervisor is done with an entry, or ends it in the store only.
LEMMA SupWalkStep ==
    ASSUME IInv, NEW p \in Process, SupDone(p) \/ SupEnds(p)
    PROVE  IInv' /\ Lawful
  <1>1. /\ \E list \in SUBSET Record : Continue(p, list)
        /\ store' \in [Request -> Record \cup {<<>>}]
    <2>1. CASE SupDone(p)
      BY <2>1, Supervising DEF SupDone
    <2>2. CASE SupEnds(p)
      <3>1. PICK x \in supervisor[p].list :
              Save(Transition(x, Verdict(x))) /\ Continue(p, supervisor[p].list \ {x})
        BY <2>2 DEF SupEnds
      <3>2. x \in Record /\ supervisor[p].list \ {x} \in SUBSET Record
        BY Supervising
      <3>3. Verdict(x) \in DOMAIN Allowed
        BY Statuses DEF Verdict
      <3>4. Transition(x, Verdict(x)) \in Record
        BY <3>2, <3>3, RecordFacts
      <3> QED BY <3>1, <3>2, <3>4, StoreTyped DEF IInv
    <2> QED BY <2>1, <2>2
  <1>2. PICK s \in SupState : s.pc # "saveq" /\ SupGoto(p, s)
    BY <1>1, ContinueTyped
  <1>3. UNCHANGED <<setup, heap, late, health, directory, lease, events, global_queue, reserved, consumer,
                    canceller, workerVars, historyVars>>
    BY DEF SupDone, SupEnds, planeVars
  <1> QED BY <1>1, <1>2, <1>3, Supervising, SupervisorGoesOn

\* The record that was put back is saved as it is by then.
LEMMA SupSavesStep ==
    ASSUME IInv, NEW p \in Process, SupSaves(p)
    PROVE  IInv' /\ Lawful
  <1> DEFINE s == SupAt("walk", supervisor[p].todo, supervisor[p].list, 0)
  <1>1. heap[supervisor[p].obj] \in Record
    BY Supervising DEF SupSaves
  <1>2. store' \in [Request -> Record \cup {<<>>}]
    BY <1>1, StoreTyped DEF SupSaves, IInv
  <1>3. s \in SupState /\ s.pc # "saveq" /\ SupGoto(p, s)
    <2>1. 0 \in 0..MaxRecords /\ "walk" \in SupervisorPc
      BY Supervising DEF SupervisorPc
    <2> QED BY <2>1, Supervising, SupAtTyped DEF SupSaves
  <1>4. UNCHANGED <<setup, heap, late, health, directory, lease, events, global_queue, reserved, consumer,
                    canceller, workerVars, historyVars>>
    BY DEF SupSaves, planeVars
  <1> HIDE DEF s
  <1> QED BY <1>2, <1>3, <1>4, Supervising, SupervisorGoesOn

\* The supervisor puts a new record of an entry into its queue.
LEMMA SupRequeuesStep ==
    ASSUME IInv, NEW p \in Process, SupRequeues(p)
    PROVE  IInv' /\ Lawful
  <1>1. PICK x \in supervisor[p].list :
          /\ heap' = Append(heap, [x EXCEPT !.status = "queued", !.worker = NoWorker])
          /\ global_queue' = [global_queue EXCEPT ![p] = @ \cup {Len(heap) + 1}]
          /\ SupGoto(p, SupAt("saveq", supervisor[p].todo, supervisor[p].list \ {x}, Len(heap) + 1))
          /\ rerun' = rerun \cup {<<x.req, "recovery">>}
    BY DEF SupRequeues
  <1> DEFINE y == [x EXCEPT !.status = "queued", !.worker = NoWorker]
             s == SupAt("saveq", supervisor[p].todo, supervisor[p].list \ {x}, Len(heap) + 1)
             S == global_queue[p] \cup {Len(heap) + 1}
  <1>2. x \in Record /\ x.req \in Request /\ y \in Record /\ y.status = "queued"
    <2>1. x \in Record
      BY Supervising
    <2> QED BY <2>1, Statuses DEF Record
  <1>3. Len(heap) + 1 <= MaxRecords /\ Len(heap) + 1 \in 0..MaxRecords
    BY Supervising DEF SupRequeues
  <1>4. s \in SupState /\ s.pc = "saveq" /\ s.obj = Len(heap) + 1
    <2>1. supervisor[p].list \ {x} \in SUBSET Record /\ "saveq" \in SupervisorPc /\ supervisor[p].todo \in SUBSET Worker
      BY Supervising DEF SupervisorPc
    <2> QED BY <1>3, <2>1, SupAtTyped
  <1>5. heap' = Append(heap, y) /\ global_queue' = [global_queue EXCEPT ![p] = S]
    BY <1>1 DEF IInv, TypeOK
  <1>6. supervisor' = [supervisor EXCEPT ![p] = s]
    BY <1>1 DEF SupGoto
  <1> HIDE DEF y, s
  <1>7. /\ UNCHANGED <<setup, late, health, directory, reserved, consumer, canceller, lease, workerVars,
                       events, runs, unsaved, confirmed>>
        /\ UNCHANGED <<store, abandoned>>
    BY DEF SupRequeues
  <1>8. supervisor' \in [Process -> SupState]
    BY <1>4, <1>6, Supervising
  <1>9. \A q \in Process : supervisor'[q].pc = "saveq" => supervisor'[q].obj \in DOMAIN heap'
    <2>1. DOMAIN heap' = DOMAIN heap \cup {Len(heap) + 1}
      BY <1>2, <1>5, Supervising, HeapAppend
    <2>2. supervisor'[p] = s /\ \A q \in Process : q # p => supervisor'[q] = supervisor[q]
      BY <1>6, Supervising
    <2> QED BY <1>4, <2>1, <2>2 DEF IInv, ActorRecords
  <1>10. /\ rerun' \subseteq Request \X {"caller", "recovery"}
         /\ store' \in [Request -> Record \cup {<<>>}] /\ abandoned' \subseteq Addr
    BY <1>1, <1>2, <1>7, Supervising
  <1>11. /\ S \subseteq global_queue[p] \cup {Len(heap) + 1} /\ Len(heap) + 1 \in S
         /\ \A a \in global_queue[p] \ S : IsTerminal(heap[a]) \/ a \in abandoned'
         /\ abandoned \subseteq abandoned'
    BY <1>7
  <1> HIDE DEF S
  <1> QED BY <1>2, <1>3, <1>5, <1>7, <1>8, <1>9, <1>10, <1>11, NewRecordStep DEF SupState

-----------------------------------------------------------------------------
(* A cancellation acts *)

\* A sequence without its element i.
LEMMA WithoutOne ==
    ASSUME NEW q \in Seq(Addr), IsInjective(q), NEW i \in 1..Len(q)
    PROVE  /\ RemoveAt(q, i) \in Seq(Addr) /\ IsInjective(RemoveAt(q, i))
           /\ Range(RemoveAt(q, i)) \subseteq Range(q) /\ q[i] \notin Range(RemoveAt(q, i))
  <1> DEFINE s == RemoveAt(q, i)
             at(j) == IF j < i THEN j ELSE j + 1
  <1>1. s \in Seq(Addr) /\ Len(s) = Len(q) - 1 /\ \A j \in 1..(Len(q) - 1) : s[j] = q[at(j)]
    <2> DEFINE front == SubSeq(q, 1, i - 1)
               back == SubSeq(q, i + 1, Len(q))
    <2>1. /\ front \in Seq(Addr) /\ Len(front) = i - 1 /\ \A j \in 1..(i - 1) : front[j] = q[j]
          /\ back \in Seq(Addr) /\ Len(back) = Len(q) - i /\ \A j \in 1..(Len(q) - i) : back[j] = q[i + j]
      OBVIOUS
    <2>2. s = front \o back
      BY DEF RemoveAt
    <2> HIDE DEF front, back, s
    <2>3. /\ s \in Seq(Addr) /\ Len(s) = Len(q) - 1
          /\ \A j \in 1..(Len(q) - 1) : s[j] = IF j <= i - 1 THEN front[j] ELSE back[j - (i - 1)]
      <3>1. /\ front \o back \in Seq(Addr) /\ Len(front \o back) = Len(front) + Len(back)
            /\ \A j \in 1..(Len(front) + Len(back)) :
                  (front \o back)[j] = IF j <= Len(front) THEN front[j] ELSE back[j - Len(front)]
        BY <2>1, ConcatProperties
      <3>2. Len(front) + Len(back) = Len(q) - 1
        BY <2>1
      <3> QED BY <2>1, <2>2, <3>1, <3>2
    <2>4. ASSUME NEW j \in 1..(Len(q) - 1) PROVE s[j] = q[at(j)]
      <3>1. CASE j < i
        BY <2>1, <2>3, <3>1
      <3>2. CASE ~(j < i)
        <4>1. j - (i - 1) \in 1..(Len(q) - i) /\ i + (j - (i - 1)) = j + 1
          BY <3>2
        <4>2. s[j] = back[j - (i - 1)] /\ back[j - (i - 1)] = q[i + (j - (i - 1))]
          BY <2>1, <2>3, <3>2, <4>1
        <4> QED BY <3>2, <4>1, <4>2
      <3> QED BY <3>1, <3>2
    <2> QED BY <2>3, <2>4
  <1> HIDE DEF s
  <1>2. \A j \in 1..(Len(q) - 1) : at(j) \in 1..Len(q) /\ at(j) # i
    OBVIOUS
  <1>3. \A j, k \in 1..(Len(q) - 1) : at(j) = at(k) => j = k
    OBVIOUS
  <1> HIDE DEF at
  <1>4. IsInjective(s)
    BY <1>1, <1>2, <1>3 DEF IsInjective
  <1>5. \A e \in Range(s) : \E j \in 1..(Len(q) - 1) : e = q[at(j)]
    BY <1>1 DEF Range
  <1>6. Range(s) \subseteq Range(q)
    BY <1>2, <1>5 DEF Range
  <1>7. q[i] \notin Range(s)
    BY <1>2, <1>5 DEF IsInjective
  <1> QED BY <1>1, <1>4, <1>6, <1>7 DEF s

\* A record that is cancelled unless it has ended.
LEMMA CancelledRecord ==
    ASSUME NEW x \in Record, x.status \in {"queued", "running"} \cup Terminal
    PROVE  LET y == EndIfOpen(x, "cancelled")
           IN  /\ y \in Record /\ y.req = x.req /\ y.worker = x.worker /\ IsTerminal(y)
               /\ y.status \in Allowed[x.status] \cup {x.status}
  <1>1. /\ Transition(x, "cancelled") \in Record /\ Transition(x, "cancelled").req = x.req
        /\ Transition(x, "cancelled").worker = x.worker /\ Transition(x, "cancelled").status = "cancelled"
    BY RecordFacts, Statuses
  <1> QED BY <1>1, Statuses, Transitions DEF EndIfOpen, IsTerminal

\* The heap after CancelAt.
LEMMA CancelledHeap ==
    ASSUME TypeOK, NEW p, NEW D, CancelAt(p, D),
           \A a \in DOMAIN heap \cap D : heap[a].status \in {"queued", "running"} \cup Terminal
    PROVE  /\ heap' = [a \in DOMAIN heap |-> heap'[a]] /\ DOMAIN heap' = DOMAIN heap
           /\ \A a \in DOMAIN heap :
                 /\ heap'[a] \in Record /\ heap'[a].req = heap[a].req /\ heap'[a].worker = heap[a].worker
                 /\ heap'[a].status \in Allowed[heap[a].status] \cup {heap[a].status}
                 /\ IF a \in D THEN IsTerminal(heap'[a]) ELSE heap'[a] = heap[a]
  <1>1. heap' = [a \in DOMAIN heap |-> IF a \in D THEN EndIfOpen(heap[a], "cancelled") ELSE heap[a]]
    BY DEF CancelAt
  <1>2. \A a \in DOMAIN heap : heap[a] \in Record
    BY DEF TypeOK
  <1>3. ASSUME NEW a \in DOMAIN heap
        PROVE  /\ heap'[a] \in Record /\ heap'[a].req = heap[a].req /\ heap'[a].worker = heap[a].worker
               /\ heap'[a].status \in Allowed[heap[a].status] \cup {heap[a].status}
               /\ IF a \in D THEN IsTerminal(heap'[a]) ELSE heap'[a] = heap[a]
    <2>1. CASE a \in D
      <3>1. heap'[a] = EndIfOpen(heap[a], "cancelled")
        BY <1>1, <2>1
      <3> QED BY <1>2, <2>1, <3>1, CancelledRecord
    <2>2. CASE a \notin D
      BY <1>1, <1>2, <2>2
    <2> QED BY <2>1, <2>2
  <1> QED BY <1>1, <1>3

\* The canceller goes on to save, or is done.
CancellerMoves(p) ==
    canceller' = [canceller EXCEPT ![p].pc = "save"] \/ canceller' = [canceller EXCEPT ![p] = NoCancel]

\* A cancellation that goes on has a well-typed copy.
LEMMA CancellerTyped ==
    ASSUME IInv, NEW p \in Process, canceller[p].pc = "act", CancellerMoves(p)
    PROVE  /\ canceller' \in [Process -> [pc : {"idle", "act", "save"}, copy : Record \cup {<<>>}]]
           /\ \A q \in Process : canceller'[q].pc # "idle" => canceller'[q].copy \in Record
  <1>1. /\ canceller \in [Process -> [pc : {"idle", "act", "save"}, copy : Record \cup {<<>>}]]
        /\ \A q \in Process : canceller[q].pc # "idle" => canceller[q].copy \in Record
    BY DEF IInv, TypeOK, ActorRecords
  <1>2. canceller[p].copy \in Record
    BY <1>1
  <1>3. CASE canceller' = [canceller EXCEPT ![p].pc = "save"]
    BY <1>1, <1>2, <1>3
  <1>4. CASE canceller' = [canceller EXCEPT ![p] = NoCancel]
    BY <1>1, <1>4 DEF NoCancel
  <1> QED BY <1>3, <1>4 DEF CancellerMoves

\* In the global queue.
LEMMA CancelQueuedStep ==
    ASSUME IInv, NEW p \in Process, NEW r, canceller[p].pc = "act", CancellerMoves(p),
           CancelAt(p, QueuedAs(p, r)), global_queue' = [global_queue EXCEPT ![p] = @ \ QueuedAs(p, r)],
           UNCHANGED <<queue, events>>,
           UNCHANGED <<setup, store, late, health, directory, reserved, consumer, supervisor, lease, up,
                       running, historyVars>>
    PROVE  IInv' /\ Lawful
  <1> DEFINE D == QueuedAs(p, r)
  <1>1. TypeOK /\ Core /\ ActorRecords /\ Reservations
    BY DEF IInv
  <1>2. D \subseteq global_queue[p] /\ \A a \in D : heap[a].status \in {"queued"} \cup Terminal
    BY <1>1 DEF QueuedAs, Core, PlaceTellsStatus
  <1> HIDE DEF D
  <1>3. /\ heap' = [a \in DOMAIN heap |-> heap'[a]] /\ DOMAIN heap' = DOMAIN heap
        /\ \A a \in DOMAIN heap :
              /\ heap'[a] \in Record /\ heap'[a].req = heap[a].req
              /\ heap'[a].status \in Allowed[heap[a].status] \cup {heap[a].status}
              /\ IF a \in D THEN IsTerminal(heap'[a]) ELSE heap'[a] = heap[a]
    BY <1>1, <1>2, CancelledHeap DEF D
  <1>4. UNCHANGED <<runs, unsaved, confirmed, rerun, abandoned>>
    BY DEF historyVars
  <1>5. Core'
    BY <1>1, <1>2, <1>3, <1>4, RecordsLeaveQueue DEF D
  <1>6. Reservations'
    BY <1>1, <1>3, <1>4, ReservationsKept
  <1>7. heap' \in Seq(Record) /\ Len(heap') = Len(heap)
    BY <1>1, <1>3, HeapMap DEF TypeOK
  <1>8. TypeOK'
    <2>1. global_queue' \in [Process -> SUBSET Addr]
      BY <1>1 DEF TypeOK
    <2> QED BY <1>1, <1>4, <1>7, <2>1, CancellerTyped DEF TypeOK
  <1>9. ActorRecords'
    BY <1>1, <1>3, CancellerTyped DEF ActorRecords
  <1>10. Lawful
    BY <1>3 DEF Lawful
  <1> QED BY <1>5, <1>6, <1>8, <1>9, <1>10 DEF IInv

\* At worker w, with a record E that its client kept.
LEMMA CancelAtWorkerStep ==
    ASSUME IInv, NEW p \in Process, NEW w \in Worker, NEW r, NEW E, canceller[p].pc = "act", CancellerMoves(p),
           \A a \in E : setup.transport = "http" /\ consumer[p].pc \in {"commit", "await"} /\ a = consumer[p].obj,
           CancelAt(p, AtWorker(w, r) \cup E), events' \in Nat,
           queue' = [queue EXCEPT ![w] = IF QueuedAt(w, r) > 0 THEN RemoveAt(@, QueuedAt(w, r)) ELSE @],
           UNCHANGED <<setup, store, late, global_queue, health, directory, reserved, consumer, supervisor,
                       lease, up, running, historyVars>>
    PROVE  IInv' /\ Lawful
  <1> DEFINE q == queue[w]
             i == QueuedAt(w, r)
             s == IF i > 0 THEN RemoveAt(q, i) ELSE q
             A == AtWorker(w, r)
  <1>1. TypeOK /\ Core /\ ActorRecords /\ Reservations
    BY DEF IInv
  <1>2. i = 0 \/ i \in 1..Len(q)
    <2> DEFINE I == {j \in 1..Len(queue[w]) : heap[queue[w][j]].req = r}
    <2>1. i = IF I # {} THEN Min(I) ELSE 0
      BY DEF SelectInSeq, QueuedAt
    <2>2. I \subseteq Nat
      OBVIOUS
    <2>3. I # {} => Min(I) \in I
      BY <2>2, LeastNatural
    <2> HIDE DEF I
    <2>4. i = 0 \/ i \in I
      BY <2>1, <2>3
    <2> QED BY <2>4 DEF I
  <1>3. /\ q \in Seq(Addr) /\ running[w] \in SUBSET Addr /\ IsInjective(q) /\ Range(q) \cap running[w] = {}
        /\ Range(q) \subseteq DOMAIN heap /\ running[w] \subseteq DOMAIN heap
        /\ \A a \in Range(q) : heap[a].status = "queued"
        /\ \A a \in running[w] : heap[a].status \in {"running"} \cup Terminal
        /\ \A a, b \in running[w] : a = b
        /\ WorkerSide(w) = Range(q) \cup running[w]
    BY <1>1, AtWork
  <1>4. queue' = [queue EXCEPT ![w] = s]
    BY <1>1 DEF TypeOK
  <1>5. /\ s \in Seq(Addr) /\ IsInjective(s) /\ Range(s) \subseteq Range(q)
        /\ A \subseteq WorkerSide(w) /\ A \cap Range(s) = {}
    <2>1. CASE i = 0
      <3>1. s = q /\ A = {o \in running[w] : heap[o].req = r /\ ~IsTerminal(heap[o])}
        BY <2>1 DEF AtWorker
      <3> QED BY <1>3, <3>1
    <2>2. CASE i \in 1..Len(q)
      <3>1. i > 0 /\ s = RemoveAt(q, i) /\ A = {q[i]}
        BY <1>3, <2>2 DEF AtWorker
      <3>2. q[i] \in Range(q)
        BY <1>3, <2>2 DEF Range
      <3> HIDE DEF i, q, s, A
      <3> QED BY <1>3, <2>2, <3>1, <3>2, WithoutOne
    <2> QED BY <1>2, <2>1, <2>2
  <1>6. ASSUME NEW e \in E
        PROVE  /\ e \notin WorkerSide(w) /\ e \in DOMAIN heap
               /\ heap[e].status \in {"queued"} \cup Terminal
    <2>1. e = consumer[p].obj /\ consumer[p].pc \in {"commit", "await"} /\ setup.transport = "http"
      OBVIOUS
    <2>2. e \in PlaneSide(p) /\ SharedWithWorker(p) = {}
      BY <2>1 DEF PlaneSide, Busy, SharedWithWorker
    <2>3. heap[e].status \in {"queued"} \cup Terminal
      BY <1>1, <2>1 DEF Core, PlaceTellsStatus, Held
    <2> QED BY <1>1, <2>2, <2>3 DEF Core, OnePlace, Pointers
  <1> HIDE DEF q, i, s, A
  <1>7. /\ heap' = [a \in DOMAIN heap |-> heap'[a]] /\ DOMAIN heap' = DOMAIN heap
        /\ \A a \in DOMAIN heap :
              /\ heap'[a] \in Record /\ heap'[a].req = heap[a].req /\ heap'[a].worker = heap[a].worker
              /\ heap'[a].status \in Allowed[heap[a].status] \cup {heap[a].status}
              /\ IF a \in A \cup E THEN IsTerminal(heap'[a]) ELSE heap'[a] = heap[a]
    <2>1. CancelAt(p, A \cup E)
      BY DEF A
    <2>2. \A a \in DOMAIN heap \cap (A \cup E) : heap[a].status \in {"queued", "running"} \cup Terminal
      BY <1>3, <1>5, <1>6
    <2> QED BY <1>1, <2>1, <2>2, CancelledHeap
  <1>8. UNCHANGED <<runs, unsaved, confirmed, rerun, abandoned>>
    BY DEF historyVars
  <1>9. /\ Core' /\ Reservations' /\ Lawful
        /\ heap' \in Seq(Record) /\ Len(heap') = Len(heap) /\ DOMAIN heap' = DOMAIN heap
        /\ queue' \in [Worker -> Seq(Addr)] /\ running' \in [Worker -> SUBSET Addr]
    <2>1. \A a \in E : setup.transport = "http" /\ IsTerminal(heap'[a]) /\
              \E z \in Process : consumer[z].pc \in {"commit", "await"} /\ consumer[z].obj = a
      BY <1>6, <1>7
    <2>2. \A a \in DOMAIN heap \ E :
              heap'[a] = heap[a] \/ (a \in WorkerSide(w) /\ heap'[a].worker = heap[a].worker)
      BY <1>5, <1>7
    <2>3. running' = [running EXCEPT ![w] = running[w]]
      BY <1>1 DEF TypeOK
    <2>4. /\ Range(s) \subseteq Range(queue[w]) /\ running[w] \subseteq WorkerSide(w) /\ Range(s) \cap running[w] = {}
      BY <1>3, <1>5 DEF q
    <2>5. \A a \in Range(s) : heap'[a] = heap[a]
      BY <1>3, <1>5, <1>6, <1>7
    <2>6. \A a \in running[w] : heap'[a].status \in {"running"} \cup Terminal
      BY <1>3, <1>7 DEF IsTerminal
    <2>7. \A a \in DOMAIN heap :
              /\ heap'[a] \in Record /\ heap'[a].req = heap[a].req
              /\ heap'[a].status \in Allowed[heap[a].status] \cup {heap[a].status}
      BY <1>7
    <2> QED BY <1>1, <1>3, <1>4, <1>5, <1>7, <1>8, <2>1, <2>2, <2>3, <2>4, <2>5, <2>6, <2>7, WorkerGoesOn
  <1>10. TypeOK'
    BY <1>1, <1>8, <1>9, CancellerTyped DEF TypeOK
  <1>11. ActorRecords'
    BY <1>1, <1>9, CancellerTyped DEF ActorRecords
  <1> QED BY <1>9, <1>10, <1>11 DEF IInv

\* A cancellation ends the record where it finds it.
LEMMA CancelActStep ==
    ASSUME IInv, NEW p \in Process, CancelAct(p)
    PROVE  IInv' /\ Lawful
  <1> DEFINE x == canceller[p].copy
             w == x.worker
             found == w \in directory[p] /\ w \in up /\ AtWorker(w, x.req) # {}
  <1>1. /\ canceller[p].pc = "act"
        /\ UNCHANGED <<setup, store, late, health, directory, reserved, consumer, supervisor, lease, up,
                       running, historyVars>>
    BY DEF CancelAct
  <1>2. CASE /\ CancelAt(p, QueuedAs(p, x.req))
             /\ global_queue' = [global_queue EXCEPT ![p] = @ \ QueuedAs(p, x.req)]
             /\ canceller' = [canceller EXCEPT ![p].pc = "save"]
             /\ UNCHANGED <<queue, events>>
    BY <1>1, <1>2, CancelQueuedStep DEF CancellerMoves
  <1>3. CASE /\ found
             /\ queue' = [queue EXCEPT ![w] = IF QueuedAt(w, x.req) > 0 THEN RemoveAt(@, QueuedAt(w, x.req)) ELSE @]
             /\ \/ /\ CancelAt(p, CancelledBy(p, w, x.req)) /\ UNCHANGED events
                   /\ canceller' = [canceller EXCEPT ![p].pc = "save"]
                \/ /\ Event /\ CancelAt(p, AtWorker(w, x.req))
                   /\ canceller' = [canceller EXCEPT ![p] = NoCancel]
             /\ UNCHANGED global_queue
    <2> DEFINE E == IF setup.transport = "http" /\ consumer[p].pc \in {"commit", "await"}
                       /\ Held(p).req = x.req /\ heap[consumer[p].remote].worker = w
                    THEN {consumer[p].obj} ELSE {}
    <2>1. w \in Worker /\ events \in Nat
      BY <1>3 DEF IInv, TypeOK
    <2>2. events' \in Nat /\ CancellerMoves(p)
      BY <1>3, <2>1 DEF Event, CancellerMoves
    <2>5. /\ queue' = [queue EXCEPT ![w] = IF QueuedAt(w, x.req) > 0 THEN RemoveAt(@, QueuedAt(w, x.req)) ELSE @]
          /\ UNCHANGED <<setup, store, late, global_queue, health, directory, reserved, consumer, supervisor,
                         lease, up, running, historyVars>>
      BY <1>1, <1>3
    <2>3. CASE CancelAt(p, CancelledBy(p, w, x.req))
      <3>1. CancelledBy(p, w, x.req) = AtWorker(w, x.req) \cup E
        BY DEF CancelledBy
      <3>2. \A a \in E : setup.transport = "http" /\ consumer[p].pc \in {"commit", "await"} /\ a = consumer[p].obj
        OBVIOUS
      <3>3. CancelAt(p, AtWorker(w, x.req) \cup E)
        BY <2>3, <3>1
      <3> HIDE DEF E, x, w
      <3> QED BY <1>1, <2>1, <2>2, <2>5, <3>2, <3>3, CancelAtWorkerStep
    <2>4. CASE CancelAt(p, AtWorker(w, x.req))
      <3>1. AtWorker(w, x.req) = AtWorker(w, x.req) \cup {}
        OBVIOUS
      <3>2. CancelAt(p, AtWorker(w, x.req) \cup {})
        BY <2>4, <3>1
      <3> DEFINE N == {}
      <3>3. \A a \in N : setup.transport = "http" /\ consumer[p].pc \in {"commit", "await"} /\ a = consumer[p].obj
        OBVIOUS
      <3>4. CancelAt(p, AtWorker(w, x.req) \cup N)
        BY <3>2
      <3> HIDE DEF x, w, N
      <3> QED BY <1>1, <2>1, <2>2, <2>5, <3>3, <3>4, CancelAtWorkerStep
    <2> QED BY <1>3, <2>3, <2>4
  <1>4. CASE /\ canceller' = [canceller EXCEPT ![p] = NoCancel]
             /\ UNCHANGED <<heap, global_queue, queue, events>>
    <2>1. UNCHANGED <<runs, unsaved, confirmed, rerun, abandoned>> /\ CancellerMoves(p)
      BY <1>1, <1>4 DEF historyVars, CancellerMoves
    <2>2. TypeOK'
      BY <1>1, <1>4, <2>1, CancellerTyped DEF IInv, TypeOK
    <2>3. ActorRecords'
      BY <1>1, <1>4, <2>1, CancellerTyped DEF IInv, ActorRecords
    <2> QED BY <1>1, <1>4, <2>1, <2>2, <2>3, Quiet
  <1> QED BY <1>2, <1>3, <1>4 DEF CancelAct

-----------------------------------------------------------------------------
(* The theorems *)

\* Nothing exists at the start.
LEMMA InitIInv ==
    ASSUME Init
    PROVE  IInv
  <1>1. TypeOK
    <2>1. /\ setup.workers \subseteq Worker
      BY SetupsAssumption DEF Init, Setup
    <2>2. /\ consumer \in [Process -> [pc : ConsumerPc, obj : 0..MaxRecords, remote : 0..MaxRecords]]
          /\ canceller \in [Process -> [pc : {"idle", "act", "save"}, copy : Record \cup {<<>>}]]
      BY ControlPlaneAssumption DEF Init, Idle, NoCancel, ConsumerPc
    <2>3. supervisor \in [Process -> SupState]
      BY SupIdleTyped DEF Init, SupervisorPc
    <2>4. /\ heap \in Seq(Record) /\ Len(heap) <= MaxRecords /\ queue \in [Worker -> Seq(Addr)]
          /\ running \in [Worker -> SUBSET Addr] /\ global_queue \in [Process -> SUBSET Addr]
          /\ store \in [Request -> Record \cup {<<>>}]
      BY ControlPlaneAssumption DEF Init
    <2>5. /\ health \in [Process -> [Worker -> {"healthy", "suspect", "unhealthy", "none"}]]
          /\ directory \in [Process -> SUBSET Worker] /\ reserved \in [Process -> SUBSET Request]
          /\ runs \in [Request -> Nat] /\ up \subseteq Worker
      BY <2>1 DEF Init
    <2> QED BY <2>2, <2>3, <2>4, <2>5 DEF Init, TypeOK, SupState
  <1>2. /\ \A p \in Process : PlaneSide(p) = {} /\ ~Busy(p) /\ consumer[p] = Idle
        /\ \A w \in Worker : WorkerSide(w) = {} /\ queue[w] = <<>> /\ running[w] = {}
        /\ DOMAIN heap = {}
    BY DEF Init, PlaneSide, WorkerSide, Busy, Idle, Range
  <1>3. Pointers
    BY <1>2 DEF Pointers, Idle
  <1>4. OnePlace
    <2>1. IsInjective(<<>>)
      BY DEF IsInjective
    <2> QED BY <1>2, <2>1 DEF OnePlace, Range
  <1>5. PlaceTellsStatus
    BY <1>2 DEF PlaceTellsStatus, Init, Idle, Assigned, WorkerSide
  <1>6. NoRequestLost
    BY <1>2 DEF NoRequestLost
  <1>7. ActorRecords
    <2>1. SupIdle("wait").pc = "wait"
      BY SupIdleTyped DEF SupervisorPc
    <2> QED BY <2>1 DEF ActorRecords, Init, NoCancel
  <1>8. Reservations
    BY <1>2 DEF Reservations, Init, InFlight, Idle
  <1> QED BY <1>1, <1>3, <1>4, <1>5, <1>6, <1>7, <1>8 DEF IInv, Core

\* Every step keeps the invariant and makes only transitions of the table.
LEMMA NextIInv ==
    ASSUME IInv, [Next]_vars
    PROVE  IInv' /\ Lawful
  <1>1. /\ setup.procs \subseteq Process /\ setup.workers \subseteq Worker /\ setup.requests \subseteq Request
    BY TheSetup DEF IInv
  <1>2. ASSUME NEW p \in Process, NEW r \in Request, Submit(p, r) \/ PipelineSubmit(p, r) \/ CancelGet(p, r)
        PROVE  IInv' /\ Lawful
    BY <1>2, SubmitStep, PipelineSubmitStep, CancelGetStep
  <1>3. ASSUME NEW p \in Process, ConsumerStep(p)
        PROVE  IInv' /\ Lawful
    <2>1. CASE Take(p) \/ Requeue(p) \/ Handoff(p) \/ HandoffRaises(p) \/ Answer(p)
      BY <2>1, TakeStep, RequeueStep, HandoffStep, HandoffRaisesStep, AnswerStep
    <2>2. CASE AssignRaises(p) \/ Assign(p) \/ SaveAssigned(p) \/ SaveAssignedRaises(p) \/ PrepareRaises(p) \/ Prepare(p)
      BY <2>2, AssignRaisesStep, AssignStep, SaveAssignedStep, SaveAssignedRaisesStep, PrepareRaisesStep, PrepareStep
    <2>3. CASE Commit(p) \/ GiveUp(p) \/ Collect(p) \/ CollectRaises(p)
      BY <2>3, CommitStep, GiveUpStep, CollectStep, CollectRaisesStep
    <2> QED BY <1>3, <2>1, <2>2, <2>3 DEF ConsumerStep
  <1>4. ASSUME NEW p \in Process, SupervisorStep(p)
        PROVE  IInv' /\ Lawful
    BY <1>4, SupLeaseStep, SupExpireStep, SupRecoverStep, SupWalkStep, SupRequeuesStep, SupSavesStep
       DEF SupervisorStep
  <1>5. ASSUME NEW p \in Process, CancelAct(p) \/ CancelSave(p)
        PROVE  IInv' /\ Lawful
    BY <1>5, CancelActStep, CancelSaveStep
  <1>6. ASSUME NEW p \in Process, NEW w \in Worker, Register(p, w) \/ Heartbeat(p, w)
        PROVE  IInv' /\ Lawful
    BY <1>6, RegistryStep
  <1>7. ASSUME NEW w \in Worker, Start(w) \/ Finish(w) \/ Crash(w) \/ Shutdown(w) \/ Restart(w)
        PROVE  IInv' /\ Lawful
    BY <1>7, StartStep, FinishStep, CrashStep, ShutdownStep, RestartStep
  <1>8. ASSUME NEW r \in Request, DeadlinePasses(r)
        PROVE  IInv' /\ Lawful
    BY <1>8, DeadlinePassesStep
  <1>9. CASE LeaseExpires
    BY <1>9, LeaseExpiresStep
  <1>10. CASE UNCHANGED vars
    <2>1. /\ UNCHANGED <<setup, heap, store, late, global_queue, health, directory, reserved, consumer, canceller,
                         supervisor, lease, up, queue, running, events>>
          /\ UNCHANGED <<runs, unsaved, confirmed, rerun, abandoned>>
      BY <1>10 DEF vars, planeVars, actorVars, workerVars, historyVars
    <2>2. TypeOK' /\ ActorRecords'
      BY <2>1 DEF IInv, TypeOK, ActorRecords
    <2> QED BY <2>1, <2>2, Quiet
  <1> QED BY <1>1, <1>2, <1>3, <1>4, <1>5, <1>6, <1>7, <1>8, <1>9, <1>10 DEF Next

\* A placement reservation lasts exactly as long as its dispatch, whatever
\* raises, except when the first save does; and the state keeps its types.
THEOREM ReservationsAreReleased == Spec => []PlaneInv
  <1>1. IInv => PlaneInv
    BY DEF IInv, PlaneInv, Reservations
  <1>2. Init => IInv
    BY InitIInv
  <1>3. IInv /\ [Next]_vars => IInv'
    BY NextIInv
  <1> QED BY <1>1, <1>2, <1>3, PTL DEF Spec

\* Dispatch, cancellation, recovery and failures never lose an open record that
\* no worker has.
THEOREM RequestsAreKept == Spec => []NoRequestLost
  <1>1. IInv => NoRequestLost
    BY DEF IInv, Core
  <1>2. Init => IInv
    BY InitIInv
  <1>3. IInv /\ [Next]_vars => IInv'
    BY NextIInv
  <1> QED BY <1>1, <1>2, <1>3, PTL DEF Spec

\* No handler, in whatever order the actors get to a record, makes a transition
\* that the table of the request lifecycle forbids.
THEOREM TransitionsAreAllowed == Spec => NoInvalidTransition
  <1>1. Init => IInv
    BY InitIInv
  <1>2. IInv /\ [Next]_vars => IInv'
    BY NextIInv
  <1>3. IInv /\ [Next]_vars =>
          [\A a \in DOMAIN heap :
              \/ heap'[a].status \in Allowed[heap[a].status] \cup {heap[a].status}
              \/ setup.transport = "http" /\ \E p \in Process : At(p, "await") /\ consumer[p].obj = a]_vars
    BY NextIInv DEF Lawful
  <1> QED BY <1>1, <1>2, <1>3, PTL DEF Spec, NoInvalidTransition

\* A former owner that is late cannot take or remove its successor's lease.
THEOREM LeaseIsRespected == Spec => LeaseLeftByOwnerOrExpiry
  <1> DEFINE Respected ==
        \A p \in Process : lease = p /\ lease' # p =>
          \/ lease' = None /\ supervisor' = supervisor
          \/ supervisor'[p].pc \in {"stopped", "failed"} /\ supervisor[p].pc # supervisor'[p].pc
  <1>1. Init => IInv
    BY InitIInv
  <1>2. IInv /\ [Next]_vars => IInv'
    BY NextIInv
  <1>3. ASSUME IInv, Next PROVE Respected
    <2>1. setup.procs \subseteq Process /\ supervisor \in [Process -> SupState]
      <3>1. TypeOK
        BY <1>3 DEF IInv
      <3>2. supervisor \in [Process -> SupState]
        BY <3>1 DEF TypeOK, SupState
      <3> QED BY <3>1, <3>2, TheSetup
    <2>2. CASE UNCHANGED lease
      BY <2>2
    <2>3. CASE LeaseExpires
      BY <2>3 DEF LeaseExpires
    <2>4. ASSUME NEW p \in Process, SupAcquire(p)
          PROVE  Respected
      BY <2>4, ControlPlaneAssumption DEF SupAcquire
    <2>5. ASSUME NEW p \in Process, SupFails(p) \/ SupStops(p)
          PROVE  Respected
      <3>1. /\ supervisor'[p].pc \in {"stopped", "failed"} /\ supervisor[p].pc \in {"walk", "wait"}
            /\ lease' = IF lease = p THEN None ELSE lease
        <4>1. SupIdle("failed").pc = "failed" /\ SupIdle("stopped").pc = "stopped"
          BY SupIdleTyped DEF SupervisorPc
        <4>2. CASE SupFails(p)
          BY <2>1, <4>1, <4>2 DEF SupFails, SupGoto, Sup, Release
        <4>3. CASE SupStops(p)
          BY <2>1, <4>1, <4>3 DEF SupStops, SupGoto, Sup, Release
        <4> QED BY <2>5, <4>2, <4>3
      <3> QED BY <3>1
    <2>6. \/ UNCHANGED lease \/ LeaseExpires
          \/ \E p \in Process : SupAcquire(p) \/ SupFails(p) \/ SupStops(p)
      <3>1. ASSUME NEW p \in Process, NEW r, Submit(p, r) \/ PipelineSubmit(p, r) \/ CancelGet(p, r)
            PROVE  UNCHANGED lease
        BY <3>1 DEF Submit, PipelineSubmit, CancelGet, actorVars
      <3>2. ASSUME NEW p \in Process, ConsumerStep(p)
            PROVE  UNCHANGED lease
        BY <3>2 DEF ConsumerStep, Take, AssignRaises, Assign, SaveAssigned, SaveAssignedRaises, PrepareRaises, Prepare,
              Handoff, HandoffRaises, Answer, Commit, GiveUp, Requeue, Collect, CollectRaises
      <3>3. ASSUME NEW p \in Process, SupervisorStep(p)
            PROVE  UNCHANGED lease \/ SupAcquire(p) \/ SupFails(p) \/ SupStops(p)
        BY <3>3 DEF SupervisorStep, SupWakes, SupRenew, SupExpire, SupRecover, SupDone, SupEnds, SupRequeues, SupSaves
      <3>4. ASSUME NEW p \in Process, NEW w, CancelAct(p) \/ CancelSave(p) \/ Register(p, w) \/ Heartbeat(p, w)
            PROVE  UNCHANGED lease
        BY <3>4 DEF CancelAct, CancelSave, Register, Heartbeat, actorVars
      <3>5. ASSUME NEW w, NEW r, Start(w) \/ Finish(w) \/ Crash(w) \/ Shutdown(w) \/ Restart(w) \/ DeadlinePasses(r)
            PROVE  UNCHANGED lease
        BY <3>5 DEF Start, Finish, Crash, Shutdown, Restart, DeadlinePasses, actorVars
      <3> QED BY <1>3, <2>1, <3>1, <3>2, <3>3, <3>4, <3>5 DEF Next
    <2> HIDE DEF Respected
    <2> QED BY <2>2, <2>3, <2>4, <2>5, <2>6
  <1>4. IInv /\ [Next]_vars => [Respected]_vars
    BY <1>3
  <1> QED BY <1>1, <1>2, <1>4, PTL DEF Spec, LeaseLeftByOwnerOrExpiry

-----------------------------------------------------------------------------
(* One execution per request *)

Early(pc) == pc \in {"assign", "save", "prepare", "handoff"}
Late(pc) == pc \in {"answer", "commit", "await"}

\* Records that may still be handed to a worker or started by one, and records
\* under execution.
MayStart(a) ==
    \/ \E p \in Process :
          \/ a \in global_queue[p]
          \/ /\ consumer[p].obj = a
             /\ Early(consumer[p].pc) \/ (consumer[p].pc = "rejected" /\ consumer[p].remote = 0)
    \/ \E w \in Worker : a \in Range(queue[w])
Executing(a) == \E w \in Worker : a \in running[w]
Active(a) == MayStart(a) \/ Executing(a)

\* Requests whose cancellation has found its record.
Stopping(r) == r \in confirmed \/ \E p \in Process : canceller[p].pc = "save" /\ canceller[p].copy.req = r

Created(r) == store[r] # <<>>

\* Whatever there is of a request, it was created before, under its own name.
CreatedFirst ==
    /\ \A r \in Request : Created(r) => store[r].req = r
    /\ \A a \in DOMAIN heap : Created(heap[a].req)
    /\ \A p \in Process :
          /\ canceller[p].pc # "idle" => Created(canceller[p].copy.req)
          /\ \A x \in supervisor[p].list : Created(x.req)
    /\ \A r \in Request : runs[r] > 0 \/ r \in confirmed => Created(r)

\* The Redis store never returns a prompt, so nothing in it is tried again.
Redacted ==
    setup.store = "redis" =>
        /\ \A r \in Request : Created(r) => ~store[r].payload
        /\ \A p \in Process : \A x \in supervisor[p].list : ~x.payload
        /\ \A r \in Request : <<r, "recovery">> \notin rerun

\* A consumer awaits a record of its own request, which over HTTP only the
\* worker has.
AwaitsItsOwn ==
    \A p \in Process : Late(consumer[p].pc) =>
        /\ heap[consumer[p].remote].req = Held(p).req
        /\ setup.transport = "http" => \A q \in Process : consumer[p].remote \notin PlaneSide(q)

\* Unless it was put back, a request has one active record, which stops being
\* startable when it starts; a consumer that awaits the request awaits that one.
OneExecution ==
    \A r \in Request \ Putback :
        /\ \A a, b \in DOMAIN heap : Active(a) /\ Active(b) /\ heap[a].req = r /\ heap[b].req = r => a = b
        /\ runs[r] <= 1
        /\ runs[r] = 1 => \A a \in DOMAIN heap : MayStart(a) => heap[a].req # r
        /\ \A p \in Process : Late(consumer[p].pc) /\ Held(p).req = r =>
              \A a \in DOMAIN heap : Active(a) /\ heap[a].req = r => a = consumer[p].remote

\* Nothing is left of a request that could start or complete.
NoneLeft(r) ==
    /\ \A a \in DOMAIN heap : heap[a].req = r => ~MayStart(a) /\ (Executing(a) => IsTerminal(heap[a]))
    /\ \A p \in Process : Late(consumer[p].pc) /\ Held(p).req = r =>
          heap[consumer[p].remote].status # "completed" \/ Held(p).status = "completed"

NothingLeft == \A r \in Request \ Putback : Stopping(r) => NoneLeft(r)

RunInv == CreatedFirst /\ Redacted /\ AwaitsItsOwn /\ OneExecution /\ NothingLeft

\* What CancelledNeverCompletes says of one step, for cancellations that have
\* found their record already.
Calm ==
    \A a \in DOMAIN heap :
        Stopping(heap[a].req) /\ heap[a].req \notin Putback' /\ heap[a].status # "completed"
          => heap'[a].status # "completed"

\* A step after which no more can start, run or be awaited than before, apart
\* from requests that are put back and a first record of a request.
Kept ==
    /\ setup' = setup /\ DOMAIN heap \subseteq DOMAIN heap'
    /\ \A a \in DOMAIN heap :
          /\ heap'[a].req = heap[a].req
          /\ IsTerminal(heap[a]) => IsTerminal(heap'[a])
          /\ heap[a].status = "completed" => heap'[a].status = "completed"
    /\ Calm
    /\ rerun \subseteq rerun' /\ runs' = runs
    /\ \A a \in DOMAIN heap' : MayStart(a)' =>
          \/ a \in DOMAIN heap /\ MayStart(a)
          \/ heap'[a].req \in Putback'
          \/ a = Len(heap) + 1 /\ ~Created(heap'[a].req)
    /\ \A a \in DOMAIN heap' : Executing(a)' => Executing(a)
    /\ \A p \in Process :
          /\ Late(consumer'[p].pc) => /\ Late(consumer[p].pc) /\ consumer'[p].obj = consumer[p].obj
                                      /\ consumer'[p].remote = consumer[p].remote
          /\ PlaneSide(p)' \cap DOMAIN heap \subseteq PlaneSide(p)
    /\ \A r \in Request : Stopping(r)' => Stopping(r) \/ r \in Putback' \/ NoneLeft(r)'

\* Where the records of actors are.
LEMMA Places ==
    ASSUME IInv
    PROVE  /\ \A a : Executing(a) => a \in DOMAIN heap
           /\ \A a : MayStart(a) => a \in DOMAIN heap
           /\ \A p \in Process : Late(consumer[p].pc) =>
                 consumer[p].obj \in DOMAIN heap /\ consumer[p].remote \in DOMAIN heap
           /\ \A a \in DOMAIN heap : heap[a] \in Record /\ heap[a].req \in Request
  <1>1. Pointers /\ heap \in Seq(Record)
    BY DEF IInv, Core, TypeOK
  <1>2. \A a \in DOMAIN heap : heap[a] \in Record /\ heap[a].req \in Request
    <2>1. \A x \in Record : x.req \in Request
      BY DEF Record
    <2>2. \A a \in DOMAIN heap : heap[a] \in Record
      BY <1>1
    <2> QED BY <2>1, <2>2
  <1>3. \A p \in Process : Late(consumer[p].pc) =>
            consumer[p].obj \in DOMAIN heap /\ consumer[p].remote \in DOMAIN heap
    BY <1>1 DEF Pointers, Late, PlaneSide, Busy
  <1>4. \A a : Executing(a) => a \in DOMAIN heap
    BY <1>1 DEF Pointers, Executing, WorkerSide
  <1>5. \A a : MayStart(a) => a \in DOMAIN heap
    BY <1>1 DEF Pointers, MayStart, PlaneSide, WorkerSide, Busy, Early
  <1> QED BY <1>2, <1>3, <1>4, <1>5

\* Requests put back stay so.
LEMMA PutbackGrows ==
    ASSUME rerun \subseteq rerun'
    PROVE  Putback \subseteq Putback'
  BY DEF Putback

\* A step of the kind Kept keeps the one execution of every request.
LEMMA KeptRuns ==
    ASSUME IInv, RunInv, Kept, IInv'
    PROVE  AwaitsItsOwn' /\ OneExecution' /\ NothingLeft'
  <1>1. Putback \subseteq Putback'
    BY PutbackGrows DEF Kept
  <1>2. CreatedFirst /\ AwaitsItsOwn /\ OneExecution /\ NothingLeft
    BY DEF RunInv
  <1>3. \A a \in DOMAIN heap : heap[a].req \in Request /\ Created(heap[a].req)
    BY <1>2, Places DEF CreatedFirst
  <1>4. \A p \in Process : Late(consumer[p].pc) =>
            consumer[p].obj \in DOMAIN heap /\ consumer[p].remote \in DOMAIN heap
    BY Places
  <1>5. \A a : Executing(a) => a \in DOMAIN heap
    BY Places
  <1>6. AwaitsItsOwn'
    <2> SUFFICES ASSUME NEW p \in Process, Late(consumer'[p].pc)
                 PROVE  /\ heap'[consumer'[p].remote].req = heap'[consumer'[p].obj].req
                        /\ setup'.transport = "http" => \A q \in Process : consumer'[p].remote \notin PlaneSide(q)'
      BY DEF AwaitsItsOwn, Held
    <2>1. /\ Late(consumer[p].pc) /\ consumer'[p].obj = consumer[p].obj /\ consumer'[p].remote = consumer[p].remote
          /\ consumer[p].obj \in DOMAIN heap /\ consumer[p].remote \in DOMAIN heap
      BY <1>4 DEF Kept
    <2>2. heap[consumer[p].remote].req = heap[consumer[p].obj].req
      BY <1>2, <2>1 DEF AwaitsItsOwn, Held
    <2>3. setup.transport = "http" => \A q \in Process : consumer[p].remote \notin PlaneSide(q)
      BY <1>2, <2>1 DEF AwaitsItsOwn
    <2> QED BY <2>1, <2>2, <2>3 DEF Kept
  <1>7. ASSUME NEW r \in Request \ Putback', NEW a \in DOMAIN heap', Active(a)', heap'[a].req = r, Created(r)
        PROVE  /\ a \in DOMAIN heap /\ Active(a) /\ heap[a].req = r
               /\ MayStart(a)' => MayStart(a)
    BY <1>5, <1>7 DEF Kept, Active
  <1>8. ASSUME NEW r \in Request \ Putback', NEW a \in DOMAIN heap', Active(a)', heap'[a].req = r, ~Created(r)
        PROVE  a = Len(heap) + 1
    BY <1>3, <1>5, <1>8 DEF Kept, Active
  <1>9. OneExecution'
    <2> SUFFICES ASSUME NEW r \in Request \ Putback'
                 PROVE  /\ \A a, b \in DOMAIN heap' : Active(a)' /\ Active(b)' /\ heap'[a].req = r
                                                        /\ heap'[b].req = r => a = b
                        /\ runs'[r] <= 1
                        /\ runs'[r] = 1 => \A a \in DOMAIN heap' : MayStart(a)' => heap'[a].req # r
                        /\ \A p \in Process : Late(consumer'[p].pc) /\ heap'[consumer'[p].obj].req = r =>
                              \A a \in DOMAIN heap' : Active(a)' /\ heap'[a].req = r => a = consumer'[p].remote
      BY DEF OneExecution, Held
    <2>1. r \in Request \ Putback
      BY <1>1
    <2>2. /\ \A a, b \in DOMAIN heap : Active(a) /\ Active(b) /\ heap[a].req = r /\ heap[b].req = r => a = b
          /\ runs[r] <= 1
          /\ runs[r] = 1 => \A a \in DOMAIN heap : MayStart(a) => heap[a].req # r
          /\ \A p \in Process : Late(consumer[p].pc) /\ heap[consumer[p].obj].req = r =>
                \A a \in DOMAIN heap : Active(a) /\ heap[a].req = r => a = consumer[p].remote
      BY <1>2, <2>1 DEF OneExecution, Held
    <2>3. ASSUME NEW a \in DOMAIN heap', NEW b \in DOMAIN heap', Active(a)', Active(b)', heap'[a].req = r, heap'[b].req = r
          PROVE  a = b
      BY <1>7, <1>8, <2>2, <2>3
    <2>4. runs'[r] <= 1
      BY <2>2 DEF Kept
    <2>5. ASSUME runs'[r] = 1, NEW a \in DOMAIN heap', MayStart(a)', heap'[a].req = r
          PROVE  FALSE
      <3>1. runs[r] = 1 /\ runs[r] > 0 /\ Created(r)
        BY <1>2, <2>5 DEF Kept, CreatedFirst
      <3>2. a \in DOMAIN heap /\ MayStart(a) /\ heap[a].req = r
        BY <1>7, <2>5, <3>1 DEF Active
      <3> QED BY <2>2, <3>1, <3>2
    <2>6. ASSUME NEW p \in Process, Late(consumer'[p].pc), heap'[consumer'[p].obj].req = r,
                 NEW a \in DOMAIN heap', Active(a)', heap'[a].req = r
          PROVE  a = consumer'[p].remote
      <3>1. /\ Late(consumer[p].pc) /\ consumer'[p].obj = consumer[p].obj /\ consumer'[p].remote = consumer[p].remote
            /\ consumer[p].obj \in DOMAIN heap
        BY <1>4, <2>6 DEF Kept
      <3>2. heap[consumer[p].obj].req = r /\ Created(r)
        BY <1>3, <2>6, <3>1 DEF Kept
      <3> QED BY <1>7, <2>2, <2>6, <3>1, <3>2
    <2> QED BY <2>3, <2>4, <2>5, <2>6
  <1>10. NothingLeft'
    <2> SUFFICES ASSUME NEW r \in Request \ Putback', Stopping(r)', Stopping(r)
                 PROVE  /\ \A a \in DOMAIN heap' : heap'[a].req = r =>
                              ~MayStart(a)' /\ (Executing(a)' => IsTerminal(heap'[a]))
                        /\ \A p \in Process : Late(consumer'[p].pc) /\ heap'[consumer'[p].obj].req = r =>
                              heap'[consumer'[p].remote].status # "completed"
                                \/ heap'[consumer'[p].obj].status = "completed"
      BY DEF NothingLeft, NoneLeft, Held, Kept
    <2>1. r \in Request \ Putback /\ Stopping(r)
      BY <1>1
    <2>2. /\ \A a \in DOMAIN heap : heap[a].req = r => ~MayStart(a) /\ (Executing(a) => IsTerminal(heap[a]))
          /\ \A p \in Process : Late(consumer[p].pc) /\ heap[consumer[p].obj].req = r =>
                heap[consumer[p].remote].status # "completed" \/ heap[consumer[p].obj].status = "completed"
      BY <1>2, <2>1 DEF NothingLeft, NoneLeft, Held
    <2>3. Created(r)
      BY <1>2, <2>1 DEF CreatedFirst, Stopping
    <2>4. ASSUME NEW a \in DOMAIN heap', heap'[a].req = r, MayStart(a)'
          PROVE  FALSE
      BY <1>7, <2>2, <2>3, <2>4 DEF Active
    <2>5. ASSUME NEW a \in DOMAIN heap', heap'[a].req = r, Executing(a)'
          PROVE  IsTerminal(heap'[a])
      <3>1. Executing(a) /\ a \in DOMAIN heap
        BY <1>5, <2>5 DEF Kept
      <3>2. heap[a].req = r
        BY <2>5, <3>1 DEF Kept
      <3>3. IsTerminal(heap[a])
        BY <2>2, <3>1, <3>2
      <3> QED BY <3>1, <3>3 DEF Kept
    <2>6. ASSUME NEW p \in Process, Late(consumer'[p].pc), heap'[consumer'[p].obj].req = r
          PROVE  heap'[consumer'[p].remote].status # "completed" \/ heap'[consumer'[p].obj].status = "completed"
      <3>1. /\ Late(consumer[p].pc) /\ consumer'[p].obj = consumer[p].obj /\ consumer'[p].remote = consumer[p].remote
            /\ consumer[p].obj \in DOMAIN heap /\ consumer[p].remote \in DOMAIN heap
        BY <1>4, <2>6 DEF Kept
      <3>2. heap[consumer[p].obj].req = r /\ heap[consumer[p].remote].req = r
        BY <1>2, <2>6, <3>1 DEF Kept, AwaitsItsOwn, Held
      <3>3. heap[consumer[p].remote].status # "completed" \/ heap[consumer[p].obj].status = "completed"
        BY <2>2, <3>1, <3>2
      <3>4. heap[consumer[p].remote].status # "completed" => heap'[consumer[p].remote].status # "completed"
        BY <2>1, <3>1, <3>2 DEF Kept, Calm
      <3>5. heap[consumer[p].obj].status = "completed" => heap'[consumer[p].obj].status = "completed"
        BY <3>1 DEF Kept
      <3> QED BY <3>1, <3>3, <3>4, <3>5
    <2> QED BY <2>4, <2>5, <2>6
  <1> QED BY <1>6, <1>9, <1>10

\* What a save leaves in the store.
LEMMA SaveFacts ==
    ASSUME TypeOK, NEW x, (x \in Record /\ Save(x)) \/ UNCHANGED store
    PROVE  /\ \A r \in Request :
                 \/ store'[r] = store[r]
                 \/ /\ r = x.req /\ store'[r] = Copy(x) /\ Copy(x).req = x.req
                    /\ setup.store = "redis" => ~Copy(x).payload
           /\ \A r \in Request : Created(r) => Created(r)'
           /\ x \in Record /\ Save(x) => x.req \in Request /\ Created(x.req)'
  <1>1. CASE x \in Record /\ Save(x)
    <2>1. x.req \in Request /\ Copy(x) \in Record /\ Copy(x).req = x.req
      BY <1>1, RecordFacts, Statuses DEF Copy, Record
    <2>2. Copy(x) # <<>>
      BY <2>1 DEF Record
    <2>3. setup.store = "redis" => ~Copy(x).payload
      BY <1>1 DEF Copy, Persisted, Record
    <2>4. store \in [Request -> Record \cup {<<>>}] /\ store' = [store EXCEPT ![x.req] = Copy(x)]
      BY <1>1 DEF TypeOK, Save
    <2> QED BY <2>1, <2>2, <2>3, <2>4 DEF Created
  <1>2. CASE UNCHANGED store /\ ~(x \in Record /\ Save(x))
    BY <1>2 DEF Created
  <1> QED BY <1>1, <1>2

\* Steps that leave a trace only of requests that were created, and put
\* nothing back with the Redis store.
LEMMA CreatedKept ==
    ASSUME TypeOK, CreatedFirst, Redacted, setup' = setup,
           NEW y, (y \in Record /\ Save(y)) \/ UNCHANGED store,
           \A a \in DOMAIN heap' : \/ a \in DOMAIN heap /\ heap'[a].req = heap[a].req
                                   \/ Created(heap'[a].req) /\ heap'[a].req \in Request
                                   \/ y \in Record /\ Save(y) /\ heap'[a].req = y.req,
           \A a \in DOMAIN heap : heap[a].req \in Request,
           \A p \in Process : canceller'[p].pc # "idle" =>
               canceller'[p].copy.req \in Request /\ Created(canceller'[p].copy.req),
           \A p \in Process : \A x \in supervisor'[p].list :
               \/ x \in supervisor[p].list /\ x.req \in Request
               \/ \E r \in Request : Created(r) /\ x = store[r],
           \A r \in Request : runs'[r] > 0 \/ r \in confirmed' => Created(r),
           \A r \in Request : <<r, "recovery">> \in rerun' => <<r, "recovery">> \in rerun \/ setup.store # "redis"
    PROVE  CreatedFirst' /\ Redacted'
  <1>1. /\ \A r \in Request :
              \/ store'[r] = store[r]
              \/ /\ r = y.req /\ store'[r] = Copy(y) /\ Copy(y).req = y.req
                 /\ setup.store = "redis" => ~Copy(y).payload
        /\ \A r \in Request : Created(r) => Created(r)'
        /\ y \in Record /\ Save(y) => Created(y.req)'
    BY SaveFacts
  <1>2. \A r \in Request : Created(r)' => store'[r].req = r
    BY <1>1 DEF CreatedFirst, Created
  <1>3. \A a \in DOMAIN heap' : store'[heap'[a].req] # <<>>
    BY <1>1 DEF CreatedFirst, Created
  <1>4. \A p \in Process : \A x \in supervisor'[p].list : Created(x.req) /\ x.req \in Request
    BY DEF CreatedFirst
  <1>5. CreatedFirst'
    BY <1>1, <1>2, <1>3, <1>4 DEF CreatedFirst, Created
  <1>6. ASSUME setup.store = "redis"
        PROVE  /\ \A r \in Request : Created(r)' => ~store'[r].payload
               /\ \A p \in Process : \A x \in supervisor'[p].list : ~x.payload
               /\ \A r \in Request : <<r, "recovery">> \notin rerun'
    <2>1. \A r \in Request : Created(r)' => ~store'[r].payload
      BY <1>1, <1>6 DEF Redacted, Created
    <2>2. \A p \in Process : \A x \in supervisor'[p].list : ~x.payload
      BY <1>6 DEF Redacted
    <2> QED BY <1>6, <2>1, <2>2 DEF Redacted
  <1> QED BY <1>5, <1>6 DEF Redacted

\* What there is of a request while nothing new comes.
LEMMA Traces ==
    ASSUME IInv, CreatedFirst
    PROVE  /\ \A a \in DOMAIN heap : heap[a].req \in Request
           /\ \A q \in Process : canceller[q].pc # "idle" =>
                 canceller[q].copy.req \in Request /\ Created(canceller[q].copy.req)
           /\ \A q \in Process : \A z \in supervisor[q].list : z.req \in Request
           /\ \A r \in Request : runs[r] > 0 \/ r \in confirmed => Created(r)
  <1>1. \A q \in Process : canceller[q].pc # "idle" => canceller[q].copy \in Record
    BY DEF IInv, ActorRecords
  <1>2. \A z \in Record : z.req \in Request
    BY DEF Record
  <1>3. \A q \in Process : supervisor[q].list \subseteq Record
    BY DEF IInv, TypeOK
  <1> QED BY <1>1, <1>2, <1>3, Places DEF CreatedFirst

\* A consumer turns the record it holds into x and goes on as c: what it has
\* may start only if it might have before, and x is COMPLETED only as the
\* answer it awaited.
LEMMA ConsumerRuns ==
    ASSUME IInv, RunInv, IInv', NEW p \in Process, Busy(p),
           NEW x \in Record, heap' = [heap EXCEPT ![consumer[p].obj] = x], x.req = Held(p).req,
           IsTerminal(Held(p)) => IsTerminal(x),
           Held(p).status = "completed" => x.status = "completed",
           x.status = "completed" =>
              \/ Held(p).status = "completed"
              \/ Late(consumer[p].pc) /\ heap[consumer[p].remote].status = "completed",
           NEW c, consumer' = [consumer EXCEPT ![p] = c],
           \/ c = Idle
           \/ /\ c.obj = consumer[p].obj /\ c.remote = consumer[p].remote
              /\ Late(c.pc) => Late(consumer[p].pc)
              /\ Early(c.pc) => Early(consumer[p].pc)
              /\ c.pc = "rejected" => Early(consumer[p].pc) \/ consumer[p].pc = "answer",
           NEW y \in Record, Save(y) \/ UNCHANGED store,
           UNCHANGED <<setup, global_queue, canceller, supervisor, queue, running, runs, confirmed, rerun>>
    PROVE  RunInv' /\ Calm
  <1>1. TypeOK /\ CreatedFirst /\ Redacted /\ NothingLeft /\ AwaitsItsOwn
    BY DEF IInv, RunInv
  <1>2. /\ consumer[p].obj \in DOMAIN heap /\ DOMAIN heap' = DOMAIN heap
        /\ heap'[consumer[p].obj] = x /\ \A a \in DOMAIN heap : a # consumer[p].obj => heap'[a] = heap[a]
        /\ Held(p) = heap[consumer[p].obj]
    BY <1>1, Holding, HeapUpdate DEF TypeOK, Held
  <1>3. consumer'[p] = c /\ \A q \in Process : q # p => consumer'[q] = consumer[q]
    BY <1>1 DEF TypeOK
  <1>4. Late(consumer[p].pc) => consumer[p].remote \in DOMAIN heap
    BY Places
  <1>5. Putback' = Putback
    BY DEF Putback
  <1>6. Calm
    <2> SUFFICES ASSUME NEW a \in DOMAIN heap, Stopping(heap[a].req), heap[a].req \notin Putback,
                        heap[a].status # "completed", heap'[a].status = "completed"
                 PROVE  FALSE
      BY <1>5 DEF Calm
    <2>1. a = consumer[p].obj /\ Late(consumer[p].pc) /\ heap[consumer[p].remote].status = "completed"
      BY <1>2
    <2>2. heap[a].req \in Request
      BY Places
    <2> QED BY <1>1, <1>2, <2>1, <2>2 DEF NothingLeft, NoneLeft
  <1>7. \A r \in Request : Stopping(r)' <=> Stopping(r)
    BY DEF Stopping
  <1>8. \A a : Executing(a)' => Executing(a)
    BY DEF Executing
  <1>9. \A a : MayStart(a)' => MayStart(a)
    <2> SUFFICES ASSUME NEW a, MayStart(a)' PROVE MayStart(a)
      OBVIOUS
    <2>1. CASE \E w \in Worker : a \in Range(queue'[w])
      BY <2>1 DEF MayStart
    <2>2. CASE \E q \in Process : a \in global_queue'[q]
      BY <2>2 DEF MayStart
    <2>3. ASSUME NEW q \in Process, consumer'[q].obj = a,
                 Early(consumer'[q].pc) \/ (consumer'[q].pc = "rejected" /\ consumer'[q].remote = 0)
          PROVE  MayStart(a)
      <3>1. CASE q # p
        BY <1>3, <2>3, <3>1 DEF MayStart
      <3>2. CASE q = p
        <4>1. c.pc # "idle" /\ c # Idle
          BY <1>3, <2>3, <3>2 DEF Early, Idle
        <4>2. 0 \notin DOMAIN heap
          BY <1>1 DEF TypeOK
        <4>3. consumer[p].pc = "answer" => consumer[p].remote # 0
          BY <1>4, <4>2 DEF Late
        <4> QED BY <1>3, <2>3, <3>2, <4>1, <4>3 DEF MayStart, Early
      <3> QED BY <3>1, <3>2
    <2> QED BY <2>1, <2>2, <2>3 DEF MayStart
  <1>10. \A q \in Process :
            /\ Late(consumer'[q].pc) => /\ Late(consumer[q].pc) /\ consumer'[q].obj = consumer[q].obj
                                        /\ consumer'[q].remote = consumer[q].remote
            /\ PlaneSide(q)' \subseteq PlaneSide(q)
    BY <1>3 DEF Late, Idle, PlaneSide, Busy
  <1>11. Kept
    BY <1>2, <1>6, <1>7, <1>8, <1>9, <1>10 DEF Kept
  <1>12. CreatedFirst' /\ Redacted'
    <2>1. \A a \in DOMAIN heap' : a \in DOMAIN heap /\ heap'[a].req = heap[a].req
      BY <1>2
    <2> QED BY <1>1, <2>1, Traces, CreatedKept
  <1> QED BY <1>6, <1>11, <1>12, KeptRuns DEF RunInv

\* Where a consumer goes next, and what stays with it.
LEMMA Went ==
    ASSUME TypeOK, NEW p \in Process, NEW pc \in ConsumerPc
    PROVE  /\ LET c == [consumer[p] EXCEPT !.pc = pc]
              IN  /\ c.pc = pc /\ c.obj = consumer[p].obj /\ c.remote = consumer[p].remote
                  /\ Goto(p, pc) => consumer' = [consumer EXCEPT ![p] = c]
           /\ Leave(p) => consumer' = [consumer EXCEPT ![p] = Idle]
  BY NextPlace

\* The caller fails an open record y of the request it holds and lets go.
LEMMA FailedRuns ==
    ASSUME IInv, RunInv, IInv', NEW p \in Process, Busy(p), NEW y \in Record, y.req = Held(p).req,
           y.status = "completed" => Held(p).status = "completed",
           IsTerminal(Held(p)) => y = Held(p),
           FailAndSave(p, y, "failed"),
           UNCHANGED <<setup, global_queue, canceller, supervisor, queue, running, runs, confirmed, rerun>>
    PROVE  RunInv' /\ Calm
  <1> DEFINE x == EndIfOpen(y, "failed")
  <1>1. Transition(y, "failed") \in Record /\ x \in Record /\ x.req = y.req
        /\ Transition(y, "failed").status = "failed" /\ "failed" \in Terminal
    BY RecordFacts, Statuses
  <1>2. IsTerminal(x) /\ (IsTerminal(Held(p)) => x = Held(p)) /\ (x.status = "completed" => y.status = "completed")
    BY <1>1 DEF EndIfOpen, IsTerminal
  <1>3. heap' = [heap EXCEPT ![consumer[p].obj] = x] /\ (Save(Transition(y, "failed")) \/ UNCHANGED store)
    BY DEF FailAndSave, SetHeld
  <1>4. consumer' = [consumer EXCEPT ![p] = Idle]
    BY DEF FailAndSave, Leave
  <1>5. Held(p).status = "completed" => x.status = "completed"
    BY <1>2, Statuses DEF IsTerminal
  <1> HIDE DEF x
  <1> QED BY <1>1, <1>2, <1>3, <1>4, <1>5, ConsumerRuns

\* A record that cannot be assigned ends and may not start.
LEMMA AssignRaisesRuns ==
    ASSUME IInv, RunInv, IInv', NEW p \in Process, AssignRaises(p)
    PROVE  RunInv' /\ Calm
  <1> DEFINE y == IF Held(p).req \in late THEN Transition(Held(p), "timed_out") ELSE Held(p)
  <1>1. At(p, "assign") /\ Busy(p)
    BY DEF AssignRaises, At, Busy
  <1>2. Held(p) \in Record /\ Held(p).status = "queued"
    BY <1>1, Holding DEF At
  <1>3. y \in Record /\ y.req = Held(p).req /\ y.status \in {"timed_out", "queued"}
    BY <1>2, RecordFacts, Statuses
  <1>4. FailAndSave(p, y, "failed") /\ ~IsTerminal(Held(p))
    BY <1>2, Statuses DEF AssignRaises, IsTerminal
  <1> HIDE DEF y
  <1>5. UNCHANGED <<setup, global_queue, canceller, supervisor, queue, running, runs, confirmed, rerun>>
    BY DEF AssignRaises, planeVars, historyVars, workerVars
  <1> QED BY <1>1, <1>3, <1>4, <1>5, FailedRuns

\* An assigned record may start as before.
LEMMA AssignRuns ==
    ASSUME IInv, RunInv, IInv', NEW p \in Process, Assign(p)
    PROVE  RunInv' /\ Calm
  <1> DEFINE c == [consumer[p] EXCEPT !.pc = "save"]
  <1>1. At(p, "assign") /\ Busy(p) /\ TypeOK
    BY DEF Assign, At, Busy, IInv
  <1>2. Held(p) \in Record /\ Held(p).status = "queued" /\ ~IsTerminal(Held(p))
    BY <1>1, Holding, Statuses DEF At, IsTerminal
  <1>3. PICK w \in Eligible(p) :
            SetHeld(p, Transition([Held(p) EXCEPT !.worker = w, !.attempts = @ + 1], "assigned"))
    BY DEF Assign
  <1> DEFINE x == Transition([Held(p) EXCEPT !.worker = w, !.attempts = @ + 1], "assigned")
  <1>4. x \in Record /\ x.req = Held(p).req /\ x.status = "assigned"
    <2> DEFINE y == [Held(p) EXCEPT !.worker = w, !.attempts = @ + 1]
    <2>1. w \in Worker /\ Held(p).attempts + 1 \in Nat
      BY <1>2 DEF Record, Eligible
    <2>2. y \in Record /\ y.req = Held(p).req
      BY <1>2, <2>1 DEF Record
    <2> HIDE DEF y
    <2>3. Transition(y, "assigned") \in Record /\ Transition(y, "assigned").req = y.req
          /\ Transition(y, "assigned").status = "assigned"
      BY <2>2, RecordFacts, Statuses
    <2> QED BY <2>2, <2>3 DEF y
  <1>5. heap' = [heap EXCEPT ![consumer[p].obj] = x]
    BY <1>3 DEF SetHeld
  <1>6. /\ c.pc = "save" /\ c.obj = consumer[p].obj /\ c.remote = consumer[p].remote
        /\ consumer' = [consumer EXCEPT ![p] = c]
    BY <1>1, Went DEF Assign, ConsumerPc
  <1> HIDE DEF x, c
  <1>7. UNCHANGED <<setup, store, global_queue, canceller, supervisor, queue, running, runs, confirmed, rerun>>
    BY DEF Assign, historyVars, workerVars
  <1>8. ~Late(c.pc) /\ Early(consumer[p].pc) /\ c.pc # "rejected"
    BY <1>1, <1>6 DEF Early, Late, At
  <1> QED BY <1>1, <1>2, <1>4, <1>5, <1>6, <1>7, <1>8, ConsumerRuns

\* Saving starts nothing.
LEMMA SaveAssignedRuns ==
    ASSUME IInv, RunInv, IInv', NEW p \in Process, SaveAssigned(p)
    PROVE  RunInv' /\ Calm
  <1> DEFINE c == [consumer[p] EXCEPT !.pc = "prepare"]
  <1>1. At(p, "save") /\ Busy(p) /\ TypeOK
    BY DEF SaveAssigned, At, Busy, IInv
  <1>2. Held(p) \in Record /\ heap' = [heap EXCEPT ![consumer[p].obj] = Held(p)] /\ Save(Held(p))
    BY <1>1, Holding DEF SaveAssigned
  <1>3. /\ c.pc = "prepare" /\ c.obj = consumer[p].obj /\ c.remote = consumer[p].remote
        /\ consumer' = [consumer EXCEPT ![p] = c]
    BY <1>1, Went DEF SaveAssigned, ConsumerPc
  <1> HIDE DEF c
  <1>4. UNCHANGED <<setup, global_queue, canceller, supervisor, queue, running, runs, confirmed, rerun>>
    BY DEF SaveAssigned, planeVars, historyVars, workerVars
  <1>5. ~Late(c.pc) /\ Early(consumer[p].pc) /\ c.pc # "rejected"
    BY <1>1, <1>3 DEF Early, Late, At
  <1> QED BY <1>1, <1>2, <1>3, <1>4, <1>5, ConsumerRuns

\* A failed save leaves the consumer with nothing to start.
LEMMA SaveAssignedRaisesRuns ==
    ASSUME IInv, RunInv, IInv', NEW p \in Process, SaveAssignedRaises(p)
    PROVE  RunInv' /\ Calm
  <1> DEFINE x == Transition(Held(p), "failed")
  <1>1. At(p, "save") /\ Busy(p) /\ TypeOK
    BY DEF SaveAssignedRaises, At, Busy, IInv
  <1>2. Held(p) \in Record /\ Held(p).status = "assigned" /\ ~IsTerminal(Held(p))
    BY <1>1, Holding, Statuses DEF At, Assigned, IsTerminal
  <1>3. x \in Record /\ x.req = Held(p).req /\ x.status = "failed"
    BY <1>2, RecordFacts, Statuses
  <1>4. heap' = [heap EXCEPT ![consumer[p].obj] = x] /\ consumer' = [consumer EXCEPT ![p] = Idle]
    BY DEF SaveAssignedRaises, SetHeld, Leave
  <1> HIDE DEF x
  <1>5. UNCHANGED <<setup, store, global_queue, canceller, supervisor, queue, running, runs, confirmed, rerun>>
    BY DEF SaveAssignedRaises, planeVars, workerVars
  <1> QED BY <1>1, <1>2, <1>3, <1>4, <1>5, ConsumerRuns

\* A rejected dispatch leaves nothing more to start.
LEMMA RejectRuns ==
    ASSUME IInv, RunInv, IInv', NEW p \in Process, consumer[p].pc \in {"prepare", "handoff", "answer"}, Reject(p),
           UNCHANGED <<setup, store, global_queue, canceller, supervisor, workerVars, historyVars>>
    PROVE  RunInv' /\ Calm
  <1> DEFINE x == [Transition(Held(p), "queued") EXCEPT !.worker = NoWorker]
  <1> DEFINE c == [consumer[p] EXCEPT !.pc = "rejected"]
  <1>1. Busy(p) /\ TypeOK
    BY DEF Busy, IInv
  <1>2. Held(p) \in Record /\ Held(p).status = "assigned" /\ ~IsTerminal(Held(p))
    BY <1>1, Holding, Statuses DEF Assigned, IsTerminal
  <1>3. x \in Record /\ x.req = Held(p).req /\ x.status = "queued"
    <2>1. Transition(Held(p), "queued") \in Record /\ Transition(Held(p), "queued").req = Held(p).req
          /\ Transition(Held(p), "queued").status = "queued"
      BY <1>2, RecordFacts, Statuses
    <2> QED BY <2>1 DEF Record
  <1>4. heap' = [heap EXCEPT ![consumer[p].obj] = x]
    BY DEF Reject, SetHeld
  <1>5. /\ c.pc = "rejected" /\ c.obj = consumer[p].obj /\ c.remote = consumer[p].remote
        /\ consumer' = [consumer EXCEPT ![p] = c]
    BY <1>1, Went DEF Reject, ConsumerPc
  <1> HIDE DEF x, c
  <1>6. UNCHANGED <<queue, running, runs, confirmed, rerun>>
    BY DEF workerVars, historyVars
  <1>7. ~Late(c.pc) /\ ~Early(c.pc) /\ (Early(consumer[p].pc) \/ consumer[p].pc = "answer")
    BY <1>5 DEF Early, Late
  <1> QED BY <1>1, <1>2, <1>3, <1>4, <1>5, <1>6, <1>7, ConsumerRuns

\* A failed preparation rejects the dispatch.
LEMMA PrepareRaisesRuns ==
    ASSUME IInv, RunInv, IInv', NEW p \in Process, PrepareRaises(p)
    PROVE  RunInv' /\ Calm
  BY RejectRuns DEF PrepareRaises, At

\* A refused handoff rejects the dispatch.
LEMMA HandoffRaisesRuns ==
    ASSUME IInv, RunInv, IInv', NEW p \in Process, HandoffRaises(p)
    PROVE  RunInv' /\ Calm
  BY RejectRuns DEF HandoffRaises, At

\* A prepared record may start as before, a late one no more.
LEMMA PrepareRuns ==
    ASSUME IInv, RunInv, IInv', NEW p \in Process, Prepare(p)
    PROVE  RunInv' /\ Calm
  <1>1. At(p, "prepare") /\ Busy(p) /\ TypeOK
    BY DEF Prepare, At, Busy, IInv
  <1>2. /\ Held(p) \in Record /\ Held(p).status = "assigned" /\ ~IsTerminal(Held(p))
        /\ heap = [heap EXCEPT ![consumer[p].obj] = Held(p)]
    BY <1>1, Holding, Statuses DEF At, Assigned, IsTerminal
  <1>3. UNCHANGED <<setup, store, global_queue, canceller, supervisor, queue, running, runs, confirmed, rerun>>
    BY DEF Prepare, historyVars, workerVars
  <1>4. CASE Held(p).req \in late
    <2> DEFINE x == Transition(Held(p), "timed_out")
    <2>1. x \in Record /\ x.req = Held(p).req /\ x.status = "timed_out"
      BY <1>2, RecordFacts, Statuses
    <2>2. heap' = [heap EXCEPT ![consumer[p].obj] = x] /\ consumer' = [consumer EXCEPT ![p] = Idle]
      BY <1>4 DEF Prepare, SetHeld, Leave
    <2> HIDE DEF x
    <2> QED BY <1>1, <1>2, <1>3, <2>1, <2>2, ConsumerRuns
  <1>5. CASE Held(p).req \notin late
    <2> DEFINE c == [consumer[p] EXCEPT !.pc = "handoff"]
    <2>1. /\ c.pc = "handoff" /\ c.obj = consumer[p].obj /\ c.remote = consumer[p].remote
          /\ consumer' = [consumer EXCEPT ![p] = c]
      BY <1>1, <1>5, Went DEF Prepare, ConsumerPc
    <2> HIDE DEF c
    <2>2. heap' = [heap EXCEPT ![consumer[p].obj] = Held(p)]
      BY <1>2, <1>5 DEF Prepare
    <2>3. ~Late(c.pc) /\ Early(consumer[p].pc) /\ c.pc # "rejected"
      BY <1>1, <2>1 DEF Early, Late, At
    <2> QED BY <1>1, <1>2, <1>3, <2>1, <2>2, <2>3, ConsumerRuns
  <1> QED BY <1>4, <1>5

\* The consumer awaits the record it handed over.
LEMMA AnswerRuns ==
    ASSUME IInv, RunInv, IInv', NEW p \in Process, Answer(p)
    PROVE  RunInv' /\ Calm
  <1> DEFINE x == Applied(Held(p), Transition(Held(p), "queued"))
  <1> DEFINE c == [consumer[p] EXCEPT !.pc = "commit"]
  <1>1. At(p, "answer") /\ Busy(p) /\ TypeOK
    BY DEF Answer, At, Busy, IInv
  <1>2. Held(p) \in Record /\ Held(p).status = "assigned" /\ ~IsTerminal(Held(p))
    BY <1>1, Holding, Statuses DEF At, Assigned, IsTerminal
  <1>3. x \in Record /\ x.req = Held(p).req /\ x.status = "queued"
    BY <1>2, RecordFacts, Statuses
  <1>4. heap' = [heap EXCEPT ![consumer[p].obj] = x]
    BY DEF Answer, SetHeld
  <1>5. /\ c.pc = "commit" /\ c.obj = consumer[p].obj /\ c.remote = consumer[p].remote
        /\ consumer' = [consumer EXCEPT ![p] = c]
    BY <1>1, Went DEF Answer, ConsumerPc
  <1> HIDE DEF x, c
  <1>6. UNCHANGED <<setup, store, global_queue, canceller, supervisor, queue, running, runs, confirmed, rerun>>
    BY DEF Answer, planeVars, historyVars, workerVars
  <1>7. Late(consumer[p].pc) /\ ~Early(c.pc) /\ c.pc # "rejected"
    BY <1>1, <1>5 DEF Early, Late, At
  <1> QED BY <1>1, <1>2, <1>3, <1>4, <1>5, <1>6, <1>7, ConsumerRuns

\* Committing starts nothing.
LEMMA CommitRuns ==
    ASSUME IInv, RunInv, IInv', NEW p \in Process, Commit(p)
    PROVE  RunInv' /\ Calm
  <1> DEFINE c == [consumer[p] EXCEPT !.pc = "await"]
  <1>1. At(p, "commit") /\ Busy(p) /\ TypeOK
    BY DEF Commit, At, Busy, IInv
  <1>2. Held(p) \in Record /\ heap' = [heap EXCEPT ![consumer[p].obj] = Held(p)] /\ Save(Held(p))
    BY <1>1, Holding DEF Commit
  <1>3. /\ c.pc = "await" /\ c.obj = consumer[p].obj /\ c.remote = consumer[p].remote
        /\ consumer' = [consumer EXCEPT ![p] = c]
    BY <1>1, Went DEF Commit, ConsumerPc
  <1> HIDE DEF c
  <1>4. UNCHANGED <<setup, global_queue, canceller, supervisor, queue, running, runs, confirmed, rerun>>
    BY DEF Commit, historyVars, workerVars
  <1>5. Late(consumer[p].pc) /\ ~Early(c.pc) /\ c.pc # "rejected"
    BY <1>1, <1>3 DEF Early, Late, At
  <1> QED BY <1>1, <1>2, <1>3, <1>4, <1>5, ConsumerRuns

\* A record that its caller fails may not start.
LEMMA GiveUpRuns ==
    ASSUME IInv, RunInv, IInv', NEW p \in Process, GiveUp(p)
    PROVE  RunInv' /\ Calm
  <1>1. Busy(p) /\ FailAndSave(p, Held(p), "failed")
    BY DEF GiveUp, At, Busy
  <1>2. Held(p) \in Record
    BY <1>1, Holding
  <1>3. UNCHANGED <<setup, global_queue, canceller, supervisor, queue, running, runs, confirmed, rerun>>
    BY DEF GiveUp, planeVars, historyVars, workerVars
  <1> QED BY <1>1, <1>2, <1>3, FailedRuns

\* The consumer takes over the result of the record it awaited.
LEMMA CollectRuns ==
    ASSUME IInv, RunInv, IInv', NEW p \in Process, Collect(p)
    PROVE  RunInv' /\ Calm
  <1> DEFINE y == heap[consumer[p].remote]
  <1>1. At(p, "await") /\ Busy(p) /\ Late(consumer[p].pc)
    BY DEF Collect, At, Busy, Late
  <1>2. y \in Record /\ Held(p) \in Record
    BY <1>1, Places, Holding
  <1>3. UNCHANGED <<setup, global_queue, canceller, supervisor, queue, running, runs, confirmed, rerun>>
    BY DEF Collect, planeVars, historyVars, workerVars
  <1>4. CASE y.status = "completed"
    <2> DEFINE x == Applied(Held(p), y)
    <2>1. x \in Record /\ x.req = Held(p).req /\ x.status = "completed" /\ IsTerminal(x)
      BY <1>2, <1>4, RecordFacts, Statuses DEF IsTerminal
    <2>2. heap' = [heap EXCEPT ![consumer[p].obj] = x] /\ consumer' = [consumer EXCEPT ![p] = Idle] /\ Save(x)
      BY <1>4 DEF Collect, SetHeld, Leave
    <2> HIDE DEF x
    <2> QED BY <1>1, <1>3, <1>4, <2>1, <2>2, ConsumerRuns
  <1>5. CASE y.status # "completed"
    <2>1. FailAndSave(p, Held(p), "failed")
      BY <1>5 DEF Collect
    <2> QED BY <1>1, <1>2, <1>3, <2>1, FailedRuns
  <1> QED BY <1>4, <1>5

\* The consumer fails its copy; no record becomes startable.
LEMMA CollectRaisesRuns ==
    ASSUME IInv, RunInv, IInv', NEW p \in Process, CollectRaises(p)
    PROVE  RunInv' /\ Calm
  <1>1. Busy(p) /\ FailAndSave(p, Held(p), "failed")
    BY DEF CollectRaises, At, Busy
  <1>2. Held(p) \in Record
    BY <1>1, Holding
  <1>3. UNCHANGED <<setup, global_queue, canceller, supervisor, queue, running, runs, confirmed, rerun>>
    BY DEF CollectRaises, planeVars, historyVars, workerVars
  <1> QED BY <1>1, <1>2, <1>3, FailedRuns

\* A step that only takes records away from queues and workers, and marks
\* none of a request that is being cancelled COMPLETED.
LEMMA ShrinkRuns ==
    ASSUME IInv, RunInv, IInv', DOMAIN heap' = DOMAIN heap, Calm,
           \A a \in DOMAIN heap :
              /\ heap'[a].req = heap[a].req
              /\ IsTerminal(heap[a]) => IsTerminal(heap'[a])
              /\ heap[a].status = "completed" => heap'[a].status = "completed",
           \A q \in Process : global_queue'[q] \subseteq global_queue[q],
           \A w \in Worker : Range(queue'[w]) \subseteq Range(queue[w]) /\ running'[w] \subseteq running[w],
           NEW y, (y \in Record /\ Save(y)) \/ UNCHANGED store,
           \A q \in Process : canceller'[q].pc # "idle" =>
               canceller'[q].copy.req \in Request /\ Created(canceller'[q].copy.req),
           \A q \in Process : \A x \in supervisor'[q].list :
               x \in supervisor[q].list \/ \E r \in Request : Created(r) /\ x = store[r],
           \A r \in Request : r \in confirmed' => Created(r),
           \A r \in Request : Stopping(r)' => Stopping(r) \/ r \in Putback' \/ NoneLeft(r)',
           UNCHANGED <<setup, consumer, runs, rerun>>
    PROVE  RunInv' /\ Calm
  <1>1. TypeOK /\ CreatedFirst /\ Redacted
    BY DEF IInv, RunInv
  <1>2. \A a : Executing(a)' => Executing(a)
    BY DEF Executing
  <1>3. \A a : MayStart(a)' => MayStart(a)
    BY DEF MayStart
  <1>4. \A q \in Process : PlaneSide(q)' \subseteq PlaneSide(q)
    BY DEF PlaneSide, Busy
  <1>5. Kept
    BY <1>2, <1>3, <1>4 DEF Kept
  <1>6. AwaitsItsOwn' /\ OneExecution' /\ NothingLeft'
    BY <1>5, KeptRuns
  <1>7. CreatedFirst' /\ Redacted'
    <2>1. /\ \A a \in DOMAIN heap : heap[a].req \in Request
          /\ \A q \in Process : \A z \in supervisor[q].list : z.req \in Request
          /\ \A r \in Request : runs'[r] > 0 => Created(r)
      BY <1>1, Traces
    <2>2. \A q \in Process : \A x \in supervisor'[q].list :
             \/ x \in supervisor[q].list /\ x.req \in Request
             \/ \E r \in Request : Created(r) /\ x = store[r]
      BY <2>1
    <2> QED BY <1>1, <2>1, <2>2, CreatedKept
  <1> QED BY <1>6, <1>7 DEF RunInv

\* A step that moves no record and finds none to cancel.
LEMMA QuietRuns ==
    ASSUME IInv, RunInv, IInv',
           NEW y, (y \in Record /\ Save(y)) \/ UNCHANGED store,
           \A q \in Process : canceller'[q].pc # "idle" =>
               canceller'[q].copy.req \in Request /\ Created(canceller'[q].copy.req),
           \A q \in Process : \A x \in supervisor'[q].list :
               x \in supervisor[q].list \/ \E r \in Request : Created(r) /\ x = store[r],
           \A r \in Request : r \in confirmed' => Created(r),
           \A r \in Request : Stopping(r)' => Stopping(r),
           UNCHANGED <<setup, heap, global_queue, consumer, queue, running, runs, rerun>>
    PROVE  RunInv' /\ Calm
  <1>1. Calm
    BY DEF Calm
  <1>2. \A q \in Process : global_queue'[q] \subseteq global_queue[q]
    OBVIOUS
  <1>3. \A w \in Worker : Range(queue'[w]) \subseteq Range(queue[w]) /\ running'[w] \subseteq running[w]
    OBVIOUS
  <1> QED BY <1>1, <1>2, <1>3, ShrinkRuns

\* ... and none is under way.
LEMMA StillRuns ==
    ASSUME IInv, RunInv, IInv',
           NEW y, (y \in Record /\ Save(y)) \/ UNCHANGED store,
           \A q \in Process : \A x \in supervisor'[q].list :
               x \in supervisor[q].list \/ \E r \in Request : Created(r) /\ x = store[r],
           UNCHANGED <<setup, heap, global_queue, consumer, canceller, queue, running, runs, confirmed, rerun>>
    PROVE  RunInv' /\ Calm
  <1>1. CreatedFirst
    BY DEF RunInv
  <1>2. /\ \A q \in Process : canceller'[q].pc # "idle" =>
               canceller'[q].copy.req \in Request /\ Created(canceller'[q].copy.req)
        /\ \A r \in Request : r \in confirmed' => Created(r)
    BY <1>1, Traces
  <1>3. \A r \in Request : Stopping(r)' => Stopping(r)
    BY DEF Stopping
  <1> QED BY <1>2, <1>3, QuietRuns

-----------------------------------------------------------------------------
(* Steps that move no record *)

\* The registry starts nothing.
LEMMA RegistryRuns ==
    ASSUME IInv, RunInv, IInv', NEW p \in Process, NEW w \in Worker, Register(p, w) \/ Heartbeat(p, w)
    PROVE  RunInv' /\ Calm
  <1>1. UNCHANGED <<setup, heap, store, global_queue, consumer, canceller, supervisor, queue, running, runs,
                    confirmed, rerun>>
    BY DEF Register, Heartbeat, actorVars, workerVars, historyVars
  <1> QED BY <1>1, StillRuns

\* Time, a restart and stuttering start nothing.
LEMMA TimeRuns ==
    ASSUME IInv, RunInv, IInv',
           \/ \E w \in Worker : Restart(w)
           \/ \E r \in Request : DeadlinePasses(r)
           \/ LeaseExpires \/ UNCHANGED vars
    PROVE  RunInv' /\ Calm
  <1>1. UNCHANGED <<setup, heap, store, global_queue, consumer, canceller, supervisor, queue, running, runs,
                    confirmed, rerun>>
    BY DEF Restart, DeadlinePasses, LeaseExpires, vars, planeVars, actorVars, workerVars, historyVars
  <1> QED BY <1>1, StillRuns

\* The lease decides who recovers, not what runs.
LEMMA SupLeaseRuns ==
    ASSUME IInv, RunInv, IInv', NEW p \in Process,
           SupWakes(p) \/ SupRenew(p) \/ SupAcquire(p) \/ SupExpire(p) \/ SupFails(p) \/ SupStops(p)
    PROVE  RunInv' /\ Calm
  <1>1. UNCHANGED <<setup, heap, store, global_queue, consumer, canceller, queue, running, runs, confirmed, rerun>>
    BY DEF SupWakes, SupRenew, SupAcquire, SupExpire, SupFails, SupStops, planeVars, workerVars, historyVars
  <1>2. \E pc, todo : SupGoto(p, SupAt(pc, todo, {}, 0))
    BY DEF SupWakes, SupRenew, SupAcquire, SupExpire, SupFails, SupStops, Waiting, SupIdle
  <1>3. supervisor'[p].list = {} /\ \A q \in Process : q # p => supervisor'[q] = supervisor[q]
    BY <1>2, Supervising DEF SupGoto, SupAt
  <1>4. \A q \in Process : \A x \in supervisor'[q].list : x \in supervisor[q].list
    BY <1>3
  <1> QED BY <1>1, <1>4, StillRuns

\* What the store lists was created, and in Redis it has no prompt.
LEMMA SupRecoverRuns ==
    ASSUME IInv, RunInv, IInv', NEW p \in Process, SupRecover(p)
    PROVE  RunInv' /\ Calm
  <1>1. UNCHANGED <<setup, heap, store, global_queue, consumer, canceller, queue, running, runs, confirmed, rerun>>
    BY DEF SupRecover, workerVars, historyVars
  <1>2. \E w : supervisor' = [supervisor EXCEPT ![p] = SupAt("walk", supervisor[p].todo \ {w},
                {store[r] : r \in {q \in Request :
                    store[q] # <<>> /\ store[q].worker = w /\ ~IsTerminal(store[q])}}, 0)]
    BY DEF SupRecover, SupGoto
  <1>3. /\ \A x \in supervisor'[p].list : \E r \in Request : Created(r) /\ x = store[r]
        /\ \A q \in Process : q # p => supervisor'[q] = supervisor[q]
    BY <1>2, Supervising DEF SupAt, Created
  <1>4. \A q \in Process : \A x \in supervisor'[q].list :
           x \in supervisor[q].list \/ \E r \in Request : Created(r) /\ x = store[r]
    BY <1>3
  <1> QED BY <1>1, <1>4, StillRuns

\* An entry that is skipped or ended starts nothing.
LEMMA SupWalkRuns ==
    ASSUME IInv, RunInv, IInv', NEW p \in Process, SupDone(p) \/ SupEnds(p) \/ SupSaves(p)
    PROVE  RunInv' /\ Calm
  <1>1. UNCHANGED <<setup, heap, global_queue, consumer, canceller, queue, running, runs, confirmed, rerun>>
    BY DEF SupDone, SupEnds, SupSaves, planeVars, workerVars, historyVars
  <1>2. \E y : (y \in Record /\ Save(y)) \/ UNCHANGED store
    <2>1. CASE SupDone(p)
      BY <2>1 DEF SupDone
    <2>2. CASE SupEnds(p)
      <3>1. PICK x \in supervisor[p].list : Save(Transition(x, Verdict(x)))
        BY <2>2 DEF SupEnds
      <3>2. x \in Record /\ Verdict(x) \in DOMAIN Allowed
        BY Supervising, Statuses DEF Verdict
      <3> QED BY <3>1, <3>2, RecordFacts
    <2>3. CASE SupSaves(p)
      BY <2>3, Supervising DEF SupSaves
    <2> QED BY <2>1, <2>2, <2>3
  <1>3. \E s : SupGoto(p, s) /\ s.list \subseteq supervisor[p].list
    <2>1. ASSUME NEW list, Continue(p, list), list \subseteq supervisor[p].list
          PROVE  \E s : SupGoto(p, s) /\ s.list \subseteq supervisor[p].list
      BY <2>1 DEF Continue, SupAt, Waiting, SupIdle
    <2>2. CASE SupSaves(p)
      BY <2>2 DEF SupSaves, SupAt
    <2>3. CASE SupDone(p) \/ SupEnds(p)
      BY <2>1, <2>3 DEF SupDone, SupEnds
    <2> QED BY <2>2, <2>3
  <1>4. /\ supervisor'[p].list \subseteq supervisor[p].list
        /\ \A q \in Process : q # p => supervisor'[q] = supervisor[q]
    BY <1>3, Supervising DEF SupGoto
  <1>5. \A q \in Process : \A x \in supervisor'[q].list : x \in supervisor[q].list
    BY <1>4
  <1> QED BY <1>1, <1>2, <1>5, StillRuns

\* A cancellation begins with a request that was created.
LEMMA CancelGetRuns ==
    ASSUME IInv, RunInv, IInv', NEW p \in Process, NEW r \in Request, CancelGet(p, r)
    PROVE  RunInv' /\ Calm
  <1>1. /\ canceller' = [canceller EXCEPT ![p] = [pc |-> "act", copy |-> store[r]]] /\ Created(r)
        /\ UNCHANGED <<setup, heap, store, global_queue, consumer, supervisor, queue, running, runs, confirmed, rerun>>
    BY DEF CancelGet, planeVars, workerVars, historyVars, Created
  <1>2. CreatedFirst /\ canceller \in [Process -> [pc : {"idle", "act", "save"}, copy : Record \cup {<<>>}]]
    BY DEF RunInv, IInv, TypeOK
  <1>3. /\ canceller'[p].pc = "act" /\ canceller'[p].copy.req = r
        /\ \A q \in Process : q # p => canceller'[q] = canceller[q]
    BY <1>1, <1>2 DEF CreatedFirst
  <1>4. /\ \A q \in Process : canceller'[q].pc # "idle" =>
               canceller'[q].copy.req \in Request /\ Created(canceller'[q].copy.req)
        /\ \A z \in Request : z \in confirmed' => Created(z)
    BY <1>1, <1>2, <1>3, Traces
  <1>5. \A z \in Request : Stopping(z)' => Stopping(z)
    BY <1>1, <1>3 DEF Stopping
  <1> QED BY <1>1, <1>4, <1>5, QuietRuns

\* A cancellation is confirmed only after it has found its record.
LEMMA CancelSaveRuns ==
    ASSUME IInv, RunInv, IInv', NEW p \in Process, CancelSave(p)
    PROVE  RunInv' /\ Calm
  <1> DEFINE x == canceller[p].copy
             y == Transition(x, "cancelled")
  <1>1. x \in Record /\ y \in Record /\ canceller[p].pc = "save"
    <2>1. x \in Record /\ canceller[p].pc = "save"
      BY DEF IInv, ActorRecords, CancelSave
    <2> QED BY <2>1, RecordFacts, Statuses
  <1>2. /\ canceller' = [canceller EXCEPT ![p] = NoCancel] /\ confirmed' = confirmed \cup {x.req} /\ Save(y)
        /\ UNCHANGED <<setup, heap, global_queue, consumer, supervisor, queue, running, runs, rerun>>
    BY DEF CancelSave, planeVars, workerVars
  <1>3. CreatedFirst /\ canceller \in [Process -> [pc : {"idle", "act", "save"}, copy : Record \cup {<<>>}]]
    BY DEF RunInv, IInv, TypeOK
  <1> HIDE DEF y
  <1>4. canceller'[p].pc = "idle" /\ \A q \in Process : q # p => canceller'[q] = canceller[q]
    BY <1>2, <1>3 DEF NoCancel
  <1>5. Created(x.req) /\ x.req \in Request
    BY <1>1, <1>3, Traces
  <1>6. /\ \A q \in Process : canceller'[q].pc # "idle" =>
               canceller'[q].copy.req \in Request /\ Created(canceller'[q].copy.req)
        /\ \A z \in Request : z \in confirmed' => Created(z)
    BY <1>2, <1>3, <1>4, <1>5, Traces
  <1>7. \A z \in Request : Stopping(z)' => Stopping(z)
    BY <1>1, <1>2, <1>4 DEF Stopping
  <1>8. \A q \in Process : \A z \in supervisor'[q].list : z \in supervisor[q].list
    BY <1>2
  <1> QED BY <1>1, <1>2, <1>6, <1>7, <1>8, QuietRuns

-----------------------------------------------------------------------------
(* Steps of a worker, and a cancellation that finds its record *)

\* What a worker has, nobody else can hand on.
LEMMA OnlyAtWorker ==
    ASSUME IInv, NEW w \in Worker, NEW a \in WorkerSide(w)
    PROVE  /\ \A q \in Process :
                 /\ a \notin global_queue[q]
                 /\ consumer[q].obj = a => ~Early(consumer[q].pc) /\ consumer[q].pc # "rejected"
           /\ \A v \in Worker : v # w => a \notin WorkerSide(v)
  <1>1. OnePlace
    BY DEF IInv, Core
  <1>2. ASSUME NEW q \in Process
        PROVE  /\ a \notin global_queue[q]
               /\ consumer[q].obj = a => ~Early(consumer[q].pc) /\ consumer[q].pc # "rejected"
    <2>1. a \in PlaneSide(q) => a = consumer[q].obj /\ consumer[q].pc \in {"commit", "await"}
      BY <1>1 DEF OnePlace, SharedWithWorker
    <2>2. a \in global_queue[q] => a \in PlaneSide(q) /\ Busy(q) /\ a # consumer[q].obj
      BY <1>1, <2>1 DEF OnePlace, PlaneSide, Busy
    <2>3. Early(consumer[q].pc) \/ consumer[q].pc = "rejected" => Busy(q)
      BY DEF Early, Busy
    <2> QED BY <2>1, <2>2, <2>3 DEF PlaneSide, Early
  <1>3. \A v \in Worker : v # w => a \notin WorkerSide(v)
    BY <1>1 DEF OnePlace
  <1> QED BY <1>2, <1>3

\* What is in a global queue is nowhere else.
LEMMA OnlyQueued ==
    ASSUME IInv, NEW p \in Process, NEW a \in global_queue[p]
    PROVE  /\ \A q \in Process : q # p => a \notin global_queue[q]
           /\ \A q \in Process : Busy(q) => consumer[q].obj # a
           /\ \A w \in Worker : a \notin WorkerSide(w)
  <1>1. OnePlace /\ a \in PlaneSide(p)
    BY DEF IInv, Core, PlaneSide
  <1>2. \A q \in Process : q # p => a \notin PlaneSide(q)
    BY <1>1 DEF OnePlace
  <1> QED BY <1>1, <1>2, OnlyAtWorker DEF OnePlace, PlaneSide

\* A record that ends stops being active, and a cancelled one does not complete.
LEMMA FinishRuns ==
    ASSUME IInv, RunInv, IInv', NEW w \in Worker, Finish(w)
    PROVE  RunInv' /\ Calm
  <1>1. TypeOK /\ Core /\ NothingLeft
    BY DEF IInv, RunInv
  <1>2. PICK o \in running[w], target \in {"completed", "failed"} :
            heap' = [heap EXCEPT ![o] = EndIfOpen(@, target)]
    BY DEF Finish
  <1> DEFINE x == EndIfOpen(heap[o], target)
  <1>3. /\ o \in DOMAIN heap /\ heap[o] \in Record /\ heap[o].req \in Request /\ heap \in Seq(Record)
    BY <1>1, AtWork, Places
  <1>4. /\ x \in Record /\ x.req = heap[o].req /\ IsTerminal(x)
        /\ IsTerminal(heap[o]) => x = heap[o]
    <2>1. Transition(heap[o], target).status = target /\ target \in Terminal /\ target \in DOMAIN Allowed
      BY <1>3, RecordFacts, Statuses
    <2> QED BY <1>3, <2>1, RecordFacts DEF EndIfOpen, IsTerminal
  <1>5. heap' = [heap EXCEPT ![o] = x]
    BY <1>2
  <1> HIDE DEF x
  <1>6. /\ DOMAIN heap' = DOMAIN heap /\ heap'[o] = x
        /\ \A b \in DOMAIN heap : b # o => heap'[b] = heap[b]
    BY <1>3, <1>4, <1>5, HeapUpdate
  <1>7. /\ UNCHANGED <<setup, store, global_queue, consumer, canceller, supervisor, queue, runs, confirmed, rerun>>
        /\ running' = [running EXCEPT ![w] = {}]
    BY DEF Finish, planeVars, actorVars, historyVars
  <1>8. Calm
    <2> SUFFICES ASSUME NEW a \in DOMAIN heap, Stopping(heap[a].req), heap[a].req \notin Putback,
                        heap[a].status # "completed", heap'[a].status = "completed"
                 PROVE  FALSE
      BY <1>7 DEF Calm, Putback
    <2>1. a = o /\ ~IsTerminal(heap[o]) /\ Executing(o)
      BY <1>4, <1>6 DEF Executing
    <2> QED BY <1>1, <1>3, <2>1 DEF NothingLeft, NoneLeft
  <1>9. \A a \in DOMAIN heap :
              /\ heap'[a].req = heap[a].req
              /\ IsTerminal(heap[a]) => IsTerminal(heap'[a])
              /\ heap[a].status = "completed" => heap'[a].status = "completed"
    BY <1>4, <1>6, Statuses DEF IsTerminal
  <1>10. \A v \in Worker : Range(queue'[v]) \subseteq Range(queue[v]) /\ running'[v] \subseteq running[v]
    BY <1>1, <1>7 DEF TypeOK
  <1>11. \A r \in Request : Stopping(r)' => Stopping(r)
    BY <1>7 DEF Stopping
  <1>12. /\ \A q \in Process : canceller'[q].pc # "idle" =>
               canceller'[q].copy.req \in Request /\ Created(canceller'[q].copy.req)
         /\ \A r \in Request : r \in confirmed' => Created(r)
    BY <1>7, Traces DEF RunInv
  <1>13. \A q \in Process : global_queue'[q] \subseteq global_queue[q]
    BY <1>7
  <1>14. \A q \in Process : \A z \in supervisor'[q].list : z \in supervisor[q].list
    BY <1>7
  <1> QED BY <1>6, <1>7, <1>8, <1>9, <1>10, <1>11, <1>12, <1>13, <1>14, ShrinkRuns

\* A crash or a shutdown ends executions and begins none.
LEMMA WorkerEndsRuns ==
    ASSUME IInv, RunInv, IInv', NEW w \in Worker, Crash(w) \/ Shutdown(w)
    PROVE  RunInv' /\ Calm
  <1>1. TypeOK /\ Core
    BY DEF IInv
  <1>2. /\ UNCHANGED <<setup, store, global_queue, consumer, canceller, supervisor, runs, confirmed, rerun>>
        /\ queue' = [queue EXCEPT ![w] = <<>>]
        /\ running' = running \/ running' = [running EXCEPT ![w] = {}]
        /\ \/ heap' = heap
           \/ heap' = [a \in DOMAIN heap |-> IF a \in Range(queue[w]) THEN Transition(heap[a], "failed") ELSE heap[a]]
    BY DEF Crash, Shutdown, planeVars, actorVars, historyVars
  <1>3. /\ \A a \in DOMAIN heap : heap[a] \in Record
        /\ \A a \in Range(queue[w]) : heap[a].status = "queued"
    BY <1>1, AtWork
  <1>4. DOMAIN heap' = DOMAIN heap /\ \A a \in DOMAIN heap :
              \/ heap'[a] = heap[a]
              \/ heap[a].status = "queued" /\ heap'[a].req = heap[a].req /\ heap'[a].status = "failed"
    <2>1. CASE heap' = heap
      BY <2>1
    <2>2. CASE heap' = [a \in DOMAIN heap |-> IF a \in Range(queue[w]) THEN Transition(heap[a], "failed") ELSE heap[a]]
      <3>1. ASSUME NEW a \in DOMAIN heap, a \in Range(queue[w])
            PROVE  heap[a].status = "queued" /\ heap'[a].req = heap[a].req /\ heap'[a].status = "failed"
        BY <1>3, <2>2, <3>1, RecordFacts, Statuses
      <3> QED BY <2>2, <3>1
    <2> QED BY <1>2, <2>1, <2>2
  <1>5. \A a \in DOMAIN heap :
              /\ heap'[a].req = heap[a].req
              /\ IsTerminal(heap[a]) => IsTerminal(heap'[a])
              /\ heap[a].status = "completed" => heap'[a].status = "completed"
    BY <1>4, Statuses DEF IsTerminal
  <1>6. Calm
    BY <1>4 DEF Calm
  <1>7. \A v \in Worker : Range(queue'[v]) \subseteq Range(queue[v]) /\ running'[v] \subseteq running[v]
    BY <1>1, <1>2 DEF TypeOK, Range
  <1>8. \A r \in Request : Stopping(r)' => Stopping(r)
    BY <1>2 DEF Stopping
  <1>9. /\ \A q \in Process : canceller'[q].pc # "idle" =>
               canceller'[q].copy.req \in Request /\ Created(canceller'[q].copy.req)
        /\ \A r \in Request : r \in confirmed' => Created(r)
    BY <1>2, Traces DEF RunInv
  <1>10. \A q \in Process : global_queue'[q] \subseteq global_queue[q]
    BY <1>2
  <1>11. \A q \in Process : \A z \in supervisor'[q].list : z \in supervisor[q].list
    BY <1>2
  <1> QED BY <1>2, <1>4, <1>5, <1>6, <1>7, <1>8, <1>9, <1>10, <1>11, ShrinkRuns

\* What CancelAt does to records.
LEMMA CancelAtFacts ==
    ASSUME IInv, NEW p, NEW D, CancelAt(p, D)
    PROVE  /\ DOMAIN heap' = DOMAIN heap
           /\ \A a \in DOMAIN heap :
                 /\ heap'[a].req = heap[a].req
                 /\ IsTerminal(heap[a]) => IsTerminal(heap'[a])
                 /\ heap[a].status = "completed" <=> heap'[a].status = "completed"
                 /\ a \in D => IsTerminal(heap'[a])
  <1>1. heap' = [a \in DOMAIN heap |-> IF a \in D THEN EndIfOpen(heap[a], "cancelled") ELSE heap[a]]
    BY DEF CancelAt
  <1>2. \A x \in Record : /\ EndIfOpen(x, "cancelled").req = x.req /\ IsTerminal(EndIfOpen(x, "cancelled"))
                          /\ x.status = "completed" <=> EndIfOpen(x, "cancelled").status = "completed"
    <2> SUFFICES ASSUME NEW x \in Record
                 PROVE  /\ EndIfOpen(x, "cancelled").req = x.req /\ IsTerminal(EndIfOpen(x, "cancelled"))
                        /\ x.status = "completed" <=> EndIfOpen(x, "cancelled").status = "completed"
      OBVIOUS
    <2>1. Transition(x, "cancelled").status = "cancelled" /\ Transition(x, "cancelled").req = x.req
      BY RecordFacts, Statuses
    <2> QED BY <2>1, Statuses DEF EndIfOpen, IsTerminal
  <1>3. \A a \in DOMAIN heap : heap[a] \in Record
    BY Places
  <1> QED BY <1>1, <1>2, <1>3

\* A cancellation that ends the records D and takes them out of queues; if it
\* goes on to save, one of them was active and is not any more.
LEMMA CancelRuns ==
    ASSUME IInv, RunInv, IInv', NEW p \in Process, canceller[p].pc = "act", CancellerMoves(p),
           NEW D, CancelAt(p, D),
           \A q \in Process : global_queue'[q] \subseteq global_queue[q],
           \A w \in Worker : Range(queue'[w]) \subseteq Range(queue[w]),
           canceller' = [canceller EXCEPT ![p].pc = "save"] =>
              \E a \in D : /\ a \in DOMAIN heap /\ heap[a].req = canceller[p].copy.req
                           /\ Active(a) /\ ~MayStart(a)'
                           /\ heap[a].status # "completed"
                                \/ \A q \in Process : Late(consumer[q].pc) => consumer[q].remote # a,
           UNCHANGED <<setup, store, consumer, supervisor, running, runs, confirmed, rerun>>
    PROVE  RunInv' /\ Calm
  <1>1. CreatedFirst /\ OneExecution /\ AwaitsItsOwn
        /\ canceller \in [Process -> [pc : {"idle", "act", "save"}, copy : Record \cup {<<>>}]]
    BY DEF RunInv, IInv, TypeOK
  <1>2. /\ DOMAIN heap' = DOMAIN heap
        /\ \A a \in DOMAIN heap :
              /\ heap'[a].req = heap[a].req
              /\ IsTerminal(heap[a]) => IsTerminal(heap'[a])
              /\ heap[a].status = "completed" <=> heap'[a].status = "completed"
              /\ a \in D => IsTerminal(heap'[a])
    BY CancelAtFacts
  <1>3. Calm
    BY <1>2 DEF Calm
  <1>4. /\ \A q \in Process : q # p => canceller'[q] = canceller[q]
        /\ canceller'[p].copy = canceller[p].copy \/ canceller'[p].pc = "idle"
        /\ canceller' = [canceller EXCEPT ![p].pc = "save"] \/ canceller'[p].pc = "idle"
    BY <1>1 DEF CancellerMoves, NoCancel
  <1>5. /\ \A q \in Process : canceller'[q].pc # "idle" =>
               canceller'[q].copy.req \in Request /\ Created(canceller'[q].copy.req)
        /\ \A z \in Request : z \in confirmed' => Created(z)
    BY <1>1, <1>4, Traces
  <1>6. Putback' = Putback
    BY DEF Putback
  <1>7. ASSUME NEW z \in Request, Stopping(z)', ~Stopping(z)
        PROVE  z = canceller[p].copy.req /\ canceller' = [canceller EXCEPT ![p].pc = "save"]
    BY <1>4, <1>7 DEF Stopping
  <1>8. ASSUME canceller' = [canceller EXCEPT ![p].pc = "save"],
               NEW r \in Request \ Putback, r = canceller[p].copy.req
        PROVE  NoneLeft(r)'
    <2>1. PICK a \in D : /\ a \in DOMAIN heap /\ heap[a].req = r /\ Active(a) /\ ~MayStart(a)'
                         /\ heap[a].status # "completed"
                              \/ \A q \in Process : Late(consumer[q].pc) => consumer[q].remote # a
      BY <1>8
    <2>2. \A b \in DOMAIN heap : Active(b) /\ heap[b].req = r => b = a
      BY <1>1, <1>8, <2>1 DEF OneExecution
    <2>3. \A b : (Executing(b)' => Executing(b)) /\ (MayStart(b)' => MayStart(b))
      BY DEF Executing, MayStart
    <2>4. \A b \in DOMAIN heap : heap'[b].req = r => ~MayStart(b)' /\ (Executing(b)' => IsTerminal(heap'[b]))
      BY <1>2, <2>1, <2>2, <2>3 DEF Active
    <2>5. ASSUME NEW q \in Process, Late(consumer[q].pc), heap'[consumer[q].obj].req = r
          PROVE  heap'[consumer[q].remote].status # "completed"
      <3>1. consumer[q].obj \in DOMAIN heap /\ heap[consumer[q].obj].req = r
        BY <1>2, <2>5, Places
      <3>2. consumer[q].remote = a
        BY <1>1, <1>8, <2>1, <2>5, <3>1 DEF OneExecution, Held
      <3> QED BY <1>2, <2>1, <2>5, <3>2
    <2> QED BY <1>2, <2>4, <2>5 DEF NoneLeft, Held
  <1>9. \A z \in Request : Stopping(z)' => Stopping(z) \/ z \in Putback' \/ NoneLeft(z)'
    BY <1>6, <1>7, <1>8
  <1> QED BY <1>2, <1>3, <1>5, <1>9, ShrinkRuns

\* A record cancelled in a queue cannot start any more.
LEMMA CancelQueuedRuns ==
    ASSUME IInv, RunInv, IInv', NEW p \in Process, canceller[p].pc = "act",
           canceller' = [canceller EXCEPT ![p].pc = "save"],
           NEW D, D = QueuedAs(p, canceller[p].copy.req), D # {}, CancelAt(p, D),
           global_queue' = [global_queue EXCEPT ![p] = @ \ D],
           UNCHANGED <<setup, store, consumer, supervisor, queue, running, runs, confirmed, rerun>>
    PROVE  RunInv' /\ Calm
  <1>1. PICK a \in D : a \in global_queue[p] /\ heap[a].req = canceller[p].copy.req
    BY DEF QueuedAs
  <1>2. MayStart(a) /\ Active(a) /\ a \in DOMAIN heap
    <2>1. MayStart(a)
      BY <1>1 DEF MayStart
    <2> QED BY <2>1, Places DEF Active
  <1>3. global_queue \in [Process -> SUBSET Addr] /\ Core /\ AwaitsItsOwn /\ TypeOK
    BY DEF IInv, TypeOK, RunInv
  <1>4. \A q \in Process : global_queue'[q] \subseteq global_queue[q]
    BY <1>3
  <1>5. /\ \A q \in Process : q # p => a \notin global_queue[q]
        /\ \A q \in Process : Busy(q) => consumer[q].obj # a
        /\ \A w \in Worker : a \notin WorkerSide(w)
    BY <1>1, OnlyQueued
  <1>6. ~MayStart(a)'
    <2>1. \A q \in Process : a \notin global_queue'[q]
      BY <1>1, <1>3, <1>5
    <2> QED BY <1>5, <2>1 DEF MayStart, WorkerSide, Early, Busy
  <1>7. \A q \in Process : Late(consumer[q].pc) => consumer[q].remote # a
    <2> SUFFICES ASSUME NEW q \in Process, Late(consumer[q].pc), consumer[q].remote = a PROVE FALSE
      OBVIOUS
    <2>1. Busy(q) /\ setup.transport \in {"local", "http"}
      BY <1>3, TheSetup DEF Busy, Late
    <2>2. CASE setup.transport = "local"
      BY <1>3, <1>5, <2>1, <2>2 DEF Core, PlaceTellsStatus, Late
    <2>3. CASE setup.transport = "http"
      BY <1>1, <1>3, <2>3 DEF AwaitsItsOwn, PlaneSide
    <2> QED BY <2>1, <2>2, <2>3
  <1>8. \A w \in Worker : Range(queue'[w]) \subseteq Range(queue[w])
    OBVIOUS
  <1> QED BY <1>1, <1>2, <1>4, <1>6, <1>7, <1>8, CancelRuns DEF CancellerMoves

\* A record cancelled at a worker is terminal or leaves its queue.
LEMMA CancelAtWorkerRuns ==
    ASSUME IInv, RunInv, IInv', NEW p \in Process, NEW w \in Worker, NEW r, r = canceller[p].copy.req,
           canceller[p].pc = "act", CancellerMoves(p), AtWorker(w, r) # {},
           NEW D, AtWorker(w, r) \subseteq D, CancelAt(p, D),
           queue' = [queue EXCEPT ![w] = IF QueuedAt(w, r) > 0 THEN RemoveAt(@, QueuedAt(w, r)) ELSE @],
           UNCHANGED <<setup, store, global_queue, consumer, supervisor, running, runs, confirmed, rerun>>
    PROVE  RunInv' /\ Calm
  <1> DEFINE q == queue[w]
             i == QueuedAt(w, r)
             s == IF i > 0 THEN RemoveAt(q, i) ELSE q
  <1>1. TypeOK /\ Core
    BY DEF IInv
  <1>2. i = 0 \/ (i \in 1..Len(q) /\ heap[q[i]].req = r)
    <2> DEFINE I == {j \in 1..Len(queue[w]) : heap[queue[w][j]].req = r}
    <2>1. i = IF I # {} THEN Min(I) ELSE 0
      BY DEF SelectInSeq, QueuedAt
    <2>2. I \subseteq Nat
      OBVIOUS
    <2>3. I # {} => Min(I) \in I
      BY <2>2, LeastNatural
    <2> HIDE DEF I
    <2>4. i = 0 \/ i \in I
      BY <2>1, <2>3
    <2> QED BY <2>4 DEF I
  <1>3. /\ q \in Seq(Addr) /\ IsInjective(q) /\ Range(q) \cap running[w] = {}
        /\ \A a \in Range(q) : heap[a].status = "queued"
        /\ WorkerSide(w) = Range(q) \cup running[w]
    BY <1>1, AtWork
  <1>4. queue' = [queue EXCEPT ![w] = s] /\ queue \in [Worker -> Seq(Addr)]
    BY <1>1 DEF TypeOK
  <1>5. /\ Range(s) \subseteq Range(q)
        /\ \E a \in D : /\ a \in WorkerSide(w) /\ a \notin Range(s) /\ heap[a].req = r
                        /\ Active(a) /\ heap[a].status # "completed"
    <2>1. CASE i = 0
      <3>1. s = q /\ AtWorker(w, r) = {o \in running[w] : heap[o].req = r /\ ~IsTerminal(heap[o])}
        BY <2>1 DEF AtWorker
      <3>2. PICK a \in running[w] : a \in D /\ heap[a].req = r /\ ~IsTerminal(heap[a])
        BY <3>1
      <3>3. Active(a) /\ heap[a].status # "completed"
        BY <3>2, Statuses DEF Active, Executing, IsTerminal
      <3> QED BY <1>3, <3>1, <3>2, <3>3
    <2>2. CASE i \in 1..Len(q) /\ heap[q[i]].req = r
      <3>1. i > 0 /\ s = RemoveAt(q, i) /\ q[i] \in D
        BY <1>3, <2>2 DEF AtWorker
      <3>2. q[i] \in Range(q)
        BY <1>3, <2>2 DEF Range
      <3>3. Active(q[i])
        BY <3>2 DEF Active, MayStart
      <3> HIDE DEF i, q, s
      <3>4. Range(s) \subseteq Range(q) /\ q[i] \notin Range(s)
        BY <1>3, <2>2, <3>1, WithoutOne
      <3>5. heap[q[i]].status # "completed"
        BY <1>3, <3>2
      <3> QED BY <1>3, <2>2, <3>1, <3>2, <3>3, <3>4, <3>5
    <2> QED BY <1>2, <2>1, <2>2
  <1> HIDE DEF s, i
  <1>6. PICK a \in D : /\ a \in WorkerSide(w) /\ a \notin Range(s) /\ heap[a].req = r
                       /\ Active(a) /\ heap[a].status # "completed"
    BY <1>5
  <1>7. /\ \A z \in Process :
                 /\ a \notin global_queue[z]
                 /\ consumer[z].obj = a => ~Early(consumer[z].pc) /\ consumer[z].pc # "rejected"
        /\ \A v \in Worker : v # w => a \notin WorkerSide(v)
    BY <1>6, OnlyAtWorker
  <1>8. ~MayStart(a)'
    <2>1. \A v \in Worker : a \notin Range(queue'[v])
      BY <1>4, <1>6, <1>7 DEF WorkerSide
    <2> QED BY <1>7, <2>1 DEF MayStart
  <1>9. \A v \in Worker : Range(queue'[v]) \subseteq Range(queue[v])
    BY <1>4, <1>5
  <1>10. a \in DOMAIN heap
    BY <1>6, Places DEF Active
  <1>11. \A z \in Process : global_queue'[z] \subseteq global_queue[z]
    OBVIOUS
  <1> QED BY <1>6, <1>8, <1>9, <1>10, <1>11, CancelRuns

\* Wherever it finds the record, a cancellation leaves nothing that could start or complete.
LEMMA CancelActRuns ==
    ASSUME IInv, RunInv, IInv', NEW p \in Process, CancelAct(p)
    PROVE  RunInv' /\ Calm
  <1> DEFINE x == canceller[p].copy
             w == x.worker
             found == w \in directory[p] /\ w \in up /\ AtWorker(w, x.req) # {}
  <1>1. /\ canceller[p].pc = "act"
        /\ UNCHANGED <<setup, store, consumer, supervisor, running, runs, confirmed, rerun>>
    BY DEF CancelAct, historyVars
  <1>2. CASE /\ QueuedAs(p, x.req) # {} /\ CancelAt(p, QueuedAs(p, x.req))
             /\ global_queue' = [global_queue EXCEPT ![p] = @ \ QueuedAs(p, x.req)]
             /\ canceller' = [canceller EXCEPT ![p].pc = "save"]
             /\ UNCHANGED <<queue, events>>
    BY <1>1, <1>2, CancelQueuedRuns
  <1>3. CASE /\ found
             /\ queue' = [queue EXCEPT ![w] = IF QueuedAt(w, x.req) > 0 THEN RemoveAt(@, QueuedAt(w, x.req)) ELSE @]
             /\ \/ CancelAt(p, CancelledBy(p, w, x.req)) /\ canceller' = [canceller EXCEPT ![p].pc = "save"]
                \/ CancelAt(p, AtWorker(w, x.req)) /\ canceller' = [canceller EXCEPT ![p] = NoCancel]
             /\ UNCHANGED global_queue
    <2>1. w \in Worker /\ AtWorker(w, x.req) # {}
      BY <1>3 DEF IInv, TypeOK
    <2>2. CancellerMoves(p)
      BY <1>3 DEF CancellerMoves
    <2>3. \E D : AtWorker(w, x.req) \subseteq D /\ CancelAt(p, D)
      BY <1>3 DEF CancelledBy
    <2>4. queue' = [queue EXCEPT ![w] = IF QueuedAt(w, x.req) > 0 THEN RemoveAt(@, QueuedAt(w, x.req)) ELSE @]
      BY <1>3
    <2> HIDE DEF w
    <2> QED BY <1>1, <1>3, <2>1, <2>2, <2>3, <2>4, CancelAtWorkerRuns
  <1>4. CASE /\ canceller' = [canceller EXCEPT ![p] = NoCancel]
             /\ UNCHANGED <<heap, global_queue, queue, events>>
    <2>1. CreatedFirst /\ canceller \in [Process -> [pc : {"idle", "act", "save"}, copy : Record \cup {<<>>}]]
      BY DEF RunInv, IInv, TypeOK
    <2>2. canceller'[p].pc = "idle" /\ \A q \in Process : q # p => canceller'[q] = canceller[q]
      BY <1>4, <2>1 DEF NoCancel
    <2>3. /\ \A q \in Process : canceller'[q].pc # "idle" =>
                 canceller'[q].copy.req \in Request /\ Created(canceller'[q].copy.req)
          /\ \A z \in Request : z \in confirmed' => Created(z)
      BY <1>1, <2>1, <2>2, Traces
    <2>4. \A z \in Request : Stopping(z)' => Stopping(z)
      BY <1>1, <2>2 DEF Stopping
    <2> QED BY <1>1, <1>4, <2>3, <2>4, QuietRuns
  <1> QED BY <1>2, <1>3, <1>4 DEF CancelAct

-----------------------------------------------------------------------------
(* Steps that make a record startable *)

\* A record taken from the queue may start as before.
LEMMA TakeRuns ==
    ASSUME IInv, RunInv, IInv', NEW p \in Process, Take(p)
    PROVE  RunInv' /\ Calm
  <1>1. TypeOK /\ CreatedFirst /\ Redacted /\ consumer[p].pc = "idle"
    BY DEF IInv, RunInv, Take, At
  <1>2. PICK o \in global_queue[p] :
          /\ global_queue' = [global_queue EXCEPT ![p] = @ \ {o}]
          /\ consumer' = [consumer EXCEPT ![p] = [pc |-> "assign", obj |-> o, remote |-> 0]]
    BY DEF Take
  <1>3. UNCHANGED <<setup, heap, store, canceller, supervisor, queue, running, runs, confirmed, rerun>>
    BY DEF Take, workerVars, historyVars
  <1>4. /\ consumer'[p] = [pc |-> "assign", obj |-> o, remote |-> 0] /\ global_queue'[p] = global_queue[p] \ {o}
        /\ \A q \in Process : q # p => consumer'[q] = consumer[q] /\ global_queue'[q] = global_queue[q]
    BY <1>1, <1>2 DEF TypeOK
  <1>5. \A a : Executing(a)' => Executing(a)
    BY <1>3 DEF Executing
  <1>6. \A a : MayStart(a)' => MayStart(a)
    BY <1>2, <1>3, <1>4 DEF MayStart
  <1>7. \A q \in Process :
          /\ Late(consumer'[q].pc) => /\ Late(consumer[q].pc) /\ consumer'[q].obj = consumer[q].obj
                                      /\ consumer'[q].remote = consumer[q].remote
          /\ PlaneSide(q)' \subseteq PlaneSide(q)
    BY <1>2, <1>4 DEF Late, PlaneSide, Busy
  <1>8. Calm /\ \A r \in Request : Stopping(r)' => Stopping(r)
    BY <1>3 DEF Calm, Stopping
  <1>9. Kept
    BY <1>3, <1>5, <1>6, <1>7, <1>8 DEF Kept
  <1>10. CreatedFirst' /\ Redacted'
    BY <1>1, <1>3, Traces, CreatedKept
  <1> QED BY <1>8, <1>9, <1>10, KeptRuns DEF RunInv

\* A request that its caller puts back counts as put back.
LEMMA RequeueRuns ==
    ASSUME IInv, RunInv, IInv', NEW p \in Process, Requeue(p)
    PROVE  RunInv' /\ Calm
  <1>1. TypeOK /\ CreatedFirst /\ Redacted /\ consumer[p].pc = "rejected" /\ Busy(p)
    BY DEF IInv, RunInv, Requeue, At, Busy
  <1>2. /\ UNCHANGED <<setup, heap, store, canceller, supervisor, queue, running, runs, confirmed>>
        /\ global_queue' = [global_queue EXCEPT ![p] = @ \cup {consumer[p].obj}]
        /\ rerun' = IF consumer[p].remote = 0 THEN rerun ELSE rerun \cup {<<Held(p).req, "caller">>}
        /\ consumer' = [consumer EXCEPT ![p] = Idle]
    BY DEF Requeue, workerVars, Leave
  <1>3. /\ consumer'[p] = Idle /\ global_queue'[p] = global_queue[p] \cup {consumer[p].obj}
        /\ \A q \in Process : q # p => consumer'[q] = consumer[q] /\ global_queue'[q] = global_queue[q]
    BY <1>1, <1>2 DEF TypeOK
  <1>4. \A a : Executing(a)' => Executing(a)
    BY <1>2 DEF Executing
  <1>5. ASSUME NEW a, MayStart(a)'
        PROVE  MayStart(a) \/ (a = consumer[p].obj /\ heap[a].req \in Putback')
    <2>1. CASE \E w \in Worker : a \in Range(queue'[w])
      BY <1>2, <2>1 DEF MayStart
    <2>2. ASSUME NEW q \in Process, a \in global_queue'[q]
          PROVE  MayStart(a) \/ (a = consumer[p].obj /\ heap[a].req \in Putback')
      <3>1. CASE a \in global_queue[q]
        BY <3>1 DEF MayStart
      <3>2. CASE a \notin global_queue[q]
        <4>1. a = consumer[p].obj
          BY <1>3, <2>2, <3>2
        <4>2. CASE consumer[p].remote = 0
          BY <1>1, <4>1, <4>2 DEF MayStart
        <4>3. CASE consumer[p].remote # 0
          <5>1. <<heap[a].req, "caller">> \in rerun'
            BY <1>2, <4>1, <4>3 DEF Held
          <5> QED BY <4>1, <5>1 DEF Putback
        <4> QED BY <4>2, <4>3
      <3> QED BY <3>1, <3>2
    <2>3. ASSUME NEW q \in Process, consumer'[q].obj = a,
                 Early(consumer'[q].pc) \/ (consumer'[q].pc = "rejected" /\ consumer'[q].remote = 0)
          PROVE  MayStart(a)
      <3>1. q # p
        BY <1>3, <2>3 DEF Early, Idle
      <3> QED BY <1>3, <2>3, <3>1 DEF MayStart
    <2> QED BY <1>5, <2>1, <2>2, <2>3 DEF MayStart
  <1>6. \A q \in Process :
          /\ Late(consumer'[q].pc) => /\ Late(consumer[q].pc) /\ consumer'[q].obj = consumer[q].obj
                                      /\ consumer'[q].remote = consumer[q].remote
          /\ PlaneSide(q)' \subseteq PlaneSide(q)
    BY <1>1, <1>3 DEF Late, PlaneSide, Busy, Idle
  <1>7. Calm /\ \A r \in Request : Stopping(r)' => Stopping(r)
    BY <1>2 DEF Calm, Stopping
  <1>8. rerun \subseteq rerun' /\ \A r \in Request : <<r, "recovery">> \in rerun' => <<r, "recovery">> \in rerun
    BY <1>2
  <1>9. Kept
    <2>1. \A a \in DOMAIN heap' : MayStart(a)' => (a \in DOMAIN heap /\ MayStart(a)) \/ heap'[a].req \in Putback'
      BY <1>2, <1>5
    <2> QED BY <1>2, <1>4, <1>6, <1>7, <1>8, <2>1 DEF Kept
  <1>10. CreatedFirst' /\ Redacted'
    BY <1>1, <1>2, <1>8, Traces, CreatedKept
  <1> QED BY <1>7, <1>9, <1>10, KeptRuns DEF RunInv

\* A record is created: the first of its request, or one that is put back.
LEMMA EntersRuns ==
    ASSUME IInv, RunInv, IInv', NEW p \in Process, NEW x \in Record, heap' = Append(heap, x),
           NEW S, S \subseteq global_queue[p] \cup {Len(heap) + 1},
           global_queue' = [global_queue EXCEPT ![p] = S],
           NEW y, (y \in Record /\ Save(y)) \/ UNCHANGED store,
           \/ ~Created(x.req) /\ y \in Record /\ Save(y) /\ y.req = x.req
           \/ Created(x.req) /\ x.req \in Putback',
           rerun \subseteq rerun',
           \A r \in Request : <<r, "recovery">> \in rerun' => <<r, "recovery">> \in rerun \/ setup.store # "redis",
           \A q \in Process : supervisor'[q].list \subseteq supervisor[q].list,
           UNCHANGED <<setup, consumer, canceller, queue, running, runs, confirmed>>
    PROVE  RunInv' /\ Calm
  <1> DEFINE n == Len(heap) + 1
  <1>1. TypeOK /\ CreatedFirst /\ Redacted
    BY DEF IInv, RunInv
  <1>2. /\ DOMAIN heap' = DOMAIN heap \cup {n} /\ n \notin DOMAIN heap
        /\ heap'[n] = x /\ \A a \in DOMAIN heap : heap'[a] = heap[a]
    BY <1>1, HeapAppend DEF TypeOK
  <1> HIDE DEF n
  <1>3. global_queue'[p] = S /\ \A q \in Process : q # p => global_queue'[q] = global_queue[q]
    BY <1>1 DEF TypeOK
  <1>4. S \subseteq global_queue[p] \cup {n}
    BY DEF n
  <1>5. Calm
    BY <1>2 DEF Calm
  <1>6. \A a : MayStart(a)' => MayStart(a) \/ a = n
    BY <1>3, <1>4 DEF MayStart
  <1>7. \A a \in DOMAIN heap' : MayStart(a)' =>
          \/ a \in DOMAIN heap /\ MayStart(a)
          \/ heap'[a].req \in Putback'
          \/ a = Len(heap) + 1 /\ ~Created(heap'[a].req)
    BY <1>2, <1>6 DEF n
  <1>8. \A a : Executing(a)' => Executing(a)
    BY DEF Executing
  <1>9. \A q \in Process : PlaneSide(q)' \cap DOMAIN heap \subseteq PlaneSide(q)
    BY <1>2, <1>3, <1>4 DEF PlaneSide, Busy
  <1>10. \A r \in Request : Stopping(r)' => Stopping(r)
    BY DEF Stopping
  <1>11. Kept
    BY <1>2, <1>5, <1>7, <1>8, <1>9, <1>10 DEF Kept
  <1>12. CreatedFirst' /\ Redacted'
    <2>1. x.req \in Request
      BY DEF Record
    <2>2. \A a \in DOMAIN heap' : \/ a \in DOMAIN heap /\ heap'[a].req = heap[a].req
                                  \/ Created(heap'[a].req) /\ heap'[a].req \in Request
                                  \/ y \in Record /\ Save(y) /\ heap'[a].req = y.req
      BY <1>2, <2>1
    <2>3. \A q \in Process : \A z \in supervisor'[q].list : z \in supervisor[q].list /\ z.req \in Request
      BY <1>1, Traces
    <2> QED BY <1>1, <2>2, <2>3, Traces, CreatedKept
  <1> QED BY <1>5, <1>11, <1>12, KeptRuns DEF RunInv

\* A first record of a request may start once.
LEMMA SubmitRuns ==
    ASSUME IInv, RunInv, IInv', NEW p \in Process, NEW r \in Request, Submit(p, r)
    PROVE  RunInv' /\ Calm
  <1> DEFINE S == global_queue[p] \cup {Len(heap) + 1}
             x == NewRecord(r)
  <1>1. x \in Record /\ x.req = r
    BY NewRecordFacts DEF NewRecord
  <1>2. /\ heap' = Append(heap, x) /\ Save(x) /\ ~Created(x.req)
        /\ global_queue' = [global_queue EXCEPT ![p] = S]
        /\ UNCHANGED <<setup, consumer, canceller, supervisor, queue, running, runs, confirmed, rerun>>
    BY <1>1 DEF Submit, actorVars, workerVars, historyVars, Created, IInv, TypeOK
  <1> HIDE DEF x, S
  <1>3. S \subseteq global_queue[p] \cup {Len(heap) + 1}
    BY DEF S
  <1> QED BY <1>1, <1>2, <1>3, EntersRuns

\* A pipeline record has ended when it is submitted, and may not start again.
LEMMA PipelineSubmitRuns ==
    ASSUME IInv, RunInv, IInv', NEW p \in Process, NEW r \in Request, PipelineSubmit(p, r)
    PROVE  RunInv' /\ Calm
  <1> DEFINE a == Len(heap) + 1
             open == {o \in global_queue[p] : ~IsTerminal(heap[o])}
             z == Transition(NewRecord(r), "failed")
  <1>1. NewRecord(r) \in Record /\ NewRecord(r).req = r /\ z \in Record /\ z.req = r /\ TypeOK
    <2>1. NewRecord(r) \in Record /\ NewRecord(r).req = r
      BY NewRecordFacts DEF NewRecord
    <2> QED BY <2>1, RecordFacts, Statuses DEF IInv
  <1>2. /\ ~Created(r)
        /\ UNCHANGED <<setup, consumer, canceller, supervisor, queue, running, runs, confirmed, rerun>>
    BY DEF PipelineSubmit, actorVars, workerVars, Created
  <1>3. \E x \in Record, y \in Record, S \in SUBSET (global_queue[p] \cup {a}) :
            /\ heap' = Append(heap, x) /\ Save(y) /\ x.req = r /\ y.req = r
            /\ global_queue' = [global_queue EXCEPT ![p] = S]
    <2>1. CASE \E e \in Executions(p, NewRecord(r)) :
                 heap' = Append(heap, e[1]) /\ Save(e[2]) /\ global_queue' = [global_queue EXCEPT ![p] = open]
      <3>1. PICK e \in Executions(p, NewRecord(r)) :
                 heap' = Append(heap, e[1]) /\ Save(e[2]) /\ global_queue' = [global_queue EXCEPT ![p] = open]
        BY <2>1
      <3>2. e[1] \in Record /\ e[2] \in Record /\ e[1].req = r /\ e[2].req = r
        BY <1>1, ExecutionsEnd
      <3>3. open \in SUBSET (global_queue[p] \cup {a})
        OBVIOUS
      <3> HIDE DEF open, a
      <3> QED BY <3>1, <3>2, <3>3
    <2>2. CASE \E o \in open :
                 heap' = Append(heap, z) /\ Save(z) /\ global_queue' = [global_queue EXCEPT ![p] = (open \ {o}) \cup {a}]
      <3>1. PICK o \in open :
                 heap' = Append(heap, z) /\ Save(z) /\ global_queue' = [global_queue EXCEPT ![p] = (open \ {o}) \cup {a}]
        BY <2>2
      <3>2. (open \ {o}) \cup {a} \in SUBSET (global_queue[p] \cup {a})
        OBVIOUS
      <3> HIDE DEF open, a, z
      <3> QED BY <1>1, <3>1, <3>2
    <2> QED BY <2>1, <2>2 DEF PipelineSubmit
  <1>4. PICK x \in Record, y \in Record, S \in SUBSET (global_queue[p] \cup {a}) :
            /\ heap' = Append(heap, x) /\ Save(y) /\ x.req = r /\ y.req = r
            /\ global_queue' = [global_queue EXCEPT ![p] = S]
    BY <1>3
  <1> QED BY <1>2, <1>4, EntersRuns

\* A request that recovery puts back counts as put back, in memory only.
LEMMA SupRequeuesRuns ==
    ASSUME IInv, RunInv, IInv', NEW p \in Process, SupRequeues(p)
    PROVE  RunInv' /\ Calm
  <1>1. PICK x \in supervisor[p].list :
          /\ Retriable(x)
          /\ heap' = Append(heap, [x EXCEPT !.status = "queued", !.worker = NoWorker])
          /\ global_queue' = [global_queue EXCEPT ![p] = @ \cup {Len(heap) + 1}]
          /\ SupGoto(p, SupAt("saveq", supervisor[p].todo, supervisor[p].list \ {x}, Len(heap) + 1))
          /\ rerun' = rerun \cup {<<x.req, "recovery">>}
    BY DEF SupRequeues
  <1> DEFINE y == [x EXCEPT !.status = "queued", !.worker = NoWorker]
             S == global_queue[p] \cup {Len(heap) + 1}
  <1>2. TypeOK /\ CreatedFirst /\ Redacted
    BY DEF IInv, RunInv
  <1>3. x \in Record /\ y \in Record /\ y.req = x.req
    <2>1. x \in Record
      BY Supervising
    <2> QED BY <2>1, Statuses DEF Record
  <1>4. /\ heap' = Append(heap, y) /\ global_queue' = [global_queue EXCEPT ![p] = S]
        /\ UNCHANGED <<setup, store, consumer, canceller, queue, running, runs, confirmed>>
    BY <1>1, <1>2 DEF SupRequeues, workerVars, TypeOK
  <1>5. Created(x.req) /\ setup.store # "redis"
    BY <1>1, <1>2 DEF CreatedFirst, Redacted, Retriable
  <1>6. x.req \in Putback'
    <2>1. <<x.req, "recovery">> \in rerun'
      BY <1>1
    <2> QED BY <2>1 DEF Putback
  <1>7. \A q \in Process : supervisor'[q].list \subseteq supervisor[q].list
    <2>1. supervisor'[p].list = supervisor[p].list \ {x} /\ \A q \in Process : q # p => supervisor'[q] = supervisor[q]
      BY <1>1, Supervising DEF SupGoto, SupAt
    <2> QED BY <2>1
  <1>8. S \subseteq global_queue[p] \cup {Len(heap) + 1} /\ rerun \subseteq rerun'
    BY <1>1
  <1> HIDE DEF y, S
  <1> QED BY <1>3, <1>4, <1>5, <1>6, <1>7, <1>8, EntersRuns

\* A record starts: it was startable and is not any more.
LEMMA StartRuns ==
    ASSUME IInv, RunInv, IInv', NEW w \in Worker, Start(w)
    PROVE  RunInv' /\ Calm
  <1>1. TypeOK /\ Core /\ CreatedFirst /\ Redacted /\ AwaitsItsOwn /\ OneExecution /\ NothingLeft
    BY DEF IInv, RunInv
  <1>2. PICK s \in Seq(Addr), started \in SUBSET Addr : StartWith(w, s, started)
    BY StartFacts
  <1>3. UNCHANGED <<setup, store, global_queue, consumer, canceller, supervisor, confirmed, rerun>>
    BY DEF Start, planeVars, actorVars
  <1>4. /\ \A a \in Range(queue[w]) : heap[a].status = "queued"
        /\ WorkerSide(w) = Range(queue[w]) \cup running[w] /\ Range(queue[w]) \subseteq DOMAIN heap
    BY <1>1, AtWork
  <1>5. /\ started \subseteq Range(queue[w]) /\ Range(s) \cap started = {} /\ Range(s) \subseteq Range(queue[w])
        /\ \A a, b \in started : a = b
        /\ running' = [running EXCEPT ![w] = started] /\ queue' = [queue EXCEPT ![w] = s]
    BY <1>2 DEF StartWith
  <1>6. /\ running'[w] = started /\ \A v \in Worker : v # w => running'[v] = running[v]
        /\ queue'[w] = s /\ \A v \in Worker : v # w => queue'[v] = queue[v]
    BY <1>1, <1>5 DEF TypeOK
  <1>7. /\ DOMAIN heap' = DOMAIN heap
        /\ \A a \in DOMAIN heap :
              /\ heap'[a].req = heap[a].req
              /\ heap'[a] = heap[a] \/ (heap[a].status = "queued" /\ heap'[a].status \in {"running", "timed_out"})
    BY <1>2, <1>4 DEF StartWith
  <1>8. \A a \in DOMAIN heap :
              /\ IsTerminal(heap[a]) => IsTerminal(heap'[a])
              /\ heap[a].status = "completed" <=> heap'[a].status = "completed"
    BY <1>7, Statuses DEF IsTerminal
  <1>9. Calm
    BY <1>8 DEF Calm
  <1>10. \A a \in started : MayStart(a) /\ Active(a) /\ ~MayStart(a)'
    <2> SUFFICES ASSUME NEW a \in started PROVE MayStart(a) /\ Active(a) /\ ~MayStart(a)'
      OBVIOUS
    <2>1. MayStart(a) /\ Active(a)
      BY <1>5 DEF MayStart, Active
    <2>2. /\ \A q \in Process :
                 /\ a \notin global_queue[q]
                 /\ consumer[q].obj = a => ~Early(consumer[q].pc) /\ consumer[q].pc # "rejected"
          /\ \A v \in Worker : v # w => a \notin WorkerSide(v)
      BY <1>4, <1>5, OnlyAtWorker
    <2>3. \A v \in Worker : a \notin Range(queue'[v])
      BY <1>5, <1>6, <2>2 DEF WorkerSide
    <2> QED BY <1>3, <2>1, <2>2, <2>3 DEF MayStart
  <1>11. \A a : MayStart(a)' => MayStart(a)
    BY <1>3, <1>5, <1>6 DEF MayStart
  <1>12. \A a : Executing(a)' => Executing(a) \/ a \in started
    BY <1>6 DEF Executing
  <1>13. \A a : Active(a)' => Active(a)
    BY <1>10, <1>11, <1>12 DEF Active
  <1>14. ASSUME NEW r \in Request
         PROVE  \/ runs'[r] = runs[r]
                \/ runs'[r] = runs[r] + 1 /\ \E a \in started : heap[a].req = r
    <2> DEFINE T == {a \in started : heap[a].req = r}
    <2>1. runs'[r] = runs[r] + Cardinality(T) /\ runs[r] \in Nat
      BY <1>1, <1>2 DEF StartWith, TypeOK
    <2>2. CASE T = {}
      <3>1. Cardinality(T) = 0
        BY <2>2, FS_EmptySet
      <3> QED BY <2>1, <3>1
    <2>3. CASE T # {}
      <3>1. PICK a : a \in T
        BY <2>3
      <3>2. T = {a}
        BY <1>5, <3>1
      <3>3. Cardinality(T) = 1
        BY <3>2, FS_Singleton
      <3> QED BY <2>1, <3>1, <3>3
    <2> QED BY <2>2, <2>3
  <1>15. Putback' = Putback /\ \A r \in Request : Stopping(r)' <=> Stopping(r)
    BY <1>3 DEF Putback, Stopping
  <1>16. /\ \A q \in Process : Late(consumer[q].pc) => consumer[q].obj \in DOMAIN heap /\ consumer[q].remote \in DOMAIN heap
         /\ \A a \in DOMAIN heap : heap[a].req \in Request
    BY Places
  <1>17. AwaitsItsOwn'
    <2>1. \A q \in Process : PlaneSide(q)' = PlaneSide(q)
      BY <1>3 DEF PlaneSide, Busy
    <2> QED BY <1>1, <1>3, <1>7, <1>16, <2>1 DEF AwaitsItsOwn, Held
  <1>18. OneExecution'
    <2> SUFFICES ASSUME NEW r \in Request \ Putback
                 PROVE  /\ \A a, b \in DOMAIN heap : Active(a)' /\ Active(b)' /\ heap'[a].req = r
                                                        /\ heap'[b].req = r => a = b
                        /\ runs'[r] <= 1
                        /\ runs'[r] = 1 => \A a \in DOMAIN heap : MayStart(a)' => heap'[a].req # r
                        /\ \A p \in Process : Late(consumer'[p].pc) /\ heap'[consumer'[p].obj].req = r =>
                              \A a \in DOMAIN heap : Active(a)' /\ heap'[a].req = r => a = consumer'[p].remote
      BY <1>7, <1>15 DEF OneExecution, Held
    <2>1. /\ \A a, b \in DOMAIN heap : Active(a) /\ Active(b) /\ heap[a].req = r /\ heap[b].req = r => a = b
          /\ runs[r] <= 1 /\ runs[r] \in Nat
          /\ runs[r] = 1 => \A a \in DOMAIN heap : MayStart(a) => heap[a].req # r
          /\ \A p \in Process : Late(consumer[p].pc) /\ heap[consumer[p].obj].req = r =>
                \A a \in DOMAIN heap : Active(a) /\ heap[a].req = r => a = consumer[p].remote
      BY <1>1 DEF OneExecution, Held, TypeOK
    <2>2. \A a, b \in DOMAIN heap : Active(a)' /\ Active(b)' /\ heap'[a].req = r /\ heap'[b].req = r => a = b
      BY <1>7, <1>13, <2>1
    <2>3. \A p \in Process : Late(consumer'[p].pc) /\ heap'[consumer'[p].obj].req = r =>
              \A a \in DOMAIN heap : Active(a)' /\ heap'[a].req = r => a = consumer'[p].remote
      BY <1>3, <1>7, <1>13, <1>16, <2>1
    <2>4. CASE \E a \in started : heap[a].req = r
      <3>1. PICK a \in started : heap[a].req = r
        BY <2>4
      <3>2. a \in DOMAIN heap /\ MayStart(a) /\ Active(a) /\ ~MayStart(a)'
        BY <1>4, <1>5, <1>10
      <3>3. runs[r] = 0 /\ runs'[r] <= 1
        BY <1>14, <2>1, <3>1, <3>2
      <3>4. \A b \in DOMAIN heap : MayStart(b)' => heap'[b].req # r
        BY <1>7, <1>11, <2>1, <3>1, <3>2 DEF Active
      <3> QED BY <2>2, <2>3, <3>3, <3>4
    <2>5. CASE ~\E a \in started : heap[a].req = r
      <3>1. runs'[r] = runs[r]
        BY <1>14, <2>5
      <3> QED BY <1>7, <1>11, <2>1, <2>2, <2>3, <3>1
    <2> QED BY <2>4, <2>5
  <1>19. NothingLeft'
    <2> SUFFICES ASSUME NEW r \in Request \ Putback, Stopping(r)
                 PROVE  /\ \A a \in DOMAIN heap : heap'[a].req = r =>
                              ~MayStart(a)' /\ (Executing(a)' => IsTerminal(heap'[a]))
                        /\ \A p \in Process : Late(consumer'[p].pc) /\ heap'[consumer'[p].obj].req = r =>
                              heap'[consumer'[p].remote].status # "completed"
                                \/ heap'[consumer'[p].obj].status = "completed"
      BY <1>7, <1>15 DEF NothingLeft, NoneLeft, Held
    <2>1. /\ \A a \in DOMAIN heap : heap[a].req = r => ~MayStart(a) /\ (Executing(a) => IsTerminal(heap[a]))
          /\ \A p \in Process : Late(consumer[p].pc) /\ heap[consumer[p].obj].req = r =>
                heap[consumer[p].remote].status # "completed" \/ heap[consumer[p].obj].status = "completed"
      BY <1>1 DEF NothingLeft, NoneLeft, Held
    <2>2. \A a \in DOMAIN heap : heap'[a].req = r => ~MayStart(a)' /\ (Executing(a)' => IsTerminal(heap'[a]))
      BY <1>7, <1>8, <1>10, <1>11, <1>12, <2>1
    <2>3. \A p \in Process : Late(consumer'[p].pc) /\ heap'[consumer'[p].obj].req = r =>
              heap'[consumer'[p].remote].status # "completed" \/ heap'[consumer'[p].obj].status = "completed"
      BY <1>3, <1>7, <1>8, <1>16, <2>1
    <2> QED BY <2>2, <2>3
  <1>20. CreatedFirst' /\ Redacted'
    <2>1. \A r \in Request : runs'[r] > 0 => Created(r)
      <3> SUFFICES ASSUME NEW r \in Request, runs'[r] > 0 PROVE Created(r)
        OBVIOUS
      <3>1. CASE runs'[r] = runs[r]
        BY <1>1, <3>1 DEF CreatedFirst
      <3>2. CASE \E a \in started : heap[a].req = r
        BY <1>1, <1>4, <1>5, <3>2 DEF CreatedFirst
      <3> QED BY <1>14, <3>1, <3>2
    <2>2. \A a \in DOMAIN heap' : a \in DOMAIN heap /\ heap'[a].req = heap[a].req
      BY <1>7
    <2> QED BY <1>1, <1>3, <2>1, <2>2, Traces, CreatedKept
  <1> QED BY <1>9, <1>17, <1>18, <1>19, <1>20 DEF RunInv

\* A handoff puts one startable record in the place of another.
LEMMA HandoffRuns ==
    ASSUME IInv, RunInv, IInv', NEW p \in Process, Handoff(p)
    PROVE  RunInv' /\ Calm
  <1> DEFINE o == consumer[p].obj
             r0 == heap[o].req
  <1>1. /\ TypeOK /\ Core /\ CreatedFirst /\ Redacted /\ AwaitsItsOwn /\ OneExecution /\ NothingLeft
        /\ consumer[p].pc = "handoff" /\ Busy(p) /\ setup.transport \in {"local", "http"}
    BY TheSetup DEF IInv, RunInv, Handoff, At, Busy
  <1>2. PICK x \in Record, a \in Addr, c \in [pc : ConsumerPc, obj : 0..MaxRecords, remote : 0..MaxRecords] :
              HandoffTo(p, x, a, c)
    BY HandoffFacts
  <1>3. UNCHANGED <<setup, store, global_queue, canceller, supervisor, running, runs, confirmed, rerun>>
    BY DEF Handoff, planeVars, historyVars
  <1>4. /\ o \in DOMAIN heap /\ heap[o].status = "assigned" /\ r0 \in Request /\ MayStart(o) /\ Active(o)
        /\ \A w \in Worker : o \notin WorkerSide(w)
        /\ \A q \in Process : q # p => o \notin PlaneSide(q)
        /\ o \notin global_queue[p]
    <2>1. o \in DOMAIN heap /\ heap[o].status = "assigned" /\ r0 \in Request
      BY <1>1, Holding DEF Assigned, Held
    <2>2. MayStart(o) /\ Active(o)
      BY <1>1 DEF MayStart, Active, Early
    <2>3. o \in PlaneSide(p) /\ SharedWithWorker(p) = {}
      BY <1>1 DEF PlaneSide, SharedWithWorker
    <2> QED BY <1>1, <2>1, <2>2, <2>3 DEF Core, OnePlace
  <1>5. /\ heap'[a].req = r0 /\ heap'[a].status = "queued" /\ DOMAIN heap' = DOMAIN heap \cup {a}
        /\ \A b \in DOMAIN heap : b # a => heap'[b] = heap[b]
        /\ setup.transport = "local" => a = o /\ c.pc = "commit"
        /\ setup.transport = "http" => a \notin DOMAIN heap /\ c.pc = "answer"
        /\ c.obj = o /\ c.remote = a
    BY <1>2 DEF HandoffTo, Held
  <1>6. consumer'[p] = c /\ \A q \in Process : q # p => consumer'[q] = consumer[q]
    BY <1>1, <1>2 DEF HandoffTo, TypeOK
  <1>7. \A w \in Worker : Range(queue'[w]) \subseteq Range(queue[w]) \cup {a}
    <2>1. \A w \in Worker : queue[w] \in Seq(Addr) /\ queue'[w] \in {queue[w], Append(queue[w], a)}
      BY <1>1, <1>2 DEF HandoffTo, TypeOK
    <2>2. \A z \in Seq(Addr) : Range(Append(z, a)) \subseteq Range(z) \cup {a}
      BY DEF Range
    <2> QED BY <2>1, <2>2
  <1> HIDE DEF r0
  <1>8. /\ \A b \in DOMAIN heap : heap'[b].req = heap[b].req
        /\ \A b \in DOMAIN heap : b # a => heap'[b] = heap[b]
        /\ \A b \in DOMAIN heap : b = a => heap[b].status = "assigned" /\ heap'[b].status = "queued"
    BY <1>1, <1>4, <1>5 DEF r0
  <1>9. Calm
    BY <1>8 DEF Calm
  <1>10. Putback' = Putback /\ \A r \in Request : Stopping(r)' <=> Stopping(r)
    BY <1>3 DEF Putback, Stopping
  <1>11. \A b : MayStart(b)' => b = a \/ MayStart(b)
    <2> SUFFICES ASSUME NEW b, MayStart(b)', b # a PROVE MayStart(b)
      OBVIOUS
    <2>1. CASE \E w \in Worker : b \in Range(queue'[w])
      BY <1>7, <2>1 DEF MayStart
    <2>2. CASE \E q \in Process : b \in global_queue'[q]
      BY <1>3, <2>2 DEF MayStart
    <2>3. ASSUME NEW q \in Process, consumer'[q].obj = b,
                 Early(consumer'[q].pc) \/ (consumer'[q].pc = "rejected" /\ consumer'[q].remote = 0)
          PROVE  MayStart(b)
      <3>1. q # p
        BY <1>1, <1>5, <1>6, <2>3 DEF Early
      <3> QED BY <1>6, <2>3, <3>1 DEF MayStart
    <2> QED BY <2>1, <2>2, <2>3 DEF MayStart
  <1>12. \A b : Executing(b)' <=> Executing(b)
    BY <1>3 DEF Executing
  <1>13. ASSUME NEW b, b = o, b # a PROVE ~Active(b)'
    <2>1. \A w \in Worker : b \notin Range(queue'[w]) /\ b \notin running[w]
      BY <1>4, <1>7, <1>13 DEF WorkerSide
    <2>2. \A q \in Process : b \notin global_queue'[q]
      BY <1>3, <1>4, <1>13 DEF PlaneSide
    <2>3. ASSUME NEW q \in Process, consumer'[q].obj = b,
                 Early(consumer'[q].pc) \/ (consumer'[q].pc = "rejected" /\ consumer'[q].remote = 0)
          PROVE  FALSE
      <3>1. q # p
        BY <1>1, <1>5, <1>6, <2>3 DEF Early
      <3>2. Busy(q) /\ consumer[q].obj = b
        BY <1>6, <2>3, <3>1 DEF Busy, Early
      <3> QED BY <1>4, <1>13, <3>1, <3>2 DEF PlaneSide
    <2> QED BY <1>3, <2>1, <2>2, <2>3 DEF Active, MayStart, Executing
  <1>14. ASSUME NEW b \in DOMAIN heap', Active(b)'
         PROVE  b = a \/ (b \in DOMAIN heap /\ Active(b) /\ heap[b].req = heap'[b].req /\ (MayStart(b)' => MayStart(b)))
    <2>1. b # a => b \in DOMAIN heap /\ Active(b) /\ (MayStart(b)' => MayStart(b))
      BY <1>5, <1>11, <1>12, <1>14 DEF Active
    <2> QED BY <1>8, <2>1
  <1>15. /\ \A q \in Process : Late(consumer[q].pc) => consumer[q].obj \in DOMAIN heap /\ consumer[q].remote \in DOMAIN heap
         /\ \A b \in DOMAIN heap : heap[b].req \in Request
    BY Places
  <1>16. \A q \in Process : PlaneSide(q)' = PlaneSide(q)
    BY <1>1, <1>3, <1>5, <1>6 DEF PlaneSide, Busy
  <1>17. AwaitsItsOwn'
    <2> SUFFICES ASSUME NEW q \in Process, Late(consumer'[q].pc)
                 PROVE  /\ heap'[consumer'[q].remote].req = heap'[consumer'[q].obj].req
                        /\ setup.transport = "http" => \A z \in Process : consumer'[q].remote \notin PlaneSide(z)
      BY <1>3, <1>16 DEF AwaitsItsOwn, Held
    <2>1. CASE q = p
      <3>1. heap'[c.remote].req = heap'[c.obj].req
        BY <1>4, <1>5, <1>8 DEF r0
      <3>2. setup.transport = "http" => \A z \in Process : a \notin PlaneSide(z)
        BY <1>1, <1>5 DEF Core, Pointers
      <3> QED BY <1>5, <1>6, <2>1, <3>1, <3>2
    <2>2. CASE q # p
      BY <1>1, <1>6, <1>8, <1>15, <2>2 DEF AwaitsItsOwn, Held
    <2> QED BY <2>1, <2>2
  <1>18. ASSUME NEW q \in Process, Late(consumer'[q].pc), heap'[consumer'[q].obj].req = r0, r0 \notin Putback
         PROVE  q = p
    <2> SUFFICES ASSUME q # p PROVE FALSE
      OBVIOUS
    <2>1. Late(consumer[q].pc) /\ heap[consumer[q].obj].req = r0 /\ Busy(q)
      BY <1>6, <1>8, <1>15, <1>18 DEF Busy, Late
    <2>2. consumer[q].remote = o
      BY <1>1, <1>4, <1>18, <2>1 DEF OneExecution, Held, r0
    <2>3. CASE setup.transport = "local"
      <3>1. consumer[q].obj = o
        BY <1>1, <2>1, <2>2, <2>3 DEF Core, PlaceTellsStatus, Late
      <3> QED BY <1>4, <2>1, <3>1 DEF PlaneSide
    <2>4. CASE setup.transport = "http"
      BY <1>1, <2>1, <2>2, <2>4 DEF AwaitsItsOwn, PlaneSide
    <2> QED BY <1>1, <2>3, <2>4
  <1>19. OneExecution'
    <2> SUFFICES ASSUME NEW r \in Request \ Putback
                 PROVE  /\ \A b, d \in DOMAIN heap' : Active(b)' /\ Active(d)' /\ heap'[b].req = r
                                                        /\ heap'[d].req = r => b = d
                        /\ runs[r] <= 1
                        /\ runs[r] = 1 => \A b \in DOMAIN heap' : MayStart(b)' => heap'[b].req # r
                        /\ \A q \in Process : Late(consumer'[q].pc) /\ heap'[consumer'[q].obj].req = r =>
                              \A b \in DOMAIN heap' : Active(b)' /\ heap'[b].req = r => b = consumer'[q].remote
      BY <1>3, <1>10 DEF OneExecution, Held
    <2>1. /\ \A b, d \in DOMAIN heap : Active(b) /\ Active(d) /\ heap[b].req = r /\ heap[d].req = r => b = d
          /\ runs[r] <= 1
          /\ runs[r] = 1 => \A b \in DOMAIN heap : MayStart(b) => heap[b].req # r
          /\ \A q \in Process : Late(consumer[q].pc) /\ heap[consumer[q].obj].req = r =>
                \A b \in DOMAIN heap : Active(b) /\ heap[b].req = r => b = consumer[q].remote
      BY <1>1 DEF OneExecution, Held
    <2>2. CASE r = r0
      <3>1. \A b \in DOMAIN heap' : Active(b)' /\ heap'[b].req = r => b = a
        <4> SUFFICES ASSUME NEW b \in DOMAIN heap', Active(b)', heap'[b].req = r, b # a PROVE FALSE
          OBVIOUS
        <4>1. b = o
          BY <1>4, <1>14, <2>1, <2>2 DEF r0
        <4> QED BY <1>13, <4>1
      <3>2. runs[r] # 1
        BY <1>4, <2>1, <2>2 DEF r0
      <3>3. \A q \in Process : Late(consumer'[q].pc) /\ heap'[consumer'[q].obj].req = r => consumer'[q].remote = a
        BY <1>5, <1>6, <1>18, <2>2
      <3> QED BY <2>1, <3>1, <3>2, <3>3
    <2>3. CASE r # r0
      <3>1. \A b \in DOMAIN heap' : Active(b)' /\ heap'[b].req = r =>
               b \in DOMAIN heap /\ Active(b) /\ heap[b].req = r /\ (MayStart(b)' => MayStart(b))
        BY <1>5, <1>14, <2>3
      <3>2. \A q \in Process : Late(consumer'[q].pc) /\ heap'[consumer'[q].obj].req = r =>
               /\ consumer'[q] = consumer[q] /\ Late(consumer[q].pc) /\ heap[consumer[q].obj].req = r
        <4>1. heap'[c.obj].req = r0
          BY <1>4, <1>5, <1>8 DEF r0
        <4> QED BY <1>6, <1>8, <1>15, <2>3, <4>1
      <3>3. \A b : MayStart(b)' => Active(b)'
        BY DEF Active
      <3> QED BY <2>1, <3>1, <3>2, <3>3
    <2> QED BY <2>2, <2>3
  <1>20. NothingLeft'
    <2> SUFFICES ASSUME NEW r \in Request \ Putback, Stopping(r)
                 PROVE  /\ \A b \in DOMAIN heap' : heap'[b].req = r =>
                              ~MayStart(b)' /\ (Executing(b)' => IsTerminal(heap'[b]))
                        /\ \A q \in Process : Late(consumer'[q].pc) /\ heap'[consumer'[q].obj].req = r =>
                              heap'[consumer'[q].remote].status # "completed"
                                \/ heap'[consumer'[q].obj].status = "completed"
      BY <1>10 DEF NothingLeft, NoneLeft, Held
    <2>1. /\ \A b \in DOMAIN heap : heap[b].req = r => ~MayStart(b) /\ (Executing(b) => IsTerminal(heap[b]))
          /\ \A q \in Process : Late(consumer[q].pc) /\ heap[consumer[q].obj].req = r =>
                heap[consumer[q].remote].status # "completed" \/ heap[consumer[q].obj].status = "completed"
      BY <1>1 DEF NothingLeft, NoneLeft, Held
    <2>2. r # r0
      BY <1>4, <2>1 DEF r0
    <2>3. ASSUME NEW b \in DOMAIN heap', heap'[b].req = r
          PROVE  ~MayStart(b)' /\ (Executing(b)' => IsTerminal(heap'[b]))
      <3>1. b # a /\ b \in DOMAIN heap /\ heap'[b] = heap[b]
        BY <1>5, <2>2, <2>3
      <3> QED BY <1>11, <1>12, <2>1, <2>3, <3>1
    <2>4. ASSUME NEW q \in Process, Late(consumer'[q].pc), heap'[consumer'[q].obj].req = r
          PROVE  heap'[consumer'[q].remote].status # "completed" \/ heap'[consumer'[q].obj].status = "completed"
      <3>1. q # p
        BY <1>4, <1>5, <1>6, <1>8, <2>2, <2>4 DEF r0
      <3>2. /\ consumer'[q] = consumer[q] /\ consumer[q].obj \in DOMAIN heap /\ consumer[q].remote \in DOMAIN heap
            /\ Late(consumer[q].pc)
        BY <1>6, <1>15, <2>4, <3>1
      <3>3. heap[consumer[q].obj].req = r /\ heap[consumer[q].remote].req = r
        BY <1>1, <1>8, <2>4, <3>2 DEF AwaitsItsOwn, Held
      <3>4. consumer[q].obj # a /\ consumer[q].remote # a
        BY <1>5, <1>8, <2>2, <3>2, <3>3
      <3> QED BY <1>8, <2>1, <3>2, <3>3, <3>4
    <2> QED BY <2>3, <2>4
  <1>21. CreatedFirst' /\ Redacted'
    <2>1. Created(r0)
      BY <1>1, <1>4 DEF CreatedFirst, r0
    <2>2. \A b \in DOMAIN heap' : \/ b \in DOMAIN heap /\ heap'[b].req = heap[b].req
                                  \/ Created(heap'[b].req) /\ heap'[b].req \in Request
      BY <1>4, <1>5, <1>8, <2>1
    <2> QED BY <1>1, <1>3, <2>2, Traces, CreatedKept
  <1> QED BY <1>9, <1>17, <1>19, <1>20, <1>21 DEF RunInv

\* Nothing has run at the start.
LEMMA InitRunInv ==
    ASSUME Init
    PROVE  RunInv
  <1>1. /\ DOMAIN heap = {} /\ \A r \in Request : ~Created(r) /\ ~Stopping(r) /\ runs[r] = 0
        /\ confirmed = {} /\ rerun = {}
        /\ \A p \in Process : /\ canceller[p].pc = "idle" /\ consumer[p].pc = "idle"
                              /\ supervisor[p].list = {}
    BY DEF Init, Created, Stopping, NoCancel, Idle, SupIdle, SupAt
  <1>2. CreatedFirst /\ Redacted
    BY <1>1 DEF CreatedFirst, Redacted
  <1>3. AwaitsItsOwn /\ OneExecution /\ NothingLeft
    BY <1>1 DEF AwaitsItsOwn, OneExecution, NothingLeft, Late
  <1> QED BY <1>2, <1>3 DEF RunInv

\* Every step keeps the second invariant, and none completes a cancelled request.
LEMMA NextRunInv ==
    ASSUME IInv, RunInv, [Next]_vars
    PROVE  IInv' /\ RunInv' /\ Calm
  <1>1. /\ setup.procs \subseteq Process /\ setup.workers \subseteq Worker /\ setup.requests \subseteq Request
    BY TheSetup DEF IInv
  <1>2. IInv'
    BY NextIInv
  <1>3. ASSUME NEW p \in Process, NEW r \in Request, Submit(p, r) \/ PipelineSubmit(p, r) \/ CancelGet(p, r)
        PROVE  RunInv' /\ Calm
    BY <1>2, <1>3, SubmitRuns, PipelineSubmitRuns, CancelGetRuns
  <1>4. ASSUME NEW p \in Process, ConsumerStep(p)
        PROVE  RunInv' /\ Calm
    <2>1. CASE Take(p) \/ Requeue(p) \/ Handoff(p) \/ HandoffRaises(p) \/ Answer(p)
      BY <1>2, <2>1, TakeRuns, RequeueRuns, HandoffRuns, HandoffRaisesRuns, AnswerRuns
    <2>2. CASE AssignRaises(p) \/ Assign(p) \/ SaveAssigned(p) \/ SaveAssignedRaises(p) \/ PrepareRaises(p) \/ Prepare(p)
      BY <1>2, <2>2, AssignRaisesRuns, AssignRuns, SaveAssignedRuns, SaveAssignedRaisesRuns, PrepareRaisesRuns, PrepareRuns
    <2>3. CASE Commit(p) \/ GiveUp(p) \/ Collect(p) \/ CollectRaises(p)
      BY <1>2, <2>3, CommitRuns, GiveUpRuns, CollectRuns, CollectRaisesRuns
    <2> QED BY <1>4, <2>1, <2>2, <2>3 DEF ConsumerStep
  <1>5. ASSUME NEW p \in Process, SupervisorStep(p)
        PROVE  RunInv' /\ Calm
    BY <1>2, <1>5, SupLeaseRuns, SupRecoverRuns, SupWalkRuns, SupRequeuesRuns DEF SupervisorStep
  <1>6. ASSUME NEW p \in Process, CancelAct(p) \/ CancelSave(p)
        PROVE  RunInv' /\ Calm
    BY <1>2, <1>6, CancelActRuns, CancelSaveRuns
  <1>7. ASSUME NEW p \in Process, NEW w \in Worker, Register(p, w) \/ Heartbeat(p, w)
        PROVE  RunInv' /\ Calm
    BY <1>2, <1>7, RegistryRuns
  <1>8. ASSUME NEW w \in Worker, Start(w) \/ Finish(w) \/ Crash(w) \/ Shutdown(w) \/ Restart(w)
        PROVE  RunInv' /\ Calm
    BY <1>2, <1>8, StartRuns, FinishRuns, WorkerEndsRuns, TimeRuns
  <1>9. ASSUME (\E r \in Request : DeadlinePasses(r)) \/ LeaseExpires \/ UNCHANGED vars
        PROVE  RunInv' /\ Calm
    BY <1>2, <1>9, TimeRuns
  <1>10. Next => RunInv' /\ Calm
    BY <1>1, <1>3, <1>4, <1>5, <1>6, <1>7, <1>8, <1>9 DEF Next
  <1> QED BY <1>2, <1>9, <1>10

\* A request is executed once, unless recovery or the caller of a rejected
\* dispatch put it back into the queue, and recovery does so only with the
\* in-memory store: whatever is lost, crashes, or is cancelled meanwhile.
THEOREM RequestsRunOnce == Spec => []RunsOnceUnlessRequeued
  <1>1. ASSUME IInv, RunInv PROVE RunsOnceUnlessRequeued
    <2> SUFFICES ASSUME NEW r \in Request, runs[r] > 1
                 PROVE  <<r, "caller">> \in rerun \/ (setup.store = "memory" /\ <<r, "recovery">> \in rerun)
      BY DEF RunsOnceUnlessRequeued
    <2>1. runs[r] \in Nat /\ rerun \subseteq Request \X {"caller", "recovery"} /\ setup.store \in {"memory", "redis"}
      BY <1>1, SetupsAssumption DEF IInv, TypeOK, Setup
    <2>2. r \in Putback
      <3>1. r \notin Putback => runs[r] <= 1
        BY <1>1 DEF RunInv, OneExecution
      <3> QED BY <2>1, <3>1
    <2>3. <<r, "caller">> \in rerun \/ <<r, "recovery">> \in rerun
      BY <2>1, <2>2 DEF Putback
    <2>4. setup.store = "redis" => <<r, "recovery">> \notin rerun
      BY <1>1 DEF RunInv, Redacted
    <2> QED BY <2>1, <2>3, <2>4
  <1>2. Init => IInv /\ RunInv
    BY InitIInv, InitRunInv
  <1>3. IInv /\ RunInv /\ [Next]_vars => IInv' /\ RunInv'
    BY NextRunInv
  <1> QED BY <1>1, <1>2, <1>3, PTL DEF Spec

\* A confirmed cancellation is final: no record of the request becomes
\* COMPLETED afterwards, at a worker or at the caller that awaits it.
THEOREM CancellationIsFinal == Spec => CancelledNeverCompletes
  <1>1. Init => IInv /\ RunInv
    BY InitIInv, InitRunInv
  <1>2. IInv /\ RunInv /\ [Next]_vars => IInv' /\ RunInv'
    BY NextRunInv
  <1>3. IInv /\ RunInv /\ [Next]_vars =>
          [\A a \in DOMAIN heap :
             heap[a].req \in confirmed \ Putback' /\ heap[a].status # "completed" => heap'[a].status # "completed"]_vars
    BY NextRunInv DEF Calm, Stopping
  <1> QED BY <1>1, <1>2, <1>3, PTL DEF Spec, CancelledNeverCompletes

=============================================================================
