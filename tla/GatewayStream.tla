--------------------------- MODULE GatewayStream ---------------------------
(***************************************************************************)
(* The gateway's streaming route (apps/gateway/api.py, generate_stream and *)
(* cancel_request), the concurrency limiter and the stream tracker (apps/  *)
(* gateway/limits.py) and the part of the lifespan (apps/gateway/main.py)  *)
(* that closes streams.  Tokens come from the token engine, of which only  *)
(* the events it puts before a reader are kept (TokenEngine has the rest), *)
(* or from the worker's iterator where the gateway has no engine.          *)
(*                                                                         *)
(* Everything runs on one event loop, so a step is what happens between    *)
(* two suspensions.  The limiter's and the tracker's locks are never held  *)
(* across one: their operations do not suspend.  The body of a response is *)
(* a generator: it may be cancelled while it awaits an event, closed while *)
(* it stands at a yield, or never be started at all.                       *)
(***************************************************************************)
EXTENDS Naturals, Sequences, FiniteSets

CONSTANTS
    Stream,                  \* the streaming requests
    MaxConcurrentRequests,   \* max_concurrent_requests of the limiter
    MaxSequences,            \* max_active_sequences of the engine
    MaxTokens,               \* bound on the tokens of a stream
    Orphans                  \* TRUE: a response may be dropped before its body starts

ASSUME StreamAssumption ==
    /\ IsFiniteSet(Stream) /\ Orphans \in BOOLEAN
    /\ {MaxConcurrentRequests, MaxSequences, MaxTokens} \subseteq Nat

VARIABLES
    engine,          \* TRUE: state.token_engine is there
    pc,              \* per request: handler and body
    item,            \* per request: InferenceRequest.status
    record,          \* per request: the handler's own RequestRecord's status
    store,           \* per request: the status stored, "none" before create
    registered,      \* active_gateway_requests
    limiter,         \* ConcurrencyLimiter.active
    tracker,         \* StreamTracker: accepting, active and the event _idle
    sequence,        \* per request: "none", "active" in the engine, or "done"
    signalled,       \* sequences whose cancellation is set
    inbox,           \* per request: events of the source not yet read
    produced,        \* per request: tokens so far
    grace,           \* close of the tracker: "up", "waiting", "drained", "expired"
    closed,          \* the engine is shut down
    unfinished       \* history: bodies closed at a yield before the stream's end

sourceVars == <<sequence, signalled, inbox, produced>>
recordVars == <<record, store, registered>>
streamVars == <<engine, pc, item, recordVars, limiter, tracker, sourceVars, grace, closed, unfinished>>

Ended == {"COMPLETED", "FAILED", "TIMEOUT", "CANCELLED"}
StateFor == [COMPLETED |-> "completed", FAILED |-> "failed", TIMEOUT |-> "timed_out", CANCELLED |-> "cancelled"]
Terminal == {StateFor[s] : s \in Ended}
Live == {"validating", "sampling", "response", "orphaned",
         "await", "yield", "last", "error", "cancelling", "closing"}
Holders == {r \in Stream : pc[r] \in Live}

StreamInit ==
    /\ engine \in BOOLEAN
    /\ pc = [r \in Stream |-> "new"]
    /\ item = [r \in Stream |-> "RUNNING"]
    /\ record = [r \in Stream |-> "none"]
    /\ store = [r \in Stream |-> "none"]
    /\ registered = {}
    /\ limiter = 0
    /\ tracker = [accepting |-> TRUE, active |-> 0, idle |-> TRUE]
    /\ sequence = [r \in Stream |-> "none"]
    /\ signalled = {}
    /\ inbox = [r \in Stream |-> <<>>]
    /\ produced = [r \in Stream |-> 0]
    /\ grace = "up" /\ closed = FALSE
    /\ unfinished = {}

Goto(r, l) == pc' = [pc EXCEPT ![r] = l]

-----------------------------------------------------------------------------
(* The limiter and the tracker. *)

Started(t) == [t EXCEPT !.active = @ + 1, !.idle = FALSE]

Finished(t) == [t EXCEPT !.active = @ - 1, !.idle = t.active = 1]

\* limiter.release() and stream_tracker.finish()
GiveBack == limiter' = limiter - 1 /\ tracker' = Finished(tracker)

-----------------------------------------------------------------------------
(* The handler, up to the response. *)

\* Both reservations, or neither: up to the await of _validated.
Begin(r) ==
    /\ pc[r] = "new"
    /\ \/ /\ tracker.accepting /\ limiter < MaxConcurrentRequests
          /\ tracker' = Started(tracker) /\ limiter' = limiter + 1
          /\ Goto(r, "validating")
       \/ /\ ~tracker.accepting \/ limiter >= MaxConcurrentRequests
          /\ Goto(r, "rejected") /\ UNCHANGED <<tracker, limiter>>
    /\ UNCHANGED <<engine, item, recordVars, sourceVars, grace, closed, unfinished>>

\* The record is created and the response returned; its body has not begun.
Respond(r, state) ==
    /\ record' = [record EXCEPT ![r] = state]
    /\ store' = [store EXCEPT ![r] = state]
    /\ registered' = registered \cup {r}
    /\ Goto(r, "response")

Validated(r) ==
    /\ pc[r] = "validating"
    /\ IF engine THEN Goto(r, "sampling") /\ UNCHANGED recordVars
                 ELSE Respond(r, "running")
    /\ UNCHANGED <<engine, item, limiter, tracker, sourceVars, grace, closed, unfinished>>

\* validate_sampling returned: the engine reserves a sequence.
Sampled(r) ==
    /\ pc[r] = "sampling"
    /\ ~closed /\ Cardinality({q \in Stream : sequence[q] = "active"}) < MaxSequences
    /\ sequence' = [sequence EXCEPT ![r] = "active"]
    /\ Respond(r, "prefill")
    /\ UNCHANGED <<engine, item, limiter, tracker, signalled, inbox, produced, grace, closed, unfinished>>

\* Mutant: one of the except clauses forgets the limiter.
RaisesKeepsSlot(r) ==
    /\ pc[r] \in {"validating", "sampling"}
    /\ IF pc[r] = "sampling" THEN tracker' = Finished(tracker) /\ UNCHANGED limiter ELSE GiveBack
    /\ Goto(r, "rejected")
    /\ UNCHANGED <<engine, item, recordVars, sourceVars, grace, closed, unfinished>>

\* Validation fails, a stop token is unknown, the engine is full, shut down or
\* its backend unavailable, or the handler is cancelled at either await.
Raises(r) ==
    /\ pc[r] \in {"validating", "sampling"}
    /\ GiveBack
    /\ Goto(r, "rejected")
    /\ UNCHANGED <<engine, item, recordVars, sourceVars, grace, closed, unfinished>>

-----------------------------------------------------------------------------
(* The body. *)

Open(r) ==
    /\ pc[r] = "response" /\ Goto(r, "await")
    /\ UNCHANGED <<engine, item, recordVars, limiter, tracker, sourceVars, grace, closed, unfinished>>

\* The client left before the first chunk: the generator is dropped, and with
\* it its finally clause.
Orphan(r) ==
    /\ Orphans /\ pc[r] = "response" /\ Goto(r, "orphaned")
    /\ UNCHANGED <<engine, item, recordVars, limiter, tracker, sourceVars, grace, closed, unfinished>>

\* The first token takes the record to DECODE and saves it.
TakeToken(r) ==
    IF engine /\ item[r] = "CANCELLED"
    THEN UNCHANGED <<record, store, pc>>
    ELSE /\ record' = [record EXCEPT ![r] = IF @ = "prefill" THEN "decode" ELSE @]
         /\ store' = IF record[r] = "prefill" THEN [store EXCEPT ![r] = "decode"] ELSE store
         /\ Goto(r, "yield")

\* Mutant: a cancelled request's completion is skipped like its tokens.
ReceiveSkipping(r) ==
    /\ pc[r] = "await" /\ inbox[r] # <<>>
    /\ inbox' = [inbox EXCEPT ![r] = Tail(@)]
    /\ IF Head(inbox[r]) = "token" \/ item[r] = "CANCELLED"
       THEN TakeToken(r) /\ UNCHANGED item
       ELSE /\ item' = [item EXCEPT ![r] = Head(inbox[r])]
            /\ Goto(r, IF Head(inbox[r]) = "FAILED" THEN "error" ELSE "last")
            /\ UNCHANGED <<record, store>>
    /\ UNCHANGED <<engine, registered, limiter, tracker, sequence, signalled, produced, grace, closed, unfinished>>

\* A token, the end with its status, or the source's exception.
Receive(r) ==
    /\ pc[r] = "await" /\ inbox[r] # <<>>
    /\ inbox' = [inbox EXCEPT ![r] = Tail(@)]
    /\ IF Head(inbox[r]) = "token"
       THEN TakeToken(r) /\ UNCHANGED item
       ELSE /\ item' = [item EXCEPT ![r] = Head(inbox[r])]
            /\ Goto(r, IF Head(inbox[r]) = "FAILED" THEN "error" ELSE "last")
            /\ UNCHANGED <<record, store>>
    /\ UNCHANGED <<engine, registered, limiter, tracker, sequence, signalled, produced, grace, closed, unfinished>>

\* Mutant: the record is saved before its last transition.
FinishRecordEarly(r, x, status) ==
    LET final == IF status \in Ended /\ x \notin Terminal THEN StateFor[status] ELSE x IN
    /\ store' = [store EXCEPT ![r] = x]
    /\ registered' = IF final \in Terminal THEN registered \ {r} ELSE registered

\* _finish_platform_request for a record in state x: nothing but a save when
\* the status is not terminal.
FinishRecord(r, x, status) ==
    LET final == IF status \in Ended /\ x \notin Terminal THEN StateFor[status] ELSE x IN
    /\ store' = [store EXCEPT ![r] = final]
    /\ registered' = IF final \in Terminal THEN registered \ {r} ELSE registered

\* The finally clause, with the status the item has by then.
Finally(r, status) ==
    /\ GiveBack
    /\ FinishRecord(r, record[r], status)
    /\ item' = [item EXCEPT ![r] = status]
    /\ Goto(r, "done")
    /\ UNCHANGED <<engine, record, sequence, inbox, produced, grace, closed>>

\* The client has taken the chunk.
Sent(r) ==
    \/ /\ pc[r] \in {"yield", "error"}
       /\ Goto(r, IF pc[r] = "yield" THEN "await" ELSE "last")
       /\ UNCHANGED <<engine, item, recordVars, limiter, tracker, sourceVars, grace, closed, unfinished>>
    \/ /\ pc[r] = "last"
       /\ Finally(r, item[r]) /\ UNCHANGED <<signalled, unfinished>>

CancelItem(r) == IF item[r] \in Ended THEN item[r] ELSE "CANCELLED"

\* CancelledError at an await.  The engine's reader signals the sequence and
\* waits for its end; without an engine the body ends at once.
CancelAwait(r) ==
    /\ pc[r] = "await"
    /\ IF engine
       THEN /\ signalled' = signalled \cup {r}
            /\ Goto(r, "cancelling")
            /\ UNCHANGED <<engine, item, recordVars, limiter, tracker, sequence, inbox, produced, grace, closed>>
       ELSE Finally(r, CancelItem(r)) /\ UNCHANGED signalled
    /\ UNCHANGED unfinished

CancelDone(r) ==
    /\ pc[r] = "cancelling" /\ sequence[r] = "done"
    /\ Finally(r, CancelItem(r)) /\ UNCHANGED <<signalled, unfinished>>

\* The client is gone while a chunk is being sent: the generator is left at
\* its yield, and closed when it is collected, past every except clause.
CancelYield(r) ==
    /\ pc[r] \in {"yield", "last", "error"} /\ Goto(r, "closing")
    /\ UNCHANGED <<engine, item, recordVars, limiter, tracker, sourceVars, grace, closed, unfinished>>

CloseBody(r) ==
    /\ pc[r] = "closing"
    /\ Finally(r, item[r])
    /\ signalled' = IF engine THEN signalled \cup {r} ELSE signalled
    /\ unfinished' = IF item[r] \in Ended THEN unfinished ELSE unfinished \cup {r}

\* DELETE works on a copy of the stored record.
Delete(r) ==
    /\ store[r] \notin Terminal \cup {"none"} /\ r \in registered
    /\ signalled' = IF sequence[r] = "active" THEN signalled \cup {r} ELSE signalled
    /\ item' = [item EXCEPT ![r] = CancelItem(r)]
    /\ FinishRecord(r, store[r], CancelItem(r))
    /\ UNCHANGED <<engine, pc, record, limiter, tracker, sequence, inbox, produced, grace, closed, unfinished>>

-----------------------------------------------------------------------------
(* The source of tokens. *)

Producing(r) ==
    IF engine THEN sequence[r] = "active"
    ELSE pc[r] = "await" /\ inbox[r] = <<>>     \* next(iterator) runs in a thread meanwhile

Token(r) ==
    /\ Producing(r) /\ produced[r] < MaxTokens /\ r \notin signalled
    /\ produced' = [produced EXCEPT ![r] = @ + 1]
    /\ inbox' = [inbox EXCEPT ![r] = Append(@, "token")]
    /\ UNCHANGED <<engine, pc, item, recordVars, limiter, tracker, sequence, signalled, grace, closed, unfinished>>

\* The engine ends a signalled sequence as cancelled, any other as it likes;
\* the iterator ends, and the body looks at the clock, or it raises.
End(r) ==
    /\ Producing(r)
    /\ \E s \in IF r \in signalled THEN {"CANCELLED"} ELSE {"COMPLETED", "TIMEOUT", "FAILED"} :
          inbox' = [inbox EXCEPT ![r] = Append(@, s)]
    /\ sequence' = IF engine THEN [sequence EXCEPT ![r] = "done"] ELSE sequence
    /\ UNCHANGED <<engine, pc, item, recordVars, limiter, tracker, signalled, produced, grace, closed, unfinished>>

-----------------------------------------------------------------------------
(* Shutdown. *)

CloseTracker ==
    /\ grace = "up"
    /\ grace' = "waiting" /\ tracker' = [tracker EXCEPT !.accepting = FALSE]
    /\ UNCHANGED <<engine, pc, item, recordVars, limiter, sourceVars, closed, unfinished>>

GraceEnds ==
    /\ grace = "waiting"
    /\ \/ tracker.idle /\ grace' = "drained"
       \/ grace' = "expired"
    /\ UNCHANGED <<engine, pc, item, recordVars, limiter, tracker, sourceVars, closed, unfinished>>

\* The engine signals what is left and refuses further reservations.
ShutdownEngine ==
    /\ grace \in {"drained", "expired"} /\ engine /\ ~closed
    /\ closed' = TRUE
    /\ signalled' = signalled \cup {r \in Stream : sequence[r] = "active"}
    /\ UNCHANGED <<engine, pc, item, recordVars, limiter, tracker, sequence, inbox, produced, grace, unfinished>>

Handler(r) == Begin(r) \/ Validated(r) \/ Sampled(r) \/ Raises(r)
Body(r) == Open(r) \/ Receive(r) \/ Sent(r) \/ CancelDone(r) \/ CloseBody(r)
Source(r) == Token(r) \/ End(r)

StreamNext ==
    \/ \E r \in Stream :
          Handler(r) \/ Body(r) \/ Source(r) \/ Orphan(r) \/ CancelAwait(r) \/ CancelYield(r) \/ Delete(r)
    \/ CloseTracker \/ GraceEnds \/ ShutdownEngine

StreamSpec == StreamInit /\ [][StreamNext]_streamVars

\* The event loop runs what can run, the client reads on or disconnects, and
\* the engine and the iterator get to the end of every sequence.
FairSpec ==
    /\ StreamSpec
    /\ \A r \in Stream :
          /\ WF_streamVars(Handler(r)) /\ WF_streamVars(Open(r) \/ Orphan(r))
          /\ WF_streamVars(Receive(r) \/ Sent(r) \/ CancelDone(r) \/ CloseBody(r))
          /\ WF_streamVars(Source(r))

-----------------------------------------------------------------------------
(* Properties. *)

OpenStates == {"prefill", "decode", "running"}

StreamTypeOK ==
    /\ engine \in BOOLEAN /\ closed \in BOOLEAN
    /\ pc \in [Stream -> Live \cup {"new", "rejected", "done"}]
    /\ item \in [Stream -> Ended \cup {"RUNNING"}]
    /\ record \in [Stream -> OpenStates \cup {"none"}]
    /\ store \in [Stream -> OpenStates \cup Terminal \cup {"none"}]
    /\ registered \subseteq Stream /\ signalled \subseteq Stream /\ unfinished \subseteq Stream
    /\ limiter \in Nat
    /\ tracker \in [accepting : BOOLEAN, active : Nat, idle : BOOLEAN]
    /\ sequence \in [Stream -> {"none", "active", "done"}]
    /\ inbox \in [Stream -> Seq(Ended \cup {"token"})]
    /\ produced \in [Stream -> Nat]
    /\ grace \in {"up", "waiting", "drained", "expired"}

\* Slots and streams are held by the handlers and bodies that have not ended,
\* and by responses dropped before their body began; the event _idle is set
\* exactly when there is no stream, and no stream begins once close has.
SlotsAreHeld ==
    /\ limiter = Cardinality(Holders) /\ tracker.active = limiter
    /\ limiter <= MaxConcurrentRequests
    /\ tracker.idle <=> tracker.active = 0
    /\ grace # "up" => ~tracker.accepting
    /\ grace = "drained" => Holders = {}

\* A record exists from the response on, a body about to end knows its status,
\* and DELETE finds only requests whose stored record is open.
RecordsFollow ==
    \A r \in Stream :
        /\ pc[r] \in {"new", "rejected", "validating", "sampling"} <=> record[r] = "none"
        /\ record[r] = "none" <=> store[r] = "none"
        /\ pc[r] \in {"last", "error"} => item[r] \in Ended
        /\ r \in registered => store[r] \in OpenStates

\* No path through generate_stream gives a slot or a stream back twice or keeps
\* it (the release before a reservation raises RuntimeError), StreamTracker.close
\* returns True only when none is left, and records follow their streams.
StreamInv == StreamTypeOK /\ SlotsAreHeld /\ RecordsFollow

\* When a body has ended its request's record has too and DELETE no longer
\* finds it, unless the generator was closed at a yield before the end.
EndedIsRecorded ==
    \A r \in Stream : pc[r] = "done" /\ r \notin unfinished => store[r] \in Terminal /\ r \notin registered

\* Every stream that was let in ends and returns its slot, cancelled at any
\* point or not, unless its body never began.
StreamsEnd ==
    \A r \in Stream : pc[r] \in Live ~> pc[r] \notin Live \ {"orphaned"}

=============================================================================
