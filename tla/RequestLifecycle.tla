-------------------------- MODULE RequestLifecycle --------------------------
(***************************************************************************)
(* RequestRecord and its state machine (serving_platform/domain/models.py) *)
(* and what the stores keep of a record (serving_platform/request_state).  *)
(*                                                                         *)
(* A record is an object: the caller, the global queue and an in-process   *)
(* worker may hold the same one.  A store, and the wire, hold copies.  Of  *)
(* transition_timestamps only the question the code asks is kept: whether  *)
(* the record ever was RUNNING.                                            *)
(***************************************************************************)
EXTENDS Naturals, TLC

CONSTANTS Request, Worker, NoWorker

\* TERMINAL_REQUEST_STATES
Terminal == {"completed", "rejected", "timed_out", "cancelled", "failed"}

\* Mutant: no way back from ASSIGNED to QUEUED.
AllowedOneWay ==
    [s \in Terminal |-> {}] @@
    [admitted |-> {"queued"}, queued |-> {"assigned", "running", "cancelled", "failed", "timed_out"},
     assigned |-> {"running", "cancelled", "failed", "timed_out"},
     running |-> {"completed", "cancelled", "failed", "timed_out"}]

\* ALLOWED_REQUEST_TRANSITIONS
Allowed ==
    [received  |-> {"validated", "rejected", "cancelled"},
     validated |-> {"admitted", "rejected", "timed_out", "cancelled"},
     admitted  |-> {"queued", "assigned", "rejected", "timed_out", "cancelled"},
     queued    |-> {"assigned", "prefill", "running", "rejected", "timed_out",
                    "cancelled", "failed"},
     assigned  |-> {"queued", "prefill", "running", "timed_out", "cancelled", "failed"},
     running   |-> {"streaming", "completed", "timed_out", "cancelled", "failed"},
     prefill   |-> {"decode", "completed", "timed_out", "cancelled", "failed"},
     decode    |-> {"completed", "timed_out", "cancelled", "failed"},
     streaming |-> {"completed", "timed_out", "cancelled", "failed"},
     completed |-> {}, rejected |-> {}, timed_out |-> {}, cancelled |-> {}, failed |-> {}]

Record ==
    [req : Request, status : DOMAIN Allowed, worker : Worker \cup {NoWorker},
     attempts : Nat, payload : BOOLEAN, started : BOOLEAN]

\* A record that has just entered the global queue.
NewRecord(r) ==
    [req |-> r, status |-> "queued", worker |-> NoWorker,
     attempts |-> 0, payload |-> TRUE, started |-> FALSE]

IsTerminal(x) == x.status \in Terminal

\* transition: the record afterwards.
Transition(x, target) ==
    [x EXCEPT !.status = target, !.started = @ \/ target = "running"]

\* `if not terminal: transition(target)`, as every handler of a failure does.
EndIfOpen(x, target) == IF IsTerminal(x) THEN x ELSE Transition(x, target)

\* apply_request_dict: the caller's record takes over what a worker answered of
\* its own, without a look at the transition table.
Applied(x, answer) ==
    [x EXCEPT !.status = answer.status, !.worker = answer.worker, !.attempts = answer.attempts,
              !.payload = answer.payload, !.started = answer.started]

\* Mutant: the Redis store returns records as if it still had their prompt.
PersistedWithPrompt(store, x) == x

\* What a store returns for a record saved as x: the in-memory store a deep
\* copy, the Redis store a record whose prompt was redacted.
Persisted(store, x) == IF store = "redis" THEN [x EXCEPT !.payload = FALSE] ELSE x

=============================================================================
