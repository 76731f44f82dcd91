--------------------------- MODULE MCControlPlane ---------------------------
(* Instances of ControlPlane for TLC. *)
EXTENDS ControlPlane

CONSTANTS p1, p2, w1, w2, r1, r2

\* One process with the in-memory store, workers in process or behind HTTP; two
\* processes that share a Redis store, a lease and an HTTP worker; the pipeline.
InProcess ==
    [store |-> "memory", transport |-> "local", caller |-> "consumer",
     procs |-> {p1}, workers |-> {w1, w2}, requests |-> {r1}, events |-> 2]
Remote == [InProcess EXCEPT !.transport = "http", !.workers = {w1}]
Shared == [Remote EXCEPT !.store = "redis", !.procs = {p1, p2}]
Pipeline == [InProcess EXCEPT !.caller = "pipeline", !.requests = {r1, r2}, !.workers = {w1}]

AllSetups == {InProcess, Remote, Shared, Pipeline}

=============================================================================
