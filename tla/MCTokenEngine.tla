--------------------------- MODULE MCTokenEngine ---------------------------
(* Instances of TokenEngine for TLC. *)
EXTENDS TokenEngine, TLC

CONSTANTS a, b     \* the two requests

\* b's prompt extends a's, so a's cached prefix is a partial hit for b.
MCPrompt == a :> <<1, 2>> @@ b :> <<1, 2, 3>>

\* The gateway reserves with the exact prompt length.
MCEstimate == [r \in Request |-> Len(Prompt[r])]

\* Reservations made without it: too small for one request, too large for the other.
RoughEstimate == a :> 0 @@ b :> 5

MCMaxNew == [r \in Request |-> 2]

=============================================================================
