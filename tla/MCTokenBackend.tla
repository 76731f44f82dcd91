--------------------------- MODULE MCTokenBackend ---------------------------
(* Instances of TokenBackend for TLC. *)
EXTENDS TokenBackend, TLC

CONSTANTS a, b

\* b's prompt extends a's: rows of unequal length, and a prefix to resume.
MCPrompt == (a :> <<1, 2>>) @@ (b :> <<1, 2, 3>>)

=============================================================================
