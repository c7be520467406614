------------------------- MODULE MCProblemAttempts -------------------------
(* ProblemAttempts for one right and one wrong answer. *)
EXTENDS ProblemAttempts
=============================================================================
