--------------------------- MODULE MCEmailSubtask ---------------------------
(* Small instances of EmailSubtask for TLC: a subtask of one recipient, or  *)
(* of two.                                                                  *)
EXTENDS EmailSubtaskRefinement, TLC

CONSTANTS s1, r1, r2, w1, w2, w3

OneRecipient == [s \in SubtaskIds |-> {r1}]

OneChunk == [s \in SubtaskIds |-> {r1, r2}]

\* Workers only hold locks and jobs: they are interchangeable.
WorkerSymmetry == Permutations(Workers)
=============================================================================
