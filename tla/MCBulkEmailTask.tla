--------------------------- MODULE MCBulkEmailTask --------------------------
(* One bulk email to two recipients, in two lists of one.                    *)
EXTENDS BulkEmailTask, TLC

CONSTANTS r1, r2, w1, w2, NumRuns

MCRuns == 1..NumRuns
MCSubtaskIds == MCRuns \X (1..2)
MCChunk == [s \in SubtaskIds |-> IF s[2] = 1 THEN {r1} ELSE {r2}]

WorkerSymmetry == Permutations(Workers)
=============================================================================
