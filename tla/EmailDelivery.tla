--------------------------- MODULE EmailDelivery ----------------------------
(***************************************************************************)
(* What the subtasks of a bulk email promise together: a recipient is      *)
(* mailed at most once, and only while the subtask that has them is open;  *)
(* a subtask is closed once; the email is done when the last one is.       *)
(***************************************************************************)
EXTENDS Naturals

CONSTANTS Subtasks, Recipients, Chunk

VARIABLES mailed, closed, done

vars == <<mailed, closed, done>>

Init ==
  /\ mailed = [r \in Recipients |-> 0]
  /\ closed = {}
  /\ done = FALSE

Mail(r) ==
  /\ mailed[r] = 0
  /\ \E s \in Subtasks \ closed : r \in Chunk[s]
  /\ mailed' = [mailed EXCEPT ![r] = 1]
  /\ UNCHANGED <<closed, done>>

Close(s) ==
  /\ s \notin closed
  /\ closed' = closed \cup {s}
  /\ done' = (closed' = Subtasks)
  /\ UNCHANGED mailed

Next == (\E r \in Recipients : Mail(r)) \/ (\E s \in Subtasks : Close(s))

Spec == Init /\ [][Next]_vars
=============================================================================
