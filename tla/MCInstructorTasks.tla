------------------------- MODULE MCInstructorTasks -------------------------
(* InstructorTasks for a key whose tasks work alone and one with subtasks. *)
EXTENDS InstructorTasks
=============================================================================
