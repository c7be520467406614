------------------------- MODULE MCSubtaskQueueing -------------------------
(* SubtaskQueueing on a handful of primary keys. *)
EXTENDS SubtaskQueueing

CONSTANT MaxKey

MCKeys == 1..MaxKey
=============================================================================
