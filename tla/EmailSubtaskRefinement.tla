----------------------- MODULE EmailSubtaskRefinement -----------------------
(* The workers, the lock and the row of EmailSubtask implement EmailDelivery *)
(* when the deliveries of one subtask do not overlap and no worker dies.     *)
EXTENDS EmailSubtask

Delivery == INSTANCE EmailDelivery
              WITH Subtasks <- SubtaskIds,
                   mailed <- sent,
                   closed <- {s \in SubtaskIds : Closed(s)},
                   done <- entry.state = "SUCCESS"

\* Each step of the detailed system is one mail that the server accepts, the
\* recording of one subtask's end in the row, or neither: retries, redeliveries,
\* refused retries and failing saves do nothing the abstract email does not.
ImplementsDelivery == Delivery!Spec
=============================================================================
