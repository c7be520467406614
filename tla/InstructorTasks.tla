-------------------------- MODULE InstructorTasks --------------------------
(***************************************************************************)
(* The rows of instructor tasks: how a request reserves a task and hands   *)
(* it to celery, how the task records its end, and what a request for its  *)
(* status reads, answers and saves.  What the tasks do to a course is left *)
(* out; a task with subtasks (a bulk email) leaves its row to them.        *)
(*                                                                         *)
(* Source: lms/djangoapps/instructor_task/api_helper.py, models.py,        *)
(* tasks_helper.py.  celery's result store and revocations are external.   *)
(***************************************************************************)
EXTENDS Integers

CONSTANTS
  Keys,            \* (course, task type, task key)
  DelegatingKeys,  \* the keys of tasks that define subtasks
  MaxTasks,        \* bound: rows that are created
  Requests,        \* web requests served at once
  MaxStatus,       \* bound: requests for a status
  MaxFaults        \* bound: refused submissions, dying workers, revocations, exceptions

ASSUME KeyAssumption == DelegatingKeys \subseteq Keys /\ Keys # {}
ASSUME BoundAssumption == MaxTasks \in Nat /\ MaxStatus \in Nat /\ MaxFaults \in Nat

VARIABLES
  row,       \* the InstructorTask of each id: key, task_state, whether subtasks are stored
  result,    \* state of the task in celery's result store
  run,       \* where the task is in the broker or a worker
  delegated, \* tasks that have queued a subtask for every id stored in their row
  req,       \* what each web request is doing, with what it has read
  done,      \* history: tasks whose work, that of their subtasks included, is complete
  answers,   \* history: states reported for tasks, and whether the row had changed meanwhile
  raced,     \* history: keys for which two requests had both seen no running task
  used       \* how much of the bounds is used up

vars == <<row, result, run, delegated, req, done, answers, raced, used>>

Tasks == 1..MaxTasks
READY_STATES == {"SUCCESS", "FAILURE", "REVOKED"}
Idle == [op |-> "idle"]

Created(t) == row[t].task_state # "none"
OfKey(k) == {t \in Tasks : Created(t) /\ row[t].key = k}

Init ==
  /\ row = [t \in Tasks |-> [key |-> CHOOSE k \in Keys : TRUE, task_state |-> "none",
                             subtasks |-> FALSE]]
  /\ result = [t \in Tasks |-> "PENDING"]
  /\ run = [t \in Tasks |-> "none"]
  /\ req = [r \in Requests |-> Idle]
  /\ delegated = {} /\ done = {} /\ answers = {} /\ raced = {}
  /\ used = [status |-> 0, faults |-> 0]

Fault ==
  /\ used.faults < MaxFaults
  /\ used' = [used EXCEPT !.faults = @ + 1]

-----------------------------------------------------------------------------
(* Submission.                                                             *)

\* Mutant: a task that waits in the queue does not count as running.
InProgress(k) == \E t \in OfKey(k) : row[t].task_state \notin READY_STATES \cup {"QUEUING"}

\* _task_is_running
TaskIsRunning(k) == \E t \in OfKey(k) : row[t].task_state \notin READY_STATES

\* _reserve_task: the check.
CheckRunning(r, k) ==
  /\ req[r] = Idle
  /\ ~TaskIsRunning(k)
  /\ req' = [req EXCEPT ![r] = [op |-> "checked", key |-> k]]
  /\ UNCHANGED <<row, result, run, delegated, done, answers, raced, used>>

\* InstructorTask.create commits the row, whoever has created one meanwhile.
CreateTask(r) ==
  LET k == req[r].key IN
  /\ req[r].op = "checked"
  /\ \E t \in Tasks :
       /\ ~Created(t) /\ \A u \in Tasks : u < t => Created(u)
       /\ row' = [row EXCEPT ![t] = [key |-> k, task_state |-> "QUEUING", subtasks |-> FALSE]]
       /\ req' = [req EXCEPT ![r] = [op |-> "created", task |-> t]]
  /\ raced' = IF \E q \in Requests \ {r} : req[q].op = "checked" /\ req[q].key = k
                THEN raced \cup {k} ELSE raced
  /\ UNCHANGED <<result, run, delegated, done, answers, used>>

\* apply_async with the id of the row.
ApplyAsync(r) ==
  /\ req[r].op = "created"
  /\ run' = [run EXCEPT ![req[r].task] = "queued"]
  /\ req' = [req EXCEPT ![r] = Idle]
  /\ UNCHANGED <<row, result, delegated, done, answers, raced, used>>

\* The broker refuses the message: the row stays as it was committed.
ApplyAsyncFails(r) ==
  /\ req[r].op = "created"
  /\ Fault
  /\ req' = [req EXCEPT ![r] = Idle]
  /\ UNCHANGED <<row, result, run, delegated, done, answers, raced>>

-----------------------------------------------------------------------------
(* Execution.                                                              *)

\* run_main_task; the row's state is not looked at.
Start(t) ==
  /\ run[t] = "queued"
  /\ run' = [run EXCEPT ![t] = "working"]
  /\ UNCHANGED <<row, result, delegated, req, done, answers, raced, used>>

\* perform_module_state_update reports its progress to the result store only.
ReportProgress(t) ==
  /\ run[t] = "working"
  /\ row[t].key \notin DelegatingKeys
  /\ result[t] = "PENDING"
  /\ result' = [result EXCEPT ![t] = "PROGRESS"]
  /\ UNCHANGED <<row, run, delegated, req, done, answers, raced, used>>

\* initialize_subtask_info
DefineSubtasks(t) ==
  /\ run[t] = "working"
  /\ row[t].key \in DelegatingKeys
  /\ ~row[t].subtasks
  /\ row' = [row EXCEPT ![t].task_state = "PROGRESS", ![t].subtasks = TRUE]
  /\ UNCHANGED <<result, run, delegated, req, done, answers, raced, used>>

\* queue_subtasks_for_query has queued the last list, and there was one for every id;
\* with recipients who left after they were counted there is not.
QueueLast(t) ==
  /\ run[t] = "working"
  /\ row[t].subtasks /\ t \notin delegated
  /\ delegated' = delegated \cup {t}
  /\ UNCHANGED <<row, result, run, req, done, answers, raced, used>>

\* The task function returns: celery stores the result, then calls on_success.
Return(t) ==
  /\ run[t] = "working"
  /\ row[t].key \in DelegatingKeys => row[t].subtasks
  /\ result' = [result EXCEPT ![t] = "SUCCESS"]
  /\ run' = [run EXCEPT ![t] = "returned"]
  /\ done' = IF row[t].key \in DelegatingKeys THEN done ELSE done \cup {t}
  /\ UNCHANGED <<row, delegated, req, answers, raced, used>>

\* Mutant: on_success does not look at the subtasks.
OnSuccessAlways(t) ==
  /\ run[t] = "returned"
  /\ run' = [run EXCEPT ![t] = "over"]
  /\ row' = [row EXCEPT ![t].task_state = "SUCCESS"]
  /\ UNCHANGED <<result, delegated, req, done, answers, raced, used>>

OnSuccess(t) ==
  /\ run[t] = "returned"
  /\ run' = [run EXCEPT ![t] = "over"]
  /\ row' = IF row[t].subtasks THEN row ELSE [row EXCEPT ![t].task_state = "SUCCESS"]
  /\ UNCHANGED <<result, delegated, req, done, answers, raced, used>>

\* Nothing is left to raise once the subtasks are queued (subtasks.py:312).
Raise(t) ==
  /\ run[t] = "working"
  /\ t \notin delegated
  /\ Fault
  /\ result' = [result EXCEPT ![t] = "FAILURE"]
  /\ run' = [run EXCEPT ![t] = "raised"]
  /\ UNCHANGED <<row, delegated, req, done, answers, raced>>

OnFailure(t) ==
  /\ run[t] = "raised"
  /\ run' = [run EXCEPT ![t] = "over"]
  /\ row' = [row EXCEPT ![t].task_state = "FAILURE"]
  /\ UNCHANGED <<result, delegated, req, done, answers, raced, used>>

\* The subtasks of all ids have finished, and the last one decides the row
\* (_update_subtask_status), wherever the task that queued them is by then: it may
\* still be in its worker, or dead.
FinishSubtasks(t) ==
  /\ t \in delegated
  /\ row[t].subtasks /\ row[t].task_state = "PROGRESS"
  /\ row' = [row EXCEPT ![t].task_state = "SUCCESS"]
  /\ done' = done \cup {t}
  /\ UNCHANGED <<result, run, delegated, req, answers, raced, used>>

\* The worker process dies; celery may store that it was lost.
Die(t) ==
  /\ run[t] \in {"working", "returned", "raised"}
  /\ Fault
  /\ run' = [run EXCEPT ![t] = "dead"]
  /\ result' \in {result, [result EXCEPT ![t] = "FAILURE"]}
  /\ UNCHANGED <<row, delegated, req, done, answers, raced>>

\* An operator revokes the task: it is discarded, or its worker is terminated.
Revoke(t) ==
  /\ run[t] \in {"queued", "working"}
  /\ Fault
  /\ run' = [run EXCEPT ![t] = "dead"]
  /\ result' = [result EXCEPT ![t] = "REVOKED"]
  /\ UNCHANGED <<row, delegated, req, done, answers, raced>>

-----------------------------------------------------------------------------
(* Status.                                                                 *)

AnswerOf(t, state, copy) == [task |-> t, state |-> state, fresh |-> copy = row[t]]

\* get_updated_instructor_task: a row in a ready state is the answer.
BeginStatus(r, t) ==
  /\ req[r] = Idle
  /\ Created(t)
  /\ used.status < MaxStatus
  /\ used' = [used EXCEPT !.status = @ + 1]
  /\ IF row[t].task_state \in READY_STATES
       THEN /\ answers' = answers \cup {AnswerOf(t, row[t].task_state, row[t])}
            /\ UNCHANGED req
       ELSE /\ req' = [req EXCEPT ![r] = [op |-> "read", task |-> t, copy |-> row[t]]]
            /\ UNCHANGED answers
  /\ UNCHANGED <<row, result, run, delegated, done, raced>>

\* The state is pulled out of the result first.
ReadState(r) ==
  /\ req[r].op = "read"
  /\ req' = [req EXCEPT ![r] = [op |-> "state", task |-> req[r].task, copy |-> req[r].copy,
                                state |-> result[req[r].task]]]
  /\ UNCHANGED <<row, result, run, delegated, done, answers, raced, used>>

SavedAlways(state) == TRUE  \* mutant: the row is saved whatever the result

\* Only the message of a revoked task is saved, with the rest of the row as read.
Saved(state) == state = "REVOKED"

\* An exception that was stored after the state PROGRESS was read cannot be written
\* as JSON: the request fails.
Unserializable(state, t) == state = "PROGRESS" /\ result[t] \in {"FAILURE", "REVOKED"}

\* _update_instructor_task with the result of the state that was read.
UpdateAndAnswer(r) ==
  LET t == req[r].task  copy == req[r].copy  state == req[r].state
      withSubtasks == copy.task_state = "PROGRESS" /\ copy.subtasks
  IN
  /\ req[r].op = "state"
  /\ req' = [req EXCEPT ![r] = Idle]
  /\ IF withSubtasks \/ Unserializable(state, t)
       THEN UNCHANGED row
       ELSE row' = IF Saved(state) THEN [row EXCEPT ![t] = [copy EXCEPT !.task_state = state]] ELSE row
  /\ answers' = IF ~withSubtasks /\ Unserializable(state, t) THEN answers
                ELSE answers \cup {AnswerOf(t, IF withSubtasks THEN "PROGRESS" ELSE state, copy)}
  /\ UNCHANGED <<result, run, delegated, done, raced, used>>

-----------------------------------------------------------------------------
Serve(r) == CreateTask(r) \/ ApplyAsync(r) \/ ReadState(r) \/ UpdateAndAnswer(r)
Execute(t) == Start(t) \/ ReportProgress(t) \/ DefineSubtasks(t) \/ QueueLast(t)
                \/ Return(t) \/ OnSuccess(t) \/ OnFailure(t)
Work(t) == Execute(t) \/ FinishSubtasks(t)

Next ==
  \/ \E r \in Requests : \/ Serve(r) \/ ApplyAsyncFails(r)
                         \/ \E k \in Keys : CheckRunning(r, k)
                         \/ \E t \in Tasks : BeginStatus(r, t)
  \/ \E t \in Tasks : Work(t) \/ Raise(t) \/ Die(t) \/ Revoke(t)

Spec == Init /\ [][Next]_vars

\* A request that was accepted is served, a task in the broker is taken and worked on.
\* Nothing is assumed about its subtasks.
Fairness == (\A r \in Requests : WF_vars(Serve(r))) /\ (\A t \in Tasks : WF_vars(Execute(t)))

FairSpec == Spec /\ Fairness

-----------------------------------------------------------------------------
States == READY_STATES \cup {"QUEUING", "PROGRESS"}

Rows == [key : Keys, task_state : States \cup {"none"}, subtasks : BOOLEAN]

\* The rows, results, requests and histories are well-formed.
TypeOK ==
  /\ row \in [Tasks -> Rows]
  /\ result \in [Tasks -> READY_STATES \cup {"PENDING", "PROGRESS"}]
  /\ run \in [Tasks -> {"none", "queued", "working", "returned", "raised", "over", "dead"}]
  /\ \A r \in Requests : req[r].op \in {"idle", "checked", "created", "read", "state"}
  /\ delegated \subseteq Tasks /\ done \subseteq Tasks /\ raced \subseteq Keys

\* A task in the broker, or in a worker with work left to do: when its subtasks have
\* done all of it, the worker of the task has only to return.
Alive(t) == run[t] \in {"queued", "working"} /\ t \notin done

\* Two tasks of one key have work left in the broker or in workers only after two
\* requests had seen none running, which the docstring of _reserve_task accepts: a row
\* becomes ready only when its task has left its worker or its subtasks have done all
\* its work, which may be before it has left (subtasks.py:538), whatever rows status
\* requests save.
OneRunPerKey ==
  \A t, u \in Tasks : Alive(t) /\ Alive(u) /\ row[t].key = row[u].key /\ t # u
                        => row[t].key \in raced

\* What a status request reports has happened: SUCCESS only of finished work, that of
\* the subtasks included; a failure or a revocation only of a task that left its worker
\* or had nothing left to do.  For a task with subtasks this needs that the row did not
\* change during the request.
AnswersTrue ==
  \A a \in answers : a.fresh \/ row[a.task].key \notin DelegatingKeys =>
    /\ a.state = "SUCCESS" => a.task \in done
    /\ a.state \in READY_STATES => ~Alive(a.task)

\* A task without subtasks that was recorded as ready stays as recorded, though
\* status requests save rows they read before (_update_instructor_task).
ReadyIsFinal ==
  [][\A t \in Tasks : row[t].task_state \in READY_STATES /\ row[t].key \notin DelegatingKeys
                        => row'[t] = row[t]]_vars

\* The task has returned and left its row to its subtasks.
LeftToSubtasks(t) == run[t] = "over" /\ row[t].subtasks

\* Without faults every reserved task ends in a ready state, which lets its key go, or
\* leaves its row to its subtasks (what becomes of that row is EventuallyDecided of
\* BulkEmailTask): no status request puts a row that was ready back.
EventuallyReady ==
  \A t \in Tasks : Created(t) ~> \/ row[t].task_state \in READY_STATES
                                  \/ LeftToSubtasks(t)
                                  \/ used.faults > 0
=============================================================================
