--------------------------- MODULE BulkEmailTask ---------------------------
(***************************************************************************)
(* A bulk email from the delivery of its parent task on.                   *)
(*                                                                         *)
(* The parent task stores the ids of the subtasks in the InstructorTask    *)
(* row, then queues them one by one; the workers of EmailSubtask may       *)
(* start on the first before the last is queued.  When the parent raises,  *)
(* celery calls on_failure, which reads the row, marks it as failed and    *)
(* saves all of it.  The broker may deliver the parent again.              *)
(*                                                                         *)
(* Source: lms/djangoapps/bulk_email/tasks.py,                             *)
(* lms/djangoapps/instructor_task/subtasks.py and tasks_helper.py.         *)
(***************************************************************************)
EXTENDS EmailSubtask, Sequences

CONSTANTS
  Runs,            \* deliveries of the parent task
  NumChunks,       \* number of lists the recipients are cut into
  RaiseAt,         \* the stages of the parent that may raise an exception
  MaxParentCrashes \* bound: parent runs that die

ASSUME RunsAssumption == NumChunks \in Nat \ {0} /\ SubtaskIds = Runs \X (1..NumChunks)
ASSUME RaiseAssumption == RaiseAt \subseteq {"check", "init", "queue"}

VARIABLES
  stage,     \* where each run of the parent task is
  queued,    \* how many subtasks each run has queued
  snapshot   \* the row as on_failure of each run has read it

parentVars == <<stage, queued, snapshot>>
allVars == <<vars, parentVars>>

ParentStages == {"absent", "check", "init", "queue", "return", "failed", "save", "end", "dead"}

\* The row InstructorTask.create has saved.
NewEntry == [InitializeSubtaskInfo({}) EXCEPT !.state = "QUEUING", !.progress = NoProgress]

TaskInit ==
  /\ entry = NewEntry
  /\ queue = {}
  /\ pc = [w \in Workers |-> "idle"]
  /\ job = [w \in Workers |-> NoJob]
  /\ lock = [s \in SubtaskIds |-> Free]
  /\ optouts = {}
  /\ sent = [r \in Recipients |-> 0]
  /\ faults = NoFaults
  /\ stage = [p \in Runs |-> "absent"]
  /\ queued = [p \in Runs |-> 0]
  /\ snapshot = [p \in Runs |-> NewEntry]

-----------------------------------------------------------------------------
Proceed(p, to) == stage' = [stage EXCEPT ![p] = to]

\* A delivery of the parent begins when none before it is running.
ParentStarts(p) ==
  /\ stage[p] = "absent"
  /\ \A q \in Runs : stage[q] \in {"absent", "end", "dead"}
  /\ Proceed(p, "check")
  /\ UNCHANGED <<vars, queued, snapshot>>

NeverDefined == FALSE  \* mutant: the row is not looked at
AlreadyDefined == entry.ids # {}

\* perform_delegate_email_batches returns at once when the row has subtasks.
ParentChecks(p) ==
  /\ stage[p] = "check"
  /\ Proceed(p, IF AlreadyDefined THEN "return" ELSE "init")
  /\ UNCHANGED <<vars, queued, snapshot>>

IdsExceptLast(p) == {p} \X (1..NumChunks - 1)  \* mutant: one id too few
IdsOf(p) == {p} \X (1..NumChunks)

ParentInitializes(p) ==
  /\ stage[p] = "init"
  /\ entry' = InitializeSubtaskInfo(IdsOf(p))
  /\ Proceed(p, "queue")
  /\ UNCHANGED <<queue, pc, job, lock, optouts, sent, faults, queued, snapshot>>

ParentQueues(p) ==
  LET k == queued[p] + 1 IN
  /\ stage[p] = "queue"
  /\ queue' = queue \cup {NewMessage(<<p, k>>)}
  /\ queued' = [queued EXCEPT ![p] = k]
  /\ IF k = NumChunks THEN Proceed(p, "return") ELSE UNCHANGED stage
  /\ UNCHANGED <<entry, pc, job, lock, optouts, sent, faults, snapshot>>

\* Recipients who left after they were counted: the generator ends before every id has
\* its list.  A first list there is, or the query raises (see SubtaskQueueing).
ParentRunsOut(p) ==
  /\ stage[p] = "queue"
  /\ queued[p] > 0
  /\ Proceed(p, "return")
  /\ UNCHANGED <<vars, queued, snapshot>>

\* on_success leaves a row with subtasks alone; one without any cannot get here.
ParentReturns(p) ==
  /\ stage[p] = "return"
  /\ Proceed(p, "end")
  /\ UNCHANGED <<vars, queued, snapshot>>

MayRaiseLate(p) == stage[p] \in RaiseAt \cup {"return"}  \* mutant: after the last is queued
MayRaise(p) == stage[p] \in RaiseAt

ParentRaises(p) ==
  /\ MayRaise(p)
  /\ Proceed(p, "failed")
  /\ UNCHANGED <<vars, queued, snapshot>>

OnFailureReads(p) ==
  /\ stage[p] = "failed"
  /\ snapshot' = [snapshot EXCEPT ![p] = entry]
  /\ Proceed(p, "save")
  /\ UNCHANGED <<vars, queued>>

\* Mutants: only the output is replaced; the state is the one celery had before.
FailedOutput(e) == [e EXCEPT !.progress = NoProgress]
FailedRetrying(e) == [e EXCEPT !.state = "RETRY", !.progress = NoProgress]
Failed(e) == [e EXCEPT !.state = "FAILURE", !.progress = NoProgress]

OnFailureSaves(p) ==
  /\ stage[p] = "save"
  /\ entry' = Failed(snapshot[p])
  /\ Proceed(p, "end")
  /\ UNCHANGED <<queue, pc, job, lock, optouts, sent, faults, queued, snapshot>>

ParentDies(p) ==
  /\ stage[p] \notin {"absent", "end", "dead"}
  /\ Cardinality({q \in Runs : stage[q] = "dead"}) < MaxParentCrashes
  /\ Proceed(p, "dead")
  /\ UNCHANGED <<vars, queued, snapshot>>

\* A subtask of a row that lost its ids or its progress: recording the outcome raises.
UpdateImpossible(w) ==
  /\ pc[w] = "update"
  /\ ~CanRecord(job[w].id)
  /\ Release(w, Raised(job[w]))
  /\ UNCHANGED <<entry, queue, lock, optouts, sent, faults, parentVars>>

-----------------------------------------------------------------------------
ParentWorks(p) ==
  \/ ParentChecks(p) \/ ParentInitializes(p)
  \/ ParentQueues(p) \/ ParentRunsOut(p) \/ ParentReturns(p)
  \/ ParentRaises(p) \/ OnFailureReads(p) \/ OnFailureSaves(p)

TaskNext ==
  \/ Next /\ UNCHANGED parentVars
  \/ \E w \in Workers : UpdateImpossible(w)
  \/ \E p \in Runs : ParentStarts(p) \/ ParentWorks(p) \/ ParentDies(p)

TaskSpec == TaskInit /\ [][TaskNext]_allVars

ParentIsDelivered == \E p \in Runs : ParentStarts(p) /\ \A q \in Runs : stage[q] = "absent"

\* The parent is delivered once at least, and runs as the subtasks do.  Nothing is
\* assumed about a second delivery, of the parent or of a subtask.
TaskFairness ==
  /\ WF_allVars(ParentIsDelivered)
  /\ \A p \in Runs : WF_allVars(ParentWorks(p))
  /\ \A w \in Workers : WF_allVars((Work(w) /\ UNCHANGED parentVars) \/ UpdateImpossible(w))
  /\ WF_allVars((\E w \in Workers, m \in queue : Deliver(w, m)) /\ UNCHANGED parentVars)

FairTaskSpec == TaskSpec /\ TaskFairness

-----------------------------------------------------------------------------
TaskTypeOK ==
  /\ TypeOK
  /\ stage \in [Runs -> ParentStages]
  /\ queued \in [Runs -> 0..NumChunks]
  /\ snapshot \in [Runs -> Entry]

\* SUCCESS means that everybody's subtask has finished, although subtasks finish
\* while the parent is still queueing: initialize_subtask_info stores all ids
\* before the first is queued.
SuccessComplete ==
  entry.state = "SUCCESS" =>
    Recipients = UNION {Chunk[s] : s \in {i \in entry.ids : Ready(i)}}

\* on_failure of a delivery that did not define the subtasks of the row: it raised
\* before it saw that they were defined (tasks.py:164-184).
UndoneBy(p) ==
  /\ stage[p] = "save"
  /\ entry.ids # IdsOf(p)
  /\ entry'.ids = entry.ids /\ entry'.state = "FAILURE"

\* The delivery that queued the subtasks never takes back what they decided: it raises
\* only while one is not queued yet, whatever the workers have done meanwhile, so that
\* a success ends only by a later delivery that raises before line 193 looks at the
\* row.  A failed row with ids stays failed: neither the subtasks queued before nor
\* another delivery of the parent revive it (subtasks.py:312, tasks.py:186-196).
DecidedIsFinal ==
  [][/\ entry.state = "SUCCESS" => entry'.state = "SUCCESS" \/ \E p \in Runs : UndoneBy(p)
     /\ entry.state = "FAILURE" /\ entry.ids # {} => entry'.state = "FAILURE"]_allVars

\* Ids of the row for which no subtask was queued, by a parent that has returned: they
\* keep the row in PROGRESS (subtasks.py:279-283 counts before 305 cuts the lists).
IdsLeftOver ==
  /\ entry.progress.valid
  /\ \E p \in Runs : stage[p] = "end" /\ entry.ids = IdsOf(p) /\ queued[p] < NumChunks

\* Every bulk email ends in SUCCESS or FAILURE for good, wherever the parent raises
\* and however often it is delivered, unless a parent has died or recipients left
\* while it was cutting the lists.
EventuallyDecided ==
  <>[](\/ entry.state \in {"SUCCESS", "FAILURE"}
       \/ IdsLeftOver
       \/ \E p \in Runs : stage[p] = "dead")
=============================================================================
