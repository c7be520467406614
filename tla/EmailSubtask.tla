---------------------------- MODULE EmailSubtask ----------------------------
(***************************************************************************)
(* The sending of one bulk course email by celery subtasks.                *)
(*                                                                         *)
(* A bulk email is one InstructorTask row.  Its recipients are split into  *)
(* chunks, one celery subtask per chunk.  A worker that receives a subtask *)
(* validates it against the row, takes the subtask's lock in the cache,    *)
(* mails its recipients one after the other, and writes the outcome back   *)
(* into the row; a temporary error makes it queue the rest as a retry of   *)
(* the same subtask.  The module starts where the row has been initialised *)
(* and every chunk queued; BulkEmailTask adds the parent task before that. *)
(*                                                                         *)
(* Source: lms/djangoapps/instructor_task/subtasks.py and                  *)
(* lms/djangoapps/bulk_email/tasks.py.                                     *)
(***************************************************************************)
EXTENDS Integers, FiniteSets

CONSTANTS
  SubtaskIds,        \* celery ids of the subtasks
  Recipients,        \* users the email is addressed to
  Chunk,             \* [SubtaskIds -> SUBSET Recipients]: to_list of each subtask
  Workers,           \* celery workers
  NoJob,             \* what an idle worker works on
  Free,              \* a lock key that is not in the cache
  Orphan,            \* a lock key whose worker has died
  MaxRetries,        \* BULK_EMAIL_MAX_RETRIES
  RetryCap,          \* BULK_EMAIL_INFINITE_RETRY_CAP
  MaxDbLockRetries,  \* MAX_DATABASE_LOCK_RETRIES
  Overlap,           \* may two workers hold deliveries of one subtask at once?
  Raising,           \* which of "retry" (queueing a retry) and "close" may raise
  MaxMailErrors,     \* bound: temporary errors of the mail server
  MaxRedeliveries,   \* bound: times the broker delivers a message again
  MaxDbErrors,       \* bound: DatabaseErrors while saving the row
  MaxCrashes         \* bound: workers that die

ASSUME SubtaskIdsAssumption == IsFiniteSet(SubtaskIds)
ASSUME RecipientsAssumption == IsFiniteSet(Recipients)
ASSUME ChunkAssumption == Chunk \in [SubtaskIds -> SUBSET Recipients]
ASSUME LockAssumption == Free \notin Workers /\ Orphan \notin Workers /\ Free # Orphan
ASSUME BoundsAssumption ==
  /\ MaxRetries \in Nat /\ RetryCap \in Nat /\ MaxDbLockRetries \in Nat \ {0}
  /\ MaxMailErrors \in Nat /\ MaxRedeliveries \in Nat
  /\ MaxDbErrors \in Nat /\ MaxCrashes \in Nat
  /\ Overlap \in BOOLEAN /\ Raising \subseteq {"retry", "close"}

VARIABLES
  entry,    \* the InstructorTask row
  queue,    \* messages in the broker
  pc, job,  \* what each worker is doing, and on which subtask
  lock,     \* the subtask locks in the cache, with the worker that added them
  optouts,  \* the Optout rows of the course
  sent,     \* history: how often the mail server accepted the mail to a user
  faults    \* the environment's faults so far

vars == <<entry, queue, pc, job, lock, optouts, sent, faults>>

-----------------------------------------------------------------------------
(* SubtaskStatus                                                           *)

States == {"QUEUING", "RETRY", "SUCCESS", "FAILURE"}
ReadyStates == {"SUCCESS", "FAILURE"}

SubtaskStatus == [succeeded : Nat, failed : Nat, skipped : Nat,
                  nomax : Nat, withmax : Nat, state : States]

NewStatus == [succeeded |-> 0, failed |-> 0, skipped |-> 0,
              nomax |-> 0, withmax |-> 0, state |-> "QUEUING"]

RetryCount(status) == status.nomax + status.withmax

Succeed(status)     == [status EXCEPT !.succeeded = @ + 1]
Fail(status, n)     == [status EXCEPT !.failed = @ + n]
Skip(status, n)     == [status EXCEPT !.skipped = @ + n]
FailUncounted(status, n) == [status EXCEPT !.state = "FAILURE"]  \* mutant
FailWith(status, n) == [status EXCEPT !.failed = @ + n, !.state = "FAILURE"]
RetryNoMax(status)  == [status EXCEPT !.nomax = @ + 1, !.state = "RETRY"]
RetryMax(status)    == [status EXCEPT !.withmax = @ + 1, !.state = "RETRY"]

-----------------------------------------------------------------------------
(* The row, the messages and the workers                                   *)

NoProgress == [valid |-> FALSE, succeeded |-> 0, failed |-> 0, skipped |-> 0]
ZeroProgress == [NoProgress EXCEPT !.valid = TRUE]

Progress == [valid : BOOLEAN, succeeded : Nat, failed : Nat, skipped : Nat]

Entry == [state : {"QUEUING", "PROGRESS", "SUCCESS", "FAILURE"},
          ids : SUBSET SubtaskIds, status : [SubtaskIds -> SubtaskStatus],
          succeeded : Nat, failed : Nat, progress : Progress]

InitializeSubtaskInfo(ids) ==
  [state |-> "PROGRESS", ids |-> ids, status |-> [s \in SubtaskIds |-> NewStatus],
   succeeded |-> 0, failed |-> 0, progress |-> ZeroProgress]

Message == [id : SubtaskIds, toList : SUBSET Recipients,
            status : SubtaskStatus, retries : Nat]

NewMessage(s) == [id |-> s, toList |-> Chunk[s], status |-> NewStatus, retries |-> 0]

Stages == {"idle", "check", "lock", "filter", "open", "send",
           "close", "update", "release", "retry"}
Continuations == {"end", "retry", "requeued", "unexpected"}

Faults == [mail : 0..MaxMailErrors, redelivered : 0..MaxRedeliveries,
           db : 0..MaxDbErrors, crashed : 0..MaxCrashes]
NoFaults == [mail |-> 0, redelivered |-> 0, db |-> 0, crashed |-> 0]

Job == [id : SubtaskIds, toList : SUBSET Recipients, numToSend : Nat,
        status : SubtaskStatus, retries : Nat, maxRetries : Nat,
        then : Continuations, depth : Nat]

NewJob(m) == [id |-> m.id, toList |-> m.toList, numToSend |-> Cardinality(m.toList),
              status |-> m.status, retries |-> m.retries, maxRetries |-> 0,
              then |-> "end", depth |-> 0]

Init ==
  /\ entry = InitializeSubtaskInfo(SubtaskIds)
  /\ queue = {NewMessage(s) : s \in SubtaskIds}
  /\ pc = [w \in Workers |-> "idle"]
  /\ job = [w \in Workers |-> NoJob]
  /\ lock = [s \in SubtaskIds |-> Free]
  /\ optouts \in SUBSET Recipients
  /\ sent = [r \in Recipients |-> 0]
  /\ faults = NoFaults

WorksOn(w, s) == pc[w] # "idle" /\ job[w].id = s

Goto(w, stage) == pc' = [pc EXCEPT ![w] = stage]
SetJob(w, j)   == job' = [job EXCEPT ![w] = j]
Finish(w)      == Goto(w, "idle") /\ SetJob(w, NoJob)

-----------------------------------------------------------------------------
(* Delivery.  A message the broker believes lost stays in the queue and is *)
(* delivered again, possibly while the first delivery is being worked on.  *)

Start(w, m) ==
  /\ pc[w] = "idle"
  /\ m \in queue
  /\ Overlap \/ \A v \in Workers : ~WorksOn(v, m.id)
  /\ Goto(w, "check")
  /\ SetJob(w, NewJob(m))
  /\ UNCHANGED <<entry, lock, optouts, sent>>

Deliver(w, m) == Start(w, m) /\ queue' = queue \ {m} /\ UNCHANGED faults

Redeliver(w, m) ==
  /\ faults.redelivered < MaxRedeliveries
  /\ Start(w, m)
  /\ faults' = [faults EXCEPT !.redelivered = @ + 1]
  /\ UNCHANGED queue

-----------------------------------------------------------------------------
(* check_subtask_is_valid: the row is read first, the lock taken after.    *)

\* Mutants: an earlier version, only a later version goes through.
IsValidEarlier(s, status) == s \in entry.ids /\ entry.status[s].state \notin ReadyStates
IsValidLater(s, status) ==
  /\ s \in entry.ids
  /\ entry.status[s].state \notin ReadyStates
  /\ entry.status[s].state = "RETRY" => RetryCount(status) > RetryCount(entry.status[s])

IsValid(s, status) ==
  LET recorded == entry.status[s] IN
  /\ s \in entry.ids
  /\ recorded.state \notin ReadyStates
  /\ recorded.state = "RETRY" => RetryCount(status) >= RetryCount(recorded)

CheckSubtaskIsValid(w) ==
  /\ pc[w] = "check"
  /\ IF IsValid(job[w].id, job[w].status)
       THEN Goto(w, "lock") /\ UNCHANGED job
       ELSE Finish(w)
  /\ UNCHANGED <<entry, queue, lock, optouts, sent, faults>>

CanAddAlways(s) == TRUE  \* mutant: the result of cache.add is not looked at
CanAdd(s) == lock[s] = Free

AcquireSubtaskLock(w) ==
  /\ pc[w] = "lock"
  /\ IF CanAdd(job[w].id)
       THEN /\ lock' = [lock EXCEPT ![job[w].id] = w]
            /\ Goto(w, "filter")
            /\ UNCHANGED job
       ELSE Finish(w) /\ UNCHANGED lock
  /\ UNCHANGED <<entry, queue, optouts, sent, faults>>

-----------------------------------------------------------------------------
(* _send_course_email                                                      *)

\* Save `status` in the row, then continue with `next`.
SaveThen(w, j, status, next) ==
  /\ Goto(w, "update")
  /\ SetJob(w, [j EXCEPT !.status = status, !.then = next, !.depth = 0])

\* The handler of exceptions nobody expected: all that was to be sent counts as failed.
Unexpected(w) ==
  SaveThen(w, job[w], FailWith(job[w].status, job[w].numToSend), "end")

WithOptouts(toList) == toList  \* mutant: the optouts are counted, not filtered
WithoutOptouts(toList) == toList \ optouts

FilterOptouts(w) ==
  LET j == job[w] IN
  /\ pc[w] = "filter"
  /\ Goto(w, "open")
  /\ IF RetryCount(j.status) = 0
       THEN SetJob(w, [j EXCEPT !.toList = WithoutOptouts(@),
                                !.status = Skip(@, Cardinality(j.toList \cap optouts))])
       ELSE UNCHANGED job
  /\ UNCHANGED <<entry, queue, lock, optouts, sent, faults>>

\* The CourseEmail, or later its template, cannot be loaded.
EmailMissing(w) ==
  /\ pc[w] \in {"filter", "open"}
  /\ Unexpected(w)
  /\ UNCHANGED <<entry, queue, lock, optouts, sent, faults>>

OpenConnection(w) ==
  /\ pc[w] = "open"
  /\ Goto(w, "send")
  /\ UNCHANGED <<entry, queue, job, lock, optouts, sent, faults>>

SendMessage(w, r) ==
  /\ pc[w] = "send"
  /\ r \in job[w].toList
  /\ sent' = [sent EXCEPT ![r] = @ + 1]
  /\ SetJob(w, [job[w] EXCEPT !.toList = @ \ {r}, !.status = Succeed(@)])
  /\ UNCHANGED <<entry, queue, pc, lock, optouts, faults>>

RecipientRefused(w, r) ==
  /\ pc[w] = "send"
  /\ r \in job[w].toList
  /\ SetJob(w, [job[w] EXCEPT !.toList = @ \ {r}, !.status = Fail(@, 1)])
  /\ UNCHANGED <<entry, queue, pc, lock, optouts, sent, faults>>

CloseThen(w, j, next) == Goto(w, "close") /\ SetJob(w, [j EXCEPT !.then = next])

SmallerOf(a, b) == IF a <= b THEN a ELSE b

LimitedMaxFlat(status) == MaxRetries  \* mutant: throttling counts as well
LimitedMax(status) == MaxRetries + status.nomax
CappedMax(status)  == SmallerOf(LimitedMax(status), RetryCap + status.withmax)

SubmitForRetry(w, status, maxRetries) ==
  /\ faults.mail < MaxMailErrors
  /\ faults' = [faults EXCEPT !.mail = @ + 1]
  /\ SaveThen(w, [job[w] EXCEPT !.maxRetries = maxRetries], status, "retry")

\* INFINITE_RETRY_ERRORS: raised by the server on a message it is given.
Throttled(w) ==
  LET status == RetryNoMax(job[w].status) IN
  /\ pc[w] = "send" /\ job[w].toList # {}
  /\ SubmitForRetry(w, status, CappedMax(status))
  /\ UNCHANGED <<entry, queue, lock, optouts, sent>>

\* LIMITED_RETRY_ERRORS and every exception not listed.
Disconnected(w) ==
  LET status == RetryMax(job[w].status) IN
  /\ pc[w] = "open" \/ (pc[w] = "send" /\ job[w].toList # {})
  /\ SubmitForRetry(w, status, LimitedMax(status))
  /\ UNCHANGED <<entry, queue, lock, optouts, sent>>

\* BULK_EMAIL_FAILURE_ERRORS
SendingImpossible(w) ==
  /\ pc[w] = "open" \/ (pc[w] = "send" /\ job[w].toList # {})
  /\ CloseThen(w, [job[w] EXCEPT !.status = FailWith(@, Cardinality(job[w].toList))], "end")
  /\ UNCHANGED <<entry, queue, lock, optouts, sent, faults>>

AllSent(w) ==
  /\ pc[w] = "send" /\ job[w].toList = {}
  /\ CloseThen(w, [job[w] EXCEPT !.status.state = "SUCCESS"], "end")
  /\ UNCHANGED <<entry, queue, lock, optouts, sent, faults>>

\* The `finally' of _send_course_email, after a retry has been queued too.
CloseConnection(w) ==
  /\ pc[w] = "close"
  /\ IF job[w].then = "requeued" THEN Finish(w)
                                 ELSE SaveThen(w, job[w], job[w].status, "end")
  /\ UNCHANGED <<entry, queue, lock, optouts, sent, faults>>

CloseRaises(w) ==
  /\ pc[w] = "close"
  /\ "close" \in Raising
  /\ Unexpected(w)
  /\ UNCHANGED <<entry, queue, lock, optouts, sent, faults>>

-----------------------------------------------------------------------------
(* update_subtask_status: each failed save recurses one level deeper, and  *)
(* every level deletes the lock on its way out.                            *)

Release(w, j) == Goto(w, "release") /\ SetJob(w, j)

AddAll(progress, status) ==  \* mutant: adds the counts of every attempt
  [progress EXCEPT !.succeeded = @ + status.succeeded,
                   !.failed    = @ + status.failed,
                   !.skipped   = @ + status.skipped]
AddProgress(progress, status) ==
  IF status.state \in ReadyStates
    THEN [progress EXCEPT !.succeeded = @ + status.succeeded,
                          !.failed    = @ + status.failed,
                          !.skipped   = @ + status.skipped]
    ELSE progress

AllDoneEarly(succeeded, failed) == Cardinality(entry.ids) - succeeded - failed <= 1  \* mutant
AllSucceeded(succeeded, failed) == Cardinality(entry.ids) - succeeded <= 0           \* mutant
AllDone(succeeded, failed) == Cardinality(entry.ids) - succeeded - failed <= 0

RecordStatus(s, status) ==
  LET succeeded == entry.succeeded + (IF status.state = "SUCCESS" THEN 1 ELSE 0)
      failed    == entry.failed + (IF status.state = "FAILURE" THEN 1 ELSE 0)
  IN  [entry EXCEPT
         !.status[s] = status,
         !.progress  = AddProgress(@, status),
         !.succeeded = succeeded,
         !.failed    = failed,
         !.state     = IF AllDone(succeeded, failed) THEN "SUCCESS" ELSE @]

\* Always so here; BulkEmailTask adds what happens when the parent has replaced the row.
CanRecord(s) == s \in entry.ids /\ entry.progress.valid

UpdateSubtaskStatus(w) ==
  /\ pc[w] = "update"
  /\ CanRecord(job[w].id)
  /\ entry' = RecordStatus(job[w].id, job[w].status)
  /\ Release(w, job[w])
  /\ UNCHANGED <<queue, lock, optouts, sent, faults>>

\* An exception inside _submit_for_retry reaches the handler in send_course_email.
Raised(j) == [j EXCEPT !.then = IF @ = "retry" THEN "unexpected" ELSE @]

UpdateDatabaseError(w) ==
  LET j == job[w] IN
  /\ pc[w] = "update"
  /\ faults.db < MaxDbErrors
  /\ faults' = [faults EXCEPT !.db = @ + 1]
  /\ IF j.depth + 1 < MaxDbLockRetries
       THEN SetJob(w, [j EXCEPT !.depth = @ + 1]) /\ UNCHANGED pc
       ELSE Release(w, Raised(j))
  /\ UNCHANGED <<entry, queue, lock, optouts, sent>>

Continue(w) ==
  \/ job[w].then = "end" /\ Finish(w)
  \/ job[w].then = "retry" /\ Goto(w, "retry") /\ UNCHANGED job
  \/ job[w].then = "unexpected" /\ Unexpected(w)

OutermostLate(j) == j.depth < 0  \* mutant: one level too many
Outermost(j) == j.depth = 0

KeptForRetry(w) ==  \* mutant: only a finished subtask is unlocked
  IF job[w].then = "retry" THEN lock ELSE [lock EXCEPT ![job[w].id] = Free]
Deleted(w) == [lock EXCEPT ![job[w].id] = Free]

ReleaseSubtaskLock(w) ==
  /\ pc[w] = "release"
  /\ lock' = Deleted(w)
  /\ IF Outermost(job[w])
       THEN Continue(w)
       ELSE SetJob(w, [job[w] EXCEPT !.depth = @ - 1]) /\ UNCHANGED pc
  /\ UNCHANGED <<entry, queue, optouts, sent, faults>>

-----------------------------------------------------------------------------
(* The retry itself, after the row has been saved.                         *)

\* celery refuses a retry beyond the max_retries it is called with
RetryAllowed(j) == j.retries + 1 <= j.maxRetries

RetryAll(j) ==  \* mutant: those already mailed stay on the list
  [id |-> j.id, toList |-> Chunk[j.id], status |-> j.status, retries |-> j.retries + 1]
RetryMessage(j) == [id |-> j.id, toList |-> j.toList,
                    status |-> j.status, retries |-> j.retries + 1]

Retry(w) ==
  /\ pc[w] = "retry"
  /\ RetryAllowed(job[w])
  /\ queue' = queue \cup {RetryMessage(job[w])}
  /\ CloseThen(w, job[w], "requeued")
  /\ UNCHANGED <<entry, lock, optouts, sent, faults>>

\* retry() raised.  The call that should count the remaining recipients as
\* failed is itself ill-typed and raises, so the outer handler is reached.
RetryRefused(w) ==
  /\ pc[w] = "retry"
  /\ "retry" \in Raising \/ ~RetryAllowed(job[w])
  /\ Unexpected(w)
  /\ UNCHANGED <<entry, queue, lock, optouts, sent, faults>>

-----------------------------------------------------------------------------
(* The environment                                                         *)

Crash(w) ==
  /\ pc[w] # "idle"
  /\ faults.crashed < MaxCrashes
  /\ faults' = [faults EXCEPT !.crashed = @ + 1]
  /\ Finish(w)
  /\ lock' = [s \in SubtaskIds |-> IF lock[s] = w THEN Orphan ELSE lock[s]]
  /\ UNCHANGED <<entry, queue, optouts, sent>>

\* SUBTASK_LOCK_EXPIRE is long enough for a live worker to finish.
LockExpires(s) ==
  /\ lock[s] = Orphan
  /\ lock' = [lock EXCEPT ![s] = Free]
  /\ UNCHANGED <<entry, queue, pc, job, optouts, sent, faults>>

OptOut(r) ==
  /\ r \notin optouts
  /\ optouts' = optouts \cup {r}
  /\ UNCHANGED <<entry, queue, pc, job, lock, sent, faults>>

-----------------------------------------------------------------------------
Sending(w) ==
  \/ FilterOptouts(w) \/ EmailMissing(w) \/ OpenConnection(w)
  \/ \E r \in Recipients : SendMessage(w, r) \/ RecipientRefused(w, r)
  \/ Throttled(w) \/ Disconnected(w) \/ SendingImpossible(w) \/ AllSent(w)
  \/ CloseConnection(w) \/ CloseRaises(w)

Saving(w) ==
  \/ UpdateSubtaskStatus(w) \/ UpdateDatabaseError(w)
  \/ ReleaseSubtaskLock(w) \/ Retry(w) \/ RetryRefused(w)

Work(w) == CheckSubtaskIsValid(w) \/ AcquireSubtaskLock(w) \/ Sending(w) \/ Saving(w)

Next ==
  \/ \E w \in Workers :
       \/ \E m \in queue : Deliver(w, m) \/ Redeliver(w, m)
       \/ Work(w)
       \/ Crash(w)
  \/ \E s \in SubtaskIds : LockExpires(s)
  \/ \E r \in Recipients : OptOut(r)

Spec == Init /\ [][Next]_vars

\* A worker that has received a subtask runs it, and an idle pool takes what is queued.
Fairness ==
  /\ \A w \in Workers : WF_vars(Work(w))
  /\ WF_vars(\E w \in Workers, m \in queue : Deliver(w, m))

FairSpec == Spec /\ Fairness
-----------------------------------------------------------------------------
(* Properties                                                              *)

Ready(s)  == entry.status[s].state \in ReadyStates
Closed(s) == s \in entry.ids /\ Ready(s)

\* The stages between taking the subtask's lock and the first release of it.
Holding(w) == \/ pc[w] \in {"filter", "open", "send", "update"}
              \/ pc[w] = "close" /\ job[w].then = "end"

TypeOK ==
  /\ entry \in Entry
  /\ queue \subseteq Message
  /\ pc \in [Workers -> Stages]
  /\ job \in [Workers -> Job \cup {NoJob}]
  /\ \A w \in Workers : pc[w] # "idle" => job[w] \in Job
  /\ lock \in [SubtaskIds -> Workers \cup {Free, Orphan}]
  /\ optouts \subseteq Recipients
  /\ sent \in [Recipients -> Nat]
  /\ faults \in Faults

\* No recipient is mailed twice, however often the broker redelivers a subtask
\* and wherever its retries, failed saves and failing calls fall, as long as the
\* deliveries of one subtask follow one another (check_subtask_is_valid,
\* update_subtask_status, the popping of to_list).
AtMostOnce == \A r \in Recipients : sent[r] <= 1

\* The two counters the row decides its completion by count the subtasks whose
\* recorded status is final: no subtask is counted twice, and the row is
\* SUCCESS exactly when all are done (_update_subtask_status).
LedgerAgrees ==
  LET With(state) == Cardinality({s \in entry.ids : entry.status[s].state = state}) IN
  /\ entry.succeeded = With("SUCCESS")
  /\ entry.failed = With("FAILURE")
  /\ entry.ids # {} /\ entry.state # "FAILURE" =>
       (entry.state = "SUCCESS" <=> \A s \in entry.ids : Ready(s))

\* The successes shown to the instructor are exactly the recipients of the
\* finished subtasks that the mail server accepted, across any number of
\* retries, redeliveries and failures after the sending (task_progress).
ProgressExact ==
  entry.progress.succeeded =
    Cardinality({r \in Recipients : sent[r] > 0
                                    /\ \E s \in entry.ids : Ready(s) /\ r \in Chunk[s]})

\* A finished subtask accounts for every recipient it was created with: each is
\* in a count of the recorded status (the failure paths of send_course_email
\* may count one twice, but none forgets one).
NobodyForgotten ==
  \A s \in entry.ids : Ready(s) =>
    LET status == entry.status[s] IN
    status.succeeded + status.failed + status.skipped >= Cardinality(Chunk[s])

\* Unless a worker has died, an unfinished subtask is never stranded: a worker is
\* on it, or a message is queued that check_subtask_is_valid will let through.
NotStranded ==
  \A s \in entry.ids :
    \/ Ready(s) \/ faults.crashed > 0
    \/ \E w \in Workers : WorksOn(w, s)
    \/ \E m \in queue : m.id = s /\ IsValid(s, m.status)

\* Every path out of the sending returns the lock: a lock is held by a worker
\* that is on the subtask, or by one that died.  A lock left behind would make
\* check_subtask_is_valid reject the subtask's own retry.
LocksReturned ==
  \A s \in SubtaskIds : lock[s] \in Workers => WorksOn(lock[s], s)

\* A retry is refused exactly when the limited errors have used up MaxRetries or
\* the throttling errors their cap: neither eats the budget of the other,
\* although celery keeps one count for both (_submit_for_retry).
RetryBudget ==
  \A w \in Workers : pc[w] = "retry" =>
    (RetryAllowed(job[w]) <=> /\ job[w].status.withmax <= MaxRetries
                              /\ job[w].status.nomax <= RetryCap)

\* While a worker sends a subtask's mails and saves the outcome, the subtask's
\* lock is its own, overlapping deliveries included.
LockExcludes == \A w \in Workers : Holding(w) => lock[job[w].id] = w

\* Nothing of r's subtasks has gone past the filter yet.
NotFiltered(r) ==
  /\ \A m \in queue : r \in Chunk[m.id] => RetryCount(m.status) = 0
  /\ \A w \in Workers : (pc[w] # "idle" /\ r \in Chunk[job[w].id]) =>
       pc[w] \in {"check", "lock", "filter"} /\ RetryCount(job[w].status) = 0

\* A user who opts out before the first attempt to send has reached the filter
\* is not mailed by any later attempt either, although retries filter nothing
\* (_filter_optouts_from_recipients).
OptoutHonoured ==
  \A r \in Recipients :
    [](r \in optouts /\ sent[r] = 0 /\ NotFiltered(r) => [](sent[r] = 0))

\* What the docstring of check_subtask_is_valid says, subtasks.py:361-365: a
\* subtask that has been completed is prevented from running again.
CompletedNeverRerun ==
  [][\A w \in Workers : pc[w] = "lock" /\ pc'[w] = "filter" => ~Ready(job[w].id)]_vars

\* Every email is eventually finished, when no worker dies and fewer saves fail than
\* update_subtask_status tries: after the last one nothing is recorded.
EventuallyFinished == <>(entry.state = "SUCCESS")
=============================================================================
