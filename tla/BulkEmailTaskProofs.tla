------------------------ MODULE BulkEmailTaskProofs ------------------------
(***************************************************************************)
(* The parent task and its subtasks on one row, for any number of runs of  *)
(* the parent, of subtasks, recipients and workers, whatever stages raise  *)
(* and wherever parents and workers die.                                   *)
(***************************************************************************)
EXTENDS BulkEmailTask, EmailSubtaskProofs

-----------------------------------------------------------------------------
(* The invariants                                                            *)

\* A run of the parent that has begun and not ended.
Live(p) == stage[p] \notin {"absent", "end", "dead"}

\* One run of the parent at a time, with a subtask left while it queues; the row has
\* the ids of one run or none, and keeps them while on_failure holds a copy.
ParentInv ==
  /\ \A p, q \in Runs : Live(p) /\ Live(q) => p = q
  /\ \A p \in Runs : /\ stage[p] \in {"absent", "check", "init"} => queued[p] = 0
                     /\ stage[p] = "init" => entry.ids = {}
                     /\ stage[p] = "queue" => queued[p] < NumChunks /\ entry.ids = IdsOf(p)
                     /\ stage[p] = "save" => snapshot[p].ids = entry.ids
  /\ entry.ids = {} \/ \E p \in Runs : entry.ids = IdsOf(p)
  /\ entry.ids = {} => entry.state # "SUCCESS"
  /\ entry.state = "FAILURE" => ~entry.progress.valid

\* The subtasks that have been queued.
QueuedIds == {s \in SubtaskIds : s[2] <= queued[s[1]]}

\* The state recorded of s in the row e is final.
ReadyIn(e, s) == e.status[s].state \in ReadyStates

\* Only what was queued is delivered, mailed or recorded, and only of the run whose ids
\* the row has.
QueuedInv ==
  /\ ListInv
  /\ \A p \in Runs : /\ queued[p] > 0 => entry.ids = IdsOf(p)
                     /\ stage[p] = "save" =>
                          \A s \in SubtaskIds : ReadyIn(snapshot[p], s) => s \in QueuedIds
  /\ \A m \in queue : m.id \in QueuedIds
  /\ \A w \in Workers : pc[w] # "idle" => job[w].id \in QueuedIds
  /\ \A s \in SubtaskIds : Ready(s) => s \in QueuedIds
  /\ \A r \in Recipients : sent[r] > 0 => \E s \in QueuedIds : r \in Chunk[s]

\* The stages at which a worker may still record an outcome.
Pending(at, j) == \/ at \in {"lock", "filter", "open", "send", "close", "update", "retry"}
                  \/ at = "release" /\ j.then # "end"

\* What is saved before a retry is a retry.
Savable(j) == j.then = "end" \/ (j.then = "retry" /\ j.status.state = "RETRY")

\* A subtask with an outcome still to come is one worker's, and not recorded as final.
PendingInv ==
  /\ \A v, w \in Workers : pc[v] # "idle" /\ pc[w] # "idle" /\ job[v].id = job[w].id => v = w
  /\ \A w \in Workers : Pending(pc[w], job[w]) => ~Ready(job[w].id)
  /\ \A w \in Workers : pc[w] = "update" => Savable(job[w])

\* The counters and the state of the row e are those of its statuses.
WithIn(e, state) == {s \in e.ids : e.status[s].state = state}
LedgerOf(e) ==
  /\ \A s \in SubtaskIds \ e.ids : ~ReadyIn(e, s)
  /\ e.succeeded = Cardinality(WithIn(e, "SUCCESS"))
  /\ e.failed = Cardinality(WithIn(e, "FAILURE"))
  /\ e.ids # {} /\ e.state # "FAILURE" => (e.state = "SUCCESS" <=> \A s \in e.ids : ReadyIn(e, s))

\* The row and the copies that on_failure holds agree with themselves, and a copy is not ahead.
RowsInv ==
  /\ LedgerOf(entry)
  /\ \A p \in Runs : stage[p] = "save" =>
       /\ LedgerOf(snapshot[p])
       /\ \A s \in SubtaskIds : ReadyIn(snapshot[p], s) => Ready(s)

\* A parent that failed has a subtask left to queue.
FailedInv ==
  \A p \in Runs : stage[p] \in {"failed", "save"} => queued[p] < NumChunks

\* The stages at which a worker may still mail to its list or hand it to a retry.
Sends(at, j) == \/ at \in {"check", "lock", "filter", "open", "send", "retry"}
                \/ at \in {"update", "release"} /\ j.then = "retry"

\* A list of s nobody on which has been mailed, after these mails.
Fresh(mails, s, list) == list \subseteq Chunk[s] /\ \A r \in list : mails[r] = 0

\* Each subtask's list is in one place, and nobody on it has been mailed.
TokenInv ==
  /\ \A m, n \in queue : m.id = n.id => m = n
  /\ \A m \in queue : Fresh(sent, m.id, m.toList)
  /\ \A w \in Workers : Sends(pc[w], job[w]) =>
       /\ Fresh(sent, job[w].id, job[w].toList)
       /\ \A m \in queue : m.id # job[w].id
       /\ \A v \in Workers : Sends(pc[v], job[v]) /\ job[v].id = job[w].id => v = w
  /\ AtMostOnce

-----------------------------------------------------------------------------
(* What one step does to the row, the messages, the mails and one worker     *)

Receives(w) ==
  /\ pc[w] = "idle" /\ pc'[w] = "check" /\ UNCHANGED <<entry, sent>>
  /\ \E m \in queue : /\ job'[w] = NewJob(m)
                      /\ queue' = queue \ {m} \/ (queue' = queue /\ MaxRedeliveries # 0)
                      /\ Overlap \/ \A v \in Workers : ~WorksOn(v, m.id)
Stops(w) == pc'[w] = "idle" /\ UNCHANGED <<entry, queue, sent>>
Records(w) ==
  /\ pc[w] = "update" /\ CanRecord(job[w].id) /\ UNCHANGED <<queue, sent>>
  /\ entry' = RecordStatus(job[w].id, job[w].status)
  /\ pc'[w] = "release" /\ job'[w] = job[w]
Requeues(w) ==
  /\ pc[w] = "retry" /\ UNCHANGED <<entry, sent>>
  /\ queue' = queue \cup {RetryMessage(job[w])}
  /\ pc'[w] = "close" /\ job'[w].id = job[w].id /\ job'[w].toList = job[w].toList
Mails(w) ==
  /\ pc[w] = "send" /\ pc'[w] = "send" /\ UNCHANGED <<entry, queue>>
  /\ job'[w].id = job[w].id
  /\ \E r \in job[w].toList : /\ job'[w].toList = job[w].toList \ {r}
                              /\ sent' = [sent EXCEPT ![r] = @ + 1]
GoesOn(w) ==
  /\ pc[w] # "idle" /\ pc'[w] # "idle" /\ UNCHANGED <<entry, queue, sent>>
  /\ job'[w].id = job[w].id /\ job'[w].toList \subseteq job[w].toList
  /\ Pending(pc'[w], job'[w]) => Pending(pc[w], job[w]) \/ ~Ready(job[w].id)
  /\ Sends(pc'[w], job'[w]) => Sends(pc[w], job[w])
  /\ pc'[w] = "update" =>
       Savable(job'[w]) \/ (pc[w] = "update" /\ (Savable(job[w]) => Savable(job'[w])))

Turn(w) ==
  /\ OnlyMoves(w)
  /\ \/ Receives(w) \/ Stops(w) \/ Records(w) \/ Requeues(w) \/ Mails(w) \/ GoesOn(w)

\* A saving that cannot succeed keeps everything but what follows, which is no retry.
LEMMA RaisedFields ==
  ASSUME NEW j \in Job
  PROVE  /\ Raised(j) \in Job /\ Raised(j).id = j.id /\ Raised(j).toList = j.toList
         /\ Raised(j).status = j.status /\ Raised(j).then # "retry"
         /\ Raised(j).then = "end" => j.then = "end"
<1> DEFINE next == IF j.then = "retry" THEN "unexpected" ELSE j.then
<1>1. next \in Continuations /\ next # "retry" /\ (next = "end" => j.then = "end")
  BY DEF Continuations, Job
<1>2. Raised(j) = [j EXCEPT !.then = next]  BY DEF Raised
<1> HIDE DEF next
<1>3. [j EXCEPT !.then = next].then = next  BY JobFields
<1> QED BY <1>1, <1>2, <1>3, JobType, JobFields

\* Recording that raises, in a row that lost the subtask or its progress.
LEMMA RaisedTurn ==
  ASSUME TypeOK, NEW w \in Workers, pc[w] = "update", Release(w, Raised(job[w])),
         UNCHANGED <<entry, queue, sent>>
  PROVE  Turn(w)
<1>1. WorkersOK /\ job[w] \in Job  BY DEF TypeOK, WorkersOK
<1>2. OnlyMoves(w) /\ pc'[w] = "release" /\ job'[w] = Raised(job[w])
  BY <1>1, JobMove DEF Release
<1>3. Pending(pc[w], job[w]) /\ ~Sends(pc'[w], job'[w])
  BY <1>1, <1>2, RaisedFields DEF Pending, Sends
<1> QED BY <1>1, <1>2, <1>3, RaisedFields DEF Turn, GoesOn

\* Every step of a worker is a turn.
LEMMA WorkTurns ==
  ASSUME TypeOK, NEW w \in Workers, Work(w)
  PROVE  Turn(w)
<1>a. WorkersOK  BY DEF TypeOK, WorkersOK
<1>c. pc[w] # "idle"
  BY DEF Work, CheckSubtaskIsValid, AcquireSubtaskLock, Sending, FilterOptouts, EmailMissing,
         OpenConnection, SendMessage, RecipientRefused, Throttled, Disconnected,
         SendingImpossible, AllSent, CloseConnection, CloseRaises, Saving,
         UpdateSubtaskStatus, UpdateDatabaseError, ReleaseSubtaskLock, Retry, RetryRefused
<1>d. /\ job[w] \in Job /\ job[w].status \in SubtaskStatus
      /\ job[w].toList \in SUBSET Recipients /\ Cardinality(job[w].toList) \in Nat
  BY <1>a, <1>c, JobType, LengthType DEF WorkersOK
<1>e. ASSUME UNCHANGED <<entry, queue, sent>>, Finish(w) PROVE Turn(w)
  BY <1>e, <1>a, FinishMove DEF Turn, Stops
<1>f. ASSUME UNCHANGED <<entry, queue, sent>>, Unexpected(w), Pending(pc[w], job[w]) PROVE Turn(w)
  <2>1. /\ OnlyMoves(w) /\ pc'[w] = "update" /\ job'[w].id = job[w].id
        /\ job'[w].toList = job[w].toList /\ job'[w].then = "end"
    BY <1>a, <1>c, <1>f, UnexpectedMove
  <2> QED BY <2>1, <1>c, <1>f DEF Turn, GoesOn, Sends, Savable
<1>1. CASE CheckSubtaskIsValid(w)
  <2>1. CASE IsValid(job[w].id, job[w].status)
    <3>1. OnlyMoves(w) /\ pc'[w] = "lock" /\ job'[w] = job[w]
      BY <1>1, <2>1, <1>a, GotoMove DEF CheckSubtaskIsValid
    <3>2. ~Ready(job[w].id)  BY <2>1 DEF IsValid, Ready
    <3> QED BY <3>1, <3>2, <1>1, <1>c DEF CheckSubtaskIsValid, Turn, GoesOn, Sends
  <2>2. CASE ~IsValid(job[w].id, job[w].status)
    BY <2>2, <1>1, <1>e DEF CheckSubtaskIsValid
  <2> QED BY <2>1, <2>2
<1>2. CASE AcquireSubtaskLock(w)
  <2>1. CASE CanAdd(job[w].id)
    <3>1. OnlyMoves(w) /\ pc'[w] = "filter" /\ job'[w] = job[w]
      BY <1>2, <2>1, <1>a, GotoMove DEF AcquireSubtaskLock
    <3> QED BY <3>1, <1>2, <1>c DEF AcquireSubtaskLock, Turn, GoesOn, Sends, Pending
  <2>2. CASE ~CanAdd(job[w].id)
    BY <2>2, <1>2, <1>e DEF AcquireSubtaskLock
  <2> QED BY <2>1, <2>2
<1>3. CASE FilterOptouts(w)
  <2>1. /\ OnlyMoves(w) /\ pc'[w] = "open" /\ job'[w].id = job[w].id
        /\ job'[w].toList \subseteq job[w].toList
    BY <1>3, <1>a, FilterMove
  <2>2. pc[w] = "filter" /\ UNCHANGED <<entry, queue, sent>>  BY <1>3 DEF FilterOptouts
  <2> QED BY <2>1, <2>2 DEF Turn, GoesOn, Sends, Pending
<1>4. CASE EmailMissing(w)
  BY <1>4, <1>f DEF EmailMissing, Pending
<1>5. CASE OpenConnection(w)
  <2>1. OnlyMoves(w) /\ pc'[w] = "send" /\ job'[w] = job[w]
    BY <1>5, <1>a, GotoMove DEF OpenConnection
  <2>2. pc[w] = "open" /\ UNCHANGED <<entry, queue, sent>>  BY <1>5 DEF OpenConnection
  <2> QED BY <2>1, <2>2 DEF Turn, GoesOn, Sends, Pending
<1>6. ASSUME NEW r \in Recipients, SendMessage(w, r) PROVE Turn(w)
  <2>1. /\ OnlyMoves(w) /\ pc[w] = "send" /\ pc'[w] = "send" /\ job'[w].id = job[w].id
        /\ job'[w].toList = job[w].toList \ {r}
    BY <1>6, <1>a, SendMove
  <2>2. r \in job[w].toList /\ sent' = [sent EXCEPT ![r] = @ + 1] /\ UNCHANGED <<entry, queue>>
    BY <1>6 DEF SendMessage
  <2> QED BY <2>1, <2>2 DEF Turn, Mails
<1>7. ASSUME NEW r \in Recipients, RecipientRefused(w, r) PROVE Turn(w)
  <2>1. /\ OnlyMoves(w) /\ pc[w] = "send" /\ pc'[w] = "send" /\ job'[w].id = job[w].id
        /\ job'[w].toList = job[w].toList \ {r}
    BY <1>7, <1>a, SendMove
  <2>2. UNCHANGED <<entry, queue, sent>>  BY <1>7 DEF RecipientRefused
  <2> QED BY <2>1, <2>2 DEF Turn, GoesOn, Sends, Pending
<1>8. CASE Throttled(w) \/ Disconnected(w)
  <2>1. PICK new \in {RetryNoMax(job[w].status), RetryMax(job[w].status)} :
          \E n \in {CappedMax(new), LimitedMax(new)} : SubmitForRetry(w, new, n)
    BY <1>8 DEF Throttled, Disconnected
  <2>2. PICK n \in {CappedMax(new), LimitedMax(new)} : SubmitForRetry(w, new, n)  BY <2>1
  <2>3. pc[w] \in {"open", "send"} /\ UNCHANGED <<entry, queue, sent>>
    BY <1>8 DEF Throttled, Disconnected
  <2>4. new \in SubtaskStatus /\ n \in Nat
    BY <2>1, <2>2, <1>d, StatusType, LimitType
  <2>5. new.state = "RETRY"
    <3>1. 0 \in Nat  OBVIOUS
    <3> QED BY <3>1, <2>1, <1>d, CountFields
  <2>6. /\ OnlyMoves(w) /\ pc'[w] = "update" /\ job'[w].id = job[w].id
        /\ job'[w].toList = job[w].toList /\ job'[w].status = new /\ job'[w].then = "retry"
    BY <2>2, <2>3, <2>4, <1>a, SubmitMove
  <2> QED BY <2>3, <2>5, <2>6 DEF Turn, GoesOn, Sends, Pending, Savable
<1>9. CASE SendingImpossible(w) \/ AllSent(w)
  <2>1. /\ pc[w] \in {"open", "send"} /\ UNCHANGED <<entry, queue, sent>>
        /\ \E st \in {FailWith(job[w].status, Cardinality(job[w].toList)),
                      [job[w].status EXCEPT !.state = "SUCCESS"]} :
             CloseThen(w, [job[w] EXCEPT !.status = st], "end")
    <3>1. CASE SendingImpossible(w)  BY <3>1 DEF SendingImpossible
    <3>2. CASE AllSent(w)  BY <3>2 DEF AllSent
    <3> QED BY <3>1, <3>2, <1>9
  <2>2. PICK st \in {FailWith(job[w].status, Cardinality(job[w].toList)),
                    [job[w].status EXCEPT !.state = "SUCCESS"]} :
          CloseThen(w, [job[w] EXCEPT !.status = st], "end")
    BY <2>1
  <2>3. st \in SubtaskStatus
    <3>1. FailWith(job[w].status, Cardinality(job[w].toList)) \in SubtaskStatus
      BY <1>d, StatusType
    <3>2. [job[w].status EXCEPT !.state = "SUCCESS"] \in SubtaskStatus
      <4>1. 0 \in Nat  OBVIOUS
      <4> QED BY <4>1, <1>d, StatusType
    <3> QED BY <3>1, <3>2
  <2> DEFINE j == [job[w] EXCEPT !.status = st]
  <2>4. j \in Job /\ j.id = job[w].id /\ j.toList = job[w].toList
    BY <1>d, <2>3, JobType, JobFields
  <2>5. CloseThen(w, j, "end")  BY <2>2
  <2> HIDE DEF j
  <2>6. /\ OnlyMoves(w) /\ pc'[w] = "close" /\ job'[w].id = j.id /\ job'[w].then = "end"
        /\ job'[w].toList = j.toList
    BY <2>4, <2>5, <1>a, CloseMove DEF Continuations
  <2> QED BY <2>1, <2>4, <2>6 DEF Turn, GoesOn, Sends, Pending
<1>10. CASE CloseConnection(w)
  <2>1. CASE job[w].then = "requeued"
    BY <2>1, <1>10, <1>e DEF CloseConnection
  <2>2. CASE job[w].then # "requeued"
    <3>1. pc[w] = "close" /\ SaveThen(w, job[w], job[w].status, "end")
          /\ UNCHANGED <<entry, queue, sent>>
      BY <2>2, <1>10 DEF CloseConnection
    <3>2. /\ OnlyMoves(w) /\ pc'[w] = "update" /\ job'[w].id = job[w].id
          /\ job'[w].toList = job[w].toList /\ job'[w].then = "end"
      BY <3>1, <1>a, <1>d, SaveMove DEF Continuations
    <3> QED BY <3>1, <3>2 DEF Turn, GoesOn, Sends, Pending, Savable
  <2> QED BY <2>1, <2>2
<1>11. CASE CloseRaises(w)
  BY <1>11, <1>f DEF CloseRaises, Pending
<1>12. CASE UpdateSubtaskStatus(w)
  <2>1. OnlyMoves(w) /\ pc'[w] = "release" /\ job'[w] = job[w]
    BY <1>12, <1>a, JobMove DEF UpdateSubtaskStatus, Release
  <2> QED BY <2>1, <1>12 DEF UpdateSubtaskStatus, Turn, Records
<1>13. CASE UpdateDatabaseError(w)
  <2>1. pc[w] = "update" /\ UNCHANGED <<entry, queue, sent>>  BY <1>13 DEF UpdateDatabaseError
  <2>2. CASE job[w].depth + 1 < MaxDbLockRetries
    <3> DEFINE j == [job[w] EXCEPT !.depth = @ + 1]
    <3>1. SetJob(w, j) /\ UNCHANGED pc  BY <2>2, <1>13 DEF UpdateDatabaseError
    <3>2. /\ j.id = job[w].id /\ j.toList = job[w].toList /\ j.status = job[w].status
          /\ j.then = job[w].then
      BY <1>d, JobFields
    <3> HIDE DEF j
    <3>3. OnlyMoves(w) /\ pc'[w] = pc[w] /\ job'[w] = j  BY <3>1, <1>a, SameStageMove
    <3> QED BY <3>2, <3>3, <2>1 DEF Turn, GoesOn, Sends, Pending, Savable
  <2>3. CASE ~(job[w].depth + 1 < MaxDbLockRetries)
    <3>1. Release(w, Raised(job[w]))  BY <2>3, <1>13 DEF UpdateDatabaseError
    <3> QED BY <3>1, <2>1, RaisedTurn
  <2> QED BY <2>2, <2>3
<1>14. CASE ReleaseSubtaskLock(w)
  <2>1. pc[w] = "release" /\ UNCHANGED <<entry, queue, sent>>  BY <1>14 DEF ReleaseSubtaskLock
  <2>2. CASE Outermost(job[w])
    <3>1. Continue(w)  BY <2>2, <1>14 DEF ReleaseSubtaskLock
    <3>2. CASE job[w].then = "end" /\ Finish(w)  BY <3>2, <2>1, <1>e
    <3>3. CASE job[w].then = "retry" /\ Goto(w, "retry") /\ UNCHANGED job
      <4>1. OnlyMoves(w) /\ pc'[w] = "retry" /\ job'[w] = job[w]  BY <3>3, <1>a, GotoMove
      <4> QED BY <4>1, <3>3, <2>1 DEF Turn, GoesOn, Sends, Pending
    <3>4. CASE job[w].then = "unexpected" /\ Unexpected(w)
      BY <3>4, <2>1, <1>f DEF Pending
    <3> QED BY <3>1, <3>2, <3>3, <3>4 DEF Continue
  <2>3. CASE ~Outermost(job[w])
    <3> DEFINE j == [job[w] EXCEPT !.depth = @ - 1]
    <3>1. SetJob(w, j) /\ UNCHANGED pc  BY <2>3, <1>14 DEF ReleaseSubtaskLock
    <3>2. /\ j.id = job[w].id /\ j.toList = job[w].toList /\ j.then = job[w].then
      BY <1>d, JobFields
    <3> HIDE DEF j
    <3>3. OnlyMoves(w) /\ pc'[w] = pc[w] /\ job'[w] = j  BY <3>1, <1>a, SameStageMove
    <3> QED BY <3>2, <3>3, <2>1 DEF Turn, GoesOn, Sends, Pending
  <2> QED BY <2>2, <2>3
<1>15. CASE Retry(w)
  <2>1. /\ OnlyMoves(w) /\ pc'[w] = "close" /\ job'[w].id = job[w].id
        /\ job'[w].toList = job[w].toList
    BY <1>15, <1>a, <1>d, CloseMove DEF Retry, Continuations
  <2> QED BY <2>1, <1>15 DEF Retry, Turn, Requeues
<1>16. CASE RetryRefused(w)
  BY <1>16, <1>f DEF RetryRefused, Pending
<1>17. CASE Sending(w)
  BY <1>17, <1>3, <1>4, <1>5, <1>6, <1>7, <1>8, <1>9, <1>10, <1>11 DEF Sending
<1>18. CASE Saving(w)
  BY <1>18, <1>12, <1>13, <1>14, <1>15, <1>16 DEF Saving
<1> QED BY <1>1, <1>2, <1>17, <1>18 DEF Work

\* Every step of the workers and their environment is a turn, or of the locks and optouts.
LEMMA NextTurns ==
  ASSUME TypeOK, [Next]_vars
  PROVE  (\E w \in Workers : Turn(w)) \/ UNCHANGED <<entry, queue, pc, job, sent>>
<1>a. WorkersOK /\ faults \in Faults  BY DEF TypeOK, WorkersOK
<1>1. ASSUME NEW w \in Workers, NEW m \in queue, Deliver(w, m) \/ Redeliver(w, m)
      PROVE  Turn(w)
  <2>1. Start(w, m)  BY <1>1 DEF Deliver, Redeliver
  <2>2. OnlyMoves(w) /\ pc'[w] = "check" /\ job'[w] = NewJob(m)
    BY <2>1, <1>a, JobMove DEF Start
  <2>3. queue' = queue \ {m} \/ (queue' = queue /\ MaxRedeliveries # 0)
    BY <1>1, <1>a, BoundsAssumption DEF Deliver, Redeliver, Faults
  <2> QED BY <2>1, <2>2, <2>3 DEF Start, Turn, Receives
<1>2. ASSUME NEW w \in Workers, Crash(w) PROVE Turn(w)
  BY <1>2, <1>a, FinishMove DEF Crash, Turn, Stops
<1> QED BY <1>1, <1>2, WorkTurns DEF Next, LockExpires, OptOut, vars

\* A run of the parent, or one of its ends.
Parent(p) == ParentStarts(p) \/ ParentWorks(p) \/ ParentDies(p)

\* Every step of the whole is a turn, a step of the parent, or of the locks and optouts.
LEMMA TaskTurns ==
  ASSUME TypeOK, [TaskNext]_allVars
  PROVE  \/ (\E w \in Workers : Turn(w)) /\ UNCHANGED parentVars
         \/ UNCHANGED <<entry, queue, pc, job, sent, parentVars>>
         \/ \E p \in Runs : Parent(p)
<1>1. ASSUME NEW w \in Workers, UpdateImpossible(w) PROVE Turn(w) /\ UNCHANGED parentVars
  BY <1>1, RaisedTurn DEF UpdateImpossible
<1> QED BY <1>1, NextTurns DEF TaskNext, allVars, vars, Parent

-----------------------------------------------------------------------------
(* Rows and ids                                                              *)

\* A row whose subtasks have just been stored.
LEMMA StoredRow ==
  ASSUME NEW ids \in SUBSET SubtaskIds
  PROVE  LET e == InitializeSubtaskInfo(ids) IN
         /\ e \in Entry /\ e.ids = ids /\ e.state = "PROGRESS" /\ e.progress.valid
         /\ e.succeeded = 0 /\ e.failed = 0 /\ \A s \in SubtaskIds : ~ReadyIn(e, s)
<1> DEFINE e == InitializeSubtaskInfo(ids)
<1>1. ZeroProgress \in Progress /\ ZeroProgress.valid
  BY DEF ZeroProgress, NoProgress, Progress
<1>2. e \in Entry  BY <1>1, NewStatusType DEF InitializeSubtaskInfo, Entry
<1>3. /\ e.ids = ids /\ e.state = "PROGRESS" /\ e.progress.valid
      /\ e.succeeded = 0 /\ e.failed = 0
  BY <1>1 DEF InitializeSubtaskInfo
<1>4. ASSUME NEW s \in SubtaskIds PROVE ~ReadyIn(e, s)
  BY DEF InitializeSubtaskInfo, ReadyIn, ReadyStates, NewStatus
<1> QED BY <1>2, <1>3, <1>4

\* The row before any parent has run.
LEMMA FirstRow ==
  /\ NewEntry \in Entry /\ NewEntry.ids = {} /\ NewEntry.state = "QUEUING"
  /\ NewEntry.succeeded = 0 /\ NewEntry.failed = 0
  /\ \A s \in SubtaskIds : ~ReadyIn(NewEntry, s)
<1> DEFINE e == InitializeSubtaskInfo({})
           e1 == [e EXCEPT !.state = "QUEUING"]
<1>1. /\ e \in Entry /\ e.ids = {} /\ e.succeeded = 0 /\ e.failed = 0
      /\ \A s \in SubtaskIds : ~ReadyIn(e, s)
  BY StoredRow
<1>2. NoProgress \in Progress  BY DEF NoProgress, Progress
<1>3. NewEntry = [e1 EXCEPT !.progress = NoProgress]  BY DEF NewEntry
<1> HIDE DEF e
<1>4. /\ e1 \in Entry /\ e1.ids = e.ids /\ e1.succeeded = e.succeeded /\ e1.failed = e.failed
      /\ e1.status = e.status /\ e1.state = "QUEUING"
  BY <1>1 DEF Entry
<1> HIDE DEF e1
<1>5. /\ NewEntry \in Entry /\ NewEntry.ids = e1.ids /\ NewEntry.succeeded = e1.succeeded
      /\ NewEntry.failed = e1.failed /\ NewEntry.status = e1.status /\ NewEntry.state = e1.state
  BY <1>2, <1>3, <1>4 DEF Entry
<1> QED BY <1>1, <1>4, <1>5 DEF ReadyIn

\* What on_failure makes of the copy it has read.
LEMMA FailedRow ==
  ASSUME NEW e \in Entry
  PROVE  /\ Failed(e) \in Entry /\ Failed(e).ids = e.ids /\ Failed(e).status = e.status
         /\ Failed(e).succeeded = e.succeeded /\ Failed(e).failed = e.failed
         /\ Failed(e).state = "FAILURE" /\ Failed(e).progress.valid = FALSE
<1> DEFINE e1 == [e EXCEPT !.state = "FAILURE"]
<1>1. NoProgress \in Progress /\ NoProgress.valid = FALSE  BY DEF NoProgress, Progress
<1>2. Failed(e) = [e1 EXCEPT !.progress = NoProgress]  BY DEF Failed
<1>3. /\ e1 \in Entry /\ e1.ids = e.ids /\ e1.succeeded = e.succeeded /\ e1.failed = e.failed
      /\ e1.status = e.status /\ e1.state = "FAILURE"
  BY DEF Entry
<1> HIDE DEF e1
<1>4. /\ Failed(e) \in Entry /\ Failed(e).ids = e1.ids /\ Failed(e).status = e1.status
      /\ Failed(e).succeeded = e1.succeeded /\ Failed(e).failed = e1.failed
      /\ Failed(e).state = e1.state /\ Failed(e).progress = NoProgress
  BY <1>1, <1>2, <1>3 DEF Entry
<1> QED BY <1>1, <1>3, <1>4

\* Each run has ids, its own.
LEMMA OwnIds ==
  /\ \A p \in Runs : IdsOf(p) # {} /\ IdsOf(p) \subseteq SubtaskIds
  /\ \A p, q \in Runs : IdsOf(p) = IdsOf(q) => p = q
  /\ \A p \in Runs, k \in 1..NumChunks : <<p, k>> \in IdsOf(p)
  /\ \A s \in SubtaskIds : /\ s[1] \in Runs /\ s[2] \in 1..NumChunks
                           /\ s = <<s[1], s[2]>> /\ s \in IdsOf(s[1])
<1>1. 1 \in 1..NumChunks  BY RunsAssumption
<1>2. ASSUME NEW p \in Runs PROVE <<p, 1>> \in IdsOf(p)  BY <1>1 DEF IdsOf
<1>3. ASSUME NEW p \in Runs, NEW q \in Runs, IdsOf(p) = IdsOf(q) PROVE p = q
  BY <1>2, <1>3 DEF IdsOf
<1>4. \A p \in Runs : IdsOf(p) \subseteq SubtaskIds  BY RunsAssumption DEF IdsOf
<1>5. \A p \in Runs, k \in 1..NumChunks : <<p, k>> \in IdsOf(p)  BY DEF IdsOf
<1>6. ASSUME NEW s \in SubtaskIds
      PROVE  /\ s[1] \in Runs /\ s[2] \in 1..NumChunks
             /\ s = <<s[1], s[2]>> /\ s \in IdsOf(s[1])
  <2>1. s \in Runs \X (1..NumChunks)  BY RunsAssumption
  <2> QED BY <2>1 DEF IdsOf
<1> QED BY <1>2, <1>3, <1>4, <1>5, <1>6

\* A run that moves on leaves the others where they are.
LEMMA StageMove ==
  ASSUME stage \in [Runs -> ParentStages], NEW p \in Runs, NEW to, Proceed(p, to)
  PROVE  stage'[p] = to /\ \A q \in Runs : q # p => stage'[q] = stage[q]
BY DEF Proceed

-----------------------------------------------------------------------------
(* Types and the ids of the row                                              *)

LEMMA TaskInitType == TaskInit => TaskTypeOK
<1> SUFFICES ASSUME TaskInit PROVE TaskTypeOK  OBVIOUS
<1>1. entry \in Entry /\ snapshot \in [Runs -> Entry]  BY FirstRow DEF TaskInit
<1>2. queue \subseteq Message /\ WorkersOK  BY DEF TaskInit, WorkersOK, Stages
<1>3. faults \in Faults  BY BoundsAssumption DEF TaskInit, NoFaults, Faults
<1>4. queued \in [Runs -> 0..NumChunks] /\ stage \in [Runs -> ParentStages]
  BY RunsAssumption DEF TaskInit, ParentStages
<1>5. /\ lock \in [SubtaskIds -> Workers \cup {Free, Orphan}] /\ optouts \subseteq Recipients
      /\ sent \in [Recipients -> Nat]
  BY DEF TaskInit
<1> QED BY <1>1, <1>2, <1>3, <1>4, <1>5 DEF TaskTypeOK, TypeOK, WorkersOK

LEMMA TaskNextType == TaskTypeOK /\ ParentInv /\ [TaskNext]_allVars => TaskTypeOK'
<1> SUFFICES ASSUME TaskTypeOK, ParentInv, [TaskNext]_allVars PROVE TaskTypeOK'  OBVIOUS
<1>a. /\ TypeOK /\ stage \in [Runs -> ParentStages] /\ queued \in [Runs -> 0..NumChunks]
      /\ snapshot \in [Runs -> Entry]
  BY DEF TaskTypeOK
<1>b. UNCHANGED vars => TypeOK'
  <2>1. UNCHANGED vars => [Next]_vars  OBVIOUS
  <2> QED BY <2>1, <1>a, NextType
<1>1. CASE [Next]_vars /\ UNCHANGED parentVars
  BY <1>1, <1>a, NextType DEF TaskTypeOK, parentVars
<1>2. ASSUME NEW w \in Workers, UpdateImpossible(w) PROVE TaskTypeOK'
  <2>1. WorkersOK /\ job[w] \in Job
    BY <1>a, <1>2 DEF TypeOK, WorkersOK, UpdateImpossible
  <2>2. Raised(job[w]) \in Job /\ "release" \in Stages  BY <2>1, RaisedFields DEF Stages
  <2>3. WorkersOK'
    BY <2>1, <2>2, <1>2, WorkerStep DEF UpdateImpossible, Release, Goto, SetJob
  <2>4. TypeOK'
    BY <2>3, <1>2, <1>a DEF UpdateImpossible, TypeOK, WorkersOK
  <2> QED BY <2>4, <1>2, <1>a DEF UpdateImpossible, parentVars, TaskTypeOK
<1>3. ASSUME NEW p \in Runs, NEW to \in ParentStages, Proceed(p, to) \/ UNCHANGED stage
      PROVE  stage' \in [Runs -> ParentStages]
  BY <1>3, <1>a DEF Proceed
<1>4. ASSUME NEW p \in Runs, NEW to \in {"check", "init", "return", "end", "failed", "dead"},
             Proceed(p, to), UNCHANGED <<vars, queued, snapshot>>
      PROVE  TaskTypeOK'
  <2>1. to \in ParentStages  BY DEF ParentStages
  <2> QED BY <2>1, <1>3, <1>4, <1>a, <1>b DEF TaskTypeOK
<1>5. ASSUME NEW p \in Runs, ParentInitializes(p) PROVE TaskTypeOK'
  <2>1. entry' \in Entry  BY <1>5, OwnIds, StoredRow DEF ParentInitializes
  <2>2. TypeOK'  BY <2>1, <1>5, <1>a DEF ParentInitializes, TypeOK
  <2>3. stage' \in [Runs -> ParentStages]  BY <1>3, <1>5 DEF ParentInitializes, ParentStages
  <2> QED BY <2>2, <2>3, <1>5, <1>a DEF ParentInitializes, TaskTypeOK
<1>6. ASSUME NEW p \in Runs, ParentQueues(p) PROVE TaskTypeOK'
  <2>0. queued[p] < NumChunks  BY <1>6 DEF ParentQueues, ParentInv
  <2>1. queued[p] + 1 \in 1..NumChunks /\ queued[p] + 1 \in 0..NumChunks
    BY <2>0, <1>a, RunsAssumption
  <2>2. <<p, queued[p] + 1>> \in SubtaskIds  BY <2>1, OwnIds
  <2>3. NewMessage(<<p, queued[p] + 1>>) \in Message
    BY <2>2, NewStatusType, ChunkAssumption DEF NewMessage, Message
  <2>4. TypeOK'  BY <2>3, <1>6, <1>a DEF ParentQueues, TypeOK
  <2>5. queued' \in [Runs -> 0..NumChunks]  BY <2>1, <1>6, <1>a DEF ParentQueues
  <2>6. stage' \in [Runs -> ParentStages]  BY <1>3, <1>6 DEF ParentQueues, ParentStages
  <2> QED BY <2>4, <2>5, <2>6, <1>6, <1>a DEF ParentQueues, TaskTypeOK
<1>7. ASSUME NEW p \in Runs, OnFailureReads(p) PROVE TaskTypeOK'
  <2>1. snapshot' \in [Runs -> Entry]  BY <1>7, <1>a DEF OnFailureReads, TypeOK
  <2>2. stage' \in [Runs -> ParentStages]  BY <1>3, <1>7 DEF OnFailureReads, ParentStages
  <2> QED BY <2>1, <2>2, <1>7, <1>a, <1>b DEF OnFailureReads, TaskTypeOK
<1>8. ASSUME NEW p \in Runs, OnFailureSaves(p) PROVE TaskTypeOK'
  <2>1. entry' \in Entry  BY <1>8, <1>a, FailedRow DEF OnFailureSaves
  <2>2. TypeOK'  BY <2>1, <1>8, <1>a DEF OnFailureSaves, TypeOK
  <2>3. stage' \in [Runs -> ParentStages]  BY <1>3, <1>8 DEF OnFailureSaves, ParentStages
  <2> QED BY <2>2, <2>3, <1>8, <1>a DEF OnFailureSaves, TaskTypeOK
<1> QED
  BY <1>1, <1>2, <1>4, <1>5, <1>6, <1>7, <1>8
     DEF TaskNext, ParentWorks, ParentStarts, ParentChecks, ParentRunsOut, ParentReturns, ParentRaises,
         ParentDies, allVars, parentVars

\* The only run at work moves on: the others have nothing to say meanwhile.
Steps(p, to) ==
  /\ stage'[p] = to
  /\ \A q \in Runs \ {p} : stage'[q] = stage[q] /\ stage[q] \in {"absent", "end", "dead"}
  /\ \A q, r \in Runs : Live(q)' /\ Live(r)' => q = r

LEMMA ParentSteps ==
  ASSUME ParentInv, stage \in [Runs -> ParentStages], NEW p \in Runs, NEW to,
         Proceed(p, to), Live(p)
  PROVE  Steps(p, to)
<1>1. stage'[p] = to /\ \A q \in Runs \ {p} : stage'[q] = stage[q]  BY StageMove
<1>2. \A q \in Runs \ {p} : ~Live(q) /\ ~Live(q)'  BY <1>1 DEF ParentInv, Live
<1> QED BY <1>1, <1>2 DEF Live, Steps

\* How each step of a worker treats the ids and the state of the row.
LEMMA TurnRow ==
  ASSUME TypeOK, NEW w \in Workers, Turn(w)
  PROVE  /\ entry'.ids = entry.ids
         /\ entry'.progress.valid = entry.progress.valid
         /\ entry'.state # entry.state => CanRecord(job[w].id) /\ entry'.state = "SUCCESS"
<1>1. CASE Records(w)
  <2>1. pc[w] = "update" /\ job[w] \in Job /\ entry \in Entry  BY <1>1 DEF Records, TypeOK
  <2>2. job[w].id \in SubtaskIds /\ job[w].status \in SubtaskStatus  BY <2>1, JobType
  <2> QED BY <2>1, <2>2, <1>1, RecordFields DEF Records
<1>2. CASE ~Records(w)
  BY <1>2 DEF Turn, Receives, Stops, Requeues, Mails, GoesOn
<1> QED BY <1>1, <1>2

\* The steps of the parent, by what they do to the rows and the messages.
Passes(p) ==
  /\ UNCHANGED <<entry, queue, pc, job, sent, queued, snapshot>>
  /\ \E to \in {"check", "init", "return", "end", "failed", "dead"} :
       /\ Steps(p, to)
       /\ to = "check" => stage[p] = "absent"
       /\ to = "init" => stage[p] = "check" /\ entry.ids = {}
       /\ to = "failed" => stage[p] \in RaiseAt
Stores(p) ==
  /\ stage[p] = "init" /\ Steps(p, "queue") /\ entry' = InitializeSubtaskInfo(IdsOf(p))
  /\ UNCHANGED <<queue, pc, job, sent, queued, snapshot>>
Queues(p) ==
  /\ stage[p] = "queue"
  /\ Steps(p, IF queued[p] + 1 = NumChunks THEN "return" ELSE "queue")
  /\ queue' = queue \cup {NewMessage(<<p, queued[p] + 1>>)}
  /\ queued'[p] = queued[p] + 1 /\ \A q \in Runs \ {p} : queued'[q] = queued[q]
  /\ UNCHANGED <<entry, pc, job, sent, snapshot>>
Reads(p) ==
  /\ stage[p] = "failed" /\ Steps(p, "save") /\ snapshot'[p] = entry
  /\ UNCHANGED <<entry, queue, pc, job, sent, queued>>
Saves(p) ==
  /\ stage[p] = "save" /\ Steps(p, "end") /\ entry' = Failed(snapshot[p])
  /\ UNCHANGED <<queue, pc, job, sent, queued, snapshot>>

LEMMA ParentKinds ==
  ASSUME TaskTypeOK, ParentInv, NEW p \in Runs, Parent(p)
  PROVE  Passes(p) \/ Stores(p) \/ Queues(p) \/ Reads(p) \/ Saves(p)
<1>a. /\ stage \in [Runs -> ParentStages]
      /\ queued \in [Runs -> 0..NumChunks] /\ snapshot \in [Runs -> Entry]
  BY DEF TaskTypeOK
<1>b. \A to : Proceed(p, to) /\ Live(p) => Steps(p, to)  BY <1>a, ParentSteps
<1>1. CASE ParentStarts(p)
  <2>1. Steps(p, "check")  BY <1>1, <1>a, StageMove DEF ParentStarts, Steps, Live
  <2> QED BY <2>1, <1>1 DEF ParentStarts, Passes, vars
<1>2. CASE ParentChecks(p)
  BY <1>2, <1>b DEF ParentChecks, AlreadyDefined, Live, Passes, vars
<1>3. CASE ParentRunsOut(p) \/ ParentReturns(p) \/ ParentRaises(p) \/ ParentDies(p)
  BY <1>3, <1>b, RaiseAssumption
     DEF ParentRunsOut, ParentReturns, ParentRaises, ParentDies, MayRaise, Live, Passes, vars
<1>4. CASE ParentInitializes(p)
  BY <1>4, <1>b DEF ParentInitializes, Live, Stores
<1>5. CASE ParentQueues(p)
  <2>1. stage[p] = "queue" /\ queued' = [queued EXCEPT ![p] = queued[p] + 1]
    BY <1>5 DEF ParentQueues
  <2>2. queued'[p] = queued[p] + 1 /\ \A q \in Runs \ {p} : queued'[q] = queued[q]
    BY <2>1, <1>a
  <2>3. Steps(p, IF queued[p] + 1 = NumChunks THEN "return" ELSE "queue")
    <3>1. CASE queued[p] + 1 = NumChunks
      <4>1. Proceed(p, "return") /\ Live(p)  BY <3>1, <2>1, <1>5 DEF ParentQueues, Live
      <4>2. Steps(p, "return")  BY <4>1, <1>b
      <4> QED BY <4>2, <3>1
    <3>2. CASE queued[p] + 1 # NumChunks
      <4>1. UNCHANGED stage  BY <3>2, <1>5 DEF ParentQueues
      <4> QED BY <4>1, <3>2, <2>1, <1>a DEF Steps, ParentInv, Live
    <3> QED BY <3>1, <3>2
  <2> QED BY <2>1, <2>2, <2>3, <1>5 DEF ParentQueues, Queues
<1>6. CASE OnFailureReads(p)
  BY <1>6, <1>a, <1>b DEF OnFailureReads, Live, Reads, vars
<1>7. CASE OnFailureSaves(p)
  BY <1>7, <1>b DEF OnFailureSaves, Live, Saves
<1> QED BY <1>1, <1>2, <1>3, <1>4, <1>5, <1>6, <1>7 DEF Parent, ParentWorks

LEMMA ParentInit == TaskInit => ParentInv
BY FirstRow DEF TaskInit, ParentInv, Live

LEMMA ParentNext == TaskTypeOK /\ ParentInv /\ [TaskNext]_allVars => ParentInv'
<1> SUFFICES ASSUME TaskTypeOK, ParentInv, [TaskNext]_allVars PROVE ParentInv'  OBVIOUS
<1>a. /\ TypeOK /\ entry \in Entry /\ stage \in [Runs -> ParentStages]
      /\ queued \in [Runs -> 0..NumChunks] /\ snapshot \in [Runs -> Entry]
  BY DEF TaskTypeOK, TypeOK
<1>1. ASSUME NEW w \in Workers, Turn(w), UNCHANGED parentVars PROVE ParentInv'
  <2>1. CanRecord(job[w].id) => entry.ids # {} /\ entry.progress.valid  BY DEF CanRecord
  <2>2. entry.state = "FAILURE" => ~CanRecord(job[w].id)  BY <2>1 DEF ParentInv
  <2> QED BY <1>1, <2>1, <2>2, <1>a, TurnRow DEF ParentInv, Live, parentVars
<1>2. ASSUME UNCHANGED <<entry, parentVars>> PROVE ParentInv'
  BY <1>2 DEF ParentInv, Live, parentVars
<1>3. ASSUME NEW p \in Runs, Passes(p) PROVE ParentInv'
  BY <1>3 DEF Passes, Steps, ParentInv
<1>4. ASSUME NEW p \in Runs, Stores(p) PROVE ParentInv'
  <2>1. entry'.ids = IdsOf(p) /\ entry'.state = "PROGRESS" /\ IdsOf(p) # {}
    BY <1>4, OwnIds, StoredRow DEF Stores
  <2>2. queued[p] = 0 /\ 0 < NumChunks  BY <1>4, RunsAssumption DEF ParentInv, Stores
  <2> QED BY <1>4, <2>1, <2>2 DEF Stores, Steps, ParentInv
<1>5. ASSUME NEW p \in Runs, Queues(p) PROVE ParentInv'
  <2>1. queued[p] < NumChunks /\ entry.ids = IdsOf(p)  BY <1>5 DEF ParentInv, Queues
  <2>2. stage'[p] = "queue" => queued'[p] < NumChunks
    BY <1>5, <2>1, <1>a, RunsAssumption DEF Queues, Steps
  <2> QED BY <1>5, <2>1, <2>2 DEF Queues, Steps, ParentInv
<1>6. ASSUME NEW p \in Runs, Reads(p) PROVE ParentInv'
  BY <1>6 DEF Reads, Steps, ParentInv
<1>7. ASSUME NEW p \in Runs, Saves(p) PROVE ParentInv'
  <2>1. snapshot[p] \in Entry /\ snapshot[p].ids = entry.ids
    BY <1>7, <1>a DEF ParentInv, Saves
  <2>2. entry'.ids = entry.ids /\ entry'.state = "FAILURE" /\ entry'.progress.valid = FALSE
    BY <1>7, <2>1, FailedRow DEF Saves
  <2> QED BY <1>7, <2>2 DEF Saves, Steps, ParentInv
<1>8. ASSUME NEW p \in Runs, Parent(p) PROVE ParentInv'
  BY <1>3, <1>4, <1>5, <1>6, <1>7, <1>8, ParentKinds
<1> QED BY <1>1, <1>2, <1>8, <1>a, TaskTurns

LEMMA TypesKept == TaskSpec => [](TaskTypeOK /\ ParentInv)
<1>1. TaskInit => TaskTypeOK /\ ParentInv  BY TaskInitType, ParentInit
<1>2. TaskTypeOK /\ ParentInv /\ [TaskNext]_allVars => TaskTypeOK' /\ ParentInv'
  BY TaskNextType, ParentNext
<1> QED BY <1>1, <1>2, PTL DEF TaskSpec

-----------------------------------------------------------------------------
(* Only what was queued                                                      *)

\* Messages, jobs, mails and outcomes come from messages and jobs there were before.
LEMMA TurnLists ==
  ASSUME TypeOK, NEW w \in Workers, Turn(w)
  PROVE  /\ \A m \in queue' : \/ m \in queue
                            \/ /\ pc[w] # "idle" /\ m.id = job[w].id
                               /\ m.toList = job[w].toList
         /\ pc'[w] # "idle" =>
              \/ /\ pc[w] # "idle" /\ job'[w].id = job[w].id
                 /\ job'[w].toList \subseteq job[w].toList
              \/ \E m \in queue : job'[w].id = m.id /\ job'[w].toList = m.toList
         /\ \A r \in Recipients : sent'[r] > 0 =>
              sent[r] > 0 \/ (pc[w] # "idle" /\ r \in job[w].toList)
         /\ \A s \in SubtaskIds : Ready(s)' => Ready(s) \/ (pc[w] # "idle" /\ s = job[w].id)
<1>1. CASE Receives(w)  BY <1>1 DEF Receives, NewJob, Ready
<1>2. CASE Stops(w)     BY <1>2 DEF Stops, Ready
<1>3. CASE Records(w)
  <2>1. pc[w] = "update" /\ job[w] \in Job /\ entry \in Entry  BY <1>3 DEF Records, TypeOK
  <2>2. job[w].id \in SubtaskIds /\ job[w].status \in SubtaskStatus  BY <2>1, JobType
  <2>3. entry' = RecordStatus(job[w].id, job[w].status)  BY <1>3 DEF Records
  <2>4. \A s \in SubtaskIds \ {job[w].id} : entry'.status[s] = entry.status[s]
    BY <2>1, <2>2, <2>3, RecordedStatus
  <2> QED BY <2>1, <2>4, <1>3 DEF Records, Ready
<1>4. CASE Requeues(w)  BY <1>4 DEF Requeues, RetryMessage, Ready
<1>5. CASE Mails(w)
  <2>1. PICK r \in job[w].toList : /\ job'[w].toList = job[w].toList \ {r}
                                  /\ sent' = [sent EXCEPT ![r] = @ + 1]
    BY <1>5 DEF Mails
  <2>2. \A q \in Recipients : q # r => sent'[q] = sent[q]  BY <2>1 DEF TypeOK
  <2> QED BY <2>1, <2>2, <1>5 DEF Mails, Ready
<1>6. CASE GoesOn(w)    BY <1>6 DEF GoesOn, Ready
<1> QED BY <1>1, <1>2, <1>3, <1>4, <1>5, <1>6 DEF Turn

LEMMA QueuedInit == TaskInit => QueuedInv
BY FirstRow DEF TaskInit, QueuedInv, ListInv, Ready, ReadyIn

LEMMA QueuedNext == TaskTypeOK /\ ParentInv /\ QueuedInv /\ [TaskNext]_allVars => QueuedInv'
<1> SUFFICES ASSUME TaskTypeOK, ParentInv, QueuedInv, [TaskNext]_allVars PROVE QueuedInv'
  OBVIOUS
<1>a. /\ TypeOK /\ entry \in Entry /\ queued \in [Runs -> 0..NumChunks]
      /\ snapshot \in [Runs -> Entry] /\ NumChunks \in Nat \ {0}
      /\ \A w \in Workers : pc[w] # "idle" => job[w].id \in SubtaskIds
  BY RunsAssumption, JobType DEF TaskTypeOK, TypeOK
<1>1. ASSUME NEW w \in Workers, Turn(w), UNCHANGED parentVars PROVE QueuedInv'
  <2>1. QueuedIds' = QueuedIds /\ entry'.ids = entry.ids
    BY <1>1, <1>a, TurnRow DEF QueuedIds, parentVars
  <2>2. /\ \A m \in queue' : m.id \in QueuedIds /\ m.toList \subseteq Chunk[m.id]
        /\ pc'[w] # "idle" =>
             job'[w].id \in QueuedIds /\ job'[w].toList \subseteq Chunk[job'[w].id]
        /\ \A s \in SubtaskIds : Ready(s)' => s \in QueuedIds
        /\ \A r \in Recipients : sent'[r] > 0 => \E s \in QueuedIds : r \in Chunk[s]
    BY <1>1, <1>a, TurnLists DEF QueuedInv, ListInv
  <2>3. ASSUME NEW v \in Workers, pc'[v] # "idle"
        PROVE  job'[v].id \in QueuedIds /\ job'[v].toList \subseteq Chunk[job'[v].id]
    BY <2>2, <2>3, <1>1 DEF Turn, OnlyMoves, QueuedInv, ListInv
  <2> QED BY <2>1, <2>2, <2>3, <1>1 DEF QueuedInv, ListInv, parentVars
<1>2. ASSUME UNCHANGED <<entry, queue, pc, job, sent, parentVars>> PROVE QueuedInv'
  BY <1>2 DEF QueuedInv, ListInv, QueuedIds, Ready, parentVars
<1>3. ASSUME NEW p \in Runs, Passes(p) PROVE QueuedInv'
  BY <1>3 DEF Passes, Steps, QueuedInv, ListInv, QueuedIds, Ready
<1>4. ASSUME NEW p \in Runs, Stores(p) PROVE QueuedInv'
  <2>1. entry.ids = {} /\ \A s \in SubtaskIds : ~Ready(s)'
    BY <1>4, OwnIds, StoredRow DEF Stores, ParentInv, Ready, ReadyIn
  <2>2. \A q \in Runs : ~(queued[q] > 0)  BY <2>1, OwnIds DEF QueuedInv
  <2> QED BY <1>4, <2>1, <2>2 DEF Stores, Steps, QueuedInv, ListInv, QueuedIds
<1>5. ASSUME NEW p \in Runs, Queues(p) PROVE QueuedInv'
  <2>1. queued[p] < NumChunks /\ entry.ids = IdsOf(p)  BY <1>5 DEF ParentInv, Queues
  <2>2. queued[p] + 1 \in 1..NumChunks  BY <2>1, <1>a
  <2>3. <<p, queued[p] + 1>> \in SubtaskIds  BY <2>2, OwnIds
  <2>4. QueuedIds \subseteq QueuedIds' /\ <<p, queued[p] + 1>> \in QueuedIds'
    <3>1. \A q \in Runs : queued[q] \in Int /\ queued[q] <= queued'[q]  BY <1>5, <1>a DEF Queues
    <3>2. ASSUME NEW s \in QueuedIds PROVE s[2] <= queued'[s[1]]
      <4>1. s[1] \in Runs /\ s[2] \in Int /\ s[2] <= queued[s[1]]  BY OwnIds DEF QueuedIds
      <4>2. queued[s[1]] <= queued'[s[1]] /\ queued'[s[1]] \in Int
        BY <4>1, <3>1, <1>5, <1>a DEF Queues
      <4> QED BY <4>1, <4>2, <3>1
    <3>3. queued'[p] = queued[p] + 1  BY <1>5 DEF Queues
    <3> QED BY <3>2, <3>3, <2>2, <2>3 DEF QueuedIds
  <2>5. ASSUME NEW m \in queue' PROVE m.id \in QueuedIds' /\ m.toList \subseteq Chunk[m.id]
    BY <1>5, <2>4 DEF Queues, QueuedInv, ListInv, NewMessage
  <2> QED BY <1>5, <2>1, <2>4, <2>5 DEF Queues, Steps, QueuedInv, ListInv, Ready
<1>6. ASSUME NEW p \in Runs, Reads(p) PROVE QueuedInv'
  BY <1>6 DEF Reads, Steps, QueuedInv, ListInv, QueuedIds, Ready, ReadyIn
<1>7. ASSUME NEW p \in Runs, Saves(p) PROVE QueuedInv'
  <2>1. snapshot[p] \in Entry /\ snapshot[p].ids = entry.ids
    BY <1>7, <1>a DEF ParentInv, Saves
  <2>2. entry'.ids = entry.ids /\ \A s \in SubtaskIds : Ready(s)' <=> ReadyIn(snapshot[p], s)
    BY <1>7, <2>1, FailedRow DEF Saves, Ready, ReadyIn
  <2> QED BY <1>7, <2>2 DEF Saves, Steps, QueuedInv, ListInv, QueuedIds
<1>8. ASSUME NEW p \in Runs, Parent(p) PROVE QueuedInv'
  BY <1>3, <1>4, <1>5, <1>6, <1>7, <1>8, ParentKinds
<1> QED BY <1>1, <1>2, <1>8, <1>a, TaskTurns

-----------------------------------------------------------------------------
(* The ledger of a row                                                       *)

\* Two disjoint parts of the subtasks add up to their number when they are all of them.
LEMMA BothParts ==
  ASSUME NEW T \in SUBSET SubtaskIds, NEW S \in SUBSET T, NEW F \in SUBSET T, S \cap F = {}
  PROVE  /\ Cardinality(S) \in Nat /\ Cardinality(F) \in Nat
         /\ Cardinality(T) - Cardinality(S) - Cardinality(F) <= 0 <=> S \cup F = T
<1>0. IsFiniteSet(T)  BY SubtaskIdsAssumption, FS_Subset
<1>1. /\ IsFiniteSet(S) /\ IsFiniteSet(F) /\ Cardinality(S) \in Nat /\ Cardinality(F) \in Nat
      /\ Cardinality(T) \in Nat
  BY <1>0, FS_Subset, FS_CardinalityType
<1>2. Cardinality(S \cup F) = Cardinality(S) + Cardinality(F)
  <2>1. Cardinality(S \cap F) = 0  BY FS_EmptySet
  <2>2. Cardinality(S \cup F) = Cardinality(S) + Cardinality(F) - Cardinality(S \cap F)
    BY <1>1, FS_Union
  <2> QED BY <2>1, <2>2, <1>1
<1>3. /\ Cardinality(S \cup F) <= Cardinality(T)
      /\ Cardinality(S \cup F) = Cardinality(T) => S \cup F = T
  BY <1>0, FS_Subset
<1>4. S \cup F = T => Cardinality(S \cup F) = Cardinality(T)  OBVIOUS
<1> DEFINE a == Cardinality(S)
           b == Cardinality(F)
           n == Cardinality(T)
<1>5. a \in Nat /\ b \in Nat /\ n \in Nat /\ a + b <= n /\ (a + b = n <=> S \cup F = T)
  BY <1>1, <1>2, <1>3, <1>4
<1> HIDE DEF a, b, n
<1>6. n - a - b <= 0 <=> a + b = n  BY <1>5
<1> QED BY <1>5, <1>6 DEF a, b, n

\* A subtask that becomes final joins those of its state.
LEMMA WithRecorded ==
  ASSUME NEW e \in Entry, NEW f \in Entry, NEW s \in e.ids, NEW status, ~ReadyIn(e, s),
         f.ids = e.ids, f.status = [e.status EXCEPT ![s] = status], NEW state \in ReadyStates
  PROVE  Cardinality(WithIn(f, state)) =
           Cardinality(WithIn(e, state)) + (IF status.state = state THEN 1 ELSE 0)
<1>1. e.ids \in SUBSET SubtaskIds /\ e.status \in [SubtaskIds -> SubtaskStatus]  BY DEF Entry
<1>2. s \notin WithIn(e, state)  BY DEF WithIn, ReadyIn
<1>3. IsFiniteSet(WithIn(e, state)) /\ Cardinality(WithIn(e, state)) \in Nat
  BY <1>1, SubtaskIdsAssumption, FS_Subset, FS_CardinalityType DEF WithIn
<1>4. \A t \in SubtaskIds : f.status[t] = IF t = s THEN status ELSE e.status[t]
  BY <1>1
<1>5. CASE status.state = state
  <2>1. WithIn(f, state) = WithIn(e, state) \cup {s}  BY <1>1, <1>4, <1>5 DEF WithIn
  <2> QED BY <2>1, <1>2, <1>3, <1>5, FS_AddElement
<1>6. CASE status.state # state
  <2>1. WithIn(f, state) = WithIn(e, state)  BY <1>1, <1>2, <1>4, <1>6 DEF WithIn
  <2> QED BY <2>1, <1>3, <1>6
<1> QED BY <1>5, <1>6

\* Recording an outcome that is still to come keeps the ledger of a row that has not failed.
LEMMA RecordLedger ==
  ASSUME entry \in Entry, LedgerOf(entry), entry.state # "FAILURE",
         NEW s \in entry.ids, NEW status \in SubtaskStatus, ~Ready(s)
  PROVE  LedgerOf(RecordStatus(s, status))
<1> DEFINE succeeded == entry.succeeded + (IF status.state = "SUCCESS" THEN 1 ELSE 0)
           failed    == entry.failed + (IF status.state = "FAILURE" THEN 1 ELSE 0)
           f == RecordStatus(s, status)
<1>1. s \in SubtaskIds /\ entry.ids \in SUBSET SubtaskIds  BY DEF Entry
<1>2. /\ f \in Entry /\ f.ids = entry.ids /\ f.status = [entry.status EXCEPT ![s] = status]
      /\ f.succeeded = succeeded /\ f.failed = failed
      /\ f.state = IF AllDone(succeeded, failed) THEN "SUCCESS" ELSE entry.state
  BY <1>1, RecordFields, RecordType
<1> HIDE DEF f
<1>3. /\ succeeded = Cardinality(WithIn(f, "SUCCESS"))
      /\ failed = Cardinality(WithIn(f, "FAILURE"))
  BY <1>2, WithRecorded DEF LedgerOf, ReadyStates, Ready, ReadyIn
<1>4. AllDone(succeeded, failed) <=> \A t \in entry.ids : ReadyIn(f, t)
  <2> DEFINE S == WithIn(f, "SUCCESS")
             F == WithIn(f, "FAILURE")
             T == entry.ids
  <2>1. S \in SUBSET T /\ F \in SUBSET T /\ S \cap F = {}  BY <1>2 DEF WithIn
  <2>2. S \cup F = T <=> \A t \in T : ReadyIn(f, t)
    BY <1>2 DEF WithIn, ReadyIn, ReadyStates
  <2>3. succeeded = Cardinality(S) /\ failed = Cardinality(F)  BY <1>3
  <2>4. AllDone(succeeded, failed) <=> Cardinality(T) - succeeded - failed <= 0  BY DEF AllDone
  <2> HIDE DEF succeeded, failed, S, F, T
  <2>5. Cardinality(T) - Cardinality(S) - Cardinality(F) <= 0 <=> S \cup F = T
    <3>1. T \in SUBSET SubtaskIds  BY <1>1 DEF T
    <3> QED BY <3>1, <2>1, BothParts
  <2>6. AllDone(succeeded, failed) <=> \A t \in T : ReadyIn(f, t)
    BY <2>2, <2>3, <2>4, <2>5
  <2> QED BY <2>6 DEF T
<1>5. entry.state # "SUCCESS"  BY DEF LedgerOf, Ready, ReadyIn
<1>6. \A t \in SubtaskIds \ entry.ids : ~ReadyIn(f, t)
  <2>1. entry.status \in [SubtaskIds -> SubtaskStatus]  BY DEF Entry
  <2> QED BY <2>1, <1>2 DEF LedgerOf, ReadyIn
<1> HIDE DEF succeeded, failed
<1> QED BY <1>2, <1>3, <1>4, <1>5, <1>6 DEF LedgerOf, f

\* So does a row without outcomes, and one that on_failure has failed.
LEMMA EmptyLedger ==
  ASSUME NEW e \in Entry, e.succeeded = 0, e.failed = 0, e.state # "SUCCESS",
         \A s \in SubtaskIds : ~ReadyIn(e, s)
  PROVE  LedgerOf(e)
<1>1. e.ids \subseteq SubtaskIds  BY DEF Entry
<1>2. WithIn(e, "SUCCESS") = {} /\ WithIn(e, "FAILURE") = {}
  BY <1>1 DEF WithIn, ReadyIn, ReadyStates
<1>3. \A s \in e.ids : ~ReadyIn(e, s)  BY <1>1
<1> QED BY <1>2, <1>3, FS_EmptySet DEF LedgerOf

LEMMA FailedLedger ==
  ASSUME NEW e \in Entry, LedgerOf(e)
  PROVE  LedgerOf(Failed(e))
<1>1. /\ Failed(e).ids = e.ids /\ Failed(e).status = e.status /\ Failed(e).state = "FAILURE"
      /\ Failed(e).succeeded = e.succeeded /\ Failed(e).failed = e.failed
  BY FailedRow
<1> HIDE DEF Failed
<1>2. \A state : WithIn(Failed(e), state) = WithIn(e, state)  BY <1>1 DEF WithIn
<1> QED BY <1>1, <1>2 DEF LedgerOf, ReadyIn

-----------------------------------------------------------------------------
(* No outcome is recorded twice                                              *)

LEMMA LedgerInit == TaskInit => PendingInv /\ RowsInv
<1> SUFFICES ASSUME TaskInit PROVE PendingInv /\ RowsInv  OBVIOUS
<1>1. LedgerOf(entry)  BY FirstRow, EmptyLedger DEF TaskInit
<1> QED BY <1>1 DEF TaskInit, PendingInv, RowsInv, Pending

\* What a worker records has not been recorded, and the row can still change.
LEMMA RecordsPending ==
  ASSUME TypeOK, ParentInv, PendingInv, NEW w \in Workers, Records(w)
  PROVE  /\ job[w].id \in entry.ids /\ job[w].status \in SubtaskStatus /\ ~Ready(job[w].id)
         /\ entry.state # "FAILURE" /\ Savable(job[w])
         /\ \A s \in SubtaskIds : ReadyIn(entry', s) <=>
              IF s = job[w].id THEN job[w].status.state \in ReadyStates ELSE ReadyIn(entry, s)
<1>1. pc[w] = "update" /\ job[w] \in Job /\ entry \in Entry /\ CanRecord(job[w].id)
  BY DEF Records, TypeOK
<1>2. job[w].id \in SubtaskIds /\ job[w].status \in SubtaskStatus  BY <1>1, JobType
<1>3. entry' = RecordStatus(job[w].id, job[w].status)  BY DEF Records
<1>4. \A s \in SubtaskIds :
        entry'.status[s] = IF s = job[w].id THEN job[w].status ELSE entry.status[s]
  BY <1>1, <1>2, <1>3, RecordedStatus
<1>5. \A s \in SubtaskIds : ReadyIn(entry', s) <=>
        IF s = job[w].id THEN job[w].status.state \in ReadyStates ELSE ReadyIn(entry, s)
  BY <1>4 DEF ReadyIn
<1>6. ~Ready(job[w].id) /\ Savable(job[w])  BY <1>1 DEF PendingInv, Pending
<1> QED BY <1>1, <1>2, <1>5, <1>6 DEF CanRecord, ParentInv

LEMMA PendingNext ==
  ASSUME ~Overlap
  PROVE  TaskTypeOK /\ ParentInv /\ PendingInv /\ RowsInv /\ [TaskNext]_allVars => PendingInv'
<1> SUFFICES ASSUME TaskTypeOK, ParentInv, PendingInv, RowsInv, [TaskNext]_allVars
             PROVE  PendingInv'
  OBVIOUS
<1>a. TypeOK /\ snapshot \in [Runs -> Entry]  BY DEF TaskTypeOK
<1>b. \A v \in Workers : Pending(pc[v], job[v]) =>
        ~ReadyIn(entry, job[v].id) /\ pc[v] # "idle" /\ job[v].id \in SubtaskIds
  BY <1>a, JobType DEF PendingInv, Pending, TypeOK, Ready, ReadyIn
<1>1. ASSUME NEW w \in Workers, Turn(w), UNCHANGED parentVars PROVE PendingInv'
  <2>1. ASSUME NEW u \in Workers, NEW v \in Workers, pc'[u] # "idle", pc'[v] # "idle",
               job'[u].id = job'[v].id, u # v
        PROVE  FALSE
    <3>1. \A x \in Workers \ {w} : pc'[x] = pc[x] /\ job'[x] = job[x]
      BY <1>1 DEF Turn, OnlyMoves
    <3>2. pc[w] # "idle" => job'[w].id = job[w].id \/ pc'[w] = "idle"
      BY <1>1 DEF Turn, Receives, Stops, Records, Requeues, Mails, GoesOn
    <3>3. ASSUME pc[w] = "idle", pc'[w] # "idle" PROVE \A x \in Workers : ~WorksOn(x, job'[w].id)
      <4>1. Receives(w)
        BY <3>3, <1>1 DEF Turn, Receives, Stops, Records, Requeues, Mails, GoesOn
      <4>2. PICK m \in queue : job'[w] = NewJob(m) /\ \A x \in Workers : ~WorksOn(x, m.id)
        BY <4>1 DEF Receives
      <4>3. job'[w].id = m.id  BY <4>2 DEF NewJob
      <4> QED BY <4>2, <4>3
    <3> QED BY <2>1, <3>1, <3>2, <3>3 DEF PendingInv, WorksOn
  <2>2. ASSUME NEW v \in Workers, Pending(pc'[v], job'[v]) PROVE ~ReadyIn(entry', job'[v].id)
    <3>1. CASE v # w
      <4>1. pc'[v] = pc[v] /\ job'[v] = job[v]  BY <3>1, <1>1 DEF Turn, OnlyMoves
      <4>2. ~ReadyIn(entry, job[v].id) /\ pc[v] # "idle" /\ job[v].id \in SubtaskIds
        BY <4>1, <2>2, <1>a, <1>b
      <4>3. CASE Records(w)
        <5>1. job[w].id # job[v].id  BY <4>2, <4>3, <3>1 DEF PendingInv, Records
        <5> QED BY <5>1, <4>1, <4>2, <4>3, <1>a, RecordsPending
      <4>4. CASE ~Records(w)
        <5>1. UNCHANGED entry  BY <4>4, <1>1 DEF Turn, Receives, Stops, Requeues, Mails, GoesOn
        <5> QED BY <5>1, <4>1, <4>2
      <4> QED BY <4>3, <4>4
    <3>2. CASE v = w
      <4>1. CASE Records(w)
        <5>1. pc'[w] = "release" /\ job'[w] = job[w] /\ Savable(job[w])
          BY <4>1, <1>a, RecordsPending DEF Records
        <5>2. job[w].status.state = "RETRY"
          BY <5>1, <3>2, <2>2 DEF Pending, Savable
        <5>3. job[w].id \in SubtaskIds  BY <4>1, <1>a, JobType DEF Records, TypeOK
        <5> QED BY <5>1, <5>2, <5>3, <4>1, <3>2, <1>a, RecordsPending DEF ReadyStates
      <4>2. CASE ~Records(w)
        <5>1. /\ UNCHANGED entry /\ job'[w].id = job[w].id
              /\ Pending(pc[w], job[w]) \/ ~Ready(job[w].id)
          BY <4>2, <3>2, <2>2, <1>1
             DEF Turn, Receives, Stops, Requeues, Mails, GoesOn, Pending
        <5>2. ~Ready(job[w].id)  BY <5>1 DEF PendingInv
        <5> QED BY <5>1, <5>2, <3>2 DEF ReadyIn, Ready
      <4> QED BY <4>1, <4>2
    <3> QED BY <3>1, <3>2
  <2>3. ASSUME NEW v \in Workers, pc'[v] = "update" PROVE Savable(job'[v])
    <3>1. CASE v # w
      BY <3>1, <2>3, <1>1 DEF Turn, OnlyMoves, PendingInv
    <3>2. CASE v = w
      <4>1. GoesOn(w)
        BY <3>2, <2>3, <1>1 DEF Turn, Receives, Stops, Records, Requeues, Mails
      <4> QED BY <4>1, <3>2, <2>3 DEF GoesOn, PendingInv
    <3> QED BY <3>1, <3>2
  <2>4. \A v \in Workers : Pending(pc'[v], job'[v]) => ~(entry'.status[job'[v].id].state \in ReadyStates)
    BY <2>2 DEF ReadyIn
  <2>5. \A v \in Workers : pc'[v] = "update" => Savable(job'[v])  BY <2>3
  <2>6. \A u, v \in Workers :
          pc'[u] # "idle" /\ pc'[v] # "idle" /\ job'[u].id = job'[v].id => u = v
    BY <2>1
  <2> QED BY <2>4, <2>5, <2>6 DEF PendingInv, Pending, Savable, Ready
<1>2. ASSUME UNCHANGED <<pc, job>>, \A s \in SubtaskIds : ReadyIn(entry', s) => ReadyIn(entry, s)
      PROVE  PendingInv'
  <2>1. \A v \in Workers : Pending(pc[v], job[v]) => ~ReadyIn(entry', job[v].id)
    BY <1>2, <1>b
  <2> QED BY <2>1, <1>2 DEF PendingInv, Pending, Savable, Ready, ReadyIn
<1>3. ASSUME NEW p \in Runs, Parent(p) PROVE PendingInv'
  <2>1. CASE Passes(p) \/ Queues(p) \/ Reads(p)
    BY <2>1, <1>2 DEF Passes, Queues, Reads
  <2>2. CASE Stores(p)
    <3>1. \A s \in SubtaskIds : ~ReadyIn(entry', s)
      BY <2>2, OwnIds, StoredRow DEF Stores
    <3> QED BY <3>1, <2>2, <1>2 DEF Stores
  <2>3. CASE Saves(p)
    <3>1. entry' = Failed(snapshot[p]) /\ stage[p] = "save" /\ UNCHANGED <<pc, job>>
      BY <2>3 DEF Saves
    <3>2. \A s \in SubtaskIds : ReadyIn(entry', s) <=> ReadyIn(snapshot[p], s)
      BY <3>1, <1>a, FailedRow DEF ReadyIn
    <3>3. \A s \in SubtaskIds : ReadyIn(snapshot[p], s) => ReadyIn(entry, s)
      BY <3>1 DEF RowsInv, Ready, ReadyIn
    <3> QED BY <3>1, <3>2, <3>3, <1>2
  <2> QED BY <2>1, <2>2, <2>3, <1>3, ParentKinds
<1>4. ASSUME UNCHANGED <<entry, queue, pc, job, sent, parentVars>> PROVE PendingInv'
  BY <1>4, <1>2
<1> QED BY <1>1, <1>3, <1>4, <1>a, TaskTurns

LEMMA RowsNext == TaskTypeOK /\ ParentInv /\ PendingInv /\ RowsInv /\ [TaskNext]_allVars => RowsInv'
<1> SUFFICES ASSUME TaskTypeOK, ParentInv, PendingInv, RowsInv, [TaskNext]_allVars
             PROVE  RowsInv'
  OBVIOUS
<1>a. TypeOK /\ entry \in Entry /\ snapshot \in [Runs -> Entry]  BY DEF TaskTypeOK, TypeOK
<1>b. ASSUME LedgerOf(entry'),
             \A q \in Runs : stage'[q] = "save" =>
               /\ LedgerOf(snapshot'[q])
               /\ \A s \in SubtaskIds : ReadyIn(snapshot'[q], s) => ReadyIn(entry', s)
      PROVE  RowsInv'
  BY <1>b DEF RowsInv, LedgerOf, WithIn, ReadyIn, Ready
<1>c. /\ LedgerOf(entry)
      /\ \A q \in Runs : stage[q] = "save" =>
           /\ LedgerOf(snapshot[q])
           /\ \A s \in SubtaskIds : ReadyIn(snapshot[q], s) => ReadyIn(entry, s)
  BY DEF RowsInv, Ready, ReadyIn
<1>1. ASSUME NEW w \in Workers, Records(w), UNCHANGED <<stage, snapshot>> PROVE RowsInv'
  <2>1. /\ job[w].id \in entry.ids /\ job[w].status \in SubtaskStatus /\ ~Ready(job[w].id)
        /\ entry.state # "FAILURE"
        /\ \A s \in SubtaskIds : s # job[w].id => (ReadyIn(entry', s) <=> ReadyIn(entry, s))
    BY <1>1, <1>a, RecordsPending
  <2>2. entry' = RecordStatus(job[w].id, job[w].status)  BY <1>1 DEF Records
  <2>3. LedgerOf(entry')  BY <2>1, <2>2, <1>a, <1>c, RecordLedger
  <2>4. \A s \in SubtaskIds : ReadyIn(entry, s) => ReadyIn(entry', s)
    BY <2>1 DEF Ready, ReadyIn
  <2> QED BY <2>3, <2>4, <1>1, <1>b, <1>c
<1>2. ASSUME UNCHANGED <<entry, snapshot>>, \A q \in Runs : stage'[q] = "save" => stage[q] = "save"
      PROVE  RowsInv'
  BY <1>2, <1>b, <1>c
<1>3. ASSUME \A q \in Runs : stage'[q] # "save", LedgerOf(entry') PROVE RowsInv'
  BY <1>3, <1>b
<1>4. ASSUME NEW w \in Workers, Turn(w), UNCHANGED parentVars PROVE RowsInv'
  <2>1. CASE Records(w)  BY <2>1, <1>4, <1>1 DEF parentVars
  <2>2. CASE ~Records(w)
    <3>1. UNCHANGED entry  BY <2>2, <1>4 DEF Turn, Receives, Stops, Requeues, Mails, GoesOn
    <3> QED BY <3>1, <1>4, <1>2 DEF parentVars
  <2> QED BY <2>1, <2>2
<1>5. ASSUME NEW p \in Runs, Passes(p) \/ Queues(p) PROVE RowsInv'
  <2>1. /\ UNCHANGED <<entry, snapshot>>
        /\ \A q \in Runs : stage'[q] = "save" => stage[q] = "save"
    BY <1>5 DEF Passes, Queues, Steps
  <2> QED BY <2>1, <1>2
<1>6. ASSUME NEW p \in Runs, Stores(p) PROVE RowsInv'
  <2>1. \A q \in Runs : stage'[q] # "save"  BY <1>6 DEF Stores, Steps
  <2>2. LedgerOf(entry')  BY <1>6, OwnIds, StoredRow, EmptyLedger DEF Stores
  <2> QED BY <2>1, <2>2, <1>3
<1>7. ASSUME NEW p \in Runs, Saves(p) PROVE RowsInv'
  <2>1. \A q \in Runs : stage'[q] # "save"  BY <1>7 DEF Saves, Steps
  <2>2. entry' = Failed(snapshot[p]) /\ LedgerOf(snapshot[p]) /\ snapshot[p] \in Entry
    BY <1>7, <1>a, <1>c DEF Saves
  <2>3. LedgerOf(entry')  BY <2>2, FailedLedger
  <2> QED BY <2>1, <2>3, <1>3
<1>8. ASSUME NEW p \in Runs, Reads(p) PROVE RowsInv'
  <2>1. /\ snapshot'[p] = entry /\ entry' = entry
        /\ \A q \in Runs : stage'[q] = "save" => q = p
    BY <1>8 DEF Reads, Steps
  <2> QED BY <2>1, <1>b, <1>c
<1>9. ASSUME NEW p \in Runs, Parent(p) PROVE RowsInv'
  BY <1>5, <1>6, <1>7, <1>8, <1>9, ParentKinds
<1>10. ASSUME UNCHANGED <<entry, parentVars>> PROVE RowsInv'
  BY <1>10, <1>2 DEF parentVars
<1> QED BY <1>4, <1>9, <1>10, <1>a, TaskTurns

\* Nothing is recorded twice: types, ids, what was queued, what is pending, and the rows.
RowsKept == TaskTypeOK /\ ParentInv /\ QueuedInv /\ PendingInv /\ RowsInv

LEMMA RowsAlwaysKept == ~Overlap /\ TaskSpec => []RowsKept
<1> SUFFICES ASSUME ~Overlap PROVE TaskSpec => []RowsKept  OBVIOUS
<1>1. TaskInit => RowsKept  BY TaskInitType, ParentInit, QueuedInit, LedgerInit DEF RowsKept
<1>2. RowsKept /\ [TaskNext]_allVars => RowsKept'
  BY TaskNextType, ParentNext, QueuedNext, PendingNext, RowsNext DEF RowsKept
<1> QED BY <1>1, <1>2, PTL DEF TaskSpec

-----------------------------------------------------------------------------
(* A failure of the parent                                                   *)

LEMMA FailedNext == TaskTypeOK /\ ParentInv /\ FailedInv /\ [TaskNext]_allVars => FailedInv'
<1> SUFFICES ASSUME TaskTypeOK, ParentInv, FailedInv, [TaskNext]_allVars PROVE FailedInv'
  OBVIOUS
<1>a. TypeOK  BY DEF TaskTypeOK
<1>1. ASSUME NEW w \in Workers, Turn(w), UNCHANGED parentVars PROVE FailedInv'
  BY <1>1 DEF FailedInv, parentVars
<1>2. ASSUME UNCHANGED parentVars PROVE FailedInv'
  BY <1>2 DEF FailedInv, parentVars
<1>3. ASSUME NEW p \in Runs, Passes(p) PROVE FailedInv'
  <2>1. stage'[p] = "failed" => queued[p] < NumChunks
    <3>1. CASE stage[p] \in RaiseAt
      <4>1. stage[p] \in {"check", "init", "queue"}  BY <3>1, RaiseAssumption
      <4>2. queued[p] = 0 => queued[p] < NumChunks  BY RunsAssumption
      <4> QED BY <4>1, <4>2 DEF ParentInv
    <3>2. CASE stage[p] \notin RaiseAt  BY <3>2, <1>3 DEF Passes, Steps
    <3> QED BY <3>1, <3>2
  <2>2. /\ UNCHANGED queued /\ stage'[p] # "save"
        /\ \A q \in Runs \ {p} : stage'[q] \notin {"failed", "save"}
    BY <1>3 DEF Passes, Steps
  <2> QED BY <2>1, <2>2 DEF FailedInv
<1>4. ASSUME NEW p \in Runs, Stores(p) \/ Queues(p) \/ Saves(p) PROVE FailedInv'
  <2>1. \A q \in Runs : stage'[q] \notin {"failed", "save"}
    BY <1>4 DEF Stores, Queues, Saves, Steps
  <2> QED BY <2>1 DEF FailedInv
<1>5. ASSUME NEW p \in Runs, Reads(p) PROVE FailedInv'
  BY <1>5 DEF Reads, Steps, FailedInv
<1>6. ASSUME NEW p \in Runs, Parent(p) PROVE FailedInv'
  BY <1>3, <1>4, <1>5, <1>6, ParentKinds
<1> QED BY <1>1, <1>2, <1>6, <1>a, TaskTurns

\* A row is not a success when the run that defined its subtasks has failed: the last one
\* was never queued.
LEMMA FailedUnfinished ==
  ASSUME TaskTypeOK, QueuedInv, RowsInv, FailedInv, NEW p \in Runs, stage[p] = "save",
         entry.ids = IdsOf(p)
  PROVE  entry.state # "SUCCESS"
<1> SUFFICES ASSUME entry.state = "SUCCESS" PROVE FALSE  OBVIOUS
<1>1. entry.ids = IdsOf(p)  OBVIOUS
<1>2. IdsOf(p) # {} /\ \A s \in entry.ids : Ready(s)
  BY <1>1, OwnIds DEF RowsInv, LedgerOf, Ready, ReadyIn
<1> DEFINE last == <<p, NumChunks>>
<1>3. last \in IdsOf(p) /\ last \in SubtaskIds
  <2>1. NumChunks \in 1..NumChunks  BY RunsAssumption
  <2> QED BY <2>1, OwnIds
<1>4. last \in QueuedIds  BY <1>1, <1>2, <1>3 DEF QueuedInv
<1>5. NumChunks <= queued[p]  BY <1>4 DEF QueuedIds
<1>6. queued[p] < NumChunks /\ queued[p] \in Int /\ NumChunks \in Int
  BY RunsAssumption DEF FailedInv, TaskTypeOK
<1> QED BY <1>5, <1>6

\* What DecidedIsFinal says of one step.
Decided ==
  /\ entry.state = "SUCCESS" => entry'.state = "SUCCESS" \/ \E p \in Runs : UndoneBy(p)
  /\ entry.state = "FAILURE" /\ entry.ids # {} => entry'.state = "FAILURE"

LEMMA DecidedStep == RowsKept /\ FailedInv /\ [TaskNext]_allVars => Decided
<1> SUFFICES ASSUME RowsKept, FailedInv, [TaskNext]_allVars PROVE Decided  OBVIOUS
<1>a. TypeOK /\ TaskTypeOK /\ ParentInv /\ QueuedInv /\ RowsInv /\ snapshot \in [Runs -> Entry]
  BY DEF RowsKept, TaskTypeOK
<1>1. ASSUME NEW w \in Workers, Turn(w) PROVE Decided
  <2>1. entry.state = "FAILURE" => ~CanRecord(job[w].id)  BY <1>a DEF ParentInv, CanRecord
  <2> QED BY <2>1, <1>1, <1>a, TurnRow DEF Decided
<1>2. ASSUME UNCHANGED entry PROVE Decided  BY <1>2 DEF Decided
<1>3. ASSUME NEW p \in Runs, Stores(p) PROVE Decided
  BY <1>3, <1>a DEF Stores, ParentInv, Decided
<1>4. ASSUME NEW p \in Runs, Saves(p) PROVE Decided
  <2>1. entry.ids = IdsOf(p) => entry.state # "SUCCESS"  BY <1>4, <1>a, FailedUnfinished DEF Saves
  <2>2. entry'.state = "FAILURE" /\ entry'.ids = entry.ids
    BY <1>4, <1>a, FailedRow DEF Saves, ParentInv
  <2>3. entry.ids # IdsOf(p) => UndoneBy(p)  BY <1>4, <2>2 DEF Saves, UndoneBy
  <2> QED BY <2>1, <2>2, <2>3 DEF Decided
<1>5. ASSUME NEW p \in Runs, Parent(p) PROVE Decided
  <2>1. Passes(p) \/ Queues(p) \/ Reads(p) => UNCHANGED entry  BY DEF Passes, Queues, Reads
  <2> QED BY <2>1, <1>2, <1>3, <1>4, <1>5, <1>a, ParentKinds
<1> QED BY <1>1, <1>2, <1>5, <1>a, TaskTurns

-----------------------------------------------------------------------------
(* Each list in one place                                                    *)

\* Nobody is on the lists of two subtasks of one run.
DisjointLists ==
  \A s, t \in SubtaskIds : s[1] = t[1] /\ s # t => Chunk[s] \cap Chunk[t] = {}

\* Whatever is queued is of one run.
LEMMA OneRunQueued ==
  ASSUME TaskTypeOK, QueuedInv, NEW s \in QueuedIds
  PROVE  s \in SubtaskIds /\ s[1] \in Runs /\ entry.ids = IdsOf(s[1])
<1>1. s \in SubtaskIds /\ s[1] \in Runs /\ s[2] \in 1..NumChunks /\ s[2] <= queued[s[1]]
  BY OwnIds DEF QueuedIds
<1>2. queued[s[1]] \in Int /\ s[2] \in Int /\ s[2] >= 1  BY <1>1, RunsAssumption DEF TaskTypeOK
<1>3. queued[s[1]] > 0  BY <1>1, <1>2
<1> QED BY <1>1, <1>3 DEF QueuedInv

\* The lists of two queued subtasks have nobody in common.
LEMMA QueuedApart ==
  ASSUME TaskTypeOK, QueuedInv, DisjointLists, NEW s \in QueuedIds, NEW t \in QueuedIds, s # t
  PROVE  Chunk[s] \cap Chunk[t] = {}
<1>1. s \in SubtaskIds /\ t \in SubtaskIds /\ s[1] \in Runs /\ t[1] \in Runs
      /\ IdsOf(s[1]) = IdsOf(t[1])
  BY OneRunQueued
<1>2. s[1] = t[1]  BY <1>1, OwnIds
<1> QED BY <1>1, <1>2 DEF DisjointLists

LEMMA TokenInit == TaskInit => TokenInv
BY DEF TaskInit, TokenInv, Sends, AtMostOnce

\* TokenInv of the next state.
LEMMA TokensNext ==
  ASSUME \A m, n \in queue' : m.id = n.id => m = n,
         \A m \in queue' : Fresh(sent', m.id, m.toList),
         \A v \in Workers : Sends(pc'[v], job'[v]) =>
           /\ Fresh(sent', job'[v].id, job'[v].toList)
           /\ \A m \in queue' : m.id # job'[v].id
           /\ \A u \in Workers : Sends(pc'[u], job'[u]) /\ job'[u].id = job'[v].id => u = v,
         \A r \in Recipients : sent'[r] <= 1
  PROVE  TokenInv'
BY DEF TokenInv, Fresh, Sends, AtMostOnce
LEMMA TokenNext ==
  ASSUME MaxRedeliveries = 0, DisjointLists
  PROVE  TaskTypeOK /\ ParentInv /\ QueuedInv /\ TokenInv /\ [TaskNext]_allVars => TokenInv'
<1> SUFFICES ASSUME TaskTypeOK, ParentInv, QueuedInv, TokenInv, [TaskNext]_allVars
             PROVE  TokenInv'
  OBVIOUS
<1>a. TypeOK /\ queued \in [Runs -> 0..NumChunks] /\ sent \in [Recipients -> Nat]
  BY DEF TaskTypeOK, TypeOK
<1>b. /\ \A m, n \in queue : m.id = n.id => m = n
      /\ \A m \in queue : Fresh(sent, m.id, m.toList)
      /\ \A v \in Workers : Sends(pc[v], job[v]) =>
           /\ Fresh(sent, job[v].id, job[v].toList)
           /\ \A m \in queue : m.id # job[v].id
           /\ \A u \in Workers : Sends(pc[u], job[u]) /\ job[u].id = job[v].id => u = v
      /\ \A r \in Recipients : sent[r] <= 1
  BY DEF TokenInv, AtMostOnce
<1>c. \A v \in Workers : Sends(pc[v], job[v]) => pc[v] # "idle" /\ job[v].id \in QueuedIds
  BY DEF Sends, QueuedInv
<1>1. ASSUME NEW w \in Workers, OnlyMoves(w), Receives(w) PROVE TokenInv'
  <2>1. PICK m \in queue : job'[w] = NewJob(m) /\ queue' = queue \ {m}
    BY <1>1 DEF Receives
  <2>2. job'[w].id = m.id /\ job'[w].toList = m.toList /\ sent' = sent
    BY <2>1, <1>1 DEF NewJob, Receives
  <2>3. \A v \in Workers \ {w} : pc'[v] = pc[v] /\ job'[v] = job[v]  BY <1>1 DEF OnlyMoves
  <2>4. \A n \in queue' : n \in queue /\ n.id # m.id  BY <2>1, <1>b
  <2>5. \A v \in Workers \ {w} : Sends(pc'[v], job'[v]) => job'[v].id # m.id
    BY <2>3, <1>b
  <2>6. ASSUME NEW v \in Workers, Sends(pc'[v], job'[v])
        PROVE  /\ Fresh(sent', job'[v].id, job'[v].toList)
               /\ \A n \in queue' : n.id # job'[v].id
               /\ \A u \in Workers : Sends(pc'[u], job'[u]) /\ job'[u].id = job'[v].id => u = v
    <3>1. CASE v = w  BY <3>1, <2>2, <2>4, <2>5, <1>b
    <3>2. CASE v # w  BY <3>2, <2>2, <2>3, <2>4, <2>5, <2>6, <1>b
    <3> QED BY <3>1, <3>2
  <2>7. /\ \A n, o \in queue' : n.id = o.id => n = o
        /\ \A n \in queue' : Fresh(sent', n.id, n.toList)
        /\ \A r \in Recipients : sent'[r] <= 1
    BY <2>2, <2>4, <1>b
  <2> QED BY <2>6, <2>7, TokensNext
<1>2. ASSUME NEW w \in Workers, OnlyMoves(w), UNCHANGED <<queue, sent>>,
             Sends(pc'[w], job'[w]) =>
               /\ Sends(pc[w], job[w]) /\ job'[w].id = job[w].id
               /\ job'[w].toList \subseteq job[w].toList
      PROVE  TokenInv'
  <2>1. \A v \in Workers : Sends(pc'[v], job'[v]) =>
          /\ Sends(pc[v], job[v]) /\ job'[v].id = job[v].id
          /\ job'[v].toList \subseteq job[v].toList
    BY <1>2 DEF OnlyMoves
  <2>2. \A v \in Workers : Sends(pc'[v], job'[v]) => Fresh(sent, job'[v].id, job'[v].toList)
    BY <2>1, <1>b DEF Fresh
  <2> QED BY <2>1, <2>2, <1>2, <1>b, TokensNext
<1>3. ASSUME NEW w \in Workers, OnlyMoves(w), Requeues(w) PROVE TokenInv'
  <2> DEFINE m == RetryMessage(job[w])
  <2>1. m.id = job[w].id /\ m.toList = job[w].toList  BY DEF RetryMessage
  <2>2. queue' = queue \cup {m} /\ sent' = sent  BY <1>3 DEF Requeues
  <2> HIDE DEF m
  <2>3. Sends(pc[w], job[w])  BY <1>3 DEF Requeues, Sends
  <2>4. ~Sends(pc'[w], job'[w])  BY <1>3 DEF Requeues, Sends
  <2>5. \A v \in Workers : Sends(pc'[v], job'[v]) =>
          v # w /\ Sends(pc[v], job[v]) /\ job'[v] = job[v] /\ job[v].id # m.id
    BY <2>1, <2>3, <2>4, <1>3, <1>b DEF OnlyMoves
  <2>6. /\ \A n, o \in queue' : n.id = o.id => n = o
        /\ \A n \in queue' : Fresh(sent, n.id, n.toList)
    BY <2>1, <2>2, <2>3, <1>b
  <2>7. \A v \in Workers : Sends(pc'[v], job'[v]) =>
          /\ Fresh(sent, job'[v].id, job'[v].toList)
          /\ \A n \in queue' : n.id # job'[v].id
          /\ \A u \in Workers : Sends(pc'[u], job'[u]) /\ job'[u].id = job'[v].id => u = v
    BY <2>2, <2>5, <1>b
  <2> QED BY <2>2, <2>6, <2>7, <1>b, TokensNext
<1>4. ASSUME NEW w \in Workers, OnlyMoves(w), Mails(w) PROVE TokenInv'
  <2>1. /\ Sends(pc[w], job[w]) /\ queue' = queue /\ job'[w].id = job[w].id
    BY <1>4 DEF Mails, Sends
  <2>2. PICK r \in job[w].toList : /\ job'[w].toList = job[w].toList \ {r}
                                  /\ sent' = [sent EXCEPT ![r] = @ + 1]
    BY <1>4 DEF Mails
  <2>3. /\ r \in Chunk[job[w].id] /\ r \in Recipients /\ sent[r] = 0
        /\ job[w].id \in QueuedIds
    <3>1. job[w].id \in QueuedIds /\ Fresh(sent, job[w].id, job[w].toList)
      BY <2>1, <1>b, <1>c
    <3>2. job[w].id \in SubtaskIds  BY <3>1 DEF QueuedIds
    <3> QED BY <3>1, <3>2, ChunkAssumption DEF Fresh
  <2>4. sent'[r] = 1 /\ \A x \in Recipients : x # r => sent'[x] = sent[x]
    BY <2>2, <2>3, <1>a
  <2>5. \A x \in Recipients : sent'[x] <= 1  BY <2>4, <1>b
  <2>6. ASSUME NEW t \in QueuedIds, t # job[w].id, NEW list, Fresh(sent, t, list)
        PROVE  Fresh(sent', t, list)
    <3>1. Chunk[t] \cap Chunk[job[w].id] = {}  BY <2>3, <2>6, QueuedApart
    <3>2. t \in SubtaskIds  BY DEF QueuedIds
    <3> QED BY <3>1, <3>2, <2>3, <2>4, <2>6, ChunkAssumption DEF Fresh
  <2>7. Fresh(sent', job'[w].id, job'[w].toList)
    <3>1. Fresh(sent, job[w].id, job[w].toList)  BY <2>1, <1>b
    <3>2. job[w].id \in SubtaskIds  BY <2>3 DEF QueuedIds
    <3> QED BY <3>1, <3>2, <2>1, <2>2, <2>4, ChunkAssumption DEF Fresh
  <2>8. \A v \in Workers \ {w} : pc'[v] = pc[v] /\ job'[v] = job[v]  BY <1>4 DEF OnlyMoves
  <2>9. \A n \in queue' : Fresh(sent', n.id, n.toList)
    BY <2>1, <2>6, <1>b DEF QueuedInv
  <2>10. ASSUME NEW v \in Workers, Sends(pc'[v], job'[v])
         PROVE  /\ Fresh(sent', job'[v].id, job'[v].toList)
                /\ Sends(pc[v], job[v]) /\ job'[v].id = job[v].id
    <3>1. CASE v = w  BY <3>1, <2>1, <2>7
    <3>2. CASE v # w
      <4>1. Sends(pc[v], job[v]) /\ job'[v] = job[v]  BY <3>2, <2>8, <2>10
      <4>2. job[v].id # job[w].id /\ job[v].id \in QueuedIds
            /\ Fresh(sent, job[v].id, job[v].toList)
        BY <4>1, <3>2, <2>1, <1>b, <1>c
      <4> QED BY <4>1, <4>2, <2>6
    <3> QED BY <3>1, <3>2
  <2> QED BY <2>1, <2>5, <2>9, <2>10, <1>b, TokensNext
<1>5. ASSUME NEW w \in Workers, Turn(w) PROVE TokenInv'
  <2>1. OnlyMoves(w)  BY <1>5 DEF Turn
  <2>2. CASE Stops(w)
    BY <2>1, <2>2, <1>2 DEF Stops, Sends
  <2>3. CASE Records(w)
    BY <2>1, <2>3, <1>2 DEF Records, Sends
  <2>4. CASE GoesOn(w)
    BY <2>1, <2>4, <1>2 DEF GoesOn
  <2> QED BY <2>1, <2>2, <2>3, <2>4, <1>1, <1>3, <1>4, <1>5 DEF Turn
<1>6. ASSUME UNCHANGED <<queue, pc, job, sent>> PROVE TokenInv'
  BY <1>6, <1>b, TokensNext
<1>7. ASSUME NEW p \in Runs, Queues(p) PROVE TokenInv'
  <2> DEFINE s == <<p, queued[p] + 1>>
             m == NewMessage(s)
  <2>1. queued[p] < NumChunks /\ entry.ids = IdsOf(p) /\ queued[p] \in Nat
    BY <1>7, <1>a DEF ParentInv, Queues
  <2>2. queued[p] + 1 \in 1..NumChunks  BY <2>1, RunsAssumption
  <2>3. s \in SubtaskIds /\ s[1] = p  BY <2>2, OwnIds
  <2>4. s \notin QueuedIds  BY <2>1 DEF QueuedIds
  <2>5. m.id = s /\ m.toList = Chunk[s]  BY DEF NewMessage
  <2>6. queue' = queue \cup {m} /\ UNCHANGED <<pc, job, sent>>  BY <1>7 DEF Queues
  <2> HIDE DEF s, m
  <2>7. \A t \in QueuedIds : Chunk[s] \cap Chunk[t] = {}
    <3> TAKE t \in QueuedIds
    <3>1. t \in SubtaskIds /\ t[1] \in Runs /\ entry.ids = IdsOf(t[1])  BY OneRunQueued
    <3>2. t[1] = s[1]  BY <3>1, <2>1, <2>3, OwnIds
    <3>3. t # s  BY <2>4
    <3> QED BY <3>1, <3>2, <3>3, <2>3 DEF DisjointLists
  <2>8. Fresh(sent, s, Chunk[s])
    <3>1. Chunk[s] \in SUBSET Recipients  BY <2>3, ChunkAssumption
    <3>2. ASSUME NEW r \in Chunk[s] PROVE sent[r] = 0
      <4>1. r \in Recipients /\ sent[r] \in Nat  BY <3>1, <1>a
      <4>2. ~(sent[r] > 0)  BY <4>1, <2>7 DEF QueuedInv
      <4> QED BY <4>1, <4>2
    <3> QED BY <3>2 DEF Fresh
  <2>9. (\A n \in queue : n.id # s) /\ \A v \in Workers : Sends(pc[v], job[v]) => job[v].id # s
    BY <2>4, <1>c DEF QueuedInv
  <2>10. /\ \A n, o \in queue' : n.id = o.id => n = o
         /\ \A n \in queue' : Fresh(sent, n.id, n.toList)
    BY <2>5, <2>6, <2>8, <2>9, <1>b
  <2>11. \A v \in Workers : Sends(pc[v], job[v]) => \A n \in queue' : n.id # job[v].id
    BY <2>5, <2>6, <2>9, <1>b
  <2> QED BY <2>6, <2>10, <2>11, <1>b, TokensNext
<1>8. ASSUME NEW p \in Runs, Parent(p) PROVE TokenInv'
  <2>1. Passes(p) \/ Stores(p) \/ Reads(p) \/ Saves(p) => UNCHANGED <<queue, pc, job, sent>>
    BY DEF Passes, Stores, Reads, Saves
  <2> QED BY <2>1, <1>6, <1>7, <1>8, ParentKinds
<1> QED BY <1>5, <1>6, <1>8, <1>a, TaskTurns

-----------------------------------------------------------------------------
(* The theorems                                                              *)

\* The row, the messages, the parents and their copies stay within their types,
\* whatever is delivered twice, raises or dies (perform_delegate_email_batches,
\* on_failure, _update_subtask_status).
THEOREM TaskTypesCorrect == TaskSpec => []TaskTypeOK
BY TypesKept, PTL

\* The counters by which the row decides its completion count the subtasks whose
\* outcome it holds, although on_failure writes back a copy that may be behind the
\* row, parents and workers die, messages come twice and saves fail: no outcome is
\* counted twice, and the row succeeds with its last one (_update_subtask_status,
\* update_task_status of on_failure).
THEOREM TaskLedgerTrue == ~Overlap /\ TaskSpec => []LedgerAgrees
<1> SUFFICES ASSUME ~Overlap PROVE TaskSpec => []LedgerAgrees  OBVIOUS
<1>1. RowsKept => LedgerAgrees
  BY DEF RowsKept, RowsInv, LedgerOf, WithIn, ReadyIn, Ready, LedgerAgrees
<1> QED BY <1>1, RowsAlwaysKept, PTL

\* The lists of every run reach everybody (_generate_items_for_subtask).
ListsCover == \A p \in Runs : UNION {Chunk[s] : s \in IdsOf(p)} = Recipients

\* A row that says SUCCESS has the outcome of everybody's subtask, although subtasks
\* finish while the parent still queues others (initialize_subtask_info).
THEOREM SuccessAlwaysComplete == ~Overlap /\ ListsCover /\ TaskSpec => []SuccessComplete
<1> SUFFICES ASSUME ~Overlap, ListsCover PROVE TaskSpec => []SuccessComplete  OBVIOUS
<1>1. ASSUME RowsKept, entry.state = "SUCCESS"
      PROVE  Recipients = UNION {Chunk[s] : s \in {i \in entry.ids : Ready(i)}}
  <2>1. PICK p \in Runs : entry.ids = IdsOf(p)  BY <1>1 DEF RowsKept, ParentInv
  <2>2. IdsOf(p) # {}  BY OwnIds
  <2>3. \A s \in entry.ids : Ready(s)
    BY <1>1, <2>1, <2>2 DEF RowsKept, RowsInv, LedgerOf, ReadyIn, Ready
  <2>4. {i \in entry.ids : Ready(i)} = IdsOf(p)  BY <2>1, <2>3
  <2> QED BY <2>4 DEF ListsCover
<1>2. RowsKept => SuccessComplete  BY <1>1 DEF SuccessComplete
<1> QED BY <1>2, RowsAlwaysKept, PTL

\* Wherever the parent raises, the delivery of it that queued the subtasks never takes
\* back a success, as it fails only with a subtask left to queue; only one that has not
\* looked at the row can (on_failure after tasks.py:164-184).  A failed row has lost its
\* progress, so that no outcome and no other delivery revives it.
THEOREM DecisionsFinal == ~Overlap /\ TaskSpec => DecidedIsFinal
<1> SUFFICES ASSUME ~Overlap PROVE TaskSpec => DecidedIsFinal  OBVIOUS
<1>1. TaskInit => FailedInv  BY DEF TaskInit, FailedInv
<1>2. RowsKept /\ FailedInv /\ [TaskNext]_allVars => FailedInv'
  BY FailedNext DEF RowsKept
<1>3. RowsKept /\ FailedInv /\ [TaskNext]_allVars =>
        [/\ entry.state = "SUCCESS" => entry'.state = "SUCCESS" \/ \E p \in Runs : UndoneBy(p)
         /\ entry.state = "FAILURE" /\ entry.ids # {} => entry'.state = "FAILURE"]_allVars
  BY DecidedStep DEF Decided
<1> QED BY <1>1, <1>2, <1>3, RowsAlwaysKept, PTL DEF TaskSpec, DecidedIsFinal

\* Where the broker delivers no message of a subtask twice, nobody is mailed twice,
\* however many runs the parent has, wherever they raise or die, and without any help
\* of the row or the lock: a run queues a list once, and only one run queues any.
THEOREM MailedOnceUnderParent == MaxRedeliveries = 0 /\ DisjointLists /\ TaskSpec => []AtMostOnce
<1> SUFFICES ASSUME MaxRedeliveries = 0, DisjointLists PROVE TaskSpec => []AtMostOnce  OBVIOUS
<1>1. TaskInit => QueuedInv /\ TokenInv  BY QueuedInit, TokenInit
<1>2. TaskTypeOK /\ ParentInv /\ QueuedInv /\ TokenInv /\ [TaskNext]_allVars
        => QueuedInv' /\ TokenInv'
  BY QueuedNext, TokenNext
<1>3. TokenInv => AtMostOnce  BY DEF TokenInv
<1> QED BY <1>1, <1>2, <1>3, TypesKept, PTL DEF TaskSpec
=============================================================================
