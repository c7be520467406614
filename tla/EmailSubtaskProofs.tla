------------------------- MODULE EmailSubtaskProofs -------------------------
(* Theorems about EmailSubtask, for every number of subtasks, recipients and *)
(* workers and every value of the bounds.                                    *)
EXTENDS EmailSubtaskRefinement, FiniteSetTheorems, TLAPS

-----------------------------------------------------------------------------
(* The operators on statuses, messages and jobs have their types.            *)

\* Every change SubtaskStatus.increment makes to a status gives a status.
LEMMA StatusType ==
  ASSUME NEW status \in SubtaskStatus, NEW n \in Nat
  PROVE  /\ Succeed(status) \in SubtaskStatus
         /\ Fail(status, n) \in SubtaskStatus
         /\ Skip(status, n) \in SubtaskStatus
         /\ FailWith(status, n) \in SubtaskStatus
         /\ RetryNoMax(status) \in SubtaskStatus
         /\ RetryMax(status) \in SubtaskStatus
         /\ [status EXCEPT !.state = "SUCCESS"] \in SubtaskStatus
         /\ RetryCount(status) \in Nat
<1>1. Succeed(status) \in SubtaskStatus             BY DEF SubtaskStatus, Succeed
<1>2. Fail(status, n) \in SubtaskStatus             BY DEF SubtaskStatus, Fail
<1>3. Skip(status, n) \in SubtaskStatus             BY DEF SubtaskStatus, Skip
<1>4. FailWith(status, n) \in SubtaskStatus
  <2>1. [[status EXCEPT !.failed = @ + n] EXCEPT !.state = "FAILURE"] \in SubtaskStatus
    BY <1>2 DEF SubtaskStatus, States, Fail
  <2> QED BY <2>1 DEF FailWith, SubtaskStatus
<1>5. RetryNoMax(status) \in SubtaskStatus
  <2>1. [status EXCEPT !.nomax = @ + 1] \in SubtaskStatus  BY DEF SubtaskStatus
  <2>2. [[status EXCEPT !.nomax = @ + 1] EXCEPT !.state = "RETRY"] \in SubtaskStatus
    BY <2>1 DEF SubtaskStatus, States
  <2> QED BY <2>2 DEF RetryNoMax, SubtaskStatus
<1>6. RetryMax(status) \in SubtaskStatus
  <2>1. [status EXCEPT !.withmax = @ + 1] \in SubtaskStatus  BY DEF SubtaskStatus
  <2>2. [[status EXCEPT !.withmax = @ + 1] EXCEPT !.state = "RETRY"] \in SubtaskStatus
    BY <2>1 DEF SubtaskStatus, States
  <2> QED BY <2>2 DEF RetryMax, SubtaskStatus
<1>7. [status EXCEPT !.state = "SUCCESS"] \in SubtaskStatus
  BY DEF SubtaskStatus, States
<1>8. RetryCount(status) \in Nat                    BY DEF SubtaskStatus, RetryCount
<1> QED BY <1>1, <1>2, <1>3, <1>4, <1>5, <1>6, <1>7, <1>8

\* A status fresh from SubtaskStatus.create is a status.
LEMMA NewStatusType == NewStatus \in SubtaskStatus
BY DEF NewStatus, SubtaskStatus, States

\* Recipient lists are finite: their lengths are natural numbers.
LEMMA LengthType == \A list \in SUBSET Recipients : Cardinality(list) \in Nat
BY RecipientsAssumption, FS_Subset, FS_CardinalityType

\* Recording a final or intermediate status keeps the row well-formed.
LEMMA RecordType ==
  ASSUME entry \in Entry, NEW s \in SubtaskIds, NEW status \in SubtaskStatus
  PROVE  RecordStatus(s, status) \in Entry
<1> DEFINE succeeded == entry.succeeded + (IF status.state = "SUCCESS" THEN 1 ELSE 0)
           failed    == entry.failed + (IF status.state = "FAILURE" THEN 1 ELSE 0)
<1>1. AddProgress(entry.progress, status) \in Progress
  <2> DEFINE p == entry.progress
  <2>1. p \in Progress  BY DEF Entry
  <2>2. status.succeeded \in Nat /\ status.failed \in Nat /\ status.skipped \in Nat
    BY DEF SubtaskStatus
  <2> HIDE DEF p
  <2>3. \A q \in Progress, n \in Nat : /\ [q EXCEPT !.succeeded = n] \in Progress
                                       /\ [q EXCEPT !.failed = n] \in Progress
                                       /\ [q EXCEPT !.skipped = n] \in Progress
    BY DEF Progress
  <2>4. p.succeeded \in Nat /\ p.failed \in Nat /\ p.skipped \in Nat
    BY <2>1 DEF Progress
  <2> DEFINE p1 == [p EXCEPT !.succeeded = p.succeeded + status.succeeded]
             p2 == [p1 EXCEPT !.failed = p.failed + status.failed]
             p3 == [p2 EXCEPT !.skipped = p.skipped + status.skipped]
  <2>5. p.succeeded + status.succeeded \in Nat /\ p.failed + status.failed \in Nat
          /\ p.skipped + status.skipped \in Nat
    BY <2>2, <2>4
  <2>6. p1 \in Progress  BY <2>1, <2>3, <2>5
  <2>7. p2 \in Progress
    <3> HIDE DEF p1
    <3> QED BY <2>6, <2>3, <2>5
  <2>8. p3 \in Progress
    <3> HIDE DEF p2
    <3> QED BY <2>7, <2>3, <2>5
  <2>9. AddProgress(p, status) \in Progress
    BY <2>1, <2>8 DEF AddProgress
  <2> QED BY <2>9 DEF p
<1>2. succeeded \in Nat /\ failed \in Nat
  BY DEF Entry
<1>3. [entry.status EXCEPT ![s] = status] \in [SubtaskIds -> SubtaskStatus]
  BY DEF Entry
<1>4. (IF AllDone(succeeded, failed) THEN "SUCCESS" ELSE entry.state)
        \in {"QUEUING", "PROGRESS", "SUCCESS", "FAILURE"}
  BY DEF Entry
<1> HIDE DEF succeeded, failed
<1>5. [entry EXCEPT !.status = [entry.status EXCEPT ![s] = status],
                    !.progress = AddProgress(entry.progress, status),
                    !.succeeded = succeeded, !.failed = failed,
                    !.state = IF AllDone(succeeded, failed) THEN "SUCCESS" ELSE entry.state]
        \in Entry
  BY <1>1, <1>2, <1>3, <1>4 DEF Entry
<1> QED
  BY <1>5 DEF RecordStatus, succeeded, failed

\* What recording a status leaves in the row, field by field.
LEMMA RecordFields ==
  ASSUME entry \in Entry, NEW s \in SubtaskIds, NEW status \in SubtaskStatus
  PROVE  LET new       == RecordStatus(s, status)
             succeeded == entry.succeeded + (IF status.state = "SUCCESS" THEN 1 ELSE 0)
             failed    == entry.failed + (IF status.state = "FAILURE" THEN 1 ELSE 0)
         IN  /\ new.ids = entry.ids
             /\ new.status = [entry.status EXCEPT ![s] = status]
             /\ new.succeeded = succeeded /\ new.failed = failed
             /\ new.state = IF AllDone(succeeded, failed) THEN "SUCCESS" ELSE entry.state
             /\ new.progress.valid = entry.progress.valid
             /\ new.progress.succeeded = entry.progress.succeeded
                  + (IF status.state \in ReadyStates THEN status.succeeded ELSE 0)
<1> DEFINE succeeded == entry.succeeded + (IF status.state = "SUCCESS" THEN 1 ELSE 0)
           failed    == entry.failed + (IF status.state = "FAILURE" THEN 1 ELSE 0)
           progress  == AddProgress(entry.progress, status)
           state     == IF AllDone(succeeded, failed) THEN "SUCCESS" ELSE entry.state
           statuses  == [entry.status EXCEPT ![s] = status]
           new == [entry EXCEPT !.status = statuses, !.progress = progress,
                                !.succeeded = succeeded, !.failed = failed, !.state = state]
<1>1. RecordStatus(s, status) = new  BY DEF RecordStatus
<1>2. /\ progress.valid = entry.progress.valid
      /\ progress.succeeded = entry.progress.succeeded
           + (IF status.state \in ReadyStates THEN status.succeeded ELSE 0)
  <2> DEFINE p  == entry.progress
             p1 == [p EXCEPT !.succeeded = p.succeeded + status.succeeded]
             p2 == [p1 EXCEPT !.failed = p.failed + status.failed]
             p3 == [p2 EXCEPT !.skipped = p.skipped + status.skipped]
  <2>1. p \in Progress  BY DEF Entry
  <2>2. \A q \in Progress, n \in Nat :
          /\ [q EXCEPT !.succeeded = n] \in Progress
          /\ [q EXCEPT !.succeeded = n].valid = q.valid /\ [q EXCEPT !.succeeded = n].succeeded = n
          /\ [q EXCEPT !.failed = n] \in Progress
          /\ [q EXCEPT !.failed = n].valid = q.valid
          /\ [q EXCEPT !.failed = n].succeeded = q.succeeded
          /\ [q EXCEPT !.skipped = n] \in Progress
          /\ [q EXCEPT !.skipped = n].valid = q.valid
          /\ [q EXCEPT !.skipped = n].succeeded = q.succeeded
    BY DEF Progress
  <2> HIDE DEF p
  <2>3. /\ p.succeeded \in Nat
        /\ p.succeeded + status.succeeded \in Nat /\ p.failed + status.failed \in Nat
        /\ p.skipped + status.skipped \in Nat
    BY <2>1 DEF Progress, SubtaskStatus
  <2>4. p1 \in Progress /\ p1.valid = p.valid /\ p1.succeeded = p.succeeded + status.succeeded
    BY <2>1, <2>2, <2>3
  <2>5. p2 \in Progress /\ p2.valid = p1.valid /\ p2.succeeded = p1.succeeded
    <3> HIDE DEF p1
    <3> QED BY <2>2, <2>3, <2>4
  <2>6. p3.valid = p2.valid /\ p3.succeeded = p2.succeeded
    <3> HIDE DEF p2
    <3> QED BY <2>2, <2>3, <2>5
  <2>7. AddProgress(p, status) = IF status.state \in ReadyStates THEN p3 ELSE p
    BY DEF AddProgress
  <2> HIDE DEF p1, p2, p3
  <2>8. /\ AddProgress(p, status).valid = p.valid
        /\ AddProgress(p, status).succeeded
             = p.succeeded + (IF status.state \in ReadyStates THEN status.succeeded ELSE 0)
    BY <2>3, <2>4, <2>5, <2>6, <2>7
  <2> QED BY <2>8 DEF p
<1> HIDE DEF succeeded, failed, progress, state, statuses
<1>3. /\ new.ids = entry.ids /\ new.status = statuses /\ new.progress = progress
      /\ new.succeeded = succeeded /\ new.failed = failed /\ new.state = state
  BY DEF Entry
<1> HIDE DEF new
<1> QED BY <1>1, <1>2, <1>3 DEF statuses, succeeded, failed, state

-----------------------------------------------------------------------------
(* How a step of a worker changes pc and job                                 *)

WorkersOK ==
  /\ pc \in [Workers -> Stages]
  /\ job \in [Workers -> Job \cup {NoJob}]
  /\ \A w \in Workers : pc[w] # "idle" => job[w] \in Job

\* Any change of one worker's stage and job that leaves a job under way well-formed.
LEMMA WorkerStep ==
  ASSUME WorkersOK, NEW w \in Workers, NEW stage \in Stages, NEW j \in Job,
         pc' = [pc EXCEPT ![w] = stage], job' = [job EXCEPT ![w] = j]
  PROVE  WorkersOK'
BY DEF WorkersOK

\* A worker that has finished is idle.
LEMMA FinishStep ==
  ASSUME WorkersOK, NEW w \in Workers, Finish(w)
  PROVE  WorkersOK'
BY DEF WorkersOK, Finish, Goto, SetJob, Stages

\* Moving on with the same job.
LEMMA StageStep ==
  ASSUME WorkersOK, NEW w \in Workers, NEW stage \in Stages, pc[w] # "idle",
         Goto(w, stage), UNCHANGED job
  PROVE  WorkersOK'
BY DEF WorkersOK, Goto

\* Changing the job within a stage.
LEMMA JobStep ==
  ASSUME WorkersOK, NEW w \in Workers, NEW j \in Job, SetJob(w, j), UNCHANGED pc
  PROVE  WorkersOK'
BY DEF WorkersOK, SetJob

\* The fields of a job can be changed one by one.
LEMMA JobType ==
  ASSUME NEW j \in Job
  PROVE  /\ j.id \in SubtaskIds /\ j.toList \in SUBSET Recipients
         /\ j.status \in SubtaskStatus /\ j.numToSend \in Nat
         /\ j.retries \in Nat /\ j.maxRetries \in Nat /\ j.depth \in Nat
         /\ \A list \in SUBSET Recipients : [j EXCEPT !.toList = list] \in Job
         /\ \A status \in SubtaskStatus : [j EXCEPT !.status = status] \in Job
         /\ \A n \in Nat : [j EXCEPT !.maxRetries = n] \in Job
         /\ \A next \in Continuations : [j EXCEPT !.then = next] \in Job
         /\ \A n \in Nat : [j EXCEPT !.depth = n] \in Job
BY DEF Job

\* Saving a status is a well-formed step of the worker.
LEMMA SaveStep ==
  ASSUME WorkersOK, NEW w \in Workers, NEW j \in Job, NEW status \in SubtaskStatus,
         NEW next \in Continuations, SaveThen(w, j, status, next)
  PROVE  WorkersOK'
<1> DEFINE j1 == [j EXCEPT !.status = status]
           j2 == [j1 EXCEPT !.then = next]
           j3 == [j2 EXCEPT !.depth = 0]
<1>1. j1 \in Job  BY JobType
<1>2. j2 \in Job
  <2> HIDE DEF j1
  <2> QED BY <1>1, JobType
<1>3. j3 \in Job
  <2> HIDE DEF j2
  <2> QED BY <1>2, JobType
<1>4. job' = [job EXCEPT ![w] = j3] /\ pc' = [pc EXCEPT ![w] = "update"]
  BY DEF SaveThen, Goto, SetJob
<1>5. "update" \in Stages  BY DEF Stages
<1> HIDE DEF j3
<1> QED BY <1>3, <1>4, <1>5, WorkerStep

\* So is the handler of unexpected exceptions.
LEMMA UnexpectedStep ==
  ASSUME WorkersOK, NEW w \in Workers, pc[w] # "idle", Unexpected(w)
  PROVE  WorkersOK'
<1>1. job[w] \in Job  BY DEF WorkersOK
<1>2. FailWith(job[w].status, job[w].numToSend) \in SubtaskStatus
  BY <1>1, JobType, StatusType
<1>3. "end" \in Continuations  BY DEF Continuations
<1> QED BY <1>1, <1>2, <1>3, SaveStep DEF Unexpected

\* So is closing the connection.
LEMMA CloseStep ==
  ASSUME WorkersOK, NEW w \in Workers, NEW j \in Job, NEW next \in Continuations,
         CloseThen(w, j, next)
  PROVE  WorkersOK'
<1>1. [j EXCEPT !.then = next] \in Job  BY JobType
<1>2. "close" \in Stages  BY DEF Stages
<1> QED BY <1>1, <1>2, WorkerStep DEF CloseThen, Goto, SetJob

-----------------------------------------------------------------------------
(* Type correctness                                                          *)

\* The initial messages and row are well-formed.
LEMMA InitType == Init => TypeOK
<1> SUFFICES ASSUME Init PROVE TypeOK  OBVIOUS
<1>1. entry \in Entry
  <2>1. ZeroProgress \in Progress  BY DEF ZeroProgress, NoProgress, Progress
  <2> QED BY <2>1, NewStatusType DEF Init, InitializeSubtaskInfo, Entry
<1>2. queue \subseteq Message
  <2>1. ASSUME NEW s \in SubtaskIds PROVE NewMessage(s) \in Message
    BY NewStatusType, ChunkAssumption DEF NewMessage, Message
  <2> QED BY <2>1 DEF Init
<1>3. WorkersOK
  BY DEF Init, WorkersOK, Stages
<1>4. lock \in [SubtaskIds -> Workers \cup {Free, Orphan}]
  BY DEF Init
<1>5. faults \in Faults
  BY BoundsAssumption DEF Init, NoFaults, Faults
<1> QED BY <1>1, <1>2, <1>3, <1>4, <1>5 DEF TypeOK, WorkersOK, Init

\* Counting one more fault below its bound.
LEMMA FaultType ==
  ASSUME faults \in Faults
  PROVE  /\ faults.mail < MaxMailErrors => [faults EXCEPT !.mail = @ + 1] \in Faults
         /\ faults.redelivered < MaxRedeliveries => [faults EXCEPT !.redelivered = @ + 1] \in Faults
         /\ faults.db < MaxDbErrors => [faults EXCEPT !.db = @ + 1] \in Faults
         /\ faults.crashed < MaxCrashes => [faults EXCEPT !.crashed = @ + 1] \in Faults
BY BoundsAssumption DEF Faults

\* Receiving a message starts a well-formed job.
LEMMA StartType ==
  ASSUME TypeOK, NEW w \in Workers, NEW m \in queue, Start(w, m)
  PROVE  WorkersOK'
<1>1. m \in Message  BY DEF TypeOK
<1>2. Cardinality(m.toList) \in Nat  BY <1>1, LengthType DEF Message
<1>3. NewJob(m) \in Job  BY <1>1, <1>2 DEF NewJob, Job, Message, Continuations
<1>4. "check" \in Stages  BY DEF Stages
<1>5. WorkersOK  BY DEF TypeOK, WorkersOK
<1> QED BY <1>3, <1>4, <1>5, WorkerStep DEF Start, Goto, SetJob

\* A temporary error passes a well-formed job on to the saving.
LEMMA SubmitType ==
  ASSUME TypeOK, NEW w \in Workers, pc[w] # "idle", NEW status \in SubtaskStatus,
         NEW maxRetries \in Nat, SubmitForRetry(w, status, maxRetries)
  PROVE  WorkersOK' /\ faults' \in Faults
<1>1. WorkersOK /\ job[w] \in Job /\ faults \in Faults  BY DEF TypeOK, WorkersOK
<1>2. [job[w] EXCEPT !.maxRetries = maxRetries] \in Job  BY <1>1, JobType
<1>3. "retry" \in Continuations  BY DEF Continuations
<1>4. WorkersOK'  BY <1>1, <1>2, <1>3, SaveStep DEF SubmitForRetry
<1>5. faults' \in Faults  BY <1>1, FaultType DEF SubmitForRetry
<1> QED BY <1>4, <1>5

\* The retry limits are numbers.
LEMMA LimitType ==
  ASSUME NEW status \in SubtaskStatus
  PROVE  LimitedMax(status) \in Nat /\ CappedMax(status) \in Nat
BY BoundsAssumption DEF LimitedMax, CappedMax, SmallerOf, SubtaskStatus

\* Every step keeps every variable in its type.
LEMMA NextType == TypeOK /\ [Next]_vars => TypeOK'
<1> SUFFICES ASSUME TypeOK, [Next]_vars PROVE TypeOK'  OBVIOUS
<1>a. /\ entry \in Entry /\ queue \subseteq Message /\ WorkersOK
      /\ lock \in [SubtaskIds -> Workers \cup {Free, Orphan}]
      /\ optouts \subseteq Recipients /\ sent \in [Recipients -> Nat] /\ faults \in Faults
  BY DEF TypeOK, WorkersOK
<1>b. \A w \in Workers : pc[w] # "idle" => job[w] \in Job  BY <1>a DEF WorkersOK
<1>t. (/\ entry \in Entry /\ queue \subseteq Message /\ WorkersOK
       /\ lock \in [SubtaskIds -> Workers \cup {Free, Orphan}]
       /\ optouts \subseteq Recipients /\ sent \in [Recipients -> Nat] /\ faults \in Faults)'
        => TypeOK'
  BY DEF TypeOK, WorkersOK
<1>1. ASSUME NEW w \in Workers, NEW m \in queue, Deliver(w, m) PROVE TypeOK'
  BY <1>1, <1>a, <1>t, StartType DEF Deliver, Start
<1>2. ASSUME NEW w \in Workers, NEW m \in queue, Redeliver(w, m) PROVE TypeOK'
  BY <1>2, <1>a, <1>t, StartType, FaultType DEF Redeliver, Start
<1>3. ASSUME NEW w \in Workers, CheckSubtaskIsValid(w) PROVE TypeOK'
  <2>1. WorkersOK'
    BY <1>3, <1>a, FinishStep, StageStep DEF CheckSubtaskIsValid, Stages
  <2> QED BY <2>1, <1>3, <1>a, <1>t DEF CheckSubtaskIsValid
<1>4. ASSUME NEW w \in Workers, AcquireSubtaskLock(w) PROVE TypeOK'
  <2>1. WorkersOK'
    BY <1>4, <1>a, FinishStep, StageStep DEF AcquireSubtaskLock, Stages
  <2>2. lock' \in [SubtaskIds -> Workers \cup {Free, Orphan}]
    BY <1>4, <1>a DEF AcquireSubtaskLock
  <2> QED BY <2>1, <2>2, <1>4, <1>a, <1>t DEF AcquireSubtaskLock
<1>5. ASSUME NEW w \in Workers, FilterOptouts(w) PROVE TypeOK'
  <2> DEFINE j  == job[w]
             j1 == [j EXCEPT !.toList = WithoutOptouts(j.toList)]
             st == Skip(j.status, Cardinality(j.toList \cap optouts))
             j2 == [j1 EXCEPT !.status = st]
  <2>1. j \in Job  BY <1>5, <1>b DEF FilterOptouts
  <2>2. j1 \in Job  BY <2>1, JobType DEF WithoutOptouts
  <2>3. st \in SubtaskStatus
    <3>1. Cardinality(j.toList \cap optouts) \in Nat  BY <2>1, JobType, LengthType
    <3> QED BY <3>1, <2>1, JobType, StatusType
  <2>4. j2 \in Job
    <3> HIDE DEF j1, st
    <3> QED BY <2>2, <2>3, JobType
  <2>5. "open" \in Stages  BY DEF Stages
  <2>6. WorkersOK'
    <3>1. CASE RetryCount(j.status) = 0
      <4>1. SetJob(w, j2) /\ Goto(w, "open")  BY <3>1, <1>5 DEF FilterOptouts
      <4> HIDE DEF j2
      <4> QED BY <4>1, <2>4, <2>5, <1>a, WorkerStep DEF SetJob, Goto
    <3>2. CASE RetryCount(j.status) # 0
      BY <3>2, <1>5, <2>5, <1>a, StageStep DEF FilterOptouts
    <3> QED BY <3>1, <3>2
  <2> QED BY <2>6, <1>5, <1>a, <1>t DEF FilterOptouts
<1>6. ASSUME NEW w \in Workers, EmailMissing(w) PROVE TypeOK'
  BY <1>6, <1>a, <1>t, UnexpectedStep DEF EmailMissing
<1>7. ASSUME NEW w \in Workers, OpenConnection(w) PROVE TypeOK'
  <2>1. WorkersOK'  BY <1>7, <1>a, StageStep DEF OpenConnection, Stages
  <2> QED BY <2>1, <1>7, <1>a, <1>t DEF OpenConnection
<1>8. ASSUME NEW w \in Workers, NEW r \in Recipients, SendMessage(w, r) PROVE TypeOK'
  <2> DEFINE j1 == [job[w] EXCEPT !.toList = job[w].toList \ {r}]
             j2 == [j1 EXCEPT !.status = Succeed(job[w].status)]
  <2>1. job[w] \in Job  BY <1>8, <1>b DEF SendMessage
  <2>2. j1 \in Job  BY <2>1, JobType
  <2>3. Succeed(job[w].status) \in SubtaskStatus  BY <2>1, JobType, StatusType
  <2>4. j2 \in Job
    <3> HIDE DEF j1
    <3> QED BY <2>2, <2>3, JobType
  <2>5. SetJob(w, j2)  BY <1>8 DEF SendMessage
  <2>6. WorkersOK'
    <3> HIDE DEF j2
    <3> QED BY <2>4, <2>5, <1>8, <1>a, JobStep DEF SendMessage
  <2>7. sent' \in [Recipients -> Nat]  BY <1>8, <1>a DEF SendMessage
  <2> QED BY <2>6, <2>7, <1>8, <1>a, <1>t DEF SendMessage
<1>9. ASSUME NEW w \in Workers, NEW r \in Recipients, RecipientRefused(w, r) PROVE TypeOK'
  <2> DEFINE j1 == [job[w] EXCEPT !.toList = job[w].toList \ {r}]
             j2 == [j1 EXCEPT !.status = Fail(job[w].status, 1)]
  <2>1. job[w] \in Job  BY <1>9, <1>b DEF RecipientRefused
  <2>2. j1 \in Job  BY <2>1, JobType
  <2>3. Fail(job[w].status, 1) \in SubtaskStatus  BY <2>1, JobType, StatusType
  <2>4. j2 \in Job
    <3> HIDE DEF j1
    <3> QED BY <2>2, <2>3, JobType
  <2>5. SetJob(w, j2)  BY <1>9 DEF RecipientRefused
  <2>6. WorkersOK'
    <3> HIDE DEF j2
    <3> QED BY <2>4, <2>5, <1>9, <1>a, JobStep DEF RecipientRefused
  <2> QED BY <2>6, <1>9, <1>a, <1>t DEF RecipientRefused
<1>10. ASSUME NEW w \in Workers, Throttled(w) PROVE TypeOK'
  <2>1. RetryNoMax(job[w].status) \in SubtaskStatus
    BY <1>10, <1>b, JobType, StatusType DEF Throttled
  <2>2. WorkersOK' /\ faults' \in Faults
    BY <2>1, <1>10, LimitType, SubmitType DEF Throttled
  <2> QED BY <2>2, <1>10, <1>a, <1>t DEF Throttled
<1>11. ASSUME NEW w \in Workers, Disconnected(w) PROVE TypeOK'
  <2>1. RetryMax(job[w].status) \in SubtaskStatus
    BY <1>11, <1>b, JobType, StatusType DEF Disconnected
  <2>2. WorkersOK' /\ faults' \in Faults
    BY <2>1, <1>11, LimitType, SubmitType DEF Disconnected
  <2> QED BY <2>2, <1>11, <1>a, <1>t DEF Disconnected
<1>12. ASSUME NEW w \in Workers, SendingImpossible(w) PROVE TypeOK'
  <2>1. job[w] \in Job  BY <1>12, <1>b DEF SendingImpossible
  <2>2. FailWith(job[w].status, Cardinality(job[w].toList)) \in SubtaskStatus
    BY <2>1, JobType, StatusType, LengthType
  <2>3. [job[w] EXCEPT !.status = FailWith(job[w].status, Cardinality(job[w].toList))] \in Job
    BY <2>1, <2>2, JobType
  <2>4. WorkersOK'
    BY <2>3, <1>12, <1>a, CloseStep DEF SendingImpossible, Continuations
  <2> QED BY <2>4, <1>12, <1>a, <1>t DEF SendingImpossible
<1>13. ASSUME NEW w \in Workers, AllSent(w) PROVE TypeOK'
  <2>1. job[w] \in Job  BY <1>13, <1>b DEF AllSent
  <2>2. [job[w].status EXCEPT !.state = "SUCCESS"] \in SubtaskStatus
    BY <2>1, JobType, StatusType
  <2>3. [job[w] EXCEPT !.status = [job[w].status EXCEPT !.state = "SUCCESS"]] \in Job
    BY <2>1, <2>2, JobType
  <2>4. WorkersOK'
    BY <2>3, <1>13, <1>a, CloseStep DEF AllSent, Continuations
  <2> QED BY <2>4, <1>13, <1>a, <1>t DEF AllSent
<1>14. ASSUME NEW w \in Workers, CloseConnection(w) PROVE TypeOK'
  <2>1. job[w] \in Job /\ job[w].status \in SubtaskStatus
    BY <1>14, <1>b, JobType DEF CloseConnection
  <2>2. WorkersOK'
    BY <2>1, <1>14, <1>a, FinishStep, SaveStep DEF CloseConnection, Continuations
  <2> QED BY <2>2, <1>14, <1>a, <1>t DEF CloseConnection
<1>15. ASSUME NEW w \in Workers, CloseRaises(w) PROVE TypeOK'
  BY <1>15, <1>a, <1>t, UnexpectedStep DEF CloseRaises
<1>16. ASSUME NEW w \in Workers, UpdateSubtaskStatus(w) PROVE TypeOK'
  <2>1. job[w] \in Job  BY <1>16, <1>b DEF UpdateSubtaskStatus
  <2>2. entry' \in Entry
    BY <2>1, <1>16, <1>a, JobType, RecordType DEF UpdateSubtaskStatus
  <2>3. WorkersOK'
    BY <2>1, <1>16, <1>a, WorkerStep DEF UpdateSubtaskStatus, Release, Goto, SetJob, Stages
  <2> QED BY <2>2, <2>3, <1>16, <1>a, <1>t DEF UpdateSubtaskStatus
<1>17. ASSUME NEW w \in Workers, UpdateDatabaseError(w) PROVE TypeOK'
  <2>1. job[w] \in Job /\ job[w].depth \in Nat
    BY <1>17, <1>b, JobType DEF UpdateDatabaseError
  <2>2. Raised(job[w]) \in Job  BY <2>1 DEF Raised, Job, Continuations
  <2>3. [job[w] EXCEPT !.depth = job[w].depth + 1] \in Job  BY <2>1, JobType
  <2>4. WorkersOK'
    <3>1. CASE job[w].depth + 1 < MaxDbLockRetries
      BY <3>1, <2>3, <1>17, <1>a, JobStep DEF UpdateDatabaseError
    <3>2. CASE ~(job[w].depth + 1 < MaxDbLockRetries)
      BY <3>2, <2>2, <1>17, <1>a, WorkerStep
         DEF UpdateDatabaseError, Release, Goto, SetJob, Stages
    <3> QED BY <3>1, <3>2
  <2> QED BY <2>4, <1>17, <1>a, <1>t, FaultType DEF UpdateDatabaseError
<1>18. ASSUME NEW w \in Workers, ReleaseSubtaskLock(w) PROVE TypeOK'
  <2>1. job[w] \in Job  BY <1>18, <1>b DEF ReleaseSubtaskLock
  <2>2. lock' \in [SubtaskIds -> Workers \cup {Free, Orphan}]
    BY <2>1, <1>18, <1>a DEF ReleaseSubtaskLock, Deleted
  <2>3. WorkersOK'
    <3>1. CASE Outermost(job[w])
      <4>1. Continue(w)  BY <3>1, <1>18 DEF ReleaseSubtaskLock
      <4>2. CASE job[w].then = "end"
        BY <4>1, <4>2, <1>a, FinishStep DEF Continue
      <4>3. CASE job[w].then = "retry"
        BY <4>1, <4>3, <1>18, <1>a, StageStep DEF Continue, Stages, ReleaseSubtaskLock
      <4>4. CASE job[w].then = "unexpected"
        BY <4>1, <4>4, <1>18, <1>a, UnexpectedStep DEF Continue, ReleaseSubtaskLock
      <4>5. CASE job[w].then = "requeued"
        BY <4>1, <4>5 DEF Continue
      <4> QED BY <2>1, <4>2, <4>3, <4>4, <4>5 DEF Job, Continuations
    <3>2. CASE ~Outermost(job[w])
      <4>1. job[w].depth - 1 \in Nat  BY <3>2, <2>1 DEF Outermost, Job
      <4>2. [job[w] EXCEPT !.depth = job[w].depth - 1] \in Job  BY <4>1, <2>1, JobType
      <4> QED BY <4>2, <3>2, <1>18, <1>a, JobStep DEF ReleaseSubtaskLock
    <3> QED BY <3>1, <3>2
  <2> QED BY <2>2, <2>3, <1>18, <1>a, <1>t DEF ReleaseSubtaskLock
<1>19. ASSUME NEW w \in Workers, Retry(w) PROVE TypeOK'
  <2>1. job[w] \in Job  BY <1>19, <1>b DEF Retry
  <2>2. RetryMessage(job[w]) \in Message  BY <2>1 DEF RetryMessage, Message, Job
  <2>3. queue' \subseteq Message  BY <2>2, <1>19, <1>a DEF Retry
  <2>4. WorkersOK'  BY <2>1, <1>19, <1>a, CloseStep DEF Retry, Continuations
  <2> QED BY <2>3, <2>4, <1>19, <1>a, <1>t DEF Retry
<1>20. ASSUME NEW w \in Workers, RetryRefused(w) PROVE TypeOK'
  BY <1>20, <1>a, <1>t, UnexpectedStep DEF RetryRefused
<1>21. ASSUME NEW w \in Workers, Crash(w) PROVE TypeOK'
  <2>1. lock' \in [SubtaskIds -> Workers \cup {Free, Orphan}]  BY <1>21, <1>a DEF Crash
  <2> QED BY <2>1, <1>21, <1>a, <1>t, FinishStep, FaultType DEF Crash
<1>22. ASSUME NEW s \in SubtaskIds, LockExpires(s) PROVE TypeOK'
  BY <1>22, <1>a, <1>t DEF LockExpires, WorkersOK
<1>23. ASSUME NEW r \in Recipients, OptOut(r) PROVE TypeOK'
  BY <1>23, <1>a, <1>t DEF OptOut, WorkersOK
<1>24. CASE UNCHANGED vars
  BY <1>24, <1>a, <1>t DEF vars, WorkersOK
<1> QED
  BY <1>1, <1>2, <1>3, <1>4, <1>5, <1>6, <1>7, <1>8, <1>9, <1>10, <1>11, <1>12, <1>13,
     <1>14, <1>15, <1>16, <1>17, <1>18, <1>19, <1>20, <1>21, <1>22, <1>23, <1>24
     DEF Next, Work, Sending, Saving

\* Every reachable state is well-formed: no step of a worker, of the broker or of
\* the environment leaves the types of the row, the messages, the jobs or the locks.
THEOREM TypeCorrect == Spec => []TypeOK
<1>1. Init => TypeOK                      BY InitType
<1>2. TypeOK /\ [Next]_vars => TypeOK'    BY NextType
<1> QED BY <1>1, <1>2, PTL DEF Spec

-----------------------------------------------------------------------------
(* What the moves of a worker do to its stage and job, field by field        *)

\* The other workers stay where they are.
OnlyMoves(w) == \A v \in Workers \ {w} : pc'[v] = pc[v] /\ job'[v] = job[v]

\* Changing the stage and keeping the job.
LEMMA GotoMove ==
  ASSUME WorkersOK, NEW w \in Workers, NEW stage, Goto(w, stage), UNCHANGED job
  PROVE  OnlyMoves(w) /\ pc'[w] = stage /\ job'[w] = job[w]
BY DEF WorkersOK, OnlyMoves, Goto

\* Ending the work.
LEMMA FinishMove ==
  ASSUME WorkersOK, NEW w \in Workers, Finish(w)
  PROVE  OnlyMoves(w) /\ pc'[w] = "idle"
BY DEF WorkersOK, OnlyMoves, Finish, Goto, SetJob

\* Replacing the job.
LEMMA JobMove ==
  ASSUME WorkersOK, NEW w \in Workers, NEW stage, NEW j, Goto(w, stage), SetJob(w, j)
  PROVE  OnlyMoves(w) /\ pc'[w] = stage /\ job'[w] = j
BY DEF WorkersOK, OnlyMoves, Goto, SetJob

\* Replacing the job within a stage.
LEMMA SameStageMove ==
  ASSUME WorkersOK, NEW w \in Workers, NEW j, SetJob(w, j), UNCHANGED pc
  PROVE  OnlyMoves(w) /\ pc'[w] = pc[w] /\ job'[w] = j
BY DEF WorkersOK, OnlyMoves, SetJob

\* Each field of a job can be set without touching the others.
LEMMA JobFields ==
  ASSUME NEW j \in Job
  PROVE  /\ \A x : LET k == [j EXCEPT !.then = x] IN
              /\ k.id = j.id /\ k.toList = j.toList /\ k.numToSend = j.numToSend
              /\ k.status = j.status /\ k.retries = j.retries
              /\ k.maxRetries = j.maxRetries /\ k.then = x /\ k.depth = j.depth
         /\ \A x : LET k == [j EXCEPT !.status = x] IN
              /\ k.id = j.id /\ k.toList = j.toList /\ k.numToSend = j.numToSend
              /\ k.status = x /\ k.retries = j.retries
              /\ k.maxRetries = j.maxRetries /\ k.then = j.then /\ k.depth = j.depth
         /\ \A x : LET k == [j EXCEPT !.toList = x] IN
              /\ k.id = j.id /\ k.toList = x /\ k.numToSend = j.numToSend
              /\ k.status = j.status /\ k.retries = j.retries
              /\ k.maxRetries = j.maxRetries /\ k.then = j.then /\ k.depth = j.depth
         /\ \A x : LET k == [j EXCEPT !.maxRetries = x] IN
              /\ k.id = j.id /\ k.toList = j.toList /\ k.numToSend = j.numToSend
              /\ k.status = j.status /\ k.retries = j.retries
              /\ k.maxRetries = x /\ k.then = j.then /\ k.depth = j.depth
         /\ \A x : LET k == [j EXCEPT !.depth = x] IN
              /\ k.id = j.id /\ k.toList = j.toList /\ k.numToSend = j.numToSend
              /\ k.status = j.status /\ k.retries = j.retries
              /\ k.maxRetries = j.maxRetries /\ k.then = j.then /\ k.depth = x
BY DEF Job

\* Saving a status.
LEMMA SaveMove ==
  ASSUME WorkersOK, NEW w \in Workers, NEW j \in Job, NEW status \in SubtaskStatus,
         NEW next \in Continuations, SaveThen(w, j, status, next)
  PROVE  /\ OnlyMoves(w) /\ pc'[w] = "update"
         /\ job'[w].id = j.id /\ job'[w].toList = j.toList /\ job'[w].status = status
         /\ job'[w].retries = j.retries /\ job'[w].maxRetries = j.maxRetries
         /\ job'[w].then = next /\ job'[w].depth = 0
         /\ job'[w].numToSend = j.numToSend
<1> DEFINE j1 == [j EXCEPT !.status = status]
           j2 == [j1 EXCEPT !.then = next]
           j3 == [j2 EXCEPT !.depth = 0]
<1>1. SetJob(w, j3) /\ Goto(w, "update")  BY DEF SaveThen
<1>2. OnlyMoves(w) /\ pc'[w] = "update" /\ job'[w] = j3
  <2> HIDE DEF j3
  <2> QED BY <1>1, JobMove
<1>3. j1 \in Job  BY JobType
<1>4. j2 \in Job
  <2> HIDE DEF j1
  <2> QED BY <1>3, JobType
<1>5. /\ j1.id = j.id /\ j1.toList = j.toList /\ j1.status = status
      /\ j1.retries = j.retries /\ j1.maxRetries = j.maxRetries
      /\ j1.numToSend = j.numToSend
  BY JobFields
<1>6. /\ j2.id = j1.id /\ j2.toList = j1.toList /\ j2.status = j1.status
      /\ j2.retries = j1.retries /\ j2.maxRetries = j1.maxRetries /\ j2.then = next
      /\ j2.numToSend = j1.numToSend
  <2> HIDE DEF j1
  <2> QED BY <1>3, JobFields
<1>7. /\ j3.id = j2.id /\ j3.toList = j2.toList /\ j3.status = j2.status
      /\ j3.retries = j2.retries /\ j3.maxRetries = j2.maxRetries /\ j3.then = j2.then
      /\ j3.depth = 0 /\ j3.numToSend = j2.numToSend
  <2> HIDE DEF j2
  <2> QED BY <1>4, JobFields
<1> HIDE DEF j1, j2, j3
<1> QED BY <1>2, <1>5, <1>6, <1>7

\* Reaching the handler of unexpected exceptions.
LEMMA UnexpectedMove ==
  ASSUME WorkersOK, NEW w \in Workers, pc[w] # "idle", Unexpected(w)
  PROVE  /\ OnlyMoves(w) /\ pc'[w] = "update"
         /\ job'[w].id = job[w].id /\ job'[w].toList = job[w].toList
         /\ job'[w].status = FailWith(job[w].status, job[w].numToSend)
         /\ job'[w].then = "end" /\ job'[w].depth = 0
         /\ job'[w].numToSend = job[w].numToSend
<1>1. job[w] \in Job  BY DEF WorkersOK
<1>2. FailWith(job[w].status, job[w].numToSend) \in SubtaskStatus
  BY <1>1, JobType, StatusType
<1> QED BY <1>1, <1>2, SaveMove DEF Unexpected, Continuations

\* Closing the connection.
LEMMA CloseMove ==
  ASSUME WorkersOK, NEW w \in Workers, NEW j \in Job, NEW next \in Continuations,
         CloseThen(w, j, next)
  PROVE  /\ OnlyMoves(w) /\ pc'[w] = "close"
         /\ job'[w].id = j.id /\ job'[w].toList = j.toList
         /\ job'[w].status = j.status /\ job'[w].then = next
         /\ job'[w].numToSend = j.numToSend /\ job'[w].depth = j.depth
<1>1. OnlyMoves(w) /\ pc'[w] = "close" /\ job'[w] = [j EXCEPT !.then = next]
  BY JobMove DEF CloseThen
<1> QED BY <1>1, JobFields

\* Going on to save after a temporary error.
LEMMA SubmitMove ==
  ASSUME WorkersOK, NEW w \in Workers, pc[w] # "idle", NEW status \in SubtaskStatus,
         NEW maxRetries \in Nat, SubmitForRetry(w, status, maxRetries)
  PROVE  /\ OnlyMoves(w) /\ pc'[w] = "update"
         /\ job'[w].id = job[w].id /\ job'[w].toList = job[w].toList
         /\ job'[w].status = status /\ job'[w].retries = job[w].retries
         /\ job'[w].maxRetries = maxRetries
         /\ job'[w].then = "retry" /\ job'[w].depth = 0
         /\ job'[w].numToSend = job[w].numToSend
<1> DEFINE j == [job[w] EXCEPT !.maxRetries = maxRetries]
<1>1. job[w] \in Job  BY DEF WorkersOK
<1>2. j \in Job  BY <1>1, JobType
<1>3. /\ j.id = job[w].id /\ j.toList = job[w].toList /\ j.retries = job[w].retries
      /\ j.maxRetries = maxRetries /\ j.numToSend = job[w].numToSend
  BY <1>1, JobFields
<1>4. SaveThen(w, j, status, "retry")  BY DEF SubmitForRetry
<1> HIDE DEF j
<1> QED BY <1>2, <1>3, <1>4, SaveMove DEF Continuations

\* The filter takes the optouts off the list and counts them as skipped.
LEMMA FilterMove ==
  ASSUME WorkersOK, NEW w \in Workers, FilterOptouts(w)
  PROVE  /\ OnlyMoves(w) /\ pc'[w] = "open"
         /\ job'[w].id = job[w].id /\ job'[w].retries = job[w].retries
         /\ job'[w].numToSend = job[w].numToSend
         /\ job'[w].status.nomax = job[w].status.nomax
         /\ job'[w].status.withmax = job[w].status.withmax
         /\ job'[w].status.state = job[w].status.state
         /\ job'[w].status.succeeded = job[w].status.succeeded
         /\ job'[w].status.failed = job[w].status.failed
         /\ \E out \in SUBSET job[w].toList :
              /\ job'[w].toList = job[w].toList \ out
              /\ job'[w].status.skipped = job[w].status.skipped + Cardinality(out)
<1> DEFINE j  == job[w]
           j1 == [j EXCEPT !.toList = WithoutOptouts(j.toList)]
           st == Skip(j.status, Cardinality(j.toList \cap optouts))
           j2 == [j1 EXCEPT !.status = st]
<1>1. j \in Job  BY DEF FilterOptouts, WorkersOK
<1>2. CASE RetryCount(j.status) = 0
  <2>1. SetJob(w, j2) /\ Goto(w, "open")  BY <1>2 DEF FilterOptouts
  <2>2. OnlyMoves(w) /\ pc'[w] = "open" /\ job'[w] = j2
    <3> HIDE DEF j2
    <3> QED BY <2>1, JobMove
  <2>3. j1 \in Job  BY <1>1, JobType DEF WithoutOptouts
  <2>4. /\ j1.id = j.id /\ j1.toList = j.toList \ (j.toList \cap optouts)
        /\ j1.retries = j.retries /\ j1.numToSend = j.numToSend
    BY <1>1, JobFields DEF WithoutOptouts
  <2>5. /\ st.nomax = j.status.nomax /\ st.withmax = j.status.withmax
        /\ st.state = j.status.state
        /\ st.succeeded = j.status.succeeded /\ st.failed = j.status.failed
        /\ st.skipped = j.status.skipped + Cardinality(j.toList \cap optouts)
    BY <1>1 DEF Skip, Job, SubtaskStatus
  <2>6. /\ j2.id = j1.id /\ j2.toList = j1.toList /\ j2.status = st
        /\ j2.retries = j1.retries /\ j2.numToSend = j1.numToSend
    <3> HIDE DEF j1, st
    <3> QED BY <2>3, JobFields
  <2>7. j.toList \cap optouts \in SUBSET j.toList  OBVIOUS
  <2> HIDE DEF j1, j2, st
  <2> QED BY <2>2, <2>4, <2>5, <2>6, <2>7
<1>3. CASE RetryCount(j.status) # 0
  <2>1. OnlyMoves(w) /\ pc'[w] = "open" /\ job'[w] = j  BY <1>3, GotoMove DEF FilterOptouts
  <2>2. /\ {} \in SUBSET j.toList /\ j.toList = j.toList \ {}
        /\ j.status.skipped = j.status.skipped + Cardinality({})
    BY <1>1, FS_EmptySet DEF Job, SubtaskStatus
  <2> QED BY <2>1, <2>2
<1> QED BY <1>2, <1>3

\* A message accepted or refused takes its recipient off the list and counts it.
LEMMA SendMove ==
  ASSUME WorkersOK, NEW w \in Workers, NEW r \in Recipients,
         SendMessage(w, r) \/ RecipientRefused(w, r)
  PROVE  /\ OnlyMoves(w) /\ pc[w] = "send" /\ pc'[w] = "send"
         /\ job'[w].id = job[w].id /\ job'[w].toList = job[w].toList \ {r}
         /\ job'[w].retries = job[w].retries /\ job'[w].numToSend = job[w].numToSend
         /\ job'[w].status = IF SendMessage(w, r) THEN Succeed(job[w].status)
                                                  ELSE Fail(job[w].status, 1)
<1>1. ASSUME NEW st, pc[w] = "send", UNCHANGED pc,
             SetJob(w, [job[w] EXCEPT !.toList = @ \ {r}, !.status = st])
      PROVE  /\ OnlyMoves(w) /\ pc'[w] = "send"
             /\ job'[w].id = job[w].id /\ job'[w].toList = job[w].toList \ {r}
             /\ job'[w].retries = job[w].retries /\ job'[w].numToSend = job[w].numToSend
             /\ job'[w].status = st
  <2> DEFINE j1 == [job[w] EXCEPT !.toList = job[w].toList \ {r}]
             j2 == [j1 EXCEPT !.status = st]
  <2>1. SetJob(w, j2)  BY <1>1
  <2>2. OnlyMoves(w) /\ pc'[w] = "send" /\ job'[w] = j2
    <3> HIDE DEF j2
    <3> QED BY <2>1, <1>1, SameStageMove
  <2>3. job[w] \in Job  BY <1>1 DEF WorkersOK
  <2>4. j1 \in Job  BY <2>3, JobType
  <2>5. /\ j1.id = job[w].id /\ j1.toList = job[w].toList \ {r}
        /\ j1.retries = job[w].retries /\ j1.numToSend = job[w].numToSend
    BY <2>3, JobFields
  <2>6. /\ j2.id = j1.id /\ j2.toList = j1.toList /\ j2.status = st
        /\ j2.retries = j1.retries /\ j2.numToSend = j1.numToSend
    <3> HIDE DEF j1
    <3> QED BY <2>4, JobFields
  <2> HIDE DEF j1, j2
  <2> QED BY <2>2, <2>5, <2>6
<1>2. CASE SendMessage(w, r)   BY <1>1, <1>2 DEF SendMessage
<1>3. CASE ~SendMessage(w, r)  BY <1>1, <1>3 DEF RecipientRefused
<1> QED BY <1>2, <1>3

\* What the counting operators leave alone.
LEMMA CountFields ==
  ASSUME NEW status \in SubtaskStatus, NEW n \in Nat
  PROVE  /\ LET new == Succeed(status) IN
              /\ new.succeeded = status.succeeded + 1 /\ new.failed = status.failed
              /\ new.skipped = status.skipped /\ new.state = status.state
              /\ new.nomax = status.nomax /\ new.withmax = status.withmax
         /\ LET new == Fail(status, n) IN
              /\ new.succeeded = status.succeeded /\ new.failed = status.failed + n
              /\ new.skipped = status.skipped /\ new.state = status.state
              /\ new.nomax = status.nomax /\ new.withmax = status.withmax
         /\ LET new == FailWith(status, n) IN
              /\ new.succeeded = status.succeeded /\ new.failed = status.failed + n
              /\ new.skipped = status.skipped /\ new.state = "FAILURE"
         /\ \A new \in {RetryNoMax(status), RetryMax(status)} :
              /\ new.succeeded = status.succeeded /\ new.failed = status.failed
              /\ new.skipped = status.skipped /\ new.state = "RETRY"
         /\ LET new == [status EXCEPT !.state = "SUCCESS"] IN
              /\ new.succeeded = status.succeeded /\ new.failed = status.failed
              /\ new.skipped = status.skipped /\ new.state = "SUCCESS"
<1>1. \A st \in SubtaskStatus : \A x :
        /\ LET new == [st EXCEPT !.state = x] IN
             /\ new.succeeded = st.succeeded /\ new.failed = st.failed
             /\ new.skipped = st.skipped /\ new.state = x
        /\ LET new == [st EXCEPT !.nomax = x] IN
             /\ new.succeeded = st.succeeded /\ new.failed = st.failed
             /\ new.skipped = st.skipped
        /\ LET new == [st EXCEPT !.withmax = x] IN
             /\ new.succeeded = st.succeeded /\ new.failed = st.failed
             /\ new.skipped = st.skipped
  BY DEF SubtaskStatus
<1>2. /\ Fail(status, n) \in SubtaskStatus
      /\ [status EXCEPT !.nomax = @ + 1] \in SubtaskStatus
      /\ [status EXCEPT !.withmax = @ + 1] \in SubtaskStatus
  BY DEF Fail, SubtaskStatus
<1>3. /\ FailWith(status, n) = [Fail(status, n) EXCEPT !.state = "FAILURE"]
      /\ RetryNoMax(status) = [[status EXCEPT !.nomax = @ + 1] EXCEPT !.state = "RETRY"]
      /\ RetryMax(status) = [[status EXCEPT !.withmax = @ + 1] EXCEPT !.state = "RETRY"]
  BY DEF FailWith, Fail, RetryNoMax, RetryMax, SubtaskStatus
<1>4. LET new == Succeed(status) IN
        /\ new.succeeded = status.succeeded + 1 /\ new.failed = status.failed
        /\ new.skipped = status.skipped /\ new.state = status.state
        /\ new.nomax = status.nomax /\ new.withmax = status.withmax
  BY DEF Succeed, SubtaskStatus
<1>5. LET new == Fail(status, n) IN
        /\ new.succeeded = status.succeeded /\ new.failed = status.failed + n
        /\ new.skipped = status.skipped /\ new.state = status.state
        /\ new.nomax = status.nomax /\ new.withmax = status.withmax
  BY DEF Fail, SubtaskStatus
<1>6. LET new == FailWith(status, n) IN
        /\ new.succeeded = status.succeeded /\ new.failed = status.failed + n
        /\ new.skipped = status.skipped /\ new.state = "FAILURE"
  BY <1>1, <1>2, <1>3, <1>5
<1>7. \A new \in {RetryNoMax(status), RetryMax(status)} :
        /\ new.succeeded = status.succeeded /\ new.failed = status.failed
        /\ new.skipped = status.skipped /\ new.state = "RETRY"
  <2> DEFINE a == [status EXCEPT !.nomax = @ + 1]
             b == [status EXCEPT !.withmax = @ + 1]
  <2>1. /\ a.succeeded = status.succeeded /\ a.failed = status.failed
        /\ a.skipped = status.skipped
        /\ b.succeeded = status.succeeded /\ b.failed = status.failed
        /\ b.skipped = status.skipped
    BY <1>1
  <2>2. /\ RetryNoMax(status) = [a EXCEPT !.state = "RETRY"] /\ a \in SubtaskStatus
        /\ RetryMax(status) = [b EXCEPT !.state = "RETRY"] /\ b \in SubtaskStatus
    BY <1>2, <1>3
  <2> HIDE DEF a, b
  <2>3. LET new == [a EXCEPT !.state = "RETRY"] IN
          /\ new.succeeded = a.succeeded /\ new.failed = a.failed
          /\ new.skipped = a.skipped /\ new.state = "RETRY"
    BY <1>1, <2>2
  <2>4. LET new == [b EXCEPT !.state = "RETRY"] IN
          /\ new.succeeded = b.succeeded /\ new.failed = b.failed
          /\ new.skipped = b.skipped /\ new.state = "RETRY"
    BY <1>1, <2>2
  <2> QED BY <2>1, <2>2, <2>3, <2>4
<1>8. LET new == [status EXCEPT !.state = "SUCCESS"] IN
        /\ new.succeeded = status.succeeded /\ new.failed = status.failed
        /\ new.skipped = status.skipped /\ new.state = "SUCCESS"
  BY <1>1
<1> QED BY <1>4, <1>5, <1>6, <1>7, <1>8

-----------------------------------------------------------------------------
(* The retry budget.  celery's count of the retries of a message and the two *)
(* counts in its status agree, and the limit that is passed to retry() turns *)
(* a comparison of the sums into one of each kind of error with its own      *)
(* budget.                                                                   *)

WithinBudget(status) == status.withmax <= MaxRetries /\ status.nomax <= RetryCap

Counted(stage, j) ==
  /\ stage \in {"check", "lock", "filter", "open", "send"} =>
       j.retries = RetryCount(j.status) /\ WithinBudget(j.status)
  /\ (stage \in {"update", "release"} /\ j.then = "retry") \/ stage = "retry" =>
       /\ j.then = "retry"
       /\ j.retries + 1 = RetryCount(j.status)
       /\ RetryAllowed(j) <=> WithinBudget(j.status)

\* The inductive invariant behind RetryBudget.
RetryInv ==
  /\ \A m \in queue : m.retries = RetryCount(m.status) /\ WithinBudget(m.status)
  /\ \A w \in Workers : Counted(pc[w], job[w])

\* Only the worker that takes a step has to be looked at.
LEMMA OneWorker ==
  ASSUME RetryInv, NEW w \in Workers, OnlyMoves(w), Counted(pc'[w], job'[w])
  PROVE  \A v \in Workers : Counted(pc'[v], job'[v])
BY DEF OnlyMoves, RetryInv

\* A throttled attempt is allowed one retry more as long as RetryCap lasts.
LEMMA ThrottledBudget ==
  ASSUME NEW j \in Job, j.retries = RetryCount(j.status), WithinBudget(j.status)
  PROVE  LET new == RetryNoMax(j.status) IN
         /\ j.retries + 1 = RetryCount(new)
         /\ j.retries + 1 <= CappedMax(new) <=> WithinBudget(new)
<1>1. /\ j.retries \in Nat /\ j.status.nomax \in Nat /\ j.status.withmax \in Nat
  BY DEF Job, SubtaskStatus
<1>2. /\ RetryNoMax(j.status).nomax = j.status.nomax + 1
      /\ RetryNoMax(j.status).withmax = j.status.withmax
  BY DEF Job, SubtaskStatus, RetryNoMax
<1> HIDE DEF RetryNoMax
<1> QED
  BY <1>1, <1>2, BoundsAssumption
     DEF RetryCount, WithinBudget, CappedMax, LimitedMax, SmallerOf

\* A disconnected one as long as MaxRetries lasts, however often it was throttled.
LEMMA DisconnectedBudget ==
  ASSUME NEW j \in Job, j.retries = RetryCount(j.status), WithinBudget(j.status)
  PROVE  LET new == RetryMax(j.status) IN
         /\ j.retries + 1 = RetryCount(new)
         /\ j.retries + 1 <= LimitedMax(new) <=> WithinBudget(new)
<1>1. /\ j.retries \in Nat /\ j.status.nomax \in Nat /\ j.status.withmax \in Nat
  BY DEF Job, SubtaskStatus
<1>2. /\ RetryMax(j.status).nomax = j.status.nomax
      /\ RetryMax(j.status).withmax = j.status.withmax + 1
  BY DEF Job, SubtaskStatus, RetryMax
<1> HIDE DEF RetryMax
<1> QED
  BY <1>1, <1>2, BoundsAssumption DEF RetryCount, WithinBudget, LimitedMax

\* No message and no job is counted at the start.
LEMMA InitRetry == Init => RetryInv
BY BoundsAssumption
   DEF Init, RetryInv, Counted, NewMessage, NewStatus, RetryCount, WithinBudget

\* Every step keeps celery's count and the counts of the status in agreement.
LEMMA NextRetry == TypeOK /\ RetryInv /\ [Next]_vars => RetryInv'
<1> SUFFICES ASSUME TypeOK, RetryInv, [Next]_vars PROVE RetryInv'  OBVIOUS
<1>a. WorkersOK /\ queue \subseteq Message  BY DEF TypeOK, WorkersOK
<1>b. \A w \in Workers : Counted(pc[w], job[w])  BY DEF RetryInv
<1>c. \A w \in Workers : pc[w] # "idle" => job[w] \in Job  BY <1>a DEF WorkersOK
<1>d. ASSUME NEW w \in Workers, OnlyMoves(w), Counted(pc'[w], job'[w]), queue' \subseteq queue
      PROVE  RetryInv'
  BY <1>d, OneWorker DEF RetryInv
<1>1. ASSUME NEW w \in Workers, NEW m \in queue, Start(w, m), queue' \subseteq queue
      PROVE  RetryInv'
  <2>1. OnlyMoves(w) /\ pc'[w] = "check" /\ job'[w] = NewJob(m)
    BY <1>1, <1>a, JobMove DEF Start
  <2>2. Counted("check", NewJob(m))  BY DEF RetryInv, Counted, NewJob
  <2> QED BY <2>1, <2>2, <1>1, <1>d
<1>2. ASSUME NEW w \in Workers, CheckSubtaskIsValid(w) PROVE RetryInv'
  <2>1. OnlyMoves(w) /\ (pc'[w] = "idle" \/ (pc'[w] = "lock" /\ job'[w] = job[w]))
    BY <1>2, <1>a, GotoMove, FinishMove DEF CheckSubtaskIsValid
  <2>2. pc[w] = "check" /\ UNCHANGED queue  BY <1>2 DEF CheckSubtaskIsValid
  <2>3. Counted("check", job[w])  BY <2>2, <1>b
  <2>4. Counted(pc'[w], job'[w])
    <3>1. CASE pc'[w] = "idle"  BY <3>1 DEF Counted
    <3>2. CASE pc'[w] = "lock" /\ job'[w] = job[w]  BY <3>2, <2>3 DEF Counted
    <3> QED BY <2>1, <3>1, <3>2
  <2> QED BY <2>1, <2>2, <2>4, <1>d
<1>3. ASSUME NEW w \in Workers, AcquireSubtaskLock(w) PROVE RetryInv'
  <2>1. OnlyMoves(w) /\ (pc'[w] = "idle" \/ (pc'[w] = "filter" /\ job'[w] = job[w]))
    BY <1>3, <1>a, GotoMove, FinishMove DEF AcquireSubtaskLock
  <2>2. pc[w] = "lock" /\ UNCHANGED queue  BY <1>3 DEF AcquireSubtaskLock
  <2>3. Counted("lock", job[w])  BY <2>2, <1>b
  <2>4. Counted(pc'[w], job'[w])
    <3>1. CASE pc'[w] = "idle"  BY <3>1 DEF Counted
    <3>2. CASE pc'[w] = "filter" /\ job'[w] = job[w]  BY <3>2, <2>3 DEF Counted
    <3> QED BY <2>1, <3>1, <3>2
  <2> QED BY <2>1, <2>2, <2>4, <1>d
<1>4. ASSUME NEW w \in Workers, FilterOptouts(w) PROVE RetryInv'
  <2>1. Counted("filter", job[w])  BY <1>4, <1>b DEF FilterOptouts
  <2>2. Counted(pc'[w], job'[w])
    BY <2>1, <1>4, <1>a, FilterMove DEF Counted, RetryCount, WithinBudget
  <2> QED BY <2>2, <1>4, <1>a, <1>d, FilterMove DEF FilterOptouts
<1>5. ASSUME NEW w \in Workers, pc[w] # "idle", Unexpected(w), UNCHANGED queue PROVE RetryInv'
  <2>1. OnlyMoves(w) /\ pc'[w] = "update" /\ job'[w].then = "end"
    BY <1>5, <1>a, UnexpectedMove
  <2> QED BY <2>1, <1>5, <1>d DEF Counted
<1>6. ASSUME NEW w \in Workers, OpenConnection(w) PROVE RetryInv'
  <2>1. OnlyMoves(w) /\ pc'[w] = "send" /\ job'[w] = job[w]
    BY <1>6, <1>a, GotoMove DEF OpenConnection
  <2> QED BY <2>1, <1>6, <1>b, <1>d DEF OpenConnection, Counted
<1>7. ASSUME NEW w \in Workers, NEW r \in Recipients,
             SendMessage(w, r) \/ RecipientRefused(w, r)
      PROVE  RetryInv'
  <2>1. Counted("send", job[w])  BY <1>7, <1>b DEF SendMessage, RecipientRefused
  <2>2. Counted(pc'[w], job'[w])
    <3>1. job[w].status \in SubtaskStatus /\ 1 \in Nat
      BY <1>7, <1>a, JobType DEF WorkersOK, SendMessage, RecipientRefused
    <3>2. /\ job'[w].status.nomax = job[w].status.nomax
          /\ job'[w].status.withmax = job[w].status.withmax
          /\ job'[w].retries = job[w].retries /\ pc'[w] = "send"
      BY <3>1, <1>7, <1>a, SendMove, CountFields
    <3> QED BY <3>2, <2>1 DEF Counted, RetryCount, WithinBudget
  <2> QED BY <2>2, <1>7, <1>a, <1>d, SendMove DEF SendMessage, RecipientRefused
<1>8. ASSUME NEW w \in Workers, Throttled(w) PROVE RetryInv'
  <2> DEFINE new == RetryNoMax(job[w].status)
  <2>1. job[w] \in Job  BY <1>8, <1>c DEF Throttled
  <2>2. new \in SubtaskStatus /\ CappedMax(new) \in Nat
    BY <2>1, JobType, StatusType, LimitType
  <2>3. /\ job[w].retries + 1 = RetryCount(new)
        /\ job[w].retries + 1 <= CappedMax(new) <=> WithinBudget(new)
    BY <2>1, <1>8, <1>b, ThrottledBudget DEF Throttled, Counted
  <2>4. pc[w] # "idle" /\ SubmitForRetry(w, new, CappedMax(new)) /\ UNCHANGED queue
    BY <1>8 DEF Throttled
  <2> HIDE DEF new
  <2>5. /\ OnlyMoves(w) /\ pc'[w] = "update" /\ job'[w].then = "retry"
        /\ job'[w].status = new /\ job'[w].retries = job[w].retries
        /\ job'[w].maxRetries = CappedMax(new)
    BY <2>2, <2>4, <1>a, SubmitMove
  <2> QED BY <2>3, <2>4, <2>5, <1>d DEF Counted, RetryAllowed
<1>9. ASSUME NEW w \in Workers, Disconnected(w) PROVE RetryInv'
  <2> DEFINE new == RetryMax(job[w].status)
  <2>1. job[w] \in Job  BY <1>9, <1>c DEF Disconnected
  <2>2. new \in SubtaskStatus /\ LimitedMax(new) \in Nat
    BY <2>1, JobType, StatusType, LimitType
  <2>3. /\ job[w].retries + 1 = RetryCount(new)
        /\ job[w].retries + 1 <= LimitedMax(new) <=> WithinBudget(new)
    BY <2>1, <1>9, <1>b, DisconnectedBudget DEF Disconnected, Counted
  <2>4. pc[w] # "idle" /\ SubmitForRetry(w, new, LimitedMax(new)) /\ UNCHANGED queue
    BY <1>9 DEF Disconnected
  <2> HIDE DEF new
  <2>5. /\ OnlyMoves(w) /\ pc'[w] = "update" /\ job'[w].then = "retry"
        /\ job'[w].status = new /\ job'[w].retries = job[w].retries
        /\ job'[w].maxRetries = LimitedMax(new)
    BY <2>2, <2>4, <1>a, SubmitMove
  <2> QED BY <2>3, <2>4, <2>5, <1>d DEF Counted, RetryAllowed
<1>10. ASSUME NEW w \in Workers, SendingImpossible(w) \/ AllSent(w) PROVE RetryInv'
  <2>1. OnlyMoves(w) /\ pc'[w] = "close"
    BY <1>10, <1>a, JobMove DEF SendingImpossible, AllSent, CloseThen
  <2> QED BY <2>1, <1>10, <1>d DEF SendingImpossible, AllSent, Counted
<1>11. ASSUME NEW w \in Workers, CloseConnection(w) PROVE RetryInv'
  <2>1. CASE job[w].then = "requeued"
    <3>1. OnlyMoves(w) /\ pc'[w] = "idle"  BY <2>1, <1>11, <1>a, FinishMove DEF CloseConnection
    <3> QED BY <3>1, <1>11, <1>d DEF CloseConnection, Counted
  <2>2. CASE job[w].then # "requeued"
    <3>1. job[w] \in Job /\ job[w].status \in SubtaskStatus
      BY <1>11, <1>c, JobType DEF CloseConnection
    <3>2. OnlyMoves(w) /\ pc'[w] = "update" /\ job'[w].then = "end"
      BY <3>1, <2>2, <1>11, <1>a, SaveMove DEF CloseConnection, Continuations
    <3> QED BY <3>2, <1>11, <1>d DEF CloseConnection, Counted
  <2> QED BY <2>1, <2>2
<1>12. ASSUME NEW w \in Workers, UpdateSubtaskStatus(w) PROVE RetryInv'
  <2>1. OnlyMoves(w) /\ pc'[w] = "release" /\ job'[w] = job[w]
    BY <1>12, <1>a, JobMove DEF UpdateSubtaskStatus, Release
  <2> QED BY <2>1, <1>12, <1>b, <1>d DEF UpdateSubtaskStatus, Counted
<1>13. ASSUME NEW w \in Workers, pc[w] = "update", Release(w, Raised(job[w])), UNCHANGED queue
       PROVE  RetryInv'
  <2>1. job[w] \in Job  BY <1>13, <1>c
  <2>2. OnlyMoves(w) /\ pc'[w] = "release" /\ job'[w] = Raised(job[w])
    BY <1>13, <1>a, JobMove DEF Release
  <2>3. Raised(job[w]).then # "retry"  BY <2>1, JobFields DEF Raised
  <2> QED BY <2>2, <2>3, <1>13, <1>d DEF Counted
<1>14. ASSUME NEW w \in Workers, UpdateDatabaseError(w) PROVE RetryInv'
  <2>1. CASE job[w].depth + 1 < MaxDbLockRetries
    <3> DEFINE j == [job[w] EXCEPT !.depth = job[w].depth + 1]
    <3>1. OnlyMoves(w) /\ pc'[w] = "update" /\ job'[w] = j
      BY <2>1, <1>14, <1>a, SameStageMove DEF UpdateDatabaseError
    <3>2. /\ j.then = job[w].then /\ j.retries = job[w].retries
          /\ j.status = job[w].status /\ j.maxRetries = job[w].maxRetries
      BY <1>14, <1>c, JobFields DEF UpdateDatabaseError
    <3> HIDE DEF j
    <3>3. Counted("update", j)
      BY <3>2, <1>14, <1>b DEF UpdateDatabaseError, Counted, RetryAllowed
    <3> QED BY <3>1, <3>3, <1>14, <1>d DEF UpdateDatabaseError
  <2>2. CASE ~(job[w].depth + 1 < MaxDbLockRetries)
    BY <2>2, <1>13, <1>14 DEF UpdateDatabaseError
  <2> QED BY <2>1, <2>2
<1>15. ASSUME NEW w \in Workers, ReleaseSubtaskLock(w) PROVE RetryInv'
  <2>1. job[w] \in Job /\ UNCHANGED queue /\ pc[w] = "release"
    BY <1>15, <1>c DEF ReleaseSubtaskLock
  <2>2. CASE Outermost(job[w])
    <3>1. Continue(w)  BY <2>2, <1>15 DEF ReleaseSubtaskLock
    <3>2. CASE job[w].then = "end" /\ Finish(w)
      <4>1. OnlyMoves(w) /\ pc'[w] = "idle"  BY <3>2, <1>a, FinishMove
      <4> QED BY <4>1, <2>1, <1>d DEF Counted
    <3>3. CASE job[w].then = "retry" /\ Goto(w, "retry") /\ UNCHANGED job
      <4>1. OnlyMoves(w) /\ pc'[w] = "retry" /\ job'[w] = job[w]  BY <3>3, <1>a, GotoMove
      <4> QED BY <4>1, <3>3, <2>1, <1>b, <1>d DEF Counted
    <3>4. CASE job[w].then = "unexpected" /\ Unexpected(w)
      BY <3>4, <2>1, <1>5
    <3> QED BY <3>1, <3>2, <3>3, <3>4 DEF Continue
  <2>3. CASE ~Outermost(job[w])
    <3> DEFINE j == [job[w] EXCEPT !.depth = job[w].depth - 1]
    <3>1. OnlyMoves(w) /\ pc'[w] = "release" /\ job'[w] = j
      BY <2>1, <2>3, <1>15, <1>a, SameStageMove DEF ReleaseSubtaskLock
    <3>2. /\ j.then = job[w].then /\ j.retries = job[w].retries
          /\ j.status = job[w].status /\ j.maxRetries = job[w].maxRetries
      BY <2>1, JobFields
    <3> HIDE DEF j
    <3>3. Counted("release", j)
      BY <3>2, <2>1, <1>b DEF Counted, RetryAllowed
    <3> QED BY <3>1, <3>3, <2>1, <1>d
  <2> QED BY <2>2, <2>3
<1>16. ASSUME NEW w \in Workers, Retry(w) PROVE RetryInv'
  <2>1. job[w] \in Job  BY <1>16, <1>c DEF Retry
  <2>2. OnlyMoves(w) /\ pc'[w] = "close"
    BY <2>1, <1>16, <1>a, CloseMove DEF Retry, Continuations
  <2>3. LET m == RetryMessage(job[w]) IN
        m.retries = RetryCount(m.status) /\ WithinBudget(m.status)
    BY <1>16, <1>b DEF Retry, Counted, RetryMessage
  <2>4. \A m \in queue' : m.retries = RetryCount(m.status) /\ WithinBudget(m.status)
    BY <2>3, <1>16 DEF Retry, RetryInv
  <2>5. Counted(pc'[w], job'[w])  BY <2>2 DEF Counted
  <2> QED BY <2>2, <2>4, <2>5, OneWorker DEF RetryInv
<1>17. ASSUME NEW w \in Workers, Crash(w) PROVE RetryInv'
  <2>1. OnlyMoves(w) /\ pc'[w] = "idle"  BY <1>17, <1>a, FinishMove DEF Crash
  <2> QED BY <2>1, <1>17, <1>d DEF Crash, Counted
<1>18. ASSUME UNCHANGED <<queue, pc, job>> PROVE RetryInv'
  BY <1>18 DEF RetryInv
<1>19. ASSUME NEW w \in Workers, Work(w) PROVE RetryInv'
  <2>1. CASE Sending(w)
    BY <2>1, <1>4, <1>5, <1>6, <1>7, <1>8, <1>9, <1>10, <1>11
       DEF Sending, EmailMissing, CloseRaises
  <2>2. CASE Saving(w)
    BY <2>2, <1>5, <1>12, <1>13, <1>14, <1>15, <1>16 DEF Saving, RetryRefused
  <2> QED BY <2>1, <2>2, <1>2, <1>3, <1>19 DEF Work
<1> QED
  BY <1>1, <1>17, <1>18, <1>19 DEF Next, Deliver, Redeliver, LockExpires, OptOut, vars

\* A retry is refused exactly when one of the two budgets is used up, for every
\* mixture of errors, deliveries, failing saves and dying workers
\* (_submit_for_retry).
THEOREM RetryBudgetKept == Spec => []RetryBudget
<1>1. Init => RetryInv                               BY InitRetry
<1>2. TypeOK /\ RetryInv /\ [Next]_vars => RetryInv'  BY NextRetry
<1>3. RetryInv => RetryBudget
  BY DEF RetryInv, RetryBudget, Counted, WithinBudget
<1> QED BY <1>1, <1>2, <1>3, TypeCorrect, PTL DEF Spec

-----------------------------------------------------------------------------
(* The locks.  A lock is taken on the way to the filter only and the first   *)
(* release gives it back, before the worker can do anything else.            *)

\* The stages on which a worker may have its subtask's lock.
MayHold(stage, j) == \/ stage \in {"filter", "open", "send", "update", "release"}
                     \/ stage = "close" /\ j.then # "requeued"

\* The inductive invariant behind LocksReturned.
LockInv ==
  \A s \in SubtaskIds, w \in Workers :
    lock[s] = w => WorksOn(w, s) /\ MayHold(pc[w], job[w])

\* A worker that goes on to such a stage of the same subtask keeps the invariant.
LEMMA HeldOn ==
  ASSUME LockInv, NEW w \in Workers, OnlyMoves(w), MayHold(pc'[w], job'[w]),
         job'[w].id = job[w].id, UNCHANGED lock
  PROVE  LockInv'
BY DEF LockInv, OnlyMoves, MayHold, WorksOn

\* A worker that can hold no lock before its step may go anywhere.
LEMMA NeverHeld ==
  ASSUME LockInv, NEW w \in Workers, OnlyMoves(w), UNCHANGED lock,
         pc[w] = "idle" \/ ~MayHold(pc[w], job[w])
  PROVE  LockInv'
BY DEF LockInv, OnlyMoves, WorksOn

\* Every step keeps the holders of the locks at work.
LEMMA NextLock == TypeOK /\ LockInv /\ [Next]_vars => LockInv'
<1> SUFFICES ASSUME TypeOK, LockInv, [Next]_vars PROVE LockInv'  OBVIOUS
<1>a. WorkersOK /\ lock \in [SubtaskIds -> Workers \cup {Free, Orphan}]
  BY DEF TypeOK, WorkersOK
<1>b. \A w \in Workers : pc[w] # "idle" => job[w] \in Job  BY <1>a DEF WorkersOK
<1>1. ASSUME NEW w \in Workers, NEW m \in queue, Start(w, m) PROVE LockInv'
  <2>1. OnlyMoves(w) /\ UNCHANGED lock /\ pc[w] = "idle"  BY <1>1, <1>a, JobMove DEF Start
  <2> QED BY <2>1, NeverHeld
<1>2. ASSUME NEW w \in Workers, CheckSubtaskIsValid(w) PROVE LockInv'
  <2>1. OnlyMoves(w) /\ UNCHANGED lock /\ ~MayHold(pc[w], job[w])
    BY <1>2, <1>a, GotoMove, FinishMove DEF CheckSubtaskIsValid, MayHold
  <2> QED BY <2>1, NeverHeld
<1>3. ASSUME NEW w \in Workers, AcquireSubtaskLock(w) PROVE LockInv'
  <2>1. pc[w] = "lock" /\ ~MayHold(pc[w], job[w])  BY <1>3 DEF AcquireSubtaskLock, MayHold
  <2>2. CASE ~CanAdd(job[w].id)
    BY <2>1, <2>2, <1>3, <1>a, FinishMove, NeverHeld DEF AcquireSubtaskLock
  <2>3. CASE CanAdd(job[w].id)
    <3>1. /\ OnlyMoves(w) /\ pc'[w] = "filter" /\ job'[w] = job[w]
          /\ lock' = [lock EXCEPT ![job[w].id] = w]
      BY <2>3, <1>3, <1>a, GotoMove DEF AcquireSubtaskLock
    <3>2. \A s \in SubtaskIds : lock'[s] = IF s = job[w].id THEN w ELSE lock[s]
      BY <3>1, <1>a
    <3>3. WorksOn(w, job[w].id)' /\ MayHold(pc'[w], job'[w])
      BY <3>1 DEF WorksOn, MayHold
    <3>4. ASSUME NEW s \in SubtaskIds, NEW v \in Workers, lock'[s] = v
          PROVE  WorksOn(v, s)' /\ MayHold(pc'[v], job'[v])
      <4>1. CASE s = job[w].id
        <5>1. v = w  BY <4>1, <3>2, <3>4
        <5> QED BY <4>1, <5>1, <3>1 DEF WorksOn, MayHold
      <4>2. CASE s # job[w].id
        <5>1. WorksOn(v, s) /\ MayHold(pc[v], job[v])  BY <4>2, <3>2, <3>4 DEF LockInv
        <5>2. v # w  BY <5>1, <2>1
        <5> QED BY <5>1, <5>2, <3>1 DEF OnlyMoves, WorksOn
      <4> QED BY <4>1, <4>2
    <3> QED BY <3>4 DEF LockInv
  <2> QED BY <2>2, <2>3
<1>4. ASSUME NEW w \in Workers, FilterOptouts(w) PROVE LockInv'
  BY <1>4, <1>a, FilterMove, HeldOn DEF FilterOptouts, MayHold
<1>5. ASSUME NEW w \in Workers, pc[w] # "idle", Unexpected(w), UNCHANGED lock PROVE LockInv'
  BY <1>5, <1>a, UnexpectedMove, HeldOn DEF MayHold
<1>6. ASSUME NEW w \in Workers, OpenConnection(w) PROVE LockInv'
  BY <1>6, <1>a, GotoMove, HeldOn DEF OpenConnection, MayHold
<1>7. ASSUME NEW w \in Workers, NEW r \in Recipients,
             SendMessage(w, r) \/ RecipientRefused(w, r)
      PROVE  LockInv'
  BY <1>7, <1>a, SendMove, HeldOn DEF SendMessage, RecipientRefused, MayHold
<1>8. ASSUME NEW w \in Workers, Throttled(w) \/ Disconnected(w) PROVE LockInv'
  <2>1. PICK new \in {RetryNoMax(job[w].status), RetryMax(job[w].status)} :
          \E n \in {CappedMax(new), LimitedMax(new)} : SubmitForRetry(w, new, n)
    BY <1>8 DEF Throttled, Disconnected
  <2>2. PICK n \in {CappedMax(new), LimitedMax(new)} : SubmitForRetry(w, new, n)  BY <2>1
  <2>3. pc[w] # "idle" /\ UNCHANGED lock  BY <1>8 DEF Throttled, Disconnected
  <2>4. new \in SubtaskStatus /\ n \in Nat
    BY <2>1, <2>2, <2>3, <1>b, JobType, StatusType, LimitType
  <2> QED BY <2>2, <2>3, <2>4, <1>a, SubmitMove, HeldOn DEF MayHold
<1>9. ASSUME NEW w \in Workers, NEW status, pc[w] # "idle", UNCHANGED lock,
             CloseThen(w, [job[w] EXCEPT !.status = status], "end"), status \in SubtaskStatus
      PROVE  LockInv'
  <2> DEFINE j == [job[w] EXCEPT !.status = status]
  <2>1. j \in Job /\ j.id = job[w].id  BY <1>9, <1>b, JobType, JobFields
  <2>2. CloseThen(w, j, "end")  BY <1>9
  <2> HIDE DEF j
  <2>3. OnlyMoves(w) /\ pc'[w] = "close" /\ job'[w].id = j.id /\ job'[w].then = "end"
    BY <2>1, <2>2, <1>a, CloseMove DEF Continuations
  <2> QED BY <2>1, <2>3, <1>9, HeldOn DEF MayHold
<1>10. ASSUME NEW w \in Workers, SendingImpossible(w) \/ AllSent(w) PROVE LockInv'
  <2>1. pc[w] # "idle" /\ UNCHANGED lock  BY <1>10 DEF SendingImpossible, AllSent
  <2>2. /\ job[w].status \in SubtaskStatus /\ Cardinality(job[w].toList) \in Nat
    BY <2>1, <1>b, JobType, LengthType
  <2>3. /\ FailWith(job[w].status, Cardinality(job[w].toList)) \in SubtaskStatus
        /\ [job[w].status EXCEPT !.state = "SUCCESS"] \in SubtaskStatus
    BY <2>2, StatusType
  <2>4. CASE SendingImpossible(w)  BY <2>1, <2>3, <2>4, <1>9 DEF SendingImpossible
  <2>5. CASE AllSent(w)
    <3>1. CloseThen(w, [job[w] EXCEPT !.status = [job[w].status EXCEPT !.state = "SUCCESS"]], "end")
      BY <2>5 DEF AllSent
    <3> QED BY <2>1, <2>3, <3>1, <1>9
  <2> QED BY <1>10, <2>4, <2>5
<1>11. ASSUME NEW w \in Workers, CloseConnection(w) PROVE LockInv'
  <2>1. pc[w] = "close" /\ UNCHANGED lock  BY <1>11 DEF CloseConnection
  <2>2. CASE job[w].then = "requeued"
    BY <2>1, <2>2, <1>11, <1>a, FinishMove, NeverHeld DEF CloseConnection, MayHold
  <2>3. CASE job[w].then # "requeued"
    <3>1. job[w] \in Job /\ job[w].status \in SubtaskStatus  BY <2>1, <1>b, JobType
    <3> QED BY <2>1, <2>3, <3>1, <1>11, <1>a, SaveMove, HeldOn
            DEF CloseConnection, MayHold, Continuations
  <2> QED BY <2>2, <2>3
<1>12. ASSUME NEW w \in Workers, UpdateSubtaskStatus(w) PROVE LockInv'
  BY <1>12, <1>a, JobMove, HeldOn DEF UpdateSubtaskStatus, Release, MayHold
<1>13. ASSUME NEW w \in Workers, UpdateDatabaseError(w) PROVE LockInv'
  <2>1. job[w] \in Job /\ UNCHANGED lock /\ pc[w] = "update"
    BY <1>13, <1>b DEF UpdateDatabaseError
  <2>2. CASE job[w].depth + 1 < MaxDbLockRetries
    <3> DEFINE j == [job[w] EXCEPT !.depth = job[w].depth + 1]
    <3>1. j.id = job[w].id  BY <2>1, JobFields
    <3>2. SetJob(w, j) /\ UNCHANGED pc  BY <2>2, <1>13 DEF UpdateDatabaseError
    <3> HIDE DEF j
    <3> QED BY <2>1, <3>1, <3>2, <1>a, SameStageMove, HeldOn DEF MayHold
  <2>3. CASE ~(job[w].depth + 1 < MaxDbLockRetries)
    <3>1. Raised(job[w]).id = job[w].id  BY <2>1, JobFields DEF Raised
    <3> QED BY <2>1, <2>3, <3>1, <1>13, <1>a, JobMove, HeldOn
            DEF UpdateDatabaseError, Release, MayHold
  <2> QED BY <2>2, <2>3
<1>14. ASSUME NEW w \in Workers, ReleaseSubtaskLock(w) PROVE LockInv'
  <2>1. pc[w] = "release" /\ job[w] \in Job /\ job[w].id \in SubtaskIds
          /\ lock' = [lock EXCEPT ![job[w].id] = Free]
    BY <1>14, <1>b, JobType DEF ReleaseSubtaskLock, Deleted
  <2>2. \A s \in SubtaskIds : lock'[s] = IF s = job[w].id THEN Free ELSE lock[s]
    BY <2>1, <1>a
  <2>3. OnlyMoves(w)
    <3>1. CASE Outermost(job[w])
      BY <3>1, <2>1, <1>14, <1>a, FinishMove, GotoMove, UnexpectedMove
         DEF ReleaseSubtaskLock, Continue
    <3>2. CASE ~Outermost(job[w])
      BY <3>2, <1>14, <1>a, SameStageMove DEF ReleaseSubtaskLock
    <3> QED BY <3>1, <3>2
  <2>4. ASSUME NEW s \in SubtaskIds, NEW v \in Workers, lock'[s] = v
        PROVE  WorksOn(v, s)' /\ MayHold(pc'[v], job'[v])
    <3>1. s # job[w].id /\ lock[s] = v  BY <2>2, <2>4, LockAssumption
    <3>2. WorksOn(v, s) /\ MayHold(pc[v], job[v])  BY <3>1 DEF LockInv
    <3>3. v # w  BY <3>1, <3>2 DEF WorksOn
    <3> QED BY <3>2, <3>3, <2>3 DEF OnlyMoves, WorksOn
  <2> QED BY <2>4 DEF LockInv
<1>15. ASSUME NEW w \in Workers, Retry(w) PROVE LockInv'
  <2>1. ~MayHold(pc[w], job[w]) /\ pc[w] = "retry" /\ job[w] \in Job /\ UNCHANGED lock
    BY <1>15, <1>b DEF Retry, MayHold
  <2> QED BY <2>1, <1>15, <1>a, CloseMove, NeverHeld DEF Retry, Continuations
<1>16. ASSUME NEW w \in Workers, Crash(w) PROVE LockInv'
  <2>1. OnlyMoves(w)  BY <1>16, <1>a, FinishMove DEF Crash
  <2>2. \A s \in SubtaskIds : lock'[s] = IF lock[s] = w THEN Orphan ELSE lock[s]
    BY <1>16, <1>a DEF Crash
  <2>3. ASSUME NEW s \in SubtaskIds, NEW v \in Workers, lock'[s] = v
        PROVE  WorksOn(v, s)' /\ MayHold(pc'[v], job'[v])
    BY <2>1, <2>2, <2>3, LockAssumption DEF LockInv, OnlyMoves, WorksOn
  <2> QED BY <2>3 DEF LockInv
<1>17. ASSUME NEW s \in SubtaskIds, LockExpires(s) PROVE LockInv'
  <2>1. \A t \in SubtaskIds, w \in Workers : lock'[t] = w => lock[t] = w
    BY <1>17, <1>a, LockAssumption DEF LockExpires
  <2> QED BY <2>1, <1>17 DEF LockInv, LockExpires, WorksOn
<1>18. ASSUME UNCHANGED <<pc, job, lock>> PROVE LockInv'
  BY <1>18 DEF LockInv, WorksOn
<1>19. ASSUME NEW w \in Workers, Work(w) PROVE LockInv'
  <2>1. CASE Sending(w)
    BY <2>1, <1>4, <1>5, <1>6, <1>7, <1>8, <1>10, <1>11 DEF Sending, EmailMissing, CloseRaises
  <2>2. CASE Saving(w)
    BY <2>2, <1>5, <1>12, <1>13, <1>14, <1>15 DEF Saving, RetryRefused
  <2> QED BY <2>1, <2>2, <1>2, <1>3, <1>19 DEF Work
<1> QED
  BY <1>1, <1>16, <1>17, <1>18, <1>19 DEF Next, Deliver, Redeliver, OptOut, vars

\* Every path out of the sending returns the lock, whatever fails on it, save the death
\* of the worker: a lock is held by a worker that is on the subtask
\* (send_course_email, update_subtask_status, release_subtask_lock).
THEOREM LocksAlwaysReturned == Spec => []LocksReturned
<1>1. Init => LockInv  BY LockAssumption DEF Init, LockInv
<1>2. TypeOK /\ LockInv /\ [Next]_vars => LockInv'  BY NextLock
<1>3. LockInv => LocksReturned  BY DEF LockInv, LocksReturned
<1> QED BY <1>1, <1>2, <1>3, TypeCorrect, PTL DEF Spec

-----------------------------------------------------------------------------
(* The accounts.  Everybody of the subtask's list is in one of the counts or *)
(* still on the list, and what the handler of unexpected exceptions adds is  *)
(* never less than what is still on the list.                                *)

Total(status) == status.succeeded + status.failed + status.skipped

\* The counts and the rest of the list cover the subtask.
Covered(s, status, list) == Total(status) + Cardinality(list) >= Cardinality(Chunk[s])

\* The counts alone do.
AllCounted(s, status) == Total(status) >= Cardinality(Chunk[s])

\* What holds of a job that is not finished.
Account(stage, j) ==
  /\ Covered(j.id, j.status, j.toList)
  /\ Cardinality(j.toList) <= j.numToSend
  /\ stage = "close" => j.then = "requeued" \/ AllCounted(j.id, j.status)
  /\ stage = "update" => \/ j.then = "end" /\ AllCounted(j.id, j.status)
                         \/ j.then = "retry" /\ j.status.state = "RETRY"

\* The inductive invariant behind NobodyForgotten.
AccountInv ==
  /\ \A s \in SubtaskIds : Ready(s) => AllCounted(s, entry.status[s])
  /\ \A m \in queue : Covered(m.id, m.status, m.toList)
  /\ \A w \in Workers : pc[w] # "idle" => Account(pc[w], job[w])

\* Lengths of lists, and of lists from which some have been taken.
LEMMA ListLengths ==
  ASSUME NEW list \in SUBSET Recipients, NEW out \in SUBSET list
  PROVE  /\ Cardinality(list) \in Nat /\ Cardinality(out) \in Nat
         /\ Cardinality(list \ out) \in Nat
         /\ Cardinality(list \ out) = Cardinality(list) - Cardinality(out)
<1>1. IsFiniteSet(list)  BY RecipientsAssumption, FS_Subset
<1>2. Cardinality(list \ out) = Cardinality(list) - Cardinality(list \cap out)
  BY <1>1, FS_Difference
<1>3. list \cap out = out  OBVIOUS
<1>4. Cardinality(list) \in Nat /\ Cardinality(out) \in Nat /\ Cardinality(list \ out) \in Nat
  BY LengthType
<1> QED BY <1>2, <1>3, <1>4

\* The types of the counts.
LEMMA TotalType ==
  ASSUME NEW status \in SubtaskStatus
  PROVE  /\ Total(status) \in Nat
         /\ status.succeeded \in Nat /\ status.failed \in Nat /\ status.skipped \in Nat
BY DEF Total, SubtaskStatus

\* What a subtask has to account for is a number.
LEMMA ChunkLength == \A s \in SubtaskIds : Cardinality(Chunk[s]) \in Nat
BY ChunkAssumption, LengthType

\* A step of one worker that leaves the row alone keeps the accounts if it keeps its own.
LEMMA AccountStep ==
  ASSUME AccountInv, NEW w \in Workers, OnlyMoves(w), UNCHANGED entry, queue' \subseteq queue,
         pc'[w] = "idle" \/ Account(pc'[w], job'[w])
  PROVE  AccountInv'
<1>1. ASSUME NEW v \in Workers, pc'[v] # "idle" PROVE Account(pc'[v], job'[v])
  BY <1>1 DEF AccountInv, OnlyMoves
<1>2. \A s \in SubtaskIds : Ready(s)' => AllCounted(s, entry'.status[s])
  BY DEF AccountInv, Ready
<1>3. \A v \in Workers : Account(pc[v], job[v])' <=> Account(pc'[v], job'[v])
  BY DEF Account, Covered, AllCounted, Total
<1> QED BY <1>1, <1>2, <1>3 DEF AccountInv, Covered, Total, AllCounted

\* Saving a final outcome that accounts for everybody.
LEMMA EndAccount ==
  ASSUME NEW j, NEW stage, Covered(j.id, j.status, j.toList), Cardinality(j.toList) <= j.numToSend,
         AllCounted(j.id, j.status), j.then = "end"
  PROVE  Account(stage, j)
BY DEF Account

\* Counting the rest of the list as failed accounts for everybody.
LEMMA FailAccount ==
  ASSUME NEW s \in SubtaskIds, NEW status \in SubtaskStatus, NEW list \in SUBSET Recipients,
         NEW n \in Nat, Covered(s, status, list), Cardinality(list) <= n
  PROVE  /\ AllCounted(s, FailWith(status, n))
         /\ Covered(s, FailWith(status, n), list)
<1> DEFINE new == FailWith(status, n)
<1>1. /\ new.succeeded = status.succeeded /\ new.failed = status.failed + n
      /\ new.skipped = status.skipped
  BY CountFields
<1>2. Total(status) \in Nat /\ Total(new) = Total(status) + n
  <2> HIDE DEF new
  <2> QED BY <1>1, TotalType DEF Total
<1>3. Cardinality(list) \in Nat /\ Cardinality(Chunk[s]) \in Nat
  BY LengthType, ChunkLength
<1> HIDE DEF new
<1>4. AllCounted(s, new) /\ Covered(s, new, list)  BY <1>2, <1>3 DEF Covered, AllCounted
<1> QED BY <1>4 DEF new

\* At the start nobody is counted and everybody is on a list.
LEMMA InitAccount == Init => AccountInv
<1> SUFFICES ASSUME Init PROVE AccountInv  OBVIOUS
<1>1. \A s \in SubtaskIds : Total(NewStatus) + Cardinality(Chunk[s]) >= Cardinality(Chunk[s])
  <2>1. Total(NewStatus) = 0  BY DEF Total, NewStatus
  <2> QED BY <2>1, ChunkLength
<1>2. \A m \in queue : Covered(m.id, m.status, m.toList)
  BY <1>1 DEF Init, NewMessage, Covered
<1>3. \A s \in SubtaskIds : ~Ready(s)
  BY DEF Init, InitializeSubtaskInfo, NewStatus, Ready, ReadyStates
<1>4. \A w \in Workers : pc[w] = "idle"  BY DEF Init
<1> QED BY <1>2, <1>3, <1>4 DEF AccountInv

\* Every step keeps the accounts.
LEMMA NextAccount == TypeOK /\ AccountInv /\ [Next]_vars => AccountInv'
<1> SUFFICES ASSUME TypeOK, AccountInv, [Next]_vars PROVE AccountInv'  OBVIOUS
<1>a. WorkersOK /\ queue \subseteq Message /\ entry \in Entry  BY DEF TypeOK, WorkersOK
<1>b. ASSUME NEW w \in Workers, pc[w] # "idle"
      PROVE  /\ job[w] \in Job /\ job[w].id \in SubtaskIds /\ job[w].status \in SubtaskStatus
             /\ job[w].toList \in SUBSET Recipients /\ job[w].numToSend \in Nat
             /\ Cardinality(job[w].toList) \in Nat /\ Account(pc[w], job[w])
             /\ Covered(job[w].id, job[w].status, job[w].toList)
             /\ Cardinality(job[w].toList) <= job[w].numToSend
  BY <1>a, <1>b, JobType, LengthType DEF WorkersOK, AccountInv, Account
<1>1. ASSUME NEW w \in Workers, NEW m \in queue, Start(w, m), queue' \subseteq queue
      PROVE  AccountInv'
  <2>1. OnlyMoves(w) /\ pc'[w] = "check" /\ job'[w] = NewJob(m) /\ UNCHANGED entry
    BY <1>1, <1>a, JobMove DEF Start
  <2>2. m \in Message /\ Covered(m.id, m.status, m.toList)  BY <1>a DEF AccountInv
  <2>3. Cardinality(m.toList) \in Nat  BY <2>2, LengthType DEF Message
  <2>4. Account("check", NewJob(m))  BY <2>2, <2>3 DEF Account, NewJob
  <2> QED BY <2>1, <2>4, <1>1, AccountStep
<1>2. ASSUME NEW w \in Workers, NEW stage \in {"lock", "filter", "send", "retry"}, pc[w] # "idle",
             OnlyMoves(w), pc'[w] = stage, job'[w] = job[w], UNCHANGED <<entry, queue>>
      PROVE  AccountInv'
  <2>1. Account(stage, job[w])  BY <1>2, <1>b DEF Account
  <2> QED BY <2>1, <1>2, AccountStep
<1>3. ASSUME NEW w \in Workers, Finish(w), UNCHANGED <<entry, queue>> PROVE AccountInv'
  BY <1>3, <1>a, FinishMove, AccountStep
<1>4. ASSUME NEW w \in Workers, FilterOptouts(w) PROVE AccountInv'
  <2>1. pc[w] # "idle" /\ UNCHANGED <<entry, queue>>  BY <1>4 DEF FilterOptouts
  <2>2. PICK j : j = job'[w]  OBVIOUS
  <2>3. /\ OnlyMoves(w) /\ pc'[w] = "open" /\ j.id = job[w].id /\ j.numToSend = job[w].numToSend
        /\ j.status.succeeded = job[w].status.succeeded /\ j.status.failed = job[w].status.failed
    BY <1>4, <1>a, <2>2, FilterMove
  <2>4. PICK out \in SUBSET job[w].toList :
          /\ j.toList = job[w].toList \ out
          /\ j.status.skipped = job[w].status.skipped + Cardinality(out)
    BY <1>4, <1>a, <2>2, FilterMove
  <2>5. /\ Cardinality(out) \in Nat /\ Cardinality(j.toList) \in Nat
        /\ Cardinality(j.toList) = Cardinality(job[w].toList) - Cardinality(out)
    BY <2>1, <2>4, <1>b, ListLengths
  <2>6. Total(j.status) = Total(job[w].status) + Cardinality(out) /\ Total(job[w].status) \in Nat
    BY <2>1, <2>3, <2>4, <2>5, <1>b, TotalType DEF Total
  <2>7. Covered(j.id, j.status, j.toList) /\ Cardinality(j.toList) <= j.numToSend
    BY <2>1, <2>3, <2>5, <2>6, <1>b, ChunkLength DEF Covered
  <2>8. Account("open", j)  BY <2>7 DEF Account
  <2> QED BY <2>1, <2>2, <2>3, <2>8, AccountStep
<1>5. ASSUME NEW w \in Workers, pc[w] # "idle", Unexpected(w), UNCHANGED <<entry, queue>>
      PROVE  AccountInv'
  <2>1. PICK j : j = job'[w]  OBVIOUS
  <2>2. /\ OnlyMoves(w) /\ pc'[w] = "update" /\ j.id = job[w].id /\ j.toList = job[w].toList
        /\ j.status = FailWith(job[w].status, job[w].numToSend)
        /\ j.then = "end" /\ j.numToSend = job[w].numToSend
    BY <2>1, <1>5, <1>a, UnexpectedMove
  <2>3. AllCounted(j.id, j.status) /\ Covered(j.id, j.status, j.toList)
    BY <2>2, <1>5, <1>b, FailAccount
  <2>4. Account("update", j)  BY <2>2, <2>3, <1>5, <1>b, EndAccount
  <2> QED BY <2>1, <2>2, <2>4, <1>5, AccountStep
<1>6. ASSUME NEW w \in Workers, NEW r \in Recipients,
             SendMessage(w, r) \/ RecipientRefused(w, r)
      PROVE  AccountInv'
  <2>1. /\ pc[w] # "idle" /\ r \in job[w].toList /\ UNCHANGED <<entry, queue>>
    BY <1>6 DEF SendMessage, RecipientRefused
  <2>2. PICK j : j = job'[w]  OBVIOUS
  <2>3. /\ OnlyMoves(w) /\ pc'[w] = "send" /\ j.id = job[w].id /\ j.toList = job[w].toList \ {r}
        /\ j.numToSend = job[w].numToSend
        /\ j.status \in {Succeed(job[w].status), Fail(job[w].status, 1)}
    BY <1>6, <1>a, <2>2, SendMove
  <2>4. Total(j.status) = Total(job[w].status) + 1 /\ Total(job[w].status) \in Nat
    <3> DEFINE st == job[w].status
    <3>1. st \in SubtaskStatus /\ j.status \in {Succeed(st), Fail(st, 1)}  BY <2>1, <2>3, <1>b
    <3> HIDE DEF st
    <3>2. /\ Succeed(st).succeeded = st.succeeded + 1 /\ Succeed(st).failed = st.failed
          /\ Succeed(st).skipped = st.skipped
          /\ Fail(st, 1).succeeded = st.succeeded /\ Fail(st, 1).failed = st.failed + 1
          /\ Fail(st, 1).skipped = st.skipped
      <4>1. 1 \in Nat  OBVIOUS
      <4> QED BY <4>1, <3>1, CountFields
    <3>3. Total(j.status) = Total(st) + 1 /\ Total(st) \in Nat
      BY <3>1, <3>2, TotalType DEF Total
    <3> QED BY <3>3 DEF st
  <2>5. Cardinality(j.toList) \in Nat /\ Cardinality(j.toList) = Cardinality(job[w].toList) - 1
    <3>1. {r} \in SUBSET job[w].toList /\ Cardinality({r}) = 1  BY <2>1, FS_Singleton
    <3> QED BY <3>1, <2>1, <2>3, <1>b, ListLengths
  <2>6. Covered(j.id, j.status, j.toList) /\ Cardinality(j.toList) <= j.numToSend
    BY <2>1, <2>3, <2>4, <2>5, <1>b, ChunkLength DEF Covered
  <2>7. Account("send", j)  BY <2>6 DEF Account
  <2> QED BY <2>1, <2>2, <2>3, <2>7, AccountStep
<1>7. ASSUME NEW w \in Workers, Throttled(w) \/ Disconnected(w) PROVE AccountInv'
  <2>1. PICK new \in {RetryNoMax(job[w].status), RetryMax(job[w].status)} :
          \E n \in {CappedMax(new), LimitedMax(new)} : SubmitForRetry(w, new, n)
    BY <1>7 DEF Throttled, Disconnected
  <2>2. PICK n \in {CappedMax(new), LimitedMax(new)} : SubmitForRetry(w, new, n)  BY <2>1
  <2>3. pc[w] # "idle" /\ UNCHANGED <<entry, queue>>  BY <1>7 DEF Throttled, Disconnected
  <2>4. new \in SubtaskStatus /\ n \in Nat
    BY <2>1, <2>2, <2>3, <1>b, JobType, StatusType, LimitType
  <2>5. PICK j : j = job'[w]  OBVIOUS
  <2>6. /\ OnlyMoves(w) /\ pc'[w] = "update" /\ j.id = job[w].id /\ j.toList = job[w].toList
        /\ j.status = new /\ j.then = "retry" /\ j.numToSend = job[w].numToSend
    BY <2>2, <2>3, <2>4, <2>5, <1>a, SubmitMove
  <2>7. new.state = "RETRY" /\ Total(new) = Total(job[w].status)
    <3>1. 0 \in Nat  OBVIOUS
    <3> QED BY <3>1, <2>1, <2>3, <1>b, CountFields DEF Total
  <2>8. Account("update", j)  BY <2>3, <2>6, <2>7, <1>b DEF Account, Covered
  <2> QED BY <2>3, <2>5, <2>6, <2>8, AccountStep
<1>8. ASSUME NEW w \in Workers, NEW status \in SubtaskStatus, pc[w] # "idle",
             CloseThen(w, [job[w] EXCEPT !.status = status], "end"),
             AllCounted(job[w].id, status), Covered(job[w].id, status, job[w].toList),
             UNCHANGED <<entry, queue>>
      PROVE  AccountInv'
  <2> DEFINE k == [job[w] EXCEPT !.status = status]
  <2>1. /\ k \in Job /\ k.id = job[w].id /\ k.toList = job[w].toList /\ k.status = status
        /\ k.numToSend = job[w].numToSend
    BY <1>8, <1>b, JobType, JobFields
  <2>2. CloseThen(w, k, "end")  BY <1>8
  <2> HIDE DEF k
  <2>3. PICK j : j = job'[w]  OBVIOUS
  <2>4. /\ OnlyMoves(w) /\ pc'[w] = "close" /\ j.id = k.id /\ j.toList = k.toList
        /\ j.status = k.status /\ j.then = "end" /\ j.numToSend = k.numToSend
    BY <2>1, <2>2, <2>3, <1>a, CloseMove DEF Continuations
  <2>5. Account("close", j)  BY <2>1, <2>4, <1>8, <1>b, EndAccount
  <2> QED BY <2>3, <2>4, <2>5, <1>8, AccountStep
<1>9. ASSUME NEW w \in Workers, SendingImpossible(w) PROVE AccountInv'
  <2> DEFINE n == Cardinality(job[w].toList)
  <2>1. pc[w] # "idle" /\ UNCHANGED <<entry, queue>>  BY <1>9 DEF SendingImpossible
  <2>2. n \in Nat /\ FailWith(job[w].status, n) \in SubtaskStatus
    BY <2>1, <1>b, LengthType, StatusType
  <2>3. /\ AllCounted(job[w].id, FailWith(job[w].status, n))
        /\ Covered(job[w].id, FailWith(job[w].status, n), job[w].toList)
    BY <2>1, <2>2, <1>b, FailAccount
  <2> QED BY <2>1, <2>2, <2>3, <1>8, <1>9 DEF SendingImpossible
<1>10. ASSUME NEW w \in Workers, AllSent(w) PROVE AccountInv'
  <2> DEFINE status == [job[w].status EXCEPT !.state = "SUCCESS"]
  <2>1. /\ pc[w] # "idle" /\ job[w].toList = {} /\ UNCHANGED <<entry, queue>>
        /\ CloseThen(w, [job[w] EXCEPT !.status = status], "end")
    BY <1>10 DEF AllSent
  <2>2. status \in SubtaskStatus /\ Total(status) = Total(job[w].status)
          /\ Total(status) \in Nat
    <3>1. 0 \in Nat  OBVIOUS
    <3>2. status \in SubtaskStatus  BY <2>1, <1>b, StatusType
    <3>3. Total(status) = Total(job[w].status)  BY <3>1, <2>1, <1>b, CountFields DEF Total
    <3> QED BY <3>2, <3>3, TotalType
  <2> HIDE DEF status
  <2>3. Covered(job[w].id, status, job[w].toList)  BY <2>1, <2>2, <1>b DEF Covered
  <2>4. AllCounted(job[w].id, status)
    BY <2>1, <2>2, <2>3, <1>b, FS_EmptySet DEF Covered, AllCounted
  <2> QED BY <2>1, <2>2, <2>3, <2>4, <1>8
<1>11. ASSUME NEW w \in Workers, CloseConnection(w) PROVE AccountInv'
  <2>1. pc[w] = "close" /\ UNCHANGED <<entry, queue>>  BY <1>11 DEF CloseConnection
  <2>2. CASE job[w].then = "requeued"  BY <2>1, <2>2, <1>3, <1>11 DEF CloseConnection
  <2>3. CASE job[w].then # "requeued"
    <3>1. SaveThen(w, job[w], job[w].status, "end")  BY <2>3, <1>11 DEF CloseConnection
    <3>2. AllCounted(job[w].id, job[w].status)  BY <2>1, <2>3, <1>b DEF Account
    <3>3. PICK j : j = job'[w]  OBVIOUS
    <3>4. /\ OnlyMoves(w) /\ pc'[w] = "update" /\ j.id = job[w].id /\ j.toList = job[w].toList
          /\ j.status = job[w].status /\ j.then = "end" /\ j.numToSend = job[w].numToSend
      BY <2>1, <3>1, <3>3, <1>a, <1>b, SaveMove DEF Continuations
    <3>5. Account("update", j)  BY <2>1, <3>2, <3>4, <1>b, EndAccount
    <3> QED BY <2>1, <3>3, <3>4, <3>5, AccountStep
  <2> QED BY <2>2, <2>3
<1>12. ASSUME NEW w \in Workers, UpdateSubtaskStatus(w) PROVE AccountInv'
  <2>1. PICK s, status : s = job[w].id /\ status = job[w].status  OBVIOUS
  <2>2. /\ pc[w] = "update" /\ entry' = RecordStatus(s, status) /\ UNCHANGED queue
        /\ OnlyMoves(w) /\ pc'[w] = "release" /\ job'[w] = job[w]
    BY <2>1, <1>12, <1>a, JobMove DEF UpdateSubtaskStatus, Release
  <2>3. /\ s \in SubtaskIds /\ status \in SubtaskStatus /\ Account("update", job[w])
    BY <2>1, <2>2, <1>b
  <2>4. entry'.status = [entry.status EXCEPT ![s] = status]
    BY <2>2, <2>3, <1>a, RecordType DEF RecordStatus, Entry
  <2>5. \A t \in SubtaskIds : entry'.status[t] = IF t = s THEN status ELSE entry.status[t]
    BY <2>4, <1>a DEF Entry
  <2>6. status.state \in ReadyStates => AllCounted(s, status)
    BY <2>1, <2>3 DEF Account, ReadyStates
  <2>7. \A t \in SubtaskIds : Ready(t)' => AllCounted(t, entry'.status[t])
    BY <2>5, <2>6 DEF AccountInv, Ready
  <2>8. Account("release", job[w])  BY <2>3 DEF Account
  <2>9. \A v \in Workers : pc'[v] # "idle" => Account(pc'[v], job'[v])
    BY <2>2, <2>8 DEF AccountInv, OnlyMoves
  <2>10. \A v \in Workers : Account(pc[v], job[v])' <=> Account(pc'[v], job'[v])
    BY DEF Account, Covered, AllCounted, Total
  <2> QED BY <2>2, <2>7, <2>9, <2>10 DEF AccountInv, Covered, Total, AllCounted
<1>13. ASSUME NEW w \in Workers, NEW j, pc[w] \in {"update", "release"}, OnlyMoves(w), job'[w] = j,
             pc'[w] \in {"update", "release"}, pc'[w] = "update" => pc[w] = "update" /\ j.then = job[w].then,
             j.id = job[w].id, j.toList = job[w].toList, j.status = job[w].status,
             j.numToSend = job[w].numToSend, UNCHANGED <<entry, queue>>
      PROVE  AccountInv'
  <2>1. Account(pc'[w], j)  BY <1>13, <1>b DEF Account
  <2> QED BY <2>1, <1>13, AccountStep
<1>14. ASSUME NEW w \in Workers, UpdateDatabaseError(w) PROVE AccountInv'
  <2>1. pc[w] = "update" /\ job[w] \in Job /\ UNCHANGED <<entry, queue>>
    BY <1>14, <1>b DEF UpdateDatabaseError
  <2>2. CASE job[w].depth + 1 < MaxDbLockRetries
    <3> DEFINE j == [job[w] EXCEPT !.depth = job[w].depth + 1]
    <3>1. /\ j.id = job[w].id /\ j.toList = job[w].toList /\ j.status = job[w].status
          /\ j.numToSend = job[w].numToSend /\ j.then = job[w].then
      BY <2>1, JobFields
    <3>2. SetJob(w, j) /\ UNCHANGED pc  BY <2>2, <1>14 DEF UpdateDatabaseError
    <3> HIDE DEF j
    <3>3. OnlyMoves(w) /\ pc'[w] = "update" /\ job'[w] = j
      BY <3>2, <2>1, <1>a, SameStageMove
    <3> QED BY <2>1, <3>1, <3>3, <1>13
  <2>3. CASE ~(job[w].depth + 1 < MaxDbLockRetries)
    <3>1. PICK j : j = Raised(job[w])  OBVIOUS
    <3>2. /\ j.id = job[w].id /\ j.toList = job[w].toList /\ j.status = job[w].status
          /\ j.numToSend = job[w].numToSend
      BY <2>1, <3>1, JobFields DEF Raised
    <3>3. OnlyMoves(w) /\ pc'[w] = "release" /\ job'[w] = j
      BY <3>1, <2>3, <1>14, <1>a, JobMove DEF UpdateDatabaseError, Release
    <3> QED BY <2>1, <3>2, <3>3, <1>13
  <2> QED BY <2>2, <2>3
<1>15. ASSUME NEW w \in Workers, ReleaseSubtaskLock(w) PROVE AccountInv'
  <2>1. pc[w] = "release" /\ job[w] \in Job /\ UNCHANGED <<entry, queue>>
    BY <1>15, <1>b DEF ReleaseSubtaskLock
  <2>2. CASE Outermost(job[w])
    <3>1. Continue(w)  BY <2>2, <1>15 DEF ReleaseSubtaskLock
    <3>2. CASE Goto(w, "retry") /\ UNCHANGED job
      BY <3>2, <2>1, <1>2, <1>a, GotoMove
    <3> QED BY <3>1, <3>2, <2>1, <1>3, <1>5 DEF Continue
  <2>3. CASE ~Outermost(job[w])
    <3> DEFINE j == [job[w] EXCEPT !.depth = job[w].depth - 1]
    <3>1. /\ j.id = job[w].id /\ j.toList = job[w].toList /\ j.status = job[w].status
          /\ j.numToSend = job[w].numToSend
      BY <2>1, JobFields
    <3>2. SetJob(w, j) /\ UNCHANGED pc  BY <2>3, <1>15 DEF ReleaseSubtaskLock
    <3> HIDE DEF j
    <3>3. OnlyMoves(w) /\ pc'[w] = "release" /\ job'[w] = j
      BY <3>2, <2>1, <1>a, SameStageMove
    <3> QED BY <2>1, <3>1, <3>3, <1>13
  <2> QED BY <2>2, <2>3
<1>16. ASSUME NEW w \in Workers, Retry(w) PROVE AccountInv'
  <2>1. pc[w] = "retry" /\ job[w] \in Job /\ UNCHANGED entry
          /\ queue' = queue \cup {RetryMessage(job[w])}
    BY <1>16, <1>b DEF Retry
  <2>2. \A m \in queue' : Covered(m.id, m.status, m.toList)
    BY <2>1, <1>b DEF AccountInv, RetryMessage
  <2>3. PICK j : j = job'[w]  OBVIOUS
  <2>4. /\ OnlyMoves(w) /\ pc'[w] = "close" /\ j.id = job[w].id /\ j.toList = job[w].toList
        /\ j.status = job[w].status /\ j.then = "requeued" /\ j.numToSend = job[w].numToSend
    BY <2>1, <2>3, <1>16, <1>a, CloseMove DEF Retry, Continuations
  <2>5. Account("close", j)  BY <2>1, <2>4, <1>b DEF Account
  <2>6. \A v \in Workers : pc'[v] # "idle" => Account(pc'[v], job'[v])
    BY <2>3, <2>4, <2>5 DEF AccountInv, OnlyMoves
  <2>7. \A v \in Workers : Account(pc[v], job[v])' <=> Account(pc'[v], job'[v])
    BY DEF Account, Covered, AllCounted, Total
  <2> QED BY <2>1, <2>2, <2>6, <2>7 DEF AccountInv, Ready, Covered, Total, AllCounted
<1>17. ASSUME UNCHANGED <<entry, queue, pc, job>> PROVE AccountInv'
  BY <1>17 DEF AccountInv, Ready, Account, Covered, Total, AllCounted
<1>18. ASSUME NEW w \in Workers, Work(w) PROVE AccountInv'
  <2>1. CASE CheckSubtaskIsValid(w)
    BY <2>1, <1>2, <1>3, <1>a, GotoMove DEF CheckSubtaskIsValid
  <2>2. CASE AcquireSubtaskLock(w)
    BY <2>2, <1>2, <1>3, <1>a, GotoMove DEF AcquireSubtaskLock
  <2>3. CASE OpenConnection(w)  BY <2>3, <1>2, <1>a, GotoMove DEF OpenConnection
  <2>4. CASE Sending(w)
    BY <2>3, <2>4, <1>4, <1>5, <1>6, <1>7, <1>9, <1>10, <1>11
       DEF Sending, EmailMissing, CloseRaises
  <2>5. CASE Saving(w)
    BY <2>5, <1>5, <1>12, <1>14, <1>15, <1>16 DEF Saving, RetryRefused
  <2> QED BY <2>1, <2>2, <2>4, <2>5, <1>18 DEF Work
<1>19. ASSUME NEW w \in Workers, Crash(w) PROVE AccountInv'  BY <1>19, <1>3 DEF Crash
<1> QED
  BY <1>1, <1>17, <1>18, <1>19 DEF Next, Deliver, Redeliver, LockExpires, OptOut, vars

\* A finished subtask has every one of its recipients in one of its counts, whichever of
\* the failure paths of send_course_email it took and however often.
THEOREM NobodyEverForgotten == Spec => []NobodyForgotten
<1>1. Init => AccountInv                               BY InitAccount
<1>2. TypeOK /\ AccountInv /\ [Next]_vars => AccountInv'  BY NextAccount
<1>3. TypeOK /\ AccountInv => NobodyForgotten
  BY DEF TypeOK, Entry, AccountInv, AllCounted, Total, NobodyForgotten
<1> QED BY <1>1, <1>2, <1>3, TypeCorrect, PTL DEF Spec
-----------------------------------------------------------------------------
(* The optouts.  Only the first attempt filters, so whoever is to be left     *)
(* out must be off the list of every attempt after it.                        *)

\* No attempt mails anybody who is not in the subtask.
ListInv ==
  /\ \A m \in queue : m.toList \subseteq Chunk[m.id]
  /\ \A w \in Workers : pc[w] # "idle" => job[w].toList \subseteq Chunk[job[w].id]

\* An attempt that will not mail r: r is off its list, it has still to filter, or it
\* has given up.
Spares(r, stage, j) ==
  \/ r \notin j.toList
  \/ stage \in {"check", "lock", "filter"} /\ RetryCount(j.status) = 0
  \/ stage \in {"update", "release"} /\ j.then = "end"

\* What stays so once r has opted out in time.
SparedInv(r) ==
  /\ r \in optouts /\ sent[r] = 0
  /\ \A m \in queue : r \in m.toList => RetryCount(m.status) = 0
  /\ \A w \in Workers : pc[w] # "idle" => Spares(r, pc[w], job[w])

\* A worker takes recipients off its list, mails only those on it, and goes on sparing
\* those who have opted out.
Spared(w) ==
  /\ pc[w] # "idle" /\ OnlyMoves(w) /\ UNCHANGED optouts
  /\ pc'[w] # "idle" =>
       /\ job'[w].id = job[w].id /\ job'[w].toList \subseteq job[w].toList
       /\ \A r \in optouts : Spares(r, pc[w], job[w]) => Spares(r, pc'[w], job'[w])
  /\ \/ queue' \subseteq queue
     \/ pc[w] = "retry" /\ queue' = queue \cup {RetryMessage(job[w])}
  /\ \/ sent' = sent
     \/ \E r \in job[w].toList : pc[w] = "send" /\ sent' = [sent EXCEPT ![r] = @ + 1]

\* Every step of a worker is of that kind.
LEMMA WorkSpares ==
  ASSUME TypeOK, NEW w \in Workers, Work(w)
  PROVE  Spared(w)
<1>a. WorkersOK  BY DEF TypeOK, WorkersOK
<1>c. pc[w] # "idle"
  BY DEF Work, CheckSubtaskIsValid, AcquireSubtaskLock, Sending, FilterOptouts, EmailMissing,
         OpenConnection, SendMessage, RecipientRefused, Throttled, Disconnected,
         SendingImpossible, AllSent, CloseConnection, CloseRaises, Saving,
         UpdateSubtaskStatus, UpdateDatabaseError, ReleaseSubtaskLock, Retry, RetryRefused
<1>d. /\ job[w] \in Job /\ job[w].status \in SubtaskStatus
      /\ job[w].toList \in SUBSET Recipients /\ Cardinality(job[w].toList) \in Nat
  BY <1>a, <1>c, JobType, LengthType DEF WorkersOK
\* Finishing, or going on with the same job.
<1>1. ASSUME UNCHANGED <<queue, optouts, sent>>,
             Finish(w) \/ \E stage \in {"lock", "filter", "send", "release", "retry"} :
               /\ Goto(w, stage) /\ UNCHANGED job
               /\ stage = "lock" => pc[w] = "check"
               /\ stage = "filter" => pc[w] = "lock"
               /\ stage = "send" => pc[w] = "open"
               /\ stage = "release" => pc[w] = "update"
               /\ stage = "retry" => pc[w] = "release" /\ job[w].then = "retry"
      PROVE  Spared(w)
  <2>1. CASE Finish(w)  BY <2>1, <1>1, <1>a, <1>c, FinishMove DEF Spared
  <2>2. ASSUME NEW stage \in {"lock", "filter", "send", "release", "retry"},
               Goto(w, stage), UNCHANGED job,
               stage = "lock" => pc[w] = "check",
               stage = "filter" => pc[w] = "lock",
               stage = "send" => pc[w] = "open",
               stage = "release" => pc[w] = "update",
               stage = "retry" => pc[w] = "release" /\ job[w].then = "retry"
        PROVE  Spared(w)
    <3>1. OnlyMoves(w) /\ pc'[w] = stage /\ job'[w] = job[w]  BY <2>2, <1>a, GotoMove
    <3>2. \A r : Spares(r, pc[w], job[w]) => Spares(r, stage, job[w])
      BY <2>2 DEF Spares
    <3> QED BY <3>1, <3>2, <1>1, <1>c DEF Spared
  <2> QED BY <2>1, <2>2, <1>1
\* The handler of unexpected exceptions.
<1>2. ASSUME Unexpected(w), UNCHANGED <<queue, optouts, sent>> PROVE Spared(w)
  <2>1. /\ OnlyMoves(w) /\ pc'[w] = "update" /\ job'[w].id = job[w].id
        /\ job'[w].toList = job[w].toList /\ job'[w].then = "end"
    BY <1>2, <1>a, <1>c, UnexpectedMove
  <2>2. \A r : Spares(r, pc'[w], job'[w])  BY <2>1 DEF Spares
  <2> QED BY <2>1, <2>2, <1>2, <1>c DEF Spared
\* Any step from the opening of the connection on that keeps the list and the end.
<1>3. ASSUME OnlyMoves(w), UNCHANGED <<queue, optouts, sent>>,
             job'[w].id = job[w].id, job'[w].toList = job[w].toList,
             \/ pc[w] \in {"open", "send", "close", "retry"}
             \/ pc[w] \in {"update", "release"} /\ pc'[w] \in {"update", "release"}
                /\ (job[w].then = "end" => job'[w].then = "end")
      PROVE  Spared(w)
  <2>1. \A r : Spares(r, pc[w], job[w]) => Spares(r, pc'[w], job'[w])
    BY <1>3 DEF Spares
  <2> QED BY <2>1, <1>3, <1>c DEF Spared
<1>4. CASE CheckSubtaskIsValid(w)  BY <1>4, <1>1 DEF CheckSubtaskIsValid
<1>5. CASE AcquireSubtaskLock(w)   BY <1>5, <1>1 DEF AcquireSubtaskLock
<1>6. CASE FilterOptouts(w)
  <2>1. /\ OnlyMoves(w) /\ pc'[w] = "open" /\ job'[w].id = job[w].id
        /\ job'[w].toList \subseteq job[w].toList
    BY <1>6, <1>a, FilterMove
  <2>2. ASSUME NEW r \in optouts, Spares(r, pc[w], job[w]) PROVE r \notin job'[w].toList
    <3>1. CASE RetryCount(job[w].status) = 0
      <4> DEFINE j1 == [job[w] EXCEPT !.toList = WithoutOptouts(job[w].toList)]
                 st == Skip(job[w].status, Cardinality(job[w].toList \cap optouts))
                 j2 == [j1 EXCEPT !.status = st]
      <4>1. SetJob(w, j2) /\ Goto(w, "open")  BY <3>1, <1>6 DEF FilterOptouts
      <4>2. job'[w] = j2
        <5> HIDE DEF j2
        <5> QED BY <4>1, <1>a, JobMove
      <4>3. j1 \in Job /\ j1.toList = job[w].toList \ optouts
        BY <1>d, JobType, JobFields DEF WithoutOptouts
      <4>4. j2.toList = j1.toList
        <5> HIDE DEF j1, st
        <5> QED BY <4>3, JobFields
      <4> HIDE DEF j1, j2
      <4> QED BY <4>2, <4>3, <4>4, <2>2
    <3>2. CASE RetryCount(job[w].status) # 0
      <4>1. r \notin job[w].toList  BY <3>2, <2>2, <1>6 DEF Spares, FilterOptouts
      <4> QED BY <4>1, <2>1
    <3> QED BY <3>1, <3>2
  <2> QED BY <2>1, <2>2, <1>6, <1>c DEF Spared, Spares, FilterOptouts
<1>7. CASE EmailMissing(w)    BY <1>7, <1>2 DEF EmailMissing
<1>8. CASE OpenConnection(w)  BY <1>8, <1>1 DEF OpenConnection
<1>9. ASSUME NEW r \in Recipients, SendMessage(w, r) \/ RecipientRefused(w, r)
      PROVE  Spared(w)
  <2>1. /\ OnlyMoves(w) /\ pc[w] = "send" /\ job'[w].id = job[w].id
        /\ job'[w].toList = job[w].toList \ {r}
    BY <1>9, <1>a, SendMove
  <2>2. \A q : Spares(q, pc[w], job[w]) => Spares(q, pc'[w], job'[w])
    BY <2>1 DEF Spares
  <2>3. sent' = sent \/ (r \in job[w].toList /\ sent' = [sent EXCEPT ![r] = @ + 1])
    BY <1>9 DEF SendMessage, RecipientRefused
  <2> QED BY <2>1, <2>2, <2>3, <1>9, <1>c DEF Spared, SendMessage, RecipientRefused
<1>10. CASE Throttled(w) \/ Disconnected(w)
  <2>1. PICK new \in {RetryNoMax(job[w].status), RetryMax(job[w].status)} :
          \E n \in {CappedMax(new), LimitedMax(new)} : SubmitForRetry(w, new, n)
    BY <1>10 DEF Throttled, Disconnected
  <2>2. PICK n \in {CappedMax(new), LimitedMax(new)} : SubmitForRetry(w, new, n)  BY <2>1
  <2>3. pc[w] \in {"open", "send"} /\ UNCHANGED <<queue, optouts, sent>>
    BY <1>10 DEF Throttled, Disconnected
  <2>4. new \in SubtaskStatus /\ n \in Nat
    BY <2>1, <2>2, <1>d, StatusType, LimitType
  <2>5. OnlyMoves(w) /\ job'[w].id = job[w].id /\ job'[w].toList = job[w].toList
    BY <2>2, <2>4, <1>a, <1>c, SubmitMove
  <2> QED BY <2>3, <2>5, <1>3
<1>11. ASSUME NEW status \in SubtaskStatus, pc[w] \in {"open", "send"},
              UNCHANGED <<queue, optouts, sent>>,
              CloseThen(w, [job[w] EXCEPT !.status = status], "end")
       PROVE  Spared(w)
  <2> DEFINE j == [job[w] EXCEPT !.status = status]
  <2>1. j \in Job /\ j.id = job[w].id /\ j.toList = job[w].toList
    BY <1>d, JobType, JobFields
  <2>2. CloseThen(w, j, "end")  BY <1>11
  <2> HIDE DEF j
  <2>3. OnlyMoves(w) /\ job'[w].id = j.id /\ job'[w].toList = j.toList
    BY <2>1, <2>2, <1>a, CloseMove DEF Continuations
  <2> QED BY <2>1, <2>3, <1>3, <1>11
<1>12. CASE SendingImpossible(w)
  <2>1. FailWith(job[w].status, Cardinality(job[w].toList)) \in SubtaskStatus
    BY <1>d, StatusType
  <2> QED BY <2>1, <1>11, <1>12 DEF SendingImpossible
<1>13. CASE AllSent(w)
  <2> DEFINE st == [job[w].status EXCEPT !.state = "SUCCESS"]
  <2>1. st \in SubtaskStatus  BY <1>d, StatusType
  <2>2. /\ pc[w] = "send" /\ UNCHANGED <<queue, optouts, sent>>
        /\ CloseThen(w, [job[w] EXCEPT !.status = st], "end")
    BY <1>13 DEF AllSent
  <2> HIDE DEF st
  <2> QED BY <2>1, <2>2, <1>11
<1>14. CASE CloseConnection(w)
  <2>1. CASE job[w].then = "requeued"  BY <2>1, <1>14, <1>1 DEF CloseConnection
  <2>2. CASE job[w].then # "requeued"
    <3>1. SaveThen(w, job[w], job[w].status, "end")  BY <2>2, <1>14 DEF CloseConnection
    <3>2. OnlyMoves(w) /\ job'[w].id = job[w].id /\ job'[w].toList = job[w].toList
      BY <3>1, <1>a, <1>d, SaveMove DEF Continuations
    <3> QED BY <3>2, <1>3, <1>14 DEF CloseConnection
  <2> QED BY <2>1, <2>2
<1>15. CASE CloseRaises(w)  BY <1>15, <1>2 DEF CloseRaises
<1>16. CASE UpdateSubtaskStatus(w)
  <2>1. OnlyMoves(w) /\ pc'[w] = "release" /\ job'[w] = job[w]
    BY <1>16, <1>a, JobMove DEF UpdateSubtaskStatus, Release
  <2> QED BY <2>1, <1>3, <1>16 DEF UpdateSubtaskStatus
<1>17. CASE UpdateDatabaseError(w)
  <2>1. CASE job[w].depth + 1 < MaxDbLockRetries
    <3> DEFINE j == [job[w] EXCEPT !.depth = job[w].depth + 1]
    <3>1. OnlyMoves(w) /\ pc'[w] = "update" /\ job'[w] = j
      BY <2>1, <1>17, <1>a, SameStageMove DEF UpdateDatabaseError
    <3>2. j.id = job[w].id /\ j.toList = job[w].toList /\ j.then = job[w].then
      BY <1>d, JobFields
    <3> HIDE DEF j
    <3> QED BY <3>1, <3>2, <1>3, <1>17 DEF UpdateDatabaseError
  <2>2. CASE ~(job[w].depth + 1 < MaxDbLockRetries)
    <3>1. OnlyMoves(w) /\ pc'[w] = "release" /\ job'[w] = Raised(job[w])
      BY <2>2, <1>17, <1>a, JobMove DEF UpdateDatabaseError, Release
    <3>2. LET j == Raised(job[w]) IN
            /\ j.id = job[w].id /\ j.toList = job[w].toList
            /\ job[w].then = "end" => j.then = "end"
      BY <1>d, JobFields DEF Raised
    <3> QED BY <3>1, <3>2, <1>3, <1>17 DEF UpdateDatabaseError
  <2> QED BY <2>1, <2>2
<1>18. CASE ReleaseSubtaskLock(w)
  <2>1. pc[w] = "release" /\ UNCHANGED <<queue, optouts, sent>>
    BY <1>18 DEF ReleaseSubtaskLock
  <2>2. CASE Outermost(job[w])
    BY <2>1, <2>2, <1>18, <1>1, <1>2 DEF ReleaseSubtaskLock, Continue
  <2>3. CASE ~Outermost(job[w])
    <3> DEFINE j == [job[w] EXCEPT !.depth = job[w].depth - 1]
    <3>1. OnlyMoves(w) /\ pc'[w] = "release" /\ job'[w] = j
      BY <2>1, <2>3, <1>18, <1>a, SameStageMove DEF ReleaseSubtaskLock
    <3>2. j.id = job[w].id /\ j.toList = job[w].toList /\ j.then = job[w].then
      BY <1>d, JobFields
    <3> HIDE DEF j
    <3> QED BY <3>1, <3>2, <2>1, <1>3
  <2> QED BY <2>2, <2>3
<1>19. CASE Retry(w)
  <2>1. OnlyMoves(w) /\ job'[w].id = job[w].id /\ job'[w].toList = job[w].toList
    BY <1>19, <1>a, <1>d, CloseMove DEF Retry, Continuations
  <2>2. pc[w] = "retry"  BY <1>19 DEF Retry
  <2>3. \A r : Spares(r, pc[w], job[w]) => Spares(r, pc'[w], job'[w])
    BY <2>1, <2>2 DEF Spares
  <2> QED BY <2>1, <2>2, <2>3, <1>19 DEF Retry, Spared
<1>20. CASE RetryRefused(w)  BY <1>20, <1>2 DEF RetryRefused
<1>21. CASE Sending(w)
  BY <1>21, <1>6, <1>7, <1>8, <1>9, <1>10, <1>12, <1>13, <1>14, <1>15 DEF Sending
<1>22. CASE Saving(w)
  BY <1>22, <1>16, <1>17, <1>18, <1>19, <1>20 DEF Saving
<1> QED BY <1>4, <1>5, <1>21, <1>22 DEF Work

\* No step adds anybody to a list.
LEMMA NextList == TypeOK /\ ListInv /\ [Next]_vars => ListInv'
<1> SUFFICES ASSUME TypeOK, ListInv, [Next]_vars PROVE ListInv'  OBVIOUS
<1>a. WorkersOK  BY DEF TypeOK, WorkersOK
<1>b. ASSUME NEW w \in Workers, OnlyMoves(w),
             \A m \in queue' : m.toList \subseteq Chunk[m.id],
             pc'[w] # "idle" => job'[w].toList \subseteq Chunk[job'[w].id]
      PROVE  ListInv'
  <2>1. ASSUME NEW v \in Workers, pc'[v] # "idle" PROVE job'[v].toList \subseteq Chunk[job'[v].id]
    BY <2>1, <1>b DEF ListInv, OnlyMoves
  <2> QED BY <2>1, <1>b DEF ListInv
<1>1. ASSUME NEW w \in Workers, NEW m \in queue, Start(w, m), queue' \subseteq queue
      PROVE  ListInv'
  <2>1. OnlyMoves(w) /\ job'[w] = NewJob(m)  BY <1>1, <1>a, JobMove DEF Start
  <2>2. job'[w].toList = m.toList /\ job'[w].id = m.id  BY <2>1 DEF NewJob
  <2> QED BY <2>1, <2>2, <1>1, <1>b DEF ListInv
<1>2. ASSUME NEW w \in Workers, Work(w) PROVE ListInv'
  <2>1. Spared(w) /\ job[w].toList \subseteq Chunk[job[w].id]
    BY <1>2, WorkSpares DEF Spared, ListInv
  <2>2. \A m \in queue' : m.toList \subseteq Chunk[m.id]
    BY <2>1 DEF Spared, ListInv, RetryMessage
  <2> QED BY <2>1, <2>2, <1>b DEF Spared
<1>3. ASSUME NEW w \in Workers, Crash(w) PROVE ListInv'
  <2>1. OnlyMoves(w) /\ pc'[w] = "idle"  BY <1>3, <1>a, FinishMove DEF Crash
  <2> QED BY <2>1, <1>3, <1>b DEF Crash, ListInv
<1>4. ASSUME UNCHANGED <<queue, pc, job>> PROVE ListInv'  BY <1>4 DEF ListInv
<1> QED BY <1>1, <1>2, <1>3, <1>4 DEF Next, Deliver, Redeliver, LockExpires, OptOut, vars

\* Once r is spared, it is for good.
LEMMA NextSpared ==
  ASSUME NEW r \in Recipients
  PROVE  TypeOK /\ SparedInv(r) /\ [Next]_vars => SparedInv(r)'
<1> SUFFICES ASSUME TypeOK, SparedInv(r), [Next]_vars PROVE SparedInv(r)'  OBVIOUS
<1>a. WorkersOK /\ sent \in [Recipients -> Nat]  BY DEF TypeOK, WorkersOK
<1>b. ASSUME NEW w \in Workers, OnlyMoves(w), r \in optouts', sent'[r] = 0,
             \A m \in queue' : r \in m.toList => RetryCount(m.status) = 0,
             pc'[w] # "idle" => Spares(r, pc'[w], job'[w])
      PROVE  SparedInv(r)'
  <2>1. ASSUME NEW v \in Workers, pc'[v] # "idle" PROVE Spares(r, pc'[v], job'[v])
    BY <2>1, <1>b DEF SparedInv, OnlyMoves
  <2>2. \A v \in Workers : Spares(r, pc[v], job[v])' <=> Spares(r, pc'[v], job'[v])
    BY DEF Spares, RetryCount
  <2>3. \A m : RetryCount(m.status)' = RetryCount(m.status)  BY DEF RetryCount
  <2> QED BY <2>1, <2>2, <2>3, <1>b DEF SparedInv
<1>1. ASSUME NEW w \in Workers, NEW m \in queue, Start(w, m), queue' \subseteq queue
      PROVE  SparedInv(r)'
  <2>1. OnlyMoves(w) /\ pc'[w] = "check" /\ job'[w] = NewJob(m)
    BY <1>1, <1>a, JobMove DEF Start
  <2>2. Spares(r, "check", NewJob(m))  BY DEF SparedInv, Spares, NewJob
  <2> QED BY <2>1, <2>2, <1>1, <1>b DEF SparedInv, Start
<1>2. ASSUME NEW w \in Workers, Work(w) PROVE SparedInv(r)'
  <2>1. Spared(w) /\ r \in optouts /\ Spares(r, pc[w], job[w]) /\ r \in optouts'
    BY <1>2, WorkSpares DEF Spared, SparedInv
  <2>2. \A m \in queue' : r \in m.toList => RetryCount(m.status) = 0
    <3>1. CASE queue' \subseteq queue  BY <3>1 DEF SparedInv
    <3>2. CASE pc[w] = "retry" /\ queue' = queue \cup {RetryMessage(job[w])}
      <4>1. r \notin job[w].toList  BY <3>2, <2>1 DEF Spares
      <4> QED BY <3>2, <4>1 DEF SparedInv, RetryMessage
    <3> QED BY <2>1, <3>1, <3>2 DEF Spared
  <2>3. sent'[r] = 0
    <3>1. ASSUME NEW q \in job[w].toList, pc[w] = "send", sent' = [sent EXCEPT ![q] = @ + 1]
          PROVE  sent'[r] = 0
      <4>1. q # r  BY <3>1, <2>1 DEF Spares
      <4> QED BY <3>1, <4>1, <1>a DEF SparedInv
    <3> QED BY <3>1, <2>1 DEF Spared, SparedInv
  <2> QED BY <2>1, <2>2, <2>3, <1>b DEF Spared
<1>3. ASSUME NEW w \in Workers, Crash(w) PROVE SparedInv(r)'
  <2>1. OnlyMoves(w) /\ pc'[w] = "idle"  BY <1>3, <1>a, FinishMove DEF Crash
  <2> QED BY <2>1, <1>3, <1>b DEF Crash, SparedInv
<1>4. ASSUME UNCHANGED <<queue, pc, job, sent>>, optouts \subseteq optouts' PROVE SparedInv(r)'
  BY <1>4 DEF SparedInv
<1> QED BY <1>1, <1>2, <1>3, <1>4 DEF Next, Deliver, Redeliver, LockExpires, OptOut, vars

\* Whoever opts out before the first attempt has reached the filter is not mailed by
\* any attempt, although only first attempts filter: whatever fails or is delivered
\* again, and however deliveries overlap (_filter_optouts_from_recipients).
THEOREM OptoutsHonoured == Spec => OptoutHonoured
<1>1. ASSUME NEW r \in Recipients
      PROVE  Spec => [](r \in optouts /\ sent[r] = 0 /\ NotFiltered(r) => [](sent[r] = 0))
  <2>1. Init => ListInv  BY DEF Init, ListInv, NewMessage
  <2>2. TypeOK /\ ListInv /\ r \in optouts /\ sent[r] = 0 /\ NotFiltered(r) => SparedInv(r)
    <3> SUFFICES ASSUME TypeOK, ListInv, r \in optouts, sent[r] = 0, NotFiltered(r)
                 PROVE  SparedInv(r)
      OBVIOUS
    <3>1. \A m \in queue : r \in m.toList => RetryCount(m.status) = 0
      BY DEF ListInv, NotFiltered
    <3>2. \A w \in Workers : pc[w] # "idle" => Spares(r, pc[w], job[w])
      BY DEF ListInv, NotFiltered, Spares
    <3> QED BY <3>1, <3>2 DEF SparedInv
  <2>3. TypeOK /\ ListInv /\ [Next]_vars => ListInv'  BY NextList
  <2>4. TypeOK /\ SparedInv(r) /\ [Next]_vars => SparedInv(r)'  BY NextSpared
  <2>5. SparedInv(r) => sent[r] = 0  BY DEF SparedInv
  <2> QED BY <2>1, <2>2, <2>3, <2>4, <2>5, TypeCorrect, PTL DEF Spec
<1> QED BY <1>1 DEF OptoutHonoured

-----------------------------------------------------------------------------
(* The subtask lock when deliveries of one subtask overlap and workers die:  *)
(* who holds it, and what becomes of the work of one that does not get it.   *)
(*                                                                           *)
(* The lock is deleted by every level of update_subtask_status and not taken *)
(* again by the handler of unexpected exceptions, so it only excludes while  *)
(* saves and retries go through: no save fails, nothing raises, and there    *)
(* are no more temporary errors than the smaller budget has retries.         *)

Undisturbed ==
  /\ MaxDbErrors = 0 /\ Raising = {}
  /\ MaxMailErrors <= MaxRetries /\ MaxMailErrors <= RetryCap

\* The stages from the taking of the lock to its only release.
Holds(stage, j) == \/ stage \in {"filter", "open", "send", "update", "release"}
                   \/ stage = "close" /\ j.then = "end"

\* What is saved is final or a retry, as its continuation says.
Outcome(j) == \/ j.then = "end" /\ j.status.state \in ReadyStates
              \/ j.then = "retry" /\ j.status.state = "RETRY"

\* The job of a worker fits the stage it is at.
Staged(stage, j) ==
  /\ stage \in {"update", "release"} => j.depth = 0 /\ Outcome(j)
  /\ stage = "retry" => j.then = "retry" /\ j.status.state = "RETRY"
  /\ stage = "close" => \/ j.then = "requeued"
                        \/ j.then = "end" /\ j.status.state \in ReadyStates

\* Each retry was caused by a temporary error of the mail server.
StagedInv ==
  /\ \A m \in queue : RetryCount(m.status) <= faults.mail
  /\ \A w \in Workers : pc[w] # "idle" =>
       Staged(pc[w], job[w]) /\ RetryCount(job[w].status) <= faults.mail

\* The inductive invariant behind LockExcludes: whoever is between the taking and
\* the release has the lock, and nobody else has overwritten what it saved.
ExclusionInv ==
  /\ \A w \in Workers : Holds(pc[w], job[w]) => lock[job[w].id] = w
  /\ \A w \in Workers : pc[w] = "release" => entry.status[job[w].id] = job[w].status
  /\ \A s \in SubtaskIds : lock[s] = Orphan => faults.crashed > 0

\* A worker whose work on s is not in vain.
Carrier(w, s) ==
  /\ WorksOn(w, s)
  /\ \/ Holds(pc[w], job[w])
     \/ pc[w] \in {"check", "lock", "retry"} /\ IsValid(s, job[w].status)

\* The inductive invariant behind NotStranded: every unfinished subtask is carried by
\* a worker or by a message that is good for another attempt.
CarryInv ==
  \A s \in entry.ids :
    \/ Ready(s) \/ faults.crashed > 0
    \/ \E w \in Workers : Carrier(w, s)
    \/ \E m \in queue : m.id = s /\ IsValid(s, m.status)

-----------------------------------------------------------------------------
(* What one step of a worker does, when nothing disturbs it                  *)

\* How many retries the changes of a status count.
LEMMA RetryCounts ==
  ASSUME NEW status \in SubtaskStatus, NEW n \in Nat
  PROVE  /\ RetryCount(Succeed(status)) = RetryCount(status)
         /\ RetryCount(Fail(status, n)) = RetryCount(status)
         /\ RetryCount(FailWith(status, n)) = RetryCount(status)
         /\ RetryCount([status EXCEPT !.state = "SUCCESS"]) = RetryCount(status)
         /\ RetryCount(RetryNoMax(status)) = RetryCount(status) + 1
         /\ RetryCount(RetryMax(status)) = RetryCount(status) + 1
<1>1. \A st \in SubtaskStatus : \A x :
        /\ [st EXCEPT !.state = x].nomax = st.nomax
        /\ [st EXCEPT !.state = x].withmax = st.withmax
  BY DEF SubtaskStatus
<1>2. status.nomax \in Nat /\ status.withmax \in Nat  BY DEF SubtaskStatus
<1>3. RetryCount(Succeed(status)) = RetryCount(status)
        /\ RetryCount(Fail(status, n)) = RetryCount(status)
  BY CountFields DEF RetryCount
<1>4. RetryCount(FailWith(status, n)) = RetryCount(status)
  <2>1. FailWith(status, n) = [Fail(status, n) EXCEPT !.state = "FAILURE"]
    BY DEF FailWith, Fail, SubtaskStatus
  <2>2. Fail(status, n) \in SubtaskStatus  BY StatusType
  <2> QED BY <2>1, <2>2, <1>1, <1>3 DEF RetryCount
<1>5. RetryCount([status EXCEPT !.state = "SUCCESS"]) = RetryCount(status)
  BY <1>1 DEF RetryCount
<1>6. RetryCount(RetryNoMax(status)) = RetryCount(status) + 1
  <2> DEFINE a == [status EXCEPT !.nomax = @ + 1]
  <2>1. a \in SubtaskStatus /\ a.nomax = status.nomax + 1 /\ a.withmax = status.withmax
    BY DEF SubtaskStatus
  <2>2. RetryNoMax(status) = [a EXCEPT !.state = "RETRY"]
    BY DEF RetryNoMax, SubtaskStatus
  <2> HIDE DEF a
  <2> QED BY <2>1, <2>2, <1>1, <1>2 DEF RetryCount
<1>7. RetryCount(RetryMax(status)) = RetryCount(status) + 1
  <2> DEFINE a == [status EXCEPT !.withmax = @ + 1]
  <2>1. a \in SubtaskStatus /\ a.withmax = status.withmax + 1 /\ a.nomax = status.nomax
    BY DEF SubtaskStatus
  <2>2. RetryMax(status) = [a EXCEPT !.state = "RETRY"]
    BY DEF RetryMax, SubtaskStatus
  <2> HIDE DEF a
  <2> QED BY <2>1, <2>2, <1>1, <1>2 DEF RetryCount
<1> QED BY <1>3, <1>4, <1>5, <1>6, <1>7

\* Nothing fails while a status is saved, a retry queued or a connection closed.
LEMMA NothingRaises ==
  ASSUME Undisturbed, TypeOK, RetryInv, StagedInv, NEW w \in Workers
  PROVE  ~UpdateDatabaseError(w) /\ ~CloseRaises(w) /\ ~RetryRefused(w)
<1>1. faults.db \in 0..MaxDbErrors /\ faults.mail \in 0..MaxMailErrors
  BY DEF TypeOK, Faults
<1>2. ~UpdateDatabaseError(w)
  BY <1>1 DEF Undisturbed, UpdateDatabaseError
<1>3. ~CloseRaises(w)  BY DEF Undisturbed, CloseRaises
<1>4. ASSUME RetryRefused(w) PROVE FALSE
  <2>1. pc[w] = "retry" /\ ~RetryAllowed(job[w])
    BY <1>4 DEF RetryRefused, Undisturbed
  <2>2. job[w] \in Job  BY <2>1 DEF TypeOK
  <2>3. job[w].status \in SubtaskStatus  BY <2>2, JobType
  <2>4. job[w].status.nomax \in Nat /\ job[w].status.withmax \in Nat
    BY <2>3 DEF SubtaskStatus
  <2>5. RetryCount(job[w].status) <= faults.mail  BY <2>1 DEF StagedInv
  <2>6. WithinBudget(job[w].status)
    BY <2>4, <2>5, <1>1, BoundsAssumption DEF Undisturbed, RetryCount, WithinBudget
  <2> QED BY <2>1, <2>6 DEF RetryInv, Counted
<1> QED BY <1>2, <1>3, <1>4

\* The steps of a worker, by what they do to the row, the queue and the locks.
Judged(w) ==
  /\ pc[w] = "check" /\ UNCHANGED <<entry, queue, lock>>
  /\ IF IsValid(job[w].id, job[w].status) THEN pc'[w] = "lock" /\ job'[w] = job[w]
                                          ELSE pc'[w] = "idle"
Locked(w) ==
  /\ pc[w] = "lock" /\ UNCHANGED <<entry, queue>>
  /\ IF lock[job[w].id] = Free
       THEN /\ lock' = [lock EXCEPT ![job[w].id] = w]
            /\ pc'[w] = "filter" /\ job'[w] = job[w]
       ELSE pc'[w] = "idle" /\ UNCHANGED lock
Worked(w) ==
  /\ Holds(pc[w], job[w]) /\ pc[w] # "release" /\ UNCHANGED <<entry, queue, lock>>
  /\ Holds(pc'[w], job'[w]) /\ pc'[w] # "release"
Saved(w) ==
  /\ pc[w] = "update" /\ UNCHANGED <<queue, lock>>
  /\ entry' = RecordStatus(job[w].id, job[w].status)
  /\ pc'[w] = "release" /\ job'[w] = job[w]
Unlocked(w) ==
  /\ pc[w] = "release" /\ lock' = [lock EXCEPT ![job[w].id] = Free]
  /\ UNCHANGED <<entry, queue>>
  /\ IF job[w].then = "end" THEN pc'[w] = "idle" ELSE pc'[w] = "retry" /\ job'[w] = job[w]
RetryQueued(w) ==
  /\ pc[w] = "retry" /\ UNCHANGED <<entry, lock>>
  /\ queue' = queue \cup {RetryMessage(job[w])}
  /\ pc'[w] = "close" /\ job'[w].then = "requeued"
Done(w) ==
  /\ pc[w] = "close" /\ job[w].then = "requeued" /\ UNCHANGED <<entry, queue, lock>>
  /\ pc'[w] = "idle"

\* All of them keep the job at its stage and its retries caused by errors.
Moved(w) ==
  /\ pc[w] # "idle" /\ OnlyMoves(w)
  /\ faults'.crashed = faults.crashed
  /\ pc'[w] # "idle" => /\ Staged(pc'[w], job'[w]) /\ job'[w].id = job[w].id
                        /\ RetryCount(job'[w].status) <= faults'.mail
  /\ \/ Judged(w) \/ Locked(w) \/ Worked(w) \/ Saved(w)
     \/ Unlocked(w) \/ RetryQueued(w) \/ Done(w)

\* A step of a worker with undisturbed saves and retries is one of these.
LEMMA WorkMoves ==
  ASSUME Undisturbed, TypeOK, RetryInv, StagedInv, NEW w \in Workers, Work(w)
  PROVE  Moved(w) /\ faults'.mail >= faults.mail
<1>a. WorkersOK /\ faults \in Faults  BY DEF TypeOK, WorkersOK
<1>b. faults.mail \in Nat  BY <1>a DEF Faults
<1>c. pc[w] # "idle"
  BY DEF Work, CheckSubtaskIsValid, AcquireSubtaskLock, Sending, FilterOptouts, EmailMissing,
         OpenConnection, SendMessage, RecipientRefused, Throttled, Disconnected,
         SendingImpossible, AllSent, CloseConnection, CloseRaises, Saving,
         UpdateSubtaskStatus, UpdateDatabaseError, ReleaseSubtaskLock, Retry, RetryRefused
<1>d. /\ job[w] \in Job /\ job[w].status \in SubtaskStatus
      /\ job[w].numToSend \in Nat /\ Cardinality(job[w].toList) \in Nat
      /\ RetryCount(job[w].status) \in Nat
  BY <1>a, <1>c, JobType, StatusType, LengthType DEF WorkersOK
<1>e. Staged(pc[w], job[w]) /\ RetryCount(job[w].status) <= faults.mail
  BY <1>c DEF StagedInv
<1>1. CASE CheckSubtaskIsValid(w)
  <2>1. OnlyMoves(w) /\ UNCHANGED faults /\ Judged(w)
    BY <1>1, <1>a, GotoMove, FinishMove DEF CheckSubtaskIsValid, Judged
  <2>2. pc'[w] # "idle" => pc'[w] = "lock" /\ job'[w] = job[w]  BY <2>1 DEF Judged
  <2> QED BY <2>1, <2>2, <1>b, <1>c, <1>e DEF Moved, Staged
<1>2. CASE AcquireSubtaskLock(w)
  <2>1. OnlyMoves(w) /\ UNCHANGED faults /\ Locked(w)
    BY <1>2, <1>a, GotoMove, FinishMove DEF AcquireSubtaskLock, Locked, CanAdd
  <2>2. pc'[w] # "idle" => pc'[w] = "filter" /\ job'[w] = job[w]  BY <2>1 DEF Locked
  <2> QED BY <2>1, <2>2, <1>b, <1>c, <1>e DEF Moved, Staged
<1>3. CASE FilterOptouts(w)
  <2>1. /\ OnlyMoves(w) /\ pc'[w] = "open" /\ job'[w].id = job[w].id
        /\ RetryCount(job'[w].status) = RetryCount(job[w].status)
    BY <1>3, <1>a, FilterMove DEF RetryCount
  <2>2. pc[w] = "filter" /\ UNCHANGED <<entry, queue, lock, faults>>
    BY <1>3 DEF FilterOptouts
  <2> QED BY <2>1, <2>2, <1>b, <1>c, <1>e DEF Moved, Worked, Holds, Staged
<1>4. CASE EmailMissing(w)
  <2>1. /\ OnlyMoves(w) /\ pc'[w] = "update" /\ job'[w].id = job[w].id
        /\ job'[w].status = FailWith(job[w].status, job[w].numToSend)
        /\ job'[w].then = "end" /\ job'[w].depth = 0
    BY <1>4, <1>a, <1>c, UnexpectedMove DEF EmailMissing
  <2>2. pc[w] \in {"filter", "open"} /\ UNCHANGED <<entry, queue, lock, faults>>
    BY <1>4 DEF EmailMissing
  <2>3. /\ job'[w].status.state \in ReadyStates
        /\ RetryCount(job'[w].status) = RetryCount(job[w].status)
    <3> DEFINE new == FailWith(job[w].status, job[w].numToSend)
    <3>1. new.state = "FAILURE"  BY <1>d, CountFields
    <3>2. RetryCount(new) = RetryCount(job[w].status)  BY <1>d, RetryCounts
    <3> HIDE DEF new
    <3>3. job'[w].status = new  BY <2>1 DEF new
    <3> QED BY <3>1, <3>2, <3>3 DEF ReadyStates
  <2> QED BY <2>1, <2>2, <2>3, <1>b, <1>c, <1>e DEF Moved, Worked, Holds, Staged, Outcome
<1>5. CASE OpenConnection(w)
  <2>1. OnlyMoves(w) /\ pc'[w] = "send" /\ job'[w] = job[w]
    BY <1>5, <1>a, GotoMove DEF OpenConnection
  <2>2. pc[w] = "open" /\ UNCHANGED <<entry, queue, lock, faults>>
    BY <1>5 DEF OpenConnection
  <2> QED BY <2>1, <2>2, <1>b, <1>c, <1>e DEF Moved, Worked, Holds, Staged
<1>6. ASSUME NEW r \in Recipients, SendMessage(w, r) \/ RecipientRefused(w, r)
      PROVE  Moved(w) /\ faults'.mail >= faults.mail
  <2>1. /\ OnlyMoves(w) /\ pc[w] = "send" /\ pc'[w] = "send" /\ job'[w].id = job[w].id
        /\ job'[w].status \in {Succeed(job[w].status), Fail(job[w].status, 1)}
    BY <1>6, <1>a, SendMove
  <2>2. UNCHANGED <<entry, queue, lock, faults>>
    BY <1>6 DEF SendMessage, RecipientRefused
  <2>3. RetryCount(job'[w].status) = RetryCount(job[w].status)
    <3>1. 1 \in Nat  OBVIOUS
    <3> QED BY <3>1, <2>1, <1>d, RetryCounts
  <2> QED BY <2>1, <2>2, <2>3, <1>b, <1>c, <1>e DEF Moved, Worked, Holds, Staged
<1>7. CASE Throttled(w) \/ Disconnected(w)
  <2>1. PICK new \in {RetryNoMax(job[w].status), RetryMax(job[w].status)} :
          \E n \in {CappedMax(new), LimitedMax(new)} : SubmitForRetry(w, new, n)
    BY <1>7 DEF Throttled, Disconnected
  <2>2. PICK n \in {CappedMax(new), LimitedMax(new)} : SubmitForRetry(w, new, n)  BY <2>1
  <2>3. pc[w] \in {"open", "send"} /\ UNCHANGED <<entry, queue, lock>>
    BY <1>7 DEF Throttled, Disconnected
  <2>4. new \in SubtaskStatus /\ n \in Nat
    BY <2>1, <2>2, <1>d, StatusType, LimitType
  <2>5. new.state = "RETRY" /\ RetryCount(new) = RetryCount(job[w].status) + 1
    <3> DEFINE st == job[w].status
    <3>1. st \in SubtaskStatus /\ 0 \in Nat /\ new \in {RetryNoMax(st), RetryMax(st)}
      BY <2>1, <1>d
    <3> HIDE DEF st
    <3>2. RetryNoMax(st).state = "RETRY" /\ RetryMax(st).state = "RETRY"
      BY <3>1, CountFields
    <3>3. /\ RetryCount(RetryNoMax(st)) = RetryCount(st) + 1
          /\ RetryCount(RetryMax(st)) = RetryCount(st) + 1
      BY <3>1, RetryCounts
    <3>4. new.state = "RETRY" /\ RetryCount(new) = RetryCount(st) + 1
      BY <3>1, <3>2, <3>3
    <3> QED BY <3>4 DEF st
  <2>6. /\ OnlyMoves(w) /\ pc'[w] = "update" /\ job'[w].id = job[w].id
        /\ job'[w].status = new /\ job'[w].then = "retry" /\ job'[w].depth = 0
    BY <2>2, <2>3, <2>4, <1>a, SubmitMove
  <2>7. faults'.mail = faults.mail + 1 /\ faults'.crashed = faults.crashed
    BY <2>2, <1>a DEF SubmitForRetry, Faults
  <2> QED BY <2>3, <2>5, <2>6, <2>7, <1>b, <1>c, <1>d, <1>e
          DEF Moved, Worked, Holds, Staged, Outcome
<1>8. ASSUME NEW status \in SubtaskStatus, status.state \in ReadyStates,
             RetryCount(status) = RetryCount(job[w].status),
             pc[w] \in {"open", "send"}, UNCHANGED <<entry, queue, lock, faults>>,
             CloseThen(w, [job[w] EXCEPT !.status = status], "end")
      PROVE  Moved(w) /\ faults'.mail >= faults.mail
  <2> DEFINE j == [job[w] EXCEPT !.status = status]
  <2>1. j \in Job /\ j.id = job[w].id /\ j.status = status  BY <1>d, JobType, JobFields
  <2>2. CloseThen(w, j, "end")  BY <1>8
  <2> HIDE DEF j
  <2>3. /\ OnlyMoves(w) /\ pc'[w] = "close" /\ job'[w].id = j.id /\ job'[w].then = "end"
        /\ job'[w].status = j.status
    BY <2>1, <2>2, <1>a, CloseMove DEF Continuations
  <2> QED BY <2>1, <2>3, <1>8, <1>b, <1>c, <1>e DEF Moved, Worked, Holds, Staged
<1>9. CASE SendingImpossible(w)
  <2> DEFINE st == FailWith(job[w].status, Cardinality(job[w].toList))
  <2>1. st \in SubtaskStatus  BY <1>d, StatusType
  <2>2. st.state \in ReadyStates /\ RetryCount(st) = RetryCount(job[w].status)
    BY <1>d, CountFields, RetryCounts DEF ReadyStates
  <2>3. /\ pc[w] \in {"open", "send"} /\ UNCHANGED <<entry, queue, lock, faults>>
        /\ CloseThen(w, [job[w] EXCEPT !.status = st], "end")
    BY <1>9 DEF SendingImpossible
  <2> HIDE DEF st
  <2> QED BY <2>1, <2>2, <2>3, <1>8
<1>10. CASE AllSent(w)
  <2> DEFINE st == [job[w].status EXCEPT !.state = "SUCCESS"]
  <2>1. st \in SubtaskStatus  BY <1>d, StatusType
  <2>2. st.state \in ReadyStates /\ RetryCount(st) = RetryCount(job[w].status)
    <3>1. 0 \in Nat  OBVIOUS
    <3> QED BY <3>1, <1>d, CountFields, RetryCounts DEF ReadyStates
  <2>3. /\ pc[w] \in {"open", "send"} /\ UNCHANGED <<entry, queue, lock, faults>>
        /\ CloseThen(w, [job[w] EXCEPT !.status = st], "end")
    BY <1>10 DEF AllSent
  <2> HIDE DEF st
  <2> QED BY <2>1, <2>2, <2>3, <1>8
<1>11. CASE CloseConnection(w)
  <2>1. pc[w] = "close" /\ UNCHANGED <<entry, queue, lock, faults>>
    BY <1>11 DEF CloseConnection
  <2>2. CASE job[w].then = "requeued"
    <3>1. OnlyMoves(w) /\ pc'[w] = "idle"  BY <2>2, <1>11, <1>a, FinishMove DEF CloseConnection
    <3> QED BY <3>1, <2>1, <2>2, <1>b, <1>c DEF Moved, Done
  <2>3. CASE job[w].then # "requeued"
    <3>1. SaveThen(w, job[w], job[w].status, "end")  BY <2>3, <1>11 DEF CloseConnection
    <3>2. /\ OnlyMoves(w) /\ pc'[w] = "update" /\ job'[w].id = job[w].id
          /\ job'[w].status = job[w].status /\ job'[w].then = "end" /\ job'[w].depth = 0
      BY <3>1, <1>a, <1>d, SaveMove DEF Continuations
    <3> QED BY <3>2, <2>1, <2>3, <1>b, <1>c, <1>e DEF Moved, Worked, Holds, Staged, Outcome
  <2> QED BY <2>2, <2>3
<1>12. CASE UpdateSubtaskStatus(w)
  <2>1. OnlyMoves(w) /\ pc'[w] = "release" /\ job'[w] = job[w]
    BY <1>12, <1>a, JobMove DEF UpdateSubtaskStatus, Release
  <2>2. /\ pc[w] = "update" /\ UNCHANGED <<queue, lock, faults>>
        /\ entry' = RecordStatus(job[w].id, job[w].status)
    BY <1>12 DEF UpdateSubtaskStatus
  <2> QED BY <2>1, <2>2, <1>b, <1>c, <1>e DEF Moved, Saved, Staged
<1>13. CASE ReleaseSubtaskLock(w)
  <2>1. /\ pc[w] = "release" /\ UNCHANGED <<entry, queue, faults>>
        /\ lock' = [lock EXCEPT ![job[w].id] = Free]
    BY <1>13 DEF ReleaseSubtaskLock, Deleted
  <2>2. job[w].depth = 0 /\ Outcome(job[w])  BY <2>1, <1>e DEF Staged
  <2>3. Continue(w)  BY <2>2, <1>13 DEF ReleaseSubtaskLock, Outermost
  <2>4. CASE job[w].then = "end"
    <3>1. OnlyMoves(w) /\ pc'[w] = "idle"  BY <2>3, <2>4, <1>a, FinishMove DEF Continue
    <3> QED BY <3>1, <2>1, <2>4, <1>b, <1>c DEF Moved, Unlocked
  <2>5. CASE job[w].then # "end"
    <3>1. job[w].then = "retry" /\ job[w].status.state = "RETRY"
      BY <2>2, <2>5 DEF Outcome
    <3>2. OnlyMoves(w) /\ pc'[w] = "retry" /\ job'[w] = job[w]
      BY <3>1, <2>3, <1>a, GotoMove DEF Continue
    <3> QED BY <3>1, <3>2, <2>1, <1>b, <1>c, <1>e DEF Moved, Unlocked, Staged
  <2> QED BY <2>4, <2>5
<1>14. CASE Retry(w)
  <2>1. /\ OnlyMoves(w) /\ pc'[w] = "close" /\ job'[w].id = job[w].id
        /\ job'[w].then = "requeued" /\ job'[w].status = job[w].status
    BY <1>14, <1>a, <1>d, CloseMove DEF Retry, Continuations
  <2>2. /\ pc[w] = "retry" /\ UNCHANGED <<entry, lock, faults>>
        /\ queue' = queue \cup {RetryMessage(job[w])}
    BY <1>14 DEF Retry
  <2> QED BY <2>1, <2>2, <1>b, <1>c, <1>e DEF Moved, RetryQueued, Staged
<1>15. CASE Sending(w)
  BY <1>15, <1>3, <1>4, <1>5, <1>6, <1>7, <1>9, <1>10, <1>11, NothingRaises DEF Sending
<1>16. CASE Saving(w)
  BY <1>16, <1>12, <1>13, <1>14, NothingRaises DEF Saving
<1> QED BY <1>1, <1>2, <1>15, <1>16 DEF Work

\* Recording a status overwrites that of its subtask and no other.
LEMMA RecordedStatus ==
  ASSUME entry \in Entry, NEW s \in SubtaskIds, NEW status \in SubtaskStatus
  PROVE  /\ RecordStatus(s, status).ids = entry.ids
         /\ \A t \in SubtaskIds :
              RecordStatus(s, status).status[t] = IF t = s THEN status ELSE entry.status[t]
<1>1. entry.status \in [SubtaskIds -> SubtaskStatus]  BY DEF Entry
<1> DEFINE new == RecordStatus(s, status)
<1>2. new.ids = entry.ids /\ new.status = [entry.status EXCEPT ![s] = status]
  BY RecordFields
<1> HIDE DEF new
<1>3. \A t \in SubtaskIds : new.status[t] = IF t = s THEN status ELSE entry.status[t]
  BY <1>1, <1>2
<1> QED BY <1>2, <1>3 DEF new

\* The steps of the system are those of its workers, deliveries, deaths and expiries.
LEMMA NextMoves ==
  ASSUME Undisturbed, TypeOK, RetryInv, StagedInv, [Next]_vars
  PROVE  \/ \E w \in Workers : Moved(w) /\ faults'.mail >= faults.mail
         \/ \E w \in Workers, m \in queue :
              /\ pc[w] = "idle" /\ OnlyMoves(w) /\ pc'[w] = "check" /\ job'[w] = NewJob(m)
              /\ queue' \in {queue, queue \ {m}} /\ UNCHANGED <<entry, lock>>
              /\ faults'.mail = faults.mail /\ faults'.crashed = faults.crashed
         \/ \E w \in Workers :
              /\ OnlyMoves(w) /\ pc'[w] = "idle" /\ UNCHANGED <<entry, queue>>
              /\ lock' = [s \in SubtaskIds |-> IF lock[s] = w THEN Orphan ELSE lock[s]]
              /\ faults'.mail = faults.mail /\ faults'.crashed > 0
         \/ \E s \in SubtaskIds : /\ lock[s] = Orphan /\ lock' = [lock EXCEPT ![s] = Free]
                                  /\ UNCHANGED <<entry, queue, pc, job, faults>>
         \/ UNCHANGED <<entry, queue, pc, job, lock, faults>>
<1>a. WorkersOK /\ faults \in Faults  BY DEF TypeOK, WorkersOK
<1>1. ASSUME NEW w \in Workers, NEW m \in queue, Deliver(w, m) \/ Redeliver(w, m)
      PROVE  /\ pc[w] = "idle" /\ OnlyMoves(w) /\ pc'[w] = "check" /\ job'[w] = NewJob(m)
             /\ queue' \in {queue, queue \ {m}} /\ UNCHANGED <<entry, lock>>
             /\ faults'.mail = faults.mail /\ faults'.crashed = faults.crashed
  <2>1. Start(w, m)  BY <1>1 DEF Deliver, Redeliver
  <2>2. OnlyMoves(w) /\ pc'[w] = "check" /\ job'[w] = NewJob(m)
    BY <2>1, <1>a, JobMove DEF Start
  <2>3. faults'.mail = faults.mail /\ faults'.crashed = faults.crashed
    BY <1>1, <1>a DEF Deliver, Redeliver, Faults
  <2> QED BY <2>1, <2>2, <2>3, <1>1 DEF Start, Deliver, Redeliver
<1>2. ASSUME NEW w \in Workers, Crash(w)
      PROVE  /\ OnlyMoves(w) /\ pc'[w] = "idle" /\ UNCHANGED <<entry, queue>>
             /\ lock' = [s \in SubtaskIds |-> IF lock[s] = w THEN Orphan ELSE lock[s]]
             /\ faults'.mail = faults.mail /\ faults'.crashed > 0
  <2>1. OnlyMoves(w) /\ pc'[w] = "idle"  BY <1>2, <1>a, FinishMove DEF Crash
  <2>2. faults'.mail = faults.mail /\ faults'.crashed = faults.crashed + 1
    BY <1>2, <1>a DEF Crash, Faults
  <2>3. faults.crashed \in Nat  BY <1>a, BoundsAssumption DEF Faults
  <2> QED BY <2>1, <2>2, <2>3, <1>2 DEF Crash
<1> QED
  BY <1>1, <1>2, WorkMoves DEF Next, LockExpires, OptOut, vars

\* The stages, and what the errors account for, stay as they are.
LEMMA NextStaged ==
  Undisturbed /\ TypeOK /\ RetryInv /\ StagedInv /\ [Next]_vars => StagedInv'
<1> SUFFICES ASSUME Undisturbed, TypeOK, RetryInv, StagedInv, [Next]_vars PROVE StagedInv'
  OBVIOUS
<1>a. \A w \in Workers : pc[w] # "idle" =>
         job[w].status \in SubtaskStatus /\ RetryCount(job[w].status) \in Nat
  BY JobType, StatusType DEF TypeOK
<1>b. \A m \in queue : m.status \in SubtaskStatus /\ RetryCount(m.status) \in Nat
  BY StatusType DEF TypeOK, Message
<1>c. faults.mail \in Nat /\ faults'.mail \in Nat
  <2>1. faults \in Faults /\ faults' \in Faults  BY NextType DEF TypeOK
  <2> QED BY <2>1 DEF Faults
<1>d. ASSUME NEW w \in Workers, OnlyMoves(w), faults'.mail >= faults.mail,
             pc'[w] # "idle" => /\ Staged(pc'[w], job'[w])
                                /\ RetryCount(job'[w].status) <= faults'.mail,
             \A m \in queue' : m \in queue \/ RetryCount(m.status) <= faults'.mail
      PROVE  StagedInv'
  <2>1. ASSUME NEW m \in queue' PROVE RetryCount(m.status) <= faults'.mail
    <3>1. CASE m \in queue
      <4>1. RetryCount(m.status) <= faults.mail /\ RetryCount(m.status) \in Nat
        BY <3>1, <1>b DEF StagedInv
      <4> QED BY <4>1, <1>c, <1>d
    <3> QED BY <3>1, <1>d
  <2>2. ASSUME NEW v \in Workers, pc'[v] # "idle"
        PROVE  Staged(pc'[v], job'[v]) /\ RetryCount(job'[v].status) <= faults'.mail
    <3>1. CASE v = w  BY <3>1, <2>2, <1>d
    <3>2. CASE v # w
      <4>1. pc'[v] = pc[v] /\ job'[v] = job[v]  BY <3>2, <1>d DEF OnlyMoves
      <4>2. Staged(pc[v], job[v]) /\ RetryCount(job[v].status) <= faults.mail
        BY <4>1, <2>2 DEF StagedInv
      <4>3. RetryCount(job[v].status) \in Nat  BY <4>1, <2>2, <1>a
      <4> QED BY <4>1, <4>2, <4>3, <1>c, <1>d
    <3> QED BY <3>1, <3>2
  <2>3. \A v \in Workers : /\ Staged(pc[v], job[v])' <=> Staged(pc'[v], job'[v])
                           /\ RetryCount(job[v].status)' = RetryCount(job'[v].status)
    BY DEF Staged, Outcome, RetryCount
  <2> QED BY <2>1, <2>2, <2>3 DEF StagedInv, RetryCount
<1>1. ASSUME NEW w \in Workers, Moved(w), faults'.mail >= faults.mail PROVE StagedInv'
  <2>1. \A m \in queue' : m \in queue \/ RetryCount(m.status) <= faults'.mail
    <3>1. CASE RetryQueued(w)
      <4>1. RetryCount(RetryMessage(job[w]).status) <= faults.mail
        BY <3>1 DEF RetryQueued, RetryMessage, StagedInv
      <4>2. RetryCount(RetryMessage(job[w]).status) \in Nat
        BY <3>1, <1>a DEF RetryQueued, RetryMessage
      <4>3. RetryCount(RetryMessage(job[w]).status) <= faults'.mail
        BY <4>1, <4>2, <1>c, <1>1
      <4> QED BY <4>3, <3>1 DEF RetryQueued
    <3>2. CASE ~RetryQueued(w)
      BY <3>2, <1>1 DEF Moved, Judged, Locked, Worked, Saved, Unlocked, Done
    <3> QED BY <3>1, <3>2
  <2> QED BY <2>1, <1>1, <1>d DEF Moved
<1>2. ASSUME NEW w \in Workers, NEW m \in queue, OnlyMoves(w), pc'[w] = "check",
             job'[w] = NewJob(m), queue' \in {queue, queue \ {m}}, faults'.mail = faults.mail
      PROVE  StagedInv'
  <2>1. Staged("check", NewJob(m))  BY DEF Staged
  <2>2. RetryCount(NewJob(m).status) <= faults'.mail  BY <1>2 DEF StagedInv, NewJob
  <2>3. faults'.mail >= faults.mail  BY <1>2, <1>c
  <2> QED BY <2>1, <2>2, <2>3, <1>2, <1>d
<1>3. ASSUME NEW w \in Workers, OnlyMoves(w), pc'[w] = "idle", UNCHANGED queue,
             faults'.mail = faults.mail
      PROVE  StagedInv'
  BY <1>3, <1>c, <1>d
<1>4. ASSUME UNCHANGED <<queue, pc, job, faults>> PROVE StagedInv'
  BY <1>4 DEF StagedInv
<1> QED BY <1>1, <1>2, <1>3, <1>4, NextMoves

\* No two workers ever hold one lock.
LEMMA NextExclusion ==
  Undisturbed /\ TypeOK /\ RetryInv /\ StagedInv /\ ExclusionInv /\ [Next]_vars
    => ExclusionInv'
<1> SUFFICES ASSUME Undisturbed, TypeOK, RetryInv, StagedInv, ExclusionInv, [Next]_vars
             PROVE  ExclusionInv'
  OBVIOUS
<1>a. lock \in [SubtaskIds -> Workers \cup {Free, Orphan}] /\ entry \in Entry
  BY DEF TypeOK
<1>b. \A w \in Workers : pc[w] # "idle" => job[w].id \in SubtaskIds
                                           /\ job[w].status \in SubtaskStatus
  BY JobType DEF TypeOK
<1>c. faults.crashed \in Nat
  BY BoundsAssumption DEF TypeOK, Faults
<1>p. ASSUME NEW w \in Workers, pc[w] = "idle" PROVE ~Holds(pc[w], job[w])
  BY <1>p DEF Holds
<1>q. ASSUME NEW w \in Workers, OnlyMoves(w),
             \A v \in Workers \ {w} : /\ Holds(pc[v], job[v]) => lock'[job[v].id] = v
                                      /\ pc[v] = "release" =>
                                           entry'.status[job[v].id] = job[v].status,
             Holds(pc'[w], job'[w]) => lock'[job'[w].id] = w,
             pc'[w] = "release" => entry'.status[job'[w].id] = job'[w].status,
             \A s \in SubtaskIds : lock'[s] = Orphan => faults'.crashed > 0
      PROVE  ExclusionInv'
  <2>1. ASSUME NEW v \in Workers
        PROVE  /\ Holds(pc'[v], job'[v]) => lock'[job'[v].id] = v
               /\ pc'[v] = "release" => entry'.status[job'[v].id] = job'[v].status
    <3>1. CASE v # w
      <4>1. pc'[v] = pc[v] /\ job'[v] = job[v]  BY <3>1, <1>q DEF OnlyMoves
      <4> QED BY <4>1, <3>1, <1>q
    <3> QED BY <3>1, <1>q
  <2>2. \A v \in Workers : Holds(pc[v], job[v])' <=> Holds(pc'[v], job'[v])  BY DEF Holds
  <2> QED BY <2>1, <2>2, <1>q DEF ExclusionInv
<1>1. ASSUME NEW w \in Workers, Moved(w) PROVE ExclusionInv'
  <2>1. /\ OnlyMoves(w) /\ pc[w] # "idle" /\ faults'.crashed = faults.crashed
        /\ pc'[w] # "idle" => job'[w].id = job[w].id
        /\ job[w].id \in SubtaskIds /\ job[w].status \in SubtaskStatus
    BY <1>1, <1>b DEF Moved
  <2>2. CASE UNCHANGED <<entry, lock>> /\ ~Holds(pc'[w], job'[w])
    BY <2>1, <2>2, <1>q DEF ExclusionInv, Holds
  <2>3. CASE Judged(w)  BY <2>2, <2>3 DEF Judged, Holds
  <2>4. CASE Locked(w)
    <3>1. CASE lock[job[w].id] = Free
      <4>1. /\ pc'[w] = "filter" /\ job'[w] = job[w] /\ UNCHANGED entry
            /\ lock' = [lock EXCEPT ![job[w].id] = w]
        BY <2>4, <3>1 DEF Locked
      <4>2. \A s \in SubtaskIds : lock'[s] = IF s = job[w].id THEN w ELSE lock[s]
        BY <4>1, <1>a
      <4>3. ASSUME NEW v \in Workers \ {w}, Holds(pc[v], job[v])
            PROVE  lock'[job[v].id] = v
        <5>1. lock[job[v].id] = v /\ job[v].id \in SubtaskIds
          BY <4>3, <1>b, <1>p DEF ExclusionInv
        <5>2. job[v].id # job[w].id  BY <5>1, <3>1, LockAssumption
        <5> QED BY <5>1, <5>2, <4>2
      <4>4. \A s \in SubtaskIds : lock'[s] = Orphan => faults'.crashed > 0
        BY <4>2, <2>1, LockAssumption DEF ExclusionInv
      <4> QED BY <4>1, <4>2, <4>3, <4>4, <2>1, <1>q DEF ExclusionInv
    <3>2. CASE lock[job[w].id] # Free
      BY <3>2, <2>4, <2>2 DEF Locked, Holds
    <3> QED BY <3>1, <3>2
  <2>5. CASE Worked(w)
    <3>1. /\ UNCHANGED <<entry, lock>> /\ pc'[w] # "release" /\ pc'[w] # "idle"
          /\ lock[job[w].id] = w
      BY <2>5 DEF Worked, Holds, ExclusionInv
    <3> QED BY <3>1, <2>1, <1>q DEF ExclusionInv
  <2>6. CASE Saved(w)
    <3>1. /\ pc[w] = "update" /\ pc'[w] = "release" /\ job'[w] = job[w] /\ UNCHANGED lock
          /\ entry' = RecordStatus(job[w].id, job[w].status)
      BY <2>6 DEF Saved
    <3>2. lock[job[w].id] = w  BY <3>1 DEF ExclusionInv, Holds
    <3>3. \A s \in SubtaskIds : entry'.status[s] = IF s = job[w].id THEN job[w].status
                                                                  ELSE entry.status[s]
      BY <3>1, <1>a, <2>1, RecordedStatus
    <3>4. ASSUME NEW v \in Workers \ {w}, pc[v] = "release"
          PROVE  entry'.status[job[v].id] = job[v].status
      <4>1. /\ lock[job[v].id] = v /\ job[v].id \in SubtaskIds
            /\ entry.status[job[v].id] = job[v].status
        BY <3>4, <1>b DEF ExclusionInv, Holds
      <4>2. job[v].id # job[w].id  BY <4>1, <3>2
      <4> QED BY <4>1, <4>2, <3>3
    <3> QED BY <3>1, <3>2, <3>3, <3>4, <2>1, <1>q DEF ExclusionInv
  <2>7. CASE Unlocked(w)
    <3>1. /\ pc[w] = "release" /\ lock' = [lock EXCEPT ![job[w].id] = Free]
          /\ UNCHANGED entry /\ pc'[w] \in {"idle", "retry"}
      BY <2>7 DEF Unlocked
    <3>2. \A s \in SubtaskIds : lock'[s] = IF s = job[w].id THEN Free ELSE lock[s]
      BY <3>1, <1>a
    <3>3. lock[job[w].id] = w  BY <3>1 DEF ExclusionInv, Holds
    <3>4. ASSUME NEW v \in Workers \ {w}, Holds(pc[v], job[v]) PROVE lock'[job[v].id] = v
      <4>1. lock[job[v].id] = v /\ job[v].id \in SubtaskIds
        BY <3>4, <1>b, <1>p DEF ExclusionInv
      <4> QED BY <4>1, <3>2, <3>3
    <3>5. \A s \in SubtaskIds : lock'[s] = Orphan => faults'.crashed > 0
      BY <3>2, <2>1, LockAssumption DEF ExclusionInv
    <3>6. ~Holds(pc'[w], job'[w]) /\ pc'[w] # "release"  BY <3>1 DEF Holds
    <3> QED BY <3>1, <3>4, <3>5, <3>6, <2>1, <1>q DEF ExclusionInv
  <2>8. CASE RetryQueued(w)  BY <2>2, <2>8 DEF RetryQueued, Holds
  <2>9. CASE Done(w)      BY <2>2, <2>9 DEF Done, Holds
  <2> QED BY <2>3, <2>4, <2>5, <2>6, <2>7, <2>8, <2>9, <1>1 DEF Moved
<1>2. ASSUME NEW w \in Workers, OnlyMoves(w), pc'[w] = "check", UNCHANGED <<entry, lock>>,
             faults'.crashed = faults.crashed
      PROVE  ExclusionInv'
  BY <1>2, <1>q DEF ExclusionInv, Holds
<1>3. ASSUME NEW w \in Workers, OnlyMoves(w), pc'[w] = "idle", UNCHANGED entry,
             lock' = [s \in SubtaskIds |-> IF lock[s] = w THEN Orphan ELSE lock[s]],
             faults'.crashed > 0
      PROVE  ExclusionInv'
  <2>1. ASSUME NEW v \in Workers \ {w}, Holds(pc[v], job[v]) PROVE lock'[job[v].id] = v
    <3>1. lock[job[v].id] = v /\ job[v].id \in SubtaskIds
      BY <2>1, <1>b, <1>p DEF ExclusionInv
    <3> QED BY <3>1, <1>3
  <2>2. ~Holds(pc'[w], job'[w]) /\ pc'[w] # "release"  BY <1>3 DEF Holds
  <2> QED BY <2>1, <2>2, <1>3, <1>q DEF ExclusionInv
<1>4. ASSUME NEW s \in SubtaskIds, lock[s] = Orphan, lock' = [lock EXCEPT ![s] = Free],
             UNCHANGED <<entry, pc, job, faults>>
      PROVE  ExclusionInv'
  <2>1. \A t \in SubtaskIds : lock'[t] = IF t = s THEN Free ELSE lock[t]  BY <1>4, <1>a
  <2>2. ASSUME NEW v \in Workers, Holds(pc[v], job[v]) PROVE lock'[job[v].id] = v
    <3>1. lock[job[v].id] = v /\ job[v].id \in SubtaskIds
      BY <2>2, <1>b, <1>p DEF ExclusionInv
    <3>2. job[v].id # s  BY <3>1, <1>4, LockAssumption
    <3> QED BY <3>1, <3>2, <2>1
  <2> QED BY <2>1, <2>2, <1>4, LockAssumption DEF ExclusionInv, Holds
<1>5. ASSUME UNCHANGED <<entry, pc, job, lock, faults>> PROVE ExclusionInv'
  BY <1>5 DEF ExclusionInv, Holds
<1> QED BY <1>1, <1>2, <1>3, <1>4, <1>5, NextMoves

-----------------------------------------------------------------------------
(* No subtask is stranded                                                    *)

\* What is valid against the row stays so while the subtask's entry does.
LEMMA StillValid ==
  ASSUME NEW s, entry'.ids = entry.ids, entry'.status[s] = entry.status[s]
  PROVE  /\ Ready(s)' <=> Ready(s)
         /\ \A status : IsValid(s, status)' <=> IsValid(s, status)
         /\ \A v \in Workers : Carrier(v, s) /\ pc'[v] = pc[v] /\ job'[v] = job[v]
                                 => Carrier(v, s)'
<1>1. /\ Ready(s)' <=> Ready(s)
      /\ \A status : IsValid(s, status)' <=> IsValid(s, status)
  BY DEF Ready, IsValid, RetryCount
<1>2. ASSUME NEW v \in Workers, Carrier(v, s), pc'[v] = pc[v], job'[v] = job[v]
      PROVE  Carrier(v, s)'
  <2>1. WorksOn(v, s)' /\ (Holds(pc[v], job[v]) => Holds(pc'[v], job'[v]))
    BY <1>2 DEF Carrier, WorksOn
  <2>2. IsValid(s, job[v].status) => IsValid(s, job[v].status)'
    BY <1>2 DEF IsValid, RetryCount
  <2> QED BY <2>1, <2>2, <1>2 DEF Carrier, Holds
<1> QED BY <1>1, <1>2

\* Every step passes the work on: to the next stage, to the worker that has the lock,
\* to the queue.
LEMMA NextCarry ==
  /\ Undisturbed /\ TypeOK /\ RetryInv /\ LockInv /\ StagedInv /\ ExclusionInv
  /\ CarryInv /\ [Next]_vars
  => CarryInv'
<1> SUFFICES ASSUME Undisturbed, TypeOK, RetryInv, LockInv, StagedInv, ExclusionInv,
                    CarryInv, [Next]_vars,
                    NEW s \in entry'.ids, ~Ready(s)', ~(faults'.crashed > 0)
             PROVE  \/ \E w \in Workers : Carrier(w, s)'
                    \/ \E m \in queue' : m.id = s /\ IsValid(s, m.status)'
  BY DEF CarryInv
<1>a. entry \in Entry /\ lock \in [SubtaskIds -> Workers \cup {Free, Orphan}]
  BY DEF TypeOK
<1>b. ASSUME NEW w \in Workers, pc[w] # "idle"
      PROVE  /\ job[w] \in Job /\ job[w].id \in SubtaskIds /\ job[w].status \in SubtaskStatus
             /\ RetryCount(job[w].status) \in Nat /\ Staged(pc[w], job[w])
  BY <1>b, JobType, StatusType DEF TypeOK, StagedInv
<1>1. CASE UNCHANGED entry /\ queue \subseteq queue' /\ faults'.crashed = faults.crashed
             /\ \E w \in Workers : OnlyMoves(w) /\ (Carrier(w, s) =>
                  \/ \E v \in Workers : Carrier(v, s)'
                  \/ \E m \in queue' : m.id = s /\ IsValid(s, m.status)')
  <2>1. PICK w \in Workers : OnlyMoves(w) /\ (Carrier(w, s) =>
                  \/ \E v \in Workers : Carrier(v, s)'
                  \/ \E m \in queue' : m.id = s /\ IsValid(s, m.status)')
    BY <1>1
  <2>2. \/ \E v \in Workers : Carrier(v, s)
        \/ \E m \in queue : m.id = s /\ IsValid(s, m.status)
    BY <1>1, StillValid DEF CarryInv
  <2>3. CASE \E m \in queue : m.id = s /\ IsValid(s, m.status)
    BY <2>3, <1>1, StillValid
  <2>4. ASSUME NEW v \in Workers, Carrier(v, s), v # w PROVE Carrier(v, s)'
    BY <2>1, <2>4, <1>1, StillValid DEF OnlyMoves
  <2> QED BY <2>1, <2>2, <2>3, <2>4
<1>2. ASSUME NEW w \in Workers, Moved(w)
      PROVE  \/ \E v \in Workers : Carrier(v, s)'
             \/ \E m \in queue' : m.id = s /\ IsValid(s, m.status)'
  <2>1. /\ OnlyMoves(w) /\ pc[w] # "idle" /\ faults'.crashed = faults.crashed
        /\ pc'[w] # "idle" => job'[w].id = job[w].id
    BY <1>2 DEF Moved
  <2>2. CASE Judged(w)
    <3>1. ASSUME Carrier(w, s) PROVE Carrier(w, s)'
      <4>1. /\ pc[w] = "check" /\ job[w].id = s /\ IsValid(s, job[w].status)
            /\ UNCHANGED entry
        BY <2>2, <3>1 DEF Judged, Carrier, Holds, WorksOn
      <4>2. pc'[w] = "lock" /\ job'[w] = job[w]  BY <4>1, <2>2 DEF Judged
      <4> QED BY <4>1, <4>2 DEF Carrier, WorksOn, IsValid, RetryCount
    <3> QED BY <3>1, <2>1, <2>2, <1>1 DEF Judged
  <2>3. CASE Locked(w)
    <3>1. ASSUME Carrier(w, s) PROVE \E v \in Workers : Carrier(v, s)'
      <4>1. pc[w] = "lock" /\ job[w].id = s /\ UNCHANGED entry /\ s \in SubtaskIds
        BY <2>3, <3>1, <2>1, <1>b DEF Locked, Carrier, WorksOn
      <4>2. CASE lock[s] = Free
        <5>1. pc'[w] = "filter" /\ job'[w] = job[w]  BY <4>1, <4>2, <2>3 DEF Locked
        <5> QED BY <4>1, <5>1 DEF Carrier, WorksOn, Holds
      <4>3. CASE lock[s] # Free
        <5>1. lock[s] # Orphan  BY <4>1, <2>1 DEF ExclusionInv
        <5>2. PICK v \in Workers : lock[s] = v  BY <4>1, <4>3, <5>1, <1>a
        <5>3. WorksOn(v, s) /\ MayHold(pc[v], job[v])  BY <4>1, <5>2 DEF LockInv
        <5>4. Holds(pc[v], job[v])
          BY <5>3, <1>b DEF WorksOn, MayHold, Holds, Staged
        <5>5. v # w  BY <5>4, <4>1 DEF Holds
        <5> QED BY <4>1, <5>3, <5>4, <5>5, <2>1, StillValid DEF Carrier, OnlyMoves
      <4> QED BY <4>2, <4>3
    <3> QED BY <3>1, <2>1, <2>3, <1>1 DEF Locked
  <2>4. CASE Worked(w)
    <3>1. ASSUME Carrier(w, s) PROVE Carrier(w, s)'
      <4>1. job[w].id = s /\ Holds(pc'[w], job'[w]) /\ UNCHANGED entry
        BY <2>4, <3>1 DEF Worked, Carrier, WorksOn
      <4>2. pc'[w] # "idle"  BY <4>1 DEF Holds
      <4> QED BY <4>1, <4>2, <2>1 DEF Carrier, WorksOn, Holds
    <3> QED BY <3>1, <2>1, <2>4, <1>1 DEF Worked
  <2>5. CASE Saved(w)
    <3>1. /\ pc'[w] = "release" /\ job'[w] = job[w] /\ UNCHANGED queue
          /\ entry' = RecordStatus(job[w].id, job[w].status)
      BY <2>5 DEF Saved
    <3>2. /\ entry'.ids = entry.ids /\ s \in SubtaskIds
          /\ \A t \in SubtaskIds : t # job[w].id => entry'.status[t] = entry.status[t]
      <4>1. entry'.ids = entry.ids /\ \A t \in SubtaskIds :
              entry'.status[t] = IF t = job[w].id THEN job[w].status ELSE entry.status[t]
        BY <3>1, <2>1, <1>a, <1>b, RecordedStatus
      <4> QED BY <4>1, <1>a DEF Entry
    <3>3. CASE s = job[w].id
      BY <3>1, <3>3 DEF Carrier, WorksOn, Holds
    <3>4. CASE s # job[w].id
      <4>1. entry'.status[s] = entry.status[s]  BY <3>2, <3>4
      <4>2. \/ \E v \in Workers : Carrier(v, s)
            \/ \E m \in queue : m.id = s /\ IsValid(s, m.status)
        BY <4>1, <3>2, <2>1, StillValid DEF CarryInv
      <4>3. ASSUME NEW v \in Workers, Carrier(v, s) PROVE Carrier(v, s)'
        <5>1. v # w  BY <4>3, <3>4 DEF Carrier, WorksOn
        <5> QED BY <5>1, <4>1, <4>3, <3>2, <2>1, StillValid DEF OnlyMoves
      <4> QED BY <4>1, <4>2, <4>3, <3>1, <3>2, StillValid
    <3> QED BY <3>3, <3>4
  <2>6. CASE Unlocked(w)
    <3>1. ASSUME Carrier(w, s) PROVE Carrier(w, s)'
      <4>1. /\ pc[w] = "release" /\ job[w].id = s /\ UNCHANGED entry /\ s \in entry.ids
            /\ entry.status[s] = job[w].status
        BY <2>6, <3>1, <2>1 DEF Unlocked, Carrier, WorksOn, ExclusionInv
      <4>2. Outcome(job[w])  BY <4>1, <1>b DEF Staged
      <4>3. ~Ready(s)  BY <4>1, StillValid
      <4>4. job[w].then = "retry" /\ job[w].status.state = "RETRY"
        BY <4>1, <4>2, <4>3 DEF Outcome, Ready
      <4>5. pc'[w] = "retry" /\ job'[w] = job[w]  BY <4>4, <2>6 DEF Unlocked
      <4>6. IsValid(s, job[w].status)
        BY <4>1, <4>4, <2>1, <1>b DEF IsValid, ReadyStates
      <4> QED BY <4>1, <4>5, <4>6 DEF Carrier, WorksOn, IsValid, RetryCount
    <3> QED BY <3>1, <2>1, <2>6, <1>1 DEF Unlocked
  <2>7. CASE RetryQueued(w)
    <3>1. /\ pc[w] = "retry" /\ UNCHANGED entry
          /\ queue' = queue \cup {RetryMessage(job[w])}
      BY <2>7 DEF RetryQueued
    <3>2. ASSUME Carrier(w, s) PROVE \E m \in queue' : m.id = s /\ IsValid(s, m.status)'
      <4>1. job[w].id = s /\ IsValid(s, job[w].status)
        BY <3>1, <3>2 DEF Carrier, WorksOn, Holds
      <4>2. RetryMessage(job[w]).id = s /\ RetryMessage(job[w]).status = job[w].status
        BY <4>1 DEF RetryMessage
      <4>3. PICK m \in queue' : m = RetryMessage(job[w])  BY <3>1
      <4> QED BY <4>1, <4>2, <4>3, <3>1, StillValid
    <3> QED BY <3>1, <3>2, <2>1, <1>1
  <2>8. CASE Done(w)
    <3>1. ~Carrier(w, s)  BY <2>8 DEF Done, Carrier, Holds
    <3> QED BY <3>1, <2>1, <2>8, <1>1 DEF Done
  <2> QED BY <2>2, <2>3, <2>4, <2>5, <2>6, <2>7, <2>8, <1>2 DEF Moved
<1>3. ASSUME NEW w \in Workers, NEW m \in queue, pc[w] = "idle", OnlyMoves(w),
             pc'[w] = "check", job'[w] = NewJob(m), queue' \in {queue, queue \ {m}},
             UNCHANGED entry, faults'.crashed = faults.crashed
      PROVE  \/ \E v \in Workers : Carrier(v, s)'
             \/ \E n \in queue' : n.id = s /\ IsValid(s, n.status)'
  <2>1. \/ \E v \in Workers : Carrier(v, s)
        \/ \E n \in queue : n.id = s /\ IsValid(s, n.status)
    BY <1>3, StillValid DEF CarryInv
  <2>2. ASSUME NEW v \in Workers, Carrier(v, s) PROVE Carrier(v, s)'
    <3>1. v # w  BY <2>2, <1>3 DEF Carrier, WorksOn
    <3> QED BY <3>1, <2>2, <1>3, StillValid DEF OnlyMoves
  <2>3. ASSUME m.id = s, IsValid(s, m.status) PROVE Carrier(w, s)'
    <3>1. job'[w].id = s /\ job'[w].status = m.status  BY <2>3, <1>3 DEF NewJob
    <3> QED BY <3>1, <2>3, <1>3 DEF Carrier, WorksOn, IsValid, RetryCount
  <2> QED BY <2>1, <2>2, <2>3, <1>3, StillValid
<1>4. CASE UNCHANGED <<entry, queue, pc, job, faults>>
  <2>1. \/ \E v \in Workers : Carrier(v, s)
        \/ \E n \in queue : n.id = s /\ IsValid(s, n.status)
    BY <1>4, StillValid DEF CarryInv
  <2> QED BY <2>1, <1>4, StillValid
<1> QED BY <1>2, <1>3, <1>4, NextMoves

-----------------------------------------------------------------------------
(* The theorems                                                              *)

\* At the start no lock is taken and every subtask's first message is queued.
LEMMA InitCarry == Init => StagedInv /\ ExclusionInv /\ CarryInv
<1> SUFFICES ASSUME Init PROVE StagedInv /\ ExclusionInv /\ CarryInv  OBVIOUS
<1>1. StagedInv  BY DEF Init, StagedInv, NewMessage, NewStatus, NoFaults, RetryCount
<1>2. ExclusionInv  BY LockAssumption DEF Init, ExclusionInv, Holds
<1>3. CarryInv
  <2>1. ASSUME NEW s \in entry.ids PROVE \E m \in queue : m.id = s /\ IsValid(s, m.status)
    <3>1. s \in SubtaskIds /\ entry.status[s] = NewStatus
      BY <2>1 DEF Init, InitializeSubtaskInfo
    <3>2. NewMessage(s) \in queue /\ NewMessage(s).id = s  BY <3>1 DEF Init, NewMessage
    <3>3. IsValid(s, NewMessage(s).status)
      BY <2>1, <3>1 DEF IsValid, NewStatus, ReadyStates
    <3> QED BY <3>2, <3>3
  <2> QED BY <2>1 DEF CarryInv
<1> QED BY <1>1, <1>2, <1>3

\* While saves and retries go through, the lock excludes: for any number of workers,
\* deliveries of one subtask that overlap, and workers that die, whoever is between
\* the taking of the lock and its release has it to itself (acquire_subtask_lock,
\* release_subtask_lock).
THEOREM LockTrulyExcludes == Undisturbed /\ Spec => []LockExcludes
<1> SUFFICES ASSUME Undisturbed PROVE Spec => []LockExcludes  OBVIOUS
<1>1. Init => StagedInv /\ ExclusionInv  BY InitCarry
<1>2. TypeOK /\ RetryInv /\ StagedInv /\ ExclusionInv /\ [Next]_vars
        => StagedInv' /\ ExclusionInv'
  BY NextStaged, NextExclusion
<1>3. ExclusionInv => LockExcludes
  BY DEF ExclusionInv, LockExcludes, Holding, Holds
<1> QED BY <1>1, <1>2, <1>3, InitRetry, NextRetry, TypeCorrect, PTL DEF Spec

\* Under the same conditions a delivery that is turned away, by the lock or as no
\* longer valid, never takes the subtask with it: unless a worker has died, an
\* unfinished subtask has a worker on it or a message that will be let through
\* (check_subtask_is_valid, _submit_for_retry).
THEOREM NeverStranded == Undisturbed /\ Spec => []NotStranded
<1> SUFFICES ASSUME Undisturbed PROVE Spec => []NotStranded  OBVIOUS
<1>1. Init => LockInv /\ StagedInv /\ ExclusionInv /\ CarryInv
  BY InitCarry, LockAssumption DEF Init, LockInv
<1>2. TypeOK /\ RetryInv /\ LockInv /\ StagedInv /\ ExclusionInv /\ CarryInv /\ [Next]_vars
        => LockInv' /\ StagedInv' /\ ExclusionInv' /\ CarryInv'
  BY NextLock, NextStaged, NextExclusion, NextCarry
<1>3. CarryInv => NotStranded
  BY DEF CarryInv, NotStranded, Carrier
<1> QED BY <1>1, <1>2, <1>3, InitRetry, NextRetry, TypeCorrect, PTL DEF Spec

-----------------------------------------------------------------------------
(* Nobody is mailed twice, the row tells the truth about the subtasks, and *)
(* workers, lock and row together implement EmailDelivery, when the        *)
(* deliveries of one subtask follow one another.                           *)
(*                                                                         *)
(* A duplicate is told from the attempt that is due by its retry count:    *)
(* the count of the recorded status is the count of the attempt that may   *)
(* still run, every attempt that has been made is counted in it before its *)
(* successor is queued, and the successor lists only those not yet mailed. *)

\* The lists are disjoint, deliveries of one subtask do not overlap, no worker dies,
\* and update_subtask_status outlasts the errors of the database.
Sequential ==
  /\ \A s, t \in SubtaskIds : s # t => Chunk[s] \cap Chunk[t] = {}
  /\ ~Overlap
  /\ MaxCrashes = 0
  /\ MaxDbErrors < MaxDbLockRetries

\* The status of s in the row.
Recorded(s) == entry.status[s]

\* None of the list has been mailed.
Unsent(list) == \A r \in list : sent[r] = 0

\* How many recipients of s have been mailed.
Mailed(s) == Cardinality({r \in Chunk[s] : sent[r] > 0})

\* What is left of s to send: the list is unsent, and the status counts every mail so far.
Due(s, list, status) == Unsent(list) /\ status.succeeded = Mailed(s)

\* A job between its lock and its record in the row.
Underway(stage, j) == \/ stage \in {"filter", "open", "send", "update"}
                      \/ stage = "close" /\ j.then # "requeued"

\* Every message of s was queued for an attempt before the recorded one.
AllOlder(s) ==
  \A m \in queue : m.id = s => RetryCount(m.status) < RetryCount(Recorded(s))

\* The row is the one that was initialised, an untried subtask has no retries.
RowInv ==
  /\ entry.ids = SubtaskIds
  /\ entry.progress.valid
  /\ \A s \in SubtaskIds : Recorded(s).state = "QUEUING" => RetryCount(Recorded(s)) = 0

\* A queued message of s is of the recorded attempt at the latest, and one that
\* would be let through lists nobody who has been mailed, unless a worker is at it.
MessagesOf(s) ==
  \A m \in queue : m.id = s =>
    /\ m.toList \subseteq Chunk[s]
    /\ ~Ready(s) => RetryCount(m.status) <= RetryCount(Recorded(s))
    /\ IsValid(s, m.status) /\ (\A w \in Workers : WorksOn(w, s) => ~Underway(pc[w], job[w]))
         => Due(s, m.toList, m.status)

\* No two workers are on one subtask.
Alone ==
  \A v, w \in Workers :
    pc[v] # "idle" /\ pc[w] # "idle" /\ job[v].id = job[w].id => v = w

\* The attempt is the recorded one and nobody on its list has been mailed.
Current(j) ==
  /\ ~Ready(j.id)
  /\ RetryCount(j.status) = RetryCount(Recorded(j.id))
  /\ Due(j.id, j.toList, j.status)

\* The outcome is final, and not recorded yet.
Ending(j) ==
  /\ j.status.state \in ReadyStates
  /\ ~Ready(j.id)
  /\ j.status.succeeded = Mailed(j.id)

\* The retry has been recorded, and not queued yet.
Requeuing(j) ==
  /\ Recorded(j.id).state = "RETRY"
  /\ RetryCount(j.status) = RetryCount(Recorded(j.id))
  /\ Due(j.id, j.toList, j.status)
  /\ AllOlder(j.id)

\* The retry has been queued.
Requeued(j) ==
  /\ Recorded(j.id).state = "RETRY"
  /\ j.status.succeeded = Mailed(j.id)

\* What holds of a job at each of its stages.
StageInv(stage, j) ==
  /\ stage # "idle" => j.toList \subseteq Chunk[j.id]
  /\ stage = "check" =>
       /\ ~Ready(j.id) => RetryCount(j.status) <= RetryCount(Recorded(j.id))
       /\ IsValid(j.id, j.status) => Due(j.id, j.toList, j.status)
  /\ stage \in {"lock", "filter", "open", "send"} => Current(j)
  /\ stage = "close" =>
       \/ j.then = "requeued" /\ Requeued(j)
       \/ j.then # "requeued" /\ Ending(j)
  /\ stage = "update" =>
       /\ j.depth <= faults.db
       /\ \/ j.then = "end" /\ Ending(j)
          \/ /\ j.then = "retry" /\ j.status.state = "RETRY"
             /\ ~Ready(j.id)
             /\ RetryCount(j.status) = RetryCount(Recorded(j.id)) + 1
             /\ Due(j.id, j.toList, j.status)
  /\ stage = "release" =>
       \/ j.then = "end" /\ Ready(j.id)
       \/ j.then = "retry" /\ Requeuing(j)
  /\ stage = "retry" => Requeuing(j)

\* The inductive invariant behind AtMostOnce.
OnceInv ==
  /\ AtMostOnce
  /\ RowInv
  /\ \A s \in SubtaskIds : MessagesOf(s)
  /\ Alone
  /\ \A w \in Workers : StageInv(pc[w], job[w])

-----------------------------------------------------------------------------
(* What a step that concerns one subtask leaves alone                        *)

\* Nothing but subtask s is concerned.
Concerns(s) ==
  /\ entry'.ids = entry.ids
  /\ \A t \in SubtaskIds \ {s} : entry'.status[t] = entry.status[t]
  /\ \A r \in Recipients \ Chunk[s] : sent'[r] = sent[r]
  /\ \A m \in queue' : m.id = s \/ m \in queue
  /\ faults'.db \in Nat /\ faults'.db >= faults.db

\* Nobody but worker w takes a step, and w is on no other subtask than s.
WorkerOn(w, s) ==
  /\ OnlyMoves(w)
  /\ pc[w] = "idle" \/ job[w].id = s
  /\ pc'[w] = "idle" \/ job'[w].id = s
  /\ \A v \in Workers \ {w} : pc[v] # "idle" => job[v].id # s

\* The invariant of a job in the next state is that of the job then.
LEMMA NextJob ==
  ASSUME NEW w \in Workers, NEW stage, NEW j, pc'[w] = stage, job'[w] = j,
         StageInv(stage, j)'
  PROVE  StageInv(pc[w], job[w])'
BY DEF StageInv, Current, Ending, Requeuing, Requeued, AllOlder, Recorded, Ready, IsValid,
       Due, Unsent, Mailed, RetryCount

\* What is left to send of another subtask stays so.
LEMMA DueElsewhere ==
  ASSUME Sequential, NEW s \in SubtaskIds, NEW t \in SubtaskIds, s # t, Concerns(s)
  PROVE  /\ Mailed(t)' = Mailed(t)
         /\ \A list, status : list \subseteq Chunk[t] /\ Due(t, list, status) => Due(t, list, status)'
<1>1. \A r \in Chunk[t] : r \in Recipients \ Chunk[s]
  BY ChunkAssumption DEF Sequential
<1>2. \A r \in Chunk[t] : sent'[r] = sent[r]  BY <1>1 DEF Concerns
<1>3. {r \in Chunk[t] : sent'[r] > 0} = {r \in Chunk[t] : sent[r] > 0}  BY <1>2
<1>4. Mailed(t)' = Mailed(t)  BY <1>3 DEF Mailed
<1> QED BY <1>2, <1>4 DEF Due, Unsent

\* A job of another subtask keeps its invariant.
LEMMA JobElsewhere ==
  ASSUME Sequential, TypeOK, NEW s \in SubtaskIds, Concerns(s),
         NEW stage, NEW j \in Job, j.id # s, stage # "idle", StageInv(stage, j)
  PROVE  StageInv(stage, j)'
<1>1. j.id \in SubtaskIds /\ j.depth \in Nat /\ j.toList \subseteq Chunk[j.id]
  BY JobType DEF StageInv
<1>2. Due(j.id, j.toList, j.status) => Due(j.id, j.toList, j.status)'
  BY <1>1, DueElsewhere
<1>3. entry'.ids = entry.ids /\ entry'.status[j.id] = entry.status[j.id]
  BY <1>1 DEF Concerns
<1>4. Ready(j.id)' <=> Ready(j.id)  BY <1>3 DEF Ready
<1>5. Recorded(j.id)' = Recorded(j.id)  BY <1>3 DEF Recorded
<1>6. RetryCount(Recorded(j.id))' = RetryCount(Recorded(j.id))  BY <1>5 DEF RetryCount
<1>7. IsValid(j.id, j.status)' <=> IsValid(j.id, j.status)  BY <1>3 DEF IsValid
<1>8. AllOlder(j.id) => AllOlder(j.id)'
  BY <1>1, <1>5, <1>6 DEF AllOlder, Concerns
<1>9. Current(j) => Current(j)'  BY <1>2, <1>4, <1>6 DEF Current
<1>10. Requeuing(j) => Requeuing(j)'  BY <1>2, <1>5, <1>6, <1>8 DEF Requeuing
<1>12. Mailed(j.id)' = Mailed(j.id)  BY <1>1, DueElsewhere
<1>13. (Ending(j) => Ending(j)') /\ (Requeued(j) => Requeued(j)')
  BY <1>4, <1>5, <1>12 DEF Ending, Requeued
<1>11. j.depth <= faults.db => j.depth <= faults'.db
  BY <1>1 DEF TypeOK, Faults, Concerns
<1> QED
  BY <1>1, <1>2, <1>4, <1>6, <1>7, <1>9, <1>10, <1>11, <1>13 DEF StageInv

\* The messages of another subtask keep their invariant.
LEMMA MessagesElsewhere ==
  ASSUME Sequential, TypeOK, NEW w \in Workers, NEW s \in SubtaskIds,
         NEW t \in SubtaskIds, s # t, Concerns(s), WorkerOn(w, s), MessagesOf(t)
  PROVE  MessagesOf(t)'
<1> SUFFICES ASSUME NEW m \in queue', m.id = t
             PROVE  /\ m.toList \subseteq Chunk[t]
                    /\ ~Ready(t)' => RetryCount(m.status) <= RetryCount(Recorded(t)')
                    /\ IsValid(t, m.status)'
                         /\ (\A v \in Workers : WorksOn(v, t)' => ~Underway(pc'[v], job'[v]))
                         => Due(t, m.toList, m.status)'
  BY DEF MessagesOf
<1>1. m \in queue  BY DEF Concerns
<1>2. entry'.ids = entry.ids /\ entry'.status[t] = entry.status[t]  BY DEF Concerns
<1>3. Ready(t)' <=> Ready(t)  BY <1>2 DEF Ready
<1>4. Recorded(t)' = Recorded(t)  BY <1>2 DEF Recorded
<1>5. IsValid(t, m.status)' <=> IsValid(t, m.status)  BY <1>2 DEF IsValid
<1>6. \A v \in Workers : WorksOn(v, t) => WorksOn(v, t)' /\ pc'[v] = pc[v] /\ job'[v] = job[v]
  BY DEF WorkerOn, OnlyMoves, WorksOn
<1>7. m.toList \subseteq Chunk[t]  BY <1>1 DEF MessagesOf
<1>8. Due(t, m.toList, m.status) => Due(t, m.toList, m.status)'  BY <1>7, DueElsewhere
<1> QED BY <1>1, <1>3, <1>4, <1>5, <1>6, <1>7, <1>8 DEF MessagesOf

\* A step on subtask s keeps the invariant if it keeps the parts about s.
LEMMA OnceStep ==
  ASSUME Sequential, TypeOK, OnceInv, NEW w \in Workers, NEW s \in SubtaskIds,
         Concerns(s), WorkerOn(w, s),
         NEW stage, NEW j, pc'[w] = stage, job'[w] = j, StageInv(stage, j)',
         MessagesOf(s)', RowInv', AtMostOnce'
  PROVE  OnceInv'
<1>1. ASSUME NEW v \in Workers PROVE StageInv(pc[v], job[v])'
  <2>1. CASE v = w  BY <2>1, NextJob
  <2>2. CASE v # w
    <3>1. pc'[v] = pc[v] /\ job'[v] = job[v] /\ StageInv(pc[v], job[v])
      BY <2>2 DEF WorkerOn, OnlyMoves, OnceInv
    <3>2. CASE pc[v] = "idle"  BY <3>1, <3>2 DEF StageInv
    <3>3. CASE pc[v] # "idle"
      <4>1. job[v] \in Job /\ job[v].id # s  BY <2>2, <3>3 DEF TypeOK, WorkerOn
      <4>2. \A st, k : /\ st = pc[v] /\ k = job[v] => StageInv(st, k)'
        <5> SUFFICES ASSUME NEW st, NEW k, st = pc[v], k = job[v] PROVE StageInv(st, k)'
          OBVIOUS
        <5>1. StageInv(st, k)  BY <3>1
        <5> QED BY <5>1, <4>1, <3>3, JobElsewhere
      <4>3. PICK st, k : st = pc[v] /\ k = job[v]  OBVIOUS
      <4>4. StageInv(st, k)'  BY <4>2, <4>3
      <4> QED BY <4>3, <4>4, <3>1, NextJob
    <3> QED BY <3>2, <3>3
  <2> QED BY <2>1, <2>2
<1>2. Alone'
  BY DEF Alone, OnceInv, WorkerOn, OnlyMoves
<1>3. ASSUME NEW t \in SubtaskIds PROVE MessagesOf(t)'
  BY MessagesElsewhere DEF OnceInv
<1> QED BY <1>1, <1>2, <1>3 DEF OnceInv

\* A step of w that leaves the row, the messages and the mails alone.
Quiet(w) ==
  /\ OnlyMoves(w)
  /\ pc[w] # "idle"
  /\ pc'[w] = "idle" \/ job'[w].id = job[w].id
  /\ UNCHANGED <<entry, queue, sent>>
  /\ faults'.db \in Nat /\ faults'.db >= faults.db

\* A worker under way is on its own subtask only, and alone on it.
LEMMA OwnSubtask ==
  ASSUME TypeOK, Alone, NEW w \in Workers, OnlyMoves(w), pc[w] # "idle",
         pc'[w] = "idle" \/ job'[w].id = job[w].id
  PROVE  WorkerOn(w, job[w].id) /\ job[w].id \in SubtaskIds
<1>1. job[w] \in Job  BY DEF TypeOK
<1>2. \A v \in Workers \ {w} : pc[v] # "idle" => job[v].id # job[w].id  BY DEF Alone
<1> QED BY <1>1, <1>2, JobType DEF WorkerOn

\* A job's invariant outlives a quiet step.
LEMMA QuietJob ==
  ASSUME TypeOK, NEW stage, NEW j \in Job, StageInv(stage, j),
         UNCHANGED <<entry, sent>>, queue' \subseteq queue, faults'.db \in Nat, faults'.db >= faults.db
  PROVE  StageInv(stage, j)'
<1>1. j.depth <= faults.db => j.depth <= faults'.db
  BY JobType DEF TypeOK, Faults
<1>2. /\ Ready(j.id)' <=> Ready(j.id)
      /\ IsValid(j.id, j.status)' <=> IsValid(j.id, j.status)
      /\ Due(j.id, j.toList, j.status)' <=> Due(j.id, j.toList, j.status)
      /\ Mailed(j.id)' = Mailed(j.id)
      /\ RetryCount(Recorded(j.id))' = RetryCount(Recorded(j.id))
      /\ Recorded(j.id)' = Recorded(j.id)
  BY DEF Ready, IsValid, Due, Unsent, Mailed, RetryCount, Recorded
<1>3. AllOlder(j.id) => AllOlder(j.id)'  BY <1>2 DEF AllOlder, RetryCount
<1>4. Current(j) => Current(j)'  BY <1>2 DEF Current
<1>5. Requeuing(j) => Requeuing(j)'  BY <1>2, <1>3 DEF Requeuing
<1>6. (Ending(j) => Ending(j)') /\ (Requeued(j) => Requeued(j)')
  BY <1>2 DEF Ending, Requeued
<1> QED BY <1>1, <1>2, <1>4, <1>5, <1>6 DEF StageInv

\* A quiet step keeps the invariant when the job it leads to satisfies its own and
\* the worker does not leave the part of the work that excuses the messages.
LEMMA QuietStep ==
  ASSUME Sequential, TypeOK, OnceInv, NEW w \in Workers, Quiet(w),
         NEW stage, NEW j, pc'[w] = stage, job'[w] = j, StageInv(stage, j)',
         Underway(pc[w], job[w]) => Underway(stage, j)
  PROVE  OnceInv'
<1>1. PICK s : s = job[w].id  OBVIOUS
<1>2. WorkerOn(w, s) /\ s \in SubtaskIds  BY <1>1, OwnSubtask DEF Quiet, OnceInv
<1>3. Concerns(s)  BY DEF Quiet, Concerns
<1>4. RowInv'  BY DEF Quiet, OnceInv, RowInv, Recorded, RetryCount
<1>5. AtMostOnce'  BY DEF Quiet, OnceInv, AtMostOnce
<1>6. MessagesOf(s)'
  <2> SUFFICES ASSUME NEW m \in queue', m.id = s
               PROVE  /\ m.toList \subseteq Chunk[s]
                      /\ ~Ready(s)' => RetryCount(m.status) <= RetryCount(Recorded(s)')
                      /\ IsValid(s, m.status)'
                           /\ (\A v \in Workers : WorksOn(v, s)' => ~Underway(pc'[v], job'[v]))
                           => Due(s, m.toList, m.status)'
    BY DEF MessagesOf
  <2>1. m \in queue /\ MessagesOf(s)  BY <1>2 DEF Quiet, OnceInv
  <2>2. /\ Ready(s)' <=> Ready(s)
        /\ Recorded(s)' = Recorded(s)
        /\ IsValid(s, m.status)' <=> IsValid(s, m.status)
        /\ Due(s, m.toList, m.status)' <=> Due(s, m.toList, m.status)
    BY DEF Quiet, Ready, Recorded, IsValid, Due, Unsent, Mailed
  <2>3. ASSUME \A v \in Workers : WorksOn(v, s)' => ~Underway(pc'[v], job'[v]),
               NEW v \in Workers, WorksOn(v, s)
        PROVE  ~Underway(pc[v], job[v])
    <3>1. CASE v = w
      <4>1. CASE pc'[w] = "idle"  BY <3>1, <4>1 DEF Underway
      <4>2. CASE pc'[w] # "idle"
        <5>1. WorksOn(w, s)'  BY <4>2, <1>1 DEF WorksOn, Quiet
        <5> QED BY <5>1, <2>3, <3>1
      <4> QED BY <4>1, <4>2
    <3>2. CASE v # w
      BY <3>2, <2>3, <1>2 DEF WorkerOn, WorksOn
    <3> QED BY <3>1, <3>2
  <2> QED BY <2>1, <2>2, <2>3, <1>2 DEF MessagesOf
<1> QED BY <1>2, <1>3, <1>4, <1>5, <1>6, OnceStep

\* The invariant of w's own job, without the other workers'.
LEMMA OwnJob ==
  ASSUME TypeOK, OnceInv, NEW w \in Workers, pc[w] # "idle"
  PROVE  job[w] \in Job /\ job[w].id \in SubtaskIds /\ StageInv(pc[w], job[w])
BY JobType DEF TypeOK, OnceInv

-----------------------------------------------------------------------------
(* The steps of a worker before it records an outcome                        *)

\* At the start every subtask is untried and every list unsent.
LEMMA InitOnce == Init => OnceInv
<1> SUFFICES ASSUME Init PROVE OnceInv  OBVIOUS
<1>1. AtMostOnce  BY DEF Init, AtMostOnce
<1>2. RowInv
  BY DEF Init, RowInv, InitializeSubtaskInfo, ZeroProgress, NoProgress, NewStatus,
         Recorded, RetryCount
<1>3. ASSUME NEW s \in SubtaskIds PROVE MessagesOf(s)
  <2>1. \A m \in queue : m.id = s => Due(s, m.toList, m.status)
    <3>1. {r \in Chunk[s] : sent[r] > 0} = {}  BY ChunkAssumption DEF Init
    <3>2. Mailed(s) = 0  BY <3>1, FS_EmptySet DEF Mailed
    <3> QED BY <3>2, ChunkAssumption DEF Init, NewMessage, NewStatus, Due, Unsent
  <2> QED
    BY <2>1, <1>3 DEF Init, MessagesOf, NewMessage, NewStatus, Recorded, RetryCount,
                      InitializeSubtaskInfo
<1>4. Alone /\ \A w \in Workers : StageInv(pc[w], job[w])
  BY DEF Init, Alone, StageInv
<1> QED BY <1>1, <1>2, <1>3, <1>4 DEF OnceInv

\* A received message has the list and the status the invariant of messages describes.
LEMMA StartOnce ==
  ASSUME Sequential, TypeOK, OnceInv, NEW w \in Workers, NEW m \in queue, Start(w, m),
         queue' \subseteq queue, faults'.db = faults.db
  PROVE  OnceInv'
<1>1. /\ m \in Message /\ m.id \in SubtaskIds /\ pc[w] = "idle"
      /\ \A v \in Workers : ~WorksOn(v, m.id)
      /\ UNCHANGED <<entry, sent>>
  BY DEF TypeOK, Start, Sequential, Message
<1>2. WorkersOK  BY DEF TypeOK, WorkersOK
<1>3. PICK j : j = NewJob(m)  OBVIOUS
<1>4. OnlyMoves(w) /\ pc'[w] = "check" /\ job'[w] = j
  BY <1>2, <1>3, JobMove DEF Start
<1>5. j.id = m.id /\ j.toList = m.toList /\ j.status = m.status  BY <1>3 DEF NewJob
<1>6. PICK s : s = m.id  OBVIOUS
<1>7. s \in SubtaskIds /\ MessagesOf(s)  BY <1>1, <1>6 DEF OnceInv
<1>8. WorkerOn(w, s)  BY <1>1, <1>4, <1>5, <1>6 DEF WorkerOn, WorksOn
<1>9. Concerns(s)  BY <1>1 DEF Concerns, TypeOK, Faults
<1>10. j \in Job /\ faults.db \in Nat
  BY <1>2, <1>4, StartType DEF WorkersOK, TypeOK, Faults
<1>11. StageInv("check", j)'
  <2>1. /\ j.toList \subseteq Chunk[j.id]
        /\ ~Ready(j.id) => RetryCount(j.status) <= RetryCount(Recorded(j.id))
        /\ IsValid(j.id, j.status) => Due(j.id, j.toList, j.status)
    BY <1>1, <1>5, <1>6, <1>7 DEF MessagesOf
  <2>2. StageInv("check", j)  BY <2>1 DEF StageInv
  <2> QED BY <2>2, <1>1, <1>10, QuietJob
<1>12. MessagesOf(s)'
  <2>1. ASSUME NEW n \in queue', n.id = s
        PROVE  /\ n.toList \subseteq Chunk[s]
               /\ ~Ready(s)' => RetryCount(n.status) <= RetryCount(Recorded(s)')
               /\ IsValid(s, n.status)' => Due(s, n.toList, n.status)'
    <3>1. n \in queue /\ (\A v \in Workers : ~WorksOn(v, s))  BY <2>1, <1>1, <1>6
    <3>2. /\ n.toList \subseteq Chunk[s]
          /\ ~Ready(s) => RetryCount(n.status) <= RetryCount(Recorded(s))
          /\ IsValid(s, n.status) => Due(s, n.toList, n.status)
      BY <3>1, <2>1, <1>7 DEF MessagesOf
    <3>3. /\ Ready(s)' <=> Ready(s)
          /\ Recorded(s)' = Recorded(s)
          /\ IsValid(s, n.status)' <=> IsValid(s, n.status)
          /\ Due(s, n.toList, n.status)' <=> Due(s, n.toList, n.status)
      BY <1>1 DEF Ready, Recorded, IsValid, Due, Unsent, Mailed
    <3> QED BY <3>2, <3>3
  <2> QED BY <2>1 DEF MessagesOf
<1>13. RowInv'  BY <1>1 DEF OnceInv, RowInv, Recorded, RetryCount
<1>14. AtMostOnce'  BY <1>1 DEF OnceInv, AtMostOnce
<1> QED BY <1>4, <1>7, <1>8, <1>9, <1>11, <1>12, <1>13, <1>14, OnceStep

\* An attempt that is let through is the recorded one: an older one is rejected by
\* its count, and there is none that is newer.
LEMMA ValidIsCurrent ==
  ASSUME TypeOK, RowInv, NEW j \in Job, StageInv("check", j), IsValid(j.id, j.status)
  PROVE  Current(j)
<1> DEFINE rec == Recorded(j.id)
<1>1. j.id \in SubtaskIds /\ j.status \in SubtaskStatus  BY JobType
<1>2. rec \in SubtaskStatus  BY <1>1 DEF TypeOK, Entry, Recorded
<1>3. RetryCount(j.status) \in Nat /\ RetryCount(rec) \in Nat  BY <1>1, <1>2, StatusType
<1>4. ~Ready(j.id) /\ (rec.state = "RETRY" => RetryCount(j.status) >= RetryCount(rec))
  BY DEF IsValid, Ready, Recorded
<1>5. rec.state = "QUEUING" => RetryCount(rec) = 0  BY <1>1 DEF RowInv
<1>6. rec.state \in {"QUEUING", "RETRY"}
  BY <1>2, <1>4 DEF SubtaskStatus, States, ReadyStates, Ready, Recorded
<1>7. RetryCount(j.status) <= RetryCount(rec)  BY <1>4 DEF StageInv
<1>8. Due(j.id, j.toList, j.status)  BY DEF StageInv
<1> HIDE DEF rec
<1>9. RetryCount(j.status) = RetryCount(rec)  BY <1>3, <1>4, <1>5, <1>6, <1>7
<1> QED BY <1>4, <1>8, <1>9 DEF Current, rec

\* Moving on with the same job to a stage where it satisfies the invariant.
LEMMA SameJobOnce ==
  ASSUME Sequential, TypeOK, OnceInv, NEW w \in Workers, pc[w] # "idle", OnlyMoves(w),
         NEW stage, pc'[w] = stage, job'[w] = job[w], StageInv(stage, job[w]),
         Underway(pc[w], job[w]) => Underway(stage, job[w]),
         UNCHANGED <<entry, queue, sent, faults>>
  PROVE  OnceInv'
<1>1. PICK j : j = job[w]  OBVIOUS
<1>2. j \in Job /\ faults.db \in Nat  BY <1>1, OwnJob DEF TypeOK, Faults
<1>3. StageInv(stage, j)  BY <1>1
<1>4. StageInv(stage, j)'  BY <1>2, <1>3, QuietJob
<1>5. Quiet(w)  BY <1>2 DEF Quiet
<1> QED BY <1>1, <1>4, <1>5, QuietStep

\* Finishing, when the job is not under way.
LEMMA FinishOnce ==
  ASSUME Sequential, TypeOK, OnceInv, NEW w \in Workers, pc[w] # "idle", Finish(w),
         ~Underway(pc[w], job[w]), UNCHANGED <<entry, queue, sent, faults>>
  PROVE  OnceInv'
<1>1. OnlyMoves(w) /\ pc'[w] = "idle"  BY FinishMove DEF TypeOK, WorkersOK
<1>2. PICK j : j = job'[w]  OBVIOUS
<1>3. StageInv("idle", j)'  BY DEF StageInv
<1>4. Quiet(w)  BY <1>1 DEF Quiet, TypeOK, Faults
<1> QED BY <1>1, <1>2, <1>3, <1>4, QuietStep

\* The check and the lock.
LEMMA CheckOnce ==
  ASSUME Sequential, TypeOK, OnceInv, NEW w \in Workers,
         CheckSubtaskIsValid(w) \/ AcquireSubtaskLock(w) \/ OpenConnection(w)
  PROVE  OnceInv'
<1>a. WorkersOK  BY DEF TypeOK, WorkersOK
<1>1. CASE CheckSubtaskIsValid(w)
  <2>1. pc[w] = "check" /\ UNCHANGED <<entry, queue, sent, faults>>
    BY <1>1 DEF CheckSubtaskIsValid
  <2>2. job[w] \in Job /\ StageInv("check", job[w])  BY <2>1, OwnJob
  <2>3. CASE IsValid(job[w].id, job[w].status)
    <3>1. OnlyMoves(w) /\ pc'[w] = "lock" /\ job'[w] = job[w]
      BY <2>3, <1>1, <1>a, GotoMove DEF CheckSubtaskIsValid
    <3>2. Current(job[w])  BY <2>2, <2>3, ValidIsCurrent DEF OnceInv
    <3>3. StageInv("lock", job[w])  BY <3>2, <2>2 DEF StageInv
    <3>4. ~Underway("check", job[w])  BY DEF Underway
    <3> QED BY <2>1, <3>1, <3>3, <3>4, SameJobOnce
  <2>4. CASE ~IsValid(job[w].id, job[w].status)
    <3>1. Finish(w)  BY <2>4, <1>1 DEF CheckSubtaskIsValid
    <3> QED BY <2>1, <3>1, FinishOnce DEF Underway
  <2> QED BY <2>3, <2>4
<1>2. CASE AcquireSubtaskLock(w)
  <2>1. pc[w] = "lock" /\ UNCHANGED <<entry, queue, sent, faults>>
    BY <1>2 DEF AcquireSubtaskLock
  <2>2. StageInv("lock", job[w])  BY <2>1, OwnJob
  <2>3. CASE CanAdd(job[w].id)
    <3>1. OnlyMoves(w) /\ pc'[w] = "filter" /\ job'[w] = job[w]
      BY <2>3, <1>2, <1>a, GotoMove DEF AcquireSubtaskLock
    <3>2. StageInv("filter", job[w])  BY <2>2 DEF StageInv
    <3>3. ~Underway("lock", job[w])  BY DEF Underway
    <3> QED BY <2>1, <3>1, <3>2, <3>3, SameJobOnce
  <2>4. CASE ~CanAdd(job[w].id)
    <3>1. Finish(w)  BY <2>4, <1>2 DEF AcquireSubtaskLock
    <3> QED BY <2>1, <3>1, FinishOnce DEF Underway
  <2> QED BY <2>3, <2>4
<1>3. CASE OpenConnection(w)
  <2>1. pc[w] = "open" /\ UNCHANGED <<entry, queue, sent, faults>>
    BY <1>3 DEF OpenConnection
  <2>2. OnlyMoves(w) /\ pc'[w] = "send" /\ job'[w] = job[w]
    BY <1>3, <1>a, GotoMove DEF OpenConnection
  <2>3. StageInv("open", job[w])  BY <2>1, OwnJob
  <2>4. StageInv("send", job[w])  BY <2>3 DEF StageInv
  <2>5. Underway("send", job[w])  BY DEF Underway
  <2> QED BY <2>1, <2>2, <2>4, <2>5, SameJobOnce
<1> QED BY <1>1, <1>2, <1>3

\* The filter shortens the list.
LEMMA FilterOnce ==
  ASSUME Sequential, TypeOK, OnceInv, NEW w \in Workers, FilterOptouts(w)
  PROVE  OnceInv'
<1>1. pc[w] = "filter" /\ UNCHANGED <<entry, queue, sent, faults>>  BY DEF FilterOptouts
<1>2. job[w] \in Job /\ StageInv("filter", job[w])  BY <1>1, OwnJob
<1>3. PICK j : j = job'[w]  OBVIOUS
<1>4. /\ OnlyMoves(w) /\ pc'[w] = "open"
      /\ j.id = job[w].id /\ j.toList \subseteq job[w].toList
      /\ RetryCount(j.status) = RetryCount(job[w].status)
      /\ j.status.succeeded = job[w].status.succeeded
  BY <1>3, FilterMove DEF TypeOK, WorkersOK, RetryCount
<1>5. j \in Job  BY <1>3, <1>4, NextType DEF Next, Work, Sending, TypeOK
<1>6. Current(j)
  <2>1. Current(job[w])  BY <1>2 DEF StageInv
  <2> QED BY <2>1, <1>4 DEF Current, Due, Unsent
<1>7. StageInv("open", j)  BY <1>2, <1>4, <1>6 DEF StageInv
<1>8. faults.db \in Nat  BY DEF TypeOK, Faults
<1>9. StageInv("open", j)'  BY <1>1, <1>5, <1>7, <1>8, QuietJob
<1>10. Quiet(w)  BY <1>1, <1>3, <1>4, <1>8 DEF Quiet
<1>11. Underway("open", j)  BY DEF Underway
<1> QED BY <1>3, <1>4, <1>9, <1>10, <1>11, QuietStep

\* A message goes to somebody who has not been mailed, or to nobody.
LEMMA SendOnce ==
  ASSUME Sequential, TypeOK, OnceInv, NEW w \in Workers, NEW r \in Recipients,
         SendMessage(w, r) \/ RecipientRefused(w, r)
  PROVE  OnceInv'
<1>1. /\ pc[w] = "send" /\ r \in job[w].toList /\ UNCHANGED <<entry, queue, faults>>
      /\ sent' = sent \/ sent' = [sent EXCEPT ![r] = sent[r] + 1]
  BY DEF SendMessage, RecipientRefused
<1>2. job[w] \in Job /\ job[w].id \in SubtaskIds /\ StageInv("send", job[w])  BY <1>1, OwnJob
<1>3. PICK j : j = job'[w]  OBVIOUS
<1>4. /\ OnlyMoves(w) /\ pc'[w] = "send"
      /\ j.id = job[w].id /\ j.toList = job[w].toList \ {r}
      /\ RetryCount(j.status) = RetryCount(job[w].status)
      /\ j.status.succeeded = IF SendMessage(w, r) THEN job[w].status.succeeded + 1
                                                   ELSE job[w].status.succeeded
  <2>1. job[w].status \in SubtaskStatus /\ 1 \in Nat  BY <1>2, JobType
  <2> QED BY <2>1, <1>3, SendMove, CountFields DEF TypeOK, WorkersOK, RetryCount
<1>5. PICK s : s = job[w].id  OBVIOUS
<1>6. Current(job[w]) /\ r \in Chunk[s] /\ sent[r] = 0
  BY <1>1, <1>2, <1>5 DEF StageInv, Current, Due, Unsent
<1>7. sent \in [Recipients -> Nat]  BY DEF TypeOK
<1>8. \A q \in Recipients \ {r} : sent'[q] = sent[q]  BY <1>1, <1>7
<1>9. AtMostOnce'
  BY <1>1, <1>6, <1>7 DEF AtMostOnce, OnceInv
<1>10. WorkerOn(w, s) /\ s \in SubtaskIds
  BY <1>1, <1>3, <1>4, <1>5, OwnSubtask DEF OnceInv
<1>11. Concerns(s)  BY <1>1, <1>6, <1>8 DEF Concerns, TypeOK, Faults
<1>12. RowInv'  BY <1>1 DEF OnceInv, RowInv, Recorded, RetryCount
<1>13. StageInv("send", j)'
  <2>1. j.toList \subseteq Chunk[j.id]  BY <1>2, <1>4 DEF StageInv
  <2>2. Unsent(j.toList)'
    <3>1. \A q \in j.toList : q \in Recipients \ {r} /\ sent[q] = 0
      BY <1>2, <1>4, <1>6, JobType DEF Current, Due, Unsent
    <3> QED BY <3>1, <1>8 DEF Unsent
  <2>7. j.status.succeeded = Mailed(s)'
    <3> DEFINE old == {q \in Chunk[s] : sent[q] > 0}
               new == {q \in Chunk[s] : sent'[q] > 0}
    <3>1. Chunk[s] \in SUBSET Recipients  BY <1>10, ChunkAssumption
    <3>2. IsFiniteSet(old) /\ Cardinality(old) = job[w].status.succeeded
      BY <3>1, <1>5, <1>6, RecipientsAssumption, FS_Subset DEF Current, Due, Mailed
    <3>3. CASE SendMessage(w, r)
      <4>1. sent' = [sent EXCEPT ![r] = sent[r] + 1]  BY <3>3 DEF SendMessage
      <4>2. sent'[r] = 1  BY <4>1, <1>6, <1>7
      <4>3. new = old \cup {r} /\ r \notin old  BY <4>2, <3>1, <1>6, <1>8
      <4>4. Cardinality(new) = Cardinality(old) + 1  BY <4>3, <3>2, FS_AddElement
      <4> QED BY <4>4, <3>2, <3>3, <1>4 DEF Mailed
    <3>4. CASE ~SendMessage(w, r)
      <4>1. new = old  BY <3>4 DEF RecipientRefused
      <4> QED BY <4>1, <3>2, <3>4, <1>4 DEF Mailed
    <3> QED BY <3>3, <3>4
  <2>3. ~Ready(j.id) /\ RetryCount(j.status) = RetryCount(Recorded(j.id))
    BY <1>4, <1>6 DEF Current
  <2>4. Ready(j.id)' <=> Ready(j.id)  BY <1>1 DEF Ready
  <2>5. RetryCount(Recorded(j.id))' = RetryCount(Recorded(j.id))
    BY <1>1 DEF Recorded, RetryCount
  <2>8. Due(j.id, j.toList, j.status)'  BY <2>2, <2>7, <1>4, <1>5 DEF Due
  <2>6. Current(j)'  BY <2>3, <2>4, <2>5, <2>8 DEF Current
  <2> QED BY <2>1, <2>6 DEF StageInv
<1>14. MessagesOf(s)'
  <2> SUFFICES ASSUME NEW m \in queue', m.id = s
               PROVE  /\ m.toList \subseteq Chunk[s]
                      /\ ~Ready(s)' => RetryCount(m.status) <= RetryCount(Recorded(s)')
                      /\ \E v \in Workers : WorksOn(v, s)' /\ Underway(pc'[v], job'[v])
    BY DEF MessagesOf
  <2>1. m \in queue /\ MessagesOf(s)  BY <1>1, <1>10 DEF OnceInv
  <2>2. (Ready(s)' <=> Ready(s)) /\ Recorded(s)' = Recorded(s)  BY <1>1 DEF Ready, Recorded
  <2>3. WorksOn(w, s)'  BY <1>3, <1>4, <1>5 DEF WorksOn
  <2>4. Underway(pc'[w], job'[w])  BY <1>4 DEF Underway
  <2> QED BY <2>1, <2>2, <2>3, <2>4 DEF MessagesOf
<1> QED BY <1>3, <1>4, <1>9, <1>10, <1>11, <1>12, <1>13, <1>14, OnceStep

\* Going on to save: the outcome is final, or it is the next attempt of the recorded one.
LEMMA SavingOnce ==
  ASSUME Sequential, TypeOK, OnceInv, NEW w \in Workers, pc[w] # "idle", OnlyMoves(w),
         pc'[w] = "update", NEW j \in Job, job'[w] = j,
         j.id = job[w].id, j.toList = job[w].toList, j.depth = 0,
         \/ j.then = "end" /\ Ending(j)
         \/ /\ j.then = "retry" /\ j.status.state = "RETRY" /\ Current(job[w])
            /\ RetryCount(j.status) = RetryCount(job[w].status) + 1
            /\ j.status.succeeded = job[w].status.succeeded,
         UNCHANGED <<entry, queue, sent>>, faults'.db = faults.db
  PROVE  OnceInv'
<1>1. faults.db \in Nat  BY DEF TypeOK, Faults
<1>2. job[w].toList \subseteq Chunk[job[w].id]  BY OwnJob DEF StageInv
<1>3. StageInv("update", j)  BY <1>1, <1>2 DEF StageInv, Current, Due
<1>4. StageInv("update", j)'  BY <1>1, <1>3, QuietJob
<1>5. Quiet(w)  BY <1>1 DEF Quiet
<1>6. Underway("update", j)  BY DEF Underway
<1> QED BY <1>4, <1>5, <1>6, QuietStep

\* The handler of unexpected exceptions goes on to save a final outcome.
LEMMA UnexpectedOnce ==
  ASSUME Sequential, TypeOK, OnceInv, NEW w \in Workers, Unexpected(w),
         pc[w] \in {"filter", "open", "close", "retry"}, TypeOK', UNCHANGED <<entry, queue, sent>>, faults'.db = faults.db
  PROVE  OnceInv'
<1>1. PICK j : j = job'[w]  OBVIOUS
<1>2. /\ OnlyMoves(w) /\ pc'[w] = "update"
      /\ j.id = job[w].id /\ j.toList = job[w].toList
      /\ j.status = FailWith(job[w].status, job[w].numToSend)
      /\ j.then = "end" /\ j.depth = 0
  BY <1>1, UnexpectedMove DEF TypeOK, WorkersOK
<1>3. j \in Job  BY <1>1, <1>2 DEF TypeOK
<1>4. /\ job[w] \in Job /\ job[w].id \in SubtaskIds /\ StageInv(pc[w], job[w])
      /\ job[w].status \in SubtaskStatus /\ job[w].numToSend \in Nat
  BY OwnJob, JobType
<1>5. ~Ready(job[w].id) /\ job[w].status.succeeded = Mailed(job[w].id)
  BY <1>4 DEF StageInv, Current, Requeuing, Requeued, Ending, Due, Ready, Recorded, ReadyStates
<1>6. j.status.state \in ReadyStates /\ j.status.succeeded = job[w].status.succeeded
  BY <1>2, <1>4, CountFields DEF ReadyStates
<1>7. Ending(j)  BY <1>2, <1>5, <1>6 DEF Ending
<1> QED BY <1>1, <1>2, <1>3, <1>7, SavingOnce

\* A retry increases the count of retries by one.
LEMMA NextAttempt ==
  ASSUME NEW status \in SubtaskStatus, NEW new \in {RetryNoMax(status), RetryMax(status)}
  PROVE  /\ new.state = "RETRY" /\ RetryCount(new) = RetryCount(status) + 1
         /\ new.succeeded = status.succeeded
<1>1. ASSUME new = RetryNoMax(status)
      PROVE  new.state = "RETRY" /\ RetryCount(new) = RetryCount(status) + 1
  <2>1. /\ new.state = "RETRY" /\ new.nomax = status.nomax + 1
        /\ new.withmax = status.withmax
    BY <1>1 DEF RetryNoMax, SubtaskStatus
  <2> QED BY <2>1 DEF RetryCount, SubtaskStatus
<1>2. ASSUME new = RetryMax(status)
      PROVE  new.state = "RETRY" /\ RetryCount(new) = RetryCount(status) + 1
  <2>1. /\ new.state = "RETRY" /\ new.nomax = status.nomax
        /\ new.withmax = status.withmax + 1
    BY <1>2 DEF RetryMax, SubtaskStatus
  <2> QED BY <2>1 DEF RetryCount, SubtaskStatus
<1>3. new.succeeded = status.succeeded  BY CountFields
<1> QED BY <1>1, <1>2, <1>3

\* A temporary error goes on to save the next attempt.
LEMMA ErrorOnce ==
  ASSUME Sequential, TypeOK, OnceInv, TypeOK', NEW w \in Workers,
         Throttled(w) \/ Disconnected(w)
  PROVE  OnceInv'
<1>0. PICK new \in {RetryNoMax(job[w].status), RetryMax(job[w].status)} :
        \E n \in {CappedMax(new), LimitedMax(new)} : SubmitForRetry(w, new, n)
  BY DEF Throttled, Disconnected
<1>1. PICK n \in {CappedMax(new), LimitedMax(new)} : SubmitForRetry(w, new, n)
  BY <1>0
<1>2. pc[w] \in {"open", "send"} /\ UNCHANGED <<entry, queue, sent>>
  BY DEF Throttled, Disconnected
<1>3. job[w] \in Job /\ Current(job[w])  BY <1>2, OwnJob DEF StageInv
<1>4. job[w].status \in SubtaskStatus  BY <1>3, JobType
<1>5. new \in SubtaskStatus /\ n \in Nat  BY <1>0, <1>1, <1>4, StatusType, LimitType
<1>6. PICK j : j = job'[w]  OBVIOUS
<1>7. /\ OnlyMoves(w) /\ pc'[w] = "update"
      /\ j.id = job[w].id /\ j.toList = job[w].toList /\ j.status = new
      /\ j.then = "retry" /\ j.depth = 0
  BY <1>1, <1>2, <1>5, <1>6, SubmitMove DEF TypeOK, WorkersOK
<1>8. j \in Job  BY <1>6, <1>7 DEF TypeOK
<1>9. /\ j.status.state = "RETRY" /\ RetryCount(j.status) = RetryCount(job[w].status) + 1
      /\ j.status.succeeded = job[w].status.succeeded
  BY <1>0, <1>4, <1>7, NextAttempt
<1>10. faults'.db = faults.db  BY <1>1 DEF SubmitForRetry, TypeOK, Faults
<1> QED BY <1>2, <1>3, <1>6, <1>7, <1>8, <1>9, <1>10, SavingOnce

\* The end of the sending, and the closing of the connection.
LEMMA CloseOnce ==
  ASSUME Sequential, TypeOK, OnceInv, TypeOK', NEW w \in Workers,
         SendingImpossible(w) \/ AllSent(w) \/ CloseConnection(w)
  PROVE  OnceInv'
<1>a. WorkersOK /\ UNCHANGED <<entry, queue, sent, faults>> /\ faults.db \in Nat
  BY DEF TypeOK, WorkersOK, SendingImpossible, AllSent, CloseConnection, Faults
<1>b. PICK j : j = job'[w]  OBVIOUS
<1>1. ASSUME pc[w] \in {"open", "send"}, NEW status \in SubtaskStatus,
             status.state \in ReadyStates, status.succeeded = job[w].status.succeeded,
             CloseThen(w, [job[w] EXCEPT !.status = status], "end")
      PROVE  OnceInv'
  <2>1. job[w] \in Job /\ job[w].toList \subseteq Chunk[job[w].id] /\ Current(job[w])
    BY <1>1, OwnJob DEF StageInv
  <2> DEFINE k == [job[w] EXCEPT !.status = status]
  <2>2. k \in Job  BY <2>1, JobType
  <2>3. k.id = job[w].id /\ k.toList = job[w].toList /\ k.status = status
    BY <2>1, JobFields
  <2>4. CloseThen(w, k, "end")  BY <1>1
  <2> HIDE DEF k
  <2>5. /\ OnlyMoves(w) /\ pc'[w] = "close" /\ j.id = k.id /\ j.toList = k.toList
        /\ j.status = k.status /\ j.then = "end"
    BY <2>2, <2>4, <1>a, <1>b, CloseMove DEF Continuations
  <2>6. j \in Job  BY <2>5, <1>b DEF TypeOK
  <2>7. StageInv("close", j)
    <3>1. Ending(j)  BY <2>1, <2>3, <2>5, <1>1 DEF Ending, Current, Due
    <3> QED BY <3>1, <2>1, <2>3, <2>5 DEF StageInv
  <2>8. StageInv("close", j)'  BY <2>6, <2>7, <1>a, QuietJob
  <2>9. Quiet(w)  BY <2>3, <2>5, <1>1, <1>a, <1>b DEF Quiet
  <2>10. Underway("close", j)  BY <2>5 DEF Underway
  <2> QED BY <2>5, <2>8, <2>9, <2>10, <1>b, QuietStep
<1>2. CASE SendingImpossible(w)
  <2>1. pc[w] \in {"open", "send"}  BY <1>2 DEF SendingImpossible
  <2>2. job[w].status \in SubtaskStatus /\ Cardinality(job[w].toList) \in Nat
    BY <2>1, OwnJob, JobType, LengthType
  <2> DEFINE status == FailWith(job[w].status, Cardinality(job[w].toList))
  <2>3. status \in SubtaskStatus  BY <2>2, StatusType
  <2>4. status.state \in ReadyStates /\ status.succeeded = job[w].status.succeeded
    BY <2>2, CountFields DEF ReadyStates
  <2>5. CloseThen(w, [job[w] EXCEPT !.status = status], "end")
    BY <1>2 DEF SendingImpossible
  <2> HIDE DEF status
  <2> QED BY <2>1, <2>3, <2>4, <2>5, <1>1
<1>3. CASE AllSent(w)
  <2>1. pc[w] \in {"open", "send"}  BY <1>3 DEF AllSent
  <2>2. job[w].status \in SubtaskStatus /\ 0 \in Nat  BY <2>1, OwnJob, JobType
  <2> DEFINE status == [job[w].status EXCEPT !.state = "SUCCESS"]
  <2>3. status \in SubtaskStatus  BY <2>2, StatusType
  <2>4. status.state \in ReadyStates /\ status.succeeded = job[w].status.succeeded
    BY <2>2, CountFields DEF ReadyStates
  <2>5. CloseThen(w, [job[w] EXCEPT !.status = status], "end")
    BY <1>3 DEF AllSent
  <2> HIDE DEF status
  <2> QED BY <2>1, <2>3, <2>4, <2>5, <1>1
<1>4. CASE CloseConnection(w)
  <2>1. pc[w] = "close"  BY <1>4 DEF CloseConnection
  <2>2. CASE job[w].then = "requeued"
    <3>1. Finish(w) /\ ~Underway(pc[w], job[w])
      BY <2>1, <2>2, <1>4 DEF CloseConnection, Underway
    <3> QED BY <3>1, <2>1, <1>a, FinishOnce
  <2>3. CASE job[w].then # "requeued"
    <3>1. SaveThen(w, job[w], job[w].status, "end")
      BY <2>3, <1>4 DEF CloseConnection
    <3>2. job[w] \in Job /\ job[w].status \in SubtaskStatus /\ Ending(job[w])
      BY <2>1, <2>3, OwnJob, JobType DEF StageInv
    <3>3. /\ OnlyMoves(w) /\ pc'[w] = "update"
          /\ j.id = job[w].id /\ j.toList = job[w].toList /\ j.status = job[w].status
          /\ j.then = "end" /\ j.depth = 0
      BY <3>1, <3>2, <1>a, <1>b, SaveMove DEF Continuations
    <3>4. j \in Job  BY <3>3, <1>b DEF TypeOK
    <3>5. Ending(j)  BY <3>2, <3>3 DEF Ending
    <3> QED BY <3>3, <3>4, <3>5, <2>1, <1>a, <1>b, SavingOnce
  <2> QED BY <2>2, <2>3
<1> QED BY <1>2, <1>3, <1>4

-----------------------------------------------------------------------------
(* Recording the outcome, and the steps after it                             *)

\* Recording the outcome makes every queued message of the subtask an older one.
LEMMA UpdateOnce ==
  ASSUME Sequential, TypeOK, OnceInv, TypeOK', NEW w \in Workers, UpdateSubtaskStatus(w)
  PROVE  OnceInv'
<1>1. PICK s, j : s = job[w].id /\ j = job[w]  OBVIOUS
<1>2. /\ pc[w] = "update" /\ entry' = RecordStatus(s, j.status)
      /\ UNCHANGED <<queue, sent, faults>>
  BY <1>1 DEF UpdateSubtaskStatus
<1>3. OnlyMoves(w) /\ pc'[w] = "release" /\ job'[w] = j
  BY <1>1, JobMove DEF UpdateSubtaskStatus, Release, TypeOK, WorkersOK
<1>4. /\ j \in Job /\ s \in SubtaskIds /\ j.id = s /\ StageInv("update", j)
      /\ j.status \in SubtaskStatus
  BY <1>1, <1>2, OwnJob, JobType
<1>5. /\ entry'.ids = entry.ids /\ entry'.status = [entry.status EXCEPT ![s] = j.status]
      /\ entry'.progress.valid = entry.progress.valid
  BY <1>2, <1>4, RecordFields DEF TypeOK
<1>6. entry \in Entry  BY DEF TypeOK
<1>7. entry'.status[s] = j.status  BY <1>4, <1>5, <1>6 DEF Entry
<1>8. Recorded(s)' = j.status /\ (Ready(s)' <=> j.status.state \in ReadyStates)
  BY <1>7 DEF Recorded, Ready
<1>9. WorkerOn(w, s)  BY <1>1, <1>2, <1>3, OwnSubtask DEF OnceInv
<1>10. Concerns(s)  BY <1>2, <1>5, <1>6 DEF Concerns, Entry, TypeOK, Faults
<1>11. j.status.state \in {"RETRY", "SUCCESS", "FAILURE"}
  BY <1>4 DEF StageInv, Ending, ReadyStates
<1>12. RowInv'
  <2>1. \A t \in SubtaskIds : entry'.status[t].state = "QUEUING" =>
          RetryCount(entry'.status[t]) = 0
    <3> SUFFICES ASSUME NEW t \in SubtaskIds, entry'.status[t].state = "QUEUING"
                 PROVE  RetryCount(entry'.status[t]) = 0
      OBVIOUS
    <3>1. t # s  BY <1>7, <1>11
    <3>2. entry'.status[t] = entry.status[t]  BY <3>1, <1>10 DEF Concerns
    <3> QED BY <3>2 DEF OnceInv, RowInv, Recorded
  <2> QED BY <2>1, <1>5 DEF OnceInv, RowInv, Recorded, RetryCount
<1>13. AtMostOnce'  BY <1>2 DEF OnceInv, AtMostOnce
<1>14. j.toList \subseteq Chunk[j.id]  BY <1>4 DEF StageInv
<1>15. MessagesOf(s)  BY <1>4 DEF OnceInv
<1>16. CASE j.status.state \in ReadyStates
  <2>1. Ready(s)'  BY <1>8, <1>16
  <2>2. j.then = "end"  BY <1>4, <1>16 DEF StageInv, ReadyStates
  <2>3. StageInv("release", j)'
    <3>1. Ready(j.id)'  BY <2>1, <1>4
    <3> QED BY <3>1, <2>2, <1>14 DEF StageInv
  <2>4. MessagesOf(s)'
    <3>1. \A st : ~IsValid(s, st)'  BY <2>1 DEF IsValid, Ready
    <3>2. ASSUME NEW m \in queue', m.id = s
          PROVE  m.toList \subseteq Chunk[s] /\ ~IsValid(s, m.status)'
      BY <3>1, <3>2, <1>2, <1>15 DEF MessagesOf
    <3> QED BY <3>2, <2>1 DEF MessagesOf
  <2> QED BY <2>3, <2>4, <1>3, <1>4, <1>9, <1>10, <1>12, <1>13, OnceStep
<1>17. CASE j.status.state \notin ReadyStates
  <2>1. /\ j.then = "retry" /\ j.status.state = "RETRY" /\ ~Ready(s)
        /\ RetryCount(j.status) = RetryCount(Recorded(s)) + 1
        /\ Due(j.id, j.toList, j.status)
    BY <1>4, <1>17 DEF StageInv, Ending
  <2>2. Due(j.id, j.toList, j.status)'  BY <2>1, <1>2 DEF Due, Unsent, Mailed
  <2>3. Recorded(s) \in SubtaskStatus  BY <1>4, <1>6 DEF Entry, Recorded
  <2>4. ASSUME NEW m \in queue', m.id = s
        PROVE  m.toList \subseteq Chunk[s] /\ RetryCount(m.status) < RetryCount(j.status)
    <3>1. /\ m \in queue /\ m.toList \subseteq Chunk[s]
          /\ RetryCount(m.status) <= RetryCount(Recorded(s))
      BY <2>1, <2>4, <1>2, <1>15 DEF MessagesOf
    <3>2. RetryCount(m.status) \in Nat /\ RetryCount(Recorded(s)) \in Nat
            /\ RetryCount(j.status) \in Nat
      BY <2>3, <3>1, <1>4, StatusType DEF TypeOK, Message
    <3> QED BY <3>1, <3>2, <2>1
  <2>5. StageInv("release", j)'
    <3>1. Recorded(j.id)' = j.status  BY <1>4, <1>8
    <3>2. RetryCount(Recorded(j.id))' = RetryCount(j.status)  BY <3>1 DEF RetryCount
    <3>3. AllOlder(j.id)'  BY <2>4, <3>1, <3>2, <1>4 DEF AllOlder
    <3>4. Requeuing(j)'  BY <2>1, <2>2, <3>1, <3>2, <3>3 DEF Requeuing
    <3> QED BY <2>1, <3>4, <1>14 DEF StageInv
  <2>6. MessagesOf(s)'
    <3>1. ASSUME NEW m \in queue', m.id = s
          PROVE  /\ m.toList \subseteq Chunk[s]
                 /\ RetryCount(m.status) <= RetryCount(Recorded(s)')
                 /\ ~IsValid(s, m.status)'
      <4>1. m.toList \subseteq Chunk[s] /\ RetryCount(m.status) < RetryCount(j.status)
        BY <2>4, <3>1
      <4>2. RetryCount(m.status) \in Nat /\ RetryCount(j.status) \in Nat
        BY <3>1, <1>2, <1>4, StatusType DEF TypeOK, Message
      <4>3. ~IsValid(s, m.status)'
        BY <4>1, <4>2, <2>1, <1>7 DEF IsValid
      <4> QED BY <4>1, <4>2, <4>3, <1>8
    <3> QED BY <3>1 DEF MessagesOf
  <2> QED BY <2>5, <2>6, <1>3, <1>4, <1>9, <1>10, <1>12, <1>13, OnceStep
<1> QED BY <1>16, <1>17

\* A failed save is tried again: the database fails less often than that.
LEMMA DatabaseErrorOnce ==
  ASSUME Sequential, TypeOK, OnceInv, TypeOK', NEW w \in Workers, UpdateDatabaseError(w)
  PROVE  OnceInv'
<1>1. PICK j : j = [job[w] EXCEPT !.depth = job[w].depth + 1]  OBVIOUS
<1>2. pc[w] = "update" /\ UNCHANGED <<entry, queue, sent>> /\ faults.db < MaxDbErrors
  BY DEF UpdateDatabaseError
<1>3. job[w] \in Job /\ StageInv("update", job[w])  BY <1>2, OwnJob
<1>4. /\ faults.db \in Nat /\ faults'.db = faults.db + 1
  BY DEF TypeOK, Faults, UpdateDatabaseError
<1>5. job[w].depth \in Nat /\ job[w].depth <= faults.db  BY <1>3, JobType DEF StageInv
<1>6. job[w].depth + 1 < MaxDbLockRetries
  BY <1>2, <1>4, <1>5, BoundsAssumption DEF Sequential
<1>7. SetJob(w, j) /\ UNCHANGED pc  BY <1>1, <1>6 DEF UpdateDatabaseError
<1>8. OnlyMoves(w) /\ pc'[w] = "update" /\ job'[w] = j
  BY <1>2, <1>7, SameStageMove DEF TypeOK, WorkersOK
<1>9. /\ j \in Job /\ j.id = job[w].id /\ j.toList = job[w].toList
      /\ j.status = job[w].status /\ j.then = job[w].then /\ j.depth = job[w].depth + 1
  BY <1>1, <1>3, <1>5, JobType, JobFields
<1>10. StageInv("update", j)'
  <2>1. /\ Ready(j.id)' <=> Ready(j.id)
        /\ RetryCount(Recorded(j.id))' = RetryCount(Recorded(j.id))
        /\ Due(j.id, j.toList, j.status)' <=> Due(j.id, j.toList, j.status)
        /\ Ending(j)' <=> Ending(j)
    BY <1>2 DEF Ready, Recorded, RetryCount, Due, Unsent, Mailed, Ending
  <2>2. /\ j.toList \subseteq Chunk[j.id]
        /\ \/ j.then = "end" /\ Ending(j)
           \/ /\ j.then = "retry" /\ j.status.state = "RETRY"
              /\ ~Ready(j.id)
              /\ RetryCount(j.status) = RetryCount(Recorded(j.id)) + 1
              /\ Due(j.id, j.toList, j.status)
    BY <1>3, <1>9 DEF StageInv, Ending
  <2>3. j.depth <= faults'.db  BY <1>4, <1>5, <1>9
  <2> QED BY <2>1, <2>2, <2>3 DEF StageInv
<1>11. Quiet(w)  BY <1>2, <1>4, <1>8, <1>9 DEF Quiet
<1>12. Underway("update", j)  BY DEF Underway
<1> QED BY <1>8, <1>10, <1>11, <1>12, QuietStep

\* Returning the lock, level by level, and going on.
LEMMA ReleaseOnce ==
  ASSUME Sequential, TypeOK, OnceInv, TypeOK', NEW w \in Workers, ReleaseSubtaskLock(w)
  PROVE  OnceInv'
<1>1. /\ pc[w] = "release" /\ UNCHANGED <<entry, queue, sent, faults>>
      /\ WorkersOK /\ faults.db \in Nat
  BY DEF ReleaseSubtaskLock, TypeOK, WorkersOK, Faults
<1>2. job[w] \in Job /\ StageInv("release", job[w])  BY <1>1, OwnJob
<1>3. job[w].then \in {"end", "retry"}  BY <1>2 DEF StageInv
<1>4. ~Underway("release", job[w])  BY DEF Underway
<1>5. CASE Outermost(job[w])
  <2>1. Continue(w)  BY <1>5 DEF ReleaseSubtaskLock
  <2>2. CASE job[w].then = "end"
    <3>1. Finish(w)  BY <2>1, <2>2 DEF Continue
    <3> QED BY <3>1, <1>1, <1>4, FinishOnce
  <2>3. CASE job[w].then = "retry"
    <3>1. Goto(w, "retry") /\ UNCHANGED job  BY <2>1, <2>3 DEF Continue
    <3>2. OnlyMoves(w) /\ pc'[w] = "retry" /\ job'[w] = job[w]  BY <3>1, <1>1, GotoMove
    <3>3. StageInv("retry", job[w])  BY <1>2, <2>3 DEF StageInv
    <3> QED BY <3>2, <3>3, <1>1, <1>4, SameJobOnce
  <2> QED BY <2>2, <2>3, <1>3
<1>6. CASE ~Outermost(job[w])
  <2>1. PICK j : j = [job[w] EXCEPT !.depth = job[w].depth - 1]  OBVIOUS
  <2>2. OnlyMoves(w) /\ pc'[w] = "release" /\ job'[w] = j
    BY <2>1, <1>1, <1>6, SameStageMove DEF ReleaseSubtaskLock
  <2>3. /\ j.id = job[w].id /\ j.toList = job[w].toList
        /\ j.status = job[w].status /\ j.then = job[w].then
    BY <2>1, <1>2, JobFields
  <2>4. j \in Job  BY <2>2 DEF TypeOK
  <2>5. StageInv("release", j)  BY <1>2, <2>3 DEF StageInv, Requeuing
  <2>6. StageInv("release", j)'  BY <2>4, <2>5, <1>1, QuietJob
  <2>7. Quiet(w)  BY <2>2, <2>3, <1>1 DEF Quiet
  <2> QED BY <2>2, <2>6, <2>7, <1>1, <1>4, QuietStep
<1> QED BY <1>5, <1>6

\* The retry is the one message that is let through, and lists those not yet mailed.
LEMMA RetryOnce ==
  ASSUME Sequential, TypeOK, OnceInv, TypeOK', NEW w \in Workers, Retry(w)
  PROVE  OnceInv'
<1>1. PICK s, k, n : s = job[w].id /\ k = job[w] /\ n = RetryMessage(job[w])  OBVIOUS
<1>2. /\ pc[w] = "retry" /\ queue' = queue \cup {n} /\ UNCHANGED <<entry, sent, faults>>
      /\ CloseThen(w, k, "requeued")
  BY <1>1 DEF Retry
<1>3. /\ k \in Job /\ s \in SubtaskIds /\ k.id = s /\ Requeuing(k)
      /\ k.toList \subseteq Chunk[s]
  BY <1>1, <1>2, OwnJob DEF StageInv
<1>4. n.id = s /\ n.toList = k.toList /\ n.status = k.status  BY <1>1, <1>3 DEF RetryMessage
<1>5. PICK j : j = job'[w]  OBVIOUS
<1>6. /\ OnlyMoves(w) /\ pc'[w] = "close" /\ j.id = s /\ j.toList = k.toList
      /\ j.then = "requeued" /\ j.status = k.status
  BY <1>2, <1>3, <1>5, CloseMove DEF TypeOK, WorkersOK, Continuations
<1>7. WorkerOn(w, s)  BY <1>1, <1>2, <1>5, <1>6, OwnSubtask DEF OnceInv
<1>8. Concerns(s)  BY <1>2, <1>4 DEF Concerns, TypeOK, Faults
<1>9. StageInv("close", j)'
  <2>1. Requeued(j)'
    BY <1>2, <1>3, <1>6 DEF Requeued, Requeuing, Due, Recorded, Mailed
  <2> QED BY <2>1, <1>3, <1>6 DEF StageInv
<1>10. RowInv'  BY <1>2 DEF OnceInv, RowInv, Recorded, RetryCount
<1>11. AtMostOnce'  BY <1>2 DEF OnceInv, AtMostOnce
<1>12. /\ Recorded(s).state = "RETRY" /\ RetryCount(k.status) = RetryCount(Recorded(s))
       /\ Due(s, k.toList, k.status) /\ AllOlder(s)
  BY <1>3 DEF Requeuing
<1>13. k.status \in SubtaskStatus /\ RetryCount(k.status) \in Nat
  BY <1>3, JobType, StatusType
<1>14. MessagesOf(s)'
  <2>1. ASSUME NEW m \in queue', m.id = s
        PROVE  /\ m.toList \subseteq Chunk[s]
               /\ RetryCount(m.status) <= RetryCount(Recorded(s)')
               /\ IsValid(s, m.status)' => Due(s, m.toList, m.status)'
    <3>1. Recorded(s)' = Recorded(s) /\ (IsValid(s, m.status)' <=> IsValid(s, m.status))
      BY <1>2 DEF Recorded, IsValid
    <3>2. CASE m = n
      <4>1. Due(s, m.toList, m.status)'
        BY <3>2, <1>2, <1>4, <1>12 DEF Due, Unsent, Mailed
      <4> QED BY <4>1, <3>1, <3>2, <1>3, <1>4, <1>12, <1>13
    <3>3. CASE m # n
      <4>1. m \in queue /\ m \in Message  BY <3>3, <1>2 DEF TypeOK
      <4>2. m.toList \subseteq Chunk[s]  BY <4>1, <2>1, <1>3 DEF OnceInv, MessagesOf
      <4>3. RetryCount(m.status) < RetryCount(Recorded(s))
        BY <4>1, <2>1, <1>12 DEF AllOlder
      <4>4. RetryCount(m.status) \in Nat  BY <4>1, StatusType DEF Message
      <4>5. ~IsValid(s, m.status)
        BY <4>3, <4>4, <1>12, <1>13 DEF IsValid, Recorded
      <4> QED BY <4>2, <4>3, <4>4, <4>5, <3>1, <1>12, <1>13
    <3> QED BY <3>2, <3>3
  <2> QED BY <2>1 DEF MessagesOf
<1> QED BY <1>3, <1>5, <1>6, <1>7, <1>8, <1>9, <1>10, <1>11, <1>14, OnceStep

-----------------------------------------------------------------------------
(* The theorem                                                               *)

\* Every step keeps the invariant.
LEMMA NextOnce ==
  ASSUME Sequential
  PROVE  TypeOK /\ OnceInv /\ [Next]_vars => OnceInv'
<1> SUFFICES ASSUME TypeOK, OnceInv, [Next]_vars PROVE OnceInv'  OBVIOUS
<1>a. TypeOK' /\ faults \in Faults  BY NextType DEF TypeOK
<1>1. ASSUME NEW w \in Workers, NEW m \in queue, Deliver(w, m) PROVE OnceInv'
  BY <1>1, StartOnce DEF Deliver
<1>2. ASSUME NEW w \in Workers, NEW m \in queue, Redeliver(w, m) PROVE OnceInv'
  <2>1. faults'.db = faults.db  BY <1>2, <1>a DEF Redeliver, Faults
  <2> QED BY <2>1, <1>2, StartOnce DEF Redeliver
<1>3. ASSUME NEW w \in Workers, Unexpected(w), pc[w] \in {"filter", "open", "close", "retry"},
             UNCHANGED <<entry, queue, sent, faults>>
      PROVE  OnceInv'
  BY <1>3, <1>a, UnexpectedOnce
<1>4. ASSUME NEW w \in Workers, Work(w) PROVE OnceInv'
  <2>1. CASE Sending(w)
    BY <2>1, <1>3, <1>a, FilterOnce, SendOnce, ErrorOnce, CloseOnce, CheckOnce
       DEF Sending, EmailMissing, CloseRaises
  <2>2. CASE Saving(w)
    BY <2>2, <1>3, <1>a, UpdateOnce, DatabaseErrorOnce, ReleaseOnce, RetryOnce
       DEF Saving, RetryRefused
  <2> QED BY <1>4, <2>1, <2>2, CheckOnce DEF Work
<1>5. ASSUME NEW w \in Workers PROVE ~Crash(w)
  BY <1>a DEF Crash, Faults, Sequential
<1>6. ASSUME UNCHANGED <<entry, queue, pc, job, sent, faults>> PROVE OnceInv'
  <2>1. ASSUME NEW w \in Workers PROVE StageInv(pc[w], job[w])'
    <3>1. PICK st, k : st = pc[w] /\ k = job[w]  OBVIOUS
    <3>2. StageInv(st, k)  BY <3>1 DEF OnceInv
    <3>3. StageInv(st, k)'
      <4>1. CASE st = "idle"  BY <4>1 DEF StageInv
      <4>2. CASE st # "idle"
        <5>1. k \in Job /\ faults.db \in Nat  BY <4>2, <3>1 DEF TypeOK, Faults
        <5> QED BY <5>1, <3>2, <1>6, QuietJob
      <4> QED BY <4>1, <4>2
    <3>4. pc'[w] = st /\ job'[w] = k  BY <3>1, <1>6
    <3> QED BY <3>3, <3>4, NextJob
  <2>2. \A s \in SubtaskIds : MessagesOf(s)'
    BY <1>6 DEF OnceInv, MessagesOf, Recorded, Ready, IsValid, Due, Unsent, Mailed,
                RetryCount, WorksOn, Underway
  <2> QED BY <2>1, <2>2, <1>6 DEF OnceInv, AtMostOnce, RowInv, Alone, Recorded, RetryCount
<1> QED
  BY <1>1, <1>2, <1>4, <1>5, <1>6 DEF Next, LockExpires, OptOut, vars

\* No recipient of a bulk email is mailed twice, whatever is redelivered, refused,
\* retried or saved late, when the deliveries of one subtask follow one another
\* (check_subtask_is_valid, update_subtask_status, _submit_for_retry).
THEOREM NobodyMailedTwice ==
  ASSUME Sequential
  PROVE  Spec => []AtMostOnce
<1>1. Init => OnceInv                               BY InitOnce
<1>2. TypeOK /\ OnceInv /\ [Next]_vars => OnceInv'  BY NextOnce
<1>3. OnceInv => AtMostOnce                         BY DEF OnceInv
<1> QED BY <1>1, <1>2, <1>3, TypeCorrect, PTL DEF Spec

-----------------------------------------------------------------------------
(* The ledger of the row and the abstract delivery.  Only two steps are      *)
(* visible in the row and the mails: a message that the server accepts, and  *)
(* the recording of an outcome.  OnceInv says what each of the two meets;    *)
(* the invariant added here is the row's ledger.                             *)

\* The subtasks whose recorded state is `state`.
With(state) == {s \in SubtaskIds : entry.status[s].state = state}

\* Those mailed whose subtask has been closed.
MailedInClosed == {r \in Recipients : sent[r] > 0 /\ \E s \in entry.ids : Ready(s) /\ r \in Chunk[s]}

\* The row's counters, state and progress are those of the recorded statuses.
LedgerInv ==
  /\ entry.succeeded = Cardinality(With("SUCCESS"))
  /\ entry.failed = Cardinality(With("FAILURE"))
  /\ entry.state = IF SubtaskIds # {} /\ \A s \in SubtaskIds : Ready(s)
                     THEN "SUCCESS" ELSE "PROGRESS"
  /\ ProgressExact

-----------------------------------------------------------------------------
(* The visible steps                                                         *)

\* Every other step leaves the row and the mails alone.
LEMMA VisibleSteps ==
  ASSUME [Next]_vars
  PROVE  \/ \E w \in Workers, r \in Recipients : SendMessage(w, r)
         \/ \E w \in Workers : UpdateSubtaskStatus(w)
         \/ UNCHANGED <<entry, sent>>
<1>1. ASSUME NEW w \in Workers, Sending(w)
      PROVE  (\E r \in Recipients : SendMessage(w, r)) \/ UNCHANGED <<entry, sent>>
  BY <1>1 DEF Sending, FilterOptouts, EmailMissing, OpenConnection, RecipientRefused, Throttled,
              Disconnected, SendingImpossible, AllSent, CloseConnection, CloseRaises
<1>2. ASSUME NEW w \in Workers, Saving(w)
      PROVE  UpdateSubtaskStatus(w) \/ UNCHANGED <<entry, sent>>
  BY <1>2 DEF Saving, UpdateDatabaseError, ReleaseSubtaskLock, Retry, RetryRefused
<1>3. ASSUME NEW w \in Workers, NEW m \in queue, Deliver(w, m) \/ Redeliver(w, m)
      PROVE  UNCHANGED <<entry, sent>>
  BY <1>3 DEF Deliver, Redeliver, Start
<1> QED
  BY <1>1, <1>2, <1>3
     DEF Next, Work, CheckSubtaskIsValid, AcquireSubtaskLock, Crash, LockExpires, OptOut, vars

\* A mail goes to somebody not mailed before, of a subtask that is not closed.
LEMMA SendVisible ==
  ASSUME TypeOK, OnceInv, NEW w \in Workers, NEW r \in Recipients, SendMessage(w, r)
  PROVE  \E s \in SubtaskIds :
           /\ ~Ready(s) /\ r \in Chunk[s] /\ sent[r] = 0
           /\ sent' = [sent EXCEPT ![r] = 1] /\ UNCHANGED entry
<1>1. /\ pc[w] = "send" /\ r \in job[w].toList /\ UNCHANGED entry
      /\ sent' = [sent EXCEPT ![r] = sent[r] + 1]
  BY DEF SendMessage
<1>2. job[w].id \in SubtaskIds /\ StageInv("send", job[w])  BY <1>1, OwnJob
<1>3. ~Ready(job[w].id) /\ r \in Chunk[job[w].id] /\ sent[r] = 0
  BY <1>1, <1>2 DEF StageInv, Current, Due, Unsent
<1> QED BY <1>1, <1>2, <1>3

\* An outcome is recorded of a subtask that is not closed; it is a retry, or it is
\* final and counts exactly the mails of the subtask.
LEMMA UpdateVisible ==
  ASSUME TypeOK, OnceInv, NEW w \in Workers, UpdateSubtaskStatus(w)
  PROVE  \E s \in SubtaskIds, status \in SubtaskStatus :
           /\ ~Ready(s) /\ entry' = RecordStatus(s, status) /\ UNCHANGED sent
           /\ \/ status.state = "RETRY"
              \/ status.state \in ReadyStates /\ status.succeeded = Mailed(s)
<1>1. /\ pc[w] = "update" /\ entry' = RecordStatus(job[w].id, job[w].status)
      /\ UNCHANGED sent
  BY DEF UpdateSubtaskStatus
<1>2. /\ job[w].id \in SubtaskIds /\ job[w].status \in SubtaskStatus
      /\ StageInv("update", job[w])
  BY <1>1, OwnJob, JobType
<1>3. /\ ~Ready(job[w].id)
      /\ \/ job[w].status.state = "RETRY"
         \/ /\ job[w].status.state \in ReadyStates
            /\ job[w].status.succeeded = Mailed(job[w].id)
  BY <1>2 DEF StageInv, Ending
<1> QED BY <1>1, <1>2, <1>3

-----------------------------------------------------------------------------
(* The ledger                                                                *)

\* Two disjoint sets of subtasks that add up to their number are all of them.
LEMMA AllOfThem ==
  ASSUME NEW S \in SUBSET SubtaskIds, NEW F \in SUBSET SubtaskIds, S \cap F = {}
  PROVE  /\ Cardinality(S) \in Nat /\ Cardinality(F) \in Nat
         /\ Cardinality(SubtaskIds) - Cardinality(S) - Cardinality(F) <= 0
              <=> S \cup F = SubtaskIds
<1>1. /\ IsFiniteSet(S) /\ IsFiniteSet(F) /\ Cardinality(S) \in Nat /\ Cardinality(F) \in Nat
      /\ Cardinality(SubtaskIds) \in Nat
  BY SubtaskIdsAssumption, FS_Subset, FS_CardinalityType
<1>2. Cardinality(S \cup F) = Cardinality(S) + Cardinality(F)
  <2>1. Cardinality(S \cap F) = 0  BY FS_EmptySet
  <2>2. Cardinality(S \cup F) = Cardinality(S) + Cardinality(F) - Cardinality(S \cap F)
    BY <1>1, FS_Union
  <2> QED BY <2>1, <2>2, <1>1
<1>3. /\ Cardinality(S \cup F) <= Cardinality(SubtaskIds)
      /\ Cardinality(S \cup F) = Cardinality(SubtaskIds) => S \cup F = SubtaskIds
  BY SubtaskIdsAssumption, FS_Subset
<1>4. S \cup F = SubtaskIds => Cardinality(S \cup F) = Cardinality(SubtaskIds)  OBVIOUS
<1> DEFINE a == Cardinality(S)
           b == Cardinality(F)
           n == Cardinality(SubtaskIds)
<1>5. a \in Nat /\ b \in Nat /\ n \in Nat /\ a + b <= n /\ (a + b = n <=> S \cup F = SubtaskIds)
  BY <1>1, <1>2, <1>3, <1>4
<1> HIDE DEF a, b, n
<1>6. n - a - b <= 0 <=> a + b = n  BY <1>5
<1> QED BY <1>5, <1>6 DEF a, b, n

\* A closed subtask joins those of its state, and nothing else changes.
LEMMA WithUpdated ==
  ASSUME TypeOK, NEW s \in SubtaskIds, NEW status, ~Ready(s), NEW state \in ReadyStates,
         entry'.status = [entry.status EXCEPT ![s] = status]
  PROVE  Cardinality(With(state)') =
           Cardinality(With(state)) + (IF status.state = state THEN 1 ELSE 0)
<1>1. entry.status \in [SubtaskIds -> SubtaskStatus]  BY DEF TypeOK, Entry
<1>2. s \notin With(state)  BY DEF With, Ready
<1>3. IsFiniteSet(With(state)) /\ Cardinality(With(state)) \in Nat
  BY SubtaskIdsAssumption, FS_Subset, FS_CardinalityType DEF With
<1>4. \A t \in SubtaskIds : entry'.status[t] = IF t = s THEN status ELSE entry.status[t]
  BY <1>1
<1>5. CASE status.state = state
  <2>1. With(state)' = With(state) \cup {s}  BY <1>4, <1>5 DEF With
  <2> QED BY <2>1, <1>2, <1>3, <1>5, FS_AddElement
<1>6. CASE status.state # state
  <2>1. With(state)' = With(state)  BY <1>2, <1>4, <1>6 DEF With
  <2> QED BY <2>1, <1>3, <1>6
<1> QED BY <1>5, <1>6

\* At the start nothing is closed and nobody mailed.
LEMMA InitLedger == Init => LedgerInv
<1> SUFFICES ASSUME Init PROVE LedgerInv  OBVIOUS
<1>1. /\ entry.ids = SubtaskIds /\ entry.succeeded = 0 /\ entry.failed = 0
      /\ entry.state = "PROGRESS" /\ entry.progress.succeeded = 0
      /\ \A s \in SubtaskIds : entry.status[s].state = "QUEUING"
  BY DEF Init, InitializeSubtaskInfo, ZeroProgress, NoProgress, NewStatus
<1>2. With("SUCCESS") = {} /\ With("FAILURE") = {}  BY <1>1 DEF With
<1>3. {r \in Recipients : sent[r] > 0 /\ \E s \in entry.ids : Ready(s) /\ r \in Chunk[s]} = {}
  BY <1>1 DEF Ready, ReadyStates
<1> QED BY <1>1, <1>2, <1>3, FS_EmptySet DEF LedgerInv, ProgressExact, Ready, ReadyStates

\* Recording an outcome keeps the ledger.
LEMMA UpdateLedger ==
  ASSUME Sequential, TypeOK, TypeOK', OnceInv, LedgerInv,
         NEW s \in SubtaskIds, NEW status \in SubtaskStatus, ~Ready(s),
         entry' = RecordStatus(s, status), UNCHANGED sent,
         \/ status.state = "RETRY"
         \/ status.state \in ReadyStates /\ status.succeeded = Mailed(s)
  PROVE  LedgerInv'
<1> DEFINE succeeded == entry.succeeded + (IF status.state = "SUCCESS" THEN 1 ELSE 0)
           failed    == entry.failed + (IF status.state = "FAILURE" THEN 1 ELSE 0)
<1>1. entry \in Entry /\ entry.ids = SubtaskIds  BY DEF TypeOK, OnceInv, RowInv
<1>2. /\ entry'.ids = SubtaskIds
      /\ entry'.status = [entry.status EXCEPT ![s] = status]
      /\ entry'.succeeded = succeeded /\ entry'.failed = failed
      /\ entry'.state = IF AllDone(succeeded, failed) THEN "SUCCESS" ELSE entry.state
      /\ entry'.progress.succeeded = entry.progress.succeeded
           + (IF status.state \in ReadyStates THEN status.succeeded ELSE 0)
  BY <1>1, RecordFields
<1>3. /\ succeeded = Cardinality(With("SUCCESS")')
      /\ failed = Cardinality(With("FAILURE")')
  BY <1>2, WithUpdated DEF LedgerInv, ReadyStates
<1>4. AllDone(succeeded, failed) <=> \A t \in SubtaskIds : Ready(t)'
  <2> DEFINE S == With("SUCCESS")'
             F == With("FAILURE")'
  <2>1. S \in SUBSET SubtaskIds /\ F \in SUBSET SubtaskIds /\ S \cap F = {}  BY DEF With
  <2>2. S \cup F = SubtaskIds <=> \A t \in SubtaskIds : Ready(t)'
    BY DEF With, Ready, ReadyStates
  <2> HIDE DEF succeeded, failed, S, F
  <2>3. Cardinality(SubtaskIds) - Cardinality(S) - Cardinality(F) <= 0 <=> S \cup F = SubtaskIds
    BY <2>1, AllOfThem
  <2>4. succeeded = Cardinality(S) /\ failed = Cardinality(F)  BY <1>3 DEF S, F
  <2> QED BY <2>2, <2>3, <2>4, <1>1 DEF AllDone
<1>5. entry.state = "PROGRESS"  BY DEF LedgerInv
<1>6. entry'.state = IF SubtaskIds # {} /\ \A t \in SubtaskIds : Ready(t)'
                       THEN "SUCCESS" ELSE "PROGRESS"
  <2> HIDE DEF succeeded, failed
  <2> QED BY <1>2, <1>4, <1>5
<1>7. entry.status \in [SubtaskIds -> SubtaskStatus]  BY <1>1 DEF Entry
<1>8. \A t \in SubtaskIds : Ready(t)' <=> IF t = s THEN status.state \in ReadyStates ELSE Ready(t)
  BY <1>2, <1>7 DEF Ready
<1>9. /\ \A t \in SubtaskIds : Chunk[t] \in SUBSET Recipients
      /\ \A t \in SubtaskIds \ {s} : Chunk[t] \cap Chunk[s] = {}
  BY ChunkAssumption DEF Sequential
<1>10. ProgressExact'
  <2> DEFINE old == {r \in Recipients : sent[r] > 0 /\ \E t \in SubtaskIds : Ready(t) /\ r \in Chunk[t]}
             now == {r \in Recipients : sent[r] > 0 /\ \E t \in SubtaskIds : Ready(t)' /\ r \in Chunk[t]}
             own == {r \in Chunk[s] : sent[r] > 0}
  <2>1. entry.progress.succeeded = Cardinality(old)  BY <1>1 DEF LedgerInv, ProgressExact
  <2>2. IsFiniteSet(old) /\ IsFiniteSet(own) /\ Cardinality(old) \in Nat /\ Cardinality(own) \in Nat
    <3>1. old \in SUBSET Recipients /\ own \in SUBSET Recipients  BY <1>9
    <3> QED BY <3>1, RecipientsAssumption, FS_Subset, FS_CardinalityType
  <2>3. CASE status.state \in ReadyStates
    <3>1. status.succeeded = Cardinality(own)  BY <2>3 DEF ReadyStates, Mailed
    <3>2. now = old \cup own  BY <2>3, <1>8, <1>9
    <3>3. old \cap own = {}  BY <1>9
    <3>4. Cardinality(now) = Cardinality(old) + Cardinality(own)
      <4> HIDE DEF old, own, now
      <4>1. Cardinality(old \cap own) = 0  BY <3>3, FS_EmptySet
      <4>2. Cardinality(old \cup own)
              = Cardinality(old) + Cardinality(own) - Cardinality(old \cap own)
        BY <2>2, FS_Union
      <4> QED BY <4>1, <4>2, <3>2, <2>2
    <3>5. entry'.progress.succeeded = Cardinality(now)  BY <2>1, <2>3, <3>1, <3>4, <1>2
    <3> QED BY <3>5, <1>2 DEF ProgressExact
  <2>4. CASE status.state \notin ReadyStates
    <3>1. now = old  BY <2>4, <1>8
    <3>2. entry'.progress.succeeded = entry.progress.succeeded + 0  BY <2>4, <1>2
    <3>3. entry'.progress.succeeded = Cardinality(now)
      <4> HIDE DEF old, now
      <4> QED BY <2>1, <2>2, <3>1, <3>2
    <3> QED BY <3>3, <1>2 DEF ProgressExact
  <2> QED BY <2>3, <2>4
<1> QED BY <1>2, <1>3, <1>6, <1>10 DEF LedgerInv

\* So does a mail: its subtask is still open.
LEMMA SendLedger ==
  ASSUME Sequential, TypeOK, OnceInv, LedgerInv, UNCHANGED entry,
         NEW s \in SubtaskIds, ~Ready(s), NEW r \in Chunk[s], sent' = [sent EXCEPT ![r] = 1]
  PROVE  LedgerInv'
<1>1. sent \in [Recipients -> Nat] /\ entry.ids = SubtaskIds  BY DEF TypeOK, OnceInv, RowInv
<1>2. \A t \in SubtaskIds : (Ready(t)' <=> Ready(t)) /\ (Ready(t) => r \notin Chunk[t])
  BY DEF Ready, Sequential
<1>3. \A q \in Recipients \ {r} : sent'[q] = sent[q]  BY <1>1
<1>4. {q \in Recipients : sent'[q] > 0 /\ \E t \in SubtaskIds : Ready(t)' /\ q \in Chunk[t]}
        = {q \in Recipients : sent[q] > 0 /\ \E t \in SubtaskIds : Ready(t) /\ q \in Chunk[t]}
  BY <1>2, <1>3
<1>5. ProgressExact'  BY <1>1, <1>4 DEF LedgerInv, ProgressExact
<1>6. \A state : With(state)' = With(state)  BY DEF With
<1> QED BY <1>2, <1>5, <1>6 DEF LedgerInv

\* Every step keeps the ledger.
LEMMA NextLedger ==
  ASSUME Sequential
  PROVE  TypeOK /\ TypeOK' /\ OnceInv /\ LedgerInv /\ [Next]_vars => LedgerInv'
<1> SUFFICES ASSUME TypeOK, TypeOK', OnceInv, LedgerInv, [Next]_vars PROVE LedgerInv'
  OBVIOUS
<1>1. ASSUME NEW w \in Workers, NEW r \in Recipients, SendMessage(w, r) PROVE LedgerInv'
  BY <1>1, SendVisible, SendLedger
<1>2. ASSUME NEW w \in Workers, UpdateSubtaskStatus(w) PROVE LedgerInv'
  BY <1>2, UpdateVisible, UpdateLedger
<1>3. ASSUME UNCHANGED <<entry, sent>> PROVE LedgerInv'
  BY <1>3 DEF LedgerInv, ProgressExact, With, Ready
<1> QED BY <1>1, <1>2, <1>3, VisibleSteps

\* The ledger is kept for ever.
LEMMA LedgerKept ==
  ASSUME Sequential
  PROVE  Spec => [](TypeOK /\ OnceInv /\ LedgerInv)
<1>1. Init => OnceInv /\ LedgerInv  BY InitOnce, InitLedger
<1>2. TypeOK /\ TypeOK' /\ OnceInv /\ LedgerInv /\ [Next]_vars => OnceInv' /\ LedgerInv'
  BY NextOnce, NextLedger
<1> QED BY <1>1, <1>2, TypeCorrect, PTL DEF Spec

\* The counters by which the row decides its completion, and its state, agree with the
\* recorded statuses: no subtask is counted twice, and the email is finished exactly
\* when all its subtasks are (_update_subtask_status).
THEOREM LedgerTrue ==
  ASSUME Sequential
  PROVE  Spec => []LedgerAgrees
<1>1. OnceInv /\ LedgerInv => LedgerAgrees
  BY DEF OnceInv, RowInv, LedgerInv, With, LedgerAgrees
<1> QED BY <1>1, LedgerKept, PTL

\* The successes shown to the instructor are exactly the recipients of the finished
\* subtasks that the mail server has accepted (_update_subtask_status).
THEOREM ProgressTrue ==
  ASSUME Sequential
  PROVE  Spec => []ProgressExact
<1>1. LedgerInv => ProgressExact  BY DEF LedgerInv
<1> QED BY <1>1, LedgerKept, PTL

-----------------------------------------------------------------------------
(* The refinement                                                            *)

\* The subtasks that count as closed in EmailDelivery.
ClosedOnes == {s \in SubtaskIds : Closed(s)}

\* The email has succeeded when all subtasks are closed.
LEMMA DoneWhenClosed ==
  ASSUME OnceInv, LedgerInv, SubtaskIds # {}
  PROVE  (entry.state = "SUCCESS") = (ClosedOnes = SubtaskIds)
<1>1. ClosedOnes = SubtaskIds <=> \A s \in SubtaskIds : Ready(s)
  BY DEF ClosedOnes, Closed, OnceInv, RowInv
<1> QED BY <1>1 DEF LedgerInv

\* The initialised row is an email of which nothing is mailed, closed or done.
LEMMA InitDelivery == Init => Delivery!Init
<1> SUFFICES ASSUME Init PROVE Delivery!Init  OBVIOUS
<1>1. sent = [r \in Recipients |-> 0] /\ entry.state = "PROGRESS"
  BY DEF Init, InitializeSubtaskInfo
<1>2. {s \in SubtaskIds : Closed(s)} = {}
  BY DEF Init, InitializeSubtaskInfo, NewStatus, Closed, Ready, ReadyStates
<1> QED BY <1>1, <1>2 DEF Delivery!Init

\* A mail accepted by the server is a mail of the abstract email.
LEMMA SendDelivery ==
  ASSUME TypeOK, OnceInv, NEW w \in Workers, NEW r \in Recipients, SendMessage(w, r)
  PROVE  Delivery!Mail(r)
<1>1. PICK s \in SubtaskIds :
        /\ ~Ready(s) /\ r \in Chunk[s] /\ sent[r] = 0
        /\ sent' = [sent EXCEPT ![r] = 1] /\ UNCHANGED entry
  BY SendVisible
<1>2. s \in SubtaskIds \ {t \in SubtaskIds : Closed(t)}  BY <1>1 DEF Closed
<1>3. {t \in SubtaskIds : Closed(t)}' = {t \in SubtaskIds : Closed(t)}
  BY <1>1 DEF Closed, Ready
<1> QED BY <1>1, <1>2, <1>3 DEF Delivery!Mail

\* The recording of a final outcome closes one subtask; that of a retry is not seen.
LEMMA UpdateDelivery ==
  ASSUME TypeOK, OnceInv, LedgerInv, OnceInv', LedgerInv',
         NEW w \in Workers, UpdateSubtaskStatus(w)
  PROVE  (\E s \in SubtaskIds : Delivery!Close(s)) \/ UNCHANGED Delivery!vars
<1>1. PICK s \in SubtaskIds, status \in SubtaskStatus :
        /\ ~Ready(s) /\ entry' = RecordStatus(s, status) /\ UNCHANGED sent
        /\ \/ status.state = "RETRY"
           \/ status.state \in ReadyStates /\ status.succeeded = Mailed(s)
  BY UpdateVisible
<1>2. entry \in Entry /\ entry.ids = SubtaskIds /\ entry'.ids = SubtaskIds
  BY DEF TypeOK, OnceInv, RowInv
<1>3. entry'.status = [entry.status EXCEPT ![s] = status]  BY <1>1, <1>2, RecordFields
<1>4. \A t \in SubtaskIds : Ready(t)' <=> IF t = s THEN status.state \in ReadyStates ELSE Ready(t)
  BY <1>2, <1>3 DEF Ready, Entry
<1>5. (entry.state = "SUCCESS") = (ClosedOnes = SubtaskIds)  BY DoneWhenClosed
<1>6. (entry'.state = "SUCCESS") = (ClosedOnes' = SubtaskIds)
  <2>1. ClosedOnes' = SubtaskIds <=> \A t \in SubtaskIds : Ready(t)'
    BY <1>2 DEF ClosedOnes, Closed
  <2> QED BY <2>1, <1>1 DEF LedgerInv
<1>7. CASE status.state \in ReadyStates
  <2>1. s \notin ClosedOnes /\ ClosedOnes' = ClosedOnes \cup {s}
    BY <1>1, <1>2, <1>4, <1>7 DEF ClosedOnes, Closed
  <2>2. Delivery!Close(s)
    BY <2>1, <1>1, <1>6 DEF Delivery!Close, ClosedOnes
  <2> QED BY <2>2
<1>8. CASE status.state \notin ReadyStates
  <2>1. ClosedOnes' = ClosedOnes
    BY <1>1, <1>2, <1>4, <1>8 DEF ClosedOnes, Closed
  <2>2. (entry'.state = "SUCCESS") = (entry.state = "SUCCESS")  BY <2>1, <1>5, <1>6
  <2> QED BY <2>1, <2>2, <1>1 DEF Delivery!vars, ClosedOnes
<1> QED BY <1>7, <1>8

\* Every step of the workers is a step of the abstract email, or is not seen.
LEMMA NextDelivery ==
  ASSUME TypeOK, OnceInv, LedgerInv, OnceInv', LedgerInv', [Next]_vars
  PROVE  [Delivery!Next]_(Delivery!vars)
<1>1. ASSUME NEW w \in Workers, NEW r \in Recipients, SendMessage(w, r)
      PROVE  Delivery!Next
  BY <1>1, SendDelivery DEF Delivery!Next
<1>2. ASSUME NEW w \in Workers, UpdateSubtaskStatus(w)
      PROVE  Delivery!Next \/ UNCHANGED Delivery!vars
  BY <1>2, UpdateDelivery DEF Delivery!Next
<1>3. ASSUME UNCHANGED <<entry, sent>> PROVE UNCHANGED Delivery!vars
  BY <1>3 DEF Delivery!vars, Closed, Ready
<1> QED BY <1>1, <1>2, <1>3, VisibleSteps

\* The workers, the lock, the retries and the row implement EmailDelivery: a recipient
\* is mailed at most once and only while the subtask is open, a subtask is closed once,
\* and the email is done when the last one is (subtasks.py, bulk_email/tasks.py).
THEOREM DeliveryImplemented ==
  ASSUME Sequential
  PROVE  Spec => ImplementsDelivery
<1>1. Init => Delivery!Init  BY InitDelivery
<1>2. TypeOK /\ OnceInv /\ LedgerInv /\ OnceInv' /\ LedgerInv' /\ [Next]_vars
        => [Delivery!Next]_(Delivery!vars)
  BY NextDelivery
<1> QED BY <1>1, <1>2, LedgerKept, PTL DEF Spec, ImplementsDelivery, Delivery!Spec
=============================================================================
