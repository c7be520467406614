----------------------- MODULE InstructorTasksProofs -----------------------
(* Theorems about InstructorTasks, for every set of keys and of requests and *)
(* every value of the bounds.                                                *)
EXTENDS InstructorTasks, TLAPS

-----------------------------------------------------------------------------
(* What the requests remember.                                               *)

\* The requests carry what their operation needs, and rows they have read.
ReqOK ==
  /\ req = [r \in Requests |-> req[r]]
  /\ \A r \in Requests :
       /\ req[r].op = "checked" => req[r].key \in Keys
       /\ req[r].op = "created" => req[r].task \in Tasks
       /\ req[r].op \in {"read", "state"} => req[r].task \in Tasks /\ req[r].copy \in Rows
       /\ req[r].op = "state" => req[r].state \in READY_STATES \cup {"PENDING", "PROGRESS"}

TypeInv == TypeOK /\ ReqOK

\* Giving a request something to remember changes no other request.
LEMMA ReqUpdate ==
  ASSUME req = [r \in Requests |-> req[r]], NEW r \in Requests, NEW x
  PROVE  LET new == [req EXCEPT ![r] = x] IN
           /\ new = [q \in Requests |-> new[q]]
           /\ new[r] = x
           /\ \A q \in Requests \ {r} : new[q] = req[q]
OBVIOUS

\* The table is empty and nobody is at work in the initial state.
LEMMA TypeInit == Init => TypeInv
<1> SUFFICES ASSUME Init PROVE TypeInv
  OBVIOUS
<1>1. (CHOOSE k \in Keys : TRUE) \in Keys  BY KeyAssumption
<1>2. TypeOK
  BY <1>1 DEF Init, TypeOK, Rows, States, READY_STATES, Idle
<1>3. ReqOK  BY DEF Init, ReqOK, Idle
<1> QED BY <1>2, <1>3 DEF TypeInv
\* Changing the state of a row, or storing its subtasks, gives a row.
LEMMA RowUpdate ==
  ASSUME NEW copy \in Rows
  PROVE  /\ \A state \in States : [copy EXCEPT !.task_state = state] \in Rows
         /\ [copy EXCEPT !.task_state = "PROGRESS", !.subtasks = TRUE] \in Rows
BY DEF Rows, States

\* The steps of the tasks change rows, results and runs within their types.
LEMMA WorkType ==
  ASSUME TypeInv, NEW t \in Tasks, Work(t) \/ Raise(t) \/ Die(t) \/ Revoke(t)
  PROVE  TypeInv'
<1>1. /\ row \in [Tasks -> Rows] /\ row[t] \in Rows
      /\ result \in [Tasks -> READY_STATES \cup {"PENDING", "PROGRESS"}]
      /\ run \in [Tasks -> {"none", "queued", "working", "returned", "raised", "over", "dead"}]
      /\ delegated \subseteq Tasks /\ done \subseteq Tasks /\ raced \subseteq Keys
  BY DEF TypeInv, TypeOK
<1>2. UNCHANGED <<req, raced>>
  BY DEF Work, Execute, Start, ReportProgress, DefineSubtasks, QueueLast, Return, OnSuccess, OnFailure,
         FinishSubtasks, Raise, Die, Revoke
<1>3. ReqOK'
  BY <1>2 DEF TypeInv, ReqOK
<1>4. \A r \in Requests : (req[r].op \in {"idle", "checked", "created", "read", "state"})'
  BY <1>2 DEF TypeInv, TypeOK
<1>5. (row \in [Tasks -> Rows])'
  <2>1. CASE row' = [row EXCEPT ![t].task_state = "PROGRESS", ![t].subtasks = TRUE]
    <3>1. row' = [row EXCEPT ![t] = [row[t] EXCEPT !.task_state = "PROGRESS", !.subtasks = TRUE]]
      BY <2>1, <1>1
    <3> QED BY <3>1, <1>1, RowUpdate
  <2>2. CASE \E state \in States : row' = [row EXCEPT ![t].task_state = state]
    <3>1. PICK state \in States : row' = [row EXCEPT ![t] = [row[t] EXCEPT !.task_state = state]]
      BY <2>2, <1>1
    <3> QED BY <3>1, <1>1, RowUpdate
  <2>3. CASE row' = row
    BY <2>3, <1>1
  <2> QED
    BY <2>1, <2>2, <2>3 DEF Work, Execute, Start, ReportProgress, DefineSubtasks, QueueLast, Return, OnSuccess,
       OnFailure, FinishSubtasks, Raise, Die, Revoke, States, READY_STATES
<1>6. (result \in [Tasks -> READY_STATES \cup {"PENDING", "PROGRESS"}])'
  BY <1>1 DEF Work, Execute, Start, ReportProgress, DefineSubtasks, QueueLast, Return, OnSuccess, OnFailure,
     FinishSubtasks, Raise, Die, Revoke, READY_STATES
<1>7. (run \in [Tasks -> {"none", "queued", "working", "returned", "raised", "over", "dead"}])'
  BY <1>1 DEF Work, Execute, Start, ReportProgress, DefineSubtasks, QueueLast, Return, OnSuccess, OnFailure,
     FinishSubtasks, Raise, Die, Revoke
<1>8. (delegated \subseteq Tasks /\ done \subseteq Tasks)'
  BY <1>1 DEF Work, Execute, Start, ReportProgress, DefineSubtasks, QueueLast, Return, OnSuccess, OnFailure,
     FinishSubtasks, Raise, Die, Revoke
<1> QED BY <1>1, <1>2, <1>3, <1>4, <1>5, <1>6, <1>7, <1>8 DEF TypeInv, TypeOK

\* A request that remembers something well-formed leaves TypeInv intact.
LEMMA RequestType ==
  ASSUME TypeInv, NEW r \in Requests, NEW x,
         req' = [req EXCEPT ![r] = x],
         x.op \in {"idle", "checked", "created", "read", "state"},
         x.op = "checked" => x.key \in Keys,
         x.op = "created" => x.task \in Tasks,
         x.op \in {"read", "state"} => x.task \in Tasks /\ x.copy \in Rows,
         x.op = "state" => x.state \in READY_STATES \cup {"PENDING", "PROGRESS"},
         (row \in [Tasks -> Rows])',
         (run \in [Tasks -> {"none", "queued", "working", "returned", "raised", "over", "dead"}])',
         (raced \subseteq Keys)', UNCHANGED <<result, delegated, done>>
  PROVE  TypeInv'
<1>1. req = [q \in Requests |-> req[q]]  BY DEF TypeInv, ReqOK
<1>2. /\ req' = [q \in Requests |-> req'[q]]
      /\ req'[r] = x
      /\ \A q \in Requests \ {r} : req'[q] = req[q]
  BY <1>1, ReqUpdate
<1>3. TypeOK'
  <2>1. \A q \in Requests : req'[q].op \in {"idle", "checked", "created", "read", "state"}
    BY <1>2 DEF TypeInv, TypeOK
  <2>2. /\ (result \in [Tasks -> READY_STATES \cup {"PENDING", "PROGRESS"}])'
        /\ (delegated \subseteq Tasks)' /\ (done \subseteq Tasks)'
    BY DEF TypeInv, TypeOK
  <2> QED BY <2>1, <2>2 DEF TypeOK
<1>4. ReqOK'
  <2> SUFFICES ASSUME NEW q \in Requests
               PROVE  /\ req'[q].op = "checked" => req'[q].key \in Keys
                      /\ req'[q].op = "created" => req'[q].task \in Tasks
                      /\ req'[q].op \in {"read", "state"} => req'[q].task \in Tasks /\ req'[q].copy \in Rows
                      /\ req'[q].op = "state" => req'[q].state \in READY_STATES \cup {"PENDING", "PROGRESS"}
    BY <1>2 DEF ReqOK
  <2>1. CASE q = r  BY <2>1, <1>2
  <2>2. CASE q # r  BY <2>2, <1>2 DEF TypeInv, ReqOK
  <2> QED BY <2>1, <2>2
<1> QED BY <1>3, <1>4 DEF TypeInv

\* Every step keeps the rows, the results and what requests remember well-formed.
LEMMA TypeStep == TypeInv /\ [Next]_vars => TypeInv'
<1> SUFFICES ASSUME TypeInv, [Next]_vars PROVE TypeInv'
  OBVIOUS
<1>1. /\ row \in [Tasks -> Rows] /\ raced \subseteq Keys
      /\ result \in [Tasks -> READY_STATES \cup {"PENDING", "PROGRESS"}]
      /\ run \in [Tasks -> {"none", "queued", "working", "returned", "raised", "over", "dead"}]
  BY DEF TypeInv, TypeOK
<1>2. ASSUME NEW r \in Requests, NEW k \in Keys, CheckRunning(r, k) PROVE TypeInv'
  <2> DEFINE x == [op |-> "checked", key |-> k]
  <2>1. req' = [req EXCEPT ![r] = x] /\ UNCHANGED <<row, result, run, delegated, done, raced>>
    BY <1>2 DEF CheckRunning
  <2> QED BY <2>1, <1>1, RequestType
<1>3. ASSUME NEW r \in Requests, CreateTask(r) PROVE TypeInv'
  <2> DEFINE new == [key |-> req[r].key, task_state |-> "QUEUING", subtasks |-> FALSE]
  <2>1. req[r].key \in Keys  BY <1>3 DEF CreateTask, TypeInv, ReqOK
  <2>2. PICK t \in Tasks : /\ row' = [row EXCEPT ![t] = new]
                           /\ req' = [req EXCEPT ![r] = [op |-> "created", task |-> t]]
    BY <1>3 DEF CreateTask
  <2>3. new \in Rows  BY <2>1 DEF Rows, States
  <2>4. (row \in [Tasks -> Rows])'  BY <2>2, <2>3, <1>1
  <2>5. (raced \subseteq Keys)'  BY <1>3, <2>1, <1>1 DEF CreateTask
  <2>6. UNCHANGED <<result, run, delegated, done>>  BY <1>3 DEF CreateTask
  <2> QED BY <2>2, <2>4, <2>5, <2>6, <1>1, RequestType
<1>4. ASSUME NEW r \in Requests, ApplyAsync(r) PROVE TypeInv'
  <2>1. req' = [req EXCEPT ![r] = Idle] /\ UNCHANGED <<row, result, delegated, done, raced>>
    BY <1>4 DEF ApplyAsync
  <2>2. (run \in [Tasks -> {"none", "queued", "working", "returned", "raised", "over", "dead"}])'
    BY <1>4, <1>1 DEF ApplyAsync
  <2> QED BY <2>1, <2>2, <1>1, RequestType DEF Idle
<1>5. ASSUME NEW r \in Requests, ApplyAsyncFails(r) PROVE TypeInv'
  <2>1. req' = [req EXCEPT ![r] = Idle] /\ UNCHANGED <<row, result, run, delegated, done, raced>>
    BY <1>5 DEF ApplyAsyncFails
  <2> QED BY <2>1, <1>1, RequestType DEF Idle
<1>6. ASSUME NEW r \in Requests, NEW t \in Tasks, BeginStatus(r, t) PROVE TypeInv'
  <2>1. UNCHANGED <<row, result, run, delegated, done, raced>>  BY <1>6 DEF BeginStatus
  <2>2. CASE UNCHANGED req
    BY <2>1, <2>2 DEF TypeInv, TypeOK, ReqOK
  <2>3. CASE req' = [req EXCEPT ![r] = [op |-> "read", task |-> t, copy |-> row[t]]]
    BY <2>1, <2>3, <1>1, RequestType
  <2> QED BY <1>6, <2>2, <2>3 DEF BeginStatus
<1>7. ASSUME NEW r \in Requests, ReadState(r) PROVE TypeInv'
  <2> DEFINE x == [op |-> "state", task |-> req[r].task, copy |-> req[r].copy,
                   state |-> result[req[r].task]]
  <2>1. req' = [req EXCEPT ![r] = x] /\ UNCHANGED <<row, result, run, delegated, done, raced>>
    BY <1>7 DEF ReadState
  <2>2. req[r].task \in Tasks /\ req[r].copy \in Rows
    BY <1>7 DEF ReadState, TypeInv, ReqOK
  <2> QED BY <2>1, <2>2, <1>1, RequestType
<1>8. ASSUME NEW r \in Requests, UpdateAndAnswer(r) PROVE TypeInv'
  <2>1. req' = [req EXCEPT ![r] = Idle] /\ UNCHANGED <<result, run, delegated, done, raced>>
    BY <1>8 DEF UpdateAndAnswer
  <2>2. req[r].task \in Tasks /\ req[r].copy \in Rows
    BY <1>8 DEF UpdateAndAnswer, TypeInv, ReqOK
  <2>3. \/ row' = row
        \/ row' = [row EXCEPT ![req[r].task] = [req[r].copy EXCEPT !.task_state = "REVOKED"]]
    BY <1>8 DEF UpdateAndAnswer, Saved
  <2>4. (row \in [Tasks -> Rows])'
    <3> DEFINE new == [req[r].copy EXCEPT !.task_state = "REVOKED"]
    <3>1. "REVOKED" \in States  BY DEF States, READY_STATES
    <3>2. new \in Rows  BY <2>2, <3>1, RowUpdate
    <3> HIDE DEF new
    <3> QED BY <2>2, <2>3, <3>2, <1>1 DEF new
  <2> QED BY <2>1, <2>4, <1>1, RequestType DEF Idle
<1>9. ASSUME UNCHANGED vars PROVE TypeInv'
  BY <1>9 DEF vars, TypeInv, TypeOK, ReqOK
<1> QED
  BY <1>2, <1>3, <1>4, <1>5, <1>6, <1>7, <1>8, <1>9, WorkType DEF Next, Serve

LEMMA TypeInvariant == Spec => []TypeInv
BY TypeInit, TypeStep, PTL DEF Spec

\* The rows, results, requests and histories are well-formed in every state: no
\* status request saves a row that is none (InstructorTask, api_helper.py).
THEOREM TypeCorrect == Spec => []TypeOK
BY TypeInvariant, PTL DEF TypeInv

-----------------------------------------------------------------------------
(* One run per key.                                                          *)

\* A row that blocks its key.
Running(t) == Created(t) /\ row[t].task_state \notin READY_STATES
Early(t) == run[t] \in {"none", "queued", "working"}

\* A task that has not left its worker has no final result, and a running row unless its
\* work is done, which it is not before the task has started.
RunOK ==
  \A t \in Tasks :
    /\ Early(t) => result[t] \in {"PENDING", "PROGRESS"}
    /\ Early(t) /\ Created(t) => Running(t) \/ t \in done
    /\ ~Created(t) => run[t] = "none"
    /\ t \in delegated \cup done => run[t] \notin {"none", "queued"}
    /\ t \in done /\ Early(t) => row[t].subtasks

\* What a request has created was not handed to celery yet, and by no other; what a
\* status request has read is of a row that keeps its key, and final only of a task
\* that has ended.
HeldOK ==
  \A r \in Requests :
    /\ req[r].op = "created" => Running(req[r].task) /\ run[req[r].task] = "none"
    /\ \A q \in Requests \ {r} : req[r].op = "created" /\ req[q].op = "created"
                                  => req[q].task # req[r].task
    /\ req[r].op \in {"read", "state"} =>
         Created(req[r].task) /\ req[r].copy.key = row[req[r].task].key
    /\ req[r].op = "state" /\ req[r].state \in READY_STATES => ~Early(req[r].task)

\* A key without a race has one running row, and none while a request that has
\* checked it has not created its row.
ReservedOK ==
  /\ \A t, u \in Tasks : Running(t) /\ Running(u) /\ row[t].key = row[u].key /\ t # u
                           => row[t].key \in raced
  /\ \A r \in Requests : req[r].op = "checked" =>
       req[r].key \in raced \/ \A t \in Tasks : Running(t) => row[t].key # req[r].key

OneRunInv == RunOK /\ HeldOK /\ ReservedOK

\* In the initial state there is no row.
LEMMA OneRunInit == Init => OneRunInv
<1> SUFFICES ASSUME Init PROVE OneRunInv
  OBVIOUS
<1>1. \A t \in Tasks : ~Created(t) /\ run[t] = "none" /\ result[t] = "PENDING"
                      /\ t \notin delegated \cup done
  BY DEF Init, Created
<1>2. \A r \in Requests : req[r].op = "idle"
  BY DEF Init, Idle
<1>3. RunOK  BY <1>1 DEF RunOK
<1>4. HeldOK  BY <1>2 DEF HeldOK
<1>5. ReservedOK  BY <1>1, <1>2 DEF ReservedOK, Running
<1> QED BY <1>3, <1>4, <1>5 DEF OneRunInv

\* A task at work has a row and keeps its key; it makes no row run again, and its row
\* runs until it has left its worker or its work is done.
LEMMA WorkRows ==
  ASSUME TypeInv, RunOK, NEW t \in Tasks, Work(t) \/ Raise(t) \/ Die(t) \/ Revoke(t)
  PROVE  /\ UNCHANGED <<req, raced>>
         /\ \A u \in Tasks \ {t} : row'[u] = row[u] /\ run'[u] = run[u] /\ result'[u] = result[u]
         /\ \A u \in Tasks \ {t} : (u \in delegated' <=> u \in delegated) /\ (u \in done' <=> u \in done)
         /\ Created(t) /\ run[t] # "none" /\ run'[t] # "none"
         /\ row'[t].key = row[t].key /\ Created(t)' /\ (Running(t)' => Running(t))
         /\ Early(t)' => /\ Early(t) /\ result'[t] \in {"PENDING", "PROGRESS"}
                         /\ Running(t)' \/ t \in done'
         /\ t \in delegated' \cup done' => run'[t] \notin {"none", "queued"}
         /\ t \in done' /\ Early(t)' => row'[t].subtasks
<1>1. /\ row \in [Tasks -> Rows] /\ row[t] \in Rows
      /\ result \in [Tasks -> READY_STATES \cup {"PENDING", "PROGRESS"}]
      /\ run \in [Tasks -> {"none", "queued", "working", "returned", "raised", "over", "dead"}]
      /\ delegated \subseteq Tasks /\ done \subseteq Tasks
  BY DEF TypeInv, TypeOK
<1>2. UNCHANGED <<req, raced>>
  BY DEF Work, Execute, Start, ReportProgress, DefineSubtasks, QueueLast, Return, OnSuccess, OnFailure,
         FinishSubtasks, Raise, Die, Revoke
<1>3. \A u \in Tasks \ {t} : row'[u] = row[u] /\ run'[u] = run[u] /\ result'[u] = result[u]
  <2> SUFFICES ASSUME NEW u \in Tasks \ {t}
               PROVE  row'[u] = row[u] /\ run'[u] = run[u] /\ result'[u] = result[u]
    OBVIOUS
  <2>1. row'[u] = row[u]
    BY <1>1 DEF Work, Execute, Start, ReportProgress, DefineSubtasks, QueueLast, Return, OnSuccess,
       OnFailure, FinishSubtasks, Raise, Die, Revoke
  <2>2. run'[u] = run[u]
    BY <1>1 DEF Work, Execute, Start, ReportProgress, DefineSubtasks, QueueLast, Return, OnSuccess,
       OnFailure, FinishSubtasks, Raise, Die, Revoke
  <2>3. result'[u] = result[u]
    BY <1>1 DEF Work, Execute, Start, ReportProgress, DefineSubtasks, QueueLast, Return, OnSuccess,
       OnFailure, FinishSubtasks, Raise, Die, Revoke
  <2> QED BY <2>1, <2>2, <2>3
<1>4. run[t] # "none" /\ run'[t] # "none"
  <2>1. CASE FinishSubtasks(t)
    BY <2>1 DEF FinishSubtasks, RunOK
  <2>2. CASE ~FinishSubtasks(t)
    BY <2>2, <1>1 DEF Work, Execute, Start, ReportProgress, DefineSubtasks, QueueLast, Return, OnSuccess,
       OnFailure, Raise, Die, Revoke
  <2> QED BY <2>1, <2>2
<1>5. Created(t)  BY <1>4 DEF RunOK
<1>6. /\ row'[t].key = row[t].key
      /\ \/ row'[t] = row[t]
         \/ run[t] = "working" /\ row'[t].task_state = "PROGRESS" /\ Running(t)
         \/ /\ row'[t].task_state \in READY_STATES
            /\ run'[t] \notin {"none", "queued", "working"} \/ t \in done'
  <2>1. CASE DefineSubtasks(t)
    <3>1. Early(t) /\ ~row[t].subtasks /\ row'[t].task_state = "PROGRESS" /\ row'[t].key = row[t].key
      BY <2>1, <1>1 DEF DefineSubtasks, Early, Rows
    <3>2. Running(t)  BY <3>1, <1>5 DEF RunOK
    <3> QED BY <2>1, <3>1, <3>2 DEF DefineSubtasks
  <2>2. CASE FinishSubtasks(t)
    BY <2>2, <1>1 DEF FinishSubtasks, READY_STATES, Rows
  <2>3. CASE ~DefineSubtasks(t) /\ ~FinishSubtasks(t)
    BY <2>3, <1>1 DEF Work, Execute, Start, ReportProgress, QueueLast, Return, OnSuccess,
       OnFailure, Raise, Die, Revoke, READY_STATES, Rows
  <2> QED BY <2>1, <2>2, <2>3
<1>7. done \subseteq done'
  BY DEF Work, Execute, Start, ReportProgress, DefineSubtasks, QueueLast, Return, OnSuccess, OnFailure,
         FinishSubtasks, Raise, Die, Revoke
<1>8. Created(t)' /\ (Running(t)' => Running(t))
  BY <1>5, <1>6 DEF Created, Running, READY_STATES
<1>9. ASSUME Early(t)'
      PROVE  Early(t) /\ (Running(t)' \/ t \in done') /\ result'[t] \in {"PENDING", "PROGRESS"}
  <2>1. Early(t)
    BY <1>9, <1>1 DEF Early, Work, Execute, Start, ReportProgress, DefineSubtasks, QueueLast, Return,
       OnSuccess, OnFailure, FinishSubtasks, Raise, Die, Revoke
  <2>2. (Running(t) \/ t \in done) /\ result[t] \in {"PENDING", "PROGRESS"}
    BY <2>1, <1>5 DEF RunOK
  <2>3. Running(t)' \/ t \in done'
    BY <1>9, <2>2, <1>6, <1>7, <1>8 DEF Early, Running, Created, READY_STATES
  <2>4. result'[t] \in {"PENDING", "PROGRESS"}
    BY <1>9, <2>2, <1>1 DEF Early, Work, Execute, Start, ReportProgress, DefineSubtasks, QueueLast,
       Return, OnSuccess, OnFailure, FinishSubtasks, Raise, Die, Revoke
  <2> QED BY <2>1, <2>3, <2>4
<1>10. \A u \in Tasks \ {t} : (u \in delegated' <=> u \in delegated) /\ (u \in done' <=> u \in done)
  BY DEF Work, Execute, Start, ReportProgress, DefineSubtasks, QueueLast, Return, OnSuccess, OnFailure,
         FinishSubtasks, Raise, Die, Revoke
<1>11. t \in delegated' \cup done' => run'[t] \notin {"none", "queued"}
  <2>1. t \in delegated \cup done => run[t] \notin {"none", "queued"}  BY DEF RunOK
  <2> QED
    BY <2>1, <1>1 DEF Work, Execute, Start, ReportProgress, DefineSubtasks, QueueLast, Return,
       OnSuccess, OnFailure, FinishSubtasks, Raise, Die, Revoke
<1>12. t \in done' /\ Early(t)' => row'[t].subtasks
  <2>1. t \in done /\ Early(t) => row[t].subtasks  BY DEF RunOK
  <2>2. CASE FinishSubtasks(t)
    BY <2>2, <1>1 DEF FinishSubtasks, Rows
  <2>3. CASE ~FinishSubtasks(t)
    <3>1. Early(t)' => (t \in done' => t \in done) /\ (row'[t].subtasks = row[t].subtasks \/ row'[t].subtasks)
      BY <2>3, <1>1 DEF Early, Work, Execute, Start, ReportProgress, DefineSubtasks, QueueLast, Return,
         OnSuccess, OnFailure, Raise, Die, Revoke, Rows
    <3> QED BY <2>1, <3>1, <1>9
  <2> QED BY <2>2, <2>3
<1> QED BY <1>2, <1>3, <1>4, <1>5, <1>6, <1>8, <1>9, <1>10, <1>11, <1>12

\* The steps of the tasks preserve the invariant.
LEMMA WorkOneRun ==
  ASSUME TypeInv, OneRunInv, NEW t \in Tasks, Work(t) \/ Raise(t) \/ Die(t) \/ Revoke(t)
  PROVE  OneRunInv'
<1>1. RunOK /\ HeldOK /\ ReservedOK  BY DEF OneRunInv
<1>2. /\ UNCHANGED <<req, raced>>
      /\ \A u \in Tasks \ {t} : row'[u] = row[u] /\ run'[u] = run[u] /\ result'[u] = result[u]
      /\ \A u \in Tasks \ {t} : (u \in delegated' <=> u \in delegated) /\ (u \in done' <=> u \in done)
      /\ Created(t) /\ run[t] # "none" /\ run'[t] # "none"
      /\ row'[t].key = row[t].key /\ Created(t)' /\ (Running(t)' => Running(t))
      /\ Early(t)' => /\ Early(t) /\ result'[t] \in {"PENDING", "PROGRESS"}
                      /\ Running(t)' \/ t \in done'
      /\ t \in delegated' \cup done' => run'[t] \notin {"none", "queued"}
      /\ t \in done' /\ Early(t)' => row'[t].subtasks
  BY <1>1, WorkRows
<1>3. \A u \in Tasks : /\ row'[u].key = row[u].key
                       /\ Created(u)' <=> Created(u)
                       /\ Running(u)' => Running(u)
                       /\ Early(u)' => Early(u)
                       /\ u # t => (Running(u)' <=> Running(u)) /\ (Early(u)' <=> Early(u))
  BY <1>2 DEF Created, Running, Early
<1>4. RunOK'
  <2> SUFFICES ASSUME NEW u \in Tasks
               PROVE  /\ Early(u)' => result'[u] \in {"PENDING", "PROGRESS"}
                      /\ Early(u)' /\ Created(u)' => Running(u)' \/ u \in done'
                      /\ ~Created(u)' => run'[u] = "none"
                      /\ u \in delegated' \cup done' => run'[u] \notin {"none", "queued"}
                      /\ u \in done' /\ Early(u)' => row'[u].subtasks
    BY DEF RunOK
  <2>1. CASE u = t  BY <2>1, <1>2
  <2>2. CASE u # t  BY <2>2, <1>1, <1>2, <1>3 DEF RunOK
  <2> QED BY <2>1, <2>2
<1>5. HeldOK'
  <2> SUFFICES ASSUME NEW r \in Requests
               PROVE  /\ req'[r].op = "created" => Running(req[r].task)' /\ run'[req[r].task] = "none"
                      /\ req'[r].op \in {"read", "state"} =>
                           Created(req[r].task)' /\ req[r].copy.key = row'[req[r].task].key
                      /\ req'[r].op = "state" /\ req[r].state \in READY_STATES => ~Early(req[r].task)'
    BY <1>1, <1>2 DEF HeldOK, Running, Created, Early
  <2>1. req[r].op \in {"created", "read", "state"} => req[r].task \in Tasks
    BY DEF TypeInv, ReqOK
  <2>2. req'[r] = req[r]  BY <1>2
  <2>3. req[r].op = "created" => req[r].task # t  BY <1>1, <1>2 DEF HeldOK
  <2> QED BY <2>1, <2>2, <2>3, <1>1, <1>2, <1>3 DEF HeldOK
<1>6. ReservedOK'
  BY <1>1, <1>2, <1>3 DEF ReservedOK
<1> QED BY <1>4, <1>5, <1>6 DEF OneRunInv

\* A request that only remembers something true preserves the invariant.
LEMMA RequestOneRun ==
  ASSUME TypeInv, OneRunInv, NEW r \in Requests, NEW x,
         req' = [req EXCEPT ![r] = x], UNCHANGED <<row, result, run, delegated, done, raced>>,
         x.op # "created",
         x.op = "checked" => ~TaskIsRunning(x.key),
         x.op \in {"read", "state"} => Created(x.task) /\ x.copy.key = row[x.task].key,
         x.op = "state" /\ x.state \in READY_STATES => ~Early(x.task)
  PROVE  OneRunInv'
<1>1. req = [q \in Requests |-> req[q]]  BY DEF TypeInv, ReqOK
<1>2. req'[r] = x /\ \A q \in Requests \ {r} : req'[q] = req[q]
  BY <1>1, ReqUpdate
<1>3. RunOK'  BY DEF OneRunInv, RunOK, Early, Created, Running
<1>4. HeldOK'
  BY <1>2 DEF OneRunInv, HeldOK, Early, Created, Running
<1>5. ReservedOK'
  <2>1. x.op = "checked" => \A t \in Tasks : Running(t) => row[t].key # x.key
    BY DEF TaskIsRunning, OfKey, Running
  <2> QED BY <1>2, <2>1 DEF OneRunInv, ReservedOK, Created, Running
<1> QED BY <1>3, <1>4, <1>5 DEF OneRunInv

\* A new row runs; it blocks its key, and the key counts as raced if some other
\* request had checked it.
LEMMA CreateOneRun ==
  ASSUME TypeInv, OneRunInv, NEW r \in Requests, CreateTask(r)
  PROVE  OneRunInv'
<1> DEFINE k == req[r].key
           new == [key |-> k, task_state |-> "QUEUING", subtasks |-> FALSE]
<1>1. PICK t \in Tasks : /\ ~Created(t)
                         /\ row' = [row EXCEPT ![t] = new]
                         /\ req' = [req EXCEPT ![r] = [op |-> "created", task |-> t]]
  BY DEF CreateTask
<1>2. /\ req[r].op = "checked" /\ UNCHANGED <<result, run, delegated, done>>
      /\ raced' = IF \E q \in Requests \ {r} : req[q].op = "checked" /\ req[q].key = k
                    THEN raced \cup {k} ELSE raced
  BY DEF CreateTask
<1>3. row \in [Tasks -> Rows] /\ req = [q \in Requests |-> req[q]]
  BY DEF TypeInv, TypeOK, ReqOK
<1>4. /\ req'[r] = [op |-> "created", task |-> t]
      /\ \A q \in Requests \ {r} : req'[q] = req[q]
  BY <1>1, <1>3, ReqUpdate
<1>5. row'[t] = new /\ \A u \in Tasks \ {t} : row'[u] = row[u]
  BY <1>1, <1>3
<1>6. /\ Created(t)' /\ Running(t)' /\ row'[t].key = k
      /\ \A u \in Tasks \ {t} : (Created(u)' <=> Created(u)) /\ (Running(u)' <=> Running(u))
      /\ \A u \in Tasks : Early(u)' <=> Early(u)
  BY <1>2, <1>5 DEF Created, Running, Early, READY_STATES
<1>7. run[t] = "none"  BY <1>1 DEF OneRunInv, RunOK
<1>8. RunOK'
  <2>1. t \notin delegated \cup done  BY <1>7 DEF OneRunInv, RunOK
  <2> SUFFICES ASSUME NEW u \in Tasks
               PROVE  /\ Early(u)' => result'[u] \in {"PENDING", "PROGRESS"}
                      /\ Early(u)' /\ Created(u)' => Running(u)' \/ u \in done'
                      /\ ~Created(u)' => run'[u] = "none"
                      /\ u \in delegated' \cup done' => run'[u] \notin {"none", "queued"}
                      /\ u \in done' /\ Early(u)' => row'[u].subtasks
    BY DEF RunOK
  <2>2. CASE u = t  BY <2>1, <2>2, <1>2, <1>6, <1>7 DEF OneRunInv, RunOK
  <2>3. CASE u # t  BY <2>3, <1>2, <1>5, <1>6 DEF OneRunInv, RunOK
  <2> QED BY <2>2, <2>3
<1>9. HeldOK'
  <2>1. \A p \in Requests : req[p].op = "created" => Running(req[p].task) /\ req[p].task \in Tasks \ {t}
    BY <1>1 DEF OneRunInv, HeldOK, Running, TypeInv, ReqOK
  <2>2. \A p \in Requests : req[p].op \in {"read", "state"} => req[p].task \in Tasks \ {t}
    BY <1>1 DEF OneRunInv, HeldOK, TypeInv, ReqOK
  <2>3. ASSUME NEW q \in Requests, req'[q].op = "created"
        PROVE  /\ Running(req[q].task)' /\ run'[req'[q].task] = "none"
               /\ \A p \in Requests \ {q} : req'[p].op = "created" => req'[p].task # req'[q].task
    <3>1. CASE q = r
      BY <3>1, <1>2, <1>4, <1>6, <1>7, <2>1 DEF Running, Created
    <3>2. CASE q # r
      <4>1. req'[q] = req[q] /\ req[q].op = "created"  BY <3>2, <2>3, <1>4
      <4>2. Running(req[q].task) /\ req[q].task \in Tasks \ {t} /\ run[req[q].task] = "none"
        BY <4>1, <2>1 DEF OneRunInv, HeldOK
      <4>3. row'[req'[q].task] = row[req[q].task]  BY <4>1, <4>2, <1>5
      <4>4. Running(req[q].task)'  BY <4>2, <4>3 DEF Running, Created
      <4>5. \A p \in Requests \ {q} : req'[p].op = "created" => req'[p].task # req'[q].task
        BY <4>1, <4>2, <1>4 DEF OneRunInv, HeldOK
      <4> QED BY <4>1, <4>2, <4>4, <4>5, <1>2
    <3> QED BY <3>1, <3>2
  <2>4. ASSUME NEW q \in Requests, req'[q].op \in {"read", "state"}
        PROVE  /\ Created(req[q].task)' /\ req'[q].copy.key = row'[req'[q].task].key
               /\ req'[q].op = "state" /\ req'[q].state \in READY_STATES => ~Early(req[q].task)'
    <3>1. q # r /\ req'[q] = req[q]  BY <2>4, <1>4
    <3>2. row'[req'[q].task] = row[req[q].task]  BY <3>1, <2>2, <2>4, <1>5
    <3> QED BY <3>1, <3>2, <2>4, <1>2 DEF OneRunInv, HeldOK, Created, Early
  <2> QED BY <2>3, <2>4 DEF HeldOK
<1>10. ReservedOK'
  <2>1. raced \subseteq raced'  BY <1>2
  <2>2. \A u \in Tasks \ {t} : Running(u) /\ row[u].key = k => k \in raced
    BY <1>2 DEF OneRunInv, ReservedOK
  <2>3. ASSUME NEW u \in Tasks, NEW v \in Tasks,
               Running(u)', Running(v)', row'[u].key = row'[v].key, u # v
        PROVE  row'[u].key \in raced'
    <3>1. CASE u = t \/ v = t
      BY <3>1, <2>3, <2>1, <2>2, <1>5, <1>6
    <3>2. CASE u # t /\ v # t
      BY <3>2, <2>3, <2>1, <1>5, <1>6 DEF OneRunInv, ReservedOK
    <3> QED BY <3>1, <3>2
  <2>4. ASSUME NEW q \in Requests, req'[q].op = "checked"
        PROVE  req'[q].key \in raced' \/ \A u \in Tasks : Running(u)' => row'[u].key # req'[q].key
    <3>1. q # r /\ req'[q] = req[q]  BY <2>4, <1>4
    <3>2. CASE req[q].key = k  BY <3>1, <3>2, <2>4, <1>2
    <3>3. CASE req[q].key # k
      BY <3>1, <3>3, <2>1, <2>4, <1>5, <1>6 DEF OneRunInv, ReservedOK
    <3> QED BY <3>2, <3>3
  <2> QED BY <2>3, <2>4 DEF ReservedOK
<1> QED BY <1>8, <1>9, <1>10 DEF OneRunInv

\* apply_async hands over a row that runs, once.
LEMMA ApplyOneRun ==
  ASSUME TypeInv, OneRunInv, NEW r \in Requests, ApplyAsync(r)
  PROVE  OneRunInv'
<1> DEFINE t == req[r].task
<1>1. /\ req[r].op = "created" /\ UNCHANGED <<row, result, delegated, done, raced>>
      /\ run' = [run EXCEPT ![t] = "queued"]
      /\ req' = [req EXCEPT ![r] = Idle]
  BY DEF ApplyAsync
<1>2. /\ t \in Tasks /\ req = [q \in Requests |-> req[q]]
      /\ run \in [Tasks -> {"none", "queued", "working", "returned", "raised", "over", "dead"}]
  BY <1>1 DEF TypeInv, TypeOK, ReqOK
<1>3. req'[r].op = "idle" /\ \A q \in Requests \ {r} : req'[q] = req[q]
  BY <1>1, <1>2, ReqUpdate DEF Idle
<1>4. Running(t) /\ run[t] = "none" /\ result[t] \in {"PENDING", "PROGRESS"}
  BY <1>1, <1>2 DEF OneRunInv, HeldOK, RunOK, Early
<1>5. run'[t] = "queued" /\ \A u \in Tasks \ {t} : run'[u] = run[u]
  BY <1>1, <1>2
<1>6. \A u \in Tasks : /\ Created(u)' <=> Created(u)
                       /\ Running(u)' <=> Running(u)
                       /\ Early(u)' <=> Early(u)
  BY <1>1, <1>4, <1>5 DEF Created, Running, Early
<1>7. RunOK'
  BY <1>1, <1>4, <1>5, <1>6 DEF OneRunInv, RunOK, Running
<1>8. HeldOK'
  <2> SUFFICES ASSUME NEW q \in Requests, q # r
               PROVE  /\ req[q].op = "created" => Running(req[q].task)' /\ run'[req[q].task] = "none"
                      /\ \A p \in Requests \ {q} : req[q].op = "created" /\ req'[p].op = "created"
                                                     => req'[p].task # req[q].task
                      /\ req[q].op \in {"read", "state"} =>
                           Created(req[q].task)' /\ req[q].copy.key = row'[req[q].task].key
                      /\ req[q].op = "state" /\ req[q].state \in READY_STATES
                           => ~Early(req[q].task)'
    BY <1>3 DEF HeldOK, Running, Created, Early
  <2>1. req'[q] = req[q]  BY <1>3
  <2>2. req[q].op \in {"created", "read", "state"} => req[q].task \in Tasks
    BY DEF TypeInv, ReqOK
  <2>3. req[q].op = "created" => req[q].task # t  BY <1>1 DEF OneRunInv, HeldOK
  <2>4. \A p \in Requests \ {q} : req[q].op = "created" /\ req'[p].op = "created"
                                    => req'[p].task # req[q].task
    BY <1>3 DEF OneRunInv, HeldOK
  <2>5. ASSUME req[q].op = "created"
        PROVE  Running(req[q].task)' /\ run'[req[q].task] = "none"
    BY <2>1, <2>2, <2>3, <2>5, <1>1, <1>5 DEF OneRunInv, HeldOK, Running, Created
  <2>6. ASSUME req[q].op \in {"read", "state"}
        PROVE  /\ Created(req[q].task)' /\ req[q].copy.key = row'[req[q].task].key
               /\ req[q].op = "state" /\ req[q].state \in READY_STATES => ~Early(req[q].task)'
    BY <2>1, <2>2, <2>6, <1>1, <1>4, <1>5 DEF OneRunInv, HeldOK, Created, Early
  <2> QED BY <2>4, <2>5, <2>6
<1>9. ReservedOK'
  BY <1>1, <1>3, <1>6 DEF OneRunInv, ReservedOK
<1> QED BY <1>7, <1>8, <1>9 DEF OneRunInv

\* A status request saves only the end of a task that has ended, under its own key.
LEMMA UpdateOneRun ==
  ASSUME TypeInv, OneRunInv, NEW r \in Requests, UpdateAndAnswer(r)
  PROVE  OneRunInv'
<1> DEFINE t == req[r].task
           new == [req[r].copy EXCEPT !.task_state = "REVOKED"]
<1>1. /\ req[r].op = "state" /\ UNCHANGED <<result, run, delegated, done, raced>>
      /\ req' = [req EXCEPT ![r] = Idle]
      /\ row' = row \/ (req[r].state = "REVOKED" /\ row' = [row EXCEPT ![t] = new])
  BY DEF UpdateAndAnswer, Saved
<1>2. CASE row' = row
  <2>1. Idle.op = "idle"  BY DEF Idle
  <2>2. UNCHANGED <<row, result, run, delegated, done, raced>>  BY <1>1, <1>2
  <2> QED BY <1>1, <2>1, <2>2, RequestOneRun
<1>3. CASE req[r].state = "REVOKED" /\ row' = [row EXCEPT ![t] = new]
  <2>1. /\ t \in Tasks /\ req[r].copy \in Rows /\ row \in [Tasks -> Rows]
        /\ req = [q \in Requests |-> req[q]]
    BY <1>1 DEF TypeInv, TypeOK, ReqOK
  <2>2. req'[r].op = "idle" /\ \A q \in Requests \ {r} : req'[q] = req[q]
    BY <1>1, <2>1, ReqUpdate DEF Idle
  <2>3. Created(t) /\ req[r].copy.key = row[t].key /\ ~Early(t)
    BY <1>1, <1>3 DEF OneRunInv, HeldOK, READY_STATES
  <2>4. row'[t] = new /\ \A u \in Tasks \ {t} : row'[u] = row[u]
    BY <1>3, <2>1
  <2>5. new.key = req[r].copy.key /\ new.task_state = "REVOKED"
    BY <2>1 DEF Rows
  <2> HIDE DEF new
  <2>6. \A u \in Tasks : /\ row'[u].key = row[u].key
                         /\ Created(u)' <=> Created(u)
                         /\ Running(u)' => Running(u)
                         /\ Early(u)' <=> Early(u)
                         /\ u # t => row'[u] = row[u]
    BY <1>1, <2>3, <2>4, <2>5 DEF Created, Running, Early, READY_STATES
  <2>7. RunOK'
    BY <1>1, <2>3, <2>6 DEF OneRunInv, RunOK, Running, Created, Early
  <2>8. HeldOK'
    <3> SUFFICES ASSUME NEW q \in Requests, q # r
                 PROVE  /\ req[q].op = "created" => Running(req[q].task)' /\ run'[req[q].task] = "none"
                        /\ \A p \in Requests \ {q} : req[q].op = "created" /\ req'[p].op = "created"
                                                       => req'[p].task # req[q].task
                        /\ req[q].op \in {"read", "state"} =>
                             Created(req[q].task)' /\ req[q].copy.key = row'[req[q].task].key
                        /\ req[q].op = "state" /\ req[q].state \in READY_STATES
                             => ~Early(req[q].task)'
      BY <2>2 DEF HeldOK, Running, Created, Early
    <3>1. req'[q] = req[q]  BY <2>2
    <3>2. req[q].op \in {"created", "read", "state"} => req[q].task \in Tasks
      BY DEF TypeInv, ReqOK
    <3>3. \A p \in Requests \ {q} : req[q].op = "created" /\ req'[p].op = "created"
                                      => req'[p].task # req[q].task
      BY <2>2 DEF OneRunInv, HeldOK
    <3>4. ASSUME req[q].op = "created"
          PROVE  Running(req[q].task)' /\ run'[req[q].task] = "none"
      <4>1. Running(req[q].task) /\ run[req[q].task] = "none" /\ req[q].task \in Tasks
        BY <3>2, <3>4 DEF OneRunInv, HeldOK
      <4>2. req[q].task # t  BY <4>1, <2>3 DEF Early
      <4> QED BY <4>1, <4>2, <3>1, <2>6, <1>1 DEF Running, Created
    <3>5. ASSUME req[q].op \in {"read", "state"}
          PROVE  /\ Created(req[q].task)' /\ req[q].copy.key = row'[req[q].task].key
                 /\ req[q].op = "state" /\ req[q].state \in READY_STATES => ~Early(req[q].task)'
      <4>1. req[q].task \in Tasks /\ Created(req[q].task) /\ req[q].copy.key = row[req[q].task].key
        BY <3>2, <3>5 DEF OneRunInv, HeldOK
      <4>2. Created(req[q].task)' /\ req[q].copy.key = row'[req[q].task].key
        BY <4>1, <3>1, <2>6 DEF Created
      <4>3. req[q].op = "state" /\ req[q].state \in READY_STATES => ~Early(req[q].task)'
        BY <3>1, <1>1 DEF OneRunInv, HeldOK, Early
      <4> QED BY <4>2, <4>3
    <3> QED BY <3>3, <3>4, <3>5
  <2>9. ReservedOK'
    BY <1>1, <2>2, <2>6 DEF OneRunInv, ReservedOK
  <2> QED BY <2>7, <2>8, <2>9 DEF OneRunInv
<1> QED BY <1>1, <1>2, <1>3

\* Every step preserves the invariant.
LEMMA OneRunStep == TypeInv /\ OneRunInv /\ [Next]_vars => OneRunInv'
<1> SUFFICES ASSUME TypeInv, OneRunInv, [Next]_vars PROVE OneRunInv'
  OBVIOUS
<1>1. ASSUME NEW r \in Requests, NEW k \in Keys, CheckRunning(r, k) PROVE OneRunInv'
  <2> DEFINE x == [op |-> "checked", key |-> k]
  <2>1. /\ req' = [req EXCEPT ![r] = x] /\ UNCHANGED <<row, result, run, delegated, done, raced>>
        /\ ~TaskIsRunning(x.key) /\ x.op = "checked"
    BY <1>1 DEF CheckRunning
  <2> HIDE DEF x
  <2> QED BY <2>1, RequestOneRun
<1>2. ASSUME NEW r \in Requests, ApplyAsyncFails(r) PROVE OneRunInv'
  <2>1. req' = [req EXCEPT ![r] = Idle] /\ UNCHANGED <<row, result, run, delegated, done, raced>> /\ Idle.op = "idle"
    BY <1>2 DEF ApplyAsyncFails, Idle
  <2> QED BY <2>1, RequestOneRun
<1>3. ASSUME NEW r \in Requests, NEW t \in Tasks, BeginStatus(r, t) PROVE OneRunInv'
  <2> DEFINE x == [op |-> "read", task |-> t, copy |-> row[t]]
  <2>1. Created(t) /\ UNCHANGED <<row, result, run, delegated, done, raced>>  BY <1>3 DEF BeginStatus
  <2>2. CASE UNCHANGED req
    BY <2>1, <2>2 DEF OneRunInv, RunOK, HeldOK, ReservedOK, Running, Created, Early
  <2>3. CASE req' = [req EXCEPT ![r] = x]
    <3>1. x.op = "read" /\ Created(x.task) /\ x.copy.key = row[x.task].key
      BY <2>1 DEF Created
    <3> HIDE DEF x
    <3> QED BY <2>1, <2>3, <3>1, RequestOneRun
  <2> QED BY <1>3, <2>2, <2>3 DEF BeginStatus
<1>4. ASSUME NEW r \in Requests, ReadState(r) PROVE OneRunInv'
  <2> DEFINE t == req[r].task
             x == [op |-> "state", task |-> t, copy |-> req[r].copy, state |-> result[t]]
  <2>1. /\ req[r].op = "read" /\ UNCHANGED <<row, result, run, delegated, done, raced>>
        /\ req' = [req EXCEPT ![r] = x]
    BY <1>4 DEF ReadState
  <2>2. t \in Tasks /\ Created(t) /\ req[r].copy.key = row[t].key
    BY <2>1 DEF TypeInv, ReqOK, OneRunInv, HeldOK
  <2>3. result[t] \in READY_STATES => ~Early(t)
    BY <2>2 DEF OneRunInv, RunOK, READY_STATES
  <2>4. /\ x.op = "state" /\ Created(x.task) /\ x.copy.key = row[x.task].key
        /\ x.state \in READY_STATES => ~Early(x.task)
    BY <2>2, <2>3
  <2> HIDE DEF x
  <2> QED BY <2>1, <2>4, RequestOneRun
<1>5. ASSUME UNCHANGED vars PROVE OneRunInv'
  BY <1>5 DEF vars, OneRunInv, RunOK, HeldOK, ReservedOK, Running, Created, Early
<1> QED
  BY <1>1, <1>2, <1>3, <1>4, <1>5, CreateOneRun, ApplyOneRun, UpdateOneRun, WorkOneRun
     DEF Next, Serve

\* Two tasks of one key have work left in the broker or in workers only if two requests
\* had seen none running before either created its row (_reserve_task): whatever late
\* status requests save, a row stays unready until its task has left its worker or its
\* subtasks have done all its work, in whatever order these two happen.
THEOREM OneRun == Spec => []OneRunPerKey
<1>1. TypeInv /\ OneRunInv => OneRunPerKey
  <2> SUFFICES ASSUME OneRunInv, NEW t \in Tasks, NEW u \in Tasks, Alive(t), Alive(u),
                      row[t].key = row[u].key, t # u
               PROVE  row[t].key \in raced
    BY DEF OneRunPerKey
  <2>1. /\ Early(t) /\ run[t] # "none" /\ t \notin done
        /\ Early(u) /\ run[u] # "none" /\ u \notin done
    BY DEF Alive, Early
  <2>2. Running(t) /\ Running(u)  BY <2>1 DEF OneRunInv, RunOK
  <2> QED BY <2>2 DEF OneRunInv, ReservedOK
<1> QED BY <1>1, TypeInit, TypeStep, OneRunInit, OneRunStep, PTL DEF Spec

-----------------------------------------------------------------------------
(* A row that is ready stays as it is.                                       *)

\* Tasks that define no subtasks: none are stored in their rows and none were read;
\* their rows are ready only when the task has ended, and those of revoked tasks hold
\* no other end.  A result that was read as REVOKED still is.
FinalInv ==
  /\ \A t \in Tasks :
       /\ row[t].key \notin DelegatingKeys \/ ~Created(t) => row[t].subtasks = FALSE
       /\ row[t].key \notin DelegatingKeys =>
            /\ row[t].task_state \in READY_STATES => run[t] \in {"over", "dead"}
            /\ result[t] = "REVOKED" => row[t].task_state \notin {"SUCCESS", "FAILURE"}
       /\ result[t] = "REVOKED" => run[t] = "dead"
  /\ \A r \in Requests :
       /\ req[r].op \in {"read", "state"} /\ req[r].copy.key \notin DelegatingKeys
            => req[r].copy.subtasks = FALSE
       /\ req[r].op = "state" /\ req[r].state = "REVOKED" => result[req[r].task] = "REVOKED"

Inv == TypeInv /\ OneRunInv /\ FinalInv

LEMMA FinalInit == Init => FinalInv
<1> SUFFICES ASSUME Init PROVE FinalInv
  OBVIOUS
<1>1. \A t \in Tasks : /\ row[t].task_state = "none" /\ row[t].subtasks = FALSE
                       /\ result[t] = "PENDING"
  BY DEF Init
<1>2. \A r \in Requests : req[r].op = "idle"
  BY DEF Init, Idle
<1> QED BY <1>1, <1>2 DEF FinalInv, READY_STATES

\* A step of a task leaves its row alone when the row is ready and the task has no
\* subtasks, and preserves what FinalInv says of the tasks.
LEMMA WorkFinal ==
  ASSUME Inv, NEW t \in Tasks, Work(t) \/ Raise(t) \/ Die(t) \/ Revoke(t)
  PROVE  /\ \A u \in Tasks : row[u].task_state \in READY_STATES /\ row[u].key \notin DelegatingKeys
                               => row'[u] = row[u]
         /\ FinalInv'
<1>1. /\ row \in [Tasks -> Rows] /\ row[t] \in Rows
      /\ result \in [Tasks -> READY_STATES \cup {"PENDING", "PROGRESS"}]
      /\ run \in [Tasks -> {"none", "queued", "working", "returned", "raised", "over", "dead"}]
  BY DEF Inv, TypeInv, TypeOK
<1>2. /\ UNCHANGED <<req, raced>>
      /\ \A u \in Tasks \ {t} : row'[u] = row[u] /\ run'[u] = run[u] /\ result'[u] = result[u]
      /\ Created(t) /\ row'[t].key = row[t].key /\ Created(t)'
  BY WorkRows DEF Inv, OneRunInv
<1>3. /\ row[t].key \notin DelegatingKeys => row[t].subtasks = FALSE
      /\ row[t].key \notin DelegatingKeys /\ row[t].task_state \in READY_STATES
           => run[t] \in {"over", "dead"}
      /\ row[t].key \notin DelegatingKeys /\ result[t] = "REVOKED"
           => row[t].task_state \notin {"SUCCESS", "FAILURE"}
      /\ result[t] = "REVOKED" => run[t] = "dead"
  BY DEF Inv, FinalInv
<1>4. row[t].key \notin DelegatingKeys /\ run[t] \in {"queued", "working"}
        => row[t].task_state \notin READY_STATES
  BY <1>3
<1>5. row[t].key \notin DelegatingKeys =>
        \/ row'[t] = row[t]
        \/ /\ run[t] \in {"returned", "raised"} /\ run'[t] = "over" /\ result'[t] = result[t]
           /\ row'[t].subtasks = row[t].subtasks
  BY <1>1, <1>3 DEF Work, Execute, Start, ReportProgress, DefineSubtasks, QueueLast, Return, OnSuccess, OnFailure,
     FinishSubtasks, Raise, Die, Revoke, Rows
<1>6. /\ run[t] = "dead" => run'[t] = "dead" /\ result'[t] = result[t]
      /\ run[t] = "over" => run'[t] = "over"
      /\ result'[t] = "REVOKED" => \/ result[t] = "REVOKED"
                                   \/ run'[t] = "dead" /\ run[t] \in {"queued", "working"}
  BY <1>1 DEF Work, Execute, Start, ReportProgress, DefineSubtasks, QueueLast, Return, OnSuccess, OnFailure,
     FinishSubtasks, Raise, Die, Revoke
<1>7. row[t].task_state \in READY_STATES /\ row[t].key \notin DelegatingKeys => row'[t] = row[t]
  BY <1>3, <1>5
<1>8. /\ row'[t].key \notin DelegatingKeys \/ ~Created(t)' => row'[t].subtasks = FALSE
      /\ row'[t].key \notin DelegatingKeys =>
           /\ row'[t].task_state \in READY_STATES => run'[t] \in {"over", "dead"}
           /\ result'[t] = "REVOKED" => row'[t].task_state \notin {"SUCCESS", "FAILURE"}
      /\ result'[t] = "REVOKED" => run'[t] = "dead"
  BY <1>2, <1>3, <1>4, <1>5, <1>6 DEF READY_STATES
<1>9. FinalInv'
  <2>1. ASSUME NEW u \in Tasks \ {t}
        PROVE  /\ row'[u].key \notin DelegatingKeys \/ ~Created(u)' => row'[u].subtasks = FALSE
               /\ row'[u].key \notin DelegatingKeys =>
                    /\ row'[u].task_state \in READY_STATES => run'[u] \in {"over", "dead"}
                    /\ result'[u] = "REVOKED" => row'[u].task_state \notin {"SUCCESS", "FAILURE"}
               /\ result'[u] = "REVOKED" => run'[u] = "dead"
    BY <1>2 DEF Inv, FinalInv, Created
  <2>2. ASSUME NEW r \in Requests
        PROVE  /\ req'[r].op \in {"read", "state"} /\ req'[r].copy.key \notin DelegatingKeys
                    => req'[r].copy.subtasks = FALSE
               /\ req'[r].op = "state" /\ req'[r].state = "REVOKED" => result'[req'[r].task] = "REVOKED"
    <3>1. req'[r] = req[r]  BY <1>2
    <3>2. req[r].op = "state" /\ req[r].state = "REVOKED"
            => req[r].task \in Tasks /\ result[req[r].task] = "REVOKED"
      BY DEF Inv, FinalInv, TypeInv, ReqOK
    <3>3. \A u \in Tasks : result[u] = "REVOKED" => result'[u] = "REVOKED"
      BY <1>2, <1>3, <1>6
    <3> QED BY <3>1, <3>2, <3>3 DEF Inv, FinalInv
  <2> QED BY <1>8, <2>1, <2>2 DEF FinalInv
<1> QED BY <1>2, <1>7, <1>9

\* A request that only remembers something true preserves FinalInv.
LEMMA RequestFinal ==
  ASSUME Inv, NEW r \in Requests, NEW x,
         req' = [req EXCEPT ![r] = x], UNCHANGED <<row, result, run>>,
         x.op \in {"read", "state"} /\ x.copy.key \notin DelegatingKeys => x.copy.subtasks = FALSE,
         x.op = "state" /\ x.state = "REVOKED" => result[x.task] = "REVOKED"
  PROVE  FinalInv'
<1>1. req = [q \in Requests |-> req[q]]  BY DEF Inv, TypeInv, ReqOK
<1>2. req'[r] = x /\ \A q \in Requests \ {r} : req'[q] = req[q]
  BY <1>1, ReqUpdate
<1> QED BY <1>2 DEF Inv, FinalInv, Created

\* What a status request saves over a ready row is that row.
LEMMA UpdateFinal ==
  ASSUME Inv, NEW r \in Requests, UpdateAndAnswer(r)
  PROVE  /\ \A u \in Tasks : row[u].task_state \in READY_STATES /\ row[u].key \notin DelegatingKeys
                               => row'[u] = row[u]
         /\ FinalInv'
<1> DEFINE t == req[r].task
           new == [req[r].copy EXCEPT !.task_state = "REVOKED"]
<1>1. /\ req[r].op = "state" /\ UNCHANGED <<result, run, raced>>
      /\ req' = [req EXCEPT ![r] = Idle]
      /\ row' = row \/ (req[r].state = "REVOKED" /\ row' = [row EXCEPT ![t] = new])
  BY DEF UpdateAndAnswer, Saved
<1>2. Idle.op = "idle"  BY DEF Idle
<1>3. CASE row' = row
  BY <1>1, <1>2, <1>3, RequestFinal
<1>4. CASE req[r].state = "REVOKED" /\ row' = [row EXCEPT ![t] = new]
  <2>1. /\ t \in Tasks /\ req[r].copy \in Rows /\ row \in [Tasks -> Rows]
        /\ req = [q \in Requests |-> req[q]]
    BY <1>1 DEF Inv, TypeInv, TypeOK, ReqOK
  <2>2. req'[r].op = "idle" /\ \A q \in Requests \ {r} : req'[q] = req[q]
    BY <1>1, <1>2, <2>1, ReqUpdate
  <2>3. Created(t) /\ req[r].copy.key = row[t].key
    BY <1>1 DEF Inv, OneRunInv, HeldOK
  <2>4. result[t] = "REVOKED" /\ run[t] = "dead"
    BY <1>1, <1>4, <2>1 DEF Inv, FinalInv
  <2>5. row'[t] = new /\ \A u \in Tasks \ {t} : row'[u] = row[u]
    BY <1>4, <2>1
  <2>6. /\ new \in Rows /\ new.key = row[t].key /\ new.task_state = "REVOKED"
        /\ new.subtasks = req[r].copy.subtasks
    BY <2>1, <2>3, RowUpdate DEF Rows, States, READY_STATES
  <2> HIDE DEF new
  <2>7. row[t].key \notin DelegatingKeys => row[t].subtasks = FALSE /\ new.subtasks = FALSE
    BY <1>1, <2>1, <2>3, <2>6 DEF Inv, FinalInv
  <2>8. row[t].task_state \in READY_STATES /\ row[t].key \notin DelegatingKeys => row'[t] = row[t]
    <3> SUFFICES ASSUME row[t].task_state \in READY_STATES, row[t].key \notin DelegatingKeys
                 PROVE  new = row[t]
      BY <2>5
    <3>1. row[t].task_state = "REVOKED"
      BY <2>1, <2>4 DEF Inv, FinalInv, READY_STATES
    <3>2. row[t] \in Rows  BY <2>1
    <3> QED BY <3>1, <3>2, <2>6, <2>7 DEF Rows
  <2>9. FinalInv'
    <3>1. ASSUME NEW u \in Tasks
          PROVE  /\ row'[u].key \notin DelegatingKeys \/ ~Created(u)' => row'[u].subtasks = FALSE
                 /\ row'[u].key \notin DelegatingKeys =>
                      /\ row'[u].task_state \in READY_STATES => run'[u] \in {"over", "dead"}
                      /\ result'[u] = "REVOKED" => row'[u].task_state \notin {"SUCCESS", "FAILURE"}
                 /\ result'[u] = "REVOKED" => run'[u] = "dead"
      <4>1. CASE u = t  BY <4>1, <1>1, <2>4, <2>5, <2>6, <2>7 DEF Created
      <4>2. CASE u # t  BY <4>2, <1>1, <2>5 DEF Inv, FinalInv, Created
      <4> QED BY <4>1, <4>2
    <3>2. ASSUME NEW q \in Requests
          PROVE  /\ req'[q].op \in {"read", "state"} /\ req'[q].copy.key \notin DelegatingKeys
                      => req'[q].copy.subtasks = FALSE
                 /\ req'[q].op = "state" /\ req'[q].state = "REVOKED"
                      => result'[req'[q].task] = "REVOKED"
      <4>1. CASE q = r  BY <4>1, <2>2
      <4>2. CASE q # r
        <5>1. req'[q] = req[q]  BY <4>2, <2>2
        <5> QED BY <5>1, <1>1 DEF Inv, FinalInv
      <4> QED BY <4>1, <4>2
    <3> QED BY <3>1, <3>2 DEF FinalInv
  <2> QED BY <2>5, <2>8, <2>9
<1> QED BY <1>1, <1>3, <1>4

\* Every step preserves FinalInv and leaves the ready rows without subtasks alone.
LEMMA FinalStep ==
  Inv /\ [Next]_vars =>
    /\ FinalInv'
    /\ \A t \in Tasks : row[t].task_state \in READY_STATES /\ row[t].key \notin DelegatingKeys
                          => row'[t] = row[t]
<1> DEFINE Kept == \A t \in Tasks :
             row[t].task_state \in READY_STATES /\ row[t].key \notin DelegatingKeys => row'[t] = row[t]
<1> SUFFICES ASSUME Inv, [Next]_vars PROVE FinalInv' /\ Kept
  OBVIOUS
<1>1. ASSUME NEW r \in Requests, NEW k \in Keys, CheckRunning(r, k) PROVE FinalInv' /\ Kept
  <2> DEFINE x == [op |-> "checked", key |-> k]
  <2>1. req' = [req EXCEPT ![r] = x] /\ UNCHANGED <<row, result, run>> /\ x.op = "checked"
    BY <1>1 DEF CheckRunning
  <2> HIDE DEF x
  <2> QED BY <2>1, RequestFinal
<1>2. ASSUME NEW r \in Requests, CreateTask(r) PROVE FinalInv' /\ Kept
  <2> DEFINE new == [key |-> req[r].key, task_state |-> "QUEUING", subtasks |-> FALSE]
  <2>1. PICK t \in Tasks : /\ ~Created(t)
                           /\ row' = [row EXCEPT ![t] = new]
                           /\ req' = [req EXCEPT ![r] = [op |-> "created", task |-> t]]
    BY <1>2 DEF CreateTask
  <2>2. row \in [Tasks -> Rows] /\ req = [q \in Requests |-> req[q]] /\ UNCHANGED <<result, run>>
    BY <1>2 DEF Inv, TypeInv, TypeOK, ReqOK, CreateTask
  <2>3. row'[t] = new /\ \A u \in Tasks \ {t} : row'[u] = row[u]
    BY <2>1, <2>2
  <2>4. req'[r].op = "created" /\ \A q \in Requests \ {r} : req'[q] = req[q]
    BY <2>1, <2>2, ReqUpdate
  <2>5. run[t] = "none"  BY <2>1 DEF Inv, OneRunInv, RunOK
  <2>6. Kept  BY <2>1, <2>3 DEF Created, READY_STATES
  <2>7. ASSUME NEW u \in Tasks
        PROVE  /\ row'[u].key \notin DelegatingKeys \/ ~Created(u)' => row'[u].subtasks = FALSE
               /\ row'[u].key \notin DelegatingKeys =>
                    /\ row'[u].task_state \in READY_STATES => run'[u] \in {"over", "dead"}
                    /\ result'[u] = "REVOKED" => row'[u].task_state \notin {"SUCCESS", "FAILURE"}
               /\ result'[u] = "REVOKED" => run'[u] = "dead"
    <3>1. CASE u = t  BY <3>1, <2>2, <2>3, <2>5 DEF Inv, FinalInv, READY_STATES
    <3>2. CASE u # t  BY <3>2, <2>2, <2>3 DEF Inv, FinalInv, Created
    <3> QED BY <3>1, <3>2
  <2>8. ASSUME NEW q \in Requests
        PROVE  /\ req'[q].op \in {"read", "state"} /\ req'[q].copy.key \notin DelegatingKeys
                    => req'[q].copy.subtasks = FALSE
               /\ req'[q].op = "state" /\ req'[q].state = "REVOKED"
                    => result'[req'[q].task] = "REVOKED"
    <3>1. CASE q = r  BY <3>1, <2>4
    <3>2. CASE q # r
      <4>1. req'[q] = req[q]  BY <3>2, <2>4
      <4> QED BY <4>1, <2>2 DEF Inv, FinalInv
    <3> QED BY <3>1, <3>2
  <2> QED BY <2>6, <2>7, <2>8 DEF FinalInv
<1>3. ASSUME NEW r \in Requests, ApplyAsync(r) PROVE FinalInv' /\ Kept
  <2> DEFINE t == req[r].task
  <2>1. /\ req[r].op = "created" /\ UNCHANGED <<row, result>>
        /\ run' = [run EXCEPT ![t] = "queued"] /\ req' = [req EXCEPT ![r] = Idle]
    BY <1>3 DEF ApplyAsync
  <2>2. /\ t \in Tasks /\ req = [q \in Requests |-> req[q]]
        /\ run \in [Tasks -> {"none", "queued", "working", "returned", "raised", "over", "dead"}]
    BY <2>1 DEF Inv, TypeInv, TypeOK, ReqOK
  <2>3. req'[r].op = "idle" /\ \A q \in Requests \ {r} : req'[q] = req[q]
    BY <2>1, <2>2, ReqUpdate DEF Idle
  <2>4. run[t] = "none" /\ Running(t)  BY <2>1 DEF Inv, OneRunInv, HeldOK
  <2>5. result[t] # "REVOKED" /\ row[t].task_state \notin READY_STATES
    BY <2>2, <2>4 DEF Inv, FinalInv, Running
  <2>6. \A u \in Tasks \ {t} : run'[u] = run[u]  BY <2>1, <2>2
  <2>7. ASSUME NEW u \in Tasks
        PROVE  /\ row'[u].key \notin DelegatingKeys \/ ~Created(u)' => row'[u].subtasks = FALSE
               /\ row'[u].key \notin DelegatingKeys =>
                    /\ row'[u].task_state \in READY_STATES => run'[u] \in {"over", "dead"}
                    /\ result'[u] = "REVOKED" => row'[u].task_state \notin {"SUCCESS", "FAILURE"}
               /\ result'[u] = "REVOKED" => run'[u] = "dead"
    <3>1. CASE u = t  BY <3>1, <2>1, <2>5 DEF Inv, FinalInv, Created
    <3>2. CASE u # t  BY <3>2, <2>1, <2>6 DEF Inv, FinalInv, Created
    <3> QED BY <3>1, <3>2
  <2>8. ASSUME NEW q \in Requests
        PROVE  /\ req'[q].op \in {"read", "state"} /\ req'[q].copy.key \notin DelegatingKeys
                    => req'[q].copy.subtasks = FALSE
               /\ req'[q].op = "state" /\ req'[q].state = "REVOKED"
                    => result'[req'[q].task] = "REVOKED"
    <3>1. CASE q = r  BY <3>1, <2>3
    <3>2. CASE q # r
      <4>1. req'[q] = req[q]  BY <3>2, <2>3
      <4> QED BY <4>1, <2>1 DEF Inv, FinalInv
    <3> QED BY <3>1, <3>2
  <2> QED BY <2>1, <2>7, <2>8 DEF FinalInv
<1>4. ASSUME NEW r \in Requests, ApplyAsyncFails(r) PROVE FinalInv' /\ Kept
  <2>1. req' = [req EXCEPT ![r] = Idle] /\ UNCHANGED <<row, result, run>> /\ Idle.op = "idle"
    BY <1>4 DEF ApplyAsyncFails, Idle
  <2> QED BY <2>1, RequestFinal
<1>5. ASSUME NEW r \in Requests, NEW t \in Tasks, BeginStatus(r, t) PROVE FinalInv' /\ Kept
  <2> DEFINE x == [op |-> "read", task |-> t, copy |-> row[t]]
  <2>1. UNCHANGED <<row, result, run>>  BY <1>5 DEF BeginStatus
  <2>2. CASE UNCHANGED req
    BY <2>1, <2>2 DEF Inv, FinalInv, Created
  <2>3. CASE req' = [req EXCEPT ![r] = x]
    <3>1. x.op = "read" /\ (x.copy.key \notin DelegatingKeys => x.copy.subtasks = FALSE)
      BY DEF Inv, FinalInv
    <3> HIDE DEF x
    <3> QED BY <2>1, <2>3, <3>1, RequestFinal
  <2> QED BY <1>5, <2>2, <2>3 DEF BeginStatus
<1>6. ASSUME NEW r \in Requests, ReadState(r) PROVE FinalInv' /\ Kept
  <2> DEFINE x == [op |-> "state", task |-> req[r].task, copy |-> req[r].copy,
                   state |-> result[req[r].task]]
  <2>1. /\ req[r].op = "read" /\ UNCHANGED <<row, result, run>>
        /\ req' = [req EXCEPT ![r] = x]
    BY <1>6 DEF ReadState
  <2>2. /\ x.op = "state" /\ x.state = result[x.task]
        /\ x.copy.key \notin DelegatingKeys => x.copy.subtasks = FALSE
    BY <2>1 DEF Inv, FinalInv
  <2> HIDE DEF x
  <2> QED BY <2>1, <2>2, RequestFinal
<1>7. ASSUME UNCHANGED vars PROVE FinalInv' /\ Kept
  BY <1>7 DEF vars, Inv, FinalInv, Created
<1> QED
  BY <1>1, <1>2, <1>3, <1>4, <1>5, <1>6, <1>7, UpdateFinal, WorkFinal DEF Next, Serve

\* A task without subtasks that was recorded as ready stays as recorded: what status
\* requests read before and save later, whatever they overtake, changes nothing of it
\* (_update_instructor_task, on_success, on_failure).
THEOREM ReadyRowsKept == Spec => ReadyIsFinal
<1> DEFINE Kept == \A t \in Tasks :
             row[t].task_state \in READY_STATES /\ row[t].key \notin DelegatingKeys => row'[t] = row[t]
<1>1. Init => Inv  BY TypeInit, OneRunInit, FinalInit DEF Inv
<1>2. Inv /\ [Next]_vars => Inv'  BY TypeStep, OneRunStep, FinalStep DEF Inv
<1>3. Inv /\ [Next]_vars => [Kept]_vars  BY FinalStep
<1> QED BY <1>1, <1>2, <1>3, PTL DEF Spec, ReadyIsFinal

-----------------------------------------------------------------------------
(* What is reported of a task has happened.                                  *)

\* t has returned, and if subtasks do its work, its row says so.
Succeeded(t) ==
  /\ run[t] \in {"returned", "over", "dead"} /\ result[t] \in {"SUCCESS", "FAILURE"}
  /\ IF row[t].key \in DelegatingKeys
       THEN row[t].subtasks /\ row[t].task_state \in {"PROGRESS", "SUCCESS"}
       ELSE t \in done

\* An answer, with what makes it true for good.
Right(a) ==
  /\ a.task \in Tasks /\ Created(a.task)
  /\ a.fresh \/ row[a.task].key \notin DelegatingKeys =>
       /\ a.state = "SUCCESS" => a.task \in done
       /\ a.state \in READY_STATES => ~Early(a.task) \/ a.task \in done

\* A row and a result say SUCCESS of finished work only, and the row of a task at work
\* that has stored its subtasks is in progress or says that they have finished.
TasksDone ==
  \A t \in Tasks :
    /\ row[t].task_state = "SUCCESS" => t \in done
    /\ run[t] = "returned" => result[t] = "SUCCESS"
    /\ run[t] = "raised" => result[t] = "FAILURE"
    /\ result[t] = "SUCCESS" => Succeeded(t)
    /\ Early(t) /\ row[t].subtasks => row[t].task_state \in {"PROGRESS", "SUCCESS"}

\* What a status request has read was not ready then, and a SUCCESS it has read was one.
ReadsDone ==
  \A r \in Requests :
    /\ req[r].op \in {"read", "state"} => req[r].copy.task_state \notin READY_STATES
    /\ req[r].op = "state" /\ req[r].state = "SUCCESS" => Succeeded(req[r].task)

AnswerInv == TasksDone /\ ReadsDone /\ \A a \in answers : Right(a)

\* What no step takes back.
Lasting ==
  /\ done \subseteq done'
  /\ \A t \in Tasks :
       /\ Succeeded(t) => Succeeded(t)'
       /\ Created(t) => Created(t)' /\ row'[t].key = row[t].key
       /\ Early(t)' => Early(t)

\* In the initial state nothing has been read or reported.
LEMMA AnswerInit == Init => AnswerInv
<1> SUFFICES ASSUME Init PROVE AnswerInv
  OBVIOUS
<1>1. \A t \in Tasks : row[t].task_state = "none" /\ result[t] = "PENDING" /\ run[t] = "none"
                      /\ row[t].subtasks = FALSE
  BY DEF Init
<1>2. \A r \in Requests : req[r].op = "idle"
  BY DEF Init, Idle
<1>3. answers = {}  BY DEF Init
<1> QED BY <1>1, <1>2, <1>3 DEF AnswerInv, TasksDone, ReadsDone

\* The steps of the tasks: on_success writes SUCCESS over the row of a task without
\* subtasks, the last subtask over that of one with subtasks.
LEMMA WorkDone ==
  ASSUME Inv, TasksDone, NEW t \in Tasks, Work(t) \/ Raise(t) \/ Die(t) \/ Revoke(t)
  PROVE  UNCHANGED <<req, answers>> /\ Lasting /\ TasksDone'
<1>1. /\ row \in [Tasks -> Rows] /\ row[t] \in Rows /\ done \subseteq Tasks
      /\ result \in [Tasks -> READY_STATES \cup {"PENDING", "PROGRESS"}]
      /\ run \in [Tasks -> {"none", "queued", "working", "returned", "raised", "over", "dead"}]
  BY DEF Inv, TypeInv, TypeOK
<1>2. /\ UNCHANGED <<req, raced>>
      /\ \A u \in Tasks \ {t} : row'[u] = row[u] /\ run'[u] = run[u] /\ result'[u] = result[u]
      /\ Created(t) /\ row'[t].key = row[t].key /\ Created(t)'
      /\ Early(t)' => Early(t)
  BY WorkRows DEF Inv, OneRunInv
<1>3. UNCHANGED answers /\ done \subseteq done'
  BY DEF Work, Execute, Start, ReportProgress, DefineSubtasks, QueueLast, Return, OnSuccess, OnFailure,
         FinishSubtasks, Raise, Die, Revoke
<1>4. /\ row[t].key \notin DelegatingKeys => row[t].subtasks = FALSE
      /\ run[t] \in {"none", "queued", "working"} => result[t] \in {"PENDING", "PROGRESS"}
  BY <1>2 DEF Inv, FinalInv, OneRunInv, RunOK, Early, Running
<1>5. /\ row[t].task_state = "SUCCESS" => t \in done
      /\ run[t] = "returned" => result[t] = "SUCCESS"
      /\ run[t] = "raised" => result[t] = "FAILURE"
      /\ result[t] = "SUCCESS" => Succeeded(t)
      /\ Early(t) /\ row[t].subtasks => row[t].task_state \in {"PROGRESS", "SUCCESS"}
  BY DEF TasksDone
<1>6. ASSUME Succeeded(t) PROVE Succeeded(t)'
  <2>1. /\ run[t] \in {"returned", "over", "dead"} /\ result[t] \in {"SUCCESS", "FAILURE"}
        /\ row[t].key \in DelegatingKeys
             => row[t].subtasks /\ row[t].task_state \in {"PROGRESS", "SUCCESS"}
        /\ row[t].key \notin DelegatingKeys => t \in done
    BY <1>6 DEF Succeeded
  <2>2. run'[t] \in {"returned", "over", "dead"} /\ result'[t] \in {"SUCCESS", "FAILURE"}
    BY <2>1, <1>1 DEF Work, Execute, Start, ReportProgress, DefineSubtasks, QueueLast, Return, OnSuccess, OnFailure,
       FinishSubtasks, Raise, Die, Revoke
  <2>3. row[t].key \in DelegatingKeys
          => row'[t].subtasks /\ row'[t].task_state \in {"PROGRESS", "SUCCESS"}
    BY <2>1, <1>1 DEF Work, Execute, Start, ReportProgress, DefineSubtasks, QueueLast, Return, OnSuccess, OnFailure,
       FinishSubtasks, Raise, Die, Revoke, Rows
  <2> QED BY <2>1, <2>2, <2>3, <1>2, <1>3 DEF Succeeded
<1>7. Lasting
  BY <1>2, <1>3, <1>6 DEF Lasting, Succeeded, Created, Early
<1>8. /\ run'[t] = "returned" => result'[t] = "SUCCESS"
      /\ run'[t] = "raised" => result'[t] = "FAILURE"
  BY <1>1, <1>5 DEF Work, Execute, Start, ReportProgress, DefineSubtasks, QueueLast, Return, OnSuccess, OnFailure,
     FinishSubtasks, Raise, Die, Revoke
<1>9. ASSUME result'[t] = "SUCCESS" PROVE Succeeded(t)'
  <2>1. CASE result[t] = "SUCCESS"
    BY <2>1, <1>5, <1>6
  <2>2. CASE result[t] # "SUCCESS"
    <3>1. Return(t)
      BY <1>9, <2>2, <1>1 DEF Work, Execute, Start, ReportProgress, DefineSubtasks, QueueLast, OnSuccess, OnFailure,
         FinishSubtasks, Raise, Die, Revoke
    <3>2. /\ row' = row /\ run'[t] = "returned"
          /\ row[t].key \in DelegatingKeys => row[t].subtasks
          /\ row[t].key \notin DelegatingKeys => t \in done'
      BY <3>1, <1>1 DEF Return
    <3>3. row[t].key \in DelegatingKeys => row[t].task_state \in {"PROGRESS", "SUCCESS"}
      BY <3>1, <3>2, <1>5 DEF Return, Early
    <3> QED BY <3>2, <3>3, <1>9 DEF Succeeded
  <2> QED BY <2>1, <2>2
<1>10. row'[t].task_state = "SUCCESS" => t \in done'
  <2>1. CASE row'[t].task_state = row[t].task_state
    BY <2>1, <1>3, <1>5
  <2>2. CASE FinishSubtasks(t)
    BY <2>2 DEF FinishSubtasks
  <2>3. CASE OnSuccess(t)
    <3>1. Succeeded(t)  BY <2>3, <1>5 DEF OnSuccess
    <3>2. CASE row[t].subtasks
      BY <3>2, <2>1, <2>3 DEF OnSuccess
    <3>3. CASE ~row[t].subtasks
      BY <3>1, <3>3, <1>3 DEF Succeeded
    <3> QED BY <3>2, <3>3
  <2>4. CASE row'[t].task_state # row[t].task_state /\ ~FinishSubtasks(t) /\ ~OnSuccess(t)
    BY <2>4, <1>1 DEF Work, Execute, Start, ReportProgress, DefineSubtasks, QueueLast, Return, OnFailure,
       Raise, Die, Revoke, Rows
  <2> QED BY <2>1, <2>2, <2>3, <2>4
<1>11. Early(t)' /\ row'[t].subtasks => row'[t].task_state \in {"PROGRESS", "SUCCESS"}
  <2> SUFFICES ASSUME Early(t)'
               PROVE  row'[t].subtasks => row'[t].task_state \in {"PROGRESS", "SUCCESS"}
    OBVIOUS
  <2>1. CASE row'[t] = row[t]
    BY <2>1, <1>2, <1>5
  <2>2. CASE DefineSubtasks(t)
    BY <2>2, <1>1 DEF DefineSubtasks, Rows
  <2>3. CASE FinishSubtasks(t)
    BY <2>3, <1>1 DEF FinishSubtasks, Rows
  <2>4. CASE row'[t] # row[t] /\ ~DefineSubtasks(t) /\ ~FinishSubtasks(t)
    BY <2>4, <1>1 DEF Early, Work, Execute, Start, ReportProgress, QueueLast, Return,
       OnSuccess, OnFailure,
       Raise, Die, Revoke
  <2> QED BY <2>1, <2>2, <2>3, <2>4
<1>12. TasksDone'
  <2> SUFFICES ASSUME NEW u \in Tasks
               PROVE  /\ row'[u].task_state = "SUCCESS" => u \in done'
                      /\ run'[u] = "returned" => result'[u] = "SUCCESS"
                      /\ run'[u] = "raised" => result'[u] = "FAILURE"
                      /\ result'[u] = "SUCCESS" => Succeeded(u)'
                      /\ Early(u)' /\ row'[u].subtasks => row'[u].task_state \in {"PROGRESS", "SUCCESS"}
    BY DEF TasksDone
  <2>1. CASE u = t  BY <2>1, <1>8, <1>9, <1>10, <1>11
  <2>2. CASE u # t  BY <2>2, <1>2, <1>3, <1>7 DEF TasksDone, Lasting, Early
  <2> QED BY <2>1, <2>2
<1> QED BY <1>2, <1>3, <1>7, <1>12

\* A step that leaves rows, results and runs alone takes nothing back.
LEMMA RequestLasts ==
  ASSUME TasksDone, UNCHANGED <<row, result, run, done>>
  PROVE  Lasting /\ TasksDone'
BY DEF TasksDone, Lasting, Succeeded, Created, Early

\* A request that only remembers something true preserves ReadsDone.
LEMMA RequestReads ==
  ASSUME Inv, ReadsDone, Lasting, NEW r \in Requests, NEW x,
         req' = [req EXCEPT ![r] = x],
         x.op \in {"read", "state"} => x.copy.task_state \notin READY_STATES,
         x.op = "state" => x.task \in Tasks,
         x.op = "state" /\ x.state = "SUCCESS" => Succeeded(x.task)
  PROVE  ReadsDone'
<1>1. req = [q \in Requests |-> req[q]]  BY DEF Inv, TypeInv, ReqOK
<1>2. req'[r] = x /\ \A q \in Requests \ {r} : req'[q] = req[q]
  BY <1>1, ReqUpdate
<1> DEFINE Still(t) ==
             /\ run'[t] \in {"returned", "over", "dead"} /\ result'[t] \in {"SUCCESS", "FAILURE"}
             /\ IF row'[t].key \in DelegatingKeys
                  THEN row'[t].subtasks /\ row'[t].task_state \in {"PROGRESS", "SUCCESS"}
                  ELSE t \in done'
<1>3. \A t \in Tasks : Succeeded(t) => Still(t)
  BY DEF Lasting, Succeeded
<1>4. ASSUME NEW q \in Requests
      PROVE  /\ req'[q].op \in {"read", "state"} => req'[q].copy.task_state \notin READY_STATES
             /\ req'[q].op = "state" /\ req'[q].state = "SUCCESS" => Still(req'[q].task)
  <2> HIDE DEF Still
  <2>1. CASE q = r  BY <1>2, <1>3, <2>1
  <2>2. CASE q # r
    <3>1. req'[q] = req[q]  BY <1>2, <2>2
    <3>2. req[q].op = "state" => req[q].task \in Tasks  BY DEF Inv, TypeInv, ReqOK
    <3> QED BY <1>3, <3>1, <3>2 DEF ReadsDone
  <2> QED BY <2>1, <2>2
<1> QED BY <1>4 DEF ReadsDone, Succeeded

\* An answer stays right.
LEMMA RightLasts ==
  ASSUME Lasting, NEW a, Right(a)
  PROVE  Right(a)'
BY DEF Lasting, Right

\* What lasts keeps the answers right, and one that is right may join them.
LEMMA AnswersLast ==
  ASSUME Lasting, \A a \in answers : Right(a), NEW new, Right(new), answers' \subseteq answers \cup {new}
  PROVE  \A a \in answers' : Right(a)'
BY RightLasts

LEMMA AnswersStay ==
  ASSUME Lasting, \A a \in answers : Right(a), UNCHANGED answers
  PROVE  \A a \in answers' : Right(a)'
BY RightLasts

\* A new row was none, and nothing was ever said of it.
LEMMA CreateDone ==
  ASSUME Inv, TasksDone, NEW r \in Requests, CreateTask(r)
  PROVE  Lasting /\ TasksDone'
<1> DEFINE new == [key |-> req[r].key, task_state |-> "QUEUING", subtasks |-> FALSE]
<1>1. PICK t \in Tasks : /\ ~Created(t)
                         /\ row' = [row EXCEPT ![t] = new]
  BY DEF CreateTask
<1>2. row \in [Tasks -> Rows] /\ UNCHANGED <<result, run, done>>
  BY DEF Inv, TypeInv, TypeOK, CreateTask
<1>3. row'[t] = new /\ \A u \in Tasks \ {t} : row'[u] = row[u]
  BY <1>1, <1>2
<1>4. run[t] = "none" /\ result[t] \in {"PENDING", "PROGRESS"}
  BY <1>1 DEF Inv, OneRunInv, RunOK, Early
<1>5. Lasting
  BY <1>1, <1>2, <1>3, <1>4 DEF Lasting, Succeeded, Created, Early
<1>6. TasksDone'
  <2> SUFFICES ASSUME NEW u \in Tasks
               PROVE  /\ row'[u].task_state = "SUCCESS" => u \in done'
                      /\ run'[u] = "returned" => result'[u] = "SUCCESS"
                      /\ run'[u] = "raised" => result'[u] = "FAILURE"
                      /\ result'[u] = "SUCCESS" => Succeeded(u)'
                      /\ Early(u)' /\ row'[u].subtasks => row'[u].task_state \in {"PROGRESS", "SUCCESS"}
    BY DEF TasksDone
  <2>1. CASE u = t  BY <2>1, <1>2, <1>3, <1>4
  <2>2. CASE u # t  BY <2>2, <1>2, <1>3 DEF TasksDone, Succeeded, Early
  <2> QED BY <2>1, <2>2
<1> QED BY <1>5, <1>6

\* A task that is handed to celery had not started.
LEMMA ApplyDone ==
  ASSUME Inv, TasksDone, NEW r \in Requests, ApplyAsync(r)
  PROVE  Lasting /\ TasksDone'
<1> DEFINE t == req[r].task
<1>1. /\ req[r].op = "created" /\ UNCHANGED <<row, result, done>>
      /\ run' = [run EXCEPT ![t] = "queued"]
  BY DEF ApplyAsync
<1>2. /\ t \in Tasks
      /\ run \in [Tasks -> {"none", "queued", "working", "returned", "raised", "over", "dead"}]
  BY <1>1 DEF Inv, TypeInv, TypeOK, ReqOK
<1>3. run[t] = "none"  BY <1>1 DEF Inv, OneRunInv, HeldOK
<1>4. result[t] \in {"PENDING", "PROGRESS"}
  BY <1>2, <1>3 DEF Inv, OneRunInv, RunOK, Early
<1>5. run'[t] = "queued" /\ \A u \in Tasks \ {t} : run'[u] = run[u]
  BY <1>1, <1>2
<1> HIDE DEF t
<1>6. Lasting
  BY <1>1, <1>2, <1>3, <1>5 DEF Lasting, Succeeded, Created, Early
<1>7. TasksDone'
  <2> SUFFICES ASSUME NEW u \in Tasks
               PROVE  /\ row'[u].task_state = "SUCCESS" => u \in done'
                      /\ run'[u] = "returned" => result'[u] = "SUCCESS"
                      /\ run'[u] = "raised" => result'[u] = "FAILURE"
                      /\ result'[u] = "SUCCESS" => Succeeded(u)'
                      /\ Early(u)' /\ row'[u].subtasks => row'[u].task_state \in {"PROGRESS", "SUCCESS"}
    BY DEF TasksDone
  <2>1. CASE u = t  BY <2>1, <1>1, <1>3, <1>4, <1>5 DEF TasksDone, Early
  <2>2. CASE u # t  BY <2>2, <1>1, <1>5 DEF TasksDone, Succeeded, Early
  <2> QED BY <2>1, <2>2
<1> QED BY <1>6, <1>7

\* The row that a status request saves is that of a task that was revoked: it had not
\* succeeded, and is not at work.
LEMMA UpdateDone ==
  ASSUME Inv, TasksDone, NEW r \in Requests, UpdateAndAnswer(r)
  PROVE  Lasting /\ TasksDone'
<1> DEFINE t == req[r].task
           new == [req[r].copy EXCEPT !.task_state = "REVOKED"]
<1>1. /\ req[r].op = "state" /\ UNCHANGED <<result, run, done>>
      /\ row' = row \/ (req[r].state = "REVOKED" /\ row' = [row EXCEPT ![t] = new])
  BY DEF UpdateAndAnswer, Saved
<1>2. CASE row' = row
  BY <1>1, <1>2, RequestLasts
<1>3. CASE req[r].state = "REVOKED" /\ row' = [row EXCEPT ![t] = new]
  <2>1. t \in Tasks /\ req[r].copy \in Rows /\ row \in [Tasks -> Rows]
    BY <1>1 DEF Inv, TypeInv, TypeOK, ReqOK
  <2>2. Created(t) /\ req[r].copy.key = row[t].key
    BY <1>1 DEF Inv, OneRunInv, HeldOK
  <2>3. result[t] = "REVOKED" /\ run[t] = "dead"
    BY <1>1, <1>3, <2>1 DEF Inv, FinalInv
  <2>4. row'[t] = new /\ \A u \in Tasks \ {t} : row'[u] = row[u]
    BY <1>3, <2>1
  <2>5. new.key = row[t].key /\ new.task_state = "REVOKED"
    BY <2>1, <2>2 DEF Rows
  <2> HIDE DEF new, t
  <2>6. Lasting
    BY <1>1, <2>2, <2>3, <2>4, <2>5 DEF Lasting, Succeeded, Created, Early
  <2>7. TasksDone'
    <3> SUFFICES ASSUME NEW u \in Tasks
                 PROVE  /\ row'[u].task_state = "SUCCESS" => u \in done'
                        /\ run'[u] = "returned" => result'[u] = "SUCCESS"
                        /\ run'[u] = "raised" => result'[u] = "FAILURE"
                        /\ result'[u] = "SUCCESS" => Succeeded(u)'
                        /\ Early(u)' /\ row'[u].subtasks => row'[u].task_state \in {"PROGRESS", "SUCCESS"}
      BY DEF TasksDone
    <3>1. CASE u = t  BY <3>1, <1>1, <2>3, <2>4, <2>5 DEF Early
    <3>2. CASE u # t  BY <3>2, <1>1, <2>4 DEF TasksDone, Succeeded, Early
    <3> QED BY <3>1, <3>2
  <2> QED BY <2>6, <2>7
<1> QED BY <1>1, <1>2, <1>3

\* A request that found the row ready reports what the row records.
LEMMA BeginAnswer ==
  ASSUME Inv, TasksDone, NEW t \in Tasks, Created(t), row[t].task_state \in READY_STATES
  PROVE  Right(AnswerOf(t, row[t].task_state, row[t]))
<1>1. ~Early(t) \/ t \in done  BY DEF Inv, OneRunInv, RunOK, Running
<1>2. row[t].task_state = "SUCCESS" => t \in done  BY DEF TasksDone
<1> QED BY <1>1, <1>2 DEF Right, AnswerOf

\* The answer of a request that has read the result: for a task with subtasks whose row
\* has not changed it is PROGRESS, or of a task that has not succeeded.
LEMMA UpdateAnswer ==
  ASSUME Inv, TasksDone, ReadsDone, NEW r \in Requests, req[r].op = "state"
  PROVE  LET t == req[r].task  copy == req[r].copy
             withSubtasks == copy.task_state = "PROGRESS" /\ copy.subtasks
         IN  Right(AnswerOf(t, IF withSubtasks THEN "PROGRESS" ELSE req[r].state, copy))
<1> DEFINE t == req[r].task
           copy == req[r].copy
           withSubtasks == copy.task_state = "PROGRESS" /\ copy.subtasks
           state == IF withSubtasks THEN "PROGRESS" ELSE req[r].state
<1>1. t \in Tasks /\ Created(t)
  BY DEF Inv, TypeInv, ReqOK, OneRunInv, HeldOK
<1>2. ASSUME state \in READY_STATES PROVE ~withSubtasks /\ state = req[r].state /\ ~Early(t)
  <2>1. ~withSubtasks /\ state = req[r].state  BY <1>2 DEF READY_STATES
  <2> QED BY <1>2, <2>1 DEF Inv, OneRunInv, HeldOK
<1>3. ASSUME state = "SUCCESS", copy = row[t] \/ row[t].key \notin DelegatingKeys
      PROVE  t \in done
  <2>1. ~withSubtasks /\ req[r].state = "SUCCESS"  BY <1>2, <1>3 DEF READY_STATES
  <2>2. Succeeded(t) /\ copy.task_state \notin READY_STATES  BY <2>1 DEF ReadsDone
  <2>3. CASE row[t].key \notin DelegatingKeys
    BY <2>2, <2>3 DEF Succeeded
  <2>4. CASE row[t].key \in DelegatingKeys
    <3>1. copy.subtasks /\ copy.task_state \in {"PROGRESS", "SUCCESS"}
      BY <1>3, <2>2, <2>4 DEF Succeeded
    <3> QED BY <2>1, <2>2, <3>1 DEF READY_STATES
  <2> QED BY <2>3, <2>4
<1> HIDE DEF state
<1>4. Right([task |-> t, state |-> state, fresh |-> (copy = row[t])])
  BY <1>1, <1>2, <1>3 DEF Right
<1> QED BY <1>4 DEF AnswerOf, state

LEMMA AnswerStep == Inv /\ AnswerInv /\ [Next]_vars => AnswerInv'
<1> SUFFICES ASSUME Inv, AnswerInv, [Next]_vars PROVE AnswerInv'
  OBVIOUS
<1>1. TasksDone /\ ReadsDone /\ \A a \in answers : Right(a)  BY DEF AnswerInv
<1>2. Idle.op = "idle"  BY DEF Idle
<1>3. ASSUME NEW t \in Tasks, Work(t) \/ Raise(t) \/ Die(t) \/ Revoke(t) PROVE AnswerInv'
  <2>1. UNCHANGED <<req, answers>> /\ Lasting /\ TasksDone'  BY <1>1, <1>3, WorkDone
  <2>2. ReadsDone'
    <3>1. \A r \in Requests : req[r].op = "state" => req[r].task \in Tasks
      BY DEF Inv, TypeInv, ReqOK
    <3> QED BY <1>1, <2>1, <3>1 DEF ReadsDone, Lasting, Succeeded
  <2>3. \A a \in answers' : Right(a)'  BY <1>1, <2>1, AnswersStay
  <2> QED BY <2>1, <2>2, <2>3 DEF AnswerInv
<1>4. ASSUME NEW r \in Requests, NEW k \in Keys, CheckRunning(r, k) PROVE AnswerInv'
  <2> DEFINE x == [op |-> "checked", key |-> k]
  <2>1. /\ req' = [req EXCEPT ![r] = x] /\ UNCHANGED <<row, result, run, done, answers>>
        /\ x.op = "checked"
    BY <1>4 DEF CheckRunning
  <2>2. Lasting /\ TasksDone'  BY <1>1, <2>1, RequestLasts
  <2> HIDE DEF x
  <2>3. ReadsDone'  BY <1>1, <2>1, <2>2, RequestReads
  <2>4. \A a \in answers' : Right(a)'  BY <1>1, <2>1, <2>2, AnswersStay
  <2> QED BY <2>2, <2>3, <2>4 DEF AnswerInv
<1>5. ASSUME NEW r \in Requests, CreateTask(r) PROVE AnswerInv'
  <2>1. Lasting /\ TasksDone' /\ UNCHANGED answers  BY <1>1, <1>5, CreateDone DEF CreateTask
  <2>2. PICK t \in Tasks : req' = [req EXCEPT ![r] = [op |-> "created", task |-> t]]
    BY <1>5 DEF CreateTask
  <2>3. ReadsDone'  BY <1>1, <2>1, <2>2, RequestReads
  <2>4. \A a \in answers' : Right(a)'  BY <1>1, <2>1, AnswersStay
  <2> QED BY <2>1, <2>3, <2>4 DEF AnswerInv
<1>6. ASSUME NEW r \in Requests, ApplyAsync(r) \/ ApplyAsyncFails(r) PROVE AnswerInv'
  <2>1. req' = [req EXCEPT ![r] = Idle] /\ UNCHANGED answers
    BY <1>6 DEF ApplyAsync, ApplyAsyncFails
  <2>2. Lasting /\ TasksDone'
    BY <1>1, <1>6, ApplyDone, RequestLasts DEF ApplyAsyncFails
  <2>3. ReadsDone'  BY <1>1, <1>2, <2>1, <2>2, RequestReads
  <2>4. \A a \in answers' : Right(a)'  BY <1>1, <2>1, <2>2, AnswersStay
  <2> QED BY <2>2, <2>3, <2>4 DEF AnswerInv
<1>7. ASSUME NEW r \in Requests, NEW t \in Tasks, BeginStatus(r, t) PROVE AnswerInv'
  <2>1. UNCHANGED <<row, result, run, done>> /\ Created(t)  BY <1>7 DEF BeginStatus
  <2>2. Lasting /\ TasksDone'  BY <1>1, <2>1, RequestLasts
  <2>3. CASE row[t].task_state \in READY_STATES
    <3>1. answers' = answers \cup {AnswerOf(t, row[t].task_state, row[t])} /\ UNCHANGED req
      BY <1>7, <2>3 DEF BeginStatus
    <3>2. Right(AnswerOf(t, row[t].task_state, row[t]))  BY <1>1, <2>1, <2>3, BeginAnswer
    <3>3. \A a \in answers' : Right(a)'  BY <1>1, <2>2, <3>1, <3>2, AnswersLast
    <3>4. ReadsDone'  BY <1>1, <2>1, <3>1 DEF ReadsDone, Succeeded
    <3> QED BY <2>2, <3>3, <3>4 DEF AnswerInv
  <2>4. CASE row[t].task_state \notin READY_STATES
    <3> DEFINE x == [op |-> "read", task |-> t, copy |-> row[t]]
    <3>1. req' = [req EXCEPT ![r] = x] /\ UNCHANGED answers  BY <1>7, <2>4 DEF BeginStatus
    <3>2. x.op = "read" /\ x.copy.task_state \notin READY_STATES  BY <2>4
    <3> HIDE DEF x
    <3>3. ReadsDone'  BY <1>1, <2>2, <3>1, <3>2, RequestReads
    <3>4. \A a \in answers' : Right(a)'  BY <1>1, <2>2, <3>1, AnswersStay
    <3> QED BY <2>2, <3>3, <3>4 DEF AnswerInv
  <2> QED BY <2>3, <2>4
<1>8. ASSUME NEW r \in Requests, ReadState(r) PROVE AnswerInv'
  <2> DEFINE x == [op |-> "state", task |-> req[r].task, copy |-> req[r].copy,
                   state |-> result[req[r].task]]
  <2>1. /\ req[r].op = "read" /\ UNCHANGED <<row, result, run, done, answers>>
        /\ req' = [req EXCEPT ![r] = x]
    BY <1>8 DEF ReadState
  <2>2. Lasting /\ TasksDone'  BY <1>1, <2>1, RequestLasts
  <2>3. req[r].task \in Tasks  BY <2>1 DEF Inv, TypeInv, ReqOK
  <2>4. /\ x.op = "state" /\ x.task \in Tasks /\ x.copy.task_state \notin READY_STATES
        /\ x.state = "SUCCESS" => Succeeded(x.task)
    BY <1>1, <2>1, <2>3 DEF ReadsDone, TasksDone
  <2> HIDE DEF x
  <2>5. ReadsDone'  BY <1>1, <2>1, <2>2, <2>4, RequestReads
  <2>6. \A a \in answers' : Right(a)'  BY <1>1, <2>1, <2>2, AnswersStay
  <2> QED BY <2>2, <2>5, <2>6 DEF AnswerInv
<1>9. ASSUME NEW r \in Requests, UpdateAndAnswer(r) PROVE AnswerInv'
  <2> DEFINE t == req[r].task
             copy == req[r].copy
             withSubtasks == copy.task_state = "PROGRESS" /\ copy.subtasks
             new == AnswerOf(t, IF withSubtasks THEN "PROGRESS" ELSE req[r].state, copy)
  <2>1. Lasting /\ TasksDone'  BY <1>1, <1>9, UpdateDone
  <2>2. /\ req[r].op = "state" /\ req' = [req EXCEPT ![r] = Idle]
        /\ answers' \subseteq answers \cup {new}
    BY <1>9 DEF UpdateAndAnswer
  <2>3. Right(new)  BY <1>1, <2>2, UpdateAnswer
  <2> HIDE DEF new
  <2>4. ReadsDone'  BY <1>1, <1>2, <2>1, <2>2, RequestReads
  <2>5. \A a \in answers' : Right(a)'  BY <1>1, <2>1, <2>2, <2>3, AnswersLast
  <2> QED BY <2>1, <2>4, <2>5 DEF AnswerInv
<1>10. ASSUME UNCHANGED vars PROVE AnswerInv'
  BY <1>10 DEF vars, AnswerInv, TasksDone, ReadsDone, Right, Succeeded, Early, Created
<1> QED
  BY <1>3, <1>4, <1>5, <1>6, <1>7, <1>8, <1>9, <1>10 DEF Next, Serve

\* What a status request reports has happened, whatever it overtakes between reading the
\* row, the result and writing the row back: SUCCESS only of finished work, an end only
\* of a task that has left its worker or has nothing left to do there
\* (get_updated_instructor_task, _update_instructor_task).
THEOREM AnswersAlwaysTrue == Spec => []AnswersTrue
<1>1. Init => Inv /\ AnswerInv  BY TypeInit, OneRunInit, FinalInit, AnswerInit DEF Inv
<1>2. Inv /\ AnswerInv /\ [Next]_vars => (Inv /\ AnswerInv)'
  BY TypeStep, OneRunStep, FinalStep, AnswerStep DEF Inv
<1>3. Inv /\ AnswerInv => AnswersTrue
  BY DEF AnswerInv, AnswersTrue, Right, Alive, Early
<1> QED BY <1>1, <1>2, <1>3, PTL DEF Spec
=============================================================================
