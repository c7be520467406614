-------------------------- MODULE ProblemAttempts --------------------------
(***************************************************************************)
(* One student's state of one problem: checks, saves and resets by the     *)
(* student, answers of the external grader, and the instructor tasks that  *)
(* rescore, reset or delete the state.                                     *)
(*                                                                         *)
(* A request reads the StudentModule row without a lock, works on its copy *)
(* and saves the whole row when it commits; only the callback of the       *)
(* external grader (xqueue) locks the row first.  A submission is sent to  *)
(* the grader before the row that waits for it is committed.               *)
(*                                                                         *)
(* Source: common/lib/xmodule/xmodule/capa_base.py; capa_problem.py,       *)
(* correctmap.py, responsetypes.py (CodeResponse) of common/lib/capa/capa; *)
(* lms/djangoapps/courseware/module_render.py, model_data.py;              *)
(* lms/djangoapps/instructor_task/tasks_helper.py.                         *)
(***************************************************************************)
EXTENDS Integers, FiniteSets

CONSTANTS
  Answers,       \* what the student may enter
  Right,         \* the answers that earn the point
  NoAnswer,
  MaxAttempts,   \* max_attempts
  WaitTime,      \* seconds between two submissions of a queued problem
  Handlers,      \* requests and tasks served at once
  MaxTime,       \* bound: seconds
  MaxRequests,   \* bound: requests of the student and updates by tasks
  MaxRedelivered \* bound: replies of the grader that arrive again

ASSUME AnswerAssumption == Right \subseteq Answers /\ NoAnswer \notin Answers
ASSUME BoundAssumption ==
  /\ MaxAttempts \in Nat /\ WaitTime \in Nat \ {0}
  /\ MaxTime \in Nat \ {0} /\ MaxRequests \in Nat /\ MaxRedelivered \in Nat

VARIABLES
  problem,    \* graded externally or at once; whether it must be reset before each check
  row,        \* the StudentModule row
  req,        \* what each handler is doing: the row as it read it, the row it will save
  xqueue,     \* submissions the grader has: key (the time), answer, whether replied to
  now,        \* the clock, in seconds
  pastDue,    \* the due date has passed
  raced,      \* history: the row was written while somebody held a copy of it
  collided,   \* history: two submissions got one key
  submitted,  \* history: submissions since the attempts were last reset
  used        \* how much of the bounds is used up

vars == <<problem, row, req, xqueue, now, pastDue, raced, collided, submitted, used>>

Times == 1..MaxTime

\* queued is the key and time of the queue state, 0 when there is none; judged is a
\* ghost: the answer that the correct map is about.
Blank == [exists |-> FALSE, attempts |-> 0, done |-> FALSE, answer |-> NoAnswer,
          judged |-> NoAnswer, queued |-> 0, points |-> 0, grade |-> 0]
Idle == [op |-> "idle"]

Init ==
  /\ problem \in [external : BOOLEAN, always : BOOLEAN]
  /\ row = [Blank EXCEPT !.exists = TRUE]
  /\ req = [h \in Handlers |-> Idle]
  /\ xqueue = {}
  /\ now = 1 /\ pastDue = FALSE
  /\ raced = FALSE /\ collided = FALSE
  /\ submitted = 0
  /\ used = [requests |-> 0, redelivered |-> 0]

-----------------------------------------------------------------------------
(* The problem.                                                            *)

\* get_score of the capa problem
Score(r) == IF r.answer = NoAnswer THEN 0 ELSE r.points

Published(r) == [r EXCEPT !.grade = Score(r)]

PointsFor(a) == IF a \in Right THEN 1 ELSE 0

ClosedLate(r) == r.attempts > MaxAttempts \/ pastDue  \* mutant

Closed(r) == r.attempts >= MaxAttempts \/ pastDue

MustReset(r) == r.done /\ problem.always

MustWait(r) == r.queued # 0 /\ now - r.queued < WaitTime

MayCheck(r) == ~Closed(r) /\ ~MustReset(r) /\ ~MustWait(r)

\* The correct map is new: a queue state, or the result of grading at once.
Graded(r, a, key) ==
  [r EXCEPT !.answer = a, !.judged = a, !.queued = key,
            !.points = IF problem.external THEN 0 ELSE PointsFor(a)]

Attempted(r) == Published([r EXCEPT !.attempts = @ + 1, !.done = TRUE])

\* Mutant: a reset gives the attempts back.
ResetProblemAndAttempts(r) == [Blank EXCEPT !.exists = r.exists, !.grade = r.grade]

\* reset_problem: a new problem without answers; attempts and grade stay.
ResetProblem(r) == [r EXCEPT !.done = FALSE, !.answer = NoAnswer, !.judged = NoAnswer,
                             !.queued = 0, !.points = 0]

\* rescore_problem: grades what student_answers holds now.
Rescored(r) == Published(Graded(r, r.answer, 0))

AnyQueuekey(r, key) == r.queued # 0                  \* mutant: whichever reply comes first
NextQueuekey(r, key) == r.queued = key /\ now = key  \* mutant: the key is made from the clock

IsRightQueuekey(r, key) == r.queued = key

\* update_score with a reply that parses: other keys are ignored, but the grade is
\* published in any case.
ScoreUpdated(r, s) ==
  Published(IF IsRightQueuekey(r, s.key)
              THEN [r EXCEPT !.queued = 0, !.points = PointsFor(s.answer)] ELSE r)

\* A reply that does not parse clears the entry, queue state included, whatever its key.
InvalidReplied(r) == Published([r EXCEPT !.queued = 0, !.points = 0])

-----------------------------------------------------------------------------
(* Requests of the student.                                                *)

Busy(h) == \E g \in Handlers \ {h} : req[g] # Idle

Begin(h, r) ==
  /\ req[h] = Idle
  /\ used.requests < MaxRequests
  /\ used' = [used EXCEPT !.requests = @ + 1]
  /\ req' = [req EXCEPT ![h] = r]
  /\ UNCHANGED <<problem, row, xqueue, now, pastDue, raced, collided, submitted>>

\* What a handler will save, and what it read.
Save(op, r) == [op |-> op, read |-> row, write |-> r]

\* check_problem, as far as its early returns.
BeginCheck(h, a) == MayCheck(row) /\ Begin(h, [op |-> "check", read |-> row, answer |-> a])

\* grade_answers; the submission goes to the grader under a key made from the time.
GradeAnswers(h) ==
  LET r == req[h] IN
  /\ r.op = "check"
  /\ req' = [req EXCEPT ![h] = [op |-> "checked", read |-> r.read, write |->
               Attempted(Graded(r.read, r.answer, IF problem.external THEN now ELSE 0))]]
  /\ xqueue' = IF problem.external
                 THEN xqueue \cup {[key |-> now, answer |-> r.answer, replied |-> FALSE]} ELSE xqueue
  /\ collided' = (collided \/ (problem.external /\ \E s \in xqueue : s.key = now))
  /\ UNCHANGED <<problem, row, now, pastDue, raced, submitted, used>>

\* The grader cannot be reached: the attempt counts, nothing is queued.
SendFails(h) ==
  LET r == req[h] IN
  /\ r.op = "check" /\ problem.external
  /\ req' = [req EXCEPT ![h] = [op |-> "checked", read |-> r.read,
                                write |-> Attempted(Graded(r.read, r.answer, 0))]]
  /\ UNCHANGED <<problem, row, xqueue, now, pastDue, raced, collided, submitted, used>>

\* StudentInputError: the answers are saved, nothing is graded, no attempt is counted.
InputError(h) ==
  LET r == req[h] IN
  /\ r.op = "check"
  /\ req' = [req EXCEPT ![h] = [op |-> "save", read |-> r.read,
                                write |-> [r.read EXCEPT !.answer = r.answer]]]
  /\ UNCHANGED <<problem, row, xqueue, now, pastDue, raced, collided, submitted, used>>

\* save_problem
BeginSave(h, a) ==
  /\ MaxAttempts = 0 \/ ~Closed(row)
  /\ ~MustReset(row)
  /\ Begin(h, Save("save", [row EXCEPT !.answer = a]))

\* reset_problem
BeginReset(h) ==
  /\ ~Closed(row) /\ row.done
  /\ Begin(h, Save("save", ResetProblem(row)))

-----------------------------------------------------------------------------
(* Instructor tasks.                                                       *)

\* rescore_problem_module_state; problems graded externally do not support it.
BeginRescore(h) ==
  /\ row.exists /\ row.done /\ ~problem.external
  /\ Begin(h, Save("save", Rescored(row)))

\* reset_attempts_module_state: the row is the one the query of the task has read.
BeginResetAttempts(h) ==
  /\ row.exists /\ row.attempts > 0
  /\ Begin(h, Save("reset", [row EXCEPT !.attempts = 0]))

\* delete_problem_module_state
DeleteState(h) ==
  /\ row.exists
  /\ req[h] = Idle /\ used.requests < MaxRequests
  /\ used' = [used EXCEPT !.requests = @ + 1]
  /\ row' = Blank
  /\ raced' = (raced \/ Busy(h))
  /\ submitted' = 0
  /\ UNCHANGED <<problem, req, xqueue, now, pastDue, collided>>

\* The whole row is saved; an update of a row deleted since it was read does nothing.
Commit(h) ==
  LET r == req[h]
      lost == r.read.exists /\ ~row.exists
  IN
  /\ r.op \in {"checked", "save", "reset"}
  /\ row' = IF lost THEN row ELSE [r.write EXCEPT !.exists = TRUE]
  /\ raced' = (raced \/ Busy(h))
  /\ submitted' = CASE r.op = "reset" -> 0 [] r.op = "checked" -> submitted + 1 [] OTHER -> submitted
  /\ req' = [req EXCEPT ![h] = Idle]
  /\ UNCHANGED <<problem, xqueue, now, pastDue, collided, used>>

-----------------------------------------------------------------------------
(* The external grader.                                                    *)

\* xqueue_callback, with the row locked; it is created when it was deleted.
Callback(s, r) ==
  /\ row' = [r EXCEPT !.exists = TRUE]
  /\ xqueue' = (xqueue \ {s}) \cup {[s EXCEPT !.replied = TRUE]}
  /\ raced' = (raced \/ \E h \in Handlers : req[h] # Idle)
  /\ UNCHANGED <<problem, req, now, pastDue, collided, submitted>>

Reply(s) == ~s.replied /\ Callback(s, ScoreUpdated(row, s)) /\ UNCHANGED used

InvalidReply(s) == ~s.replied /\ Callback(s, InvalidReplied(row)) /\ UNCHANGED used

ReplyAgain(s) ==
  /\ s.replied
  /\ used.redelivered < MaxRedelivered
  /\ used' = [used EXCEPT !.redelivered = @ + 1]
  /\ Callback(s, ScoreUpdated(row, s))

-----------------------------------------------------------------------------
Tick ==
  /\ now < MaxTime
  /\ now' = now + 1
  /\ UNCHANGED <<problem, row, req, xqueue, pastDue, raced, collided, submitted, used>>

BecomeDue ==
  /\ ~pastDue
  /\ pastDue' = TRUE
  /\ UNCHANGED <<problem, row, req, xqueue, now, raced, collided, submitted, used>>

Submissions == [key : Times, answer : Answers, replied : BOOLEAN]

Next ==
  \/ \E h \in Handlers : \/ GradeAnswers(h) \/ SendFails(h) \/ InputError(h) \/ Commit(h)
                         \/ BeginReset(h) \/ BeginRescore(h) \/ BeginResetAttempts(h) \/ DeleteState(h)
                         \/ \E a \in Answers : BeginCheck(h, a) \/ BeginSave(h, a)
  \/ \E s \in xqueue : Reply(s) \/ InvalidReply(s) \/ ReplyAgain(s)
  \/ Tick \/ BecomeDue

Spec == Init /\ [][Next]_vars

\* The grader replies to every submission, and its reply is served.
Fairness == \A s \in Submissions : WF_vars(s \in xqueue /\ (Reply(s) \/ InvalidReply(s)))

FairSpec == Spec /\ Fairness

-----------------------------------------------------------------------------
Rows == [exists : BOOLEAN, attempts : 0..MaxAttempts, done : BOOLEAN, answer : Answers \cup {NoAnswer},
         judged : Answers \cup {NoAnswer}, queued : 0..MaxTime, points : 0..1, grade : 0..1]

\* The row, the submissions and the histories are well-formed; attempts stay
\* within max_attempts though requests work on old copies.
TypeOK ==
  /\ problem \in [external : BOOLEAN, always : BOOLEAN]
  /\ row \in Rows
  /\ xqueue \subseteq Submissions
  /\ now \in Times /\ pastDue \in BOOLEAN /\ raced \in BOOLEAN /\ collided \in BOOLEAN
  /\ submitted \in Nat

\* The point is given for the answer that was submitted last in this row's history,
\* never by a late or repeated reply about an earlier one, and the grade of a done
\* problem is its score: under any interleaving, unless one second saw two
\* submissions (is_right_queuekey, publish_grade).
GradeOfAnswer ==
  ~collided =>
    /\ row.points = 1 => row.judged \in Right
    /\ row.done => row.grade = Score(row)

\* When nobody writes the row while another holds a copy, attempts counts the
\* submissions since the attempts were reset: errors, saves, resets of the
\* problem and rescores leave it alone (check_problem, "rescoring should have no
\* effect on attempts").
AttemptsCounted == ~raced => row.attempts = submitted

\* A problem does not wait for the grader for ever: its reply is recognised, unless
\* the row was written while another held a copy of it.
EventuallyGraded == row.queued # 0 ~> row.queued = 0 \/ raced
=============================================================================
