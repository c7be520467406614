------------------------- MODULE PhotoVerification -------------------------
(***************************************************************************)
(* The photo verifications of one user: attempts that Software Secure      *)
(* judges, for the initial verification and for the midcourse one of a     *)
(* course.                                                                 *)
(*                                                                         *)
(* A request reads when it begins and its writes become visible when it    *)
(* commits; what it sends to Software Secure is sent in between.  The      *)
(* command that repeats failed submissions works through a list it read    *)
(* once.                                                                   *)
(*                                                                         *)
(* Source: lms/djangoapps/verify_student/models.py, views.py,              *)
(* management/commands/retry_failed_photo_verifications.py;                *)
(* lms/djangoapps/shoppingcart/models.py (purchased_callback).             *)
(***************************************************************************)
EXTENDS Integers, FiniteSets, FiniteSetsExt

CONSTANTS
  Handlers,        \* web workers that serve requests about this user
  MaxAttempts,     \* bound: attempts, numbered in the order of their creation
  MaxSubmissions,  \* bound: submissions sent to Software Secure
  MaxRepeats       \* bound: answers, of either service, that come once more

ASSUME PhotoBoundAssumption ==
  MaxAttempts \in Nat /\ MaxSubmissions \in Nat /\ MaxRepeats \in Nat

VARIABLES
  attempt,     \* the rows: status ("none" before the row is committed), reverification or not
  windowed,    \* the course has a reverification window
  expired,     \* attempts up to this one are older than DAYS_GOOD_FOR
  updated,     \* the reverification that was saved last, 0 for none
  req,         \* the request each handler is serving, with what it is going to write
  retry,       \* the retry command: the attempts left of its list, the one just sent
  submissions, \* how often submit() was called
  unanswered,  \* how many submissions of each attempt Software Secure still has to answer
  verdict,     \* history: the last decision the callback has recorded for each attempt
  passed,      \* history: the callback has recorded a PASS
  crossed,     \* history: attempts two of the program's processes held at once
  repeats      \* answers that came once more

photoVars == <<attempt, windowed, expired, updated, req, retry, submissions,
               unanswered, verdict, passed, crossed, repeats>>

Attempts == 1..MaxAttempts
Results  == {"PASS", "FAIL", "SYSTEM FAIL"}
Statuses == {"ready", "submitted", "must_retry", "approved", "denied"}
Idle     == [op |-> "idle"]
NoRetry  == [todo |-> {}, at |-> 0, status |-> "none"]

-----------------------------------------------------------------------------
Exists(a) == attempt[a].status # "none"

\* The attempts of the initial verification that are young enough to count.
Initial == {a \in Attempts : Exists(a) /\ ~attempt[a].reverification /\ a > expired}

UserIsVerified == \E a \in Initial : attempt[a].status = "approved"

\* user_has_valid_or_pending
HasValidOrPending ==
  \E a \in Initial : attempt[a].status \in {"submitted", "approved", "must_retry"}

\* user_is_reverified_for_all: the last reverification of every window is approved.
ReverifiedForAll ==
  \/ ~windowed
  \/ updated # 0 /\ attempt[updated].status = "approved"

\* active_for_user: the newest initial attempt that is ready, of any age.
ReadyAttempts == {a \in Attempts : attempt[a].status = "ready" /\ ~attempt[a].reverification}

\* The attempts a request or the command has read and is going to save.
HeldBy(h) == IF req[h].op \in {"answer", "submit"} THEN {req[h].attempt} ELSE {}
Held == retry.todo \cup ({retry.at} \ {0}) \cup UNION {HeldBy(h) : h \in Handlers}

Reserved == {req[h].attempt : h \in {g \in Handlers : req[g].op \in {"order", "submit"}}}
FreeAttempts == {a \in Attempts : ~Exists(a)} \ Reserved

PhotoInit ==
  /\ attempt = [a \in Attempts |-> [status |-> "none", reverification |-> FALSE]]
  /\ windowed = FALSE /\ expired = 0 /\ updated = 0
  /\ req = [h \in Handlers |-> Idle]
  /\ retry = NoRetry
  /\ submissions = 0 /\ unanswered = [a \in Attempts |-> 0]
  /\ verdict = [a \in Attempts |-> "none"]
  /\ passed = FALSE /\ crossed = {} /\ repeats = 0

\* Mutant: every save counts as one of a reverification.
SaveAnyAttempt(a, row) == attempt' = [attempt EXCEPT ![a] = row] /\ updated' = a

\* A row is saved; updated_at orders the reverifications.
SaveAttempt(a, row) ==
  /\ attempt' = [attempt EXCEPT ![a] = row]
  /\ updated' = IF row.reverification THEN a ELSE updated

-----------------------------------------------------------------------------
(* Submitting.                                                             *)

\* submit: the request may arrive at Software Secure although its answer is an
\* error or gets lost.  status is what submit() then saves.
SendRequest(a, status) ==
  /\ submissions < MaxSubmissions
  /\ submissions' = submissions + 1
  /\ status \in {"submitted", "must_retry"}
  /\ \/ unanswered' = [unanswered EXCEPT ![a] = @ + 1]
     \/ status = "must_retry" /\ UNCHANGED unanswered

\* create_order: a request without a valid or pending attempt makes a new one.
BeginOrder(h) ==
  /\ req[h] = Idle
  /\ ~HasValidOrPending
  /\ FreeAttempts # {}
  /\ req' = [req EXCEPT ![h] = [op |-> "order", attempt |-> Min(FreeAttempts)]]
  /\ UNCHANGED <<attempt, windowed, expired, updated, retry, submissions,
                 unanswered, verdict, passed, crossed, repeats>>

CommitOrder(h) ==
  /\ req[h].op = "order"
  /\ SaveAttempt(req[h].attempt, [status |-> "ready", reverification |-> FALSE])
  /\ req' = [req EXCEPT ![h] = Idle]
  /\ UNCHANGED <<windowed, expired, retry, submissions, unanswered, verdict, passed,
                 crossed, repeats>>

Submitting(h, a, reverification) ==
  /\ req[h] = Idle
  /\ \E status \in {"submitted", "must_retry"} :
       /\ SendRequest(a, status)
       /\ req' = [req EXCEPT ![h] =
            [op |-> "submit", attempt |-> a, status |-> status, reverification |-> reverification]]
  /\ crossed' = IF a \in Held THEN crossed \cup {a} ELSE crossed

\* purchased_callback of the certificate submits the active attempt.
BeginPurchase(h) ==
  /\ ReadyAttempts # {}
  /\ Submitting(h, Max(ReadyAttempts), FALSE)
  /\ UNCHANGED <<attempt, windowed, expired, updated, retry, verdict, passed, repeats>>

\* ReverifyView.post makes a new attempt, whatever the state of the others.
BeginReverify(h) ==
  /\ FreeAttempts # {}
  /\ Submitting(h, Min(FreeAttempts), FALSE)
  /\ UNCHANGED <<attempt, windowed, expired, updated, retry, verdict, passed, repeats>>

\* MidCourseReverifyView.post takes the photo ID over from an initial attempt.
BeginMidcourse(h) ==
  /\ windowed
  /\ \E a \in Attempts : Exists(a) /\ ~attempt[a].reverification
  /\ FreeAttempts # {}
  /\ Submitting(h, Min(FreeAttempts), TRUE)
  /\ UNCHANGED <<attempt, windowed, expired, updated, retry, verdict, passed, repeats>>

\* submit() has saved and the request commits.
CommitSubmit(h) ==
  LET a == req[h].attempt IN
  /\ req[h].op = "submit"
  /\ SaveAttempt(a, [status |-> req[h].status, reverification |-> req[h].reverification])
  /\ req' = [req EXCEPT ![h] = Idle]
  /\ UNCHANGED <<windowed, expired, retry, submissions, unanswered, verdict, passed,
                 crossed, repeats>>

-----------------------------------------------------------------------------
(* retry_failed_photo_verifications.                                       *)

BeginRetry ==
  LET failed == {a \in Attempts : attempt[a].status = "must_retry"} IN
  /\ retry = NoRetry
  /\ failed # {}
  /\ retry' = [NoRetry EXCEPT !.todo = failed]
  /\ crossed' = crossed \cup (failed \cap Held)
  /\ UNCHANGED <<attempt, windowed, expired, updated, req, submissions,
                 unanswered, verdict, passed, repeats>>

\* submit() of the newest attempt left, which the list still shows as must_retry.
RetrySend ==
  LET a == Max(retry.todo) IN
  /\ retry.todo # {} /\ retry.at = 0
  /\ \E status \in {"submitted", "must_retry"} :
       /\ SendRequest(a, status)
       /\ retry' = [todo |-> retry.todo \ {a}, at |-> a, status |-> status]
  /\ UNCHANGED <<attempt, windowed, expired, updated, req, verdict, passed,
                 crossed, repeats>>

RetrySave ==
  /\ retry.at # 0
  /\ SaveAttempt(retry.at, [attempt[retry.at] EXCEPT !.status = retry.status])
  /\ retry' = [retry EXCEPT !.at = 0, !.status = "none"]
  /\ UNCHANGED <<windowed, expired, req, submissions, unanswered, verdict, passed,
                 crossed, repeats>>

\* The command is stopped, or dies, between two attempts or before it has saved one.
RetryStops ==
  /\ retry # NoRetry
  /\ retry' = NoRetry
  /\ UNCHANGED <<attempt, windowed, expired, updated, req, submissions,
                 unanswered, verdict, passed, crossed, repeats>>

-----------------------------------------------------------------------------
(* results_callback.                                                       *)

\* approve, deny and system_error: the status they save.
Judged(result) ==
  CASE result = "PASS" -> "approved"
    [] result = "FAIL" -> "denied"
    [] result = "SYSTEM FAIL" -> "must_retry"

\* Software Secure posts its answer, and perhaps once more.
Posted(a) ==
  /\ unanswered[a] > 0
  /\ \/ unanswered' = [unanswered EXCEPT ![a] = @ - 1] /\ UNCHANGED repeats
     \/ repeats < MaxRepeats /\ repeats' = repeats + 1 /\ UNCHANGED unanswered

\* The row is not committed yet, or its status is not one that is judged
\* (status_before_must_be), or it is a reverification: then the handler names a
\* window it does not have, raises, and what it has saved is rolled back.
Refused(a) == attempt[a].status \in {"none", "ready"} \/ attempt[a].reverification

\* Mutant: system_error has no early return.
IgnoredPass(a, result) == result = "PASS" /\ attempt[a].status = "approved"

\* approve of an approved attempt and system_error of a decided one return at once.
Ignored(a, result) ==
  \/ result = "PASS" /\ attempt[a].status = "approved"
  \/ result = "SYSTEM FAIL" /\ attempt[a].status \in {"approved", "denied"}

AnswerWithoutEffect(a, result) ==
  /\ Refused(a) \/ Ignored(a, result)
  /\ Posted(a)
  /\ UNCHANGED <<attempt, windowed, expired, updated, req, retry, submissions,
                 verdict, passed, crossed>>

BeginAnswer(h, a, result) ==
  /\ req[h] = Idle
  /\ ~Refused(a) /\ ~Ignored(a, result)
  /\ Posted(a)
  /\ req' = [req EXCEPT ![h] = [op |-> "answer", attempt |-> a, status |-> Judged(result)]]
  /\ crossed' = IF a \in Held THEN crossed \cup {a} ELSE crossed
  /\ UNCHANGED <<attempt, windowed, expired, updated, retry, submissions,
                 verdict, passed>>

CommitAnswer(h) ==
  LET a == req[h].attempt IN
  /\ req[h].op = "answer"
  /\ SaveAttempt(a, [attempt[a] EXCEPT !.status = req[h].status])
  /\ verdict' = IF req[h].status = "must_retry" THEN verdict
                                                ELSE [verdict EXCEPT ![a] = req[h].status]
  /\ passed' = (passed \/ req[h].status = "approved")
  /\ req' = [req EXCEPT ![h] = Idle]
  /\ UNCHANGED <<windowed, expired, retry, submissions, unanswered, crossed, repeats>>

-----------------------------------------------------------------------------
(* Pages, time, the course team, and the enrolment.                               *)

Expire ==
  /\ expired < MaxAttempts /\ Exists(expired + 1)
  /\ expired' = expired + 1
  /\ UNCHANGED <<attempt, windowed, updated, req, retry, submissions, unanswered,
                 verdict, passed, crossed, repeats>>

\* The course team adds a reverification window.
AddWindow ==
  /\ windowed' = TRUE
  /\ UNCHANGED <<attempt, expired, updated, req, retry, submissions, unanswered, verdict,
                 passed, crossed, repeats>>

HandlerStep(h) ==
  \/ BeginOrder(h) \/ CommitOrder(h)
  \/ BeginPurchase(h) \/ BeginReverify(h) \/ BeginMidcourse(h) \/ CommitSubmit(h)
  \/ CommitAnswer(h)
  \/ \E a \in Attempts, result \in Results : BeginAnswer(h, a, result)

PhotoStep ==
  \/ \E h \in Handlers : HandlerStep(h)
  \/ BeginRetry \/ RetrySend \/ RetrySave \/ RetryStops
  \/ \E a \in Attempts, result \in Results : AnswerWithoutEffect(a, result)
  \/ Expire \/ AddWindow

-----------------------------------------------------------------------------
\* A decision of Software Secure stands until its next one: neither an answer to
\* an earlier submission that reports a failure of the system, nor a purchase,
\* nor the retry command takes it back.  Not promised for an attempt that was
\* saved by one process while another was holding it: submit() saves what it
\* has read before sending (verify_student/models.py:637-656).
VerdictKept ==
  \A a \in Attempts \ crossed : verdict[a] # "none" => attempt[a].status = verdict[a]
=============================================================================
