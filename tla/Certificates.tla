---------------------------- MODULE Certificates ----------------------------
(***************************************************************************)
(* The certificate of one user in one course, composed with the photo      *)
(* verifications that decide its mode.                                     *)
(*                                                                         *)
(* Commands grade the user and ask the certificate server, over the xqueue,*)
(* for a pdf; its answer is recognised by the key of the request.  Both    *)
(* save the whole row as they have read it, with their changes.  A command *)
(* is not in one transaction: every save commits, and so does the grading, *)
(* between the check of the status and the reading of the row.             *)
(*                                                                         *)
(* Source: lms/djangoapps/certificates/queue.py, views.py, models.py,      *)
(* management/commands/ungenerated_certs.py and regenerate_user.py;        *)
(* lms/djangoapps/courseware/grades.py (grade, manual_transaction).        *)
(***************************************************************************)
EXTENDS PhotoVerification

CONSTANTS
  Commands,  \* ungenerated_certs and regenerate_user processes
  MaxKeys    \* bound: requests to the certificate server, by their keys

ASSUME KeyAssumption == MaxKeys \in Nat

VARIABLES
  cert,     \* the GeneratedCertificate: status ("absent" without a row), key, mode, pdf
  cmd,      \* what each command is doing, with the row it has read or built
  asked,    \* the template asked for under each key, "none" for an unused key
  pending   \* keys of the requests the certificate server has not answered

certVars == <<cert, cmd, asked, pending>>
vars == <<photoVars, certVars>>

Keys == 1..MaxKeys
Modes == {"honor", "verified"}
VALID_STATUSES == {"absent", "unavailable", "generating", "deleted", "error", "notpassing"}
CertStatuses == VALID_STATUSES \cup {"downloadable", "restricted"}
NoCert == [status |-> "absent", key |-> 0, mode |-> "honor", pdf |-> 0]
Rows == [status : CertStatuses, key : 0..MaxKeys, mode : Modes, pdf : 0..MaxKeys]

Unused == {k \in Keys : asked[k] = "none"}

Init ==
  /\ PhotoInit
  /\ cert = NoCert
  /\ cmd = [c \in Commands |-> Idle]
  /\ asked = [k \in Keys |-> "none"]
  /\ pending = {}

-----------------------------------------------------------------------------
(* The commands.                                                           *)

\* add_cert: verified only for an enrolment of that mode, of a user who is
\* verified and reverified.
CertMode(mode) == IF mode = "verified" /\ UserIsVerified /\ ReverifiedForAll
                    THEN "verified" ELSE "honor"

\* A passing grade, unless the profile forbids a certificate; or no passing grade.
GradedStatuses == {"generating", "restricted", "notpassing"}

\* regen_cert reads the row ...
BeginRegen(c) ==
  /\ cmd[c] = Idle
  /\ cert # NoCert
  /\ cmd' = [cmd EXCEPT ![c] = [op |-> "regen", row |-> [cert EXCEPT !.status = "unavailable"]]]
  /\ UNCHANGED <<photoVars, cert, asked, pending>>

\* ... and saves it as unavailable, before it goes on to add_cert.
SaveUnavailable(c) ==
  /\ cmd[c].op = "regen"
  /\ cert' = cmd[c].row
  /\ cmd' = [cmd EXCEPT ![c] = [op |-> "again"]]
  /\ UNCHANGED <<photoVars, asked, pending>>

\* add_cert checks the status, and grades the user.
BeginAdd(c) ==
  /\ cmd[c].op \in {"idle", "again"}
  /\ cert.status \in VALID_STATUSES
  /\ cmd' = [cmd EXCEPT ![c] = [op |-> "grading"]]
  /\ UNCHANGED <<photoVars, cert, asked, pending>>

\* get_or_create inserts a missing row, which commits it.
RowOrNew == IF cert = NoCert THEN [NoCert EXCEPT !.status = "unavailable"] ELSE cert

\* The grading has committed: the modes and the row are read as they are now, whatever
\* the status has become since it was checked.
ReadRow(c) ==
  /\ cmd[c].op = "grading"
  /\ \E status \in GradedStatuses, mode \in Modes :
       cmd' = [cmd EXCEPT ![c] =
         [op |-> "add", row |-> [RowOrNew EXCEPT !.status = status, !.mode = CertMode(mode)]]]
  /\ cert' = RowOrNew
  /\ UNCHANGED <<photoVars, asked, pending>>

\* The row is saved without a request.
SaveWithoutRequest(c) ==
  /\ cmd[c].op = "add"
  /\ cmd[c].row.status # "generating"
  /\ cert' = cmd[c].row
  /\ cmd' = [cmd EXCEPT ![c] = Idle]
  /\ UNCHANGED <<photoVars, asked, pending>>

\* The row with a new key is saved before the request is sent.
Keyed(row, k) == [row EXCEPT !.key = k]

SaveAndAsk(c) ==
  LET k == Min(Unused) IN
  /\ cmd[c].op = "add"
  /\ cmd[c].row.status = "generating"
  /\ Unused # {}
  /\ cert' = Keyed(cmd[c].row, k)
  /\ asked' = [asked EXCEPT ![k] = cmd[c].row.mode]
  /\ cmd' = [cmd EXCEPT ![c] = [op |-> "send", key |-> k]]
  /\ UNCHANGED <<photoVars, pending>>

Send(c) ==
  /\ cmd[c].op = "send"
  /\ pending' = pending \cup {cmd[c].key}
  /\ cmd' = [cmd EXCEPT ![c] = Idle]
  /\ UNCHANGED <<photoVars, cert, asked>>

\* The command raises, because the xqueue refuses the request, the grading fails or
\* another process has inserted the row between get_or_create's query and its insertion;
\* or add_cert returns, as the status is not one of VALID_STATUSES; or the command is
\* killed.
CommandStops(c) ==
  /\ cmd[c] # Idle
  /\ cmd' = [cmd EXCEPT ![c] = Idle]
  /\ UNCHANGED <<photoVars, cert, asked, pending>>

-----------------------------------------------------------------------------
(* update_certificate.                                                     *)

\* Mutant: the key of the request is not compared.
LookupByUser(k) == cert # NoCert

\* The row is looked up by user, course and the key of the request.
Lookup(k) == cert.key = k

\* What the answer makes of the row it has found: {} when it is refused.
Answered(k, failed) ==
  IF failed THEN {[cert EXCEPT !.status = "error"]}
  ELSE IF cert.status = "generating" THEN {[cert EXCEPT !.status = "downloadable", !.pdf = k]}
  ELSE {}

\* The certificate server answers, and perhaps once more.
Replied(k) ==
  /\ k \in pending
  /\ \/ pending' = pending \ {k} /\ UNCHANGED repeats
     \/ repeats < MaxRepeats /\ repeats' = repeats + 1 /\ UNCHANGED pending

PhotoUnchanged == UNCHANGED <<attempt, windowed, expired, updated, retry,
                              submissions, unanswered, verdict, passed, crossed>>

ReplyRefused(k, failed) ==
  /\ ~Lookup(k) \/ Answered(k, failed) = {}
  /\ Replied(k)
  /\ PhotoUnchanged /\ UNCHANGED <<req, cert, cmd, asked>>

BeginReply(h, k, failed) ==
  /\ req[h] = Idle
  /\ Lookup(k)
  /\ \E row \in Answered(k, failed) :
       req' = [req EXCEPT ![h] = [op |-> "certificate", row |-> row]]
  /\ Replied(k)
  /\ PhotoUnchanged /\ UNCHANGED <<cert, cmd, asked>>

CommitReply(h) ==
  /\ req[h].op = "certificate"
  /\ cert' = req[h].row
  /\ req' = [req EXCEPT ![h] = Idle]
  /\ PhotoUnchanged /\ UNCHANGED <<repeats, cmd, asked, pending>>

-----------------------------------------------------------------------------
CommandStep(c) ==
  \/ BeginRegen(c) \/ SaveUnavailable(c) \/ BeginAdd(c) \/ ReadRow(c)
  \/ SaveWithoutRequest(c) \/ SaveAndAsk(c) \/ Send(c) \/ CommandStops(c)

ReplyStep ==
  \E k \in Keys, failed \in BOOLEAN :
    ReplyRefused(k, failed) \/ \E h \in Handlers : BeginReply(h, k, failed)

Next ==
  \/ PhotoStep /\ UNCHANGED certVars
  \/ \E c \in Commands : CommandStep(c)
  \/ ReplyStep
  \/ \E h \in Handlers : CommitReply(h)

Spec == Init /\ [][Next]_vars

-----------------------------------------------------------------------------
\* The rows, the requests and the commands are well-formed.
TypeOK ==
  /\ attempt \in [Attempts -> [status : Statuses \cup {"none"}, reverification : BOOLEAN]]
  /\ submissions \in 0..MaxSubmissions /\ \A a \in Attempts : unanswered[a] \in 0..submissions
  /\ updated # 0 => attempt[updated].reverification
  /\ retry.todo \subseteq Attempts /\ retry.at \in 0..MaxAttempts
  /\ cert \in Rows
  /\ \A c \in Commands : cmd[c].op \in {"regen", "add"} => cmd[c].row \in Rows
  /\ pending \subseteq Keys \ Unused

\* A certificate that can be downloaded is the pdf asked for under the key of the
\* row and with its mode, whatever answers come late, twice or to a request that
\* was replaced, and whatever became of the row while a command graded the user or
\* held what it had read; and a verified one is only for a user Software Secure has
\* passed.
CertificateOfRequest ==
  /\ cert.status = "downloadable" => cert.pdf = cert.key /\ asked[cert.key] = cert.mode
  /\ cert.mode = "verified" => passed
=============================================================================
