------------------------ MODULE CertificatesProofs ------------------------
(* Theorems about Certificates, for every number of handlers and commands  *)
(* and every value of the bounds.                                          *)
EXTENDS Certificates, WellFoundedInduction, TLAPS

-----------------------------------------------------------------------------
(* The newest and the first attempt.                                         *)

\* A set of natural numbers has a least element.
LEMMA Least ==
  ASSUME NEW S \in SUBSET Nat, S # {}
  PROVE  \E x \in S : \A y \in S : x <= y
<1> DEFINE R == {ss \in Nat \X Nat : ss[1] < ss[2]}
<1>1. R = OpToRel(<, Nat)  BY DEF OpToRel
<1>2. IsWellFoundedOn(R, Nat)  BY <1>1, NatLessThanWellFounded
<1> HIDE DEF R
<1>3. PICK x \in S : \A y \in S : ~(<<y, x>> \in R)  BY <1>2, WFMin
<1>4. \A y \in S : ~(y < x)  BY <1>3 DEF R
<1> QED BY <1>4

\* Min and Max are attempts of the set they are taken of.
LEMMA MinMax ==
  ASSUME NEW S \in SUBSET Attempts, S # {}
  PROVE  Min(S) \in S /\ Max(S) \in S
<1>1. Attempts \subseteq Nat /\ \A x \in Attempts : x <= MaxAttempts
  BY PhotoBoundAssumption DEF Attempts
<1>2. Min(S) \in S  BY <1>1, Least DEF Min
<1> DEFINE T == {MaxAttempts - x : x \in S}
<1>3. \A x \in S : MaxAttempts - x \in Nat  BY <1>1, PhotoBoundAssumption
<1>4. T \in SUBSET Nat /\ T # {}  BY <1>3
<1> HIDE DEF T
<1>5. PICK y \in T : \A z \in T : y <= z  BY <1>4, Least
<1>6. PICK x \in S : y = MaxAttempts - x  BY DEF T
<1>7. \A z \in S : MaxAttempts - z \in T  BY DEF T
<1>8. \A z \in S : x >= z  BY <1>1, <1>5, <1>6, <1>7, PhotoBoundAssumption
<1>9. Max(S) \in S  BY <1>8 DEF Max
<1> QED BY <1>2, <1>9

\* The same for the keys of the requests to the certificate server.
LEMMA MinKey ==
  ASSUME NEW S \in SUBSET Keys, S # {}
  PROVE  Min(S) \in S
<1>1. Keys \subseteq Nat  BY KeyAssumption DEF Keys
<1> QED BY <1>1, Least DEF Min

-----------------------------------------------------------------------------
(* Types.                                                                    *)

AttemptRows == [status : Statuses \cup {"none"}, reverification : BOOLEAN]

PhotoTypeOK ==
  /\ attempt \in [Attempts -> AttemptRows]
  /\ submissions \in 0..MaxSubmissions
  /\ unanswered \in [Attempts -> Nat] /\ \A a \in Attempts : unanswered[a] <= submissions
  /\ retry \in [todo : SUBSET Attempts, at : 0..MaxAttempts,
                status : {"none", "submitted", "must_retry"}]
  /\ retry.at # 0 => retry.status # "none"
  /\ verdict \in [Attempts -> {"none", "approved", "denied"}]

\* What a handler holds, and what it is going to write.
ReqOK ==
  /\ req = [h \in Handlers |-> req[h]]
  /\ \A h \in Handlers :
       /\ req[h].op \in {"idle", "order", "submit", "answer", "certificate"}
       /\ req[h].op \in {"order", "submit", "answer"} => req[h].attempt \in Attempts
       /\ req[h].op = "submit" => /\ req[h].status \in {"submitted", "must_retry"}
                                  /\ req[h].reverification \in BOOLEAN
       /\ req[h].op = "answer" => req[h].status \in {"approved", "denied", "must_retry"}
       /\ req[h].op = "certificate" => req[h].row \in Rows

\* The rows of the table once they are there: which are held to be created, by whom, and
\* that no save makes an initial attempt a reverification or the other way round.
SavedOK ==
  /\ updated \in 0..MaxAttempts
  /\ updated # 0 => Exists(updated) /\ attempt[updated].reverification
  /\ \A a \in Attempts : a \in retry.todo \/ a = retry.at => Exists(a)
  /\ \A h \in Handlers :
       /\ req[h].op = "order" => ~Exists(req[h].attempt)
       /\ req[h].op = "answer" => Exists(req[h].attempt)
       /\ req[h].op = "submit" /\ Exists(req[h].attempt)
            => attempt[req[h].attempt].reverification = req[h].reverification
       /\ \A g \in Handlers \ {h} :
            req[h].op \in {"order", "submit"} /\ req[g].op \in {"order", "submit"}
              /\ req[h].attempt = req[g].attempt => Exists(req[h].attempt)

\* What holds an attempt that was never crossed: one process, and nothing that would
\* take its verdict back.
VerdictInv ==
  \A a \in Attempts \ crossed :
    /\ verdict[a] # "none" => attempt[a].status = verdict[a]
    /\ a \in retry.todo \/ a = retry.at => verdict[a] = "none"
    /\ \A h \in Handlers : a \in HeldBy(h) =>
         /\ a \notin retry.todo /\ a # retry.at
         /\ \A g \in Handlers \ {h} : a \notin HeldBy(g)
         /\ req[h].op = "submit" => verdict[a] = "none"
         /\ req[h].op = "answer" /\ req[h].status = "must_retry"
              => attempt[a].status \notin {"approved", "denied"}

\* An approved attempt has passed.
PassedInv == \A a \in Attempts : attempt[a].status = "approved" => passed

PhotoInv == PhotoTypeOK /\ SavedOK /\ VerdictInv /\ PassedInv

-----------------------------------------------------------------------------
(* The certificate.                                                          *)

\* A row of the certificate table, or one to be saved: what is asked for under its key,
\* and the verification it is given for.
RowFor(r, ask, pass) ==
  /\ r \in Rows
  /\ r.status \in {"generating", "downloadable"} => r.key \in Keys /\ ask[r.key] = r.mode
  /\ r.status = "downloadable" => r.pdf = r.key
  /\ r.mode = "verified" => pass

CmdOK ==
  /\ cmd = [c \in Commands |-> cmd[c]]
  /\ \A c \in Commands :
       /\ cmd[c].op \in {"idle", "regen", "again", "grading", "add", "send"}
       /\ cmd[c].op \in {"regen", "add"} =>
            /\ cmd[c].row \in Rows
            /\ cmd[c].row.mode = "verified" => passed
       /\ cmd[c].op = "regen" => cmd[c].row.status = "unavailable"
       /\ cmd[c].op = "add" => cmd[c].row.status \in GradedStatuses
       /\ cmd[c].op = "send" => cmd[c].key \in Keys /\ asked[cmd[c].key] # "none"

CertInv ==
  /\ asked \in [Keys -> Modes \cup {"none"}]
  /\ pending \subseteq Keys /\ \A k \in pending : asked[k] # "none"
  /\ RowFor(cert, asked, passed)
  /\ \A h \in Handlers : req[h].op = "certificate" => RowFor(req[h].row, asked, passed)

Inv == PhotoInv /\ ReqOK /\ CmdOK /\ CertInv

-----------------------------------------------------------------------------
(* Steps of the photo verifications.                                         *)

\* Giving a handler something to hold changes no other handler.
LEMMA ReqUpdate ==
  ASSUME req = [h \in Handlers |-> req[h]], NEW h \in Handlers, NEW x
  PROVE  LET new == [req EXCEPT ![h] = x] IN
           /\ new = [g \in Handlers |-> new[g]]
           /\ new[h] = x
           /\ \A g \in Handlers \ {h} : new[g] = req[g]
OBVIOUS

\* What a handler holds well-formed keeps ReqOK.
LEMMA ReqType ==
  ASSUME ReqOK, NEW h \in Handlers, NEW x, req' = [req EXCEPT ![h] = x],
         x.op \in {"idle", "order", "submit", "answer", "certificate"},
         x.op \in {"order", "submit", "answer"} => x.attempt \in Attempts,
         x.op = "submit" => /\ x.status \in {"submitted", "must_retry"}
                            /\ x.reverification \in BOOLEAN,
         x.op = "answer" => x.status \in {"approved", "denied", "must_retry"},
         x.op = "certificate" => x.row \in Rows
  PROVE  ReqOK'
<1>1. req = [g \in Handlers |-> req[g]]  BY DEF ReqOK
<1>2. /\ req' = [g \in Handlers |-> req'[g]]
      /\ req'[h] = x
      /\ \A g \in Handlers \ {h} : req'[g] = req[g]
  BY <1>1, ReqUpdate
<1> SUFFICES ASSUME NEW g \in Handlers
             PROVE  /\ req'[g].op \in {"idle", "order", "submit", "answer", "certificate"}
                    /\ req'[g].op \in {"order", "submit", "answer"} => req'[g].attempt \in Attempts
                    /\ req'[g].op = "submit" => /\ req'[g].status \in {"submitted", "must_retry"}
                                                /\ req'[g].reverification \in BOOLEAN
                    /\ req'[g].op = "answer" => req'[g].status \in {"approved", "denied", "must_retry"}
                    /\ req'[g].op = "certificate" => req'[g].row \in Rows
  BY <1>2 DEF ReqOK
<1>3. CASE g = h  BY <1>2, <1>3
<1>4. CASE g # h  BY <1>2, <1>4 DEF ReqOK
<1> QED BY <1>3, <1>4

\* An attempt that nobody holds is in no list and no request.
LEMMA Unheld ==
  ASSUME NEW a \in Attempts, a \notin Held
  PROVE  /\ a \notin retry.todo /\ a # retry.at
         /\ \A g \in Handlers : a \notin HeldBy(g)
<1>1. a # 0  BY PhotoBoundAssumption DEF Attempts
<1> QED BY <1>1 DEF Held

\* A handler that was idle takes up an attempt or a certificate.
LEMMA HoldStep ==
  ASSUME PhotoInv, ReqOK, NEW h \in Handlers, NEW x,
         req[h].op = "idle", req' = [req EXCEPT ![h] = x],
         UNCHANGED <<attempt, updated, retry, verdict, passed>>,
         submissions' \in 0..MaxSubmissions, unanswered' \in [Attempts -> Nat],
         \A a \in Attempts : unanswered'[a] <= submissions',
         crossed \subseteq crossed',
         x.op \in {"submit", "answer"} /\ x.attempt \in Held => x.attempt \in crossed',
         x.op \in {"order", "submit", "answer", "certificate"},
         x.op \in {"order", "submit", "answer"} => x.attempt \in Attempts,
         x.op = "order" => x.attempt \in FreeAttempts,
         x.op = "submit" =>
           /\ x.status \in {"submitted", "must_retry"} /\ x.reverification \in BOOLEAN
           /\ \/ x.attempt \in FreeAttempts
              \/ /\ attempt[x.attempt].status = "ready"
                 /\ attempt[x.attempt].reverification = x.reverification,
         x.op = "answer" =>
           /\ x.status \in {"approved", "denied", "must_retry"} /\ Exists(x.attempt)
           /\ x.status = "must_retry" => attempt[x.attempt].status \notin {"approved", "denied"},
         x.op = "certificate" => x.row \in Rows
  PROVE  PhotoInv' /\ ReqOK'
<1>1. PhotoTypeOK /\ SavedOK /\ VerdictInv /\ PassedInv  BY DEF PhotoInv
<1>2. req = [g \in Handlers |-> req[g]]  BY DEF ReqOK
<1>3. req'[h] = x /\ \A g \in Handlers \ {h} : req'[g] = req[g]
  BY <1>2, ReqUpdate
<1>4. ReqOK'  BY ReqType
<1>5. PhotoTypeOK'  BY <1>1 DEF PhotoTypeOK
<1>6. PassedInv'  BY <1>1 DEF PassedInv
<1>7. x.op \in {"order", "submit"} /\ x.attempt \in FreeAttempts =>
        /\ ~Exists(x.attempt)
        /\ \A g \in Handlers : req[g].op \in {"order", "submit"} => req[g].attempt # x.attempt
  BY DEF FreeAttempts, Reserved
<1>8. x.op = "submit" /\ x.attempt \notin FreeAttempts => Exists(x.attempt)
  BY DEF Exists
<1>9. SavedOK'
  <2>1. ASSUME NEW g \in Handlers
        PROVE  /\ req'[g].op = "order" => attempt[req'[g].attempt].status = "none"
               /\ req'[g].op = "answer" => attempt[req'[g].attempt].status # "none"
               /\ req'[g].op = "submit" /\ attempt[req'[g].attempt].status # "none"
                    => attempt[req'[g].attempt].reverification = req'[g].reverification
    <3>1. CASE g = h  BY <1>3, <1>7, <3>1 DEF Exists
    <3>2. CASE g # h
      <4>1. req'[g] = req[g]  BY <1>3, <3>2
      <4> QED BY <1>1, <4>1 DEF SavedOK, Exists
    <3> QED BY <3>1, <3>2
  <2>2. ASSUME NEW g \in Handlers, NEW f \in Handlers \ {g},
               req'[g].op \in {"order", "submit"}, req'[f].op \in {"order", "submit"},
               req'[g].attempt = req'[f].attempt
        PROVE  attempt[req'[g].attempt].status # "none"
    <3>1. CASE g = h
      <4>1. req'[f] = req[f] /\ req'[g] = x  BY <1>3, <3>1
      <4> QED BY <1>7, <1>8, <2>2, <4>1 DEF Exists
    <3>2. CASE f = h
      <4>1. req'[g] = req[g] /\ req'[f] = x  BY <1>3, <3>2
      <4> QED BY <1>7, <1>8, <2>2, <4>1 DEF Exists
    <3>3. CASE g # h /\ f # h
      <4>1. req'[g] = req[g] /\ req'[f] = req[f]  BY <1>3, <3>3
      <4> QED BY <1>1, <2>2, <4>1 DEF SavedOK, Exists
    <3> QED BY <3>1, <3>2, <3>3
  <2> QED BY <1>1, <2>1, <2>2 DEF SavedOK, Exists
<1>10. VerdictInv'
  <2> SUFFICES ASSUME NEW a \in Attempts \ crossed'
               PROVE  /\ verdict[a] # "none" => attempt[a].status = verdict[a]
                      /\ a \in retry.todo \/ a = retry.at => verdict[a] = "none"
                      /\ \A g \in Handlers : a \in HeldBy(g)' =>
                           /\ a \notin retry.todo /\ a # retry.at
                           /\ \A f \in Handlers \ {g} : a \notin HeldBy(f)'
                           /\ req'[g].op = "submit" => verdict[a] = "none"
                           /\ req'[g].op = "answer" /\ req'[g].status = "must_retry"
                                => attempt[a].status \notin {"approved", "denied"}
    BY DEF VerdictInv
  <2>1. a \in Attempts \ crossed  OBVIOUS
  <2>2. /\ verdict[a] # "none" => attempt[a].status = verdict[a]
        /\ a \in retry.todo \/ a = retry.at => verdict[a] = "none"
    BY <1>1, <2>1 DEF VerdictInv
  <2>3. \A g \in Handlers \ {h} : HeldBy(g)' = HeldBy(g)  BY <1>3 DEF HeldBy
  <2>4. HeldBy(h)' = IF x.op \in {"answer", "submit"} THEN {x.attempt} ELSE {}
    BY <1>3 DEF HeldBy
  <2>5. ASSUME a \in HeldBy(h)'
        PROVE  /\ x.op \in {"answer", "submit"} /\ x.attempt = a
               /\ a \notin retry.todo /\ a # retry.at /\ \A g \in Handlers : a \notin HeldBy(g)
    <3>1. x.op \in {"answer", "submit"} /\ x.attempt = a  BY <2>4, <2>5
    <3>2. a \notin Held  BY <3>1
    <3> QED BY <3>1, <3>2, Unheld
  <2>6. ASSUME NEW g \in Handlers, a \in HeldBy(g)'
        PROVE  /\ a \notin retry.todo /\ a # retry.at
               /\ \A f \in Handlers \ {g} : a \notin HeldBy(f)'
               /\ req'[g].op = "submit" => verdict[a] = "none"
               /\ req'[g].op = "answer" /\ req'[g].status = "must_retry"
                    => attempt[a].status \notin {"approved", "denied"}
    <3>1. CASE g = h
      <4>1. a \in HeldBy(h)'  BY <2>6, <3>1
      <4>2. verdict[a] \in {"none", "approved", "denied"}  BY <1>1 DEF PhotoTypeOK
      <4>3. x.op = "submit" => attempt[a].status \in {"none", "ready"}
        BY <1>7, <2>5, <4>1 DEF Exists
      <4> QED BY <1>3, <2>2, <2>3, <2>5, <3>1, <4>1, <4>2, <4>3
    <3>2. CASE g # h
      <4>1. a \in HeldBy(g) /\ req'[g] = req[g]  BY <1>3, <2>3, <2>6, <3>2
      <4>2. a \notin HeldBy(h)'  BY <2>5, <4>1
      <4> QED BY <1>1, <2>1, <2>3, <4>1, <4>2 DEF VerdictInv
    <3> QED BY <3>1, <3>2
  <2> QED BY <2>2, <2>6
<1> QED BY <1>4, <1>5, <1>6, <1>9, <1>10 DEF PhotoInv

\* A row is saved, and whoever had read it goes idle or drops it.
LEMMA SaveStep ==
  ASSUME PhotoInv, ReqOK', PhotoTypeOK', NEW a \in Attempts, NEW new \in AttemptRows,
         new.status # "none", SaveAttempt(a, new),
         Exists(a) => new.reverification = attempt[a].reverification,
         ~Exists(a) => \A g \in Handlers :
                         req'[g].op \in {"order", "submit"} => req'[g].attempt # a,
         \A g \in Handlers : req'[g] = req[g] \/ req'[g].op = "idle",
         retry'.todo = retry.todo, retry'.at \in {retry.at, 0}, crossed' = crossed,
         a \notin crossed =>
           /\ \A g \in Handlers : a \notin HeldBy(g)'
           /\ verdict'[a] \in {"none", new.status}
           /\ a \in retry'.todo \/ a = retry'.at => verdict'[a] = "none",
         \A b \in Attempts \ {a} : verdict'[b] = verdict[b],
         new.status = "approved" => passed', passed => passed'
  PROVE  PhotoInv'
<1>1. PhotoTypeOK /\ SavedOK /\ VerdictInv /\ PassedInv  BY DEF PhotoInv
<1>2. attempt'[a] = new /\ \A b \in Attempts \ {a} : attempt'[b] = attempt[b]
  BY <1>1 DEF SaveAttempt, PhotoTypeOK
<1>3. updated' = IF new.reverification THEN a ELSE updated  BY DEF SaveAttempt
<1>4. a \in 1..MaxAttempts /\ 0 \notin Attempts /\ MaxAttempts \in Nat
  BY PhotoBoundAssumption DEF Attempts
<1>5. \A b \in Attempts : attempt[b].status # "none" => attempt'[b].status # "none"
  BY <1>2
<1>6. \A b \in Attempts : attempt[b].status # "none"
        => attempt'[b].reverification = attempt[b].reverification
  BY <1>2 DEF Exists
<1>7. PassedInv'  BY <1>1, <1>2 DEF PassedInv
<1>8. SavedOK'
  <2>1. updated \in 0..MaxAttempts /\ updated # 0 => updated \in Attempts
    BY <1>4 DEF Attempts
  <2>2. /\ updated' \in 0..MaxAttempts
        /\ updated' # 0 => attempt'[updated'].status # "none" /\ attempt'[updated'].reverification
    BY <1>1, <1>2, <1>3, <1>4, <1>5, <1>6, <2>1 DEF SavedOK, Exists
  <2>3. ASSUME NEW b \in Attempts, b \in retry'.todo \/ b = retry'.at
        PROVE  attempt'[b].status # "none"
    <3>1. b \in retry.todo \/ b = retry.at  BY <1>4, <2>3
    <3> QED BY <1>1, <1>5, <3>1 DEF SavedOK, Exists
  <2>4. ASSUME NEW g \in Handlers, req'[g].op \in {"order", "submit", "answer"}
        PROVE  req'[g] = req[g] /\ req[g].attempt \in Attempts
    BY <2>4 DEF ReqOK
  <2>5. ASSUME NEW g \in Handlers
        PROVE  /\ req'[g].op = "order" => attempt'[req'[g].attempt].status = "none"
               /\ req'[g].op = "answer" => attempt'[req'[g].attempt].status # "none"
               /\ req'[g].op = "submit" /\ attempt'[req'[g].attempt].status # "none"
                    => attempt'[req'[g].attempt].reverification = req'[g].reverification
    <3>1. CASE req'[g].op = "order"
      <4>1. attempt[req[g].attempt].status = "none"  BY <1>1, <2>4, <3>1 DEF SavedOK, Exists
      <4>2. req[g].attempt # a  BY <2>4, <3>1, <4>1 DEF Exists
      <4> QED BY <1>2, <2>4, <3>1, <4>1, <4>2
    <3>2. CASE req'[g].op = "answer"
      BY <1>1, <1>5, <2>4, <3>2 DEF SavedOK, Exists
    <3>3. CASE req'[g].op = "submit"
      <4>1. req[g].attempt = a => Exists(a)  BY <2>4, <3>3
      <4>2. req[g].attempt # a => attempt'[req[g].attempt] = attempt[req[g].attempt]
        BY <1>2, <2>4, <3>3
      <4> QED BY <1>1, <1>6, <2>4, <3>3, <4>1, <4>2 DEF SavedOK, Exists
    <3> QED BY <3>1, <3>2, <3>3
  <2>6. ASSUME NEW g \in Handlers, NEW f \in Handlers \ {g},
               req'[g].op \in {"order", "submit"}, req'[f].op \in {"order", "submit"},
               req'[g].attempt = req'[f].attempt
        PROVE  attempt'[req'[g].attempt].status # "none"
    BY <1>1, <1>5, <2>4, <2>6 DEF SavedOK, Exists
  <2> QED BY <2>2, <2>3, <2>5, <2>6 DEF SavedOK, Exists
<1>9. VerdictInv'
  <2> SUFFICES ASSUME NEW b \in Attempts \ crossed
               PROVE  /\ verdict'[b] # "none" => attempt'[b].status = verdict'[b]
                      /\ b \in retry'.todo \/ b = retry'.at => verdict'[b] = "none"
                      /\ \A g \in Handlers : b \in HeldBy(g)' =>
                           /\ b \notin retry'.todo /\ b # retry'.at
                           /\ \A f \in Handlers \ {g} : b \notin HeldBy(f)'
                           /\ req'[g].op = "submit" => verdict'[b] = "none"
                           /\ req'[g].op = "answer" /\ req'[g].status = "must_retry"
                                => attempt'[b].status \notin {"approved", "denied"}
    BY DEF VerdictInv
  <2>1. CASE b = a  BY <1>2, <2>1
  <2>2. CASE b # a
    <3>1. verdict'[b] = verdict[b] /\ attempt'[b] = attempt[b]  BY <1>2, <2>2
    <3>2. b \in retry'.todo \/ b = retry'.at => b \in retry.todo \/ b = retry.at  BY <1>4
    <3>3. \A g \in Handlers : b \in HeldBy(g)' => b \in HeldBy(g) /\ req'[g] = req[g]
      BY DEF HeldBy
    <3> QED BY <1>1, <3>1, <3>2, <3>3 DEF VerdictInv
  <2> QED BY <2>1, <2>2
<1> QED BY <1>7, <1>8, <1>9 DEF PhotoInv

\* A submission counts once, and is answered at most once.
LEMMA SendType ==
  ASSUME PhotoTypeOK, NEW a \in Attempts, NEW status, SendRequest(a, status)
  PROVE  /\ submissions' \in 0..MaxSubmissions
         /\ unanswered' \in [Attempts -> Nat]
         /\ \A b \in Attempts : unanswered'[b] <= submissions'
         /\ status \in {"submitted", "must_retry"}
<1>1. submissions \in Nat /\ submissions < MaxSubmissions /\ submissions' = submissions + 1
  BY PhotoBoundAssumption DEF PhotoTypeOK, SendRequest
<1>2. /\ unanswered \in [Attempts -> Nat]
      /\ \A b \in Attempts : unanswered[b] \in Nat /\ unanswered[b] <= submissions
  BY DEF PhotoTypeOK
<1>3. CASE unanswered' = [unanswered EXCEPT ![a] = @ + 1]
  <2>1. \A b \in Attempts : unanswered'[b] = IF b = a THEN unanswered[b] + 1 ELSE unanswered[b]
    BY <1>2, <1>3
  <2> QED BY <1>1, <1>2, <1>3, <2>1, PhotoBoundAssumption DEF SendRequest
<1>4. CASE UNCHANGED unanswered
  BY <1>1, <1>2, <1>4, PhotoBoundAssumption DEF SendRequest
<1> QED BY <1>3, <1>4 DEF SendRequest

\* An answer takes one submission off, or none.
LEMMA PostedType ==
  ASSUME PhotoTypeOK, NEW a \in Attempts, Posted(a), UNCHANGED submissions
  PROVE  /\ submissions' \in 0..MaxSubmissions
         /\ unanswered' \in [Attempts -> Nat]
         /\ \A b \in Attempts : unanswered'[b] <= submissions'
<1>1. submissions \in 0..MaxSubmissions  BY DEF PhotoTypeOK
<1>2. /\ unanswered \in [Attempts -> Nat]
      /\ \A b \in Attempts : unanswered[b] \in Nat /\ unanswered[b] <= submissions
  BY DEF PhotoTypeOK
<1>3. CASE unanswered' = [unanswered EXCEPT ![a] = @ - 1]
  <2>1. \A b \in Attempts : unanswered'[b] = IF b = a THEN unanswered[b] - 1 ELSE unanswered[b]
    BY <1>2, <1>3
  <2>2. unanswered[a] > 0  BY DEF Posted
  <2> QED BY <1>1, <1>2, <1>3, <2>1, <2>2, PhotoBoundAssumption
<1>4. CASE UNCHANGED unanswered
  BY <1>1, <1>2, <1>4
<1> QED BY <1>3, <1>4 DEF Posted

\* An order, a purchase, and the two views that submit new photos.
LEMMA OrderStep ==
  ASSUME PhotoInv, ReqOK, NEW h \in Handlers, BeginOrder(h)
  PROVE  PhotoInv' /\ ReqOK'
<1> DEFINE x == [op |-> "order", attempt |-> Min(FreeAttempts)]
<1>1. PhotoTypeOK  BY DEF PhotoInv
<1>2. FreeAttempts \in SUBSET Attempts /\ FreeAttempts # {}  BY DEF BeginOrder, FreeAttempts
<1>3. Min(FreeAttempts) \in FreeAttempts  BY <1>2, MinMax
<1>4. x.op = "order" /\ x.attempt \in FreeAttempts /\ x.attempt \in Attempts  BY <1>2, <1>3
<1>5. req[h].op = "idle" /\ req' = [req EXCEPT ![h] = x]  BY DEF BeginOrder, Idle
<1>6. UNCHANGED <<attempt, updated, retry, verdict, passed, submissions, unanswered, crossed>>
  BY DEF BeginOrder
<1>7. /\ submissions' \in 0..MaxSubmissions /\ unanswered' \in [Attempts -> Nat]
      /\ \A a \in Attempts : unanswered'[a] <= submissions'
  BY <1>1, <1>6 DEF PhotoTypeOK
<1> HIDE DEF x
<1> QED BY <1>4, <1>5, <1>6, <1>7, HoldStep

LEMMA SubmittingStep ==
  ASSUME PhotoInv, ReqOK, NEW h \in Handlers, NEW a \in Attempts, NEW r \in BOOLEAN,
         Submitting(h, a, r),
         \/ a \in FreeAttempts
         \/ attempt[a].status = "ready" /\ attempt[a].reverification = r,
         UNCHANGED <<attempt, updated, retry, verdict, passed>>
  PROVE  PhotoInv' /\ ReqOK'
<1>1. PhotoTypeOK  BY DEF PhotoInv
<1>2. PICK status \in {"submitted", "must_retry"} :
        /\ SendRequest(a, status)
        /\ req' = [req EXCEPT ![h] =
             [op |-> "submit", attempt |-> a, status |-> status, reverification |-> r]]
  BY DEF Submitting
<1> DEFINE x == [op |-> "submit", attempt |-> a, status |-> status, reverification |-> r]
<1>3. x.op = "submit" /\ x.attempt = a /\ x.status = status /\ x.reverification = r  OBVIOUS
<1>4. req[h].op = "idle"  BY DEF Submitting, Idle
<1>8. req' = [req EXCEPT ![h] = x]  BY <1>2
<1>5. /\ submissions' \in 0..MaxSubmissions /\ unanswered' \in [Attempts -> Nat]
      /\ \A b \in Attempts : unanswered'[b] <= submissions'
  BY <1>1, <1>2, SendType
<1>6. crossed \subseteq crossed' /\ (a \in Held => a \in crossed')  BY DEF Submitting
<1>7. /\ x.op \in {"submit", "answer"} /\ x.attempt \in Held => x.attempt \in crossed'
      /\ x.op \in {"order", "submit", "answer", "certificate"}
      /\ x.op \in {"order", "submit", "answer"} => x.attempt \in Attempts
      /\ x.op # "order" /\ x.op # "answer" /\ x.op # "certificate"
      /\ x.status \in {"submitted", "must_retry"} /\ x.reverification \in BOOLEAN
      /\ \/ x.attempt \in FreeAttempts
         \/ /\ attempt[x.attempt].status = "ready"
            /\ attempt[x.attempt].reverification = x.reverification
  BY <1>3, <1>6
<1> HIDE DEF x
<1> QED BY <1>4, <1>5, <1>6, <1>7, <1>8, HoldStep

LEMMA SubmitSteps ==
  ASSUME PhotoInv, ReqOK, NEW h \in Handlers,
         BeginPurchase(h) \/ BeginReverify(h) \/ BeginMidcourse(h)
  PROVE  PhotoInv' /\ ReqOK'
<1>1. CASE BeginPurchase(h)
  <2>1. ReadyAttempts \in SUBSET Attempts /\ ReadyAttempts # {}
    BY <1>1 DEF BeginPurchase, ReadyAttempts
  <2>2. Max(ReadyAttempts) \in ReadyAttempts  BY <2>1, MinMax
  <2>3. PhotoTypeOK  BY DEF PhotoInv
  <2>4. ASSUME NEW a \in ReadyAttempts
        PROVE  a \in Attempts /\ attempt[a].status = "ready" /\ attempt[a].reverification = FALSE
    BY <2>3, <2>4 DEF ReadyAttempts, PhotoTypeOK, AttemptRows
  <2>5. /\ Submitting(h, Max(ReadyAttempts), FALSE)
        /\ UNCHANGED <<attempt, updated, retry, verdict, passed>>
    BY <1>1 DEF BeginPurchase
  <2> QED BY <2>2, <2>4, <2>5, SubmittingStep
<1>2. ASSUME NEW r \in BOOLEAN, FreeAttempts # {}, Submitting(h, Min(FreeAttempts), r),
             UNCHANGED <<attempt, updated, retry, verdict, passed>>
      PROVE  PhotoInv' /\ ReqOK'
  <2>1. FreeAttempts \in SUBSET Attempts  BY DEF FreeAttempts
  <2>2. Min(FreeAttempts) \in FreeAttempts  BY <1>2, <2>1, MinMax
  <2> QED BY <1>2, <2>1, <2>2, SubmittingStep
<1>3. CASE BeginReverify(h)  BY <1>2, <1>3 DEF BeginReverify
<1>4. CASE BeginMidcourse(h)  BY <1>2, <1>4 DEF BeginMidcourse
<1> QED BY <1>1, <1>3, <1>4

\* An answer of Software Secure is read.
LEMMA AnswerStep ==
  ASSUME PhotoInv, ReqOK, NEW h \in Handlers, NEW a \in Attempts, NEW result \in Results,
         BeginAnswer(h, a, result)
  PROVE  PhotoInv' /\ ReqOK'
<1>1. PhotoTypeOK  BY DEF PhotoInv
<1> DEFINE x == [op |-> "answer", attempt |-> a, status |-> Judged(result)]
<1>2. /\ Judged(result) \in {"approved", "denied", "must_retry"}
      /\ Judged(result) = "must_retry" => result = "SYSTEM FAIL"
  BY DEF Judged, Results
<1>3. x.op = "answer" /\ x.attempt = a /\ x.status = Judged(result)  OBVIOUS
<1>4. req[h].op = "idle" /\ req' = [req EXCEPT ![h] = x]  BY DEF BeginAnswer, Idle
<1>5. /\ submissions' \in 0..MaxSubmissions /\ unanswered' \in [Attempts -> Nat]
      /\ \A b \in Attempts : unanswered'[b] <= submissions'
  BY <1>1, PostedType DEF BeginAnswer
<1>6. crossed \subseteq crossed' /\ (a \in Held => a \in crossed')  BY DEF BeginAnswer
<1>7. Exists(a) /\ (result = "SYSTEM FAIL" => attempt[a].status \notin {"approved", "denied"})
  BY DEF BeginAnswer, Refused, Ignored, Exists
<1>8. UNCHANGED <<attempt, updated, retry, verdict, passed>>  BY DEF BeginAnswer
<1> HIDE DEF x
<1> QED BY <1>2, <1>3, <1>4, <1>5, <1>6, <1>7, <1>8, HoldStep

\* A handler that is done holds nothing.
LEMMA IdleStep ==
  ASSUME ReqOK, NEW h \in Handlers, req' = [req EXCEPT ![h] = Idle]
  PROVE  /\ ReqOK'
         /\ req'[h].op = "idle" /\ HeldBy(h)' = {}
         /\ \A g \in Handlers \ {h} : req'[g] = req[g] /\ HeldBy(g)' = HeldBy(g)
<1>1. Idle.op = "idle"  BY DEF Idle
<1>2. req = [g \in Handlers |-> req[g]]  BY DEF ReqOK
<1>3. req'[h] = Idle /\ \A g \in Handlers \ {h} : req'[g] = req[g]  BY <1>2, ReqUpdate
<1>4. ReqOK'  BY <1>1, ReqType
<1> QED BY <1>1, <1>3, <1>4 DEF HeldBy

\* A new attempt is committed: nobody else is creating it or has read it.
LEMMA CommitOrderStep ==
  ASSUME PhotoInv, ReqOK, NEW h \in Handlers, CommitOrder(h)
  PROVE  PhotoInv' /\ ReqOK'
<1> DEFINE a == req[h].attempt
           new == [status |-> "ready", reverification |-> FALSE]
<1>1. PhotoTypeOK /\ SavedOK /\ VerdictInv  BY DEF PhotoInv
<1>2. req[h].op = "order" /\ a \in Attempts  BY DEF CommitOrder, ReqOK
<1>3. new \in AttemptRows /\ new.status = "ready"  BY DEF AttemptRows, Statuses
<1>4. SaveAttempt(a, new) /\ req' = [req EXCEPT ![h] = Idle]  BY DEF CommitOrder
<1>5. UNCHANGED <<retry, submissions, unanswered, verdict, passed, crossed>>  BY DEF CommitOrder
<1>6. ~Exists(a)  BY <1>1, <1>2 DEF SavedOK
<1>7. /\ ReqOK' /\ req'[h].op = "idle" /\ HeldBy(h)' = {}
      /\ \A g \in Handlers \ {h} : req'[g] = req[g] /\ HeldBy(g)' = HeldBy(g)
  BY <1>4, IdleStep
<1>8. PhotoTypeOK'
  BY <1>1, <1>2, <1>3, <1>4, <1>5 DEF PhotoTypeOK, SaveAttempt
<1>9. \A g \in Handlers \ {h} : req[g].op \in {"order", "submit"} => req[g].attempt # a
  BY <1>1, <1>2, <1>6 DEF SavedOK
<1>10. \A g \in Handlers \ {h} : a \notin HeldBy(g)
  BY <1>1, <1>6, <1>9 DEF SavedOK, HeldBy
<1>11. a \notin retry.todo /\ a # retry.at  BY <1>1, <1>2, <1>6 DEF SavedOK
<1>12. a \notin crossed => verdict[a] = "none"
  BY <1>1, <1>2, <1>6 DEF VerdictInv, PhotoTypeOK, Exists
<1> HIDE DEF a, new
<1> QED BY <1>2, <1>3, <1>4, <1>5, <1>6, <1>7, <1>8, <1>9, <1>10, <1>11, <1>12, SaveStep

\* A submission is saved: an attempt that was never crossed has no verdict yet.
LEMMA CommitSubmitStep ==
  ASSUME PhotoInv, ReqOK, NEW h \in Handlers, CommitSubmit(h)
  PROVE  PhotoInv' /\ ReqOK'
<1> DEFINE a == req[h].attempt
           new == [status |-> req[h].status, reverification |-> req[h].reverification]
<1>1. PhotoTypeOK /\ SavedOK /\ VerdictInv  BY DEF PhotoInv
<1>2. /\ req[h].op = "submit" /\ a \in Attempts
      /\ req[h].status \in {"submitted", "must_retry"} /\ req[h].reverification \in BOOLEAN
  BY DEF CommitSubmit, ReqOK
<1>3. new \in AttemptRows /\ new.status \in {"submitted", "must_retry"}
      /\ new.reverification = req[h].reverification
  BY <1>2 DEF AttemptRows, Statuses
<1>4. SaveAttempt(a, new) /\ req' = [req EXCEPT ![h] = Idle]  BY DEF CommitSubmit
<1>5. UNCHANGED <<retry, submissions, unanswered, verdict, passed, crossed>>  BY DEF CommitSubmit
<1>6. Exists(a) => new.reverification = attempt[a].reverification
  BY <1>1, <1>2, <1>3 DEF SavedOK
<1>7. /\ ReqOK' /\ req'[h].op = "idle" /\ HeldBy(h)' = {}
      /\ \A g \in Handlers \ {h} : req'[g] = req[g] /\ HeldBy(g)' = HeldBy(g)
  BY <1>4, IdleStep
<1>8. PhotoTypeOK'
  BY <1>1, <1>2, <1>3, <1>4, <1>5 DEF PhotoTypeOK, SaveAttempt
<1>9. ~Exists(a) => \A g \in Handlers \ {h} :
                      req[g].op \in {"order", "submit"} => req[g].attempt # a
  BY <1>1, <1>2 DEF SavedOK
<1>10. a \in HeldBy(h)  BY <1>2 DEF HeldBy
<1>11. a \notin crossed =>
         /\ a \notin retry.todo /\ a # retry.at
         /\ \A g \in Handlers \ {h} : a \notin HeldBy(g)
         /\ verdict[a] = "none"
  BY <1>1, <1>2, <1>10 DEF VerdictInv
<1> HIDE DEF a, new
<1> QED BY <1>2, <1>3, <1>4, <1>5, <1>6, <1>7, <1>8, <1>9, <1>11, SaveStep

\* An answer is saved: of an attempt that was never crossed, a failure of the system
\* finds no decision.
LEMMA CommitAnswerStep ==
  ASSUME PhotoInv, ReqOK, NEW h \in Handlers, CommitAnswer(h)
  PROVE  PhotoInv' /\ ReqOK' /\ (passed => passed')
<1> DEFINE a == req[h].attempt
           new == [attempt[a] EXCEPT !.status = req[h].status]
<1>1. PhotoTypeOK /\ SavedOK /\ VerdictInv  BY DEF PhotoInv
<1>2. /\ req[h].op = "answer" /\ a \in Attempts
      /\ req[h].status \in {"approved", "denied", "must_retry"}
  BY DEF CommitAnswer, ReqOK
<1>3. attempt[a] \in AttemptRows  BY <1>1, <1>2 DEF PhotoTypeOK
<1>4. new \in AttemptRows /\ new.status = req[h].status
      /\ new.reverification = attempt[a].reverification
  BY <1>2, <1>3 DEF AttemptRows, Statuses
<1>5. SaveAttempt(a, new) /\ req' = [req EXCEPT ![h] = Idle]  BY DEF CommitAnswer
<1>6. UNCHANGED <<retry, submissions, unanswered, crossed>>  BY DEF CommitAnswer
<1>7. verdict' = IF req[h].status = "must_retry" THEN verdict
                                                 ELSE [verdict EXCEPT ![a] = req[h].status]
  BY DEF CommitAnswer
<1>8. (passed => passed') /\ (req[h].status = "approved" => passed')  BY DEF CommitAnswer
<1>9. /\ ReqOK' /\ req'[h].op = "idle" /\ HeldBy(h)' = {}
      /\ \A g \in Handlers \ {h} : req'[g] = req[g] /\ HeldBy(g)' = HeldBy(g)
  BY <1>5, IdleStep
<1>10. verdict' \in [Attempts -> {"none", "approved", "denied"}]
  BY <1>1, <1>2, <1>7 DEF PhotoTypeOK
<1>11. PhotoTypeOK'
  BY <1>1, <1>2, <1>4, <1>5, <1>6, <1>10 DEF PhotoTypeOK, SaveAttempt
<1>12. Exists(a)  BY <1>1, <1>2 DEF SavedOK
<1>13. a \in HeldBy(h)  BY <1>2 DEF HeldBy
<1>14. a \notin crossed =>
         /\ a \notin retry.todo /\ a # retry.at
         /\ \A g \in Handlers \ {h} : a \notin HeldBy(g)
         /\ req[h].status = "must_retry" => verdict[a] = "none"
  <2> SUFFICES ASSUME a \notin crossed
               PROVE  /\ a \notin retry.todo /\ a # retry.at
                      /\ \A g \in Handlers \ {h} : a \notin HeldBy(g)
                      /\ req[h].status = "must_retry" => verdict[a] = "none"
    OBVIOUS
  <2>1. /\ a \notin retry.todo /\ a # retry.at
        /\ \A g \in Handlers \ {h} : a \notin HeldBy(g)
        /\ req[h].status = "must_retry" => attempt[a].status \notin {"approved", "denied"}
        /\ verdict[a] # "none" => attempt[a].status = verdict[a]
    BY <1>1, <1>2, <1>13 DEF VerdictInv
  <2>2. verdict[a] \in {"none", "approved", "denied"}  BY <1>1, <1>2 DEF PhotoTypeOK
  <2> QED BY <2>1, <2>2
<1>15. /\ verdict'[a] = IF req[h].status = "must_retry" THEN verdict[a] ELSE req[h].status
       /\ \A b \in Attempts \ {a} : verdict'[b] = verdict[b]
  BY <1>1, <1>2, <1>7 DEF PhotoTypeOK
<1>16. a \notin crossed => verdict'[a] \in {"none", new.status}  BY <1>4, <1>14, <1>15
<1> HIDE DEF a, new
<1> QED BY <1>2, <1>4, <1>5, <1>6, <1>8, <1>9, <1>11, <1>12, <1>14, <1>15, <1>16, SaveStep

\* No row and no request changes; what the retry command takes up exists, has no verdict
\* and is held by nobody, unless it is crossed.
LEMMA ListStep ==
  ASSUME PhotoInv, ReqOK, PhotoTypeOK',
         UNCHANGED <<attempt, updated, req, verdict, passed>>, crossed \subseteq crossed',
         \A a \in Attempts : a \in retry'.todo \/ a = retry'.at =>
           \/ a \in retry.todo \/ a = retry.at
           \/ /\ Exists(a) /\ (a \notin crossed' => verdict[a] = "none")
              /\ a \notin crossed' => \A h \in Handlers : a \notin HeldBy(h)
  PROVE  PhotoInv' /\ ReqOK'
<1>1. PhotoTypeOK /\ SavedOK /\ VerdictInv /\ PassedInv  BY DEF PhotoInv
<1>2. ReqOK'  BY DEF ReqOK
<1>3. PassedInv'  BY <1>1 DEF PassedInv
<1>4. SavedOK'
  <2>1. \A a \in Attempts : a \in retry'.todo \/ a = retry'.at => attempt[a].status # "none"
    BY <1>1 DEF SavedOK, Exists
  <2> QED BY <1>1, <2>1 DEF SavedOK, Exists
<1>5. VerdictInv'
  <2> SUFFICES ASSUME NEW a \in Attempts \ crossed'
               PROVE  /\ verdict[a] # "none" => attempt[a].status = verdict[a]
                      /\ a \in retry'.todo \/ a = retry'.at => verdict[a] = "none"
                      /\ \A h \in Handlers : a \in HeldBy(h) =>
                           /\ a \notin retry'.todo /\ a # retry'.at
                           /\ \A g \in Handlers \ {h} : a \notin HeldBy(g)
                           /\ req[h].op = "submit" => verdict[a] = "none"
                           /\ req[h].op = "answer" /\ req[h].status = "must_retry"
                                => attempt[a].status \notin {"approved", "denied"}
    BY DEF VerdictInv, HeldBy
  <2>1. a \in Attempts \ crossed  OBVIOUS
  <2>2. /\ verdict[a] # "none" => attempt[a].status = verdict[a]
        /\ a \in retry.todo \/ a = retry.at => verdict[a] = "none"
        /\ \A h \in Handlers : a \in HeldBy(h) =>
             /\ a \notin retry.todo /\ a # retry.at
             /\ \A g \in Handlers \ {h} : a \notin HeldBy(g)
             /\ req[h].op = "submit" => verdict[a] = "none"
             /\ req[h].op = "answer" /\ req[h].status = "must_retry"
                  => attempt[a].status \notin {"approved", "denied"}
    BY <1>1, <2>1 DEF VerdictInv
  <2> QED BY <2>1, <2>2
<1> QED BY <1>2, <1>3, <1>4, <1>5 DEF PhotoInv

\* The list of the retry command: failed attempts have no verdict, unless crossed.
LEMMA BeginRetryStep ==
  ASSUME PhotoInv, ReqOK, BeginRetry
  PROVE  PhotoInv' /\ ReqOK'
<1> DEFINE failed == {a \in Attempts : attempt[a].status = "must_retry"}
<1>1. PhotoTypeOK /\ VerdictInv  BY DEF PhotoInv
<1>2. /\ retry' = [NoRetry EXCEPT !.todo = failed]
      /\ crossed' = crossed \cup (failed \cap Held)
      /\ UNCHANGED <<attempt, updated, req, submissions, unanswered, verdict, passed>>
  BY DEF BeginRetry
<1>3. failed \subseteq Attempts /\ 0 \in 0..MaxAttempts  BY PhotoBoundAssumption
<1> HIDE DEF failed
<1>4. retry' = [todo |-> failed, at |-> 0, status |-> "none"]  BY <1>2 DEF NoRetry
<1>5. retry' \in [todo : SUBSET Attempts, at : 0..MaxAttempts,
                  status : {"none", "submitted", "must_retry"}]
  BY <1>4, <1>3
<1>6. PhotoTypeOK'  BY <1>1, <1>2, <1>4, <1>5 DEF PhotoTypeOK
<1>7. 0 \notin Attempts  BY PhotoBoundAssumption DEF Attempts
<1>8. ASSUME NEW a \in Attempts, a \in retry'.todo \/ a = retry'.at
      PROVE  /\ Exists(a) /\ (a \notin crossed' => verdict[a] = "none")
             /\ a \notin crossed' => \A h \in Handlers : a \notin HeldBy(h)
  <2>1. a \in failed  BY <1>4, <1>7, <1>8
  <2>2. attempt[a].status = "must_retry" /\ Exists(a)  BY <2>1 DEF failed, Exists
  <2>3. a \notin crossed' => a \notin crossed /\ a \notin Held  BY <1>2, <2>1
  <2>4. a \notin crossed => (verdict[a] # "none" => attempt[a].status = verdict[a])
    BY <1>1 DEF VerdictInv
  <2>5. verdict[a] \in {"none", "approved", "denied"}  BY <1>1 DEF PhotoTypeOK
  <2> QED BY <2>2, <2>3, <2>4, <2>5, Unheld
<1> QED BY <1>2, <1>6, <1>8, ListStep

\* The other steps of the retry command, answers without effect, time and the team.
LEMMA RetrySendStep ==
  ASSUME PhotoInv, ReqOK, RetrySend
  PROVE  PhotoInv' /\ ReqOK'
<1> DEFINE a == Max(retry.todo)
<1>1. PhotoTypeOK  BY DEF PhotoInv
<1>2. retry.todo \in SUBSET Attempts /\ retry.todo # {}  BY <1>1 DEF RetrySend, PhotoTypeOK
<1>3. a \in retry.todo /\ a \in Attempts  BY <1>2, MinMax
<1>4. PICK status \in {"submitted", "must_retry"} :
        /\ SendRequest(a, status)
        /\ retry' = [todo |-> retry.todo \ {a}, at |-> a, status |-> status]
  BY DEF RetrySend
<1> HIDE DEF a
<1>5. /\ submissions' \in 0..MaxSubmissions /\ unanswered' \in [Attempts -> Nat]
      /\ \A b \in Attempts : unanswered'[b] <= submissions'
  BY <1>1, <1>3, <1>4, SendType
<1>6. UNCHANGED <<attempt, updated, req, verdict, passed, crossed>>  BY DEF RetrySend
<1>7. a \in 0..MaxAttempts  BY <1>3, PhotoBoundAssumption DEF Attempts
<1>8. PhotoTypeOK'  BY <1>1, <1>2, <1>4, <1>5, <1>6, <1>7 DEF PhotoTypeOK
<1>9. \A b \in Attempts : b \in retry'.todo \/ b = retry'.at => b \in retry.todo
  BY <1>3, <1>4
<1> QED BY <1>6, <1>8, <1>9, ListStep

LEMMA RetrySaveStep ==
  ASSUME PhotoInv, ReqOK, RetrySave
  PROVE  PhotoInv' /\ ReqOK'
<1> DEFINE a == retry.at
           new == [attempt[a] EXCEPT !.status = retry.status]
<1>1. PhotoTypeOK /\ SavedOK /\ VerdictInv  BY DEF PhotoInv
<1>2. a \in Attempts /\ retry.status \in {"submitted", "must_retry"}
  BY <1>1, PhotoBoundAssumption DEF RetrySave, PhotoTypeOK, Attempts
<1>3. attempt[a] \in AttemptRows /\ Exists(a)  BY <1>1, <1>2 DEF PhotoTypeOK, SavedOK
<1>4. new \in AttemptRows /\ new.status \in {"submitted", "must_retry"}
      /\ new.reverification = attempt[a].reverification
  BY <1>2, <1>3 DEF AttemptRows, Statuses
<1>5. SaveAttempt(a, new) /\ retry' = [retry EXCEPT !.at = 0, !.status = "none"]
  BY DEF RetrySave
<1>6. UNCHANGED <<req, submissions, unanswered, verdict, passed, crossed>>  BY DEF RetrySave
<1>7. 0 \in 0..MaxAttempts  BY PhotoBoundAssumption
<1>8. retry' = [todo |-> retry.todo, at |-> 0, status |-> "none"]
  BY <1>1, <1>5 DEF PhotoTypeOK
<1>9. attempt' \in [Attempts -> AttemptRows]
  BY <1>1, <1>2, <1>4, <1>5 DEF PhotoTypeOK, SaveAttempt
<1>10. PhotoTypeOK'  BY <1>1, <1>6, <1>7, <1>8, <1>9 DEF PhotoTypeOK
<1>11. ReqOK'  BY <1>6 DEF ReqOK
<1>12. a \notin crossed => verdict[a] = "none" /\ \A g \in Handlers : a \notin HeldBy(g)
  BY <1>1, <1>2 DEF VerdictInv
<1>13. \A g \in Handlers : HeldBy(g)' = HeldBy(g)  BY <1>6 DEF HeldBy
<1>14. retry'.todo = retry.todo /\ retry'.at = 0 /\ 0 # a
  BY <1>8 DEF RetrySave
<1> HIDE DEF a, new
<1> QED BY <1>2, <1>3, <1>4, <1>5, <1>6, <1>10, <1>11, <1>12, <1>13, <1>14, SaveStep

LEMMA QuietStep ==
  ASSUME PhotoInv, ReqOK,
         \/ RetryStops \/ Expire \/ AddWindow
         \/ \E a \in Attempts, result \in Results : AnswerWithoutEffect(a, result)
  PROVE  PhotoInv' /\ ReqOK'
<1>1. PhotoTypeOK  BY DEF PhotoInv
<1>2. CASE RetryStops
  <2>1. retry' = NoRetry
        /\ UNCHANGED <<attempt, updated, req, submissions, unanswered, verdict, passed, crossed>>
    BY <1>2 DEF RetryStops
  <2>2. 0 \in 0..MaxAttempts /\ 0 \notin Attempts  BY PhotoBoundAssumption DEF Attempts
  <2>3. PhotoTypeOK'  BY <1>1, <2>1, <2>2 DEF PhotoTypeOK, NoRetry
  <2>4. retry'.todo = {} /\ retry'.at = 0  BY <2>1 DEF NoRetry
  <2> QED BY <2>1, <2>2, <2>3, <2>4, ListStep
<1>3. CASE Expire \/ AddWindow
  <2>1. UNCHANGED <<attempt, updated, req, retry, submissions, unanswered, verdict, passed, crossed>>
    BY <1>3 DEF Expire, AddWindow
  <2>2. PhotoTypeOK'  BY <1>1, <2>1 DEF PhotoTypeOK
  <2> QED BY <2>1, <2>2, ListStep
<1>4. ASSUME NEW a \in Attempts, NEW result \in Results, AnswerWithoutEffect(a, result)
      PROVE  PhotoInv' /\ ReqOK'
  <2>1. UNCHANGED <<attempt, updated, req, retry, submissions, verdict, passed, crossed>>
    BY <1>4 DEF AnswerWithoutEffect
  <2>2. /\ submissions' \in 0..MaxSubmissions /\ unanswered' \in [Attempts -> Nat]
        /\ \A b \in Attempts : unanswered'[b] <= submissions'
    BY <1>1, <1>4, <2>1, PostedType DEF AnswerWithoutEffect
  <2>3. PhotoTypeOK'  BY <1>1, <2>1, <2>2 DEF PhotoTypeOK
  <2> QED BY <2>1, <2>3, ListStep
<1> QED BY <1>2, <1>3, <1>4

-----------------------------------------------------------------------------
(* The photo verifications as a whole.                                       *)

\* What Software Secure has passed once stays so.
LEMMA PassedGrows ==
  ASSUME PhotoStep
  PROVE  passed => passed'
<1>1. ASSUME NEW h \in Handlers, HandlerStep(h)  PROVE passed => passed'
  BY <1>1 DEF HandlerStep, BeginOrder, CommitOrder, BeginPurchase, BeginReverify, BeginMidcourse,
              CommitSubmit, CommitAnswer, BeginAnswer
<1>2. CASE BeginRetry \/ RetrySend \/ RetrySave \/ RetryStops \/ Expire \/ AddWindow
  BY <1>2 DEF BeginRetry, RetrySend, RetrySave, RetryStops, Expire, AddWindow
<1>3. ASSUME NEW a \in Attempts, NEW result \in Results, AnswerWithoutEffect(a, result)
      PROVE  passed => passed'
  BY <1>3 DEF AnswerWithoutEffect
<1> QED BY <1>1, <1>2, <1>3 DEF PhotoStep

LEMMA PhotoStepInv ==
  ASSUME PhotoInv, ReqOK, PhotoStep
  PROVE  PhotoInv' /\ ReqOK'
<1>1. ASSUME NEW h \in Handlers, HandlerStep(h)  PROVE PhotoInv' /\ ReqOK'
  BY <1>1, OrderStep, CommitOrderStep, SubmitSteps, CommitSubmitStep, CommitAnswerStep, AnswerStep
     DEF HandlerStep
<1>2. CASE BeginRetry \/ RetrySend \/ RetrySave
  BY <1>2, BeginRetryStep, RetrySendStep, RetrySaveStep
<1>3. CASE \/ RetryStops \/ Expire \/ AddWindow
           \/ \E a \in Attempts, result \in Results : AnswerWithoutEffect(a, result)
  BY <1>3, QuietStep
<1> QED BY <1>1, <1>2, <1>3 DEF PhotoStep

\* A photo step makes no certificate row, and what a handler holds is well-formed still.
LEMMA PhotoStepRows ==
  ASSUME ReqOK, PhotoStep, NEW h \in Handlers, req'[h].op = "certificate"
  PROVE  req'[h] = req[h]
<1>1. ASSUME NEW g \in Handlers, NEW x, x.op # "certificate", req' = [req EXCEPT ![g] = x]
      PROVE  req'[h] = req[h]
  <2>1. req'[g] = x /\ \A f \in Handlers \ {g} : req'[f] = req[f]
    BY <1>1, ReqUpdate DEF ReqOK
  <2> QED BY <1>1, <2>1
<1>2. ASSUME NEW g \in Handlers, HandlerStep(g)
      PROVE  UNCHANGED req \/ \E x : x.op # "certificate" /\ req' = [req EXCEPT ![g] = x]
  <2>1. CASE BeginOrder(g)  BY <2>1 DEF BeginOrder
  <2>2. CASE CommitOrder(g) \/ CommitSubmit(g) \/ CommitAnswer(g)
    BY <2>2 DEF CommitOrder, CommitSubmit, CommitAnswer, Idle
  <2>3. ASSUME NEW a, NEW r, Submitting(g, a, r)
        PROVE  \E x : x.op # "certificate" /\ req' = [req EXCEPT ![g] = x]
    BY <2>3 DEF Submitting
  <2>4. CASE BeginPurchase(g)  BY <2>3, <2>4 DEF BeginPurchase
  <2>5. CASE BeginReverify(g)  BY <2>3, <2>5 DEF BeginReverify
  <2>6. CASE BeginMidcourse(g)  BY <2>3, <2>6 DEF BeginMidcourse
  <2>7. ASSUME NEW a \in Attempts, NEW result \in Results, BeginAnswer(g, a, result)
        PROVE  \E x : x.op # "certificate" /\ req' = [req EXCEPT ![g] = x]
    BY <2>7 DEF BeginAnswer
  <2> QED BY <1>2, <2>1, <2>2, <2>4, <2>5, <2>6, <2>7 DEF HandlerStep
<1>3. CASE BeginRetry \/ RetrySend \/ RetrySave \/ RetryStops \/ Expire \/ AddWindow
  BY <1>3 DEF BeginRetry, RetrySend, RetrySave, RetryStops, Expire, AddWindow
<1>4. ASSUME NEW a \in Attempts, NEW result \in Results, AnswerWithoutEffect(a, result)
      PROVE  req'[h] = req[h]
  BY <1>4 DEF AnswerWithoutEffect
<1> QED BY <1>1, <1>2, <1>3, <1>4 DEF PhotoStep

-----------------------------------------------------------------------------
(* Steps of the certificate.                                                 *)

\* What is asked for under a key is never changed, and rows stay what they are.
Grows == /\ \A k \in Keys : asked[k] # "none" => asked'[k] = asked[k]
         /\ passed => passed'

LEMMA RowKept ==
  ASSUME Grows, NEW r, RowFor(r, asked, passed)
  PROVE  RowFor(r, asked', passed')
<1>1. r.mode # "none"  BY DEF RowFor, Rows, Modes
<1> QED BY <1>1 DEF Grows, RowFor

\* A step of the photo verifications, or one that changes nothing, leaves the
\* certificate's invariant.
LEMMA CertKept ==
  ASSUME CertInv, CmdOK, UNCHANGED <<cert, asked, pending, cmd>>, passed => passed',
         \A h \in Handlers : req'[h].op = "certificate" => req'[h] = req[h]
  PROVE  CertInv' /\ CmdOK'
<1>1. Grows  BY DEF Grows
<1>2. RowFor(cert, asked', passed')  BY <1>1, RowKept DEF CertInv
<1>3. ASSUME NEW h \in Handlers, req'[h].op = "certificate"
      PROVE  RowFor(req'[h].row, asked', passed')
  BY <1>1, <1>3, RowKept DEF CertInv
<1>4. CertInv'  BY <1>2, <1>3 DEF CertInv
<1>5. CmdOK'  BY DEF CmdOK
<1> QED BY <1>4, <1>5

\* A command takes up something well-formed, and what it has written is a row of its own.
LEMMA CommandKept ==
  ASSUME CertInv, CmdOK, Grows, NEW c \in Commands, NEW x, cmd' = [cmd EXCEPT ![c] = x],
         UNCHANGED req, asked' \in [Keys -> Modes \cup {"none"}],
         pending' \subseteq Keys, \A k \in pending' : asked'[k] # "none",
         RowFor(cert', asked', passed'),
         x.op \in {"idle", "regen", "again", "grading", "add", "send"},
         x.op \in {"regen", "add"} => x.row \in Rows /\ (x.row.mode = "verified" => passed'),
         x.op = "regen" => x.row.status = "unavailable",
         x.op = "add" => x.row.status \in GradedStatuses,
         x.op = "send" => x.key \in Keys /\ asked'[x.key] # "none"
  PROVE  CertInv' /\ CmdOK'
<1>1. cmd = [b \in Commands |-> cmd[b]]  BY DEF CmdOK
<1>2. /\ cmd' = [b \in Commands |-> cmd'[b]]
      /\ cmd'[c] = x /\ \A b \in Commands \ {c} : cmd'[b] = cmd[b]
  BY <1>1
<1>3. ASSUME NEW b \in Commands
      PROVE  /\ cmd'[b].op \in {"idle", "regen", "again", "grading", "add", "send"}
             /\ cmd'[b].op \in {"regen", "add"} =>
                  cmd'[b].row \in Rows /\ (cmd'[b].row.mode = "verified" => passed')
             /\ cmd'[b].op = "regen" => cmd'[b].row.status = "unavailable"
             /\ cmd'[b].op = "add" => cmd'[b].row.status \in GradedStatuses
             /\ cmd'[b].op = "send" => cmd'[b].key \in Keys /\ asked'[cmd'[b].key] # "none"
  <2>1. CASE b = c  BY <1>2, <2>1
  <2>2. CASE b # c
    <3>1. cmd'[b] = cmd[b]  BY <1>2, <2>2
    <3> QED BY <3>1 DEF CmdOK, Grows
  <2> QED BY <2>1, <2>2
<1>4. CmdOK'  BY <1>2, <1>3 DEF CmdOK
<1>5. ASSUME NEW h \in Handlers, req[h].op = "certificate"
      PROVE  RowFor(req[h].row, asked', passed')
  BY <1>5, RowKept DEF CertInv
<1>6. CertInv'  BY <1>5 DEF CertInv
<1> QED BY <1>4, <1>6

\* A certificate is verified only for a user whom Software Secure has passed.
LEMMA VerifiedPassed ==
  ASSUME PassedInv, NEW mode \in Modes
  PROVE  CertMode(mode) \in Modes /\ (CertMode(mode) = "verified" => passed)
<1>1. UserIsVerified => passed  BY DEF PassedInv, UserIsVerified, Initial
<1> QED BY <1>1 DEF CertMode, Modes

\* The row that get_or_create finds or inserts is as good as the one in the table.
LEMMA NewRow ==
  ASSUME RowFor(cert, asked, passed)
  PROVE  RowFor(RowOrNew, asked, passed) /\ RowOrNew \in Rows
<1>1. 0 \in 0..MaxKeys  BY KeyAssumption
<1>2. CASE cert = NoCert
  <2>1. RowOrNew = [status |-> "unavailable", key |-> 0, mode |-> "honor", pdf |-> 0]
    BY <1>2 DEF RowOrNew, NoCert
  <2> QED BY <1>1, <2>1 DEF RowFor, Rows, Modes, CertStatuses, VALID_STATUSES
<1>3. CASE cert # NoCert  BY <1>3 DEF RowOrNew, RowFor
<1> QED BY <1>2, <1>3

\* The steps of a command.
LEMMA CommandStepInv ==
  ASSUME Inv, NEW c \in Commands, CommandStep(c)
  PROVE  CertInv' /\ CmdOK'
<1>1. CertInv /\ CmdOK /\ PassedInv  BY DEF Inv, PhotoInv
<1>2. /\ asked \in [Keys -> Modes \cup {"none"}]
      /\ pending \subseteq Keys /\ \A k \in pending : asked[k] # "none"
      /\ RowFor(cert, asked, passed) /\ cert \in Rows
  BY <1>1 DEF CertInv, RowFor
<1>3. UNCHANGED <<req, passed>>
  BY DEF CommandStep, BeginRegen, SaveUnavailable, BeginAdd, ReadRow, SaveWithoutRequest, SaveAndAsk,
         Send, CommandStops, photoVars
<1>4. UNCHANGED asked => Grows  BY <1>3 DEF Grows
<1>5. CASE BeginRegen(c)
  <2> DEFINE x == [op |-> "regen", row |-> [cert EXCEPT !.status = "unavailable"]]
  <2>1. cmd' = [cmd EXCEPT ![c] = x] /\ UNCHANGED <<cert, asked, pending>>
    BY <1>5 DEF BeginRegen
  <2>2. /\ x.op = "regen" /\ x.row \in Rows /\ x.row.status = "unavailable"
        /\ x.row.mode = "verified" => passed
    BY <1>2 DEF Rows, RowFor, CertStatuses, VALID_STATUSES
  <2> HIDE DEF x
  <2> QED BY <1>1, <1>2, <1>3, <1>4, <2>1, <2>2, CommandKept
<1>6. CASE SaveUnavailable(c)
  <2> DEFINE x == [op |-> "again"]
  <2>1. /\ cmd' = [cmd EXCEPT ![c] = x] /\ cert' = cmd[c].row /\ UNCHANGED <<asked, pending>>
        /\ cmd[c].op = "regen"
    BY <1>6 DEF SaveUnavailable
  <2>2. RowFor(cert', asked, passed)  BY <1>1, <2>1 DEF CmdOK, RowFor
  <2>3. x.op = "again"  OBVIOUS
  <2> HIDE DEF x
  <2> QED BY <1>1, <1>2, <1>3, <1>4, <2>1, <2>2, <2>3, CommandKept
<1>7. CASE BeginAdd(c)
  <2> DEFINE x == [op |-> "grading"]
  <2>1. cmd' = [cmd EXCEPT ![c] = x] /\ UNCHANGED <<cert, asked, pending>>
    BY <1>7 DEF BeginAdd
  <2>2. x.op = "grading"  OBVIOUS
  <2> HIDE DEF x
  <2> QED BY <1>1, <1>2, <1>3, <1>4, <2>1, <2>2, CommandKept
<1>12. CASE ReadRow(c)
  <2>1. PICK status \in GradedStatuses, mode \in Modes :
          cmd' = [cmd EXCEPT ![c] =
            [op |-> "add", row |-> [RowOrNew EXCEPT !.status = status, !.mode = CertMode(mode)]]]
    BY <1>12 DEF ReadRow
  <2>2. CertMode(mode) \in Modes /\ (CertMode(mode) = "verified" => passed)
    BY <1>1, VerifiedPassed
  <2>3. RowFor(RowOrNew, asked, passed) /\ RowOrNew \in Rows  BY <1>2, NewRow
  <2> DEFINE row == [RowOrNew EXCEPT !.status = status, !.mode = CertMode(mode)]
             x == [op |-> "add", row |-> row]
  <2>4. row \in Rows /\ row.status = status /\ row.mode = CertMode(mode)
    BY <2>2, <2>3 DEF Rows, GradedStatuses, CertStatuses, VALID_STATUSES
  <2> HIDE DEF row
  <2>5. x.op = "add" /\ x.row = row  OBVIOUS
  <2>6. cmd' = [cmd EXCEPT ![c] = x]  BY <2>1 DEF row
  <2>7. cert' = RowOrNew /\ UNCHANGED <<asked, pending>>  BY <1>12 DEF ReadRow
  <2> HIDE DEF x
  <2> QED BY <1>1, <1>2, <1>3, <1>4, <2>2, <2>3, <2>4, <2>5, <2>6, <2>7, CommandKept
<1>8. CASE SaveWithoutRequest(c)
  <2>1. /\ cmd' = [cmd EXCEPT ![c] = Idle] /\ cert' = cmd[c].row /\ UNCHANGED <<asked, pending>>
        /\ cmd[c].op = "add" /\ cmd[c].row.status # "generating"
    BY <1>8 DEF SaveWithoutRequest
  <2>2. RowFor(cert', asked, passed)  BY <1>1, <2>1 DEF CmdOK, RowFor, GradedStatuses
  <2>3. Idle.op = "idle"  BY DEF Idle
  <2> QED BY <1>1, <1>2, <1>3, <1>4, <2>1, <2>2, <2>3, CommandKept
<1>9. CASE SaveAndAsk(c)
  <2> DEFINE k == Min(Unused)
             x == [op |-> "send", key |-> k]
  <2>1. Unused \in SUBSET Keys /\ Unused # {}  BY <1>9 DEF SaveAndAsk, Unused
  <2>2. k \in Keys /\ asked[k] = "none"  BY <2>1, MinKey DEF Unused
  <2>3. /\ cert' = Keyed(cmd[c].row, k) /\ asked' = [asked EXCEPT ![k] = cmd[c].row.mode]
        /\ cmd' = [cmd EXCEPT ![c] = x] /\ UNCHANGED pending
        /\ cmd[c].op = "add" /\ cmd[c].row.status = "generating"
    BY <1>9 DEF SaveAndAsk
  <2>4. x.op = "send" /\ x.key = k  OBVIOUS
  <2> HIDE DEF k, x
  <2>5. cmd[c].row \in Rows /\ (cmd[c].row.mode = "verified" => passed)  BY <1>1, <2>3 DEF CmdOK
  <2>6. cmd[c].row.mode \in Modes /\ k \in 0..MaxKeys
    BY <2>2, <2>5, KeyAssumption DEF Rows, Keys
  <2>7. /\ asked' \in [Keys -> Modes \cup {"none"}] /\ asked'[k] = cmd[c].row.mode
        /\ \A l \in Keys \ {k} : asked'[l] = asked[l]
    BY <1>2, <2>2, <2>3, <2>6
  <2>8. Grows  BY <1>3, <2>2, <2>7 DEF Grows
  <2>9. /\ cert' \in Rows /\ cert'.status = "generating" /\ cert'.key = k
        /\ cert'.mode = cmd[c].row.mode
    BY <2>3, <2>5, <2>6 DEF Keyed, Rows
  <2>10. RowFor(cert', asked', passed')  BY <1>3, <2>2, <2>5, <2>7, <2>9 DEF RowFor
  <2>11. asked'[k] # "none"  BY <2>6, <2>7 DEF Modes
  <2>12. \A l \in pending : asked'[l] # "none"  BY <1>2, <2>8 DEF Grows
  <2> QED BY <1>1, <1>2, <1>3, <2>2, <2>3, <2>4, <2>7, <2>8, <2>10, <2>11, <2>12, CommandKept
<1>10. CASE Send(c)
  <2>1. /\ cmd' = [cmd EXCEPT ![c] = Idle] /\ pending' = pending \cup {cmd[c].key}
        /\ cmd[c].op = "send" /\ UNCHANGED <<cert, asked>>
    BY <1>10 DEF Send
  <2>2. cmd[c].key \in Keys /\ asked[cmd[c].key] # "none"  BY <1>1, <2>1 DEF CmdOK
  <2>3. Idle.op = "idle"  BY DEF Idle
  <2> QED BY <1>1, <1>2, <1>3, <1>4, <2>1, <2>2, <2>3, CommandKept
<1>11. CASE CommandStops(c)
  <2>1. cmd' = [cmd EXCEPT ![c] = Idle] /\ UNCHANGED <<cert, asked, pending>>
    BY <1>11 DEF CommandStops
  <2>2. Idle.op = "idle"  BY DEF Idle
  <2> QED BY <1>1, <1>2, <1>3, <1>4, <2>1, <2>2, CommandKept
<1> QED BY <1>5, <1>6, <1>7, <1>8, <1>9, <1>10, <1>11, <1>12 DEF CommandStep

\* An answer of the certificate server is refused.
LEMMA RefusedStep ==
  ASSUME Inv, NEW k \in Keys, NEW failed \in BOOLEAN, ReplyRefused(k, failed)
  PROVE  Inv'
<1>1. PhotoInv /\ ReqOK /\ CmdOK /\ CertInv /\ PhotoTypeOK  BY DEF Inv, PhotoInv
<1>2. /\ UNCHANGED <<attempt, updated, retry, submissions, unanswered, verdict, passed, crossed>>
      /\ UNCHANGED <<req, cert, cmd, asked>> /\ pending' \subseteq pending
  BY DEF ReplyRefused, PhotoUnchanged, Replied
<1>3. PhotoTypeOK'  BY <1>1, <1>2 DEF PhotoTypeOK
<1>4. PhotoInv' /\ ReqOK'  BY <1>1, <1>2, <1>3, ListStep
<1>5. CertInv'  BY <1>1, <1>2 DEF CertInv
<1>6. CmdOK'  BY <1>1, <1>2 DEF CmdOK
<1> QED BY <1>4, <1>5, <1>6 DEF Inv

\* An answer of the certificate server is read: the row it will be saved in is one of
\* the request it answers.
LEMMA ReplyRead ==
  ASSUME Inv, NEW k \in Keys, NEW failed \in BOOLEAN, NEW h \in Handlers, BeginReply(h, k, failed)
  PROVE  Inv'
<1>1. PhotoInv /\ ReqOK /\ CmdOK /\ CertInv /\ PhotoTypeOK  BY DEF Inv, PhotoInv
<1>2. PICK row \in Answered(k, failed) :
        req' = [req EXCEPT ![h] = [op |-> "certificate", row |-> row]]
  BY DEF BeginReply
<1> DEFINE x == [op |-> "certificate", row |-> row]
<1>3. x.op = "certificate" /\ x.row = row  OBVIOUS
<1>4. req[h].op = "idle" /\ req' = [req EXCEPT ![h] = x]
  <2>1. req[h].op = "idle"  BY DEF BeginReply, Idle
  <2>2. req' = [req EXCEPT ![h] = x]  BY <1>2
  <2> QED BY <2>1, <2>2
<1> HIDE DEF x
<1>5. /\ UNCHANGED <<attempt, updated, retry, submissions, unanswered, verdict, passed, crossed>>
      /\ UNCHANGED <<cert, cmd, asked>> /\ pending' \subseteq pending
  BY DEF BeginReply, PhotoUnchanged, Replied
<1>6. RowFor(cert, asked, passed) /\ cert.key = k /\ cert \in Rows
  BY <1>1 DEF CertInv, BeginReply, Lookup, RowFor
<1>7. RowFor(row, asked, passed)
  <2>1. CASE failed
    <3>1. row = [cert EXCEPT !.status = "error"]  BY <1>2, <2>1 DEF Answered
    <3> QED BY <1>6, <3>1 DEF RowFor, Rows, CertStatuses, VALID_STATUSES
  <2>2. CASE ~failed
    <3>1. row = [cert EXCEPT !.status = "downloadable", !.pdf = k] /\ cert.status = "generating"
      BY <1>2, <2>2 DEF Answered
    <3>2. k \in 0..MaxKeys  BY KeyAssumption DEF Keys
    <3>3. /\ row \in Rows /\ row.status = "downloadable" /\ row.key = k /\ row.pdf = k
          /\ row.mode = cert.mode
      BY <1>6, <3>1, <3>2 DEF Rows, CertStatuses
    <3> QED BY <1>6, <3>1, <3>3 DEF RowFor
  <2> QED BY <2>1, <2>2
<1>8. row \in Rows  BY <1>7 DEF RowFor
<1>9. PhotoInv' /\ ReqOK'
  <2>1. /\ submissions' \in 0..MaxSubmissions /\ unanswered' \in [Attempts -> Nat]
        /\ \A a \in Attempts : unanswered'[a] <= submissions'
    BY <1>1, <1>5 DEF PhotoTypeOK
  <2> QED BY <1>1, <1>3, <1>4, <1>5, <1>8, <2>1, HoldStep
<1>10. req'[h] = x /\ \A g \in Handlers \ {h} : req'[g] = req[g]
  BY <1>1, <1>4, ReqUpdate DEF ReqOK
<1>11. CertInv'
  <2>1. ASSUME NEW g \in Handlers, req'[g].op = "certificate"
        PROVE  RowFor(req'[g].row, asked, passed)
    <3>1. CASE g = h  BY <1>3, <1>7, <1>10, <3>1
    <3>2. CASE g # h
      <4>1. req'[g] = req[g]  BY <1>10, <3>2
      <4> QED BY <1>1, <2>1, <4>1 DEF CertInv
    <3> QED BY <3>1, <3>2
  <2> QED BY <1>1, <1>5, <2>1 DEF CertInv
<1>12. CmdOK'  BY <1>1, <1>5 DEF CmdOK
<1> QED BY <1>9, <1>11, <1>12 DEF Inv

\* An answer of the certificate server is saved.
LEMMA ReplySaved ==
  ASSUME Inv, NEW h \in Handlers, CommitReply(h)
  PROVE  Inv'
<1>1. PhotoInv /\ ReqOK /\ CmdOK /\ CertInv  BY DEF Inv
<1>2. PhotoTypeOK /\ SavedOK /\ VerdictInv /\ PassedInv  BY <1>1 DEF PhotoInv
<1>3. /\ UNCHANGED <<attempt, updated, retry, submissions, unanswered, verdict, passed, crossed>>
      /\ UNCHANGED <<cmd, asked, pending>> /\ cert' = req[h].row
      /\ req[h].op = "certificate" /\ req' = [req EXCEPT ![h] = Idle]
  BY DEF CommitReply, PhotoUnchanged
<1>4. /\ ReqOK' /\ req'[h].op = "idle" /\ HeldBy(h)' = {}
      /\ \A g \in Handlers \ {h} : req'[g] = req[g] /\ HeldBy(g)' = HeldBy(g)
  BY <1>1, <1>3, IdleStep
<1>5. \A g \in Handlers : req'[g] = req[g] \/ req'[g].op = "idle"  BY <1>4
<1>6. PhotoTypeOK'  BY <1>2, <1>3 DEF PhotoTypeOK
<1>7. SavedOK'
  <2>1. ASSUME NEW g \in Handlers
        PROVE  /\ req'[g].op = "order" => attempt[req'[g].attempt].status = "none"
               /\ req'[g].op = "answer" => attempt[req'[g].attempt].status # "none"
               /\ req'[g].op = "submit" /\ attempt[req'[g].attempt].status # "none"
                    => attempt[req'[g].attempt].reverification = req'[g].reverification
               /\ \A f \in Handlers \ {g} :
                    req'[g].op \in {"order", "submit"} /\ req'[f].op \in {"order", "submit"}
                      /\ req'[g].attempt = req'[f].attempt => attempt[req'[g].attempt].status # "none"
    <3>1. CASE req'[g].op = "idle"  BY <3>1
    <3>2. CASE req'[g] = req[g]
      <4>1. \A f \in Handlers : req'[f].op \in {"order", "submit"} => req'[f] = req[f]
        BY <1>5
      <4>2. /\ req[g].op = "order" => ~Exists(req[g].attempt)
            /\ req[g].op = "answer" => Exists(req[g].attempt)
            /\ req[g].op = "submit" /\ Exists(req[g].attempt)
                 => attempt[req[g].attempt].reverification = req[g].reverification
            /\ \A f \in Handlers \ {g} :
                 req[g].op \in {"order", "submit"} /\ req[f].op \in {"order", "submit"}
                   /\ req[g].attempt = req[f].attempt => Exists(req[g].attempt)
        BY <1>2 DEF SavedOK
      <4> QED BY <3>2, <4>1, <4>2 DEF Exists
    <3> QED BY <1>5, <3>1, <3>2
  <2> QED BY <1>2, <1>3, <2>1 DEF SavedOK, Exists
<1>8. VerdictInv'
  <2>1. \A g \in Handlers : HeldBy(g)' \subseteq HeldBy(g)  BY <1>4
  <2>2. \A g \in Handlers : HeldBy(g)' # {} => req'[g] = req[g]  BY <1>4
  <2> QED BY <1>2, <1>3, <2>1, <2>2 DEF VerdictInv
<1>9. PassedInv'  BY <1>2, <1>3 DEF PassedInv
<1>10. RowFor(cert', asked, passed)  BY <1>1, <1>3 DEF CertInv
<1>11. CertInv'
  <2>1. ASSUME NEW g \in Handlers, req'[g].op = "certificate"
        PROVE  RowFor(req'[g].row, asked, passed)
    BY <1>1, <1>5, <2>1 DEF CertInv
  <2> QED BY <1>1, <1>3, <1>10, <2>1 DEF CertInv
<1>12. CmdOK'  BY <1>1, <1>3 DEF CmdOK
<1> QED BY <1>4, <1>6, <1>7, <1>8, <1>9, <1>11, <1>12 DEF Inv, PhotoInv

-----------------------------------------------------------------------------
(* The theorems.                                                             *)

LEMMA InitInv == Init => Inv
<1> SUFFICES ASSUME Init  PROVE Inv
  OBVIOUS
<1> USE DEF Init, PhotoInit
<1>1. /\ Idle.op = "idle" /\ \A h \in Handlers : req[h].op = "idle"
      /\ \A h \in Handlers : HeldBy(h) = {}
  BY DEF Idle, HeldBy
<1>2. \A a \in Attempts : attempt[a].status = "none"  OBVIOUS
<1>3. 0 \in 0..MaxAttempts /\ 0 \in 0..MaxSubmissions /\ 0 \notin Attempts /\ 0 \in 0..MaxKeys
  BY PhotoBoundAssumption, KeyAssumption DEF Attempts
<1>4. PhotoTypeOK  BY <1>3 DEF PhotoTypeOK, AttemptRows, NoRetry
<1>5. SavedOK  BY <1>1, <1>3 DEF SavedOK, NoRetry
<1>6. VerdictInv  BY <1>1, <1>3 DEF VerdictInv, NoRetry
<1>7. PassedInv  BY <1>2 DEF PassedInv
<1>8. ReqOK  BY <1>1 DEF ReqOK
<1>9. CmdOK  BY <1>1 DEF CmdOK
<1>10. NoCert \in Rows /\ NoCert.status = "absent" /\ NoCert.mode = "honor"
  BY <1>3 DEF NoCert, Rows, Modes, CertStatuses, VALID_STATUSES
<1>11. CertInv  BY <1>1, <1>10 DEF CertInv, RowFor
<1> QED BY <1>4, <1>5, <1>6, <1>7, <1>8, <1>9, <1>11 DEF Inv, PhotoInv

LEMMA StepInv == Inv /\ [Next]_vars => Inv'
<1> SUFFICES ASSUME Inv, [Next]_vars  PROVE Inv'
  OBVIOUS
<1>1. PhotoInv /\ ReqOK /\ CmdOK /\ CertInv /\ PhotoTypeOK  BY DEF Inv, PhotoInv
<1>2. CASE PhotoStep /\ UNCHANGED certVars
  <2>1. PhotoInv' /\ ReqOK'  BY <1>1, <1>2, PhotoStepInv
  <2>2. CertInv' /\ CmdOK'
    BY <1>1, <1>2, CertKept, PassedGrows, PhotoStepRows DEF certVars
  <2> QED BY <2>1, <2>2 DEF Inv
<1>3. ASSUME NEW c \in Commands, CommandStep(c)  PROVE Inv'
  <2>1. CertInv' /\ CmdOK'  BY <1>3, CommandStepInv
  <2>2. UNCHANGED photoVars
    BY <1>3 DEF CommandStep, BeginRegen, SaveUnavailable, BeginAdd, ReadRow, SaveWithoutRequest,
                SaveAndAsk, Send, CommandStops
  <2>3. PhotoTypeOK'  BY <1>1, <2>2 DEF PhotoTypeOK, photoVars
  <2>4. PhotoInv' /\ ReqOK'  BY <1>1, <2>2, <2>3, ListStep DEF photoVars
  <2> QED BY <2>1, <2>4 DEF Inv
<1>4. CASE ReplyStep  BY <1>4, RefusedStep, ReplyRead DEF ReplyStep
<1>5. ASSUME NEW h \in Handlers, CommitReply(h)  PROVE Inv'
  BY <1>5, ReplySaved
<1>6. CASE UNCHANGED vars
  <2>1. PhotoTypeOK'  BY <1>1, <1>6 DEF PhotoTypeOK, vars, photoVars
  <2>2. PhotoInv' /\ ReqOK'  BY <1>1, <1>6, <2>1, ListStep DEF vars, photoVars
  <2>3. CertInv' /\ CmdOK'  BY <1>1, <1>6, CertKept DEF vars, photoVars, certVars
  <2> QED BY <2>2, <2>3 DEF Inv
<1> QED BY <1>2, <1>3, <1>4, <1>5, <1>6 DEF Next

THEOREM Invariant == Spec => []Inv
BY InitInv, StepInv, PTL DEF Spec

\* The rows, the requests and the commands are always well-formed: whatever the saves of
\* whole rows by requests, the callback and two commands write over each other.
THEOREM TypeCorrect == Spec => []TypeOK
<1>1. Inv => TypeOK
  <2> SUFFICES ASSUME Inv  PROVE TypeOK
    OBVIOUS
  <2>1. PhotoTypeOK /\ SavedOK /\ CmdOK /\ CertInv  BY DEF Inv, PhotoInv
  <2>2. attempt \in [Attempts -> [status : Statuses \cup {"none"}, reverification : BOOLEAN]]
    BY <2>1 DEF PhotoTypeOK, AttemptRows
  <2>3. submissions \in 0..MaxSubmissions /\ \A a \in Attempts : unanswered[a] \in 0..submissions
    <3>1. submissions \in 0..MaxSubmissions /\ submissions \in Nat
      BY <2>1, PhotoBoundAssumption DEF PhotoTypeOK
    <3>2. \A a \in Attempts : unanswered[a] \in Nat /\ unanswered[a] <= submissions
      BY <2>1 DEF PhotoTypeOK
    <3> QED BY <3>1, <3>2
  <2>4. updated # 0 => attempt[updated].reverification  BY <2>1 DEF SavedOK
  <2>5. retry.todo \subseteq Attempts /\ retry.at \in 0..MaxAttempts  BY <2>1 DEF PhotoTypeOK
  <2>6. cert \in Rows  BY <2>1 DEF CertInv, RowFor
  <2>7. \A c \in Commands : cmd[c].op \in {"regen", "add"} => cmd[c].row \in Rows
    BY <2>1 DEF CmdOK
  <2>8. pending \subseteq Keys \ Unused  BY <2>1 DEF CertInv, Unused
  <2> QED BY <2>2, <2>3, <2>4, <2>5, <2>6, <2>7, <2>8 DEF TypeOK
<1> QED BY <1>1, Invariant, PTL

\* A decision of Software Secure about an attempt that no two processes held at once is
\* never taken back, by an answer to an earlier submission, a purchase or the retry command.
THEOREM VerdictAlwaysKept == Spec => []VerdictKept
<1>1. Inv => VerdictKept  BY DEF Inv, PhotoInv, VerdictInv, VerdictKept
<1> QED BY <1>1, Invariant, PTL

\* A certificate to be downloaded is the pdf asked for under the key of its row and with
\* its mode, whatever answers come late or twice, whatever becomes of the row between a
\* command's check of its status and its reading, and whatever commands save over each
\* other; a verified one is only for a user whom Software Secure has passed.
THEOREM CertificateAlwaysOfRequest == Spec => []CertificateOfRequest
<1>1. Inv => CertificateOfRequest  BY DEF Inv, CertInv, RowFor, CertificateOfRequest
<1> QED BY <1>1, Invariant, PTL
=============================================================================
