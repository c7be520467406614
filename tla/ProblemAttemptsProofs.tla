----------------------- MODULE ProblemAttemptsProofs -----------------------
(* Theorems about ProblemAttempts, for every set of answers and of handlers *)
(* and every value of the bounds.                                           *)
EXTENDS ProblemAttempts, TLAPS

-----------------------------------------------------------------------------
(* Types.                                                                    *)

\* What a handler holds: a check in progress may still take one attempt, whatever has
\* become of the row meanwhile.
ReqOK ==
  /\ req = [h \in Handlers |-> req[h]]
  /\ \A h \in Handlers :
       /\ req[h].op \in {"idle", "check", "checked", "save", "reset"}
       /\ req[h].op = "check" =>
            req[h].read \in Rows /\ req[h].read.attempts < MaxAttempts /\ req[h].answer \in Answers
       /\ req[h].op \in {"checked", "save", "reset"} => req[h].read \in Rows /\ req[h].write \in Rows

TypeInv == TypeOK /\ ReqOK

\* Giving a handler something to hold changes no other handler.
LEMMA ReqUpdate ==
  ASSUME req = [h \in Handlers |-> req[h]], NEW h \in Handlers, NEW x
  PROVE  LET new == [req EXCEPT ![h] = x] IN
           /\ new = [g \in Handlers |-> new[g]]
           /\ new[h] = x
           /\ \A g \in Handlers \ {h} : new[g] = req[g]
OBVIOUS

\* Each field of a row can be set on its own.
LEMMA ChangedField ==
  ASSUME NEW r \in Rows
  PROVE  /\ [r EXCEPT !.exists = TRUE] \in Rows
         /\ \A n \in 0..MaxAttempts : [r EXCEPT !.attempts = n] \in Rows
         /\ \A b \in BOOLEAN : [r EXCEPT !.done = b] \in Rows
         /\ \A a \in Answers \cup {NoAnswer} : [r EXCEPT !.answer = a] \in Rows
         /\ \A a \in Answers \cup {NoAnswer} : [r EXCEPT !.judged = a] \in Rows
         /\ \A k \in 0..MaxTime : [r EXCEPT !.queued = k] \in Rows
         /\ \A p \in 0..1 : [r EXCEPT !.points = p] \in Rows
BY DEF Rows

LEMMA Zero == 0 \in 0..MaxAttempts /\ 0 \in 0..MaxTime
BY BoundAssumption

\* A new row, with or without a place in the table.
LEMMA BlankRow ==
  /\ Blank \in Rows /\ [Blank EXCEPT !.exists = TRUE] \in Rows
  /\ Blank.attempts = 0 /\ [Blank EXCEPT !.exists = TRUE].attempts = 0
<1>1. Blank \in Rows  BY Zero DEF Blank, Rows
<1>2. Blank.attempts = 0 /\ [Blank EXCEPT !.exists = TRUE].attempts = 0  BY DEF Blank
<1> QED BY <1>1, <1>2, ChangedField

\* publish_grade changes the grade only.
LEMMA PublishedRow ==
  ASSUME NEW r \in Rows
  PROVE  LET p == Published(r) IN
           /\ p \in Rows
           /\ p.exists = r.exists /\ p.attempts = r.attempts /\ p.done = r.done
           /\ p.answer = r.answer /\ p.judged = r.judged /\ p.queued = r.queued
           /\ p.points = r.points /\ p.grade = Score(r) /\ Score(p) = Score(r)
BY DEF Published, Score, Rows

\* Grading an answer makes a correct map that is about it.
LEMMA GradedRow ==
  ASSUME NEW r \in Rows, NEW a \in Answers \cup {NoAnswer}, NEW key \in 0..MaxTime
  PROVE  LET g == Graded(r, a, key) IN
           /\ g \in Rows
           /\ g.attempts = r.attempts /\ g.done = r.done
           /\ g.answer = a /\ g.judged = a /\ g.queued = key
           /\ g.points = 1 => a \in Right
<1> DEFINE p  == IF problem.external THEN 0 ELSE PointsFor(a)
           m1 == [r EXCEPT !.answer = a]
           m2 == [m1 EXCEPT !.judged = a]
           m3 == [m2 EXCEPT !.queued = key]
<1>1. Graded(r, a, key) = [m3 EXCEPT !.points = p]  BY DEF Graded
<1>2. p \in 0..1  BY DEF PointsFor
<1>3. LET g == Graded(r, a, key) IN
        /\ g.attempts = r.attempts /\ g.done = r.done
        /\ g.answer = a /\ g.judged = a /\ g.queued = key
        /\ g.points = 1 => a \in Right
  BY DEF Graded, PointsFor, Rows
<1> HIDE DEF p, m1, m2, m3
<1>4. m1 \in Rows  BY ChangedField DEF m1
<1>5. m2 \in Rows  BY <1>4, ChangedField DEF m2
<1>6. m3 \in Rows  BY <1>5, ChangedField DEF m3
<1> QED BY <1>1, <1>2, <1>3, <1>6, ChangedField

\* A check counts one attempt and publishes the score of the new correct map.
LEMMA AttemptedRow ==
  ASSUME NEW r \in Rows, r.attempts < MaxAttempts
  PROVE  LET t == Attempted(r) IN
           /\ t \in Rows
           /\ t.attempts = r.attempts + 1 /\ t.done
           /\ t.answer = r.answer /\ t.judged = r.judged /\ t.queued = r.queued
           /\ t.points = r.points /\ t.grade = Score(t)
<1> DEFINE m == [r EXCEPT !.attempts = @ + 1, !.done = TRUE]
<1>1. /\ m \in Rows /\ m.attempts = r.attempts + 1 /\ m.done
      /\ m.answer = r.answer /\ m.judged = r.judged /\ m.queued = r.queued /\ m.points = r.points
  <2> DEFINE m1 == [r EXCEPT !.attempts = r.attempts + 1]
  <2>1. m = [m1 EXCEPT !.done = TRUE]  OBVIOUS
  <2>2. r.attempts + 1 \in 0..MaxAttempts  BY BoundAssumption DEF Rows
  <2>3. m.attempts = r.attempts + 1 /\ m.done /\ m.answer = r.answer /\ m.judged = r.judged
    BY DEF Rows
  <2>4. m.queued = r.queued /\ m.points = r.points  BY DEF Rows
  <2> HIDE DEF m, m1
  <2>5. m1 \in Rows  BY <2>2, ChangedField DEF m1
  <2> QED BY <2>1, <2>3, <2>4, <2>5, ChangedField
<1> HIDE DEF m
<1>2. Attempted(r) = Published(m)  BY DEF Attempted, m
<1> QED BY <1>1, <1>2, PublishedRow

\* Changes of one field or two keep a row well-formed.
LEMMA ChangedRow ==
  ASSUME NEW r \in Rows
  PROVE  /\ [r EXCEPT !.exists = TRUE] \in Rows
         /\ \A a \in Answers : [r EXCEPT !.answer = a] \in Rows
         /\ [r EXCEPT !.attempts = 0] \in Rows
         /\ ResetProblem(r) \in Rows
         /\ \A p \in 0..1 : [r EXCEPT !.queued = 0, !.points = p] \in Rows
<1>1. [r EXCEPT !.exists = TRUE] \in Rows  BY ChangedField
<1>2. \A a \in Answers : [r EXCEPT !.answer = a] \in Rows  BY ChangedField
<1>3. [r EXCEPT !.attempts = 0] \in Rows  BY ChangedField, Zero
<1>4. ResetProblem(r) \in Rows
  <2> DEFINE m1 == [r EXCEPT !.done = FALSE]
             m2 == [m1 EXCEPT !.answer = NoAnswer]
             m3 == [m2 EXCEPT !.judged = NoAnswer]
             m4 == [m3 EXCEPT !.queued = 0]
  <2>1. ResetProblem(r) = [m4 EXCEPT !.points = 0]  BY DEF ResetProblem
  <2> HIDE DEF m1, m2, m3, m4
  <2>2. m1 \in Rows  BY ChangedField DEF m1
  <2>3. m2 \in Rows  BY <2>2, ChangedField DEF m2
  <2>4. m3 \in Rows  BY <2>3, ChangedField DEF m3
  <2>5. m4 \in Rows  BY <2>4, ChangedField, Zero DEF m4
  <2>6. [m4 EXCEPT !.points = 0] \in Rows
    <3>1. 0 \in 0..1  OBVIOUS
    <3> QED BY <2>5, <3>1, ChangedField
  <2> QED BY <2>1, <2>6
<1>5. ASSUME NEW p \in 0..1 PROVE [r EXCEPT !.queued = 0, !.points = p] \in Rows
  <2> DEFINE m == [r EXCEPT !.queued = 0]
  <2>1. [r EXCEPT !.queued = 0, !.points = p] = [m EXCEPT !.points = p]  OBVIOUS
  <2> HIDE DEF m
  <2>2. m \in Rows  BY ChangedField, Zero DEF m
  <2> QED BY <2>1, <2>2, ChangedField
<1> QED BY <1>1, <1>2, <1>3, <1>4, <1>5

\* A reply of the grader leaves attempts, answer and judged answer alone.
LEMMA RepliedRow ==
  ASSUME NEW r \in Rows, NEW s \in Submissions
  PROVE  /\ ScoreUpdated(r, s) \in Rows /\ ScoreUpdated(r, s).attempts = r.attempts
         /\ InvalidReplied(r) \in Rows /\ InvalidReplied(r).attempts = r.attempts
<1> DEFINE new(p) == [r EXCEPT !.queued = 0, !.points = p]
<1>1. \A p \in 0..1 : new(p) \in Rows  BY ChangedRow
<1>2. \A p \in 0..1 : new(p).attempts = r.attempts  BY DEF Rows
<1> HIDE DEF new
<1>3. PointsFor(s.answer) \in 0..1  BY DEF PointsFor
<1>4. /\ ScoreUpdated(r, s) = Published(IF IsRightQueuekey(r, s.key) THEN new(PointsFor(s.answer)) ELSE r)
      /\ InvalidReplied(r) = Published(new(0))
  BY DEF ScoreUpdated, InvalidReplied, new
<1> QED BY <1>1, <1>2, <1>3, <1>4, PublishedRow

\* The problem is new and nobody works on it in the initial state.
LEMMA TypeInit == Init => TypeInv
<1> SUFFICES ASSUME Init PROVE TypeInv
  OBVIOUS
<1>1. row \in Rows  BY BlankRow DEF Init
<1>2. TypeOK
  <2>1. now \in Times  BY BoundAssumption DEF Init, Times
  <2>2. /\ problem \in [external : BOOLEAN, always : BOOLEAN] /\ xqueue = {}
        /\ pastDue = FALSE /\ raced = FALSE /\ collided = FALSE /\ submitted = 0
    BY DEF Init
  <2> QED BY <1>1, <2>1, <2>2 DEF TypeOK
<1>3. ReqOK  BY DEF Init, ReqOK, Idle
<1> QED BY <1>2, <1>3 DEF TypeInv

\* A handler that holds something well-formed leaves the types intact.
LEMMA ReqType ==
  ASSUME TypeInv, NEW h \in Handlers, NEW x, req' = [req EXCEPT ![h] = x],
         x.op \in {"idle", "check", "checked", "save", "reset"},
         x.op = "check" => x.read \in Rows /\ x.read.attempts < MaxAttempts /\ x.answer \in Answers,
         x.op \in {"checked", "save", "reset"} => x.read \in Rows /\ x.write \in Rows
  PROVE  ReqOK'
<1>1. req = [g \in Handlers |-> req[g]]  BY DEF TypeInv, ReqOK
<1>2. /\ req' = [g \in Handlers |-> req'[g]]
      /\ req'[h] = x
      /\ \A g \in Handlers \ {h} : req'[g] = req[g]
  BY <1>1, ReqUpdate
<1> SUFFICES ASSUME NEW g \in Handlers
             PROVE  /\ req'[g].op \in {"idle", "check", "checked", "save", "reset"}
                    /\ req'[g].op = "check" =>
                         req'[g].read \in Rows /\ req'[g].read.attempts < MaxAttempts /\ req'[g].answer \in Answers
                    /\ req'[g].op \in {"checked", "save", "reset"}
                         => req'[g].read \in Rows /\ req'[g].write \in Rows
  BY <1>2 DEF ReqOK
<1>3. CASE g = h  BY <1>2, <1>3
<1>4. CASE g # h  BY <1>2, <1>4 DEF TypeInv, ReqOK
<1> QED BY <1>3, <1>4

-----------------------------------------------------------------------------
(* The invariants of the grade and of the attempts.                          *)

\* A row whose grade is of the answer it is about.
Sound(r) ==
  /\ r.queued # 0 \/ r.points = 1 => r.answer # NoAnswer
  /\ r.points = 1 => r.judged \in Right
  /\ r.done => r.grade = Score(r)

\* The submission a row waits for is in the queue q, and is the answer it is about.
Known(r, q) ==
  r.queued # 0 => /\ \E s \in q : s.key = r.queued
                  /\ \A s \in q : s.key = r.queued => s.answer = r.judged

Fit(r, q) == Sound(r) /\ Known(r, q)

\* The row and what handlers are going to make of it; old copies included.
GradeInv ==
  ~collided =>
    /\ Fit(row, xqueue)
    /\ \A h \in Handlers :
         /\ req[h].op = "check" => Fit(req[h].read, xqueue)
         /\ req[h].op \in {"checked", "save", "reset"} => Fit(req[h].write, xqueue)

\* Without a race every handler holds the row as it is.
CountInv ==
  ~raced =>
    /\ row.attempts = submitted
    /\ \A h \in Handlers :
         /\ req[h].op # "idle" => req[h].read = row
         /\ req[h].op = "checked" => req[h].write.attempts = row.attempts + 1
         /\ req[h].op = "save" => req[h].write.attempts = row.attempts
         /\ req[h].op = "reset" => req[h].write.attempts = 0

Inv == TypeInv /\ GradeInv /\ CountInv

\* save_problem and a StudentInputError: the answers change, the point does not.
LEMMA AnsweredFit ==
  ASSUME NEW r \in Rows, NEW a \in Answers
  PROVE  LET w == [r EXCEPT !.answer = a] IN
           w \in Rows /\ w.attempts = r.attempts /\ \A q : Fit(r, q) => Fit(w, q)
<1> DEFINE w == [r EXCEPT !.answer = a]
<1>1. w \in Rows  BY ChangedRow
<1>2. /\ w.attempts = r.attempts /\ w.done = r.done /\ w.answer = a /\ w.judged = r.judged
      /\ w.queued = r.queued /\ w.points = r.points /\ w.grade = r.grade
  BY DEF Rows
<1>3. r.points \in 0..1 /\ a # NoAnswer  BY AnswerAssumption DEF Rows
<1> HIDE DEF w
<1>4. ASSUME NEW q, Fit(r, q) PROVE Fit(w, q)
  <2>1. Known(w, q)  BY <1>2, <1>4 DEF Fit, Known
  <2>2. Score(r) = Score(w)
    BY <1>2, <1>3, <1>4 DEF Fit, Sound, Score
  <2> QED BY <1>2, <1>3, <1>4, <2>1, <2>2 DEF Fit, Sound
<1> QED BY <1>1, <1>2, <1>4 DEF w

\* reset_problem forgets the answer, the point and the queue state.
LEMMA ResetFit ==
  ASSUME NEW r \in Rows
  PROVE  LET w == ResetProblem(r) IN
           w \in Rows /\ w.attempts = r.attempts /\ \A q : Fit(w, q)
<1> DEFINE w == ResetProblem(r)
<1>1. w \in Rows  BY ChangedRow
<1>2. w.attempts = r.attempts /\ w.done = FALSE /\ w.queued = 0 /\ w.points = 0
  BY DEF ResetProblem, Rows
<1> HIDE DEF w
<1>3. \A q : Fit(w, q)  BY <1>2 DEF Fit, Sound, Known
<1> QED BY <1>1, <1>2, <1>3 DEF w

\* rescore_problem grades what student_answers holds, and waits for nothing.
LEMMA RescoredFit ==
  ASSUME NEW r \in Rows
  PROVE  LET w == Rescored(r) IN
           w \in Rows /\ w.attempts = r.attempts /\ \A q : Fit(w, q)
<1> DEFINE g == Graded(r, r.answer, 0)
           w == Rescored(r)
<1>1. r.answer \in Answers \cup {NoAnswer}  BY DEF Rows
<1>2. /\ g \in Rows /\ g.attempts = r.attempts
      /\ g.answer = r.answer /\ g.judged = r.answer /\ g.queued = 0
      /\ g.points = 1 => r.answer \in Right
  BY <1>1, GradedRow, Zero
<1>3. w = Published(g)  BY DEF Rescored
<1> HIDE DEF g, w
<1>4. /\ w \in Rows /\ w.attempts = r.attempts /\ w.answer = r.answer /\ w.judged = r.answer
      /\ w.queued = 0 /\ w.points = g.points /\ w.grade = Score(w)
  BY <1>2, <1>3, PublishedRow
<1>5. \A q : Fit(w, q)  BY <1>2, <1>4, AnswerAssumption DEF Fit, Sound, Known
<1> QED BY <1>4, <1>5 DEF w

\* A reset of the attempts changes nothing else.
LEMMA AttemptsFit ==
  ASSUME NEW r \in Rows
  PROVE  LET w == [r EXCEPT !.attempts = 0] IN
           w \in Rows /\ w.attempts = 0 /\ \A q : Fit(r, q) => Fit(w, q)
<1> DEFINE w == [r EXCEPT !.attempts = 0]
<1>1. w \in Rows  BY ChangedRow
<1>2. /\ w.attempts = 0 /\ w.done = r.done /\ w.answer = r.answer /\ w.judged = r.judged
      /\ w.queued = r.queued /\ w.points = r.points /\ w.grade = r.grade
  BY DEF Rows
<1> HIDE DEF w
<1>3. \A q : Fit(r, q) => Fit(w, q)  BY <1>2 DEF Fit, Sound, Known, Score
<1> QED BY <1>1, <1>2, <1>3 DEF w

\* The row of a commit or of a callback has its place in the table.
LEMMA ExistsFit ==
  ASSUME NEW r \in Rows
  PROVE  LET w == [r EXCEPT !.exists = TRUE] IN
           w \in Rows /\ w.attempts = r.attempts /\ \A q : Fit(r, q) => Fit(w, q)
<1> DEFINE w == [r EXCEPT !.exists = TRUE]
<1>1. w \in Rows  BY ChangedRow
<1>2. /\ w.attempts = r.attempts /\ w.done = r.done /\ w.answer = r.answer /\ w.judged = r.judged
      /\ w.queued = r.queued /\ w.points = r.points /\ w.grade = r.grade
  BY DEF Rows
<1> HIDE DEF w
<1>3. \A q : Fit(r, q) => Fit(w, q)  BY <1>2 DEF Fit, Sound, Known, Score
<1> QED BY <1>1, <1>2, <1>3 DEF w

\* A check: one attempt, a grade of the answer, and the key to wait for.
LEMMA CheckedFit ==
  ASSUME NEW r \in Rows, r.attempts < MaxAttempts, NEW a \in Answers, NEW key \in 0..MaxTime
  PROVE  LET w == Attempted(Graded(r, a, key)) IN
           /\ w \in Rows /\ w.attempts = r.attempts + 1 /\ w.queued = key /\ w.judged = a
           /\ Sound(w)
<1> DEFINE g == Graded(r, a, key)
           w == Attempted(g)
<1>1. /\ g \in Rows /\ g.attempts = r.attempts
      /\ g.answer = a /\ g.judged = a /\ g.queued = key
      /\ g.points = 1 => a \in Right
  BY GradedRow
<1> HIDE DEF g
<1>2. /\ w \in Rows /\ w.attempts = r.attempts + 1 /\ w.answer = a /\ w.judged = a
      /\ w.queued = key /\ w.points = g.points /\ w.grade = Score(w)
  BY <1>1, AttemptedRow
<1> HIDE DEF w
<1>3. Sound(w)  BY <1>1, <1>2, AnswerAssumption DEF Sound
<1> QED BY <1>2, <1>3 DEF w, g

\* The grader's replies: one with the key the row waits for is about the row's answer.
LEMMA RepliedFit ==
  ASSUME NEW r \in Rows, NEW q \in SUBSET Submissions, NEW s \in q, Fit(r, q)
  PROVE  Fit(ScoreUpdated(r, s), q) /\ Fit(InvalidReplied(r), q)
<1> DEFINE new(p) == [r EXCEPT !.queued = 0, !.points = p]
<1>1. \A p \in 0..1 : new(p) \in Rows  BY ChangedRow
<1>2. \A p \in 0..1 : /\ new(p).answer = r.answer /\ new(p).judged = r.judged
                      /\ new(p).queued = 0 /\ new(p).points = p
  BY DEF Rows
<1>3. /\ ScoreUpdated(r, s) = Published(IF r.queued = s.key THEN new(PointsFor(s.answer)) ELSE r)
      /\ InvalidReplied(r) = Published(new(0))
  BY DEF ScoreUpdated, InvalidReplied, IsRightQueuekey
<1> HIDE DEF new
<1>4. s.key # 0 /\ s.key \in Nat  BY DEF Submissions, Times
<1>5. ASSUME NEW m \in Rows, Known(m, q), m.queued # 0 \/ m.points = 1 => m.answer # NoAnswer,
             m.points = 1 => m.judged \in Right
      PROVE  Fit(Published(m), q)
  BY <1>5, PublishedRow DEF Fit, Sound, Known
<1>6. PointsFor(s.answer) \in 0..1 /\ (PointsFor(s.answer) = 1 => s.answer \in Right) /\ 0 \in 0..1
  BY DEF PointsFor
<1>7. Fit(InvalidReplied(r), q)
  <2>1. Known(new(0), q)  BY <1>2, <1>6 DEF Known
  <2> QED BY <1>1, <1>2, <1>3, <1>5, <1>6, <2>1
<1>8. Fit(ScoreUpdated(r, s), q)
  <2>1. CASE r.queued # s.key
    BY <2>1, <1>3, <1>5 DEF Fit, Sound
  <2>2. CASE r.queued = s.key
    <3> DEFINE m == new(PointsFor(s.answer))
    <3>1. s.answer = r.judged  BY <2>2, <1>4 DEF Fit, Known
    <3>2. r.answer # NoAnswer  BY <2>2, <1>4 DEF Fit, Sound
    <3>3. /\ m \in Rows /\ m.answer = r.answer /\ m.judged = r.judged /\ m.queued = 0
          /\ m.points = PointsFor(s.answer)
      BY <1>1, <1>2, <1>6
    <3> HIDE DEF m
    <3>4. Known(m, q)  BY <3>3 DEF Known
    <3>5. Fit(Published(m), q)  BY <1>5, <1>6, <3>1, <3>2, <3>3, <3>4
    <3> QED BY <1>3, <2>2, <3>5 DEF m
  <2> QED BY <2>1, <2>2
<1> QED BY <1>7, <1>8

-----------------------------------------------------------------------------
(* The steps.                                                                *)

\* What a submission that joins the grader's queue, or a reply, leaves known.
Keeps == \A r : ~collided' /\ Known(r, xqueue) => Known(r, xqueue')

\* A handler takes or changes what it holds; the row is not written.
LEMMA HoldStep ==
  ASSUME Inv, NEW h \in Handlers, NEW x, req' = [req EXCEPT ![h] = x],
         UNCHANGED <<problem, row, now, pastDue, raced, submitted>>,
         (xqueue \subseteq Submissions)', collided' \in BOOLEAN, collided => collided', Keeps,
         x.op \in {"check", "checked", "save", "reset"}, x.read \in Rows,
         x.op = "check" => /\ x.read.attempts < MaxAttempts /\ x.answer \in Answers
                           /\ ~collided' => Fit(x.read, xqueue'),
         x.op # "check" => /\ x.write \in Rows
                           /\ ~collided' => Fit(x.write, xqueue'),
         ~raced => /\ x.read = row
                   /\ x.op = "checked" => x.write.attempts = row.attempts + 1
                   /\ x.op = "save" => x.write.attempts = row.attempts
                   /\ x.op = "reset" => x.write.attempts = 0
  PROVE  Inv'
<1>1. TypeInv /\ GradeInv /\ CountInv  BY DEF Inv
<1>2. req = [g \in Handlers |-> req[g]]  BY <1>1 DEF TypeInv, ReqOK
<1>3. req'[h] = x /\ \A g \in Handlers \ {h} : req'[g] = req[g]
  BY <1>2, ReqUpdate
<1>4. TypeInv'
  <2>1. ReqOK'  BY <1>1, ReqType
  <2>2. TypeOK'  BY <1>1 DEF TypeInv, TypeOK
  <2> QED BY <2>1, <2>2 DEF TypeInv
<1>5. GradeInv'
  <2> SUFFICES ASSUME ~collided'
               PROVE  /\ Fit(row', xqueue')
                      /\ \A g \in Handlers :
                           /\ req'[g].op = "check" => Fit(req'[g].read, xqueue')
                           /\ req'[g].op \in {"checked", "save", "reset"} => Fit(req'[g].write, xqueue')
    BY DEF GradeInv
  <2>1. \A r : Fit(r, xqueue) => Fit(r, xqueue')  BY DEF Keeps, Fit
  <2>2. Fit(row', xqueue')  BY <1>1, <2>1 DEF GradeInv
  <2>3. ASSUME NEW g \in Handlers
        PROVE  /\ req'[g].op = "check" => Fit(req'[g].read, xqueue')
               /\ req'[g].op \in {"checked", "save", "reset"} => Fit(req'[g].write, xqueue')
    <3>1. CASE g = h  BY <1>3, <3>1
    <3>2. CASE g # h
      <4>1. req'[g] = req[g]  BY <1>3, <3>2
      <4> QED BY <1>1, <2>1, <4>1 DEF GradeInv
    <3> QED BY <3>1, <3>2
  <2> QED BY <2>2, <2>3
<1>6. CountInv'
  <2> SUFFICES ASSUME ~raced, NEW g \in Handlers
               PROVE  /\ row.attempts = submitted
                      /\ req'[g].op # "idle" => req'[g].read = row
                      /\ req'[g].op = "checked" => req'[g].write.attempts = row.attempts + 1
                      /\ req'[g].op = "save" => req'[g].write.attempts = row.attempts
                      /\ req'[g].op = "reset" => req'[g].write.attempts = 0
    BY <1>1 DEF CountInv
  <2>1. CASE g = h  BY <1>1, <1>3, <2>1 DEF CountInv
  <2>2. CASE g # h  BY <1>1, <1>3, <2>2 DEF CountInv
  <2> QED BY <2>1, <2>2
<1> QED BY <1>4, <1>5, <1>6 DEF Inv

\* The row is written; without a race nobody else holds a copy then.
LEMMA WriteStep ==
  ASSUME Inv, (row \in Rows)', (xqueue \subseteq Submissions)', raced' \in BOOLEAN, submitted' \in Nat,
         UNCHANGED <<problem, now, pastDue, collided>>, Keeps,
         req' = req \/ \E h \in Handlers : req' = [req EXCEPT ![h] = Idle],
         ~collided => Fit(row', xqueue'),
         ~raced' => row'.attempts = submitted' /\ \A h \in Handlers : req'[h].op = "idle"
  PROVE  Inv'
<1>1. TypeInv /\ GradeInv /\ CountInv  BY DEF Inv
<1>2. Idle.op = "idle"  BY DEF Idle
<1>3. ReqOK'
  <2>1. CASE req' = req  BY <1>1, <2>1 DEF TypeInv, ReqOK
  <2>2. CASE \E h \in Handlers : req' = [req EXCEPT ![h] = Idle]
    BY <1>1, <1>2, <2>2, ReqType
  <2> QED BY <2>1, <2>2
<1>4. TypeInv'  BY <1>1, <1>3 DEF TypeInv, TypeOK
<1>5. \A g \in Handlers : req'[g] = req[g] \/ req'[g].op = "idle"
  BY <1>1, <1>2, ReqUpdate DEF TypeInv, ReqOK
<1>6. GradeInv'
  <2> SUFFICES ASSUME ~collided, NEW g \in Handlers
               PROVE  /\ req'[g].op = "check" => Fit(req'[g].read, xqueue')
                      /\ req'[g].op \in {"checked", "save", "reset"} => Fit(req'[g].write, xqueue')
    BY DEF GradeInv
  <2>1. \A r : Fit(r, xqueue) => Fit(r, xqueue')  BY DEF Keeps, Fit
  <2> QED BY <1>1, <1>5, <2>1 DEF GradeInv
<1>7. CountInv'  BY DEF CountInv
<1> QED BY <1>4, <1>6, <1>7 DEF Inv

\* A request or a task begins, with the row as it reads it.
LEMMA BeginStep ==
  ASSUME Inv, NEW h \in Handlers, NEW x, Begin(h, x),
         x.op \in {"check", "save", "reset"}, x.read = row,
         x.op = "check" => row.attempts < MaxAttempts /\ x.answer \in Answers,
         x.op # "check" => /\ x.write \in Rows
                           /\ Fit(row, xqueue) => Fit(x.write, xqueue),
         x.op = "save" => x.write.attempts = row.attempts,
         x.op = "reset" => x.write.attempts = 0
  PROVE  Inv'
<1>1. /\ req' = [req EXCEPT ![h] = x]
      /\ UNCHANGED <<problem, row, xqueue, now, pastDue, raced, collided, submitted>>
  BY DEF Begin
<1>2. row \in Rows /\ xqueue \subseteq Submissions /\ collided \in BOOLEAN
  BY DEF Inv, TypeInv, TypeOK
<1>3. Keeps  BY <1>1 DEF Keeps
<1>4. ~collided => Fit(row, xqueue)  BY DEF Inv, GradeInv
<1> QED BY <1>1, <1>2, <1>3, <1>4, HoldStep

\* What the student's requests and the tasks begin with.
LEMMA BeginsStep ==
  ASSUME Inv, NEW h \in Handlers,
         \/ \E a \in Answers : BeginCheck(h, a) \/ BeginSave(h, a)
         \/ BeginReset(h) \/ BeginRescore(h) \/ BeginResetAttempts(h)
  PROVE  Inv'
<1>1. row \in Rows  BY DEF Inv, TypeInv, TypeOK
<1>2. ASSUME NEW a \in Answers, BeginCheck(h, a) PROVE Inv'
  <2> DEFINE x == [op |-> "check", read |-> row, answer |-> a]
  <2>1. row.attempts < MaxAttempts
    BY <1>1, <1>2, BoundAssumption DEF BeginCheck, MayCheck, Closed, Rows
  <2>2. Begin(h, x) /\ x.op = "check" /\ x.read = row /\ x.answer = a  BY <1>2 DEF BeginCheck
  <2> HIDE DEF x
  <2> QED BY <2>1, <2>2, BeginStep
<1>3. ASSUME NEW op \in {"save", "reset"}, NEW w \in Rows, Begin(h, Save(op, w)),
             Fit(row, xqueue) => Fit(w, xqueue),
             op = "save" => w.attempts = row.attempts, op = "reset" => w.attempts = 0
      PROVE  Inv'
  <2> DEFINE x == Save(op, w)
  <2>1. x.op = op /\ x.read = row /\ x.write = w  BY DEF Save
  <2> HIDE DEF x
  <2>2. Begin(h, x)  BY <1>3 DEF x
  <2> QED BY <1>3, <2>1, <2>2, BeginStep
<1>4. ASSUME NEW a \in Answers, BeginSave(h, a) PROVE Inv'
  <2> DEFINE w == [row EXCEPT !.answer = a]
  <2>1. w \in Rows /\ w.attempts = row.attempts /\ (Fit(row, xqueue) => Fit(w, xqueue))
    BY <1>1, AnsweredFit
  <2>2. Begin(h, Save("save", w))  BY <1>4 DEF BeginSave
  <2> HIDE DEF w
  <2> QED BY <1>3, <2>1, <2>2
<1>5. ASSUME BeginReset(h) PROVE Inv'
  <2> DEFINE w == ResetProblem(row)
  <2>1. w \in Rows /\ w.attempts = row.attempts /\ Fit(w, xqueue)
    BY <1>1, ResetFit
  <2>2. Begin(h, Save("save", w))  BY <1>5 DEF BeginReset
  <2> HIDE DEF w
  <2> QED BY <1>3, <2>1, <2>2
<1>6. ASSUME BeginRescore(h) PROVE Inv'
  <2> DEFINE w == Rescored(row)
  <2>1. w \in Rows /\ w.attempts = row.attempts /\ Fit(w, xqueue)
    BY <1>1, RescoredFit
  <2>2. Begin(h, Save("save", w))  BY <1>6 DEF BeginRescore
  <2> HIDE DEF w
  <2> QED BY <1>3, <2>1, <2>2
<1>7. ASSUME BeginResetAttempts(h) PROVE Inv'
  <2> DEFINE w == [row EXCEPT !.attempts = 0]
  <2>1. w \in Rows /\ w.attempts = 0 /\ (Fit(row, xqueue) => Fit(w, xqueue))
    BY <1>1, AttemptsFit
  <2>2. Begin(h, Save("reset", w))  BY <1>7 DEF BeginResetAttempts
  <2> HIDE DEF w
  <2> QED BY <1>3, <2>1, <2>2
<1> QED BY <1>2, <1>4, <1>5, <1>6, <1>7

\* Grading a check: a submission gets a key of its own unless the keys collide.
LEMMA GradeStep ==
  ASSUME Inv, NEW h \in Handlers, GradeAnswers(h) \/ SendFails(h) \/ InputError(h)
  PROVE  Inv'
<1> DEFINE a == req[h].answer
           r == req[h].read
<1>1. /\ req[h].op = "check" /\ r \in Rows /\ r.attempts < MaxAttempts /\ a \in Answers
      /\ UNCHANGED <<problem, row, now, pastDue, raced, submitted>>
  BY DEF GradeAnswers, SendFails, InputError, Inv, TypeInv, ReqOK
<1>2. /\ now \in Times /\ xqueue \subseteq Submissions /\ collided \in BOOLEAN
      /\ problem.external \in BOOLEAN
  BY DEF Inv, TypeInv, TypeOK
<1>3. now \in 0..MaxTime /\ now # 0  BY <1>2, BoundAssumption DEF Times
<1>4. ~raced => r = row  BY <1>1 DEF Inv, CountInv
<1>5. ~collided => Fit(r, xqueue)  BY <1>1 DEF Inv, GradeInv
<1>6. ASSUME NEW key \in 0..MaxTime,
             req' = [req EXCEPT ![h] = [op |-> "checked", read |-> r, write |-> Attempted(Graded(r, a, key))]],
             Keeps, (xqueue \subseteq Submissions)', collided' \in BOOLEAN, collided => collided',
             ~collided' => \A w \in Rows : w.queued = key /\ w.judged = a => Known(w, xqueue')
      PROVE  Inv'
  <2> DEFINE w == Attempted(Graded(r, a, key))
             x == [op |-> "checked", read |-> r, write |-> w]
  <2>1. w \in Rows /\ w.attempts = r.attempts + 1 /\ w.queued = key /\ w.judged = a /\ Sound(w)
    BY <1>1, CheckedFit
  <2> HIDE DEF w
  <2>2. req' = [req EXCEPT ![h] = x] /\ x.op = "checked" /\ x.read = r /\ x.write = w
    BY <1>6 DEF w
  <2>3. ~collided' => Fit(w, xqueue')  BY <1>6, <2>1 DEF Fit
  <2> HIDE DEF x, r
  <2> QED BY <1>1, <1>4, <1>6, <2>1, <2>2, <2>3, HoldStep
<1>7. CASE GradeAnswers(h) /\ problem.external
  <2> DEFINE s == [key |-> now, answer |-> a, replied |-> FALSE]
  <2>1. /\ req' = [req EXCEPT ![h] = [op |-> "checked", read |-> r, write |-> Attempted(Graded(r, a, now))]]
        /\ xqueue' = xqueue \cup {s}
        /\ collided' = (collided \/ \E t \in xqueue : t.key = now)
    BY <1>7 DEF GradeAnswers
  <2>2. s \in Submissions /\ s.key = now /\ s.answer = a  BY <1>1, <1>2 DEF Submissions
  <2> HIDE DEF s, a, r
  <2>3. Keeps
    <3> SUFFICES ASSUME NEW k, ~collided', Known(k, xqueue) PROVE Known(k, xqueue')
      BY DEF Keeps
    <3>1. \A t \in xqueue : t.key # now  BY <2>1
    <3> QED BY <2>1, <2>2, <3>1 DEF Known
  <2>4. ~collided' => \A w \in Rows : w.queued = now /\ w.judged = a => Known(w, xqueue')
    BY <2>1, <2>2 DEF Known
  <2>5. (xqueue \subseteq Submissions)'  BY <1>2, <2>1, <2>2
  <2>6. collided' \in BOOLEAN /\ (collided => collided')  BY <2>1
  <2> QED BY <1>3, <1>6, <2>1, <2>3, <2>4, <2>5, <2>6
<1>8. CASE (GradeAnswers(h) /\ ~problem.external) \/ SendFails(h)
  <2>1. /\ req' = [req EXCEPT ![h] = [op |-> "checked", read |-> r, write |-> Attempted(Graded(r, a, 0))]]
        /\ xqueue' = xqueue /\ collided' = collided
    BY <1>2, <1>8 DEF GradeAnswers, SendFails
  <2>2. Keeps  BY <2>1 DEF Keeps
  <2>3. \A w \in Rows : w.queued = 0 /\ w.judged = a => Known(w, xqueue')
    BY DEF Known
  <2> HIDE DEF a, r
  <2> QED BY <1>2, <1>6, <2>1, <2>2, <2>3, Zero
<1>9. CASE InputError(h)
  <2> DEFINE w == [r EXCEPT !.answer = a]
             x == [op |-> "save", read |-> r, write |-> w]
  <2>1. req' = [req EXCEPT ![h] = x] /\ xqueue' = xqueue /\ collided' = collided
    BY <1>9 DEF InputError
  <2>2. w \in Rows /\ w.attempts = r.attempts /\ (Fit(r, xqueue) => Fit(w, xqueue))
    BY <1>1, AnsweredFit
  <2> HIDE DEF w
  <2>3. x.op = "save" /\ x.read = r /\ x.write = w  OBVIOUS
  <2>4. Keeps  BY <2>1 DEF Keeps
  <2> HIDE DEF x, r
  <2> QED BY <1>1, <1>2, <1>4, <1>5, <2>1, <2>2, <2>3, <2>4, HoldStep
<1> QED BY <1>7, <1>8, <1>9

\* A commit writes what the handler has made of the row it had read.
LEMMA CommitStep ==
  ASSUME Inv, NEW h \in Handlers, Commit(h)
  PROVE  Inv'
<1> DEFINE r == req[h]
           lost == r.read.exists /\ ~row.exists
           w == [r.write EXCEPT !.exists = TRUE]
<1>1. /\ r.op \in {"checked", "save", "reset"}
      /\ row' = IF lost THEN row ELSE w
      /\ raced' = (raced \/ Busy(h))
      /\ submitted' = CASE r.op = "reset" -> 0 [] r.op = "checked" -> submitted + 1 [] OTHER -> submitted
      /\ req' = [req EXCEPT ![h] = Idle]
      /\ UNCHANGED <<problem, xqueue, now, pastDue, collided>>
  BY DEF Commit
<1>2. /\ req = [g \in Handlers |-> req[g]] /\ r.read \in Rows /\ r.write \in Rows /\ row \in Rows
      /\ xqueue \subseteq Submissions /\ raced \in BOOLEAN /\ submitted \in Nat
  BY <1>1 DEF Inv, TypeInv, TypeOK, ReqOK
<1>3. w \in Rows /\ w.attempts = r.write.attempts /\ (Fit(r.write, xqueue) => Fit(w, xqueue))
  BY <1>2, ExistsFit
<1> HIDE DEF w
<1>4. (row \in Rows)'  BY <1>1, <1>2, <1>3
<1>5. ~collided => Fit(row, xqueue) /\ Fit(w, xqueue)
  BY <1>1, <1>3 DEF Inv, GradeInv
<1>6. ~collided => Fit(row', xqueue')  BY <1>1, <1>5
<1>7. raced' \in BOOLEAN  BY <1>1
<1>8. submitted' \in Nat  BY <1>1, <1>2
<1>9. ASSUME ~raced' PROVE row'.attempts = submitted' /\ \A g \in Handlers : req'[g].op = "idle"
  <2>1. ~raced /\ \A g \in Handlers \ {h} : req[g] = Idle  BY <1>1, <1>9 DEF Busy
  <2>2. /\ r.read = row /\ row.attempts = submitted
        /\ r.op = "checked" => r.write.attempts = row.attempts + 1
        /\ r.op = "save" => r.write.attempts = row.attempts
        /\ r.op = "reset" => r.write.attempts = 0
    BY <1>1, <2>1 DEF Inv, CountInv
  <2>3. row' = w  BY <1>1, <2>2
  <2>4. row'.attempts = submitted'  BY <1>1, <1>3, <2>2, <2>3
  <2>5. \A g \in Handlers : req'[g] = Idle  BY <1>1, <1>2, <2>1, ReqUpdate
  <2> QED BY <2>4, <2>5 DEF Idle
<1>10. Keeps  BY <1>1 DEF Keeps
<1> QED BY <1>1, <1>2, <1>4, <1>6, <1>7, <1>8, <1>9, <1>10, WriteStep

\* A deletion starts the row and the count anew.
LEMMA DeleteStep ==
  ASSUME Inv, NEW h \in Handlers, DeleteState(h)
  PROVE  Inv'
<1>1. /\ row' = Blank /\ raced' = (raced \/ Busy(h)) /\ submitted' = 0 /\ req[h] = Idle
      /\ UNCHANGED <<problem, req, xqueue, now, pastDue, collided>>
  BY DEF DeleteState
<1>2. xqueue \subseteq Submissions  BY DEF Inv, TypeInv, TypeOK
<1>3. Blank \in Rows /\ Blank.attempts = 0  BY BlankRow
<1>4. Fit(Blank, xqueue)
  <2>1. Blank.queued = 0 /\ Blank.points = 0 /\ ~Blank.done  BY DEF Blank
  <2>2. Sound(Blank)  BY <2>1 DEF Sound
  <2>3. Known(Blank, xqueue)  BY <2>1 DEF Known
  <2> QED BY <2>2, <2>3 DEF Fit
<1>5. ASSUME ~raced' PROVE \A g \in Handlers : req'[g].op = "idle"
  <2>1. ~Busy(h)  BY <1>1, <1>5
  <2>2. \A g \in Handlers : req[g] = Idle  BY <1>1, <2>1 DEF Busy
  <2> QED BY <1>1, <2>2 DEF Idle
<1>6. Keeps  BY <1>1 DEF Keeps
<1> HIDE DEF Blank
<1> QED BY <1>1, <1>2, <1>3, <1>4, <1>5, <1>6, WriteStep

\* A reply of the grader writes the row under its lock.
LEMMA ReplyStep ==
  ASSUME Inv, NEW s \in xqueue, Reply(s) \/ InvalidReply(s) \/ ReplyAgain(s)
  PROVE  Inv'
<1> DEFINE t == [s EXCEPT !.replied = TRUE]
<1>1. PICK r \in {ScoreUpdated(row, s), InvalidReplied(row)} : Callback(s, r)
  BY DEF Reply, InvalidReply, ReplyAgain
<1>2. row \in Rows /\ xqueue \subseteq Submissions /\ submitted \in Nat /\ raced \in BOOLEAN
  BY DEF Inv, TypeInv, TypeOK
<1>3. /\ row' = [r EXCEPT !.exists = TRUE] /\ xqueue' = (xqueue \ {s}) \cup {t}
      /\ raced' = (raced \/ \E h \in Handlers : req[h] # Idle)
      /\ UNCHANGED <<problem, req, now, pastDue, collided, submitted>>
  BY <1>1 DEF Callback
<1>4. t \in Submissions /\ t.key = s.key /\ t.answer = s.answer  BY <1>2 DEF Submissions
<1> HIDE DEF t
<1>5. r \in Rows /\ r.attempts = row.attempts  BY <1>2, RepliedRow
<1>6. ~collided => Fit(r, xqueue)
  BY <1>2, RepliedFit DEF Inv, GradeInv
<1>7. Keeps
  <2> SUFFICES ASSUME NEW k, Known(k, xqueue) PROVE Known(k, xqueue')
    BY DEF Keeps
  <2> QED BY <1>3, <1>4 DEF Known
<1>8. row' \in Rows /\ row'.attempts = row.attempts /\ (Fit(r, xqueue') => Fit(row', xqueue'))
  BY <1>3, <1>5, ExistsFit
<1>9. ~collided => Fit(row', xqueue')
  BY <1>3, <1>6, <1>7, <1>8 DEF Keeps, Fit
<1>10. (xqueue \subseteq Submissions)' /\ raced' \in BOOLEAN  BY <1>2, <1>3, <1>4
<1>11. ~raced' => row'.attempts = submitted' /\ \A h \in Handlers : req'[h].op = "idle"
  <2> SUFFICES ASSUME ~raced' PROVE row'.attempts = submitted' /\ \A h \in Handlers : req'[h].op = "idle"
    OBVIOUS
  <2>1. ~raced /\ \A h \in Handlers : req[h] = Idle  BY <1>3
  <2>2. row.attempts = submitted  BY <2>1 DEF Inv, CountInv
  <2>3. \A h \in Handlers : req'[h].op = "idle"  BY <1>3, <2>1 DEF Idle
  <2> QED BY <1>3, <1>8, <2>2, <2>3
<1> QED BY <1>2, <1>3, <1>7, <1>8, <1>9, <1>10, <1>11, WriteStep

\* Time passes.
LEMMA TimeStep ==
  ASSUME Inv, Tick \/ BecomeDue \/ UNCHANGED vars
  PROVE  Inv'
<1>1. UNCHANGED <<problem, row, req, xqueue, raced, collided, submitted>>
  BY DEF Tick, BecomeDue, vars
<1>2. now' \in Times /\ pastDue' \in BOOLEAN
  <2>1. now \in Times /\ pastDue \in BOOLEAN  BY DEF Inv, TypeInv, TypeOK
  <2>2. CASE Tick  BY <2>1, <2>2, BoundAssumption DEF Tick, Times
  <2>3. CASE BecomeDue  BY <2>1, <2>3 DEF BecomeDue
  <2>4. CASE UNCHANGED vars  BY <2>1, <2>4 DEF vars
  <2> QED BY <2>2, <2>3, <2>4
<1> QED BY <1>1, <1>2 DEF Inv, TypeInv, TypeOK, ReqOK, GradeInv, CountInv

LEMMA InvInit == Init => Inv
<1> SUFFICES ASSUME Init PROVE Inv
  OBVIOUS
<1>1. TypeInv  BY TypeInit
<1>2. /\ row = [Blank EXCEPT !.exists = TRUE] /\ xqueue = {} /\ submitted = 0
      /\ \A h \in Handlers : req[h].op = "idle"
  BY DEF Init, Idle
<1>3. Fit(row, xqueue)  BY <1>2 DEF Fit, Sound, Known, Blank
<1>4. row.attempts = 0  BY <1>2, BlankRow
<1> QED BY <1>1, <1>2, <1>3, <1>4 DEF Inv, GradeInv, CountInv

LEMMA Invariant == Spec => []Inv
<1>1. Inv /\ [Next]_vars => Inv'
  <2> SUFFICES ASSUME Inv, [Next]_vars PROVE Inv'
    OBVIOUS
  <2> QED BY BeginsStep, GradeStep, CommitStep, DeleteStep, ReplyStep, TimeStep DEF Next
<1> QED BY InvInit, <1>1, PTL DEF Spec

\* The row, the submissions and the histories are well-formed, and attempts stays within
\* max_attempts: no old copy that is saved late takes one more (check_problem, closed).
THEOREM TypeCorrect == Spec => []TypeOK
BY Invariant, PTL DEF Inv, TypeInv

\* Whatever copies of the row are saved late, and whatever replies come late, twice or
\* about earlier submissions: the point is for the answer the row is about and the grade
\* is the score, unless two submissions got one key (update_score, publish_grade).
THEOREM GradeAlwaysOfAnswer == Spec => []GradeOfAnswer
<1>1. Inv => GradeOfAnswer  BY DEF Inv, GradeInv, GradeOfAnswer, Fit, Sound
<1> QED BY <1>1, Invariant, PTL

\* As long as no two writers of the row overlap, attempts counts the submissions
\* (check_problem, reset_problem, rescore_problem).
THEOREM AttemptsAlwaysCounted == Spec => []AttemptsCounted
<1>1. Inv => AttemptsCounted  BY DEF Inv, CountInv, AttemptsCounted
<1> QED BY <1>1, Invariant, PTL
=============================================================================
