CONSTANTS
  Answers = {right, wrong}
  Right = {right}
  NoAnswer = none
  MaxAttempts = 2
  WaitTime = 1
  Handlers = {h1, h2}
  MaxTime = 3
  MaxRequests = 3
  MaxRedelivered = 1
SPECIFICATION FairSpec
CHECK_DEADLOCK FALSE
INVARIANTS TypeOK GradeOfAnswer AttemptsCounted
PROPERTIES EventuallyGraded
