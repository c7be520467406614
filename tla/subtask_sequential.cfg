CONSTANTS
  s1 = s1 r1 = r1 r2 = r2 w1 = w1 w2 = w2 w3 = w3
  NoJob = NoJob  Free = Free  Orphan = Orphan
  Overlap = FALSE
  SubtaskIds = {s1}
  Recipients = {r1, r2}
  Chunk <- OneChunk
  Workers = {w1, w2}
  MaxRetries = 1  RetryCap = 1  MaxDbLockRetries = 3
  Raising = {"retry", "close"}
  MaxMailErrors = 3  MaxRedeliveries = 2  MaxDbErrors = 2  MaxCrashes = 0
SPECIFICATION FairSpec
INVARIANTS TypeOK AtMostOnce ProgressExact NobodyForgotten LocksReturned RetryBudget
PROPERTIES ImplementsDelivery EventuallyFinished OptoutHonoured
CHECK_DEADLOCK FALSE
