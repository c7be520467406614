CONSTANTS
  s1 = s1 r1 = r1 r2 = r2 w1 = w1 w2 = w2 w3 = w3
  SubtaskIds = {s1}
  Recipients = {r1}
  Chunk <- OneRecipient
  Workers = {w1, w2}
  NoJob = NoJob  Free = Free  Orphan = Orphan
  Overlap = TRUE
  MaxRetries = 1  RetryCap = 1  MaxDbLockRetries = 2
  Raising = {}
  MaxMailErrors = 0  MaxRedeliveries = 1  MaxDbErrors = 0  MaxCrashes = 0
SPECIFICATION Spec
PROPERTY CompletedNeverRerun
CHECK_DEADLOCK FALSE
