CONSTANTS
  s1 = s1 r1 = r1 r2 = r2 w1 = w1 w2 = w2 w3 = w3
  NoJob = NoJob  Free = Free  Orphan = Orphan
  Overlap = TRUE
  SubtaskIds = {s1}
  Recipients = {r1}
  Chunk <- OneRecipient
  Workers = {w1, w2, w3}
  MaxRetries = 2  RetryCap = 2  MaxDbLockRetries = 2
  Raising = {}
  MaxMailErrors = 2  MaxRedeliveries = 2  MaxDbErrors = 0  MaxCrashes = 1
SPECIFICATION Spec
SYMMETRY WorkerSymmetry
INVARIANTS LockExcludes NotStranded
CHECK_DEADLOCK FALSE
