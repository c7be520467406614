CONSTANTS
  r1 = r1 r2 = r2 w1 = w1 w2 = w2
  NumRuns = 1
  Runs <- MCRuns
  SubtaskIds <- MCSubtaskIds
  NumChunks = 2
  Chunk <- MCChunk
  Recipients = {r1, r2}
  Workers = {w1, w2}
  NoJob = NoJob  Free = Free  Orphan = Orphan
  Overlap = FALSE
  RaiseAt = {"queue"}
  MaxParentCrashes = 0
  MaxRetries = 1  RetryCap = 1  MaxDbLockRetries = 2
  Raising = {}
  MaxMailErrors = 0  MaxRedeliveries = 1  MaxDbErrors = 0  MaxCrashes = 0
SPECIFICATION TaskSpec
CHECK_DEADLOCK FALSE
INVARIANT AtMostOnce
