CONSTANTS
  r1 = r1 r2 = r2 w1 = w1 w2 = w2
  NoJob = NoJob  Free = Free  Orphan = Orphan
  Overlap = FALSE
  NumRuns = 2
  Runs <- MCRuns
  SubtaskIds <- MCSubtaskIds
  NumChunks = 2
  Chunk <- MCChunk
  Recipients = {r1, r2}
  Workers = {w1, w2}
  RaiseAt = {"check", "init", "queue"}
  MaxParentCrashes = 1
  MaxRetries = 0  RetryCap = 1  MaxDbLockRetries = 2
  Raising = {}
  MaxMailErrors = 1  MaxRedeliveries = 0  MaxDbErrors = 0  MaxCrashes = 0
SPECIFICATION FairTaskSpec
INVARIANTS TaskTypeOK AtMostOnce SuccessComplete LedgerAgrees
PROPERTIES DecidedIsFinal EventuallyDecided
CHECK_DEADLOCK FALSE
