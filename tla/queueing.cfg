CONSTANTS
  MaxKey = 8
  Keys <- MCKeys
  ItemsPerQuery = 3  ItemsPerTask = 2
  MaxAdded = 2  MaxRemoved = 2
SPECIFICATION Spec
CHECK_DEADLOCK FALSE
INVARIANTS TypeOK QueuedOnce ChunksFitIds
