CONSTANTS
  Keys = {rescore, email}
  DelegatingKeys = {email}
  MaxTasks = 2
  Requests = {r1, r2}
  MaxStatus = 2
  MaxFaults = 2
SPECIFICATION FairSpec
CHECK_DEADLOCK FALSE
INVARIANTS TypeOK OneRunPerKey AnswersTrue
PROPERTIES ReadyIsFinal EventuallyReady
