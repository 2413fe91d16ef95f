CONSTANTS
  None = None
  Caller = {c1, c2}
  MaxRetries <- MCMaxRetries
  MaxCalls = 3
  MaxLives = 2
  MaxTrouble = 1
SYMMETRY Symmetry
SPECIFICATION Spec
INVARIANTS
  LastWordHolds
  TriggersAccounted
  RunningJobsRun
CHECK_DEADLOCK FALSE
