CONSTANTS
  File = {f1}
  Cap = 1
  MaxWrites = 2
  MaxStarts = 2
  MaxMoves = 5
SPECIFICATION WatcherSpec
INVARIANTS
  StopFlushes
  FlagTellsTruth
PROPERTIES
  ChangeRecorded
CHECK_DEADLOCK FALSE
