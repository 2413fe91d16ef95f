CONSTANTS
  None = None
  Truncated = Truncated
  Garbled = Garbled
  Client = {c1}
  Command = {k1}
  Handler = {w1, w2}
  MaxEdits = 2
  MaxTrouble = 1
SPECIFICATION Spec
INVARIANTS
  EditsLast
  RevokedIsRefused
  PathsInSync
PROPERTIES
  PolicyFollowsFile
CHECK_DEADLOCK FALSE
