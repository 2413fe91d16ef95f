CONSTANTS
  None = None
  Path = {p1, p2}
  Hash = {h1, h2}
  Worker = {w1, w2}
  MaxBackups = 2
  MaxTrouble = 1
SYMMETRY Symmetry
SPECIFICATION Spec
INVARIANTS
  WritesOnlyBackedUp
  ReportedIsRestored
  PushAccounted
  PushedUnderDest
CHECK_DEADLOCK FALSE
