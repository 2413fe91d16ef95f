CONSTANTS
  q1 = q1
  q2 = q2
  None = None
  Call = {q1, q2}
  MaxSession = 2
  MaxRebind = 1
SPECIFICATION Spec
INVARIANTS
  OwnAnswer
  NoDeadTunnel
  PanicNeedsForeign
PROPERTIES
  LateCallForgotten
CHECK_DEADLOCK FALSE
