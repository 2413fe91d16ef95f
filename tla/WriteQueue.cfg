CONSTANTS
  c1 = c1
  c2 = c2
  c3 = c3
  None = None
  Caller = {c1, c2, c3}
  Cap = 1
SPECIFICATION Spec
INVARIANTS
  NoSendOnClosed
  DatabaseOutlivesLoop
  ErrorHidesOnlyCancelled
PROPERTIES
  ImplementsSerialWriter
  SubmitReturns
  StopReturns
CHECK_DEADLOCK FALSE
