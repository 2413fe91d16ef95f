CONSTANTS
  server = server
  laptop = laptop
  hybrid1 = hybrid1
  hybrid2 = hybrid2
  remote1 = remote1
  remote2 = remote2
  hourly = hourly
  cli = cli
  None = None
  Node = {server, laptop}
  Server = server
  Run = {remote1}
  Path = {p1, p2}
  Hash = {h1}
  Retainer = {hourly}
  Deleter = {cli}
  Owner <- MCOwner
  PurgeNode <- MCPurgeBoth
SPECIFICATION Spec
INVARIANTS
  CompletedRestorable
CHECK_DEADLOCK FALSE
