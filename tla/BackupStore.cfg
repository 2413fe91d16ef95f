CONSTANTS
  server = server
  laptop = laptop
  hybrid1 = hybrid1
  hybrid2 = hybrid2
  remote1 = remote1
  remote2 = remote2
  hourly = hourly
  cli = cli
  None = None
  Node = {server, laptop}
  Server = server
  Run = {hybrid1, remote1}
  Path = {p1}
  Hash = {h1}
  Retainer = {}
  Deleter = {cli}
  Owner <- MCOwner
  PurgeNode <- MCPurgeNode
SPECIFICATION Spec
INVARIANTS
  TypeOK
  UploadedRowHasBlob
  LocalEntryHasBlob
  CompletedRestorable
  NoUnrecordedLeak
PROPERTIES
  VerdictIsFinal
CHECK_DEADLOCK FALSE
