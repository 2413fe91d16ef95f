CONSTANTS
  old = old
  new = new
  oldDaemon = oldDaemon
  newDaemon = newDaemon
  oldCli = oldCli
  None = None
  Machine = {old, new}
  Source = {oldDaemon, newDaemon, oldCli}
  Cli = {oldCli}
  Tunneled = {old}
  Host <- MCHost
  Family <- MCFamily
  MaxMoves = 2
  MaxFailed = 1
SPECIFICATION Spec
PROPERTIES
  StatusSettles
  DisableSettles
  OwnerKeepsId
CHECK_DEADLOCK FALSE
