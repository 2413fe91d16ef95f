CONSTANTS
  old = old
  new = new
  oldDaemon = oldDaemon
  newDaemon = newDaemon
  oldCli = oldCli
  None = None
  Machine = {old, new}
  Source = {oldDaemon, newDaemon, oldCli}
  Cli = {oldCli}
  Tunneled = {old}
  Host <- MCHost
  Family <- MCFamily
  MaxMoves = 2
  MaxFailed = 1
SPECIFICATION Spec
PROPERTIES
  SilentGoesOffline
CHECK_DEADLOCK FALSE
