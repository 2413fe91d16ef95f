CONSTANTS
  docs = docs
  logs = logs
  purge = purge
  general = general
  None = None
  hourly = hourly
  cli = cli
  Path = {docs, logs}
  Policy = {purge, general}
  Evaluator = {hourly, cli}
  Kinds = {"own", "upload"}
  Hourly = {hourly}
  Covers <- MCCovers
  KeepDays <- MCKeepDays
  Keep <- MCKeepOne
  Priority <- MCPriority
  MaxDay = 3
  MaxRow = 2
SPECIFICATION Spec
PROPERTIES
  FirstVersionStays
  OnlyExpiredGo
  ExcessGoes
CHECK_DEADLOCK FALSE
