\* One run of the script; at most two commands, crashes and foreign requests.
CONSTANTS
  Deployers = {d1, d2}
  Nobody = Nobody
  MaxCommands = 3
  MaxBreaks = 1
  Handlers = {"health", "webhook", "list", "summary"}
  Ttl = 4
  Limit = 2
  MaxClock = 6
  PollInterval = 1
  HealthInterval = 1
  HealthTimeout = 2
  TimeoutMs = 4
  WaitForBackend = 2
  Lags = {0, 1}
  MaxRuns = 1
  LastStart = 0
  MaxCrashes = 1
  MaxOthers = 1
SPECIFICATION MCSmokeSpec
INVARIANTS
  SchemaWhole
  OnlyRivalsAreRefused
  TimeoutMeansNoRow
  PollsHaveTheirTime
PROPERTY SmokeEnds
CHECK_DEADLOCK FALSE
