\* SMOKE_TIMEOUT_MS against the throttler.
CONSTANTS
  Deployers = {d1}
  Nobody = Nobody
  MaxCommands = 1
  MaxBreaks = 0
  Handlers = {"health", "webhook", "list", "summary"}
  Ttl = 4
  Limit = 2
  MaxClock = 6
  PollInterval = 1
  HealthInterval = 1
  HealthTimeout = 2
  TimeoutMs = 4
  WaitForBackend = 2
  Lags = {0, 1}
  MaxRuns = 1
  LastStart = 0
  MaxCrashes = 0
  MaxOthers = 0
SPECIFICATION MCSmokeSpec
INVARIANT GivesUpAtTimeout
CHECK_DEADLOCK FALSE
