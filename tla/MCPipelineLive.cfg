\* Liveness: a photo without text and one without a date, a crash, a shutdown.
CONSTANTS
  j1 = j1
  j2 = j2
  v1 = v1
  v2 = v2
  Jobs = {j1, j2}
  Slots = {s1, s2}
  Attempts = 2
  MaxStalled = 1
  MaxCrashes = 1
  MaxLostLocks = 0
  MaxCloses = 1
  NoJob = NoJob
  NoSlot = NoSlot
  Values = {v1, v2}
  NoValue = NoValue
  Nothing = Nothing
  RegexRead <- MCMixedRead
  LlmRead <- MCLlmRead
  Typed <- MCTyped
  MaxPosts = 0
  MaxEdits = 0
SPECIFICATION MCLiveSpec
INVARIANTS
  RetryIsFlagged
PROPERTIES
  KeepsPromiseFairly
CHECK_DEADLOCK FALSE
