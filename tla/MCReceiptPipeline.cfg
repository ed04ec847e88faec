\* Two photos of one receipt: failed runs and retries with a lost lock, or with
\* clients that insert and edit rows meanwhile.
CONSTANTS
  j1 = j1
  j2 = j2
  v1 = v1
  v2 = v2
  Jobs = {j1, j2}
  Slots = {s1, s2}
  Attempts = 2
  MaxStalled = 1
  MaxCrashes = 0
  MaxLostLocks = 1
  MaxCloses = 0
  NoJob = NoJob
  NoSlot = NoSlot
  Values = {v1, v2}
  NoValue = NoValue
  Nothing = Nothing
  RegexRead <- MCRegexRead
  LlmRead <- MCLlmRead
  Typed <- MCTyped
  MaxPosts = 1
  MaxEdits = 1
SPECIFICATION MCSafeSpec
INVARIANTS
  OneOriginalPerSlot
  RetriesAgree
  DuplicateHasOriginal
  PipelineInv
PROPERTY KeepsPromise
SYMMETRY SlotSymmetry
CHECK_DEADLOCK FALSE
