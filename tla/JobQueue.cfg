\* The code's options, two slots, three attempts, one tolerated stall; all the
\* faults, and fairness, under which nothing is symmetric.
CONSTANTS
  Jobs = {j1, j2}
  Slots = {s1, s2}
  Attempts = 3
  MaxStalled = 1
  MaxCrashes = 2
  MaxLostLocks = 2
  MaxCloses = 1
  NoJob = NoJob
  NoSlot = NoSlot
SPECIFICATION QSpec
INVARIANTS
  QInv
  ExecutionBound
  StallsNeedIncidents
  OneRunPerJob
PROPERTIES
  TerminalIsFinal
  JobsSettle
\* All modelled jobs may be settled and every budget of incidents used.
CHECK_DEADLOCK FALSE
