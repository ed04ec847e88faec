\* A job with its three attempts: what it has abandoned competes with what it
\* waits for.
CONSTANTS
  Jobs = {j1}
  Attempts = 3
  MaxFaults = 2
SPECIFICATION ReaderSpec
INVARIANTS
  LastAttemptDecides
  AbandonedWorkBounded
  ReaderInv
PROPERTIES
  CallsLeave
CHECK_DEADLOCK FALSE
