\* Five rows, two to a page though the client asks for three.
CONSTANTS
  Rows = {r1, r2, r3, r4, r5}
  AskedLimit = 3
  MaxPageLimit = 2
  MaxEdits = 1
  MaxReports = 1
SPECIFICATION MCListSpec
SYMMETRY RowSymmetry
CHECK_DEADLOCK FALSE
INVARIANTS
  NoRowMissed
  RepeatsNeedArrivals
  CountsCoverPages
