\* Two users, two requests at a time, three faults; the updates are told apart
\* by their kinds, and nothing is symmetric under fairness.
CONSTANTS
  Updates = {u1, u2}
  Requests = {r1, r2}
  NoUpdate = NoUpdate
  MaxFaults = 3
SPECIFICATION IngressSpec
INVARIANTS
  AckedPhotoQueued
  ExtraJobsNeedFaults
PROPERTIES
  PhotoReachesQueue
  UpdatesSettle
CHECK_DEADLOCK FALSE
