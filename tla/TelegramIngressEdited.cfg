\* The comment on the handler of edited messages.
CONSTANTS
  Updates = {u1}
  Requests = {r1}
  NoUpdate = NoUpdate
  MaxFaults = 0
SPECIFICATION IngressSafeSpec
INVARIANT EditedPhotoQueued
CHECK_DEADLOCK FALSE
