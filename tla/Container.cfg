SPECIFICATION FairSpec
CONSTANTS
  Ring = 7
  Slots = 2
  MaxMaps = 2
  MaxXid = 6
  Wraps = FALSE
  Transient = TRUE
  Requests = {0, 2, 4}
INVARIANTS MountsNewest MountsOneCheckpoint MountsRequestedIfThere FailsForCause
PROPERTY MountEnds
CHECK_DEADLOCK FALSE
