SPECIFICATION Spec
CONSTANTS
  Ring = 7
  Slots = 2
  MaxMaps = 2
  MaxXid = 6
  Wraps = TRUE
  Transient = FALSE
  Requests = {0}
INVARIANT FailsForCause
CHECK_DEADLOCK FALSE
