SPECIFICATION OmapSpec
CONSTANTS
  Oids = {1, 2}
  MaxXid = 5
INVARIANTS OmapTypeOK RightVersion
CHECK_DEADLOCK FALSE
