SPECIFICATION FairSpec
CONSTANTS
  Files = {"f"}
  Volumes <- MCVolumes
  Handles = {h1, h2}
  Block = 2
  Width = 6
  MaxRead = 3
  MaxOffset = 3
CHECK_DEADLOCK FALSE
INVARIANTS ReadsRight SizeAgrees
PROPERTIES OpensUndamaged 
