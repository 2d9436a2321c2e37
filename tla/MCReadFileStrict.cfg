SPECIFICATION Spec
CONSTANTS
  BlkSize = 4
  Volumes <- MCVolumes
  Ino = 2
INVARIANT StrictReads
