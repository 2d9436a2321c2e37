SPECIFICATION FairSpec
CONSTANTS
  BlkSize = 4
  Volumes <- MCVolumes
  Ino = 2
INVARIANTS BytesRight
PROPERTIES RoundsAdvance Answered
