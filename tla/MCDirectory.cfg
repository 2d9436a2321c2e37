SPECIFICATION Spec
CONSTANTS
  Volumes <- MCVolumes
  Dirs = {2, 3}
  Names <- MCNames
  Normal <- MCNormal
  Folded <- MCFolded
  Rank <- MCRank
  Space <- MCSpace
  Crc <- MCCrc
  Handles = {h1, h2}
  Sizes = {3, 5}
INVARIANTS ScanComplete ListingAgrees
