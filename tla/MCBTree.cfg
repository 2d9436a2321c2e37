SPECIFICATION FairSpec
CONSTANTS
  N <- MCN
  RecKey <- MCRecKey
  Nodes <- MCNodes
  Root = 5
  NoNode = NoNode
  Level <- MCLevel
  Lo <- MCLo
  Hi <- MCHi
  Cnt <- MCCnt
  Kid <- MCKid
  Keys = {1, 4, 7, 15}
  MaxNodes = 5
  IndexMod = 16
INVARIANTS TypeOK ParentsCached PinnedStays CacheBounded LookupSurvives
PROPERTIES ImplementsMap Answered
CHECK_DEADLOCK FALSE
