SPECIFICATION MCSpec
CONSTANTS
  BlockLen = 8
  LengthLen = 2
  HashLen = 2
  Symbol <- MCSymbol
  Messages <- MCMessages
  Passwords <- MCPasswords
  Salts <- MCSalts
  Counts = {1, 2, 3}
  KeyLens = {1, 2, 5}
  Half = 32
  WordXor <- MCWordXor
  bswap_be <- MCSwap
  Keys = {1, 2}
  Enc <- MCEnc
  Dec <- MCDec
  DefaultIv = 22
  Poly = 7
  PerBlock = 2
  Plains <- MCPlains
  Flips = {0, 1, 30}
  Units <- MCUnits
  BlockNos = {0, 1, 7, 400}
  Modulus = 3
  Blocks <- MCBlocks
  Sections <- MCSections
  HmacLen = 32
  HmacSaltLen = 8
  UuidLen = 16
  InfoMax = 8
  WrappedLen = 40
  KdfSaltLen = 16
  Keybag <- MCKeybag
  MaxCnt = 7
INVARIANTS LocalsOK ResultCorrect NamesRight DigestsRight CiphersInvert DamageShows HeadersWhole ListsWhole SectionsWhole
PROPERTIES IntervalHalves
