SPECIFICATION Spec
CONSTANTS
  Main = main
  Tier2 = tier2
  Devices = {main, tier2}
  Setups <- MCGapSetups
  Passwords = {"pw", "old", "no"}
  CryptBlock = 2
  CryptOffset = 2
  Chunk = 4
  Block = 2
  BigSector = 4
  Calls <- MCCalls
  MaxPaddr = 3
CHECK_DEADLOCK FALSE
PROPERTIES OpensIfItCan
