SPECIFICATION TickSpec
CONSTANTS
  a = a
  b = b
  c = c
  NoKey = NoKey
  R4 <- TrioR4
  R6 <- TrioR6
  Order <- MCOrder
  RemoteMapSize = 2
  U32 = 8
  Threshold = 2
  GenMod = 4
  MaxDt = 1
  MaxCount <- ThreeOfB
INVARIANT RateIsPerSecond
