SPECIFICATION AttackSpec
CONSTANTS
  a = a
  b = b
  c = c
  NoKey = NoKey
  R4 <- PairR4
  R6 <- PairR6
  Order <- MCOrder
  RemoteMapSize = 1
  U32 = 8
  Threshold = 1
  GenMod = 3
  MaxDt = 2
  MaxCount <- TwoEach
INVARIANTS TypeOK SnapPoolAddsUp GenerationIsFresh FloodIsOfThisAttack
