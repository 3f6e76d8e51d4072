SPECIFICATION FairSpec
CONSTANTS
  SideWidth = 4
  i1 = i1
  i2 = i2
  i3 = i3
  i4 = i4
  x1 = x1
  IT = IT
  BANK = BANK
  NoIntent = NoIntent
  Sectors = {IT, BANK}
  Intents = {i1}
  Malformed = {}
  Unaffordable = {}
  SideOf <- SideOfSome
  SectorOf <- SectorOfSome
  Instants <- Afternoon
  MaxSectorPositions = 1
  MaxTotalPositions = 4
  MaxBiasRatio = 3
  StoresWired = FALSE
  AnswersMayBeLost = FALSE
  MaxPromotions = 1
  MaxCrashes = 0
PROPERTY EveryPositionIsSquaredOff
\* Every intent may be acknowledged: the agent then has nothing left to do.
CHECK_DEADLOCK FALSE
