SPECIFICATION FairSpec
CONSTANTS
  SideWidth = 5
  i1 = i1
  i2 = i2
  i3 = i3
  i4 = i4
  x1 = x1
  IT = IT
  BANK = BANK
  NoIntent = NoIntent
  Sectors = {IT, BANK}
  Intents = {i1, i3}
  Malformed = {}
  Unaffordable = {}
  SideOf <- SideOfSome
  SectorOf <- SectorOfSome
  Instants <- Afternoon
  MaxSectorPositions = 1
  MaxTotalPositions = 4
  MaxBiasRatio = 3
  StoresWired = TRUE
  AnswersMayBeLost = FALSE
  MaxPromotions = 1
  MaxCrashes = 0
INVARIANTS
  Bookkeeping
  UnderflowIsUndone
PROPERTIES
  ExposureConverges
  ListedIsSquaredOff
