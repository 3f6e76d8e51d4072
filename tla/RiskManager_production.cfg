SPECIFICATION Spec
CONSTANTS
  SideWidth = 4
  i1 = i1
  i2 = i2
  i3 = i3
  i4 = i4
  x1 = x1
  IT = IT
  BANK = BANK
  NoIntent = NoIntent
  Sectors = {IT, BANK}
  Intents = {i1, i2, i3}
  Malformed = {}
  Unaffordable = {}
  SideOf <- SideOfSome
  SectorOf <- SectorOfSome
  Instants <- Session
  MaxSectorPositions = 2
  MaxTotalPositions = 3
  MaxBiasRatio = 1
  StoresWired = FALSE
  AnswersMayBeLost = TRUE
  MaxPromotions = 2
  MaxCrashes = 1
INVARIANTS
  ExposureIsPublished
  GatesHold
\* Every intent may be acknowledged: the agent then has nothing left to do.
CHECK_DEADLOCK FALSE
