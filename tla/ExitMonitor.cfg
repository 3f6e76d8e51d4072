SPECIFICATION FairSpec
CONSTANTS
  SideWidth = 5
  a = a
  b = b
  NoId = NoId
  Ids <- MCIds
  Tickers <- MCTickers
  Prices <- MCPrices
  Book <- MCBook
  Instants <- MCInstants
  MaxCrashes = 1
INVARIANTS
  IInv
  ClosedWasLiquidated
  ExitPriceJustified
PROPERTIES
  ClosedIsFinal
  ImplementsLiquidation
  CrossedPositionCloses
  ClosedLeavesCache
