SPECIFICATION Spec
CONSTANTS
  SideWidth = 4
  a = a
  b = b
  NoId = NoId
  Ids <- OneId
  Tickers <- MCTickers
  Prices <- MCPrices
  Book <- OneBook
  Instants <- MCInstants
  MaxCrashes = 0
PROPERTY NoDoubleFire
