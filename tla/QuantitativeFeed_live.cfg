SPECIFICATION FairSpec
CONSTANTS
  s1 = s1
  s2 = s2
  NoSymbol = NoSymbol
  Instants <- MCInstants
  Prices = {1, 2}
  Volumes = {0}
  Size = 1
  Symbols = {s1}
  Resolved = {s1}
  MaxTickers = 1
  Batches <- OneByOne
PROPERTIES
  HeardIsNewest
  FeedRecovers
  ResolvedPricesArrive
  StopEndsTheLoops
