SPECIFICATION Spec
CONSTANTS
  s1 = s1
  s2 = s2
  NoSymbol = NoSymbol
  Instants <- MCInstants
  Prices = {1}
  Volumes = {0, 1}
  Size = 2
  Symbols = {s1, s2}
  Resolved = {s1, s2}
  MaxTickers = 1
  Batches <- OneByOne
INVARIANTS
  TypeOK
  NeverSilent
PROPERTIES
  ImplementsHistory
