SPECIFICATION PeripherySpec

CONSTANTS
  Stamps = {1, 2}
  LastDay = 2
  MaxMessages = 2
  MaxFaults = 1

  t1 = t1
  t2 = t2
  a1 = a1
  a2 = a2
  Universe <- MCUniverse
  Stories = {a1, a2}
  Linked = {a1, a2}
  Coverage <- MCCoverage
  Ttl = 2
  Staleness = 1
  MaxFailures = 1

  Prices = {1, 2}
  Volumes = {0, 1}
  Size = 4
  LastMinute = 2
  Period = 3
  Multiplier = 1
  Window = 2
  Threshold = 2

  Rate = 3

  MaxTrades = 3
  Gains = {1}
  Losses = {2}
  HasCreatedAt = TRUE
  InstantsPerDay = 2
  LastReportDay = 2

INVARIANTS
  
  StoredIsParsed
  ReplayKeepsItsSchedule
  AskedTwicePerWindow
  QuietIntentIsRight
  StaleFeedIsSilent
  SummaryIsRight

PROPERTIES
  PricesAreSettled
  ListedIsScored
  CallsReturn
  PastReportsStay
