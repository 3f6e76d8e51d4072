SPECIFICATION FairSpec
CONSTANTS
  SideWidth = 4
  o1 = o1
  s1 = s1
  u1 = u1
  c1 = c1
  x1 = x1
  NoMsg = NoMsg
  Opens = {o1, s1}
  Unfit = {}
  Closes = {c1}
  Bad = {}
  SideOf <- SideOfSome
  PositionOf <- MCPositionOf
  MaxCopies = 1
  MaxCrashes = 0
PROPERTY EveryExecutionFinishes
\* Every execution may be acknowledged: the system then has nothing left to do.
CHECK_DEADLOCK FALSE
