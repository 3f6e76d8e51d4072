SPECIFICATION FairSpec
CONSTANTS
  SideWidth = 4
  o1 = o1
  s1 = s1
  u1 = u1
  c1 = c1
  x1 = x1
  NoMsg = NoMsg
  Opens = {o1, u1}
  Unfit = {u1}
  Closes = {c1}
  Bad = {x1}
  SideOf <- SideOfSome
  PositionOf <- MCPositionOf
  MaxCopies = 2
  MaxCrashes = 1
INVARIANTS
  AckedWasExecuted
PROPERTIES
  ImplementsLedger
  StorableExecutionFinishes
\* Every execution may be acknowledged: the system then has nothing left to do.
CHECK_DEADLOCK FALSE
