CONSTANTS
  a = a
  b = b
  Replica <- AB
  Rank <- AFirst
  InsertionSortLimit = 12
  MaxSends <- ThreeThree
  MaxFaults <- CrashesAndLoss
SPECIFICATION TotalSpec
CHECK_DEADLOCK FALSE
CONSTRAINT FewFaults
INVARIANT Agreement
INVARIANT SenderOrder
INVARIANT NothingStranded
INVARIANT DistinctIds
INVARIANT GraphIsLog
INVARIANT ClockCondition
