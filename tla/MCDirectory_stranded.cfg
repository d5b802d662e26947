CONSTANTS
  a = a
  b = b
  c = c
  Replica <- AB
  Payload <- Operations
  Classifiers <- Mixed
  Scripts <- TwoMembers
  Rank <- ByName
SPECIFICATION SemSpec
CHECK_DEADLOCK FALSE
ACTION_CONSTRAINT PumpFirst
INVARIANT NoneStranded
