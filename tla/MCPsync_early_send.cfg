CONSTANTS
  a = a
  b = b
  c = c
  Replica <- AB
  MaxSends <- TwoOne
  MaxFaults <- CrashAndEarlySend
SPECIFICATION Spec
CHECK_DEADLOCK FALSE
INVARIANT DistinctIds
