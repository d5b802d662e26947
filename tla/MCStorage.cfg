CONSTANTS
  Torn = Torn
  NoTmp = NoTmp
  MaxAppends = 3
  MaxIOErrors = 1
  MaxCrashes = 3
  MaxPuts = 1
  MaxPutErrors = 1
SPECIFICATION StorageSpec
CHECK_DEADLOCK FALSE
INVARIANT AckedSurvive
INVARIANT PutDurable
PROPERTY ImplementsMessageLog
