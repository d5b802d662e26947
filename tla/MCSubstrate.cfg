CONSTANTS
  a = a
  b = b
  j = j
  k = k
  NoEntry = NoEntry
  Nothing = Nothing
  Replica <- AB
  Key <- TwoKeys
  Order <- ByName
  Scenarios <- All
SPECIFICATION SubstrateSpec
CHECK_DEADLOCK FALSE
ACTION_CONSTRAINT PumpFirst
ACTION_CONSTRAINT Calm
INVARIANT StoreIsMerge
 
 
INVARIANT TrimmedIsSnapshotted
