CONSTANTS
  a = a
  b = b
  j = j
  k = k
  NoEntry = NoEntry
  Nothing = Nothing
  Replica <- AB
  Key <- TwoKeys
  Order <- ByName
  Scenarios <- Trimming
SPECIFICATION SubstrateSpec
CHECK_DEADLOCK FALSE
ACTION_CONSTRAINT PumpFirst
INVARIANT TrimmedEverywhere
