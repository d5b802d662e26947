CONSTANTS
  DeliverCap = 2
  ApplyCap = 1
  Incoming = 3
  Submits = 1
  Replayed = 1
  Layers <- Layer
SPECIFICATION FairSpec
CHECK_DEADLOCK FALSE
INVARIANT RestsOnlyWhenDone
PROPERTY Drains
