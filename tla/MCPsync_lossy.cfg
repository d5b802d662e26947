CONSTANTS
  a = a
  b = b
  c = c
  Replica <- ABC
  MaxSends <- OneEach
  MaxFaults <- OneLoss
SPECIFICATION FairSpec
CHECK_DEADLOCK FALSE
INVARIANT CausalDelivery
INVARIANT DeferredCanWake
INVARIANT StableEverywhere
PROPERTY GapsClose
PROPERTY Converges
PROPERTY ImplementsCausalBroadcast
