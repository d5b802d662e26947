CONSTANTS
  a = a
  b = b
  p = p
  x = x
  y = y
  sys = sys
  w1 = w1
  Replica <- Members
  Self = a
  Peer = {p}
  Addr = {x, y}
  Conv = {sys}
  Call = {1, 2, 3}
  Frame <- Frames
  Own = "ours"
  RecvCap = 1
  ViewCap = 1
  Watcher = {w1}
  Home <- WatchersAt
  AppCap = 1
  MetadataCap = 1
  WatchCap = 1
  Caller = {1, 2, 3}
  QueueCap = 2
  MaxBatchOps = 2
  Plans <- EachPart
SPECIFICATION NodeSpec
CHECK_DEADLOCK FALSE
INVARIANT RoutesCurrent
INVARIANT NoConnectionLeaks
INVARIANT ChannelsClosedLast
INVARIANT EntryIsNewest
INVARIANT WatcherUpToDate
INVARIANT OneBatchEach
