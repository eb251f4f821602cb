SPECIFICATION FairSpec
CONSTANTS
  Peers = {p}
  NoPeer = NoPeer
  Capacity = 1
  FlushLimit = 3
  QueueDepth = 2
  MaxOut = 3
  MaxItems = 4
  MaxTimers = 1
INVARIANTS
  OutboundOnce
  InboundInOrder
  StatsMatchTraffic
PROPERTY
  StalledDaemonIsIsolated
CHECK_DEADLOCK FALSE
