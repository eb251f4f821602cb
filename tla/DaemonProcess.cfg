SPECIFICATION ProcessSpec
CONSTANTS
  app = app
  ui = ui
  d1 = d1
  d2 = d2
  reader = reader
  writer1 = writer1
  writer2 = writer2
  c1 = c1
  c2 = c2
  tun = tun
  main = main
  other = other
  Callers <- MCCallers
  Daemons <- MCDaemons
  Threads <- MCThreads
  Timed <- MCTimed
  Conns <- MCConns
  TunNames <- MCTunNames
  Loggers <- MCLoggers
  Systems <- MCSystems
  MaxInstances = 2
  QueueCap = 2
  Base = 2
  HeaderSize = 2
  MaxFrameSize = 2
  Encodings <- MCEncodings
  StreamCap = 3
  MaxFrames = 3
INVARIANTS
  EndedIsUnregistered
  TransferIsSafe
  ServedIsOwner
  DllOutlivesDevices
  LeavesAsFound
  FramesAreWhole
PROPERTIES
  StopEndsProcess
  CloseReleases
  NothingHoldsUpExit
CHECK_DEADLOCK FALSE
