SPECIFICATION FairSpec
CONSTANTS
  c1 = c1
  c2 = c2
  Conns <- OneConn
  Names <- PlainNames
  KernelName <- PlainKernelName
  MaxSessions = 1
  OutCap = 2
  InCap = 1
  Frames = {"other", "config", "broken"}
  TunEvents = {"packet", "error"}
  DrainDeadline = FALSE
INVARIANTS ResponseOrder FailureAfterRelease
PROPERTIES ClientGoneReleases ShutdownDrains OpenAnswered
