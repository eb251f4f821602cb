SPECIFICATION Spec
CONSTANTS
  c1 = c1
  c2 = c2
  Conns <- TwoConns
  Names <- MacNames
  KernelName <- MacKernelName
  MaxSessions = 2
  OutCap = 1
  InCap = 1
  Frames = {}
  TunEvents = {"packet"}
  DrainDeadline = TRUE
SYMMETRY Symmetry
INVARIANT ReservationsExact
