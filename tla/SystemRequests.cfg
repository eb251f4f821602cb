SPECIFICATION RequestsSpec
CONSTANTS
  Payloads <- MCPayloads
  PipeCap = 1
  OutputCap = 1
  MaxWritten = 2
  Workers = {w1, w2}
  SequenceMod = 2
  InboxCap = 2
  Others <- MCOthers
  KernelRoutes <- MCKernelRoutes
  VpnRoutes <- MCVpnRoutes
  Peers <- MCPeers
  DumpTries = 3
  MaxTable = 2
INVARIANTS
  SuccessIsWhole
  OutcomeIsTrue
  RoutesKeepTheirMeaning
PROPERTY
  RequestsReturn
