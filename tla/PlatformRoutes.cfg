SPECIFICATION Spec
CONSTANTS
  AddrBits = 2
  Sessions = {"tun0", "tun1", "tun2"}
  Endpoints <- MCEndpoints
  Allowed <- MCAllowed
  Connected <- MCConnected
  Resolvers = {"tun0"}
  Start <- MCStart
  MaxEvents = 5
INVARIANTS SystemRestored EndpointNeverLoops
