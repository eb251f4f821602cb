SPECIFICATION Spec
CONSTANTS
  AddrBits = 2
  Sessions = {"utun0", "utun1"}
  Endpoints <- MCEndpoints
  Allowed <- MCAllowed
  Connected <- MCConnected
  Edited <- MCEdited
  Resolvers = {"utun0"}
  Start <- MCStart
  Proxied = {"proxy"}
  Outside = {"other", "proxy"}
  MaxEvents = 4
INVARIANTS SystemRestored EndpointNeverLoops
