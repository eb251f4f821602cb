SPECIFICATION ConfigSpec
CONSTANTS
  Peers <- MCPeers
  Destinations <- MCDestinations
  NoAddress <- MCNoAddress
  ByteBits = 2
  MaxPeers = 2
  MaxCreated = 3
  Settings <- MCSettings
  Requests <- MCRequests
  BadIp <- MCBadIp
  MaxDns = 2
  MaxAddresses = 3
  MaxRoutes = 5
  MaxDomainLength = 2
INVARIANTS
  TableIsSound NoSessionLeaks LongestPrefixOwner
  AcceptedDnsIsApplied RoutedIsOwned
CHECK_DEADLOCK FALSE
