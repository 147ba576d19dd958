SPECIFICATION MCSpec
CONSTANTS
  LocalNames <- MCLocalNames
  LocalSuffixes <- MCLocalSuffixes
  Octets <- MCOctets
  Groups <- MCGroups
  Prefixes <- MCPrefixes
  MaxUrlLength = 3
  ShortDomain <- MCShortDomain
  Lower <- MCLower
  TrackingParams = {2}
  Urls <- MCUrls
  Base = 3
  Bytes = 8
  MinLength = 2
  MaxLength = 3
  DrawnLength = 2
  UpperOf <- MCUpperOf
  Reserved <- MCReserved
  MaxNumber = 200
  Buffers = 2
  Targeted <- MCRaws
  Links <- MCLinks
  Visitors <- MCVisitors
  Processes = {p1, p2}
  Envs <- MCEnvs
  EdgeTokens <- MCEdgeTokens
  Bounds <- MCBounds
  MaxDay = 2
  MaxClicks = 2
  MaxStarts = 3
INVARIANTS
  HostsAreJudgedByAddress
  OneKeyPerPage
  SlugsAreSound
  ProductIsNamed
  AcceptedIsServed
  UniqueVisitors
SYMMETRY MCSymmetry
CHECK_DEADLOCK FALSE
