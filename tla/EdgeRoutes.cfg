SPECIFICATION FairSpec
CONSTANTS
  Caller <- TwoCallers
  Api <- TwoApis
  Host <- TwoHosts
  MaxTunnel = 2
  MaxRecord = 2
  MaxSave = 3
  None = None
  Limit = 1
  c1 = c1
  c2 = c2
  a1 = a1
  a2 = a2
  h1 = h1
  h2 = h2
INVARIANTS
  TypeOK
  RouteIsTheBinding
PROPERTIES
  ForeignRecordsAreKept
  TunnelFollowsBinding
CHECK_DEADLOCK FALSE
