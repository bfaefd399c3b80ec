SPECIFICATION FairSpec
CONSTANTS
  h1 = h1
  h2 = h2
  dynamic = dynamic
  fixed = fixed
  Handles <- MCHandles
  Clients <- MCClients
  FixedClients <- MCFixedClients
  NoClient = none
  MaxId = 2
  MaxGen = 2
  RingCap = 2
  HeciFunction = 0
  OddReplies = FALSE
  Usage = "lockstep"
INVARIANTS
  TypeOK
  HostIdsDistinct
  IdsAccounted
  RingDrained
  NoOrphanConnections
  ConnectMeansConnected
PROPERTIES
  ReadsOwnMessages
  StaleHandleWritesNothing
  CallsEnd
