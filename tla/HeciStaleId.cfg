SPECIFICATION Spec
CONSTANTS
  h1 = h1
  h2 = h2
  dynamic = dynamic
  fixed = fixed
  Handles <- MCHandles
  Clients <- MCOneClient
  FixedClients <- MCNoFixedClients
  NoClient = none
  MaxId = 2
  MaxGen = 2
  RingCap = 2
  HeciFunction = 0
  OddReplies = FALSE
  Usage = "any"
INVARIANT HostIdsDistinct
