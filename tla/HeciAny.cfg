SPECIFICATION FairSpec
CONSTANTS
  h1 = h1
  h2 = h2
  dynamic = dynamic
  fixed = fixed
  Handles <- MCHandles
  Clients <- MCFixedClients
  FixedClients <- MCFixedClients
  NoClient = none
  MaxId = 2
  MaxGen = 2
  RingCap = 2
  HeciFunction = 1
  OddReplies = TRUE
  Usage = "any"
PROPERTIES
  StaleHandleWritesNothing
  CallsEnd
