SPECIFICATION HistoryFairSpec
CONSTANTS
  Depth = 3
  Width = 6
  HostLens <- MCHostLens
  FwLens <- MCFwLens
  BufSizes <- MCBufSizes
  MaxMsgs = 2
  MaxResets = 1
  OneHandle = TRUE
INVARIANTS
  TypeOK
  HostNeverOverflows
  FwGetsWhole
PROPERTIES
  ReceivedWhole
  ResetLeavesNothing
  SentMessageArrives
  HostChannel
  FwChannel
