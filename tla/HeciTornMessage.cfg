SPECIFICATION HistorySpec
CONSTANTS
  Depth = 3
  Width = 6
  HostLens <- MCHostLens
  FwLens <- MCFwLens
  BufSizes <- MCBufSizes
  MaxMsgs = 2
  MaxResets = 0
  OneHandle = FALSE
PROPERTIES
  ReceivedWhole
