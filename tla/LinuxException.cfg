SPECIFICATION FairSpec
CONSTANTS
  Versions <- MCOneVersion
  MsgLens <- MCOneMsgLen
  PipeCap = 2
  MaxRx = 2
  Usage = "exception"
PROPERTIES
  BlockedCallEnds
  DisconnectEndsRead
CHECK_DEADLOCK FALSE
