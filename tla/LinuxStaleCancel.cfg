SPECIFICATION Spec
CONSTANTS
  Versions <- MCOneVersion
  MsgLens <- MCOneMsgLen
  PipeCap = 2
  MaxRx = 1
  Usage = "serial"
INVARIANT CancelStopsOnlyInProcess
CHECK_DEADLOCK FALSE
