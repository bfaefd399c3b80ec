SPECIFICATION Spec
CONSTANTS
  Versions <- MCOneVersion
  MsgLens <- MCOneMsgLen
  PipeCap = 2
  MaxRx = 1
  Usage = "exception"
INVARIANT NoUseAfterFree
CHECK_DEADLOCK FALSE
