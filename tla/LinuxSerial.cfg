SPECIFICATION Spec
CONSTANTS
  Versions <- MCVersions
  MsgLens <- MCMsgLens
  PipeCap = 2
  MaxRx = 1
  Usage = "serial"
INVARIANTS
  TypeOK
  NoUseAfterFree
  DescriptorsAccounted
  HandleMirrorsConnection
PROPERTIES
  VersionNeverDowngrades
  ImplementsSession
CHECK_DEADLOCK FALSE
