SPECIFICATION Spec
CONSTANTS
  Objects = {o1, o2, o3}
  Sessions = {s1, s2, s3}
  MsgLens <- MCMsgLens
  Null = Null
  Dead = Dead
SYMMETRY MCSymmetry
INVARIANTS
  TypeOK
  OwnedOnce
  ReadsWhole
