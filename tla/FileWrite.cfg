SPECIFICATION Spec
CONSTANTS
  p1 = p1
  p2 = p2
  i1 = i1
  i2 = i2
  i3 = i3
  i4 = i4
  i5 = i5
  i6 = i6
  a = a
  b = b
  s = s
  d = d
  free = free
  x = x
  y = y
  none = none
  None = none
  Proc <- MCProc
  Name <- MCName
  Inode <- MCInode
  Device <- MCDevice
  Payload <- MCPayload
  Ops <- MCOps
  InitialEntries <- MCEntries
  InitialBytes <- MCInitialBytes
  MaxOps = 3
  MaxFaults = 2
  MaxOthers = 1
SYMMETRY Symmetries
INVARIANTS
  FilesTypeOK
  OnlySharedTears
  LinksStayTogether
  CreateIsExclusive
PROPERTIES
  PayloadSurvives
  MoveKeepsBytes
CHECK_DEADLOCK FALSE
