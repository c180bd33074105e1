\* Two renames over three files, no fault.
SPECIFICATION Spec
CONSTANTS
  Path = {a, b, c}
  EditToken = edit
  Edit = edit
  Token <- MCToken
  Contents <- MCContents
  InitialDisks <- AllDisks
  MaxOps = 2
  MaxFaults = 0
  OpKinds = {"rename"}
SYMMETRY Symmetry
INVARIANT
  BytesNeverRewrittenAsEmpty
CHECK_DEADLOCK FALSE
