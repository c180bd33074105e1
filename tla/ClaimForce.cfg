\* One extraction, with and without force, no fault.
SPECIFICATION Spec
CONSTANTS
  Path = {a, b, c}
  EditToken = edit
  Edit = edit
  Token <- MCToken
  Contents <- MCContents
  InitialDisks <- AllDisks
  MaxOps = 1
  MaxFaults = 0
  OpKinds = {"extract"}
SYMMETRY Symmetry
INVARIANT
  ForceOverwrites
CHECK_DEADLOCK FALSE
