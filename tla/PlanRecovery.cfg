\* Plans of two operations, their commits interrupted twice.
SPECIFICATION FairSpec
CONSTANTS
  Path = {a, b, c}
  EditToken = edit
  Edit = edit
  Token <- MCToken
  Contents <- FewContents
  InitialDisks <- DistinctDisks
  MaxOps = 2
  MaxFaults = 2
  OpKinds = {"append", "create", "delete", "rename", "patch", "extract"}
INVARIANTS
  Recoverable
  TakesAllBack
  ListedSessionRestores
PROPERTIES
  CommitSettles
  ImplementsAtomicPlan
CHECK_DEADLOCK FALSE
