\* Every plan of three operations, staged and committed without a fault.
SPECIFICATION Spec
CONSTANTS
  Path = {a, b, c}
  EditToken = edit
  Edit = edit
  Token <- MCToken
  Contents <- MCContents
  InitialDisks <- AllDisks
  MaxOps = 3
  MaxFaults = 0
  OpKinds = {"append", "create", "delete", "rename", "patch", "doc", "read", "replace", "md", "tidy", "ast"}
SYMMETRY Symmetry
INVARIANTS
  StagingTypeOK
  OriginalsMatchDisk
  ReadsItsWrites
  CacheIsCurrent
  AcceptsWhatFilesAllow
  CommitMeansPlan
  AcceptedPlanCommits
CHECK_DEADLOCK FALSE
