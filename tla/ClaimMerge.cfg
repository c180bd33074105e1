\* A merge without a conflict is the three-way merge: the code's own is not.
SPECIFICATION Spec
CONSTANTS
  FUZZ_RANGE = 3
  MdTexts = {}
  Queries <- MCQueries
  Payloads <- MCPayloads
  Words = {"t"}
  Widths = {2}
  MaxEdits = 1
  Scripts <- Whole
  Contexts = {1, 2}
  Mine = "mine"
  MaxDrift = 1
  Number <- MCNumber
  Docs = {}
  Selectors <- MCSelectors
  ManySelectors <- MCManySelectors
  Values <- MCValues
  Overlays <- MCOverlays
  MaxDocEdits = 0
  MaxLines = 1
  MaxScript = 1
  MaxUnlike = 1
INVARIANTS
  CleanMergeIsThreeWay
CHECK_DEADLOCK FALSE
