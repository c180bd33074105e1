\* All short texts, and some long ones, under every edit, and documents under
\* every mutation.
SPECIFICATION Spec
CONSTANTS
  FUZZ_RANGE = 3
  MdTexts <- MCTexts
  Queries <- MCQueries
  Payloads <- MCPayloads
  Words = {"t"}
  Widths = {2}
  MaxEdits = 1
  Scripts <- MCScripts
  Contexts = {0, 1, 2}
  Mine = "mine"
  MaxDrift = 2
  Number <- MCNumber
  Docs <- MCDocs
  Selectors <- MCSelectors
  ManySelectors <- MCManySelectors
  Values <- MCValues
  Overlays <- MCOverlays
  MaxDocEdits = 1
  MaxLines = 4
  MaxScript = 4
  MaxUnlike = 6
INVARIANTS
  EditsTypeOK
  EditsSettle
  PatchGivesNewText
  DriftSurvives
  MergeIsThreeWay
  DocEditsMeanWhatTheySay
  EditsReadBack
  ArraysKeepOrder
PROPERTIES
  EditsMeanOutline
CHECK_DEADLOCK FALSE
