\* A move moves its value, whichever way an index is spelt: not always.
SPECIFICATION Spec
CONSTANTS
  FUZZ_RANGE = 3
  MdTexts = {}
  Queries <- MCQueries
  Payloads <- MCPayloads
  Words = {"t"}
  Widths = {2}
  MaxEdits = 1
  Scripts = {}
  Contexts = {1, 2}
  Mine = "mine"
  MaxDrift = 1
  Number <- MCNumber
  Docs <- MCDocs
  Selectors <- MCSelectors
  ManySelectors <- MCManySelectors
  Values <- MCValues
  Overlays <- MCOverlays
  MaxDocEdits = 1
  MaxLines = 1
  MaxScript = 1
  MaxUnlike = 1
INVARIANTS
  MovesInEverySpelling
CHECK_DEADLOCK FALSE
