\* Two processes over one store: applies, undos, prunes and crashes.
SPECIFICATION Spec
CONSTANTS
  Proc = {p1, p2}
  Dir = {d, e}
  Name = {"f"}
  Content = {x, y}
  Root = root
  root = root
  d = d
  e = e
  x = x
  y = y
  p1 = p1
  p2 = p2
  None = None
  Plans <- MCPlans
  InitialTrees <- MCTrees
  MaxApplies = 2
  MaxTime = 2
  MaxAge = 1
  MaxFaults = 1
SYMMETRY Symmetry
INVARIANTS
  StoreTypeOK
  WritesAreCovered
  HistoryUnwinds
CHECK_DEADLOCK FALSE
