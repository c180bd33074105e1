\* One apply that edits a file and renames its directory, by one process.
SPECIFICATION Spec
CONSTANTS
  Proc = {p1}
  Dir = {d, e}
  Name = {"f"}
  Content = {x, y}
  Root = root
  root = root
  d = d
  e = e
  x = x
  y = y
  p1 = p1
  p2 = p2
  None = None
  Plans <- TangledPlans
  InitialTrees <- MCTrees
  MaxApplies = 1
  MaxTime = 2
  MaxAge = 0
  MaxFaults = 0
INVARIANT RenamesUnwind
CHECK_DEADLOCK FALSE
