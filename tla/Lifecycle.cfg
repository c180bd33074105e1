\* Two steps whose commands do what they please, strict and not.
SPECIFICATION Spec
CONSTANTS
  Member = {sh, bg}
  Shell = sh
  Deadline = 1
  Grace = 1
  PipeSize = 1
  Capture = 0
  File = {t, o}
  t = t
  o = o
  Text = {old, new}
  old = old
  new = new
  None = None
  Bytes = Bytes
  Unread = {}
  Plans <- MCPlans
  InitialDisks <- MCDisks
  MaxFaults = 1
INVARIANTS
  LifecycleTypeOK
  ExitedIsOver
  TimeoutLeavesNothing
  StrictReverts
  OutcomeMeansSteps
PROPERTIES
  ComesToAnOutcome
CHECK_DEADLOCK FALSE
