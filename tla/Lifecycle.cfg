CONSTANTS
  p1 = p1
  p2 = p2
  p3 = p3
  Procs = {p1, p2, p3}
  Commands <- Typed
  NoProc = NoProc
  MaxFaults = 2
SPECIFICATION FairSpec
INVARIANTS NamedWhileItRuns LeavesNothing
PROPERTY CommandsEnd
CHECK_DEADLOCK FALSE
