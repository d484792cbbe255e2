SPECIFICATION Spec
CONSTANTS
  Ids = {r1, r2, r3}
  Targets = {t}
  NoId = NoId
  TTL = 1
  MaxTime = 2
  Modes = {"stream"}
  MaxFaults = 2
  MaxCrashes = 1
SYMMETRY Symmetry
INVARIANTS ChainsAreLines AnsweredCanContinue NoWorkspaceLeaks 
PROPERTIES HistoryStands
