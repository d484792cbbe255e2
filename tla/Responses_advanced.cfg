SPECIFICATION Spec
CONSTANTS
  Ids = {r1, r2}
  Targets = {t}
  NoId = NoId
  TTL = 1
  MaxTime = 0
  Modes = {"json"}
  MaxFaults = 0
  MaxCrashes = 0
SYMMETRY Symmetry
INVARIANTS AdvancedFailureEndsChain
