CONSTANTS
  Runs = {r1, r2}
  s1 = s1
  Slots <- OneSlot
  Responses = {a}
  Dirs = {d1, d2, d3, d4, d5}
  MaxFaults = 2
  MaxCrashes = 1
  None = None
  Undefined = Undefined
SPECIFICATION Spec
INVARIANTS Isolated RecoveryIsBounded NeverWedged
PROPERTY OnlyRetentionRemoves
SYMMETRY Symmetry
