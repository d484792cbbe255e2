CONSTANTS
  Ids = {t1}
  Clis = {c1}
  Versions = {v1, v2}
  Models = {m1}
  Runs = {r1}
  Verifiers = {p1, p2}
  Scanners = {s1}
  MaxWrites = 4
  None = None
SPECIFICATION Spec
INVARIANTS RowsAreProven NoStaleVerdict NothingInherited
PROPERTY GatesHold
SYMMETRY Symmetry
