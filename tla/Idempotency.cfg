SPECIFICATION Spec
CONSTANTS
  Calls = {c1, c2, c3}
  Keys = {k1}
  Bodies = {b1, b2}
  Sizes = {1, 3}
  MaxBytes = 2
  CompletionTTL = 1
  KeyTTL = 2
  MaxTime = 3
  MaxCrashes = 1
  Clients = {d1, d2}
  Credentials = {r1, r2, r3}
  MaxActs = 2
  Nobody = Nobody
  Never = Never
  NoCall = NoCall
SYMMETRY Symmetry
INVARIANTS WaitersHaveOwners AnswersMatch ClientsLeaveNothing
PROPERTY RunsOnce
