SPECIFICATION FairSpec
CONSTANTS
  Calls = {r1, r2}
  Target = t1
  Limit = 1
  QueueLimits = {0, 1}
  NoCall = NoCall
  MaxCrashes = 1
CHECK_DEADLOCK FALSE
INVARIANTS RowsAgree CancelIsHonest
PROPERTIES KeepsLifecycle AbortedRunEnds
