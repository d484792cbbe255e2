SPECIFICATION MCFairSpec
CONSTANTS
  c1 = c1
  c2 = c2
  c3 = c3
  id1 = id1
  id2 = id2
  t1 = t1
  t2 = t2
  Calls <- MCCalls
  RunIds <- MCRunIds
  RunId <- MCRunId
  Targets = {t1, t2}
  Limits = {1, 2}
  QueueLimits = {0, 2}
  NoCall = NoCall
INVARIANTS BooksAreExact
PROPERTIES NeverOverAdmits InOrder QueuedLeaves
