CONSTANTS
  Runs = {r1, r2}
  MaxItems = 2
  Servers = {1, 2}
  NoServer = NoServer
  Abortable = {r1}
  MaxInbox = 1
SPECIFICATION Spec
INVARIANT NothingLeftBehind
PROPERTIES HonoursContract ReplacementSpared AbortedTurnEnds
CHECK_DEADLOCK FALSE
