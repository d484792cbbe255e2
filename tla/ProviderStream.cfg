SPECIFICATION FairSpec
CONSTANTS
  MaxItems = 3
  MaxImages = 2
  MaxImageBytes = 2
  MaxTotalBytes = 3
  MaxRedirects = 1
  NoEvent = NoEvent
INVARIANTS ChannelAgrees AtMostOneEffect SettledIsComplete
PROPERTIES KeepsPromise StreamEnds
CHECK_DEADLOCK FALSE
