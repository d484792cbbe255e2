CONSTANTS
  Requests = {r1, r2}
  Duplicates = {r2}
  NoRequest = NoRequest
  HighWater = 2
  MaxBeats = 1
  MaxDeltas = 1
  MaxFaults = 1
  Shapes <- Mixed
SPECIFICATION FairSpec
INVARIANTS ToldIsKept TranscriptIsLegal NothingHeld
PROPERTY HandlersEnd
