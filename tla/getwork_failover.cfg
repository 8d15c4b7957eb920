CONSTANTS
  Resolved = 2
  Headers = {h1, h2}
  NoHeader = NoHeader
  MaxQueue = 3
  MaxInFlight = 4
SPECIFICATION FairSpec
PROPERTIES AttemptEnds
