CONSTANTS
  Resolved = 2
  MaxShares = 1
  MaxQueue = 1
  MaxInFlight = 3
SPECIFICATION FairSpec
PROPERTIES UnansweredIsDropped
