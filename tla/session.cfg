SPECIFICATION Spec
CONSTANTS
  Modes = {0, 1, 2, 3}
  Miners = 3
  NonceNibbles = 3
  Places = {0, 255}
  Messages <- MCMessages
  MaxEvents = 5
  MaxTime = 2
INVARIANT SegmentsApartWithinExtranonce
INVARIANT OldestPleaNotLater
INVARIANT AcceptancesAccounted
CHECK_DEADLOCK FALSE
