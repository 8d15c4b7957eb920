SPECIFICATION MCSpec
CONSTANTS
  MaxSessions = 2
  MaxRequests = 2
  Requests <- MCRequests
INVARIANT AuthenticatedByLastPassword
INVARIANT RepliesInTurn
PROPERTY OnlyAuthorizedWrites
PROPERTY AcceptLoopEnds
CHECK_DEADLOCK FALSE
