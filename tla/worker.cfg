CONSTANTS
  Callers = {c1, c2}
  NoCaller = NoCaller
  WeakCASMayFail = FALSE
  ExitOnError = TRUE
SPECIFICATION FairSpec
INVARIANTS StoppedMeansQuiet KillNotLost
PROPERTIES CallsReturn
