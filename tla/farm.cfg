CONSTANTS
  N = 2
  JobEpoch <- MCJobEpoch
  Reasons <- MCReasons
  TooSmall <- MCTooSmall
  Simulation = FALSE
  Modes <- MCModes
  MaxStarts = 2
SPECIFICATION FairSpec
INVARIANTS HeldMinerHasNoWork SearchUsesEpochDag
PROPERTIES JobsAreSearched StopCompletes
