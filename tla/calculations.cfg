SPECIFICATION MCSpec
CONSTANTS
  Threads = {t1, t2}
  Addresses = {a1, a2, a3}
  NumTries = 2
  Items = {i1, i2}
  L1 = {i1}
  Null = Null
INVARIANTS HashesAgree KernelMatchesVerifier DagIsRight
INVARIANTS ContextsInOrder ArgumentsUnderstood 
CHECK_DEADLOCK FALSE
