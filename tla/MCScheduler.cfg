CONSTANTS
  N = 4
  Workers = 2
  FailFast = TRUE
  DryRun = FALSE
  Outcomes <- MCOutcomes
SPECIFICATION FairSpec
INVARIANT NothingLost
INVARIANT SuccessMeansAllRan
INVARIANT AfterRunSeesAll
PROPERTY RunReturns
PROPERTY KeepsPromise
CHECK_DEADLOCK FALSE
