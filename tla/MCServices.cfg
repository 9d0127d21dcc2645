CONSTANTS
  N = 3
  Graphs <- MCGraphs
  Enabled = {1, 2, 3}
  Attach = {2}
  MaxStarts = 2
SPECIFICATION FairSpec
INVARIANT StartsAfterDependencies
INVARIANT StartedMeansReady
INVARIANT StopsBeforeDependencies
INVARIANT NothingLeftBehind
PROPERTY StartReturns
PROPERTY StopReturns
CHECK_DEADLOCK FALSE
