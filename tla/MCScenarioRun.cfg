CONSTANTS
  NBefore = 1
  NSteps = 2
  NAfter = 1
  Closing <- MCClosing
  Keyed <- MCKeyed
SPECIFICATION FairSpec
INVARIANT CleanupRuns
INVARIANT TeardownRuns
INVARIANT StopsAtFailure
INVARIANT PassedMeansClean
INVARIANT OneState
PROPERTY ScenarioEnds
CHECK_DEADLOCK FALSE
