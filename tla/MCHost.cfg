CONSTANTS
  Runs = {1, 2}
  Definitions <- MCDefinitions
  Kept = 1
SPECIFICATION FairSpec
INVARIANT OnlyApproved
INVARIANT WaiterKeepsQuestion
PROPERTY RunEnds
PROPERTY KeepsPromise
CHECK_DEADLOCK FALSE
