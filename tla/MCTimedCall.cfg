CONSTANTS
  HoldCalls = {h1, h2}
  Limit = 2
  ParentDeadlines <- MCParentDeadlines
  MaxLate = 2
  MaxHeld = 2
  Grace = 1
SPECIFICATION CallFairSpec
INVARIANT ExpiryIsEarned
INVARIANT ExpiryNotLost
INVARIANT TimeoutIsEarned
PROPERTY HungStepReturns
PROPERTY EndOfRunReturns
CHECK_DEADLOCK FALSE
