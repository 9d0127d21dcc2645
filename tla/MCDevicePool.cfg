CONSTANTS
  Scenarios = {1, 2}
  Apps = 1
  Max = 2
  Ports = {1, 2}
  Devices = {1, 2, 3}
SPECIFICATION FairSpec
INVARIANT AtMostMax
INVARIANT OwnDevice
INVARIANT NoneLeft
INVARIANT NoneLost
PROPERTY LeaseReturns
CHECK_DEADLOCK FALSE
