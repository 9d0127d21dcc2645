CONSTANTS
  Scenarios = {1, 2}
  Apps = 2
  Max = 2
  Ports = {1, 2}
  Devices = {1, 2}
SPECIFICATION FairSpec
PROPERTY LeaseReturns
CHECK_DEADLOCK FALSE
