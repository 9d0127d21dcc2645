SPECIFICATION FairSpec
CONSTANTS
  Requests <- MCRequests
  Kinds <- MCKinds
INVARIANTS NothingLeaked StepsAlone
PROPERTY RequestsReturn
CHECK_DEADLOCK FALSE
