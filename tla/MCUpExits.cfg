SPECIFICATION FairSpec
CONSTANTS
  Ups <- MCUps
  Downs <- MCDowns
PROPERTY EndsWithServices
CHECK_DEADLOCK FALSE
