SPECIFICATION FairSpec
CONSTANTS
  Ups <- MCUps
  Downs <- MCDowns
INVARIANTS DownStops NoStaleStop
PROPERTY SignalEnds
CHECK_DEADLOCK FALSE
