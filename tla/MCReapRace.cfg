CONSTANTS
  r1 = r1
  r2 = r2
  r3 = r3
  d1 = d1
  NoRun = NoRun
  Runs = {r1, r2, r3}
  Downs = {}
  K = 1
  HasCleanup = {1}
  Launchers = {}
  Overlap = TRUE
  StopOutcomes = {"gone"}
  ReapOutcomes = {"gone", "error"}
SPECIFICATION Spec
PROPERTY LeftAlone
CHECK_DEADLOCK FALSE
