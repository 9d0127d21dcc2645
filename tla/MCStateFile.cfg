CONSTANTS
  r1 = r1
  r2 = r2
  r3 = r3
  d1 = d1
  NoRun = NoRun
  Runs = {r1, r2, r3}
  Downs = {d1}
  K = 2
  HasCleanup = {2}
  Launchers = {2}
  Overlap = FALSE
  StopOutcomes = {"gone"}
  ReapOutcomes = {"gone", "error"}
SPECIFICATION Spec
SYMMETRY MCSymmetry
INVARIANT Recorded
INVARIANT CleanSlate
INVARIANT NoStaleEntry
CHECK_DEADLOCK FALSE
