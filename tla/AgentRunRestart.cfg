CONSTANTS
  r1 = r1
  r2 = r2
  p1 = p1
  p2 = p2
  NoRun = NoRun
  NoProc = NoProc
  Runs <- TwoRuns
  Procs <- OneProcess
  MaxFaults = 2
SPECIFICATION Spec
INVARIANTS
  RecoveredBeforeServing
