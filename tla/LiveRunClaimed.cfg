CONSTANTS
  r1 = r1
  r2 = r2
  p1 = p1
  p2 = p2
  NoRun = NoRun
  NoProc = NoProc
  Runs <- OneRun
  Procs <- TwoProcesses
  MaxFaults = 0
SPECIFICATION Spec
PROPERTY RecoversOnlyOrphans
