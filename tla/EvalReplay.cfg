CONSTANTS
  c1 = c1  c2 = c2  c3 = c3  h1 = h1  h2 = h2  A = A  B = B  X = X  D = D  s1 = s1  s2 = s2
  None = None
  Calls = {c1, c2}  Harnesses = {h1, h2}  HarnessOf <- Together
  Cases = {A, B, X, D}  NotExecutable = {D}  Pair = {A, B}
  ScriptsOf <- MCScriptsOf  Commands <- ReplayCommands  Observables = {"same", "other"}
  MaxFaults = 1  MaxCrashes = 1
SPECIFICATION Spec
INVARIANTS JudgedOnOwnExecution ReportedIsStored
CHECK_DEADLOCK FALSE
