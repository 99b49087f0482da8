CONSTANTS
  c1 = c1  c2 = c2  c3 = c3  h1 = h1  h2 = h2  A = A  B = B  X = X  D = D  s1 = s1  s2 = s2
  None = None
  Calls = {c1, c2}  Harnesses = {h1, h2}  HarnessOf <- Apart
  Cases = {A, B, X, D}  NotExecutable = {D}  Pair = {A, B}
  ScriptsOf <- MCScriptsOf  Commands <- PairCommands  Observables = {"same", "other"}
  MaxFaults = 1  MaxCrashes = 0
SPECIFICATION Spec
INVARIANTS PairPassesAlike PassedMeansStored EveryCaseAccountedOnce
PROPERTIES ImplementsLedger
CHECK_DEADLOCK FALSE
