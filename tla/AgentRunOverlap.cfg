CONSTANTS
  r1 = r1
  r2 = r2
  p1 = p1
  p2 = p2
  NoRun = NoRun
  NoProc = NoProc
  Runs <- OneRun
  Procs <- TwoProcesses
  MaxFaults = 2
SPECIFICATION FairSpec
INVARIANTS
  TerminalEvidence
  ClosedRunIsClosed
  ActiveClosureLoadable
  DispatchBehindFence
  ObservationHasSource
  AnswerIsDurable
  TraceTellsTruth
  IndInv
  AnsweredTracePasses
  OnlyAnswersPass
  AnsweredEvidenceLoads
  EvidenceLossIsExplained
  PlainWritesResolve
PROPERTIES
  ClosedForever
  ImplementsLifecycle
  HandlerEnds
  StartupEnds
  OrphansClosed
