CONSTANTS
  Handlers = {h1}
  Recoverers = {p1}
  Tasks <- SomeTasks
  Stops <- SomeStops
  Results <- SomeResults
  Events <- SomeEvents
SPECIFICATION Spec
INVARIANT NoWaitCycle
