CONSTANTS
  Handlers = {h1}
  Recoverers = {p1, p2}
  Tasks <- SomeTasks
  Stops <- SomeStops
  Results <- SomeResults
  Events = {}
SPECIFICATION Spec
SYMMETRY RecoverersAlike
PROPERTY TransactionsAreAtomic
