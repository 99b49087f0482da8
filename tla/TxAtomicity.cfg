CONSTANTS
  Handlers = {h1}
  Recoverers = {p1}
  Tasks <- SomeTasks
  Stops <- SomeStops
  Results <- SomeResults
  Events <- SomeEvents
SPECIFICATION FairSpec
INVARIANTS
  ReadsHold
  RunFirstNeverDeadlocks
PROPERTIES
  TransactionsAreAtomic
  TransactionEnds
