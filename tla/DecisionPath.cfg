CONSTANTS
  o1 = o1
  o2 = o2
  obj1 = obj1
  obj2 = obj2
  seal1 = seal1
  seal2 = seal2
  w1 = w1
  w2 = w2
  Orders <- TwoOrders
  Nothing = Nothing
  CurrentRef = CurrentRef
  OtherRef = OtherRef
  Owner = Owner
  Run = Run
  Object <- TwoObjects
  Seal <- TwoSeals
  Worker <- TwoWorkers
  MaxTickets = 1
  Texts <- SmallTexts
  Answers <- SmallAnswers
  Snapshots <- SmallSnapshots
  Instants <- TwoInstants
  Altered <- Redirected
SPECIFICATION Spec
SYMMETRY Addresses
CHECK_DEADLOCK FALSE
INVARIANTS
  ReducerClosesItsOwn
  PortTakesDecision
  RecordsQuoteTheUser
  ToolGetsTheUsersOrder
  ReasonTellsCause
  RevalidatedIsReduced
  SealedIsReduced
  UnchangedStaysSealed
  TicketRestoresOnce
