SPECIFICATION FairSpec
CONSTANTS
  p1 = p1
  Procs <- OneProcess
  Lens <- EmptyOrNot
  QueueCap = 2
  PipeCap = 1
  MaxCalls = 3
  MayLeave <- Anytime
INVARIANTS
  TypeOK
  OneOwner
  EndMarkIsLast
  FreedWhenUnused
  ReplyAnswersRequest
  QueueHasRoom
  NoCircularWait
PROPERTIES
  ImplementsFairService
  FinishReturns
CHECK_DEADLOCK FALSE
