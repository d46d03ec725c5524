SPECIFICATION BridgeSpec
CONSTANTS
  p1 = p1
  p2 = p2
  c1 = c1
  c2 = c2
  e1 = e1
  e2 = e2
  Null = NoProc
  Nobody = Nobody
  Procs <- TwoProcs
  Callers <- TwoCallers
  Exes <- TwoExes
  Uses <- OwnExe
  Modes <- TwoWays
  Lens <- NoBytes
  QueueCap = 2
  PipeCap = 1
  MaxCalls = 3
  MaxTotal = 3
  MayLeave <- Anytime
SYMMETRY Symmetry
INVARIANTS
  BridgeTypeOK
  MapIsExact
  OneChildAtWork
  ChildSeesItsRequest
  CallGetsItsAnswer
CHECK_DEADLOCK FALSE
