SPECIFICATION BridgeFairSpec
CONSTANTS
  p1 = p1
  p2 = p2
  c1 = c1
  c2 = c2
  e1 = e1
  e2 = e2
  Null = NoProc
  Nobody = Nobody
  Procs <- TwoProcs
  Callers <- OneCaller
  Exes <- OneExe
  Uses <- All
  Modes <- NoImage
  Lens <- NoBytes
  QueueCap = 2
  PipeCap = 1
  MaxCalls = 2
  MaxTotal = 3
  MayLeave <- OnceAnswered
PROPERTIES
  NextCallRestarts
CHECK_DEADLOCK FALSE
