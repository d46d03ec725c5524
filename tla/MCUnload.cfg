SPECIFICATION UnloadFairSpec
CONSTANTS
  p1 = p1
  p2 = p2
  c1 = c1
  c2 = c2
  e1 = e1
  e2 = e2
  Null = NoProc
  Nobody = Nobody
  Procs <- TwoProcs
  Callers <- TwoCallers
  Exes <- TwoExes
  Uses <- OwnExe
  Modes <- NoImage
  Lens <- NoBytes
  QueueCap = 2
  PipeCap = 1
  MaxCalls = 2
  MaxTotal = 2
  MayLeave <- Anytime
  Reasons <- BothReasons
INVARIANTS
  UnmappedWhenUnused
PROPERTIES
  EverybodyReturns
CHECK_DEADLOCK FALSE
