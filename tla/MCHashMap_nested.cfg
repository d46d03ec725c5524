SPECIFICATION FairSpec
CONSTANTS
  k1 = k1
  k2 = k2
  k3 = k3
  k4 = k4
  v1 = v1
  v2 = v2
  v3 = v3
  v4 = v4
  None = None
  Keys <- FourKeys
  Values <- FourValues
  Hashes <- Wrapping
  MaxChain = 2
  FirstSize = 2
  MaxSize = 16
INVARIANTS
  AllFreedAtExit
PROPERTIES
  ImplementsMap
  PutReturns
CHECK_DEADLOCK FALSE
