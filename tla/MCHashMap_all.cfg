SPECIFICATION Spec
CONSTANTS
  k1 = k1
  k2 = k2
  k3 = k3
  k4 = k4
  v1 = v1
  v2 = v2
  v3 = v3
  v4 = v4
  None = None
  Keys <- ThreeKeys
  Values <- ThreeValues
  Hashes <- AllHashes
  MaxChain = 2
  FirstSize = 2
  MaxSize = 8
SYMMETRY Symmetry
INVARIANTS
  TypeOK
  GetFindsAll
  OneLiveCopy
CHECK_DEADLOCK FALSE
