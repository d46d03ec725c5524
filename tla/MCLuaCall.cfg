SPECIFICATION Spec
CONSTANTS
  ArgLists <- AllArgLists
  Sizes <- SomeSizes
  MaxCalls = 3
INVARIANTS
  FirstCallIsLikeOthers
  Anchored
  ImageGoesBack
  ReadyOnceInitialized
  LeaksMapsOnly
CHECK_DEADLOCK FALSE
