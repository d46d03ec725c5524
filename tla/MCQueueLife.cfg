SPECIFICATION LifeFairSpec
CONSTANTS
  worker = worker
  host = host
  reply = reply
  mark = mark
  NoItem = NoItem
  NoThread = NoThread
  EndMark = mark
  Producers <- Worker
  Consumers <- Host
  Items <- Pushed
  NumItems = 2
  MaxSpurious = 2
INVARIANTS
  DestroyedWhenUnused
PROPERTIES
  Destroyed
  ImplementsFairFifo
CHECK_DEADLOCK FALSE
