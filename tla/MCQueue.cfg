SPECIFICATION Spec
CONSTANTS
  p1 = p1
  p2 = p2
  c1 = c1
  c2 = c2
  i1 = i1
  i2 = i2
  NoItem = NoItem
  NoThread = NoThread
  Producers <- TwoProducers
  Consumers <- TwoConsumers
  Items <- TwoItems
  NumItems = 2
  MaxSpurious = 1
SYMMETRY Symmetry
INVARIANTS
  TypeOK
  RingInv
  ConsumerWakeup
  ProducerWakeup
PROPERTIES
  ImplementsFifo
