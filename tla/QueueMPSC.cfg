SPECIFICATION FairSpec
CONSTANTS
  p1 = p1
  p2 = p2
  c1 = c1
  NoValue = NoValue
  Producers <- MCProducers
  Consumers <- MCOneConsumer
  MaxPushes = 4
INVARIANTS
  TypeOK
  ContentIsLatestPushes
PROPERTIES
  ImplementsQueueContract
  NoLostWakeup
