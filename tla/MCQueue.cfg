CONSTANTS
  p1 = p1
  p2 = p2
  c1 = c1
  c2 = c2
  NoThread = NoThread
  Junk = Junk
  Producers <- MCProducers
  Consumers <- MCConsumers
  Pushes <- MCPushes
  Pops <- MCPops
  QUEUE_MAXLEN = 2
SPECIFICATION FairSpec
INVARIANTS
  TypeOK
  RingConsistent
  NoLostWakeup
PROPERTIES
  ImplementsFifo
  AllCallsReturn
