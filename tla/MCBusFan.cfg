\* One publisher fans out to two subscribers that come and go.
SPECIFICATION Spec
CONSTANTS
  Publishers <- MCOnePublisher
  Subscribers <- MCSubscribers
  Channels <- MCChannels
  Filters <- MCFilters
  RingSize = 2
  QueueDepth = 1
  MaxRead = 3
  p1 = p1
  p2 = p2
  s1 = s1
  s2 = s2
  a = a
  b = b
CHECK_DEADLOCK FALSE
INVARIANTS
  TypeOK
  Accounted
  ReceiverPerSender
  PublisherFIFO
PROPERTIES
  UsesRing
  ImplementsPubSub
