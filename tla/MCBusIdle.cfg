\* The registry after a disconnect.
SPECIFICATION FairSpec
CONSTANTS
  Publishers <- MCPublishers
  Subscribers <- MCOneSubscriber
  Channels <- MCOneChannel
  Filters <- MCAll
  RingSize = 1
  QueueDepth = 1
  MaxRead = 2
  p1 = p1
  p2 = p2
  s1 = s1
  s2 = s2
  a = a
  b = b
CHECK_DEADLOCK FALSE
PROPERTY
  RemovedOnDisconnect
