\* What a subscriber is sent after it missed a frame.
SPECIFICATION Spec
CONSTANTS
  Publishers <- MCOnePublisher
  Subscribers <- MCOneSubscriber
  Channels <- MCOneChannel
  Filters <- MCAll
  RingSize = 2
  QueueDepth = 1
  MaxRead = 3
  p1 = p1
  p2 = p2
  s1 = s1
  s2 = s2
  a = a
  b = b
CHECK_DEADLOCK FALSE
INVARIANT
  SlowEvicted
