\* Two publishers contend for a ring of one slot; subscribers stall or go.
SPECIFICATION FairSpec
CONSTANTS
  Publishers <- MCPublishers
  Subscribers <- MCSubscribers
  Channels <- MCOneChannel
  Filters <- MCAll
  RingSize = 1
  QueueDepth = 1
  MaxRead = 1
  p1 = p1
  p2 = p2
  s1 = s1
  s2 = s2
  a = a
  b = b
CHECK_DEADLOCK FALSE
INVARIANT
  NoOverrun
PROPERTIES
  Committed
  Delivered
