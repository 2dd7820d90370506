\* A registration with a stale cursor.
SPECIFICATION Spec
CONSTANTS
  RingSize = 2
  MaxConsumers = 1
  MaxSeq = 3
  Consumers <- MCOneConsumer
  Messages <- MCTwoMessages
  Oversized <- MCNone
  NoMsg = NoMsg
  Free = Free
  c1 = c1
  c2 = c2
  c3 = c3
  m1 = m1
  m2 = m2
  big = big
INVARIANT
  NothingCorrupted
