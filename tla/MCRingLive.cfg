\* The broadcast log, and progress of the producer and of the consumers, under fairness.
SPECIFICATION FairSpec
CONSTANTS
  RingSize = 2
  MaxConsumers = 2
  MaxSeq = 3
  Consumers <- MCTwoConsumers
  Messages <- MCOneMessage
  Oversized <- MCNone
  NoMsg = NoMsg
  Free = Free
  c1 = c1
  c2 = c2
  c3 = c3
  m1 = m1
  m2 = m2
  big = big
INVARIANT
  EnoughEntries
PROPERTIES
  Delivery
  ImplementsLog
  BackpressureClears
