\* Three threads come and go at a table of two entries, on a two-slot ring.
SPECIFICATION Spec
CONSTANTS
  RingSize = 2
  MaxConsumers = 2
  MaxSeq = 3
  Consumers <- MCConsumers
  Messages <- MCMessages
  Oversized <- MCOversized
  NoMsg = NoMsg
  Free = Free
  c1 = c1
  c2 = c2
  c3 = c3
  m1 = m1
  m2 = m2
  big = big
SYMMETRY Symmetric
INVARIANTS
  TypeOK
  EntryOwned
  Crowded
  BoundedLag
  NoDataRace
  NeverLapped
  InOrder
  IInv
