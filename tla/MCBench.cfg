\* Three subscribers on either broker or both, which may lose messages or stop.
SPECIFICATION FairSpec
CONSTANTS
  NSubs = 3
  Warmup = 1
  MsgCounts <- MCCounts
  Plans <- MCPlans
  QueueDepth = 1
  RingSize = 2
  Latencies <- MCLatencies
CHECK_DEADLOCK FALSE
INVARIANTS
  TypeOK
  SamplesExact
  StatsExact
  AcknowledgedFirst
PROPERTIES
  Completes
