\* There is no bus.
SPECIFICATION FairSpec
CONSTANTS
  NSubs = 2
  Warmup = 1
  MsgCounts <- MCCount
  Plans <- MCBusOnly
  QueueDepth = 2
  RingSize = 2
  Latencies <- MCLatency
CHECK_DEADLOCK FALSE
PROPERTY
  FailureReported
