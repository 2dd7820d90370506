\* Publishing starts before a subscription is in place.
SPECIFICATION Spec
CONSTANTS
  NSubs = 2
  Warmup = 1
  MsgCounts <- MCCount
  Plans <- MCBusOnly
  QueueDepth = 2
  RingSize = 2
  Latencies <- MCLatency
CHECK_DEADLOCK FALSE
INVARIANT
  RegisteredFirst
