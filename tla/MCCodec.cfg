\* Messages of both kinds, whole or cut, one after the other through one slot.
SPECIFICATION Spec
CONSTANTS
  Base = 7
  Ticks <- MCTicks
  Heartbeats <- MCHeartbeats
  Channels <- MCChannels
  Clocks <- MCClocks
  PayloadCap = 32
INVARIANTS
  TypeOK
  DecodedAsEncoded
  PythonAgrees
