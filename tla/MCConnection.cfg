\* A publisher of up to three messages, or a subscriber that is sent two frames.
SPECIFICATION FairSpec
CONSTANTS
  Messages <- MCMessages
  Requests <- MCRequests
  PayloadCap = 2
  FilterCap = 4
  MaxSent = 3
  MaxDelivered = 2
CHECK_DEADLOCK FALSE
INVARIANTS
  TypeOK
  Framed
  RefusedForSize
  AsAsked
  ReceivedWhole
PROPERTIES
  PublishedInTheEnd
  ReceivedInTheEnd
