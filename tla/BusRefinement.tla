---------------------------- MODULE BusRefinement ----------------------------
(***************************************************************************)
(* The bus uses the ring as the bounded log of RingLog, the specification  *)
(* that module Ring implements, and implements the topic log of PubSub.    *)
(***************************************************************************)
EXTENDS Bus

\* The ring, with the dispatch thread as its only reader.
RingOfBus == INSTANCE RingLog WITH
  Capacity <- RingSize,
  Readers  <- {"dispatch"},
  Messages <- Message,
  attached <- IF Accepting THEN {"dispatch"} ELSE {},
  from     <- [c \in {"dispatch"} |-> 0],
  seen     <- [c \in {"dispatch"} |-> SubSeq(log, 1, cursor)]

\* Publishers and the dispatch thread use the ring within its specification.
UsesRing == RingOfBus!Spec

Service == INSTANCE PubSub WITH
  Members   <- Subscribers,
  Topics    <- Channels,
  Interests <- Filters,
  Depth     <- QueueDepth,
  Window    <- RingSize,
  Posts     <- Message,
  members   <- registry,
  interest  <- filter,
  offered   <- [s \in Subscribers |-> IF s \in registry THEN Fanned(s) ELSE 0],
  backlog   <- queue,
  taken     <- [s \in Subscribers |-> written[s] \o in_hand[s]]

\* Every behaviour of the bus is one of the service: what a subscriber gets
\* depends on the log, on its filter and on its own backlog, and on nothing that
\* another subscriber does.
ImplementsPubSub == Service!Spec
=============================================================================
