--------------------------- MODULE RingRefinement ---------------------------
(***************************************************************************)
(* The ring implements the bounded broadcast log of RingLog, for the       *)
(* consumers that registered in time.  A message is appended when its slot *)
(* is committed, and handed to a reader when the callback has read it.     *)
(***************************************************************************)
EXTENDS Ring

\* What a callback made of the two words it read: no message, if they are of
\* different messages.
Whole(words) == IF words[1] = words[2] THEN words[1] ELSE NoMsg

Seen(c) == [i \in 1 .. Len(got[c]) |-> Whole(got[c][i])]

Abstract == INSTANCE RingLog WITH
  Capacity <- RingSize,
  Readers  <- Consumers,
  Messages <- Fitting,
  attached <- {c \in Consumers : Prompt(c)},
  from     <- [c \in Consumers |-> IF Prompt(c) THEN start[c] ELSE 0],
  seen     <- [c \in Consumers |-> IF Prompt(c) THEN Seen(c) ELSE <<>>]

\* Every behaviour of the ring, with its torn reads, its stale snapshots and its
\* two stores per commit, is one of the broadcast log.
ImplementsLog == Abstract!Spec
=============================================================================
