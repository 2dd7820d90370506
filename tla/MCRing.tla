------------------------------- MODULE MCRing -------------------------------
(***************************************************************************)
(* Small instances of Ring for TLC.                                        *)
(***************************************************************************)
EXTENDS RingRefinement, TLC

CONSTANTS c1, c2, c3, m1, m2, big

MCConsumers == {c1, c2, c3}
MCTwoConsumers == {c1, c2}
MCOneConsumer == {c1}
MCMessages  == {m1, m2, big}
MCOversized == {big}
MCTwoMessages == {m1, m2}
MCOneMessage == {m1}
MCNone == {}

\* Consumers are interchangeable, and so are the messages that fit.
Symmetric == Permutations(MCConsumers) \cup Permutations({m1, m2})
=============================================================================
