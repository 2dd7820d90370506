-------------------------------- MODULE MCBus --------------------------------
(***************************************************************************)
(* Small instances of Bus for TLC.                                         *)
(***************************************************************************)
EXTENDS BusRefinement

CONSTANTS p1, p2, s1, s2, a, b

MCPublishers   == {p1, p2}
MCOnePublisher == {p1}
MCSubscribers  == {s1, s2}
MCOneSubscriber == {s1}
MCChannels     == {a, b}
MCOneChannel   == {a}

\* A subscription to one channel, and one to all.
MCFilters == {{a}, {}}
MCAll     == {{}}

=============================================================================
