------------------------------- MODULE MCCodec -------------------------------
(***************************************************************************)
(* A small instance of Codec for TLC: bytes of seven values, and fields    *)
(* whose bytes are all zero, all of the highest value, or all different.   *)
(***************************************************************************)
EXTENDS Codec

\* 0, 1, 2, ... from the least significant byte on.
Steps(w) == LET s[i \in 0 .. w] == IF i = 0 THEN 0
                                   ELSE s[i - 1] + ((i - 1) % Base) * Base ^ (i - 1)
            IN  s[w]
Highest(w) == Base ^ w - 1

Tick(i, p, v, t, c) ==
  [instrument_id |-> i, last_price |-> p, volume |-> v,
   total_traded_volume |-> t, timestamp_ns |-> c]

\* Fields of the same width differ, so that no two can be taken for each other.
MCTicks ==
  {Tick(Steps(4), Steps(8), Highest(4), Highest(8), 1),
   Tick(0, Highest(8), 1, Steps(8), Base ^ 7),
   Tick(Highest(4), 0, Steps(4), 2, Highest(8))}
MCHeartbeats ==
  {[source_id |-> Steps(4), sequence_num |-> Highest(8)],
   [source_id |-> Highest(4), sequence_num |-> Steps(8)]}
MCChannels == {0, Steps(4), Highest(4)}
MCClocks == {Steps(8), Highest(8)}
=============================================================================
