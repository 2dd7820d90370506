----------------------------- MODULE MCConnection -----------------------------
(***************************************************************************)
(* A small instance of Connection for TLC: payloads of up to two bytes,    *)
(* subscriptions to up to two channels.                                    *)
(***************************************************************************)
EXTENDS Connection

Msg(t, c, p) == [type |-> t, chan |-> c, payload |-> p]

\* Payloads that are empty, of the largest size, and too large; the last one is
\* a valid header of an empty message.  A message of type 0 is a subscription if
\* it is the first of its connection, and a message if it is not.
MCMessages ==
  {Msg(1, 1, <<>>), Msg(1, 2, <<1, 0>>), Msg(1, 1, <<1, 1, 0>>),
   Msg(0, 1, <<1>>), Msg(0, 2, <<0, 1>>)}

\* The channels have different digits, and the last list is too long.
MCRequests == {<<>>, <<1>>, <<2>>, <<2, 1>>, <<1, 2, 3>>}
=============================================================================
