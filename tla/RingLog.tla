------------------------------- MODULE RingLog -------------------------------
(***************************************************************************)
(* What the ring buffer of bus/src/ring.rs promises: a bounded broadcast   *)
(* log.  Messages are appended to one log; a reader attaches near its end  *)
(* and is then handed every message that follows, in order; and the log    *)
(* does not grow while a reader is a full ring behind.                     *)
(***************************************************************************)
EXTENDS Integers, Sequences

CONSTANTS
  Capacity,   \* the number of messages a reader may be behind
  Readers,
  Messages    \* what may be appended

VARIABLES
  log,        \* every message appended, in order
  attached,   \* the readers that are attached
  from,       \* the length of the log where each of them starts
  seen        \* what each of them was handed

logVars == <<log, attached, from, seen>>

\* How far a reader has come in the log.
Position(c) == from[c] + Len(seen[c])

Init ==
  /\ log = <<>>
  /\ attached = {}
  /\ from = [c \in Readers |-> 0]
  /\ seen = [c \in Readers |-> <<>>]

\* publish() returns Ok.
AppendMsg(m) ==
  /\ \A c \in attached : Len(log) - Position(c) < Capacity
  /\ log' = Append(log, m)
  /\ UNCHANGED <<attached, from, seen>>

\* register_consumer() returns Ok: the start is the end of the log, or the end
\* as it was up to a ring ago.
Attach(c, n) ==
  /\ c \notin attached
  /\ n <= Len(log)
  /\ Len(log) - n <= Capacity
  /\ attached' = attached \cup {c}
  /\ from' = [from EXCEPT ![c] = n]
  /\ UNCHANGED <<log, seen>>

\* The callback of try_consume() or consume_one() gets the next message.
Deliver(c) ==
  /\ c \in attached
  /\ Position(c) < Len(log)
  /\ seen' = [seen EXCEPT ![c] = Append(@, log[Position(c) + 1])]
  /\ UNCHANGED <<log, attached, from>>

\* unregister_consumer().
Detach(c) ==
  /\ c \in attached
  /\ attached' = attached \ {c}
  /\ from' = [from EXCEPT ![c] = 0]
  /\ seen' = [seen EXCEPT ![c] = <<>>]
  /\ UNCHANGED log

Next ==
  \/ \E m \in Messages : AppendMsg(m)
  \/ \E c \in Readers :
       \/ \E n \in 0 .. Len(log) : Attach(c, n)
       \/ Deliver(c)
       \/ Detach(c)

Spec == Init /\ [][Next]_logVars
=============================================================================
