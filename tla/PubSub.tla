------------------------------- MODULE PubSub -------------------------------
(***************************************************************************)
(* What the bus promises its clients: a topic log that every subscriber    *)
(* reads through a bounded backlog of its own.  A subscriber is offered    *)
(* the messages that follow its subscription one by one, in the order of   *)
(* the log, at its own pace; it keeps those that match its filter and      *)
(* loses one only when its own backlog is full.  There are no threads, no  *)
(* locks and no ring here, and no subscriber waits for another.            *)
(***************************************************************************)
EXTENDS Integers, Sequences

CONSTANTS
  Members,
  Topics,
  Interests,  \* the sets of topics a member may subscribe to, {} for all
  Depth,      \* the bound of a backlog
  Window,     \* how far behind the log's end a subscription may start
  Posts       \* what may be published; .chan is its topic

VARIABLES
  log,        \* the messages published, in order
  members,    \* who is subscribed
  interest,   \* what each of them asked for
  offered,    \* the position each of them was offered last
  backlog,    \* the positions each of them has yet to take
  taken       \* the positions each of them has taken

pubsubVars == <<log, members, interest, offered, backlog, taken>>

Wanted(s, n) == interest[s] = {} \/ log[n].chan \in interest[s]

Init ==
  /\ log = <<>>
  /\ members = {}
  /\ interest = [s \in Members |-> {}]
  /\ offered = [s \in Members |-> 0]
  /\ backlog = [s \in Members |-> <<>>]
  /\ taken = [s \in Members |-> <<>>]

Post(m) ==
  /\ log' = Append(log, m)
  /\ UNCHANGED <<members, interest, offered, backlog, taken>>

Join(s, F, n) ==
  /\ s \notin members
  /\ Len(log) - n <= Window
  /\ members' = members \cup {s}
  /\ interest' = [interest EXCEPT ![s] = F]
  /\ offered' = [offered EXCEPT ![s] = n]
  /\ UNCHANGED <<log, backlog, taken>>

Offer(s) ==
  /\ s \in members
  /\ offered[s] < Len(log)
  /\ offered' = [offered EXCEPT ![s] = @ + 1]
  /\ backlog' = IF Wanted(s, offered[s] + 1) /\ Len(backlog[s]) < Depth
                THEN [backlog EXCEPT ![s] = Append(@, offered[s] + 1)]
                ELSE backlog
  /\ UNCHANGED <<log, members, interest, taken>>

Take(s) ==
  /\ s \in members
  /\ backlog[s] # <<>>
  /\ backlog' = [backlog EXCEPT ![s] = Tail(@)]
  /\ taken' = [taken EXCEPT ![s] = Append(@, Head(backlog[s]))]
  /\ UNCHANGED <<log, members, interest, offered>>

Leave(s) ==
  /\ s \in members
  /\ members' = members \ {s}
  /\ interest' = [interest EXCEPT ![s] = {}]
  /\ offered' = [offered EXCEPT ![s] = 0]
  /\ backlog' = [backlog EXCEPT ![s] = <<>>]
  /\ taken' = [taken EXCEPT ![s] = <<>>]
  /\ UNCHANGED log

Next ==
  \/ \E m \in Posts : Post(m)
  \/ \E s \in Members :
       \/ \E F \in Interests, n \in 0 .. Len(log) : Join(s, F, n)
       \/ Offer(s) \/ Take(s) \/ Leave(s)

Spec == Init /\ [][Next]_pubsubVars
=============================================================================
