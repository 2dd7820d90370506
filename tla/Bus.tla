--------------------------------- MODULE Bus ---------------------------------
(***************************************************************************)
(* The bus process of bus/src/main.rs: publisher threads, the dispatch     *)
(* thread and subscriber I/O threads.                                      *)
(*                                                                         *)
(* Publishers take publish_lock around Ring::publish, whose check and      *)
(* whose commit are steps of their own, and retry while it is refused.     *)
(* The dispatch thread consumes the ring, and inside the consume callback  *)
(* locks the registry and offers the frame to the bounded queue of every   *)
(* subscriber whose filter matches.  Each subscriber thread takes frames   *)
(* off its queue and writes them to its socket.                            *)
(*                                                                         *)
(* The ring is the bounded log that module Ring is shown to implement,     *)
(* with the dispatch thread as its one consumer, registered before the     *)
(* first connection is accepted.  A frame is its position in that log.     *)
(***************************************************************************)
EXTENDS Integers, Sequences, FiniteSets

CONSTANTS
  Publishers,   \* connections whose first message is not a subscription
  Subscribers,  \* connections that subscribe
  Channels,
  Filters,      \* the sets of channels a subscription may name, {} for all
  RingSize,     \* RING_SIZE
  QueueDepth,   \* DEFAULT_QUEUE_DEPTH
  MaxRead       \* bound: the messages the bus reads from one publisher

ASSUME BusAssumption ==
  /\ RingSize \in Nat \ {0}
  /\ QueueDepth \in Nat \ {0}
  /\ MaxRead \in Nat
  /\ Filters \subseteq SUBSET Channels

VARIABLES
  log,       \* history: the messages committed to the ring, in order
  cursor,    \* the dispatch thread's cursor in the ring
  d_pc,      \* the dispatch thread's place; it holds the registry in "fan"
  pending,   \* the registry's entries that its iteration has not visited
  p_pc,      \* each publisher thread's place; one is in "publish" or "commit"
  current,   \* the message it has read last: none, or one
  read,      \* how many messages it has read from its socket
  registry,  \* the keys of sub_registry
  filter,    \* SubEntry.channels, {} standing for filter_all
  queue,     \* the frames between SubEntry.tx and rx
  s_pc,      \* each subscriber thread's place
  in_hand,   \* the frame it is writing: none, or one
  written,   \* history: the frames it has written to its socket
  client,    \* what the client at the other end does
  joined,    \* history: the last frame fanned out before it was registered
  dropped    \* history: the frames its queue had no room for

publisherVars  == <<p_pc, current, read>>
streamVars     == <<queue, in_hand, written>>
entryVars      == <<registry, filter, joined>>
subscriberVars == <<entryVars, streamVars, s_pc, dropped, client>>
vars == <<log, cursor, d_pc, pending, publisherVars, subscriberVars>>

Message == [src : Publishers, num : 1 .. MaxRead, chan : Channels]

Init ==
  /\ log = <<>>
  /\ cursor = 0 /\ d_pc = "start" /\ pending = {}
  /\ p_pc = [p \in Publishers |-> "read"]
  /\ current = [p \in Publishers |-> <<>>]
  /\ read = [p \in Publishers |-> 0]
  /\ registry = {}
  /\ filter = [s \in Subscribers |-> {}]
  /\ s_pc = [s \in Subscribers |-> "handshake"]
  /\ client = [s \in Subscribers |-> "reading"]
  /\ joined = [s \in Subscribers |-> 0]
  /\ dropped = [s \in Subscribers |-> {}]
  /\ queue = [s \in Subscribers |-> <<>>]
  /\ in_hand = queue
  /\ written = queue

PublisherAt(p, from, to)  == p_pc[p] = from /\ p_pc' = [p_pc EXCEPT ![p] = to]
SubscriberAt(s, from, to) == s_pc[s] = from /\ s_pc' = [s_pc EXCEPT ![s] = to]
DispatchAt(from, to)      == d_pc = from /\ d_pc' = to

-----------------------------------------------------------------------------
(* main(): the dispatch consumer is registered, at the head of an empty ring, *)
(* before the listener accepts a connection.                                  *)

Accepting == d_pc # "start"

RegisterDispatch ==
  /\ DispatchAt("start", "wait")
  /\ cursor' = Len(log)
  /\ UNCHANGED <<log, pending, publisherVars, subscriberVars>>

-----------------------------------------------------------------------------
(* Publisher threads: run_publisher() and publish_one().                     *)

busVars == <<log, cursor, d_pc, pending, subscriberVars>>

\* read_exact() of a header and a payload.
ReadMessage(p) ==
  /\ Accepting
  /\ read[p] < MaxRead
  /\ PublisherAt(p, "read", "lock")
  /\ \E ch \in Channels :
       current' = [current EXCEPT ![p] = <<[src |-> p, num |-> read[p] + 1, chan |-> ch]>>]
  /\ read' = [read EXCEPT ![p] = @ + 1]
  /\ UNCHANGED busVars

\* End of file, an error, or a message the thread does not accept: it returns.
PublisherLeaves(p) ==
  /\ Accepting
  /\ PublisherAt(p, "read", "closed")
  /\ UNCHANGED <<busVars, current, read>>

\* A wrong variant: there is no lock.
LockIgnored == TRUE

\* publish_lock.lock() returns when nobody else has it.
LockFree == \A p \in Publishers : p_pc[p] \notin {"publish", "commit"}

Lock(p) ==
  /\ PublisherAt(p, "lock", "publish")
  /\ LockFree
  /\ UNCHANGED <<busVars, current, read>>

\* Two wrong variants: one message too many, and one slot never used.
RingFullLate  == Len(log) - cursor > RingSize
RingFullEarly == Len(log) - cursor >= RingSize - 1

\* The ring refuses to be more than full.
RingFull == Len(log) - cursor >= RingSize

\* Ring::publish() finds room, and has yet to commit.
Admit(p) ==
  /\ PublisherAt(p, "publish", "commit")
  /\ ~RingFull
  /\ UNCHANGED <<busVars, current, read>>

\* It commits the message and returns Ok, and the guard is dropped.
PublishOk(p) ==
  /\ PublisherAt(p, "commit", "read")
  /\ log' = log \o current[p]
  /\ UNCHANGED <<cursor, d_pc, pending, subscriberVars, current, read>>

\* A wrong variant: a refused message is given up.
GiveUp == "read"

\* What follows Err(SlowConsumer): the lock, once more.
Retry == "lock"

\* It returns SlowConsumer: drop the guard, yield, try again.
PublishSlow(p) ==
  /\ PublisherAt(p, "publish", Retry)
  /\ RingFull
  /\ UNCHANGED <<busVars, current, read>>

-----------------------------------------------------------------------------
(* The dispatch thread: dispatch_loop().                                     *)

\* The frame it consumes: the callback runs before the cursor moves.
Frame == cursor + 1

\* A wrong variant: the filter is not looked at.
MatchesAll(s, n) == TRUE

Matches(s, n) == filter[s] = {} \/ log[n].chan \in filter[s]

\* consume_one() finds a message and calls back, which builds the frame.
TakeFrame ==
  /\ DispatchAt("wait", "lock")
  /\ cursor < Len(log)
  /\ UNCHANGED <<log, cursor, pending, publisherVars, subscriberVars>>

\* registry.lock(), and the iteration over its entries begins.
LockRegistry ==
  /\ DispatchAt("lock", "fan")
  /\ pending' = registry
  /\ UNCHANGED <<log, cursor, publisherVars, subscriberVars>>

\* A wrong variant: the iteration ends at the first entry.
RestDropped(s) == {}

\* The entries after that of s, in the order of the iteration.
Rest(s) == pending \ {s}

Visit(s) ==
  /\ d_pc = "fan"
  /\ s \in pending
  /\ pending' = Rest(s)
  /\ UNCHANGED <<log, cursor, d_pc, publisherVars, entryVars, in_hand, written, s_pc, client>>

\* An entry whose filter does not name the channel.
SkipSubscriber(s) ==
  /\ Visit(s)
  /\ ~Matches(s, Frame)
  /\ UNCHANGED <<queue, dropped>>

\* A wrong variant: a bound off by one.
HasRoomLate(s) == Len(queue[s]) <= QueueDepth

HasRoom(s) == Len(queue[s]) < QueueDepth

\* try_send() into a queue with room.
Enqueue(s) ==
  /\ Visit(s)
  /\ Matches(s, Frame) /\ HasRoom(s)
  /\ queue' = [queue EXCEPT ![s] = Append(@, Frame)]
  /\ UNCHANGED dropped

\* try_send() into a full queue fails, and this subscriber misses the frame.
DropFrame(s) ==
  /\ Visit(s)
  /\ Matches(s, Frame) /\ ~HasRoom(s)
  /\ dropped' = [dropped EXCEPT ![s] = @ \cup {Frame}]
  /\ UNCHANGED queue

\* The end of the callback drops the guard of the registry.
FanDone ==
  /\ DispatchAt("fan", "store")
  /\ pending = {}
  /\ UNCHANGED <<log, cursor, pending, publisherVars, subscriberVars>>

\* consume_one() moves the cursor: the slot may be written again.
AdvanceCursor ==
  /\ DispatchAt("store", "wait")
  /\ cursor' = cursor + 1
  /\ UNCHANGED <<log, pending, publisherVars, subscriberVars>>

-----------------------------------------------------------------------------
(* Subscriber threads: handle_connection() and run_subscriber_io().          *)

coreVars == <<log, cursor, d_pc, pending, publisherVars>>

\* A wrong variant: the fan-out iterates without the lock.
RegistryUnlocked == TRUE

\* sub_registry.lock() returns when the dispatch thread is not iterating.
RegistryFree == d_pc # "fan"

\* The last frame whose fan-out the entry of s is, or would be, past.
Fanned(s) == IF d_pc = "store" \/ (d_pc = "fan" /\ s \notin pending)
             THEN Frame ELSE cursor

\* The handshake is read: insert the entry into the registry.
Subscribe(s) ==
  /\ Accepting
  /\ SubscriberAt(s, "handshake", "recv")
  /\ RegistryFree
  /\ registry' = registry \cup {s}
  /\ \E F \in Filters : filter' = [filter EXCEPT ![s] = F]
  /\ joined' = [joined EXCEPT ![s] = Fanned(s)]
  /\ UNCHANGED <<coreVars, streamVars, dropped, client>>

\* rx.recv() returns the oldest frame of the queue.
Recv(s) ==
  /\ SubscriberAt(s, "recv", "write")
  /\ queue[s] # <<>>
  /\ in_hand' = [in_hand EXCEPT ![s] = <<Head(queue[s])>>]
  /\ queue' = [queue EXCEPT ![s] = Tail(@)]
  /\ UNCHANGED <<coreVars, entryVars, written, dropped, client>>

\* write_all() returns: the socket took the frame, whoever reads it.
WriteOk(s) ==
  /\ SubscriberAt(s, "write", "recv")
  /\ written' = [written EXCEPT ![s] = @ \o in_hand[s]]
  /\ in_hand' = [in_hand EXCEPT ![s] = <<>>]
  /\ UNCHANGED <<coreVars, entryVars, queue, dropped, client>>

\* write_all() fails: the client has closed the connection.
WriteError(s) ==
  /\ SubscriberAt(s, "write", "remove")
  /\ client[s] = "gone"
  /\ UNCHANGED <<coreVars, entryVars, streamVars, dropped, client>>

\* The entry is removed, then rx is dropped with what is left in the queue.
Remove(s) ==
  /\ SubscriberAt(s, "remove", "gone")
  /\ RegistryFree
  /\ registry' = registry \ {s}
  /\ filter' = [filter EXCEPT ![s] = {}]
  /\ joined' = [joined EXCEPT ![s] = 0]
  /\ dropped' = [dropped EXCEPT ![s] = {}]
  /\ queue' = [queue EXCEPT ![s] = <<>>]
  /\ in_hand' = [in_hand EXCEPT ![s] = <<>>]
  /\ written' = [written EXCEPT ![s] = <<>>]
  /\ UNCHANGED <<coreVars, client>>

\* A client stops reading for good, and its socket fills up, or it disconnects.
ClientChanges(s, from, to) ==
  /\ s_pc[s] # "handshake"
  /\ client[s] \in from
  /\ client' = [client EXCEPT ![s] = to]
  /\ UNCHANGED <<coreVars, entryVars, streamVars, s_pc, dropped>>

ClientStalls(s) == ClientChanges(s, {"reading"}, "stalled")
ClientLeaves(s) == ClientChanges(s, {"reading", "stalled"}, "gone")

-----------------------------------------------------------------------------
Publish(p) == Lock(p) \/ Admit(p) \/ PublishOk(p) \/ PublishSlow(p)

Dispatch ==
  \/ RegisterDispatch \/ TakeFrame \/ LockRegistry \/ FanDone \/ AdvanceCursor
  \/ \E s \in Subscribers : SkipSubscriber(s) \/ Enqueue(s) \/ DropFrame(s)

Write(s) == WriteOk(s) \/ WriteError(s)

Next ==
  \/ Dispatch
  \/ \E p \in Publishers : ReadMessage(p) \/ PublisherLeaves(p) \/ Publish(p)
  \/ \E s \in Subscribers : \/ Subscribe(s) \/ Recv(s) \/ Write(s) \/ Remove(s)
                            \/ ClientStalls(s) \/ ClientLeaves(s)

Spec == Init /\ [][Next]_vars

\* Every thread that can run does, and a write to a socket that is read, or
\* closed, returns.  Clients send, subscribe and leave as they like, and a
\* write to a socket nobody reads may never return.  A mutex is not fair: a
\* thread may be overtaken for as long as others keep taking it.
Fairness ==
  /\ WF_vars(Dispatch)
  /\ \A p \in Publishers : WF_vars(Publish(p))
  /\ \A s \in Subscribers : /\ WF_vars(Recv(s))
                            /\ WF_vars(client[s] # "stalled" /\ Write(s))
                            /\ WF_vars(Remove(s))

FairSpec == Spec /\ Fairness

-----------------------------------------------------------------------------
(* Properties.                                                             *)

TypeOK ==
  /\ log \in Seq(Message)
  /\ cursor \in Nat
  /\ d_pc \in {"start", "wait", "lock", "fan", "store"}
  /\ pending \subseteq Subscribers
  /\ p_pc \in [Publishers -> {"read", "lock", "publish", "commit", "closed"}]
  /\ current \in [Publishers -> {<<>>} \cup {<<m>> : m \in Message}]
  /\ \A p \in Publishers : current[p] = <<>> <=> read[p] = 0
  /\ read \in [Publishers -> 0 .. MaxRead]
  /\ registry \subseteq Subscribers
  /\ filter \in [Subscribers -> SUBSET Channels]
  /\ queue \in [Subscribers -> Seq(Nat)]
  /\ \A s \in Subscribers : Len(queue[s]) <= QueueDepth
  /\ s_pc \in [Subscribers -> {"handshake", "recv", "write", "remove", "gone"}]
  /\ in_hand \in [Subscribers -> Seq(Nat)]
  /\ written \in [Subscribers -> Seq(Nat)]
  /\ client \in [Subscribers -> {"reading", "stalled", "gone"}]
  /\ joined \in [Subscribers -> Nat]
  /\ dropped \in [Subscribers -> SUBSET Nat]

\* What s was sent so far: on its socket, in its thread's hand, in its queue.
Stream(s) == written[s] \o in_hand[s] \o queue[s]

\* Accounting: at every instant the frames a subscriber was sent, and those its
\* full queue missed, are exactly the matching frames from its registration to
\* the last one fanned out to it; none is sent twice, none out of order, none
\* to a subscriber that did not ask for it.  Subscribers register, fall behind
\* and go while the dispatch thread is between two entries, holds a frame, or
\* has released the registry and not moved its cursor yet.
Accounted ==
  \A s \in registry :
    /\ \A i, j \in 1 .. Len(Stream(s)) : i < j => Stream(s)[i] < Stream(s)[j]
    /\ {Stream(s)[i] : i \in 1 .. Len(Stream(s))} \cap dropped[s] = {}
    /\ {Stream(s)[i] : i \in 1 .. Len(Stream(s))} \cup dropped[s]
         = {n \in joined[s] + 1 .. Fanned(s) : filter[s] = {} \/ log[n].chan \in filter[s]}

\* The messages of a publisher enter the log in the order it sent them, each
\* once, none missing before the one that is being published: a refused publish
\* is retried, and neither repeated after it went through nor given up.
Publishing(p) == p_pc[p] \in {"lock", "publish", "commit"}
Numbers(p) == {log[n].num : n \in {k \in 1 .. Len(log) : log[k].src = p}}
Done(p) == IF Publishing(p) THEN read[p] - 1 ELSE read[p]
PublisherFIFO ==
  \A p \in Publishers :
    /\ Numbers(p) = 1 .. Done(p)
    /\ \A i, j \in 1 .. Len(log) :
         i < j /\ log[i].src = p /\ log[j].src = p => log[i].num < log[j].num
    /\ Publishing(p) =>
         \A i \in 1 .. Len(current[p]) : current[p][i].src = p /\ current[p][i].num = read[p]

\* The ring's condition: a slot is not reused before the fan-out of its frame is
\* over.  The check that there is room is made some time before the commit, and
\* only publish_lock keeps other publishers from committing in between.
NoOverrun == cursor <= Len(log) /\ Len(log) - cursor <= RingSize

\* The registry holds the subscribers whose thread still has a receiver, so that
\* a try_send() that fails has met a full queue, never a closed one; and the
\* iteration visits no entry that was removed.
ReceiverPerSender ==
  /\ registry = {s \in Subscribers : s_pc[s] \in {"recv", "write", "remove"}}
  /\ d_pc = "fan" => pending \subseteq registry

\* A message that the bus has read from a publisher is committed in the end,
\* although the ring may be full and its lock contended, and whatever the
\* subscribers do: one that stalls never blocks a publisher.
Committed ==
  \A p \in Publishers, k \in 1 .. MaxRead :
    (read[p] = k /\ Publishing(p))
      ~> (\E n \in 1 .. Len(log) : log[n].src = p /\ log[n].num = k)

\* A committed message reaches the socket of every matching subscriber that was
\* registered before it and keeps reading, or was dropped at its full queue,
\* whatever the other subscribers do.
Delivered ==
  \A s \in Subscribers, n \in 1 .. Cardinality(Publishers) * MaxRead :
    (s \in registry /\ n <= Len(log) /\ joined[s] < n /\ Matches(s, n))
      ~> \/ client[s] # "reading"
         \/ n \in dropped[s]
         \/ \E i \in 1 .. Len(written[s]) : written[s][i] = n

\* What the comment on run_subscriber_io() says: it removes itself from the
\* registry on disconnect.
RemovedOnDisconnect ==
  \A s \in Subscribers : (client[s] = "gone") ~> (s \notin registry)

\* What section 12 of RING_BUFFER_ARCHITECTURE.md says of a slow subscriber: it
\* is evicted, rather than kept with a broken stream.  One that missed a frame
\* is sent none that follows it.
SlowEvicted ==
  \A s \in registry : \A n \in dropped[s] :
    \A i \in 1 .. Len(Stream(s)) : Stream(s)[i] < n
=============================================================================
