----------------------------- MODULE BusProofs -----------------------------
(***************************************************************************)
(* Proofs about Bus for every set of publishers, subscribers, channels and *)
(* filters, every ring size and every depth of the queues: its type        *)
(* invariant, the exclusion of publishers that keeps the ring from being   *)
(* overrun, the pairing of registry entries with receivers, the order of a *)
(* publisher's messages, and the account of every subscriber's frames.     *)
(*                                                                         *)
(* The account of one subscriber is an operator of the values it is made   *)
(* of; first what appending, dropping, skipping and committing do to it,   *)
(* then which of these each step of the bus does to each entry's account.  *)
(***************************************************************************)
EXTENDS Bus, SequenceTheorems, TLAPS

-----------------------------------------------------------------------------
(* What a step of one thread leaves alone.                                 *)

LEMMA PublisherKeeps ==
  ASSUME NEW p \in Publishers, ReadMessage(p) \/ PublisherLeaves(p) \/ Publish(p)
  PROVE  UNCHANGED <<cursor, d_pc, pending, subscriberVars>>
BY DEF ReadMessage, PublisherLeaves, Publish, Lock, Admit, PublishOk, PublishSlow, busVars

LEMMA VisitKeeps ==
  ASSUME NEW s \in Subscribers, SkipSubscriber(s) \/ Enqueue(s) \/ DropFrame(s)
  PROVE  /\ d_pc = "fan" /\ pending' = pending \ {s}
         /\ UNCHANGED <<log, cursor, d_pc, publisherVars, entryVars, in_hand, written, s_pc,
                        client>>
BY DEF SkipSubscriber, Enqueue, DropFrame, Visit, Rest

LEMMA DispatchKeeps ==
  ASSUME Dispatch
  PROVE  UNCHANGED <<log, publisherVars, entryVars, in_hand, written, s_pc, client>>
BY VisitKeeps DEF Dispatch, RegisterDispatch, TakeFrame, LockRegistry, FanDone, AdvanceCursor,
       subscriberVars, streamVars

\* The steps of a subscriber's thread and of its client.
SubscriberStep(s) ==
  \/ Subscribe(s) \/ Recv(s) \/ Write(s) \/ Remove(s)
  \/ ClientStalls(s) \/ ClientLeaves(s)

LEMMA SubscriberKeeps ==
  ASSUME NEW s \in Subscribers, SubscriberStep(s)
  PROVE  UNCHANGED coreVars
BY DEF SubscriberStep, Subscribe, Recv, Write, WriteOk, WriteError, Remove, ClientStalls,
       ClientLeaves, ClientChanges

-----------------------------------------------------------------------------
(* Type correctness.                                                         *)

LEMMA TypeInit == Init => TypeOK
BY BusAssumption DEF Init, TypeOK

LEMMA PublisherType ==
  ASSUME TypeOK, NEW p \in Publishers, ReadMessage(p) \/ PublisherLeaves(p) \/ Publish(p)
  PROVE  TypeOK'
<1> USE BusAssumption DEF PublisherAt
<1>1. /\ cursor' \in Nat
      /\ d_pc' \in {"start", "wait", "lock", "fan", "store"}
      /\ pending' \subseteq Subscribers
      /\ registry' \subseteq Subscribers
      /\ filter' \in [Subscribers -> SUBSET Channels]
      /\ queue' \in [Subscribers -> Seq(Nat)]
      /\ \A s \in Subscribers : Len(queue'[s]) <= QueueDepth
      /\ s_pc' \in [Subscribers -> {"handshake", "recv", "write", "remove", "gone"}]
      /\ in_hand' \in [Subscribers -> Seq(Nat)]
      /\ written' \in [Subscribers -> Seq(Nat)]
      /\ client' \in [Subscribers -> {"reading", "stalled", "gone"}]
      /\ joined' \in [Subscribers -> Nat]
      /\ dropped' \in [Subscribers -> SUBSET Nat]
  BY PublisherKeeps DEF TypeOK, subscriberVars, entryVars, streamVars
<1>2. p_pc' \in [Publishers -> {"read", "lock", "publish", "commit", "closed"}]
  BY DEF TypeOK, ReadMessage, PublisherLeaves, Publish, Lock, Admit, PublishOk, PublishSlow, Retry
<1>3. /\ log' \in Seq(Message)
      /\ read' \in [Publishers -> 0 .. MaxRead]
      /\ current' \in [Publishers -> {<<>>} \cup {<<m>> : m \in Message}]
      /\ \A q \in Publishers : current'[q] = <<>> <=> read'[q] = 0
  <2>1. CASE ReadMessage(p)
    <3>1. read[p] \in 0 .. MaxRead /\ read[p] < MaxRead
      BY <2>1 DEF ReadMessage, TypeOK
    <3>2. PICK ch \in Channels : LET m == [src |-> p, num |-> read[p] + 1, chan |-> ch]
                                IN  current' = [current EXCEPT ![p] = <<m>>]
      BY <2>1 DEF ReadMessage
    <3>3. [src |-> p, num |-> read[p] + 1, chan |-> ch] \in Message
      BY <3>1 DEF Message
    <3>4. read' = [read EXCEPT ![p] = read[p] + 1] /\ log' = log
      BY <2>1 DEF ReadMessage, busVars
    <3> QED
      BY <3>1, <3>2, <3>3, <3>4 DEF TypeOK
  <2>2. CASE PublishOk(p)
    <3>1. current[p] \in {<<>>} \cup {<<m>> : m \in Message}
      BY DEF TypeOK
    <3>3. current[p] \in Seq(Message)
      <4>1. CASE current[p] = <<>>
        BY <4>1
      <4>2. CASE current[p] # <<>>
        <5>1. PICK m \in Message : current[p] = <<m>>
          BY <3>1, <4>2
        <5> QED
          BY <5>1
      <4> QED
        BY <4>1, <4>2
    <3>2. log' \in Seq(Message)
      BY <2>2, <3>3 DEF TypeOK, PublishOk
    <3> QED
      BY <2>2, <3>2 DEF TypeOK, PublishOk
  <2>3. CASE PublisherLeaves(p) \/ Lock(p) \/ Admit(p) \/ PublishSlow(p)
    BY <2>3 DEF TypeOK, PublisherLeaves, Lock, Admit, PublishSlow, busVars
  <2> QED
    BY <2>1, <2>2, <2>3 DEF Publish
<1> QED
  BY <1>1, <1>2, <1>3 DEF TypeOK, publisherVars

LEMMA DispatchType ==
  ASSUME TypeOK, Dispatch
  PROVE  TypeOK'
<1> USE BusAssumption DEF DispatchAt
<1>1. /\ log' \in Seq(Message)
      /\ p_pc' \in [Publishers -> {"read", "lock", "publish", "commit", "closed"}]
      /\ current' \in [Publishers -> {<<>>} \cup {<<m>> : m \in Message}]
      /\ \A p \in Publishers : current'[p] = <<>> <=> read'[p] = 0
      /\ read' \in [Publishers -> 0 .. MaxRead]
      /\ registry' \subseteq Subscribers
      /\ filter' \in [Subscribers -> SUBSET Channels]
      /\ s_pc' \in [Subscribers -> {"handshake", "recv", "write", "remove", "gone"}]
      /\ in_hand' \in [Subscribers -> Seq(Nat)]
      /\ written' \in [Subscribers -> Seq(Nat)]
      /\ client' \in [Subscribers -> {"reading", "stalled", "gone"}]
      /\ joined' \in [Subscribers -> Nat]
  BY DispatchKeeps DEF TypeOK, publisherVars, entryVars
<1>2. /\ cursor' \in Nat
      /\ d_pc' \in {"start", "wait", "lock", "fan", "store"}
      /\ pending' \subseteq Subscribers
  <2>1. CASE \E s \in Subscribers : SkipSubscriber(s) \/ Enqueue(s) \/ DropFrame(s)
    BY <2>1, VisitKeeps DEF TypeOK
  <2>2. CASE RegisterDispatch \/ TakeFrame \/ LockRegistry \/ FanDone \/ AdvanceCursor
    <3>1. Len(log) \in Nat
      BY DEF TypeOK
    <3>2. /\ cursor \in Nat /\ pending \subseteq Subscribers /\ registry \subseteq Subscribers
      BY DEF TypeOK
    <3> QED
      BY <2>2, <3>1, <3>2
      DEF RegisterDispatch, TakeFrame, LockRegistry, FanDone, AdvanceCursor
  <2> QED
    BY <2>1, <2>2 DEF Dispatch
<1>3. /\ queue' \in [Subscribers -> Seq(Nat)]
      /\ \A s \in Subscribers : Len(queue'[s]) <= QueueDepth
      /\ dropped' \in [Subscribers -> SUBSET Nat]
  <2> USE DEF TypeOK
  <2>1. Frame \in Nat
    BY DEF Frame
  <2>2. ASSUME NEW s \in Subscribers, Enqueue(s)
        PROVE  /\ queue' \in [Subscribers -> Seq(Nat)]
               /\ \A r \in Subscribers : Len(queue'[r]) <= QueueDepth
               /\ dropped' \in [Subscribers -> SUBSET Nat]
    <3>1. /\ queue' = [queue EXCEPT ![s] = Append(queue[s], Frame)]
          /\ dropped' = dropped
          /\ Len(queue[s]) < QueueDepth
      BY <2>2 DEF Enqueue, HasRoom
    <3>2. /\ Append(queue[s], Frame) \in Seq(Nat)
          /\ Len(Append(queue[s], Frame)) = Len(queue[s]) + 1
          /\ Len(queue[s]) \in Nat
      BY <2>1
    <3> QED
      BY <3>1, <3>2
  <2>3. ASSUME NEW s \in Subscribers, SkipSubscriber(s) \/ DropFrame(s)
        PROVE  /\ queue' \in [Subscribers -> Seq(Nat)]
               /\ \A r \in Subscribers : Len(queue'[r]) <= QueueDepth
               /\ dropped' \in [Subscribers -> SUBSET Nat]
    <3>1. queue' = queue
      BY <2>3 DEF SkipSubscriber, DropFrame
    <3>2. \/ dropped' = dropped
          \/ dropped' = [dropped EXCEPT ![s] = dropped[s] \cup {Frame}]
      BY <2>3 DEF SkipSubscriber, DropFrame
    <3>3. dropped' \in [Subscribers -> SUBSET Nat]
      <4>1. dropped \in [Subscribers -> SUBSET Nat]
        OBVIOUS
      <4>2. dropped[s] \cup {Frame} \in SUBSET Nat
        BY <2>1, <4>1
      <4> QED
        BY ONLY <3>2, <4>1, <4>2, s \in Subscribers
    <3> QED
      BY <3>1, <3>3
  <2>4. CASE RegisterDispatch \/ TakeFrame \/ LockRegistry \/ FanDone \/ AdvanceCursor
    BY <2>4 DEF RegisterDispatch, TakeFrame, LockRegistry, FanDone, AdvanceCursor,
           subscriberVars, streamVars
  <2> QED
    BY <2>2, <2>3, <2>4 DEF Dispatch
<1> QED
  BY <1>1, <1>2, <1>3 DEF TypeOK

LEMMA SubscriberType ==
  ASSUME TypeOK, NEW s \in Subscribers, SubscriberStep(s)
  PROVE  TypeOK'
<1> USE BusAssumption DEF SubscriberAt
<1>1. /\ log' \in Seq(Message)
      /\ cursor' \in Nat
      /\ d_pc' \in {"start", "wait", "lock", "fan", "store"}
      /\ pending' \subseteq Subscribers
      /\ p_pc' \in [Publishers -> {"read", "lock", "publish", "commit", "closed"}]
      /\ current' \in [Publishers -> {<<>>} \cup {<<m>> : m \in Message}]
      /\ \A p \in Publishers : current'[p] = <<>> <=> read'[p] = 0
      /\ read' \in [Publishers -> 0 .. MaxRead]
  BY SubscriberKeeps DEF TypeOK, coreVars, publisherVars
<1>2. /\ registry' \subseteq Subscribers
      /\ filter' \in [Subscribers -> SUBSET Channels]
      /\ s_pc' \in [Subscribers -> {"handshake", "recv", "write", "remove", "gone"}]
      /\ client' \in [Subscribers -> {"reading", "stalled", "gone"}]
      /\ joined' \in [Subscribers -> Nat]
      /\ dropped' \in [Subscribers -> SUBSET Nat]
  <2>1. Fanned(s) \in Nat
    BY DEF Fanned, Frame, TypeOK
  <2>2. CASE Subscribe(s)
    BY <2>1, <2>2 DEF Subscribe, TypeOK
  <2>3. CASE Recv(s) \/ Write(s)
    BY <2>3 DEF Recv, Write, WriteOk, WriteError, entryVars, TypeOK
  <2>4. CASE Remove(s)
    BY <2>4 DEF Remove, TypeOK
  <2>5. CASE ClientStalls(s) \/ ClientLeaves(s)
    BY <2>5 DEF ClientStalls, ClientLeaves, ClientChanges, entryVars, TypeOK
  <2> QED
    BY <2>2, <2>3, <2>4, <2>5 DEF SubscriberStep
<1>3. /\ queue' \in [Subscribers -> Seq(Nat)]
      /\ \A r \in Subscribers : Len(queue'[r]) <= QueueDepth
      /\ in_hand' \in [Subscribers -> Seq(Nat)]
      /\ written' \in [Subscribers -> Seq(Nat)]
  <2> USE DEF TypeOK
  <2>1. CASE Recv(s)
    <3>1. /\ queue[s] \in Seq(Nat) /\ queue[s] # <<>>
          /\ queue' = [queue EXCEPT ![s] = Tail(queue[s])]
          /\ in_hand' = [in_hand EXCEPT ![s] = <<Head(queue[s])>>]
          /\ written' = written
      BY <2>1 DEF Recv
    <3>2. /\ Tail(queue[s]) \in Seq(Nat) /\ Len(Tail(queue[s])) <= Len(queue[s])
          /\ Head(queue[s]) \in Nat
      BY <3>1
    <3>3. Len(Tail(queue[s])) <= QueueDepth
      BY <3>1, <3>2
    <3>4. <<Head(queue[s])>> \in Seq(Nat)
      BY <3>2
    <3> QED
      BY <3>1, <3>2, <3>3, <3>4
  <2>2. CASE WriteOk(s)
    <3>1. written[s] \o in_hand[s] \in Seq(Nat)
      OBVIOUS
    <3> QED
      BY <2>2, <3>1 DEF WriteOk
  <2>3. CASE Remove(s)
    BY <2>3 DEF Remove
  <2>4. CASE Subscribe(s) \/ WriteError(s) \/ ClientStalls(s) \/ ClientLeaves(s)
    BY <2>4 DEF Subscribe, WriteError, ClientStalls, ClientLeaves, ClientChanges, streamVars
  <2> QED
    BY <2>1, <2>2, <2>3, <2>4 DEF SubscriberStep, Write
<1> QED
  BY <1>1, <1>2, <1>3 DEF TypeOK

LEMMA NextSplit ==
  ASSUME Next
  PROVE  \/ Dispatch
         \/ \E p \in Publishers : ReadMessage(p) \/ PublisherLeaves(p) \/ Publish(p)
         \/ \E s \in Subscribers : SubscriberStep(s)
BY DEF Next, SubscriberStep

LEMMA TypeStutter ==
  ASSUME TypeOK, UNCHANGED vars
  PROVE  TypeOK'
BY DEF TypeOK, vars, publisherVars, subscriberVars, entryVars, streamVars

\* Every variable keeps its type; in particular no queue of a subscriber ever
\* grows beyond its bound, whatever the dispatch thread and the subscriber's
\* thread do to it.
THEOREM TypeCorrect == Spec => []TypeOK
<1>1. Init => TypeOK
  BY TypeInit
<1>2. TypeOK /\ [Next]_vars => TypeOK'
  BY NextSplit, DispatchType, PublisherType, SubscriberType, TypeStutter
<1> QED
  BY <1>1, <1>2, PTL DEF Spec

-----------------------------------------------------------------------------
(* The ring is never overrun.  The check that there is room and the commit  *)
(* are two steps, so the condition needs what holds in between: at most one *)
(* publisher is there, and the room it found has not gone.                  *)

InRing(p) == p_pc[p] \in {"publish", "commit"}

Exclusive == \A p, q \in Publishers : InRing(p) /\ InRing(q) => p = q

RoomKept == \A p \in Publishers : p_pc[p] = "commit" => Len(log) - cursor < RingSize

FrameHeld == d_pc \in {"lock", "fan", "store"} => cursor < Len(log)

LogInv == TypeOK /\ NoOverrun /\ Exclusive /\ RoomKept /\ FrameHeld

LEMMA LogInit == Init => LogInv
BY TypeInit, BusAssumption DEF Init, LogInv, NoOverrun, Exclusive, RoomKept, FrameHeld, InRing

LEMMA LogDispatch ==
  ASSUME LogInv, Dispatch
  PROVE  (NoOverrun /\ Exclusive /\ RoomKept /\ FrameHeld)'
<1>1. log' = log /\ p_pc' = p_pc
  BY DispatchKeeps DEF publisherVars
<1>2. /\ Len(log) \in Nat /\ cursor \in Nat
      /\ p_pc \in [Publishers -> {"read", "lock", "publish", "commit", "closed"}]
  BY DEF LogInv, TypeOK
<1>3. \/ cursor' = cursor /\ (d_pc' \in {"lock", "fan", "store"} => cursor < Len(log))
      \/ cursor' = Len(log) /\ d_pc' = "wait"
      \/ cursor' = cursor + 1 /\ cursor < Len(log) /\ d_pc' = "wait"
  <2>1. CASE \E s \in Subscribers : SkipSubscriber(s) \/ Enqueue(s) \/ DropFrame(s)
    BY <2>1, VisitKeeps DEF LogInv, FrameHeld
  <2>2. CASE RegisterDispatch \/ TakeFrame \/ LockRegistry \/ FanDone \/ AdvanceCursor
    BY <2>2 DEF RegisterDispatch, TakeFrame, LockRegistry, FanDone, AdvanceCursor, DispatchAt,
           LogInv, FrameHeld
  <2> QED
    BY <2>1, <2>2 DEF Dispatch
<1> QED
  BY <1>1, <1>2, <1>3, BusAssumption
  DEF LogInv, NoOverrun, Exclusive, RoomKept, FrameHeld, InRing

LEMMA LogPublisher ==
  ASSUME LogInv, NEW p \in Publishers, ReadMessage(p) \/ PublisherLeaves(p) \/ Publish(p)
  PROVE  (NoOverrun /\ Exclusive /\ RoomKept /\ FrameHeld)'
<1>1. cursor' = cursor /\ d_pc' = d_pc
  BY PublisherKeeps
<1>2. /\ Len(log) \in Nat /\ cursor \in Nat
      /\ p_pc \in [Publishers -> {"read", "lock", "publish", "commit", "closed"}]
  BY DEF LogInv, TypeOK
<1>3. CASE PublishOk(p)
  <2>1. Len(log') \in Nat /\ Len(log) <= Len(log') /\ Len(log') <= Len(log) + 1
    <3>1. log' = log \o current[p] /\ log \in Seq(Message)
      BY <1>3 DEF PublishOk, LogInv, TypeOK
    <3>2. current[p] \in {<<>>} \cup {<<m>> : m \in Message}
      BY DEF LogInv, TypeOK
    <3>3. CASE current[p] = <<>>
      BY <3>1, <3>3
    <3>4. CASE current[p] # <<>>
      <4>1. PICK m \in Message : current[p] = <<m>>
        BY <3>2, <3>4
      <4>2. Len(log \o <<m>>) = Len(log) + 1
        BY <3>1
      <4> QED
        BY <1>2, <3>1, <4>1, <4>2
    <3> QED
      BY <3>3, <3>4
  <2>2. p_pc[p] = "commit" /\ p_pc' = [p_pc EXCEPT ![p] = "read"]
    BY <1>3 DEF PublishOk, PublisherAt
  <2>3. \A q \in Publishers : ~InRing(q)'
    BY <1>2, <2>2 DEF LogInv, Exclusive, InRing
  <2> QED
    BY <1>1, <1>2, <2>1, <2>2, <2>3, BusAssumption
    DEF LogInv, NoOverrun, Exclusive, RoomKept, FrameHeld, InRing
<1>4. CASE ReadMessage(p) \/ PublisherLeaves(p) \/ Lock(p) \/ Admit(p) \/ PublishSlow(p)
  <2>1. log' = log
    BY <1>4 DEF ReadMessage, PublisherLeaves, Lock, Admit, PublishSlow, busVars
  <2>2. NoOverrun' /\ FrameHeld'
    BY <1>1, <2>1 DEF LogInv, NoOverrun, FrameHeld
  <2>3. Exclusive'
    BY <1>2, <1>4 DEF LogInv, Exclusive, InRing, PublisherAt, ReadMessage, PublisherLeaves, Lock,
           LockFree, Admit, PublishSlow, Retry
  <2>4. RoomKept'
    BY <1>1, <1>2, <1>4, <2>1, BusAssumption
    DEF LogInv, RoomKept, PublisherAt, ReadMessage, PublisherLeaves, Lock, Admit, RingFull,
        PublishSlow, Retry
  <2> QED
    BY <2>2, <2>3, <2>4
<1> QED
  BY <1>3, <1>4 DEF Publish

\* A step that leaves the ring, the dispatch thread and the publishers alone.
LEMMA LogFrame ==
  ASSUME LogInv, UNCHANGED coreVars
  PROVE  (NoOverrun /\ Exclusive /\ RoomKept /\ FrameHeld)'
BY DEF LogInv, NoOverrun, Exclusive, RoomKept, FrameHeld, InRing, coreVars, publisherVars

\* The ring is within its bounds, its publishers exclude one another, and the
\* frame the dispatch thread holds is in it.
LEMMA LogInvariant == Spec => []LogInv
<1>1. Init => LogInv
  BY LogInit
<1>2. LogInv /\ [Next]_vars => LogInv'
  <2> SUFFICES ASSUME LogInv, [Next]_vars PROVE LogInv'
    OBVIOUS
  <2>1. TypeOK'
    BY NextSplit, DispatchType, PublisherType, SubscriberType, TypeStutter DEF LogInv
  <2>2. (NoOverrun /\ Exclusive /\ RoomKept /\ FrameHeld)'
    <3>1. CASE Dispatch
      BY <3>1, LogDispatch
    <3>2. CASE \E p \in Publishers : ReadMessage(p) \/ PublisherLeaves(p) \/ Publish(p)
      BY <3>2, LogPublisher
    <3>3. CASE \E s \in Subscribers : SubscriberStep(s)
      BY <3>3, SubscriberKeeps, LogFrame
    <3>4. CASE UNCHANGED vars
      <4>1. UNCHANGED coreVars
        BY <3>4 DEF vars, coreVars
      <4> QED
        BY <4>1, LogFrame
    <3> QED
      BY <3>1, <3>2, <3>3, <3>4, NextSplit
  <2> QED
    BY <2>1, <2>2 DEF LogInv
<1> QED
  BY <1>1, <1>2, PTL DEF Spec

\* The publishers never overrun the dispatch thread: no slot of the ring is
\* written again before the fan-out of its frame is over, although the check
\* that there is room and the commit are two steps of a publisher.
THEOREM NeverOverrun == Spec => []NoOverrun
<1>1. LogInv => NoOverrun
  BY DEF LogInv
<1> QED
  BY <1>1, LogInvariant, PTL

-----------------------------------------------------------------------------
(* Registry entries and receivers.                                          *)

LEMMA ReceiverInit == Init => ReceiverPerSender
BY DEF Init, ReceiverPerSender

LEMMA ReceiverStep ==
  ASSUME TypeOK, ReceiverPerSender, [Next]_vars
  PROVE  ReceiverPerSender'
<1>1. s_pc \in [Subscribers -> {"handshake", "recv", "write", "remove", "gone"}]
  BY DEF TypeOK
<1>2. CASE Dispatch
  <2>1. registry' = registry /\ s_pc' = s_pc
    BY <1>2, DispatchKeeps DEF entryVars
  <2>2. d_pc' = "fan" => pending' \subseteq registry
    <3>1. CASE \E s \in Subscribers : SkipSubscriber(s) \/ Enqueue(s) \/ DropFrame(s)
      BY <3>1, VisitKeeps DEF ReceiverPerSender
    <3>2. CASE RegisterDispatch \/ TakeFrame \/ LockRegistry \/ FanDone \/ AdvanceCursor
      BY <3>2
      DEF RegisterDispatch, TakeFrame, LockRegistry, FanDone, AdvanceCursor, DispatchAt
    <3> QED
      BY <1>2, <3>1, <3>2 DEF Dispatch
  <2> QED
    BY <2>1, <2>2 DEF ReceiverPerSender
<1>3. CASE \E p \in Publishers : ReadMessage(p) \/ PublisherLeaves(p) \/ Publish(p)
  BY <1>3, PublisherKeeps DEF ReceiverPerSender, subscriberVars, entryVars
<1>4. ASSUME NEW s \in Subscribers, SubscriberStep(s)
      PROVE  ReceiverPerSender'
  <2>1. d_pc' = d_pc /\ pending' = pending
    BY <1>4, SubscriberKeeps DEF coreVars
  <2>2. CASE Subscribe(s)
    BY <1>1, <2>1, <2>2 DEF Subscribe, SubscriberAt, RegistryFree, ReceiverPerSender
  <2>3. CASE Remove(s)
    BY <1>1, <2>1, <2>3 DEF Remove, SubscriberAt, RegistryFree, ReceiverPerSender
  <2>4. CASE Recv(s) \/ Write(s)
    <3>1. /\ s_pc[s] \in {"recv", "write"}
          /\ \E to \in {"recv", "write", "remove"} : s_pc' = [s_pc EXCEPT ![s] = to]
          /\ registry' = registry
      BY <2>4 DEF Recv, Write, WriteOk, WriteError, SubscriberAt, entryVars
    <3> QED
      BY <1>1, <2>1, <3>1 DEF ReceiverPerSender
  <2>5. CASE ClientStalls(s) \/ ClientLeaves(s)
    BY <2>1, <2>5 DEF ClientStalls, ClientLeaves, ClientChanges, entryVars, ReceiverPerSender
  <2> QED
    BY <1>4, <2>2, <2>3, <2>4, <2>5 DEF SubscriberStep
<1>5. CASE UNCHANGED vars
  BY <1>5 DEF vars, subscriberVars, entryVars, ReceiverPerSender
<1> QED
  BY <1>2, <1>3, <1>4, <1>5, NextSplit

\* An entry of the registry always has its receiver, so a frame that the
\* dispatch thread cannot enqueue has met a full queue and no closed one, and
\* the iteration visits no entry that was removed under it.
THEOREM EntriesHaveReceivers == Spec => []ReceiverPerSender
<1>1. Init => TypeOK /\ ReceiverPerSender
  BY TypeInit, ReceiverInit
<1>2. TypeOK /\ ReceiverPerSender /\ [Next]_vars => ReceiverPerSender'
  BY ReceiverStep
<1> QED
  BY <1>1, <1>2, TypeCorrect, PTL DEF Spec

-----------------------------------------------------------------------------
(* The messages of one publisher.                                            *)

\* What PublisherFIFO says of the log: it holds the messages 1 to k of p, in this order.
InOrder(l, p, k) ==
  /\ {l[n].num : n \in {i \in 1 .. Len(l) : l[i].src = p}} = 1 .. k
  /\ \A i, j \in 1 .. Len(l) : i < j /\ l[i].src = p /\ l[j].src = p => l[i].num < l[j].num

Holds(p) ==
  Publishing(p) =>
    \A i \in 1 .. Len(current[p]) : current[p][i].src = p /\ current[p][i].num = read[p]

LEMMA FIFOParts ==
  /\ PublisherFIFO <=> \A p \in Publishers : InOrder(log, p, Done(p)) /\ Holds(p)
  /\ PublisherFIFO' <=> \A p \in Publishers : InOrder(log', p, Done(p)') /\ Holds(p)'
<1>1. PublisherFIFO <=> \A p \in Publishers : InOrder(log, p, Done(p)) /\ Holds(p)
  BY DEF PublisherFIFO, InOrder, Holds, Numbers
<1>2. PublisherFIFO' <=> \A p \in Publishers : InOrder(log', p, Done(p)') /\ Holds(p)'
  BY DEF PublisherFIFO, InOrder, Holds, Numbers
<1> QED
  BY <1>1, <1>2

LEMMA LogGrows ==
  ASSUME NEW l \in Seq(Message), NEW m \in Message
  PROVE  /\ Len(l) \in Nat /\ Len(l \o <<m>>) = Len(l) + 1
         /\ \A i \in 1 .. Len(l) : (l \o <<m>>)[i] = l[i]
         /\ (l \o <<m>>)[Len(l) + 1] = m
OBVIOUS

\* The next message of its publisher ...
LEMMA OwnCommit ==
  ASSUME NEW l \in Seq(Message), NEW m \in Message, NEW k \in Nat, m.num = k + 1,
         InOrder(l, m.src, k)
  PROVE  InOrder(l \o <<m>>, m.src, k + 1)
<1> DEFINE t == l \o <<m>>
           p == m.src
           Mine(s) == {i \in 1 .. Len(s) : s[i].src = p}
<1>1. /\ Len(l) \in Nat /\ Len(t) = Len(l) + 1 /\ t[Len(l) + 1] = m
      /\ \A i \in 1 .. Len(l) : t[i] = l[i]
  BY LogGrows
<1>2. {l[n].num : n \in Mine(l)} = 1 .. k
  BY DEF InOrder
<1> HIDE DEF t
<1>3. Mine(t) = Mine(l) \cup {Len(l) + 1}
  BY <1>1
<1>4. {t[n].num : n \in Mine(t)} = {l[n].num : n \in Mine(l)} \cup {k + 1}
  BY <1>1, <1>3
<1>5. {t[n].num : n \in Mine(t)} = 1 .. k + 1
  <2>1. (1 .. k) \cup {k + 1} = 1 .. k + 1
    OBVIOUS
  <2> HIDE DEF Mine
  <2> QED
    BY <1>2, <1>4, <2>1
<1>6. ASSUME NEW i \in 1 .. Len(t), NEW j \in 1 .. Len(t), i < j, t[i].src = p, t[j].src = p
      PROVE  t[i].num < t[j].num
  <2>1. i \in 1 .. Len(l) /\ t[i] = l[i]
    BY <1>1, <1>6
  <2>2. CASE j = Len(l) + 1
    <3>1. l[i].num \in 1 .. k
      BY <1>2, <1>6, <2>1
    <3> QED
      BY <1>1, <2>1, <2>2, <3>1
  <2>3. CASE j \in 1 .. Len(l)
    <3>1. t[j] = l[j]
      BY <1>1, <2>3
    <3> QED
      BY <1>6, <2>1, <2>3, <3>1 DEF InOrder
  <2> QED
    BY <1>1, <2>2, <2>3
<1>7. InOrder(t, p, k + 1)
  BY <1>5, <1>6 DEF InOrder
<1> QED
  BY <1>7 DEF t

\* ... and a message of another one.
LEMMA OtherCommit ==
  ASSUME NEW l \in Seq(Message), NEW m \in Message, NEW k, NEW p, p # m.src, InOrder(l, p, k)
  PROVE  InOrder(l \o <<m>>, p, k)
<1> DEFINE t == l \o <<m>>
           Mine(s) == {i \in 1 .. Len(s) : s[i].src = p}
<1>1. /\ Len(l) \in Nat /\ Len(t) = Len(l) + 1 /\ t[Len(l) + 1] = m
      /\ \A i \in 1 .. Len(l) : t[i] = l[i]
  BY LogGrows
<1> HIDE DEF t
<1>2. Mine(t) = Mine(l)
  BY <1>1
<1>3. {t[n].num : n \in Mine(t)} = {l[n].num : n \in Mine(l)}
  BY <1>1, <1>2
<1>4. ASSUME NEW i \in 1 .. Len(t), NEW j \in 1 .. Len(t), i < j, t[i].src = p, t[j].src = p
      PROVE  t[i].num < t[j].num
  <2>1. i \in 1 .. Len(l) /\ j \in 1 .. Len(l)
    BY <1>1, <1>4
  <2> QED
    BY <1>1, <1>4, <2>1 DEF InOrder
<1>5. InOrder(t, p, k)
  BY <1>3, <1>4 DEF InOrder
<1> QED
  BY <1>5 DEF t

\* A publisher that is publishing has the message it read last, which is not yet in the log.
LEMMA HeldMessage ==
  ASSUME TypeOK, NEW p \in Publishers, Holds(p), Publishing(p), Done(p) \in Nat
  PROVE  \E m \in Message : /\ current[p] = <<m>> /\ m.src = p
                            /\ m.num = Done(p) + 1 /\ read[p] = Done(p) + 1
<1>1. read[p] \in Nat /\ Done(p) = read[p] - 1
  BY DEF TypeOK, Done
<1>2. current[p] # <<>>
  BY <1>1 DEF TypeOK
<1>3. PICK m \in Message : current[p] = <<m>>
  BY <1>2 DEF TypeOK
<1>4. m.src = p /\ m.num = read[p]
  BY <1>3 DEF Holds
<1> QED
  BY <1>1, <1>3, <1>4

LEMMA FIFOInit == Init => PublisherFIFO
<1> SUFFICES ASSUME Init PROVE PublisherFIFO
  OBVIOUS
<1>1. \A p \in Publishers : Done(p) = 0
  BY DEF Init, Done, Publishing
<1> QED
  BY <1>1 DEF Init, PublisherFIFO, Numbers, Publishing

LEMMA FIFOPublisher ==
  ASSUME TypeOK, PublisherFIFO, \A q \in Publishers : Done(q) \in Nat,
         NEW p \in Publishers, ReadMessage(p) \/ PublisherLeaves(p) \/ Publish(p)
  PROVE  PublisherFIFO'
<1>1. /\ p_pc \in [Publishers -> {"read", "lock", "publish", "commit", "closed"}]
      /\ current \in [Publishers -> {<<>>} \cup {<<m>> : m \in Message}]
      /\ read \in [Publishers -> 0 .. MaxRead] /\ log \in Seq(Message)
  BY DEF TypeOK
<1>2. \A q \in Publishers : InOrder(log, q, Done(q)) /\ Holds(q)
  BY FIFOParts
<1>3. CASE ReadMessage(p)
  <2>1. /\ p_pc[p] = "read" /\ p_pc' = [p_pc EXCEPT ![p] = "lock"] /\ log' = log
        /\ read' = [read EXCEPT ![p] = read[p] + 1]
    BY <1>3 DEF ReadMessage, PublisherAt, busVars
  <2>2. PICK ch \in Channels : LET m == [src |-> p, num |-> read[p] + 1, chan |-> ch]
                              IN  current' = [current EXCEPT ![p] = <<m>>]
    BY <1>3 DEF ReadMessage
  <2>3. ASSUME NEW q \in Publishers PROVE Done(q)' = Done(q)
    <3>1. CASE q = p
      BY <1>1, <2>1, <3>1 DEF Done, Publishing
    <3>2. CASE q # p
      BY <1>1, <2>1, <3>2 DEF Done, Publishing
    <3> QED
      BY <3>1, <3>2
  <2>4. ASSUME NEW q \in Publishers PROVE Holds(q)'
    <3>1. CASE q = p
      <4>1. /\ current'[p] = <<[src |-> p, num |-> read[p] + 1, chan |-> ch]>>
            /\ read'[p] = read[p] + 1
        BY <1>1, <2>1, <2>2
      <4> QED
        BY <3>1, <4>1 DEF Holds
    <3>2. CASE q # p
      BY <1>1, <1>2, <2>1, <2>2, <3>2 DEF Holds, Publishing
    <3> QED
      BY <3>1, <3>2
  <2> QED
    BY <1>2, <2>1, <2>3, <2>4, FIFOParts
<1>4. CASE PublishOk(p)
  <2>1. /\ p_pc[p] = "commit" /\ p_pc' = [p_pc EXCEPT ![p] = "read"]
        /\ UNCHANGED <<read, current>> /\ log' = log \o current[p]
    BY <1>4 DEF PublishOk, PublisherAt
  <2>2. PICK m \in Message : /\ current[p] = <<m>> /\ m.src = p
                            /\ m.num = Done(p) + 1 /\ read[p] = Done(p) + 1
    BY <1>2, <2>1, HeldMessage DEF Publishing
  <2>3. log' = log \o <<m>>
    BY <2>1, <2>2
  <2>4. Done(p)' = Done(p) + 1
    BY <1>1, <2>1, <2>2 DEF Done, Publishing
  <2>5. InOrder(log', p, Done(p)')
    <3>1. InOrder(log \o <<m>>, m.src, Done(p) + 1)
      BY <1>1, <1>2, <2>2, OwnCommit
    <3> QED
      BY <2>2, <2>3, <2>4, <3>1
  <2>6. ASSUME NEW q \in Publishers, q # p PROVE InOrder(log', q, Done(q)')
    <3>1. Done(q)' = Done(q)
      BY <1>1, <2>1, <2>6 DEF Done, Publishing
    <3>2. InOrder(log \o <<m>>, q, Done(q))
      BY <1>1, <1>2, <2>2, <2>6, OtherCommit
    <3> QED
      BY <2>3, <3>1, <3>2
  <2>7. \A q \in Publishers : Holds(q)'
    BY <1>1, <1>2, <2>1 DEF Holds, Publishing
  <2>8. \A q \in Publishers : InOrder(log', q, Done(q)')
    BY <2>5, <2>6
  <2> QED
    BY <2>7, <2>8, FIFOParts
<1>5. CASE PublisherLeaves(p) \/ Lock(p) \/ Admit(p) \/ PublishSlow(p)
  <2>1. /\ \/ p_pc[p] = "read" /\ p_pc' = [p_pc EXCEPT ![p] = "closed"]
           \/ /\ p_pc[p] \in {"lock", "publish"}
              /\ \E to \in {"lock", "publish", "commit"} : p_pc' = [p_pc EXCEPT ![p] = to]
        /\ UNCHANGED <<log, read, current>>
    BY <1>5 DEF PublisherLeaves, Lock, Admit, PublishSlow, Retry, PublisherAt, busVars
  <2>2. \A q \in Publishers : Publishing(q)' = Publishing(q)
    BY <1>1, <2>1 DEF Publishing
  <2>3. \A q \in Publishers : Done(q)' = Done(q) /\ Holds(q)'
    BY <1>2, <2>1, <2>2 DEF Done, Holds
  <2> QED
    BY <1>2, <2>1, <2>3, FIFOParts
<1> QED
  BY <1>3, <1>4, <1>5 DEF Publish

\* A step that leaves the log and the publishers alone.
LEMMA FIFOFrame ==
  ASSUME PublisherFIFO, UNCHANGED <<log, publisherVars>>
  PROVE  PublisherFIFO'
BY DEF PublisherFIFO, Numbers, Done, Publishing, publisherVars

\* A number of messages is never negative: a publisher that publishes has read one.
ReadBefore == \A p \in Publishers : Publishing(p) => read[p] # 0

LEMMA ReadBeforeStep == TypeOK /\ ReadBefore /\ [Next]_vars => ReadBefore'
<1> SUFFICES ASSUME TypeOK, ReadBefore, [Next]_vars PROVE ReadBefore'
  OBVIOUS
<1>1. /\ p_pc \in [Publishers -> {"read", "lock", "publish", "commit", "closed"}]
      /\ read \in [Publishers -> 0 .. MaxRead]
  BY DEF TypeOK
<1>2. ASSUME NEW p \in Publishers, ReadMessage(p) PROVE ReadBefore'
  BY <1>1, <1>2 DEF ReadMessage, PublisherAt, ReadBefore, Publishing
<1>3. ASSUME NEW p \in Publishers, PublisherLeaves(p) \/ Publish(p) PROVE ReadBefore'
  BY <1>1, <1>3 DEF PublisherLeaves, Publish, Lock, Admit, PublishOk, PublishSlow, Retry,
                    PublisherAt, ReadBefore, Publishing
<1>4. CASE UNCHANGED publisherVars
  BY <1>4 DEF publisherVars, ReadBefore, Publishing
<1>5. Dispatch \/ (\E s \in Subscribers : SubscriberStep(s)) \/ UNCHANGED vars
        => UNCHANGED publisherVars
  BY DispatchKeeps, SubscriberKeeps DEF coreVars, vars
<1> QED
  BY <1>2, <1>3, <1>4, <1>5, NextSplit

\* The messages of a publisher enter the ring in the order in which it sent them, each
\* once and none left out, however often publish() refuses them and whoever else takes
\* publish_lock in between (publish_one()).
THEOREM PublisherOrder == Spec => []PublisherFIFO
<1>1. Init => ReadBefore
  BY DEF Init, ReadBefore, Publishing
<1>2. TypeOK /\ ReadBefore /\ PublisherFIFO /\ [Next]_vars => PublisherFIFO'
  <2> SUFFICES ASSUME TypeOK, ReadBefore, PublisherFIFO, [Next]_vars PROVE PublisherFIFO'
    OBVIOUS
  <2>1. \A q \in Publishers : Done(q) \in Nat
    BY DEF TypeOK, ReadBefore, Done
  <2>2. Dispatch \/ (\E s \in Subscribers : SubscriberStep(s)) \/ UNCHANGED vars
          => UNCHANGED <<log, publisherVars>>
    BY DispatchKeeps, SubscriberKeeps DEF coreVars, vars
  <2> QED
    BY <2>1, <2>2, FIFOPublisher, FIFOFrame, NextSplit
<1> QED
  BY <1>1, <1>2, FIFOInit, ReadBeforeStep, TypeCorrect, PTL DEF Spec

-----------------------------------------------------------------------------
(* Accounts.                                                                 *)

Elements(S) == {S[i] : i \in 1 .. Len(S)}

Wanted(n, F, l) == F = {} \/ l[n].chan \in F

\* The frames S sent and D dropped, after frame j and up to frame f of log l.
Account(S, D, j, f, F, l) ==
  /\ \A a, b \in 1 .. Len(S) : a < b => S[a] < S[b]
  /\ Elements(S) \cap D = {}
  /\ Elements(S) \cup D = {n \in j + 1 .. f : Wanted(n, F, l)}

LEMMA AccountBounded ==
  ASSUME NEW S, NEW D, NEW j \in Nat, NEW f \in Nat, NEW F, NEW l, Account(S, D, j, f, F, l)
  PROVE  /\ \A n \in Elements(S) \cup D : n \in Nat /\ n <= f
         /\ f + 1 \notin Elements(S) \cup D
BY DEF Account

LEMMA WantedNext ==
  ASSUME NEW j \in Nat, NEW f \in Nat, NEW F, NEW l, j <= f, Wanted(f + 1, F, l)
  PROVE  {n \in j + 1 .. f + 1 : Wanted(n, F, l)}
           = {n \in j + 1 .. f : Wanted(n, F, l)} \cup {f + 1}
OBVIOUS

LEMMA AccountAppend ==
  ASSUME NEW S \in Seq(Nat), NEW D, NEW j \in Nat, NEW f \in Nat, NEW F, NEW l, j <= f,
         Account(S, D, j, f, F, l), Wanted(f + 1, F, l)
  PROVE  Account(Append(S, f + 1), D, j, f + 1, F, l)
<1> DEFINE T == Append(S, f + 1)
<1>1. /\ Len(T) = Len(S) + 1 /\ Len(S) \in Nat
      /\ \A i \in 1 .. Len(S) : T[i] = S[i]
      /\ T[Len(S) + 1] = f + 1
  OBVIOUS
<1>2. Elements(T) = Elements(S) \cup {f + 1}
  <2> HIDE DEF T
  <2>1. \A i \in 1 .. Len(S) : T[i] = S[i] /\ i \in 1 .. Len(T)
    BY ONLY <1>1
  <2>2. \A i \in 1 .. Len(T) : i \in 1 .. Len(S) \/ i = Len(S) + 1
    BY ONLY <1>1
  <2>3. Len(S) + 1 \in 1 .. Len(T)
    BY ONLY <1>1
  <2> QED
    BY ONLY <1>1, <2>1, <2>2, <2>3 DEF Elements
<1>3. \A a, b \in 1 .. Len(T) : a < b => T[a] < T[b]
  <2> HIDE DEF T
  <2> SUFFICES ASSUME NEW a \in 1 .. Len(T), NEW b \in 1 .. Len(T), a < b PROVE T[a] < T[b]
    OBVIOUS
  <2>1. a \in 1 .. Len(S) /\ T[a] = S[a]
    BY <1>1
  <2>2. CASE b = Len(S) + 1
    <3>1. S[a] \in Nat /\ S[a] <= f
      BY <2>1, AccountBounded DEF Elements
    <3> QED
      BY <1>1, <2>1, <2>2, <3>1
  <2>3. CASE b \in 1 .. Len(S)
    BY <1>1, <2>1, <2>3 DEF Account
  <2> QED
    BY <1>1, <2>2, <2>3
<1>4. f + 1 \notin D
  BY AccountBounded
<1>5. {n \in j + 1 .. f + 1 : Wanted(n, F, l)} = {n \in j + 1 .. f : Wanted(n, F, l)} \cup {f + 1}
  BY WantedNext
<1> HIDE DEF T
<1>6. Elements(T) \cap D = {}
  BY <1>2, <1>4 DEF Account
<1>7. Elements(T) \cup D = (Elements(S) \cup D) \cup {f + 1}
  BY <1>2
<1>8. Account(T, D, j, f + 1, F, l)
  BY <1>3, <1>5, <1>6, <1>7 DEF Account
<1> QED
  BY <1>8 DEF T

LEMMA AccountDrop ==
  ASSUME NEW S, NEW D, NEW j \in Nat, NEW f \in Nat, NEW F, NEW l, j <= f,
         Account(S, D, j, f, F, l), Wanted(f + 1, F, l)
  PROVE  Account(S, D \cup {f + 1}, j, f + 1, F, l)
<1>1. f + 1 \notin Elements(S)
  BY AccountBounded
<1>2. {n \in j + 1 .. f + 1 : Wanted(n, F, l)} = {n \in j + 1 .. f : Wanted(n, F, l)} \cup {f + 1}
  BY WantedNext
<1> QED
  BY <1>1, <1>2 DEF Account

LEMMA AccountSkip ==
  ASSUME NEW S, NEW D, NEW j \in Nat, NEW f \in Nat, NEW F, NEW l,
         Account(S, D, j, f, F, l), ~Wanted(f + 1, F, l)
  PROVE  Account(S, D, j, f + 1, F, l)
<1>1. {n \in j + 1 .. f + 1 : Wanted(n, F, l)} = {n \in j + 1 .. f : Wanted(n, F, l)}
  OBVIOUS
<1> QED
  BY <1>1 DEF Account

LEMMA AccountCommit ==
  ASSUME NEW S, NEW D, NEW j \in Nat, NEW f \in Nat, NEW F, NEW l, NEW k,
         \A n \in 1 .. f : k[n] = l[n], Account(S, D, j, f, F, l)
  PROVE  Account(S, D, j, f, F, k)
<1>1. {n \in j + 1 .. f : Wanted(n, F, k)} = {n \in j + 1 .. f : Wanted(n, F, l)}
  BY DEF Wanted
<1> QED
  BY <1>1 DEF Account

LEMMA StreamParts ==
  ASSUME NEW w \in Seq(Nat), NEW h \in Seq(Nat), NEW t \in Seq(Nat)
  PROVE  w \o h \o t = w \o (h \o t)
BY ConcatAssociative

\* Moving the first frame of a queue behind what was written changes no stream.
LEMMA HeadThenTail ==
  ASSUME NEW w \in Seq(Nat), NEW q \in Seq(Nat), q # <<>>
  PROVE  w \o <<Head(q)>> \o Tail(q) = w \o <<>> \o q
<1>1. <<Head(q)>> \in Seq(Nat) /\ Tail(q) \in Seq(Nat)
  OBVIOUS
<1>2. <<Head(q)>> \o Tail(q) = q
  BY HeadTailProperties, ConcatProperties
<1>3. w \o <<Head(q)>> \o Tail(q) = w \o (<<Head(q)>> \o Tail(q))
  BY ONLY <1>1, w \in Seq(Nat), StreamParts
<1>4. w \o <<>> = w
  OBVIOUS
<1> QED
  BY <1>2, <1>3, <1>4

\* What is appended to a queue is appended to the stream that ends with it.
LEMMA AppendBehind ==
  ASSUME NEW w \in Seq(Nat), NEW q \in Seq(Nat), NEW e \in Nat
  PROVE  w \o Append(q, e) = Append(w \o q, e)
OBVIOUS

-----------------------------------------------------------------------------
(* The invariant.                                                            *)

Book(s) == Account(Stream(s), dropped[s], joined[s], Fanned(s), filter[s], log)

\* Nothing was kept for a thread that has yet to register, a thread that waits
\* for a frame has none in its hand, and nobody registers before the dispatch
\* thread has.
Unregistered ==
  \A s \in Subscribers :
    /\ s_pc[s] = "handshake" =>
         written[s] = <<>> /\ in_hand[s] = <<>> /\ queue[s] = <<>> /\ dropped[s] = {}
    /\ s_pc[s] = "recv" => in_hand[s] = <<>>
    /\ d_pc = "start" => s \notin registry

Books == \A s \in registry : joined[s] <= Fanned(s) /\ Book(s)

BookInv == LogInv /\ ReceiverPerSender /\ Unregistered /\ Books

LEMMA BooksAccounted == Books => Accounted
BY DEF Books, Book, Account, Elements, Wanted, Accounted

LEMMA BookTypes ==
  ASSUME BookInv, NEW s \in Subscribers
  PROVE  /\ written[s] \in Seq(Nat) /\ in_hand[s] \in Seq(Nat) /\ queue[s] \in Seq(Nat)
         /\ Stream(s) \in Seq(Nat)
         /\ joined[s] \in Nat /\ cursor \in Nat
         /\ Fanned(s) \in Nat /\ Fanned(s) <= Len(log)
         /\ log \in Seq(Message) /\ Len(log) \in Nat
         /\ registry \subseteq Subscribers /\ pending \subseteq Subscribers
<1>1. /\ written[s] \in Seq(Nat) /\ in_hand[s] \in Seq(Nat) /\ queue[s] \in Seq(Nat)
      /\ joined[s] \in Nat /\ cursor \in Nat
      /\ log \in Seq(Message) /\ Len(log) \in Nat
      /\ registry \subseteq Subscribers /\ pending \subseteq Subscribers
  BY DEF BookInv, LogInv, TypeOK
<1>2. Stream(s) \in Seq(Nat)
  BY <1>1 DEF Stream
<1>3. Fanned(s) \in Nat /\ Fanned(s) <= Len(log)
  BY <1>1 DEF BookInv, LogInv, NoOverrun, FrameHeld, Fanned, Frame
<1> QED
  BY <1>1, <1>2, <1>3

LEMMA BookKept ==
  ASSUME NEW s, joined[s] <= Fanned(s), Book(s),
         Stream(s)' = Stream(s), Fanned(s)' = Fanned(s), dropped'[s] = dropped[s],
         joined'[s] = joined[s], filter'[s] = filter[s], log' = log
  PROVE  joined'[s] <= Fanned(s)' /\ Book(s)'
BY DEF Book

-----------------------------------------------------------------------------
(* What each thread does to the books.                                      *)

LEMMA InitBooks == Init => Unregistered /\ Books
BY DEF Init, Unregistered, Books

LEMMA BooksVisit ==
  ASSUME BookInv, NEW t \in Subscribers, SkipSubscriber(t) \/ Enqueue(t) \/ DropFrame(t),
         NEW s \in registry
  PROVE  joined'[s] <= Fanned(s)' /\ Book(s)'
<1>1. /\ d_pc = "fan" /\ t \in pending /\ pending' = pending \ {t} /\ d_pc' = d_pc
      /\ cursor' = cursor /\ log' = log
      /\ registry' = registry /\ filter' = filter /\ joined' = joined
      /\ written' = written /\ in_hand' = in_hand
  BY VisitKeeps DEF SkipSubscriber, Enqueue, DropFrame, Visit, entryVars
<1>2. s \in Subscribers
  BY DEF BookInv, LogInv, TypeOK
<1>3. /\ queue \in [Subscribers -> Seq(Nat)] /\ dropped \in [Subscribers -> SUBSET Nat]
  BY DEF BookInv, LogInv, TypeOK
<1>4. joined[s] <= Fanned(s) /\ Book(s)
  BY DEF BookInv, Books
<1>5. CASE s # t
  <2>1. queue'[s] = queue[s] /\ dropped'[s] = dropped[s]
    BY <1>2, <1>3, <1>5 DEF SkipSubscriber, Enqueue, DropFrame
  <2>2. Fanned(s)' = Fanned(s)
    BY <1>1, <1>5 DEF Fanned, Frame
  <2>3. Stream(s)' = Stream(s)
    BY <1>1, <2>1 DEF Stream
  <2> QED
    BY <1>1, <1>4, <2>1, <2>2, <2>3, BookKept
<1>6. CASE s = t
  <2> DEFINE S == Stream(s)
             c == cursor
  <2>1. Fanned(s) = c /\ Fanned(s)' = c + 1 /\ Frame = c + 1
    BY <1>1, <1>6 DEF Fanned, Frame
  <2>2. /\ c \in Nat /\ joined[s] \in Nat /\ S \in Seq(Nat)
        /\ written[s] \in Seq(Nat) /\ in_hand[s] \in Seq(Nat) /\ queue[s] \in Seq(Nat)
    BY <1>2, BookTypes
  <2>3. Account(S, dropped[s], joined[s], c, filter[s], log) /\ joined[s] <= c
    BY <1>4, <2>1 DEF Book
  <2>4. SUFFICES Account(Stream(s)', dropped'[s], joined[s], c + 1, filter[s], log)
    BY <1>1, <2>1, <2>2, <2>3 DEF Book
  <2>5. Matches(s, Frame) <=> Wanted(c + 1, filter[s], log)
    BY <2>1 DEF Matches, Wanted
  <2>6. CASE SkipSubscriber(t)
    <3>1. ~Matches(s, Frame) /\ queue' = queue /\ dropped' = dropped
      BY <1>6, <2>6 DEF SkipSubscriber
    <3>2. Stream(s)' = S
      BY <1>1, <3>1 DEF Stream
    <3> HIDE DEF S, c
    <3> QED
      BY <2>2, <2>3, <2>5, <3>1, <3>2, AccountSkip
  <2>7. CASE Enqueue(t)
    <3>1. /\ Matches(s, Frame) /\ dropped' = dropped
          /\ queue'[s] = Append(queue[s], c + 1)
      BY <1>2, <1>3, <1>6, <2>1, <2>7 DEF Enqueue
    <3>2. Stream(s)' = Append(S, c + 1)
      <4>1. written[s] \o in_hand[s] \in Seq(Nat) /\ c + 1 \in Nat
        BY <2>2
      <4>2. (written[s] \o in_hand[s]) \o Append(queue[s], c + 1)
              = Append((written[s] \o in_hand[s]) \o queue[s], c + 1)
        BY <2>2, <4>1, AppendBehind
      <4> QED
        BY <1>1, <3>1, <4>2 DEF Stream
    <3> HIDE DEF S, c
    <3> QED
      <4>1. Account(Append(S, c + 1), dropped[s], joined[s], c + 1, filter[s], log)
        BY <2>2, <2>3, <2>5, <3>1, AccountAppend
      <4> QED
        BY <3>1, <3>2, <4>1
  <2>8. CASE DropFrame(t)
    <3>1. /\ Matches(s, Frame) /\ queue' = queue
          /\ dropped'[s] = dropped[s] \cup {c + 1}
      BY <1>2, <1>3, <1>6, <2>1, <2>8 DEF DropFrame
    <3>2. Stream(s)' = S
      BY <1>1, <3>1 DEF Stream
    <3> HIDE DEF S, c
    <3> QED
      <4>1. Account(S, dropped[s] \cup {c + 1}, joined[s], c + 1, filter[s], log)
        BY <2>2, <2>3, <2>5, <3>1, AccountDrop
      <4> QED
        BY <3>1, <3>2, <4>1
  <2> QED
    BY <2>6, <2>7, <2>8
<1> QED
  BY <1>5, <1>6

LEMMA BooksDispatch ==
  ASSUME BookInv, Dispatch
  PROVE  Books'
<1>1. /\ log' = log /\ registry' = registry /\ filter' = filter /\ joined' = joined
      /\ written' = written /\ in_hand' = in_hand
  BY DispatchKeeps DEF entryVars
<1>2. CASE \E t \in Subscribers : SkipSubscriber(t) \/ Enqueue(t) \/ DropFrame(t)
  BY <1>1, <1>2, BooksVisit DEF Books
<1>3. CASE RegisterDispatch
  <2>1. registry = {}
    BY <1>3 DEF RegisterDispatch, DispatchAt, BookInv, Unregistered, LogInv, TypeOK
  <2> QED
    BY <1>1, <2>1 DEF Books
<1>4. CASE TakeFrame \/ LockRegistry \/ FanDone \/ AdvanceCursor
  <2> SUFFICES ASSUME NEW s \in registry
               PROVE  joined'[s] <= Fanned(s)' /\ Book(s)'
    BY <1>1 DEF Books
  <2>1. queue' = queue /\ dropped' = dropped
    BY <1>4 DEF TakeFrame, LockRegistry, FanDone, AdvanceCursor, subscriberVars, streamVars
  <2>2. Stream(s)' = Stream(s)
    BY <1>1, <2>1 DEF Stream
  <2>3. Fanned(s)' = Fanned(s)
    BY <1>4 DEF TakeFrame, LockRegistry, FanDone, AdvanceCursor, DispatchAt, Fanned, Frame
  <2> QED
    BY <1>1, <2>1, <2>2, <2>3, BookKept DEF BookInv, Books
<1> QED
  BY <1>2, <1>3, <1>4 DEF Dispatch

LEMMA BooksPublisher ==
  ASSUME BookInv, NEW p \in Publishers, ReadMessage(p) \/ PublisherLeaves(p) \/ Publish(p)
  PROVE  Books'
<1>1. /\ cursor' = cursor /\ d_pc' = d_pc /\ pending' = pending
      /\ registry' = registry /\ filter' = filter /\ joined' = joined /\ dropped' = dropped
      /\ written' = written /\ in_hand' = in_hand /\ queue' = queue
  BY PublisherKeeps DEF subscriberVars, entryVars, streamVars
<1>2. log' = log \/ log' = log \o current[p]
  BY DEF ReadMessage, PublisherLeaves, Publish, Lock, Admit, PublishOk, PublishSlow, busVars
<1> SUFFICES ASSUME NEW s \in registry
             PROVE  joined'[s] <= Fanned(s)' /\ Book(s)'
  BY <1>1 DEF Books
<1>3. s \in Subscribers
  BY DEF BookInv, LogInv, TypeOK
<1>4. Stream(s)' = Stream(s) /\ Fanned(s)' = Fanned(s)
  BY <1>1 DEF Stream, Fanned, Frame
<1>5. \A n \in 1 .. Fanned(s) : log'[n] = log[n]
  <2>1. current[p] \in {<<>>} \cup {<<m>> : m \in Message}
    BY DEF BookInv, LogInv, TypeOK
  <2>2. current[p] \in Seq(Message)
    <3>1. CASE current[p] = <<>>
      BY <3>1
    <3>2. CASE current[p] # <<>>
      <4>1. PICK m \in Message : current[p] = <<m>>
        BY <2>1, <3>2
      <4> QED
        BY <4>1
    <3> QED
      BY <3>1, <3>2
  <2>3. /\ log \in Seq(Message) /\ Len(log) \in Nat
        /\ Fanned(s) \in Nat /\ Fanned(s) <= Len(log)
    BY <1>3, BookTypes
  <2>4. \A n \in 1 .. Len(log) : (log \o current[p])[n] = log[n]
    BY <2>2, <2>3
  <2> QED
    BY <1>2, <2>3, <2>4
<1>6. joined[s] <= Fanned(s) /\ Book(s)
  BY DEF BookInv, Books
<1>7. joined[s] \in Nat /\ Fanned(s) \in Nat
  BY <1>3, BookTypes
<1>8. Account(Stream(s), dropped[s], joined[s], Fanned(s), filter[s], log')
  BY <1>5, <1>6, <1>7, AccountCommit DEF Book
<1> QED
  BY <1>1, <1>4, <1>6, <1>8 DEF Book

LEMMA BooksSubscriber ==
  ASSUME BookInv, NEW t \in Subscribers, SubscriberStep(t)
  PROVE  Books'
<1>1. cursor' = cursor /\ d_pc' = d_pc /\ pending' = pending /\ log' = log
  BY SubscriberKeeps DEF coreVars
<1> SUFFICES ASSUME NEW s \in registry'
             PROVE  joined'[s] <= Fanned(s)' /\ Book(s)'
  BY DEF Books
<1>2. Fanned(s)' = Fanned(s)
  BY <1>1 DEF Fanned, Frame
<1>3. /\ filter \in [Subscribers -> SUBSET Channels] /\ joined \in [Subscribers -> Nat]
      /\ queue \in [Subscribers -> Seq(Nat)] /\ in_hand \in [Subscribers -> Seq(Nat)]
      /\ written \in [Subscribers -> Seq(Nat)] /\ dropped \in [Subscribers -> SUBSET Nat]
      /\ registry \subseteq Subscribers
  BY DEF BookInv, LogInv, TypeOK
<1>4. s \in Subscribers
  BY <1>3 DEF SubscriberStep, Subscribe, Recv, Write, WriteOk, WriteError, Remove, ClientStalls,
         ClientLeaves, ClientChanges, entryVars
<1>5. CASE Subscribe(t) /\ s = t
  <2>1. /\ s_pc[s] = "handshake" /\ joined'[s] = Fanned(s)
        /\ written' = written /\ in_hand' = in_hand /\ queue' = queue /\ dropped' = dropped
    BY <1>3, <1>4, <1>5 DEF Subscribe, SubscriberAt, streamVars
  <2>2. written[s] = <<>> /\ in_hand[s] = <<>> /\ queue[s] = <<>> /\ dropped[s] = {}
    BY <1>4, <2>1 DEF BookInv, Unregistered
  <2>3. Stream(s)' = <<>>
    BY <2>1, <2>2 DEF Stream
  <2>4. Fanned(s) \in Nat
    BY <1>4, BookTypes
  <2>5. Account(<<>>, {}, Fanned(s), Fanned(s), filter'[s], log)
    BY <2>4 DEF Account, Elements
  <2> QED
    BY <1>1, <1>2, <2>1, <2>2, <2>3, <2>4, <2>5 DEF Book
<1>6. CASE Remove(t) /\ s = t
  BY <1>6 DEF Remove
<1>7. CASE s # t /\ (Subscribe(t) \/ Remove(t))
  <2>1. /\ s \in registry
        /\ filter'[s] = filter[s] /\ joined'[s] = joined[s] /\ dropped'[s] = dropped[s]
        /\ written'[s] = written[s] /\ in_hand'[s] = in_hand[s] /\ queue'[s] = queue[s]
    BY <1>3, <1>4, <1>7 DEF Subscribe, Remove, streamVars
  <2>2. Stream(s)' = Stream(s)
    BY <2>1 DEF Stream
  <2> QED
    BY <1>1, <1>2, <2>1, <2>2, BookKept DEF BookInv, Books
<1>8. CASE Recv(t) \/ Write(t) \/ ClientStalls(t) \/ ClientLeaves(t)
  <2>1. registry' = registry /\ filter' = filter /\ joined' = joined /\ dropped' = dropped
    BY <1>8 DEF Recv, Write, WriteOk, WriteError, ClientStalls, ClientLeaves, ClientChanges,
           entryVars
  <2>2. Stream(s)' = Stream(s)
    <3>1. CASE Recv(t) /\ s = t
      <4>1. /\ in_hand[s] = <<>> /\ queue[s] # <<>>
            /\ written'[s] = written[s] /\ in_hand'[s] = <<Head(queue[s])>>
            /\ queue'[s] = Tail(queue[s])
        BY <1>3, <1>4, <3>1 DEF Recv, SubscriberAt, BookInv, Unregistered
      <4>2. written[s] \in Seq(Nat) /\ queue[s] \in Seq(Nat)
        BY <1>3, <1>4
      <4>3. written[s] \o <<Head(queue[s])>> \o Tail(queue[s]) = written[s] \o <<>> \o queue[s]
        BY <4>1, <4>2, HeadThenTail
      <4> QED
        BY <4>1, <4>3 DEF Stream
    <3>2. CASE WriteOk(t) /\ s = t
      <4>1. /\ written'[s] = written[s] \o in_hand[s] /\ in_hand'[s] = <<>>
            /\ queue'[s] = queue[s]
        BY <1>3, <1>4, <3>2 DEF WriteOk
      <4>2. written[s] \in Seq(Nat) /\ in_hand[s] \in Seq(Nat) /\ queue[s] \in Seq(Nat)
        BY <1>3, <1>4
      <4>3. (written[s] \o in_hand[s]) \o <<>> = written[s] \o in_hand[s]
        BY <4>2
      <4> QED
        BY <4>1, <4>3 DEF Stream
    <3>3. CASE \/ s # t
               \/ WriteError(t) \/ ClientStalls(t) \/ ClientLeaves(t)
      <4>1. /\ written'[s] = written[s] /\ in_hand'[s] = in_hand[s] /\ queue'[s] = queue[s]
        BY <1>3, <1>4, <1>8, <3>3
        DEF Recv, Write, WriteOk, WriteError, ClientStalls, ClientLeaves, ClientChanges, streamVars
      <4> QED
        BY <4>1 DEF Stream
    <3> QED
      BY <1>8, <3>1, <3>2, <3>3 DEF Write
  <2> QED
    BY <1>1, <1>2, <2>1, <2>2, BookKept DEF BookInv, Books
<1> QED
  BY <1>5, <1>6, <1>7, <1>8 DEF SubscriberStep

-----------------------------------------------------------------------------
(* The rest of the invariant, and the theorem.                               *)

LEMMA UnregisteredStep ==
  ASSUME BookInv, [Next]_vars
  PROVE  Unregistered'
<1>1. /\ queue \in [Subscribers -> Seq(Nat)] /\ in_hand \in [Subscribers -> Seq(Nat)]
      /\ written \in [Subscribers -> Seq(Nat)] /\ dropped \in [Subscribers -> SUBSET Nat]
      /\ s_pc \in [Subscribers -> {"handshake", "recv", "write", "remove", "gone"}]
      /\ registry \subseteq Subscribers
  BY DEF BookInv, LogInv, TypeOK
<1>2. CASE Dispatch
  <2>1. /\ registry' = registry /\ s_pc' = s_pc /\ in_hand' = in_hand /\ written' = written
    BY <1>2, DispatchKeeps DEF entryVars
  <2>2. d_pc' # "start"
    BY <1>2, VisitKeeps
    DEF Dispatch, RegisterDispatch, TakeFrame, LockRegistry, FanDone, AdvanceCursor, DispatchAt
  <2>3. \A s \in Subscribers \ registry : queue'[s] = queue[s] /\ dropped'[s] = dropped[s]
    <3>1. ASSUME NEW t \in Subscribers, SkipSubscriber(t) \/ Enqueue(t) \/ DropFrame(t),
                 NEW s \in Subscribers \ registry
          PROVE  queue'[s] = queue[s] /\ dropped'[s] = dropped[s]
      <4>1. t \in registry
        BY <3>1 DEF SkipSubscriber, Enqueue, DropFrame, Visit, BookInv, ReceiverPerSender
      <4> QED
        BY <1>1, <3>1, <4>1 DEF SkipSubscriber, Enqueue, DropFrame
    <3>2. CASE RegisterDispatch \/ TakeFrame \/ LockRegistry \/ FanDone \/ AdvanceCursor
      BY <3>2 DEF RegisterDispatch, TakeFrame, LockRegistry, FanDone, AdvanceCursor,
             subscriberVars, streamVars
    <3> QED
      BY <1>2, <3>1, <3>2 DEF Dispatch
  <2>4. \A s \in Subscribers : s_pc[s] = "handshake" => s \notin registry
    BY DEF BookInv, ReceiverPerSender
  <2> QED
    BY <2>1, <2>2, <2>3, <2>4 DEF BookInv, Unregistered
<1>3. CASE \E p \in Publishers : ReadMessage(p) \/ PublisherLeaves(p) \/ Publish(p)
  BY <1>3, PublisherKeeps DEF BookInv, Unregistered, subscriberVars, entryVars, streamVars
<1>4. ASSUME NEW t \in Subscribers, SubscriberStep(t)
      PROVE  Unregistered'
  <2>1. d_pc' = d_pc
    BY <1>4, SubscriberKeeps DEF coreVars
  <2>2. CASE Subscribe(t)
    BY <1>1, <2>1, <2>2
    DEF Subscribe, SubscriberAt, Accepting, streamVars, BookInv, Unregistered
  <2>3. CASE Recv(t)
    BY <1>1, <2>1, <2>3 DEF Recv, SubscriberAt, entryVars, BookInv, Unregistered
  <2>4. CASE Write(t)
    BY <1>1, <2>1, <2>4
    DEF Write, WriteOk, WriteError, SubscriberAt, entryVars, streamVars, BookInv, Unregistered
  <2>5. CASE Remove(t)
    BY <1>1, <2>1, <2>5 DEF Remove, SubscriberAt, BookInv, Unregistered
  <2>6. CASE ClientStalls(t) \/ ClientLeaves(t)
    BY <2>1, <2>6
    DEF ClientStalls, ClientLeaves, ClientChanges, entryVars, streamVars, BookInv, Unregistered
  <2> QED
    BY <1>4, <2>2, <2>3, <2>4, <2>5, <2>6 DEF SubscriberStep
<1>5. CASE UNCHANGED vars
  BY <1>5 DEF vars, subscriberVars, entryVars, streamVars, BookInv, Unregistered
<1> QED
  BY <1>2, <1>3, <1>4, <1>5, NextSplit

LEMMA BooksStep ==
  ASSUME BookInv, [Next]_vars
  PROVE  Books'
<1>1. CASE UNCHANGED vars
  <2>1. UNCHANGED <<log, cursor, d_pc, pending, registry, filter, joined, dropped,
                    written, in_hand, queue>>
    BY <1>1 DEF vars, subscriberVars, entryVars, streamVars
  <2>2. \A s \in registry : Stream(s)' = Stream(s) /\ Fanned(s)' = Fanned(s)
    BY <2>1 DEF Stream, Fanned, Frame
  <2>3. \A s \in registry : joined'[s] <= Fanned(s)' /\ Book(s)'
    BY <2>1, <2>2, BookKept DEF BookInv, Books
  <2> QED
    BY <2>1, <2>3 DEF Books
<1> QED
  BY <1>1, NextSplit, BooksDispatch, BooksPublisher, BooksSubscriber

\* At every instant the frames a subscriber was sent, and those its full queue
\* missed, are exactly the frames it asked for from its registration to the last
\* one fanned out to it, each once and in order, whatever the dispatch thread,
\* the publishers and the other subscribers were doing meanwhile.
THEOREM EveryFrameAccounted == Spec => []Accounted
<1>1. Init => Unregistered /\ Books
  BY InitBooks
<1>2. LogInv /\ ReceiverPerSender /\ Unregistered /\ Books /\ [Next]_vars
        => (Unregistered /\ Books)'
  BY UnregisteredStep, BooksStep DEF BookInv
<1>3. Books => Accounted
  BY BooksAccounted
<1> QED
  BY <1>1, <1>2, <1>3, LogInvariant, EntriesHaveReceivers, PTL DEF Spec
=============================================================================
