------------------------- MODULE BusRefinementProofs -------------------------
(***************************************************************************)
(* The bus uses its ring within the specification RingLog, which the ring  *)
(* implements, and implements the topic log PubSub: proofs of UsesRing and *)
(* of ImplementsPubSub for every value of the constants.                   *)
(***************************************************************************)
EXTENDS BusRefinement, BusProofs

-----------------------------------------------------------------------------
(* What the mappings need of the publishers: nothing happens before the      *)
(* dispatch thread is registered, and what is committed is one message.      *)

BeforeStart == d_pc = "start" => /\ log = <<>> /\ cursor = 0 /\ registry = {}
                                 /\ \A p \in Publishers : p_pc[p] = "read"

OneMessage == \A p \in Publishers : Publishing(p) => read[p] # 0

LEMMA PublishingInit == Init => BeforeStart /\ OneMessage
BY DEF Init, BeforeStart, OneMessage, Publishing

LEMMA PublishingStep ==
  ASSUME TypeOK, BeforeStart, OneMessage, [Next]_vars
  PROVE  (BeforeStart /\ OneMessage)'
<1>1. /\ p_pc \in [Publishers -> {"read", "lock", "publish", "commit", "closed"}]
      /\ read \in [Publishers -> 0 .. MaxRead]
  BY DEF TypeOK
<1>2. CASE Dispatch
  <2>1. d_pc' # "start"
    BY <1>2, VisitKeeps
    DEF Dispatch, RegisterDispatch, TakeFrame, LockRegistry, FanDone, AdvanceCursor, DispatchAt
  <2> QED
    BY <1>2, <2>1, DispatchKeeps DEF BeforeStart, OneMessage, Publishing, publisherVars
<1>3. ASSUME NEW p \in Publishers, ReadMessage(p) \/ PublisherLeaves(p) \/ Publish(p)
      PROVE  (BeforeStart /\ OneMessage)'
  <2>1. d_pc # "start" /\ d_pc' = d_pc
    BY <1>3, PublisherKeeps
    DEF BeforeStart, ReadMessage, PublisherLeaves, Publish, Lock, Admit, PublishOk, PublishSlow,
        Accepting, PublisherAt
  <2>2. CASE ReadMessage(p)
    <3>1. /\ read' = [read EXCEPT ![p] = read[p] + 1] /\ p_pc' = [p_pc EXCEPT ![p] = "lock"]
      BY <2>2 DEF ReadMessage, PublisherAt
    <3>2. read[p] \in Nat
      BY <1>1, BusAssumption
    <3>3. OneMessage'
      BY <1>1, <3>1, <3>2 DEF OneMessage, Publishing
    <3> QED
      BY <2>1, <3>3 DEF BeforeStart
  <2>3. CASE PublisherLeaves(p) \/ Publish(p)
    <3>1. /\ read' = read
          /\ \/ p_pc' = [p_pc EXCEPT ![p] = "read"] \/ p_pc' = [p_pc EXCEPT ![p] = "closed"]
             \/ Publishing(p) /\ \E to \in {"lock", "publish", "commit"} :
                                   p_pc' = [p_pc EXCEPT ![p] = to]
      BY <2>3 DEF PublisherLeaves, Publish, Lock, Admit, PublishOk, PublishSlow, PublisherAt, Retry,
                  Publishing
    <3> QED
      BY <1>1, <2>1, <3>1 DEF BeforeStart, OneMessage, Publishing
  <2> QED
    BY <1>3, <2>2, <2>3
<1>4. ASSUME NEW s \in Subscribers, SubscriberStep(s)
      PROVE  (BeforeStart /\ OneMessage)'
  <2>1. UNCHANGED <<log, cursor, d_pc, p_pc, read>>
    BY <1>4, SubscriberKeeps DEF coreVars, publisherVars
  <2>2. d_pc = "start" => registry' = registry \/ registry' = registry \ {s}
    BY <1>4 DEF SubscriberStep, Subscribe, Accepting, Recv, Write, WriteOk, WriteError, Remove,
                ClientStalls, ClientLeaves, ClientChanges, entryVars
  <2> QED
    BY <2>1, <2>2 DEF BeforeStart, OneMessage, Publishing
<1>5. CASE UNCHANGED vars
  BY <1>5
  DEF vars, publisherVars, subscriberVars, entryVars, BeforeStart, OneMessage, Publishing
<1> QED
  BY <1>2, <1>3, <1>4, <1>5, NextSplit

MapInv == BookInv /\ BeforeStart /\ OneMessage

\* A publisher commits one message, and only once the dispatch thread is there.
LEMMA CommitIsAppend ==
  ASSUME MapInv, NEW p \in Publishers, PublishOk(p)
  PROVE  /\ d_pc # "start"
         /\ \E m \in Message : log' = Append(log, m)
<1>1. p_pc[p] = "commit" /\ log' = log \o current[p]
  BY DEF PublishOk, PublisherAt
<1>2. d_pc # "start"
  BY <1>1 DEF MapInv, BeforeStart
<1>3. read[p] # 0
  BY <1>1 DEF MapInv, OneMessage, Publishing
<1>4. current[p] \in {<<>>} \cup {<<m>> : m \in Message} /\ current[p] # <<>> /\ log \in Seq(Message)
  BY <1>3 DEF MapInv, BookInv, LogInv, TypeOK
<1>5. PICK m \in Message : current[p] = <<m>>
  BY <1>4
<1>6. log \o <<m>> = Append(log, m)
  BY <1>4
<1> QED
  BY <1>1, <1>2, <1>5, <1>6

\* The other steps of a publisher.
LEMMA OthersKeepLog ==
  ASSUME NEW p \in Publishers,
         ReadMessage(p) \/ PublisherLeaves(p) \/ Lock(p) \/ Admit(p) \/ PublishSlow(p)
  PROVE  log' = log
BY DEF ReadMessage, PublisherLeaves, Lock, Admit, PublishSlow, busVars

-----------------------------------------------------------------------------
(* The ring as the bus uses it.                                              *)

Attached == IF Accepting THEN {"dispatch"} ELSE {}
From     == [c \in {"dispatch"} |-> 0]
SeenSoFar == [c \in {"dispatch"} |-> SubSeq(log, 1, cursor)]

LEMMA RingInit == Init => RingOfBus!Init
BY DEF Init, RingOfBus!Init, Accepting

LEMMA RingFrame ==
  ASSUME log' = log, cursor' = cursor, Accepting' <=> Accepting
  PROVE  UNCHANGED RingOfBus!logVars
<1>1. Attached' = Attached /\ SeenSoFar' = SeenSoFar
  BY DEF Attached, SeenSoFar
<1> QED
  BY <1>1 DEF RingOfBus!logVars, Attached, SeenSoFar

LEMMA RingPosition ==
  ASSUME cursor \in Nat, log \in Seq(Message), cursor <= Len(log)
  PROVE  RingOfBus!Position("dispatch") = cursor
<1>1. Len(SubSeq(log, 1, cursor)) = cursor
  OBVIOUS
<1> QED
  BY <1>1 DEF RingOfBus!Position

LEMMA RingStep ==
  ASSUME MapInv, [Next]_vars
  PROVE  [RingOfBus!Next]_(RingOfBus!logVars)
<1>1. /\ log \in Seq(Message) /\ Len(log) \in Nat /\ cursor \in Nat /\ cursor <= Len(log)
  BY DEF MapInv, BookInv, LogInv, TypeOK, NoOverrun
<1>2. CASE Dispatch
  <2>1. log' = log
    BY <1>2, DispatchKeeps
  <2>2. CASE RegisterDispatch
    <3>1. /\ d_pc = "start" /\ d_pc' = "wait" /\ cursor' = Len(log) /\ log = <<>> /\ cursor = 0
      BY <2>2 DEF RegisterDispatch, DispatchAt, MapInv, BeforeStart
    <3>2. cursor' = cursor
      BY <3>1
    <3>3. Attached = {} /\ Attached' = {"dispatch"} /\ SeenSoFar' = SeenSoFar
      BY <2>1, <3>1, <3>2 DEF Attached, Accepting, SeenSoFar
    <3>4. From = [From EXCEPT !["dispatch"] = 0]
      BY DEF From
    <3>5. RingOfBus!Attach("dispatch", 0)
      BY <2>1, <3>1, <3>3, <3>4, BusAssumption DEF RingOfBus!Attach, Attached, From, SeenSoFar
    <3> QED
      BY <1>1, <3>5 DEF RingOfBus!Next
  <2>3. CASE AdvanceCursor
    <3>1. /\ d_pc = "store" /\ d_pc' = "wait" /\ cursor' = cursor + 1 /\ cursor < Len(log)
      BY <2>3 DEF AdvanceCursor, DispatchAt, MapInv, BookInv, LogInv, FrameHeld
    <3>2. Attached = {"dispatch"} /\ Attached' = Attached
      BY <3>1 DEF Attached, Accepting
    <3>3. SubSeq(log, 1, cursor + 1) = Append(SubSeq(log, 1, cursor), log[cursor + 1])
      BY <1>1, <3>1
    <3>4. SeenSoFar' = [SeenSoFar EXCEPT !["dispatch"] = Append(@, log[cursor + 1])]
      BY <2>1, <3>1, <3>3 DEF SeenSoFar
    <3>5. RingOfBus!Deliver("dispatch")
      BY <1>1, <2>1, <3>1, <3>2, <3>4, RingPosition
      DEF RingOfBus!Deliver, Attached, SeenSoFar
    <3> QED
      BY <3>5 DEF RingOfBus!Next
  <2>4. CASE \/ TakeFrame \/ LockRegistry \/ FanDone
             \/ \E s \in Subscribers : SkipSubscriber(s) \/ Enqueue(s) \/ DropFrame(s)
    <3>1. cursor' = cursor /\ (Accepting' <=> Accepting)
      BY <2>4, VisitKeeps DEF TakeFrame, LockRegistry, FanDone, DispatchAt, Accepting
    <3> QED
      BY <2>1, <3>1, RingFrame
  <2> QED
    BY <1>2, <2>2, <2>3, <2>4 DEF Dispatch
<1>3. ASSUME NEW p \in Publishers, ReadMessage(p) \/ PublisherLeaves(p) \/ Publish(p)
      PROVE  [RingOfBus!Next]_(RingOfBus!logVars)
  <2>1. cursor' = cursor /\ (Accepting' <=> Accepting)
    BY <1>3, PublisherKeeps DEF Accepting
  <2>2. CASE PublishOk(p)
    <3>1. PICK m \in Message : log' = Append(log, m)
      BY <2>2, CommitIsAppend
    <3>2. Len(log) - cursor < RingSize
      BY <2>2 DEF PublishOk, PublisherAt, MapInv, BookInv, LogInv, RoomKept
    <3>3. SubSeq(log', 1, cursor) = SubSeq(log, 1, cursor)
      BY <1>1, <3>1
    <3>4. SeenSoFar' = SeenSoFar /\ Attached' = Attached
      BY <2>1, <3>3 DEF SeenSoFar, Attached
    <3>5. RingOfBus!AppendMsg(m)
      BY <1>1, <3>1, <3>2, <3>4, RingPosition DEF RingOfBus!AppendMsg, SeenSoFar, Attached
    <3> QED
      BY <3>5 DEF RingOfBus!Next
  <2>3. CASE ReadMessage(p) \/ PublisherLeaves(p) \/ Lock(p) \/ Admit(p) \/ PublishSlow(p)
    BY <2>1, <2>3, OthersKeepLog, RingFrame
  <2> QED
    BY <1>3, <2>2, <2>3 DEF Publish
<1>4. CASE \E s \in Subscribers : SubscriberStep(s)
  BY <1>4, SubscriberKeeps, RingFrame DEF coreVars, Accepting
<1>5. CASE UNCHANGED vars
  BY <1>5, RingFrame DEF vars, Accepting
<1> QED
  BY <1>2, <1>3, <1>4, <1>5, NextSplit

LEMMA MapInvariant == Spec => []MapInv
<1>1. Init => Unregistered /\ Books /\ BeforeStart /\ OneMessage
  BY InitBooks, PublishingInit
<1>2. BookInv /\ [Next]_vars => (Unregistered /\ Books)'
  BY UnregisteredStep, BooksStep
<1>3. TypeOK /\ BeforeStart /\ OneMessage /\ [Next]_vars => (BeforeStart /\ OneMessage)'
  BY PublishingStep
<1>4. LogInv /\ ReceiverPerSender /\ Unregistered /\ Books <=> BookInv
  BY DEF BookInv
<1>5. BookInv /\ BeforeStart /\ OneMessage <=> MapInv
  BY DEF MapInv
<1> QED
  BY <1>1, <1>2, <1>3, <1>4, <1>5, LogInvariant, EntriesHaveReceivers, TypeCorrect, PTL DEF Spec

\* Publishers and the dispatch thread use the ring within its specification:
\* with module RingRefinementProofs, what is proved of the log holds of the ring.
THEOREM RingUsed == Spec => UsesRing
<1>1. Init => RingOfBus!Init
  BY RingInit
<1>2. MapInv /\ [Next]_vars => [RingOfBus!Next]_(RingOfBus!logVars)
  BY RingStep
<1> QED
  BY <1>1, <1>2, MapInvariant, PTL DEF Spec, UsesRing, RingOfBus!Spec

-----------------------------------------------------------------------------
(* The service as its clients see it.                                        *)

Offered == [s \in Subscribers |-> IF s \in registry THEN Fanned(s) ELSE 0]
Taken   == [s \in Subscribers |-> written[s] \o in_hand[s]]

LEMMA ServiceInit == Init => Service!Init
<1> SUFFICES ASSUME Init PROVE Service!Init
  OBVIOUS
<1>1. \A s \in Subscribers : written[s] \o in_hand[s] = <<>>
  BY DEF Init
<1> QED
  BY <1>1 DEF Init, Service!Init

\* What a step leaves alone of the service's state.
LEMMA ServiceFrame ==
  ASSUME UNCHANGED <<log, registry, filter, queue, Offered, Taken>>
  PROVE  UNCHANGED Service!pubsubVars
BY DEF Service!pubsubVars, Offered, Taken

LEMMA OfferedKept ==
  ASSUME registry' = registry, \A s \in registry : Fanned(s)' = Fanned(s)
  PROVE  Offered' = Offered
BY DEF Offered

LEMMA TakenKept ==
  ASSUME written' = written, in_hand' = in_hand
  PROVE  Taken' = Taken
BY DEF Taken

\* Visiting an entry offers its subscriber the next frame.
LEMMA VisitIsOffer ==
  ASSUME MapInv, NEW s \in Subscribers, SkipSubscriber(s) \/ Enqueue(s) \/ DropFrame(s)
  PROVE  Service!Offer(s)
<1>1. /\ d_pc = "fan" /\ s \in pending /\ pending' = pending \ {s} /\ d_pc' = d_pc
      /\ cursor' = cursor /\ log' = log /\ registry' = registry /\ filter' = filter
      /\ written' = written /\ in_hand' = in_hand
  BY VisitKeeps DEF SkipSubscriber, Enqueue, DropFrame, Visit, entryVars
<1>2. s \in registry
  BY <1>1 DEF MapInv, BookInv, ReceiverPerSender
<1>3. cursor \in Nat /\ cursor < Len(log) /\ Frame = cursor + 1
  BY <1>1 DEF MapInv, BookInv, LogInv, TypeOK, FrameHeld, Frame
<1>4. Fanned(s) = cursor /\ Fanned(s)' = cursor + 1
  BY <1>1 DEF Fanned, Frame
<1>5. \A t \in registry : t # s => Fanned(t)' = Fanned(t)
  BY <1>1 DEF Fanned, Frame
<1>6. Offered[s] = cursor /\ Offered' = [Offered EXCEPT ![s] = Offered[s] + 1]
  BY <1>1, <1>2, <1>4, <1>5 DEF Offered
<1>7. queue' = IF (filter[s] = {} \/ log[cursor + 1].chan \in filter[s]) /\ Len(queue[s]) < QueueDepth
               THEN [queue EXCEPT ![s] = Append(queue[s], cursor + 1)]
               ELSE queue
  BY <1>3 DEF SkipSubscriber, Enqueue, DropFrame, Matches, HasRoom
<1>8. Taken' = Taken
  BY <1>1, TakenKept
<1> QED
  BY <1>1, <1>2, <1>3, <1>6, <1>7, <1>8 DEF Service!Offer, Service!Wanted, Offered, Taken

LEMMA ServiceDispatch ==
  ASSUME MapInv, Dispatch
  PROVE  [Service!Next]_(Service!pubsubVars)
<1>1. /\ log' = log /\ registry' = registry /\ filter' = filter
      /\ written' = written /\ in_hand' = in_hand
  BY DispatchKeeps DEF entryVars
<1>2. CASE \E s \in Subscribers : SkipSubscriber(s) \/ Enqueue(s) \/ DropFrame(s)
  BY <1>2, VisitIsOffer DEF Service!Next
<1>3. CASE RegisterDispatch \/ TakeFrame \/ LockRegistry \/ FanDone \/ AdvanceCursor
  <2>1. queue' = queue
    BY <1>3 DEF RegisterDispatch, TakeFrame, LockRegistry, FanDone, AdvanceCursor,
           subscriberVars, streamVars
  <2>2. \A s \in registry : Fanned(s)' = Fanned(s)
    BY <1>3 DEF RegisterDispatch, TakeFrame, LockRegistry, FanDone, AdvanceCursor, DispatchAt,
           Fanned, Frame, MapInv, BeforeStart
  <2> QED
    BY <1>1, <2>1, <2>2, OfferedKept, TakenKept, ServiceFrame
<1> QED
  BY <1>2, <1>3 DEF Dispatch

LEMMA ServicePublisher ==
  ASSUME MapInv, NEW p \in Publishers, ReadMessage(p) \/ PublisherLeaves(p) \/ Publish(p)
  PROVE  [Service!Next]_(Service!pubsubVars)
<1>1. /\ cursor' = cursor /\ d_pc' = d_pc /\ pending' = pending
      /\ registry' = registry /\ filter' = filter /\ queue' = queue
      /\ written' = written /\ in_hand' = in_hand
  BY PublisherKeeps DEF subscriberVars, entryVars, streamVars
<1>2. Offered' = Offered
  <2>1. \A s \in registry : Fanned(s)' = Fanned(s)
    BY <1>1 DEF Fanned, Frame
  <2> QED
    BY <1>1, <2>1, OfferedKept
<1>3. Taken' = Taken
  BY <1>1, TakenKept
<1>4. CASE PublishOk(p)
  <2>1. PICK m \in Message : log' = Append(log, m)
    BY <1>4, CommitIsAppend
  <2>2. Service!Post(m)
    BY <1>1, <1>2, <1>3, <2>1 DEF Service!Post, Offered, Taken
  <2> QED
    BY <2>2 DEF Service!Next
<1>5. CASE ReadMessage(p) \/ PublisherLeaves(p) \/ Lock(p) \/ Admit(p) \/ PublishSlow(p)
  BY <1>1, <1>2, <1>3, <1>5, OthersKeepLog, ServiceFrame
<1> QED
  BY <1>4, <1>5 DEF Publish

LEMMA ServiceSubscriber ==
  ASSUME MapInv, NEW s \in Subscribers, SubscriberStep(s)
  PROVE  [Service!Next]_(Service!pubsubVars)
<1>1. log' = log /\ cursor' = cursor /\ d_pc' = d_pc /\ pending' = pending
  BY SubscriberKeeps DEF coreVars
<1>2. \A t \in Subscribers : Fanned(t)' = Fanned(t)
  BY <1>1 DEF Fanned, Frame
<1>3. /\ queue \in [Subscribers -> Seq(Nat)] /\ in_hand \in [Subscribers -> Seq(Nat)]
      /\ written \in [Subscribers -> Seq(Nat)] /\ registry \subseteq Subscribers
      /\ filter \in [Subscribers -> SUBSET Channels]
      /\ s_pc \in [Subscribers -> {"handshake", "recv", "write", "remove", "gone"}]
  BY DEF MapInv, BookInv, LogInv, TypeOK
<1>4. s_pc[s] \in {"recv", "write", "remove"} <=> s \in registry
  BY DEF MapInv, BookInv, ReceiverPerSender
<1>5. CASE Subscribe(s)
  <2>1. PICK F \in Filters : filter' = [filter EXCEPT ![s] = F]
    BY <1>5 DEF Subscribe
  <2>2. /\ s \notin registry /\ registry' = registry \cup {s}
        /\ written' = written /\ in_hand' = in_hand /\ queue' = queue
    BY <1>4, <1>5 DEF Subscribe, SubscriberAt, streamVars
  <2>3. Offered' = [Offered EXCEPT ![s] = Fanned(s)]
    BY <1>2, <1>3, <2>2 DEF Offered
  <2>4. /\ Fanned(s) \in Nat /\ Fanned(s) <= Len(log) /\ Len(log) \in Nat
        /\ cursor \in Nat /\ Len(log) - cursor <= RingSize
        /\ Fanned(s) = cursor \/ Fanned(s) = cursor + 1
    BY BookTypes DEF MapInv, BookInv, LogInv, NoOverrun, Fanned, Frame
  <2>5. PICK n \in 0 .. Len(log) : n = Fanned(s) /\ Len(log) - n <= RingSize
    BY <2>4, BusAssumption
  <2>6. Service!Join(s, F, n)
    BY <1>1, <2>1, <2>2, <2>3, <2>5, TakenKept DEF Service!Join, Offered, Taken
  <2> QED
    BY <2>6 DEF Service!Next
<1>6. CASE Recv(s)
  <2>1. /\ s \in registry /\ queue[s] # <<>> /\ registry' = registry /\ filter' = filter
        /\ in_hand' = [in_hand EXCEPT ![s] = <<Head(queue[s])>>] /\ in_hand[s] = <<>>
        /\ queue' = [queue EXCEPT ![s] = Tail(queue[s])] /\ written' = written
    BY <1>4, <1>6 DEF Recv, SubscriberAt, entryVars, MapInv, BookInv, Unregistered
  <2>2. Offered' = Offered
    BY <1>2, <1>3, <2>1, OfferedKept
  <2>3. /\ Taken[s] = written[s] \o <<>>
        /\ Taken'[s] = written[s] \o <<Head(queue[s])>>
        /\ \A t \in Subscribers : t # s => Taken'[t] = Taken[t]
    BY <1>3, <2>1 DEF Taken
  <2>4. written[s] \o <<Head(queue[s])>> = Append(written[s] \o <<>>, Head(queue[s]))
    <3>1. written[s] \in Seq(Nat) /\ Head(queue[s]) \in Nat
      BY <1>3, <2>1
    <3> QED
      BY <3>1
  <2>5. Taken' = [Taken EXCEPT ![s] = Append(Taken[s], Head(queue[s]))]
    BY <2>3, <2>4 DEF Taken
  <2>6. Service!Take(s)
    BY <1>1, <2>1, <2>2, <2>5 DEF Service!Take, Offered, Taken
  <2> QED
    BY <2>6 DEF Service!Next
<1>7. CASE WriteOk(s)
  <2>1. /\ registry' = registry /\ filter' = filter /\ queue' = queue
        /\ written' = [written EXCEPT ![s] = written[s] \o in_hand[s]]
        /\ in_hand' = [in_hand EXCEPT ![s] = <<>>]
    BY <1>7 DEF WriteOk, entryVars
  <2>2. Taken' = Taken
    <3>1. (written[s] \o in_hand[s]) \o <<>> = written[s] \o in_hand[s]
      <4>1. written[s] \in Seq(Nat) /\ in_hand[s] \in Seq(Nat)
        BY <1>3
      <4> QED
        BY <4>1
    <3>2. \A t \in Subscribers : written'[t] \o in_hand'[t] = written[t] \o in_hand[t]
      BY <1>3, <2>1, <3>1
    <3> QED
      BY <3>2 DEF Taken
  <2> QED
    BY <1>1, <1>2, <1>3, <2>1, <2>2, OfferedKept, ServiceFrame
<1>8. CASE Remove(s)
  <2>1. /\ s \in registry /\ registry' = registry \ {s}
        /\ filter' = [filter EXCEPT ![s] = {}] /\ queue' = [queue EXCEPT ![s] = <<>>]
        /\ in_hand' = [in_hand EXCEPT ![s] = <<>>] /\ written' = [written EXCEPT ![s] = <<>>]
    BY <1>4, <1>8 DEF Remove, SubscriberAt
  <2>2. Offered' = [Offered EXCEPT ![s] = 0]
    BY <1>2, <1>3, <2>1 DEF Offered
  <2>3. Taken' = [Taken EXCEPT ![s] = <<>>]
    <3>1. written'[s] \o in_hand'[s] = <<>>
      BY <1>3, <2>1
    <3>2. \A t \in Subscribers : t # s => written'[t] \o in_hand'[t] = written[t] \o in_hand[t]
      BY <1>3, <2>1
    <3> QED
      BY <3>1, <3>2 DEF Taken
  <2>4. Service!Leave(s)
    BY <1>1, <2>1, <2>2, <2>3 DEF Service!Leave, Offered, Taken
  <2> QED
    BY <2>4 DEF Service!Next
<1>9. CASE WriteError(s) \/ ClientStalls(s) \/ ClientLeaves(s)
  <2>1. UNCHANGED <<registry, filter, queue, written, in_hand>>
    BY <1>9 DEF WriteError, ClientStalls, ClientLeaves, ClientChanges, entryVars, streamVars
  <2> QED
    BY <1>1, <1>2, <1>3, <2>1, OfferedKept, TakenKept, ServiceFrame
<1> QED
  BY <1>5, <1>6, <1>7, <1>8, <1>9 DEF SubscriberStep, Write

LEMMA ServiceStep ==
  ASSUME MapInv, [Next]_vars
  PROVE  [Service!Next]_(Service!pubsubVars)
<1>1. CASE UNCHANGED vars
  <2>1. UNCHANGED <<log, cursor, d_pc, pending, registry, filter, queue, written, in_hand>>
    BY <1>1 DEF vars, subscriberVars, entryVars, streamVars
  <2>2. \A s \in registry : Fanned(s)' = Fanned(s)
    BY <2>1 DEF Fanned, Frame
  <2> QED
    BY <2>1, <2>2, OfferedKept, TakenKept, ServiceFrame
<1> QED
  BY <1>1, NextSplit, ServiceDispatch, ServicePublisher, ServiceSubscriber

\* Every behaviour of the bus is one of the topic log: the threads, the locks,
\* the ring and what the other subscribers do cannot be told from what a
\* subscriber is given.
THEOREM ServiceImplemented == Spec => ImplementsPubSub
<1>1. Init => Service!Init
  BY ServiceInit
<1>2. MapInv /\ [Next]_vars => [Service!Next]_(Service!pubsubVars)
  BY ServiceStep
<1> QED
  BY <1>1, <1>2, MapInvariant, PTL DEF Spec, ImplementsPubSub, Service!Spec
=============================================================================
