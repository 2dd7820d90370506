--------------------------- MODULE BenchmarkProofs ---------------------------
(***************************************************************************)
(* Proofs about Benchmark for every number of subscribers, every length of *)
(* a run and every size of the bus: its type invariant, the barrier on a   *)
(* broker that acknowledges subscriptions, that no run with a sample       *)
(* missing is printed or compared, and that the statistics are exact.      *)
(***************************************************************************)
EXTENDS Benchmark, FiniteSetTheorems, SequenceTheorems, TLAPS

-----------------------------------------------------------------------------
(* The types.                                                                *)

MainPlaces == {"next", "lock", "check", "short", "wait", "settle", "publish", "join",
               "print", "failed", "panicked", "done"}
ThreadPlaces == {"connect", "check_in", "notify", "recv", "done", "panicked"}

\* What the main thread and the subscriber threads keep.
ThreadTypes ==
  /\ n_msgs \in MsgCounts
  /\ left \in Seq(Systems)
  /\ broker \in Systems \cup {"none"}
  /\ up \in BOOLEAN /\ compared \in BOOLEAN
  /\ m_pc \in MainPlaces
  /\ s_pc \in [Subs -> ThreadPlaces]
  /\ ready_count \in Nat /\ joined \in 0 .. NSubs
  /\ lats \in [Subs -> Seq(1 .. Total)]
  /\ all \in Seq(1 .. Total)
  /\ samples \in [Systems -> Seq(1 .. Total)]

\* What the broker keeps.
BrokerTypes ==
  /\ log \in Seq({Bench}) /\ Len(log) <= Total
  /\ members \in SUBSET Subs
  /\ interest \in [Subs -> {{}, {Bench.chan}}]
  /\ offered \in [Subs -> 0 .. Total]
  /\ backlog \in [Subs -> Seq(1 .. Total)]
  /\ taken \in [Subs -> Seq(1 .. Total)]

Types == ThreadTypes /\ BrokerTypes

\* The length of a run is a number, and no step changes it.
LEMMA TotalType == n_msgs \in MsgCounts => n_msgs \in Nat /\ Warmup \in Nat /\ Total \in Nat
BY BenchmarkAssumption DEF Total

LEMMA TotalKept == [Next]_vars => n_msgs' = n_msgs /\ Total' = Total
<1> SUFFICES ASSUME [Next]_vars PROVE n_msgs' = n_msgs
  BY DEF Total
<1>1. CASE UNCHANGED vars
  BY <1>1 DEF vars, mainVars
<1>2. CASE Main
  BY <1>2 DEF Main, NextSystem, PrintStats, PrintStatsPanics, PrintFailure, Finish, Lock,
    Look, Wait, PassBarrier, Settle, Publish, PublishFails, PublishOver, Join, JoinOver,
    JoinPanics, MainStep, mainVars
<1>3. CASE WakeUp \/ BrokerStops
  BY <1>3 DEF WakeUp, BrokerStops, MainStep, mainVars
<1>4. ASSUME NEW s \in Subs, Subscriber(s) \/ Register(s) \/ Offer(s) PROVE n_msgs' = n_msgs
  BY <1>4 DEF Subscriber, Connect, ConnectFails, CheckIn, Notify, Receive, Return,
    ReceiveFails, Register, Offer, mainVars
<1> QED
  BY <1>1, <1>2, <1>3, <1>4 DEF Next

-----------------------------------------------------------------------------
(* What a step does to the broker: on either broker it is one of these.      *)

Posted == log' = Append(log, Bench) /\ UNCHANGED <<members, interest, offered, backlog, taken>>

Joined(s) ==
  /\ s \notin members
  /\ members' = members \cup {s}
  /\ interest' = [interest EXCEPT ![s] = {Bench.chan}]
  /\ \E n \in 0 .. Len(log) : offered' = [offered EXCEPT ![s] = n]
  /\ UNCHANGED <<log, backlog, taken>>

Offered(s) ==
  /\ s \in members
  /\ offered[s] < Len(log)
  /\ offered' = [offered EXCEPT ![s] = @ + 1]
  /\ \/ UNCHANGED backlog
     \/ backlog' = [backlog EXCEPT ![s] = Append(@, offered[s] + 1)]
  /\ UNCHANGED <<log, members, interest, taken>>

Taken(s) ==
  /\ s \in members
  /\ backlog[s] # <<>>
  /\ backlog' = [backlog EXCEPT ![s] = Tail(@)]
  /\ taken' = [taken EXCEPT ![s] = Append(@, Head(backlog[s]))]
  /\ UNCHANGED <<log, members, interest, offered>>

LEMMA BrokerMain ==
  ASSUME Main, ~NextSystem
  PROVE  UNCHANGED brokerVars \/ (Posted /\ Len(log) < Total)
<1>1. CASE Publish
  BY <1>1 DEF Publish, Posted, AltaBus!Post
<1>2. CASE ~Publish
  BY <1>2 DEF Main, PrintStats, PrintStatsPanics, PrintFailure, Finish, Lock, Look, Wait,
    PassBarrier, Settle, PublishFails, PublishOver, Join, JoinOver, JoinPanics, MainStep
<1> QED
  BY <1>1, <1>2

LEMMA BrokerSubscriber ==
  ASSUME NEW s \in Subs, log \in Seq({Bench}), Subscriber(s) \/ Register(s) \/ Offer(s)
  PROVE  UNCHANGED brokerVars \/ Joined(s) \/ Offered(s) \/ (Receive(s) /\ Taken(s))
<1>1. CASE Connect(s)
  <2>1. Len(log) \in 0 .. Len(log)
    OBVIOUS
  <2>2. CASE broker = "valkey"
    BY <1>1, <2>1, <2>2 DEF Connect, Joined, Valkey!Join
  <2>3. CASE broker # "valkey"
    BY <1>1, <2>3 DEF Connect
  <2> QED
    BY <2>2, <2>3
<1>2. CASE Receive(s)
  BY <1>2 DEF Receive, Taken, AltaBus!Take
<1>3. CASE ConnectFails(s) \/ CheckIn(s) \/ Notify(s) \/ Return(s) \/ ReceiveFails(s)
  BY <1>3 DEF ConnectFails, CheckIn, Notify, Return, ReceiveFails
<1>4. CASE Register(s)
  BY <1>4 DEF Register, Joined, AltaBus!Join
<1>5. CASE Offer(s)
  <2>1. Valkey!Offer(s) \/ AltaBus!Offer(s)
    BY <1>5 DEF Offer
  <2>2. CASE Valkey!Offer(s)
    BY <2>2 DEF Offered, Valkey!Offer
  <2>3. CASE AltaBus!Offer(s)
    BY <2>3 DEF Offered, AltaBus!Offer
  <2> QED
    BY <2>1, <2>2, <2>3
<1> QED
  BY <1>1, <1>2, <1>3, <1>4, <1>5 DEF Subscriber

LEMMA BrokerSplit ==
  ASSUME [Next]_vars, log \in Seq({Bench})
  PROVE  \/ NextSystem \/ UNCHANGED brokerVars
         \/ Posted /\ Len(log) < Total
         \/ \E s \in Subs : Joined(s) \/ Offered(s) \/ (Receive(s) /\ Taken(s))
<1>1. CASE UNCHANGED vars
  BY <1>1 DEF vars
<1>2. CASE WakeUp \/ BrokerStops
  BY <1>2 DEF WakeUp, BrokerStops, MainStep
<1> QED
  BY <1>1, <1>2, BrokerMain, BrokerSubscriber DEF Next

-----------------------------------------------------------------------------
(* The types, step by step.                                                  *)

LEMMA TypesInit == Init => Types
<1> SUFFICES ASSUME Init PROVE Types
  OBVIOUS
<1>1. n_msgs \in Nat /\ Total \in Nat /\ 0 \in 0 .. Total /\ 0 \in 0 .. NSubs
  BY TotalType, BenchmarkAssumption DEF Init
<1>2. left \in Seq(Systems)
  <2>1. left \in {<<"bus", "valkey">>, <<"bus">>, <<"valkey">>, <<>>}
    BY BenchmarkAssumption DEF Init
  <2>2. /\ <<"bus", "valkey">> \in Seq(Systems) /\ <<"bus">> \in Seq(Systems)
        /\ <<"valkey">> \in Seq(Systems) /\ <<>> \in Seq(Systems)
    BY DEF Systems
  <2> QED
    BY <2>1, <2>2
<1>3. ThreadTypes
  <2>1. broker \in Systems \cup {"none"} /\ m_pc \in MainPlaces
    BY DEF Init, MainPlaces
  <2>2. s_pc \in [Subs -> ThreadPlaces]
    BY DEF Init, ThreadPlaces
  <2>3. lats \in [Subs -> Seq(1 .. Total)] /\ samples \in [Systems -> Seq(1 .. Total)]
    BY DEF Init
  <2>4. up \in BOOLEAN /\ compared \in BOOLEAN /\ n_msgs \in MsgCounts
    BY DEF Init
  <2>5. ready_count \in Nat /\ joined \in 0 .. NSubs /\ all \in Seq(1 .. Total)
    BY <1>1 DEF Init
  <2> QED
    BY ONLY <1>2, <2>1, <2>2, <2>3, <2>4, <2>5 DEF ThreadTypes
<1>4. BrokerTypes
  BY <1>1 DEF Init, AltaBus!Init, BrokerTypes
<1> QED
  BY <1>3, <1>4 DEF Types

\* What takes the first element off a sequence leaves a sequence.
LEMMA TailType ==
  ASSUME NEW S, NEW q \in Seq(S), q # <<>>
  PROVE  Head(q) \in S /\ Tail(q) \in Seq(S)
OBVIOUS

LEMMA BrokerTypesStep ==
  ASSUME Types, [Next]_vars
  PROVE  BrokerTypes'
<1>1. Total \in Nat /\ Total' = Total /\ BrokerTypes
  BY TotalType, TotalKept DEF Types, ThreadTypes
<1>2. CASE NextSystem
  BY <1>1, <1>2 DEF NextSystem, BrokerTypes
<1>3. CASE UNCHANGED brokerVars
  BY <1>1, <1>3 DEF brokerVars, BrokerTypes
<1>4. CASE Posted /\ Len(log) < Total
  <2>1. Bench \in {Bench} /\ log \in Seq({Bench})
    BY <1>1 DEF BrokerTypes
  <2>2. Append(log, Bench) \in Seq({Bench}) /\ Len(Append(log, Bench)) = Len(log) + 1
    BY <2>1
  <2>3. log' \in Seq({Bench}) /\ Len(log') = Len(log) + 1 /\ Len(log) \in Nat
    BY <1>4, <2>1, <2>2 DEF Posted
  <2>4. Len(log') <= Total
    BY <1>1, <1>4, <2>3
  <2> QED
    BY <1>1, <1>4, <2>3, <2>4 DEF Posted, BrokerTypes
<1>5. ASSUME NEW s \in Subs, Joined(s)
      PROVE  BrokerTypes'
  <2>1. PICK n \in 0 .. Len(log) : offered' = [offered EXCEPT ![s] = n]
    BY <1>5 DEF Joined
  <2>2. n \in 0 .. Total
    BY <1>1 DEF BrokerTypes
  <2>3. offered' \in [Subs -> 0 .. Total]
    BY <1>1, <2>1, <2>2 DEF BrokerTypes
  <2> QED
    BY <1>1, <1>5, <2>3 DEF Joined, BrokerTypes
<1>6. ASSUME NEW s \in Subs, Offered(s)
      PROVE  BrokerTypes'
  <2>1. offered[s] + 1 \in 1 .. Total /\ offered[s] + 1 \in 0 .. Total
    BY <1>1, <1>6 DEF Offered, BrokerTypes
  <2>2. offered' \in [Subs -> 0 .. Total]
    BY <1>1, <1>6, <2>1 DEF Offered, BrokerTypes
  <2>3. Append(backlog[s], offered[s] + 1) \in Seq(1 .. Total)
    BY <1>1, <2>1 DEF BrokerTypes
  <2>4. backlog' \in [Subs -> Seq(1 .. Total)]
    BY <1>1, <1>6, <2>3 DEF Offered, BrokerTypes
  <2> QED
    BY <1>1, <1>6, <2>2, <2>4 DEF Offered, BrokerTypes
<1>7. ASSUME NEW s \in Subs, Taken(s)
      PROVE  BrokerTypes'
  <2>1. backlog[s] \in Seq(1 .. Total) /\ backlog[s] # <<>> /\ taken[s] \in Seq(1 .. Total)
    BY <1>1, <1>7 DEF Taken, BrokerTypes
  <2>2. Head(backlog[s]) \in 1 .. Total /\ Tail(backlog[s]) \in Seq(1 .. Total)
    BY <2>1, TailType
  <2>3. Append(taken[s], Head(backlog[s])) \in Seq(1 .. Total)
    BY <2>1, <2>2
  <2> QED
    BY <1>1, <1>7, <2>2, <2>3 DEF Taken, BrokerTypes
<1> QED
  BY <1>1, <1>2, <1>3, <1>4, <1>5, <1>6, <1>7, BrokerSplit DEF BrokerTypes

LEMMA ThreadTypesMain ==
  ASSUME Types, [Next]_vars, Main \/ WakeUp \/ BrokerStops
  PROVE  ThreadTypes'
<1>1. /\ Total \in Nat /\ Total' = Total /\ n_msgs' = n_msgs /\ ThreadTypes
      /\ NSubs \in Nat
  BY TotalType, TotalKept, BenchmarkAssumption DEF Types, ThreadTypes
<1>2. CASE NextSystem
  <2>1. Head(left) \in Systems /\ Tail(left) \in Seq(Systems)
    BY <1>1, <1>2 DEF NextSystem, ThreadTypes
  <2> QED
    BY <1>1, <1>2, <2>1 DEF NextSystem, MainAt, ThreadTypes, MainPlaces, ThreadPlaces
<1>3. CASE PrintStats
  <2>1. samples' \in [Systems -> Seq(1 .. Total)]
    BY <1>1, <1>3 DEF PrintStats, ThreadTypes
  <2> QED
    BY <1>1, <1>3, <2>1 DEF PrintStats, MainAt, ThreadTypes, MainPlaces, threadVars
<1>4. CASE PrintStatsPanics \/ PrintFailure \/ Finish
  BY <1>1, <1>4 DEF PrintStatsPanics, PrintFailure, Finish, BothSamples, MainAt, ThreadTypes,
    MainPlaces, threadVars, mainVars
<1>5. CASE Lock \/ Look \/ Wait \/ PassBarrier \/ Settle \/ WakeUp
  BY <1>1, <1>5 DEF Lock, Look, Wait, PassBarrier, Settle, WakeUp, MainStep, MainAt,
    ThreadTypes, MainPlaces, threadVars, mainVars
<1>6. CASE Publish
  BY <1>1, <1>6 DEF Publish, ThreadTypes, threadVars, mainVars
<1>7. CASE PublishFails \/ PublishOver \/ JoinOver \/ JoinPanics
  BY <1>1, <1>7 DEF PublishFails, PublishOver, JoinOver, JoinPanics, MainStep, MainAt,
    ThreadTypes, MainPlaces, threadVars, mainVars
<1>8. CASE Join
  <2>1. joined + 1 \in 0 .. NSubs /\ joined + 1 \in Subs
    BY <1>1, <1>8 DEF Join, ThreadTypes, Subs
  <2>2. lats[joined + 1] \in Seq(1 .. Total) /\ all \in Seq(1 .. Total)
    BY <1>1, <2>1 DEF ThreadTypes
  <2>3. all \o lats[joined + 1] \in Seq(1 .. Total)
    BY <2>2
  <2> QED
    BY <1>1, <1>8, <2>1, <2>3 DEF Join, ThreadTypes, threadVars
<1>9. CASE BrokerStops
  BY <1>1, <1>9 DEF BrokerStops, ThreadTypes, threadVars, mainVars
<1> QED
  BY <1>2, <1>3, <1>4, <1>5, <1>6, <1>7, <1>8, <1>9 DEF Main

LEMMA ThreadTypesSubscriber ==
  ASSUME Types, [Next]_vars, NEW s \in Subs, Subscriber(s) \/ Register(s) \/ Offer(s)
  PROVE  ThreadTypes'
<1>1. /\ Total \in Nat /\ Total' = Total /\ n_msgs' = n_msgs /\ ThreadTypes
      /\ NSubs \in Nat
  BY TotalType, TotalKept, BenchmarkAssumption DEF Types, ThreadTypes
<1>2. CASE Connect(s) \/ ConnectFails(s) \/ Return(s) \/ ReceiveFails(s)
  BY <1>1, <1>2 DEF Connect, ConnectFails, Return, ReceiveFails, ThreadAt, ThreadTypes,
    ThreadPlaces, mainVars
<1>3. CASE CheckIn(s)
  <2>1. s_pc' \in [Subs -> ThreadPlaces]
    BY <1>1, <1>3 DEF CheckIn, Counted, ThreadAt, ThreadTypes, ThreadPlaces
  <2> QED
    BY <1>1, <1>3, <2>1 DEF CheckIn, ThreadTypes, mainVars
<1>4. CASE Notify(s)
  <2>1. s_pc' \in [Subs -> ThreadPlaces]
    BY <1>1, <1>4 DEF Notify, ThreadAt, ThreadTypes, ThreadPlaces
  <2> QED
    BY <1>1, <1>4, <2>1 DEF Notify, ThreadTypes, MainPlaces, mainVars
<1>5. CASE Receive(s)
  <2>1. backlog[s] \in Seq(1 .. Total) /\ backlog[s] # <<>> /\ lats[s] \in Seq(1 .. Total)
    BY <1>1, <1>5 DEF Receive, AltaBus!Take, Types, BrokerTypes, ThreadTypes
  <2>2. Head(backlog[s]) \in 1 .. Total
    BY <2>1, TailType
  <2>3. Append(lats[s], Head(backlog[s])) \in Seq(1 .. Total)
    BY <2>1, <2>2
  <2>4. lats' \in [Subs -> Seq(1 .. Total)]
    BY <1>1, <1>5, <2>3 DEF Receive, ThreadTypes
  <2> QED
    BY <1>1, <1>5, <2>4 DEF Receive, ThreadTypes, mainVars
<1>6. CASE Register(s) \/ Offer(s)
  BY <1>1, <1>6 DEF Register, Offer, ThreadTypes, threadVars, mainVars
<1> QED
  BY <1>2, <1>3, <1>4, <1>5, <1>6 DEF Subscriber

LEMMA TypesStep == Types /\ [Next]_vars => Types'
<1> SUFFICES ASSUME Types, [Next]_vars PROVE Types'
  OBVIOUS
<1>1. CASE UNCHANGED vars
  BY <1>1, TotalKept DEF vars, mainVars, threadVars, brokerVars, Types, ThreadTypes, BrokerTypes
<1>2. CASE Next
  BY <1>2, BrokerTypesStep, ThreadTypesMain, ThreadTypesSubscriber DEF Next, Types
<1> QED
  BY <1>1, <1>2

-----------------------------------------------------------------------------
(* The barrier.                                                              *)

\* The threads that are past their check-in; on Valkey, that subscribed as well: a
\* thread that could not connect is past it and did not check in.
CheckedIn == {s \in Subs : /\ s_pc[s] \notin {"connect", "check_in"}
                           /\ broker = "valkey" => s \in members}

Barrier ==
  /\ ready_count <= Cardinality(CheckedIn)
  /\ broker = "valkey" =>
       \A s \in Subs : s_pc[s] \in {"check_in", "notify", "recv"} => s \in members
  /\ m_pc \in {"settle", "publish", "join", "print"} => AllIn

LEMMA SubsFinite ==
  ASSUME NEW S \in SUBSET Subs
  PROVE  /\ IsFiniteSet(S) /\ Cardinality(S) \in Nat
         /\ NSubs \in Nat /\ Cardinality(S) <= NSubs
         /\ Cardinality(S) = NSubs => S = Subs
         /\ \A T \in SUBSET S : Cardinality(T) \in Nat /\ Cardinality(T) <= Cardinality(S)
<1>1. NSubs \in Nat /\ IsFiniteSet(Subs) /\ Cardinality(Subs) = NSubs
  BY BenchmarkAssumption, FS_Interval DEF Subs
<1>2. IsFiniteSet(S) /\ Cardinality(S) <= Cardinality(Subs)
      /\ (Cardinality(S) = Cardinality(Subs) => S = Subs)
  BY <1>1, FS_Subset
<1>3. ASSUME NEW T \in SUBSET S PROVE Cardinality(T) \in Nat /\ Cardinality(T) <= Cardinality(S)
  BY <1>2, FS_Subset, FS_CardinalityType
<1> QED
  BY <1>1, <1>2, <1>3, FS_CardinalityType

\* A set with one more element is larger by one.
LEMMA OneMore ==
  ASSUME NEW S \in SUBSET Subs, NEW s \in Subs \ S, NEW T \in SUBSET Subs, S \cup {s} \subseteq T
  PROVE  Cardinality(S) + 1 <= Cardinality(T)
<1>1. Cardinality(S \cup {s}) = Cardinality(S) + 1
  BY SubsFinite, FS_AddElement
<1> QED
  BY <1>1, SubsFinite

LEMMA BarrierInit == Init => Barrier
<1> SUFFICES ASSUME Init PROVE Barrier
  OBVIOUS
<1>1. CheckedIn \in SUBSET Subs
  BY DEF CheckedIn
<1> QED
  BY <1>1, SubsFinite DEF Init, Barrier

\* The count stays, and no thread that was past its check-in goes back.
LEMMA BarrierCount ==
  ASSUME ready_count \in Nat, ready_count <= Cardinality(CheckedIn),
         ready_count' = ready_count, CheckedIn \subseteq CheckedIn'
  PROVE  ready_count' <= Cardinality(CheckedIn')
<1>1. CheckedIn' \in SUBSET Subs /\ CheckedIn \in SUBSET CheckedIn'
  BY DEF CheckedIn
<1> QED
  BY <1>1, SubsFinite

\* The main thread moves, or the broker, and members only join.
LEMMA BarrierQuiet ==
  ASSUME Types, Barrier, UNCHANGED <<broker, s_pc, ready_count>>, members \subseteq members',
         m_pc' \in {"settle", "publish", "join", "print"} =>
           AllIn \/ m_pc \in {"settle", "publish", "join", "print"}
  PROVE  Barrier'
<1>1. CheckedIn \subseteq CheckedIn' /\ ready_count \in Nat
  BY DEF CheckedIn, Types, ThreadTypes
<1>2. ready_count' <= Cardinality(CheckedIn')
  BY <1>1, BarrierCount DEF Barrier
<1> QED
  BY <1>2 DEF Barrier, AllIn

LEMMA BarrierMain ==
  ASSUME Types, Barrier, Main \/ WakeUp \/ BrokerStops
  PROVE  Barrier'
<1>1. CASE NextSystem
  <2>1. CheckedIn' \in SUBSET Subs
    BY DEF CheckedIn
  <2> QED
    BY <1>1, <2>1, SubsFinite DEF NextSystem, MainAt, Barrier
<1>2. CASE PrintStats \/ PrintStatsPanics \/ PrintFailure \/ Finish
  BY <1>2, BarrierQuiet DEF PrintStats, PrintStatsPanics, PrintFailure, Finish, MainAt,
    mainVars, threadVars, brokerVars
<1>3. CASE Lock \/ Look \/ Wait \/ PassBarrier \/ Settle \/ WakeUp
  BY <1>3, BarrierQuiet DEF Lock, Look, Wait, PassBarrier, Settle, WakeUp, MainStep, MainAt,
    mainVars, threadVars, brokerVars
<1>4. CASE Publish
  BY <1>4, BarrierQuiet DEF Publish, AltaBus!Post, mainVars, threadVars
<1>5. CASE PublishFails \/ PublishOver \/ JoinOver \/ JoinPanics
  BY <1>5, BarrierQuiet DEF PublishFails, PublishOver, JoinOver, JoinPanics, MainStep, MainAt,
    mainVars, threadVars, brokerVars
<1>6. CASE Join \/ BrokerStops
  BY <1>6, BarrierQuiet DEF Join, BrokerStops, mainVars, threadVars, brokerVars
<1> QED
  BY <1>1, <1>2, <1>3, <1>4, <1>5, <1>6 DEF Main

LEMMA BarrierSubscriber ==
  ASSUME Types, Barrier, NEW s \in Subs, Subscriber(s) \/ Register(s) \/ Offer(s)
  PROVE  Barrier'
<1>1. ready_count \in Nat /\ s_pc \in [Subs -> ThreadPlaces]
  BY DEF Types, ThreadTypes
<1>2. CASE Connect(s)
  <2>1. /\ s_pc[s] = "connect" /\ s_pc' = [s_pc EXCEPT ![s] = "check_in"]
        /\ UNCHANGED <<m_pc, broker, ready_count>>
        /\ members \subseteq members' /\ (broker = "valkey" => s \in members')
    BY <1>2 DEF Connect, ThreadAt, Valkey!Join, mainVars, brokerVars
  <2>2. CheckedIn \subseteq CheckedIn'
    BY <1>1, <2>1 DEF CheckedIn
  <2>3. ready_count' <= Cardinality(CheckedIn')
    BY <1>1, <2>1, <2>2, BarrierCount DEF Barrier
  <2>4. broker = "valkey" =>
          \A t \in Subs : s_pc'[t] \in {"check_in", "notify", "recv"} => t \in members'
    BY <1>1, <2>1 DEF Barrier
  <2> QED
    BY <2>1, <2>3, <2>4 DEF Barrier, AllIn
<1>3. CASE ConnectFails(s) \/ Return(s) \/ ReceiveFails(s)
  <2>1. /\ s_pc[s] \in {"connect", "recv"} /\ UNCHANGED <<m_pc, broker, ready_count, members>>
        /\ \E p \in {"done", "panicked"} : s_pc' = [s_pc EXCEPT ![s] = p]
    BY <1>3 DEF ConnectFails, Return, ReceiveFails, ThreadAt, mainVars, brokerVars
  <2>2. CheckedIn \subseteq CheckedIn'
    BY <1>1, <2>1 DEF CheckedIn
  <2>3. ready_count' <= Cardinality(CheckedIn')
    BY <1>1, <2>1, <2>2, BarrierCount DEF Barrier
  <2>4. broker = "valkey" =>
          \A t \in Subs : s_pc'[t] \in {"check_in", "notify", "recv"} => t \in members'
    BY <1>1, <2>1 DEF Barrier
  <2> QED
    BY <2>1, <2>3, <2>4 DEF Barrier, AllIn
<1>4. CASE CheckIn(s)
  <2>1. /\ s_pc[s] = "check_in" /\ s_pc' = [s_pc EXCEPT ![s] = "notify"]
        /\ UNCHANGED <<m_pc, broker, members>> /\ ready_count' = ready_count + 1
    BY <1>4 DEF CheckIn, Counted, ThreadAt, mainVars, brokerVars
  <2>2. s \in Subs \ CheckedIn /\ CheckedIn \in SUBSET Subs /\ CheckedIn' \in SUBSET Subs
    BY <2>1 DEF CheckedIn
  <2>3. CheckedIn \cup {s} \subseteq CheckedIn'
    BY <1>1, <2>1 DEF CheckedIn, Barrier
  <2>4. Cardinality(CheckedIn) + 1 <= Cardinality(CheckedIn')
    BY <2>2, <2>3, OneMore
  <2>5. ready_count' <= Cardinality(CheckedIn')
    BY <1>1, <2>1, <2>2, <2>4, SubsFinite DEF Barrier
  <2>6. broker = "valkey" =>
          \A t \in Subs : s_pc'[t] \in {"check_in", "notify", "recv"} => t \in members'
    BY <1>1, <2>1 DEF Barrier
  <2>7. m_pc \in {"settle", "publish", "join", "print"} => AllIn'
    BY <1>1, <2>1, BenchmarkAssumption DEF Barrier, AllIn
  <2> QED
    BY <2>1, <2>5, <2>6, <2>7 DEF Barrier
<1>5. CASE Notify(s)
  <2>1. /\ s_pc[s] = "notify" /\ s_pc' = [s_pc EXCEPT ![s] = "recv"]
        /\ UNCHANGED <<broker, ready_count, members>>
        /\ m_pc' \in {"lock", m_pc}
    BY <1>5 DEF Notify, ThreadAt, mainVars, brokerVars
  <2>2. CheckedIn \subseteq CheckedIn'
    BY <1>1, <2>1 DEF CheckedIn
  <2>3. ready_count' <= Cardinality(CheckedIn')
    BY <1>1, <2>1, <2>2, BarrierCount DEF Barrier
  <2>4. broker = "valkey" =>
          \A t \in Subs : s_pc'[t] \in {"check_in", "notify", "recv"} => t \in members'
    BY <1>1, <2>1 DEF Barrier
  <2> QED
    BY <2>1, <2>3, <2>4 DEF Barrier, AllIn
<1>6. CASE Receive(s)
  BY <1>6, BarrierQuiet DEF Receive, AltaBus!Take, mainVars
<1>7. CASE Register(s)
  <2>1. members \subseteq members'
    BY <1>7 DEF Register, AltaBus!Join
  <2> QED
    BY <1>7, <2>1, BarrierQuiet DEF Register, mainVars, threadVars
<1>8. CASE Offer(s)
  BY <1>8, BarrierQuiet DEF Offer, AltaBus!Offer, Valkey!Offer, mainVars, threadVars
<1> QED
  BY <1>2, <1>3, <1>4, <1>5, <1>6, <1>7, <1>8 DEF Subscriber

LEMMA BarrierStep == Types /\ Barrier /\ [Next]_vars => Barrier'
<1> SUFFICES ASSUME Types, Barrier, [Next]_vars PROVE Barrier'
  OBVIOUS
<1>1. CASE UNCHANGED vars
  BY <1>1, BarrierQuiet DEF vars, mainVars, threadVars, brokerVars
<1>2. CASE Next
  BY <1>2, BarrierMain, BarrierSubscriber DEF Next
<1> QED
  BY <1>1, <1>2

LEMMA BarrierHolds == Spec => [](Types /\ Barrier)
BY TypesInit, TypesStep, BarrierInit, BarrierStep, PTL DEF Spec

\* The variables of the benchmark have their types: no thread checks in twice, and a
\* sample is a message of the run.
THEOREM TypeCorrect == Spec => []TypeOK
<1>1. ASSUME Types, Barrier PROVE TypeOK
  <2>1. ready_count \in 0 .. NSubs
    <3>1. CheckedIn \in SUBSET Subs
      BY DEF CheckedIn
    <3>2. ready_count \in Nat /\ ready_count <= Cardinality(CheckedIn)
      BY <1>1 DEF Barrier, Types, ThreadTypes
    <3>3. Cardinality(CheckedIn) \in Nat /\ NSubs \in Nat /\ Cardinality(CheckedIn) <= NSubs
      BY <3>1, SubsFinite
    <3> QED
      BY ONLY <3>2, <3>3
  <2>2. /\ n_msgs \in MsgCounts /\ broker \in Systems \cup {"none"} /\ joined \in 0 .. NSubs
        /\ lats \in [Subs -> Seq(1 .. Total)] /\ samples \in [Systems -> Seq(1 .. Total)]
        /\ log \in Seq({Bench}) /\ members \subseteq Subs
        /\ interest \in [Subs -> {{}, {Bench.chan}}] /\ offered \in [Subs -> 0 .. Total]
    BY <1>1 DEF Types, ThreadTypes, BrokerTypes
  <2>3. m_pc \in MainPlaces /\ s_pc \in [Subs -> ThreadPlaces]
    BY <1>1 DEF Types, ThreadTypes
  <2>4. {up, compared} \subseteq BOOLEAN
    BY <1>1 DEF Types, ThreadTypes
  <2>5. {backlog, taken} \subseteq [Subs -> Seq(1 .. Total)]
    BY <1>1 DEF Types, BrokerTypes
  <2> QED
    BY ONLY <2>1, <2>2, <2>3, <2>4, <2>5 DEF TypeOK, MainPlaces, ThreadPlaces
<1> QED
  BY <1>1, BarrierHolds, PTL

\* On Valkey, which acknowledges subscriptions, the publisher starts when all have
\* subscribed, as the comment at the barrier says.
THEOREM BarrierOnValkey == Spec => []AcknowledgedFirst
<1>1. ASSUME Types, Barrier, broker = "valkey", m_pc \in {"publish", "join", "print"}
      PROVE  members = Subs
  <2>1. CheckedIn \in SUBSET Subs /\ CheckedIn \subseteq members /\ members \subseteq Subs
    BY <1>1 DEF CheckedIn, Types, BrokerTypes
  <2>2. ready_count \in Nat /\ ready_count >= NSubs /\ ready_count <= Cardinality(CheckedIn)
    BY <1>1 DEF Barrier, AllIn, Types, ThreadTypes
  <2>3. Cardinality(CheckedIn) = NSubs
    BY <2>1, <2>2, SubsFinite
  <2> QED
    BY <2>1, <2>3, SubsFinite
<1>2. Types /\ Barrier => AcknowledgedFirst
  BY <1>1 DEF AcknowledgedFirst, RegisteredFirst
<1> QED
  BY <1>2, BarrierHolds, PTL

-----------------------------------------------------------------------------
(* What a subscriber is given.                                               *)

\* The positions t taken and b queued of a subscriber that was offered o: they
\* increase, so that each is at least its rank and leaves room for those after it.
Account(t, b, o) ==
  /\ Len(t) + Len(b) <= o
  /\ \A i \in 1 .. Len(t) : i <= t[i] /\ t[i] + (Len(t) - i) + Len(b) <= o
  /\ \A i \in 1 .. Len(b) : Len(t) + i <= b[i] /\ b[i] + (Len(b) - i) <= o

\* The samples of a thread are what it has taken after the warm-up.
Measured(l, t) ==
  /\ Len(l) = IF Len(t) > Warmup THEN Len(t) - Warmup ELSE 0
  /\ \A i \in 1 .. Len(l) : l[i] = t[Warmup + i]

Book(s) ==
  /\ s \notin members => taken[s] = <<>> /\ backlog[s] = <<>>
  /\ offered[s] <= Len(log)
  /\ Account(taken[s], backlog[s], offered[s])
  /\ Measured(lats[s], taken[s])
  /\ s_pc[s] = "done" => Len(taken[s]) = Total

Books == \A s \in Subs : Book(s)

LEMMA AccountEmpty == \A o \in Nat : Account(<<>>, <<>>, o)
BY DEF Account

LEMMA MeasuredEmpty == Measured(<<>>, <<>>)
BY BenchmarkAssumption DEF Measured

\* An offer that is dropped, and one that is queued.
LEMMA AccountDrop ==
  ASSUME NEW t \in Seq(Nat), NEW b \in Seq(Nat), NEW o \in Nat, Account(t, b, o)
  PROVE  Account(t, b, o + 1)
BY DEF Account

LEMMA AccountQueue ==
  ASSUME NEW t \in Seq(Nat), NEW b \in Seq(Nat), NEW o \in Nat, Account(t, b, o)
  PROVE  Account(t, Append(b, o + 1), o + 1)
<1> DEFINE d == Append(b, o + 1)
<1>1. /\ Len(d) = Len(b) + 1 /\ d[Len(b) + 1] = o + 1
      /\ \A i \in 1 .. Len(b) : d[i] = b[i]
  BY AppendProperties
<1>2. Len(t) \in Nat /\ Len(b) \in Nat
  OBVIOUS
<1>3. \A i \in 1 .. Len(t) : t[i] \in Nat
  OBVIOUS
<1>4. \A i \in 1 .. Len(b) : b[i] \in Nat
  OBVIOUS
<1> HIDE DEF d
<1>5. Len(t) + Len(d) <= o + 1
  BY ONLY <1>1, <1>2, Account(t, b, o), o \in Nat DEF Account
<1>6. ASSUME NEW i \in 1 .. Len(t) PROVE i <= t[i] /\ t[i] + (Len(t) - i) + Len(d) <= o + 1
  BY ONLY <1>1, <1>2, <1>3, Account(t, b, o), o \in Nat DEF Account
<1>7. ASSUME NEW i \in 1 .. Len(d) PROVE Len(t) + i <= d[i] /\ d[i] + (Len(d) - i) <= o + 1
  <2>1. CASE i = Len(b) + 1
    BY ONLY <1>1, <1>2, <2>1, Account(t, b, o), o \in Nat DEF Account
  <2>2. CASE i \in 1 .. Len(b)
    <3>1. Len(t) + i <= b[i] /\ b[i] + (Len(b) - i) <= o
      BY ONLY <2>2, Account(t, b, o) DEF Account
    <3>2. d[i] = b[i] /\ b[i] \in Nat
      BY <1>1, <1>4, <2>2
    <3> QED
      BY ONLY <1>1, <1>2, <2>2, <3>1, <3>2, o \in Nat
  <2> QED
    BY <1>1, <1>2, <2>1, <2>2
<1>8. Account(t, d, o + 1)
  BY ONLY <1>5, <1>6, <1>7 DEF Account
<1> QED
  BY <1>8 DEF d

LEMMA AccountTake ==
  ASSUME NEW t \in Seq(Nat), NEW b \in Seq(Nat), NEW o \in Nat, Account(t, b, o), b # <<>>
  PROVE  Account(Append(t, Head(b)), Tail(b), o)
<1> DEFINE u == Append(t, Head(b))
           d == Tail(b)
<1>1. Head(b) = b[1] /\ b[1] \in Nat /\ Len(b) >= 1 /\ Len(t) \in Nat /\ Len(b) \in Nat
  OBVIOUS
<1>2. /\ Len(u) = Len(t) + 1 /\ u[Len(t) + 1] = b[1]
      /\ \A i \in 1 .. Len(t) : u[i] = t[i] /\ t[i] \in Nat
  BY <1>1, AppendProperties
<1>3. /\ Len(d) = Len(b) - 1
      /\ \A i \in 1 .. Len(b) - 1 : d[i] = b[i + 1] /\ i + 1 \in 1 .. Len(b) /\ b[i + 1] \in Nat
  BY <1>1
<1> HIDE DEF u, d
<1>4. Len(u) + Len(d) <= o
  BY ONLY <1>1, <1>2, <1>3, Account(t, b, o), o \in Nat DEF Account
<1>5. ASSUME NEW i \in 1 .. Len(u) PROVE i <= u[i] /\ u[i] + (Len(u) - i) + Len(d) <= o
  <2>1. CASE i = Len(t) + 1
    <3>1. Len(t) + 1 <= b[1] /\ b[1] + (Len(b) - 1) <= o
      BY ONLY <1>1, Account(t, b, o) DEF Account
    <3> QED
      BY ONLY <1>1, <1>2, <1>3, <2>1, <3>1, o \in Nat
  <2>2. CASE i \in 1 .. Len(t)
    <3> DEFINE v == t[i]
    <3>1. i <= v /\ v + (Len(t) - i) + Len(b) <= o
      BY ONLY <2>2, Account(t, b, o) DEF Account
    <3>2. u[i] = v /\ v \in Nat /\ i \in Nat
      BY ONLY <1>1, <1>2, <2>2
    <3> HIDE DEF v
    <3>3. Len(u) = Len(t) + 1 /\ Len(d) = Len(b) - 1 /\ Len(t) \in Nat /\ Len(b) \in Nat
      BY ONLY <1>1, <1>2, <1>3
    <3> QED
      BY ONLY <3>1, <3>2, <3>3, o \in Nat
  <2> QED
    BY <1>1, <1>2, <2>1, <2>2
<1>6. ASSUME NEW i \in 1 .. Len(d) PROVE Len(u) + i <= d[i] /\ d[i] + (Len(d) - i) <= o
  <2>1. Len(t) + (i + 1) <= b[i + 1] /\ b[i + 1] + (Len(b) - (i + 1)) <= o
    BY ONLY <1>1, <1>3, <1>6, Account(t, b, o) DEF Account
  <2> QED
    BY ONLY <1>1, <1>2, <1>3, <1>6, <2>1, o \in Nat
<1>7. Account(u, d, o)
  BY ONLY <1>4, <1>5, <1>6 DEF Account
<1> QED
  BY <1>7 DEF u, d

\* One turn of the loop: of the warm-up, and after it.
LEMMA MeasuredNone ==
  ASSUME NEW l \in Seq(Nat), NEW t \in Seq(Nat), NEW m \in Nat, Measured(l, t), Len(t) < Warmup
  PROVE  Measured(l, Append(t, m))
<1>1. Warmup \in Nat /\ Len(t) \in Nat /\ Len(l) = 0
  BY BenchmarkAssumption DEF Measured
<1>2. Len(Append(t, m)) = Len(t) + 1
  BY AppendProperties
<1> QED
  BY <1>1, <1>2 DEF Measured

LEMMA MeasuredMore ==
  ASSUME NEW l \in Seq(Nat), NEW t \in Seq(Nat), NEW m \in Nat, Measured(l, t), Len(t) >= Warmup
  PROVE  Measured(Append(l, m), Append(t, m))
<1> DEFINE k == Append(l, m)
           u == Append(t, m)
<1>1. Warmup \in Nat /\ Len(t) \in Nat /\ Len(l) \in Nat /\ Len(l) = Len(t) - Warmup
  BY BenchmarkAssumption DEF Measured
<1>2. /\ Len(k) = Len(l) + 1 /\ k[Len(l) + 1] = m /\ \A i \in 1 .. Len(l) : k[i] = l[i]
      /\ Len(u) = Len(t) + 1 /\ u[Len(t) + 1] = m /\ \A i \in 1 .. Len(t) : u[i] = t[i]
  BY AppendProperties
<1> HIDE DEF k, u
<1>3. Len(k) = IF Len(u) > Warmup THEN Len(u) - Warmup ELSE 0
  BY ONLY <1>1, <1>2
<1>4. ASSUME NEW i \in 1 .. Len(k) PROVE k[i] = u[Warmup + i]
  <2>1. CASE i = Len(l) + 1
    BY ONLY <1>1, <1>2, <2>1
  <2>2. CASE i \in 1 .. Len(l)
    <3>1. Warmup + i \in 1 .. Len(t) /\ l[i] = t[Warmup + i]
      BY ONLY <1>1, <2>2, Measured(l, t) DEF Measured
    <3> QED
      BY ONLY <1>2, <2>2, <3>1
  <2> QED
    BY <1>1, <1>2, <2>1, <2>2
<1>5. Measured(k, u)
  BY ONLY <1>3, <1>4 DEF Measured
<1> QED
  BY <1>5 DEF k, u

\* What a step does to the threads' places and samples, if it is no reception.
LEMMA ThreadSplit ==
  ASSUME [Next]_vars, ~NextSystem, \A s \in Subs : ~Receive(s), s_pc \in [Subs -> ThreadPlaces]
  PROVE  /\ lats' = lats
         /\ \A t \in Subs : s_pc'[t] = "done" => s_pc[t] = "done" \/ Len(taken[t]) = Total
<1>1. CASE UNCHANGED vars
  BY <1>1 DEF vars, threadVars
<1>2. CASE Main
  BY <1>2 DEF Main, PrintStats, PrintStatsPanics, PrintFailure, Finish, Lock, Look, Wait,
    PassBarrier, Settle, Publish, PublishFails, PublishOver, Join, JoinOver, JoinPanics,
    MainStep, threadVars
<1>3. CASE WakeUp \/ BrokerStops
  BY <1>3 DEF WakeUp, BrokerStops, MainStep, threadVars
<1>4. ASSUME NEW s \in Subs, Subscriber(s)
      PROVE  /\ lats' = lats
             /\ \E p \in ThreadPlaces : /\ s_pc' = [s_pc EXCEPT ![s] = p]
                                        /\ p = "done" => Len(taken[s]) = Total
  BY <1>4 DEF Subscriber, Connect, ConnectFails, CheckIn, Counted, Notify, Return,
    ReceiveFails, ThreadAt, ThreadPlaces
<1>5. ASSUME NEW s \in Subs, Register(s) \/ Offer(s) PROVE UNCHANGED <<lats, s_pc>>
  BY <1>5 DEF Register, Offer, threadVars
<1> QED
  BY <1>1, <1>2, <1>3, <1>4, <1>5 DEF Next

\* The book of a subscriber that the step is not about.
LEMMA BookKept ==
  ASSUME NEW t \in Subs, Book(t), Total' = Total, Len(log) \in Nat, Len(log') \in Nat,
         Len(log') >= Len(log), offered[t] \in Nat,
         t \in members => t \in members',
         offered'[t] = offered[t], backlog'[t] = backlog[t], taken'[t] = taken[t],
         lats'[t] = lats[t],
         s_pc'[t] = "done" => s_pc[t] = "done" \/ Len(taken[t]) = Total
  PROVE  Book(t)'
BY DEF Book

LEMMA BooksInit == Init => Books
<1> SUFFICES ASSUME Init, NEW s \in Subs PROVE Book(s)
  BY DEF Books
<1>1. /\ taken[s] = <<>> /\ backlog[s] = <<>> /\ offered[s] = 0 /\ log = <<>>
      /\ lats[s] = <<>> /\ s_pc[s] = "connect"
  BY DEF Init, AltaBus!Init
<1> QED
  BY <1>1, AccountEmpty, MeasuredEmpty DEF Book

LEMMA BooksReceive ==
  ASSUME Types, Books, [Next]_vars, NEW s \in Subs, Receive(s)
  PROVE  Books'
<1>1. /\ Total \in Nat /\ Total' = Total /\ Len(log) \in Nat /\ Warmup \in Nat
      /\ offered \in [Subs -> Nat] /\ backlog \in [Subs -> Seq(1 .. Total)]
      /\ taken \in [Subs -> Seq(1 .. Total)] /\ lats \in [Subs -> Seq(1 .. Total)]
  BY TotalType, TotalKept DEF Types, ThreadTypes, BrokerTypes
<1>2. /\ UNCHANGED <<log, members, offered, s_pc>> /\ s \in members /\ backlog[s] # <<>>
      /\ backlog' = [backlog EXCEPT ![s] = Tail(backlog[s])]
      /\ taken' = [taken EXCEPT ![s] = Append(taken[s], Head(backlog[s]))]
      /\ s_pc[s] = "recv"
      /\ lats' = IF Len(taken[s]) >= Warmup
                 THEN [lats EXCEPT ![s] = Append(lats[s], Head(backlog[s]))] ELSE lats
  BY DEF Receive, AltaBus!Take, Sampled
<1>3. ASSUME NEW t \in Subs, t # s PROVE Book(t)'
  BY <1>1, <1>2, <1>3, BookKept DEF Books
<1> DEFINE u == taken[s]
           b == backlog[s]
           l == lats[s]
           o == offered[s]
<1>4. /\ u \in Seq(Nat) /\ b \in Seq(Nat) /\ l \in Seq(Nat) /\ o \in Nat /\ Len(u) \in Nat
      /\ b # <<>> /\ Head(b) \in Nat
  BY <1>1, <1>2, TailType
<1>5. Account(u, b, o) /\ Measured(l, u) /\ o <= Len(log)
  BY DEF Books, Book
<1>6. Account(Append(u, Head(b)), Tail(b), o)
  BY ONLY <1>4, <1>5, AccountTake
<1>7. Measured(IF Len(u) >= Warmup THEN Append(l, Head(b)) ELSE l, Append(u, Head(b)))
  <2>1. CASE Len(u) >= Warmup
    BY ONLY <1>1, <1>4, <1>5, <2>1, MeasuredMore
  <2>2. CASE Len(u) < Warmup
    <3>1. ~(Len(u) >= Warmup)
      BY ONLY <1>1, <1>4, <2>2
    <3> QED
      BY ONLY <1>1, <1>4, <1>5, <2>2, <3>1, MeasuredNone
  <2> QED
    BY ONLY <1>1, <1>4, <2>1, <2>2
<1>8. /\ taken'[s] = Append(u, Head(b)) /\ backlog'[s] = Tail(b) /\ offered'[s] = o
      /\ lats'[s] = (IF Len(u) >= Warmup THEN Append(l, Head(b)) ELSE l)
      /\ s \in members' /\ s_pc'[s] # "done" /\ log' = log
  BY <1>1, <1>2
<1> HIDE DEF u, b, l, o
<1>9. Book(s)'
  BY ONLY <1>5, <1>6, <1>7, <1>8 DEF Book
<1> QED
  BY <1>3, <1>9 DEF Books

LEMMA BooksStep == Types /\ Books /\ [Next]_vars => Books'
<1> SUFFICES ASSUME Types, Books, [Next]_vars PROVE Books'
  OBVIOUS
<1>1. /\ Total \in Nat /\ Total' = Total /\ log \in Seq({Bench}) /\ Len(log) \in Nat
      /\ s_pc \in [Subs -> ThreadPlaces] /\ offered \in [Subs -> Nat]
      /\ backlog \in [Subs -> Seq(1 .. Total)] /\ taken \in [Subs -> Seq(1 .. Total)]
  BY TotalType, TotalKept DEF Types, ThreadTypes, BrokerTypes
<1>2. CASE NextSystem
  <2>1. ASSUME NEW t \in Subs PROVE Book(t)'
    <3>1. /\ taken'[t] = <<>> /\ backlog'[t] = <<>> /\ offered'[t] = 0 /\ log' = <<>>
          /\ lats'[t] = <<>> /\ s_pc'[t] = "connect"
      BY <1>2, <2>1 DEF NextSystem
    <3> QED
      BY ONLY <3>1, AccountEmpty, MeasuredEmpty DEF Book
  <2> QED
    BY <2>1 DEF Books
<1>3. CASE \E s \in Subs : Receive(s)
  BY <1>3, BooksReceive
<1> SUFFICES ASSUME ~NextSystem, \A s \in Subs : ~Receive(s) PROVE Books'
  BY <1>2, <1>3
<1>4. /\ lats' = lats
      /\ \A t \in Subs : s_pc'[t] = "done" => s_pc[t] = "done" \/ Len(taken[t]) = Total
  BY <1>1, ThreadSplit
<1>5. CASE UNCHANGED brokerVars
  BY <1>1, <1>4, <1>5, BookKept DEF brokerVars, Books
<1>6. CASE Posted
  <2>1. Len(log') = Len(log) + 1
    BY <1>1, <1>6 DEF Posted
  <2>2. UNCHANGED <<members, interest, offered, backlog, taken>>
    BY <1>6 DEF Posted
  <2>3. Len(log') \in Nat /\ Len(log') >= Len(log)
    BY <1>1, <2>1
  <2> QED
    BY <1>1, <1>4, <2>2, <2>3, BookKept DEF Books
<1>7. ASSUME NEW s \in Subs, Joined(s) PROVE Books'
  <2>1. PICK n \in 0 .. Len(log) : offered' = [offered EXCEPT ![s] = n]
    BY <1>7 DEF Joined
  <2>2. /\ s \notin members /\ members' = members \cup {s}
        /\ UNCHANGED <<log, backlog, taken>>
    BY <1>7 DEF Joined
  <2>3. ASSUME NEW t \in Subs, t # s PROVE Book(t)'
    BY <1>1, <1>4, <2>1, <2>2, <2>3, BookKept DEF Books
  <2>4. /\ taken'[s] = <<>> /\ backlog'[s] = <<>> /\ offered'[s] = n /\ s \in members'
        /\ n <= Len(log') /\ n \in Nat /\ lats'[s] = lats[s] /\ taken[s] = <<>>
    BY <1>1, <1>4, <2>1, <2>2 DEF Books, Book
  <2>5. Measured(lats[s], taken[s]) /\ (s_pc[s] = "done" => Len(taken[s]) = Total)
    BY DEF Books, Book
  <2>6. s_pc'[s] = "done" => Len(taken'[s]) = Total'
    BY <1>1, <1>4, <2>4, <2>5
  <2>7. Book(s)'
    BY ONLY <2>4, <2>5, <2>6, AccountEmpty DEF Book
  <2> QED
    BY <2>3, <2>7 DEF Books
<1>8. ASSUME NEW s \in Subs, Offered(s) PROVE Books'
  <2>1. /\ s \in members /\ offered[s] < Len(log)
        /\ offered' = [offered EXCEPT ![s] = @ + 1]
        /\ UNCHANGED <<log, members, interest, taken>>
        /\ backlog' = backlog \/ backlog' = [backlog EXCEPT ![s] = Append(@, offered[s] + 1)]
    BY <1>8 DEF Offered
  <2>2. ASSUME NEW t \in Subs, t # s PROVE Book(t)'
    <3>1. offered'[t] = offered[t] /\ backlog'[t] = backlog[t]
      BY <1>1, <2>1, <2>2
    <3> QED
      BY <1>1, <1>4, <2>1, <3>1, BookKept DEF Books
  <2> DEFINE u == taken[s]
             b == backlog[s]
             o == offered[s]
  <2>3. u \in Seq(Nat) /\ b \in Seq(Nat) /\ o \in Nat
    BY <1>1
  <2>4. /\ Account(u, b, o) /\ Measured(lats[s], u)
        /\ (s_pc[s] = "done" => Len(u) = Total)
    BY DEF Books, Book
  <2>5. Account(u, b, o + 1) /\ Account(u, Append(b, o + 1), o + 1)
    BY ONLY <2>3, <2>4, AccountDrop, AccountQueue
  <2>6. /\ taken'[s] = u /\ offered'[s] = o + 1 /\ backlog'[s] \in {b, Append(b, o + 1)}
        /\ o + 1 <= Len(log') /\ lats'[s] = lats[s] /\ s \in members'
    BY <1>1, <1>4, <2>1
  <2>7. s_pc'[s] = "done" => Len(u) = Total'
    BY <1>1, <1>4, <2>4
  <2> HIDE DEF u, b, o
  <2>8. Book(s)'
    BY ONLY <2>4, <2>5, <2>6, <2>7 DEF Book
  <2> QED
    BY <2>2, <2>8 DEF Books
<1> QED
  BY <1>1, <1>5, <1>6, <1>7, <1>8, BrokerSplit

-----------------------------------------------------------------------------
(* What the main thread collects.                                            *)

\* The samples of n threads, one after the other.
AllOf(n) == [i \in 1 .. n * n_msgs |-> Warmup + 1 + ((i - 1) % n_msgs)]

Collected ==
  /\ all = AllOf(joined)
  /\ m_pc = "print" => joined = NSubs
  /\ \A b \in Systems : samples[b] # <<>> => Complete(samples[b])
  /\ compared => \A b \in Systems : Complete(samples[b])

\* A thread that has received as many messages as were published received them all,
\* each once: its samples are those after the warm-up.
LEMMA ReturnedAll ==
  ASSUME Types, Books, NEW s \in Subs, s_pc[s] = "done"
  PROVE  lats[s] = [i \in 1 .. n_msgs |-> Warmup + i]
<1>1. /\ n_msgs \in Nat /\ Warmup \in Nat /\ Total \in Nat /\ Total = Warmup + n_msgs
      /\ taken[s] \in Seq(1 .. Total) /\ backlog[s] \in Seq(1 .. Total) /\ offered[s] \in Nat
      /\ offered[s] <= Total /\ lats[s] \in Seq(1 .. Total)
  BY TotalType DEF Types, ThreadTypes, BrokerTypes, Total
<1>2. /\ Len(taken[s]) = Total /\ Account(taken[s], backlog[s], offered[s])
      /\ Measured(lats[s], taken[s])
  BY DEF Books, Book
<1> DEFINE u == taken[s]
           b == backlog[s]
           o == offered[s]
           l == lats[s]
<1>3. Len(l) = n_msgs
  BY <1>1, <1>2 DEF Measured
<1>4. ASSUME NEW i \in 1 .. n_msgs PROVE l[i] = Warmup + i
  <2> DEFINE v == u[Warmup + i]
  <2>1. l[i] = v /\ Warmup + i \in 1 .. Total /\ Warmup + i \in 1 .. Len(u)
    BY <1>1, <1>2, <1>3 DEF Measured
  <2>2. v \in 1 .. Total /\ Len(b) \in Nat /\ i \in Nat
    <3>1. u \in Seq(1 .. Total) /\ b \in Seq(1 .. Total)
      BY ONLY <1>1
    <3> HIDE DEF u, b
    <3>2. u[Warmup + i] \in 1 .. Total
      <4> DEFINE S == 1 .. Total
                 k == Warmup + i
      <4>1. u \in Seq(S) /\ k \in 1 .. Len(u)
        BY ONLY <2>1, <3>1
      <4> HIDE DEF S, k
      <4>2. u[k] \in S
        BY ONLY <4>1
      <4> QED
        BY ONLY <4>2 DEF S, k
    <3> QED
      BY ONLY <1>4, <3>1, <3>2
  <2>3. Warmup + i <= v /\ v + (Len(u) - (Warmup + i)) + Len(b) <= o
    BY <1>2, <2>1 DEF Account
  <2> HIDE DEF u, b, o, l, v
  <2>4. Len(u) = Total /\ o \in Nat /\ o <= Total
    BY <1>1, <1>2 DEF u, o
  <2> QED
    BY ONLY <1>1, <2>1, <2>2, <2>3, <2>4
<1> HIDE DEF l
<1>5. l \in Seq(1 .. Total)
  BY <1>1 DEF l
<1>6. l = [i \in 1 .. n_msgs |-> Warmup + i]
  BY <1>3, <1>4, <1>5
<1> QED
  BY <1>6 DEF l

\* The remainder of a number in the next block of n.
LEMMA BlockRemainder ==
  ASSUME NEW n \in Nat, NEW j \in Nat, NEW k \in 0 .. n - 1
  PROVE  ((j * n) + k) % n = k
OBVIOUS

LEMMA AllOfNext ==
  ASSUME NEW j \in Nat, n_msgs \in Nat, Warmup \in Nat
  PROVE  AllOf(j) \o [i \in 1 .. n_msgs |-> Warmup + i] = AllOf(j + 1)
<1> DEFINE n == n_msgs
           m == j * n
           f == AllOf(j)
           g == [i \in 1 .. n |-> Warmup + i]
           h == AllOf(j + 1)
<1>1. m \in Nat /\ n \in Nat /\ (j + 1) * n = m + n
  OBVIOUS
<1>2. \A i \in Nat \ {0} : i <= m + n /\ n # 0 => Warmup + 1 + ((i - 1) % n) \in Nat
  OBVIOUS
<1>3. \A k \in 1 .. n : ((m + k - 1) % n) = k - 1
  <2> SUFFICES ASSUME NEW k \in 1 .. n PROVE ((m + k - 1) % n) = k - 1
    OBVIOUS
  <2>1. k - 1 \in 0 .. n - 1 /\ m + k - 1 = (j * n) + (k - 1)
    BY <1>1
  <2>2. (((j * n) + (k - 1)) % n) = k - 1
    BY <1>1, <2>1, BlockRemainder
  <2> QED
    BY ONLY <2>1, <2>2
<1>4. f = [i \in 1 .. m |-> Warmup + 1 + ((i - 1) % n)]
  BY DEF AllOf
<1>5. h = [i \in 1 .. m + n |-> Warmup + 1 + ((i - 1) % n)]
  BY <1>1 DEF AllOf
<1> HIDE DEF m, f, g, h
<1>6. f \in Seq(Int) /\ Len(f) = m
  <2>1. \A i \in 1 .. m : Warmup + 1 + ((i - 1) % n) \in Int
    BY <1>1, <1>2
  <2> QED
    BY <1>1, <1>4, <2>1
<1>7. g \in Seq(Int) /\ Len(g) = n
  BY <1>1 DEF g
<1>8. h \in Seq(Int) /\ Len(h) = m + n
  <2>1. \A i \in 1 .. m + n : Warmup + 1 + ((i - 1) % n) \in Int
    BY <1>1, <1>2
  <2> QED
    BY <1>1, <1>5, <2>1
<1>9. /\ f \o g \in Seq(Int) /\ Len(f \o g) = m + n
      /\ \A i \in 1 .. m + n : (f \o g)[i] = IF i <= m THEN f[i] ELSE g[i - m]
  BY <1>1, <1>6, <1>7, ConcatProperties
<1>10. ASSUME NEW i \in 1 .. m + n PROVE (f \o g)[i] = h[i]
  <2>1. CASE i <= m
    <3>1. i \in 1 .. m /\ (f \o g)[i] = f[i]
      BY <1>1, <1>9, <2>1
    <3> QED
      BY <1>4, <1>5, <3>1
  <2>2. CASE i > m
    <3> DEFINE k == i - m
    <3>1. k \in 1 .. n /\ i - 1 = m + k - 1 /\ ~(i <= m)
      BY ONLY <1>1, <1>10, <2>2
    <3>2. (f \o g)[i] = g[k] /\ g[k] = Warmup + k
      BY <1>9, <3>1 DEF g
    <3>3. h[i] = Warmup + 1 + (k - 1)
      BY <1>3, <1>5, <3>1
    <3> HIDE DEF k
    <3>4. k \in Nat
      BY <3>1, <1>1
    <3> QED
      BY ONLY <3>2, <3>3, <3>4, Warmup \in Nat
  <2>3. i <= m \/ i > m
    BY <1>1
  <2> QED
    BY ONLY <2>1, <2>2, <2>3
<1>11. f \o g = h
  BY ONLY <1>8, <1>9, <1>10, SeqEqual
<1> QED
  BY <1>11 DEF f, g, h

LEMMA CollectedInit == Init => Collected
<1> SUFFICES ASSUME Init PROVE Collected
  OBVIOUS
<1>1. n_msgs \in Nat /\ 0 * n_msgs = 0
  BY TotalType DEF Init
<1>2. AllOf(0) = <<>>
  BY <1>1 DEF AllOf
<1> QED
  BY <1>2 DEF Init, Collected

\* The samples that were kept are those of a run's length, which does not change.
LEMMA CollectedKept ==
  ASSUME Collected, n_msgs' = n_msgs, UNCHANGED <<all, joined, samples, compared>>,
         m_pc' = "print" => m_pc = "print"
  PROVE  Collected'
BY DEF Collected, AllOf, Complete

LEMMA CollectedStep == Types /\ Books /\ Collected /\ [Next]_vars => Collected'
<1> SUFFICES ASSUME Types, Books, Collected, [Next]_vars PROVE Collected'
  OBVIOUS
<1>1. /\ n_msgs' = n_msgs /\ n_msgs \in Nat /\ Warmup \in Nat
      /\ NSubs \in Nat /\ joined \in 0 .. NSubs
  BY TotalType, TotalKept, BenchmarkAssumption DEF Types, ThreadTypes
<1>2. CASE UNCHANGED vars
  BY <1>1, <1>2, CollectedKept DEF vars, mainVars
<1>3. CASE NextSystem
  <2>1. AllOf(0)' = <<>>
    <3>1. 0 * n_msgs = 0
      BY <1>1
    <3> QED
      BY <1>1, <3>1 DEF AllOf
  <2>2. all' = <<>> /\ joined' = 0 /\ m_pc' = "lock" /\ UNCHANGED <<samples, compared>>
    BY <1>3 DEF NextSystem, MainAt
  <2> QED
    BY <1>1, <2>1, <2>2 DEF Collected, Complete
<1>4. CASE PrintStats
  <2>1. /\ m_pc = "print" /\ m_pc' = "next" /\ all # <<>>
        /\ samples' = [samples EXCEPT ![broker] = all]
        /\ UNCHANGED <<all, joined, compared>>
    BY <1>4 DEF PrintStats, MainAt
  <2>2. joined = NSubs /\ all = AllOf(NSubs)
    BY <2>1 DEF Collected
  <2>3. Complete(all)'
    BY <1>1, <2>1, <2>2 DEF AllOf, Complete
  <2>4. samples \in [Systems -> Seq(1 .. Total)]
    BY DEF Types, ThreadTypes
  <2>5. ASSUME NEW b \in Systems PROVE samples'[b] \in {all', samples[b]}
    BY <2>1, <2>4
  <2>6. \A b \in Systems : Complete(samples[b]) => Complete(samples[b])'
    <3> SUFFICES ASSUME NEW b \in Systems, Complete(samples[b]) PROVE Complete(samples[b])'
      OBVIOUS
    <3>1. CASE samples'[b] = all'
      BY <2>3, <3>1 DEF Complete
    <3>2. CASE samples'[b] = samples[b]
      BY <1>1, <3>2 DEF Complete
    <3> QED
      BY <2>5, <3>1, <3>2
  <2>7. \A b \in Systems : samples'[b] # <<>> => Complete(samples[b])'
    <3> SUFFICES ASSUME NEW b \in Systems, samples'[b] # <<>> PROVE Complete(samples[b])'
      OBVIOUS
    <3>1. CASE samples'[b] = all'
      BY <2>3, <3>1 DEF Complete
    <3>2. CASE samples'[b] = samples[b]
      BY <1>1, <3>2 DEF Collected, Complete
    <3> QED
      BY <2>5, <3>1, <3>2
  <2>8. all' = AllOf(joined)'
    BY <1>1, <2>1 DEF Collected, AllOf
  <2> QED
    BY <2>1, <2>6, <2>7, <2>8 DEF Collected
<1>5. CASE Finish
  <2>1. /\ m_pc' = "done" /\ compared' = BothSamples /\ UNCHANGED <<all, joined, samples>>
    BY <1>5 DEF Finish, MainAt
  <2> QED
    BY <1>1, <2>1 DEF Collected, BothSamples, AllOf, Complete
<1>6. CASE Join
  <2>1. /\ m_pc = "join" /\ UNCHANGED <<m_pc, samples, compared>>
        /\ joined < NSubs /\ joined' = joined + 1
        /\ s_pc[joined + 1] = "done" /\ all' = all \o lats[joined + 1]
    BY <1>6 DEF Join
  <2>2. joined + 1 \in Subs /\ joined \in Nat
    BY <1>1, <2>1 DEF Subs
  <2>3. lats[joined + 1] = [i \in 1 .. n_msgs |-> Warmup + i]
    BY <2>1, <2>2, ReturnedAll
  <2>4. all' = AllOf(joined + 1)
    BY <1>1, <2>1, <2>2, <2>3, AllOfNext DEF Collected
  <2>5. all' = AllOf(joined)'
    BY <1>1, <2>1, <2>4 DEF AllOf
  <2> QED
    BY <1>1, <2>1, <2>5 DEF Collected, Complete
<1>7. CASE JoinOver
  <2>1. m_pc = "join" /\ joined = NSubs /\ UNCHANGED <<all, joined, samples, compared>>
    BY <1>7 DEF JoinOver, MainStep, MainAt, mainVars
  <2> QED
    BY <1>1, <2>1 DEF Collected, AllOf, Complete
<1>8. CASE PrintStatsPanics \/ PrintFailure \/ Lock \/ Look \/ Wait \/ PassBarrier \/ Settle
           \/ WakeUp
  BY <1>1, <1>8, CollectedKept DEF PrintStatsPanics, PrintFailure, Lock, Look, Wait,
    PassBarrier, Settle, WakeUp, MainStep, MainAt, mainVars
<1>9. CASE Publish \/ PublishFails \/ PublishOver \/ JoinPanics \/ BrokerStops
  BY <1>1, <1>9, CollectedKept DEF Publish, PublishFails, PublishOver, JoinPanics,
    BrokerStops, MainStep, MainAt, mainVars
<1>10. ASSUME NEW s \in Subs, Subscriber(s) \/ Register(s) \/ Offer(s)
       PROVE  UNCHANGED <<all, joined, samples, compared>> /\ m_pc' \in {m_pc, "lock"}
  BY <1>10 DEF Subscriber, Connect, ConnectFails, CheckIn, Notify, Receive, Return,
    ReceiveFails, Register, Offer, mainVars
<1>11. CASE \E s \in Subs : Subscriber(s) \/ Register(s) \/ Offer(s)
  BY <1>1, <1>10, <1>11, CollectedKept
<1> QED
  BY <1>2, <1>3, <1>4, <1>5, <1>6, <1>7, <1>8, <1>9, <1>11 DEF Next, Main

\* A run whose statistics are printed has all its samples, and the comparison is one of
\* two such runs, however many messages were lost and whenever a broker stopped.
THEOREM SamplesComplete == Spec => []SamplesExact
<1>1. Spec => [](Types /\ Books /\ Collected)
  BY TypesInit, TypesStep, BooksInit, BooksStep, CollectedInit, CollectedStep, PTL DEF Spec
<1>2. Collected => SamplesExact
  BY DEF Collected, SamplesExact, AllOf, Complete
<1> QED
  BY <1>1, <1>2, PTL

-----------------------------------------------------------------------------
(* The percentiles.                                                          *)

\* A function that takes no value twice has room for its values.
LEMMA Room ==
  ASSUME NEW S, IsFiniteSet(S), NEW T, IsFiniteSet(T), NEW f \in [S -> T],
         \A x, y \in S : f[x] = f[y] => x = y
  PROVE  Cardinality(S) <= Cardinality(T)
<1>1. Cardinality(S) \in Nat /\ Cardinality(T) \in Nat
  BY FS_CardinalityType
<1>2. ~(Cardinality(T) < Cardinality(S))
  BY FS_PigeonHole
<1> QED
  BY ONLY <1>1, <1>2

LEMMA IntervalSize ==
  ASSUME NEW a \in Nat, NEW b \in Nat, a <= b + 1
  PROVE  IsFiniteSet(a .. b) /\ Cardinality(a .. b) = b - a + 1
<1>1. a \in Int /\ b \in Int
  OBVIOUS
<1>2. IsFiniteSet(a .. b) /\ Cardinality(a .. b) = IF a > b THEN 0 ELSE b - a + 1
  BY ONLY <1>1, FS_Interval
<1> QED
  BY <1>2

\* The elements that are not behind element i of d.
UpTo(d, i) == {j \in DOMAIN d : d[j] < d[i] \/ (d[j] = d[i] /\ j <= i)}
Ahead(d, i, j) == d[i] < d[j] \/ (d[i] = d[j] /\ i < j)

LEMMA RankType ==
  ASSUME NEW d \in Seq(Nat), NEW i \in 1 .. Len(d)
  PROVE  /\ Rank(d, i) = Cardinality(UpTo(d, i)) /\ Rank(d, i) \in 1 .. Len(d)
         /\ IsFiniteSet(UpTo(d, i)) /\ UpTo(d, i) \subseteq 1 .. Len(d)
<1>1. Len(d) \in Nat /\ DOMAIN d = 1 .. Len(d) /\ d[i] \in Nat
  OBVIOUS
<1>2. UpTo(d, i) \subseteq 1 .. Len(d) /\ i \in UpTo(d, i)
  BY <1>1 DEF UpTo
<1>3. IsFiniteSet(1 .. Len(d)) /\ Cardinality(1 .. Len(d)) = Len(d)
  <2>1. 1 \in Nat /\ 1 <= Len(d) + 1 /\ Len(d) - 1 + 1 = Len(d)
    BY <1>1
  <2> QED
    BY <1>1, <2>1, IntervalSize
<1>4. IsFiniteSet(UpTo(d, i)) /\ Cardinality(UpTo(d, i)) <= Len(d)
  BY <1>2, <1>3, FS_Subset
<1>5. Cardinality(UpTo(d, i)) \in Nat /\ Cardinality(UpTo(d, i)) # 0
  BY <1>2, <1>4, FS_CardinalityType, FS_EmptySet
<1>6. Cardinality(UpTo(d, i)) \in 1 .. Len(d)
  BY <1>1, <1>4, <1>5
<1> QED
  BY <1>2, <1>4, <1>6 DEF Rank, UpTo

LEMMA RankGrows ==
  ASSUME NEW d \in Seq(Nat), NEW i \in 1 .. Len(d), NEW j \in 1 .. Len(d), Ahead(d, i, j)
  PROVE  Rank(d, i) < Rank(d, j)
<1> DEFINE A == UpTo(d, i)
           B == UpTo(d, j)
<1>1. /\ Rank(d, i) = Cardinality(A) /\ Rank(d, i) \in 1 .. Len(d)
      /\ Rank(d, j) = Cardinality(B) /\ Rank(d, j) \in 1 .. Len(d) /\ IsFiniteSet(B)
  BY RankType
<1>2. DOMAIN d = 1 .. Len(d) /\ \A k \in 1 .. Len(d) : d[k] \in Nat
  OBVIOUS
<1>3. A \subseteq B
  BY <1>2 DEF UpTo, Ahead
<1>4. j \in B /\ j \notin A
  BY <1>2 DEF UpTo, Ahead
<1> HIDE DEF A, B
<1>5. Cardinality(A) <= Cardinality(B) /\ (Cardinality(B) = Cardinality(A) => B = A)
  BY <1>1, <1>3, FS_Subset
<1>6. Cardinality(A) # Cardinality(B)
  BY <1>4, <1>5
<1> QED
  BY ONLY <1>1, <1>5, <1>6

LEMMA RankTotal ==
  ASSUME NEW d \in Seq(Nat), NEW i \in 1 .. Len(d), NEW j \in 1 .. Len(d), i # j
  PROVE  Ahead(d, i, j) \/ Ahead(d, j, i)
<1>1. d[i] \in Nat /\ d[j] \in Nat /\ i \in Nat /\ j \in Nat
  OBVIOUS
<1> QED
  BY <1>1 DEF Ahead

\* There is an element at each place, and one only.
LEMMA PlaceTaken ==
  ASSUME NEW d \in Seq(Nat), NEW k \in 1 .. Len(d)
  PROVE  \E i \in 1 .. Len(d) : Rank(d, i) = k
<1> SUFFICES ASSUME \A i \in 1 .. Len(d) : Rank(d, i) # k PROVE FALSE
  OBVIOUS
<1> DEFINE n == Len(d)
           f == [i \in 1 .. n |-> Rank(d, i)]
           T == (1 .. n) \ {k}
<1>1. n \in Nat /\ k \in 1 .. n
  OBVIOUS
<1>2. \A i \in 1 .. n : Rank(d, i) \in 1 .. n
  BY RankType
<1>3. f \in [1 .. n -> T]
  BY <1>2
<1>4. \A x, y \in 1 .. n : f[x] = f[y] => x = y
  <2> SUFFICES ASSUME NEW x \in 1 .. n, NEW y \in 1 .. n, x # y
               PROVE  Rank(d, x) # Rank(d, y)
    OBVIOUS
  <2>1. Rank(d, x) < Rank(d, y) \/ Rank(d, y) < Rank(d, x)
    BY RankTotal, RankGrows
  <2>2. Rank(d, x) \in 1 .. n /\ Rank(d, y) \in 1 .. n
    BY ONLY <1>2, x \in 1 .. n, y \in 1 .. n
  <2> QED
    BY ONLY <2>1, <2>2
<1> HIDE DEF f
<1>5. IsFiniteSet(1 .. n) /\ Cardinality(1 .. n) = n
  <2>1. 1 \in Nat /\ 1 <= n + 1 /\ n - 1 + 1 = n
    BY ONLY <1>1
  <2> HIDE DEF n
  <2> QED
    BY ONLY <1>1, <2>1, IntervalSize
<1> HIDE DEF n
<1>6. IsFiniteSet(T) /\ Cardinality(T) = n - 1
  BY <1>1, <1>5, FS_RemoveElement
<1> HIDE DEF T
<1>7. n <= n - 1
  <2> DEFINE S == 1 .. n
  <2>1. /\ IsFiniteSet(S) /\ Cardinality(S) = n /\ f \in [S -> T]
        /\ \A x, y \in S : f[x] = f[y] => x = y
    BY ONLY <1>3, <1>4, <1>5
  <2> HIDE DEF S
  <2>2. Cardinality(S) <= Cardinality(T)
    BY ONLY <1>6, <2>1, Room
  <2> QED
    BY ONLY <1>6, <2>1, <2>2
<1> QED
  BY ONLY <1>1, <1>7

\* The element at place k of the sorted list.
At(d, k) == CHOOSE i \in DOMAIN d : Rank(d, i) = k

\* The sorted list has the elements of d, each at one place, and they ascend.
LEMMA SortedList ==
  ASSUME NEW d \in Seq(Nat)
  PROVE  /\ Sorted(d) \in Seq(Nat) /\ Len(Sorted(d)) = Len(d)
         /\ \A k \in 1 .. Len(d) : At(d, k) \in 1 .. Len(d) /\ Sorted(d)[k] = d[At(d, k)]
         /\ \A k, l \in 1 .. Len(d) : At(d, k) = At(d, l) => k = l
         /\ \A k, l \in 1 .. Len(d) : k <= l => Sorted(d)[k] <= Sorted(d)[l]
<1>1. DOMAIN d = 1 .. Len(d) /\ Len(d) \in Nat /\ \A i \in 1 .. Len(d) : d[i] \in Nat
  OBVIOUS
<1>2. \A k \in 1 .. Len(d) : At(d, k) \in 1 .. Len(d) /\ Rank(d, At(d, k)) = k
  BY <1>1, PlaceTaken DEF At
<1>3. Sorted(d) = [k \in 1 .. Len(d) |-> d[At(d, k)]]
  BY <1>1 DEF Sorted, At
<1>4. /\ Sorted(d) \in Seq(Nat) /\ Len(Sorted(d)) = Len(d)
      /\ \A k \in 1 .. Len(d) : Sorted(d)[k] = d[At(d, k)]
  BY <1>1, <1>2, <1>3
<1>5. ASSUME NEW k \in 1 .. Len(d), NEW l \in 1 .. Len(d), k <= l
      PROVE  d[At(d, k)] <= d[At(d, l)]
  <2> SUFFICES ASSUME ~(d[At(d, k)] <= d[At(d, l)]) PROVE FALSE
    OBVIOUS
  <2>1. At(d, k) \in 1 .. Len(d) /\ At(d, l) \in 1 .. Len(d)
        /\ Rank(d, At(d, k)) = k /\ Rank(d, At(d, l)) = l
    BY <1>2
  <2>2. Ahead(d, At(d, l), At(d, k))
    BY <1>1, <2>1 DEF Ahead
  <2>3. l < k
    BY <2>1, <2>2, RankGrows
  <2> QED
    BY <1>5, <2>3
<1> QED
  BY <1>2, <1>4, <1>5

\* If the sorted list has elements of a set from place a to place b, so many of them are
\* in the list.
LEMMA Many ==
  ASSUME NEW d \in Seq(Nat), NEW a \in 1 .. Len(d), NEW b \in 1 .. Len(d), a <= b,
         NEW T \in SUBSET (1 .. Len(d)), \A k \in a .. b : At(d, k) \in T
  PROVE  Cardinality(T) \in Nat /\ b - a + 1 <= Cardinality(T) /\ Cardinality(T) <= Len(d)
<1> DEFINE f == [k \in a .. b |-> At(d, k)]
<1>1. Len(d) \in Nat /\ a \in Nat /\ b \in Nat
  OBVIOUS
<1>2. IsFiniteSet(1 .. Len(d)) /\ Cardinality(1 .. Len(d)) = Len(d)
  <2>1. 1 \in Nat /\ 1 <= Len(d) + 1 /\ Len(d) - 1 + 1 = Len(d)
    BY <1>1
  <2> QED
    BY <1>1, <2>1, IntervalSize
<1>3. IsFiniteSet(T) /\ Cardinality(T) <= Len(d) /\ Cardinality(T) \in Nat
  BY <1>2, FS_Subset, FS_CardinalityType
<1>4. IsFiniteSet(a .. b) /\ Cardinality(a .. b) = b - a + 1
  BY <1>1, IntervalSize
<1>5. a .. b \subseteq 1 .. Len(d)
  OBVIOUS
<1>6. f \in [a .. b -> T] /\ \A x, y \in a .. b : f[x] = f[y] => x = y
  BY <1>5, SortedList
<1> HIDE DEF f
<1>7. Cardinality(a .. b) <= Cardinality(T)
  BY <1>3, <1>4, <1>6, Room
<1> QED
  BY <1>3, <1>4, <1>7

\* The two places that the percentile is taken between, and the share of each side.
Places(n, p, k, lo, hi) ==
  k = (n - 1) * p /\ lo = 1 + k \div Whole /\ hi = IF lo < n THEN lo + 1 ELSE n
Shares(n, p, k, lo, hi) ==
  /\ k \in Nat /\ k % Whole \in 0 .. 999 /\ lo \in 1 .. n /\ hi \in 1 .. n /\ lo <= hi
  /\ lo * Whole >= k /\ (n - hi + 1) * Whole >= (n - 1) * (Whole - p)
  /\ p = Whole => lo = n

LEMMA PlacesShare ==
  ASSUME NEW n \in Nat, n # 0, NEW p \in Printed, NEW k, NEW lo, NEW hi, Places(n, p, k, lo, hi)
  PROVE  Shares(n, p, k, lo, hi)
<1>0. k = (n - 1) * p /\ lo = 1 + k \div Whole /\ hi = IF lo < n THEN lo + 1 ELSE n
  BY DEF Places
<1>1. Whole = 1000 /\ p \in {500, 950, 990, 999, 1000}
  BY DEF Whole, Printed
<1>2. k \in Nat /\ k <= (n - 1) * 1000 /\ (n - 1) * (1000 - p) = (n - 1) * 1000 - k
      /\ (p = 1000 => k = (n - 1) * 1000) /\ (p # 1000 => n = 1 \/ k < (n - 1) * 1000)
  BY ONLY <1>1, n \in Nat, n # 0, <1>0
<1>3. k = 1000 * (k \div 1000) + (k % 1000) /\ k % 1000 \in 0 .. 999 /\ k \div 1000 \in Nat
  BY ONLY <1>2
<1> DEFINE q == k \div 1000
           r == k % 1000
<1>4. lo = 1 + q /\ k % Whole = r
  BY ONLY <1>0, <1>1
<1> HIDE DEF q, r
<1>5. k = 1000 * q + r /\ r \in 0 .. 999 /\ q \in Nat
  BY ONLY <1>3 DEF q, r
<1>6. q <= n - 1 /\ (p = 1000 => q = n - 1) /\ (p # 1000 => n = 1 \/ q < n - 1)
  BY ONLY <1>2, <1>5, n \in Nat, n # 0
<1>7. lo \in 1 .. n /\ hi \in 1 .. n /\ lo <= hi /\ (p = 1000 => lo = n)
  BY ONLY <1>4, <1>5, <1>6, n \in Nat, n # 0, <1>0
<1>8. lo * 1000 >= k
  BY ONLY <1>4, <1>5
<1>9. (n - hi + 1) * 1000 >= (n - 1) * 1000 - k
  BY ONLY <1>4, <1>5, <1>6, <1>7, n \in Nat, <1>0
<1> QED
  BY ONLY <1>1, <1>2, <1>4, <1>5, <1>7, <1>8, <1>9 DEF Shares

\* percentile() of the sorted list divides it in the two shares, whatever the list is.
LEMMA PercentileDivides ==
  ASSUME NEW d \in Seq(Nat), NEW p \in Printed
  PROVE  Divides(d, p)
<1> DEFINE n  == Len(d)
           s  == Sorted(d)
           k  == (n - 1) * p
           lo == 1 + k \div Whole
           hi == IF lo < n THEN lo + 1 ELSE n
           v  == Percentile(s, p)
           Below == {i \in DOMAIN d : d[i] * Whole <= v}
           Above == {i \in DOMAIN d : d[i] * Whole >= v}
<1>1. /\ s \in Seq(Nat) /\ Len(s) = n /\ n \in Nat /\ DOMAIN d = 1 .. n
      /\ \A i \in 1 .. n : At(d, i) \in 1 .. n /\ s[i] = d[At(d, i)]
      /\ \A i, j \in 1 .. n : i <= j => s[i] <= s[j]
      /\ \A i \in 1 .. n : s[i] \in Nat
  BY SortedList
<1>2. p \in Nat /\ p <= Whole /\ Whole = 1000
  BY DEF Printed, Whole
<1>3. CASE n = 0
  <2>1. Below = {} /\ Above = {}
    BY <1>1, <1>3
  <2>2. Cardinality(Below) = 0 /\ Cardinality(Above) = 0
    BY <2>1, FS_EmptySet
  <2>3. /\ 0 * Whole >= (n - 1) * p /\ 0 * Whole >= (n - 1) * (Whole - p)
    BY ONLY <1>2, <1>3
  <2> QED
    BY <1>3, <2>2, <2>3 DEF Divides
<1>4. CASE n # 0
  <2>1. /\ k \in Nat /\ k % Whole \in 0 .. 999 /\ lo \in 1 .. n /\ hi \in 1 .. n /\ lo <= hi
        /\ lo * Whole >= k /\ (n - hi + 1) * Whole >= (n - 1) * (Whole - p)
        /\ p = Whole => lo = n
    <3>1. n \in Nat /\ p \in Printed /\ Places(n, p, k, lo, hi)
      BY <1>1 DEF Places
    <3> HIDE DEF n, k, lo, hi
    <3>2. Shares(n, p, k, lo, hi)
      BY ONLY <1>4, <3>1, PlacesShare
    <3> QED
      BY ONLY <3>2 DEF Shares
  <2>2. v = s[lo] * Whole + (s[hi] - s[lo]) * (k % Whole)
    <3>1. s # <<>>
      BY <1>1, <1>4
    <3> HIDE DEF s
    <3> QED
      BY <1>1, <3>1 DEF Percentile
  <2>3. v \in Nat /\ s[lo] * Whole <= v /\ v <= s[hi] * Whole
    <3> DEFINE x == s[lo]
               y == s[hi]
               r == k % Whole
    <3>1. x \in Nat /\ y \in Nat /\ x <= y /\ r \in 0 .. 999
      BY <1>1, <2>1
    <3>2. v = x * 1000 + (y - x) * r
      BY <1>2, <2>2
    <3> HIDE DEF x, y, r, v
    <3> DEFINE z == y - x
    <3>3. z \in Nat /\ y = x + z
      BY ONLY <3>1
    <3>4. z * r \in Nat /\ z * r <= z * 1000
      <4> HIDE DEF z
      <4> QED
        BY ONLY <3>1, <3>3
    <3>5. v = x * 1000 + z * r
      BY ONLY <3>2
    <3> HIDE DEF z
    <3> DEFINE w == z * r
    <3>6. w \in Nat /\ w <= z * 1000 /\ v = x * 1000 + w
      BY ONLY <3>4, <3>5
    <3> HIDE DEF w
    <3>7. v \in Nat /\ x * 1000 <= v /\ v <= y * 1000
      BY ONLY <3>1, <3>3, <3>6
    <3> QED
      BY <1>2, <3>7 DEF x, y
  <2> HIDE DEF s, k, v
  <2>4. ASSUME NEW i \in 1 .. lo PROVE At(d, i) \in Below
    <3>1. i \in 1 .. n /\ i <= lo
      BY <2>1
    <3>2. s[i] <= s[lo] /\ s[i] \in Nat /\ s[lo] \in Nat
      BY <1>1, <2>1, <3>1
    <3>3. s[i] * Whole <= v
      BY <1>2, <2>3, <3>2
    <3> QED
      BY <1>1, <3>1, <3>3
  <2>5. ASSUME NEW i \in hi .. n PROVE At(d, i) \in Above
    <3>1. i \in 1 .. n /\ hi <= i
      BY <2>1
    <3>2. s[hi] <= s[i] /\ s[i] \in Nat /\ s[hi] \in Nat
      BY <1>1, <2>1, <3>1
    <3>3. s[i] * Whole >= v
      BY <1>2, <2>3, <3>2
    <3> QED
      BY <1>1, <3>1, <3>3
  <2>6. Below \subseteq 1 .. n /\ Above \subseteq 1 .. n
    BY <1>1
  <2> HIDE DEF Below, Above
  <2>7. Cardinality(Below) \in Nat /\ lo - 1 + 1 <= Cardinality(Below) /\ Cardinality(Below) <= n
    <3>1. 1 \in 1 .. n /\ 1 <= lo
      BY <1>1, <1>4, <2>1
    <3> QED
      BY <2>1, <2>4, <2>6, <3>1, Many
  <2>8. Cardinality(Above) \in Nat /\ n - hi + 1 <= Cardinality(Above)
    <3>1. n \in 1 .. n /\ hi <= n
      BY <1>1, <1>4, <2>1
    <3> QED
      BY <2>1, <2>5, <2>6, <3>1, Many
  <2>9. /\ Cardinality(Below) * Whole >= k
        /\ Cardinality(Above) * Whole >= (n - 1) * (Whole - p)
        /\ p = Whole => Cardinality(Below) = n
    <3> DEFINE a == Cardinality(Below)
               b == Cardinality(Above)
               e == (n - 1) * (Whole - p)
    <3>1. e \in Int
      BY <1>1, <1>2
    <3>2. a \in Nat /\ lo <= a /\ a <= n /\ b \in Nat /\ n - hi + 1 <= b
      BY <2>1, <2>7, <2>8
    <3> HIDE DEF a, b, e
    <3>3. (n - hi + 1) * Whole >= e
      BY <2>1 DEF e
    <3> HIDE DEF n, lo, hi
    <3>4. /\ n \in Nat /\ lo \in 1 .. n /\ hi \in 1 .. n /\ k \in Nat
          /\ lo * 1000 >= k /\ (n - hi + 1) * 1000 >= e /\ (p = 1000 => lo = n)
      BY ONLY <1>1, <1>2, <2>1, <3>3
    <3>5. a * 1000 >= k /\ b * 1000 >= e /\ (p = 1000 => a = n)
      BY ONLY <3>1, <3>2, <3>4
    <3>6. a * Whole >= k /\ b * Whole >= e /\ (p = Whole => a = n)
      BY ONLY <1>2, <3>5
    <3> QED
      BY <3>6 DEF a, b, e
  <2> QED
    BY <2>9 DEF Divides, Below, Above, v, s, k
<1> QED
  BY <1>3, <1>4

-----------------------------------------------------------------------------
(* The histogram.                                                            *)

\* The value belongs into the row, by the bounds on the row's label.
InRow(v, b) ==
  /\ b > 0 => Boundaries[b] <= v
  /\ b < Len(Boundaries) => v < Boundaries[b + 1]

\* As the boundaries increase, the ones a value has reached are the first ones.
LEMMA RowReached ==
  ASSUME NEW v \in Nat, NEW b \in 0 .. 14, InRow(v, b)
  PROVE  {i \in DOMAIN Boundaries : v >= Boundaries[i]} = 1 .. b
<1>1. Len(Boundaries) = 14 /\ DOMAIN Boundaries = 1 .. 14
  BY DEF Boundaries
<1>2. /\ \A i \in 1 .. 14 : Boundaries[i] \in Nat
      /\ \A i \in 1 .. 14, j \in 1 .. 14 : i <= j => Boundaries[i] <= Boundaries[j]
  BY DEF Boundaries
<1> HIDE DEF Boundaries
<1>3. ASSUME NEW i \in 1 .. 14 PROVE v >= Boundaries[i] <=> i <= b
  <2>1. CASE i <= b
    <3>1. b \in 1 .. 14 /\ Boundaries[b] <= v
      BY <2>1 DEF InRow
    <3> QED
      BY <1>2, <2>1, <3>1
  <2>2. CASE i > b
    <3>1. b + 1 \in 1 .. 14 /\ b + 1 <= i /\ v < Boundaries[b + 1]
      BY <1>1, <2>2 DEF InRow
    <3> QED
      BY <1>2, <2>2, <3>1
  <2> QED
    BY <2>1, <2>2
<1> QED
  BY <1>1, <1>3

\* Each value belongs into a row.
LEMMA SomeRow ==
  ASSUME NEW v \in Nat
  PROVE  \E b \in 0 .. 14 : InRow(v, b)
BY DEF InRow, Boundaries

\* histogram() counts each sample in the row under whose label it falls, whatever the
\* samples are.
THEOREM HistogramExact ==
  ASSUME NEW d \in Seq(Nat), NEW b \in 0 .. Len(Boundaries)
  PROVE  CountsBucket(d, b)
<1>1. Len(Boundaries) = 14
  BY DEF Boundaries
<1>2. ASSUME NEW v \in Nat, NEW c \in 0 .. 14, InRow(v, c) PROVE Bucket(v) = c
  <2>1. {i \in DOMAIN Boundaries : v >= Boundaries[i]} = 1 .. c
    BY <1>2, RowReached
  <2>2. Cardinality(1 .. c) = c
    <3>1. Cardinality(1 .. c) = IF 1 > c THEN 0 ELSE c - 1 + 1
      BY FS_Interval, 1 \in Int, c \in Int
    <3> QED
      BY <3>1
  <2> QED
    BY ONLY <2>1, <2>2 DEF Bucket
<1>3. ASSUME NEW v \in Nat PROVE Bucket(v) = b <=> InRow(v, b)
  BY <1>1, <1>2, SomeRow
<1>4. {i \in DOMAIN d : Bucket(d[i]) = b} = {i \in DOMAIN d : InRow(d[i], b)}
  BY <1>3
<1> QED
  BY <1>4 DEF CountsBucket, Counts, InRow
\* The statistics that are printed divide the samples as their labels say, whatever
\* latencies were measured (percentile(), histogram()).
THEOREM StatisticsExact == Spec => []StatsExact
<1>1. Types => StatsExact
  <2> SUFFICES ASSUME Types, NEW d \in [1 .. Len(all) -> Latencies]
               PROVE  /\ \A p \in Printed : Divides(d, p)
                      /\ \A b \in 0 .. Len(Boundaries) : CountsBucket(d, b)
    BY DEF StatsExact
  <2>1. Len(all) \in Nat
    BY DEF Types, ThreadTypes
  <2>2. d \in Seq(Nat)
    <3>1. Latencies \subseteq Nat
      BY BenchmarkAssumption
    <3> DEFINE m == Len(all)
    <3>2. d \in [1 .. m -> Nat]
      BY ONLY <3>1, d \in [1 .. Len(all) -> Latencies]
    <3>3. m \in Nat
      BY ONLY <2>1
    <3> HIDE DEF m
    <3> QED
      BY ONLY <3>2, <3>3
  <2> QED
    BY <2>2, PercentileDivides, HistogramExact
<1> QED
  BY <1>1, BarrierHolds, PTL
=============================================================================
