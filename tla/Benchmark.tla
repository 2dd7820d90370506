------------------------------ MODULE Benchmark ------------------------------
(***************************************************************************)
(* The latency benchmark, bench/src/bin/latency.rs: a main thread that     *)
(* runs bench_bus*() and then bench_redis*(), each with one thread per     *)
(* subscriber.  The subscribers subscribe, check in at a counter under a   *)
(* mutex and a condition variable, and read as many messages as the main   *)
(* thread publishes once it has seen them all.  bench_bus() and            *)
(* bench_redis() are the case of one subscriber.                           *)
(*                                                                         *)
(* Alta-Bus is what module PubSub says of it, the specification that the   *)
(* bus implements: queues that drop when full, and subscriptions that      *)
(* nobody acknowledges.  Valkey, the baseline, is known only as the        *)
(* benchmark uses it: subscribe() returns when the subscription is in      *)
(* place, and no message is dropped.                                       *)
(***************************************************************************)
EXTENDS Statistics

CONSTANTS
  NSubs,        \* the number of subscriber threads, --subscribers
  Warmup,       \* --warmup
  MsgCounts,    \* what --count may be
  Plans,        \* the systems to run, in order: --no-bus and --no-redis
  QueueDepth,   \* DEFAULT_QUEUE_DEPTH
  RingSize,     \* RING_SIZE
  Latencies     \* what a sample may be, in nanoseconds

ASSUME BenchmarkAssumption ==
  /\ NSubs \in Nat \ {0} /\ Warmup \in Nat /\ MsgCounts \subseteq Nat
  /\ Plans \subseteq {<<"bus", "valkey">>, <<"bus">>, <<"valkey">>, <<>>}
  /\ QueueDepth \in Nat \ {0} /\ RingSize \in Nat \ {0}
  /\ Latencies \subseteq Nat

Subs == 1 .. NSubs
Systems == {"bus", "valkey"}
MaxTotal == Warmup + CHOOSE m \in MsgCounts : \A k \in MsgCounts : k <= m

VARIABLES
  n_msgs,      \* the argument --count
  left,        \* the systems that are still to be run
  broker,      \* the one that runs, or ran last
  up,          \* its broker runs
  m_pc,        \* the main thread; it holds the mutex in "check" and "short"
  s_pc,        \* the subscriber threads
  ready_count, \* how many have checked in
  lats,        \* each thread's samples, as the messages they are of
  all,         \* the samples of the threads that were joined, in order
  joined,      \* how many were
  samples,     \* bus_lats and redis_lats
  compared,    \* the comparison was printed
  log, members, interest, offered, backlog, taken  \* the broker's: see PubSub

mainVars   == <<n_msgs, left, broker, all, joined, samples, compared>>
threadVars == <<s_pc, ready_count, lats>>
brokerVars == <<log, members, interest, offered, backlog, taken>>
vars == <<mainVars, m_pc, threadVars, up, brokerVars>>

Total == Warmup + n_msgs
Bench == [chan |-> "bench"]

AltaBus == INSTANCE PubSub WITH
  Members <- Subs, Topics <- {Bench.chan}, Interests <- {{Bench.chan}},
  Depth <- QueueDepth, Window <- RingSize, Posts <- {Bench}

Valkey == INSTANCE PubSub WITH
  Members <- Subs, Topics <- {Bench.chan}, Interests <- {{Bench.chan}},
  Depth <- MaxTotal, Window <- 0, Posts <- {Bench}

Init ==
  /\ n_msgs \in MsgCounts /\ left \in Plans
  /\ broker = "none" /\ up = FALSE
  /\ m_pc = "next" /\ s_pc = [s \in Subs |-> "connect"]
  /\ ready_count = 0 /\ joined = 0
  /\ lats = [s \in Subs |-> <<>>] /\ all = <<>>
  /\ samples = [b \in Systems |-> <<>>] /\ compared = FALSE
  /\ AltaBus!Init

MainAt(from, to)      == m_pc = from /\ m_pc' = to
ThreadAt(s, from, to) == s_pc[s] = from /\ s_pc' = [s_pc EXCEPT ![s] = to]

-----------------------------------------------------------------------------
(* main(): the systems one after the other.                                  *)

\* The threads, the channel and the connections of a run are its own, and what an
\* earlier one left behind does not matter to it; its broker may not be there.
NextSystem ==
  /\ MainAt("next", "lock")
  /\ left # <<>>
  /\ broker' = Head(left) /\ left' = Tail(left)
  /\ up' \in BOOLEAN
  /\ s_pc' = [s \in Subs |-> "connect"]
  /\ ready_count' = 0 /\ joined' = 0
  /\ lats' = [s \in Subs |-> <<>>] /\ all' = <<>>
  /\ log' = <<>> /\ members' = {} /\ interest' = [s \in Subs |-> {}]
  /\ offered' = [s \in Subs |-> 0]
  /\ backlog' = [s \in Subs |-> <<>>] /\ taken' = backlog'
  /\ UNCHANGED <<n_msgs, samples, compared>>

\* print_stats() of the samples: it takes the first of them.
PrintStats ==
  /\ MainAt("print", "next")
  /\ all # <<>>
  /\ samples' = [samples EXCEPT ![broker] = all]
  /\ UNCHANGED <<n_msgs, left, broker, all, joined, compared, threadVars, up, brokerVars>>

PrintStatsPanics ==
  /\ MainAt("print", "panicked")
  /\ all = <<>>
  /\ UNCHANGED <<mainVars, threadVars, up, brokerVars>>

\* "FAILED", and a hint to start the broker.
PrintFailure ==
  /\ MainAt("failed", "next")
  /\ UNCHANGED <<mainVars, threadVars, up, brokerVars>>

\* Whether there is anything to compare.
BothSamples == \A b \in Systems : samples[b] # <<>>

Finish ==
  /\ MainAt("next", "done")
  /\ left = <<>>
  /\ compared' = BothSamples
  /\ UNCHANGED <<n_msgs, left, broker, all, joined, samples, threadVars, up, brokerVars>>

-----------------------------------------------------------------------------
(* The main thread of a run: bench_bus_fanout() and bench_redis_fanout().    *)

MainStep(from, to) ==
  MainAt(from, to) /\ UNCHANGED <<mainVars, threadVars, up, brokerVars>>

Lock == MainStep("lock", "check")

\* A wrong variant: it goes on when it is woken, whoever is missing.
AllInOnce == ready_count > 0

\* The condition of the while loop.
AllIn == ready_count >= NSubs

Look        == ~AllIn /\ MainStep("check", "short")
PassBarrier == AllIn /\ MainStep("check", "settle")

\* wait() drops the guard and sleeps in one step, and may wake up on its own.
Wait   == MainStep("short", "wait")
WakeUp == MainStep("wait", "lock")

\* After a sleep of 50 ms, in which the broker may have done anything or nothing,
\* the publisher connects, or the run returns an error.
Settle ==
  \/ up /\ MainStep("settle", "publish")
  \/ ~up /\ MainStep("settle", "failed")

\* A post is one to either broker.
Publish ==
  /\ m_pc = "publish" /\ Len(log) < Total
  /\ AltaBus!Post(Bench)
  /\ UNCHANGED <<mainVars, m_pc, threadVars, up>>

\* A write to a connection that is closed fails, at the latest the second time.
PublishFails == ~up /\ MainStep("publish", "failed")

PublishOver == Len(log) = Total /\ MainStep("publish", "join")

\* join() of the handles in order, and expect() of each result.
Join ==
  /\ m_pc = "join" /\ joined < NSubs
  /\ s_pc[joined + 1] = "done"
  /\ joined' = joined + 1
  /\ all' = all \o lats[joined + 1]
  /\ UNCHANGED <<n_msgs, left, broker, samples, compared, m_pc, threadVars, up, brokerVars>>

JoinOver == joined = NSubs /\ MainStep("join", "print")

JoinPanics ==
  /\ joined < NSubs /\ s_pc[joined + 1] = "panicked"
  /\ MainStep("join", "panicked")

-----------------------------------------------------------------------------
(* A subscriber thread.                                                      *)

Running == m_pc \notin {"next", "panicked", "done"}

\* connect_filtered() returns when the handshake is written, subscribe() of the
\* Valkey client when it was answered.
Connect(s) ==
  /\ Running /\ up
  /\ ThreadAt(s, "connect", "check_in")
  /\ IF broker = "valkey" THEN Valkey!Join(s, {Bench.chan}, Len(log))
                          ELSE UNCHANGED brokerVars
  /\ UNCHANGED <<mainVars, m_pc, ready_count, lats, up>>

\* There is no broker: expect() ends the thread.
ConnectFails(s) ==
  /\ Running /\ ~up
  /\ ThreadAt(s, "connect", "panicked")
  /\ UNCHANGED <<mainVars, m_pc, ready_count, lats, up, brokerVars>>

\* A wrong variant: the main thread looks at the count without the mutex.
MutexIgnored == TRUE

\* lock() returns: the main thread is not between its lock and its wait.
MutexFree == m_pc \notin {"check", "short"}

\* A wrong variant: the thread checks in again and again.
StaysToCheckIn == "check_in"

\* What follows the block that counts: its guard is dropped there.
Counted == "notify"

CheckIn(s) ==
  /\ Running /\ MutexFree
  /\ ThreadAt(s, "check_in", Counted)
  /\ ready_count' = ready_count + 1
  /\ UNCHANGED <<mainVars, m_pc, lats, up, brokerVars>>

\* notify_one() wakes the main thread if it waits, and is lost if it does not.
Notify(s) ==
  /\ Running
  /\ ThreadAt(s, "notify", "recv")
  /\ m_pc' = IF m_pc = "wait" THEN "lock" ELSE m_pc
  /\ UNCHANGED <<mainVars, ready_count, lats, up, brokerVars>>

\* A wrong variant: the last message of the warm-up is a sample.
SampledEarly(i) == i + 1 >= Warmup

\* The turns of the loop that are not warm-up; they count from 0.
Sampled(i) == i >= Warmup

\* next_raw() or get_message() returns the next message.
Receive(s) ==
  /\ Running
  /\ s_pc[s] = "recv" /\ Len(taken[s]) < Total
  /\ AltaBus!Take(s)
  /\ lats' = IF Sampled(Len(taken[s])) THEN [lats EXCEPT ![s] = Append(@, Head(backlog[s]))]
                                       ELSE lats
  /\ UNCHANGED <<mainVars, m_pc, s_pc, ready_count, up>>

\* The loop is over, and the thread returns its samples.
Return(s) ==
  /\ Running /\ Len(taken[s]) = Total
  /\ ThreadAt(s, "recv", "done")
  /\ UNCHANGED <<mainVars, m_pc, ready_count, lats, up, brokerVars>>

\* The connection ends: expect() ends the thread.
ReceiveFails(s) ==
  /\ Running /\ ~up
  /\ Len(taken[s]) < Total /\ backlog[s] = <<>>
  /\ ThreadAt(s, "recv", "panicked")
  /\ UNCHANGED <<mainVars, m_pc, ready_count, lats, up, brokerVars>>

-----------------------------------------------------------------------------
(* The broker.                                                               *)

\* The bus reads the handshake some time after it was written.
Register(s) ==
  /\ Running /\ up /\ broker = "bus"
  /\ s_pc[s] # "connect"
  /\ \E n \in 0 .. Len(log) : AltaBus!Join(s, {Bench.chan}, n)
  /\ UNCHANGED <<mainVars, m_pc, threadVars, up>>

\* It passes the next message on to s, or drops it at a full queue.
Offer(s) ==
  /\ Running /\ up
  /\ IF broker = "valkey" THEN Valkey!Offer(s) ELSE AltaBus!Offer(s)
  /\ UNCHANGED <<mainVars, m_pc, threadVars, up>>

BrokerStops ==
  /\ Running /\ up
  /\ up' = FALSE
  /\ UNCHANGED <<mainVars, m_pc, threadVars, brokerVars>>

-----------------------------------------------------------------------------
Main ==
  \/ NextSystem \/ PrintStats \/ PrintStatsPanics \/ PrintFailure \/ Finish
  \/ Lock \/ Look \/ Wait \/ PassBarrier \/ Settle
  \/ Publish \/ PublishFails \/ PublishOver \/ Join \/ JoinOver \/ JoinPanics

Subscriber(s) ==
  \/ Connect(s) \/ ConnectFails(s) \/ CheckIn(s) \/ Notify(s)
  \/ Receive(s) \/ Return(s) \/ ReceiveFails(s)

Next ==
  \/ Main \/ WakeUp \/ BrokerStops
  \/ \E s \in Subs : Subscriber(s) \/ Register(s) \/ Offer(s)

Spec == Init /\ [][Next]_vars

\* Every thread runs, and so does the broker; and a thread that waits for the
\* mutex gets it in the end, however often the main thread wakes up for nothing.
FairSpec ==
  /\ Spec
  /\ WF_vars(Main)
  /\ \A s \in Subs : /\ WF_vars(Subscriber(s)) /\ SF_vars(CheckIn(s))
                     /\ WF_vars(Register(s)) /\ WF_vars(Offer(s))

-----------------------------------------------------------------------------
(* Properties.                                                             *)

TypeOK ==
  /\ n_msgs \in MsgCounts
  /\ broker \in Systems \cup {"none"} /\ {up, compared} \subseteq BOOLEAN
  /\ m_pc \in {"next", "lock", "check", "short", "wait", "settle", "publish", "join",
               "print", "failed", "panicked", "done"}
  /\ s_pc \in [Subs -> {"connect", "check_in", "notify", "recv", "done", "panicked"}]
  /\ ready_count \in 0 .. NSubs /\ joined \in 0 .. NSubs
  /\ lats \in [Subs -> Seq(1 .. Total)]
  /\ samples \in [Systems -> Seq(1 .. Total)]
  /\ log \in Seq({Bench}) /\ members \subseteq Subs
  /\ interest \in [Subs -> {{}, {Bench.chan}}] /\ offered \in [Subs -> 0 .. Total]
  /\ {backlog, taken} \subseteq [Subs -> Seq(1 .. Total)]

\* A run whose statistics are printed has all its samples, in the order of the
\* handles: of each subscriber one for every message after the warm-up and none of
\* the warm-up, although messages may be lost and the broker may stop meanwhile.
\* The systems are compared only if both were run, and each by all its samples: a
\* run that failed, or one that was skipped, leaves nothing behind.
Complete(d) == d = [i \in 1 .. NSubs * n_msgs |-> Warmup + 1 + ((i - 1) % n_msgs)]
SamplesExact ==
  /\ m_pc = "print" => Complete(all)
  /\ compared => \A b \in Systems : Complete(samples[b])

\* Whatever the samples are, print_stats() prints their percentiles, and
\* histogram() counts each of them in the row whose label it falls under.
StatsExact ==
  m_pc = "print" =>
    \A d \in [1 .. Len(all) -> Latencies] :
      /\ \A p \in Printed : Divides(d, p)
      /\ \A b \in 0 .. Len(Boundaries) : CountsBucket(d, b)

\* What the comments say at the barrier: the publisher waits until all
\* subscribers have registered.
RegisteredFirst == m_pc \in {"publish", "join", "print"} => members = Subs

\* With a broker that acknowledges subscriptions the barrier does just that.
AcknowledgedFirst == broker = "valkey" => RegisteredFirst

\* A subscriber was offered a message that it will not get.
Missed(s) == offered[s] > Len(taken[s]) + Len(backlog[s])

\* No wake-up is lost and no thread waits for another for ever: the benchmark
\* ends, unless a broker is not there or stops, or a message was dropped, and it
\* panics for no other reason than these and a count of zero.
Completes ==
  <>(\/ m_pc = "done" \/ (m_pc = "panicked" /\ n_msgs = 0)
     \/ Running /\ (~up \/ \E s \in Subs : Missed(s)))

\* What main() prints when bench_bus() fails: that the bus should be started.
FailureReported == (m_pc = "lock" /\ ~up) ~> (m_pc = "failed")
=============================================================================
