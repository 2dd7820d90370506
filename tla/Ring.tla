-------------------------------- MODULE Ring --------------------------------
(***************************************************************************)
(* The single-producer, multi-consumer ring buffer of bus/src/ring.rs.     *)
(*                                                                         *)
(* Every atomic operation and every group of plain accesses to a slot is a *)
(* step of its own, so that the producer's scan of the consumer table, its *)
(* writes into a slot, the consumers' reads of a slot and the two halves   *)
(* of a registration interleave in every order.  The atomics themselves    *)
(* are sequentially consistent.                                            *)
(*                                                                         *)
(* A slot's plain data is two words: its header fields and its payload     *)
(* bytes.  Each is written and read on its own, so that a read that        *)
(* overlaps a write is visible as a pair of words of different messages.   *)
(***************************************************************************)
EXTENDS Integers, Sequences, FiniteSets

CONSTANTS
  RingSize,      \* RING_SIZE: the number of slots
  MaxConsumers,  \* MAX_CONSUMERS: the number of entries of the consumer table
  Consumers,     \* the threads that register and consume
  Messages,      \* what publish() can be called with
  Oversized,     \* the messages longer than PAYLOAD_CAP
  NoMsg,         \* the content of a slot that was never written
  Free,          \* CONSUMER_FREE
  MaxSeq         \* bound: the number of messages published in a behaviour

ASSUME RingAssumption ==
  /\ RingSize \in Nat \ {0}
  /\ MaxConsumers \in Nat
  /\ MaxSeq \in Nat
  /\ Oversized \subseteq Messages
  /\ NoMsg \notin Messages
  /\ Free \notin Int

\* Threads are finitely many; only what is said of their number needs it.
ASSUME ThreadsAssumption == IsFiniteSet(Consumers)

VARIABLES
  slot_seq,      \* Slot.seq: 0, or the sequence number of the slot's message plus 1
  slot_hdr,      \* Slot.data: channel_id, msg_type, payload_len, timestamp_ns
  slot_body,     \* Slot.data: payload
  producer_seq,  \* Ring.producer_seq
  cursor,        \* Ring.consumers[i].cursor
  p_pc,          \* the producer's place in publish()
  p_msg,         \* publish()'s arguments
  p_scan,        \* min_consumer_cursor()'s loop index
  slowest,       \* min_consumer_cursor()'s running minimum
  p_ret,         \* what the last call of publish() returned
  c_pc,          \* each consumer thread's place in the ring's functions
  start,         \* register_consumer()'s snapshot of the head
  c_entry,       \* the entry it is trying, then the id it was given
  c_hdr,         \* the header fields the callback has read
  log,           \* history: every message committed to the ring, in order
  got,           \* history: what each registration's callback was given
  late           \* history: threads whose registration was lapped by the head

producerVars == <<p_pc, p_msg, p_scan, slowest, p_ret>>
slotVars     == <<slot_seq, slot_hdr, slot_body>>
consumerVars == <<c_pc, start, c_entry, c_hdr, got, late>>
vars == <<slotVars, producer_seq, cursor, producerVars, consumerVars, log>>

Slots   == 0 .. RingSize - 1
Entries == 0 .. MaxConsumers - 1
Fitting == Messages \ Oversized

\* The slot of a sequence number: seq & RING_MASK, RING_SIZE a power of two.
Index(n) == n % RingSize

\* A wrong variant: the scan keeps the fastest cursor.
BelowReversed(v, min) == v # Free /\ (min = Free \/ v > min)

\* v < min on u64, where CONSUMER_FREE is the largest value there is.
Below(v, min) == v # Free /\ (min = Free \/ v < min)

\* Two wrong variants: one slot too many, and no backpressure at all.
LaggingLate(seq, min) == min # Free /\ seq - min > RingSize
LaggingNever(seq, min) == FALSE

\* A gap of a full ring between the head and the slowest consumer.
Lagging(seq, min) == min # Free /\ seq - min >= RingSize

Init ==
  /\ slot_seq = [i \in Slots |-> 0]
  /\ slot_hdr = [i \in Slots |-> NoMsg]
  /\ slot_body = [i \in Slots |-> NoMsg]
  /\ producer_seq = 0
  /\ cursor = [e \in Entries |-> Free]
  /\ p_pc = "idle" /\ p_msg = NoMsg /\ p_scan = 0 /\ slowest = Free
  /\ p_ret = "none"
  /\ c_pc = [c \in Consumers |-> "out"]
  /\ start = [c \in Consumers |-> 0]
  /\ c_entry = [c \in Consumers |-> 0]
  /\ c_hdr = [c \in Consumers |-> NoMsg]
  /\ log = <<>>
  /\ got = [c \in Consumers |-> <<>>]
  /\ late = {}

-----------------------------------------------------------------------------
(* publish(): one caller at a time.  Nothing but publish() stores            *)
(* producer_seq, so its local `seq' is producer_seq until the last step.     *)

\* A wrong variant: the length of the payload is not checked.
TooLargeNever(m) == FALSE

\* payload.len() > PAYLOAD_CAP.
TooLarge(m) == m \in Oversized

\* PublishError::PayloadTooLarge.
PublishTooLarge(m) ==
  /\ p_pc = "idle"
  /\ TooLarge(m)
  /\ p_ret' = "PayloadTooLarge"
  /\ UNCHANGED <<slotVars, producer_seq, cursor, p_pc, p_msg, p_scan, slowest,
                 consumerVars, log>>

\* A wrong variant: the minimum of the previous scan is kept.
ScanOverStale == p_scan' = 0 /\ slowest' = slowest

\* The locals of min_consumer_cursor() outside of a scan, and at its start.
ScanOver == p_scan' = 0 /\ slowest' = Free

\* Load the head, and enter the scan with the minimum at u64::MAX.
PublishBegin(m) ==
  /\ p_pc = "idle"
  /\ ~TooLarge(m)
  /\ Len(log) < MaxSeq
  /\ p_pc' = "scan"
  /\ p_msg' = m
  /\ ScanOver
  /\ UNCHANGED <<slotVars, producer_seq, cursor, p_ret, consumerVars, log>>

\* One iteration of min_consumer_cursor().
ScanEntry ==
  /\ p_pc = "scan"
  /\ p_scan < MaxConsumers
  /\ slowest' = IF Below(cursor[p_scan], slowest) THEN cursor[p_scan] ELSE slowest
  /\ p_scan' = p_scan + 1
  /\ UNCHANGED <<slotVars, producer_seq, cursor, p_pc, p_msg, p_ret,
                 consumerVars, log>>

\* The scan found a consumer a full ring behind: PublishError::SlowConsumer.
PublishRefused ==
  /\ p_pc = "scan"
  /\ p_scan = MaxConsumers
  /\ Lagging(producer_seq, slowest)
  /\ p_pc' = "idle"
  /\ p_ret' = "SlowConsumer"
  /\ ScanOver
  /\ UNCHANGED <<slotVars, producer_seq, cursor, p_msg, consumerVars, log>>

\* The plain stores of the slot's header fields.
WriteHeader ==
  /\ p_pc = "scan"
  /\ p_scan = MaxConsumers
  /\ ~Lagging(producer_seq, slowest)
  /\ slot_hdr' = [slot_hdr EXCEPT ![Index(producer_seq)] = p_msg]
  /\ p_pc' = "body"
  /\ ScanOver
  /\ UNCHANGED <<slot_seq, slot_body, producer_seq, cursor, p_msg, p_ret,
                 consumerVars, log>>

\* The copy of the payload bytes.
WriteBody ==
  /\ p_pc = "body"
  /\ slot_body' = [slot_body EXCEPT ![Index(producer_seq)] = p_msg]
  /\ p_pc' = "commit"
  /\ UNCHANGED <<slot_seq, slot_hdr, producer_seq, cursor, p_msg, p_scan,
                 slowest, p_ret, consumerVars, log>>

\* slot.seq.store(seq + 1): from here on a consumer can see the message.
CommitSlot ==
  /\ p_pc = "commit"
  /\ slot_seq' = [slot_seq EXCEPT ![Index(producer_seq)] = producer_seq + 1]
  /\ log' = Append(log, p_msg)
  /\ p_pc' = "advance"
  /\ UNCHANGED <<slot_hdr, slot_body, producer_seq, cursor, p_msg, p_scan,
                 slowest, p_ret, consumerVars>>

\* producer_seq.store(seq + 1), and Ok(()).
AdvanceHead ==
  /\ p_pc = "advance"
  /\ producer_seq' = producer_seq + 1
  /\ p_pc' = "idle"
  /\ p_msg' = NoMsg
  /\ p_ret' = "Ok"
  /\ UNCHANGED <<slotVars, cursor, p_scan, slowest, consumerVars, log>>

-----------------------------------------------------------------------------
(* The consumer side.  An id is used by the thread that registered it, and   *)
(* is given back by that thread, outside of a consume call.                  *)

ringVars == <<slotVars, producer_seq, producerVars, log>>

At(c, from, to) ==
  /\ c_pc[c] = from
  /\ c_pc' = [c_pc EXCEPT ![c] = to]

\* A thread without a registration: its id and its start are gone.
CallsOver(c) ==
  /\ start' = [start EXCEPT ![c] = 0]
  /\ c_entry' = [c_entry EXCEPT ![c] = 0]

\* register_consumer(): snapshot the head, and start at the first entry.
RegisterLoad(c) ==
  /\ At(c, "out", "claim")
  /\ start' = [start EXCEPT ![c] = producer_seq]
  /\ c_entry' = [c_entry EXCEPT ![c] = 0]
  /\ UNCHANGED <<ringVars, cursor, c_hdr, got, late>>

\* Two wrong variants: a store in the place of the compare_exchange, and one that
\* may fail on a free entry.
TakenIgnored(c) == FALSE
TakenSpurious(c) == TRUE

\* What compare_exchange(CONSUMER_FREE, start) finds at the entry it tries.
Taken(c) == cursor[c_entry[c]] # Free

\* It succeeds on a free entry: Ok(i).
ClaimEntry(c) ==
  /\ At(c, "claim", "ready")
  /\ c_entry[c] < MaxConsumers
  /\ ~Taken(c)
  /\ cursor' = [cursor EXCEPT ![c_entry[c]] = start[c]]
  /\ late' = IF producer_seq - start[c] >= RingSize THEN late \cup {c} ELSE late
  /\ UNCHANGED <<ringVars, start, c_entry, c_hdr, got>>

\* It fails on an entry somebody holds: try the next one.
SkipEntry(c) ==
  /\ c_pc[c] = "claim"
  /\ c_entry[c] < MaxConsumers
  /\ Taken(c)
  /\ c_entry' = [c_entry EXCEPT ![c] = @ + 1]
  /\ UNCHANGED <<ringVars, cursor, c_pc, start, c_hdr, got, late>>

\* Every entry was tried: RegisterError::Full.
RegisterFull(c) ==
  /\ At(c, "claim", "out")
  /\ c_entry[c] = MaxConsumers
  /\ CallsOver(c)
  /\ UNCHANGED <<ringVars, cursor, c_hdr, got, late>>

\* unregister_consumer().
Unregister(c) ==
  /\ At(c, "ready", "out")
  /\ cursor' = [cursor EXCEPT ![c_entry[c]] = Free]
  /\ CallsOver(c)
  /\ got' = [got EXCEPT ![c] = <<>>]
  /\ late' = late \ {c}
  /\ UNCHANGED <<ringVars, c_hdr>>

\* try_consume(), consume_one(): load the cursor.  Only this thread stores it
\* while the id is its own, so the local `next' is cursor[c_entry[c]].
ConsumeBegin(c) ==
  /\ At(c, "ready", "poll")
  /\ UNCHANGED <<ringVars, cursor, start, c_entry, c_hdr, got, late>>

SeenSeq(c) == slot_seq[Index(cursor[c_entry[c]])]

\* A wrong variant: the tag of a slot is taken for its sequence number.
ExpectedUntagged(c) == cursor[c_entry[c]]

Expected(c) == cursor[c_entry[c]] + 1

\* The slot holds an older message: try_consume() returns Ok(false), while
\* consume_one() spins where it is.
NotYet(c) ==
  /\ At(c, "poll", "ready")
  /\ SeenSeq(c) < Expected(c)
  /\ UNCHANGED <<ringVars, cursor, start, c_entry, c_hdr, got, late>>

\* The slot holds a newer message: ConsumerError::FellBehind.
FellBehind(c) ==
  /\ At(c, "poll", "ready")
  /\ SeenSeq(c) > Expected(c)
  /\ UNCHANGED <<ringVars, cursor, start, c_entry, c_hdr, got, late>>

\* The slot holds the message: call the callback, which reads the header...
ReadHeader(c) ==
  /\ At(c, "poll", "body")
  /\ SeenSeq(c) = Expected(c)
  /\ c_hdr' = [c_hdr EXCEPT ![c] = slot_hdr[Index(cursor[c_entry[c]])]]
  /\ UNCHANGED <<ringVars, cursor, start, c_entry, got, late>>

\* ... and the payload bytes.
ReadBody(c) ==
  /\ At(c, "body", "store")
  /\ got' = [got EXCEPT ![c] =
               Append(@, <<c_hdr[c], slot_body[Index(cursor[c_entry[c]])]>>)]
  /\ c_hdr' = [c_hdr EXCEPT ![c] = NoMsg]
  /\ UNCHANGED <<ringVars, cursor, start, c_entry, late>>

\* cursor.store(next + 1), and Ok.
AdvanceCursor(c) ==
  /\ At(c, "store", "ready")
  /\ cursor' = [cursor EXCEPT ![c_entry[c]] = @ + 1]
  /\ UNCHANGED <<ringVars, start, c_entry, c_hdr, got, late>>

-----------------------------------------------------------------------------
Publish ==
  \/ \E m \in Messages : PublishTooLarge(m) \/ PublishBegin(m)
  \/ ScanEntry \/ PublishRefused
  \/ WriteHeader \/ WriteBody \/ CommitSlot \/ AdvanceHead

Register(c) == RegisterLoad(c) \/ ClaimEntry(c) \/ SkipEntry(c) \/ RegisterFull(c)

Consume(c) ==
  \/ ConsumeBegin(c) \/ NotYet(c) \/ FellBehind(c)
  \/ ReadHeader(c) \/ ReadBody(c) \/ AdvanceCursor(c)

Next ==
  \/ Publish
  \/ \E c \in Consumers : Register(c) \/ Unregister(c) \/ Consume(c)

Spec == Init /\ [][Next]_vars

\* A thread that entered a call finishes it, a caller that was refused tries
\* again and a registered consumer keeps consuming (publish_one() and
\* dispatch_loop() in bus/src/main.rs).  Nobody has to publish a new message,
\* to register or to unregister.
Fairness ==
  /\ WF_vars(ScanEntry \/ PublishRefused \/ WriteHeader \/ WriteBody
             \/ CommitSlot \/ AdvanceHead)
  /\ WF_vars(p_ret = "SlowConsumer" /\ PublishBegin(p_msg))
  /\ \A c \in Consumers : WF_vars(Consume(c))

FairSpec == Spec /\ Fairness

-----------------------------------------------------------------------------
(* Properties.                                                             *)

InUse(c)  == c_pc[c] \in {"ready", "poll", "body", "store"}
Prompt(c) == InUse(c) /\ c \notin late
Writing   == p_pc \in {"body", "commit"}

TypeOK ==
  /\ slot_seq \in [Slots -> Nat]
  /\ slot_hdr \in [Slots -> Fitting \cup {NoMsg}]
  /\ slot_body \in [Slots -> Fitting \cup {NoMsg}]
  /\ producer_seq \in Nat
  /\ cursor \in [Entries -> Nat \cup {Free}]
  /\ p_pc \in {"idle", "scan", "body", "commit", "advance"}
  /\ p_msg \in Fitting \cup {NoMsg}
  /\ p_pc # "idle" => p_msg \in Fitting
  /\ p_scan \in 0 .. MaxConsumers
  /\ slowest \in Nat \cup {Free}
  /\ p_ret \in {"none", "Ok", "SlowConsumer", "PayloadTooLarge"}
  /\ c_pc \in [Consumers -> {"out", "claim", "ready", "poll", "body", "store"}]
  /\ start \in [Consumers -> Nat]
  /\ c_entry \in [Consumers -> 0 .. MaxConsumers]
  /\ c_hdr \in [Consumers -> Fitting \cup {NoMsg}]
  /\ log \in Seq(Fitting)
  /\ got \in [Consumers -> Seq((Fitting \cup {NoMsg}) \X (Fitting \cup {NoMsg}))]
  /\ late \subseteq Consumers

\* The consumer table is exclusive and does not leak: a registered thread holds
\* an entry with a cursor, no two hold the same one, and an entry that is not
\* free belongs to a registered thread.  Registrations race through
\* compare_exchange, entry by entry, with unregistrations between them.
EntryOwned ==
  /\ \A c \in Consumers : InUse(c) => /\ c_entry[c] \in Entries
                                      /\ cursor[c_entry[c]] # Free
  /\ \A c, d \in Consumers : InUse(c) /\ InUse(d) /\ c # d => c_entry[c] # c_entry[d]
  /\ \A e \in Entries : cursor[e] # Free => \E c \in Consumers : InUse(c) /\ c_entry[c] = e

\* A walk of the table gets past entry i only with i other threads behind it, so
\* that at most Cardinality(Consumers) - i threads are at i or beyond: although
\* entries are released behind a walk and claimed ahead of it, and each is tried
\* once, a thread is told Full only if there are more threads than entries.
Beyond(i) == {d \in Consumers : c_entry[d] >= i}
Crowded ==
  \A c \in Consumers : Cardinality(Beyond(c_entry[c])) + c_entry[c] <= Cardinality(Consumers)

\* A table with an entry for every thread is never full to any of them.
EnoughEntries ==
  Cardinality(Consumers) <= MaxConsumers =>
    \A c \in Consumers : c_entry[c] < MaxConsumers

\* Backpressure: the producer is never more than a full ring ahead of a
\* consumer that registered in time, although it reads the cursors one at a
\* time, while they move and while others register and unregister.
BoundedLag ==
  \A c \in Consumers : Prompt(c) => /\ cursor[c_entry[c]] <= Len(log)
                                    /\ Len(log) - cursor[c_entry[c]] <= RingSize

\* publish() never writes a slot a consumer is reading: the callback of a
\* consumer that registered in time runs on a slot the producer is not in.
NoDataRace ==
  \A c \in Consumers :
    Prompt(c) /\ c_pc[c] = "body" /\ Writing
      => Index(cursor[c_entry[c]]) # Index(producer_seq)

\* A consumer that registered in time never gets FellBehind: the slot its cursor
\* points at never holds a later message.
NeverLapped ==
  \A c \in Consumers : Prompt(c) => SeenSeq(c) <= Expected(c)

\* Broadcast: what a consumer that registered in time has been given is the log
\* from its start, in order, without a gap, a repetition or a torn message.
InOrder ==
  \A c \in Consumers : Prompt(c) =>
    /\ start[c] + Len(got[c]) <= Len(log)
    /\ \A i \in 1 .. Len(got[c]) : got[c][i] = <<log[start[c] + i], log[start[c] + i]>>

\* What RING_BUFFER_ARCHITECTURE.md says of a consumer that registered with a
\* stale cursor: it is found out without corrupting anything.  No callback of
\* any registered consumer is given the words of two messages.
NothingCorrupted ==
  \A c \in Consumers : \A i \in 1 .. Len(got[c]) : got[c][i][1] = got[c][i][2]

\* A committed message reaches every consumer that registered in time and stays.
Delivery ==
  \A c \in Consumers, n \in 1 .. MaxSeq :
    (Prompt(c) /\ start[c] < n /\ n <= Len(log))
      ~> (~Prompt(c) \/ start[c] + Len(got[c]) >= n)

\* Backpressure is transient: a publish that was refused goes through in the
\* end, if every registration was in time.
BackpressureClears ==
  (p_ret = "SlowConsumer") ~> (p_ret # "SlowConsumer" \/ \E c \in Consumers : InUse(c) /\ c \in late)

-----------------------------------------------------------------------------
(* The inductive invariant the safety properties follow from.              *)

\* The head is the number of committed messages, one behind while publish() is
\* between its two stores; a start is a past head.
HeadInv ==
  /\ Len(log) = IF p_pc = "advance" THEN producer_seq + 1 ELSE producer_seq
  /\ \A c \in Consumers : start[c] <= producer_seq

\* The lag of a consumer that registered in time, and what a scan that has
\* passed its entry knows of it: either the minimum is no later than its
\* cursor, or it registered after that and is less than a ring behind.
LagInv ==
  \A c \in Consumers : Prompt(c) =>
    LET k == cursor[c_entry[c]]
    IN  /\ k <= Len(log)
        /\ producer_seq - k <= RingSize
        /\ p_pc = "scan" /\ p_scan > c_entry[c]
             => \/ slowest # Free /\ slowest <= k
                \/ producer_seq - k < RingSize
        /\ p_pc \in {"body", "commit", "advance"} => producer_seq - k < RingSize

\* The slots hold the last RingSize messages of the log, the oldest of them
\* being overwritten while publish() writes.
SlotInv ==
  /\ \A i \in Slots : slot_seq[i] <= Len(log)
  /\ \A n \in 0 .. Len(log) - 1 : Len(log) - n <= RingSize =>
       /\ slot_seq[Index(n)] = n + 1
       /\ ~(Writing /\ n = producer_seq - RingSize) =>
            slot_hdr[Index(n)] = log[n + 1] /\ slot_body[Index(n)] = log[n + 1]
  /\ Writing => slot_hdr[Index(producer_seq)] = p_msg
  /\ p_pc = "commit" => slot_body[Index(producer_seq)] = p_msg

\* What a consumer that registered in time has read so far; a thread that is
\* not registered has read nothing.
ReadInv ==
  \A c \in Consumers :
    /\ ~InUse(c) => got[c] = <<>>
    /\ Prompt(c) =>
         LET k == cursor[c_entry[c]]
         IN  /\ c_pc[c] \in {"body", "store"} => k < Len(log)
             /\ c_pc[c] = "body" => c_hdr[c] = log[k + 1]
             /\ start[c] + Len(got[c]) = IF c_pc[c] = "store" THEN k + 1 ELSE k
             /\ \A i \in 1 .. Len(got[c]) :
                  got[c][i] = <<log[start[c] + i], log[start[c] + i]>>

IInv == TypeOK /\ HeadInv /\ EntryOwned /\ LagInv /\ SlotInv /\ ReadInv
=============================================================================
