# Alta-Bus in TLA+

Alta-Bus is a low-latency publish/subscribe bus: one process accepts TCP
connections, publishers send it framed messages, and it fans every message out
to the subscribers of its channel. This directory holds TLA+ modules of its
core, the configurations under which TLC checks them, and proofs that TLAPS
checks. `PROJECT.json` lists the components, the runs, the mutants that show each
property can fail, the lines each definition stands for, the hazards and the
theorems.

## The system

| component | state | operations | how it interacts |
|---|---|---|---|
| Ring buffer, `bus/src/ring.rs` | slots (tag `seq` and plain data), head `producer_seq`, table of consumer cursors | `register_consumer`, `unregister_consumer`, `publish` (with `min_consumer_cursor`), `try_consume`, `consume_one` | called by the publisher threads and the dispatch thread through shared memory; one producer at a time |
| Bus process, `bus/src/main.rs` | `publish_lock`, `sub_registry` and its lock, one bounded queue per subscriber | `main`, `dispatch_loop`, `handle_connection`, `run_publisher`, `publish_one`, `run_subscriber_io` | one dispatch thread, one thread per connection; sockets to the clients |
| Wire protocol, `protocol/src` | none | header and payload encoding, channel names | used by the bus and by every client |
| Subscriber client, `subscriber-client/src/lib.rs` | a socket and a read buffer | `connect_filtered`, `next_raw`, `run` | handshake and frames over TCP |
| Publisher client, `publisher-client/src/lib.rs` | a socket | `publish`, `publish_raw` | frames over TCP |
| Latency benchmark, `bench/src/bin/latency.rs` | a counter behind a mutex and a condition variable, samples | `main`, `bench_bus`, `bench_bus_fanout` and the same on Valkey (`bench_redis`, `bench_redis_fanout`), `percentile`, `histogram` | one subscriber thread per subscriber and a main thread that publishes, on the bus or on Valkey |
| Benchmark tools, `bench/src/main.rs`, `bench/*.py` | none the bus depends on | a dummy producer, a printing subscriber, the benchmark in Python | clients of the bus, with encoders and decoders of their own |

What is hard about it:

* **the ring** is lock-free. The producer reads the cursors one at a time while
  consumers move, register and unregister; it overwrites plain memory that a
  consumer reads outside any lock; a message becomes visible by its slot's tag,
  one store before the head counts it; a registration takes its start from the
  head and claims an entry later.
* **the bus** mixes a mutex around a refusing `publish` that is retried, a
  dispatch thread that holds the registry while it iterates, queues that drop when
  full, and subscriber threads that register, block in a write, fail and remove
  themselves meanwhile.
* **the connections** end in the middle of frames, and a reader that is out of
  step takes payload bytes for a header. A subscription is not acknowledged.
* **the wire format** is written twice, in Rust and in Python, and a frame passes
  through a slot that still holds the bytes of the messages before.
* **the benchmark** waits at a barrier for threads that may panic, and reads as
  many messages as were published over a bus that may drop them.

What makes each part correct:

* ring: a consumer gets the log from where it registered: in order, complete, no
  message torn; the producer never writes what is being read; an entry has one
  owner; backpressure is exact at a full ring, and transient.
* bus: a publisher's messages are committed once and in order although refused
  publishes are retried; each frame reaches each matching subscriber once, in
  order, or is dropped because that subscriber's own queue was full; a stalled
  subscriber holds up nobody; nobody sends to a receiver that is gone.
* connections: the bus publishes the messages that were sent, whole and in order,
  wherever the stream is cut; it refuses exactly what is larger than its buffers;
  it registers the channels that were asked for.
* codec: what is encoded is decoded, by either language, from a slot that is used
  again.
* benchmark: samples that are reported or compared are complete, and so are the
  percentiles and the histogram of them; no wake-up is lost; it ends.

## The modules

| module | what it is |
|---|---|
| `Ring` | the ring buffer, one step per atomic access and per group of plain accesses |
| `RingLog` | what the ring promises: a bounded broadcast log |
| `RingRefinement` | the mapping under which `Ring` implements `RingLog` |
| `RingProofs` | theorems about `Ring`: its types, the consumer table, the exclusion of races, what a consumer is given |
| `RingRefinementProofs` | the theorem that `Ring` implements `RingLog` |
| `Bus` | the bus process over the bounded log |
| `PubSub` | what the bus promises its clients |
| `BusRefinement` | the mappings under which `Bus` uses `RingLog` and implements `PubSub` |
| `BusProofs` | theorems about `Bus`: types, the exclusion of publishers and their order, the registry, the account of every frame |
| `BusRefinementProofs` | the theorems that `Bus` uses its ring as a `RingLog`, and implements `PubSub` |
| `Connection` | one socket, cell by cell: a client of either library and the bus thread that serves it |
| `ConnectionProofs` | theorems about `Connection`: both directions keep in step |
| `Codec` | the header and the payloads as bytes, from an encoder through a slot to two decoders |
| `CodecProofs` | theorems about `Codec`: every encoder and decoder, and the way through a slot |
| `Statistics` | the percentiles and the histogram of the latency benchmark |
| `Benchmark` | the threads of the latency benchmark over `PubSub`, or over Valkey |
| `BenchmarkProofs` | theorems about `Benchmark` and `Statistics` |
| `MCRing`, `MCBus`, `MCConnection`, `MCCodec`, `MCBenchmark` | instances for TLC |

The two levels meet in `RingLog`: `Ring` implements it for any number of
consumers, and `Bus` uses its ring only as `RingLog` allows, with the
dispatch thread as the one reader; both are theorems. `Connection` and `Codec` are what `Bus` takes as
given when it reads a message in one step. `Benchmark` runs on two instances of
`PubSub`, the specification that `Bus` implements: the steps of its broker are
`PubSub`'s actions.

### Ring

`slot_seq` is `Slot.seq`; `slot_hdr` and `slot_body` are the header fields and
the payload of `Slot.data`, two words written and read apart, so that a read that
overlaps a write is seen as a pair of words of different messages. `cursor` is
the consumer table, `producer_seq` the head. The producer and each consumer thread
have a program counter and the locals of the functions they are in.

| code | actions |
|---|---|
| `publish` | `PublishTooLarge`, or `PublishBegin`, `ScanEntry` once per entry of the table, then `PublishRefused` or `WriteHeader`, `WriteBody`, `CommitSlot`, `AdvanceHead` |
| `register_consumer` | `RegisterLoad`, then `SkipEntry` per entry in use, and `ClaimEntry` or `RegisterFull` |
| `unregister_consumer` | `Unregister` |
| `try_consume`, `consume_one` | `ConsumeBegin`, then `NotYet`, `FellBehind`, or `ReadHeader`, `ReadBody` (the callback) and `AdvanceCursor` |

Decisions:

* Atomic operations are sequentially consistent. The code uses acquire loads and
  release stores for every hand-over (tag, head, cursors); what weaker orders
  would add is not modelled.
* The index of a slot is `n % RingSize`; the code's mask is the same for its power
  of two. Sequence numbers are unbounded, where the code's have 64 bits: a run would
  have to publish 2^64 messages for one to reach the sentinel `u64::MAX` or to wrap.
  Nothing is claimed beyond that. `RING_BUFFER_ARCHITECTURE.md` (line 492) rightly
  calls the subtraction correct across the wrap; the least cursor and the tags are
  compared with `<`, which is not modular.
* `consume_one` differs from `try_consume` in spinning where the other returns
  `Ok(false)`: `NotYet` followed by `ConsumeBegin` is one turn of its loop.
* A thread that registers uses its own id and unregisters it outside of a consume
  call, which the architecture document asks of callers.
* **Registered in time.** `register_consumer` loads the head and then claims an
  entry. If the head moves a full ring in between, the new cursor is already
  lapped. `late` records such threads, and `Prompt(c)` is a registered thread that
  is not one of them; the guarantees are stated for those. The bus registers its
  only consumer before it accepts a connection, so that one is never late. What can
  happen to a late one is the finding `ring_stale_registration`.
* `log`, `got` and `late` are history: no guard reads them, except that
  `PublishBegin` stops at `MaxSeq` messages.

### Bus

The ring is `log` and `cursor`, as in `RingLog` with one reader. `LockFree` and
`RegistryFree` are the two mutexes: a lock is held exactly while its holder's
program counter says so. A frame is its position in the log, since its `Arc` is
never changed.

| code | actions |
|---|---|
| `main` | `RegisterDispatch` |
| `run_publisher`, `publish_one` | `ReadMessage`, `Lock`, then `Admit` (there is room) and `PublishOk` (the commit), or `PublishSlow` and `Lock` again; `PublisherLeaves` |
| `dispatch_loop` | `TakeFrame`, `LockRegistry`, per entry in any order (`Visit`) `SkipSubscriber`, `Enqueue` or `DropFrame`, then `FanDone`, `AdvanceCursor` |
| `handle_connection` (a subscriber) | `Subscribe` |
| `run_subscriber_io` | `Recv`, `WriteOk` or `WriteError`, `Remove` |
| the clients | `ClientStalls`, `ClientLeaves` |

Decisions:

* `publish` is two steps, its check and its commit, with other threads in between:
  what keeps other publishers out is `LockFree` and nothing else, and `NoOverrun`
  fails without it. The steps inside them, of one producer, are those of `Ring`.
  `FellBehind` is left out of the dispatch thread because of the theorem
  `NeverFallsBehind`. `PayloadTooLarge` cannot happen there: `run_publisher` and
  `handle_connection` end the thread before.
* A TCP connection delivers what was sent, in order, up to some point. Reading a
  frame is one step; a connection that breaks, a frame that is too large or
  malformed is `PublisherLeaves`. A handshake that fails leaves no state, and is no
  step.
* `rx.recv()` cannot fail while the entry is registered, because its sender is in
  that entry; `ReceiverPerSender` shows the converse, that a `try_send` never meets
  a closed channel.
* A client that stops reading does so for good; one that pauses is a slow
  step. A write to a client that left may still succeed, into the socket's buffer.
* A subscriber whose queue is full loses the frame and keeps its entry, its queue and
  its socket. Section 12 of `RING_BUFFER_ARCHITECTURE.md` says that it is evicted;
  `SlowEvicted` states that, and is the finding `bus_slow_subscriber`.
* `joined` and `dropped` are history; `written` is what went to the socket.

### Connection

`up` and `down` are what is in flight on the socket, `out` and `b_out` what a
`write_all()` has yet to write. A header is three cells (type, channel, length) and
a payload is a list of bytes, all of them numbers.

| code | actions |
|---|---|
| `publish_raw` | `PublishRaw`, then `Transmit` per cell; `WriteFails` |
| `connect_filtered` | `ConnectFiltered`, then `Transmit` |
| `next_raw` | `NextHeader`, `NextPayload`, `NextFails` |
| `handle_connection` | `SubscribeHeader` and `ReadChannels`, or `TooLarge`; for a publisher the first `MessageHeader` and `ReadPayload`, or `TooLarge` |
| `run_publisher` | `MessageHeader` or `TooLarge`, `ReadPayload`, `Disconnected` |
| `run_subscriber_io` | `Recv`, `WriteFrame` per cell, `WriteError` |
| the ends | `Close`, `Reset` (the client or the network), `BusStops` |

Decisions:

* A `read_exact()` is one step, taken when all it waits for is there; it fails when
  the stream ends before. What it took of a part is lost with the connection.
* The timestamp of a header, which the bus ignores, has no cell. Channel ids have
  two digits of base 2 in place of four bytes.
* `Close` ends a connection between two calls, with everything written still in
  flight; `Reset` at any point, with any suffix of it lost.
* The two buffers that bound a payload are `PayloadCap` and `FilterCap`.
* After a failed `write_all()` a client gives up, or goes on to its next message on
  the same connection, as the producer of `bench/src/main.rs` does: nothing of it is
  ever read, since the bus thread has returned.
* A publisher whose first message has type 0 is taken for a subscriber. `Framed`
  holds all the same, since nothing of it is published.

### Codec

Bytes are digits of base `Base`. `Send` is `publish_raw()` by Rust or Python,
`Commit` the bus reading the frame into the slot, `BuildFrame` the dispatch thread
making a frame of it, `Receive` the decoders of both languages, `Again` the next
message through the same slot. The clock the bus writes is any value. An `f64` is its
64 bits. `PayloadCap` is the size of the largest payload, so that the whole slot is
in use.

### Benchmark

`m_pc` is the main thread and `s_pc` the subscriber threads of the run in progress.
The main thread holds the mutex in `check` and `short`, between `Lock` and `Wait`.
`log`, `members`, `interest`, `offered`, `backlog` and `taken` are the variables of
`PubSub`, with the positions of messages for messages.

| code | actions |
|---|---|
| `main` | `NextSystem` for `[1/2]` and `[2/2]`, `PrintStats` or `PrintStatsPanics` (no sample), `PrintFailure`, `Finish` with or without the comparison |
| a subscriber thread | `Connect` or `ConnectFails` (`expect()` panics), `CheckIn`, `Notify`, then `Receive` per message, `Return`, or `ReceiveFails` |
| the barrier | `Lock`, `Look` and `Wait`, or `PassBarrier`; `WakeUp` is a spurious one |
| the run | `Settle` (the sleep and the publisher's connection), `Publish` per message, `PublishFails`, `PublishOver`, `Join` per handle in order, `JoinOver` or `JoinPanics` |
| the broker | `Register` and `Offer`, which are `PubSub`'s `Join` and `Offer`; `BrokerStops` |

Decisions:

* The broker is the bus, where a subscription is in place some time after the
  handshake was written, from any position `PubSub` allows, and a full queue drops;
  or Valkey, where `subscribe()` returns after it is in place and nothing drops.
* `Err` is `failed`: it is printed and the next system runs. A panic of the main
  thread, by `expect()` or by taking the first of no samples (`--count 0`), ends the
  process.
* The threads of a run that failed have nothing in common with the next run, and
  `NextSystem` forgets them.
* A sample is the message it is of; how long it took is left open. `StatsExact` says
  that the statistics are right for every list of latencies of that length.
* In `Statistics` a number stands for the `f64` of the code: the rounding of
  99.9 is not modelled. The mean, the deviation, the ratios of the comparison, the
  rate control, the reading of the arguments and the layout are left out.

## What TLC checks

| run | bounds | what it shows |
|---|---|---|
| `ring_safety` | 3 threads, 2 entries, 2 slots, 3 messages of 2 contents and an oversized one | `TypeOK`, `EntryOwned`, `BoundedLag`, `NoDataRace`, `NeverLapped`, `InOrder`, `Crowded`, and the inductive invariant `IInv` |
| `ring_liveness` | 2 threads, 2 entries, 2 slots, 3 messages of one content | `EnoughEntries`, `Delivery`, `BackpressureClears`, `ImplementsLog` |
| `bus_fanout` | 1 publisher of 3 messages, 2 subscribers, 2 channels, queues of 1, 2 slots | `TypeOK`, `Accounted`, `ReceiverPerSender`, `PublisherFIFO`, `UsesRing`, `ImplementsPubSub` |
| `bus_progress` | 2 publishers of 1 message, 2 subscribers, 1 slot | `NoOverrun`, `Committed`, `Delivered` |
| `connection_frames` | 3 messages of up to 3 bytes at a limit of 2, 5 subscriptions at a limit of 4 bytes, 2 frames down | `TypeOK`, `Framed`, `RefusedForSize`, `AsAsked`, `ReceivedWhole`, `PublishedInTheEnd`, `ReceivedInTheEnd` |
| `codec_round_trip` | bytes of 7 values; 3 ticks, 2 heartbeats, whole or cut, 3 channels, 2 clocks | `TypeOK`, `DecodedAsEncoded`, `PythonAgrees` |
| `bench_completes` | 3 subscribers, 1 message of warm-up and 1 sample or none, queues of 1, the bus, Valkey or both; samples of 3 values, below a boundary, on it and on the last | `TypeOK`, `SamplesExact`, `StatsExact`, `AcknowledgedFirst`, `Completes` |
| `ring_stale_registration` | 1 thread, 2 slots, 3 messages | finding: a stale registration reads a torn message |
| `bus_idle_disconnect` | 2 publishers of 2, 1 subscriber, 1 slot | finding: an idle subscriber is not removed when it disconnects |
| `bus_slow_subscriber` | 1 publisher of 3, 1 subscriber, a queue of 1 | finding: a subscriber that missed a frame is kept, and is sent those that follow |
| `bench_early_publish` | 2 subscribers on the bus | finding: publishing begins before a subscription is in place |
| `bench_no_bus` | 2 subscribers on the bus | finding: without a bus the benchmark hangs, and its error is never printed |

Why these bounds are enough for what they ask. Everything in the ring depends on
differences of sequence numbers, compared with the ring's size. Three messages on
two slots write one slot twice, so that a lapped reader, a stale snapshot, a
full ring and a half-written slot of the next turn all occur; a consumer can be
registered late from the second turn on, which is when `FellBehind` fires. Three
threads and two entries give the races for an entry, a scan that passes one
entry before and the other after a change, and a full table. The run under fairness
has one content, so that it tells messages apart by their number only: it is
`InOrder` in `ring_safety`, and the proofs, that tell contents apart. A
queue of one frame is full after one message, three messages give a drop between
two deliveries, and two subscribers give every relation of an entry to an
iteration in progress. Two publishers with a message each and one slot give every
order of lock, refusal, retry and commit. The proofs remove the bounds for every safety property.

On a connection a payload is empty, full or one byte too large, one payload is a
valid header, and one message has the type of a subscription; a stream is cut after
each of its cells. In `Codec` no two fields of a message hold the same bytes, and
each byte of a field has a value of its own, or the highest one. In the benchmark a
queue of one is overrun by two messages, and three subscribers let one that has
checked in wake the main thread while another has not.

Two things the runs leave to the proofs. A run with contending publishers has one
message of each, so that it is `PublisherOrder` that says their messages stay in
order under contention. A benchmark thread has at most one sample in its run, so that
the order of a thread's samples is said by `SamplesComplete`.

Deadlock is checked for the ring, where a thread can always start a call. It is
not for the bus: with the bound `MaxRead` on what publishers send, the bus comes
to rest when everything sent was handled. A connection and a benchmark come to an
end, too.

Fairness. In `Ring`: a thread inside a call of `publish` finishes it, a refused
publish is retried (`publish_one`'s loop) and a registered thread keeps
consuming (`dispatch_loop`'s loop). In `Bus`: a thread that can run runs, weakly;
nothing is assumed of clients, and a write to a socket that nobody reads is not
fair. The two mutexes are not assumed fair: `Committed` relies on the bound on what
other publishers send, so that it says that no wait is for ever, not that a
publisher is never overtaken. `Delivered` holds for a subscriber that keeps
reading whatever the others do. In `Connection` the client goes on with a call it is
in, or with its loop over `next_raw()`, and the bus thread runs. In `Benchmark` every
thread and the broker run; a subscriber thread that waits for the mutex gets it in
the end (strong fairness of `CheckIn`), which a main thread that only spurious
wake-ups run could otherwise deny it for ever. Spurious wake-ups and the end of the
broker are not assumed to happen.

## What is proved

Every invariant that a passing run checks, and every refinement, is a theorem of
`Spec`. The theorems assume of the constants what the modules' named assumptions
say, and what a section below adds.

### Ring

For every ring size of at least 1, every table size, every set of threads and
messages (`RingAssumption`; the two theorems about the table also need that the
threads are finitely many, `ThreadsAssumption`), and without the bound on the log's
length mattering:

| theorem | module | of `Spec` |
|---|---|---|
| `TypeCorrect` | `RingProofs` | `[]TypeOK` |
| `TableExclusive` | `RingProofs` | `[]EntryOwned` |
| `Invariance` | `RingProofs` | `[]IInv` |
| `Backpressure` | `RingProofs` | `[]BoundedLag` |
| `DataRaceFreedom` | `RingProofs` | `[]NoDataRace` |
| `NeverFallsBehind` | `RingProofs` | `[]NeverLapped` |
| `Broadcast` | `RingProofs` | `[]InOrder` |
| `WalkBounded` | `RingProofs` | `[]Crowded` |
| `NeverFull` | `RingProofs` | `[]EnoughEntries` |
| `LogImplemented` | `RingRefinementProofs` | `ImplementsLog` |

None of the safety properties is inductive. `BoundedLag` says nothing of a scan in
progress, so that a step of the scan could be followed by a write that breaks it;
`InOrder` says nothing of the slots. `IInv` adds what is missing:

* `HeadInv`: the head counts the committed messages, except between `publish`'s
  two stores, and no start is ahead of it;
* `LagInv`: for a consumer that registered in time, once the scan has passed its
  entry, either the running minimum is no later than its cursor, or it registered
  since and is less than a ring behind; and while a slot is written, it is less
  than a ring behind;
* `SlotInv`: the slots hold the last `RingSize` messages of the log, except the
  oldest one while it is overwritten, and the slot in hand holds what was written
  so far;
* `ReadInv`: what a thread has read, at each point of a consume call.

The step lemmas take one of these each: `HeadStep`, `PublishLag` and
`ConsumerLag`, `PublishSlots`, `PublishReads` and `ConsumerReads`, over
`PublishKeeps`, `ConsumerKeeps` and `OthersKept`, which say what a step of one
thread leaves to the others. The arithmetic is in `IndexDistinct`: two sequence
numbers less than a ring apart have different slots. `SlotIsMessage` joins
`LagInv` and `SlotInv`: the slot under a cursor that is behind the log holds its
message. `LogImplemented` then goes action by action: `CommitSlot` is an append,
`ClaimEntry` in time an attach, `ReadBody` a delivery, `Unregister` a detach, and
every other step a stutter.

`Crowded` is about a walk of the table that tests each entry once while others
change it: the thread that owns the entry a walk passes is not beyond it, so that
each entry passed leaves one thread fewer at or beyond the place of the walk.
`CrowdedSkip` is that step; a claim, a release or a new walk (`CrowdedBack`) only
sends threads back. A walk that has passed all entries would need more threads than
entries, which is `NeverFull`.

### Bus

For every set of publishers, subscribers, channels and filters, every ring size and
every depth of the queues (`BusAssumption`):

| theorem | module | of `Spec` |
|---|---|---|
| `TypeCorrect` | `BusProofs` | `[]TypeOK` |
| `NeverOverrun` | `BusProofs` | `[]NoOverrun` |
| `EntriesHaveReceivers` | `BusProofs` | `[]ReceiverPerSender` |
| `EveryFrameAccounted` | `BusProofs` | `[]Accounted` |
| `PublisherOrder` | `BusProofs` | `[]PublisherFIFO` |
| `RingUsed` | `BusRefinementProofs` | `UsesRing` |
| `ServiceImplemented` | `BusRefinementProofs` | `ImplementsPubSub` |

`NoOverrun` needs what holds between the check that there is room and the commit:
one publisher at a time is there (`Exclusive`), the room it found has not gone
(`RoomKept`: the dispatch thread only makes more), and the frame the dispatch thread
holds is in the log (`FrameHeld`); together, `LogInv`.

`Accounted` is proved in two layers. `Account` is the claim about one subscriber as
an operator of the values it is made of; `AccountAppend`, `AccountDrop`,
`AccountSkip` and `AccountCommit` say what a frame enqueued, missed or not wanted,
and a message committed, do to it. `BookInv` then states it of every entry of the
registry, with `Unregistered` (nothing was kept for a thread before it registers, and
a thread that waits has no frame in hand), and each thread's steps are one of the
four, or leave the account as it was (`BooksVisit`, `BooksDispatch`,
`BooksPublisher`, `BooksSubscriber`).

`PublisherFIFO` is inductive together with `ReadBefore` (a publisher holds a message
only after it read one). `InOrder` states it of any log and any number of messages,
so that `OwnCommit` and `OtherCommit` can say what a commit does to it, for the
publisher itself and for the others.

For the refinements, `MapInv` adds that nothing happens before the dispatch consumer
is registered (`BeforeStart`), and that a publisher on its way through the ring has
one message (`OneMessage`). For the ring, a commit is an append, the registration an
attach and the store of the cursor a delivery. For the service, a commit is a post, a
registration a join, a visit of an entry an offer (`VisitIsOffer`), a receive a
take and a removal a leave; every other step is a stutter.

### Connection

For every set of messages and of subscriptions, every limit, and any number of
messages either way (`ConnectionAssumption`):

| theorem | module | of `Spec` |
|---|---|---|
| `TypeCorrect` | `ConnectionProofs` | `[]TypeOK` |
| `FramedCorrect` | `ConnectionProofs` | `[]Framed` |
| `RefusedForSizeCorrect` | `ConnectionProofs` | `[]RefusedForSize` |
| `AsAskedCorrect` | `ConnectionProofs` | `[]AsAsked` |
| `ReceivedWholeCorrect` | `ConnectionProofs` | `[]ReceivedWhole` |

None of them says what is in flight, which is what a read finds. A direction of the
connection is a `Pipe`: there is a stream that is the frames of the messages one
after the other (`Layout`, by the places where they begin, so that nothing recursive
is needed), a reader stands at a place of it that is the begin of a frame or of its
payload, with the header of it in hand (`Position`), the cells on the socket are
those that follow (`Window`), and unless the connection was cut what is still to be
written follows those (`Ending`). `PipeSend`, `PipeTransmit`, `PipeHeader`,
`PipePayload`, `PipeEnds` and `PipeCut` are what the writes, the reads and the breaks
do to a pipe, proved once and used for both directions.

`ConnectionInv` is then `Together` (`TypeInv`; `Fresh`, what holds before the
client's first call; `Places`, which places of the two programs go together; `Up`,
the bus thread in step with what the client wrote; `Down`, the client in step with
what the bus thread wrote), `Cause` (why the bus thread returned) and `Sound` (the
histories are starts of each other, and the filter is the one asked for).
`PackedIds` is the fact of arithmetic below `AsAsked`: two digits of a channel id
give the id back.

### Codec

For every base of more than 6, every size of the slot's buffer that its 16-bit
length can state, every value of the fields, every channel and every clock
(`CodecAssumption`):

| theorem | module | states |
|---|---|---|
| `HeaderRoundTrip` | `CodecProofs` | `from_bytes()` undoes `to_bytes()`, whatever follows the header |
| `TickRoundTrip`, `BeatRoundTrip` | `CodecProofs` | `decode()` undoes `encode()` |
| `TypeCorrect` | `CodecProofs` | `Spec => []TypeOK` |
| `RoundTrip` | `CodecProofs` | `Spec => []DecodedAsEncoded` |
| `PythonAgreesCorrect` | `CodecProofs` | `Spec => []PythonAgrees` |

`LE16`, `LE32` and `LE64` go from digits to numbers and back, each width by halves
(`TwoDigits`, `Halves`); the widths are squares of one another (`Base2`, `Base4`,
`Base8`), as the provers know no exponent. `IsHeader`, `TickRead` and `BeatRead` say
which bytes are at which place, and are what the encoders establish
(`ToBytesIsHeader`, `EncodedTick`, `EncodedBeat`) and the decoders rest on; the
header packed by Python is the same sequence (`PackAgrees`). The places of a format
are a recursive function, which `Offsets` unfolds for formats of at most five fields.

`CodecInv` follows the message: the wire carries its `Frame`, under the sender's
clock and then under the slot's (`OnWire`), the slot `Holds` it in front of what an
earlier message left (`InSlot`), and what was decoded is `Received` (`Seen`).
`MessageStored` is why a slot can be used again: the copy covers the bytes that the
length announces, and the length survives its cast to 16 bits.

### Benchmark

For every number of subscribers, every length of warm-up and run, every depth of
the queues, on both brokers (`BenchmarkAssumption`):

| theorem | module | states |
|---|---|---|
| `TypeCorrect` | `BenchmarkProofs` | `Spec => []TypeOK` |
| `BarrierOnValkey` | `BenchmarkProofs` | `Spec => []AcknowledgedFirst` |
| `SamplesComplete` | `BenchmarkProofs` | `Spec => []SamplesExact` |
| `StatisticsExact` | `BenchmarkProofs` | `Spec => []StatsExact` |
| `HistogramExact` | `BenchmarkProofs` | `CountsBucket` for every list of samples |

`Barrier`: the counter is no more than the number of threads that are past their
check-in, so that a main thread past the barrier has seen all of them; on Valkey a
thread that checked in has subscribed. `Books`: the positions a subscriber took and
those queued for it ascend, so that the i-th is at least i and leaves room for those
after it (`Account`); a thread that took as many messages as there are took each
(`ReturnedAll`), and its samples are those after the warm-up (`Measured`).
`Collected` says that the joined threads' samples are in `all`, in order.

For the statistics, `Sorted` is defined by how many elements are not behind an
element (`Rank`). That ranks are the places, each taken once, is the pigeonhole
principle (`PlaceTaken`), so that nothing is proved by induction over the list;
`PercentileDivides` then counts the elements on each side of the two places that
`percentile()` interpolates between, and `HistogramExact` uses that the boundaries
ascend.

### What is only model-checked

The liveness properties (`Delivery`, `BackpressureClears`, `Committed`,
`Delivered`, `PublishedInTheEnd`, `ReceivedInTheEnd`, `Completes`): liveness under fairness is out of the prover's reach. The five findings are
counterexamples that TLC finds, under the bounds of their runs.

## What is left

1. The composition of `Connection` with `Bus`: a message read byte by byte by the
   publisher threads, in place of `ReadMessage`, as a refinement of `Bus`'s step.
2. Action properties beside the refinements, where one says more than the invariants
   do.

Not modelled: the programs of `bench` other than the latency benchmark, but for
their encoders and decoders and, in `Connection`, what the dummy producer does when
a publish fails; the channel table read from `channels.toml`, which no program looks
up; logging, socket options and output; the mean and the deviation among the
statistics; and memory orders weaker than sequential consistency.
