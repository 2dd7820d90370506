------------------------------ MODULE Connection ------------------------------
(***************************************************************************)
(* One connection to the bus, as the cells on its socket: a client built   *)
(* on publisher-client or subscriber-client, and the bus thread that       *)
(* serves it (handle_connection, run_publisher and run_subscriber_io of    *)
(* bus/src/main.rs).                                                       *)
(*                                                                         *)
(* TCP carries cells, not messages: a write_all() puts them on the wire    *)
(* one after the other and may be cut short anywhere; a read_exact()       *)
(* takes as many as the header announced, or fails when the stream ends    *)
(* before.  A header is one cell per field, a payload is made of bytes,    *)
(* and both are numbers, so that a reader that is out of step reads a      *)
(* header from a payload without noticing.                                 *)
(***************************************************************************)
EXTENDS Integers, Sequences

CONSTANTS
  Messages,      \* what is published: records of type, chan and payload
  Requests,      \* the lists of channels a client subscribes to
  PayloadCap,    \* PAYLOAD_CAP
  FilterCap,     \* the size of ch_payload, in bytes
  MaxSent,       \* bound: the messages a publisher sends
  MaxDelivered   \* bound: the frames the bus has for a subscriber

Base == 2        \* the digits of a channel id on the wire; 256 in the code
IdSize == 2      \* how many there are; 4 in the code
HeaderSize == 3  \* a cell for each field the bus reads

ASSUME ConnectionAssumption ==
  /\ Messages \subseteq [type : Nat, chan : Nat, payload : Seq(Nat)]
  /\ Requests \subseteq Seq(0 .. Base * Base - 1)
  /\ PayloadCap \in Nat /\ FilterCap \in Nat
  /\ MaxSent \in Nat /\ MaxDelivered \in Nat

VARIABLES
  c_pc,       \* the client: new, a publisher, or a subscriber reading a frame
  out,        \* what its write_all() has yet to put on the wire
  c_hdr,      \* the header that next_raw() has read
  link,       \* open, closed by the client, or reset
  up, down,   \* the cells in flight to the bus, and from it
  b_pc,       \* the bus thread's place
  hdr,        \* the header it has read
  filter,     \* the entry it has put into the registry: none, or one
  b_out,      \* what its write_all() has yet to put on the wire
  sent,       \* history: the client's calls of publish_raw()
  asked,      \* history: its argument of connect_filtered()
  published,  \* history: what the bus thread passed to publish_one()
  delivered,  \* history: the frames it took off its queue
  received    \* history: what next_raw() has returned

clientVars == <<c_pc, out, c_hdr, sent, asked, received>>
busVars    == <<b_pc, hdr, filter, b_out, published, delivered>>
vars == <<clientVars, busVars, link, up, down>>

NoHeader == [type |-> 0, chan |-> 0, len |-> 0]

Init ==
  /\ c_pc = "new" /\ out = <<>> /\ c_hdr = NoHeader
  /\ link = "open" /\ up = <<>> /\ down = <<>>
  /\ b_pc = "first" /\ hdr = NoHeader /\ filter = <<>> /\ b_out = <<>>
  /\ sent = <<>> /\ asked = <<>>
  /\ published = <<>> /\ delivered = <<>> /\ received = <<>>

-----------------------------------------------------------------------------
(* The wire format.                                                          *)

Frame(m) == <<m.type, m.chan, Len(m.payload)>> \o m.payload

FromBytes(b) == [type |-> b[1], chan |-> b[2], len |-> b[3]]

MessageOf(h, p) == [type |-> h.type, chan |-> h.chan, payload |-> p]

\* A channel id, least significant digit first, and a list of them.
IdBytes(id) == <<id % Base, id \div Base>>
Pack(ids) ==
  [i \in 1 .. IdSize * Len(ids) |->
     IdBytes(ids[1 + (i - 1) \div IdSize])[1 + ((i - 1) % IdSize)]]

\* A wrong variant: most significant digit first.
ChannelIdsBig(p) ==
  {p[IdSize * k - 1] * Base + p[IdSize * k] : k \in 1 .. Len(p) \div IdSize}

\* chunks_exact(4) and from_le_bytes(): an incomplete chunk at the end is lost.
ChannelIds(p) ==
  {p[IdSize * k - 1] + p[IdSize * k] * Base : k \in 1 .. Len(p) \div IdSize}

-----------------------------------------------------------------------------
(* The client.                                                               *)

\* publish_raw(): the header and the payload, in one write_all() or in two.
PublishRaw(m) ==
  /\ c_pc \in {"new", "publisher"}
  /\ out = <<>>
  /\ Len(sent) < MaxSent
  /\ c_pc' = "publisher"
  /\ sent' = Append(sent, m)
  /\ out' = Frame(m)
  /\ UNCHANGED <<c_hdr, asked, received, busVars, link, up, down>>

\* connect_filtered(): a control message of type 0, and from then on reading.
ConnectFiltered(ids) ==
  /\ c_pc = "new"
  /\ c_pc' = "next_header"
  /\ asked' = ids
  /\ out' = Frame([type |-> 0, chan |-> 0, payload |-> Pack(ids)])
  /\ UNCHANGED <<c_hdr, sent, received, busVars, link, up, down>>

\* write_all() puts the next cell on the wire.
Transmit ==
  /\ out # <<>>
  /\ up' = Append(up, Head(out))
  /\ out' = Tail(out)
  /\ UNCHANGED <<c_pc, c_hdr, sent, asked, received, busVars, link, down>>

\* write_all() fails: the client gives up, or, as the producer of bench/src/main.rs
\* does, goes on to its next message on the connection it has.
WriteFails ==
  /\ out # <<>>
  /\ b_pc \in {"closed", "stopped"}
  /\ out' = <<>>
  /\ \/ c_pc' = "closed" /\ link' = "fin"
     \/ c_pc = "publisher" /\ UNCHANGED <<c_pc, link>>
  /\ UNCHANGED <<c_hdr, sent, asked, received, busVars, up, down>>

\* The client drops its end between two calls: what it wrote still arrives.
Close ==
  /\ c_pc \in {"new", "publisher", "next_header"}
  /\ out = <<>>
  /\ c_pc' = "closed"
  /\ link' = "fin"
  /\ UNCHANGED <<out, c_hdr, sent, asked, received, busVars, up, down>>

\* The client dies, or the network does, at any point of a write: some of what
\* is in flight is lost.
Reset ==
  /\ link # "reset"
  /\ \E k \in 0 .. Len(up) : up' = SubSeq(up, 1, k)
  /\ out' = <<>>
  /\ c_pc' = "closed"
  /\ link' = "reset"
  /\ UNCHANGED <<c_hdr, sent, asked, received, busVars, down>>

\* next_raw(): the header of the next frame ...
NextHeader ==
  /\ c_pc = "next_header"
  /\ out = <<>>
  /\ Len(down) >= HeaderSize
  /\ c_hdr' = FromBytes(down)
  /\ down' = SubSeq(down, HeaderSize + 1, Len(down))
  /\ c_pc' = "next_payload"
  /\ UNCHANGED <<out, sent, asked, received, busVars, link, up>>

\* Two wrong variants: read() takes what is there, and a frame without a payload
\* waits for one.
PayloadPart == IF Len(down) < c_hdr.len THEN Len(down) ELSE c_hdr.len
PayloadLenPositive == IF c_hdr.len = 0 THEN 1 ELSE c_hdr.len

\* How much read_exact() reads.
PayloadLen == c_hdr.len

\* ... and its payload.
NextPayload ==
  /\ c_pc = "next_payload"
  /\ Len(down) >= PayloadLen
  /\ received' = Append(received, MessageOf(c_hdr, SubSeq(down, 1, PayloadLen)))
  /\ down' = SubSeq(down, PayloadLen + 1, Len(down))
  /\ c_pc' = "next_header"
  /\ UNCHANGED <<out, c_hdr, sent, asked, busVars, link, up>>

\* read_exact() meets the end of the stream, and the client gives up.
NextFails ==
  /\ c_pc \in {"next_header", "next_payload"}
  /\ out = <<>>
  /\ b_pc \in {"closed", "stopped"}
  /\ Len(down) < (IF c_pc = "next_header" THEN HeaderSize ELSE c_hdr.len)
  /\ c_pc' = "closed"
  /\ link' = "fin"
  /\ UNCHANGED <<out, c_hdr, sent, asked, received, busVars, up, down>>

-----------------------------------------------------------------------------
(* The bus thread: handle_connection() and run_publisher().                  *)

Reading == b_pc \in {"first", "channels", "header", "payload"}

\* How many cells its read_exact() waits for, and whether they are there.
Needed == IF b_pc \in {"first", "header"} THEN HeaderSize ELSE hdr.len
Available == Reading /\ Len(up) >= Needed
Taken == SubSeq(up, 1, Needed)

\* A wrong variant: run_publisher() reads the socket, not the buffer before it.
RestUnbuffered ==
  IF b_pc = "payload" /\ published = <<>> THEN <<>> ELSE SubSeq(up, Needed + 1, Len(up))

\* What is left for the next one: the reader is handed on with its buffer.
Rest == SubSeq(up, Needed + 1, Len(up))

\* Two wrong variants: no check at all, and the largest payload refused.
FitsAlways(h) == TRUE
FitsBelow(h) == h.len < PayloadCap

\* What first_payload and payload_buf have room for.
Fits(h) == h.len <= PayloadCap

\* The first header decides what the connection is: type 0 is a subscriber.
SubscribeHeader ==
  /\ b_pc = "first" /\ Available
  /\ FromBytes(up).type = 0
  /\ FromBytes(up).len <= FilterCap
  /\ hdr' = FromBytes(up)
  /\ up' = Rest
  /\ b_pc' = "channels"
  /\ UNCHANGED <<clientVars, filter, b_out, published, delivered, link, down>>

\* The header of a message: the first one with another type, and all that follow
\* it whatever their type.
AtMessage == Available /\ (b_pc = "header" \/ (b_pc = "first" /\ FromBytes(up).type # 0))

MessageHeader ==
  /\ AtMessage
  /\ Fits(FromBytes(up))
  /\ hdr' = FromBytes(up)
  /\ up' = Rest
  /\ b_pc' = "payload"
  /\ UNCHANGED <<clientVars, filter, b_out, published, delivered, link, down>>

\* A wrong variant: only the message is dropped, and its payload is not read.
Skipped == "header"

\* A payload that is too large ends the connection.
Refused == "closed"

TooLarge ==
  /\ Available
  /\ IF AtMessage THEN ~Fits(FromBytes(up))
     ELSE b_pc = "first" /\ FromBytes(up).len > FilterCap
  /\ up' = Rest
  /\ b_pc' = Refused
  /\ UNCHANGED <<clientVars, hdr, filter, b_out, published, delivered, link, down>>

\* The channels of a subscription, and its entry goes into the registry.
ReadChannels ==
  /\ b_pc = "channels" /\ Available
  /\ filter' = <<ChannelIds(Taken)>>
  /\ up' = Rest
  /\ b_pc' = "recv"
  /\ UNCHANGED <<clientVars, hdr, b_out, published, delivered, link, down>>

\* The payload is complete: publish_one(), and back to the next header.
ReadPayload ==
  /\ b_pc = "payload" /\ Available
  /\ published' = Append(published, MessageOf(hdr, Taken))
  /\ up' = Rest
  /\ b_pc' = "header"
  /\ UNCHANGED <<clientVars, hdr, filter, b_out, delivered, link, down>>

\* read_exact() fails: the stream ends before what it needs.
Disconnected ==
  /\ Reading /\ ~Available
  /\ link # "open"
  /\ b_pc' = "closed"
  /\ UNCHANGED <<clientVars, hdr, filter, b_out, published, delivered, link, up, down>>

-----------------------------------------------------------------------------
(* The bus thread of a subscriber: run_subscriber_io().                      *)

Wanted(m) == filter # <<>> /\ (filter[1] = {} \/ m.chan \in filter[1])

\* rx.recv(): the dispatch thread queued a frame that the filter lets through.
Recv(m) ==
  /\ b_pc = "recv"
  /\ Wanted(m) /\ Len(m.payload) <= PayloadCap
  /\ Len(delivered) < MaxDelivered
  /\ delivered' = Append(delivered, m)
  /\ b_out' = Frame(m)
  /\ b_pc' = "write"
  /\ UNCHANGED <<clientVars, hdr, filter, published, link, up, down>>

\* write_all() puts the next cell on the wire, and returns after the last.
WriteFrame ==
  /\ b_pc = "write"
  /\ down' = Append(down, Head(b_out))
  /\ b_out' = Tail(b_out)
  /\ b_pc' = (IF Tail(b_out) = <<>> THEN "recv" ELSE "write")
  /\ UNCHANGED <<clientVars, hdr, filter, published, delivered, link, up>>

\* write_all() fails, in the middle of a frame or before it: the entry goes.
WriteError ==
  /\ b_pc = "write"
  /\ link # "open"
  /\ b_out' = <<>>
  /\ filter' = <<>>
  /\ b_pc' = "closed"
  /\ UNCHANGED <<clientVars, hdr, published, delivered, link, up, down>>

\* The bus process ends, in the middle of anything.
BusStops ==
  /\ b_pc \notin {"closed", "stopped"}
  /\ \E k \in 0 .. Len(down) : down' = SubSeq(down, 1, k)
  /\ b_out' = <<>>
  /\ b_pc' = "stopped"
  /\ UNCHANGED <<clientVars, hdr, filter, published, delivered, link, up>>

-----------------------------------------------------------------------------
Client == Transmit \/ NextHeader \/ NextPayload \/ NextFails

Handle ==
  \/ SubscribeHeader \/ ReadChannels \/ MessageHeader \/ ReadPayload
  \/ TooLarge \/ Disconnected \/ WriteFrame

Next ==
  \/ \E m \in Messages : PublishRaw(m) \/ Recv(m)
  \/ \E ids \in Requests : ConnectFiltered(ids)
  \/ Client \/ WriteFails \/ Close \/ Reset
  \/ Handle \/ WriteError \/ BusStops

Spec == Init /\ [][Next]_vars

\* A client that is in a call goes on with it, one that subscribed keeps calling
\* next_raw(), and the bus thread runs; the rest may happen or not.
FairSpec == Spec /\ WF_vars(Client) /\ WF_vars(Handle)

-----------------------------------------------------------------------------
(* Properties.                                                             *)

Header == [type : Nat, chan : Nat, len : Nat]
Message == [type : Nat, chan : Nat, payload : Seq(Nat)]

\* The state is well formed; where the thread reads a payload, it fits the buffer
\* that handle_connection() and run_publisher() slice.
TypeOK ==
  /\ c_pc \in {"new", "publisher", "next_header", "next_payload", "closed"}
  /\ link \in {"open", "fin", "reset"}
  /\ b_pc \in {"first", "channels", "header", "payload", "recv", "write", "closed", "stopped"}
  /\ {out, up, down, b_out} \subseteq Seq(Nat)
  /\ asked \in Seq(0 .. Base * Base - 1)
  /\ {sent, published, delivered, received} \subseteq Seq(Message)
  /\ {hdr, c_hdr} \subseteq Header
  /\ filter \in Seq(SUBSET Nat)
  /\ b_pc = "payload" => hdr.len <= PayloadCap
  /\ b_pc = "channels" => hdr.len <= FilterCap
  /\ Len(filter) = IF b_pc \in {"recv", "write"} \/ (b_pc = "stopped" /\ filter # <<>>)
                   THEN 1 ELSE 0

IsStart(s, t) == Len(s) <= Len(t) /\ s = SubSeq(t, 1, Len(s))

\* The bus publishes what the client sent, from the first message on: no part of
\* a message that was cut short, nothing twice, and nothing read out of step,
\* wherever the stream is cut and whatever it contained.
Framed == IsStart(published, sent)

\* On a connection that its client keeps, the bus thread returns only because the
\* next message, or the subscription, is larger than the documented limit.
RefusedForSize ==
  (b_pc = "closed" /\ link = "open") =>
    IF sent = <<>>
    THEN Len(asked) * IdSize > FilterCap
    ELSE LET m == sent[Len(published) + 1]
         IN  Len(m.payload) > IF m.type = 0 /\ published = <<>> THEN FilterCap
                              ELSE PayloadCap

\* A client of the library is registered for the channels it asked for, all of
\* them and no other, or for every channel if it asked for none.
AsAsked ==
  (filter # <<>> /\ sent = <<>>) => filter[1] = {asked[i] : i \in 1 .. Len(asked)}

\* next_raw() returns the frames of the subscription one by one, whole and in
\* order, and only of the channels asked for, although the bus may stop or the
\* connection break in the middle of a frame.
ReceivedWhole ==
  /\ IsStart(received, delivered)
  /\ asked # <<>> => \A i \in 1 .. Len(received) :
                        \E j \in 1 .. Len(asked) : received[i].chan = asked[j]

\* What a publisher's call wrote is published in the end, if the messages before
\* it and itself are not too large, even when the client leaves right after it.
Acceptable == /\ sent[1].type # 0
              /\ \A i \in 1 .. Len(sent) : Len(sent[i].payload) <= PayloadCap
PublishedInTheEnd ==
  \A k \in 1 .. MaxSent :
    (Len(sent) = k /\ out = <<>> /\ Acceptable)
      ~> (Len(published) >= k \/ link = "reset" \/ b_pc = "stopped")

\* A frame that the bus thread took off its queue reaches a client that keeps
\* reading.
ReceivedInTheEnd ==
  \A k \in 1 .. MaxDelivered :
    (Len(delivered) = k)
      ~> (Len(received) >= k \/ c_pc \in {"publisher", "closed"} \/ b_pc = "stopped")
=============================================================================
