-------------------------------- MODULE Codec --------------------------------
(***************************************************************************)
(* The bytes of a message, from a publisher through a slot of the ring to  *)
(* a subscriber: protocol/src/header.rs and messages/*.rs, the slot of     *)
(* bus/src/ring.rs with the frame that dispatch_loop builds from it, and   *)
(* the clients of bench/sub.py and bench/latency.py, which pack and unpack *)
(* the same bytes with struct.                                             *)
(*                                                                         *)
(* A byte is a digit in base Base: 256 in the code, less for TLC.  The     *)
(* widths of the fields are those of the code.                             *)
(***************************************************************************)
EXTENDS Integers, Sequences

CONSTANTS
  Base,        \* the number of values of a byte
  Ticks,       \* values of PriceTick, of which last_price is the bits
  Heartbeats,  \* values of Heartbeat
  Channels,    \* values of channel_id
  Clocks,      \* values of timestamp_ns
  PayloadCap   \* PAYLOAD_CAP

\* How many values two, four and eight bytes have.
Base2 == Base * Base
Base4 == Base2 * Base2
Base8 == Base4 * Base4

U8  == 0 .. Base - 1
U16 == 0 .. Base2 - 1
U32 == 0 .. Base4 - 1
U64 == 0 .. Base8 - 1

PriceTick == [instrument_id : U32, last_price : U64, volume : U32,
              total_traded_volume : U64, timestamp_ns : U64]
Heartbeat == [source_id : U32, sequence_num : U64]

ASSUME CodecAssumption ==
  /\ Base \in Nat /\ Base > 6        \* the message types are bytes
  /\ Ticks \subseteq PriceTick
  /\ Heartbeats \subseteq Heartbeat
  /\ Channels \subseteq U32
  /\ Clocks \subseteq U64
  /\ PayloadCap \in 32 .. Base2 - 1   \* payload_len is a u16 in the slot

-----------------------------------------------------------------------------
(* to_le_bytes() and from_le_bytes(), slices and copy_from_slice().          *)

ToLE16(n) == <<n % Base, n \div Base>>
ToLE32(n) == ToLE16(n % Base2) \o ToLE16(n \div Base2)
ToLE64(n) == ToLE32(n % Base4) \o ToLE32(n \div Base4)

FromLE16(b) == b[1] + Base * b[2]
FromLE32(b) == FromLE16(SubSeq(b, 1, 2)) + Base2 * FromLE16(SubSeq(b, 3, 4))
FromLE64(b) == FromLE32(SubSeq(b, 1, 4)) + Base4 * FromLE32(SubSeq(b, 5, 8))

\* buf[from..to], and a buffer after bytes were copied into it.
Slice(buf, from, to) == SubSeq(buf, from + 1, to)
Copy(buf, at, bytes) ==
  [i \in 1 .. Len(buf) |->
     IF at < i /\ i <= at + Len(bytes) THEN bytes[i - at] ELSE buf[i]]
Zeros(n) == [i \in 1 .. n |-> 0]

-----------------------------------------------------------------------------
(* The header.                                                               *)

HEADER_SIZE == 1 + 4 + 8 + 4

MsgHeader == [msg_type : U8, channel_id : U32, timestamp_ns : U64, payload_len : U32]

ToBytes(h) ==
  Copy(Copy(Copy(Copy(Zeros(HEADER_SIZE),
    0, <<h.msg_type>>),
    1, ToLE32(h.channel_id)),
    5, ToLE64(h.timestamp_ns)),
    13, ToLE32(h.payload_len))

\* from_bytes() of at least HEADER_SIZE bytes, which every caller passes.
FromBytes(buf) ==
  [msg_type     |-> buf[1],
   channel_id   |-> FromLE32(Slice(buf, 1, 5)),
   timestamp_ns |-> FromLE64(Slice(buf, 5, 13)),
   payload_len  |-> FromLE32(Slice(buf, 13, 17))]

-----------------------------------------------------------------------------
(* The payloads.  An Option is a sequence of at most one value.              *)

TypeOf == [PriceTick |-> 1, Heartbeat |-> 6]
TickSize == 32
BeatSize == 12

EncodeTick(t) ==
  ToLE32(t.instrument_id) \o ToLE64(t.last_price) \o ToLE32(t.volume)
    \o ToLE64(t.total_traded_volume) \o ToLE64(t.timestamp_ns)

DecodeTick(buf) ==
  IF Len(buf) < TickSize THEN <<>>
  ELSE <<[instrument_id       |-> FromLE32(Slice(buf, 0, 4)),
          last_price          |-> FromLE64(Slice(buf, 4, 12)),
          volume              |-> FromLE32(Slice(buf, 12, 16)),
          total_traded_volume |-> FromLE64(Slice(buf, 16, 24)),
          timestamp_ns        |-> FromLE64(Slice(buf, 24, 32))]>>

EncodeBeat(b) == ToLE32(b.source_id) \o ToLE64(b.sequence_num)

DecodeBeat(buf) ==
  IF Len(buf) < BeatSize THEN <<>>
  ELSE <<[source_id    |-> FromLE32(Slice(buf, 0, 4)),
          sequence_num |-> FromLE64(Slice(buf, 4, 12))]>>

-----------------------------------------------------------------------------
(* struct.pack() and struct.unpack_from() with a format of the unaligned,    *)
(* little-endian kind: B, I, Q and d are fields of 1, 4, 8 and 8 bytes, one  *)
(* after the other.                                                          *)

\* A wrong variant: the fields of a heartbeat the other way round.
BeatFormatSwapped == <<8, 4>>

HeaderFormat == <<1, 4, 8, 4>>     \* "<BIQI"
TickFormat   == <<4, 8, 4, 8, 8>>  \* "<IdIQQ"
BeatFormat   == <<4, 8>>           \* "<IQ"

\* Where field k begins.
Offset(format, k) ==
  LET o[j \in 1 .. k] == IF j = 1 THEN 0 ELSE o[j - 1] + format[j - 1]
  IN  o[k]

PackField(width, n) ==
  CASE width = 1 -> <<n>> [] width = 4 -> ToLE32(n) [] width = 8 -> ToLE64(n)
UnpackField(b) ==
  CASE Len(b) = 1 -> b[1] [] Len(b) = 4 -> FromLE32(b) [] Len(b) = 8 -> FromLE64(b)

Unpack(format, buf) ==
  [k \in 1 .. Len(format) |->
     UnpackField(Slice(buf, Offset(format, k), Offset(format, k) + format[k]))]

PackHeader(type, channel, clock, length) ==
  PackField(1, type) \o PackField(4, channel) \o PackField(8, clock) \o PackField(4, length)

-----------------------------------------------------------------------------
(* A message on its way.                                                     *)

VARIABLES
  stage,  \* where it is
  wire,   \* the bytes on a socket
  slot,   \* SlotData
  msg,    \* history: the type and channel, the value encoded, the bytes sent
  seen    \* history: what the subscribers decode

vars == <<stage, wire, slot, msg, seen>>

NoMessage == [type |-> 0, channel |-> 0, value |-> <<>>, payload |-> <<>>]
NoFrame == [header |-> <<>>, payload |-> <<>>, value |-> <<>>, python |-> <<>>]

Init ==
  /\ stage = "idle" /\ wire = <<>> /\ msg = NoMessage /\ seen = NoFrame
  /\ slot = [channel_id |-> 0, msg_type |-> 0, payload_len |-> 0,
             timestamp_ns |-> 0, payload |-> Zeros(PayloadCap)]

\* publish_raw() of a payload, by the Rust client or by a Python one.
Send(type, channel, value, payload) ==
  /\ stage = "idle"
  /\ stage' = "sent"
  /\ msg' = [type |-> type, channel |-> channel, value |-> value, payload |-> payload]
  /\ \/ \E clock \in Clocks :
          wire' = ToBytes([msg_type |-> type, channel_id |-> channel,
                           timestamp_ns |-> clock, payload_len |-> Len(payload)])
                    \o payload
     \/ wire' = PackHeader(type, channel, 0, Len(payload)) \o payload
  /\ UNCHANGED <<slot, seen>>

\* publish() encodes a value.
PublishTick(t, channel) == Send(TypeOf.PriceTick, channel, <<t>>, EncodeTick(t))
PublishBeat(b, channel) == Send(TypeOf.Heartbeat, channel, <<b>>, EncodeBeat(b))

\* publish_raw() takes any bytes: here the first ones of an encoded value.
PublishPart(t, n, channel) ==
  Send(TypeOf.PriceTick, channel, <<>>, Slice(EncodeTick(t), 0, n))

\* A wrong variant: the length of the frame, with its header.
SlotLenFrame(n) == (HEADER_SIZE + n) % Base2

\* The cast of the length to the u16 of the slot.
SlotLen(n) == n % Base2

\* The bus thread reads the frame, and publish() fills the slot: the type and
\* the channel are the sender's, the clock is the bus's, and the bytes after the
\* payload are those of the slot's last message.
Commit ==
  /\ stage = "sent"
  /\ stage' = "committed"
  /\ \E clock \in Clocks :
       LET h == FromBytes(wire)
       IN  slot' = [channel_id   |-> h.channel_id,
                    msg_type     |-> h.msg_type,
                    payload_len  |-> SlotLen(h.payload_len),
                    timestamp_ns |-> clock,
                    payload      |-> Copy(slot.payload, 0,
                       Slice(wire, HEADER_SIZE, HEADER_SIZE + h.payload_len))]
  /\ UNCHANGED <<wire, msg, seen>>

\* A wrong variant: the whole buffer goes out.
WholeBuffer == PayloadCap

\* How much of the buffer dispatch_loop() sends.
PayloadLen == slot.payload_len

\* dispatch_loop() builds the frame of the slot.
BuildFrame ==
  /\ stage = "committed"
  /\ stage' = "framed"
  /\ wire' = ToBytes([msg_type |-> slot.msg_type, channel_id |-> slot.channel_id,
                      timestamp_ns |-> slot.timestamp_ns,
                      payload_len |-> PayloadLen])
               \o Slice(slot.payload, 0, PayloadLen)
  /\ UNCHANGED <<slot, msg, seen>>

\* A subscriber in Rust picks the decoder by the type.
Decode(type, payload) ==
  CASE type = TypeOf.PriceTick -> DecodeTick(payload)
    [] type = TypeOf.Heartbeat -> DecodeBeat(payload)

\* sub.py: the fields in the order of the format, or None.
UnpackPayload(type, payload) ==
  CASE type = TypeOf.PriceTick ->
         IF Len(payload) < 32 THEN <<>> ELSE <<Unpack(TickFormat, payload)>>
    [] type = TypeOf.Heartbeat ->
         IF Len(payload) < 12 THEN <<>> ELSE <<Unpack(BeatFormat, payload)>>

\* A subscriber reads the header and as many bytes as it says: one that uses the
\* Rust library, and one in Python.
Receive ==
  /\ stage = "framed"
  /\ stage' = "received"
  /\ LET h == FromBytes(wire)
         p == Slice(wire, HEADER_SIZE, HEADER_SIZE + h.payload_len)
         u == Unpack(HeaderFormat, wire)
     IN  seen' = [header |-> <<h.msg_type, h.channel_id, h.timestamp_ns, h.payload_len>>,
                  payload |-> p,
                  value  |-> Decode(h.msg_type, p),
                  python |-> <<u, UnpackPayload(u[1],
                                 Slice(wire, HEADER_SIZE, HEADER_SIZE + u[4]))>>]
  /\ UNCHANGED <<wire, slot, msg>>

\* The next message; it may use the same slot.
Again ==
  /\ stage = "received"
  /\ stage' = "idle"
  /\ wire' = <<>> /\ msg' = NoMessage /\ seen' = NoFrame
  /\ UNCHANGED slot

Next ==
  \/ \E t \in Ticks, c \in Channels :
       \/ PublishTick(t, c)
       \/ \E n \in {0, BeatSize, TickSize - 1} : PublishPart(t, n, c)
  \/ \E b \in Heartbeats, c \in Channels : PublishBeat(b, c)
  \/ Commit \/ BuildFrame \/ Receive \/ Again

Spec == Init /\ [][Next]_vars

-----------------------------------------------------------------------------
(* Properties.                                                             *)

TypeOK ==
  /\ stage \in {"idle", "sent", "committed", "framed", "received"}
  /\ wire \in Seq(U8)
  /\ slot \in [channel_id : U32, msg_type : U8, payload_len : U16, timestamp_ns : U64,
               payload : [1 .. PayloadCap -> U8]]
  /\ slot.payload_len <= PayloadCap

\* What a subscriber decodes is what the publisher encoded, and nothing is
\* decoded from a payload that is not a whole value; the bytes of the slot's last
\* message never show, and the clock is the bus's.
DecodedAsEncoded ==
  stage = "received" =>
    /\ seen.header = <<msg.type, msg.channel, slot.timestamp_ns, Len(msg.payload)>>
    /\ seen.payload = msg.payload
    /\ seen.value = msg.value

\* The Rust and the Python ends agree on every byte of a frame.
Fields(type, v) ==
  IF type = TypeOf.PriceTick
  THEN <<v.instrument_id, v.last_price, v.volume, v.total_traded_volume, v.timestamp_ns>>
  ELSE <<v.source_id, v.sequence_num>>
PythonAgrees ==
  stage = "received" =>
    seen.python = <<seen.header, IF seen.value = <<>> THEN <<>>
                                 ELSE <<Fields(msg.type, seen.value[1])>> >>
=============================================================================
