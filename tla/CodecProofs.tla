----------------------------- MODULE CodecProofs -----------------------------
(***************************************************************************)
(* Proofs about Codec for every base, every set of values and every size   *)
(* of a slot's buffer: what the decoders find is what the encoders wrote,  *)
(* in Rust and in Python, and no byte of an earlier message shows.         *)
(***************************************************************************)
EXTENDS Codec, SequenceTheorems, TLAPS

-----------------------------------------------------------------------------
(* Slices and copies.                                                        *)

LEMMA SliceProperties ==
  ASSUME NEW S, NEW a \in Seq(S), NEW f \in Nat, NEW t \in f .. Len(a)
  PROVE  /\ Slice(a, f, t) \in Seq(S)
         /\ Len(Slice(a, f, t)) = t - f
         /\ \A i \in 1 .. t - f : Slice(a, f, t)[i] = a[f + i] /\ f + i \in 1 .. Len(a)
<1>1. /\ f + 1 \in 1 .. Len(a) + 1 /\ t \in Nat /\ t <= Len(a) /\ Len(a) \in Nat
      /\ f + 1 \in Nat
  OBVIOUS
<1>2. /\ Len(SubSeq(a, f + 1, t)) = t - f
      /\ \A i \in 1 .. t - f : SubSeq(a, f + 1, t)[i] = a[f + i]
  BY <1>1
<1>3. \A i \in 1 .. t - f : f + i \in 1 .. Len(a)
  BY <1>1
<1>4. SubSeq(a, f + 1, t) \in Seq(S)
  BY <1>1, <1>3
<1> QED
  BY <1>2, <1>3, <1>4 DEF Slice

\* A slice is the sequence that has the bytes at its places.
LEMMA SliceIs ==
  ASSUME NEW S, NEW a \in Seq(S), NEW f \in Nat, NEW x \in Seq(S), f + Len(x) <= Len(a),
         \A i \in 1 .. Len(x) : a[f + i] = x[i]
  PROVE  Slice(a, f, f + Len(x)) = x
<1> DEFINE t == f + Len(x)
           y == Slice(a, f, t)
<1>1. t \in f .. Len(a) /\ t - f = Len(x)
  OBVIOUS
<1>2. y \in Seq(S) /\ Len(y) = Len(x) /\ \A i \in 1 .. Len(x) : y[i] = a[f + i]
  <2>1. y \in Seq(S) /\ Len(y) = t - f /\ \A i \in 1 .. t - f : y[i] = a[f + i]
    BY <1>1, SliceProperties
  <2> HIDE DEF y
  <2> QED
    BY ONLY <1>1, <2>1
<1> HIDE DEF y
<1>3. y = x
  BY ONLY <1>2, x \in Seq(S), \A i \in 1 .. Len(x) : a[f + i] = x[i], SeqEqual
<1> QED
  BY <1>3 DEF y

LEMMA SliceAll ==
  ASSUME NEW S, NEW a \in Seq(S)
  PROVE  Slice(a, 0, Len(a)) = a
<1>1. Slice(a, 0, 0 + Len(a)) = a
  BY SliceIs
<1> QED
  BY <1>1

\* A slice of what was put together is one of its part.
LEMMA SliceLeft ==
  ASSUME NEW S, NEW a \in Seq(S), NEW b \in Seq(S), NEW f \in Nat, NEW t \in f .. Len(a)
  PROVE  Slice(a \o b, f, t) = Slice(a, f, t)
<1> DEFINE c == a \o b
           x == Slice(a, f, t)
<1>1. /\ c \in Seq(S) /\ Len(c) = Len(a) + Len(b) /\ \A i \in 1 .. Len(a) : c[i] = a[i]
      /\ Len(a) \in Nat /\ Len(b) \in Nat
  BY ConcatProperties
<1>2. x \in Seq(S) /\ Len(x) = t - f
      /\ \A i \in 1 .. t - f : x[i] = a[f + i] /\ f + i \in 1 .. Len(a)
  BY SliceProperties
<1> HIDE DEF c, x
<1>3. f + Len(x) = t /\ t <= Len(c)
  BY ONLY <1>1, <1>2, f \in Nat, t \in f .. Len(a)
<1>4. \A i \in 1 .. Len(x) : c[f + i] = x[i]
  BY ONLY <1>1, <1>2
<1>5. Slice(c, f, f + Len(x)) = x
  BY <1>1, <1>2, <1>3, <1>4, SliceIs
<1> QED
  BY <1>3, <1>5 DEF c, x

LEMMA SliceRight ==
  ASSUME NEW S, NEW a \in Seq(S), NEW b \in Seq(S), NEW f \in Nat, NEW t \in f .. Len(b)
  PROVE  Slice(a \o b, Len(a) + f, Len(a) + t) = Slice(b, f, t)
<1> DEFINE c == a \o b
           x == Slice(b, f, t)
<1>1. /\ c \in Seq(S) /\ Len(c) = Len(a) + Len(b)
      /\ \A i \in 1 .. Len(b) : c[Len(a) + i] = b[i]
      /\ Len(a) \in Nat /\ Len(b) \in Nat
  BY ConcatProperties
<1>2. x \in Seq(S) /\ Len(x) = t - f
      /\ \A i \in 1 .. t - f : x[i] = b[f + i] /\ f + i \in 1 .. Len(b)
  BY SliceProperties
<1> HIDE DEF c, x
<1>3. /\ Len(a) + f + Len(x) = Len(a) + t /\ Len(a) + t <= Len(c) /\ Len(a) + f \in Nat
  BY ONLY <1>1, <1>2, f \in Nat, t \in f .. Len(b)
<1>4. \A i \in 1 .. Len(x) : c[Len(a) + f + i] = x[i]
  <2> SUFFICES ASSUME NEW i \in 1 .. Len(x) PROVE c[Len(a) + f + i] = x[i]
    OBVIOUS
  <2>1. x[i] = b[f + i] /\ f + i \in 1 .. Len(b)
    BY <1>2
  <2>2. Len(a) + f + i = Len(a) + (f + i)
    BY <1>1
  <2> QED
    BY ONLY <1>1, <2>1, <2>2
<1>5. Slice(c, Len(a) + f, Len(a) + f + Len(x)) = x
  BY <1>1, <1>2, <1>3, <1>4, SliceIs
<1> QED
  BY <1>3, <1>5 DEF c, x

\* Copying into a buffer changes what was copied over, and nothing else.
LEMMA CopyProperties ==
  ASSUME NEW S, NEW a \in Seq(S), NEW at \in Nat, NEW x \in Seq(S), at + Len(x) <= Len(a)
  PROVE  /\ Copy(a, at, x) \in Seq(S) /\ Len(Copy(a, at, x)) = Len(a)
         /\ \A i \in 1 .. Len(a) :
              Copy(a, at, x)[i] = IF at < i /\ i <= at + Len(x) THEN x[i - at] ELSE a[i]
<1>1. Len(a) \in Nat /\ Len(x) \in Nat
  OBVIOUS
<1>2. \A i \in 1 .. Len(a) : (IF at < i /\ i <= at + Len(x) THEN x[i - at] ELSE a[i]) \in S
  OBVIOUS
<1> QED
  BY <1>1, <1>2 DEF Copy

\* The same of bytes, for every place and length at once.
CopyBytes ==
  \A a, x \in Seq(U8), at \in Nat :
    at + Len(x) <= Len(a) =>
      /\ Copy(a, at, x) \in Seq(U8) /\ Len(Copy(a, at, x)) = Len(a)
      /\ \A i \in 1 .. Len(a) :
           Copy(a, at, x)[i] = IF at < i /\ i <= at + Len(x) THEN x[i - at] ELSE a[i]

LEMMA CopyOfBytes == CopyBytes
BY CopyProperties DEF CopyBytes

ConcatBytes ==
  \A a, b \in Seq(U8) :
    /\ a \o b \in Seq(U8) /\ Len(a \o b) = Len(a) + Len(b)
    /\ \A i \in 1 .. Len(a) : (a \o b)[i] = a[i]
    /\ \A i \in 1 .. Len(b) : (a \o b)[Len(a) + i] = b[i]

LEMMA ConcatOfBytes == ConcatBytes
<1> SUFFICES ASSUME NEW a \in Seq(U8), NEW b \in Seq(U8)
             PROVE  /\ a \o b \in Seq(U8) /\ Len(a \o b) = Len(a) + Len(b)
                    /\ \A i \in 1 .. Len(a) : (a \o b)[i] = a[i]
                    /\ \A i \in 1 .. Len(b) : (a \o b)[Len(a) + i] = b[i]
  BY DEF ConcatBytes
<1> QED
  BY ConcatProperties

-----------------------------------------------------------------------------
(* Numbers and their bytes.                                                  *)

Bytes(k) == {b \in Seq(U8) : Len(b) = k}

\* A number below m * m as two digits below m.
LEMMA TwoDigits ==
  ASSUME NEW m \in Nat \ {0}, NEW n \in 0 .. (m * m) - 1
  PROVE  /\ n % m \in 0 .. m - 1
         /\ n \div m \in 0 .. m - 1
         /\ (n % m) + m * (n \div m) = n
<1>1. n \in Nat /\ n < m * m
  <2>1. m * m \in Nat
    OBVIOUS
  <2> QED
    BY <2>1
<1>2. n = m * (n \div m) + (n % m) /\ n % m \in 0 .. m - 1 /\ n \div m \in Nat
  BY <1>1
<1>3. n \div m < m
  BY <1>1
<1> QED
  BY <1>2, <1>3

LEMMA Bases ==
  /\ Base \in Nat \ {0} /\ Base > 6
  /\ Base2 \in Nat \ {0} /\ Base2 = Base * Base
  /\ Base4 \in Nat \ {0} /\ Base4 = Base2 * Base2
  /\ Base8 \in Nat \ {0} /\ Base8 = Base4 * Base4
<1>1. ASSUME NEW m \in Nat \ {0} PROVE m * m \in Nat \ {0}
  OBVIOUS
<1>2. Base \in Nat \ {0} /\ Base > 6
  BY CodecAssumption
<1>3. Base2 \in Nat \ {0}
  BY <1>1, <1>2 DEF Base2
<1>4. Base4 \in Nat \ {0}
  BY <1>1, <1>3 DEF Base4
<1>5. Base8 \in Nat \ {0}
  BY <1>1, <1>4 DEF Base8
<1> QED
  BY <1>2, <1>3, <1>4, <1>5 DEF Base2, Base4, Base8

\* Two halves of a sequence of bytes.
Halved(c, a, b, k) ==
  c \in Bytes(k + k) /\ SubSeq(c, 1, k) = a /\ SubSeq(c, k + 1, k + k) = b

LEMMA Halves ==
  ASSUME NEW k \in Nat, NEW a \in Bytes(k), NEW b \in Bytes(k)
  PROVE  Halved(a \o b, a, b, k)
<1>1. a \in Seq(U8) /\ b \in Seq(U8) /\ Len(a) = k /\ Len(b) = k
  BY DEF Bytes
<1>2. a \o b \in Seq(U8) /\ Len(a \o b) = k + k
  BY <1>1, ConcatProperties
<1>3. Slice(a \o b, 0, k) = a
  <2>1. k \in 0 .. Len(a) /\ 0 \in Nat
    BY <1>1
  <2>2. Slice(a \o b, 0, k) = Slice(a, 0, k)
    BY <1>1, <2>1, SliceLeft
  <2> QED
    BY <1>1, <2>2, SliceAll
<1>4. Slice(a \o b, k + 0, k + k) = b
  <2>1. k \in 0 .. Len(b) /\ 0 \in Nat
    BY <1>1
  <2>2. Slice(a \o b, Len(a) + 0, Len(a) + k) = Slice(b, 0, k)
    BY <1>1, <2>1, SliceRight
  <2> QED
    BY <1>1, <2>2, SliceAll
<1> QED
  BY <1>2, <1>3, <1>4 DEF Slice, Bytes, Halved

\* from_le_bytes() undoes to_le_bytes(), at each width.
LEMMA LE16 ==
  ASSUME NEW n \in U16
  PROVE  ToLE16(n) \in Bytes(2) /\ FromLE16(ToLE16(n)) = n
<1>1. /\ n % Base \in U8 /\ n \div Base \in U8
      /\ (n % Base) + Base * (n \div Base) = n
  BY Bases, TwoDigits DEF U16, U8
<1> QED
  BY <1>1 DEF ToLE16, FromLE16, Bytes

LEMMA LE32 ==
  ASSUME NEW n \in U32
  PROVE  ToLE32(n) \in Bytes(4) /\ FromLE32(ToLE32(n)) = n
<1>1. /\ n % Base2 \in U16 /\ n \div Base2 \in U16
      /\ (n % Base2) + Base2 * (n \div Base2) = n
  BY Bases, TwoDigits DEF U32, U16
<1> DEFINE a == ToLE16(n % Base2)
           b == ToLE16(n \div Base2)
<1>2. /\ a \in Bytes(2) /\ b \in Bytes(2)
      /\ FromLE16(a) = n % Base2 /\ FromLE16(b) = n \div Base2
  BY <1>1, LE16
<1> HIDE DEF a, b
<1>3. a \o b \in Bytes(4) /\ SubSeq(a \o b, 1, 2) = a /\ SubSeq(a \o b, 3, 4) = b
  <2>1. Halved(a \o b, a, b, 2)
    BY ONLY <1>2, 2 \in Nat, Halves
  <2>2. 2 + 2 = 4 /\ 2 + 1 = 3
    OBVIOUS
  <2> QED
    BY ONLY <2>1, <2>2 DEF Halved
<1>4. FromLE32(a \o b) = n
  BY <1>1, <1>2, <1>3 DEF FromLE32
<1>5. ToLE32(n) = a \o b
  BY DEF ToLE32, a, b
<1> QED
  BY <1>3, <1>4, <1>5

LEMMA LE64 ==
  ASSUME NEW n \in U64
  PROVE  ToLE64(n) \in Bytes(8) /\ FromLE64(ToLE64(n)) = n
<1>1. /\ n % Base4 \in U32 /\ n \div Base4 \in U32
      /\ (n % Base4) + Base4 * (n \div Base4) = n
  BY Bases, TwoDigits DEF U64, U32
<1> DEFINE a == ToLE32(n % Base4)
           b == ToLE32(n \div Base4)
<1>2. /\ a \in Bytes(4) /\ b \in Bytes(4)
      /\ FromLE32(a) = n % Base4 /\ FromLE32(b) = n \div Base4
  BY <1>1, LE32
<1> HIDE DEF a, b
<1>3. a \o b \in Bytes(8) /\ SubSeq(a \o b, 1, 4) = a /\ SubSeq(a \o b, 5, 8) = b
  <2>1. Halved(a \o b, a, b, 4)
    BY ONLY <1>2, 4 \in Nat, Halves
  <2>2. 4 + 4 = 8 /\ 4 + 1 = 5
    OBVIOUS
  <2> QED
    BY ONLY <2>1, <2>2 DEF Halved
<1>4. FromLE64(a \o b) = n
  BY <1>1, <1>2, <1>3 DEF FromLE64
<1>5. ToLE64(n) = a \o b
  BY DEF ToLE64, a, b
<1> QED
  BY <1>3, <1>4, <1>5

-----------------------------------------------------------------------------
(* The header.                                                               *)

\* The bytes of a header: every encoder writes these.
IsHeader(w, h) ==
  /\ w \in Bytes(17)
  /\ w[1] = h.msg_type
  /\ \A i \in 1 .. 4 : w[1 + i] = ToLE32(h.channel_id)[i]
  /\ \A i \in 1 .. 8 : w[5 + i] = ToLE64(h.timestamp_ns)[i]
  /\ \A i \in 1 .. 4 : w[13 + i] = ToLE32(h.payload_len)[i]

LEMMA HeaderFields ==
  ASSUME NEW h \in MsgHeader
  PROVE  /\ h.msg_type \in U8 /\ h.channel_id \in U32 /\ h.timestamp_ns \in U64
         /\ h.payload_len \in U32
         /\ ToLE32(h.channel_id) \in Seq(U8) /\ Len(ToLE32(h.channel_id)) = 4
         /\ ToLE64(h.timestamp_ns) \in Seq(U8) /\ Len(ToLE64(h.timestamp_ns)) = 8
         /\ ToLE32(h.payload_len) \in Seq(U8) /\ Len(ToLE32(h.payload_len)) = 4
<1>1. /\ h.msg_type \in U8 /\ h.channel_id \in U32 /\ h.timestamp_ns \in U64
      /\ h.payload_len \in U32
  BY DEF MsgHeader
<1>2. /\ ToLE32(h.channel_id) \in Bytes(4) /\ ToLE64(h.timestamp_ns) \in Bytes(8)
      /\ ToLE32(h.payload_len) \in Bytes(4)
  BY <1>1, LE32, LE64
<1> QED
  BY <1>1, <1>2 DEF Bytes

\* to_bytes() fills a buffer field by field.
LEMMA ToBytesIsHeader ==
  ASSUME NEW h \in MsgHeader
  PROVE  IsHeader(ToBytes(h), h)
<1> DEFINE ch == ToLE32(h.channel_id)
           ts == ToLE64(h.timestamp_ns)
           pl == ToLE32(h.payload_len)
           z  == Zeros(HEADER_SIZE)
           w1 == Copy(z, 0, <<h.msg_type>>)
           w2 == Copy(w1, 1, ch)
           w3 == Copy(w2, 5, ts)
           w4 == Copy(w3, 13, pl)
<1>1. /\ ch \in Seq(U8) /\ Len(ch) = 4 /\ ts \in Seq(U8) /\ Len(ts) = 8
      /\ pl \in Seq(U8) /\ Len(pl) = 4
      /\ <<h.msg_type>> \in Seq(U8) /\ Len(<<h.msg_type>>) = 1
  BY HeaderFields
<1>2. z \in Seq(U8) /\ Len(z) = 17
  BY Bases DEF Zeros, HEADER_SIZE, U8
<1> HIDE DEF ch, ts, pl, z
<1>3. /\ w1 \in Seq(U8) /\ Len(w1) = 17 /\ w1[1] = h.msg_type
  <2>1. 0 \in Nat /\ 0 + Len(<<h.msg_type>>) <= Len(z)
    BY ONLY <1>1, <1>2
  <2>2. /\ w1 \in Seq(U8) /\ Len(w1) = Len(z)
        /\ \A i \in 1 .. Len(z) :
             w1[i] = IF 0 < i /\ i <= 0 + Len(<<h.msg_type>>) THEN <<h.msg_type>>[i - 0] ELSE z[i]
    BY ONLY <1>1, <1>2, <2>1, CopyOfBytes DEF CopyBytes
  <2> HIDE DEF w1
  <2> QED
    BY ONLY <1>1, <1>2, <2>2
<1> HIDE DEF w1
<1>4. /\ w2 \in Seq(U8) /\ Len(w2) = 17
      /\ w2[1] = h.msg_type /\ \A i \in 1 .. 4 : w2[1 + i] = ch[i]
  <2>1. 1 \in Nat /\ 1 + Len(ch) <= Len(w1)
    BY ONLY <1>1, <1>3
  <2>2. /\ w2 \in Seq(U8) /\ Len(w2) = Len(w1)
        /\ \A i \in 1 .. Len(w1) :
             w2[i] = IF 1 < i /\ i <= 1 + Len(ch) THEN ch[i - 1] ELSE w1[i]
    BY ONLY <1>1, <1>3, <2>1, CopyOfBytes DEF CopyBytes
  <2> HIDE DEF w2
  <2> QED
    BY ONLY <1>1, <1>3, <2>2
<1> HIDE DEF w2
<1>5. /\ w3 \in Seq(U8) /\ Len(w3) = 17
      /\ w3[1] = h.msg_type /\ \A i \in 1 .. 4 : w3[1 + i] = ch[i]
      /\ \A i \in 1 .. 8 : w3[5 + i] = ts[i]
  <2>1. 5 \in Nat /\ 5 + Len(ts) <= Len(w2)
    BY ONLY <1>1, <1>4
  <2>2. /\ w3 \in Seq(U8) /\ Len(w3) = Len(w2)
        /\ \A i \in 1 .. Len(w2) :
             w3[i] = IF 5 < i /\ i <= 5 + Len(ts) THEN ts[i - 5] ELSE w2[i]
    BY ONLY <1>1, <1>4, <2>1, CopyOfBytes DEF CopyBytes
  <2> HIDE DEF w3
  <2> QED
    BY ONLY <1>1, <1>4, <2>2
<1> HIDE DEF w3
<1>6. /\ w4 \in Seq(U8) /\ Len(w4) = 17
      /\ w4[1] = h.msg_type /\ \A i \in 1 .. 4 : w4[1 + i] = ch[i]
      /\ \A i \in 1 .. 8 : w4[5 + i] = ts[i]
      /\ \A i \in 1 .. 4 : w4[13 + i] = pl[i]
  <2>1. 13 \in Nat /\ 13 + Len(pl) <= Len(w3)
    BY ONLY <1>1, <1>5
  <2>2. /\ w4 \in Seq(U8) /\ Len(w4) = Len(w3)
        /\ \A i \in 1 .. Len(w3) :
             w4[i] = IF 13 < i /\ i <= 13 + Len(pl) THEN pl[i - 13] ELSE w3[i]
    BY ONLY <1>1, <1>5, <2>1, CopyOfBytes DEF CopyBytes
  <2> HIDE DEF w4
  <2> QED
    BY ONLY <1>1, <1>5, <2>2
<1>7. ToBytes(h) = w4
  BY DEF ToBytes, w3, w2, w1, z, ch, ts, pl
<1> HIDE DEF w4
<1> QED
  BY ONLY <1>6, <1>7 DEF IsHeader, Bytes, ch, ts, pl

\* pack() puts the fields one after the other.
LEMMA PackIsHeader ==
  ASSUME NEW h \in MsgHeader
  PROVE  IsHeader(PackHeader(h.msg_type, h.channel_id, h.timestamp_ns, h.payload_len), h)
<1> DEFINE t  == <<h.msg_type>>
           ch == ToLE32(h.channel_id)
           ts == ToLE64(h.timestamp_ns)
           pl == ToLE32(h.payload_len)
           w2 == t \o ch
           w3 == w2 \o ts
           w4 == w3 \o pl
<1>1. /\ ch \in Seq(U8) /\ Len(ch) = 4 /\ ts \in Seq(U8) /\ Len(ts) = 8
      /\ pl \in Seq(U8) /\ Len(pl) = 4
      /\ t \in Seq(U8) /\ Len(t) = 1 /\ t[1] = h.msg_type
  BY HeaderFields
<1>2. PackHeader(h.msg_type, h.channel_id, h.timestamp_ns, h.payload_len) = w4
  BY DEF PackHeader, PackField
<1> HIDE DEF ch, ts, pl, t
<1>3. /\ w2 \in Seq(U8) /\ Len(w2) = 5
      /\ w2[1] = h.msg_type /\ \A i \in 1 .. 4 : w2[1 + i] = ch[i]
  <2>1. /\ w2 \in Seq(U8) /\ Len(w2) = Len(t) + Len(ch)
        /\ \A i \in 1 .. Len(t) : w2[i] = t[i]
        /\ \A i \in 1 .. Len(ch) : w2[Len(t) + i] = ch[i]
    BY ONLY <1>1, ConcatOfBytes DEF ConcatBytes
  <2> HIDE DEF w2
  <2> QED
    BY ONLY <1>1, <2>1
<1> HIDE DEF w2
<1>4. /\ w3 \in Seq(U8) /\ Len(w3) = 13
      /\ w3[1] = h.msg_type /\ \A i \in 1 .. 4 : w3[1 + i] = ch[i]
      /\ \A i \in 1 .. 8 : w3[5 + i] = ts[i]
  <2>1. /\ w3 \in Seq(U8) /\ Len(w3) = Len(w2) + Len(ts)
        /\ \A i \in 1 .. Len(w2) : w3[i] = w2[i]
        /\ \A i \in 1 .. Len(ts) : w3[Len(w2) + i] = ts[i]
    BY ONLY <1>1, <1>3, ConcatOfBytes DEF ConcatBytes
  <2> HIDE DEF w3
  <2> QED
    BY ONLY <1>1, <1>3, <2>1
<1> HIDE DEF w3
<1>5. /\ w4 \in Seq(U8) /\ Len(w4) = 17
      /\ w4[1] = h.msg_type /\ \A i \in 1 .. 4 : w4[1 + i] = ch[i]
      /\ \A i \in 1 .. 8 : w4[5 + i] = ts[i]
      /\ \A i \in 1 .. 4 : w4[13 + i] = pl[i]
  <2>1. /\ w4 \in Seq(U8) /\ Len(w4) = Len(w3) + Len(pl)
        /\ \A i \in 1 .. Len(w3) : w4[i] = w3[i]
        /\ \A i \in 1 .. Len(pl) : w4[Len(w3) + i] = pl[i]
    BY ONLY <1>1, <1>4, ConcatOfBytes DEF ConcatBytes
  <2> HIDE DEF w4
  <2> QED
    BY ONLY <1>1, <1>4, <2>1
<1> HIDE DEF w4
<1> QED
  BY ONLY <1>2, <1>5 DEF IsHeader, Bytes, ch, ts, pl

\* Both encoders write the same bytes.
LEMMA PackAgrees ==
  ASSUME NEW h \in MsgHeader
  PROVE  PackHeader(h.msg_type, h.channel_id, h.timestamp_ns, h.payload_len) = ToBytes(h)
<1> DEFINE a == PackHeader(h.msg_type, h.channel_id, h.timestamp_ns, h.payload_len)
           b == ToBytes(h)
<1>1. IsHeader(a, h) /\ IsHeader(b, h)
  BY PackIsHeader, ToBytesIsHeader
<1> HIDE DEF a, b
<1>2. a \in Seq(U8) /\ b \in Seq(U8) /\ Len(a) = 17 /\ Len(b) = 17
  BY <1>1 DEF IsHeader, Bytes
<1>3. ASSUME NEW i \in 1 .. 17 PROVE a[i] = b[i]
  <2>1. CASE i = 1
    BY <1>1, <2>1 DEF IsHeader
  <2>2. CASE i \in 2 .. 5
    <3>1. i - 1 \in 1 .. 4 /\ i = 1 + (i - 1)
      BY <2>2
    <3> QED
      BY ONLY <1>1, <3>1 DEF IsHeader
  <2>3. CASE i \in 6 .. 13
    <3>1. i - 5 \in 1 .. 8 /\ i = 5 + (i - 5)
      BY <2>3
    <3> QED
      BY ONLY <1>1, <3>1 DEF IsHeader
  <2>4. CASE i \in 14 .. 17
    <3>1. i - 13 \in 1 .. 4 /\ i = 13 + (i - 13)
      BY <2>4
    <3> QED
      BY ONLY <1>1, <3>1 DEF IsHeader
  <2> QED
    BY <2>1, <2>2, <2>3, <2>4
<1>4. a = b
  BY ONLY <1>2, <1>3, SeqEqual
<1> QED
  BY <1>4 DEF a, b

\* What a decoder finds in the header's places, whatever follows it.
HeaderRead(c, h) ==
  /\ c \in Seq(U8) /\ Len(c) >= 17
  /\ c[1] = h.msg_type
  /\ Slice(c, 1, 5) = ToLE32(h.channel_id)
  /\ Slice(c, 5, 13) = ToLE64(h.timestamp_ns)
  /\ Slice(c, 13, 17) = ToLE32(h.payload_len)

SliceBytes ==
  \A a, x \in Seq(U8), f \in Nat :
    (f + Len(x) <= Len(a) /\ \A i \in 1 .. Len(x) : a[f + i] = x[i]) =>
      Slice(a, f, f + Len(x)) = x

LEMMA SliceOfBytes == SliceBytes
BY SliceIs DEF SliceBytes

LEMMA FrameRead ==
  ASSUME NEW h \in MsgHeader, NEW p \in Seq(U8)
  PROVE  /\ HeaderRead(ToBytes(h) \o p, h)
         /\ Slice(ToBytes(h) \o p, 17, 17 + Len(p)) = p
<1> DEFINE w  == ToBytes(h)
           c  == w \o p
           ch == ToLE32(h.channel_id)
           ts == ToLE64(h.timestamp_ns)
           pl == ToLE32(h.payload_len)
<1>1. /\ ch \in Seq(U8) /\ Len(ch) = 4 /\ ts \in Seq(U8) /\ Len(ts) = 8
      /\ pl \in Seq(U8) /\ Len(pl) = 4 /\ Len(p) \in Nat
  BY HeaderFields
<1>2. /\ w \in Seq(U8) /\ Len(w) = 17 /\ w[1] = h.msg_type
      /\ \A i \in 1 .. 4 : w[1 + i] = ch[i]
      /\ \A i \in 1 .. 8 : w[5 + i] = ts[i]
      /\ \A i \in 1 .. 4 : w[13 + i] = pl[i]
  BY ToBytesIsHeader DEF IsHeader, Bytes
<1> HIDE DEF w, ch, ts, pl
<1>3. /\ c \in Seq(U8) /\ Len(c) = 17 + Len(p)
      /\ \A i \in 1 .. 17 : c[i] = w[i]
      /\ \A i \in 1 .. Len(p) : c[17 + i] = p[i]
  <2>1. /\ c \in Seq(U8) /\ Len(c) = Len(w) + Len(p)
        /\ \A i \in 1 .. Len(w) : c[i] = w[i]
        /\ \A i \in 1 .. Len(p) : c[Len(w) + i] = p[i]
    BY ONLY <1>2, p \in Seq(U8), ConcatOfBytes DEF ConcatBytes
  <2>2. Len(w) = 17
    BY <1>2
  <2> HIDE DEF c
  <2> QED
    BY ONLY <2>1, <2>2
<1> HIDE DEF c
<1>4. Slice(c, 1, 1 + Len(ch)) = ch
  <2>1. \A i \in 1 .. Len(ch) : c[1 + i] = ch[i]
    <3>1. ASSUME NEW i \in 1 .. 4 PROVE c[1 + i] = ch[i]
      <4>1. 1 + i \in 1 .. 17 /\ w[1 + i] = ch[i]
        BY ONLY <1>2, i \in 1 .. 4
      <4> QED
        BY ONLY <1>3, <4>1
    <3> QED
      BY ONLY <1>1, <3>1
  <2>2. 1 \in Nat /\ 1 + Len(ch) <= Len(c)
    BY ONLY <1>1, <1>3
  <2> QED
    BY ONLY <1>1, <1>3, <2>1, <2>2, SliceOfBytes DEF SliceBytes
<1>5. Slice(c, 5, 5 + Len(ts)) = ts
  <2>1. \A i \in 1 .. Len(ts) : c[5 + i] = ts[i]
    <3>1. ASSUME NEW i \in 1 .. 8 PROVE c[5 + i] = ts[i]
      <4>1. 5 + i \in 1 .. 17 /\ w[5 + i] = ts[i]
        BY ONLY <1>2, i \in 1 .. 8
      <4> QED
        BY ONLY <1>3, <4>1
    <3> QED
      BY ONLY <1>1, <3>1
  <2>2. 5 \in Nat /\ 5 + Len(ts) <= Len(c)
    BY ONLY <1>1, <1>3
  <2> QED
    BY ONLY <1>1, <1>3, <2>1, <2>2, SliceOfBytes DEF SliceBytes
<1>6. Slice(c, 13, 13 + Len(pl)) = pl
  <2>1. \A i \in 1 .. Len(pl) : c[13 + i] = pl[i]
    <3>1. ASSUME NEW i \in 1 .. 4 PROVE c[13 + i] = pl[i]
      <4>1. 13 + i \in 1 .. 17 /\ w[13 + i] = pl[i]
        BY ONLY <1>2, i \in 1 .. 4
      <4> QED
        BY ONLY <1>3, <4>1
    <3> QED
      BY ONLY <1>1, <3>1
  <2>2. 13 \in Nat /\ 13 + Len(pl) <= Len(c)
    BY ONLY <1>1, <1>3
  <2> QED
    BY ONLY <1>1, <1>3, <2>1, <2>2, SliceOfBytes DEF SliceBytes
<1>7. Slice(c, 17, 17 + Len(p)) = p
  <2>1. 17 \in Nat /\ 17 + Len(p) <= Len(c)
    BY ONLY <1>1, <1>3
  <2> QED
    BY ONLY <1>3, <2>1, p \in Seq(U8), SliceOfBytes DEF SliceBytes
<1>8. Len(c) >= 17 /\ c[1] = h.msg_type
  <2>1. c[1] = w[1]
    BY ONLY <1>3, 1 \in 1 .. 17
  <2>2. Len(c) >= 17
    BY ONLY <1>1, <1>3
  <2> QED
    BY ONLY <1>2, <2>1, <2>2
<1>9. /\ Slice(c, 1, 5) = ch /\ Slice(c, 5, 13) = ts /\ Slice(c, 13, 17) = pl
  BY ONLY <1>1, <1>4, <1>5, <1>6
<1>10. HeaderRead(c, h)
  BY ONLY <1>3, <1>8, <1>9 DEF HeaderRead, ch, ts, pl
<1> QED
  BY ONLY <1>7, <1>10 DEF c, w

\* from_bytes() undoes to_bytes().
THEOREM HeaderRoundTrip ==
  ASSUME NEW h \in MsgHeader, NEW p \in Seq(U8)
  PROVE  FromBytes(ToBytes(h) \o p) = h
<1> DEFINE c == ToBytes(h) \o p
<1>1. HeaderRead(c, h)
  BY FrameRead
<1>2. /\ h.msg_type \in U8 /\ h.channel_id \in U32 /\ h.timestamp_ns \in U64
      /\ h.payload_len \in U32
  BY HeaderFields
<1> HIDE DEF c
<1>3. /\ c[1] = h.msg_type
      /\ FromLE32(Slice(c, 1, 5)) = h.channel_id
      /\ FromLE64(Slice(c, 5, 13)) = h.timestamp_ns
      /\ FromLE32(Slice(c, 13, 17)) = h.payload_len
  BY <1>1, <1>2, LE32, LE64 DEF HeaderRead
<1>4. FromBytes(c) = [msg_type |-> h.msg_type, channel_id |-> h.channel_id,
                      timestamp_ns |-> h.timestamp_ns, payload_len |-> h.payload_len]
  BY <1>3 DEF FromBytes
<1>5. h = [msg_type |-> h.msg_type, channel_id |-> h.channel_id,
           timestamp_ns |-> h.timestamp_ns, payload_len |-> h.payload_len]
  BY DEF MsgHeader
<1> QED
  BY <1>4, <1>5 DEF c

-----------------------------------------------------------------------------
(* The payloads.                                                             *)

\* What a decoder finds at the places of the fields.
TickRead(p, t) ==
  /\ p \in Bytes(32)
  /\ Slice(p, 0, 4) = ToLE32(t.instrument_id)
  /\ Slice(p, 4, 12) = ToLE64(t.last_price)
  /\ Slice(p, 12, 16) = ToLE32(t.volume)
  /\ Slice(p, 16, 24) = ToLE64(t.total_traded_volume)
  /\ Slice(p, 24, 32) = ToLE64(t.timestamp_ns)

BeatRead(p, b) ==
  /\ p \in Bytes(12)
  /\ Slice(p, 0, 4) = ToLE32(b.source_id)
  /\ Slice(p, 4, 12) = ToLE64(b.sequence_num)

LEMMA TickFields ==
  ASSUME NEW t \in PriceTick
  PROVE  /\ t.instrument_id \in U32 /\ t.last_price \in U64 /\ t.volume \in U32
         /\ t.total_traded_volume \in U64 /\ t.timestamp_ns \in U64
BY DEF PriceTick

LEMMA BeatFields ==
  ASSUME NEW b \in Heartbeat
  PROVE  b.source_id \in U32 /\ b.sequence_num \in U64
BY DEF Heartbeat

LEMMA EncodedTick ==
  ASSUME NEW t \in PriceTick
  PROVE  TickRead(EncodeTick(t), t)
<1> DEFINE a  == ToLE32(t.instrument_id)
           b  == ToLE64(t.last_price)
           c  == ToLE32(t.volume)
           d  == ToLE64(t.total_traded_volume)
           e  == ToLE64(t.timestamp_ns)
           w2 == a \o b
           w3 == w2 \o c
           w4 == w3 \o d
           w5 == w4 \o e
<1>1. /\ a \in Seq(U8) /\ Len(a) = 4 /\ b \in Seq(U8) /\ Len(b) = 8
      /\ c \in Seq(U8) /\ Len(c) = 4 /\ d \in Seq(U8) /\ Len(d) = 8
      /\ e \in Seq(U8) /\ Len(e) = 8
  BY TickFields, LE32, LE64 DEF Bytes
<1>2. EncodeTick(t) = w5
  BY DEF EncodeTick
<1> HIDE DEF a, b, c, d, e
<1>3. /\ w2 \in Seq(U8) /\ Len(w2) = 12
      /\ \A i \in 1 .. 4 : w2[i] = a[i]
      /\ \A i \in 1 .. 8 : w2[4 + i] = b[i]
  <2>1. a \in Seq(U8) /\ b \in Seq(U8)
    BY ONLY <1>1
  <2>2. /\ w2 \in Seq(U8) /\ Len(w2) = Len(a) + Len(b)
        /\ \A i \in 1 .. Len(a) : w2[i] = a[i]
        /\ \A i \in 1 .. Len(b) : w2[Len(a) + i] = b[i]
    BY ONLY <2>1, ConcatOfBytes DEF ConcatBytes
  <2> HIDE DEF w2
  <2> QED
    BY ONLY <1>1, <2>2
<1> HIDE DEF w2
<1>4. /\ w3 \in Seq(U8) /\ Len(w3) = 16
      /\ \A i \in 1 .. 4 : w3[i] = a[i]
      /\ \A i \in 1 .. 8 : w3[4 + i] = b[i]
      /\ \A i \in 1 .. 4 : w3[12 + i] = c[i]
  <2>1. w2 \in Seq(U8) /\ c \in Seq(U8)
    BY ONLY <1>1, <1>3
  <2>2. /\ w3 \in Seq(U8) /\ Len(w3) = Len(w2) + Len(c)
        /\ \A i \in 1 .. Len(w2) : w3[i] = w2[i]
        /\ \A i \in 1 .. Len(c) : w3[Len(w2) + i] = c[i]
    BY ONLY <2>1, ConcatOfBytes DEF ConcatBytes
  <2> HIDE DEF w3
  <2> QED
    BY ONLY <1>1, <1>3, <2>2
<1> HIDE DEF w3
<1>5. /\ w4 \in Seq(U8) /\ Len(w4) = 24
      /\ \A i \in 1 .. 4 : w4[i] = a[i]
      /\ \A i \in 1 .. 8 : w4[4 + i] = b[i]
      /\ \A i \in 1 .. 4 : w4[12 + i] = c[i]
      /\ \A i \in 1 .. 8 : w4[16 + i] = d[i]
  <2>1. w3 \in Seq(U8) /\ d \in Seq(U8)
    BY ONLY <1>1, <1>4
  <2>2. /\ w4 \in Seq(U8) /\ Len(w4) = Len(w3) + Len(d)
        /\ \A i \in 1 .. Len(w3) : w4[i] = w3[i]
        /\ \A i \in 1 .. Len(d) : w4[Len(w3) + i] = d[i]
    BY ONLY <2>1, ConcatOfBytes DEF ConcatBytes
  <2> HIDE DEF w4
  <2> QED
    BY ONLY <1>1, <1>4, <2>2
<1> HIDE DEF w4
<1>6. /\ w5 \in Seq(U8) /\ Len(w5) = 32
      /\ \A i \in 1 .. 4 : w5[i] = a[i]
      /\ \A i \in 1 .. 8 : w5[4 + i] = b[i]
      /\ \A i \in 1 .. 4 : w5[12 + i] = c[i]
      /\ \A i \in 1 .. 8 : w5[16 + i] = d[i]
      /\ \A i \in 1 .. 8 : w5[24 + i] = e[i]
  <2>1. w4 \in Seq(U8) /\ e \in Seq(U8)
    BY ONLY <1>1, <1>5
  <2>2. /\ w5 \in Seq(U8) /\ Len(w5) = Len(w4) + Len(e)
        /\ \A i \in 1 .. Len(w4) : w5[i] = w4[i]
        /\ \A i \in 1 .. Len(e) : w5[Len(w4) + i] = e[i]
    BY ONLY <2>1, ConcatOfBytes DEF ConcatBytes
  <2> HIDE DEF w5
  <2> QED
    BY ONLY <1>1, <1>5, <2>2
<1> HIDE DEF w5
<1>7. Slice(w5, 0, 4) = a
  <2>1. w5 \in Seq(U8) /\ a \in Seq(U8) /\ 0 \in Nat
    BY ONLY <1>1, <1>6
  <2>2. 0 + Len(a) <= Len(w5) /\ 0 + Len(a) = 4
    BY ONLY <1>1, <1>6
  <2>3. ASSUME NEW i \in 1 .. Len(a) PROVE w5[0 + i] = a[i]
    <3>1. i \in 1 .. 4 /\ 0 + i = i
      BY ONLY <1>1, i \in 1 .. Len(a)
    <3> QED
      BY ONLY <1>6, <3>1
  <2>4. Slice(w5, 0, 0 + Len(a)) = a
    BY ONLY <2>1, <2>2, <2>3, SliceOfBytes DEF SliceBytes
  <2> QED
    BY ONLY <2>2, <2>4
<1>8. Slice(w5, 4, 12) = b
  <2>1. w5 \in Seq(U8) /\ b \in Seq(U8) /\ 4 \in Nat
    BY ONLY <1>1, <1>6
  <2>2. 4 + Len(b) <= Len(w5) /\ 4 + Len(b) = 12
    BY ONLY <1>1, <1>6
  <2>3. ASSUME NEW i \in 1 .. Len(b) PROVE w5[4 + i] = b[i]
    <3>1. i \in 1 .. 8
      BY ONLY <1>1, i \in 1 .. Len(b)
    <3> QED
      BY ONLY <1>6, <3>1
  <2>4. Slice(w5, 4, 4 + Len(b)) = b
    BY ONLY <2>1, <2>2, <2>3, SliceOfBytes DEF SliceBytes
  <2> QED
    BY ONLY <2>2, <2>4
<1>9. Slice(w5, 12, 16) = c
  <2>1. w5 \in Seq(U8) /\ c \in Seq(U8) /\ 12 \in Nat
    BY ONLY <1>1, <1>6
  <2>2. 12 + Len(c) <= Len(w5) /\ 12 + Len(c) = 16
    BY ONLY <1>1, <1>6
  <2>3. ASSUME NEW i \in 1 .. Len(c) PROVE w5[12 + i] = c[i]
    <3>1. i \in 1 .. 4
      BY ONLY <1>1, i \in 1 .. Len(c)
    <3> QED
      BY ONLY <1>6, <3>1
  <2>4. Slice(w5, 12, 12 + Len(c)) = c
    BY ONLY <2>1, <2>2, <2>3, SliceOfBytes DEF SliceBytes
  <2> QED
    BY ONLY <2>2, <2>4
<1>10. Slice(w5, 16, 24) = d
  <2>1. w5 \in Seq(U8) /\ d \in Seq(U8) /\ 16 \in Nat
    BY ONLY <1>1, <1>6
  <2>2. 16 + Len(d) <= Len(w5) /\ 16 + Len(d) = 24
    BY ONLY <1>1, <1>6
  <2>3. ASSUME NEW i \in 1 .. Len(d) PROVE w5[16 + i] = d[i]
    <3>1. i \in 1 .. 8
      BY ONLY <1>1, i \in 1 .. Len(d)
    <3> QED
      BY ONLY <1>6, <3>1
  <2>4. Slice(w5, 16, 16 + Len(d)) = d
    BY ONLY <2>1, <2>2, <2>3, SliceOfBytes DEF SliceBytes
  <2> QED
    BY ONLY <2>2, <2>4
<1>11. Slice(w5, 24, 32) = e
  <2>1. w5 \in Seq(U8) /\ e \in Seq(U8) /\ 24 \in Nat
    BY ONLY <1>1, <1>6
  <2>2. 24 + Len(e) <= Len(w5) /\ 24 + Len(e) = 32
    BY ONLY <1>1, <1>6
  <2>3. ASSUME NEW i \in 1 .. Len(e) PROVE w5[24 + i] = e[i]
    <3>1. i \in 1 .. 8
      BY ONLY <1>1, i \in 1 .. Len(e)
    <3> QED
      BY ONLY <1>6, <3>1
  <2>4. Slice(w5, 24, 24 + Len(e)) = e
    BY ONLY <2>1, <2>2, <2>3, SliceOfBytes DEF SliceBytes
  <2> QED
    BY ONLY <2>2, <2>4
<1>12. TickRead(w5, t)
  BY ONLY <1>6, <1>7, <1>8, <1>9, <1>10, <1>11 DEF TickRead, Bytes, a, b, c, d, e
<1> QED
  BY ONLY <1>2, <1>12

LEMMA EncodedBeat ==
  ASSUME NEW b \in Heartbeat
  PROVE  BeatRead(EncodeBeat(b), b)
<1> DEFINE a  == ToLE32(b.source_id)
           d  == ToLE64(b.sequence_num)
           w2 == a \o d
<1>1. a \in Seq(U8) /\ Len(a) = 4 /\ d \in Seq(U8) /\ Len(d) = 8
  BY BeatFields, LE32, LE64 DEF Bytes
<1>2. EncodeBeat(b) = w2
  BY DEF EncodeBeat
<1> HIDE DEF a, d
<1>3. /\ w2 \in Seq(U8) /\ Len(w2) = 12
      /\ \A i \in 1 .. 4 : w2[i] = a[i]
      /\ \A i \in 1 .. 8 : w2[4 + i] = d[i]
  <2>1. a \in Seq(U8) /\ d \in Seq(U8)
    BY ONLY <1>1
  <2>2. /\ w2 \in Seq(U8) /\ Len(w2) = Len(a) + Len(d)
        /\ \A i \in 1 .. Len(a) : w2[i] = a[i]
        /\ \A i \in 1 .. Len(d) : w2[Len(a) + i] = d[i]
    BY ONLY <2>1, ConcatOfBytes DEF ConcatBytes
  <2> HIDE DEF w2
  <2> QED
    BY ONLY <1>1, <2>2
<1> HIDE DEF w2
<1>4. Slice(w2, 0, 4) = a
  <2>1. w2 \in Seq(U8) /\ a \in Seq(U8) /\ 0 \in Nat
    BY ONLY <1>1, <1>3
  <2>2. 0 + Len(a) <= Len(w2) /\ 0 + Len(a) = 4
    BY ONLY <1>1, <1>3
  <2>3. ASSUME NEW i \in 1 .. Len(a) PROVE w2[0 + i] = a[i]
    <3>1. i \in 1 .. 4 /\ 0 + i = i
      BY ONLY <1>1, i \in 1 .. Len(a)
    <3> QED
      BY ONLY <1>3, <3>1
  <2>4. Slice(w2, 0, 0 + Len(a)) = a
    BY ONLY <2>1, <2>2, <2>3, SliceOfBytes DEF SliceBytes
  <2> QED
    BY ONLY <2>2, <2>4
<1>5. Slice(w2, 4, 12) = d
  <2>1. w2 \in Seq(U8) /\ d \in Seq(U8) /\ 4 \in Nat
    BY ONLY <1>1, <1>3
  <2>2. 4 + Len(d) <= Len(w2) /\ 4 + Len(d) = 12
    BY ONLY <1>1, <1>3
  <2>3. ASSUME NEW i \in 1 .. Len(d) PROVE w2[4 + i] = d[i]
    <3>1. i \in 1 .. 8
      BY ONLY <1>1, i \in 1 .. Len(d)
    <3> QED
      BY ONLY <1>3, <3>1
  <2>4. Slice(w2, 4, 4 + Len(d)) = d
    BY ONLY <2>1, <2>2, <2>3, SliceOfBytes DEF SliceBytes
  <2> QED
    BY ONLY <2>2, <2>4
<1>6. BeatRead(w2, b)
  BY ONLY <1>3, <1>4, <1>5 DEF BeatRead, Bytes, a, d
<1> QED
  BY ONLY <1>2, <1>6

\* decode() of a price tick undoes its encode().
THEOREM TickRoundTrip ==
  ASSUME NEW t \in PriceTick
  PROVE  DecodeTick(EncodeTick(t)) = <<t>>
<1> DEFINE p == EncodeTick(t)
<1>1. TickRead(p, t)
  BY EncodedTick
<1> HIDE DEF p
<1>2. /\ FromLE32(Slice(p, 0, 4)) = t.instrument_id
      /\ FromLE64(Slice(p, 4, 12)) = t.last_price
      /\ FromLE32(Slice(p, 12, 16)) = t.volume
      /\ FromLE64(Slice(p, 16, 24)) = t.total_traded_volume
      /\ FromLE64(Slice(p, 24, 32)) = t.timestamp_ns
  BY <1>1, TickFields, LE32, LE64 DEF TickRead
<1>3. ~(Len(p) < TickSize)
  <2>1. Len(p) = 32
    BY ONLY <1>1 DEF TickRead, Bytes
  <2> QED
    BY ONLY <2>1 DEF TickSize
<1>4. t = [instrument_id |-> t.instrument_id, last_price |-> t.last_price,
           volume |-> t.volume, total_traded_volume |-> t.total_traded_volume,
           timestamp_ns |-> t.timestamp_ns]
  BY DEF PriceTick
<1>5. DecodeTick(p) = <<[instrument_id |-> t.instrument_id, last_price |-> t.last_price,
                         volume |-> t.volume, total_traded_volume |-> t.total_traded_volume,
                         timestamp_ns |-> t.timestamp_ns]>>
  BY ONLY <1>2, <1>3 DEF DecodeTick
<1> QED
  BY <1>4, <1>5 DEF p

\* decode() of a heartbeat undoes its encode().
THEOREM BeatRoundTrip ==
  ASSUME NEW b \in Heartbeat
  PROVE  DecodeBeat(EncodeBeat(b)) = <<b>>
<1> DEFINE p == EncodeBeat(b)
<1>1. BeatRead(p, b)
  BY EncodedBeat
<1> HIDE DEF p
<1>2. /\ FromLE32(Slice(p, 0, 4)) = b.source_id
      /\ FromLE64(Slice(p, 4, 12)) = b.sequence_num
  BY <1>1, BeatFields, LE32, LE64 DEF BeatRead
<1>3. ~(Len(p) < BeatSize)
  <2>1. Len(p) = 12
    BY ONLY <1>1 DEF BeatRead, Bytes
  <2> QED
    BY ONLY <2>1 DEF BeatSize
<1>4. b = [source_id |-> b.source_id, sequence_num |-> b.sequence_num]
  BY DEF Heartbeat
<1>5. DecodeBeat(p) = <<[source_id |-> b.source_id, sequence_num |-> b.sequence_num]>>
  BY ONLY <1>2, <1>3 DEF DecodeBeat
<1> QED
  BY <1>4, <1>5 DEF p

-----------------------------------------------------------------------------
(* Formats.  A recursive function is the one there is, which for a format of *)
(* at most five fields is given by its values.                               *)

FirstFields(f, k) ==
  CASE k = 1 -> 0
    [] k = 2 -> f[1]
    [] k = 3 -> f[1] + f[2]
    [] k = 4 -> f[1] + f[2] + f[3]
    [] k = 5 -> f[1] + f[2] + f[3] + f[4]

LEMMA Offsets ==
  ASSUME NEW f \in Seq(Nat), NEW k \in 1 .. 5, k <= Len(f)
  PROVE  Offset(f, k) = FirstFields(f, k)
<1> DEFINE o[j \in 1 .. k] == IF j = 1 THEN 0 ELSE o[j - 1] + f[j - 1]
           v(j) == FirstFields(f, j)
           g == [j \in 1 .. k |-> v(j)]
<1>1. Offset(f, k) = o[k]
  BY DEF Offset
<1>2. \A j \in 1 .. k : v(j) = IF j = 1 THEN 0 ELSE v(j - 1) + f[j - 1]
  BY DEF FirstFields
<1>3. g = [j \in 1 .. k |-> IF j = 1 THEN 0 ELSE g[j - 1] + f[j - 1]]
  <2> HIDE DEF v
  <2>1. \A j \in 1 .. k : j # 1 => g[j - 1] = v(j - 1)
    OBVIOUS
  <2> QED
    BY <1>2, <2>1
<1>4. \E x : x = [j \in 1 .. k |-> IF j = 1 THEN 0 ELSE x[j - 1] + f[j - 1]]
  <2> HIDE DEF g
  <2> QED
    BY <1>3
<1>5. o = [j \in 1 .. k |-> IF j = 1 THEN 0 ELSE o[j - 1] + f[j - 1]]
  BY <1>4
<1> HIDE DEF o
<1>6. /\ o[1] = 0
      /\ k >= 2 => o[2] = o[1] + f[1]
      /\ k >= 3 => o[3] = o[2] + f[2]
      /\ k >= 4 => o[4] = o[3] + f[3]
      /\ k >= 5 => o[5] = o[4] + f[4]
  BY <1>5
<1>7. \A j \in 1 .. k : f[j] \in Nat
  OBVIOUS
<1> QED
  BY <1>1, <1>6, <1>7 DEF FirstFields

LEMMA HeaderOffsets ==
  /\ Offset(HeaderFormat, 1) = 0 /\ Offset(HeaderFormat, 2) = 1
  /\ Offset(HeaderFormat, 3) = 5 /\ Offset(HeaderFormat, 4) = 13
<1>1. HeaderFormat \in Seq(Nat) /\ Len(HeaderFormat) = 4
  BY DEF HeaderFormat
<1>2. /\ HeaderFormat[1] = 1 /\ HeaderFormat[2] = 4 /\ HeaderFormat[3] = 8
  BY DEF HeaderFormat
<1>3. ASSUME NEW k \in 1 .. 4 PROVE Offset(HeaderFormat, k) = FirstFields(HeaderFormat, k)
  <2>1. k \in 1 .. 5 /\ k <= Len(HeaderFormat) /\ HeaderFormat \in Seq(Nat)
    BY <1>1
  <2> QED
    BY ONLY <2>1, Offsets
<1> QED
  BY ONLY <1>1, <1>2, <1>3 DEF FirstFields

LEMMA TickOffsets ==
  /\ Offset(TickFormat, 1) = 0 /\ Offset(TickFormat, 2) = 4 /\ Offset(TickFormat, 3) = 12
  /\ Offset(TickFormat, 4) = 16 /\ Offset(TickFormat, 5) = 24
<1>1. TickFormat \in Seq(Nat) /\ Len(TickFormat) = 5
  BY DEF TickFormat
<1>2. /\ TickFormat[1] = 4 /\ TickFormat[2] = 8 /\ TickFormat[3] = 4 /\ TickFormat[4] = 8
  BY DEF TickFormat
<1>3. ASSUME NEW k \in 1 .. 5 PROVE Offset(TickFormat, k) = FirstFields(TickFormat, k)
  <2>1. k \in 1 .. 5 /\ k <= Len(TickFormat) /\ TickFormat \in Seq(Nat)
    BY <1>1
  <2> QED
    BY ONLY <2>1, Offsets
<1> QED
  BY ONLY <1>1, <1>2, <1>3 DEF FirstFields

LEMMA BeatOffsets ==
  Offset(BeatFormat, 1) = 0 /\ Offset(BeatFormat, 2) = 4
<1>1. BeatFormat \in Seq(Nat) /\ Len(BeatFormat) = 2 /\ BeatFormat[1] = 4
  BY DEF BeatFormat
<1>2. ASSUME NEW k \in 1 .. 2 PROVE Offset(BeatFormat, k) = FirstFields(BeatFormat, k)
  <2>1. k \in 1 .. 5 /\ k <= Len(BeatFormat) /\ BeatFormat \in Seq(Nat)
    BY <1>1
  <2> QED
    BY ONLY <2>1, Offsets
<1> QED
  BY ONLY <1>1, <1>2 DEF FirstFields

\* unpack_from() of a field, by its width.
LEMMA FieldValues ==
  /\ \A b \in Bytes(1) : UnpackField(b) = b[1]
  /\ \A b \in Bytes(4) : UnpackField(b) = FromLE32(b)
  /\ \A b \in Bytes(8) : UnpackField(b) = FromLE64(b)
<1>1. ASSUME NEW b \in Bytes(1) PROVE UnpackField(b) = b[1]
  <2>1. Len(b) = 1
    BY DEF Bytes
  <2> QED
    BY ONLY <2>1 DEF UnpackField
<1>2. ASSUME NEW b \in Bytes(4) PROVE UnpackField(b) = FromLE32(b)
  <2>1. Len(b) = 4
    BY DEF Bytes
  <2> QED
    BY ONLY <2>1 DEF UnpackField
<1>3. ASSUME NEW b \in Bytes(8) PROVE UnpackField(b) = FromLE64(b)
  <2>1. Len(b) = 8
    BY DEF Bytes
  <2> QED
    BY ONLY <2>1 DEF UnpackField
<1> QED
  BY ONLY <1>1, <1>2, <1>3

LEMMA HeaderUnpacked ==
  ASSUME NEW h \in MsgHeader, NEW c, HeaderRead(c, h)
  PROVE  Unpack(HeaderFormat, c) = <<h.msg_type, h.channel_id, h.timestamp_ns, h.payload_len>>
<1> DEFINE u(k) == UnpackField(Slice(c, Offset(HeaderFormat, k),
                                     Offset(HeaderFormat, k) + HeaderFormat[k]))
<1>1. /\ HeaderFormat[1] = 1 /\ HeaderFormat[2] = 4 /\ HeaderFormat[3] = 8
      /\ HeaderFormat[4] = 4 /\ Len(HeaderFormat) = 4
  BY DEF HeaderFormat
<1>2. u(1) = h.msg_type
  <2>1. c \in Seq(U8) /\ 0 \in Nat /\ 1 \in 0 .. Len(c)
    BY DEF HeaderRead
  <2>2. /\ Slice(c, 0, 1) \in Seq(U8) /\ Len(Slice(c, 0, 1)) = 1
        /\ Slice(c, 0, 1)[1] = c[1]
    <3>1. /\ Slice(c, 0, 1) \in Seq(U8) /\ Len(Slice(c, 0, 1)) = 1 - 0
          /\ \A i \in 1 .. 1 - 0 : Slice(c, 0, 1)[i] = c[0 + i]
      BY ONLY <2>1, SliceProperties
    <3>2. 1 \in 1 .. 1 - 0 /\ 0 + 1 = 1 /\ 1 - 0 = 1
      OBVIOUS
    <3>3. Slice(c, 0, 1)[1] = c[0 + 1]
      BY ONLY <3>1, <3>2
    <3> QED
      BY ONLY <3>1, <3>2, <3>3
  <2>3. UnpackField(Slice(c, 0, 1)) = c[1]
    BY ONLY <2>2, FieldValues DEF Bytes
  <2>4. u(1) = UnpackField(Slice(c, 0, 0 + 1))
    BY ONLY <1>1, HeaderOffsets
  <2>5. 0 + 1 = 1
    OBVIOUS
  <2> QED
    BY ONLY <2>3, <2>4, <2>5, HeaderRead(c, h) DEF HeaderRead
<1>3. /\ ToLE32(h.channel_id) \in Bytes(4) /\ FromLE32(ToLE32(h.channel_id)) = h.channel_id
      /\ ToLE64(h.timestamp_ns) \in Bytes(8) /\ FromLE64(ToLE64(h.timestamp_ns)) = h.timestamp_ns
      /\ ToLE32(h.payload_len) \in Bytes(4) /\ FromLE32(ToLE32(h.payload_len)) = h.payload_len
  BY HeaderFields, LE32, LE64
<1>4. u(2) = h.channel_id /\ u(3) = h.timestamp_ns /\ u(4) = h.payload_len
  <2>1. /\ u(2) = UnpackField(Slice(c, 1, 1 + 4)) /\ u(3) = UnpackField(Slice(c, 5, 5 + 8))
        /\ u(4) = UnpackField(Slice(c, 13, 13 + 4))
    BY ONLY <1>1, HeaderOffsets
  <2>2. /\ 1 + 4 = 5 /\ 5 + 8 = 13 /\ 13 + 4 = 17
    OBVIOUS
  <2> HIDE DEF u
  <2>3. /\ u(2) = UnpackField(ToLE32(h.channel_id)) /\ u(3) = UnpackField(ToLE64(h.timestamp_ns))
        /\ u(4) = UnpackField(ToLE32(h.payload_len))
    BY ONLY <2>1, <2>2, HeaderRead(c, h) DEF HeaderRead
  <2> QED
    BY ONLY <1>3, <2>3, FieldValues
<1>5. Unpack(HeaderFormat, c) = [k \in 1 .. 4 |-> u(k)]
  BY ONLY <1>1 DEF Unpack
<1> HIDE DEF u
<1>6. [k \in 1 .. 4 |-> u(k)] = <<u(1), u(2), u(3), u(4)>>
  OBVIOUS
<1> QED
  BY ONLY <1>2, <1>4, <1>5, <1>6

LEMMA TickUnpacked ==
  ASSUME NEW t \in PriceTick, NEW p, TickRead(p, t)
  PROVE  Unpack(TickFormat, p) = <<t.instrument_id, t.last_price, t.volume,
                                   t.total_traded_volume, t.timestamp_ns>>
<1> DEFINE u(k) == UnpackField(Slice(p, Offset(TickFormat, k),
                                     Offset(TickFormat, k) + TickFormat[k]))
<1>1. /\ TickFormat[1] = 4 /\ TickFormat[2] = 8 /\ TickFormat[3] = 4 /\ TickFormat[4] = 8
      /\ TickFormat[5] = 8 /\ Len(TickFormat) = 5
  BY DEF TickFormat
<1>2. /\ ToLE32(t.instrument_id) \in Bytes(4) /\ FromLE32(ToLE32(t.instrument_id)) = t.instrument_id
      /\ ToLE64(t.last_price) \in Bytes(8) /\ FromLE64(ToLE64(t.last_price)) = t.last_price
      /\ ToLE32(t.volume) \in Bytes(4) /\ FromLE32(ToLE32(t.volume)) = t.volume
      /\ ToLE64(t.total_traded_volume) \in Bytes(8)
      /\ FromLE64(ToLE64(t.total_traded_volume)) = t.total_traded_volume
      /\ ToLE64(t.timestamp_ns) \in Bytes(8) /\ FromLE64(ToLE64(t.timestamp_ns)) = t.timestamp_ns
  BY TickFields, LE32, LE64
<1>3. /\ u(1) = UnpackField(Slice(p, 0, 0 + 4)) /\ u(2) = UnpackField(Slice(p, 4, 4 + 8))
      /\ u(3) = UnpackField(Slice(p, 12, 12 + 4)) /\ u(4) = UnpackField(Slice(p, 16, 16 + 8))
      /\ u(5) = UnpackField(Slice(p, 24, 24 + 8))
  BY ONLY <1>1, TickOffsets
<1>4. Unpack(TickFormat, p) = [k \in 1 .. 5 |-> u(k)]
  BY ONLY <1>1 DEF Unpack
<1> HIDE DEF u
<1>5. 0 + 4 = 4 /\ 4 + 8 = 12 /\ 12 + 4 = 16 /\ 16 + 8 = 24 /\ 24 + 8 = 32
  OBVIOUS
<1>6. /\ u(1) = UnpackField(ToLE32(t.instrument_id)) /\ u(2) = UnpackField(ToLE64(t.last_price))
      /\ u(3) = UnpackField(ToLE32(t.volume)) /\ u(4) = UnpackField(ToLE64(t.total_traded_volume))
      /\ u(5) = UnpackField(ToLE64(t.timestamp_ns))
  BY ONLY <1>3, <1>5, TickRead(p, t) DEF TickRead
<1>7. /\ u(1) = t.instrument_id /\ u(2) = t.last_price /\ u(3) = t.volume
      /\ u(4) = t.total_traded_volume /\ u(5) = t.timestamp_ns
  BY ONLY <1>2, <1>6, FieldValues
<1>8. [k \in 1 .. 5 |-> u(k)] = <<u(1), u(2), u(3), u(4), u(5)>>
  OBVIOUS
<1> QED
  BY ONLY <1>4, <1>7, <1>8

LEMMA BeatUnpacked ==
  ASSUME NEW b \in Heartbeat, NEW p, BeatRead(p, b)
  PROVE  Unpack(BeatFormat, p) = <<b.source_id, b.sequence_num>>
<1> DEFINE u(k) == UnpackField(Slice(p, Offset(BeatFormat, k),
                                     Offset(BeatFormat, k) + BeatFormat[k]))
<1>1. BeatFormat[1] = 4 /\ BeatFormat[2] = 8 /\ Len(BeatFormat) = 2
  BY DEF BeatFormat
<1>2. /\ ToLE32(b.source_id) \in Bytes(4) /\ FromLE32(ToLE32(b.source_id)) = b.source_id
      /\ ToLE64(b.sequence_num) \in Bytes(8) /\ FromLE64(ToLE64(b.sequence_num)) = b.sequence_num
  BY BeatFields, LE32, LE64
<1>3. /\ u(1) = UnpackField(Slice(p, 0, 0 + 4)) /\ u(2) = UnpackField(Slice(p, 4, 4 + 8))
  BY ONLY <1>1, BeatOffsets
<1>4. Unpack(BeatFormat, p) = [k \in 1 .. 2 |-> u(k)]
  BY ONLY <1>1 DEF Unpack
<1> HIDE DEF u
<1>5. 0 + 4 = 4 /\ 4 + 8 = 12
  OBVIOUS
<1>6. u(1) = UnpackField(ToLE32(b.source_id)) /\ u(2) = UnpackField(ToLE64(b.sequence_num))
  BY ONLY <1>3, <1>5, BeatRead(p, b) DEF BeatRead
<1>7. u(1) = b.source_id /\ u(2) = b.sequence_num
  BY ONLY <1>2, <1>6, FieldValues
<1>8. [k \in 1 .. 2 |-> u(k)] = <<u(1), u(2)>>
  OBVIOUS
<1> QED
  BY ONLY <1>4, <1>7, <1>8

-----------------------------------------------------------------------------
(* A message on its way.                                                     *)

\* The message is an encoded value, or a part of one.
Encoded(m) ==
  /\ m.channel \in Channels
  /\ \/ \E t \in Ticks : m.type = 1 /\ m.value = <<t>> /\ m.payload = EncodeTick(t)
     \/ \E b \in Heartbeats : m.type = 6 /\ m.value = <<b>> /\ m.payload = EncodeBeat(b)
     \/ m.type = 1 /\ m.value = <<>> /\ m.payload \in Seq(U8) /\ Len(m.payload) < 32

\* Its header, with a clock's value, and its frame.
HeaderOf(m, clock) ==
  [msg_type |-> m.type, channel_id |-> m.channel, timestamp_ns |-> clock,
   payload_len |-> Len(m.payload)]
Frame(m, clock) == ToBytes(HeaderOf(m, clock)) \o m.payload

SlotType == [channel_id : U32, msg_type : U8, payload_len : U16, timestamp_ns : U64,
             payload : [1 .. PayloadCap -> U8]]

\* The slot holds the message, in front of what an earlier one left.
Holds(s, m) ==
  /\ s.channel_id = m.channel /\ s.msg_type = m.type
  /\ s.payload_len = Len(m.payload)
  /\ Slice(s.payload, 0, Len(m.payload)) = m.payload

\* What the decoders make of it.
Received(m, clock) ==
  LET fields == <<m.type, m.channel, clock, Len(m.payload)>>
  IN  /\ seen.header = fields /\ seen.payload = m.payload /\ seen.value = m.value
      /\ seen.python = <<fields, IF m.value = <<>> THEN <<>>
                                 ELSE <<Fields(m.type, m.value[1])>> >>

LEMMA Limits ==
  /\ PayloadCap \in Nat /\ 32 <= PayloadCap /\ PayloadCap < Base2 /\ Base2 < Base4
  /\ 0 \in U8 /\ 0 \in U16 /\ 0 \in U32 /\ 0 \in U64
  /\ 1 \in U8 /\ 6 \in U8 /\ \A n \in 0 .. 32 : n \in U16 /\ n \in U32
<1>1. Base2 \in Nat /\ PayloadCap \in Nat /\ 32 <= PayloadCap /\ PayloadCap < Base2
  BY CodecAssumption, Bases
<1>2. Base2 < Base4
  <2>1. ASSUME NEW m \in Nat, m > 32 PROVE m < m * m
    BY <2>1
  <2>2. Base2 < Base2 * Base2
    BY <1>1, <2>1
  <2> QED
    BY ONLY <2>2, Bases
<1> QED
  BY ONLY <1>1, <1>2, Bases DEF U8, U16, U32, U64

LEMMA EncodedTypes ==
  ASSUME NEW m, Encoded(m)
  PROVE  /\ m.payload \in Seq(U8) /\ Len(m.payload) \in 0 .. 32
         /\ m.type \in {1, 6} /\ m.channel \in U32
         /\ \A clock \in U64 : HeaderOf(m, clock) \in MsgHeader
<1>1. m.channel \in U32
  BY CodecAssumption DEF Encoded
<1>2. m.type \in {1, 6} /\ m.payload \in Seq(U8) /\ Len(m.payload) \in 0 .. 32
  <2>1. ASSUME NEW t \in Ticks, m.type = 1, m.payload = EncodeTick(t)
        PROVE  m.type \in {1, 6} /\ m.payload \in Seq(U8) /\ Len(m.payload) \in 0 .. 32
    <3>1. t \in PriceTick
      BY CodecAssumption
    <3>2. m.payload \in Bytes(32)
      BY <2>1, <3>1, EncodedTick DEF TickRead
    <3> QED
      BY ONLY <2>1, <3>2 DEF Bytes
  <2>2. ASSUME NEW b \in Heartbeats, m.type = 6, m.payload = EncodeBeat(b)
        PROVE  m.type \in {1, 6} /\ m.payload \in Seq(U8) /\ Len(m.payload) \in 0 .. 32
    <3>1. b \in Heartbeat
      BY CodecAssumption
    <3>2. m.payload \in Bytes(12)
      BY <2>2, <3>1, EncodedBeat DEF BeatRead
    <3> QED
      BY ONLY <2>2, <3>2 DEF Bytes
  <2>3. ASSUME m.type = 1, m.payload \in Seq(U8), Len(m.payload) < 32
        PROVE  m.type \in {1, 6} /\ m.payload \in Seq(U8) /\ Len(m.payload) \in 0 .. 32
    <3>1. Len(m.payload) \in Nat
      BY ONLY <2>3
    <3> DEFINE n == Len(m.payload)
    <3>2. n \in Nat /\ n < 32
      BY ONLY <2>3, <3>1
    <3> HIDE DEF n
    <3>3. n \in 0 .. 32
      BY ONLY <3>2
    <3> QED
      BY ONLY <2>3, <3>3 DEF n
  <2> QED
    BY <2>1, <2>2, <2>3 DEF Encoded
<1>3. m.type \in U8 /\ Len(m.payload) \in U32
  BY ONLY <1>2, Limits
<1>4. ASSUME NEW clock \in U64 PROVE HeaderOf(m, clock) \in MsgHeader
  BY ONLY <1>1, <1>3, clock \in U64 DEF HeaderOf, MsgHeader
<1> QED
  BY <1>1, <1>2, <1>4

\* What is read of a frame.
LEMMA FrameOfMessage ==
  ASSUME NEW m, Encoded(m), NEW clock \in U64
  PROVE  /\ Frame(m, clock) \in Seq(U8)
         /\ FromBytes(Frame(m, clock)) = HeaderOf(m, clock)
         /\ Slice(Frame(m, clock), HEADER_SIZE, HEADER_SIZE + Len(m.payload)) = m.payload
         /\ Unpack(HeaderFormat, Frame(m, clock))
              = <<m.type, m.channel, clock, Len(m.payload)>>
<1> DEFINE h == HeaderOf(m, clock)
<1>1. h \in MsgHeader /\ m.payload \in Seq(U8)
  BY EncodedTypes
<1>2. /\ h.msg_type = m.type /\ h.channel_id = m.channel /\ h.timestamp_ns = clock
      /\ h.payload_len = Len(m.payload)
  BY DEF HeaderOf
<1>3. Frame(m, clock) = ToBytes(h) \o m.payload
  BY DEF Frame
<1> HIDE DEF h
<1>4. HeaderRead(Frame(m, clock), h) /\ Slice(Frame(m, clock), 17, 17 + Len(m.payload)) = m.payload
  BY ONLY <1>1, <1>3, FrameRead
<1>5. FromBytes(Frame(m, clock)) = h
  BY ONLY <1>1, <1>3, HeaderRoundTrip
<1>6. Unpack(HeaderFormat, Frame(m, clock)) = <<m.type, m.channel, clock, Len(m.payload)>>
  BY ONLY <1>1, <1>2, <1>4, HeaderUnpacked
<1>7. Frame(m, clock) \in Seq(U8)
  BY ONLY <1>4 DEF HeaderRead
<1>8. HEADER_SIZE = 17
  BY DEF HEADER_SIZE
<1> QED
  BY ONLY <1>4, <1>5, <1>6, <1>7, <1>8 DEF h


\* What a slot's buffer holds after a message was copied to its start.
LEMMA CopiedToSlot ==
  ASSUME NEW s \in SlotType, NEW p \in Seq(U8), Len(p) \in 0 .. 32
  PROVE  /\ Copy(s.payload, 0, p) \in [1 .. PayloadCap -> U8]
         /\ Slice(Copy(s.payload, 0, p), 0, Len(p)) = p
<1> DEFINE a == s.payload
           c == Copy(a, 0, p)
<1>1. a \in [1 .. PayloadCap -> U8]
  BY DEF SlotType
<1>2. a \in Seq(U8) /\ Len(a) = PayloadCap
  <2> HIDE DEF a
  <2>1. PayloadCap \in Nat
    BY Limits
  <2> QED
    BY ONLY <1>1, <2>1
<1> HIDE DEF a
<1>3. 0 + Len(p) <= Len(a) /\ 0 + Len(p) = Len(p) /\ Len(p) \in Nat
  <2> DEFINE n == Len(p)
             k == Len(a)
  <2>1. n \in 0 .. 32 /\ k \in Nat /\ 32 <= k
    BY ONLY <1>2, Len(p) \in 0 .. 32, Limits
  <2> HIDE DEF n, k
  <2>2. 0 + n <= k /\ 0 + n = n /\ n \in Nat
    BY ONLY <2>1
  <2> QED
    BY ONLY <2>2 DEF n, k
<1>4. /\ c \in Seq(U8) /\ Len(c) = Len(a)
      /\ \A i \in 1 .. Len(a) : c[i] = IF 0 < i /\ i <= 0 + Len(p) THEN p[i - 0] ELSE a[i]
  <2>1. 0 \in Nat
    OBVIOUS
  <2> QED
    BY ONLY <1>2, <1>3, <2>1, p \in Seq(U8), CopyOfBytes DEF CopyBytes
<1> HIDE DEF c
<1>5. ASSUME NEW i \in 1 .. Len(p) PROVE c[0 + i] = p[i]
  <2>1. i \in 1 .. Len(a) /\ 0 < i /\ i <= 0 + Len(p) /\ i - 0 = i /\ 0 + i = i
    BY ONLY <1>2, <1>3, Limits, i \in 1 .. Len(p)
  <2> QED
    BY ONLY <1>4, <2>1
<1>6. 0 + Len(p) <= Len(c) /\ 0 \in Nat
  BY ONLY <1>3, <1>4
<1>7. Slice(c, 0, 0 + Len(p)) = p
  BY ONLY <1>4, <1>5, <1>6, p \in Seq(U8), SliceOfBytes DEF SliceBytes
<1>8. c \in [1 .. Len(c) -> U8]
  BY ONLY <1>4
<1> QED
  BY ONLY <1>2, <1>3, <1>4, <1>7, <1>8 DEF c, a

\* The slot that the bus fills from the bytes of a frame.
Stored(w, s, clock) ==
  [channel_id   |-> FromBytes(w).channel_id,
   msg_type     |-> FromBytes(w).msg_type,
   payload_len  |-> SlotLen(FromBytes(w).payload_len),
   timestamp_ns |-> clock,
   payload      |-> Copy(s.payload, 0,
      Slice(w, HEADER_SIZE, HEADER_SIZE + FromBytes(w).payload_len))]

LEMMA MessageStored ==
  ASSUME NEW m, Encoded(m), NEW s \in SlotType, NEW sent \in U64, NEW clock \in U64
  PROVE  /\ Stored(Frame(m, sent), s, clock) \in SlotType
         /\ Stored(Frame(m, sent), s, clock).payload_len <= PayloadCap
         /\ Holds(Stored(Frame(m, sent), s, clock), m)
<1> DEFINE w == Frame(m, sent)
           r == Stored(w, s, clock)
           c == Copy(s.payload, 0, m.payload)
<1>1. /\ m.payload \in Seq(U8) /\ Len(m.payload) \in 0 .. 32 /\ m.type \in {1, 6}
      /\ m.channel \in U32
  BY EncodedTypes
<1>2. FromBytes(w) = HeaderOf(m, sent) /\ Slice(w, HEADER_SIZE, HEADER_SIZE + Len(m.payload)) = m.payload
  BY FrameOfMessage
<1> HIDE DEF w
<1>3. /\ FromBytes(w).channel_id = m.channel /\ FromBytes(w).msg_type = m.type
      /\ FromBytes(w).payload_len = Len(m.payload)
  BY ONLY <1>2 DEF HeaderOf
<1>4. SlotLen(Len(m.payload)) = Len(m.payload) /\ Len(m.payload) \in U16 /\ Len(m.payload) <= PayloadCap
  <2> DEFINE n == Len(m.payload)
  <2>1. n \in 0 .. 32
    BY ONLY <1>1
  <2> HIDE DEF n
  <2>2. n \in Nat /\ n < Base2 /\ Base2 \in Nat \ {0} /\ n <= PayloadCap /\ n \in U16
    BY ONLY <2>1, Limits, Bases
  <2>3. n % Base2 = n
    BY ONLY <2>2
  <2> QED
    BY ONLY <2>2, <2>3 DEF n, SlotLen
<1>5. r = [channel_id |-> m.channel, msg_type |-> m.type, payload_len |-> Len(m.payload),
           timestamp_ns |-> clock, payload |-> c]
  BY ONLY <1>2, <1>3, <1>4 DEF Stored
<1>6. c \in [1 .. PayloadCap -> U8] /\ Slice(c, 0, Len(m.payload)) = m.payload
  BY <1>1, CopiedToSlot
<1> HIDE DEF c, r
<1>7. m.type \in U8
  BY ONLY <1>1, Limits
<1>8. r \in SlotType
  BY ONLY <1>1, <1>4, <1>5, <1>6, <1>7, clock \in U64 DEF SlotType
<1>9. r.payload_len = Len(m.payload) /\ r.channel_id = m.channel /\ r.msg_type = m.type
      /\ r.payload = c
  BY ONLY <1>5
<1>10. Holds(r, m)
  BY ONLY <1>6, <1>9 DEF Holds
<1> QED
  BY ONLY <1>4, <1>8, <1>9, <1>10 DEF r, w

\* What the decoders make of the payload of a message.
LEMMA PayloadDecoded ==
  ASSUME NEW m, Encoded(m)
  PROVE  /\ Decode(m.type, m.payload) = m.value
         /\ UnpackPayload(m.type, m.payload)
              = IF m.value = <<>> THEN <<>> ELSE <<Fields(m.type, m.value[1])>>
<1> DEFINE goal == /\ Decode(m.type, m.payload) = m.value
                   /\ UnpackPayload(m.type, m.payload)
                        = IF m.value = <<>> THEN <<>> ELSE <<Fields(m.type, m.value[1])>>
<1>1. TypeOf.PriceTick = 1 /\ TypeOf.Heartbeat = 6 /\ 1 # 6
  BY DEF TypeOf
<1>2. ASSUME NEW t \in Ticks, m.type = 1, m.value = <<t>>, m.payload = EncodeTick(t)
      PROVE  goal
  <2>1. t \in PriceTick
    BY CodecAssumption
  <2>2. TickRead(m.payload, t)
    BY <1>2, <2>1, EncodedTick
  <2>3. DecodeTick(m.payload) = <<t>>
    BY <1>2, <2>1, TickRoundTrip
  <2>4. Unpack(TickFormat, m.payload) = <<t.instrument_id, t.last_price, t.volume,
                                          t.total_traded_volume, t.timestamp_ns>>
    BY ONLY <2>1, <2>2, TickUnpacked
  <2>5. ~(Len(m.payload) < 32)
    <3>1. Len(m.payload) = 32
      BY ONLY <2>2 DEF TickRead, Bytes
    <3> QED
      BY ONLY <3>1
  <2>6. Decode(1, m.payload) = m.value
    BY ONLY <1>1, <1>2, <2>3 DEF Decode
  <2>7. UnpackPayload(1, m.payload) = <<Unpack(TickFormat, m.payload)>>
    BY ONLY <1>1, <2>5 DEF UnpackPayload
  <2>8. Fields(1, t) = Unpack(TickFormat, m.payload)
    BY ONLY <1>1, <2>4 DEF Fields
  <2>9. m.value # <<>> /\ m.value[1] = t
    BY ONLY <1>2
  <2> QED
    BY ONLY <1>2, <2>6, <2>7, <2>8, <2>9
<1>3. ASSUME NEW b \in Heartbeats, m.type = 6, m.value = <<b>>, m.payload = EncodeBeat(b)
      PROVE  goal
  <2>1. b \in Heartbeat
    BY CodecAssumption
  <2>2. BeatRead(m.payload, b)
    BY <1>3, <2>1, EncodedBeat
  <2>3. DecodeBeat(m.payload) = <<b>>
    BY <1>3, <2>1, BeatRoundTrip
  <2>4. Unpack(BeatFormat, m.payload) = <<b.source_id, b.sequence_num>>
    BY ONLY <2>1, <2>2, BeatUnpacked
  <2>5. ~(Len(m.payload) < 12)
    <3>1. Len(m.payload) = 12
      BY ONLY <2>2 DEF BeatRead, Bytes
    <3> QED
      BY ONLY <3>1
  <2>6. Decode(6, m.payload) = m.value
    BY ONLY <1>1, <1>3, <2>3 DEF Decode
  <2>7. UnpackPayload(6, m.payload) = <<Unpack(BeatFormat, m.payload)>>
    BY ONLY <1>1, <2>5 DEF UnpackPayload
  <2>8. Fields(6, b) = Unpack(BeatFormat, m.payload)
    BY ONLY <1>1, <2>4 DEF Fields
  <2>9. m.value # <<>> /\ m.value[1] = b
    BY ONLY <1>3
  <2> QED
    BY ONLY <1>3, <2>6, <2>7, <2>8, <2>9
<1>4. ASSUME m.type = 1, m.value = <<>>, m.payload \in Seq(U8), Len(m.payload) < 32
      PROVE  goal
  <2>1. DecodeTick(m.payload) = <<>>
    BY ONLY <1>4 DEF DecodeTick, TickSize
  <2>2. Decode(1, m.payload) = <<>>
    BY ONLY <1>1, <2>1 DEF Decode
  <2>3. UnpackPayload(1, m.payload) = <<>>
    BY ONLY <1>1, <1>4 DEF UnpackPayload
  <2> QED
    BY ONLY <1>4, <2>2, <2>3
<1> QED
  BY <1>2, <1>3, <1>4 DEF Encoded

-----------------------------------------------------------------------------
(* The invariant: what is on the wire and in the slot at each stage is the   *)
(* message that was sent.                                                    *)

\* The conjuncts of the invariant.
Kept ==
  /\ stage \in {"idle", "sent", "committed", "framed", "received"}
  /\ slot \in SlotType /\ slot.payload_len <= PayloadCap
OnWire ==
  /\ stage = "idle" => wire = <<>>
  /\ stage # "idle" => Encoded(msg)
  /\ stage \in {"sent", "committed"} => \E clock \in U64 : wire = Frame(msg, clock)
  /\ stage \in {"framed", "received"} => wire = Frame(msg, slot.timestamp_ns)
InSlot == stage \in {"committed", "framed", "received"} => Holds(slot, msg)
Seen == stage = "received" => Received(msg, slot.timestamp_ns)

CodecInv == Kept /\ OnWire /\ InSlot /\ Seen

LEMMA CodecInit == Init => CodecInv
<1> SUFFICES ASSUME Init PROVE CodecInv
  OBVIOUS
<1>1. stage = "idle" /\ wire = <<>>
  BY DEF Init
<1>2. slot \in SlotType /\ slot.payload_len <= PayloadCap
  <2>1. Zeros(PayloadCap) \in [1 .. PayloadCap -> U8]
    BY Limits DEF Zeros
  <2>2. slot = [channel_id |-> 0, msg_type |-> 0, payload_len |-> 0,
                timestamp_ns |-> 0, payload |-> Zeros(PayloadCap)]
    BY DEF Init
  <2>3. slot \in SlotType
    BY ONLY <2>1, <2>2, Limits DEF SlotType
  <2>4. slot.payload_len = 0
    BY ONLY <2>2
  <2> QED
    BY ONLY <2>3, <2>4, Limits
<1> QED
  BY ONLY <1>1, <1>2 DEF CodecInv, Kept, OnWire, InSlot, Seen

\* A message of a client goes on the wire in its frame, whichever client it is.
LEMMA SendStep ==
  ASSUME CodecInv, NEW type, NEW channel, NEW value, NEW payload,
         Encoded([type |-> type, channel |-> channel, value |-> value, payload |-> payload]),
         Send(type, channel, value, payload)
  PROVE  CodecInv'
<1> DEFINE m == [type |-> type, channel |-> channel, value |-> value, payload |-> payload]
<1>1. stage' = "sent" /\ msg' = m /\ slot' = slot
  BY DEF Send
<1>2. m.type = type /\ m.channel = channel /\ m.payload = payload
  OBVIOUS
<1>3. Encoded(m)
  OBVIOUS
<1>4. \E clock \in U64 : wire' = Frame(m, clock)
  <2>1. ASSUME NEW clock \in Clocks,
               wire' = ToBytes([msg_type |-> type, channel_id |-> channel,
                                timestamp_ns |-> clock, payload_len |-> Len(payload)]) \o payload
        PROVE  \E c \in U64 : wire' = Frame(m, c)
    <3>1. clock \in U64
      BY CodecAssumption
    <3>2. wire' = Frame(m, clock)
      BY ONLY <1>2, <2>1 DEF Frame, HeaderOf
    <3> QED
      BY ONLY <3>1, <3>2
  <2>2. ASSUME wire' = PackHeader(type, channel, 0, Len(payload)) \o payload
        PROVE  \E c \in U64 : wire' = Frame(m, c)
    <3>1. 0 \in U64
      BY Limits
    <3> DEFINE h == HeaderOf(m, 0)
    <3>2. h \in MsgHeader
      BY ONLY <1>3, <3>1, EncodedTypes
    <3>3. /\ h.msg_type = type /\ h.channel_id = channel /\ h.timestamp_ns = 0
          /\ h.payload_len = Len(payload)
      BY ONLY <1>2 DEF HeaderOf
    <3> HIDE DEF h
    <3>4. PackHeader(h.msg_type, h.channel_id, h.timestamp_ns, h.payload_len) = ToBytes(h)
      BY ONLY <3>2, PackAgrees
    <3>5. wire' = ToBytes(h) \o payload
      BY ONLY <2>2, <3>3, <3>4
    <3>6. wire' = Frame(m, 0)
      BY ONLY <1>2, <3>5 DEF Frame, h
    <3> QED
      BY ONLY <3>1, <3>6
  <2> QED
    BY <2>1, <2>2 DEF Send
<1> HIDE DEF m
<1>5. Kept'
  BY ONLY <1>1, CodecInv DEF CodecInv, Kept
<1>6. OnWire' /\ InSlot' /\ Seen'
  BY ONLY <1>1, <1>3, <1>4 DEF OnWire, InSlot, Seen
<1> QED
  BY ONLY <1>5, <1>6 DEF CodecInv

LEMMA PublishStep ==
  ASSUME CodecInv, NEW c \in Channels,
         \/ \E t \in Ticks : \/ PublishTick(t, c)
                             \/ \E n \in {0, BeatSize, TickSize - 1} : PublishPart(t, n, c)
         \/ \E b \in Heartbeats : PublishBeat(b, c)
  PROVE  CodecInv'
<1>1. TypeOf.PriceTick = 1 /\ TypeOf.Heartbeat = 6
  BY DEF TypeOf
<1>2. ASSUME NEW t \in Ticks, PublishTick(t, c)
      PROVE  CodecInv'
  <2>1. Send(1, c, <<t>>, EncodeTick(t))
    BY ONLY <1>1, <1>2 DEF PublishTick
  <2>2. Encoded([type |-> 1, channel |-> c, value |-> <<t>>, payload |-> EncodeTick(t)])
    BY ONLY c \in Channels, t \in Ticks DEF Encoded
  <2> QED
    BY ONLY CodecInv, <2>1, <2>2, SendStep
<1>3. ASSUME NEW t \in Ticks, NEW n \in {0, BeatSize, TickSize - 1}, PublishPart(t, n, c)
      PROVE  CodecInv'
  <2> DEFINE p == Slice(EncodeTick(t), 0, n)
  <2>1. Send(1, c, <<>>, p)
    BY ONLY <1>1, <1>3 DEF PublishPart
  <2>2. p \in Seq(U8) /\ Len(p) < 32
    <3>1. t \in PriceTick
      BY CodecAssumption
    <3>2. EncodeTick(t) \in Seq(U8) /\ Len(EncodeTick(t)) = 32
      BY ONLY <3>1, EncodedTick DEF TickRead, Bytes
    <3>3. n \in 0 .. 31 /\ n - 0 = n
      BY ONLY n \in {0, BeatSize, TickSize - 1} DEF BeatSize, TickSize
    <3> DEFINE e == EncodeTick(t)
    <3> HIDE DEF e
    <3>4. e \in Seq(U8) /\ 0 \in Nat /\ n \in 0 .. Len(e)
      BY ONLY <3>2, <3>3 DEF e
    <3>5. Slice(e, 0, n) \in Seq(U8) /\ Len(Slice(e, 0, n)) = n - 0
      BY ONLY <3>4, SliceProperties
    <3>6. p \in Seq(U8) /\ Len(p) = n
      BY ONLY <3>3, <3>5 DEF p, e
    <3> QED
      BY ONLY <3>3, <3>6
  <2> HIDE DEF p
  <2>3. Encoded([type |-> 1, channel |-> c, value |-> <<>>, payload |-> p])
    BY ONLY c \in Channels, <2>2 DEF Encoded
  <2> QED
    BY ONLY CodecInv, <2>1, <2>3, SendStep
<1>4. ASSUME NEW b \in Heartbeats, PublishBeat(b, c)
      PROVE  CodecInv'
  <2>1. Send(6, c, <<b>>, EncodeBeat(b))
    BY ONLY <1>1, <1>4 DEF PublishBeat
  <2>2. Encoded([type |-> 6, channel |-> c, value |-> <<b>>, payload |-> EncodeBeat(b)])
    BY ONLY c \in Channels, b \in Heartbeats DEF Encoded
  <2> QED
    BY ONLY CodecInv, <2>1, <2>2, SendStep
<1> QED
  BY <1>2, <1>3, <1>4

\* The slot holds the message of the frame.
LEMMA CommitStep ==
  ASSUME CodecInv, Commit
  PROVE  CodecInv'
<1>1. stage = "sent" /\ stage' = "committed" /\ UNCHANGED <<wire, msg, seen>>
  BY DEF Commit
<1>2. Encoded(msg) /\ slot \in SlotType /\ \E sent \in U64 : wire = Frame(msg, sent)
  BY ONLY CodecInv, <1>1 DEF CodecInv, Kept, OnWire
<1>3. PICK sent \in U64 : wire = Frame(msg, sent)
  BY <1>2
<1>4. PICK clock \in Clocks : slot' = Stored(wire, slot, clock)
  BY DEF Commit, Stored
<1>5. clock \in U64
  BY CodecAssumption
<1> DEFINE r == Stored(Frame(msg, sent), slot, clock)
<1>6. r \in SlotType /\ r.payload_len <= PayloadCap /\ Holds(r, msg)
  BY ONLY <1>2, <1>5, sent \in U64, MessageStored
<1>7. slot' = r
  BY ONLY <1>3, <1>4
<1> HIDE DEF r
<1>8. Kept' /\ InSlot'
  <2>1. slot' \in SlotType /\ slot'.payload_len <= PayloadCap /\ Holds(slot', msg')
    BY ONLY <1>1, <1>6, <1>7
  <2> QED
    BY ONLY <1>1, <2>1 DEF Kept, InSlot
<1>9. OnWire' /\ Seen'
  BY ONLY <1>1, <1>2 DEF OnWire, Seen
<1> QED
  BY ONLY <1>8, <1>9 DEF CodecInv

\* The bus sends the message on with the clock of the slot.
LEMMA BuildFrameStep ==
  ASSUME CodecInv, BuildFrame
  PROVE  CodecInv'
<1>1. stage = "committed" /\ stage' = "framed" /\ UNCHANGED <<slot, msg, seen>>
  BY DEF BuildFrame
<1>2. Encoded(msg) /\ Holds(slot, msg)
  BY ONLY CodecInv, <1>1 DEF CodecInv, OnWire, InSlot
<1>3. wire' = Frame(msg, slot.timestamp_ns)
  <2>1. wire' = ToBytes([msg_type |-> slot.msg_type, channel_id |-> slot.channel_id,
                         timestamp_ns |-> slot.timestamp_ns,
                         payload_len |-> slot.payload_len])
                  \o Slice(slot.payload, 0, slot.payload_len)
    BY DEF BuildFrame, PayloadLen
  <2> QED
    BY ONLY <1>2, <2>1 DEF Frame, HeaderOf, Holds
<1>4. Kept' /\ InSlot'
  BY ONLY CodecInv, <1>1, <1>2 DEF CodecInv, Kept, InSlot
<1>5. OnWire' /\ Seen'
  BY ONLY <1>1, <1>2, <1>3 DEF OnWire, Seen
<1> QED
  BY ONLY <1>4, <1>5 DEF CodecInv

\* The subscribers read the message out of the frame.
LEMMA ReceiveStep ==
  ASSUME CodecInv, Receive
  PROVE  CodecInv'
<1> DEFINE ts == slot.timestamp_ns
           fields == <<msg.type, msg.channel, ts, Len(msg.payload)>>
<1>1. stage = "framed" /\ stage' = "received" /\ UNCHANGED <<wire, slot, msg>>
  BY DEF Receive
<1>2. Encoded(msg) /\ slot \in SlotType /\ wire = Frame(msg, ts)
  BY ONLY CodecInv, <1>1 DEF CodecInv, Kept, OnWire
<1>3. ts \in U64
  BY ONLY <1>2 DEF SlotType
<1>4. /\ FromBytes(wire) = HeaderOf(msg, ts)
      /\ Slice(wire, HEADER_SIZE, HEADER_SIZE + Len(msg.payload)) = msg.payload
      /\ Unpack(HeaderFormat, wire) = fields
  <2> HIDE DEF ts
  <2> QED
    BY ONLY <1>2, <1>3, FrameOfMessage
<1>5. /\ FromBytes(wire).msg_type = msg.type /\ FromBytes(wire).channel_id = msg.channel
      /\ FromBytes(wire).timestamp_ns = ts /\ FromBytes(wire).payload_len = Len(msg.payload)
  BY ONLY <1>4 DEF HeaderOf
<1>6. /\ Unpack(HeaderFormat, wire)[1] = msg.type
      /\ Unpack(HeaderFormat, wire)[4] = Len(msg.payload)
  BY ONLY <1>4
<1>7. seen' = [header |-> fields, payload |-> msg.payload,
               value |-> Decode(msg.type, msg.payload),
               python |-> <<fields, UnpackPayload(msg.type, msg.payload)>>]
  <2>1. seen' = [header |-> <<FromBytes(wire).msg_type, FromBytes(wire).channel_id,
                              FromBytes(wire).timestamp_ns, FromBytes(wire).payload_len>>,
                 payload |-> Slice(wire, HEADER_SIZE, HEADER_SIZE + FromBytes(wire).payload_len),
                 value |-> Decode(FromBytes(wire).msg_type,
                   Slice(wire, HEADER_SIZE, HEADER_SIZE + FromBytes(wire).payload_len)),
                 python |-> <<Unpack(HeaderFormat, wire),
                   UnpackPayload(Unpack(HeaderFormat, wire)[1],
                     Slice(wire, HEADER_SIZE, HEADER_SIZE + Unpack(HeaderFormat, wire)[4]))>>]
    BY DEF Receive
  <2> HIDE DEF ts
  <2> QED
    BY ONLY <1>4, <1>5, <1>6, <2>1
<1>8. /\ Decode(msg.type, msg.payload) = msg.value
      /\ UnpackPayload(msg.type, msg.payload)
           = IF msg.value = <<>> THEN <<>> ELSE <<Fields(msg.type, msg.value[1])>>
  BY ONLY <1>2, PayloadDecoded
<1>9. /\ seen'.header = fields /\ seen'.payload = msg.payload /\ seen'.value = msg.value
      /\ seen'.python = <<fields, IF msg.value = <<>> THEN <<>>
                                  ELSE <<Fields(msg.type, msg.value[1])>> >>
  <2> HIDE DEF fields
  <2> QED
    BY ONLY <1>7, <1>8
<1>10. Seen'
  BY ONLY <1>1, <1>9 DEF Seen, Received
<1>11. Kept' /\ OnWire' /\ InSlot'
  BY ONLY CodecInv, <1>1, <1>2 DEF CodecInv, Kept, OnWire, InSlot
<1> QED
  BY ONLY <1>10, <1>11 DEF CodecInv

LEMMA CodecStep == CodecInv /\ [Next]_vars => CodecInv'
<1> SUFFICES ASSUME CodecInv, [Next]_vars PROVE CodecInv'
  OBVIOUS
<1>1. ASSUME NEW t \in Ticks, NEW c \in Channels,
             \/ PublishTick(t, c)
             \/ \E n \in {0, BeatSize, TickSize - 1} : PublishPart(t, n, c)
      PROVE  CodecInv'
  BY <1>1, PublishStep
<1>2. ASSUME NEW b \in Heartbeats, NEW c \in Channels, PublishBeat(b, c)
      PROVE  CodecInv'
  BY <1>2, PublishStep
<1>3. CASE Commit
  BY <1>3, CommitStep
<1>4. CASE BuildFrame
  BY <1>4, BuildFrameStep
<1>5. CASE Receive
  BY <1>5, ReceiveStep
<1>6. CASE Again
  <2>1. stage' = "idle" /\ wire' = <<>> /\ UNCHANGED slot
    BY <1>6 DEF Again
  <2> QED
    BY ONLY CodecInv, <2>1 DEF CodecInv, Kept, OnWire, InSlot, Seen
<1>7. CASE UNCHANGED vars
  <2>1. UNCHANGED <<stage, wire, slot, msg, seen>>
    BY <1>7 DEF vars
  <2> QED
    BY ONLY CodecInv, <2>1 DEF CodecInv, Kept, OnWire, InSlot, Seen, Received
<1> QED
  BY <1>1, <1>2, <1>3, <1>4, <1>5, <1>6, <1>7 DEF Next

LEMMA CodecInvariant == Spec => []CodecInv
BY CodecInit, CodecStep, PTL DEF Spec

-----------------------------------------------------------------------------
(* The theorems.                                                             *)

\* What is on a socket is a sequence of bytes, and the slot's length fits the
\* buffer of the slot: header.rs, publish() and dispatch_loop().
THEOREM TypeCorrect == Spec => []TypeOK
<1>1. CodecInv => TypeOK
  <2> SUFFICES ASSUME CodecInv PROVE TypeOK
    OBVIOUS
  <2>1. stage \in {"idle", "sent", "committed", "framed", "received"}
        /\ slot \in SlotType /\ slot.payload_len <= PayloadCap
    BY DEF CodecInv, Kept
  <2>2. wire \in Seq(U8)
    <3>1. CASE stage = "idle"
      BY <3>1 DEF CodecInv, OnWire
    <3>2. CASE stage \in {"sent", "committed"}
      <4>1. Encoded(msg) /\ \E clock \in U64 : wire = Frame(msg, clock)
        BY <3>2 DEF CodecInv, OnWire
      <4> QED
        BY ONLY <4>1, FrameOfMessage
    <3>3. CASE stage \in {"framed", "received"}
      <4>1. Encoded(msg) /\ wire = Frame(msg, slot.timestamp_ns)
        BY <3>3 DEF CodecInv, OnWire
      <4>2. slot.timestamp_ns \in U64
        BY ONLY <2>1 DEF SlotType
      <4> QED
        BY ONLY <4>1, <4>2, FrameOfMessage
    <3> QED
      BY ONLY <2>1, <3>1, <3>2, <3>3
  <2> QED
    BY ONLY <2>1, <2>2 DEF TypeOK, SlotType
<1> QED
  BY <1>1, CodecInvariant, PTL

\* A subscriber decodes the value that the publisher encoded, under the sender's
\* type and channel and the bus's clock, and no byte of the message that was in
\* the slot before: to_bytes(), from_bytes(), encode(), decode(), publish() and
\* dispatch_loop().
THEOREM RoundTrip == Spec => []DecodedAsEncoded
<1>1. CodecInv => DecodedAsEncoded
  BY DEF CodecInv, Seen, Received, DecodedAsEncoded
<1> QED
  BY <1>1, CodecInvariant, PTL

\* struct.pack() and struct.unpack_from() of the Python clients write and read
\* the same header and the same payload as the Rust library.
THEOREM PythonAgreesCorrect == Spec => []PythonAgrees
<1>1. CodecInv => PythonAgrees
  BY DEF CodecInv, Seen, Received, PythonAgrees
<1> QED
  BY <1>1, CodecInvariant, PTL

=============================================================================
