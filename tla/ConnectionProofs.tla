--------------------------- MODULE ConnectionProofs ---------------------------
(***************************************************************************)
(* Proofs about Connection for every set of messages and of subscriptions, *)
(* every capacity, and any number of messages either way.                  *)
(*                                                                         *)
(* A direction of the connection is a pipe: frames were put into it one    *)
(* after the other, and a reader has taken a number of them, and perhaps   *)
(* the header of the next one.  What a write and a read do to a pipe is    *)
(* proved once, for both directions.                                       *)
(***************************************************************************)
EXTENDS Connection, SequenceTheorems, TLAPS

HeaderOf(m) == [type |-> m.type, chan |-> m.chan, len |-> Len(m.payload)]
FrameLen(m) == HeaderSize + Len(m.payload)

-----------------------------------------------------------------------------
(* Streams.                                                                  *)

\* W is the frames of msgs, one after the other; pos[i] is where frame i begins.
Layout(msgs, W, pos) ==
  /\ W \in Seq(Nat)
  /\ pos \in [1 .. Len(msgs) + 1 -> Nat]
  /\ pos[1] = 0 /\ pos[Len(msgs) + 1] = Len(W)
  /\ \A i \in 1 .. Len(msgs) :
       /\ pos[i + 1] = pos[i] + FrameLen(msgs[i]) /\ pos[i + 1] <= Len(W)
       /\ \A j \in 1 .. FrameLen(msgs[i]) : W[pos[i] + j] = Frame(msgs[i])[j]

\* A reader that has taken r cells is behind k frames, or behind the header h of
\* the next one, too.
Position(msgs, pos, k, place, h, r) ==
  /\ k \in 0 .. Len(msgs)
  /\ place = "header" => r = pos[k + 1]
  /\ place = "payload" => /\ k < Len(msgs)
                          /\ r = pos[k + 1] + HeaderSize
                          /\ h = HeaderOf(msgs[k + 1])

\* The cells of buf follow the first r of the stream.
Window(W, r, buf) ==
  /\ r \in Nat /\ r + Len(buf) <= Len(W)
  /\ \A i \in 1 .. Len(buf) : buf[i] = W[r + i]

\* And those of rest follow them, to its end.
Ending(W, r, buf, rest) ==
  /\ r + Len(buf) + Len(rest) = Len(W)
  /\ \A i \in 1 .. Len(rest) : rest[i] = W[r + Len(buf) + i]

\* What a reader of msgs will find in buf and, unless the pipe was cut, in rest.
Pipe(msgs, k, place, h, buf, rest, state) ==
  \E W, pos, r :
    /\ Layout(msgs, W, pos)
    /\ Position(msgs, pos, k, place, h, r)
    /\ Window(W, r, buf)
    /\ state = "whole" => Ending(W, r, buf, rest)

LEMMA FrameType ==
  ASSUME NEW m \in Message
  PROVE  /\ Frame(m) \in Seq(Nat) /\ Len(Frame(m)) = FrameLen(m) /\ FrameLen(m) \in Nat
         /\ Len(m.payload) \in Nat /\ m.payload \in Seq(Nat)
         /\ Frame(m)[1] = m.type /\ Frame(m)[2] = m.chan /\ Frame(m)[3] = Len(m.payload)
         /\ \A i \in 1 .. Len(m.payload) : Frame(m)[HeaderSize + i] = m.payload[i]
         /\ HeaderOf(m) \in Header
<1>1. m.payload \in Seq(Nat) /\ Len(m.payload) \in Nat /\ m.type \in Nat /\ m.chan \in Nat
  BY DEF Message
<1>2. <<m.type, m.chan, Len(m.payload)>> \in Seq(Nat)
  BY <1>1
<1> QED
  BY <1>1, <1>2 DEF Frame, FrameLen, HeaderSize, HeaderOf, Header

LEMMA Concatenated ==
  ASSUME NEW s \in Seq(Nat), NEW t \in Seq(Nat)
  PROVE  /\ s \o t \in Seq(Nat) /\ Len(s \o t) = Len(s) + Len(t)
         /\ \A i \in 1 .. Len(s) : (s \o t)[i] = s[i]
         /\ \A j \in 1 .. Len(t) : (s \o t)[Len(s) + j] = t[j]
<1>1. s \o t \in Seq(Nat) /\ Len(s \o t) = Len(s) + Len(t)
  OBVIOUS
<1>2. \A i \in 1 .. Len(s) : (s \o t)[i] = s[i]
  OBVIOUS
<1>3. \A j \in 1 .. Len(t) : (s \o t)[Len(s) + j] = t[j]
  OBVIOUS
<1> QED
  BY <1>1, <1>2, <1>3

LEMMA LayoutEmpty == Layout(<<>>, <<>>, [i \in 1 .. 1 |-> 0])
BY DEF Layout

LEMMA LayoutGrows ==
  ASSUME NEW msgs \in Seq(Message), NEW W, NEW pos, NEW m \in Message, Layout(msgs, W, pos)
  PROVE  Layout(Append(msgs, m), W \o Frame(m),
                [i \in 1 .. Len(msgs) + 2 |->
                   IF i <= Len(msgs) + 1 THEN pos[i] ELSE Len(W) + FrameLen(m)])
<1> DEFINE n == Len(msgs)
           V == W \o Frame(m)
           q == [i \in 1 .. n + 2 |-> IF i <= n + 1 THEN pos[i] ELSE Len(W) + FrameLen(m)]
           ms == Append(msgs, m)
<1>1. /\ n \in Nat /\ W \in Seq(Nat) /\ Len(W) \in Nat /\ pos \in [1 .. n + 1 -> Nat]
      /\ pos[1] = 0 /\ pos[n + 1] = Len(W)
  BY DEF Layout
<1>2. /\ Frame(m) \in Seq(Nat) /\ Len(Frame(m)) = FrameLen(m) /\ FrameLen(m) \in Nat
  BY FrameType
<1>3. /\ V \in Seq(Nat) /\ Len(V) = Len(W) + FrameLen(m)
      /\ \A i \in 1 .. Len(W) : V[i] = W[i]
      /\ \A j \in 1 .. FrameLen(m) : V[Len(W) + j] = Frame(m)[j]
  <2>1. W \in Seq(Nat) /\ Frame(m) \in Seq(Nat)
    BY <1>1, <1>2
  <2>2. /\ W \o Frame(m) \in Seq(Nat) /\ Len(W \o Frame(m)) = Len(W) + Len(Frame(m))
        /\ \A i \in 1 .. Len(W) : (W \o Frame(m))[i] = W[i]
        /\ \A j \in 1 .. Len(Frame(m)) : (W \o Frame(m))[Len(W) + j] = Frame(m)[j]
    BY ONLY <2>1, Concatenated
  <2> QED
    BY <1>2, <2>2
<1>4. /\ Len(ms) = n + 1 /\ ms[n + 1] = m
      /\ \A i \in 1 .. n : ms[i] = msgs[i] /\ msgs[i] \in Message
  BY <1>1
<1>5. /\ q \in [1 .. n + 2 -> Nat] /\ q[1] = 0 /\ q[n + 2] = Len(V)
      /\ \A i \in 1 .. n + 1 : q[i] = pos[i]
  <2> HIDE DEF V, n
  <2>1. \A i \in 1 .. n + 1 : q[i] = pos[i]
    BY <1>1
  <2>2. q[n + 2] = Len(V)
    BY <1>1, <1>3
  <2>3. q \in [1 .. n + 2 -> Nat]
    BY <1>1, <1>2
  <2>4. q[1] = 0
    BY <1>1, <2>1
  <2> QED
    BY <2>1, <2>2, <2>3, <2>4
<1> HIDE DEF V, q, ms, n
<1>6. ASSUME NEW i \in 1 .. n
      PROVE  /\ q[i + 1] = q[i] + FrameLen(ms[i]) /\ q[i + 1] <= Len(V)
             /\ \A j \in 1 .. FrameLen(ms[i]) : V[q[i] + j] = Frame(ms[i])[j]
  <2>1. /\ pos[i + 1] = pos[i] + FrameLen(msgs[i]) /\ pos[i + 1] <= Len(W)
        /\ \A j \in 1 .. FrameLen(msgs[i]) : W[pos[i] + j] = Frame(msgs[i])[j]
    BY DEF Layout, n
  <2>2. /\ q[i] = pos[i] /\ q[i + 1] = pos[i + 1] /\ ms[i] = msgs[i] /\ pos[i] \in Nat
        /\ FrameLen(msgs[i]) \in Nat
    BY <1>1, <1>4, <1>5, FrameType
  <2>3. \A j \in 1 .. FrameLen(msgs[i]) : pos[i] + j \in 1 .. Len(W)
    <3> DEFINE c == pos[i]
               l == FrameLen(msgs[i])
               z == Len(W)
    <3>1. c \in Nat /\ l \in Nat /\ z \in Nat /\ c + l <= z
      BY <1>1, <2>1, <2>2
    <3> HIDE DEF c, l, z
    <3>2. \A j \in 1 .. l : c + j \in 1 .. z
      BY ONLY <3>1
    <3> QED
      BY <3>2 DEF c, l, z
  <2>4. \A j \in 1 .. FrameLen(msgs[i]) : V[pos[i] + j] = W[pos[i] + j]
    BY <1>3, <2>3
  <2>5. \A j \in 1 .. FrameLen(ms[i]) : V[q[i] + j] = Frame(ms[i])[j]
    BY <2>1, <2>2, <2>4
  <2>6. q[i + 1] = q[i] + FrameLen(ms[i])
    BY <2>1, <2>2
  <2>7. q[i + 1] <= Len(V)
    <3>1. q[i + 1] \in Nat
      BY <2>1, <2>2
    <3> QED
      BY <1>1, <1>2, <1>3, <2>1, <2>2, <3>1
  <2> QED
    BY <2>5, <2>6, <2>7
<1>7. /\ q[n + 2] = q[n + 1] + FrameLen(ms[n + 1]) /\ q[n + 2] <= Len(V)
      /\ \A j \in 1 .. FrameLen(ms[n + 1]) : V[q[n + 1] + j] = Frame(ms[n + 1])[j]
  <2>1. q[n + 1] = Len(W)
    BY <1>1, <1>5
  <2>2. \A j \in 1 .. FrameLen(ms[n + 1]) : V[q[n + 1] + j] = Frame(ms[n + 1])[j]
    BY <1>3, <1>4, <2>1
  <2>3. q[n + 2] = q[n + 1] + FrameLen(ms[n + 1])
    BY <1>3, <1>4, <1>5, <2>1
  <2>4. q[n + 2] <= Len(V)
    BY <1>1, <1>2, <1>3, <1>5
  <2> QED
    BY <2>2, <2>3, <2>4
<1>8. Layout(ms, V, q)
  <2>1. ASSUME NEW i \in 1 .. Len(ms)
        PROVE  /\ q[i + 1] = q[i] + FrameLen(ms[i]) /\ q[i + 1] <= Len(V)
               /\ \A j \in 1 .. FrameLen(ms[i]) : V[q[i] + j] = Frame(ms[i])[j]
    <3>1. CASE i \in 1 .. n
      BY <1>6, <3>1
    <3>2. CASE i = n + 1
      <4>1. i + 1 = n + 2
        BY <1>1, <3>2
      <4> QED
        BY <1>7, <3>2, <4>1
    <3> QED
      BY <1>1, <1>4, <3>1, <3>2
  <2>2. Len(ms) + 1 = n + 2
    BY <1>1, <1>4
  <2>3. /\ q \in [1 .. Len(ms) + 1 -> Nat] /\ q[1] = 0 /\ q[Len(ms) + 1] = Len(V)
    BY <1>5, <2>2
  <2>4. V \in Seq(Nat)
    BY <1>3
  <2> QED
    BY ONLY <2>1, <2>3, <2>4 DEF Layout
<1> QED
  BY <1>8 DEF V, q, ms, n

-----------------------------------------------------------------------------
(* Pipes.                                                                    *)

LEMMA PipeEmpty ==
  ASSUME NEW h, NEW state
  PROVE  Pipe(<<>>, 0, "header", h, <<>>, <<>>, state)
<1> DEFINE pos == [i \in 1 .. 1 |-> 0]
<1>1. Layout(<<>>, <<>>, pos)
  BY LayoutEmpty
<1>2. Position(<<>>, pos, 0, "header", h, 0)
  BY DEF Position
<1>3. Window(<<>>, 0, <<>>) /\ Ending(<<>>, 0, <<>>, <<>>)
  BY DEF Window, Ending
<1> QED
  BY <1>1, <1>2, <1>3 DEF Pipe

LEMMA PipeSend ==
  ASSUME NEW msgs \in Seq(Message), NEW k \in Nat, NEW place, NEW h, NEW buf \in Seq(Nat),
         NEW m \in Message, Pipe(msgs, k, place, h, buf, <<>>, "whole")
  PROVE  Pipe(Append(msgs, m), k, place, h, buf, Frame(m), "whole")
<1>1. PICK W, pos, r : /\ Layout(msgs, W, pos) /\ Position(msgs, pos, k, place, h, r)
                       /\ Window(W, r, buf) /\ Ending(W, r, buf, <<>>)
  BY DEF Pipe
<1> DEFINE n == Len(msgs)
           V == W \o Frame(m)
           q == [i \in 1 .. n + 2 |-> IF i <= n + 1 THEN pos[i] ELSE Len(W) + FrameLen(m)]
           ms == Append(msgs, m)
<1>2. Layout(ms, V, q)
  BY <1>1, LayoutGrows
<1>3. /\ W \in Seq(Nat) /\ Len(W) \in Nat /\ n \in Nat /\ r \in Nat /\ Len(buf) \in Nat
      /\ r + Len(buf) = Len(W)
  BY <1>1 DEF Layout, Window, Ending
<1>4. /\ Frame(m) \in Seq(Nat) /\ Len(Frame(m)) = FrameLen(m) /\ FrameLen(m) \in Nat
  BY FrameType
<1>5. /\ Len(V) = Len(W) + FrameLen(m)
      /\ \A i \in 1 .. Len(W) : V[i] = W[i]
      /\ \A j \in 1 .. FrameLen(m) : V[Len(W) + j] = Frame(m)[j]
      /\ Len(ms) = n + 1 /\ \A i \in 1 .. n : ms[i] = msgs[i]
      /\ \A i \in 1 .. n + 1 : q[i] = pos[i]
  BY <1>3, <1>4
<1> HIDE DEF V, q, ms, n
<1>6. Position(ms, q, k, place, h, r)
  <2>1. k \in 0 .. n /\ k + 1 \in 1 .. n + 1 /\ k <= Len(ms)
    BY <1>1, <1>3, <1>5 DEF Position, n
  <2>2. q[k + 1] = pos[k + 1]
    BY <1>5, <2>1
  <2>3. place = "header" => r = q[k + 1]
    BY <1>1, <2>2 DEF Position
  <2>4. ASSUME place = "payload"
        PROVE  k < Len(ms) /\ r = q[k + 1] + HeaderSize /\ h = HeaderOf(ms[k + 1])
    <3>1. k < n /\ r = pos[k + 1] + HeaderSize /\ h = HeaderOf(msgs[k + 1])
      BY <1>1, <2>4 DEF Position, n
    <3>2. k + 1 \in 1 .. n /\ k < Len(ms)
      BY <1>3, <1>5, <2>1, <3>1
    <3>3. ms[k + 1] = msgs[k + 1]
      BY <1>5, <3>2
    <3> QED
      BY <2>2, <3>1, <3>2, <3>3
  <2>5. k \in 0 .. Len(ms)
    BY <1>3, <1>5, <2>1
  <2> QED
    BY ONLY <2>3, <2>4, <2>5 DEF Position
<1>7. Window(V, r, buf)
  <2>1. \A i \in 1 .. Len(buf) : buf[i] = W[r + i]
    BY <1>1 DEF Window
  <2>2. \A i \in 1 .. Len(buf) : r + i \in 1 .. Len(W)
    BY <1>3
  <2>3. \A i \in 1 .. Len(buf) : buf[i] = V[r + i]
    BY <1>5, <2>1, <2>2
  <2>4. r + Len(buf) <= Len(V)
    BY <1>3, <1>4, <1>5
  <2> QED
    BY ONLY <1>3, <2>3, <2>4 DEF Window
<1>8. Ending(V, r, buf, Frame(m))
  BY <1>3, <1>4, <1>5 DEF Ending
<1>9. Pipe(ms, k, place, h, buf, Frame(m), "whole")
  BY <1>2, <1>6, <1>7, <1>8 DEF Pipe
<1> QED
  BY <1>9 DEF ms

LEMMA PipeTransmit ==
  ASSUME NEW msgs \in Seq(Message), NEW k \in Nat, NEW place, NEW h, NEW buf \in Seq(Nat),
         NEW rest \in Seq(Nat), rest # <<>>, Pipe(msgs, k, place, h, buf, rest, "whole")
  PROVE  Pipe(msgs, k, place, h, Append(buf, Head(rest)), Tail(rest), "whole")
<1>1. PICK W, pos, r : /\ Layout(msgs, W, pos) /\ Position(msgs, pos, k, place, h, r)
                       /\ Window(W, r, buf) /\ Ending(W, r, buf, rest)
  BY DEF Pipe
<1> DEFINE b == Append(buf, Head(rest))
           t == Tail(rest)
<1>2. /\ Len(W) \in Nat /\ r \in Nat /\ Len(buf) \in Nat /\ Len(rest) \in Nat \ {0}
  BY <1>1 DEF Layout, Window
<1>3. /\ Len(b) = Len(buf) + 1 /\ b[Len(buf) + 1] = rest[1]
      /\ \A i \in 1 .. Len(buf) : b[i] = buf[i]
      /\ Len(t) = Len(rest) - 1
      /\ \A i \in 1 .. Len(t) : t[i] = rest[i + 1]
  BY <1>2
<1> HIDE DEF b, t
<1>4. /\ r + Len(buf) + Len(rest) = Len(W) /\ \A i \in 1 .. Len(rest) : rest[i] = W[r + Len(buf) + i]
  BY <1>1 DEF Ending
<1>5. Window(W, r, b)
  <2>1. \A i \in 1 .. Len(b) : b[i] = W[r + i]
    <3>1. rest[1] = W[r + Len(buf) + 1]
      BY <1>2, <1>4
    <3>2. \A i \in 1 .. Len(buf) : buf[i] = W[r + i]
      BY <1>1 DEF Window
    <3>3. ASSUME NEW i \in 1 .. Len(b) PROVE b[i] = W[r + i]
      <4>1. CASE i \in 1 .. Len(buf)
        BY <1>3, <3>2, <4>1
      <4>2. CASE i = Len(buf) + 1
        <5>1. r + i = r + Len(buf) + 1
          <6>1. r \in Nat /\ Len(buf) \in Nat
            BY <1>2
          <6> QED
            BY ONLY <6>1, <4>2
        <5> QED
          BY <1>3, <3>1, <4>2, <5>1
      <4> QED
        BY <1>2, <1>3, <4>1, <4>2
    <3> QED
      BY <3>3
  <2>2. r + Len(b) <= Len(W)
    BY <1>2, <1>3, <1>4
  <2> QED
    BY ONLY <1>2, <2>1, <2>2 DEF Window
<1>6. Ending(W, r, b, t)
  <2>1. \A i \in 1 .. Len(t) : t[i] = W[r + Len(b) + i]
    <3> SUFFICES ASSUME NEW i \in 1 .. Len(t) PROVE t[i] = W[r + Len(b) + i]
      OBVIOUS
    <3>1. i + 1 \in 1 .. Len(rest) /\ r + Len(buf) + (i + 1) = r + Len(b) + i
      BY <1>2, <1>3
    <3> QED
      BY <1>3, <1>4, <3>1
  <2>2. r + Len(b) + Len(t) = Len(W)
    <3> DEFINE x == Len(buf)
               y == Len(rest)
               z == Len(W)
    <3>1. Len(b) = x + 1 /\ Len(t) = y - 1 /\ r + x + y = z
      BY <1>3, <1>4
    <3>2. x \in Nat /\ y \in Nat /\ z \in Nat /\ r \in Nat
      BY <1>2
    <3> HIDE DEF x, y, z
    <3>3. r + (x + 1) + (y - 1) = z
      BY ONLY <3>1, <3>2
    <3> QED
      BY <3>1, <3>3 DEF z
  <2> QED
    BY ONLY <2>1, <2>2 DEF Ending
<1>7. Pipe(msgs, k, place, h, b, t, "whole")
  BY <1>1, <1>5, <1>6 DEF Pipe
<1> QED
  BY <1>7 DEF b, t

\* What is left of a pipe after the reader took n cells.
LEMMA WindowShift ==
  ASSUME NEW W \in Seq(Nat), NEW r, NEW buf \in Seq(Nat), NEW rest \in Seq(Nat), NEW state,
         NEW n \in 0 .. Len(buf), Window(W, r, buf), state = "whole" => Ending(W, r, buf, rest)
  PROVE  /\ Window(W, r + n, SubSeq(buf, n + 1, Len(buf)))
         /\ state = "whole" => Ending(W, r + n, SubSeq(buf, n + 1, Len(buf)), rest)
<1> DEFINE b == SubSeq(buf, n + 1, Len(buf))
<1>1. Len(W) \in Nat /\ r \in Nat /\ Len(buf) \in Nat /\ n \in Nat /\ n <= Len(buf)
  BY DEF Window
<1>2. Len(b) = Len(buf) - n /\ \A i \in 1 .. Len(b) : b[i] = buf[n + i]
  BY <1>1
<1> HIDE DEF b
<1>3. Window(W, r + n, b)
  <2>1. \A i \in 1 .. Len(b) : n + i \in 1 .. Len(buf) /\ r + (n + i) = r + n + i
    BY <1>1, <1>2
  <2>2. \A i \in 1 .. Len(buf) : buf[i] = W[r + i]
    BY DEF Window
  <2>3. \A i \in 1 .. Len(b) : b[i] = W[r + n + i]
    BY <1>2, <2>1, <2>2
  <2>4. r + Len(buf) <= Len(W)
    BY DEF Window
  <2>5. r + n \in Nat /\ r + n + Len(b) <= Len(W)
    BY <1>1, <1>2, <2>4
  <2> QED
    BY ONLY <2>3, <2>5 DEF Window
<1>4. ASSUME state = "whole" PROVE Ending(W, r + n, b, rest)
  <2>1. r + n + Len(b) = r + Len(buf)
    BY <1>1, <1>2
  <2>2. /\ r + Len(buf) + Len(rest) = Len(W)
        /\ \A i \in 1 .. Len(rest) : rest[i] = W[r + Len(buf) + i]
    BY <1>4 DEF Ending
  <2> QED
    BY ONLY <2>1, <2>2 DEF Ending
<1> QED
  BY <1>3, <1>4 DEF b

LEMMA PipeHeader ==
  ASSUME NEW msgs \in Seq(Message), NEW k \in Nat, NEW h, NEW buf \in Seq(Nat),
         NEW rest \in Seq(Nat), NEW state, Pipe(msgs, k, "header", h, buf, rest, state),
         Len(buf) >= HeaderSize
  PROVE  /\ k < Len(msgs) /\ k + 1 \in 1 .. Len(msgs) /\ msgs[k + 1] \in Message
         /\ FromBytes(buf) = HeaderOf(msgs[k + 1])
         /\ Pipe(msgs, k, "payload", FromBytes(buf), SubSeq(buf, HeaderSize + 1, Len(buf)),
                 rest, state)
<1>1. PICK W, pos, r : /\ Layout(msgs, W, pos) /\ Position(msgs, pos, k, "header", h, r)
                       /\ Window(W, r, buf) /\ (state = "whole" => Ending(W, r, buf, rest))
  BY DEF Pipe
<1>2. /\ W \in Seq(Nat) /\ k \in 0 .. Len(msgs) /\ r = pos[k + 1]
      /\ pos[Len(msgs) + 1] = Len(W) /\ r \in Nat /\ r + Len(buf) <= Len(W)
  <2>1. W \in Seq(Nat) /\ pos[Len(msgs) + 1] = Len(W)
    BY <1>1 DEF Layout
  <2>2. k \in 0 .. Len(msgs) /\ r = pos[k + 1]
    BY <1>1 DEF Position
  <2>3. r \in Nat /\ r + Len(buf) <= Len(W)
    BY <1>1 DEF Window
  <2> QED
    BY <2>1, <2>2, <2>3
<1>3. /\ Len(W) \in Nat /\ Len(msgs) \in Nat /\ Len(buf) \in Nat /\ Len(buf) >= 3
      /\ HeaderSize = 3
  <2>1. W \in Seq(Nat)
    BY <1>2
  <2> QED
    BY <2>1 DEF HeaderSize
<1>4. k < Len(msgs) /\ k + 1 \in 1 .. Len(msgs) /\ msgs[k + 1] \in Message
  <2> DEFINE n == Len(msgs)
  <2>1. k # n
    BY <1>2, <1>3
  <2>2. k \in 0 .. n /\ n \in Nat
    BY <1>2, <1>3
  <2> HIDE DEF n
  <2>3. k < n /\ k + 1 \in 1 .. n
    BY ONLY <2>1, <2>2
  <2>4. k < Len(msgs) /\ k + 1 \in 1 .. Len(msgs)
    BY <2>3 DEF n
  <2> QED
    BY <2>4
<1> DEFINE m == msgs[k + 1]
<1>5. /\ FrameLen(m) \in Nat /\ FrameLen(m) >= 3
      /\ Frame(m)[1] = m.type /\ Frame(m)[2] = m.chan /\ Frame(m)[3] = Len(m.payload)
  <2> HIDE DEF m
  <2>1. m \in Message
    BY <1>4 DEF m
  <2>2. /\ FrameLen(m) \in Nat /\ Len(m.payload) \in Nat
        /\ Frame(m)[1] = m.type /\ Frame(m)[2] = m.chan /\ Frame(m)[3] = Len(m.payload)
    BY <2>1, FrameType
  <2>3. FrameLen(m) >= 3
    BY <1>3, <2>2 DEF FrameLen
  <2> QED
    BY <2>2, <2>3
<1>6. buf[1] = m.type /\ buf[2] = m.chan /\ buf[3] = Len(m.payload)
  <2>1. buf[1] = W[r + 1] /\ buf[2] = W[r + 2] /\ buf[3] = W[r + 3]
    <3>1. \A i \in 1 .. Len(buf) : buf[i] = W[r + i]
      BY <1>1 DEF Window
    <3> QED
      BY <1>3, <3>1
  <2>2. \A j \in 1 .. FrameLen(m) : W[r + j] = Frame(m)[j]
    BY <1>1, <1>2, <1>4 DEF Layout
  <2> HIDE DEF m
  <2> QED
    BY <1>5, <2>1, <2>2
<1>7. FromBytes(buf) = HeaderOf(m)
  BY <1>6 DEF FromBytes, HeaderOf
<1>8. Position(msgs, pos, k, "payload", FromBytes(buf), r + HeaderSize)
  BY <1>2, <1>4, <1>7 DEF Position
<1> DEFINE b == SubSeq(buf, HeaderSize + 1, Len(buf))
<1>9. Window(W, r + HeaderSize, b) /\ (state = "whole" => Ending(W, r + HeaderSize, b, rest))
  <2>1. HeaderSize \in 0 .. Len(buf)
    BY <1>3
  <2>2. W \in Seq(Nat)
    BY <1>2
  <2> HIDE DEF b, m
  <2> QED
    BY ONLY <1>1, <2>1, <2>2, WindowShift, buf \in Seq(Nat), rest \in Seq(Nat) DEF b
<1> QED
  BY <1>1, <1>4, <1>7, <1>8, <1>9 DEF Pipe

LEMMA PipePayload ==
  ASSUME NEW msgs \in Seq(Message), NEW k \in Nat, NEW h, NEW g, NEW buf \in Seq(Nat),
         NEW rest \in Seq(Nat), NEW state, Pipe(msgs, k, "payload", h, buf, rest, state),
         Len(buf) >= h.len
  PROVE  /\ k < Len(msgs) /\ k + 1 \in 1 .. Len(msgs)
         /\ SubSeq(buf, 1, h.len) = msgs[k + 1].payload
         /\ MessageOf(h, SubSeq(buf, 1, h.len)) = msgs[k + 1]
         /\ Pipe(msgs, k + 1, "header", g, SubSeq(buf, h.len + 1, Len(buf)), rest, state)
<1>1. PICK W, pos, r : /\ Layout(msgs, W, pos) /\ Position(msgs, pos, k, "payload", h, r)
                       /\ Window(W, r, buf) /\ (state = "whole" => Ending(W, r, buf, rest))
  BY DEF Pipe
<1> DEFINE m == msgs[k + 1]
           p == SubSeq(buf, 1, h.len)
<1>2. /\ W \in Seq(Nat) /\ Len(W) \in Nat /\ Len(msgs) \in Nat /\ Len(buf) \in Nat
      /\ r \in Nat /\ r + Len(buf) <= Len(W)
      /\ k < Len(msgs) /\ k + 1 \in 1 .. Len(msgs) /\ m \in Message
      /\ r = pos[k + 1] + 3 /\ h = HeaderOf(m) /\ pos[k + 1] \in Nat
  <2>1. W \in Seq(Nat) /\ pos \in [1 .. Len(msgs) + 1 -> Nat]
    BY <1>1 DEF Layout
  <2>2. k \in 0 .. Len(msgs) /\ k < Len(msgs) /\ r = pos[k + 1] + 3 /\ h = HeaderOf(m)
    BY <1>1 DEF Position, HeaderSize
  <2>3. r \in Nat /\ r + Len(buf) <= Len(W)
    BY <1>1 DEF Window
  <2>4. Len(W) \in Nat /\ Len(msgs) \in Nat /\ Len(buf) \in Nat
    BY <2>1
  <2>5. k + 1 \in 1 .. Len(msgs) /\ k + 1 \in 1 .. Len(msgs) + 1
    BY <2>2, <2>4
  <2>6. m \in Message
    BY <2>5
  <2>7. pos[k + 1] \in Nat
    BY <2>1, <2>5
  <2> QED
    BY <2>1, <2>2, <2>3, <2>4, <2>5, <2>6, <2>7
<1>3. /\ h.len = Len(m.payload) /\ h.type = m.type /\ h.chan = m.chan
      /\ h.len \in Nat /\ m.payload \in Seq(Nat) /\ FrameLen(m) = 3 + h.len
      /\ \A i \in 1 .. h.len : Frame(m)[3 + i] = m.payload[i]
  <2> HIDE DEF m
  <2>1. h.len = Len(m.payload) /\ h.type = m.type /\ h.chan = m.chan
    BY <1>2 DEF HeaderOf
  <2>2. /\ Len(m.payload) \in Nat /\ m.payload \in Seq(Nat)
        /\ \A i \in 1 .. Len(m.payload) : Frame(m)[HeaderSize + i] = m.payload[i]
    BY <1>2, FrameType
  <2>3. FrameLen(m) = 3 + h.len
    BY <2>1 DEF FrameLen, HeaderSize
  <2> QED
    BY <2>1, <2>2, <2>3 DEF HeaderSize
<1>4. /\ pos[k + 2] = pos[k + 1] + FrameLen(m)
      /\ \A j \in 1 .. FrameLen(m) : W[pos[k + 1] + j] = Frame(m)[j]
  <2>1. \A i \in 1 .. Len(msgs) :
          /\ pos[i + 1] = pos[i] + FrameLen(msgs[i])
          /\ \A j \in 1 .. FrameLen(msgs[i]) : W[pos[i] + j] = Frame(msgs[i])[j]
    BY <1>1 DEF Layout
  <2>2. (k + 1) + 1 = k + 2
    OBVIOUS
  <2> HIDE DEF p
  <2> QED
    BY <1>2, <2>1, <2>2
<1>5. p \in Seq(Nat) /\ Len(p) = h.len /\ \A i \in 1 .. h.len : p[i] = buf[i]
  <2> DEFINE l == h.len
  <2>1. l \in Nat /\ l <= Len(buf)
    BY <1>3
  <2> HIDE DEF l, m
  <2>2. /\ SubSeq(buf, 1, l) \in Seq(Nat) /\ Len(SubSeq(buf, 1, l)) = l
        /\ \A i \in 1 .. l : SubSeq(buf, 1, l)[i] = buf[i]
    BY ONLY <2>1, buf \in Seq(Nat)
  <2> QED
    BY <2>2 DEF l
<1>6. \A i \in 1 .. h.len : buf[i] = m.payload[i]
  <2> HIDE DEF m
  <2> SUFFICES ASSUME NEW i \in 1 .. h.len PROVE buf[i] = m.payload[i]
    OBVIOUS
  <2>1. i \in 1 .. Len(buf) /\ 3 + i \in 1 .. FrameLen(m) /\ pos[k + 1] + (3 + i) = r + i
    <3>1. i \in Nat /\ 1 <= i /\ i <= h.len
      BY <1>3
    <3>2. h.len \in Nat /\ h.len <= Len(buf) /\ Len(buf) \in Nat /\ FrameLen(m) = 3 + h.len
      BY <1>2, <1>3
    <3> DEFINE c == pos[k + 1]
    <3>3. r = c + 3 /\ c \in Nat /\ r \in Nat
      BY <1>2
    <3> HIDE DEF c
    <3>4. i \in 1 .. Len(buf) /\ 3 + i \in 1 .. FrameLen(m)
      BY ONLY <3>1, <3>2
    <3>5. c + (3 + i) = r + i
      BY ONLY <3>1, <3>3
    <3> QED
      BY <3>4, <3>5 DEF c
  <2>2. buf[i] = W[r + i]
    BY <1>1, <2>1 DEF Window
  <2> QED
    BY <1>3, <1>4, <2>1, <2>2
<1>7. p = m.payload
  <2> HIDE DEF m, p
  <2>1. Len(p) = Len(m.payload) /\ \A i \in 1 .. Len(p) : p[i] = m.payload[i]
    BY <1>3, <1>5, <1>6
  <2>2. p \in Seq(Nat) /\ m.payload \in Seq(Nat)
    BY <1>3, <1>5
  <2> QED
    BY ONLY <2>1, <2>2, SeqEqual
<1>8. MessageOf(h, p) = m
  BY <1>2, <1>3, <1>7 DEF MessageOf, Message
<1>9. Position(msgs, pos, k + 1, "header", g, r + h.len)
  <2> HIDE DEF m, p
  <2>1. r + h.len = pos[(k + 1) + 1]
    <3> DEFINE c == pos[k + 1]
               l == h.len
    <3>1. /\ r = c + 3 /\ c \in Nat /\ l \in Nat /\ r \in Nat
          /\ pos[k + 2] = c + (3 + l)
      BY <1>2, <1>3, <1>4
    <3> HIDE DEF c, l
    <3>2. c + (3 + l) = r + l
      BY ONLY <3>1
    <3>3. k + 2 = (k + 1) + 1
      OBVIOUS
    <3> QED
      BY <3>1, <3>2, <3>3 DEF l
  <2>2. k + 1 \in 0 .. Len(msgs)
    BY <1>2
  <2> QED
    BY ONLY <2>1, <2>2 DEF Position
<1> DEFINE b == SubSeq(buf, h.len + 1, Len(buf))
<1>10. Window(W, r + h.len, b) /\ (state = "whole" => Ending(W, r + h.len, b, rest))
  <2>1. h.len \in 0 .. Len(buf)
    BY <1>2, <1>3
  <2>2. W \in Seq(Nat)
    BY <1>2
  <2> QED
    BY ONLY <1>1, <2>1, <2>2, WindowShift, buf \in Seq(Nat), rest \in Seq(Nat)
<1> QED
  BY <1>1, <1>2, <1>7, <1>8, <1>9, <1>10 DEF Pipe

\* The writer of a pipe is gone.
LEMMA PipeEnds ==
  ASSUME NEW msgs, NEW k, NEW place, NEW h, NEW buf, NEW rest, NEW state,
         Pipe(msgs, k, place, h, buf, rest, state), NEW other
  PROVE  Pipe(msgs, k, place, h, buf, other, "cut")
BY DEF Pipe

LEMMA PipeCut ==
  ASSUME NEW msgs, NEW k, NEW place, NEW h, NEW buf \in Seq(Nat), NEW rest, NEW state,
         NEW n \in 0 .. Len(buf), Pipe(msgs, k, place, h, buf, rest, state), NEW other
  PROVE  Pipe(msgs, k, place, h, SubSeq(buf, 1, n), other, "cut")
<1>1. PICK W, pos, r : /\ Layout(msgs, W, pos) /\ Position(msgs, pos, k, place, h, r)
                       /\ Window(W, r, buf)
  BY DEF Pipe
<1> DEFINE b == SubSeq(buf, 1, n)
<1>2. Len(b) = n /\ n \in Nat /\ n <= Len(buf) /\ \A i \in 1 .. n : b[i] = buf[i]
  OBVIOUS
<1>3. Window(W, r, b)
  <2> HIDE DEF b
  <2>1. W \in Seq(Nat) /\ r \in Nat /\ r + Len(buf) <= Len(W)
    BY <1>1 DEF Layout, Window
  <2>2. Len(W) \in Nat /\ Len(buf) \in Nat
    BY <2>1
  <2>3. \A i \in 1 .. Len(buf) : buf[i] = W[r + i]
    BY <1>1 DEF Window
  <2>4. r + Len(b) <= Len(W)
    BY <1>2, <2>1, <2>2
  <2>5. \A i \in 1 .. Len(b) : b[i] = W[r + i]
    BY <1>2, <2>2, <2>3
  <2> QED
    BY ONLY <2>1, <2>4, <2>5 DEF Window
<1> QED
  BY <1>1, <1>3 DEF Pipe

-----------------------------------------------------------------------------
(* The list of a subscription.                                               *)

Control(ids) == [type |-> 0, chan |-> 0, payload |-> Pack(ids)]
Elements(ids) == {ids[i] : i \in 1 .. Len(ids)}
Ids == 0 .. Base * Base - 1

LEMMA PackType ==
  ASSUME NEW ids \in Seq(Ids)
  PROVE  /\ Pack(ids) \in Seq(Nat) /\ Len(Pack(ids)) = IdSize * Len(ids)
         /\ Control(ids) \in Message
<1> DEFINE n == Len(ids)
<1>1. n \in Nat /\ 2 * n \in Nat /\ IdSize = 2 /\ Base = 2
  BY DEF IdSize, Base
<1>2. ASSUME NEW id \in Ids
      PROVE  IdBytes(id)[1] \in Nat /\ IdBytes(id)[2] \in Nat
  BY DEF IdBytes, Ids, Base
<1>3. ASSUME NEW i \in 1 .. 2 * n
      PROVE  IdBytes(ids[1 + (i - 1) \div 2])[1 + ((i - 1) % 2)] \in Nat
  <2>1. 1 + (i - 1) \div 2 \in 1 .. n
    BY <1>1
  <2>2. 1 + ((i - 1) % 2) \in {1, 2}
    BY <1>1
  <2>3. ids[1 + (i - 1) \div 2] \in Ids
    BY <2>1
  <2> QED
    BY <1>2, <2>2, <2>3
<1>4. Pack(ids) \in [1 .. 2 * n -> Nat]
  BY <1>1, <1>3 DEF Pack
<1>5. Pack(ids) \in Seq(Nat) /\ Len(Pack(ids)) = 2 * n
  BY <1>1, <1>4
<1> QED
  BY <1>1, <1>5 DEF Control, Message

\* What the bus reads from a subscription is what the client put into it.
LEMMA PackedIds ==
  ASSUME NEW ids \in Seq(Ids)
  PROVE  ChannelIds(Pack(ids)) = Elements(ids)
<1> DEFINE n == Len(ids)
           p == Pack(ids)
<1>1. n \in Nat /\ IdSize = 2 /\ Base = 2
  BY DEF IdSize, Base
<1>2. Len(p) \div 2 = n
  BY <1>1, PackType
<1>3. ASSUME NEW k \in 1 .. n
      PROVE  p[2 * k - 1] + p[2 * k] * 2 = ids[k]
  <2>1. /\ 2 * k - 1 \in 1 .. 2 * n /\ 2 * k \in 1 .. 2 * n
    BY <1>1
  <2>2. /\ 1 + (2 * k - 1 - 1) \div 2 = k /\ 1 + ((2 * k - 1 - 1) % 2) = 1
        /\ 1 + (2 * k - 1) \div 2 = k /\ 1 + ((2 * k - 1) % 2) = 2
    BY <1>1
  <2>3. p[2 * k - 1] = IdBytes(ids[k])[1] /\ p[2 * k] = IdBytes(ids[k])[2]
    BY <1>1, <2>1, <2>2 DEF Pack
  <2>4. ids[k] \in Ids
    OBVIOUS
  <2> HIDE DEF p
  <2>5. IdBytes(ids[k])[1] = ids[k] % 2 /\ IdBytes(ids[k])[2] = ids[k] \div 2
    BY <1>1 DEF IdBytes
  <2>6. (ids[k] % 2) + (ids[k] \div 2) * 2 = ids[k]
    BY <2>4 DEF Ids, Base
  <2> QED
    BY <2>3, <2>5, <2>6
<1>4. ChannelIds(p) = {p[2 * k - 1] + p[2 * k] * 2 : k \in 1 .. n}
  BY <1>1, <1>2 DEF ChannelIds
<1> HIDE DEF p
<1>5. ChannelIds(p) = {ids[k] : k \in 1 .. n}
  BY <1>3, <1>4
<1> QED
  BY <1>5 DEF Elements, p

-----------------------------------------------------------------------------
(* The type invariant.                                                       *)

\* A stream's part, and a header and a payload that are read from it.
LEMMA PartType ==
  ASSUME NEW s \in Seq(Nat), NEW n \in 0 .. Len(s)
  PROVE  /\ SubSeq(s, 1, n) \in Seq(Nat) /\ Len(SubSeq(s, 1, n)) = n
         /\ SubSeq(s, n + 1, Len(s)) \in Seq(Nat)
<1>1. Len(s) \in Nat /\ n \in Nat /\ n <= Len(s)
  OBVIOUS
<1>2. SubSeq(s, 1, n) \in Seq(Nat) /\ Len(SubSeq(s, 1, n)) = n
  BY <1>1
<1>3. SubSeq(s, n + 1, Len(s)) \in Seq(Nat)
  BY <1>1
<1> QED
  BY <1>2, <1>3

LEMMA HeaderType ==
  ASSUME NEW s \in Seq(Nat), Len(s) >= HeaderSize
  PROVE  FromBytes(s) \in Header /\ HeaderSize \in 0 .. Len(s)
<1>1. s[1] \in Nat /\ s[2] \in Nat /\ s[3] \in Nat
  BY DEF HeaderSize
<1>2. HeaderSize \in 0 .. Len(s)
  BY DEF HeaderSize
<1> QED
  BY <1>1, <1>2 DEF FromBytes, Header

LEMMA MessageType ==
  ASSUME NEW h \in Header, NEW p \in Seq(Nat)
  PROVE  MessageOf(h, p) \in Message
BY DEF Header, MessageOf, Message

LEMMA ChannelsType ==
  ASSUME NEW p \in Seq(Nat)
  PROVE  ChannelIds(p) \in SUBSET Nat
<1>1. Len(p) \in Nat /\ IdSize = 2 /\ Base = 2
  BY DEF IdSize, Base
<1>2. ASSUME NEW k \in 1 .. Len(p) \div 2
      PROVE  p[2 * k - 1] + p[2 * k] * 2 \in Nat
  <2>1. 2 * k - 1 \in 1 .. Len(p) /\ 2 * k \in 1 .. Len(p)
    BY <1>1
  <2> QED
    BY <2>1
<1> QED
  BY <1>1, <1>2 DEF ChannelIds

LEMMA MessagesType == \A m \in Messages : m \in Message
BY ConnectionAssumption DEF Message

\* What is written is a frame of numbers.
LEMMA FrameNat == \A m \in Message : Frame(m) \in Seq(Nat) /\ Frame(m) # <<>>
<1> SUFFICES ASSUME NEW m \in Message PROVE Frame(m) \in Seq(Nat) /\ Frame(m) # <<>>
  OBVIOUS
<1>1. Frame(m) \in Seq(Nat) /\ Len(Frame(m)) = 3 + Len(m.payload) /\ Len(m.payload) \in Nat
  BY FrameType DEF FrameLen, HeaderSize
<1>2. Len(Frame(m)) # 0
  BY <1>1
<1> QED
  BY <1>1, <1>2

TypeInv ==
  /\ c_pc \in {"new", "publisher", "next_header", "next_payload", "closed"}
  /\ link \in {"open", "fin", "reset"}
  /\ b_pc \in {"first", "channels", "header", "payload", "recv", "write", "closed", "stopped"}
  /\ out \in Seq(Nat) /\ up \in Seq(Nat) /\ down \in Seq(Nat) /\ b_out \in Seq(Nat)
  /\ asked \in Seq(Ids)
  /\ sent \in Seq(Message) /\ published \in Seq(Message)
  /\ delivered \in Seq(Message) /\ received \in Seq(Message)
  /\ hdr \in Header /\ c_hdr \in Header
  /\ filter \in Seq(SUBSET Nat)
  /\ b_pc = "write" <=> b_out # <<>>

Bounded ==
  /\ b_pc = "payload" => hdr.len <= PayloadCap
  /\ b_pc = "channels" => hdr.len <= FilterCap

Registered ==
  Len(filter) = IF b_pc \in {"recv", "write"} \/ (b_pc = "stopped" /\ filter # <<>>)
                THEN 1 ELSE 0

LEMMA TypeParts == TypeInv /\ Bounded /\ Registered => TypeOK
BY DEF TypeOK, TypeInv, Bounded, Registered, Ids

\* What a read of the bus thread takes and leaves.
LEMMA TakenType ==
  ASSUME TypeInv, Available
  PROVE  /\ Needed \in 0 .. Len(up)
         /\ Taken \in Seq(Nat) /\ Rest \in Seq(Nat) /\ ChannelIds(Taken) \in SUBSET Nat
         /\ b_pc \in {"first", "header"} => FromBytes(up) \in Header
<1>1. up \in Seq(Nat) /\ hdr \in Header /\ Len(up) >= Needed
  BY DEF TypeInv, Available
<1>2. hdr.len \in Nat /\ HeaderSize \in Nat /\ Len(up) \in Nat
  BY <1>1 DEF Header, HeaderSize
<1>3. Needed \in 0 .. Len(up)
  BY <1>1, <1>2 DEF Needed
<1>4. Taken \in Seq(Nat) /\ Rest \in Seq(Nat)
  BY <1>1, <1>3, PartType DEF Taken, Rest
<1>5. ASSUME b_pc \in {"first", "header"} PROVE FromBytes(up) \in Header
  BY <1>1, <1>5, HeaderType DEF Needed
<1> QED
  BY <1>3, <1>4, <1>5, ChannelsType

LEMMA TypeStep == TypeInv /\ [Next]_vars => TypeInv'
<1> SUFFICES ASSUME TypeInv, [Next]_vars PROVE TypeInv'
  OBVIOUS
<1>1. ASSUME NEW m \in Messages, PublishRaw(m) PROVE TypeInv'
  <2>1. m \in Message /\ Frame(m) \in Seq(Nat) /\ Frame(m) # <<>>
    BY MessagesType, FrameNat
  <2>2. Append(sent, m) \in Seq(Message)
    BY <2>1 DEF TypeInv
  <2> QED
    BY <1>1, <2>1, <2>2 DEF PublishRaw, TypeInv, busVars
<1>2. ASSUME NEW m \in Messages, Recv(m) PROVE TypeInv'
  <2>1. m \in Message /\ Frame(m) \in Seq(Nat) /\ Frame(m) # <<>>
    BY MessagesType, FrameNat
  <2>2. Append(delivered, m) \in Seq(Message)
    BY <2>1 DEF TypeInv
  <2> QED
    BY <1>2, <2>1, <2>2 DEF Recv, TypeInv, clientVars
<1>3. ASSUME NEW ids \in Requests, ConnectFiltered(ids) PROVE TypeInv'
  <2>1. ids \in Seq(Ids)
    BY ConnectionAssumption DEF Ids
  <2>2. Frame(Control(ids)) \in Seq(Nat)
    BY <2>1, PackType, FrameNat
  <2>3. out' = Frame(Control(ids)) /\ asked' = ids
    BY <1>3 DEF ConnectFiltered, Control
  <2> QED
    BY <1>3, <2>1, <2>2, <2>3 DEF ConnectFiltered, TypeInv, busVars
<1>4. CASE Transmit
  <2>1. Append(up, Head(out)) \in Seq(Nat) /\ Tail(out) \in Seq(Nat)
    BY <1>4 DEF Transmit, TypeInv
  <2> QED
    BY <1>4, <2>1 DEF Transmit, TypeInv, busVars
<1>5. CASE NextHeader
  <2>1. FromBytes(down) \in Header /\ SubSeq(down, HeaderSize + 1, Len(down)) \in Seq(Nat)
    BY <1>5, HeaderType, PartType DEF NextHeader, TypeInv
  <2> QED
    BY <1>5, <2>1 DEF NextHeader, TypeInv, busVars
<1>6. CASE NextPayload
  <2>1. PayloadLen \in 0 .. Len(down)
    <3>1. c_hdr.len \in Nat /\ Len(down) \in Nat
      BY DEF TypeInv, Header
    <3> QED
      BY <1>6, <3>1 DEF NextPayload, PayloadLen
  <2>2. /\ SubSeq(down, 1, PayloadLen) \in Seq(Nat)
        /\ SubSeq(down, PayloadLen + 1, Len(down)) \in Seq(Nat)
    BY <2>1, PartType DEF TypeInv
  <2>3. MessageOf(c_hdr, SubSeq(down, 1, PayloadLen)) \in Message
    BY <2>2, MessageType DEF TypeInv
  <2>4. Append(received, MessageOf(c_hdr, SubSeq(down, 1, PayloadLen))) \in Seq(Message)
    BY <2>3 DEF TypeInv
  <2> QED
    BY <1>6, <2>2, <2>4 DEF NextPayload, TypeInv, busVars
<1>7. CASE NextFails
  BY <1>7 DEF NextFails, TypeInv, busVars
<1>8. CASE WriteFails
  BY <1>8 DEF WriteFails, TypeInv, busVars
<1>9. CASE Close
  BY <1>9 DEF Close, TypeInv, busVars
<1>10. CASE Reset
  <2>1. \A k \in 0 .. Len(up) : SubSeq(up, 1, k) \in Seq(Nat)
    BY PartType DEF TypeInv
  <2>2. up' \in Seq(Nat)
    BY <1>10, <2>1 DEF Reset
  <2> QED
    BY <1>10, <2>2 DEF Reset, TypeInv, busVars
<1>11. CASE SubscribeHeader
  BY <1>11, TakenType DEF SubscribeHeader, TypeInv, clientVars
<1>12. CASE ReadChannels
  <2>1. <<ChannelIds(Taken)>> \in Seq(SUBSET Nat) /\ Rest \in Seq(Nat)
    BY <1>12, TakenType DEF ReadChannels
  <2> QED
    BY <1>12, <2>1 DEF ReadChannels, TypeInv, clientVars
<1>13. CASE MessageHeader
  BY <1>13, TakenType DEF MessageHeader, AtMessage, TypeInv, clientVars
<1>14. CASE ReadPayload
  <2>1. Append(published, MessageOf(hdr, Taken)) \in Seq(Message) /\ Rest \in Seq(Nat)
    BY <1>14, TakenType, MessageType DEF ReadPayload, TypeInv
  <2> QED
    BY <1>14, <2>1 DEF ReadPayload, TypeInv, clientVars
<1>15. CASE TooLarge
  <2>1. b_pc # "write"
    BY <1>15 DEF TooLarge, Available, Reading
  <2> QED
    BY <1>15, <2>1, TakenType DEF TooLarge, Refused, TypeInv, clientVars
<1>16. CASE Disconnected
  <2>1. b_pc # "write"
    BY <1>16 DEF Disconnected, Reading
  <2> QED
    <3>1. /\ b_pc' = "closed"
          /\ UNCHANGED <<c_pc, out, c_hdr, sent, asked, received, hdr, filter, b_out,
                         published, delivered, link, up, down>>
      BY <1>16 DEF Disconnected, clientVars
    <3> QED
      BY <2>1, <3>1 DEF TypeInv
<1>17. CASE WriteFrame
  <2>1. Append(down, Head(b_out)) \in Seq(Nat) /\ Tail(b_out) \in Seq(Nat)
    <3>1. down \in Seq(Nat) /\ b_out \in Seq(Nat) /\ b_out # <<>>
      BY <1>17 DEF WriteFrame, TypeInv
    <3> QED
      BY ONLY <3>1
  <2> QED
    BY <1>17, <2>1 DEF WriteFrame, TypeInv, clientVars
<1>18. CASE WriteError
  BY <1>18 DEF WriteError, TypeInv, clientVars
<1>19. CASE BusStops
  <2>1. \A k \in 0 .. Len(down) : SubSeq(down, 1, k) \in Seq(Nat)
    BY PartType DEF TypeInv
  <2>2. down' \in Seq(Nat)
    BY <1>19, <2>1 DEF BusStops
  <2> QED
    BY <1>19, <2>2 DEF BusStops, TypeInv, clientVars
<1>20. CASE UNCHANGED vars
  BY <1>20 DEF vars, clientVars, busVars, TypeInv
<1> QED
  BY <1>1, <1>2, <1>3, <1>4, <1>5, <1>6, <1>7, <1>8, <1>9, <1>10, <1>11, <1>12, <1>13,
     <1>14, <1>15, <1>16, <1>17, <1>18, <1>19, <1>20 DEF Next, Client, Handle

LEMMA TypeInit == Init => TypeInv
BY ConnectionAssumption DEF Init, TypeInv, NoHeader, Header

\* The payload that the thread is about to read fits the buffer it slices.
LEMMA BoundedStep == TypeInv /\ Bounded /\ [Next]_vars => Bounded'
<1> SUFFICES ASSUME TypeInv, Bounded, [Next]_vars PROVE Bounded'
  OBVIOUS
<1>1. ASSUME NEW m \in Messages, PublishRaw(m) PROVE Bounded'
  BY <1>1 DEF PublishRaw, Bounded, busVars
<1>2. ASSUME NEW m \in Messages, Recv(m) PROVE Bounded'
  BY <1>2 DEF Recv, Bounded
<1>3. ASSUME NEW ids \in Requests, ConnectFiltered(ids) PROVE Bounded'
  BY <1>3 DEF ConnectFiltered, Bounded, busVars
<1>4. CASE Client \/ WriteFails \/ Close \/ Reset
  BY <1>4 DEF Client, Transmit, NextHeader, NextPayload, NextFails, WriteFails, Close, Reset,
              Bounded, busVars
<1>5. CASE SubscribeHeader
  BY <1>5 DEF SubscribeHeader, Bounded
<1>6. CASE MessageHeader
  BY <1>6 DEF MessageHeader, Fits, Bounded
<1>7. CASE ReadChannels \/ ReadPayload \/ TooLarge \/ Disconnected \/ WriteFrame
  BY <1>7 DEF ReadChannels, ReadPayload, TooLarge, Refused, Disconnected, WriteFrame, Bounded
<1>8. CASE WriteError \/ BusStops
  BY <1>8 DEF WriteError, BusStops, Bounded
<1>9. CASE UNCHANGED vars
  BY <1>9 DEF vars, busVars, Bounded
<1> QED
  BY <1>1, <1>2, <1>3, <1>4, <1>5, <1>6, <1>7, <1>8, <1>9 DEF Next, Handle

\* The entry in the registry is there while the subscriber's thread runs.
LEMMA RegisteredStep == TypeInv /\ Registered /\ [Next]_vars => Registered'
<1> SUFFICES ASSUME TypeInv, Registered, [Next]_vars PROVE Registered'
  OBVIOUS
<1>1. filter # <<>> => Len(filter) # 0
  BY DEF TypeInv
<1>2. ASSUME NEW m \in Messages, PublishRaw(m) PROVE Registered'
  BY <1>2 DEF PublishRaw, Registered, busVars
<1>3. ASSUME NEW m \in Messages, Recv(m) PROVE Registered'
  BY <1>3 DEF Recv, Registered
<1>4. ASSUME NEW ids \in Requests, ConnectFiltered(ids) PROVE Registered'
  BY <1>4 DEF ConnectFiltered, Registered, busVars
<1>5. CASE Client \/ WriteFails \/ Close \/ Reset
  BY <1>5 DEF Client, Transmit, NextHeader, NextPayload, NextFails, WriteFails, Close, Reset,
              Registered, busVars
<1>6. CASE SubscribeHeader \/ MessageHeader \/ TooLarge \/ Disconnected \/ ReadPayload
  <2>1. /\ Reading /\ filter' = filter
        /\ b_pc' \in {"channels", "payload", "closed", "header"}
    BY <1>6 DEF SubscribeHeader, MessageHeader, AtMessage, TooLarge, Refused, Disconnected,
                ReadPayload, Available
  <2> QED
    BY <2>1 DEF Reading, Registered
<1>7. CASE ReadChannels
  <2>1. Len(filter') = 1 /\ b_pc' = "recv"
    BY <1>7 DEF ReadChannels
  <2> QED
    BY <2>1 DEF Registered
<1>8. CASE WriteFrame
  BY <1>8 DEF WriteFrame, Registered
<1>9. CASE WriteError
  BY <1>9 DEF WriteError, Registered
<1>10. CASE BusStops
  BY <1>1, <1>10 DEF BusStops, Registered
<1>11. CASE UNCHANGED vars
  BY <1>11 DEF vars, busVars, Registered
<1> QED
  BY <1>2, <1>3, <1>4, <1>5, <1>6, <1>7, <1>8, <1>9, <1>10, <1>11 DEF Next, Handle

Typed == TypeInv /\ Bounded /\ Registered

LEMMA AlwaysTyped == Spec => []Typed
<1>1. Init => Typed
  BY TypeInit DEF Init, Typed, Bounded, Registered
<1>2. Typed /\ [Next]_vars => Typed'
  BY TypeStep, BoundedStep, RegisteredStep DEF Typed
<1> QED
  BY <1>1, <1>2, PTL DEF Spec

\* Whatever a client sends, the bus thread's state is well formed, and it has room
\* for the payload that it reads next (handle_connection(), run_publisher()).
THEOREM TypeCorrect == Spec => []TypeOK
BY AlwaysTyped, TypeParts, PTL DEF Typed

-----------------------------------------------------------------------------
(* The two directions.                                                       *)

\* Before the client's first call nothing happens, unless the bus stops.
Fresh ==
  c_pc = "new" =>
    /\ sent = <<>> /\ asked = <<>> /\ delivered = <<>> /\ received = <<>>
    /\ published = <<>> /\ filter = <<>>
    /\ out = <<>> /\ up = <<>> /\ down = <<>> /\ b_out = <<>>
    /\ link = "open" /\ b_pc \in {"first", "stopped"}

\* Which places of the two programs go with which history.
Places ==
  /\ link = "reset" => c_pc = "closed" /\ out = <<>>
  /\ b_pc \in {"first", "channels"} => published = <<>>
  /\ b_pc = "header" => published # <<>>
  /\ c_pc = "publisher" => sent # <<>>

Place == IF b_pc \in {"channels", "payload"} THEN "payload" ELSE "header"

UpPipe(msgs) ==
  Pipe(msgs, Len(published), Place, hdr, up, out, IF link = "reset" THEN "cut" ELSE "whole")

\* While it reads, the bus thread is in step with what the client wrote: the messages of
\* a publisher, or the one control message of a subscriber.
AsPublisher ==
  /\ asked = <<>> /\ c_pc \notin {"next_header", "next_payload"}
  /\ Reading => UpPipe(sent)
AsSubscriber ==
  /\ sent = <<>> /\ published = <<>>
  /\ c_pc \notin {"new", "publisher"} /\ b_pc \notin {"header", "payload"}
  /\ Reading => UpPipe(<<Control(asked)>>)
Up == AsPublisher \/ AsSubscriber

\* While it reads, the client is in step with what the bus thread wrote.
Down ==
  c_pc \in {"next_header", "next_payload"} =>
    Pipe(delivered, Len(received), IF c_pc = "next_payload" THEN "payload" ELSE "header",
         c_hdr, down, b_out, IF b_pc \in {"closed", "stopped"} THEN "cut" ELSE "whole")

LEMMA FreshStep == TypeInv /\ Fresh /\ [Next]_vars => Fresh'
<1> SUFFICES ASSUME TypeInv, Fresh, [Next]_vars, c_pc' = "new" PROVE Fresh'
  BY DEF Fresh
<1>1. c_pc = "new" /\ (BusStops \/ UNCHANGED vars)
  <2>1. ASSUME NEW m \in Messages, PublishRaw(m) PROVE FALSE
    BY <2>1 DEF PublishRaw
  <2>2. ASSUME NEW m \in Messages, Recv(m) PROVE FALSE
    BY <2>2 DEF Recv, clientVars, Fresh
  <2>3. ASSUME NEW ids \in Requests, ConnectFiltered(ids) PROVE FALSE
    BY <2>3 DEF ConnectFiltered
  <2>4. CASE Client \/ WriteFails \/ Close \/ Reset
    BY <2>4 DEF Client, Transmit, NextHeader, NextPayload, NextFails, WriteFails, Close,
                Reset, Fresh
  <2>5. CASE SubscribeHeader \/ MessageHeader \/ TooLarge \/ ReadChannels \/ ReadPayload
    <3>1. Available /\ c_pc' = c_pc
      BY <2>5 DEF SubscribeHeader, MessageHeader, AtMessage, TooLarge, ReadChannels,
                  ReadPayload, clientVars
    <3>2. up = <<>> /\ b_pc = "first"
      BY <3>1 DEF Fresh, Available, Reading
    <3>3. Len(up) = 0 /\ Needed = 3
      BY <3>2 DEF Needed, HeaderSize
    <3> QED
      BY <3>1, <3>3 DEF Available
  <2>6. CASE Disconnected \/ WriteFrame \/ WriteError
    BY <2>6 DEF Disconnected, WriteFrame, WriteError, clientVars, Fresh
  <2>7. CASE BusStops \/ UNCHANGED vars
    BY <2>7 DEF BusStops, vars, clientVars
  <2> QED
    BY <2>1, <2>2, <2>3, <2>4, <2>5, <2>6, <2>7 DEF Next, Handle
<1>2. CASE BusStops
  <2>1. down' = <<>>
    <3>1. PICK k \in 0 .. Len(down) : down' = SubSeq(down, 1, k)
      BY <1>2 DEF BusStops
    <3>2. down = <<>> /\ Len(down) = 0
      BY <1>1 DEF Fresh
    <3>3. SubSeq(down, 1, k) \in Seq(Nat) /\ Len(SubSeq(down, 1, k)) = 0
      BY <3>2, PartType DEF TypeInv
    <3> QED
      BY <3>1, <3>3
  <2> QED
    BY <1>1, <1>2, <2>1 DEF BusStops, Fresh, clientVars
<1>3. CASE UNCHANGED vars
  BY <1>1, <1>3 DEF vars, clientVars, busVars, Fresh
<1> QED
  BY <1>1, <1>2, <1>3

LEMMA PlacesStep == TypeInv /\ Fresh /\ Places /\ [Next]_vars => Places'
<1> SUFFICES ASSUME TypeInv, Fresh, Places, [Next]_vars PROVE Places'
  OBVIOUS
<1>1. ASSUME NEW m \in Messages, PublishRaw(m) PROVE Places'
  <2>1. Append(sent, m) # <<>>
    <3>1. sent \in Seq(Message) /\ m \in Message
      BY MessagesType DEF TypeInv
    <3> QED
      BY ONLY <3>1, AppendProperties
  <2>2. c_pc # "closed"
    BY <1>1 DEF PublishRaw
  <2> QED
    BY <1>1, <2>1, <2>2 DEF PublishRaw, Places, busVars
<1>2. ASSUME NEW m \in Messages, Recv(m) PROVE Places'
  BY <1>2 DEF Recv, Places, clientVars
<1>3. ASSUME NEW ids \in Requests, ConnectFiltered(ids) PROVE Places'
  BY <1>3 DEF ConnectFiltered, Places, Fresh, busVars
<1>4. CASE Client \/ WriteFails \/ Close \/ Reset
  BY <1>4 DEF Client, Transmit, NextHeader, NextPayload, NextFails, WriteFails, Close, Reset,
              Places, busVars
<1>5. CASE SubscribeHeader \/ MessageHeader \/ TooLarge \/ ReadChannels \/ Disconnected
  BY <1>5 DEF SubscribeHeader, MessageHeader, TooLarge, Refused, ReadChannels, Disconnected,
              Places, clientVars
<1>6. CASE ReadPayload
  <2>1. MessageOf(hdr, Taken) \in Message
    BY <1>6, TakenType, MessageType DEF ReadPayload, TypeInv
  <2>2. Append(published, MessageOf(hdr, Taken)) # <<>>
    <3>1. published \in Seq(Message)
      BY DEF TypeInv
    <3> QED
      BY ONLY <2>1, <3>1, AppendProperties
  <2> QED
    BY <1>6, <2>2 DEF ReadPayload, Places, clientVars
<1>7. CASE WriteFrame \/ WriteError \/ BusStops
  BY <1>7 DEF WriteFrame, WriteError, BusStops, Places, clientVars
<1>8. CASE UNCHANGED vars
  BY <1>8 DEF vars, clientVars, busVars, Places
<1> QED
  BY <1>1, <1>2, <1>3, <1>4, <1>5, <1>6, <1>7, <1>8 DEF Next, Handle

\* The pipe to the bus stays as it is in a step that does not touch it, or after which
\* the thread does not read.
LEMMA UpKept ==
  ASSUME Up, UNCHANGED <<sent, asked, published>>,
         c_pc' = c_pc \/ c_pc' = "closed" \/ (c_pc = "next_header" /\ c_pc' = "next_payload")
                     \/ (c_pc = "next_payload" /\ c_pc' = "next_header"),
         Reading' => UNCHANGED <<b_pc, hdr, up, out, link>>,
         b_pc' \in {"header", "payload"} => b_pc' = b_pc
  PROVE  Up'
<1>1. CASE AsPublisher
  <2>1. Reading' => UpPipe(sent)'
    BY <1>1 DEF AsPublisher, UpPipe, Place, Reading
  <2>2. asked' = <<>> /\ c_pc' \notin {"next_header", "next_payload"}
    BY <1>1 DEF AsPublisher
  <2> QED
    BY <2>1, <2>2 DEF Up, AsPublisher
<1>2. CASE AsSubscriber
  <2>1. Reading' => UpPipe(<<Control(asked)>>)'
    BY <1>2 DEF AsSubscriber, UpPipe, Place, Reading
  <2>2. /\ sent' = <<>> /\ published' = <<>>
        /\ c_pc' \notin {"new", "publisher"} /\ b_pc' \notin {"header", "payload"}
    BY <1>2 DEF AsSubscriber
  <2> QED
    BY <2>1, <2>2 DEF Up, AsSubscriber
<1> QED
  BY <1>1, <1>2 DEF Up

LEMMA UpPublish ==
  ASSUME TypeInv, Fresh, Places, Up, NEW m \in Messages, PublishRaw(m)
  PROVE  Up'
<1>1. AsPublisher
  BY DEF PublishRaw, Up, AsSubscriber
<1>2. /\ sent' = Append(sent, m) /\ out' = Frame(m) /\ out = <<>> /\ c_pc' = "publisher"
      /\ UNCHANGED <<asked, published, b_pc, hdr, up, link>> /\ link # "reset"
  BY DEF PublishRaw, Places, busVars
<1>3. ASSUME Reading PROVE UpPipe(sent)'
  <2>1. Pipe(sent, Len(published), Place, hdr, up, <<>>, "whole")
    BY <1>1, <1>2, <1>3 DEF AsPublisher, UpPipe
  <2>2. /\ m \in Message /\ sent \in Seq(Message) /\ Len(published) \in Nat
        /\ up \in Seq(Nat)
    BY MessagesType DEF TypeInv
  <2>3. Pipe(Append(sent, m), Len(published), Place, hdr, up, Frame(m), "whole")
    BY <2>1, <2>2, PipeSend
  <2> QED
    BY <1>2, <2>3 DEF UpPipe, Place
<1> QED
  BY <1>1, <1>2, <1>3 DEF Up, AsPublisher, Reading

LEMMA UpSubscribe ==
  ASSUME TypeInv, Fresh, Places, Up, NEW ids \in Requests, ConnectFiltered(ids)
  PROVE  Up'
<1>1. /\ sent = <<>> /\ published = <<>> /\ out = <<>> /\ up = <<>> /\ link = "open"
      /\ b_pc \in {"first", "stopped"}
  BY DEF ConnectFiltered, Fresh
<1>2. /\ UNCHANGED <<sent, published, b_pc, hdr, up, link>> /\ asked' = ids
      /\ out' = Frame(Control(ids)) /\ c_pc' = "next_header"
  BY DEF ConnectFiltered, Control, busVars
<1>3. ASSUME Reading PROVE UpPipe(<<Control(asked)>>)'
  <2>1. Pipe(<<>>, 0, "header", hdr, <<>>, <<>>, "whole")
    BY PipeEmpty
  <2>2. Control(ids) \in Message
    BY ConnectionAssumption, PackType DEF Ids
  <2>3. Pipe(Append(<<>>, Control(ids)), 0, "header", hdr, <<>>, Frame(Control(ids)), "whole")
    <3>1. <<>> \in Seq(Message) /\ <<>> \in Seq(Nat) /\ 0 \in Nat
      OBVIOUS
    <3> QED
      BY ONLY <2>1, <2>2, <3>1, PipeSend
  <2>4. Append(<<>>, Control(ids)) = <<Control(ids)>>
    BY <2>2
  <2>5. Place = "header" /\ Len(published) = 0
    BY <1>1, <1>3 DEF Place, Reading
  <2>6. Place' = "header" /\ Len(published') = 0
    BY <1>2, <2>5 DEF Place
  <2> QED
    BY <1>1, <1>2, <2>3, <2>4, <2>6 DEF UpPipe
<1>4. c_pc' \notin {"new", "publisher"} /\ b_pc' \notin {"header", "payload"}
  BY <1>1, <1>2
<1> QED
  BY <1>1, <1>2, <1>3, <1>4 DEF Up, AsSubscriber, Reading

\* A step of a pipe to the bus that leaves both histories alone.
LEMMA UpMoves ==
  ASSUME TypeInv, Up, UNCHANGED <<sent, asked, published>>,
         c_pc' = c_pc \/ c_pc' = "closed",
         b_pc' \in {"header", "payload"} => b_pc' = b_pc \/ AsPublisher,
         Reading,
         \A msgs \in Seq(Message) : UpPipe(msgs) => UpPipe(msgs)'
  PROVE  Up'
<1>1. CASE AsPublisher
  BY <1>1 DEF TypeInv, AsPublisher, Up
<1>2. CASE AsSubscriber /\ ~AsPublisher
  <2>1. <<Control(asked)>> \in Seq(Message)
    BY PackType DEF TypeInv
  <2> QED
    BY <1>2, <2>1 DEF AsSubscriber, Up
<1> QED
  BY <1>1, <1>2 DEF Up

LEMMA UpTransmit ==
  ASSUME TypeInv, Places, Up, Transmit
  PROVE  Up'
<1>1. /\ out # <<>> /\ up' = Append(up, Head(out)) /\ out' = Tail(out)
      /\ UNCHANGED <<sent, asked, published, c_pc, b_pc, hdr, link>> /\ link # "reset"
  BY DEF Transmit, Places, busVars
<1>2. CASE ~Reading
  BY <1>1, <1>2, UpKept DEF Reading
<1>3. CASE Reading
  <2>1. ASSUME NEW msgs \in Seq(Message), UpPipe(msgs) PROVE UpPipe(msgs)'
    <3>1. Pipe(msgs, Len(published), Place, hdr, up, out, "whole")
      BY <1>1, <2>1 DEF UpPipe
    <3>2. up \in Seq(Nat) /\ out \in Seq(Nat) /\ Len(published) \in Nat
      BY DEF TypeInv
    <3>3. Pipe(msgs, Len(published), Place, hdr, Append(up, Head(out)), Tail(out), "whole")
      BY <1>1, <3>1, <3>2, PipeTransmit
    <3> QED
      BY <1>1, <3>3 DEF UpPipe, Place
  <2> QED
    BY <1>1, <1>3, <2>1, UpMoves
<1> QED
  BY <1>2, <1>3

LEMMA UpClose ==
  ASSUME TypeInv, Places, Up, Close
  PROVE  Up'
<1>1. /\ c_pc' = "closed" /\ link' = "fin" /\ link # "reset"
      /\ UNCHANGED <<sent, asked, published, b_pc, hdr, up, out>>
  BY DEF Close, Places, busVars
<1>2. CASE ~Reading
  BY <1>1, <1>2, UpKept DEF Reading
<1>3. CASE Reading
  <2>1. ASSUME NEW msgs \in Seq(Message), UpPipe(msgs) PROVE UpPipe(msgs)'
    BY <1>1, <2>1 DEF UpPipe, Place
  <2> QED
    BY <1>1, <1>3, <2>1, UpMoves
<1> QED
  BY <1>2, <1>3

LEMMA UpReset ==
  ASSUME TypeInv, Up, Reset
  PROVE  Up'
<1>1. /\ c_pc' = "closed" /\ link' = "reset"
      /\ UNCHANGED <<sent, asked, published, b_pc, hdr>>
  BY DEF Reset, busVars
<1>2. CASE ~Reading
  BY <1>1, <1>2, UpKept DEF Reading
<1>3. CASE Reading
  <2>1. PICK n \in 0 .. Len(up) : up' = SubSeq(up, 1, n)
    BY DEF Reset
  <2>2. ASSUME NEW msgs \in Seq(Message), UpPipe(msgs) PROVE UpPipe(msgs)'
    <3>1. up \in Seq(Nat)
      BY DEF TypeInv
    <3>2. Pipe(msgs, Len(published), Place, hdr, SubSeq(up, 1, n), out', "cut")
      BY <2>2, <3>1, PipeCut DEF UpPipe
    <3> QED
      BY <1>1, <2>1, <3>2 DEF UpPipe, Place
  <2> QED
    BY <1>1, <1>3, <2>2, UpMoves
<1> QED
  BY <1>2, <1>3

\* The bus thread reads a header in step: the one the client wrote next.
LEMMA UpHeader ==
  ASSUME TypeInv, NEW msgs \in Seq(Message), UpPipe(msgs), Available,
         b_pc \in {"first", "header"},
         hdr' = FromBytes(up), up' = Rest, b_pc' \in {"channels", "payload"},
         UNCHANGED <<published, out, link>>
  PROVE  UpPipe(msgs)'
<1> DEFINE state == IF link = "reset" THEN "cut" ELSE "whole"
<1>1. Pipe(msgs, Len(published), "header", hdr, up, out, state)
  BY DEF UpPipe, Place
<1>2. /\ Len(published) \in Nat /\ up \in Seq(Nat) /\ out \in Seq(Nat) /\ Len(up) >= HeaderSize
      /\ Rest = SubSeq(up, HeaderSize + 1, Len(up))
  <2>1. Len(published) \in Nat /\ up \in Seq(Nat) /\ out \in Seq(Nat)
    BY DEF TypeInv
  <2>2. Needed = HeaderSize
    BY DEF Needed
  <2> QED
    BY <2>1, <2>2 DEF Available, Rest
<1> HIDE DEF state
<1>3. Pipe(msgs, Len(published), "payload", FromBytes(up), Rest, out, state)
  BY <1>1, <1>2, PipeHeader
<1>4. Pipe(msgs, Len(published'), "payload", hdr', up', out', state)
  BY <1>3
<1> QED
  BY <1>4 DEF UpPipe, Place, state

\* And what it reads is the header of a message that was written.
LEMMA HeaderInStep ==
  ASSUME TypeInv, NEW msgs \in Seq(Message), UpPipe(msgs), Available,
         b_pc \in {"first", "header"}
  PROVE  /\ Len(published) < Len(msgs) /\ Len(published) + 1 \in 1 .. Len(msgs)
         /\ FromBytes(up) = HeaderOf(msgs[Len(published) + 1])
<1> DEFINE state == IF link = "reset" THEN "cut" ELSE "whole"
<1>1. Pipe(msgs, Len(published), "header", hdr, up, out, state)
  BY DEF UpPipe, Place
<1>2. /\ Len(published) \in Nat /\ up \in Seq(Nat) /\ out \in Seq(Nat) /\ Len(up) >= HeaderSize
  BY DEF TypeInv, Available, Needed
<1> HIDE DEF state
<1> QED
  BY <1>1, <1>2, PipeHeader

LEMMA UpSubscribeHeader ==
  ASSUME TypeInv, Up, SubscribeHeader
  PROVE  Up'
<1>1. /\ b_pc = "first" /\ Available /\ hdr' = FromBytes(up) /\ up' = Rest /\ b_pc' = "channels"
      /\ UNCHANGED <<sent, asked, published, c_pc, out, link>>
  BY DEF SubscribeHeader, clientVars
<1>2. \A msgs \in Seq(Message) : UpPipe(msgs) => UpPipe(msgs)'
  BY <1>1, UpHeader
<1> QED
  BY <1>1, <1>2, UpMoves DEF Reading

\* The control message of a subscriber has type 0, so that its connection is one.
LEMMA SubscriberFirst ==
  ASSUME TypeInv, AsSubscriber, Available, b_pc \in {"first", "header"}
  PROVE  /\ b_pc = "first" /\ FromBytes(up).type = 0
         /\ FromBytes(up).len = IdSize * Len(asked)
<1>1. <<Control(asked)>> \in Seq(Message) /\ Len(Pack(asked)) = IdSize * Len(asked)
  BY PackType DEF TypeInv
<1>2. UpPipe(<<Control(asked)>>) /\ published = <<>>
  BY DEF AsSubscriber, Reading
<1>3. FromBytes(up) = HeaderOf(<<Control(asked)>>[Len(published) + 1])
  BY <1>1, <1>2, HeaderInStep
<1>4. FromBytes(up) = HeaderOf(Control(asked))
  BY <1>2, <1>3
<1>5. b_pc = "first"
  BY DEF AsSubscriber
<1> QED
  BY <1>1, <1>4, <1>5 DEF HeaderOf, Control

LEMMA UpMessageHeader ==
  ASSUME TypeInv, Up, MessageHeader
  PROVE  Up'
<1>1. /\ b_pc \in {"first", "header"} /\ AtMessage /\ Available
      /\ hdr' = FromBytes(up) /\ up' = Rest /\ b_pc' = "payload"
      /\ UNCHANGED <<sent, asked, published, c_pc, out, link>>
  BY DEF MessageHeader, AtMessage, clientVars
<1>2. AsPublisher
  <2>1. ~AsSubscriber
    BY <1>1, SubscriberFirst DEF AtMessage
  <2> QED
    BY <2>1 DEF Up
<1>3. \A msgs \in Seq(Message) : UpPipe(msgs) => UpPipe(msgs)'
  BY <1>1, UpHeader
<1> QED
  BY <1>1, <1>2, <1>3, UpMoves DEF Reading

\* The bus thread publishes the message that the client wrote next.
LEMMA PayloadInStep ==
  ASSUME TypeInv, Up, ReadPayload
  PROVE  /\ AsPublisher /\ Len(published) + 1 \in 1 .. Len(sent)
         /\ published' = Append(published, sent[Len(published) + 1])
         /\ Up'
<1> DEFINE state == IF link = "reset" THEN "cut" ELSE "whole"
<1>1. /\ b_pc = "payload" /\ Available /\ up' = Rest /\ b_pc' = "header"
      /\ published' = Append(published, MessageOf(hdr, Taken))
      /\ UNCHANGED <<sent, asked, c_pc, hdr, out, link>>
  BY DEF ReadPayload, clientVars
<1>2. AsPublisher /\ UpPipe(sent)
  BY <1>1 DEF Up, AsPublisher, AsSubscriber, Reading
<1>3. Pipe(sent, Len(published), "payload", hdr, up, out, state)
  BY <1>1, <1>2 DEF UpPipe, Place
<1>4. /\ Len(published) \in Nat /\ up \in Seq(Nat) /\ out \in Seq(Nat)
      /\ sent \in Seq(Message) /\ published \in Seq(Message)
  BY DEF TypeInv
<1>5. /\ Len(up) >= hdr.len /\ Taken = SubSeq(up, 1, hdr.len)
      /\ Rest = SubSeq(up, hdr.len + 1, Len(up))
  <2>1. Needed = hdr.len
    BY <1>1 DEF Needed
  <2> QED
    BY <1>1, <2>1 DEF Available, Taken, Rest
<1> HIDE DEF state
<1>6. /\ Len(published) + 1 \in 1 .. Len(sent)
      /\ MessageOf(hdr, Taken) = sent[Len(published) + 1]
      /\ Pipe(sent, Len(published) + 1, "header", hdr, Rest, out, state)
  BY <1>3, <1>4, <1>5, PipePayload
<1>7. Len(published') = Len(published) + 1
  <2>1. sent[Len(published) + 1] \in Message
    BY <1>4, <1>6
  <2> QED
    BY <1>1, <1>4, <1>6, <2>1
<1>8. UpPipe(sent)'
  BY <1>1, <1>6, <1>7 DEF UpPipe, Place, state
<1>9. Up'
  BY <1>1, <1>2, <1>8 DEF Up, AsPublisher
<1> QED
  BY <1>1, <1>2, <1>6, <1>9

LEMMA UpStep == TypeInv /\ Fresh /\ Places /\ Up /\ [Next]_vars => Up'
<1> SUFFICES ASSUME TypeInv, Fresh, Places, Up, [Next]_vars PROVE Up'
  OBVIOUS
<1>1. ASSUME NEW m \in Messages, PublishRaw(m) PROVE Up'
  BY <1>1, UpPublish
<1>2. ASSUME NEW m \in Messages, Recv(m) PROVE Up'
  BY <1>2, UpKept DEF Recv, clientVars, Reading
<1>3. ASSUME NEW ids \in Requests, ConnectFiltered(ids) PROVE Up'
  BY <1>3, UpSubscribe
<1>4. CASE Transmit
  BY <1>4, UpTransmit
<1>5. CASE NextHeader
  BY <1>5, UpKept DEF NextHeader, busVars
<1>6. CASE NextPayload
  BY <1>6, UpKept DEF NextPayload, busVars
<1>7. CASE NextFails
  BY <1>7, UpKept DEF NextFails, busVars, Reading
<1>8. CASE WriteFails
  BY <1>8, UpKept DEF WriteFails, busVars, Reading
<1>9. CASE Close
  BY <1>9, UpClose
<1>10. CASE Reset
  BY <1>10, UpReset
<1>11. CASE SubscribeHeader
  BY <1>11, UpSubscribeHeader
<1>12. CASE ReadChannels
  BY <1>12, UpKept DEF ReadChannels, clientVars, Reading
<1>13. CASE MessageHeader
  BY <1>13, UpMessageHeader
<1>14. CASE ReadPayload
  BY <1>14, PayloadInStep
<1>15. CASE TooLarge
  BY <1>15, UpKept DEF TooLarge, Refused, clientVars, Reading
<1>16. CASE Disconnected
  BY <1>16, UpKept DEF Disconnected, clientVars, Reading
<1>17. CASE WriteFrame
  BY <1>17, UpKept DEF WriteFrame, clientVars, Reading
<1>18. CASE WriteError
  BY <1>18, UpKept DEF WriteError, clientVars, Reading
<1>19. CASE BusStops
  BY <1>19, UpKept DEF BusStops, clientVars, Reading
<1>20. CASE UNCHANGED vars
  BY <1>20, UpKept DEF vars, clientVars, busVars
<1> QED
  BY <1>1, <1>2, <1>3, <1>4, <1>5, <1>6, <1>7, <1>8, <1>9, <1>10, <1>11, <1>12, <1>13,
     <1>14, <1>15, <1>16, <1>17, <1>18, <1>19, <1>20 DEF Next, Client, Handle

-----------------------------------------------------------------------------
(* The client's side of a subscription.                                      *)

ReadingFrames == c_pc \in {"next_header", "next_payload"}
NextPlace == IF c_pc = "next_payload" THEN "payload" ELSE "header"

DownPipe(state) == Pipe(delivered, Len(received), NextPlace, c_hdr, down, b_out, state)

Gone == b_pc \in {"closed", "stopped"}

LEMMA DownIs ==
  Down <=> (ReadingFrames => DownPipe(IF Gone THEN "cut" ELSE "whole"))
BY DEF Down, ReadingFrames, NextPlace, DownPipe, Gone

\* The pipe to the client stays as it is in a step after which the client does not read,
\* or that touches nothing of it but perhaps its end.
LEMMA DownKept ==
  ASSUME Down,
         ReadingFrames' => /\ UNCHANGED <<c_pc, delivered, received, c_hdr, down>>
                           /\ Gone' \/ (~Gone /\ UNCHANGED b_out)
  PROVE  Down'
<1>1. Down' <=> (ReadingFrames' => DownPipe(IF Gone THEN "cut" ELSE "whole")')
  BY DEF Down, ReadingFrames, NextPlace, DownPipe, Gone
<1>2. ASSUME ReadingFrames', Gone' PROVE DownPipe("cut")'
  <2>1. DownPipe(IF Gone THEN "cut" ELSE "whole")
    BY <1>2, DownIs DEF ReadingFrames
  <2>2. Pipe(delivered, Len(received), NextPlace, c_hdr, down, b_out', "cut")
    BY <2>1, PipeEnds DEF DownPipe
  <2> QED
    BY <1>2, <2>2 DEF DownPipe, NextPlace
<1>3. ASSUME ReadingFrames', ~Gone' PROVE DownPipe("whole")'
  <2>1. DownPipe("whole")
    BY <1>3, DownIs DEF ReadingFrames
  <2> QED
    BY <1>3, <2>1 DEF DownPipe, NextPlace
<1> QED
  BY <1>1, <1>2, <1>3 DEF DownPipe

LEMMA DownSubscribe ==
  ASSUME Fresh, NEW ids \in Requests, ConnectFiltered(ids)
  PROVE  Down'
<1>1. /\ delivered' = <<>> /\ received' = <<>> /\ down' = <<>> /\ b_out' = <<>>
      /\ c_pc' = "next_header"
  BY DEF ConnectFiltered, Fresh, busVars
<1> DEFINE state == IF b_pc' \in {"closed", "stopped"} THEN "cut" ELSE "whole"
<1>2. Pipe(<<>>, 0, "header", c_hdr', <<>>, <<>>, state)
  BY PipeEmpty
<1> HIDE DEF state
<1>3. Len(received') = 0
  BY <1>1
<1> QED
  BY <1>1, <1>2, <1>3 DEF Down, state

LEMMA DownRecv ==
  ASSUME TypeInv, Down, NEW m \in Messages, Recv(m)
  PROVE  Down'
<1>1. /\ b_pc = "recv" /\ b_pc' = "write" /\ delivered' = Append(delivered, m)
      /\ b_out' = Frame(m) /\ UNCHANGED <<c_pc, c_hdr, received, down>>
  BY DEF Recv, clientVars
<1>2. ASSUME ReadingFrames' PROVE DownPipe("whole")'
  <2>1. b_out = <<>> /\ DownPipe("whole")
    BY <1>1, <1>2, DownIs DEF TypeInv, ReadingFrames, Gone
  <2>2. /\ m \in Message /\ delivered \in Seq(Message) /\ Len(received) \in Nat
        /\ down \in Seq(Nat)
    BY MessagesType DEF TypeInv
  <2>3. Pipe(delivered, Len(received), NextPlace, c_hdr, down, <<>>, "whole")
    BY <2>1 DEF DownPipe
  <2>4. Pipe(Append(delivered, m), Len(received), NextPlace, c_hdr, down, Frame(m), "whole")
    BY <2>2, <2>3, PipeSend
  <2> QED
    BY <1>1, <2>4 DEF DownPipe, NextPlace
<1> QED
  BY <1>1, <1>2 DEF Down, DownPipe, NextPlace, ReadingFrames

LEMMA DownWrite ==
  ASSUME TypeInv, Down, WriteFrame
  PROVE  Down'
<1>1. /\ b_pc = "write" /\ b_pc' \in {"recv", "write"}
      /\ down' = Append(down, Head(b_out)) /\ b_out' = Tail(b_out)
      /\ UNCHANGED <<c_pc, c_hdr, received, delivered>>
  BY DEF WriteFrame, clientVars
<1>2. ASSUME ReadingFrames' PROVE DownPipe("whole")'
  <2>1. b_out # <<>> /\ DownPipe("whole")
    BY <1>1, <1>2, DownIs DEF TypeInv, ReadingFrames, Gone
  <2>2. /\ delivered \in Seq(Message) /\ Len(received) \in Nat
        /\ down \in Seq(Nat) /\ b_out \in Seq(Nat)
    BY DEF TypeInv
  <2>3. Pipe(delivered, Len(received), NextPlace, c_hdr, down, b_out, "whole")
    BY <2>1 DEF DownPipe
  <2>4. Pipe(delivered, Len(received), NextPlace, c_hdr,
             Append(down, Head(b_out)), Tail(b_out), "whole")
    BY <2>1, <2>2, <2>3, PipeTransmit
  <2> QED
    BY <1>1, <2>4 DEF DownPipe, NextPlace
<1> QED
  BY <1>1, <1>2 DEF Down, DownPipe, NextPlace, ReadingFrames

LEMMA DownStops ==
  ASSUME TypeInv, Down, BusStops
  PROVE  Down'
<1>1. b_pc' = "stopped" /\ UNCHANGED <<c_pc, c_hdr, received, delivered>>
  BY DEF BusStops, clientVars
<1>2. PICK n \in 0 .. Len(down) : down' = SubSeq(down, 1, n)
  BY DEF BusStops
<1>3. ASSUME ReadingFrames' PROVE DownPipe("cut")'
  <2>1. DownPipe(IF Gone THEN "cut" ELSE "whole") /\ down \in Seq(Nat)
    BY <1>1, <1>3, DownIs DEF ReadingFrames, TypeInv
  <2>2. Pipe(delivered, Len(received), NextPlace, c_hdr, SubSeq(down, 1, n), b_out', "cut")
    BY <2>1, PipeCut DEF DownPipe
  <2> QED
    BY <1>1, <1>2, <2>2 DEF DownPipe, NextPlace
<1> QED
  BY <1>1, <1>3 DEF Down, DownPipe, NextPlace, ReadingFrames

LEMMA DownHeader ==
  ASSUME TypeInv, Down, NextHeader
  PROVE  Down'
<1> DEFINE state == IF Gone THEN "cut" ELSE "whole"
<1>1. /\ c_pc = "next_header" /\ c_pc' = "next_payload" /\ Len(down) >= HeaderSize
      /\ c_hdr' = FromBytes(down) /\ down' = SubSeq(down, HeaderSize + 1, Len(down))
      /\ UNCHANGED <<received, delivered, b_out, b_pc>>
  BY DEF NextHeader, busVars
<1>2. Pipe(delivered, Len(received), "header", c_hdr, down, b_out, state)
  BY <1>1, DownIs DEF ReadingFrames, DownPipe, NextPlace
<1>3. /\ delivered \in Seq(Message) /\ Len(received) \in Nat
      /\ down \in Seq(Nat) /\ b_out \in Seq(Nat)
  BY DEF TypeInv
<1> HIDE DEF state
<1>4. Pipe(delivered, Len(received), "payload", FromBytes(down),
           SubSeq(down, HeaderSize + 1, Len(down)), b_out, state)
  BY <1>1, <1>2, <1>3, PipeHeader
<1> QED
  BY <1>1, <1>4 DEF Down, Gone, state

\* The client returns the message that the bus thread wrote next.
LEMMA FrameInStep ==
  ASSUME TypeInv, Down, NextPayload
  PROVE  /\ Len(received) + 1 \in 1 .. Len(delivered)
         /\ received' = Append(received, delivered[Len(received) + 1])
         /\ Down'
<1> DEFINE state == IF Gone THEN "cut" ELSE "whole"
<1>1. /\ c_pc = "next_payload" /\ c_pc' = "next_header" /\ Len(down) >= c_hdr.len
      /\ received' = Append(received, MessageOf(c_hdr, SubSeq(down, 1, c_hdr.len)))
      /\ down' = SubSeq(down, c_hdr.len + 1, Len(down))
      /\ UNCHANGED <<c_hdr, delivered, b_out, b_pc>>
  BY DEF NextPayload, PayloadLen, busVars
<1>2. Pipe(delivered, Len(received), "payload", c_hdr, down, b_out, state)
  BY <1>1, DownIs DEF ReadingFrames, DownPipe, NextPlace
<1>3. /\ delivered \in Seq(Message) /\ received \in Seq(Message) /\ Len(received) \in Nat
      /\ down \in Seq(Nat) /\ b_out \in Seq(Nat)
  BY DEF TypeInv
<1> HIDE DEF state
<1>4. /\ Len(received) + 1 \in 1 .. Len(delivered)
      /\ MessageOf(c_hdr, SubSeq(down, 1, c_hdr.len)) = delivered[Len(received) + 1]
      /\ Pipe(delivered, Len(received) + 1, "header", c_hdr,
              SubSeq(down, c_hdr.len + 1, Len(down)), b_out, state)
  BY <1>1, <1>2, <1>3, PipePayload
<1>5. Len(received') = Len(received) + 1
  <2>1. delivered[Len(received) + 1] \in Message
    BY <1>3, <1>4
  <2> QED
    BY <1>1, <1>3, <1>4, <2>1
<1>6. Pipe(delivered', Len(received'), "header", c_hdr', down', b_out', state)
  BY <1>1, <1>4, <1>5
<1>7. Down'
  BY <1>1, <1>6 DEF Down, Gone, state
<1> QED
  BY <1>1, <1>4, <1>7

LEMMA DownStep == TypeInv /\ Fresh /\ Down /\ [Next]_vars => Down'
<1> SUFFICES ASSUME TypeInv, Fresh, Down, [Next]_vars PROVE Down'
  OBVIOUS
<1>1. ASSUME NEW m \in Messages, PublishRaw(m) PROVE Down'
  BY <1>1 DEF PublishRaw, Down
<1>2. ASSUME NEW m \in Messages, Recv(m) PROVE Down'
  BY <1>2, DownRecv
<1>3. ASSUME NEW ids \in Requests, ConnectFiltered(ids) PROVE Down'
  BY <1>3, DownSubscribe
<1>4. CASE Transmit
  BY <1>4, DownKept DEF Transmit, busVars, Gone
<1>5. CASE NextHeader
  BY <1>5, DownHeader
<1>6. CASE NextPayload
  BY <1>6, FrameInStep
<1>7. CASE NextFails
  BY <1>7 DEF NextFails, Down
<1>8. CASE WriteFails
  BY <1>8 DEF WriteFails, Down
<1>9. CASE Close \/ Reset
  BY <1>9 DEF Close, Reset, Down
<1>10. CASE SubscribeHeader
  BY <1>10, DownKept DEF SubscribeHeader, clientVars, Gone
<1>11. CASE ReadChannels
  BY <1>11, DownKept DEF ReadChannels, clientVars, Gone
<1>12. CASE MessageHeader
  BY <1>12, DownKept DEF MessageHeader, AtMessage, Available, Reading, clientVars, Gone
<1>13. CASE ReadPayload
  BY <1>13, DownKept DEF ReadPayload, clientVars, Gone
<1>14. CASE TooLarge
  BY <1>14, DownKept DEF TooLarge, Refused, clientVars, Gone
<1>15. CASE Disconnected
  BY <1>15, DownKept DEF Disconnected, clientVars, Gone
<1>16. CASE WriteFrame
  BY <1>16, DownWrite
<1>17. CASE WriteError
  BY <1>17, DownKept DEF WriteError, clientVars, Gone
<1>18. CASE BusStops
  BY <1>18, DownStops
<1>19. CASE UNCHANGED vars
  BY <1>19, DownKept DEF vars, clientVars, busVars, Gone
<1> QED
  BY <1>1, <1>2, <1>3, <1>4, <1>5, <1>6, <1>7, <1>8, <1>9, <1>10, <1>11, <1>12, <1>13,
     <1>14, <1>15, <1>16, <1>17, <1>18, <1>19 DEF Next, Client, Handle

-----------------------------------------------------------------------------
(* The properties.                                                           *)

Starts(s, t) == Len(s) <= Len(t) /\ \A i \in 1 .. Len(s) : s[i] = t[i]

LEMMA StartsIsStart ==
  ASSUME NEW s \in Seq(Message), NEW t \in Seq(Message), Starts(s, t)
  PROVE  IsStart(s, t)
<1>1. Len(s) \in Nat /\ Len(t) \in Nat /\ Len(s) <= Len(t)
  BY DEF Starts
<1> DEFINE u == SubSeq(t, 1, Len(s))
<1>2. u \in Seq(Message) /\ Len(u) = Len(s) /\ \A i \in 1 .. Len(s) : u[i] = t[i]
  BY <1>1
<1>3. \A i \in 1 .. Len(s) : s[i] = u[i]
  BY <1>2 DEF Starts
<1> HIDE DEF u
<1>4. s = u
  BY ONLY <1>2, <1>3, SeqEqual, s \in Seq(Message)
<1> QED
  BY <1>1, <1>4 DEF IsStart, u

LEMMA StartsGrows ==
  ASSUME NEW s \in Seq(Message), NEW t \in Seq(Message), NEW m \in Message, Starts(s, t)
  PROVE  Starts(s, Append(t, m))
<1>1. /\ Len(s) \in Nat /\ Len(t) \in Nat /\ Len(Append(t, m)) = Len(t) + 1
      /\ \A i \in 1 .. Len(t) : Append(t, m)[i] = t[i]
  OBVIOUS
<1>2. /\ Len(s) <= Len(t) /\ \A i \in 1 .. Len(s) : s[i] = t[i]
  BY DEF Starts
<1>3. \A i \in 1 .. Len(s) : s[i] = Append(t, m)[i]
  BY <1>1, <1>2
<1> QED
  BY <1>1, <1>2, <1>3 DEF Starts

LEMMA StartsFollows ==
  ASSUME NEW s \in Seq(Message), NEW t \in Seq(Message), Starts(s, t),
         Len(s) + 1 \in 1 .. Len(t)
  PROVE  Starts(Append(s, t[Len(s) + 1]), t)
<1> DEFINE u == Append(s, t[Len(s) + 1])
<1>1. /\ Len(s) \in Nat /\ Len(t) \in Nat /\ t[Len(s) + 1] \in Message
  OBVIOUS
<1>2. /\ Len(u) = Len(s) + 1 /\ u[Len(s) + 1] = t[Len(s) + 1]
      /\ \A i \in 1 .. Len(s) : u[i] = s[i]
  BY <1>1
<1> HIDE DEF u
<1>3. \A i \in 1 .. Len(u) : u[i] = t[i]
  BY <1>1, <1>2 DEF Starts
<1>4. Starts(u, t)
  BY <1>1, <1>2, <1>3 DEF Starts
<1> QED
  BY <1>4 DEF u

\* Why the bus thread returned although the client keeps the connection.
Cause ==
  (b_pc = "closed" /\ link = "open") =>
    \/ sent = <<>> /\ Len(asked) * IdSize > FilterCap
    \/ /\ Len(published) + 1 \in 1 .. Len(sent)
       /\ LET m == sent[Len(published) + 1]
          IN  Len(m.payload) > IF m.type = 0 /\ published = <<>> THEN FilterCap
                               ELSE PayloadCap

Sound ==
  /\ Starts(published, sent) /\ Starts(received, delivered)
  /\ (filter # <<>> /\ sent = <<>>) => filter[1] = Elements(asked)
  /\ asked # <<>> => /\ sent = <<>>
                     /\ \A i \in 1 .. Len(delivered) : delivered[i].chan \in Elements(asked)

Together == TypeInv /\ Fresh /\ Places /\ Up /\ Down

\* A refused header is the one of a message, or of a subscription, that is too large.
LEMMA RefusalCause ==
  ASSUME Together, TooLarge
  PROVE  Cause'
<1>1. /\ Available /\ b_pc \in {"first", "header"}
      /\ UNCHANGED <<sent, asked, published>> /\ TypeInv /\ Reading
  BY DEF TooLarge, AtMessage, Available, clientVars, Together
<1>2. /\ FromBytes(up) \in Header
      /\ IF b_pc = "header" \/ FromBytes(up).type # 0
         THEN FromBytes(up).len > PayloadCap ELSE FromBytes(up).len > FilterCap
  <2>1. FromBytes(up) \in Header
    BY <1>1, TakenType
  <2>2. FromBytes(up).len \in Nat /\ PayloadCap \in Nat
    BY <2>1, ConnectionAssumption DEF Header
  <2> QED
    BY <1>1, <2>1, <2>2 DEF TooLarge, AtMessage, Fits
<1>3. CASE AsPublisher
  <2> DEFINE m == sent[Len(published) + 1]
  <2>1. UpPipe(sent) /\ sent \in Seq(Message)
    BY <1>1, <1>3 DEF AsPublisher, TypeInv
  <2>2. Len(published) + 1 \in 1 .. Len(sent) /\ FromBytes(up) = HeaderOf(m)
    BY <1>1, <2>1, HeaderInStep
  <2>3. FromBytes(up).len = Len(m.payload) /\ FromBytes(up).type = m.type
    BY <2>2 DEF HeaderOf
  <2>4. published = <<>> <=> b_pc = "first"
    BY <1>1 DEF Together, Places
  <2>5. Len(m.payload) > IF m.type = 0 /\ published = <<>> THEN FilterCap ELSE PayloadCap
    BY <1>1, <1>2, <2>3, <2>4
  <2> HIDE DEF m
  <2> QED
    BY <1>1, <2>2, <2>5 DEF Cause, m
<1>4. CASE AsSubscriber
  <2>1. /\ b_pc = "first" /\ FromBytes(up).type = 0 /\ sent = <<>>
        /\ FromBytes(up).len = IdSize * Len(asked)
    BY <1>1, <1>4, SubscriberFirst DEF AsSubscriber
  <2>2. FromBytes(up).len = Len(asked) * IdSize
    BY <1>1, <2>1 DEF IdSize, TypeInv
  <2>3. Len(asked) * IdSize > FilterCap
    BY <1>1, <1>2, <2>1, <2>2
  <2> QED
    BY <1>1, <2>1, <2>3 DEF Cause
<1> QED
  BY <1>3, <1>4 DEF Together, Up

LEMMA CauseStep == Together /\ Cause /\ [Next]_vars => Cause'
<1> SUFFICES ASSUME Together, Cause, [Next]_vars, b_pc' = "closed", link' = "open"
             PROVE  Cause'
  BY DEF Cause
<1>1. CASE TooLarge
  BY <1>1, RefusalCause
<1>2. CASE b_pc = "closed" /\ link = "open" /\ UNCHANGED <<asked, published, sent>>
  BY <1>2 DEF Cause
<1>3. ASSUME NEW m \in Messages, PublishRaw(m) PROVE Cause'
  <2>1. /\ b_pc = "closed" /\ link = "open" /\ UNCHANGED <<asked, published>>
        /\ sent' = Append(sent, m) /\ sent # <<>>
    BY <1>3 DEF PublishRaw, busVars, Together, Fresh, Places
  <2>2. Len(published) + 1 \in 1 .. Len(sent) /\ sent \in Seq(Message) /\ m \in Message
    BY <2>1, MessagesType DEF Cause, Together, TypeInv
  <2>3. /\ Len(published) + 1 \in 1 .. Len(sent')
        /\ sent'[Len(published) + 1] = sent[Len(published) + 1]
    BY <2>1, <2>2
  <2> QED
    BY <2>1, <2>3 DEF Cause
<1>4. ASSUME NEW m \in Messages, Recv(m) PROVE Cause'
  BY <1>4 DEF Recv
<1>5. ASSUME NEW ids \in Requests, ConnectFiltered(ids) PROVE Cause'
  BY <1>5 DEF ConnectFiltered, busVars, Together, Fresh
<1>6. CASE Client \/ WriteFails \/ Close \/ Reset
  <2>1. b_pc = "closed" /\ link = "open" /\ UNCHANGED <<asked, published, sent>>
    BY <1>6 DEF Client, Transmit, NextHeader, NextPayload, NextFails, WriteFails, Close, Reset,
                busVars
  <2> QED
    BY <1>2, <2>1
<1>7. CASE SubscribeHeader \/ ReadChannels \/ MessageHeader \/ ReadPayload \/ WriteFrame
  BY <1>7 DEF SubscribeHeader, ReadChannels, MessageHeader, ReadPayload, WriteFrame
<1>8. CASE Disconnected \/ WriteError \/ BusStops
  BY <1>8 DEF Disconnected, WriteError, BusStops
<1>9. CASE UNCHANGED vars
  BY <1>2, <1>9 DEF vars, clientVars, busVars
<1> QED
  BY <1>1, <1>3, <1>4, <1>5, <1>6, <1>7, <1>8, <1>9 DEF Next, Client, Handle

\* The entry of a subscriber holds what it asked for.
LEMMA ChannelsInStep ==
  ASSUME Together, ReadChannels, sent = <<>>
  PROVE  ChannelIds(Taken) = Elements(asked)
<1> DEFINE state == IF link = "reset" THEN "cut" ELSE "whole"
<1>1. b_pc = "channels" /\ Available /\ TypeInv /\ Reading
  BY DEF ReadChannels, Available, Together
<1>2. /\ Len(published) \in Nat /\ up \in Seq(Nat) /\ out \in Seq(Nat) /\ asked \in Seq(Ids)
  BY <1>1 DEF TypeInv
<1>3. Len(up) >= hdr.len /\ Taken = SubSeq(up, 1, hdr.len)
  <2>1. Needed = hdr.len
    BY <1>1 DEF Needed
  <2> QED
    BY <1>1, <2>1 DEF Available, Taken
<1>4. \A msgs : UpPipe(msgs) => Pipe(msgs, Len(published), "payload", hdr, up, out, state)
  BY <1>1 DEF UpPipe, Place
<1> HIDE DEF state
<1>5. CASE AsPublisher
  <2>1. Pipe(<<>>, Len(published), "payload", hdr, up, out, state)
    BY <1>1, <1>4, <1>5 DEF AsPublisher
  <2>2. <<>> \in Seq(Message) /\ Len(<<>>) = 0
    OBVIOUS
  <2>3. Len(published) < 0
    BY <1>2, <1>3, <2>1, <2>2, PipePayload
  <2> QED
    BY <1>2, <2>3
<1>6. CASE AsSubscriber
  <2> DEFINE msgs == <<Control(asked)>>
  <2>1. msgs \in Seq(Message) /\ msgs[1] = Control(asked)
    BY <1>2, PackType
  <2>2. Pipe(msgs, Len(published), "payload", hdr, up, out, state) /\ Len(published) = 0
    BY <1>1, <1>4, <1>6 DEF AsSubscriber
  <2> HIDE DEF msgs
  <2>3. Taken = msgs[Len(published) + 1].payload
    BY <1>2, <1>3, <2>1, <2>2, PipePayload
  <2>4. Taken = Pack(asked)
    BY <2>1, <2>2, <2>3 DEF Control
  <2> QED
    BY <1>2, <2>4, PackedIds
<1> QED
  BY <1>5, <1>6 DEF Together, Up

LEMMA SoundStep == Together /\ Sound /\ [Next]_vars => Sound'
<1> SUFFICES ASSUME Together, Sound, [Next]_vars PROVE Sound'
  OBVIOUS
<1> USE DEF Together
<1>1. ASSUME NEW m \in Messages, PublishRaw(m) PROVE Sound'
  <2>1. /\ sent' = Append(sent, m) /\ c_pc \in {"new", "publisher"}
        /\ UNCHANGED <<asked, published, delivered, received>>
    BY <1>1 DEF PublishRaw, busVars
  <2>2. /\ sent \in Seq(Message) /\ published \in Seq(Message) /\ m \in Message
    BY MessagesType DEF TypeInv
  <2>3. sent' # <<>>
    BY <2>1, <2>2, AppendProperties
  <2>4. asked' = <<>>
    BY <2>1 DEF Up, AsPublisher, AsSubscriber
  <2>5. Starts(published', sent')
    BY <2>1, <2>2, StartsGrows DEF Sound
  <2>6. Starts(received', delivered')
    BY <2>1 DEF Sound
  <2> QED
    BY <2>3, <2>4, <2>5, <2>6 DEF Sound
<1>2. ASSUME NEW m \in Messages, Recv(m) PROVE Sound'
  <2>1. /\ delivered' = Append(delivered, m) /\ Wanted(m)
        /\ UNCHANGED <<asked, published, sent, received, filter>>
    BY <1>2 DEF Recv, clientVars
  <2>2. /\ delivered \in Seq(Message) /\ received \in Seq(Message) /\ m \in Message
        /\ asked \in Seq(Ids)
    BY MessagesType DEF TypeInv
  <2>3. Starts(received', delivered')
    BY <2>1, <2>2, StartsGrows DEF Sound
  <2>4. ASSUME asked # <<>> PROVE m.chan \in Elements(asked)
    <3>1. filter # <<>> /\ filter[1] = Elements(asked)
      BY <2>1, <2>4 DEF Sound, Wanted
    <3>2. Elements(asked) # {}
      <4>1. 1 \in 1 .. Len(asked)
        BY <2>2, <2>4
      <4> QED
        BY <4>1 DEF Elements
    <3> QED
      BY <2>1, <3>1, <3>2 DEF Wanted
  <2>5. ASSUME asked # <<>>, NEW i \in 1 .. Len(delivered')
        PROVE  delivered'[i].chan \in Elements(asked)
    <3>1. CASE i \in 1 .. Len(delivered)
      <4>1. delivered'[i] = delivered[i]
        BY <2>1, <2>2, <3>1
      <4> QED
        BY <2>5, <3>1, <4>1 DEF Sound
    <3>2. CASE i = Len(delivered) + 1
      <4>1. delivered'[i] = m
        BY <2>1, <2>2, <3>2
      <4> QED
        BY <2>4, <2>5, <4>1
    <3>3. i \in 1 .. Len(delivered) \/ i = Len(delivered) + 1
      <4>1. Len(delivered') = Len(delivered) + 1 /\ Len(delivered) \in Nat
        BY <2>1, <2>2
      <4> QED
        BY <4>1
    <3> QED
      BY <3>1, <3>2, <3>3
  <2> QED
    BY <2>1, <2>3, <2>5 DEF Sound, Elements
<1>3. ASSUME NEW ids \in Requests, ConnectFiltered(ids) PROVE Sound'
  <2>1. /\ sent' = <<>> /\ published' = <<>> /\ received' = <<>> /\ delivered' = <<>>
        /\ filter' = <<>>
    BY <1>3 DEF ConnectFiltered, busVars, Fresh
  <2>2. Starts(<<>>, <<>>) /\ Len(<<>>) = 0
    BY DEF Starts
  <2> QED
    BY <2>1, <2>2 DEF Sound
<1>4. CASE UNCHANGED <<sent, asked, published, delivered, received>>
           /\ (filter' = filter \/ filter' = <<>>)
  <2>1. Starts(published', sent') /\ Starts(received', delivered')
    BY <1>4 DEF Sound
  <2> QED
    BY <1>4, <2>1 DEF Sound, Elements
<1>5. CASE Transmit \/ NextHeader \/ NextFails \/ WriteFails \/ Close \/ Reset
  BY <1>4, <1>5 DEF Transmit, NextHeader, NextFails, WriteFails, Close, Reset, busVars
<1>6. CASE NextPayload
  <2>1. /\ Len(received) + 1 \in 1 .. Len(delivered)
        /\ received' = Append(received, delivered[Len(received) + 1])
    BY <1>6, FrameInStep
  <2>2. UNCHANGED <<sent, asked, published, delivered, filter>>
    BY <1>6 DEF NextPayload, busVars
  <2>3. delivered \in Seq(Message) /\ received \in Seq(Message)
    BY DEF TypeInv
  <2>4. Starts(received', delivered')
    BY <2>1, <2>2, <2>3, StartsFollows DEF Sound
  <2>5. Starts(published', sent')
    BY <2>2 DEF Sound
  <2> QED
    BY <2>2, <2>4, <2>5 DEF Sound, Elements
<1>7. CASE SubscribeHeader \/ MessageHeader \/ TooLarge \/ Disconnected \/ WriteFrame
           \/ WriteError \/ BusStops
  BY <1>4, <1>7 DEF SubscribeHeader, MessageHeader, TooLarge, Disconnected, WriteFrame,
                    WriteError, BusStops, clientVars
<1>8. CASE ReadChannels
  <2>1. /\ filter' = <<ChannelIds(Taken)>>
        /\ UNCHANGED <<sent, asked, published, delivered, received>>
    BY <1>8 DEF ReadChannels, clientVars
  <2>2. sent = <<>> => filter'[1] = Elements(asked)
    BY <1>8, <2>1, ChannelsInStep
  <2>3. Starts(published', sent') /\ Starts(received', delivered')
    BY <2>1 DEF Sound
  <2> QED
    BY <2>1, <2>2, <2>3 DEF Sound, Elements
<1>9. CASE ReadPayload
  <2>1. /\ Len(published) + 1 \in 1 .. Len(sent)
        /\ published' = Append(published, sent[Len(published) + 1])
    BY <1>9, PayloadInStep
  <2>2. UNCHANGED <<sent, asked, received, delivered, filter>>
    BY <1>9 DEF ReadPayload, clientVars
  <2>3. sent \in Seq(Message) /\ published \in Seq(Message)
    BY DEF TypeInv
  <2>4. Starts(published', sent')
    BY <2>1, <2>2, <2>3, StartsFollows DEF Sound
  <2>5. Starts(received', delivered')
    BY <2>2 DEF Sound
  <2> QED
    BY <2>2, <2>4, <2>5 DEF Sound, Elements
<1>10. CASE UNCHANGED vars
  BY <1>4, <1>10 DEF vars, clientVars, busVars
<1> QED
  BY <1>1, <1>2, <1>3, <1>5, <1>6, <1>7, <1>8, <1>9, <1>10 DEF Next, Client, Handle

ConnectionInv == Together /\ Cause /\ Sound

LEMMA ConnectionInit == Init => ConnectionInv
<1> SUFFICES ASSUME Init PROVE ConnectionInv
  OBVIOUS
<1>1. TypeInv
  BY TypeInit
<1>2. Fresh /\ Places /\ Down /\ Cause
  BY DEF Init, Fresh, Places, Down, Cause
<1>3. AsPublisher
  <2>1. Pipe(<<>>, 0, "header", hdr, <<>>, <<>>, "whole")
    BY PipeEmpty
  <2>2. Place = "header" /\ Len(published) = 0 /\ link # "reset"
    BY DEF Init, Place
  <2>3. UpPipe(sent)
    BY <2>1, <2>2 DEF Init, UpPipe
  <2> QED
    BY <2>3 DEF Init, AsPublisher
<1>4. Sound
  <2>1. Starts(<<>>, <<>>)
    BY DEF Starts
  <2> QED
    BY <2>1 DEF Init, Sound
<1> QED
  BY <1>1, <1>2, <1>3, <1>4 DEF ConnectionInv, Together, Up

LEMMA AlwaysConnection == Spec => []ConnectionInv
<1>1. ConnectionInv /\ [Next]_vars => ConnectionInv'
  <2>1. Together /\ [Next]_vars => Together'
    BY TypeStep, FreshStep, PlacesStep, UpStep, DownStep DEF Together
  <2> QED
    BY <2>1, CauseStep, SoundStep DEF ConnectionInv
<1> QED
  BY <1>1, ConnectionInit, PTL DEF Spec

\* Wherever the stream is cut and whatever it contains, the bus publishes the messages
\* that the client sent, from the first on and in order (run_publisher()).
THEOREM FramedCorrect == Spec => []Framed
<1>1. ConnectionInv => Framed
  BY StartsIsStart DEF ConnectionInv, Together, TypeInv, Sound, Framed
<1> QED
  BY <1>1, AlwaysConnection, PTL

\* On a connection that its client keeps, the bus thread returns only because the next
\* message, or the subscription, is larger than the limit (handle_connection(),
\* run_publisher()).
THEOREM RefusedForSizeCorrect == Spec => []RefusedForSize
<1>1. ConnectionInv => RefusedForSize
  <2> SUFFICES ASSUME ConnectionInv, b_pc = "closed", link = "open" PROVE RefusedForSize
    BY DEF RefusedForSize
  <2>1. sent \in Seq(Message)
    BY DEF ConnectionInv, Together, TypeInv
  <2>2. Len(published) + 1 \in 1 .. Len(sent) => sent # <<>>
    BY <2>1
  <2> QED
    BY <2>2 DEF ConnectionInv, Cause, RefusedForSize
<1> QED
  BY <1>1, AlwaysConnection, PTL

\* A client of the library is registered for the channels of its request, all of them
\* and no other (connect_filtered() and handle_connection()).
THEOREM AsAskedCorrect == Spec => []AsAsked
<1>1. ConnectionInv => AsAsked
  BY DEF ConnectionInv, Sound, Elements, AsAsked
<1> QED
  BY <1>1, AlwaysConnection, PTL

\* What next_raw() has returned is a start of what the bus wrote to this subscriber, and
\* is of the channels that it asked for.
THEOREM ReceivedWholeCorrect == Spec => []ReceivedWhole
<1>1. ConnectionInv => ReceivedWhole
  <2> SUFFICES ASSUME ConnectionInv PROVE ReceivedWhole
    OBVIOUS
  <2>1. /\ received \in Seq(Message) /\ delivered \in Seq(Message)
        /\ Starts(received, delivered)
    BY DEF ConnectionInv, Together, TypeInv, Sound
  <2>2. IsStart(received, delivered)
    BY <2>1, StartsIsStart
  <2>3. ASSUME asked # <<>>, NEW i \in 1 .. Len(received)
        PROVE  \E j \in 1 .. Len(asked) : received[i].chan = asked[j]
    <3>1. i \in 1 .. Len(delivered) /\ received[i] = delivered[i]
      BY <2>1 DEF Starts
    <3>2. received[i].chan \in Elements(asked)
      BY <2>3, <3>1 DEF ConnectionInv, Sound
    <3> QED
      BY <3>2 DEF Elements
  <2> QED
    BY <2>2, <2>3 DEF ReceivedWhole
<1> QED
  BY <1>1, AlwaysConnection, PTL
=============================================================================
