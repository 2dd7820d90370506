----------------------------- MODULE RingProofs -----------------------------
(***************************************************************************)
(* Proofs about Ring for every ring size, table size, set of consumers and *)
(* set of messages: its type invariant, the safety properties of the       *)
(* consumers that registered in time, and how far a walk through the       *)
(* consumer table can get.                                                 *)
(***************************************************************************)
EXTENDS Ring, FiniteSetTheorems, TLAPS

-----------------------------------------------------------------------------
(* The slot of a sequence number.                                          *)

\* seq & RING_MASK is a slot.
LEMMA IndexIsSlot ==
  ASSUME NEW n \in Nat
  PROVE  Index(n) \in Slots
BY RingAssumption DEF Index, Slots

\* A positive multiple of the ring size is at least the ring size.
LEMMA MultipleOfRingSize ==
  ASSUME NEW d \in Nat, d >= 1
  PROVE  RingSize * d >= RingSize
BY RingAssumption

\* Two sequence numbers less than a ring apart live in different slots.
LEMMA IndexDistinct ==
  ASSUME NEW a \in Nat, NEW b \in Nat, a < b, b - a < RingSize
  PROVE  Index(a) # Index(b)
<1> DEFINE qa == a \div RingSize
           qb == b \div RingSize
<1>1. /\ a = RingSize * qa + (a % RingSize) /\ qa \in Nat
      /\ b = RingSize * qb + (b % RingSize) /\ qb \in Nat
  BY RingAssumption
<1>2. SUFFICES ASSUME a % RingSize = b % RingSize
               PROVE  FALSE
  BY DEF Index
<1>3. b - a = RingSize * (qb - qa)
  BY <1>1, <1>2, RingAssumption
<1>4. CASE qb - qa >= 1
  BY <1>1, <1>3, <1>4, MultipleOfRingSize, RingAssumption
<1>5. CASE qb - qa <= 0
  BY <1>1, <1>3, <1>5, RingAssumption
<1> QED
  BY <1>1, <1>4, <1>5

-----------------------------------------------------------------------------
(* Type correctness.  The consumer's steps are well typed because a          *)
(* registered thread holds an entry with a cursor, so the two are proved     *)
(* together.                                                                 *)

LEMMA TypeInit == Init => TypeOK /\ EntryOwned
<1> SUFFICES ASSUME Init PROVE TypeOK /\ EntryOwned
  OBVIOUS
<1>1. TypeOK
  BY RingAssumption DEF Init, TypeOK, Fitting
<1>2. EntryOwned
  BY RingAssumption DEF Init, EntryOwned, InUse
<1> QED
  BY <1>1, <1>2

\* The steps of publish() do not touch the consumer table.
LEMMA PublishType ==
  TypeOK /\ EntryOwned /\ Publish => TypeOK' /\ EntryOwned'
<1> SUFFICES ASSUME TypeOK, EntryOwned, Publish
             PROVE  TypeOK' /\ EntryOwned'
  OBVIOUS
<1>1. UNCHANGED <<cursor, consumerVars>>
  BY DEF Publish, PublishTooLarge, PublishBegin, ScanEntry, PublishRefused,
         WriteHeader, WriteBody, CommitSlot, AdvanceHead
<1>2. EntryOwned'
  BY <1>1 DEF EntryOwned, InUse, consumerVars
<1>3. TypeOK'
  <2> USE RingAssumption DEF TypeOK, slotVars, consumerVars, ScanOver
  <2>1. ASSUME NEW m \in Messages, PublishTooLarge(m) PROVE TypeOK'
    BY <2>1 DEF PublishTooLarge
  <2>2. ASSUME NEW m \in Messages, PublishBegin(m) PROVE TypeOK'
    BY <2>2 DEF PublishBegin, TooLarge, Fitting
  <2>3. CASE ScanEntry
    BY <2>3 DEF ScanEntry, Entries
  <2>4. CASE PublishRefused
    BY <2>4 DEF PublishRefused
  <2>5. CASE WriteHeader
    <3>1. slot_hdr' \in [Slots -> Fitting \cup {NoMsg}]
      BY <2>5, IndexIsSlot DEF WriteHeader
    <3> QED
      BY <2>5, <3>1 DEF WriteHeader
  <2>6. CASE WriteBody
    BY <2>6, IndexIsSlot DEF WriteBody
  <2>7. CASE CommitSlot
    <3>1. slot_seq' \in [Slots -> Nat] /\ log' \in Seq(Fitting)
      BY <2>7, IndexIsSlot DEF CommitSlot
    <3> QED
      BY <2>7, <3>1 DEF CommitSlot
  <2>8. CASE AdvanceHead
    BY <2>8 DEF AdvanceHead
  <2> QED
    BY <2>1, <2>2, <2>3, <2>4, <2>5, <2>6, <2>7, <2>8 DEF Publish
<1> QED
  BY <1>2, <1>3

\* The steps of a consumer thread.
LEMMA ConsumerType ==
  ASSUME TypeOK, EntryOwned, NEW c \in Consumers,
         Register(c) \/ Unregister(c) \/ Consume(c)
  PROVE  TypeOK' /\ EntryOwned'
<1> USE RingAssumption DEF TypeOK, ringVars, slotVars, producerVars, At
<1>1. CASE RegisterLoad(c)
  <2>1. TypeOK'
    BY <1>1 DEF RegisterLoad
  <2>2. EntryOwned'
    BY <1>1 DEF RegisterLoad, EntryOwned, InUse
  <2> QED
    BY <2>1, <2>2
<1>2. CASE ClaimEntry(c)
  <2>1. TypeOK'
    BY <1>2 DEF ClaimEntry, Entries
  <2>2. EntryOwned'
    BY <1>2 DEF ClaimEntry, Taken, EntryOwned, InUse, Entries
  <2> QED
    BY <2>1, <2>2
<1>3. CASE SkipEntry(c)
  <2>1. TypeOK'
    BY <1>3 DEF SkipEntry
  <2>2. EntryOwned'
    BY <1>3 DEF SkipEntry, EntryOwned, InUse
  <2> QED
    BY <2>1, <2>2
<1>4. CASE RegisterFull(c)
  <2>1. TypeOK'
    BY <1>4 DEF RegisterFull, CallsOver
  <2>2. EntryOwned'
    BY <1>4 DEF RegisterFull, CallsOver, EntryOwned, InUse
  <2> QED
    BY <2>1, <2>2
<1>5. CASE Unregister(c)
  <2>1. TypeOK'
    <3>1. cursor' \in [Entries -> Nat \cup {Free}]
      BY <1>5 DEF Unregister
    <3>2. got' \in [Consumers -> Seq((Fitting \cup {NoMsg}) \X (Fitting \cup {NoMsg}))]
      BY <1>5 DEF Unregister
    <3> QED
      BY <1>5, <3>1, <3>2 DEF Unregister, CallsOver
  <2>2. EntryOwned'
    BY <1>5 DEF Unregister, CallsOver, EntryOwned, InUse
  <2> QED
    BY <2>1, <2>2
<1>6. CASE ConsumeBegin(c) \/ NotYet(c) \/ FellBehind(c) \/ ReadHeader(c)
  <2>1. c_hdr' \in [Consumers -> Fitting \cup {NoMsg}]
    <3>1. CASE ReadHeader(c)
      <4>1. cursor[c_entry[c]] \in Nat
        BY <3>1 DEF ReadHeader, EntryOwned, InUse
      <4> QED
        BY <3>1, <4>1, IndexIsSlot DEF ReadHeader
    <3> QED
      BY <1>6, <3>1 DEF ConsumeBegin, NotYet, FellBehind
  <2>2. TypeOK'
    BY <1>6, <2>1 DEF ConsumeBegin, NotYet, FellBehind, ReadHeader
  <2>3. UNCHANGED <<cursor, c_entry>> /\ \A d \in Consumers : InUse(d)' <=> InUse(d)
    BY <1>6 DEF ConsumeBegin, NotYet, FellBehind, ReadHeader, InUse
  <2>4. EntryOwned'
    BY <2>3 DEF EntryOwned
  <2> QED
    BY <2>2, <2>4
<1>7. CASE ReadBody(c)
  <2>1. cursor[c_entry[c]] \in Nat
    BY <1>7 DEF ReadBody, EntryOwned, InUse
  <2>2. <<c_hdr[c], slot_body[Index(cursor[c_entry[c]])]>>
          \in (Fitting \cup {NoMsg}) \X (Fitting \cup {NoMsg})
    BY <2>1, IndexIsSlot
  <2>3. got' \in [Consumers -> Seq((Fitting \cup {NoMsg}) \X (Fitting \cup {NoMsg}))]
    BY <1>7, <2>2 DEF ReadBody
  <2>4. TypeOK'
    BY <1>7, <2>3 DEF ReadBody
  <2>5. EntryOwned'
    BY <1>7 DEF ReadBody, EntryOwned, InUse
  <2> QED
    BY <2>4, <2>5
<1>8. CASE AdvanceCursor(c)
  <2>1. c_entry[c] \in Entries /\ cursor[c_entry[c]] \in Nat
    BY <1>8 DEF AdvanceCursor, EntryOwned, InUse
  <2>2. TypeOK'
    BY <1>8, <2>1 DEF AdvanceCursor
  <2>3. EntryOwned'
    BY <1>8, <2>1 DEF AdvanceCursor, EntryOwned, InUse
  <2> QED
    BY <2>2, <2>3
<1> QED
  BY <1>1, <1>2, <1>3, <1>4, <1>5, <1>6, <1>7, <1>8 DEF Register, Consume

LEMMA TypeStep ==
  TypeOK /\ EntryOwned /\ [Next]_vars => TypeOK' /\ EntryOwned'
<1> SUFFICES ASSUME TypeOK, EntryOwned, [Next]_vars
             PROVE  TypeOK' /\ EntryOwned'
  OBVIOUS
<1>1. CASE UNCHANGED vars
  <2>1. TypeOK'
    BY <1>1 DEF vars, slotVars, producerVars, consumerVars, TypeOK
  <2>2. EntryOwned'
    BY <1>1 DEF vars, slotVars, producerVars, consumerVars, EntryOwned, InUse
  <2> QED
    BY <2>1, <2>2
<1> QED
  BY <1>1, PublishType, ConsumerType DEF Next

\* The type invariant of the ring, whatever its size and whoever uses it.
THEOREM TypeCorrect == Spec => []TypeOK
<1>1. Init => TypeOK /\ EntryOwned
  BY TypeInit
<1>2. TypeOK /\ EntryOwned /\ [Next]_vars => TypeOK' /\ EntryOwned'
  BY TypeStep
<1> QED
  BY <1>1, <1>2, PTL DEF Spec

\* The consumer table is exclusive and does not leak: register_consumer() and
\* unregister_consumer() hand out each entry to one thread at a time.
THEOREM TableExclusive == Spec => []EntryOwned
<1>1. Init => TypeOK /\ EntryOwned
  BY TypeInit
<1>2. TypeOK /\ EntryOwned /\ [Next]_vars => TypeOK' /\ EntryOwned'
  BY TypeStep
<1> QED
  BY <1>1, <1>2, PTL DEF Spec

-----------------------------------------------------------------------------
(* The inductive invariant.  First, what each side leaves alone.             *)

LEMMA PublishKeeps ==
  Publish => UNCHANGED <<cursor, consumerVars>>
BY DEF Publish, PublishTooLarge, PublishBegin, ScanEntry, PublishRefused,
       WriteHeader, WriteBody, CommitSlot, AdvanceHead

LEMMA ConsumerKeeps ==
  ASSUME NEW c \in Consumers, Register(c) \/ Unregister(c) \/ Consume(c)
  PROVE  UNCHANGED ringVars
BY DEF Register, RegisterLoad, ClaimEntry, SkipEntry, RegisterFull, Unregister,
       Consume, ConsumeBegin, NotYet, FellBehind, ReadHeader, ReadBody,
       AdvanceCursor

\* A thread's step does not disturb another thread, nor the entry it holds.
LEMMA OthersKept ==
  ASSUME TypeOK, EntryOwned, NEW c \in Consumers,
         Register(c) \/ Unregister(c) \/ Consume(c),
         NEW d \in Consumers, d # c
  PROVE  /\ c_pc'[d] = c_pc[d] /\ start'[d] = start[d] /\ c_entry'[d] = c_entry[d]
         /\ c_hdr'[d] = c_hdr[d] /\ got'[d] = got[d]
         /\ d \in late' <=> d \in late
         /\ InUse(d) => cursor'[c_entry[d]] = cursor[c_entry[d]]
<1> USE DEF TypeOK, At
<1>1. CASE Register(c)
  BY <1>1 DEF Register, RegisterLoad, ClaimEntry, SkipEntry, RegisterFull,
              CallsOver, Taken, EntryOwned
<1>2. CASE Unregister(c)
  BY <1>2 DEF Unregister, CallsOver, EntryOwned, InUse
<1>3. CASE Consume(c)
  BY <1>3 DEF Consume, ConsumeBegin, NotYet, FellBehind, ReadHeader, ReadBody,
              AdvanceCursor, EntryOwned, InUse
<1> QED
  BY <1>1, <1>2, <1>3

-----------------------------------------------------------------------------
LEMMA HeadStep ==
  ASSUME TypeOK, HeadInv, Next
  PROVE  HeadInv'
<1>1. CASE Publish
  <2>1. start' = start
    BY <1>1, PublishKeeps DEF consumerVars
  <2>2. /\ Len(log)' = IF p_pc' = "advance" THEN producer_seq' + 1 ELSE producer_seq'
        /\ producer_seq' \in {producer_seq, producer_seq + 1}
    BY <1>1 DEF Publish, PublishTooLarge, PublishBegin, ScanEntry, PublishRefused,
         WriteHeader, WriteBody, CommitSlot, AdvanceHead, TypeOK, HeadInv
  <2>3. \A c \in Consumers : start'[c] <= producer_seq'
    BY <2>1, <2>2 DEF HeadInv, TypeOK
  <2> QED
    BY <2>2, <2>3 DEF HeadInv
<1>2. ASSUME NEW c \in Consumers, Register(c) \/ Unregister(c) \/ Consume(c)
      PROVE  HeadInv'
  <2>1. UNCHANGED ringVars
    BY <1>2, ConsumerKeeps
  <2>2. \A d \in Consumers : start'[d] \in {start[d], producer_seq, 0}
    BY <1>2 DEF Register, RegisterLoad, ClaimEntry, SkipEntry, RegisterFull,
         Unregister, CallsOver, Consume, ConsumeBegin, NotYet, FellBehind,
         ReadHeader, ReadBody, AdvanceCursor, TypeOK
  <2>3. UNCHANGED <<log, p_pc, producer_seq>>
    BY <2>1 DEF ringVars, producerVars
  <2>4. producer_seq \in Nat /\ \A d \in Consumers : start[d] <= producer_seq
    BY DEF HeadInv, TypeOK
  <2>5. \A d \in Consumers : start'[d] <= producer_seq'
    BY <2>2, <2>3, <2>4
  <2> QED
    BY <2>3, <2>5 DEF HeadInv
<1> QED
  BY <1>1, <1>2 DEF Next

-----------------------------------------------------------------------------
(* The lag.                                                                  *)

\* Each step of publish(): the scan's minimum stays below the cursors it has
\* passed, and a slot is written only when every cursor is within the ring.
LEMMA PublishLag ==
  ASSUME TypeOK, HeadInv, EntryOwned, LagInv, Publish
  PROVE  LagInv'
<1> SUFFICES ASSUME NEW c \in Consumers, Prompt(c)'
             PROVE  LET k == cursor[c_entry[c]]
                    IN  /\ k <= Len(log')
                        /\ producer_seq' - k <= RingSize
                        /\ p_pc' = "scan" /\ p_scan' > c_entry[c]
                             => \/ slowest' # Free /\ slowest' <= k
                                \/ producer_seq' - k < RingSize
                        /\ p_pc' \in {"body", "commit", "advance"}
                             => producer_seq' - k < RingSize
  BY PublishKeeps DEF LagInv, consumerVars
<1> DEFINE k == cursor[c_entry[c]]
<1>1. Prompt(c)
  BY PublishKeeps DEF Prompt, InUse, consumerVars
<1>2. k \in Nat /\ c_entry[c] \in Entries
  BY <1>1 DEF EntryOwned, TypeOK, Prompt
<1>3. /\ k <= Len(log)
      /\ producer_seq - k <= RingSize
      /\ p_pc = "scan" /\ p_scan > c_entry[c]
           => \/ slowest # Free /\ slowest <= k
              \/ producer_seq - k < RingSize
      /\ p_pc \in {"body", "commit", "advance"} => producer_seq - k < RingSize
  BY <1>1 DEF LagInv
<1> HIDE DEF k
<1>4. SUFFICES /\ k <= Len(log')
               /\ producer_seq' - k <= RingSize
               /\ p_pc' = "scan" /\ p_scan' > c_entry[c]
                    => \/ slowest' # Free /\ slowest' <= k
                       \/ producer_seq' - k < RingSize
               /\ p_pc' \in {"body", "commit", "advance"}
                    => producer_seq' - k < RingSize
  BY DEF k
<1> USE <1>2, <1>3, RingAssumption DEF TypeOK, ScanOver
<1>5. CASE \E m \in Messages : PublishTooLarge(m) \/ PublishBegin(m)
  BY <1>5 DEF PublishTooLarge, PublishBegin, Entries
<1>6. CASE ScanEntry
  <2>1. CASE c_entry[c] = p_scan
    BY <1>6, <2>1 DEF ScanEntry, Below, k
  <2>2. CASE c_entry[c] < p_scan
    <3>1. cursor[p_scan] \in Nat \cup {Free}
      BY <1>6 DEF ScanEntry, Entries
    <3> QED
      BY <1>6, <2>2, <3>1 DEF ScanEntry, Below
  <2>3. CASE c_entry[c] > p_scan
    BY <1>6, <2>3 DEF ScanEntry, Entries
  <2> QED
    BY <2>1, <2>2, <2>3 DEF Entries
<1>7. CASE PublishRefused
  BY <1>7 DEF PublishRefused
<1>8. CASE WriteHeader
  BY <1>8 DEF WriteHeader, Lagging, Entries
<1>9. CASE WriteBody
  BY <1>9 DEF WriteBody
<1>10. CASE CommitSlot
  BY <1>10 DEF CommitSlot
<1>11. CASE AdvanceHead
  BY <1>11 DEF AdvanceHead
<1> QED
  BY <1>5, <1>6, <1>7, <1>8, <1>9, <1>10, <1>11 DEF Publish

\* Each step of a consumer thread: a registration in time starts less than a
\* ring behind, and a cursor only moves on, to a message that is there.
LEMMA ConsumerLag ==
  ASSUME TypeOK, HeadInv, EntryOwned, LagInv, ReadInv,
         NEW c \in Consumers, Register(c) \/ Unregister(c) \/ Consume(c)
  PROVE  LagInv'
<1>1. UNCHANGED <<log, p_pc, producer_seq, p_scan, slowest>>
  BY ConsumerKeeps DEF ringVars, producerVars
<1> SUFFICES ASSUME NEW d \in Consumers, Prompt(d)'
             PROVE  LET k == cursor'[c_entry'[d]]
                    IN  /\ k <= Len(log)
                        /\ producer_seq - k <= RingSize
                        /\ p_pc = "scan" /\ p_scan > c_entry'[d]
                             => \/ slowest # Free /\ slowest <= k
                                \/ producer_seq - k < RingSize
                        /\ p_pc \in {"body", "commit", "advance"}
                             => producer_seq - k < RingSize
  BY <1>1 DEF LagInv
<1>2. CASE d # c
  <2>1. Prompt(d) /\ c_entry'[d] = c_entry[d] /\ cursor'[c_entry[d]] = cursor[c_entry[d]]
    BY <1>2, OthersKept DEF Prompt, InUse
  <2> QED
    BY <2>1 DEF LagInv
<1>3. CASE d = c
  <2>1. CASE ClaimEntry(c)
    <3> DEFINE gap == producer_seq - start[c]
    <3>1. gap \in Int /\ start[c] \in Nat /\ producer_seq \in Nat
      BY DEF TypeOK
    <3>2. start[c] <= Len(log)
      BY <3>1 DEF HeadInv
    <3>4. gap < RingSize
      <4>1. ~(gap >= RingSize)
        BY <1>3, <2>1 DEF ClaimEntry, Prompt
      <4> QED
        BY <3>1, <4>1, RingAssumption
    <3>3. cursor'[c_entry'[c]] = start[c]
      <4>1. c_entry[c] \in Entries
        BY <2>1, RingAssumption DEF ClaimEntry, TypeOK, Entries
      <4> QED
        BY <2>1, <4>1 DEF ClaimEntry, TypeOK
    <3> QED
      BY <1>3, <3>1, <3>2, <3>3, <3>4, RingAssumption
  <2>2. CASE AdvanceCursor(c)
    <3>1. Prompt(c) /\ c_pc[c] = "store"
      BY <1>3, <2>2 DEF AdvanceCursor, At, Prompt, InUse
    <3>2. /\ c_entry[c] \in Entries
          /\ cursor[c_entry[c]] \in Nat
          /\ cursor[c_entry[c]] < Len(log)
      BY <3>1 DEF EntryOwned, ReadInv, TypeOK, Prompt
    <3>3. c_entry' = c_entry /\ cursor'[c_entry[c]] = cursor[c_entry[c]] + 1
      BY <2>2, <3>2 DEF AdvanceCursor, TypeOK
    <3> QED
      BY <1>3, <3>1, <3>2, <3>3, RingAssumption DEF LagInv, TypeOK
  <2>3. CASE RegisterLoad(c) \/ SkipEntry(c) \/ RegisterFull(c) \/ Unregister(c)
    <3>1. ~InUse(c)'
      BY <2>3 DEF RegisterLoad, SkipEntry, RegisterFull, Unregister, At, InUse, TypeOK
    <3> QED
      BY <1>3, <3>1 DEF Prompt
  <2>4. CASE ConsumeBegin(c) \/ NotYet(c) \/ FellBehind(c) \/ ReadHeader(c) \/ ReadBody(c)
    <3>1. UNCHANGED <<cursor, c_entry>> /\ Prompt(c)
      BY <1>3, <2>4 DEF ConsumeBegin, NotYet, FellBehind, ReadHeader, ReadBody,
                        At, Prompt, InUse
    <3> QED
      BY <1>3, <3>1 DEF LagInv
  <2> QED
    BY <2>1, <2>2, <2>3, <2>4 DEF Register, Consume
<1> QED
  BY <1>2, <1>3

-----------------------------------------------------------------------------
(* The slots.                                                                *)

\* publish() overwrites the oldest message of the ring only, and leaves every
\* other slot as it is.
LEMMA PublishSlots ==
  ASSUME TypeOK, HeadInv, SlotInv, Publish
  PROVE  SlotInv'
<1> USE RingAssumption
<1>1. producer_seq \in Nat /\ Index(producer_seq) \in Slots
  BY IndexIsSlot DEF TypeOK
<1>2. \A n \in 0 .. producer_seq - 1 :
        producer_seq - n < RingSize => Index(n) # Index(producer_seq)
  BY <1>1, IndexDistinct
<1>3. CASE \/ \E m \in Messages : PublishTooLarge(m) \/ PublishBegin(m)
           \/ ScanEntry \/ PublishRefused
  <2>1. UNCHANGED <<slotVars, log, producer_seq>> /\ ~Writing /\ ~Writing'
    BY <1>3 DEF PublishTooLarge, PublishBegin, ScanEntry, PublishRefused, Writing
  <2> QED
    BY <2>1 DEF SlotInv, Writing, slotVars
<1>4. CASE WriteHeader
  <2>1. /\ UNCHANGED <<slot_seq, slot_body, producer_seq, log, p_msg>>
        /\ ~Writing /\ Writing' /\ p_pc' = "body" /\ Len(log) = producer_seq
    BY <1>4 DEF WriteHeader, Writing, HeadInv
  <2>2. /\ slot_hdr'[Index(producer_seq)] = p_msg
        /\ \A i \in Slots : i # Index(producer_seq) => slot_hdr'[i] = slot_hdr[i]
    BY <1>1, <1>4 DEF WriteHeader, TypeOK
  <2>3. ASSUME NEW n \in 0 .. Len(log) - 1, Len(log) - n <= RingSize,
               n # producer_seq - RingSize
        PROVE  slot_hdr'[Index(n)] = log[n + 1] /\ slot_body[Index(n)] = log[n + 1]
    <3>1. Index(n) # Index(producer_seq)
      BY <1>1, <1>2, <2>1, <2>3
    <3>2. Index(n) \in Slots
      BY IndexIsSlot
    <3> QED
      BY <2>1, <2>2, <2>3, <3>1, <3>2 DEF SlotInv
  <2> QED
    BY <2>1, <2>2, <2>3 DEF SlotInv
<1>5. CASE WriteBody
  <2>1. /\ UNCHANGED <<slot_seq, slot_hdr, producer_seq, log, p_msg>>
        /\ Writing /\ Writing' /\ p_pc' = "commit" /\ Len(log) = producer_seq
    BY <1>5 DEF WriteBody, Writing, HeadInv
  <2>2. /\ slot_body'[Index(producer_seq)] = p_msg
        /\ \A i \in Slots : i # Index(producer_seq) => slot_body'[i] = slot_body[i]
    BY <1>1, <1>5 DEF WriteBody, TypeOK
  <2>3. ASSUME NEW n \in 0 .. Len(log) - 1, Len(log) - n <= RingSize,
               n # producer_seq - RingSize
        PROVE  slot_hdr[Index(n)] = log[n + 1] /\ slot_body'[Index(n)] = log[n + 1]
    <3>1. Index(n) # Index(producer_seq)
      BY <1>1, <1>2, <2>1, <2>3
    <3>2. Index(n) \in Slots
      BY IndexIsSlot
    <3> QED
      BY <2>1, <2>2, <2>3, <3>1, <3>2 DEF SlotInv
  <2> QED
    BY <2>1, <2>2, <2>3 DEF SlotInv
<1>6. CASE CommitSlot
  <2>1. /\ UNCHANGED <<slot_hdr, slot_body, producer_seq>>
        /\ Writing /\ ~Writing' /\ p_pc = "commit" /\ Len(log) = producer_seq
    BY <1>6 DEF CommitSlot, Writing, HeadInv
  <2>2. /\ slot_seq'[Index(producer_seq)] = producer_seq + 1
        /\ \A i \in Slots : i # Index(producer_seq) => slot_seq'[i] = slot_seq[i]
    BY <1>1, <1>6 DEF CommitSlot, TypeOK
  <2>3. /\ log' = Append(log, p_msg) /\ Len(log') = producer_seq + 1
        /\ log'[producer_seq + 1] = p_msg
        /\ \A n \in 0 .. producer_seq - 1 : log'[n + 1] = log[n + 1]
    <3>1. log \in Seq(Fitting) /\ p_msg \in Fitting /\ log' = Append(log, p_msg)
      BY <1>6 DEF CommitSlot, TypeOK
    <3> QED
      BY <2>1, <1>1, <3>1
  <2>4. \A i \in Slots : slot_seq'[i] <= Len(log')
    <3>1. \A i \in Slots : slot_seq[i] \in Nat /\ slot_seq[i] <= producer_seq
      BY <2>1 DEF SlotInv, TypeOK
    <3> QED
      BY <1>1, <2>2, <2>3, <3>1
  <2>5. ASSUME NEW n \in 0 .. Len(log') - 1, Len(log') - n <= RingSize
        PROVE  /\ slot_seq'[Index(n)] = n + 1
               /\ slot_hdr[Index(n)] = log'[n + 1] /\ slot_body[Index(n)] = log'[n + 1]
    <3>1. CASE n = producer_seq
      BY <2>1, <2>2, <2>3, <3>1 DEF SlotInv
    <3>2. CASE n # producer_seq
      <4>1. n \in 0 .. producer_seq - 1 /\ producer_seq - n < RingSize
        BY <1>1, <2>3, <2>5, <3>2
      <4>2. Index(n) # Index(producer_seq) /\ Index(n) \in Slots
        BY <1>2, <4>1, IndexIsSlot
      <4>3. /\ slot_seq[Index(n)] = n + 1
            /\ slot_hdr[Index(n)] = log[n + 1] /\ slot_body[Index(n)] = log[n + 1]
        BY <1>1, <2>1, <4>1 DEF SlotInv
      <4> QED
        BY <2>2, <2>3, <4>1, <4>2, <4>3
    <3> QED
      BY <3>1, <3>2
  <2> QED
    BY <2>1, <2>4, <2>5, <1>6 DEF SlotInv, CommitSlot
<1>7. CASE AdvanceHead
  <2>1. UNCHANGED <<slotVars, log>> /\ ~Writing /\ ~Writing'
    BY <1>7 DEF AdvanceHead, Writing
  <2> QED
    BY <2>1 DEF SlotInv, Writing, slotVars
<1> QED
  BY <1>3, <1>4, <1>5, <1>6, <1>7 DEF Publish

-----------------------------------------------------------------------------
(* What a consumer reads.                                                    *)

\* Appending to the log does not change what was read from it.
LEMMA PublishReads ==
  ASSUME TypeOK, HeadInv, EntryOwned, LagInv, ReadInv, Publish
  PROVE  ReadInv'
<1>1. UNCHANGED <<cursor, c_pc, start, c_entry, c_hdr, got, late>>
  BY PublishKeeps DEF consumerVars
<1>2. log \in Seq(Fitting)
      /\ (log' = log \/ \E m \in Fitting : log' = Append(log, m))
  BY DEF Publish, PublishTooLarge, PublishBegin, ScanEntry, PublishRefused,
         WriteHeader, WriteBody, CommitSlot, AdvanceHead, TypeOK
<1>3. Len(log) \in Nat /\ Len(log') >= Len(log) /\ Len(log') \in Nat
      /\ \A n \in 1 .. Len(log) : log'[n] = log[n]
  BY <1>2
<1> SUFFICES ASSUME NEW c \in Consumers, Prompt(c)
             PROVE  LET k == cursor[c_entry[c]]
                    IN  /\ c_pc[c] \in {"body", "store"} => k < Len(log')
                        /\ c_pc[c] = "body" => c_hdr[c] = log'[k + 1]
                        /\ start[c] + Len(got[c]) = IF c_pc[c] = "store" THEN k + 1 ELSE k
                        /\ \A i \in 1 .. Len(got[c]) :
                             got[c][i] = <<log'[start[c] + i], log'[start[c] + i]>>
  BY <1>1 DEF ReadInv, Prompt, InUse
<1> DEFINE k == cursor[c_entry[c]]
<1>4. k \in Nat /\ k <= Len(log)
  BY DEF EntryOwned, TypeOK, Prompt, LagInv
<1>5. start[c] \in Nat /\ Len(got[c]) \in Nat
  BY DEF TypeOK
<1>6. /\ c_pc[c] \in {"body", "store"} => k < Len(log)
      /\ c_pc[c] = "body" => c_hdr[c] = log[k + 1]
      /\ start[c] + Len(got[c]) = IF c_pc[c] = "store" THEN k + 1 ELSE k
      /\ \A i \in 1 .. Len(got[c]) : got[c][i] = <<log[start[c] + i], log[start[c] + i]>>
  BY DEF ReadInv
<1>7. start[c] + Len(got[c]) <= Len(log)
  <2> HIDE DEF k
  <2> QED
    BY <1>3, <1>4, <1>5, <1>6
<1>8. \A i \in 1 .. Len(got[c]) : start[c] + i \in 1 .. Len(log)
  BY <1>3, <1>5, <1>7
<1>9. c_pc[c] = "body" => k + 1 \in 1 .. Len(log)
  <2> HIDE DEF k
  <2> QED
    BY <1>3, <1>4, <1>6
<1>10. c_pc[c] \in {"body", "store"} => k < Len(log')
  <2> HIDE DEF k
  <2> QED
    BY <1>3, <1>4, <1>6
<1> QED
  BY <1>3, <1>6, <1>8, <1>9, <1>10

\* The slot a consumer is about to read, or is reading, holds its message.
LEMMA SlotIsMessage ==
  ASSUME TypeOK, HeadInv, EntryOwned, LagInv, SlotInv,
         NEW c \in Consumers, Prompt(c), cursor[c_entry[c]] < Len(log)
  PROVE  LET k == cursor[c_entry[c]]
         IN  /\ slot_seq[Index(k)] = k + 1
             /\ slot_hdr[Index(k)] = log[k + 1]
             /\ slot_body[Index(k)] = log[k + 1]
<1> DEFINE k == cursor[c_entry[c]]
<1>1. k \in Nat /\ k < Len(log) /\ producer_seq \in Nat /\ Len(log) \in Nat
  BY DEF EntryOwned, TypeOK, Prompt
<1>2. /\ producer_seq - k <= RingSize
      /\ p_pc \in {"body", "commit", "advance"} => producer_seq - k < RingSize
  BY DEF LagInv
<1>3. Len(log) = IF p_pc = "advance" THEN producer_seq + 1 ELSE producer_seq
  BY DEF HeadInv
<1> HIDE DEF k
<1>4. k \in 0 .. Len(log) - 1 /\ Len(log) - k <= RingSize
  BY <1>1, <1>2, <1>3, RingAssumption
<1>5. ~(Writing /\ k = producer_seq - RingSize)
  BY <1>1, <1>2, RingAssumption DEF Writing
<1> QED
  BY <1>4, <1>5 DEF SlotInv, k

\* Each step of a consumer thread.
LEMMA ConsumerReads ==
  ASSUME TypeOK, HeadInv, EntryOwned, LagInv, SlotInv, ReadInv,
         NEW c \in Consumers, Register(c) \/ Unregister(c) \/ Consume(c)
  PROVE  ReadInv'
<1>1. log' = log
  BY ConsumerKeeps DEF ringVars
<1> DEFINE Reads(d) ==
      /\ ~InUse(d) => got[d] = <<>>
      /\ Prompt(d) =>
           LET k == cursor[c_entry[d]]
           IN  /\ c_pc[d] \in {"body", "store"} => k < Len(log)
               /\ c_pc[d] = "body" => c_hdr[d] = log[k + 1]
               /\ start[d] + Len(got[d]) = IF c_pc[d] = "store" THEN k + 1 ELSE k
               /\ \A i \in 1 .. Len(got[d]) :
                    got[d][i] = <<log[start[d] + i], log[start[d] + i]>>
<1>2. \A d \in Consumers : Reads(d)
  BY DEF ReadInv
<1>3. ASSUME NEW d \in Consumers, d # c PROVE Reads(d)'
  <2>1. Prompt(d)' <=> Prompt(d)
    BY <1>3, OthersKept DEF Prompt, InUse
  <2>2. InUse(d)' <=> InUse(d)
    BY <1>3, OthersKept DEF InUse
  <2> QED
    BY <1>1, <1>2, <1>3, <2>1, <2>2, OthersKept DEF Prompt
<1>4. Reads(c)'
  <2>1. CASE RegisterLoad(c) \/ SkipEntry(c) \/ RegisterFull(c)
    BY <1>2, <2>1 DEF RegisterLoad, SkipEntry, RegisterFull, At, Prompt, InUse, TypeOK
  <2>2. CASE ClaimEntry(c)
    <3>1. c_entry[c] \in Entries
      BY <2>2, RingAssumption DEF ClaimEntry, TypeOK, Entries
    <3>2. got'[c] = <<>> /\ c_pc'[c] = "ready" /\ start'[c] = start[c]
      BY <1>2, <2>2 DEF ClaimEntry, At, InUse, TypeOK
    <3>3. cursor'[c_entry'[c]] = start[c] /\ start[c] \in Nat
      BY <2>2, <3>1 DEF ClaimEntry, TypeOK
    <3> QED
      BY <3>2, <3>3 DEF InUse
  <2>3. CASE Unregister(c)
    BY <2>3 DEF Unregister, At, Prompt, InUse, TypeOK
  <2>4. CASE ConsumeBegin(c) \/ NotYet(c) \/ FellBehind(c)
    BY <1>1, <1>2, <2>4 DEF ConsumeBegin, NotYet, FellBehind, At, Prompt, InUse, TypeOK
  <2>5. CASE ReadHeader(c)
    <3>1. /\ c_pc[c] = "poll" /\ c_pc'[c] = "body" /\ InUse(c) /\ InUse(c)'
          /\ UNCHANGED <<cursor, c_entry, start, got, late>>
      BY <2>5 DEF ReadHeader, At, InUse, TypeOK
    <3>2. ASSUME Prompt(c)
          PROVE  cursor[c_entry[c]] < Len(log) /\ c_hdr'[c] = log[cursor[c_entry[c]] + 1]
      <4>1. cursor[c_entry[c]] \in Nat /\ Len(log) \in Nat
        BY <3>1 DEF EntryOwned, TypeOK
      <4>2. slot_seq[Index(cursor[c_entry[c]])] = cursor[c_entry[c]] + 1
        BY <2>5 DEF ReadHeader, SeenSeq, Expected
      <4>3. slot_seq[Index(cursor[c_entry[c]])] <= Len(log)
        BY <4>1, IndexIsSlot DEF SlotInv
      <4>4. cursor[c_entry[c]] < Len(log)
        BY <4>1, <4>2, <4>3
      <4>5. c_hdr'[c] = slot_hdr[Index(cursor[c_entry[c]])]
        BY <2>5 DEF ReadHeader, TypeOK
      <4> QED
        BY <3>2, <4>4, <4>5, SlotIsMessage
    <3>3. Prompt(c)' <=> Prompt(c)
      BY <3>1 DEF Prompt
    <3> QED
      BY <1>1, <1>2, <3>1, <3>2, <3>3
  <2>6. CASE ReadBody(c)
    <3>1. /\ c_pc[c] = "body" /\ c_pc'[c] = "store" /\ InUse(c) /\ InUse(c)'
          /\ UNCHANGED <<cursor, c_entry, start, late>>
      BY <2>6 DEF ReadBody, At, InUse, TypeOK
    <3>2. Prompt(c)' <=> Prompt(c)
      BY <3>1 DEF Prompt
    <3>3. ASSUME Prompt(c)
          PROVE  /\ cursor[c_entry[c]] < Len(log)
                 /\ start[c] + Len(got'[c]) = cursor[c_entry[c]] + 1
                 /\ \A i \in 1 .. Len(got'[c]) :
                      got'[c][i] = <<log[start[c] + i], log[start[c] + i]>>
      <4> DEFINE k == cursor[c_entry[c]]
                 g == got[c]
                 e == <<log[k + 1], log[k + 1]>>
      <4>1. k \in Nat /\ start[c] \in Nat
        BY <3>1 DEF EntryOwned, TypeOK
      <4>2. k < Len(log) /\ c_hdr[c] = log[k + 1] /\ start[c] + Len(g) = k
            /\ \A i \in 1 .. Len(g) : g[i] = <<log[start[c] + i], log[start[c] + i]>>
        BY <1>2, <3>1, <3>3
      <4>3. slot_body[Index(k)] = log[k + 1]
        BY <3>3, <4>2, SlotIsMessage
      <4>4. got'[c] = Append(g, e)
        BY <2>6, <4>2, <4>3 DEF ReadBody, TypeOK
      <4>5. g \in Seq((Fitting \cup {NoMsg}) \X (Fitting \cup {NoMsg}))
        BY DEF TypeOK
      <4> HIDE DEF g, e, k
      <4>6. /\ Len(got'[c]) = Len(g) + 1
            /\ \A i \in 1 .. Len(g) : got'[c][i] = g[i]
            /\ got'[c][Len(g) + 1] = e
        BY <4>4, <4>5
      <4>7. e = <<log[start[c] + (Len(g) + 1)], log[start[c] + (Len(g) + 1)]>>
        BY <4>1, <4>2, <4>5 DEF e
      <4>8. \A i \in 1 .. Len(got'[c]) :
              got'[c][i] = <<log[start[c] + i], log[start[c] + i]>>
        BY <4>2, <4>5, <4>6, <4>7
      <4>9. start[c] + Len(got'[c]) = k + 1
        <5>1. Len(g) \in Nat /\ Len(got'[c]) = Len(g) + 1
          BY <4>5, <4>6
        <5>2. start[c] + Len(g) = k
          BY <4>2
        <5> QED
          BY <4>1, <5>1, <5>2
      <4> QED
        BY <4>2, <4>8, <4>9 DEF k
    <3> QED
      BY <1>1, <3>1, <3>2, <3>3
  <2>7. CASE AdvanceCursor(c)
    <3>1. /\ c_pc[c] = "store" /\ c_pc'[c] = "ready" /\ InUse(c) /\ InUse(c)'
          /\ UNCHANGED <<c_entry, start, got, late>>
      BY <2>7 DEF AdvanceCursor, At, InUse, TypeOK
    <3>2. cursor'[c_entry[c]] = cursor[c_entry[c]] + 1
      BY <2>7, <3>1 DEF AdvanceCursor, EntryOwned, TypeOK
    <3>3. Prompt(c)' <=> Prompt(c)
      BY <3>1 DEF Prompt
    <3> QED
      BY <1>1, <1>2, <3>1, <3>2, <3>3
  <2> QED
    BY <2>1, <2>2, <2>3, <2>4, <2>5, <2>6, <2>7 DEF Register, Consume
<1> QED
  BY <1>3, <1>4 DEF ReadInv

-----------------------------------------------------------------------------
(* The invariant of the ring, and the properties that follow from it.        *)

LEMMA InitInv == Init => IInv
<1> SUFFICES ASSUME Init PROVE IInv
  OBVIOUS
<1>1. TypeOK /\ EntryOwned
  BY TypeInit
<1>2. HeadInv /\ SlotInv
  BY RingAssumption, IndexIsSlot DEF Init, HeadInv, SlotInv, Writing
<1>3. LagInv /\ ReadInv
  BY DEF Init, LagInv, ReadInv, Prompt, InUse
<1> QED
  BY <1>1, <1>2, <1>3 DEF IInv

LEMMA StepInv == IInv /\ [Next]_vars => IInv'
<1> SUFFICES ASSUME IInv, [Next]_vars PROVE IInv'
  OBVIOUS
<1>1. TypeOK' /\ EntryOwned'
  BY TypeStep DEF IInv
<1>2. CASE Publish
  BY <1>1, <1>2, HeadStep, PublishLag, PublishSlots, PublishReads DEF IInv, Next
<1>3. ASSUME NEW c \in Consumers, Register(c) \/ Unregister(c) \/ Consume(c)
      PROVE  IInv'
  <2>1. HeadInv' /\ LagInv' /\ ReadInv'
    BY <1>3, HeadStep, ConsumerLag, ConsumerReads DEF IInv, Next
  <2>2. SlotInv'
    BY <1>3, ConsumerKeeps DEF IInv, SlotInv, ringVars, slotVars, producerVars, Writing
  <2> QED
    BY <1>1, <2>1, <2>2 DEF IInv
<1>4. CASE UNCHANGED vars
  <2>1. HeadInv' /\ LagInv'
    BY <1>4 DEF vars, slotVars, producerVars, consumerVars, IInv, HeadInv, LagInv,
                Prompt, InUse
  <2>2. SlotInv' /\ ReadInv'
    BY <1>4 DEF vars, slotVars, producerVars, consumerVars, IInv, SlotInv, ReadInv,
                Prompt, InUse, Writing
  <2> QED
    BY <1>1, <2>1, <2>2 DEF IInv
<1> QED
  BY <1>2, <1>3, <1>4 DEF Next

\* IInv is an inductive invariant of the ring.
THEOREM Invariance == Spec => []IInv
<1> QED
  BY InitInv, StepInv, PTL DEF Spec

\* The bounds of a consumer that registered in time.
LEMMA LagBound ==
  ASSUME IInv, NEW c \in Consumers, Prompt(c)
  PROVE  /\ cursor[c_entry[c]] \in Nat /\ c_entry[c] \in Entries
         /\ cursor[c_entry[c]] <= Len(log)
         /\ Len(log) - cursor[c_entry[c]] <= RingSize
         /\ p_pc \in {"body", "commit"} => producer_seq - cursor[c_entry[c]] < RingSize
<1> DEFINE k == cursor[c_entry[c]]
<1>1. k \in Nat /\ c_entry[c] \in Entries /\ producer_seq \in Nat /\ Len(log) \in Nat
  BY DEF IInv, EntryOwned, TypeOK, Prompt
<1>2. /\ k <= Len(log)
      /\ producer_seq - k <= RingSize
      /\ p_pc \in {"body", "commit", "advance"} => producer_seq - k < RingSize
  BY DEF IInv, LagInv
<1>3. Len(log) = IF p_pc = "advance" THEN producer_seq + 1 ELSE producer_seq
  BY DEF IInv, HeadInv
<1> HIDE DEF k
<1>4. Len(log) - k <= RingSize
  BY <1>1, <1>2, <1>3, RingAssumption
<1> QED
  BY <1>1, <1>2, <1>4 DEF k

\* Backpressure: publish() never takes the head more than a ring past the cursor
\* of a consumer that registered in time, whatever moves while it scans.
THEOREM Backpressure == Spec => []BoundedLag
<1>1. IInv => BoundedLag
  BY LagBound DEF BoundedLag
<1> QED
  BY <1>1, Invariance, PTL

\* publish() writes no slot that the callback of such a consumer is reading.
THEOREM DataRaceFreedom == Spec => []NoDataRace
<1>1. ASSUME IInv, NEW c \in Consumers, Prompt(c), c_pc[c] = "body", Writing
      PROVE  Index(cursor[c_entry[c]]) # Index(producer_seq)
  <2>1. /\ cursor[c_entry[c]] \in Nat /\ producer_seq \in Nat
        /\ producer_seq - cursor[c_entry[c]] < RingSize
    BY <1>1, LagBound DEF IInv, TypeOK, Writing
  <2>2. cursor[c_entry[c]] < producer_seq
    BY <1>1 DEF IInv, ReadInv, HeadInv, Writing
  <2> QED
    BY <2>1, <2>2, IndexDistinct
<1>2. IInv => NoDataRace
  BY <1>1 DEF NoDataRace
<1> QED
  BY <1>2, Invariance, PTL

\* Such a consumer never gets FellBehind.
THEOREM NeverFallsBehind == Spec => []NeverLapped
<1>1. ASSUME IInv, NEW c \in Consumers, Prompt(c)
      PROVE  SeenSeq(c) <= Expected(c)
  <2> DEFINE k == cursor[c_entry[c]]
  <2>1. k \in Nat /\ k <= Len(log) /\ Len(log) \in Nat
    BY <1>1, LagBound DEF IInv, TypeOK
  <2>2. CASE k < Len(log)
    BY <1>1, <2>1, <2>2, SlotIsMessage DEF IInv, SeenSeq, Expected
  <2>3. CASE k = Len(log)
    <3>1. slot_seq[Index(k)] \in Nat /\ slot_seq[Index(k)] <= Len(log)
      BY <2>1, IndexIsSlot, <1>1 DEF IInv, SlotInv, TypeOK
    <3> QED
      BY <2>1, <2>3, <3>1 DEF SeenSeq, Expected
  <2> QED
    BY <2>1, <2>2, <2>3
<1>2. IInv => NeverLapped
  BY <1>1 DEF NeverLapped
<1> QED
  BY <1>2, Invariance, PTL

\* And it is given the log from its start, in order, complete and untorn.
THEOREM Broadcast == Spec => []InOrder
<1>1. ASSUME IInv, NEW c \in Consumers, Prompt(c)
      PROVE  /\ start[c] + Len(got[c]) <= Len(log)
             /\ \A i \in 1 .. Len(got[c]) :
                  got[c][i] = <<log[start[c] + i], log[start[c] + i]>>
  <2> DEFINE k == cursor[c_entry[c]]
  <2>1. k \in Nat /\ k <= Len(log) /\ Len(log) \in Nat
    BY <1>1, LagBound DEF IInv, TypeOK
  <2>2. /\ c_pc[c] \in {"body", "store"} => k < Len(log)
        /\ start[c] + Len(got[c]) = IF c_pc[c] = "store" THEN k + 1 ELSE k
        /\ \A i \in 1 .. Len(got[c]) :
             got[c][i] = <<log[start[c] + i], log[start[c] + i]>>
    BY <1>1 DEF IInv, ReadInv
  <2> HIDE DEF k
  <2> QED
    BY <2>1, <2>2
<1>2. IInv => InOrder
  BY <1>1 DEF InOrder
<1> QED
  BY <1>2, Invariance, PTL

-----------------------------------------------------------------------------
(* The consumer table as a whole: how far a walk through it can get.         *)

\* The sets that Crowded counts are finite, and none is larger than Consumers.
LEMMA BeyondFinite ==
  ASSUME NEW S \in SUBSET Consumers
  PROVE  /\ IsFiniteSet(S) /\ Cardinality(S) \in Nat
         /\ Cardinality(Consumers) \in Nat /\ Cardinality(S) <= Cardinality(Consumers)
         /\ \A T \in SUBSET S : Cardinality(T) \in Nat /\ Cardinality(T) <= Cardinality(S)
<1>1. IsFiniteSet(S) /\ Cardinality(S) <= Cardinality(Consumers)
  BY ThreadsAssumption, FS_Subset
<1> QED
  BY <1>1, ThreadsAssumption, FS_Subset, FS_CardinalityType

\* A set without one of its elements is smaller by one.
LEMMA OneFewer ==
  ASSUME NEW S \in SUBSET Consumers, NEW h \in S, NEW T \in SUBSET (S \ {h})
  PROVE  Cardinality(T) + 1 <= Cardinality(S)
<1>1. IsFiniteSet(S) /\ IsFiniteSet(S \ {h}) /\ Cardinality(S \ {h}) = Cardinality(S) - 1
  BY BeyondFinite, FS_RemoveElement
<1>2. Cardinality(T) <= Cardinality(S \ {h}) /\ Cardinality(T) \in Nat
  BY <1>1, FS_Subset, FS_CardinalityType
<1> QED
  BY <1>1, <1>2, BeyondFinite

LEMMA CrowdedInit == Init => Crowded
<1> SUFFICES ASSUME Init, NEW c \in Consumers
             PROVE  Cardinality(Beyond(c_entry[c])) + c_entry[c] <= Cardinality(Consumers)
  BY DEF Crowded
<1>1. c_entry[c] = 0 /\ Beyond(0) \in SUBSET Consumers
  BY DEF Init, Beyond
<1> QED
  BY <1>1, BeyondFinite

\* A thread that stays where it is, or goes back to the start, makes room.
LEMMA CrowdedBack ==
  ASSUME TypeOK, Crowded,
         \A d \in Consumers : c_entry'[d] = c_entry[d] \/ c_entry'[d] = 0
  PROVE  Crowded'
<1> SUFFICES ASSUME NEW d \in Consumers
             PROVE  Cardinality(Beyond(c_entry[d])') + c_entry'[d] <= Cardinality(Consumers)
  BY DEF Crowded
<1>1. c_entry \in [Consumers -> Nat]
  BY RingAssumption DEF TypeOK
<1>2. CASE c_entry'[d] = 0
  <2>1. Beyond(c_entry[d])' \in SUBSET Consumers
    BY DEF Beyond
  <2> QED
    BY <1>2, <2>1, BeyondFinite
<1>3. CASE c_entry'[d] # 0
  <2>1. c_entry'[d] = c_entry[d] /\ c_entry[d] > 0
    BY <1>1, <1>3
  <2>2. Beyond(c_entry[d])' \in SUBSET Beyond(c_entry[d]) /\ Beyond(c_entry[d]) \in SUBSET Consumers
    BY <1>1, <2>1 DEF Beyond
  <2>3. Cardinality(Beyond(c_entry[d])) + c_entry[d] <= Cardinality(Consumers)
    BY DEF Crowded
  <2> QED
    BY <1>1, <2>1, <2>2, <2>3, BeyondFinite
<1> QED
  BY <1>2, <1>3

\* A thread that passes an entry leaves the owner of the entry behind.
LEMMA CrowdedSkip ==
  ASSUME TypeOK, EntryOwned, Crowded, NEW c \in Consumers, SkipEntry(c)
  PROVE  Crowded'
<1> DEFINE k == c_entry[c]
<1>1. c_entry \in [Consumers -> Nat] /\ k \in Entries /\ cursor[k] # Free
  BY RingAssumption DEF TypeOK, SkipEntry, Taken, Entries
<1>2. /\ c_entry'[c] = k + 1
      /\ \A d \in Consumers : d # c => c_entry'[d] = c_entry[d]
  BY <1>1 DEF SkipEntry
<1>3. PICK h \in Consumers : InUse(h) /\ c_entry[h] = k
  BY <1>1 DEF EntryOwned
<1>4. h # c
  BY <1>3 DEF SkipEntry, InUse
<1>5. /\ Beyond(k) \in SUBSET Consumers /\ h \in Beyond(k)
      /\ {d \in Consumers : c_entry'[d] >= k + 1} \in SUBSET (Beyond(k) \ {h})
  BY <1>1, <1>2, <1>3, <1>4 DEF Beyond
<1>6. Cardinality(Beyond(k)) + k <= Cardinality(Consumers)
  BY DEF Crowded
<1>7. Cardinality({d \in Consumers : c_entry'[d] >= k + 1}) + (k + 1) <= Cardinality(Consumers)
  <2>1. Cardinality({d \in Consumers : c_entry'[d] >= k + 1}) + 1 <= Cardinality(Beyond(k))
    BY <1>5, OneFewer
  <2>2. Cardinality({d \in Consumers : c_entry'[d] >= k + 1}) \in Nat
    BY BeyondFinite
  <2> QED
    BY <1>1, <1>5, <1>6, <2>1, <2>2, BeyondFinite
<1> SUFFICES ASSUME NEW d \in Consumers
             PROVE  Cardinality(Beyond(c_entry[d])') + c_entry'[d] <= Cardinality(Consumers)
  BY DEF Crowded
<1>8. CASE c_entry'[d] = k + 1
  BY <1>7, <1>8 DEF Beyond
<1>9. CASE c_entry'[d] # k + 1
  <2>1. d # c /\ c_entry'[d] = c_entry[d]
    BY <1>2, <1>9
  <2>2. Beyond(c_entry[d])' = Beyond(c_entry[d])
    BY <1>1, <1>2, <1>9, <2>1 DEF Beyond
  <2> QED
    BY <2>1, <2>2 DEF Crowded
<1> QED
  BY <1>8, <1>9

LEMMA CrowdedStep ==
  TypeOK /\ EntryOwned /\ Crowded /\ [Next]_vars => Crowded'
<1> SUFFICES ASSUME TypeOK, EntryOwned, Crowded, [Next]_vars PROVE Crowded'
  OBVIOUS
<1>1. CASE \E c \in Consumers : SkipEntry(c)
  BY <1>1, CrowdedSkip
<1>2. CASE Publish \/ UNCHANGED vars
  BY <1>2, PublishKeeps, CrowdedBack DEF consumerVars, vars
<1>3. ASSUME NEW c \in Consumers, Register(c) \/ Unregister(c) \/ Consume(c), ~SkipEntry(c)
      PROVE  Crowded'
  <2>1. \A d \in Consumers : d # c => c_entry'[d] = c_entry[d]
    BY <1>3, OthersKept
  <2>2. c_entry'[c] = c_entry[c] \/ c_entry'[c] = 0
    BY <1>3 DEF Register, RegisterLoad, ClaimEntry, RegisterFull, Unregister, CallsOver,
                Consume, ConsumeBegin, NotYet, FellBehind, ReadHeader, ReadBody,
                AdvanceCursor, TypeOK
  <2> QED
    BY <2>1, <2>2, CrowdedBack
<1> QED
  BY <1>1, <1>2, <1>3 DEF Next

\* register_consumer() gets past entry i of the table only with i other threads
\* behind it, although entries are released and claimed all along its walk.
THEOREM WalkBounded == Spec => []Crowded
<1>1. Init => TypeOK /\ EntryOwned /\ Crowded
  BY TypeInit, CrowdedInit
<1>2. TypeOK /\ EntryOwned /\ Crowded /\ [Next]_vars => TypeOK' /\ EntryOwned' /\ Crowded'
  BY TypeStep, CrowdedStep
<1> QED
  BY <1>1, <1>2, PTL DEF Spec

\* It never returns RegisterError::Full if there are no more threads than entries.
THEOREM NeverFull == Spec => []EnoughEntries
<1>1. ASSUME TypeOK, Crowded, NEW c \in Consumers, Cardinality(Consumers) <= MaxConsumers
      PROVE  c_entry[c] < MaxConsumers
  <2>1. Beyond(c_entry[c]) \in SUBSET Consumers /\ c \in Beyond(c_entry[c]) /\ c_entry[c] \in Nat
    BY <1>1, RingAssumption DEF Beyond, TypeOK
  <2>2. {} \in SUBSET (Beyond(c_entry[c]) \ {c}) /\ Cardinality({}) = 0
    BY FS_EmptySet
  <2>3. 0 + 1 <= Cardinality(Beyond(c_entry[c]))
    BY <2>1, <2>2, OneFewer
  <2>4. Cardinality(Beyond(c_entry[c])) + c_entry[c] <= Cardinality(Consumers)
    BY <1>1 DEF Crowded
  <2> QED
    BY <1>1, <2>1, <2>3, <2>4, BeyondFinite, RingAssumption
<1>2. TypeOK /\ Crowded => EnoughEntries
  BY <1>1 DEF EnoughEntries
<1> QED
  BY <1>2, TypeCorrect, WalkBounded, PTL
=============================================================================
