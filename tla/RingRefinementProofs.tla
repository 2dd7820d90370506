------------------------ MODULE RingRefinementProofs ------------------------
(***************************************************************************)
(* The ring implements the bounded broadcast log: a proof of ImplementsLog *)
(* for every value of the constants.                                       *)
(***************************************************************************)
EXTENDS RingRefinement, RingProofs

-----------------------------------------------------------------------------
(* The state functions of the mapping, named.                                *)

Attached == {c \in Consumers : Prompt(c)}
From     == [c \in Consumers |-> IF Prompt(c) THEN start[c] ELSE 0]
SeenAll  == [c \in Consumers |-> IF Prompt(c) THEN Seen(c) ELSE <<>>]

\* A step after which the mapping says the same of a thread.
SameView(c) ==
  /\ Prompt(c)' <=> Prompt(c)
  /\ Prompt(c) => start'[c] = start[c] /\ got'[c] = got[c]

LEMMA AbstractInit == Init => Abstract!Init
BY DEF Init, Abstract!Init, Prompt, InUse

\* A step that changes neither the log nor any thread's view is a stutter.
LEMMA Stutter ==
  ASSUME log' = log, \A c \in Consumers : SameView(c)
  PROVE  UNCHANGED Abstract!logVars
<1>1. \A c \in Consumers : /\ Prompt(c)' <=> Prompt(c)
                           /\ From'[c] = From[c]
                           /\ SeenAll'[c] = SeenAll[c]
  BY DEF SameView, From, SeenAll, Seen
<1>2. Attached' = Attached
  BY <1>1 DEF Attached
<1>3. From' = From /\ SeenAll' = SeenAll
  BY <1>1 DEF From, SeenAll
<1> QED
  BY <1>2, <1>3 DEF Abstract!logVars, Attached, From, SeenAll

LEMMA SeenLength ==
  ASSUME TypeOK, NEW c \in Consumers
  PROVE  /\ Len(got[c]) \in Nat
         /\ Len(Seen(c)) = Len(got[c])
         /\ got[c] = <<>> => Seen(c) = <<>>
BY DEF TypeOK, Seen

\* Where a reader of the abstract log is: at its cursor, or one past it between
\* the callback and the store of the cursor.
LEMMA PositionIsCursor ==
  ASSUME IInv, NEW c \in Consumers, Prompt(c)
  PROVE  Abstract!Position(c)
           = IF c_pc[c] = "store" THEN cursor[c_entry[c]] + 1 ELSE cursor[c_entry[c]]
<1>1. Abstract!Position(c) = start[c] + Len(got[c])
  BY SeenLength DEF IInv, Abstract!Position
<1> QED
  BY <1>1 DEF IInv, ReadInv

-----------------------------------------------------------------------------
(* publish(): committing a slot appends to the log, all else is a stutter.   *)

LEMMA PublishImplements ==
  ASSUME IInv, Publish
  PROVE  Abstract!Next \/ UNCHANGED Abstract!logVars
<1>1. UNCHANGED <<cursor, c_pc, start, c_entry, got, late>>
  BY PublishKeeps DEF consumerVars
<1>2. \A c \in Consumers : SameView(c)
  BY <1>1 DEF SameView, Prompt, InUse
<1>3. CASE CommitSlot
  <2>1. p_msg \in Fitting /\ log' = Append(log, p_msg) /\ p_pc = "commit"
    BY <1>3 DEF CommitSlot, IInv, TypeOK
  <2>2. ASSUME NEW c \in Consumers, Prompt(c)
        PROVE  Len(log) - Abstract!Position(c) < RingSize
    <3>1. /\ cursor[c_entry[c]] \in Nat /\ producer_seq \in Nat
          /\ producer_seq - cursor[c_entry[c]] < RingSize
      BY <2>1, <2>2, LagBound DEF IInv, TypeOK
    <3>2. Len(log) = producer_seq
      BY <2>1 DEF IInv, HeadInv
    <3>3. Abstract!Position(c) \in {cursor[c_entry[c]], cursor[c_entry[c]] + 1}
      BY <2>2, PositionIsCursor
    <3> QED
      BY <3>1, <3>2, <3>3, RingAssumption
  <2>3. Attached' = Attached /\ From' = From /\ SeenAll' = SeenAll
    BY <1>1 DEF Attached, From, SeenAll, Prompt, InUse, Seen
  <2>4. Abstract!AppendMsg(p_msg)
    BY <2>1, <2>2, <2>3 DEF Abstract!AppendMsg, Attached, From, SeenAll
  <2> QED
    BY <2>1, <2>4 DEF Abstract!Next
<1>4. CASE log' = log
  BY <1>2, <1>4, Stutter
<1> QED
  BY <1>3, <1>4 DEF Publish, PublishTooLarge, PublishBegin, ScanEntry,
       PublishRefused, WriteHeader, WriteBody, AdvanceHead

-----------------------------------------------------------------------------
(* The consumer threads.                                                     *)

LEMMA OthersView ==
  ASSUME TypeOK, EntryOwned, NEW c \in Consumers,
         Register(c) \/ Unregister(c) \/ Consume(c),
         NEW d \in Consumers, d # c
  PROVE  SameView(d)
<1>1. /\ c_pc'[d] = c_pc[d] /\ start'[d] = start[d] /\ got'[d] = got[d]
      /\ d \in late' <=> d \in late
  BY OthersKept
<1>2. Prompt(d)' <=> Prompt(d)
  BY <1>1 DEF Prompt, InUse
<1> QED
  BY <1>1, <1>2 DEF SameView

LEMMA ConsumerImplements ==
  ASSUME IInv, NEW c \in Consumers, Register(c) \/ Unregister(c) \/ Consume(c)
  PROVE  Abstract!Next \/ UNCHANGED Abstract!logVars
<1> USE DEF At
<1>0. TypeOK /\ EntryOwned /\ ReadInv /\ HeadInv
  BY DEF IInv
<1>1. log' = log
  BY ConsumerKeeps DEF ringVars
<1>2. \A d \in Consumers : d # c => SameView(d)
  BY <1>0, OthersView
<1>3. \A d \in Consumers : d # c =>
        (Prompt(d)' <=> Prompt(d)) /\ From'[d] = From[d] /\ SeenAll'[d] = SeenAll[d]
  BY <1>2 DEF SameView, From, SeenAll, Seen
<1>4. CASE SameView(c)
  BY <1>1, <1>2, <1>4, Stutter
<1>5. CASE ClaimEntry(c) /\ c \notin late'
  <2>1. /\ ~Prompt(c) /\ Prompt(c)' /\ start'[c] = start[c] /\ got'[c] = <<>>
        /\ start[c] \in Nat /\ producer_seq \in Nat /\ start[c] <= producer_seq
    BY <1>0, <1>5 DEF ClaimEntry, Prompt, InUse, TypeOK, ReadInv, HeadInv
  <2>2. TypeOK'
    BY <1>0, ConsumerType
  <2>3. Seen(c)' = <<>>
    BY <2>1, <2>2, SeenLength DEF Seen
  <2>4. start[c] <= Len(log) /\ Len(log) - start[c] <= RingSize
    <3>1. Len(log) = producer_seq \/ Len(log) = producer_seq + 1
      BY <1>0 DEF HeadInv
    <3>2. ~(producer_seq - start[c] >= RingSize)
      BY <1>5 DEF ClaimEntry
    <3> QED
      BY <2>1, <3>1, <3>2, RingAssumption
  <2>5. Attached' = Attached \cup {c} /\ c \notin Attached
    BY <1>3, <2>1 DEF Attached
  <2>6. From' = [From EXCEPT ![c] = start[c]]
    BY <1>3, <2>1 DEF From
  <2>7. SeenAll' = SeenAll
    BY <1>3, <2>1, <2>3 DEF SeenAll
  <2>8. PICK n \in 0 .. Len(log) : n = start[c]
    BY <1>0, <2>1, <2>4 DEF TypeOK
  <2>9. Abstract!Attach(c, n)
    BY <1>1, <2>4, <2>5, <2>6, <2>7, <2>8 DEF Abstract!Attach, Attached, From, SeenAll
  <2> QED
    BY <2>9 DEF Abstract!Next
<1>6. CASE Unregister(c) /\ Prompt(c)
  <2>1. ~Prompt(c)'
    BY <1>0, <1>6 DEF Unregister, Prompt, InUse, TypeOK
  <2>2. Attached' = Attached \ {c} /\ c \in Attached
    BY <1>3, <1>6, <2>1 DEF Attached
  <2>3. From' = [From EXCEPT ![c] = 0]
    BY <1>3, <2>1 DEF From
  <2>4. SeenAll' = [SeenAll EXCEPT ![c] = <<>>]
    BY <1>3, <2>1 DEF SeenAll
  <2>5. Abstract!Detach(c)
    BY <1>1, <2>2, <2>3, <2>4 DEF Abstract!Detach, Attached, From, SeenAll
  <2> QED
    BY <2>5 DEF Abstract!Next
<1>7. CASE ReadBody(c) /\ Prompt(c)
  <2> DEFINE k == cursor[c_entry[c]]
             g == got[c]
             m == log[k + 1]
  <2>1. c_pc[c] = "body" /\ Prompt(c)' /\ start'[c] = start[c]
    BY <1>0, <1>7 DEF ReadBody, Prompt, InUse, TypeOK
  <2>2. k < Len(log) /\ c_hdr[c] = m
    BY <1>0, <1>7, <2>1 DEF ReadInv
  <2>3. slot_body[Index(k)] = m
    BY <1>7, <2>2, SlotIsMessage DEF IInv
  <2>4. got'[c] = Append(g, <<m, m>>)
    BY <1>0, <1>7, <2>2, <2>3 DEF ReadBody, TypeOK
  <2>5. Seen(c)' = Append(Seen(c), m)
    <3>1. g \in Seq((Fitting \cup {NoMsg}) \X (Fitting \cup {NoMsg}))
      BY <1>0 DEF TypeOK
    <3>2. /\ Len(got'[c]) = Len(g) + 1 /\ Len(g) \in Nat
          /\ \A i \in 1 .. Len(g) : got'[c][i] = g[i]
          /\ got'[c][Len(g) + 1] = <<m, m>>
      <4> HIDE DEF g, m
      <4> QED
        BY <2>4, <3>1
    <3>3. Seen(c)' = [i \in 1 .. Len(g) + 1 |-> IF i = Len(g) + 1 THEN m ELSE Whole(g[i])]
      <4> HIDE DEF g, m
      <4>1. Seen(c)' = [i \in 1 .. Len(got'[c]) |-> Whole(got'[c][i])]
        BY DEF Seen, Whole
      <4>2. \A i \in 1 .. Len(g) + 1 :
              Whole(got'[c][i]) = IF i = Len(g) + 1 THEN m ELSE Whole(g[i])
        BY <3>2 DEF Whole
      <4> QED
        BY <3>2, <4>1, <4>2
    <3>4. Append(Seen(c), m)
            = [i \in 1 .. Len(g) + 1 |-> IF i = Len(g) + 1 THEN m ELSE Whole(g[i])]
      BY <3>2 DEF Seen
    <3> QED
      BY <3>3, <3>4
  <2>6. Abstract!Position(c) = k
    BY <1>7, <2>1, PositionIsCursor
  <2>7. Attached' = Attached /\ c \in Attached
    BY <1>3, <1>7, <2>1 DEF Attached
  <2>8. From' = From
    BY <1>3, <1>7, <2>1 DEF From
  <2>9. SeenAll' = [SeenAll EXCEPT ![c] = Append(@, m)]
    BY <1>3, <1>7, <2>1, <2>5 DEF SeenAll
  <2>10. Abstract!Deliver(c)
    BY <1>1, <2>2, <2>6, <2>7, <2>8, <2>9 DEF Abstract!Deliver, Attached, From, SeenAll
  <2> QED
    BY <2>10 DEF Abstract!Next
<1>8. CASE ~Prompt(c) /\ ~Prompt(c)'
  BY <1>4, <1>8 DEF SameView
<1>9. CASE ConsumeBegin(c) \/ NotYet(c) \/ FellBehind(c) \/ ReadHeader(c) \/ AdvanceCursor(c)
  <2>1. UNCHANGED <<start, got, late>> /\ InUse(c) /\ InUse(c)'
    BY <1>0, <1>9 DEF ConsumeBegin, NotYet, FellBehind, ReadHeader, AdvanceCursor,
                      InUse, TypeOK
  <2>2. SameView(c)
    BY <2>1 DEF SameView, Prompt
  <2> QED
    BY <1>4, <2>2
<1>10. CASE RegisterLoad(c) \/ SkipEntry(c) \/ RegisterFull(c)
  BY <1>0, <1>8, <1>10 DEF RegisterLoad, SkipEntry, RegisterFull, Prompt, InUse, TypeOK
<1>11. CASE ClaimEntry(c) /\ c \in late'
  BY <1>0, <1>8, <1>11 DEF ClaimEntry, Prompt, InUse
<1>12. CASE Unregister(c) /\ ~Prompt(c)
  BY <1>0, <1>8, <1>12 DEF Unregister, Prompt, InUse, TypeOK
<1>13. CASE ReadBody(c) /\ ~Prompt(c)
  BY <1>0, <1>8, <1>13 DEF ReadBody, Prompt, InUse, TypeOK
<1> QED
  BY <1>5, <1>6, <1>7, <1>9, <1>10, <1>11, <1>12, <1>13 DEF Register, Consume

-----------------------------------------------------------------------------
\* The ring, with its scans, torn accesses and stale snapshots, implements the
\* bounded broadcast log for the consumers that registered in time.
THEOREM LogImplemented == Spec => ImplementsLog
<1>1. IInv /\ [Next]_vars => [Abstract!Next]_(Abstract!logVars)
  <2> SUFFICES ASSUME IInv, [Next]_vars
               PROVE  Abstract!Next \/ UNCHANGED Abstract!logVars
    OBVIOUS
  <2>1. CASE UNCHANGED vars
    <3>1. log' = log /\ \A c \in Consumers : SameView(c)
      BY <2>1 DEF vars, slotVars, producerVars, consumerVars, SameView, Prompt, InUse
    <3> QED
      BY <3>1, Stutter
  <2> QED
    BY <2>1, PublishImplements, ConsumerImplements DEF Next
<1> QED
  BY <1>1, AbstractInit, Invariance, PTL DEF Spec, ImplementsLog, Abstract!Spec
=============================================================================
