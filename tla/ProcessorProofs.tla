--------------------------- MODULE ProcessorProofs ---------------------------
(***************************************************************************)
(* Proofs about Processor, for all limits and for sequence numbers of any  *)
(* width: delivery in order, whatever the consumer does; and, when it does *)
(* not throw, the bounds of the window of packets that are held back.      *)
(***************************************************************************)
EXTENDS Processor, FiniteSetTheorems, SequenceTheorems, WellFoundedInduction,
        TLAPS

-----------------------------------------------------------------------------
(* Delivery in order.                                                      *)

\* OrderedDelivery, with the types it needs and what ties `value' and
\* `exhausted' to the rest of the state.
Ordered ==
    /\ ProcessorTypeOK
    /\ value # NoSequence <=> phase = "consume"
    /\ exhausted => next_sequence = NoSequence /\ Newest # NoSequence
    /\ OrderedDelivery

\* A packet that pop_ready releases was held back.
LEMMA FirstIsHeld ==
    ASSUME Ordered, CanPop
    PROVE  next_sequence \in pending
<1>1. pending # {} /\ Min(pending) = next_sequence
  BY DEF CanPop
<1>2. pending \subseteq Nat
  BY SequencesAssumption DEF Ordered, ProcessorTypeOK, Sequences
<1>3. \E x \in pending : \A y \in pending : ~ (y < x)
  <2>1. \E x \in pending : \A y \in pending :
           ~ (<<y, x>> \in OpToRel(<, Nat))
    BY <1>1, <1>2, NatLessThanWellFounded, WFMin
  <2>2. \A x, y \in Nat : <<y, x>> \in OpToRel(<, Nat) <=> y < x
    BY DEF OpToRel
  <2> QED BY <1>2, <2>1, <2>2
<1>4. \E x \in pending : \A y \in pending : x <= y
  BY <1>2, <1>3
<1>5. Min(pending) \in pending
  BY <1>4 DEF Min
<1> QED BY <1>1, <1>5

\* A new processor has delivered nothing.
LEMMA InitOrdered == ProcessorInit => Ordered
<1> SUFFICES ASSUME ProcessorInit PROVE Ordered
  OBVIOUS
<1>1. ProcessorTypeOK
  <2>1. /\ next_sequence \in 0 .. LastSequence /\ value \in 0 .. LastSequence
        /\ packets_delivered \in Nat
    BY SequencesAssumption DEF ProcessorInit, NoSequence
  <2>2. pending \subseteq Sequences /\ handed \in Seq(Sequences)
    BY DEF ProcessorInit
  <2>3. /\ exhausted \in BOOLEAN /\ phase \in {"idle", "consume", "pop"}
        /\ ordering \in sequence_result
    BY DEF ProcessorInit, sequence_result
  <2> QED BY <2>1, <2>2, <2>3 DEF ProcessorTypeOK
<1>2. handed = <<>> /\ Len(handed) = 0
  BY DEF ProcessorInit
<1> QED BY <1>1, <1>2 DEF ProcessorInit, Ordered, OrderedDelivery, Newest

\* Taking out the packet that is expected next (or the very first one) keeps
\* the order: push and pop_ready.
LEMMA AdvanceOrdered ==
    ASSUME Ordered, phase # "consume", NEW s \in Sequences, ~ exhausted,
           next_sequence = NoSequence \/ s = next_sequence,
           advance_after(s), value' = s, phase' = "consume",
           handed' = handed, pending' \subseteq Sequences,
           ordering' \in sequence_result, packets_delivered' \in Nat
    PROVE  Ordered'
<1>1. /\ s \in Nat /\ s # NoSequence /\ s <= LastSequence
      /\ LastSequence \in Nat
  BY SequencesAssumption DEF Sequences, NoSequence
<1>2. value = NoSequence /\ handed \in Seq(Sequences)
  BY DEF Ordered, ProcessorTypeOK
<1>3. /\ exhausted' = (s = LastSequence)
      /\ next_sequence' = IF s = LastSequence THEN NoSequence ELSE s + 1
  BY DEF advance_after
<1>4. ProcessorTypeOK'
  BY <1>1, <1>2, <1>3 DEF ProcessorTypeOK, NoSequence
<1>5. Newest' = s
  BY <1>1 DEF Newest
<1>6. ASSUME handed # <<>> PROVE s = handed[Len(handed)] + 1
  <2>1. Newest = handed[Len(handed)] /\ Newest \in Sequences
    BY <1>2, <1>6 DEF Newest
  <2>2. Newest \in Nat /\ Newest # NoSequence
    BY <2>1, SequencesAssumption DEF Sequences, NoSequence
  <2>3. next_sequence = Newest + 1
    BY <2>2 DEF Ordered, OrderedDelivery
  <2>4. next_sequence # NoSequence
    BY <2>2, <2>3 DEF NoSequence
  <2> QED BY <2>1, <2>3, <2>4
<1>7. OrderedDelivery'
  <2>1. \A i \in 1 .. Len(handed) - 1 : handed[i + 1] = handed[i] + 1
    BY DEF Ordered, OrderedDelivery
  <2>2. Newest' # NoSequence =>
           IF Newest' = LastSequence
           THEN exhausted' /\ next_sequence' = NoSequence
           ELSE ~ exhausted' /\ next_sequence' = Newest' + 1
    BY <1>3, <1>5
  <2> QED BY <1>6, <2>1, <2>2 DEF OrderedDelivery
<1>8. exhausted' => next_sequence' = NoSequence /\ Newest' # NoSequence
  BY <1>1, <1>3, <1>5
<1> QED BY <1>1, <1>4, <1>7, <1>8 DEF Ordered

\* Handing the packet over keeps the order, whether or not the consumer throws.
LEMMA HandOrdered ==
    ASSUME Ordered, phase = "consume",
           handed' = Append(handed, value), value' = NoSequence,
           phase' \in {"idle", "pop"}, UNCHANGED bufferVars,
           ordering' = ordering, packets_delivered' \in Nat
    PROVE  Ordered'
<1>1. /\ value \in Sequences /\ value # NoSequence
      /\ handed \in Seq(Sequences) /\ Len(handed) \in Nat
  BY SequencesAssumption DEF Ordered, ProcessorTypeOK, Sequences, NoSequence
<1>2. /\ handed' \in Seq(Sequences) /\ Len(handed') = Len(handed) + 1
      /\ handed' # <<>> /\ handed'[Len(handed')] = value
      /\ \A i \in 1 .. Len(handed) : handed'[i] = handed[i]
  BY <1>1
<1>3. Newest' = value /\ Newest = value
  BY <1>1, <1>2 DEF Newest
<1>4. ASSUME NEW i \in 1 .. Len(handed') - 1
      PROVE  handed'[i + 1] = handed'[i] + 1
  <2>1. i \in 1 .. Len(handed) /\ Len(handed) # 0
    BY <1>1, <1>2
  <2>2. CASE i < Len(handed)
    <3>1. i \in 1 .. Len(handed) - 1 /\ i + 1 \in 1 .. Len(handed)
      BY <1>1, <2>1, <2>2
    <3>2. handed[i + 1] = handed[i] + 1
      BY <3>1 DEF Ordered, OrderedDelivery
    <3> QED BY <1>2, <2>1, <3>1, <3>2
  <2>3. CASE i = Len(handed)
    <3>1. handed # <<>>
      BY <2>1
    <3>2. value = handed[Len(handed)] + 1
      BY <1>1, <3>1 DEF Ordered, OrderedDelivery
    <3> QED BY <1>2, <2>1, <2>3, <3>2
  <2> QED BY <1>1, <2>1, <2>2, <2>3
<1>5. OrderedDelivery'
  <2>1. Newest' # NoSequence =>
           IF Newest' = LastSequence
           THEN exhausted' /\ next_sequence' = NoSequence
           ELSE ~ exhausted' /\ next_sequence' = Newest' + 1
    BY <1>3 DEF Ordered, OrderedDelivery, bufferVars
  <2> QED BY <1>4, <2>1 DEF OrderedDelivery
<1>6. ProcessorTypeOK'
  BY <1>2, SequencesAssumption
     DEF Ordered, ProcessorTypeOK, bufferVars, NoSequence
<1> QED BY <1>1, <1>3, <1>5, <1>6 DEF Ordered, bufferVars

\* Steps that take no packet out keep the order.
LEMMA HoldOrdered ==
    ASSUME Ordered, UNCHANGED <<next_sequence, exhausted, value, handed>>,
           phase # "consume", phase' \in {"idle", "pop"},
           pending' \subseteq Sequences, ordering' \in sequence_result,
           packets_delivered' \in Nat
    PROVE  Ordered'
<1>1. Newest' = Newest
  BY DEF Newest
<1>2. OrderedDelivery'
  BY <1>1 DEF Ordered, OrderedDelivery
<1> QED BY <1>1, <1>2 DEF Ordered, ProcessorTypeOK

\* Every step of the processor keeps the order.
LEMMA NextOrdered ==
    ASSUME Ordered, [ProcessorNext]_processorVars
    PROVE  Ordered'
<1> USE DEF sequence_result
<1>0. pending \subseteq Sequences /\ packets_delivered \in Nat
  BY DEF Ordered, ProcessorTypeOK
<1>1. ASSUME NEW s \in Sequences, PushHeld(s) PROVE Ordered'
  <2>1. push_result(s) \in sequence_result
    BY DEF push_result
  <2> QED BY <1>0, <1>1, <2>1, HoldOrdered DEF PushHeld
<1>2. ASSUME NEW s \in Sequences, PushReady(s) PROVE Ordered'
  <2>1. ~ exhausted /\ (next_sequence = NoSequence \/ s = next_sequence)
    BY <1>2 DEF PushReady, push_result
  <2> QED BY <1>0, <1>2, <2>1, AdvanceOrdered DEF PushReady
<1>3. CASE Consume
  BY <1>0, <1>3, HandOrdered DEF Consume
<1>4. CASE ConsumeThrows
  BY <1>0, <1>4, HandOrdered DEF ConsumeThrows
<1>5. CASE PopReady
  <2>1. /\ next_sequence # NoSequence /\ ~ exhausted
        /\ Min(pending) = next_sequence
    BY <1>5 DEF PopReady, CanPop
  <2>2. next_sequence \in Sequences
    BY <2>1, SequencesAssumption
       DEF Ordered, ProcessorTypeOK, Sequences, NoSequence
  <2>3. /\ value' = next_sequence /\ advance_after(next_sequence)
        /\ pending' \subseteq Sequences /\ phase' = "consume"
        /\ phase # "consume" /\ handed' = handed
        /\ ordering' = ordering /\ packets_delivered' = packets_delivered
    BY <1>0, <1>5, <2>1 DEF PopReady
  <2>4. ordering \in sequence_result
    BY DEF Ordered, ProcessorTypeOK
  <2> QED BY <1>0, <2>1, <2>2, <2>3, <2>4, AdvanceOrdered
<1>6. CASE ProcessReturns
  <2>1. ordering \in sequence_result
    BY DEF Ordered, ProcessorTypeOK
  <2> QED BY <1>0, <1>6, <2>1, HoldOrdered DEF ProcessReturns, bufferVars
<1>7. CASE UNCHANGED processorVars
  BY <1>7 DEF processorVars, bufferVars, Ordered, ProcessorTypeOK,
              OrderedDelivery, Newest
<1> QED
  BY <1>1, <1>2, <1>3, <1>4, <1>5, <1>6, <1>7 DEF ProcessorNext, ProcessStep

\* The invariant behind delivery in order.
THEOREM AlwaysOrdered == ProcessorSpec => []Ordered
BY InitOrdered, NextOrdered, PTL DEF ProcessorSpec

\* Packets reach the consumer of processor::process (processor.hpp:30) without
\* gap, repetition or reordering, up to and including the largest sequence
\* number, whatever arrives and even if the consumer throws.
THEOREM DeliveryInOrder == ProcessorSpec => []OrderedDelivery
<1>1. Ordered => OrderedDelivery
  BY DEF Ordered
<1> QED BY <1>1, AlwaysOrdered, PTL

-----------------------------------------------------------------------------
(* The window, for a consumer that does not throw.                         *)

\* PendingAhead, and its form while packets are being released: then the one
\* expected next may be among those held back.
Window ==
    \A s \in pending :
        /\ next_sequence # NoSequence
        /\ s >= next_sequence /\ s <= next_sequence + MaxGap
        /\ phase = "idle" => s > next_sequence

\* The next packet cannot be hidden in the map: if it is there it comes first.
LEMMA NextIsFirst ==
    ASSUME NEW S, S \subseteq Nat, NEW n \in S, \A s \in S : s >= n
    PROVE  Min(S) = n
<1>1. \A s \in S : n <= s
  OBVIOUS
<1>2. \A x \in S : (\A y \in S : x <= y) => x = n
  BY <1>1
<1> QED BY <1>1, <1>2 DEF Min

\* Taking out the packet that is expected next moves the window.
LEMMA AdvanceWindow ==
    ASSUME Ordered, Window, NEW s \in Sequences, ~ exhausted,
           next_sequence = NoSequence \/ s = next_sequence,
           \A t \in pending' : t \in pending /\ t # s,
           advance_after(s), phase' = "consume"
    PROVE  Window'
<1> SUFFICES ASSUME NEW t \in pending'
             PROVE  /\ next_sequence' # NoSequence
                    /\ t >= next_sequence' /\ t <= next_sequence' + MaxGap
  BY DEF Window
<1>1. /\ t \in pending /\ t # s /\ t \in Nat /\ t <= LastSequence
      /\ s \in Nat /\ LastSequence \in Nat /\ MaxGap \in Nat
  <2>1. t \in pending /\ t # s
    OBVIOUS
  <2>2. t \in Sequences
    BY <2>1 DEF Ordered, ProcessorTypeOK
  <2> QED
    BY <2>1, <2>2, SequencesAssumption, LimitsAssumption DEF Sequences
<1>2. /\ s = next_sequence /\ t >= s /\ t <= s + MaxGap
  BY <1>1 DEF Window
<1>3. s # LastSequence
  BY <1>1, <1>2
<1>4. next_sequence' = s + 1
  BY <1>3 DEF advance_after
<1> QED BY <1>1, <1>2, <1>4 DEF NoSequence

\* The steps of a processor whose consumer does not throw.
NoThrowNext ==
    \/ \E s \in Sequences : PushHeld(s) \/ PushReady(s)
    \/ ProcessStep

\* Every step keeps the window if the consumer does not throw.
LEMMA NextWindow ==
    ASSUME Ordered, Window, [NoThrowNext]_processorVars
    PROVE  Window'
<1>0. /\ pending \subseteq Nat /\ pending \subseteq Sequences
      /\ next_sequence \in Nat /\ MaxGap \in Nat
  BY SequencesAssumption, LimitsAssumption
     DEF Ordered, ProcessorTypeOK, Sequences
<1>1. ASSUME NEW s \in Sequences, PushHeld(s) PROVE Window'
  <2>1. /\ next_sequence' = next_sequence /\ phase = "idle" /\ phase' = phase
        /\ pending' = IF push_result(s) = "buffered" THEN pending \cup {s}
                      ELSE pending
    BY <1>1 DEF PushHeld
  <2>2. CASE push_result(s) = "buffered"
    <3>1. /\ next_sequence # NoSequence /\ ~ (s < next_sequence)
          /\ s # next_sequence /\ ~ (s - next_sequence > MaxGap)
      BY <2>2 DEF push_result
    <3>2. s \in Nat
      BY SequencesAssumption DEF Sequences
    <3>3. s > next_sequence /\ s >= next_sequence
          /\ s <= next_sequence + MaxGap
      BY <1>0, <3>1, <3>2
    <3>4. pending' = pending \cup {s}
      BY <2>1, <2>2
    <3> QED BY <2>1, <3>1, <3>3, <3>4 DEF Window
  <2>3. CASE push_result(s) # "buffered"
    BY <2>1, <2>3 DEF Window
  <2> QED BY <2>2, <2>3
<1>2. ASSUME NEW s \in Sequences, PushReady(s) PROVE Window'
  <2>1. ~ exhausted /\ (next_sequence = NoSequence \/ s = next_sequence)
    BY <1>2 DEF PushReady, push_result
  <2>2. /\ advance_after(s) /\ phase' = "consume" /\ pending' = pending
        /\ phase = "idle"
    BY <1>2 DEF PushReady
  <2>3. \A t \in pending' : t \in pending /\ t # s
    BY <1>0, <2>1, <2>2 DEF Window
  <2> QED BY <2>1, <2>2, <2>3, AdvanceWindow
<1>3. CASE Consume
  BY <1>3 DEF Consume, bufferVars, Window
<1>4. CASE PopReady
  <2>1. /\ next_sequence # NoSequence /\ ~ exhausted
        /\ Min(pending) = next_sequence
    BY <1>4 DEF PopReady, CanPop
  <2>2. next_sequence \in Sequences
    BY <2>1, SequencesAssumption
       DEF Ordered, ProcessorTypeOK, Sequences, NoSequence
  <2>3. /\ advance_after(next_sequence) /\ phase' = "consume"
        /\ pending' = pending \ {next_sequence}
    BY <1>4, <2>1 DEF PopReady
  <2> QED BY <2>1, <2>2, <2>3, AdvanceWindow
<1>5. CASE ProcessReturns
  <2>1. /\ pending' = pending /\ next_sequence' = next_sequence
        /\ ~ CanPop
    BY <1>5 DEF ProcessReturns, bufferVars
  <2>2. next_sequence \notin pending
    <3> SUFFICES ASSUME next_sequence \in pending PROVE FALSE
      OBVIOUS
    <3>1. Min(pending) = next_sequence
      BY <1>0, NextIsFirst DEF Window
    <3>2. next_sequence # NoSequence /\ ~ exhausted
      BY DEF Window, Ordered
    <3> QED BY <2>1, <3>1, <3>2 DEF CanPop
  <2>3. \A s \in pending : s > next_sequence
    BY <1>0, <2>2 DEF Window
  <2> QED BY <2>1, <2>3 DEF Window
<1>6. CASE UNCHANGED processorVars
  BY <1>6 DEF processorVars, bufferVars, Window
<1> QED
  BY <1>1, <1>2, <1>3, <1>4, <1>5, <1>6 DEF NoThrowNext, ProcessStep

\* A new processor holds nothing back.
LEMMA InitWindow == ProcessorInit => Window
BY DEF ProcessorInit, Window

\* If the consumer does not throw, whatever sequenced_buffer holds back
\* between two calls is ahead of the packet expected next, by no more than
\* the gap limit: nothing that could be released is kept, and nothing is
\* kept that could never be released (sequenced_buffer.hpp:72).
THEOREM HeldBackAhead ==
    ASSUME ~ ConsumerMayThrow
    PROVE  ProcessorSpec => []PendingAhead
<1>1. Window => PendingAhead
  BY DEF Window, PendingAhead
<1>2. Ordered /\ Window /\ [ProcessorNext]_processorVars => Window'
  BY NextWindow DEF ProcessorNext, NoThrowNext, ConsumeThrows
<1> QED BY <1>1, <1>2, InitWindow, AlwaysOrdered, PTL DEF ProcessorSpec

\* The window has room for as many packets as the gap limit says.
LEMMA WindowSize ==
    ASSUME Ordered, Window
    PROVE  /\ IsFiniteSet(pending) /\ Cardinality(pending) \in Nat
           /\ phase = "idle" => Cardinality(pending) <= MaxGap
<1>1. pending \subseteq Sequences /\ IsFiniteSet(Sequences)
  <2>1. 1 \in Int /\ LastSequence \in Int
    BY SequencesAssumption
  <2> QED BY <2>1, FS_Interval DEF Ordered, ProcessorTypeOK, Sequences
<1>2. IsFiniteSet(pending) /\ Cardinality(pending) \in Nat
  BY <1>1, FS_Subset, FS_CardinalityType
<1>3. ASSUME phase = "idle" PROVE Cardinality(pending) <= MaxGap
  <2>1. next_sequence \in Nat /\ pending \subseteq Nat /\ MaxGap \in Nat
    BY SequencesAssumption, LimitsAssumption
       DEF Ordered, ProcessorTypeOK, Sequences
  <2> DEFINE room == (next_sequence + 1) .. (next_sequence + MaxGap)
  <2>2. pending \subseteq room
    BY <1>3, <2>1 DEF Window
  <2>3. IsFiniteSet(room) /\ Cardinality(room) <= MaxGap
    <3>1. next_sequence + 1 \in Int /\ next_sequence + MaxGap \in Int
      BY <2>1
    <3>2. /\ IsFiniteSet(room)
          /\ Cardinality(room) =
                IF next_sequence + 1 > next_sequence + MaxGap THEN 0
                ELSE (next_sequence + MaxGap) - (next_sequence + 1) + 1
      BY <3>1, FS_Interval
    <3> HIDE DEF room
    <3> QED BY <2>1, <3>2
  <2> HIDE DEF room
  <2>4. Cardinality(pending) <= Cardinality(room) /\ Cardinality(room) \in Nat
    BY <2>2, <2>3, FS_Subset, FS_CardinalityType
  <2> QED BY <1>2, <2>1, <2>3, <2>4
<1> QED BY <1>2, <1>3

\* A packet that arrives between two calls and is not yet held back finds
\* room, if the capacity is at least the gap limit.
LEMMA RoomForOne ==
    ASSUME Ordered, Window
    PROVE  CapacitySuffices
<1> SUFFICES ASSUME MaxPending >= MaxGap, phase = "idle",
                    NEW s \in Sequences,
                    push_result(s) = "capacity_exhausted"
             PROVE  FALSE
  BY DEF CapacitySuffices
<1>1. /\ ~ (s < next_sequence) /\ s # next_sequence /\ s \notin pending
      /\ ~ (s - next_sequence > MaxGap)
      /\ Cardinality(pending) >= MaxPending
  BY DEF push_result
<1>2. /\ s \in Nat /\ next_sequence \in Nat /\ pending \subseteq Nat
      /\ MaxGap \in Nat /\ MaxPending \in Nat
  BY SequencesAssumption, LimitsAssumption
     DEF Ordered, ProcessorTypeOK, Sequences
<1> DEFINE room == (next_sequence + 1) .. (next_sequence + MaxGap)
<1>3. s \in room
  BY <1>1, <1>2
<1>4. pending \subseteq room \ {s}
  <2>1. \A t \in pending : t > next_sequence /\ t <= next_sequence + MaxGap
    BY DEF Window
  <2> QED BY <1>1, <1>2, <2>1
<1>5. IsFiniteSet(room) /\ Cardinality(room) <= MaxGap
  <2>1. next_sequence + 1 \in Int /\ next_sequence + MaxGap \in Int
    BY <1>2
  <2>2. /\ IsFiniteSet(room)
        /\ Cardinality(room) =
              IF next_sequence + 1 > next_sequence + MaxGap THEN 0
              ELSE (next_sequence + MaxGap) - (next_sequence + 1) + 1
    BY <2>1, FS_Interval
  <2> HIDE DEF room
  <2> QED BY <1>2, <2>2
<1> HIDE DEF room
<1>6. /\ IsFiniteSet(room \ {s})
      /\ Cardinality(room \ {s}) = Cardinality(room) - 1
  BY <1>3, <1>5, FS_RemoveElement
<1>7. IsFiniteSet(pending) /\ Cardinality(pending) <= Cardinality(room \ {s})
  BY <1>4, <1>6, FS_Subset
<1>8. Cardinality(pending) \in Nat /\ Cardinality(room) \in Nat
  BY <1>5, <1>7, FS_CardinalityType
<1> QED BY <1>1, <1>2, <1>5, <1>6, <1>7, <1>8
\* If the consumer does not throw, a capacity of at least the gap limit is
\* never exhausted: the window has room for that many packets, and the one
\* that arrives is not yet among them (sequenced_buffer.hpp:63).
THEOREM CapacityOfGap ==
    ASSUME ~ ConsumerMayThrow
    PROVE  ProcessorSpec => []CapacitySuffices
<1>1. Ordered /\ Window => CapacitySuffices
  BY RoomForOne
<1>2. Ordered /\ Window /\ [ProcessorNext]_processorVars => Window'
  BY NextWindow DEF ProcessorNext, NoThrowNext, ConsumeThrows
<1> QED BY <1>1, <1>2, InitWindow, AlwaysOrdered, PTL DEF ProcessorSpec

=============================================================================
