--------------------------- MODULE MulticastProofs ---------------------------
(***************************************************************************)
(* Proofs about the multicast demo and the listener in it.                 *)
(*                                                                         *)
(* First the Listener alone (Spec), for all limits, all --stop-after       *)
(* counts, sequence numbers of any width and whatever arrives: its summary *)
(* accounts for every datagram, its exit status is the truth, --stop-after *)
(* ends the loop in time, and what the proofs about Processor show holds   *)
(* inside it.  What Multicast assumes in addition is about the constants   *)
(* of the simulator only.                                                  *)
(*                                                                         *)
(* Then the demo (DemoSpec), for every number of messages, every burst     *)
(* size, sequence numbers and sizes of any width and every network: the    *)
(* simulator sends what README.md announces and its summary says so; and a *)
(* listener that stops after as many packets as were asked for has got all *)
(* of them, in order.                                                      *)
(***************************************************************************)
EXTENDS Multicast, ProcessorProofs

-----------------------------------------------------------------------------
(* The listener, whatever arrives: its inductive invariant.                *)

\* The listener's own part of TypeOK.
ListenerTypeOK ==
    /\ pc \in {"check", "receive", "blocked", "process", "summary", "stopped"}
    /\ signal \in BOOLEAN /\ invalid \in BOOLEAN
    /\ counters \in [{"datagrams", "decoded", "delivered", "buffered",
                      "rejected", "truncated", "malformed"} -> Nat]
    /\ status \in {Running, 0, 1}

\* process() is on the stack only in its own step of the loop, and a packet
\* that was not ready leaves it at once.
CallInv ==
    /\ pc # "process" => phase = "idle"
    /\ pc = "process" /\ ordering # "ready" =>
          phase = "idle" /\ packets_delivered = 0

\* The counters of a packet lag behind while process() handles it: what it
\* has delivered, and the verdict on what it was given, are not yet counted.
Uncounted == IF pc = "process" THEN packets_delivered ELSE 0
Refused ==
    IF pc = "process" /\ ordering \notin {"ready", "buffered"} THEN 1 ELSE 0
Held == IF pc = "process" /\ ordering = "buffered" THEN 1 ELSE 0
InHand == IF value # NoSequence THEN 1 ELSE 0

CountInv ==
    /\ counters.datagrams =
          counters.decoded + counters.truncated + counters.malformed
    /\ Len(handed) = counters.delivered + Uncounted
    /\ counters.datagrams =
          Len(handed) + InHand + Cardinality(pending)
          + counters.rejected + Refused
    /\ counters.buffered + Held >= Cardinality(pending)

\* The exit status, and the flag it is made of.
StatusInv ==
    /\ pc # "stopped" =>
          status = Running /\ (invalid <=> counters.rejected # 0)
    /\ status = 0 => Len(handed) = counters.datagrams

\* --stop-after: what is delivered, in hand and held back, taken together.
StopInv ==
    StopAfter # 0 =>
        /\ pc \in {"check", "receive", "blocked"} => Len(handed) < StopAfter
        /\ Len(handed) + InHand + Cardinality(pending) <= StopAfter + MaxGap

ListenerInv ==
    /\ Ordered /\ Window
    /\ ListenerTypeOK /\ CallInv /\ CountInv /\ StatusInv /\ StopInv

\* The counters are numbers.
LEMMA CounterFacts ==
    ASSUME ListenerInv
    PROVE  /\ counters.datagrams \in Nat /\ counters.decoded \in Nat
           /\ counters.delivered \in Nat /\ counters.buffered \in Nat
           /\ counters.rejected \in Nat /\ counters.truncated \in Nat
           /\ counters.malformed \in Nat
           /\ packets_delivered \in Nat /\ Len(handed) \in Nat
           /\ InHand \in {0, 1} /\ Cardinality(pending) \in Nat
           /\ IsFiniteSet(pending)
           /\ StopAfter \in Nat /\ MaxGap \in Nat
<1>1. /\ counters.datagrams \in Nat /\ counters.decoded \in Nat
      /\ counters.delivered \in Nat /\ counters.buffered \in Nat
      /\ counters.rejected \in Nat /\ counters.truncated \in Nat
      /\ counters.malformed \in Nat
  BY DEF ListenerInv, ListenerTypeOK
<1>2. packets_delivered \in Nat /\ Len(handed) \in Nat
  BY DEF ListenerInv, Ordered, ProcessorTypeOK
<1>3. Cardinality(pending) \in Nat /\ IsFiniteSet(pending)
  BY WindowSize DEF ListenerInv
<1>4. InHand \in {0, 1}
  BY DEF InHand
<1> QED BY <1>1, <1>2, <1>3, <1>4, ListenerAssumption, LimitsAssumption

\* A listener that has just started.
LEMMA InitListenerInv == Init => ListenerInv
<1> SUFFICES ASSUME Init PROVE ListenerInv
  OBVIOUS
<1>1. ProcessorInit
  BY DEF Init
<1>2. Ordered /\ Window
  BY <1>1, InitOrdered, InitWindow
<1>3. /\ counters = [datagrams |-> 0, decoded |-> 0, delivered |-> 0,
                     buffered |-> 0, rejected |-> 0, truncated |-> 0,
                     malformed |-> 0]
      /\ pc = "check" /\ signal = FALSE /\ invalid = FALSE
      /\ status = Running
  BY DEF Init
<1>4. ListenerTypeOK
  <2>1. counters \in [{"datagrams", "decoded", "delivered", "buffered",
                       "rejected", "truncated", "malformed"} -> Nat]
    BY <1>3
  <2> QED BY <1>3, <2>1 DEF ListenerTypeOK
<1>5. /\ phase = "idle" /\ value = NoSequence /\ Len(handed) = 0
      /\ pending = {} /\ Cardinality(pending) = 0
  BY <1>1, FS_EmptySet DEF ProcessorInit
<1>6. CallInv
  BY <1>3, <1>5 DEF CallInv
<1>7. CountInv
  BY <1>3, <1>5 DEF CountInv, Uncounted, InHand, Refused, Held
<1>8. StatusInv
  BY <1>3 DEF StatusInv, Running
<1>9. StopInv
  BY <1>3, <1>5, ListenerAssumption, LimitsAssumption
     DEF StopInv, InHand
<1> QED BY <1>2, <1>4, <1>6, <1>7, <1>8, <1>9 DEF ListenerInv

-----------------------------------------------------------------------------
(* What the steps of the processor do to the numbers.                      *)

\* A packet that is not ready is held back, or refused.
LEMMA HeldEffect ==
    ASSUME Ordered, Window, NEW s \in Sequences, PushHeld(s)
    PROVE  /\ phase' = "idle" /\ handed' = handed
           /\ value = NoSequence /\ value' = NoSequence
           /\ ordering' # "ready" /\ packets_delivered' = 0
           /\ Cardinality(pending') =
                 Cardinality(pending) + (IF ordering' = "buffered" THEN 1 ELSE 0)
<1>1. /\ phase = "idle" /\ phase' = "idle" /\ handed' = handed
      /\ value' = value /\ ordering' = push_result(s)
      /\ push_result(s) # "ready" /\ packets_delivered' = 0
      /\ pending' = IF push_result(s) = "buffered" THEN pending \cup {s}
                    ELSE pending
  BY DEF PushHeld
<1>2. value = NoSequence
  BY <1>1 DEF Ordered
<1>3. IsFiniteSet(pending) /\ Cardinality(pending) \in Nat
  BY WindowSize
<1>4. push_result(s) = "buffered" => s \notin pending
  BY DEF push_result
<1>5. CASE push_result(s) = "buffered"
  <2>1. Cardinality(pending \cup {s}) = Cardinality(pending) + 1
    BY <1>3, <1>4, <1>5, FS_AddElement
  <2> QED BY <1>1, <1>2, <1>5, <2>1
<1>6. CASE push_result(s) # "buffered"
  BY <1>1, <1>2, <1>3, <1>6
<1> QED BY <1>5, <1>6

\* A packet that is ready is in hand.
LEMMA ReadyEffect ==
    ASSUME Ordered, NEW s \in Sequences, PushReady(s)
    PROVE  /\ handed' = handed /\ pending' = pending
           /\ value = NoSequence /\ value' # NoSequence
           /\ ordering' = "ready" /\ packets_delivered' = 0
<1>1. s # NoSequence
  BY SequencesAssumption DEF Sequences, NoSequence
<1> QED BY <1>1 DEF PushReady, Ordered

\* The packet in hand is delivered.
LEMMA ConsumeEffect ==
    ASSUME Ordered, Consume
    PROVE  /\ Len(handed') = Len(handed) + 1 /\ pending' = pending
           /\ value # NoSequence /\ value' = NoSequence
           /\ ordering' = ordering /\ phase = "consume"
           /\ packets_delivered' = packets_delivered + 1
<1>1. phase = "consume" /\ value # NoSequence /\ value \in Sequences
  BY SequencesAssumption
     DEF Consume, Ordered, ProcessorTypeOK, Sequences, NoSequence
<1>2. handed \in Seq(Sequences)
  BY DEF Ordered, ProcessorTypeOK
<1>3. Len(Append(handed, value)) = Len(handed) + 1
  BY <1>1, <1>2
<1> QED BY <1>1, <1>3 DEF Consume, bufferVars

\* A packet that was held back is in hand.
LEMMA PopEffect ==
    ASSUME Ordered, Window, PopReady
    PROVE  /\ Cardinality(pending') = Cardinality(pending) - 1
           /\ Cardinality(pending') \in Nat
           /\ handed' = handed /\ ordering' = ordering
           /\ value = NoSequence /\ value' # NoSequence /\ phase = "pop"
           /\ packets_delivered' = packets_delivered
<1>1. /\ phase = "pop" /\ handed' = handed /\ ordering' = ordering
      /\ packets_delivered' = packets_delivered
      /\ value' = Min(pending) /\ pending' = pending \ {Min(pending)}
      /\ pending # {} /\ Min(pending) = next_sequence
      /\ next_sequence # NoSequence
  BY DEF PopReady, CanPop
<1>2. value = NoSequence
  BY <1>1 DEF Ordered
<1>3. IsFiniteSet(pending) /\ Cardinality(pending) \in Nat
  BY WindowSize
<1>4. next_sequence \in pending
  BY FirstIsHeld DEF PopReady
<1>5. Cardinality(pending \ {next_sequence}) = Cardinality(pending) - 1
      /\ Cardinality(pending \ {next_sequence}) \in Nat
  <2>1. IsFiniteSet(pending \ {next_sequence})
    BY <1>3, FS_RemoveElement
  <2>2. Cardinality(pending \ {next_sequence}) \in Nat
    BY <2>1, FS_CardinalityType
  <2> QED BY <1>3, <1>4, <2>2, FS_RemoveElement
<1> QED BY <1>1, <1>2, <1>5

-----------------------------------------------------------------------------
(* The steps of the listener that leave the processor alone.               *)

\* The processor's part of the invariant, when its state does not change.
LEMMA ProcessorKept ==
    ASSUME ListenerInv, UNCHANGED processorVars
    PROVE  /\ Ordered' /\ Window'
           /\ phase' = phase /\ value' = value /\ ordering' = ordering
           /\ packets_delivered' = packets_delivered
           /\ handed' = handed /\ pending' = pending
<1>1. Ordered'
  BY NextOrdered DEF ListenerInv
<1>2. Window'
  BY NextWindow DEF ListenerInv
<1> QED BY <1>1, <1>2 DEF processorVars, bufferVars

\* A signal, the test of the loop and the call of receive() move the loop on
\* and count nothing.
LEMMA MoveOn ==
    ASSUME ListenerInv, UNCHANGED <<processorVars, counters, invalid, status>>,
           signal' \in BOOLEAN, pc # "stopped",
           \/ pc' = pc
           \/ pc # "process" /\ pc' = "summary"
           \/ /\ pc \in {"check", "receive", "blocked"}
              /\ pc' \in {"check", "receive", "blocked", "summary"}
    PROVE  ListenerInv'
<1>1. /\ Ordered' /\ Window'
      /\ phase' = phase /\ value' = value /\ ordering' = ordering
      /\ packets_delivered' = packets_delivered
      /\ handed' = handed /\ pending' = pending
  BY ProcessorKept
<1>2. counters' = counters /\ invalid' = invalid /\ status' = status
  OBVIOUS
<1>3. pc' = "process" <=> pc = "process"
  OBVIOUS
<1>4. ListenerTypeOK'
  BY <1>2 DEF ListenerInv, ListenerTypeOK
<1>5. CallInv'
  BY <1>1, <1>3 DEF ListenerInv, CallInv
<1>6. CountInv'
  <2>1. /\ Uncounted' = Uncounted /\ InHand' = InHand
        /\ Refused' = Refused /\ Held' = Held
    BY <1>1, <1>3 DEF Uncounted, InHand, Refused, Held
  <2> QED BY <1>1, <1>2, <2>1 DEF ListenerInv, CountInv
<1>7. StatusInv'
  BY <1>1, <1>2 DEF ListenerInv, StatusInv
<1>8. StopInv'
  BY <1>1 DEF ListenerInv, StopInv, InHand
<1> QED BY <1>1, <1>4, <1>5, <1>6, <1>7, <1>8 DEF ListenerInv

\* Signal, Check and Block keep the invariant.
LEMMA SignalInv ==
    ASSUME ListenerInv, Signal \/ Check \/ Block
    PROVE  ListenerInv'
<1>1. pc \in {"check", "receive", "blocked", "process", "summary", "stopped"}
      /\ signal \in BOOLEAN
  BY DEF ListenerInv, ListenerTypeOK
<1>2. CASE Signal
  <2>1. /\ UNCHANGED <<processorVars, counters, invalid, status>>
        /\ signal' \in BOOLEAN /\ pc # "stopped"
        /\ pc' = pc \/ (pc # "process" /\ pc' = "summary")
    BY <1>1, <1>2 DEF Signal
  <2> QED BY <2>1, MoveOn
<1>3. CASE Check
  <2>1. /\ UNCHANGED <<processorVars, counters, invalid, status>>
        /\ signal' \in BOOLEAN /\ pc # "stopped"
        /\ pc \in {"check", "receive", "blocked"}
        /\ pc' \in {"check", "receive", "blocked", "summary"}
    BY <1>1, <1>3 DEF Check
  <2> QED BY <2>1, MoveOn
<1>4. CASE Block
  <2>1. /\ UNCHANGED <<processorVars, counters, invalid, status>>
        /\ signal' \in BOOLEAN /\ pc # "stopped"
        /\ pc \in {"check", "receive", "blocked"}
        /\ pc' \in {"check", "receive", "blocked", "summary"}
    BY <1>1, <1>4 DEF Block
  <2> QED BY <2>1, MoveOn
<1> QED BY <1>2, <1>3, <1>4

\* ReceiveFails keeps the invariant: the exit status is 1.
LEMMA ReceiveFailsInv ==
    ASSUME ListenerInv, ReceiveFails
    PROVE  ListenerInv'
<1>1. /\ pc = "blocked" /\ pc' = "stopped" /\ status' = 1
      /\ signal' = signal /\ counters' = counters /\ invalid' = invalid
      /\ UNCHANGED processorVars
  BY DEF ReceiveFails
<1>2. /\ Ordered' /\ Window'
      /\ phase' = phase /\ value' = value /\ ordering' = ordering
      /\ packets_delivered' = packets_delivered
      /\ handed' = handed /\ pending' = pending
  BY <1>1, ProcessorKept
<1>3. ListenerTypeOK' /\ CallInv'
  BY <1>1, <1>2 DEF ListenerInv, ListenerTypeOK, CallInv
<1>4. CountInv'
  <2>1. /\ Uncounted' = Uncounted /\ InHand' = InHand
        /\ Refused' = Refused /\ Held' = Held
    BY <1>1, <1>2 DEF Uncounted, InHand, Refused, Held
  <2> QED BY <1>1, <1>2, <2>1 DEF ListenerInv, CountInv
<1>5. StatusInv' /\ StopInv'
  BY <1>1, <1>2 DEF ListenerInv, StatusInv, StopInv, InHand
<1> QED BY <1>2, <1>3, <1>4, <1>5 DEF ListenerInv

\* A datagram without a packet is counted as rejected, once.
LEMMA DiscardInv ==
    ASSUME ListenerInv, NEW reason \in NoPacket, Discard(reason)
    PROVE  ListenerInv'
<1>1. /\ pc = "blocked" /\ pc' = "check" /\ invalid' = TRUE
      /\ signal' = signal /\ status' = status
      /\ UNCHANGED processorVars
      /\ counters' = [counters EXCEPT !.datagrams = @ + 1, ![reason] = @ + 1,
                                      !.rejected = @ + 1]
  BY DEF Discard
<1>2. /\ Ordered' /\ Window'
      /\ phase' = phase /\ value' = value /\ ordering' = ordering
      /\ packets_delivered' = packets_delivered
      /\ handed' = handed /\ pending' = pending
  BY <1>1, ProcessorKept
<1>3. /\ counters'.datagrams = counters.datagrams + 1
      /\ counters'.decoded = counters.decoded
      /\ counters'.delivered = counters.delivered
      /\ counters'.buffered = counters.buffered
      /\ counters'.rejected = counters.rejected + 1
      /\ \/ /\ counters'.truncated = counters.truncated + 1
            /\ counters'.malformed = counters.malformed
         \/ /\ counters'.truncated = counters.truncated
            /\ counters'.malformed = counters.malformed + 1
      /\ counters' \in [{"datagrams", "decoded", "delivered", "buffered",
                         "rejected", "truncated", "malformed"} -> Nat]
  <2>1. counters \in [{"datagrams", "decoded", "delivered", "buffered",
                       "rejected", "truncated", "malformed"} -> Nat]
    BY DEF ListenerInv, ListenerTypeOK
  <2> DEFINE d == counters.datagrams + 1
             m == counters[reason] + 1
             r == counters.rejected + 1
  <2>2. counters' = [counters EXCEPT !.datagrams = d, ![reason] = m,
                                     !.rejected = r]
    BY <1>1, <2>1 DEF NoPacket
  <2>3. d \in Nat /\ m \in Nat /\ r \in Nat
    BY <2>1 DEF NoPacket
  <2>4. /\ d = counters.datagrams + 1 /\ m = counters[reason] + 1
        /\ r = counters.rejected + 1
    OBVIOUS
  <2> HIDE DEF d, m, r
  <2>5. counters' \in [{"datagrams", "decoded", "delivered", "buffered",
                        "rejected", "truncated", "malformed"} -> Nat]
    BY <2>1, <2>2, <2>3 DEF NoPacket
  <2>6. /\ counters'.datagrams = d /\ counters'.rejected = r
        /\ counters'.decoded = counters.decoded
        /\ counters'.delivered = counters.delivered
        /\ counters'.buffered = counters.buffered
        /\ counters'[reason] = m
    BY <2>1, <2>2 DEF NoPacket
  <2>7. CASE reason = "truncated"
    <3>1. counters'.malformed = counters.malformed
      BY <2>1, <2>2, <2>7
    <3> QED BY <2>4, <2>5, <2>6, <2>7, <3>1
  <2>8. CASE reason = "malformed"
    <3>1. counters'.truncated = counters.truncated
      BY <2>1, <2>2, <2>8
    <3> QED BY <2>4, <2>5, <2>6, <2>8, <3>1
  <2> QED BY <2>7, <2>8 DEF NoPacket
<1>4. ListenerTypeOK' /\ CallInv'
  BY <1>1, <1>2, <1>3 DEF ListenerInv, ListenerTypeOK, CallInv
<1>5. CountInv'
  <2>1. /\ Uncounted' = Uncounted /\ InHand' = InHand
        /\ Refused' = 0 /\ Held' = 0
        /\ Refused = 0 /\ Held = 0
    BY <1>1, <1>2 DEF Uncounted, InHand, Refused, Held
  <2>2. /\ counters.datagrams =
              counters.decoded + counters.truncated + counters.malformed
        /\ Len(handed) = counters.delivered + Uncounted
        /\ counters.datagrams =
              Len(handed) + InHand + Cardinality(pending)
              + counters.rejected + Refused
        /\ counters.buffered + Held >= Cardinality(pending)
    BY DEF ListenerInv, CountInv
  <2>3. /\ counters.datagrams \in Nat /\ counters.decoded \in Nat
        /\ counters.delivered \in Nat /\ counters.buffered \in Nat
        /\ counters.rejected \in Nat /\ counters.truncated \in Nat
        /\ counters.malformed \in Nat
        /\ packets_delivered \in Nat /\ Len(handed) \in Nat
        /\ InHand \in {0, 1} /\ Cardinality(pending) \in Nat
    BY CounterFacts
  <2>4. counters'.datagrams =
           counters'.decoded + counters'.truncated + counters'.malformed
    <3>1. /\ counters.datagrams + 1 =
                counters.decoded + (counters.truncated + 1) + counters.malformed
          /\ counters.datagrams + 1 =
                counters.decoded + counters.truncated + (counters.malformed + 1)
      BY <2>2, <2>3
    <3> QED BY <1>3, <3>1
  <2>5. Len(handed') = counters'.delivered + Uncounted'
    BY <1>2, <1>3, <2>1, <2>2, <2>3
  <2>6. counters'.datagrams =
           Len(handed') + InHand' + Cardinality(pending')
           + counters'.rejected + Refused'
    <3>1. counters.datagrams + 1 =
             Len(handed) + InHand + Cardinality(pending)
             + (counters.rejected + 1) + 0
      <4> DEFINE n == Len(handed) + InHand + Cardinality(pending)
      <4>1. n \in Nat /\ counters.rejected \in Nat
        BY <2>3
      <4>2. counters.datagrams = n + counters.rejected + 0
        BY <2>1, <2>2
      <4> HIDE DEF n
      <4>3. (n + counters.rejected + 0) + 1 = n + (counters.rejected + 1) + 0
        BY <4>1
      <4> QED BY <4>2, <4>3 DEF n
    <3> QED BY <1>2, <1>3, <2>1, <3>1
  <2>7. counters'.buffered + Held' >= Cardinality(pending')
    BY <1>2, <1>3, <2>1, <2>2, <2>3
  <2> QED BY <2>4, <2>5, <2>6, <2>7 DEF CountInv
<1>6. StatusInv'
  <2>1. status = Running /\ counters.rejected \in Nat
    BY <1>1, CounterFacts DEF ListenerInv, StatusInv
  <2> QED BY <1>1, <1>2, <1>3, <2>1 DEF StatusInv, Running
<1>7. StopInv'
  BY <1>1, <1>2 DEF ListenerInv, StopInv, InHand
<1> QED BY <1>2, <1>4, <1>5, <1>6, <1>7 DEF ListenerInv

\* The summary: the exit status is 0 only if nothing was rejected or is held
\* back.
LEMMA SummaryInv ==
    ASSUME ListenerInv, Summary
    PROVE  ListenerInv'
<1>1. /\ pc = "summary" /\ pc' = "stopped"
      /\ invalid' = (invalid \/ pending # {})
      /\ status' = IF invalid' THEN 1 ELSE 0
      /\ signal' = signal /\ counters' = counters
      /\ UNCHANGED processorVars
  BY DEF Summary
<1>2. /\ Ordered' /\ Window'
      /\ phase' = phase /\ value' = value /\ ordering' = ordering
      /\ packets_delivered' = packets_delivered
      /\ handed' = handed /\ pending' = pending
  BY <1>1, ProcessorKept
<1>3. invalid' \in BOOLEAN /\ status' \in {0, 1}
  BY <1>1 DEF ListenerInv, ListenerTypeOK
<1>4. ListenerTypeOK' /\ CallInv'
  BY <1>1, <1>2, <1>3 DEF ListenerInv, ListenerTypeOK, CallInv
<1>5. CountInv'
  <2>1. /\ Uncounted' = Uncounted /\ InHand' = InHand
        /\ Refused' = Refused /\ Held' = Held
    BY <1>1, <1>2 DEF Uncounted, InHand, Refused, Held
  <2> QED BY <1>1, <1>2, <2>1 DEF ListenerInv, CountInv
<1>6. StatusInv'
  <2>1. ASSUME status' = 0 PROVE Len(handed) = counters.datagrams
    <3>0. ~ invalid'
      <4>1. CASE invalid'
        BY <1>1, <2>1, <4>1
      <4> QED BY <4>1
    <3>1. ~ invalid /\ pending = {}
      BY <1>1, <3>0, Zenon
    <3>2. counters.rejected = 0 /\ Cardinality(pending) = 0
      BY <1>1, <3>1, FS_EmptySet DEF ListenerInv, StatusInv
    <3>3. value = NoSequence
      BY <1>1 DEF ListenerInv, CallInv, Ordered
    <3>4. InHand = 0 /\ Refused = 0
      BY <1>1, <3>3 DEF InHand, Refused
    <3> QED BY <3>2, <3>4, CounterFacts DEF ListenerInv, CountInv
  <2> QED BY <1>1, <1>2, <2>1 DEF StatusInv
<1>7. StopInv'
  BY <1>1, <1>2 DEF ListenerInv, StopInv, InHand
<1> QED BY <1>2, <1>4, <1>5, <1>6, <1>7 DEF ListenerInv

-----------------------------------------------------------------------------
(* A packet.                                                               *)

\* Receive keeps the invariant: process() has begun, and its packet is held
\* back, refused or in hand.
LEMMA ReceiveInv ==
    ASSUME ListenerInv, NEW s \in Sequences, Receive(s)
    PROVE  ListenerInv'
<1>1. /\ pc = "blocked" /\ pc' = "process"
      /\ signal' = signal /\ invalid' = invalid /\ status' = status
      /\ PushHeld(s) \/ PushReady(s)
      /\ counters' = [counters EXCEPT !.datagrams = @ + 1, !.decoded = @ + 1]
  BY DEF Receive
<1>2. Ordered /\ Window
  BY DEF ListenerInv
<1>3. Ordered' /\ Window'
  BY <1>1, <1>2, NextOrdered, NextWindow DEF ProcessorNext, NoThrowNext
<1>4. /\ counters'.datagrams = counters.datagrams + 1
      /\ counters'.decoded = counters.decoded + 1
      /\ counters'.delivered = counters.delivered
      /\ counters'.buffered = counters.buffered
      /\ counters'.rejected = counters.rejected
      /\ counters'.truncated = counters.truncated
      /\ counters'.malformed = counters.malformed
      /\ counters' \in [{"datagrams", "decoded", "delivered", "buffered",
                         "rejected", "truncated", "malformed"} -> Nat]
  <2>1. counters \in [{"datagrams", "decoded", "delivered", "buffered",
                       "rejected", "truncated", "malformed"} -> Nat]
    BY DEF ListenerInv, ListenerTypeOK
  <2> DEFINE d == counters.datagrams + 1
             n == counters.decoded + 1
  <2>2. counters' = [counters EXCEPT !.datagrams = d, !.decoded = n]
    BY <1>1, <2>1
  <2>3. d \in Nat /\ n \in Nat
    BY <2>1
  <2>4. d = counters.datagrams + 1 /\ n = counters.decoded + 1
    OBVIOUS
  <2> HIDE DEF d, n
  <2>5. counters' \in [{"datagrams", "decoded", "delivered", "buffered",
                        "rejected", "truncated", "malformed"} -> Nat]
    BY <2>1, <2>2, <2>3
  <2>6. /\ counters'.datagrams = d /\ counters'.decoded = n
        /\ counters'.delivered = counters.delivered
        /\ counters'.buffered = counters.buffered
        /\ counters'.rejected = counters.rejected
        /\ counters'.truncated = counters.truncated
        /\ counters'.malformed = counters.malformed
    BY <2>1, <2>2
  <2> QED BY <2>4, <2>5, <2>6
<1>5. ListenerTypeOK'
  BY <1>1, <1>4 DEF ListenerInv, ListenerTypeOK
<1>6. /\ Uncounted = 0 /\ Refused = 0 /\ Held = 0
      /\ Cardinality(pending) <= MaxGap
  <2>1. phase = "idle"
    BY <1>1 DEF ListenerInv, CallInv
  <2> QED BY <1>1, <1>2, <2>1, WindowSize DEF Uncounted, Refused, Held
<1>7. /\ CallInv' /\ handed' = handed /\ Uncounted' = 0
      /\ InHand = 0
      /\ Held' + Cardinality(pending) >= Cardinality(pending')
      /\ InHand' + Cardinality(pending') + Refused' =
            Cardinality(pending) + 1
      /\ InHand' + Cardinality(pending') <= Cardinality(pending) + 1
      /\ InHand' \in {0, 1} /\ Refused' \in {0, 1} /\ Held' \in {0, 1}
      /\ Cardinality(pending') \in Nat
  <2>1. CASE PushHeld(s)
    <3>1. /\ phase' = "idle" /\ handed' = handed
          /\ value = NoSequence /\ value' = NoSequence
          /\ ordering' # "ready" /\ packets_delivered' = 0
          /\ Cardinality(pending') =
                Cardinality(pending) + (IF ordering' = "buffered" THEN 1 ELSE 0)
      BY <1>2, <2>1, HeldEffect
    <3>2. /\ Held' = (IF ordering' = "buffered" THEN 1 ELSE 0)
          /\ Refused' = (IF ordering' # "buffered" THEN 1 ELSE 0)
          /\ InHand' = 0 /\ InHand = 0 /\ Uncounted' = 0
      BY <1>1, <3>1 DEF Held, Refused, InHand, Uncounted
    <3>3. CallInv'
      BY <1>1, <3>1 DEF CallInv
    <3>4. Cardinality(pending) \in Nat
      BY CounterFacts
    <3>5. CASE ordering' = "buffered"
      BY <3>1, <3>2, <3>3, <3>4, <3>5
    <3>6. CASE ordering' # "buffered"
      BY <3>1, <3>2, <3>3, <3>4, <3>6
    <3> QED BY <3>5, <3>6
  <2>2. CASE PushReady(s)
    <3>1. /\ handed' = handed /\ pending' = pending
          /\ value = NoSequence /\ value' # NoSequence
          /\ ordering' = "ready" /\ packets_delivered' = 0
      BY <1>2, <2>2, ReadyEffect
    <3>2. /\ Held' = 0 /\ Refused' = 0
          /\ InHand' = 1 /\ InHand = 0 /\ Uncounted' = 0
      BY <1>1, <3>1 DEF Held, Refused, InHand, Uncounted
    <3>3. CallInv'
      BY <1>1, <3>1 DEF CallInv
    <3>4. Cardinality(pending) \in Nat
      BY CounterFacts
    <3> QED BY <3>1, <3>2, <3>3, <3>4
  <2> QED BY <1>1, <2>1, <2>2
<1>8. CountInv'
  <2>2. /\ counters.datagrams =
              counters.decoded + counters.truncated + counters.malformed
        /\ Len(handed) = counters.delivered + Uncounted
        /\ counters.datagrams =
              Len(handed) + InHand + Cardinality(pending)
              + counters.rejected + Refused
        /\ counters.buffered + Held >= Cardinality(pending)
    BY DEF ListenerInv, CountInv
  <2>3. /\ counters.datagrams \in Nat /\ counters.decoded \in Nat
        /\ counters.delivered \in Nat /\ counters.buffered \in Nat
        /\ counters.rejected \in Nat /\ counters.truncated \in Nat
        /\ counters.malformed \in Nat
        /\ packets_delivered \in Nat /\ Len(handed) \in Nat
        /\ InHand \in {0, 1} /\ Cardinality(pending) \in Nat
    BY CounterFacts
  <2>4. counters'.datagrams =
           counters'.decoded + counters'.truncated + counters'.malformed
    <3>1. counters.datagrams + 1 =
             (counters.decoded + 1) + counters.truncated + counters.malformed
      BY <2>2, <2>3
    <3> QED BY <1>4, <3>1
  <2>5. Len(handed') = counters'.delivered + Uncounted'
    BY <1>4, <1>6, <1>7, <2>2, <2>3
  <2>6. counters'.datagrams =
           Len(handed') + InHand' + Cardinality(pending')
           + counters'.rejected + Refused'
    <3> DEFINE i == InHand'
               c == Cardinality(pending')
               f == Refused'
    <3>1. /\ i \in Nat /\ c \in Nat /\ f \in Nat
          /\ i + c + f = Cardinality(pending) + 1
      BY <1>7
    <3> HIDE DEF i, c, f
    <3>2. counters.datagrams =
             Len(handed) + Cardinality(pending) + counters.rejected
      BY <1>6, <1>7, <2>2, <2>3
    <3>3. counters.datagrams + 1 = Len(handed) + i + c + counters.rejected + f
      <4> DEFINE h == Len(handed)
                 q == Cardinality(pending)
                 r == counters.rejected
      <4>1. h \in Nat /\ q \in Nat /\ r \in Nat
        BY <2>3
      <4>2. i + c + f = q + 1
        BY <3>1
      <4>3. counters.datagrams = h + q + r
        BY <3>2
      <4> HIDE DEF h, q, r
      <4>4. (h + q + r) + 1 = h + i + c + r + f
        BY <3>1, <4>1, <4>2
      <4> QED BY <4>3, <4>4 DEF h, r
    <3> QED BY <1>4, <1>7, <3>3 DEF i, c, f
  <2>7. counters'.buffered + Held' >= Cardinality(pending')
    BY <1>4, <1>6, <1>7, <2>2, <2>3
  <2> QED BY <2>4, <2>5, <2>6, <2>7 DEF CountInv
<1>9. StatusInv'
  <2>1. status = Running
    BY <1>1 DEF ListenerInv, StatusInv
  <2> QED BY <1>1, <1>4, <1>7, <2>1 DEF ListenerInv, StatusInv, Running
<1>10. StopInv'
  <2>1. StopInv
    BY DEF ListenerInv
  <2> QED BY <1>1, <1>6, <1>7, <2>1, CounterFacts DEF StopInv
<1> QED BY <1>3, <1>5, <1>7, <1>8, <1>9, <1>10 DEF ListenerInv

\* Process keeps the invariant: a packet moves from the buffer into the hand,
\* or from the hand to the consumer.
LEMMA ProcessInv ==
    ASSUME ListenerInv, Process
    PROVE  ListenerInv'
<1>1. /\ pc = "process" /\ pc' = pc /\ signal' = signal
      /\ counters' = counters /\ invalid' = invalid /\ status' = status
      /\ ProcessStep
  BY DEF Process, listenerVars
<1>2. Ordered /\ Window
  BY DEF ListenerInv
<1>3. Ordered' /\ Window'
  BY <1>1, <1>2, NextOrdered, NextWindow DEF ProcessorNext, NoThrowNext
<1>4. ListenerTypeOK'
  BY <1>1 DEF ListenerInv, ListenerTypeOK
<1>5. /\ CallInv' /\ ordering' = ordering
      /\ Len(handed') = Len(handed) + (packets_delivered' - packets_delivered)
      /\ packets_delivered' \in Nat /\ Len(handed') \in Nat
      /\ Len(handed') + InHand' + Cardinality(pending') =
            Len(handed) + InHand + Cardinality(pending)
      /\ InHand' \in {0, 1} /\ Cardinality(pending') \in Nat
      /\ Cardinality(pending') <= Cardinality(pending)
  <2>0. /\ Len(handed) \in Nat /\ packets_delivered \in Nat
        /\ Cardinality(pending) \in Nat
    BY CounterFacts
  <2>2. CASE Consume
    <3>1. /\ Len(handed') = Len(handed) + 1 /\ pending' = pending
          /\ value # NoSequence /\ value' = NoSequence
          /\ ordering' = ordering /\ phase = "consume"
          /\ packets_delivered' = packets_delivered + 1
      BY <1>2, <2>2, ConsumeEffect
    <3>2. InHand = 1 /\ InHand' = 0
      BY <3>1 DEF InHand
    <3>3. CallInv'
      BY <1>1, <3>1 DEF ListenerInv, CallInv
    <3> QED BY <2>0, <3>1, <3>2, <3>3
  <2>3. CASE PopReady
    <3>1. /\ Cardinality(pending') = Cardinality(pending) - 1
          /\ Cardinality(pending') \in Nat
          /\ handed' = handed /\ ordering' = ordering
          /\ value = NoSequence /\ value' # NoSequence /\ phase = "pop"
          /\ packets_delivered' = packets_delivered
      BY <1>2, <2>3, PopEffect
    <3>2. InHand = 0 /\ InHand' = 1
      BY <3>1 DEF InHand
    <3>3. CallInv'
      BY <1>1, <3>1 DEF ListenerInv, CallInv
    <3> QED BY <2>0, <3>1, <3>2, <3>3
  <2>4. CASE ProcessReturns
    <3>1. /\ pending' = pending /\ value' = value /\ ordering' = ordering
          /\ packets_delivered' = packets_delivered /\ handed' = handed
          /\ phase = "pop"
      BY <2>4 DEF ProcessReturns, bufferVars
    <3>2. InHand' = InHand /\ InHand \in {0, 1}
      BY <3>1 DEF InHand
    <3>3. CallInv'
      BY <1>1, <3>1 DEF ListenerInv, CallInv
    <3> QED BY <2>0, <3>1, <3>2, <3>3
  <2> QED BY <1>1, <2>2, <2>3, <2>4 DEF ProcessStep
<1>6. CountInv'
  <2>1. /\ Uncounted = packets_delivered /\ Uncounted' = packets_delivered'
        /\ Refused' = Refused /\ Held' = Held
        /\ Refused \in {0, 1} /\ Held \in {0, 1}
    BY <1>1, <1>5 DEF Uncounted, Refused, Held
  <2>2. /\ counters.datagrams =
              counters.decoded + counters.truncated + counters.malformed
        /\ Len(handed) = counters.delivered + Uncounted
        /\ counters.datagrams =
              Len(handed) + InHand + Cardinality(pending)
              + counters.rejected + Refused
        /\ counters.buffered + Held >= Cardinality(pending)
    BY DEF ListenerInv, CountInv
  <2>3. /\ counters.datagrams \in Nat /\ counters.decoded \in Nat
        /\ counters.delivered \in Nat /\ counters.buffered \in Nat
        /\ counters.rejected \in Nat /\ counters.truncated \in Nat
        /\ counters.malformed \in Nat
        /\ packets_delivered \in Nat /\ Len(handed) \in Nat
        /\ InHand \in {0, 1} /\ Cardinality(pending) \in Nat
    BY CounterFacts
  <2>4. counters'.datagrams =
           counters'.decoded + counters'.truncated + counters'.malformed
    BY <1>1, <1>5, <2>1, <2>2, <2>3
  <2>5. Len(handed') = counters'.delivered + Uncounted'
    <3> DEFINE n == packets_delivered'
    <3>1. /\ n \in Nat
          /\ Len(handed') = Len(handed) + (n - packets_delivered)
      BY <1>5
    <3> HIDE DEF n
    <3>2. Len(handed) = counters.delivered + packets_delivered
      BY <2>1, <2>2
    <3>3. Len(handed) + (n - packets_delivered) = counters.delivered + n
      BY <2>3, <3>1, <3>2
    <3> QED BY <1>1, <2>1, <3>1, <3>3 DEF n
  <2>6. counters'.datagrams =
           Len(handed') + InHand' + Cardinality(pending')
           + counters'.rejected + Refused'
    BY <1>1, <1>5, <2>1, <2>2, <2>3
  <2>7. counters'.buffered + Held' >= Cardinality(pending')
    <3> DEFINE c == Cardinality(pending')
    <3>1. c \in Nat /\ c <= Cardinality(pending)
      BY <1>5
    <3> HIDE DEF c
    <3>2. counters.buffered + Held >= c
      BY <2>1, <2>2, <2>3, <3>1
    <3> QED BY <1>1, <2>1, <3>2 DEF c
  <2> QED BY <2>4, <2>5, <2>6, <2>7 DEF CountInv
<1>7. StatusInv'
  <2>1. status = Running
    BY <1>1 DEF ListenerInv, StatusInv
  <2> QED BY <1>1, <2>1 DEF ListenerInv, StatusInv, Running
<1>8. StopInv'
  <2>1. StopInv
    BY DEF ListenerInv
  <2> QED BY <1>1, <1>5, <2>1, CounterFacts DEF StopInv
<1> QED BY <1>3, <1>4, <1>5, <1>6, <1>7, <1>8 DEF ListenerInv

\* Processed keeps the invariant: the verdict on the packet is counted, and
\* the loop goes on only if --stop-after is not reached.
LEMMA ProcessedInv ==
    ASSUME ListenerInv, Processed
    PROVE  ListenerInv'
<1> DEFINE rejected == ordering \notin {"ready", "buffered"}
           delivered == counters.delivered + packets_delivered
<1>1. /\ pc = "process" /\ phase = "idle"
      /\ counters' =
            [counters EXCEPT
               !.delivered = delivered,
               !.buffered = IF ordering = "buffered" THEN @ + 1 ELSE @,
               !.rejected = IF rejected THEN @ + 1 ELSE @]
      /\ invalid' = (invalid \/ rejected)
      /\ pc' = IF StopReached(delivered) THEN "summary" ELSE "check"
      /\ signal' = signal /\ status' = status /\ UNCHANGED processorVars
  BY DEF Processed
<1>2. /\ Ordered' /\ Window'
      /\ phase' = phase /\ value' = value /\ ordering' = ordering
      /\ packets_delivered' = packets_delivered
      /\ handed' = handed /\ pending' = pending
  BY <1>1, ProcessorKept
<1>3. delivered \in Nat /\ rejected \in BOOLEAN
  BY CounterFacts
<1> HIDE DEF delivered, rejected
<1>4. /\ counters'.datagrams = counters.datagrams
      /\ counters'.decoded = counters.decoded
      /\ counters'.delivered = delivered
      /\ counters'.buffered = counters.buffered + (IF ordering = "buffered" THEN 1 ELSE 0)
      /\ counters'.rejected = counters.rejected + (IF rejected THEN 1 ELSE 0)
      /\ counters'.truncated = counters.truncated
      /\ counters'.malformed = counters.malformed
      /\ counters' \in [{"datagrams", "decoded", "delivered", "buffered",
                         "rejected", "truncated", "malformed"} -> Nat]
  <2>1. counters \in [{"datagrams", "decoded", "delivered", "buffered",
                       "rejected", "truncated", "malformed"} -> Nat]
    BY DEF ListenerInv, ListenerTypeOK
  <2>2. counters.buffered \in Nat /\ counters.rejected \in Nat
    BY CounterFacts
  <2> DEFINE b == IF ordering = "buffered" THEN counters.buffered + 1
                  ELSE counters.buffered
             r == IF rejected THEN counters.rejected + 1
                  ELSE counters.rejected
  <2>3. b \in Nat /\ r \in Nat
    BY <2>2
  <2>4. counters' = [counters EXCEPT !.delivered = delivered, !.buffered = b,
                                     !.rejected = r]
    BY <1>1, <2>1
  <2>5. /\ b = counters.buffered + (IF ordering = "buffered" THEN 1 ELSE 0)
        /\ r = counters.rejected + (IF rejected THEN 1 ELSE 0)
    BY <2>2
  <2> HIDE DEF b, r
  <2>6. counters' \in [{"datagrams", "decoded", "delivered", "buffered",
                        "rejected", "truncated", "malformed"} -> Nat]
    BY <1>3, <2>1, <2>3, <2>4
  <2>7. /\ counters'.datagrams = counters.datagrams
        /\ counters'.decoded = counters.decoded
        /\ counters'.delivered = delivered
        /\ counters'.buffered = b /\ counters'.rejected = r
        /\ counters'.truncated = counters.truncated
        /\ counters'.malformed = counters.malformed
    BY <2>1, <2>4
  <2> QED BY <2>5, <2>6, <2>7
<1>5. pc' \in {"check", "summary"}
  BY <1>1
<1>6. ListenerTypeOK' /\ CallInv'
  BY <1>1, <1>2, <1>3, <1>4, <1>5
     DEF ListenerInv, ListenerTypeOK, CallInv
<1>7. /\ Uncounted = packets_delivered /\ Uncounted' = 0
      /\ Refused = (IF rejected THEN 1 ELSE 0) /\ Refused' = 0
      /\ Held = (IF ordering = "buffered" THEN 1 ELSE 0) /\ Held' = 0
      /\ (IF rejected THEN 1 ELSE 0) \in {0, 1} /\ (IF ordering = "buffered" THEN 1 ELSE 0) \in {0, 1}
      /\ InHand' = InHand
  BY <1>1, <1>2, <1>5
     DEF Uncounted, Refused, Held, InHand, rejected
<1>8. CountInv /\ delivered = counters.delivered + packets_delivered
  BY DEF ListenerInv, delivered
<1>9. CountInv'
  <2>2. /\ counters.datagrams =
              counters.decoded + counters.truncated + counters.malformed
        /\ Len(handed) = counters.delivered + Uncounted
        /\ counters.datagrams =
              Len(handed) + InHand + Cardinality(pending)
              + counters.rejected + Refused
        /\ counters.buffered + Held >= Cardinality(pending)
    BY DEF ListenerInv, CountInv
  <2>3. /\ counters.datagrams \in Nat /\ counters.decoded \in Nat
        /\ counters.delivered \in Nat /\ counters.buffered \in Nat
        /\ counters.rejected \in Nat /\ counters.truncated \in Nat
        /\ counters.malformed \in Nat
        /\ packets_delivered \in Nat /\ Len(handed) \in Nat
        /\ InHand \in {0, 1} /\ Cardinality(pending) \in Nat
    BY CounterFacts
  <2>4. counters'.datagrams =
           counters'.decoded + counters'.truncated + counters'.malformed
    BY <1>2, <1>4, <1>7, <1>8, <2>2, <2>3
  <2>5. Len(handed') = counters'.delivered + Uncounted'
    BY <1>2, <1>4, <1>7, <1>8, <2>2, <2>3
  <2>6. counters'.datagrams =
           Len(handed') + InHand' + Cardinality(pending')
           + counters'.rejected + Refused'
    <3> DEFINE f == IF rejected THEN 1 ELSE 0
    <3>1. Refused = f /\ f \in Nat /\ Refused' = 0
          /\ counters'.rejected = counters.rejected + f
      BY <1>4, <1>7
    <3> HIDE DEF f
    <3>2. counters.datagrams =
             Len(handed) + InHand + Cardinality(pending)
             + (counters.rejected + f) + 0
      BY <2>2, <2>3, <3>1
    <3> QED BY <1>2, <1>4, <1>7, <3>1, <3>2
  <2>7. counters'.buffered + Held' >= Cardinality(pending')
    BY <1>2, <1>4, <1>7, <1>8, <2>2, <2>3
  <2> QED BY <2>4, <2>5, <2>6, <2>7 DEF CountInv
<1>10. StatusInv'
  <2>1. /\ status = Running /\ (invalid <=> counters.rejected # 0)
        /\ counters.rejected \in Nat /\ invalid \in BOOLEAN
    BY <1>1, CounterFacts DEF ListenerInv, StatusInv, ListenerTypeOK
  <2>2. invalid' <=> counters'.rejected # 0
    <3>1. CASE rejected
      <4>1. invalid'
        BY <1>1, <3>1, Zenon
      <4>2. counters'.rejected = counters.rejected + 1
        BY <1>4, <2>1, <3>1
      <4> QED BY <2>1, <4>1, <4>2
    <3>2. CASE ~ rejected
      BY <1>1, <1>4, <2>1, <3>2
    <3> QED BY <3>1, <3>2
  <2> QED BY <1>1, <1>5, <2>1, <2>2 DEF StatusInv, Running
<1>11. StopInv'
  <2>1. Len(handed) = delivered
    BY <1>7, <1>8 DEF CountInv
  <2>2. StopAfter # 0 /\ pc' # "summary" => delivered < StopAfter
    BY <1>1, <1>3, ListenerAssumption DEF StopReached
  <2> QED BY <1>2, <1>5, <1>7, <2>1, <2>2 DEF ListenerInv, StopInv
<1> QED BY <1>2, <1>6, <1>9, <1>10, <1>11 DEF ListenerInv

-----------------------------------------------------------------------------
(* The theorems.                                                           *)

\* Every step of the listener keeps the invariant.
LEMMA NextListenerInv ==
    ASSUME ListenerInv, [Next]_vars
    PROVE  ListenerInv'
<1>1. CASE Signal \/ Check \/ Block
  BY <1>1, SignalInv
<1>2. ASSUME NEW reason \in NoPacket, Discard(reason) PROVE ListenerInv'
  BY <1>2, DiscardInv
<1>3. ASSUME NEW s \in Sequences, Receive(s) PROVE ListenerInv'
  BY <1>3, ReceiveInv
<1>4. CASE ReceiveFails
  BY <1>4, ReceiveFailsInv
<1>5. CASE Process
  BY <1>5, ProcessInv
<1>6. CASE Processed
  BY <1>6, ProcessedInv
<1>7. CASE Summary
  BY <1>7, SummaryInv
<1>8. CASE UNCHANGED vars
  <2>1. /\ UNCHANGED processorVars /\ pc' = pc /\ signal' = signal
        /\ counters' = counters /\ invalid' = invalid /\ status' = status
    BY <1>8 DEF vars, listenerVars
  <2>2. /\ Ordered' /\ Window'
        /\ phase' = phase /\ value' = value /\ ordering' = ordering
        /\ packets_delivered' = packets_delivered
        /\ handed' = handed /\ pending' = pending
    BY <2>1, ProcessorKept
  <2> QED BY <2>1, <2>2
          DEF ListenerInv, ListenerTypeOK, CallInv, CountInv, StatusInv,
              StopInv, Uncounted, Refused, Held, InHand
<1> QED
  BY <1>1, <1>2, <1>3, <1>4, <1>5, <1>6, <1>7, <1>8
     DEF Next, Arrival, ListenerStep

\* The invariant says what the properties say.
LEMMA ListenerInvImplies ==
    ASSUME ListenerInv
    PROVE  /\ TypeOK /\ CountersAddUp /\ StatusTruthful /\ StopsAfter
           /\ OrderedDelivery /\ PendingAhead /\ CapacitySuffices
<1>1. TypeOK
  BY DEF ListenerInv, ListenerTypeOK, Ordered, TypeOK
<1>2. pc # "process" =>
         /\ value = NoSequence /\ InHand = 0 /\ Uncounted = 0
         /\ Refused = 0 /\ Held = 0
  <2>1. pc # "process" => value = NoSequence
    BY DEF ListenerInv, CallInv, Ordered
  <2> QED BY <2>1 DEF InHand, Uncounted, Refused, Held
<1>3. CountersAddUp
  BY <1>2, CounterFacts DEF ListenerInv, CountInv, CountersAddUp
<1>4. StatusTruthful
  <2>1. ASSUME pc = "summary", Len(handed) = counters.datagrams
        PROVE  ~ invalid /\ pending = {}
    <3>1. Cardinality(pending) = 0 /\ counters.rejected = 0
      BY <1>2, <2>1, CounterFacts DEF ListenerInv, CountInv
    <3>2. pending = {}
      BY <3>1, CounterFacts, FS_EmptySet
    <3> QED BY <2>1, <3>1, <3>2 DEF ListenerInv, StatusInv
  <2> QED BY <2>1 DEF ListenerInv, StatusInv, StatusTruthful
<1>5. StopsAfter
  BY CounterFacts DEF ListenerInv, StopInv, StopsAfter
<1>6. OrderedDelivery /\ PendingAhead
  BY DEF ListenerInv, Ordered, Window, PendingAhead
<1>7. CapacitySuffices
  BY RoomForOne DEF ListenerInv
<1> QED BY <1>1, <1>3, <1>4, <1>5, <1>6, <1>7

\* The invariant of the listener holds in every reachable state.
THEOREM ListenerInductive == Spec => []ListenerInv
BY InitListenerInv, NextListenerInv, PTL DEF Spec

\* The listener's state is well typed.
THEOREM ListenerTypeCorrect == Spec => []TypeOK
BY ListenerInductive, ListenerInvImplies, PTL

\* The summary of main.cpp accounts for every datagram exactly once, wherever
\* in the loop the listener is and whatever arrives.
THEOREM SummaryAddsUp == Spec => []CountersAddUp
BY ListenerInductive, ListenerInvImplies, PTL

\* The exit status is 0 exactly when every datagram was a packet that was
\* delivered in sequence, also when a signal ends the loop.
THEOREM ExitStatusTruthful == Spec => []StatusTruthful
BY ListenerInductive, ListenerInvImplies, PTL

\* --stop-after ends the loop as soon as enough packets are delivered, and it
\* overshoots by no more than the gap limit.
THEOREM StopsInTime == Spec => []StopsAfter
BY ListenerInductive, ListenerInvImplies, PTL

\* Inside the listener, packets are printed in order and without a gap.
THEOREM ListenerDeliversInOrder == Spec => []OrderedDelivery
BY ListenerInductive, ListenerInvImplies, PTL

\* Inside the listener, every packet held back is still ahead of the one
\* expected next: its consumer does not throw.
THEOREM ListenerHoldsBackAhead == Spec => []PendingAhead
BY ListenerInductive, ListenerInvImplies, PTL

\* Inside the listener, a buffer as large as the gap limit is never full.
THEOREM ListenerCapacity == Spec => []CapacitySuffices
BY ListenerInductive, ListenerInvImplies, PTL

-----------------------------------------------------------------------------
(* The demo: its inductive invariant.                                      *)

\* The update that the n-th command of the simulator brings about.
Report(n) ==
    IF Load
    THEN Exchange!book_updated(1, "buy", [best_price |-> 100,
                                          total_size |-> n])
    ELSE IF n = 1
    THEN Exchange!book_updated(1, "buy", [best_price |-> 100,
                                          total_size |-> 10])
    ELSE IF n = 2
    THEN Exchange!book_updated(1, "sell", [best_price |-> 101,
                                           total_size |-> 8])
    ELSE Exchange!book_updated(1, "buy", [best_price |-> 0,
                                          total_size |-> 0])

Answers ==
    [type : {"submit_accepted", "order_cancelled"},
     key : [user : Nat, client_order : Nat]]
    \cup {Report(n) : n \in 1 .. CommandCount}

\* Event k of a burst: each command is accepted, then its update follows.
Fits(k, e) ==
    \A j \in Nat : /\ k = 2 * j + 1 => ~ IsUpdate(e)
                   /\ k = 2 * j => e = Report(first + j)

\* Commands that are in bursts already published, and packets sent by them
\* and by the burst that is being published.
Before == IF first < CommandCount THEN first ELSE CommandCount
Shipped ==
    IF stage = "publishing" \/ exit_status = 1
    THEN first + result.messages_published ELSE Before

\* Where main and publish_load are.
LoopInv ==
    /\ options \in [message_count : MessageCounts, burst_size : BurstSizes]
    /\ stage \in {"loop", "submit", "get", "publish", "publishing", "stop",
                  "exited"}
    /\ first \in Nat /\ offset \in Nat
    /\ first = 0 \/ Burst <= first
    /\ stage \in {"submit", "get"} => first < CommandCount /\ offset < BurstCount
    /\ stage \in {"publish", "publishing"} =>
          first < CommandCount /\ offset = BurstCount
    /\ stage \in {"stop", "exited"} /\ exit_status # 1 =>
          CommandCount <= first
    /\ stage # "exited" => exit_status = -1
    /\ stage = "exited" => exit_status \in {0, 1}
    /\ exit_status = 1 => Shipped < CommandCount

Levels(direction) == Exchange!BookOf(1)[direction]

Bid == [key |-> order_key(1, 1), direction |-> "buy", limit_price |-> 100,
        open_size |-> 10, sequence |-> 1]

\* The book once n commands have been executed.
BookAfter(n) ==
    /\ n = 0 => Levels("buy") = <<>> /\ Levels("sell") = <<>>
    /\ Load /\ n > 0 =>
          /\ Levels("sell") = <<>>
          /\ DOMAIN Levels("buy") = {100}
          /\ Levels("buy")[100].total_size = n
    /\ ~ Load /\ n \in {1, 2} =>
          /\ DOMAIN Levels("buy") = {100}
          /\ Levels("buy")[100] = [total_size |-> 10, orders |-> <<Bid>>]
          /\ order_key(1, 1) \in DOMAIN active_orders
          /\ active_orders[order_key(1, 1)] =
                [instrument |-> 1, direction |-> "buy", limit_price |-> 100,
                 node |-> 1]
    /\ ~ Load /\ n = 1 => Levels("sell") = <<>>

\* The command in progress, which is the n-th one.
Begun(n) ==
    LET order == make_limit_order(n)
        opposite == Exchange!Opposite(order.side)
    IN  /\ 1 \in DOMAIN books
        /\ events = <<Exchange!accepted("submit_accepted", order.key)>>
        /\ call.kind = "submit" /\ call.key = order.key
        /\ call.instrument = 1 /\ call.direction = order.side
        /\ call.pricing = order.price /\ call.open_size = order.size
        /\ ~ Load => call.sequence = n
        /\ call.filled = {} /\ order.key \notin DOMAIN active_orders
        /\ call.own_before =
              Exchange!top_of_book(order.side, Levels(order.side))
        /\ call.opposite_before =
              Exchange!top_of_book(opposite, Levels(opposite))

Executed == IF stage \in {"loop", "stop"} \/ exit_status = 0 THEN first
            ELSE first + offset

ExchangeInv ==
    /\ 1 \in DOMAIN books => DOMAIN books[1] = {"buy", "sell"}
    /\ Executed < CommandCount => BookAfter(Executed)
    /\ ~ Load /\ Executed < 2 =>
          engine_sequence = Executed + (IF stage = "get" THEN 2 ELSE 1)
    /\ stage = "get" => Submits(Executed + 1) /\ Begun(Executed + 1)

\* The events of a burst after the first `seen' of them.
Fitting(stream, seen) ==
    /\ stream \in Seq(Answers) /\ seen + Len(stream) = 2 * offset
    /\ \A k \in 1 .. Len(stream) : Fits(seen + k, stream[k])

\* publish() has sent m updates of the burst, and looked at the answer of the
\* command that comes next, or not yet.
Inside(where, left, m) ==
    /\ m \in Nat
    /\ where \in {"publishing", "returned", "threw"}
    /\ where = "publishing" => Fitting(left, 2 * m) \/ Fitting(left, 2 * m + 1)
    /\ where = "returned" => m = offset
    /\ where = "threw" => m < offset

Result(m) == [first_sequence |-> IF m = 0 THEN 0 ELSE first + 1,
              last_sequence |-> IF m = 0 THEN 0 ELSE first + m,
              messages_published |-> m, bytes_sent |-> 38 * m]

\* The events of the burst, those publish() has still to look at, and its
\* result so far.
BurstInv ==
    /\ stage \in {"submit", "get", "publish", "publishing"} =>
          Fitting(gathered, 0)
    /\ stage # "publishing" => publishing # "publishing"
    /\ stage = "publishing" \/ exit_status = 1 =>
          /\ Inside(publishing, batch, result.messages_published)
          /\ result = Result(result.messages_published)

\* What has been sent, the encoder behind it, and the total.
SentInv ==
    /\ sent = {Wire!encode(to_packet(n, Report(n))) : n \in 1 .. Shipped}
    /\ Shipped <= LastNumber
    /\ exit_status # 1 /\ (stage = "publishing" => publishing # "threw") =>
          /\ sequence_exhausted <=> Shipped = LastNumber
          /\ ~ sequence_exhausted => next_number = Shipped + 1
    /\ Load /\ exit_status # 1 =>
          total = [first_sequence |-> IF Before = 0 THEN 0 ELSE 1,
                   last_sequence |-> Before,
                   messages_published |-> Before, bytes_sent |-> 38 * Before]

SimulatorInv == LoopInv /\ ExchangeInv /\ BurstInv /\ SentInv

\* The listener has seen nothing but what was sent, and without a signal it
\* leaves its loop only at the number it was given.
SeenInv ==
    /\ \A i \in DOMAIN handed :
          handed[i] <= Shipped /\ handed[i] = handed[1] + (i - 1)
    /\ value <= Shipped /\ \A s \in pending : s <= Shipped
    /\ pc = "summary" /\ ~ signal => StopReached(counters.delivered)
    /\ status = 0 /\ ~ signal => StopReached(Len(handed))

DemoInv == SimulatorInv /\ ListenerInv /\ SeenInv

-----------------------------------------------------------------------------
(* The options and the bounds they give.                                   *)

\* A std::uint64_t sum below 2^64 is the sum.
LEMMA SmallRemainder ==
    ASSUME NEW x \in Nat, NEW m \in Nat, x < m
    PROVE  x % m = x
OBVIOUS

\* Both modes have a number of commands and a length of bursts, and neither
\* comes near 2^64.
LEMMA OptionFacts ==
    ASSUME LoopInv
    PROVE  /\ CommandCount \in Nat \ {0} /\ Burst \in Nat \ {0}
           /\ SizeTValues \in Nat /\ SizeTValues > 10
           /\ CommandCount < SizeTValues
           /\ first < CommandCount => (first + Burst) % SizeTValues = first + Burst
<1> USE SimulatorAssumption
<1>1. /\ options.message_count \in MessageCounts
      /\ options.burst_size \in BurstSizes
  BY DEF LoopInv
<1>2. /\ CommandCount \in Nat \ {0} /\ Burst \in Nat \ {0}
      /\ 2 * CommandCount <= SizeTValues /\ Burst < SizeTValues
  <2>1. /\ options.message_count \in Nat
        /\ 2 * options.message_count <= SizeTValues
    BY <1>1
  <2>2. options.burst_size \in 1 .. SizeTValues - 1
    BY <1>1
  <2>3. CASE Load
    BY <2>1, <2>2, <2>3 DEF CommandCount, Burst, Load
  <2>4. CASE ~ Load
    BY <2>4 DEF CommandCount, Burst
  <2> QED BY <2>3, <2>4
<1>3. CommandCount < SizeTValues
  BY <1>2
<1>4. ASSUME first < CommandCount
      PROVE  (first + Burst) % SizeTValues = first + Burst
  <2>1. first \in Nat /\ (first = 0 \/ Burst <= first)
    BY DEF LoopInv
  <2>2. first + Burst \in 0 .. SizeTValues - 1
    BY <1>2, <1>4, <2>1
  <2> QED BY <2>2
<1> QED BY <1>2, <1>3, <1>4

\* The length of a burst is that of the option, or what is left.
LEMMA BurstCountIs ==
    ASSUME LoopInv, first < CommandCount
    PROVE  /\ BurstCount \in Nat \ {0}
           /\ BurstCount <= Burst /\ first + BurstCount <= CommandCount
           /\ BurstCount = Burst \/ first + BurstCount = CommandCount
<1>1. /\ CommandCount \in Nat /\ Burst \in Nat \ {0} /\ first \in Nat
  BY OptionFacts DEF LoopInv
<1> DEFINE a == Burst
           b == CommandCount - first
<1>2. a \in Nat \ {0} /\ b \in Nat \ {0}
  BY <1>1
<1> HIDE DEF a, b
<1>3. Min({a, b}) \in {a, b} /\ Min({a, b}) <= a /\ Min({a, b}) <= b
  BY <1>2 DEF Min
<1>4. BurstCount = Min({a, b})
  BY DEF BurstCount, a, b
<1>5. a = Burst /\ b = CommandCount - first
  BY DEF a, b
<1> QED BY <1>1, <1>2, <1>3, <1>4, <1>5

\* While the simulator has commands left, it is in the middle of them.
LEMMA ExecutedFacts ==
    ASSUME LoopInv, stage \in {"submit", "get"}
    PROVE  /\ Executed = first + offset /\ Executed \in Nat
           /\ Executed < CommandCount /\ offset < BurstCount
           /\ BurstCount \in Nat
BY OptionFacts, BurstCountIs DEF LoopInv, Executed

-----------------------------------------------------------------------------
(* Packets.                                                                *)

\* What the feed makes of an update arrives with its number.
LEMMA NumberArrives ==
    ASSUME NEW n, NEW e
    PROVE  Wire!decode(Wire!encode(to_packet(n, e))).sequence = n
BY DEF Wire!decode, Wire!encode, to_packet

\* What the codec makes of the updates of the simulator is read as what it
\* was made of.
LEMMA PacketArrives ==
    ASSUME NEW n
    PROVE  /\ Wire!decode(Wire!encode(to_packet(n, Report(n)))) =
                  to_packet(n, Report(n))
           /\ Wire!encode(to_packet(n, Report(n))).length = 38
<1> DEFINE p == to_packet(n, Report(n))
<1>1. \E side \in {"buy", "sell"} : \E price, size :
         p = [sequence |-> n, instrument |-> 1, direction |-> side,
              best_price |-> price, aggregate_size |-> size]
  BY DEF to_packet, Report, Exchange!book_updated
<1> HIDE DEF p
<1>2. Wire!decode(Wire!encode(p)) = p /\ Wire!encode(p).length = 38
  BY <1>1 DEF Wire!decode, Wire!encode, Wire!header_size,
              Wire!book_update_size, Wire!has_price_flag, Wire!NoPrice
<1> QED BY <1>2 DEF p

\* README.md announces the packets of all the updates.
LEMMA AnnouncedIs ==
    ASSUME LoopInv
    PROVE  Announced = {to_packet(n, Report(n)) : n \in 1 .. CommandCount}
<1>1. CASE Load
  <2>1. \A n : Update(n, "buy", 100, n) = to_packet(n, Report(n))
    BY <1>1 DEF Update, to_packet, Report, Exchange!book_updated
  <2> QED BY <1>1, <2>1 DEF Announced, CommandCount
<1>2. CASE ~ Load
  <2>1. /\ Update(1, "buy", 100, 10) = to_packet(1, Report(1))
        /\ Update(2, "sell", 101, 8) = to_packet(2, Report(2))
        /\ Update(3, "buy", Wire!NoPrice, 0) = to_packet(3, Report(3))
    BY <1>2 DEF Update, to_packet, Report, Exchange!book_updated
  <2>2. CommandCount = 3 /\ 1 .. 3 = {1, 2, 3}
    BY <1>2 DEF CommandCount
  <2> QED BY <1>2, <2>1, <2>2 DEF Announced
<1> QED BY <1>1, <1>2

-----------------------------------------------------------------------------
(* The engine.                                                             *)

\* The best level of a side with one level.
LEMMA TopOfOne ==
    ASSUME NEW direction, NEW levels, NEW p \in Int, DOMAIN levels = {p}
    PROVE  Exchange!top_of_book(direction, levels) =
              [best_price |-> p, total_size |-> levels[p].total_size]
<1>1. Exchange!begin(direction, levels) = p
  BY DEF Exchange!begin, Exchange!Better
<1> QED BY <1>1 DEF Exchange!top_of_book

\* The best level of a side without one.
LEMMA TopOfNone ==
    ASSUME NEW direction
    PROVE  Exchange!top_of_book(direction, <<>>) =
              [best_price |-> 0, total_size |-> 0]
BY DEF Exchange!top_of_book, Exchange!NoTop, Exchange!NoPrice

\* rest_order on a side that has no level but the one of the order.
LEMMA RestsAlone ==
    ASSUME NEW levels, NEW order, NEW old \in Nat, order.open_size \in Nat,
           \/ levels = <<>> /\ old = 0
           \/ /\ DOMAIN levels = {order.limit_price}
              /\ levels[order.limit_price].total_size = old,
           old + order.open_size < SizeTValues
    PROVE  LET after == Exchange!rest_order(levels, order)
               p == order.limit_price
           IN  /\ DOMAIN after = {p}
               /\ after[p].total_size = old + order.open_size
               /\ levels = <<>> =>
                      after[p] = [total_size |-> order.open_size,
                                  orders |-> <<order>>]
<1> DEFINE p == order.limit_price
           after == Exchange!rest_order(levels, order)
           level == IF p \in DOMAIN levels THEN levels[p]
                    ELSE [total_size |-> 0, orders |-> <<>>]
<1>1. after = Exchange!Put(levels, p,
                 [total_size |-> Exchange!Plus(level.total_size,
                                               order.open_size),
                  orders     |-> Append(level.orders, order)])
  BY DEF Exchange!rest_order
<1>2. DOMAIN levels \cup {p} = {p}
  OBVIOUS
<1>3. level.total_size = old
  OBVIOUS
<1>4. Exchange!Plus(old, order.open_size) = old + order.open_size
  <2>1. old + order.open_size \in Nat /\ SizeTValues \in Nat
    BY SimulatorAssumption
  <2>2. (old + order.open_size) % SizeTValues = old + order.open_size
    BY <2>1, SmallRemainder
  <2> QED BY <2>2 DEF Exchange!Plus
<1>5. /\ DOMAIN after = {p}
      /\ after[p] = [total_size |-> old + order.open_size,
                     orders |-> Append(level.orders, order)]
  BY <1>1, <1>2, <1>3, <1>4 DEF Exchange!Put
<1>6. levels = <<>> => level.orders = <<>>
  OBVIOUS
<1>7. Append(<<>>, order) = <<order>>
  OBVIOUS
<1> QED BY <1>5, <1>6, <1>7

\* What the orders of the simulator are.
LEMMA OrderFacts ==
    ASSUME NEW n
    PROVE  LET order == make_limit_order(n)
           IN  /\ order.side \in {"buy", "sell"}
               /\ order.price \in {100, 101} /\ order.size \in {1, 8, 10}
               /\ order.key \in {order_key(1, n), order_key(1, 1),
                                 order_key(2, 1)}
               /\ Load \/ n = 1 => order.side = "buy" /\ order.price = 100
               /\ Load => order.size = 1
               /\ ~ Load /\ n = 1 => order.size = 10
               /\ ~ Load /\ n = 1 => order.key = order_key(1, 1)
               /\ ~ Load /\ n = 2 =>
                     order.side = "sell" /\ order.price = 101 /\ order.size = 8
BY DEF make_limit_order

\* The side an order comes to rest on, before and after.
LEMMA OwnSide ==
    ASSUME SimulatorInv, stage = "get",
           NEW n, n = Executed + 1,
           NEW order, order = make_limit_order(n)
    PROVE  LET own == Levels(order.side)
               old == IF Load THEN n - 1 ELSE 0
           IN  /\ \/ own = <<>> /\ old = 0
                  \/ DOMAIN own = {order.price} /\ own[order.price].total_size = old
               /\ old \in Nat /\ old + order.size < SizeTValues
               /\ own # <<>> => Load
               /\ Report(n) = Exchange!book_updated(1, order.side,
                      [best_price |-> order.price,
                       total_size |-> old + order.size])
<1>1. /\ Executed \in Nat /\ n <= CommandCount /\ BookAfter(Executed)
      /\ Submits(n) /\ CommandCount < SizeTValues /\ SizeTValues > 10
      /\ SizeTValues \in Nat /\ CommandCount \in Nat
  BY OptionFacts, ExecutedFacts DEF SimulatorInv, ExchangeInv
<1>2. CASE Load
  <2>1. order.side = "buy" /\ order.price = 100 /\ order.size = 1
    BY <1>2, OrderFacts
  <2>2. n - 1 = Executed /\ n - 1 + 1 = n /\ n \in Nat
    BY <1>1
  <2>3. \/ Executed = 0 /\ Levels("buy") = <<>>
        \/ /\ DOMAIN Levels("buy") = {100}
           /\ Levels("buy")[100].total_size = Executed
    BY <1>1, <1>2 DEF BookAfter
  <2>4. n - 1 \in Nat /\ n - 1 + 1 < SizeTValues
    BY <1>1
  <2>5. Report(n) = Exchange!book_updated(1, "buy",
                       [best_price |-> 100, total_size |-> n])
    BY <1>2 DEF Report
  <2> QED BY <1>2, <2>1, <2>2, <2>3, <2>4, <2>5
<1>3. CASE ~ Load
  <2>1. n = 1 \/ n = 2
    BY <1>1, <1>3 DEF Submits
  <2>2. CASE n = 1
    BY <1>1, <1>3, <2>2, OrderFacts DEF BookAfter, Report
  <2>3. CASE n = 2
    BY <1>1, <1>3, <2>3, OrderFacts DEF BookAfter, Report
  <2> QED BY <2>1, <2>2, <2>3
<1> QED BY <1>2, <1>3

\* A command stores the levels of one side and leaves the other one alone.
LEMMA SideStored ==
    ASSUME NEW side \in {"buy", "sell"}, NEW L,
           1 \in DOMAIN books, DOMAIN books[1] = {"buy", "sell"},
           books' = [books EXCEPT ![1][side] = L]
    PROVE  /\ 1 \in DOMAIN books' /\ DOMAIN books'[1] = {"buy", "sell"}
           /\ Levels(side)' = L
           /\ \A d \in {"buy", "sell"} \ {side} : Levels(d)' = Levels(d)
<1>1. /\ DOMAIN books' = DOMAIN books
      /\ books'[1] = [books[1] EXCEPT ![side] = L]
  OBVIOUS
<1>2. \A d : Levels(d)' = books'[1][d] /\ Levels(d) = books[1][d]
  BY <1>1 DEF Levels, Exchange!BookOf
<1> QED BY <1>1, <1>2

\* Appending no update leaves two events.
LEMMA TwoAnswers ==
    ASSUME NEW a, NEW b
    PROVE  /\ <<a>> \o <<b>> = <<a, b>>
           /\ <<a>> \o <<b>> \o <<>> = <<a, b>>
           /\ <<a>> \o <<>> \o <<b>> = <<a, b>>
<1>1. <<a>> \in Seq({a, b}) /\ <<b>> \in Seq({a, b}) /\ <<>> \in Seq({a, b})
  OBVIOUS
<1>2. <<a>> \o <<b>> = <<a, b>>
  <2>1. /\ <<a>> \o <<b>> \in Seq({a, b}) /\ Len(<<a>> \o <<b>>) = 2
        /\ (<<a>> \o <<b>>)[1] = a /\ (<<a>> \o <<b>>)[2] = b
    BY <1>1
  <2> DEFINE s == <<a>> \o <<b>>
  <2>2. /\ <<a, b>> \in Seq({a, b}) /\ Len(<<a, b>>) = 2
        /\ \A i \in 1 .. 2 : s[i] = <<a, b>>[i]
    BY <2>1
  <2> HIDE DEF s
  <2>3. s \in Seq({a, b}) /\ Len(s) = Len(<<a, b>>)
    BY <2>1, <2>2 DEF s
  <2>4. s = <<a, b>>
    BY <2>2, <2>3, SeqEqual
  <2> QED BY <2>4 DEF s
<1>4. <<a>> \o <<>> = <<a>>
  BY <1>1
<1>3. <<a, b>> \o <<>> = <<a, b>>
  BY <1>1
<1> QED BY <1>2, <1>3, <1>4

\* A submitted order is answered by its acceptance and the update it brings
\* about, and the book is the one that README.md describes.
LEMMA GetReports ==
    ASSUME SimulatorInv, Get, NEW n, n = Executed + 1
    PROVE  /\ events' = <<Exchange!accepted("submit_accepted",
                                            make_limit_order(n).key), Report(n)>>
           /\ 1 \in DOMAIN books' /\ DOMAIN books'[1] = {"buy", "sell"}
           /\ n < CommandCount => BookAfter(n)'
           /\ engine_sequence' = engine_sequence
<1> DEFINE order == make_limit_order(n)
           own == Levels(order.side)
           other == Exchange!Opposite(order.side)
           old == IF Load THEN n - 1 ELSE 0
           resting == [key |-> call.key, direction |-> call.direction,
                       limit_price |-> call.pricing,
                       open_size |-> call.open_size,
                       sequence |-> call.sequence]
           after == Exchange!rest_order(own, resting)
           reply == Exchange!accepted("submit_accepted", order.key)
<1>1. /\ stage = "get" /\ Exchange!FinishSubmit /\ options' = options
      /\ n \in Nat \ {0} /\ n <= CommandCount
  BY ExecutedFacts, OptionFacts DEF Get, Gather, SimulatorInv
<1>2. /\ Begun(n) /\ DOMAIN books[1] = {"buy", "sell"} /\ 1 \in DOMAIN books
  BY <1>1 DEF SimulatorInv, ExchangeInv, Begun
<1>3. /\ order.side \in {"buy", "sell"} /\ other \in {"buy", "sell"} \ {order.side}
      /\ order.price \in {100, 101} /\ order.size \in {1, 8, 10}
  BY OrderFacts DEF Exchange!Opposite
<1>4. /\ call.kind = "submit" /\ call.key = order.key
      /\ call.instrument = 1 /\ call.direction = order.side
      /\ call.pricing = order.price /\ call.open_size = order.size
      /\ call.filled = {} /\ order.key \notin DOMAIN active_orders
      /\ call.own_before = Exchange!top_of_book(order.side, own)
      /\ call.opposite_before = Exchange!top_of_book(other, Levels(other))
      /\ events = <<reply>>
      /\ ~ Load => call.sequence = n
  BY <1>2 DEF Begun
<1>5. \A d : books[1][d] = Levels(d)
  BY <1>2 DEF Levels, Exchange!BookOf
<1>6. /\ \/ own = <<>> /\ old = 0
         \/ DOMAIN own = {order.price} /\ own[order.price].total_size = old
      /\ old \in Nat /\ old + order.size < SizeTValues
      /\ own # <<>> => Load
      /\ Report(n) = Exchange!book_updated(1, order.side,
                         [best_price |-> order.price,
                          total_size |-> old + order.size])
  BY <1>1, OwnSide
<1>7. /\ DOMAIN after = {order.price}
      /\ after[order.price].total_size = old + order.size
      /\ own = <<>> => after[order.price] =
                          [total_size |-> order.size, orders |-> <<resting>>]
  <2>1. /\ resting.limit_price = order.price /\ resting.open_size = order.size
        /\ order.size \in Nat
    BY <1>3, <1>4
  <2> HIDE DEF resting, order, own, old, after
  <2>2. /\ DOMAIN after = {resting.limit_price}
        /\ after[resting.limit_price].total_size = old + resting.open_size
        /\ own = <<>> =>
               after[resting.limit_price] =
                   [total_size |-> resting.open_size, orders |-> <<resting>>]
    <3>1. /\ old \in Nat /\ old + resting.open_size < SizeTValues
          /\ resting.open_size \in Nat
      BY <1>6, <2>1
    <3>2. \/ own = <<>> /\ old = 0
          \/ /\ DOMAIN own = {resting.limit_price}
             /\ own[resting.limit_price].total_size = old
      BY <1>6, <2>1
    <3> QED BY <3>1, <3>2, RestsAlone DEF after
  <2> QED BY <2>1, <2>2
<1>8. Exchange!OwnLevels = own /\ Exchange!OppositeLevels = Levels(other)
  BY <1>4, <1>5 DEF Exchange!OwnLevels, Exchange!OppositeLevels
<1>9. Exchange!Rests /\ Exchange!OwnLevelsAfter = after
  BY <1>3, <1>4, <1>8 DEF Exchange!Rests, Exchange!Market, Exchange!OwnLevelsAfter
<1>10. /\ \A d \in {"buy", "sell"} : Levels(d)' =
                IF d = order.side THEN after ELSE Levels(d)
       /\ 1 \in DOMAIN books' /\ DOMAIN books'[1] = {"buy", "sell"}
  <2>1. books' = [books EXCEPT ![1][order.side] = after]
    BY <1>1, <1>4, <1>9 DEF Exchange!FinishSubmit, Exchange!StoreOwnLevels
  <2> HIDE DEF after, order
  <2> QED BY <1>2, <1>3, <2>1, SideStored
<1>11. Exchange!OppositeUpdate = <<>>
  BY <1>4, <1>8 DEF Exchange!OppositeUpdate, Exchange!book_update_if_changed
<1>12. Exchange!OwnUpdate = <<Report(n)>>
  <2> DEFINE t == Exchange!top_of_book(order.side, after)
             b == Exchange!top_of_book(order.side, own)
  <2>1. t = [best_price |-> order.price, total_size |-> old + order.size]
    <3> HIDE DEF after, old, order
    <3> QED BY <1>3, <1>7, TopOfOne
  <2>2. b.best_price # order.price \/ b.total_size = old
    <3>1. CASE own = <<>>
      <4> HIDE DEF order
      <4> QED BY <1>3, <3>1, TopOfNone
    <3>2. CASE DOMAIN own = {order.price} /\ own[order.price].total_size = old
      <4> HIDE DEF order, own, old
      <4>1. b = [best_price |-> order.price,
                 total_size |-> own[order.price].total_size]
        BY <1>3, <3>2, TopOfOne
      <4> QED BY <3>2, <4>1
    <3> QED BY <1>6, <3>1, <3>2
  <2> HIDE DEF t, b, old, order
  <2>3. t # b
    BY <1>3, <1>6, <2>1, <2>2
  <2>4. call.own_before = b
    BY <1>4 DEF b
  <2>5. Exchange!OwnUpdate = <<Exchange!book_updated(1, order.side, t)>>
    BY <1>4, <1>9, <2>3, <2>4
       DEF Exchange!OwnUpdate, Exchange!book_update_if_changed, t
  <2> QED BY <1>6, <2>1, <2>5
<1>13. events' = <<reply, Report(n)>>
  <2>1. events' = IF call.direction = "buy"
                  THEN <<reply>> \o <<Report(n)>> \o <<>>
                  ELSE <<reply>> \o <<>> \o <<Report(n)>>
    BY <1>1, <1>4, <1>11, <1>12 DEF Exchange!FinishSubmit
  <2> HIDE DEF reply
  <2>2. /\ <<reply>> \o <<Report(n)>> \o <<>> = <<reply, Report(n)>>
        /\ <<reply>> \o <<>> \o <<Report(n)>> = <<reply, Report(n)>>
    BY TwoAnswers
  <2> QED BY <2>1, <2>2
<1>14. ASSUME n < CommandCount PROVE BookAfter(n)'
  <2>1. CASE Load
    <3>1. order.side = "buy" /\ order.price = 100 /\ order.size = 1 /\ n > 0
      BY <1>1, <2>1, OrderFacts
    <3>0. old + order.size = n
      BY <1>1, <2>1, <3>1
    <3>2. BookAfter(Executed) /\ Executed = n - 1
      BY <1>1, ExecutedFacts DEF SimulatorInv, ExchangeInv
    <3>3. Levels("sell") = <<>>
      BY <1>1, <2>1, <3>1, <3>2 DEF BookAfter
    <3>4. Levels("buy")' = after /\ Levels("sell")' = <<>>
      BY <1>10, <3>1, <3>3
    <3>5. DOMAIN after = {100} /\ after[100].total_size = n
      BY <1>7, <3>0, <3>1
    <3> HIDE DEF after, order, own, old
    <3>6. Load' /\ n # 0
      BY <1>1, <2>1 DEF Load
    <3>7. /\ Levels("sell")' = <<>>
          /\ DOMAIN (Levels("buy")') = {100}
          /\ Levels("buy")'[100].total_size = n
      BY <3>4, <3>5
    <3> QED BY <3>6, <3>7 DEF BookAfter
  <2>2. CASE ~ Load /\ n = 1
    <3>1. /\ order.side = "buy" /\ order.price = 100 /\ order.size = 10
          /\ order.key = order_key(1, 1)
      BY <2>2, OrderFacts
    <3>2. BookAfter(Executed) /\ Executed = 0
      BY <1>1, <2>2, ExecutedFacts DEF SimulatorInv, ExchangeInv
    <3>3. Levels("buy") = <<>> /\ Levels("sell") = <<>>
      BY <3>2 DEF BookAfter
    <3>4. resting = Bid
      BY <1>4, <2>2, <3>1 DEF Bid
    <3>5. Levels("buy")' = after /\ Levels("sell")' = <<>>
      BY <1>10, <3>1, <3>3
    <3>6. DOMAIN after = {100} /\ after[100] = [total_size |-> 10, orders |-> <<Bid>>]
      BY <1>7, <3>1, <3>3, <3>4
    <3>7. /\ order_key(1, 1) \in DOMAIN active_orders'
          /\ active_orders'[order_key(1, 1)] =
                [instrument |-> 1, direction |-> "buy", limit_price |-> 100,
                 node |-> 1]
      <4>1. active_orders' = Exchange!Emplace(Exchange!Erase(active_orders, {}),
                                              call.key, Exchange!Handle)
        BY <1>1, <1>4, <1>9 DEF Exchange!FinishSubmit, Exchange!record_submit_result
      <4>2. Exchange!Handle = [instrument |-> 1, direction |-> "buy",
                               limit_price |-> 100, node |-> 1]
        BY <1>4, <2>2, <3>1 DEF Exchange!Handle
      <4>3. order_key(1, 1) \notin DOMAIN Exchange!Erase(active_orders, {})
        BY <1>4, <3>1 DEF Exchange!Erase
      <4>4. call.key = order_key(1, 1)
        BY <1>4, <3>1
      <4> QED BY <4>1, <4>2, <4>3, <4>4 DEF Exchange!Emplace
    <3> HIDE DEF after
    <3> QED BY <1>1, <2>2, <3>5, <3>6, <3>7 DEF BookAfter, Load
  <2>3. CASE ~ Load /\ n = 2
    <3>1. order.side = "sell"
      BY <2>3, OrderFacts
    <3>2. BookAfter(Executed) /\ Executed = 1
      BY <1>1, <2>3, ExecutedFacts DEF SimulatorInv, ExchangeInv
    <3>3. Levels("buy")' = Levels("buy")
      BY <1>10, <3>1
    <3>4. active_orders' = Exchange!Emplace(Exchange!Erase(active_orders, {}),
                                            call.key, Exchange!Handle)
      BY <1>1, <1>4, <1>9 DEF Exchange!FinishSubmit, Exchange!record_submit_result
    <3>5. /\ order_key(1, 1) \in DOMAIN active_orders'
          /\ active_orders'[order_key(1, 1)] = active_orders[order_key(1, 1)]
      BY <2>3, <3>2, <3>4 DEF Exchange!Emplace, Exchange!Erase, BookAfter
    <3> QED BY <1>1, <2>3, <3>2, <3>3, <3>5 DEF BookAfter, Load
  <2>4. ~ Load => n = 1 \/ n = 2
    BY <1>1 DEF SimulatorInv, ExchangeInv, Submits
  <2> QED BY <2>1, <2>2, <2>3, <2>4
<1>15. engine_sequence' = engine_sequence
  BY <1>1 DEF Exchange!FinishSubmit
<1> QED BY <1>10, <1>13, <1>14, <1>15

\* The third command of the walkthrough finds the only bid and takes it out:
\* its answer is the cancellation and an empty side.
LEMMA CancelReports ==
    ASSUME SimulatorInv, CancelAndGet, NEW n, n = Executed + 1
    PROVE  /\ events' = <<Exchange!accepted("order_cancelled", order_key(1, 1)),
                         Report(n)>>
           /\ 1 \in DOMAIN books' /\ DOMAIN books'[1] = {"buy", "sell"}
           /\ n = CommandCount /\ ~ Load
<1> DEFINE key == order_key(1, 1)
           active == active_orders[key]
           before == Levels("buy")
           after == Exchange!remove_order(before, active)
           reply == Exchange!accepted("order_cancelled", key)
<1>1. /\ stage = "submit" /\ Exchange!Cancel(key) /\ ~ Load
      /\ Executed = 2 /\ n = 3 /\ CommandCount = 3
  <2>1. stage = "submit" /\ ~ Submits(n) /\ Exchange!Cancel(key)
    BY ExecutedFacts DEF CancelAndGet, SimulatorInv, Executed
  <2>2. Executed \in Nat /\ Executed < CommandCount
    BY <2>1, ExecutedFacts DEF SimulatorInv
  <2>3. ~ Load /\ n \notin {1, 2}
    BY <2>1 DEF Submits
  <2>4. CommandCount = 3
    BY <2>3 DEF CommandCount
  <2> QED BY <2>1, <2>2, <2>3, <2>4
<1>2. /\ DOMAIN before = {100}
      /\ before[100] = [total_size |-> 10, orders |-> <<Bid>>]
      /\ key \in DOMAIN active_orders
      /\ active = [instrument |-> 1, direction |-> "buy", limit_price |-> 100,
                   node |-> 1]
  <2>1. BookAfter(2)
    BY <1>1 DEF SimulatorInv, ExchangeInv
  <2> QED BY <1>1, <2>1 DEF BookAfter
<1>3. 1 \in DOMAIN books /\ DOMAIN books[1] = {"buy", "sell"}
  <2>1. 1 \in DOMAIN books
    BY <1>2 DEF Levels, Exchange!BookOf, Exchange!EmptyMap, Exchange!Side
  <2> QED BY <2>1 DEF SimulatorInv, ExchangeInv
<1>4. Exchange!LevelsOf(active) = before
  BY <1>2, <1>3 DEF Exchange!LevelsOf, Levels, Exchange!BookOf
<1> HIDE DEF active, before
<1>5. /\ Len(<<Bid>>) = 1 /\ DOMAIN <<Bid>> = {1} /\ <<Bid>>[1] = Bid
      /\ Bid.sequence = 1 /\ Bid.key = key
  BY DEF Bid
<1>6. Exchange!Holds(before, active, key)
  BY <1>2, <1>5 DEF Exchange!Holds
<1>7. /\ books' = [books EXCEPT ![1]["buy"] = after]
      /\ events' = <<reply>> \o Exchange!book_update_if_changed(1, "buy",
                        Exchange!top_of_book("buy", before),
                        Exchange!top_of_book("buy", after))
  <2> HIDE DEF key, after
  <2> QED BY <1>1, <1>2, <1>4, <1>6 DEF Exchange!Cancel, active, after
<1>8. DOMAIN after = {}
  <2>1. Exchange!PositionOf(<<Bid>>, 1) = 1
    BY <1>5 DEF Exchange!PositionOf
  <2>2. Exchange!RemoveAt(<<Bid>>, 1) = <<>>
    BY <1>5 DEF Exchange!RemoveAt
  <2>3. after = Exchange!StoreLevel(before, 100,
                   [total_size |-> Exchange!Minus(10, Bid.open_size),
                    orders |-> <<>>])
    <3>1. /\ active.limit_price = 100 /\ active.node = 1
          /\ before[100].orders = <<Bid>> /\ before[100].total_size = 10
      BY <1>2
    <3> QED BY <1>5, <2>1, <2>2, <3>1 DEF Exchange!remove_order
  <2>4. after = Exchange!Erase(before, {100})
    BY <2>3 DEF Exchange!StoreLevel
  <2> HIDE DEF after
  <2> QED BY <1>2, <2>4 DEF Exchange!Erase
<1>9. Exchange!top_of_book("buy", after) = [best_price |-> 0, total_size |-> 0]
  BY <1>8 DEF Exchange!top_of_book, Exchange!NoTop, Exchange!NoPrice
<1>10. Exchange!top_of_book("buy", before) =
          [best_price |-> 100, total_size |-> 10]
  BY <1>2, TopOfOne
<1>11. Report(n) = Exchange!book_updated(1, "buy", [best_price |-> 0,
                                                   total_size |-> 0])
  BY <1>1 DEF Report
<1>12. events' = <<reply>> \o <<Report(n)>>
  <2>1. [best_price |-> 0, total_size |-> 0] #
           [best_price |-> 100, total_size |-> 10]
    OBVIOUS
  <2> QED BY <1>7, <1>9, <1>10, <1>11, <2>1
          DEF Exchange!book_update_if_changed
<1>13. events' = <<reply, Report(n)>>
  <2> HIDE DEF reply
  <2>1. <<reply>> \o <<Report(n)>> = <<reply, Report(n)>>
    BY TwoAnswers
  <2> QED BY <1>12, <2>1
<1>14. 1 \in DOMAIN books' /\ DOMAIN books'[1] = {"buy", "sell"}
  BY <1>3, <1>7, SideStored
<1> QED BY <1>1, <1>13, <1>14

-----------------------------------------------------------------------------
(* The simulator.                                                          *)

\* The options, and what they announce, stay as they are.
LEMMA SameReports ==
    ASSUME options' = options
    PROVE  /\ Load' = Load /\ CommandCount' = CommandCount /\ Burst' = Burst
           /\ \A n : Report(n)' = Report(n)
           /\ Answers' = Answers
           /\ first' = first =>
                 /\ \A k, e : Fits(k, e)' = Fits(k, e)
                 /\ BurstCount' = BurstCount /\ Before' = Before
                 /\ \A m : Result(m)' = Result(m)
           /\ first' = first /\ offset' = offset =>
                 /\ \A r, m : Fitting(r, m)' <=> Fitting(r, m)
                 /\ \A w, r, m : Inside(w, r, m)' <=> Inside(w, r, m)
<1>1. Load' = Load /\ CommandCount' = CommandCount /\ Burst' = Burst
  BY DEF Load, CommandCount, Burst
<1>2. \A n : Report(n)' = Report(n)
  BY <1>1 DEF Report
<1>3. Answers' = Answers
  BY <1>1, <1>2 DEF Answers
<1>4. ASSUME first' = first
      PROVE  \A k, e : Fits(k, e)' = Fits(k, e)
  BY <1>2, <1>4 DEF Fits
<1>5. ASSUME first' = first
      PROVE  /\ BurstCount' = BurstCount /\ Before' = Before
             /\ \A m : Result(m)' = Result(m)
  BY <1>1, <1>5 DEF BurstCount, Before, Result
<1>6. ASSUME first' = first, offset' = offset
      PROVE  \A r, n : Fitting(r, n)' <=> Fitting(r, n)
  BY <1>3, <1>4, <1>6 DEF Fitting
<1>7. ASSUME first' = first, offset' = offset
      PROVE  \A w, r, m : Inside(w, r, m)' <=> Inside(w, r, m)
  BY <1>6, <1>7 DEF Inside
<1> QED BY <1>1, <1>2, <1>3, <1>4, <1>5, <1>6, <1>7

\* The simulator starts with nothing executed and nothing sent.
LEMMA InitSimulatorInv == SimulatorInit => SimulatorInv /\ Shipped = 0
<1> SUFFICES ASSUME SimulatorInit
             PROVE  SimulatorInv /\ Shipped = 0
  OBVIOUS
<1>1. /\ stage = "loop" /\ first = 0 /\ offset = 0 /\ gathered = <<>>
      /\ exit_status = -1 /\ total = publish_result
      /\ options \in [message_count : MessageCounts, burst_size : BurstSizes]
      /\ sent = {} /\ next_number = 1 /\ sequence_exhausted = FALSE
      /\ publishing = "idle" /\ engine_sequence = 1 /\ books = <<>>
  BY DEF SimulatorInit, PublisherInit, Exchange!Init, Exchange!EmptyMap
<1>2. LoopInv
  BY <1>1 DEF LoopInv
<1>3. Before = 0 /\ Shipped = 0
  BY <1>1, <1>2, OptionFacts DEF Before, Shipped
<1>4. ExchangeInv
  <2>1. Levels("buy") = <<>> /\ Levels("sell") = <<>>
    BY <1>1 DEF Levels, Exchange!BookOf, Exchange!EmptyMap, Exchange!Side
  <2>2. BookAfter(0)
    BY <2>1 DEF BookAfter
  <2> QED BY <1>1, <2>2 DEF ExchangeInv, Executed
<1>5. BurstInv
  BY <1>1 DEF BurstInv
<1>6. SentInv
  <2>1. LastNumber \in Nat \ {0}
    BY LastNumberAssumption
  <2> QED BY <1>1, <1>3, <2>1 DEF SentInv, publish_result
<1> QED BY <1>2, <1>3, <1>4, <1>5, <1>6 DEF SimulatorInv

\* The loop condition of publish_load, and of main's walkthrough.
LEMMA LoopStep ==
    ASSUME SimulatorInv, Loop
    PROVE  SimulatorInv' /\ Shipped' = Shipped
<1>1. /\ stage = "loop" /\ offset' = 0 /\ gathered' = <<>>
      /\ stage' = (IF first < CommandCount THEN "submit" ELSE "stop")
      /\ options' = options /\ first' = first /\ total' = total
      /\ exit_status' = exit_status /\ engine_sequence' = engine_sequence
      /\ books' = books /\ active_orders' = active_orders
      /\ UNCHANGED <<next_number, sequence_exhausted, publishing, batch, result,
                     sent>>
  BY DEF Loop, engineVars, publisherVars, encoderVars
<1>2. LoopInv /\ ExchangeInv /\ BurstInv /\ SentInv /\ exit_status = -1
  BY <1>1 DEF SimulatorInv, LoopInv
<1>3. first \in Nat /\ CommandCount \in Nat
  BY <1>2, OptionFacts DEF LoopInv
<1>4. first < CommandCount => BurstCount \in Nat \ {0}
  BY <1>2, BurstCountIs
<1>5. LoopInv'
  BY <1>1, <1>2, <1>3, <1>4, SameReports DEF LoopInv
<1>6. Shipped' = Shipped /\ Before' = Before
  BY <1>1, <1>2, SameReports DEF Shipped
<1>7. Executed' = Executed
  BY <1>1, <1>2, <1>3 DEF Executed
<1>8. ExchangeInv'
  <2>1. \A n : BookAfter(n)' = BookAfter(n)
    BY <1>1, SameReports DEF BookAfter, Levels, Exchange!BookOf
  <2> QED BY <1>1, <1>2, <1>7, <2>1, SameReports DEF ExchangeInv
<1>9. BurstInv'
  <2>1. Fitting(<<>>, 0)'
    BY <1>1 DEF Fitting
  <2>2. Fitting(gathered, 0)'
    BY <1>1, <2>1
  <2> QED BY <1>1, <1>2, <2>2 DEF BurstInv
<1>10. SentInv'
  <2>1. \A n : to_packet(n, Report(n))' = to_packet(n, Report(n))
    BY <1>1, SameReports DEF to_packet
  <2> QED BY <1>1, <1>2, <1>6, <2>1, SameReports DEF SentInv
<1> QED BY <1>5, <1>6, <1>8, <1>9, <1>10 DEF SimulatorInv

\* submit_async: the engine begins the command that comes next.
LEMMA SubmitStep ==
    ASSUME SimulatorInv, Submit
    PROVE  SimulatorInv' /\ Shipped' = Shipped
<1> DEFINE n == Executed + 1
           order == make_limit_order(n)
           other == Exchange!Opposite(order.side)
           book == Exchange!BookOf(1)
<1>1. /\ stage = "submit" /\ stage' = "get" /\ Submits(n)
      /\ Exchange!SubmitBegin(order.key, 1, order.side, order.price, order.size)
      /\ UNCHANGED <<options, first, offset, gathered, total, exit_status,
                     next_number, sequence_exhausted, publishing, batch,
                     result, sent>>
  <2>1. stage = "submit" /\ exit_status = -1
    BY DEF Submit, SimulatorInv, LoopInv
  <2>2. n = first + offset + 1
    BY <2>1 DEF Executed
  <2> HIDE DEF n
  <2> QED BY <2>2 DEF Submit, loopVars, publisherVars, encoderVars
<1>2. LoopInv /\ ExchangeInv /\ BurstInv /\ SentInv /\ exit_status = -1
  BY <1>1 DEF SimulatorInv, LoopInv
<1>3. LoopInv'
  BY <1>1, <1>2, SameReports DEF LoopInv
<1>4. Shipped' = Shipped /\ Before' = Before /\ Executed' = Executed
  BY <1>1, <1>2, SameReports DEF Shipped, Executed
<1>5. /\ books' = Exchange!Put(books, 1, book)
      /\ engine_sequence' = engine_sequence + 1
      /\ active_orders' = active_orders
      /\ events' = <<Exchange!accepted("submit_accepted", order.key)>>
      /\ call'.kind = "submit" /\ call'.key = order.key
      /\ call'.instrument = 1 /\ call'.direction = order.side
      /\ call'.pricing = order.price /\ call'.open_size = order.size
      /\ call'.sequence = engine_sequence /\ call'.filled = {}
      /\ call'.own_before = Exchange!top_of_book(order.side, book[order.side])
      /\ call'.opposite_before = Exchange!top_of_book(other, book[other])
  <2> HIDE DEF order, book
  <2> QED BY <1>1 DEF Exchange!SubmitBegin, book
<1>6. order.key \notin DOMAIN active_orders
  <2>1. Exchange!submit_verdict(order.key, 1) = Exchange!Ok
    BY <1>1 DEF Exchange!SubmitBegin
  <2> HIDE DEF order
  <2> QED BY <2>1 DEF Exchange!submit_verdict, Exchange!Ok
<1>7. /\ \A d : Levels(d)' = Levels(d)
      /\ 1 \in DOMAIN books' /\ DOMAIN books'[1] = {"buy", "sell"}
  <2>1. 1 \in DOMAIN books' /\ books'[1] = book
    BY <1>5 DEF Exchange!Put
  <2>2. DOMAIN book = {"buy", "sell"}
    BY <1>2 DEF ExchangeInv, Exchange!BookOf, Exchange!Side
  <2>3. \A d : Levels(d)' = books'[1][d]
    BY <2>1 DEF Levels, Exchange!BookOf
  <2>4. \A d : Levels(d) = book[d]
    BY DEF Levels
  <2> QED BY <2>1, <2>2, <2>3, <2>4
<1>8. Executed \in Nat /\ Executed < CommandCount
  BY <1>1, <1>2, ExecutedFacts
<1>9. ~ Load => Executed < 2 /\ engine_sequence = n
  BY <1>1, <1>2, <1>8 DEF ExchangeInv, Submits
<1>10. BookAfter(Executed)'
  <2>1. BookAfter(Executed)
    BY <1>2, <1>8 DEF ExchangeInv
  <2> QED BY <1>1, <1>4, <1>5, <1>7, <2>1, SameReports DEF BookAfter
<1>11. Begun(n)'
  <2>1. order' = order /\ n' = n
    BY <1>1, <1>4, SameReports DEF make_limit_order
  <2> HIDE DEF order, n
  <2>2. /\ call'.own_before =
              Exchange!top_of_book(order.side, Levels(order.side))'
        /\ call'.opposite_before =
              Exchange!top_of_book(other, Levels(other))'
    <3>1. book[order.side] = Levels(order.side)' /\ book[other] = Levels(other)'
      <4> HIDE DEF other
      <4>1. other' = other
        BY <2>1 DEF other
      <4>2. \A d : book[d] = Levels(d)'
        BY <1>7 DEF Levels
      <4> QED BY <2>1, <4>1, <4>2
    <3>2. /\ Exchange!top_of_book(order.side, Levels(order.side))' =
                Exchange!top_of_book(order.side, Levels(order.side)')
          /\ Exchange!top_of_book(other, Levels(other))' =
                Exchange!top_of_book(other, Levels(other)')
      BY <2>1
    <3> QED BY <1>5, <3>1, <3>2
  <2> QED BY <1>1, <1>5, <1>6, <1>7, <1>9, <2>1, <2>2, SameReports
          DEF Begun, order, n
<1>12. ExchangeInv'
  <2>1. Submits(Executed + 1)'
    BY <1>1, <1>4, SameReports DEF Submits
  <2>2. ~ Load' => engine_sequence' = Executed' + 2
    BY <1>1, <1>4, <1>5, <1>8, <1>9, SameReports
  <2>3. BookAfter(Executed)' /\ Begun(Executed + 1)'
    BY <1>10, <1>11
  <2> QED BY <1>1, <1>7, <2>1, <2>2, <2>3 DEF ExchangeInv
<1>13. BurstInv'
  <2>1. Fitting(gathered, 0)
    BY <1>1, <1>2 DEF BurstInv
  <2>2. PICK g : g = gathered
    OBVIOUS
  <2>3. Fitting(g, 0)'
    BY <1>1, <2>1, <2>2, SameReports
  <2>4. Fitting(gathered, 0)'
    BY <1>1, <2>2, <2>3
  <2> QED BY <1>1, <1>2, <2>4 DEF BurstInv
<1>14. SentInv'
  <2>1. \A k : to_packet(k, Report(k))' = to_packet(k, Report(k))
    BY <1>1, SameReports DEF to_packet
  <2> QED BY <1>1, <1>2, <1>4, <2>1, SameReports DEF SentInv
<1> QED BY <1>3, <1>4, <1>12, <1>13, <1>14 DEF SimulatorInv

\* A burst from its first event on.
LEMMA FittingAll ==
    ASSUME NEW stream, offset \in Nat
    PROVE  Fitting(stream, 0) <=>
              /\ stream \in Seq(Answers) /\ Len(stream) = 2 * offset
              /\ \A k \in 1 .. Len(stream) : Fits(k, stream[k])
<1>1. \A k \in Int : 0 + k = k
  OBVIOUS
<1>2. stream \in Seq(Answers) =>
         Len(stream) \in Nat /\ 1 .. Len(stream) \subseteq Int
  OBVIOUS
<1>3. stream \in Seq(Answers) =>
         ((\A k \in 1 .. Len(stream) : Fits(0 + k, stream[k])) <=>
             (\A k \in 1 .. Len(stream) : Fits(k, stream[k])))
  BY <1>1, <1>2
<1> QED BY <1>1, <1>2, <1>3 DEF Fitting

\* The two events of a command join the burst at its end.
LEMMA GatherStep ==
    ASSUME SimulatorInv, stage \in {"submit", "get"}, Gather,
           NEW reply \in Answers, ~ IsUpdate(reply),
           events' = <<reply, Report(Executed + 1)>>
    PROVE  /\ LoopInv' /\ BurstInv' /\ SentInv'
           /\ Shipped' = Shipped /\ Executed' = Executed + 1
           /\ options' = options /\ stage' \in {"submit", "publish"}
<1> DEFINE n == Executed + 1
<1>1. /\ gathered' = gathered \o events' /\ offset' = offset + 1
      /\ stage' = (IF offset + 1 < BurstCount THEN "submit" ELSE "publish")
      /\ UNCHANGED <<options, first, total, exit_status, next_number,
                     sequence_exhausted, publishing, batch, result, sent>>
  BY DEF Gather, publisherVars, encoderVars
<1>2. LoopInv /\ ExchangeInv /\ BurstInv /\ SentInv /\ exit_status = -1
  BY DEF SimulatorInv, LoopInv
<1>3. /\ Executed = first + offset /\ Executed \in Nat
      /\ Executed < CommandCount /\ offset < BurstCount /\ BurstCount \in Nat
      /\ first \in Nat /\ offset \in Nat /\ CommandCount \in Nat
  BY <1>2, ExecutedFacts, OptionFacts DEF LoopInv
<1>4. LoopInv'
  <2>1. /\ stage' \in {"submit", "publish"} /\ offset' \in Nat
        /\ stage' = "submit" => offset' < BurstCount
        /\ stage' = "publish" => offset' = BurstCount
    BY <1>1, <1>3
  <2> QED BY <1>1, <1>2, <1>3, <2>1, SameReports DEF LoopInv
<1>5. Shipped' = Shipped /\ Before' = Before
  BY <1>1, <1>2, SameReports DEF Shipped
<1>6. Executed' = Executed + 1
  BY <1>1, <1>2, <1>3 DEF Executed
<1>7. /\ gathered \in Seq(Answers) /\ Len(gathered) = 2 * offset
      /\ \A k \in 1 .. Len(gathered) : Fits(k, gathered[k])
  BY <1>2, <1>3, FittingAll DEF BurstInv
<1>8. /\ events' \in Seq(Answers) /\ Len(events') = 2
      /\ events'[1] = reply /\ events'[2] = Report(n)
  <2>1. n \in 1 .. CommandCount
    BY <1>3
  <2>2. Report(n) \in Answers
    BY <2>1 DEF Answers
  <2> QED BY <2>2
<1> HIDE DEF n
<1>9. /\ gathered' \in Seq(Answers) /\ Len(gathered') = 2 * (offset + 1)
      /\ \A k \in 1 .. 2 * (offset + 1) :
            gathered'[k] = IF k <= 2 * offset THEN gathered[k]
                           ELSE IF k = 2 * offset + 1 THEN reply ELSE Report(n)
  <2>1. /\ gathered' \in Seq(Answers)
        /\ Len(gathered') = Len(gathered) + Len(events')
        /\ \A k \in 1 .. Len(gathered) + Len(events') :
              gathered'[k] = IF k <= Len(gathered) THEN gathered[k]
                             ELSE events'[k - Len(gathered)]
    <3> DEFINE e == events'
    <3>1. e \in Seq(Answers)
      BY <1>8
    <3> HIDE DEF e
    <3>2. /\ gathered \o e \in Seq(Answers)
          /\ Len(gathered \o e) = Len(gathered) + Len(e)
          /\ \A k \in 1 .. Len(gathered) + Len(e) :
                (gathered \o e)[k] = IF k <= Len(gathered) THEN gathered[k]
                                     ELSE e[k - Len(gathered)]
      BY <1>7, <3>1, ConcatProperties
    <3>3. gathered' = gathered \o e
      BY <1>1 DEF e
    <3> QED BY <3>2, <3>3 DEF e
  <2> QED BY <1>3, <1>7, <1>8, <2>1
<1>10. \A k \in 1 .. Len(gathered') : Fits(k, gathered'[k])
  <2> SUFFICES ASSUME NEW k \in 1 .. 2 * (offset + 1)
               PROVE  Fits(k, gathered'[k])
    BY <1>9
  <2>1. CASE k <= 2 * offset
    <3>1. k \in 1 .. Len(gathered)
      BY <1>3, <1>7, <2>1
    <3> QED BY <1>7, <1>9, <2>1, <3>1
  <2>2. CASE k = 2 * offset + 1
    <3>1. gathered'[k] = reply
      BY <1>3, <1>9, <2>2
    <3>2. \A j \in Nat : k # 2 * j
      BY <1>3, <2>2
    <3> QED BY <3>1, <3>2 DEF Fits
  <2>3. CASE k = 2 * (offset + 1)
    <3>1. gathered'[k] = Report(n)
      BY <1>3, <1>9, <2>3
    <3>2. \A j \in Nat : k # 2 * j + 1 /\ (k = 2 * j => j = offset + 1)
      BY <1>3, <2>3
    <3>3. first + (offset + 1) = n
      BY <1>3 DEF n
    <3> QED BY <1>3, <3>1, <3>2, <3>3 DEF Fits
  <2> QED BY <1>3, <2>1, <2>2, <2>3
<1>11. BurstInv'
  <2>1. PICK g : g = gathered'
    OBVIOUS
  <2>2. \A k \in 1 .. Len(g) : Fits(k, g[k])' /\ 0 + k = k
    BY <1>1, <1>10, <2>1, SameReports
  <2>3. g \in Seq(Answers') /\ 0 + Len(g) = 2 * offset'
    BY <1>1, <1>3, <1>9, <2>1, SameReports
  <2>4. Fitting(g, 0)'
    BY <2>2, <2>3 DEF Fitting
  <2>5. Fitting(gathered, 0)'
    BY <2>1, <2>4
  <2> QED BY <1>1, <1>2, <2>5 DEF BurstInv
<1>12. SentInv'
  <2>1. \A k : to_packet(k, Report(k))' = to_packet(k, Report(k))
    BY <1>1, SameReports DEF to_packet
  <2> QED BY <1>1, <1>2, <1>5, <2>1, SameReports DEF SentInv
<1> QED BY <1>1, <1>4, <1>5, <1>6, <1>11, <1>12

\* future::get: the answer of the engine has come.
LEMMA GetStep ==
    ASSUME SimulatorInv, Get
    PROVE  SimulatorInv' /\ Shipped' = Shipped
<1>0. PICK n : n = Executed + 1
  OBVIOUS
<1> DEFINE reply == Exchange!accepted("submit_accepted", make_limit_order(n).key)
<1>1. stage = "get" /\ Gather
  BY DEF Get
<1>2. LoopInv /\ ExchangeInv
  BY DEF SimulatorInv
<1>3. /\ events' = <<reply, Report(n)>>
      /\ 1 \in DOMAIN books' /\ DOMAIN books'[1] = {"buy", "sell"}
      /\ n < CommandCount => BookAfter(n)'
      /\ engine_sequence' = engine_sequence
  BY <1>0, GetReports
<1>4. Executed \in Nat /\ n \in Nat
  BY <1>0, <1>1, <1>2, ExecutedFacts
<1>5. reply \in Answers /\ ~ IsUpdate(reply)
  <2>1. make_limit_order(n).key \in [user : Nat, client_order : Nat]
    BY <1>4, OrderFacts, <1>0 DEF order_key
  <2> QED BY <2>1 DEF Answers, Exchange!accepted, IsUpdate
<1> HIDE DEF reply
<1>6. /\ LoopInv' /\ BurstInv' /\ SentInv'
      /\ Shipped' = Shipped /\ Executed' = n
      /\ options' = options /\ stage' \in {"submit", "publish"}
  BY <1>0, <1>1, <1>3, <1>5, GatherStep
<1>7. ExchangeInv'
  <2>1. ~ Load /\ n < 2 => engine_sequence' = n + 1
    BY <1>0, <1>1, <1>2, <1>3, <1>4 DEF ExchangeInv
  <2>2. Executed' < CommandCount' => BookAfter(Executed)'
    BY <1>3, <1>6, SameReports DEF BookAfter
  <2> QED BY <1>3, <1>6, <2>1, <2>2, SameReports DEF ExchangeInv
<1> QED BY <1>6, <1>7 DEF SimulatorInv

\* The walkthrough cancels, and takes the answer at once.
LEMMA CancelStep ==
    ASSUME SimulatorInv, CancelAndGet
    PROVE  SimulatorInv' /\ Shipped' = Shipped
<1>0. PICK n : n = Executed + 1
  OBVIOUS
<1> DEFINE reply == Exchange!accepted("order_cancelled", order_key(1, 1))
<1>1. stage = "submit" /\ Gather
  BY DEF CancelAndGet
<1>2. LoopInv /\ ExchangeInv
  BY DEF SimulatorInv
<1>3. /\ events' = <<reply, Report(n)>>
      /\ 1 \in DOMAIN books' /\ DOMAIN books'[1] = {"buy", "sell"}
      /\ n = CommandCount /\ ~ Load
  BY <1>0, CancelReports
<1>4. reply \in Answers /\ ~ IsUpdate(reply)
  BY DEF Answers, Exchange!accepted, IsUpdate, order_key
<1> HIDE DEF reply
<1>5. /\ LoopInv' /\ BurstInv' /\ SentInv'
      /\ Shipped' = Shipped /\ Executed' = n
      /\ options' = options /\ stage' \in {"submit", "publish"}
  BY <1>0, <1>1, <1>3, <1>4, GatherStep
<1>6. n = 3 /\ CommandCount' = 3
  BY <1>3, <1>5, SameReports DEF CommandCount
<1>7. ExchangeInv'
  <2> QED BY <1>3, <1>5, <1>6 DEF ExchangeInv
<1> QED BY <1>5, <1>7 DEF SimulatorInv

\* Inside publish() nothing else of the simulator moves.
LEMMA InsidePublish ==
    ASSUME SimulatorInv, stage = "publishing",
           UNCHANGED <<engineVars, loopVars, stage, exit_status>>
    PROVE  /\ LoopInv /\ LoopInv' /\ ExchangeInv' /\ BurstInv /\ SentInv
           /\ UNCHANGED <<options, stage, exit_status, first, offset, total>>
           /\ exit_status = -1 /\ Shipped = first + result.messages_published
           /\ Shipped' = first + result'.messages_published
           /\ first \in Nat /\ offset \in Nat
           /\ Fitting(gathered, 0)'
<1>1. UNCHANGED <<options, stage, exit_status, first, offset, gathered, total,
                  books, active_orders, engine_sequence, events, call>>
  BY DEF engineVars, loopVars
<1>2. LoopInv /\ ExchangeInv /\ BurstInv /\ SentInv /\ exit_status = -1
  BY DEF SimulatorInv, LoopInv
<1>3. LoopInv'
  BY <1>1, <1>2, SameReports DEF LoopInv
<1>4. ExchangeInv'
  <2>1. Executed' = Executed /\ \A n : BookAfter(n)' = BookAfter(n)
    BY <1>1, SameReports DEF BookAfter, Levels, Exchange!BookOf, Executed
  <2> QED BY <1>1, <1>2, <2>1, SameReports DEF ExchangeInv
<1>5. first \in Nat /\ offset \in Nat
  BY <1>2 DEF LoopInv
<1>6. Fitting(gathered, 0)'
  <2>1. PICK g : g = gathered
    OBVIOUS
  <2>2. Fitting(g, 0)'
    BY <1>1, <1>2, <2>1, SameReports DEF BurstInv
  <2> QED BY <1>1, <2>1, <2>2
<1> QED BY <1>1, <1>2, <1>3, <1>4, <1>5, <1>6 DEF Shipped

\* publish() is called with the events of the burst.
LEMMA PublishBurstStep ==
    ASSUME SimulatorInv, PublishBurst
    PROVE  SimulatorInv' /\ Shipped' = Shipped
<1>1. /\ stage = "publish" /\ stage' = "publishing"
      /\ publishing' = "publishing" /\ batch' = gathered
      /\ result' = publish_result
      /\ UNCHANGED <<options, exit_status, first, offset, gathered, total,
                     books, active_orders, engine_sequence, events, call,
                     next_number, sequence_exhausted, sent>>
  BY DEF PublishBurst, publish, engineVars, loopVars, encoderVars
<1>2. /\ LoopInv /\ ExchangeInv /\ BurstInv /\ SentInv /\ exit_status = -1
      /\ first \in Nat /\ offset \in Nat /\ first < CommandCount
  BY <1>1 DEF SimulatorInv, LoopInv
<1>3. LoopInv'
  BY <1>1, <1>2, SameReports DEF LoopInv
<1>4. ExchangeInv'
  <2>1. Executed' = Executed /\ \A n : BookAfter(n)' = BookAfter(n)
    BY <1>1, SameReports DEF BookAfter, Levels, Exchange!BookOf, Executed
  <2> QED BY <1>1, <1>2, <2>1, SameReports DEF ExchangeInv
<1>5. Shipped' = Shipped /\ Before' = Before
  <2>1. Shipped = first
    BY <1>1, <1>2 DEF Shipped, Before
  <2>2. Shipped' = first
    BY <1>1, <1>2 DEF Shipped, publish_result
  <2> QED BY <1>1, <2>1, <2>2, SameReports
<1>6. BurstInv'
  <2>1. PICK g : g = gathered
    OBVIOUS
  <2>2. Fitting(g, 0)' /\ Fitting(g, 2 * 0)'
    BY <1>1, <1>2, <2>1, SameReports DEF BurstInv
  <2>3. Fitting(gathered, 0)'
    BY <1>1, <2>1, <2>2
  <2>4. Inside("publishing", g, 0)'
    BY <2>2 DEF Inside
  <2>5. Inside(publishing, batch, result.messages_published)'
    BY <1>1, <2>1, <2>4 DEF publish_result
  <2>6. result' = Result(result.messages_published)'
    BY <1>1 DEF Result, publish_result
  <2> QED BY <1>1, <2>3, <2>5, <2>6 DEF BurstInv
<1>7. SentInv'
  <2>1. \A n : to_packet(n, Report(n))' = to_packet(n, Report(n))
    BY <1>1, SameReports DEF to_packet
  <2> QED BY <1>1, <1>2, <1>5, <2>1, SameReports DEF SentInv
<1> QED BY <1>3, <1>4, <1>5, <1>6, <1>7 DEF SimulatorInv

\* The first event of a batch, and the events after it.
LEMMA FittingTail ==
    ASSUME NEW stream, NEW seen \in Nat, stream # <<>>, Fitting(stream, seen),
           offset \in Nat
    PROVE  /\ Fits(seen + 1, Head(stream)) /\ Fitting(Tail(stream), seen + 1)
           /\ seen < 2 * offset
<1>1. /\ stream \in Seq(Answers) /\ seen + Len(stream) = 2 * offset
      /\ \A k \in 1 .. Len(stream) : Fits(seen + k, stream[k])
  BY DEF Fitting
<1>2. /\ Len(stream) \in Nat \ {0} /\ Head(stream) = stream[1]
      /\ Tail(stream) \in Seq(Answers) /\ Len(Tail(stream)) = Len(stream) - 1
      /\ \A k \in 1 .. Len(stream) - 1 : Tail(stream)[k] = stream[k + 1]
  BY <1>1, HeadTailProperties, EmptySeq
<1>3. \A k \in 1 .. Len(Tail(stream)) : Fits(seen + 1 + k, Tail(stream)[k])
  <2> SUFFICES ASSUME NEW k \in 1 .. Len(stream) - 1
               PROVE  Fits(seen + 1 + k, Tail(stream)[k])
    BY <1>2
  <2>1. k + 1 \in 1 .. Len(stream) /\ seen + (k + 1) = seen + 1 + k
    BY <1>2
  <2>2. Fits(seen + (k + 1), stream[k + 1])
    BY <1>1, <2>1
  <2> QED BY <1>2, <2>1, <2>2
<1> QED BY <1>1, <1>2, <1>3 DEF Fitting

\* The event publish() looks at next: the acceptance of a command or, if that
\* was looked at already, its update.
LEMMA HeadOfBatch ==
    ASSUME SimulatorInv, stage = "publishing", publishing = "publishing",
           batch # <<>>
    PROVE  \E m \in Nat :
             /\ result = Result(m) /\ result.messages_published = m
             /\ m < offset /\ first + offset <= CommandCount
             /\ IsUpdate(Head(batch)) =>
                   /\ Head(batch) = Report(first + (m + 1))
                   /\ Fitting(Tail(batch), 2 * (m + 1))
             /\ ~ IsUpdate(Head(batch)) => Fitting(Tail(batch), 2 * m + 1)
<1>1. PICK m : m = result.messages_published
  OBVIOUS
<1>2. LoopInv /\ Inside(publishing, batch, m) /\ result = Result(m)
  BY <1>1 DEF SimulatorInv, BurstInv
<1>3. m \in Nat /\ (Fitting(batch, 2 * m) \/ Fitting(batch, 2 * m + 1))
  BY <1>2 DEF Inside
<1>4. offset \in Nat /\ first \in Nat /\ first + offset <= CommandCount
  BY <1>2, BurstCountIs DEF LoopInv
<1>5. 2 * m \in Nat /\ 2 * m + 1 \in Nat /\ 2 * m + 1 + 1 = 2 * (m + 1)
  BY <1>3
<1>6. CASE Fitting(batch, 2 * m)
  <2>1. /\ Fits(2 * m + 1, Head(batch)) /\ Fitting(Tail(batch), 2 * m + 1)
        /\ 2 * m < 2 * offset
    BY <1>4, <1>5, <1>6, FittingTail
  <2>2. ~ IsUpdate(Head(batch)) /\ m < offset
    BY <1>3, <1>4, <2>1 DEF Fits
  <2> QED BY <1>1, <1>2, <1>3, <1>4, <2>1, <2>2
<1>7. CASE Fitting(batch, 2 * m + 1)
  <2>1. /\ Fits(2 * m + 1 + 1, Head(batch))
        /\ Fitting(Tail(batch), 2 * m + 1 + 1)
        /\ 2 * m + 1 < 2 * offset
    BY <1>4, <1>5, <1>7, FittingTail
  <2>2. /\ Fits(2 * (m + 1), Head(batch)) /\ Fitting(Tail(batch), 2 * (m + 1))
    BY <1>5, <2>1
  <2>3. m + 1 \in Nat /\ m < offset
    BY <1>3, <1>4, <2>1
  <2>4. Head(batch) = Report(first + (m + 1))
    BY <2>2, <2>3 DEF Fits
  <2>5. IsUpdate(Head(batch))
    BY <2>4 DEF Report, Exchange!book_updated, IsUpdate
  <2> QED BY <1>1, <1>2, <1>3, <1>4, <2>2, <2>3, <2>4, <2>5
<1> QED BY <1>3, <1>6, <1>7

\* An event that is not an update is passed over.
LEMMA SkipStep ==
    ASSUME SimulatorInv, stage = "publishing", SkipEvent,
           UNCHANGED <<engineVars, loopVars, stage, exit_status>>
    PROVE  SimulatorInv' /\ Shipped' = Shipped
<1>1. /\ publishing = "publishing" /\ batch # <<>> /\ ~ IsUpdate(Head(batch))
      /\ batch' = Tail(batch) /\ publishing' = "publishing"
      /\ UNCHANGED <<next_number, sequence_exhausted, publishing, result, sent>>
  BY DEF SkipEvent, encoderVars
<1>2. PICK m \in Nat : /\ result = Result(m) /\ result.messages_published = m
                       /\ Fitting(Tail(batch), 2 * m + 1)
  BY <1>1, HeadOfBatch
<1>3. PICK rest : rest = Tail(batch)
  OBVIOUS
<1>4. Shipped' = Shipped /\ Before' = Before
  BY <1>1, InsidePublish, SameReports
<1>5. BurstInv'
  <2>1. Fitting(rest, 2 * m + 1)'
    BY <1>2, <1>3, InsidePublish, SameReports
  <2>2. Inside("publishing", rest, m)'
    BY <2>1 DEF Inside
  <2>3. Inside(publishing, batch, result.messages_published)'
    BY <1>1, <1>2, <1>3, <2>2
  <2>4. result' = Result(m)'
    BY <1>1, <1>2, InsidePublish, SameReports
  <2>5. result' = Result(result.messages_published)'
    BY <1>1, <1>2, <2>4
  <2> QED BY <1>1, <2>3, <2>5, InsidePublish DEF BurstInv
<1>6. SentInv'
  <2>1. \A n : to_packet(n, Report(n))' = to_packet(n, Report(n))
    BY InsidePublish, SameReports DEF to_packet
  <2> QED BY <1>1, <1>4, <2>1, InsidePublish, SameReports DEF SentInv
<1> QED BY <1>4, <1>5, <1>6, InsidePublish DEF SimulatorInv

\* An update is numbered, encoded and sent.
LEMMA SendStep ==
    ASSUME SimulatorInv, stage = "publishing", SendUpdate,
           UNCHANGED <<engineVars, loopVars, stage, exit_status>>
    PROVE  SimulatorInv' /\ Shipped \in Nat /\ Shipped' = Shipped + 1
<1>1. /\ publishing = "publishing" /\ batch # <<>> /\ IsUpdate(Head(batch))
      /\ ~ sequence_exhausted
      /\ sent' = sent \cup {Wire!encode(to_packet(next_number, Head(batch)))}
      /\ result' = count_message(next_number,
                      Wire!encode(to_packet(next_number, Head(batch))).length)
      /\ advance_number
      /\ batch' = Tail(batch) /\ publishing' = "publishing"
  BY DEF SendUpdate, EncodeThrows
<1>2. PICK m \in Nat :
         /\ result = Result(m) /\ result.messages_published = m
         /\ m < offset /\ Head(batch) = Report(first + (m + 1))
         /\ Fitting(Tail(batch), 2 * (m + 1))
  BY <1>1, HeadOfBatch
<1>3. PICK rest, n : rest = Tail(batch) /\ n = first + (m + 1)
  OBVIOUS
<1>4. /\ Shipped = first + m /\ Shipped \in Nat /\ n \in Nat /\ n = Shipped + 1
      /\ Shipped' = first + result'.messages_published /\ first \in Nat
      /\ SentInv /\ exit_status = -1
  BY <1>2, <1>3, InsidePublish
<1>5. next_number = n /\ n <= LastNumber
  <2>1. /\ Shipped <= LastNumber /\ Shipped # LastNumber
        /\ next_number = Shipped + 1
    BY <1>1, <1>4 DEF SentInv
  <2> QED BY <1>4, <2>1, LastNumberAssumption
<1>6. Wire!encode(to_packet(n, Report(n))).length = 38
  BY PacketArrives
<1>7. /\ result' = count_message(n, 38)
      /\ sent' = sent \cup {Wire!encode(to_packet(n, Report(n)))}
  BY <1>1, <1>2, <1>3, <1>5, <1>6
<1>8. /\ result'.messages_published = m + 1
      /\ result' = Result(m + 1)
  <2>1. /\ m + 1 # 0 /\ 38 * m + 38 = 38 * (m + 1)
        /\ m = 0 => n = first + 1
    BY <1>3
  <2> QED BY <1>2, <1>3, <1>7, <2>1 DEF count_message, Result
<1>9. Shipped' = n /\ Before' = Before
  BY <1>3, <1>4, <1>8, InsidePublish, SameReports
<1>10. BurstInv'
  <2>1. Fitting(rest, 2 * (m + 1))'
    BY <1>2, <1>3, InsidePublish, SameReports
  <2>2. Inside("publishing", rest, m + 1)'
    BY <2>1 DEF Inside
  <2>3. Inside(publishing, batch, result.messages_published)'
    BY <1>1, <1>3, <1>8, <2>2
  <2>4. result' = Result(m + 1)'
    BY <1>8, InsidePublish, SameReports
  <2>5. result' = Result(result.messages_published)'
    BY <1>8, <2>4
  <2> QED BY <1>1, <2>3, <2>5, InsidePublish DEF BurstInv
<1>11. SentInv'
  <2>1. \A k : to_packet(k, Report(k))' = to_packet(k, Report(k))
    BY InsidePublish, SameReports DEF to_packet
  <2>2. 1 .. n = 1 .. Shipped \cup {n}
    BY <1>4
  <2>3. sent' = {Wire!encode(to_packet(k, Report(k))) : k \in 1 .. n}
    BY <1>4, <1>7, <2>2 DEF SentInv
  <2>4. sent' = {Wire!encode(to_packet(k, Report(k))) : k \in 1 .. Shipped}'
    BY <1>9, <2>1, <2>3
  <2>5. /\ n <= LastNumber
        /\ sequence_exhausted' <=> n = LastNumber
        /\ ~ sequence_exhausted' => next_number' = n + 1
    BY <1>1, <1>5 DEF advance_number
  <2> QED BY <1>4, <1>9, <2>4, <2>5, InsidePublish, SameReports DEF SentInv
<1> QED BY <1>4, <1>9, <1>10, <1>11, InsidePublish DEF SimulatorInv

\* When the batch is empty, all updates of the burst have been sent.
LEMMA ReturnStep ==
    ASSUME SimulatorInv, stage = "publishing", PublishReturns,
           UNCHANGED <<engineVars, loopVars, stage, exit_status>>
    PROVE  SimulatorInv' /\ Shipped' = Shipped
<1>1. /\ publishing = "publishing" /\ publishing' = "returned" /\ batch = <<>>
      /\ UNCHANGED <<next_number, sequence_exhausted, batch, result, sent>>
  BY DEF PublishReturns, encoderVars
<1>2. PICK m : m = result.messages_published
  OBVIOUS
<1>3. Inside("publishing", <<>>, m) /\ result = Result(m) /\ offset \in Nat
  BY <1>1, <1>2, InsidePublish DEF BurstInv
<1>4. m \in Nat /\ m = offset
  BY <1>3 DEF Inside, Fitting
<1>5. Shipped' = Shipped /\ Before' = Before
  BY <1>1, InsidePublish, SameReports
<1>6. BurstInv'
  <2>1. Inside("returned", <<>>, m)'
    BY <1>4, InsidePublish DEF Inside
  <2>2. Inside(publishing, batch, result.messages_published)'
    BY <1>1, <1>2, <2>1
  <2>3. result' = Result(m)'
    BY <1>1, <1>3, InsidePublish, SameReports
  <2>4. result' = Result(result.messages_published)'
    BY <1>1, <1>2, <2>3
  <2> QED BY <1>1, <2>2, <2>4, InsidePublish DEF BurstInv
<1>7. SentInv'
  <2>1. \A n : to_packet(n, Report(n))' = to_packet(n, Report(n))
    BY InsidePublish, SameReports DEF to_packet
  <2> QED BY <1>1, <1>5, <2>1, InsidePublish, SameReports DEF SentInv
<1> QED BY <1>5, <1>6, <1>7, InsidePublish DEF SimulatorInv

\* An exception in encode or in the send leaves updates of the burst unsent.
LEMMA ThrowStep ==
    ASSUME SimulatorInv, PublishFails, stage = "publishing"
    PROVE  SimulatorInv' /\ Shipped' = Shipped
<1>1. /\ publishing = "publishing" /\ publishing' = "threw" /\ batch # <<>>
      /\ UNCHANGED <<result, sent>>
      /\ UNCHANGED <<engineVars, loopVars, stage, exit_status>>
  BY DEF PublishFails, SendFails, EncodeFails
<1>2. PICK m \in Nat : /\ result = Result(m) /\ result.messages_published = m
                       /\ m < offset
  BY <1>1, HeadOfBatch
<1>3. Shipped' = Shipped /\ Before' = Before
  BY <1>1, InsidePublish, SameReports
<1>4. BurstInv'
  <2>1. PICK left : left = batch'
    OBVIOUS
  <2>2. Inside("threw", left, m)'
    BY <1>1, <1>2, InsidePublish DEF Inside
  <2>3. Inside(publishing, batch, result.messages_published)'
    BY <1>1, <1>2, <2>1, <2>2
  <2>4. result' = Result(m)'
    BY <1>1, <1>2, InsidePublish, SameReports
  <2>5. result' = Result(result.messages_published)'
    BY <1>1, <1>2, <2>4
  <2> QED BY <1>1, <2>3, <2>5, InsidePublish DEF BurstInv
<1>5. SentInv'
  <2>1. \A n : to_packet(n, Report(n))' = to_packet(n, Report(n))
    BY <1>1, InsidePublish, SameReports DEF to_packet
  <2> QED BY <1>1, <1>3, <2>1, InsidePublish, SameReports DEF SentInv
<1> QED BY <1>1, <1>3, <1>4, <1>5, InsidePublish DEF SimulatorInv

\* publish() has returned: its result is counted, and the next burst begins.
LEMMA PublishedStep ==
    ASSUME SimulatorInv, Published
    PROVE  SimulatorInv' /\ Shipped' = Shipped
<1>1. /\ stage = "publishing" /\ publishing = "returned" /\ stage' = "loop"
      /\ first' = next_first
      /\ total' = (IF Load THEN add_to_total ELSE total)
      /\ UNCHANGED <<options, exit_status, offset, gathered, next_number,
                     sequence_exhausted, publishing, batch, result, sent,
                     books, active_orders, engine_sequence, events, call>>
  BY DEF Published, publisherVars, encoderVars, engineVars
<1>2. /\ LoopInv /\ ExchangeInv /\ BurstInv /\ SentInv /\ exit_status = -1
      /\ first < CommandCount /\ offset = BurstCount
  BY <1>1 DEF SimulatorInv, LoopInv
<1>3. /\ first \in Nat /\ offset \in Nat \ {0} /\ CommandCount \in Nat
      /\ Burst \in Nat \ {0} /\ first' = first + Burst
      /\ offset <= Burst /\ first + offset <= CommandCount
      /\ offset = Burst \/ first + offset = CommandCount
      /\ first = 0 \/ Burst <= first
  BY <1>1, <1>2, OptionFacts, BurstCountIs DEF next_first, LoopInv
<1>4. /\ result = Result(offset) /\ result.messages_published = offset
  BY <1>1, <1>2 DEF BurstInv, Inside
<1>5. Load' = Load /\ CommandCount' = CommandCount /\ Burst' = Burst
  BY <1>1, SameReports
<1>6. LoopInv'
  BY <1>1, <1>2, <1>3, <1>5 DEF LoopInv
<1>7. /\ Before = first /\ Before' = first + offset
      /\ Shipped = first + offset /\ Shipped' = first + offset
  BY <1>1, <1>2, <1>3, <1>4, <1>5 DEF Before, Shipped
<1>8. ExchangeInv'
  <2>1. Executed = first + offset /\ Executed' = first + Burst
    BY <1>1, <1>2, <1>3 DEF Executed
  <2>2. Executed' < CommandCount => Executed' = Executed
    BY <1>3, <2>1
  <2>3. ~ Load /\ Executed' < 2 => Executed' = Executed
    <3>1. ~ Load => CommandCount = 3
      BY DEF CommandCount
    <3> QED BY <1>3, <2>1, <2>2, <3>1
  <2>4. \A n : BookAfter(n)' = BookAfter(n)
    BY <1>1, <1>5, SameReports DEF BookAfter, Levels, Exchange!BookOf
  <2> QED BY <1>1, <1>2, <1>5, <2>2, <2>3, <2>4 DEF ExchangeInv
<1>9. BurstInv'
  BY <1>1, <1>2 DEF BurstInv
<1>10. SentInv'
  <2>1. \A n : to_packet(n, Report(n))' = to_packet(n, Report(n))
    BY <1>1, SameReports DEF to_packet
  <2>2. ASSUME Load
        PROVE  total' = [first_sequence |-> IF Before' = 0 THEN 0 ELSE 1,
                         last_sequence |-> Before',
                         messages_published |-> Before',
                         bytes_sent |-> 38 * Before']
    <3>1. /\ total = [first_sequence |-> IF first = 0 THEN 0 ELSE 1,
                      last_sequence |-> first,
                      messages_published |-> first, bytes_sent |-> 38 * first]
          /\ total' = add_to_total
      BY <1>1, <1>2, <1>7, <2>2 DEF SentInv
    <3>2. result = [first_sequence |-> first + 1,
                    last_sequence |-> first + offset,
                    messages_published |-> offset, bytes_sent |-> 38 * offset]
      BY <1>3, <1>4 DEF Result
    <3>3. /\ 38 * first + 38 * offset = 38 * (first + offset)
          /\ first + offset # 0
      BY <1>3
    <3>4. add_to_total.first_sequence = 1
      BY <1>3, <3>1, <3>2 DEF add_to_total
    <3> QED BY <1>7, <3>1, <3>2, <3>3, <3>4 DEF add_to_total
  <2> QED BY <1>1, <1>2, <1>5, <1>7, <2>1, <2>2 DEF SentInv
<1> QED BY <1>6, <1>7, <1>8, <1>9, <1>10 DEF SimulatorInv

\* main returns 0 after the last burst.
LEMMA StopStep ==
    ASSUME SimulatorInv, Stop
    PROVE  SimulatorInv' /\ Shipped' = Shipped
<1>1. /\ stage = "stop" /\ stage' = "exited" /\ exit_status' = 0
      /\ UNCHANGED <<options, first, offset, gathered, total, next_number,
                     sequence_exhausted, publishing, batch, result, sent,
                     books, active_orders, engine_sequence, events, call>>
  BY DEF Stop, publisherVars, encoderVars, engineVars, loopVars
<1>2. LoopInv /\ ExchangeInv /\ BurstInv /\ SentInv /\ exit_status = -1
  BY <1>1 DEF SimulatorInv, LoopInv
<1>3. LoopInv'
  BY <1>1, <1>2, SameReports DEF LoopInv
<1>4. Shipped' = Shipped /\ Before' = Before
  BY <1>1, <1>2, SameReports DEF Shipped
<1>5. ExchangeInv'
  <2>1. Executed' = Executed /\ \A n : BookAfter(n)' = BookAfter(n)
    BY <1>1, <1>2, SameReports DEF BookAfter, Levels, Exchange!BookOf, Executed
  <2> QED BY <1>1, <1>2, <2>1, SameReports DEF ExchangeInv
<1>6. BurstInv'
  BY <1>1, <1>2 DEF BurstInv
<1>7. SentInv'
  <2>1. \A n : to_packet(n, Report(n))' = to_packet(n, Report(n))
    BY <1>1, SameReports DEF to_packet
  <2> QED BY <1>1, <1>2, <1>4, <2>1, SameReports DEF SentInv
<1> QED BY <1>3, <1>4, <1>5, <1>6, <1>7 DEF SimulatorInv

\* An exception of publish() ends main with updates unsent.
LEMMA FailStep ==
    ASSUME SimulatorInv, Fail
    PROVE  SimulatorInv' /\ Shipped' = Shipped
<1>1. /\ stage = "publishing" /\ publishing = "threw"
      /\ stage' = "exited" /\ exit_status' = 1
      /\ UNCHANGED <<options, first, offset, gathered, total, next_number,
                     sequence_exhausted, publishing, batch, result, sent,
                     books, active_orders, engine_sequence, events, call>>
  BY DEF Fail, publisherVars, encoderVars, engineVars, loopVars
<1>2. /\ LoopInv /\ ExchangeInv /\ BurstInv /\ SentInv /\ exit_status = -1
      /\ offset = BurstCount /\ first < CommandCount
  BY <1>1 DEF SimulatorInv, LoopInv
<1>3. Shipped' = Shipped /\ Shipped < CommandCount
  <2>1. result.messages_published \in Nat /\ result.messages_published < offset
    BY <1>1, <1>2 DEF BurstInv, Inside
  <2>2. /\ first + offset <= CommandCount /\ first \in Nat /\ offset \in Nat
        /\ CommandCount \in Nat
    BY <1>2, BurstCountIs, OptionFacts DEF LoopInv
  <2>3. Shipped = first + result.messages_published
    BY <1>1 DEF Shipped
  <2>4. Shipped' = first + result.messages_published
    BY <1>1 DEF Shipped
  <2> QED BY <2>1, <2>2, <2>3, <2>4
<1>4. LoopInv'
  BY <1>1, <1>2, <1>3, SameReports DEF LoopInv
<1>5. ExchangeInv'
  <2>1. Executed' = Executed /\ \A n : BookAfter(n)' = BookAfter(n)
    BY <1>1, <1>2, SameReports DEF BookAfter, Levels, Exchange!BookOf, Executed
  <2> QED BY <1>1, <1>2, <2>1, SameReports DEF ExchangeInv
<1>6. BurstInv'
  <2>1. PICK m, left : m = result.messages_published /\ left = batch
    OBVIOUS
  <2>2. Inside("threw", left, m)' /\ result' = Result(m)'
    BY <1>1, <1>2, <2>1, SameReports DEF BurstInv
  <2>3. /\ Inside(publishing, batch, result.messages_published)'
        /\ result' = Result(result.messages_published)'
    BY <1>1, <2>1, <2>2
  <2> QED BY <1>1, <2>3 DEF BurstInv
<1>7. SentInv'
  <2>1. \A n : to_packet(n, Report(n))' = to_packet(n, Report(n))
    BY <1>1, SameReports DEF to_packet
  <2> QED BY <1>1, <1>2, <1>3, <2>1, SameReports DEF SentInv
<1> QED BY <1>3, <1>4, <1>5, <1>6, <1>7 DEF SimulatorInv

\* What has been sent is a number of updates, no more than were asked for.
LEMMA ShippedFacts ==
    ASSUME SimulatorInv
    PROVE  Shipped \in Nat /\ Shipped <= CommandCount
<1>1. LoopInv /\ BurstInv
  BY DEF SimulatorInv
<1>2. first \in Nat /\ offset \in Nat /\ CommandCount \in Nat
  BY <1>1, OptionFacts DEF LoopInv
<1>3. CASE stage = "publishing"
  <2>1. /\ first < CommandCount /\ offset = BurstCount
        /\ Inside(publishing, batch, result.messages_published)
    BY <1>1, <1>3 DEF LoopInv, BurstInv
  <2>2. PICK m : m = result.messages_published
    OBVIOUS
  <2>3. m \in Nat /\ m <= offset
    <3>1. /\ m \in Nat
          /\ \/ m = offset \/ m < offset
             \/ Fitting(batch, 2 * m) \/ Fitting(batch, 2 * m + 1)
      BY <2>1, <2>2 DEF Inside
    <3> QED BY <1>2, <3>1 DEF Fitting
  <2> QED BY <1>1, <1>2, <1>3, <2>1, <2>2, <2>3, BurstCountIs DEF Shipped
<1>4. CASE exit_status = 1
  <2>1. Shipped < CommandCount
    BY <1>1, <1>4 DEF LoopInv
  <2>2. result.messages_published \in Nat
    BY <1>1, <1>4 DEF BurstInv, Inside
  <2> QED BY <1>2, <1>4, <2>1, <2>2 DEF Shipped
<1>5. CASE stage # "publishing" /\ exit_status # 1
  BY <1>2, <1>5 DEF Shipped, Before
<1> QED BY <1>3, <1>4, <1>5

\* Every step of the simulator keeps its invariant, and nothing that was sent
\* is taken back.
LEMMA NextSimulatorInv ==
    ASSUME SimulatorInv, SimulatorStep
    PROVE  SimulatorInv' /\ Shipped' >= Shipped /\ Shipped' \in Nat
<1>1. Shipped \in Nat
  BY ShippedFacts
<1>2. CASE Loop \/ Submit \/ Get \/ CancelAndGet
  BY <1>1, <1>2, LoopStep, SubmitStep, GetStep, CancelStep
<1>3. CASE PublishBurst \/ Published \/ Stop \/ Fail
  BY <1>1, <1>3, PublishBurstStep, PublishedStep, StopStep, FailStep
<1>4. CASE PublishStep \/ PublishFails
  <2>1. stage = "publishing"
    <3>1. publishing \in {"publishing"}
      BY <1>4 DEF PublishStep, PublishFails, SkipEvent, SendUpdate,
                  PublishReturns, SendFails, EncodeFails
    <3>2. LoopInv /\ BurstInv
      BY DEF SimulatorInv
    <3> QED BY <3>1, <3>2 DEF BurstInv
  <2>2. UNCHANGED <<engineVars, loopVars, stage, exit_status>>
    BY <1>4 DEF PublishStep, PublishFails
  <2>3. SkipEvent \/ SendUpdate \/ PublishReturns \/ PublishFails
    BY <1>4 DEF PublishStep
  <2> QED BY <1>1, <2>1, <2>2, <2>3, SkipStep, SendStep, ReturnStep,
             ThrowStep
<1> QED BY <1>2, <1>3, <1>4 DEF SimulatorStep

\* While the listener runs, the simulator stays as it is.
LEMMA SimulatorKept ==
    ASSUME SimulatorInv, UNCHANGED simulatorVars
    PROVE  SimulatorInv' /\ Shipped' = Shipped
<1>1. UNCHANGED <<options, stage, first, offset, gathered, total, exit_status,
                  next_number, sequence_exhausted, publishing, batch, result,
                  sent, books, active_orders, engine_sequence, events, call>>
  BY DEF simulatorVars, publisherVars, encoderVars, engineVars, loopVars
<1>2. LoopInv /\ ExchangeInv /\ BurstInv /\ SentInv
  BY DEF SimulatorInv
<1>3. Shipped' = Shipped /\ Before' = Before /\ Executed' = Executed
  BY <1>1, SameReports DEF Shipped, Executed
<1>4. LoopInv'
  BY <1>1, <1>2, <1>3, SameReports DEF LoopInv
<1>5. ExchangeInv'
  <2>1. \A d : Levels(d)' = Levels(d)
    BY <1>1 DEF Levels, Exchange!BookOf
  <2>2. \A n : BookAfter(n)' = BookAfter(n)
    BY <1>1, <2>1, SameReports DEF BookAfter
  <2>3. PICK n : n = Executed + 1
    OBVIOUS
  <2>4. make_limit_order(n)' = make_limit_order(n) /\ Submits(n)' = Submits(n)
    BY SameReports, <1>1 DEF make_limit_order, Submits
  <2>5. Begun(n) => Begun(n)'
    BY <1>1, <2>1, <2>4, SameReports DEF Begun
  <2> QED BY <1>1, <1>2, <1>3, <2>2, <2>3, <2>4, <2>5, SameReports
          DEF ExchangeInv
<1>6. BurstInv'
  <2>1. PICK m, left, g : /\ m = result.messages_published /\ left = batch
                          /\ g = gathered
    OBVIOUS
  <2>2. /\ Inside(publishing, left, m)' <=> Inside(publishing, left, m)
        /\ Result(m)' = Result(m) /\ (Fitting(g, 0)' <=> Fitting(g, 0))
    <3>1. PICK w : w = publishing
      OBVIOUS
    <3>2. Inside(w, left, m)' <=> Inside(w, left, m)
      BY <1>1, SameReports
    <3>3. Inside(publishing, left, m)' <=> Inside(w, left, m)'
      BY <1>1, <3>1
    <3> QED BY <1>1, <3>1, <3>2, <3>3, SameReports
  <2>3. /\ Inside(publishing, batch, result.messages_published)' <=>
              Inside(publishing, left, m)'
        /\ Result(result.messages_published)' = Result(m)'
        /\ Fitting(gathered, 0)' <=> Fitting(g, 0)'
    BY <1>1, <2>1
  <2> QED BY <1>1, <1>2, <2>1, <2>2, <2>3 DEF BurstInv
<1>7. SentInv'
  <2>1. \A n : to_packet(n, Report(n))' = to_packet(n, Report(n))
    BY <1>1, SameReports DEF to_packet
  <2> QED BY <1>1, <1>2, <1>3, <2>1, SameReports DEF SentInv
<1> QED BY <1>3, <1>4, <1>5, <1>6, <1>7 DEF SimulatorInv

-----------------------------------------------------------------------------
(* The two programs and the network.                                       *)

\* A program that waits keeps its state, and its invariant.
LEMMA ListenerKept ==
    ASSUME ListenerInv, UNCHANGED <<processorVars, listenerVars>>
    PROVE  /\ ListenerInv'
           /\ UNCHANGED <<handed, value, pending, pc, signal, counters, status>>
BY NextListenerInv DEF vars, processorVars, bufferVars, listenerVars

\* The packets of the listener have numbers.
LEMMA SeenTypes ==
    ASSUME DemoInv
    PROVE  /\ Shipped \in Nat /\ Shipped <= CommandCount /\ CommandCount \in Nat
           /\ handed \in Seq(Nat \ {0}) /\ value \in Nat /\ pending \subseteq Nat
           /\ Len(handed) \in Nat /\ DOMAIN handed = 1 .. Len(handed)
<1>1. ProcessorTypeOK
  BY DEF DemoInv, ListenerInv, Ordered
<1>2. Sequences \subseteq Nat \ {0}
  BY SequencesAssumption DEF Sequences
<1>3. value \in Nat /\ pending \subseteq Nat
  BY <1>1, <1>2, SequencesAssumption DEF ProcessorTypeOK
<1>4. handed \in Seq(Nat \ {0})
  <2>1. handed \in Seq(Sequences)
    BY <1>1 DEF ProcessorTypeOK
  <2> QED BY <1>2, <2>1, SeqMonotonic
<1> QED BY <1>3, <1>4, ShippedFacts, OptionFacts DEF DemoInv, SimulatorInv

\* The simulator adds to what was sent.
LEMMA SimulateStep ==
    ASSUME DemoInv, Simulate
    PROVE  DemoInv'
<1>1. SimulatorInv' /\ Shipped' >= Shipped /\ Shipped' \in Nat
  BY NextSimulatorInv DEF DemoInv, Simulate
<1>2. /\ ListenerInv'
      /\ UNCHANGED <<handed, value, pending, pc, signal, counters, status>>
  BY ListenerKept DEF DemoInv, Simulate
<1>3. SeenInv'
  <2>1. \A i \in DOMAIN handed : handed[i] \in Nat
    BY SeenTypes
  <2> QED BY <1>1, <1>2, <2>1, SeenTypes DEF DemoInv, SeenInv, StopReached
<1> QED BY <1>1, <1>2, <1>3 DEF DemoInv

\* A datagram arrives: it is one of those that were sent.
LEMMA ArrivesStep ==
    ASSUME DemoInv, Arrives
    PROVE  DemoInv'
<1>1. PICK datagram \in sent : Receive(Wire!decode(datagram).sequence)
  BY DEF Arrives
<1>2. PICK n \in 1 .. Shipped :
         datagram = Wire!encode(to_packet(n, Report(n)))
  BY DEF DemoInv, SimulatorInv, SentInv
<1>3. Receive(n)
  BY <1>1, <1>2, NumberArrives
<1>4. n \in Sequences /\ n \in Nat /\ n <= Shipped
  BY SeenTypes, DemoAssumption, LastNumberAssumption
     DEF DemoInv, SimulatorInv, SentInv, Sequences
<1>5. ListenerInv'
  BY <1>3, <1>4, NextListenerInv DEF Next, Arrival, DemoInv
<1>6. SimulatorInv' /\ Shipped' = Shipped
  BY SimulatorKept DEF DemoInv, Arrives
<1>7. /\ handed' = handed /\ value' \in {value, n} /\ pending' \subseteq pending \cup {n}
      /\ pc' = "process" /\ status = Running /\ status' = status
  <2>1. PushHeld(n) \/ PushReady(n)
    BY <1>3 DEF Receive
  <2>2. pc = "blocked" /\ pc' = "process" /\ status' = status
    BY <1>3 DEF Receive
  <2> QED BY <2>1, <2>2 DEF PushHeld, PushReady, DemoInv, ListenerInv, StatusInv
<1>8. SeenInv'
  BY <1>4, <1>6, <1>7, SeenTypes DEF SeenInv, DemoInv, Running
<1> QED BY <1>5, <1>6, <1>8 DEF DemoInv

\* A packet that is delivered is the successor of the one before.
LEMMA DeliverSeen ==
    ASSUME DemoInv, Process, Shipped' = Shipped
    PROVE  /\ \A i \in DOMAIN handed' :
                 handed'[i] <= Shipped /\ handed'[i] = handed'[1] + (i - 1)
           /\ value' <= Shipped /\ \A s \in pending' : s <= Shipped
<1>1. ProcessStep /\ SeenInv
  BY DEF Process, DemoInv
<1>2. /\ Ordered /\ OrderedDelivery
  BY DEF DemoInv, ListenerInv, Ordered
<1>3. CASE Consume
  <2>1. /\ handed' = Append(handed, value) /\ value' = NoSequence
        /\ pending' = pending /\ value # NoSequence
    BY <1>2, <1>3 DEF Consume, bufferVars, Ordered
  <2>2. /\ handed' \in Seq(Nat) /\ Len(handed') = Len(handed) + 1
        /\ DOMAIN handed' = 1 .. Len(handed) + 1
        /\ \A i \in 1 .. Len(handed) : handed'[i] = handed[i]
        /\ handed'[Len(handed) + 1] = value
    BY <2>1, SeenTypes
  <2>3. Len(handed) # 0 => value = handed[Len(handed)] + 1
    BY <1>2, <2>1, SeenTypes DEF OrderedDelivery
  <2>4. value <= Shipped
    BY <1>1 DEF SeenInv
  <2>5. \A i \in 1 .. Len(handed) :
           /\ handed[i] <= Shipped /\ handed[i] = handed[1] + (i - 1)
           /\ handed[i] \in Nat
    BY <1>1, SeenTypes DEF SeenInv
  <2>6. handed'[Len(handed) + 1] = handed'[1] + Len(handed)
    <3>1. CASE Len(handed) = 0
      BY <2>2, <3>1, SeenTypes
    <3>2. CASE Len(handed) # 0
      <4>1. 1 \in 1 .. Len(handed) /\ Len(handed) \in 1 .. Len(handed)
        BY <3>2, SeenTypes
      <4>2. /\ handed[Len(handed)] = handed[1] + (Len(handed) - 1)
            /\ handed'[1] = handed[1] /\ handed[1] \in Nat
        BY <2>2, <2>5, <4>1
      <4> QED BY <2>2, <2>3, <3>2, <4>2, SeenTypes
    <3> QED BY <3>1, <3>2
  <2>7. \A i \in 1 .. Len(handed) + 1 :
           handed'[i] <= Shipped /\ handed'[i] = handed'[1] + (i - 1)
    <3> SUFFICES ASSUME NEW i \in 1 .. Len(handed) + 1
                 PROVE  handed'[i] <= Shipped /\ handed'[i] = handed'[1] + (i - 1)
      OBVIOUS
    <3>1. CASE i \in 1 .. Len(handed)
      <4>1. 1 \in 1 .. Len(handed)
        BY <3>1, SeenTypes
      <4> QED BY <2>2, <2>5, <3>1, <4>1
    <3>2. CASE i = Len(handed) + 1
      <4>1. i - 1 = Len(handed)
        BY <3>2, SeenTypes
      <4> QED BY <2>2, <2>4, <2>6, <3>2, <4>1
    <3> QED BY <3>1, <3>2, SeenTypes
  <2> QED BY <1>1, <2>1, <2>2, <2>7, SeenTypes DEF SeenInv, NoSequence
<1>4. CASE PopReady
  <2>1. /\ next_sequence \in pending /\ value' = next_sequence
        /\ handed' = handed /\ pending' \subseteq pending
    BY <1>2, <1>4, FirstIsHeld DEF PopReady, CanPop
  <2> QED BY <1>1, <2>1 DEF SeenInv
<1>5. CASE ProcessReturns
  <2>1. handed' = handed /\ pending' = pending /\ value' = value
    BY <1>5 DEF ProcessReturns, bufferVars
  <2> QED BY <1>1, <2>1 DEF SeenInv
<1> QED BY <1>1, <1>3, <1>4, <1>5 DEF ProcessStep

\* The listener goes on by itself, or a signal comes.
LEMMA ListenStep ==
    ASSUME DemoInv, Listen
    PROVE  DemoInv'
<1>1. SimulatorInv' /\ Shipped' = Shipped
  BY SimulatorKept DEF DemoInv, Listen
<1>2. ListenerInv'
  BY NextListenerInv DEF Next, DemoInv, Listen
<1>3. /\ SeenInv
      /\ Len(handed) = counters.delivered + Uncounted
      /\ pc # "stopped" => status = Running
      /\ counters.delivered \in Nat
  BY CounterFacts DEF DemoInv, ListenerInv, CountInv, StatusInv
<1>4. CASE Signal \/ Check \/ Block
  <2>1. /\ UNCHANGED <<processorVars, counters, status>>
        /\ pc # "stopped"
        /\ pc' = "summary" => pc = "summary" \/ signal'
        /\ signal => signal'
    BY <1>4 DEF Signal, Check, Block
  <2>2. UNCHANGED <<handed, value, pending>>
    BY <2>1 DEF processorVars, bufferVars
  <2> QED BY <1>1, <1>2, <1>3, <2>1, <2>2 DEF DemoInv, SeenInv, Running, StopReached
<1>5. CASE Process
  <2>1. UNCHANGED <<pc, signal, counters, status>> /\ pc = "process"
    BY <1>5 DEF Process, listenerVars
  <2> QED BY <1>1, <1>2, <1>3, <1>5, <2>1, DeliverSeen
          DEF DemoInv, SeenInv, Running
<1>6. CASE Processed
  <2>1. /\ UNCHANGED <<processorVars, signal, status>> /\ pc = "process"
        /\ pc' = "summary" => StopReached(counters.delivered + packets_delivered)
    BY <1>6 DEF Processed
  <2>2. UNCHANGED <<handed, value, pending, packets_delivered>>
    BY <2>1 DEF processorVars, bufferVars
  <2>3. pc' = "summary" => counters'.delivered = Len(handed)
    <3>1. /\ Len(handed') = counters'.delivered + Uncounted'
          /\ counters'.delivered \in Nat
      <4>1. counters' \in [{"datagrams", "decoded", "delivered", "buffered",
                            "rejected", "truncated", "malformed"} -> Nat]
        BY <1>2 DEF ListenerInv, ListenerTypeOK
      <4> QED BY <1>2, <4>1 DEF ListenerInv, CountInv
    <3> QED BY <2>2, <3>1 DEF Uncounted
  <2>4. counters.delivered + packets_delivered = Len(handed)
    BY <1>3, <2>1 DEF Uncounted
  <2>5. pc' = "summary" => StopReached(counters'.delivered)
    BY <2>1, <2>3, <2>4
  <2> QED BY <1>1, <1>2, <1>3, <2>1, <2>2, <2>5
          DEF DemoInv, SeenInv, Running, StopReached
<1>7. CASE Summary
  <2>1. /\ UNCHANGED <<processorVars, signal>> /\ pc = "summary"
        /\ pc' = "stopped"
    BY <1>7 DEF Summary
  <2>2. UNCHANGED <<handed, value, pending>>
    BY <2>1 DEF processorVars, bufferVars
  <2>3. Len(handed) = counters.delivered
    BY <1>3, <2>1 DEF Uncounted
  <2> QED BY <1>1, <1>2, <1>3, <2>1, <2>2, <2>3
          DEF DemoInv, SeenInv, StopReached
<1> QED BY <1>4, <1>5, <1>6, <1>7 DEF Listen, ListenerStep

\* Every step of the demo keeps its invariant.
LEMMA NextDemoInv ==
    ASSUME DemoInv, [DemoNext]_demoVars
    PROVE  DemoInv'
<1>1. CASE UNCHANGED demoVars
  <2>1. UNCHANGED simulatorVars /\ UNCHANGED <<processorVars, listenerVars>>
    BY <1>1 DEF demoVars
  <2>2. SimulatorInv' /\ Shipped' = Shipped
    BY <2>1, SimulatorKept DEF DemoInv
  <2>3. /\ ListenerInv'
        /\ UNCHANGED <<handed, value, pending, pc, signal, counters, status>>
    BY <2>1, ListenerKept DEF DemoInv
  <2> QED BY <2>2, <2>3 DEF DemoInv, SeenInv, StopReached
<1> QED BY <1>1, SimulateStep, ArrivesStep, ListenStep DEF DemoNext

\* At the start nothing has been sent and nothing seen.
LEMMA InitDemoInv == DemoInit => DemoInv
<1> SUFFICES ASSUME DemoInit PROVE DemoInv
  OBVIOUS
<1>1. SimulatorInv /\ Shipped = 0 /\ ListenerInv
  BY InitSimulatorInv, InitListenerInv DEF DemoInit
<1>2. /\ handed = <<>> /\ value = NoSequence /\ pending = {} /\ pc = "check"
      /\ status = Running
  BY DEF DemoInit, Init, ProcessorInit
<1> QED BY <1>1, <1>2 DEF DemoInv, SeenInv, NoSequence, Running

\* The invariant of the demo says what the properties say of the simulator...
LEMMA TruthfulFromInv ==
    ASSUME DemoInv
    PROVE  SummaryTruthful
<1>1. /\ LoopInv /\ SentInv
      /\ Shipped \in Nat /\ Shipped <= CommandCount
      /\ CommandCount \in Nat \ {0}
  BY SeenTypes, OptionFacts DEF DemoInv, SimulatorInv
<1>2. Packets = {to_packet(n, Report(n)) : n \in 1 .. Shipped}
  BY <1>1, PacketArrives DEF Packets, SentInv
<1>3. Announced = {to_packet(n, Report(n)) : n \in 1 .. CommandCount}
  BY <1>1, AnnouncedIs
<1>4. Packets \subseteq Announced
  BY <1>1, <1>2, <1>3
<1>5. ASSUME exit_status = 0
      PROVE  /\ Packets = Announced
             /\ Load => total = [first_sequence |-> 1,
                                 last_sequence |-> options.message_count,
                                 messages_published |-> options.message_count,
                                 bytes_sent |-> 38 * options.message_count]
  <2>1. stage = "exited" /\ CommandCount <= first /\ first \in Nat
    BY <1>1, <1>5 DEF LoopInv
  <2>2. Shipped = CommandCount /\ Before = CommandCount
    BY <1>1, <1>5, <2>1 DEF Shipped, Before
  <2>3. Packets = Announced
    BY <1>2, <1>3, <2>2
  <2>4. Load => CommandCount = options.message_count
    BY DEF CommandCount
  <2>5. Load => total = [first_sequence |-> 1,
                         last_sequence |-> CommandCount,
                         messages_published |-> CommandCount,
                         bytes_sent |-> 38 * CommandCount]
    BY <1>1, <1>5, <2>2 DEF SentInv
  <2> QED BY <2>3, <2>4, <2>5
<1>6. ASSUME exit_status = 1
      PROVE  Packets # Announced
  <2>1. Shipped < CommandCount
    BY <1>1, <1>6 DEF LoopInv
  <2>2. \A n : to_packet(n, Report(n)).sequence = n
    BY DEF to_packet
  <2>3. to_packet(CommandCount, Report(CommandCount)) \in Announced
    BY <1>1, <1>3
  <2>4. to_packet(CommandCount, Report(CommandCount)) \notin Packets
    BY <1>1, <1>2, <2>1, <2>2
  <2> QED BY <2>3, <2>4
<1> QED BY <1>4, <1>5, <1>6 DEF SummaryTruthful

\* ... and of the listener.
LEMMA StopFromInv ==
    ASSUME DemoInv
    PROVE  StopAfterMeansAll
<1> SUFFICES ASSUME status = 0, ~ signal, StopAfter = CommandCount
             PROVE  /\ handed = [n \in 1 .. StopAfter |-> n]
                    /\ {p.sequence : p \in Packets} = 1 .. StopAfter
  BY DEF StopAfterMeansAll
<1>1. /\ SentInv /\ CommandCount \in Nat \ {0}
      /\ Shipped \in Nat /\ Shipped <= CommandCount
      /\ handed \in Seq(Nat \ {0})
      /\ Len(handed) \in Nat /\ DOMAIN handed = 1 .. Len(handed)
  BY SeenTypes, OptionFacts DEF DemoInv, SimulatorInv
<1>2. Len(handed) >= CommandCount
  BY DEF DemoInv, SeenInv, StopReached
<1>3. \A i \in 1 .. Len(handed) :
         /\ handed[i] <= Shipped /\ handed[i] = handed[1] + (i - 1)
         /\ handed[i] \in Nat \ {0}
  BY <1>1 DEF DemoInv, SeenInv
<1>4. /\ handed[Len(handed)] <= Shipped /\ handed[1] \in Nat \ {0}
      /\ handed[Len(handed)] = handed[1] + (Len(handed) - 1)
  <2>1. 1 \in 1 .. Len(handed) /\ Len(handed) \in 1 .. Len(handed)
    BY <1>1, <1>2
  <2> QED BY <1>3, <2>1
<1>5. Len(handed) = CommandCount /\ handed[1] = 1 /\ Shipped = CommandCount
  <2>1. PICK l, h, n : l = Len(handed) /\ h = handed[1] /\ n = handed[Len(handed)]
    OBVIOUS
  <2>2. PICK c, s : c = CommandCount /\ s = Shipped
    OBVIOUS
  <2>3. /\ l \in Nat /\ h \in Nat \ {0} /\ c \in Nat /\ s \in Nat
        /\ s <= c /\ l >= c /\ n <= s /\ n = h + (l - 1)
    BY <1>1, <1>2, <1>4, <2>1, <2>2
  <2>4. l = c /\ h = 1 /\ s = c
    BY <2>3
  <2> QED BY <2>1, <2>2, <2>4
<1>6. \A i \in 1 .. CommandCount : handed[i] = i
  BY <1>1, <1>3, <1>5
<1>7. handed = [n \in 1 .. StopAfter |-> n]
  BY <1>1, <1>5, <1>6
<1>8. {p.sequence : p \in Packets} = 1 .. StopAfter
  <2>1. Packets = {to_packet(n, Report(n)) : n \in 1 .. Shipped}
    BY <1>1, PacketArrives DEF Packets, SentInv
  <2>2. \A n : to_packet(n, Report(n)).sequence = n
    BY DEF to_packet
  <2> QED BY <1>5, <2>1, <2>2
<1> QED BY <1>7, <1>8

-----------------------------------------------------------------------------
(* The theorems.                                                           *)

\* The invariant of the two programs and the network between them holds in
\* every reachable state.
THEOREM DemoInductive == DemoSpec => []DemoInv
BY InitDemoInv, NextDemoInv, PTL DEF DemoSpec

\* The simulator sends nothing but the updates README.md announces, whatever
\* the number of messages and the burst size; exit status 0 and its summary
\* say that all of them were sent, exit status 1 that some were not.
THEOREM SimulatorTruthful == DemoSpec => []SummaryTruthful
BY DemoInductive, TruthfulFromInv, PTL

\* A listener that was told to stop after as many packets as the simulator was
\* asked for, and does so with exit status 0, has got every one of them in
\* order, whatever the network lost, repeated or reordered.
THEOREM StoppedListenerGotAll == DemoSpec => []StopAfterMeansAll
BY DemoInductive, StopFromInv, PTL

=============================================================================
