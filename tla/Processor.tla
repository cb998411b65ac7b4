------------------------------ MODULE Processor ------------------------------
(***************************************************************************)
(* class processor with its sequenced_buffer<packet> (market_data/feed):   *)
(* packets that arrive in any order, some of them twice or never, leave in *)
(* the order of their sequence numbers.  A packet is its sequence number.  *)
(*                                                                         *)
(* process() is split at the calls of the consumer, which is the caller's  *)
(* code and may throw.  In between, `phase' says where process() is and    *)
(* `value' holds the packet that was taken out and not yet consumed.       *)
(***************************************************************************)
EXTENDS Integers, SequencesExt

CONSTANTS
    LastSequence,      \* largest sequence number (2^64 - 1 in the code)
    FirstSequence,     \* config.first_sequence, or NoSequence
    MaxPending,        \* limits.maximum_pending_values
    MaxGap,            \* limits.maximum_sequence_gap
    ConsumerMayThrow   \* may the caller's consumer throw?

\* Sequence number 0 never gets past decode_header, so 0 stands for an empty
\* std::optional.
NoSequence == 0
Sequences == 1 .. LastSequence

ASSUME SequencesAssumption ==
    LastSequence \in Nat \ {0} /\ FirstSequence \in 0 .. LastSequence
ASSUME LimitsAssumption == MaxPending \in Nat /\ MaxGap \in Nat
ASSUME ConsumerAssumption == ConsumerMayThrow \in BOOLEAN

VARIABLES
    next_sequence,      \* next_sequence_, or NoSequence
    pending,            \* the keys of pending_
    exhausted,          \* sequence_exhausted_
    phase,              \* "idle", or "consume" or "pop" inside process()
    value,              \* the packet in hand, or NoSequence
    ordering,           \* result.ordering of the last call
    packets_delivered,  \* result.packets_delivered of the last call
    handed              \* the packets handed to the consumer, in order

bufferVars == <<next_sequence, pending, exhausted>>
processorVars == <<bufferVars, phase, value, ordering, packets_delivered,
                   handed>>

sequence_result ==
    {"ready", "buffered", "old", "duplicate", "gap_limit_exceeded",
     "capacity_exhausted"}

ProcessorInit ==
    /\ next_sequence = FirstSequence
    /\ pending = {}
    /\ exhausted = FALSE
    /\ phase = "idle" /\ value = NoSequence
    /\ ordering = "ready" /\ packets_delivered = 0
    /\ handed = <<>>

-----------------------------------------------------------------------------
(* sequenced_buffer                                                        *)

\* Mutant: the gap limit is off by one.
push_result_wide_gap(s) ==
    IF exhausted THEN "old"
    ELSE IF next_sequence = NoSequence THEN "ready"
    ELSE IF s < next_sequence THEN "old"
    ELSE IF s = next_sequence THEN "ready"
    ELSE IF s \in pending THEN "duplicate"
    ELSE IF s - next_sequence > MaxGap + 1 THEN "gap_limit_exceeded"
    ELSE IF Cardinality(pending) >= MaxPending THEN "capacity_exhausted"
    ELSE "buffered"

\* The order of the tests is the order of the early returns of push.
push_result(s) ==
    IF exhausted THEN "old"
    ELSE IF next_sequence = NoSequence THEN "ready"
    ELSE IF s < next_sequence THEN "old"
    ELSE IF s = next_sequence THEN "ready"
    ELSE IF s \in pending THEN "duplicate"
    ELSE IF s - next_sequence > MaxGap THEN "gap_limit_exceeded"
    ELSE IF Cardinality(pending) >= MaxPending THEN "capacity_exhausted"
    ELSE "buffered"

\* Mutant: nothing comes after the largest sequence number.
advance_after_unchecked(s) ==
    /\ next_sequence' = s + 1
    /\ UNCHANGED exhausted

advance_after(s) ==
    /\ exhausted' = (exhausted \/ s = LastSequence)
    /\ next_sequence' = IF s = LastSequence THEN NoSequence ELSE s + 1

\* Mutant: the first packet is released even if it is not the next one.
CanPopAny == next_sequence # NoSequence /\ ~ exhausted /\ pending # {}

\* Mutant: at most one packet is released when a gap closes.
CanPopOnce ==
    /\ packets_delivered < 2
    /\ next_sequence # NoSequence /\ ~ exhausted /\ pending # {}
    /\ Min(pending) = next_sequence

\* The condition under which pop_ready returns a value.
CanPop ==
    /\ next_sequence # NoSequence /\ ~ exhausted /\ pending # {}
    /\ Min(pending) = next_sequence

-----------------------------------------------------------------------------
(* processor::process                                                      *)

\* A packet that is not ready ends the call.
PushHeld(s) ==
    /\ phase = "idle"
    /\ push_result(s) # "ready"
    /\ pending' = IF push_result(s) = "buffered" THEN pending \cup {s}
                  ELSE pending
    /\ ordering' = push_result(s)
    /\ packets_delivered' = 0
    /\ UNCHANGED <<next_sequence, exhausted, phase, value, handed>>

\* A packet that is ready goes to the consumer without being stored.
PushReady(s) ==
    /\ phase = "idle"
    /\ push_result(s) = "ready"
    /\ advance_after(s)
    /\ phase' = "consume" /\ value' = s
    /\ ordering' = "ready"
    /\ packets_delivered' = 0
    /\ UNCHANGED <<pending, handed>>

Consume ==
    /\ phase = "consume"
    /\ handed' = Append(handed, value)
    /\ packets_delivered' = packets_delivered + 1
    /\ phase' = "pop" /\ value' = NoSequence
    /\ UNCHANGED <<bufferVars, ordering>>

\* The exception leaves process(): no result, no further release.
ConsumeThrows ==
    /\ ConsumerMayThrow
    /\ phase = "consume"
    /\ handed' = Append(handed, value)
    /\ phase' = "idle" /\ value' = NoSequence
    /\ UNCHANGED <<bufferVars, ordering, packets_delivered>>

PopReady ==
    /\ phase = "pop"
    /\ CanPop
    /\ value' = Min(pending)
    /\ pending' = pending \ {Min(pending)}
    /\ advance_after(Min(pending))
    /\ phase' = "consume"
    /\ UNCHANGED <<ordering, packets_delivered, handed>>

\* Mutant: the loop goes on until nothing is held back.
ProcessReturnsWhenEmpty ==
    /\ phase = "pop"
    /\ pending = {}
    /\ phase' = "idle"
    /\ UNCHANGED <<bufferVars, value, ordering, packets_delivered, handed>>

\* pop_ready returns nothing and process() returns.
ProcessReturns ==
    /\ phase = "pop"
    /\ ~ CanPop
    /\ phase' = "idle"
    /\ UNCHANGED <<bufferVars, value, ordering, packets_delivered, handed>>

ProcessStep == Consume \/ PopReady \/ ProcessReturns

ProcessorNext ==
    \/ \E s \in Sequences : PushHeld(s) \/ PushReady(s)
    \/ ProcessStep
    \/ ConsumeThrows

ProcessorSpec == ProcessorInit /\ [][ProcessorNext]_processorVars

-----------------------------------------------------------------------------
(* Properties.                                                             *)

ProcessorTypeOK ==
    /\ next_sequence \in 0 .. LastSequence
    /\ pending \subseteq Sequences
    /\ exhausted \in BOOLEAN
    /\ phase \in {"idle", "consume", "pop"}
    /\ value \in 0 .. LastSequence
    /\ ordering \in sequence_result
    /\ packets_delivered \in Nat
    /\ handed \in Seq(Sequences)

\* The packet that was handed out last, or is in hand.
Newest == IF value # NoSequence THEN value
          ELSE IF handed # <<>> THEN handed[Len(handed)]
          ELSE NoSequence

\* Packets reach the consumer without gap, repetition or reordering, whatever
\* arrives and whatever the consumer does: each is the successor of the one
\* before, and the buffer waits for the successor of the last one (or for
\* none, after the largest number).
OrderedDelivery ==
    /\ \A i \in 1 .. Len(handed) - 1 : handed[i + 1] = handed[i] + 1
    /\ value # NoSequence /\ handed # <<>> =>
          value = handed[Len(handed)] + 1
    /\ Newest # NoSequence =>
          IF Newest = LastSequence
          THEN exhausted /\ next_sequence = NoSequence
          ELSE ~ exhausted /\ next_sequence = Newest + 1

\* feed/README.md: the buffer "releases them in order when the gap closes".
\* Between two calls of process(), every packet that is held back is ahead of
\* the one expected next, and no more than the gap limit ahead.  A packet that
\* is not ahead is never released and blocks all others (sequenced_buffer.hpp
\* compares only the first one of the map).
PendingAhead ==
    phase = "idle" =>
        \A s \in pending :
            next_sequence # NoSequence /\ s > next_sequence
            /\ s <= next_sequence + MaxGap

\* A capacity as large as the gap limit is never exhausted: the listener's
\* limits are 64 and 64, so its buffer refuses only what is too far ahead.
CapacitySuffices ==
    MaxPending >= MaxGap /\ phase = "idle" =>
        \A s \in Sequences : push_result(s) # "capacity_exhausted"

=============================================================================
