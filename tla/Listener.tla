------------------------------ MODULE Listener ------------------------------
(***************************************************************************)
(* The market data listener (apps/market_data_listener, main.cpp): one     *)
(* thread receives datagrams, decodes them, passes packets through the     *)
(* Processor and counts what becomes of them, until a signal or            *)
(* --stop-after ends the loop.                                             *)
(*                                                                         *)
(* A signal may arrive between any two steps.  The handlers are installed  *)
(* without SA_RESTART, so a signal that finds the thread blocked in        *)
(* recvfrom makes receive() throw `interrupted'; a signal that comes just  *)
(* before the thread blocks only sets the flag.                            *)
(***************************************************************************)
EXTENDS Processor

CONSTANTS
    StopAfter,     \* options.stop_after, or 0 when it is not given
    MaxDatagrams   \* bound: datagrams that arrive

ASSUME ListenerAssumption == StopAfter \in Nat /\ MaxDatagrams \in Nat

VARIABLES
    pc,        \* "check", "receive", "blocked", "process", "summary", "stopped"
    signal,    \* shutdown_signal_received
    counters,  \* listener_counters
    invalid,   \* received_invalid_packet
    status     \* the exit status of main, or Running

listenerVars == <<pc, signal, counters, invalid, status>>
vars == <<processorVars, listenerVars>>

Running == -1

\* What receive() returns: a packet, here its sequence number, or the reason
\* for which there is none.
NoPacket == {"truncated", "malformed"}

Init ==
    /\ ProcessorInit
    /\ pc = "check"
    /\ signal = FALSE
    /\ counters = [datagrams |-> 0, decoded |-> 0, delivered |-> 0,
                   buffered |-> 0, rejected |-> 0, truncated |-> 0,
                   malformed |-> 0]
    /\ invalid = FALSE
    /\ status = Running

-----------------------------------------------------------------------------
(* handle_shutdown_signal, and its effect on a blocked receive().          *)

Signal ==
    /\ pc # "stopped"
    /\ signal' = TRUE
    /\ pc' = IF pc = "blocked" THEN "summary" ELSE pc
    /\ UNCHANGED <<processorVars, counters, invalid, status>>

-----------------------------------------------------------------------------
(* The loop.                                                               *)

Check ==
    /\ pc = "check"
    /\ pc' = IF signal THEN "summary" ELSE "receive"
    /\ UNCHANGED <<processorVars, signal, counters, invalid, status>>

\* The thread enters the kernel and waits for a datagram.
Block ==
    /\ pc = "receive"
    /\ pc' = "blocked"
    /\ UNCHANGED <<processorVars, signal, counters, invalid, status>>

\* Any other std::system_error leaves main through its handler.
ReceiveFails ==
    /\ pc = "blocked"
    /\ pc' = "stopped" /\ status' = 1
    /\ UNCHANGED <<processorVars, signal, counters, invalid>>

\* Mutant: a datagram that is discarded is not counted as rejected.
DiscardUncounted(reason) ==
    /\ pc = "blocked"
    /\ counters.datagrams < MaxDatagrams
    /\ counters' = [counters EXCEPT !.datagrams = @ + 1, ![reason] = @ + 1]
    /\ invalid' = TRUE
    /\ pc' = "check"
    /\ UNCHANGED <<processorVars, signal, status>>

Discard(reason) ==
    /\ pc = "blocked"
    /\ counters.datagrams < MaxDatagrams
    /\ counters' = [counters EXCEPT !.datagrams = @ + 1, ![reason] = @ + 1,
                                    !.rejected = @ + 1]
    /\ invalid' = TRUE
    /\ pc' = "check"
    /\ UNCHANGED <<processorVars, signal, status>>

Receive(s) ==
    /\ pc = "blocked"
    /\ counters.datagrams < MaxDatagrams
    /\ counters' = [counters EXCEPT !.datagrams = @ + 1, !.decoded = @ + 1]
    /\ PushHeld(s) \/ PushReady(s)
    /\ pc' = "process"
    /\ UNCHANGED <<signal, invalid, status>>

Process ==
    /\ pc = "process"
    /\ ProcessStep
    /\ UNCHANGED listenerVars

\* Mutant: a delivery that overshoots the count is not noticed.
StopReachedExactly(delivered) == StopAfter # 0 /\ delivered = StopAfter

\* Mutant: the loop ends one packet too early.
StopReachedEarly(delivered) == StopAfter # 0 /\ delivered + 1 >= StopAfter

StopReached(delivered) == StopAfter # 0 /\ delivered >= StopAfter

\* process() has returned: its result is counted.
Processed ==
    /\ pc = "process"
    /\ phase = "idle"
    /\ LET rejected == ordering \notin {"ready", "buffered"}
           delivered == counters.delivered + packets_delivered
       IN  /\ counters' =
                 [counters EXCEPT
                    !.delivered = delivered,
                    !.buffered = IF ordering = "buffered" THEN @ + 1 ELSE @,
                    !.rejected = IF rejected THEN @ + 1 ELSE @]
           /\ invalid' = (invalid \/ rejected)
           /\ pc' = IF StopReached(delivered) THEN "summary" ELSE "check"
    /\ UNCHANGED <<processorVars, signal, status>>

\* Mutant: an unresolved gap goes unreported.
SummaryIgnoresGap ==
    /\ pc = "summary"
    /\ status' = IF invalid THEN 1 ELSE 0
    /\ pc' = "stopped"
    /\ UNCHANGED <<processorVars, signal, counters, invalid>>

\* After the loop: an unresolved gap also makes the exit status 1.
Summary ==
    /\ pc = "summary"
    /\ invalid' = (invalid \/ pending # {})
    /\ status' = IF invalid' THEN 1 ELSE 0
    /\ pc' = "stopped"
    /\ UNCHANGED <<processorVars, signal, counters>>

-----------------------------------------------------------------------------
Arrival ==
    \/ \E reason \in NoPacket : Discard(reason)
    \/ \E s \in Sequences : Receive(s)

ListenerStep == Check \/ Block \/ Process \/ Processed \/ Summary

Next == Signal \/ Arrival \/ ReceiveFails \/ ListenerStep

\* The thread runs whenever it can.  Nobody has to send a datagram or a signal.
Spec == Init /\ [][Next]_vars /\ WF_vars(ListenerStep)

-----------------------------------------------------------------------------
(* Properties.                                                             *)

TypeOK ==
    /\ ProcessorTypeOK
    /\ pc \in {"check", "receive", "blocked", "process", "summary", "stopped"}
    /\ signal \in BOOLEAN /\ invalid \in BOOLEAN
    /\ counters \in [{"datagrams", "decoded", "delivered", "buffered",
                      "rejected", "truncated", "malformed"} -> Nat]
    /\ status \in {Running, 0, 1}

\* The summary accounts for every datagram exactly once: it was delivered, is
\* still held back, or was rejected; and what was delivered is what the
\* consumer was handed.
CountersAddUp ==
    pc # "process" =>
        /\ counters.datagrams =
              counters.decoded + counters.truncated + counters.malformed
        /\ counters.datagrams =
              counters.delivered + Cardinality(pending) + counters.rejected
        /\ counters.delivered = Len(handed)
        /\ counters.buffered >= Cardinality(pending)

\* Exit status 0 means that every datagram that arrived was a packet that was
\* printed, in sequence; and a loop that ended with all of that reports 0.
StatusTruthful ==
    /\ status = 0 => Len(handed) = counters.datagrams
    /\ pc = "summary" /\ Len(handed) = counters.datagrams =>
          ~ invalid /\ pending = {}

\* README.md: --stop-after "exits once that many packets have been delivered
\* in sequence".  The listener receives only as long as fewer were, and a gap
\* that closes can make it overshoot by no more than the gap limit.
StopsAfter ==
    StopAfter # 0 =>
        /\ pc \in {"check", "receive", "blocked"} => Len(handed) < StopAfter
        /\ Len(handed) <= StopAfter + MaxGap

\* Whatever was received is dealt with: process() returns and the loop goes
\* on, so the thread never spins in the release of held packets.
ProcessingEnds == pc = "process" ~> pc \in {"check", "summary"}

\* README.md: "The receiver runs until `SIGINT` or `SIGTERM` requests a clean
\* shutdown."
ShutdownHonoured == signal ~> pc = "stopped"

=============================================================================
