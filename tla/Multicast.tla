------------------------------ MODULE Multicast ------------------------------
(***************************************************************************)
(* The multicast demo of README.md: the Simulator and the Listener as two  *)
(* processes, and between them a network that loses, repeats and reorders  *)
(* datagrams.  The listener was started first.                             *)
(***************************************************************************)
EXTENDS Simulator, Listener

\* Both programs number packets with the std::uint64_t of one protocol.
ASSUME DemoAssumption == LastSequence = LastNumber

demoVars == <<simulatorVars, processorVars, listenerVars>>

DemoInit == SimulatorInit /\ Init

Simulate == SimulatorStep /\ UNCHANGED <<processorVars, listenerVars>>

\* A datagram is never used up: it may arrive again, late, or not at all.
Arrives ==
    /\ \E datagram \in sent :
          /\ Wire!decode_error(datagram) = Wire!Accepted
          /\ Receive(Wire!decode(datagram).sequence)
    /\ UNCHANGED simulatorVars

Listen == (ListenerStep \/ Signal) /\ UNCHANGED simulatorVars

DemoNext == Simulate \/ Arrives \/ Listen

\* The simulator waits for nobody; the network owes nothing.
DemoSpec ==
    DemoInit /\ [][DemoNext]_demoVars /\ WF_demoVars(Simulate)

-----------------------------------------------------------------------------
(* Properties.                                                             *)

\* README.md runs a listener with --stop-after N against a simulator with
\* --messages N.  If such a listener exits with status 0, and no signal made
\* it, every update was sent and every update was delivered to it, in order:
\* no combination of loss, repetition and reordering makes up the number.
StopAfterMeansAll ==
    status = 0 /\ ~ signal /\ StopAfter = CommandCount =>
        /\ handed = [n \in 1 .. StopAfter |-> n]
        /\ {p.sequence : p \in Packets} = 1 .. StopAfter

=============================================================================
