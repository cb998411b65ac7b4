------------------------------ MODULE Receiver ------------------------------
(***************************************************************************)
(* multicast_receiver::receive (market_data/feed, multicast_receiver.cpp): *)
(* whatever datagram arrives on the group is reported as truncated, as     *)
(* malformed or as a packet.  Calls are independent of each other except   *)
(* for the buffer they reuse: behind the end of a short datagram it still  *)
(* holds bytes of an earlier one, which Codec takes as arbitrary.          *)
(***************************************************************************)
EXTENDS Codec

VARIABLES
    datagram,  \* the datagram at the head of the socket's queue
    status,    \* datagram_status: did it fit the buffer?
    result     \* multicast_receive_result, or Waiting

vars == <<datagram, status, result>>

Waiting == [outcome |-> "waiting"]
truncated_packet == [outcome |-> "truncated"]
malformed_packet(error) == [outcome |-> "malformed", error |-> error]
received_packet(p) == [outcome |-> "received", value |-> p]

Init ==
    /\ datagram \in Datagram
    /\ status \in {"complete", "truncated"}
    /\ result = Waiting

receive ==
    /\ result = Waiting
    /\ result' = IF status = "truncated" THEN truncated_packet
                 ELSE IF decode_error(datagram) # Accepted
                      THEN malformed_packet(decode_error(datagram))
                 ELSE received_packet(decode(datagram))
    /\ UNCHANGED <<datagram, status>>

Next == receive

Spec == Init /\ [][Next]_vars

-----------------------------------------------------------------------------
(* Properties.                                                             *)

TypeOK ==
    /\ datagram \in Datagram
    /\ status \in {"complete", "truncated"}
    /\ \/ result \in {Waiting, truncated_packet}
       \/ \E p \in packet : result = received_packet(p)
       \/ \E error \in DecodeErrors : result = malformed_packet(error)

\* docs/market-data-protocol.md, "Canonical book state": a packet is accepted
\* only from the very datagram that encode makes of it.  So nothing the local
\* encoder refuses (a price without a size, a zero id) gets in from the wire,
\* and no two datagrams mean the same packet.
DecodeCanonical ==
    result.outcome = "received" =>
        encodable(result.value) /\ encode(result.value) = datagram

\* Everything that encode can send is received, and is received unchanged.
EncodedAccepted ==
    result # Waiting /\ status = "complete" =>
        \A p \in packet :
            encodable(p) /\ encode(p) = datagram =>
                result = received_packet(p)

=============================================================================
