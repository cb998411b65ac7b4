------------------------------ MODULE Publisher ------------------------------
(***************************************************************************)
(* The sending half of the market data feed (market_data/feed):            *)
(* multicast_publisher with its feed_encoder.  publish() looks at the      *)
(* events of a batch one after the other: book updates are numbered,       *)
(* encoded and sent, one per datagram; everything else is skipped.         *)
(*                                                                         *)
(* publish() is split at its events.  An exception leaves it at once: the  *)
(* rest of the batch is gone.  The UDP socket is ObzLib's and external; it *)
(* may fail to send.                                                       *)
(***************************************************************************)
EXTENDS Integers, SequencesExt

CONSTANTS
    LastNumber,    \* largest feed sequence number (2^64 - 1 in the code)
    SendMayFail    \* may send_to throw, or send less than the datagram?

ASSUME LastNumberAssumption == LastNumber \in Nat \ {0}
ASSUME SendMayFailAssumption == SendMayFail \in BOOLEAN

VARIABLES
    next_number,         \* next_sequence_ of the encoder
    sequence_exhausted,  \* sequence_exhausted_
    publishing,          \* where publish() is: "idle", "publishing",
                         \* "returned", "threw"
    batch,               \* the events it has still to look at
    result,              \* its publish_result
    sent                 \* the datagrams it has given to the network

encoderVars == <<next_number, sequence_exhausted>>
publisherVars == <<encoderVars, publishing, batch, result, sent>>

Wire == INSTANCE Codec WITH
    Lengths <- Nat, Signatures <- Nat, Versions <- Nat, Types <- Nat,
    Sequences <- Nat, Sides <- Nat, Flags <- Nat, Prices <- Nat,
    Sizes <- Nat, Symbols <- Nat

publish_result == [first_sequence |-> 0, last_sequence |-> 0,
                   messages_published |-> 0, bytes_sent |-> 0]

PublisherInit ==
    /\ next_number = 1
    /\ sequence_exhausted = FALSE
    /\ publishing = "idle"
    /\ batch = <<>>
    /\ result = publish_result
    /\ sent = {}

-----------------------------------------------------------------------------
(* feed_encoder                                                            *)

\* The packet made of a book_updated event.  The engine's empty best price
\* becomes that of the protocol.
to_packet(number, update) ==
    [sequence       |-> number,
     instrument     |-> update.instrument,
     direction      |-> update.direction,
     best_price     |-> IF update.best_price = 0 THEN Wire!NoPrice
                        ELSE update.best_price,
     aggregate_size |-> update.total_size]

\* encode throws: the numbers are used up, or the protocol refuses the packet.
EncodeThrows(update) ==
    \/ sequence_exhausted
    \/ ~ Wire!encodable(to_packet(next_number, update))

\* Mutant: the numbers start again.
advance_number_wraps ==
    /\ next_number' = (next_number % LastNumber) + 1
    /\ UNCHANGED sequence_exhausted

advance_number ==
    /\ sequence_exhausted' =
          (sequence_exhausted \/ next_number = LastNumber)
    /\ next_number' = IF next_number = LastNumber THEN next_number
                      ELSE next_number + 1

-----------------------------------------------------------------------------
(* multicast_publisher::publish                                            *)

publish(events) ==
    /\ publishing # "publishing"
    /\ publishing' = "publishing"
    /\ batch' = events
    /\ result' = publish_result
    /\ UNCHANGED <<encoderVars, sent>>

IsUpdate(emitted) == emitted.type = "book_updated"

SkipEvent ==
    /\ publishing = "publishing" /\ batch # <<>>
    /\ ~ IsUpdate(Head(batch))
    /\ batch' = Tail(batch)
    /\ UNCHANGED <<encoderVars, publishing, result, sent>>

count_message(number, bytes) ==
    [first_sequence     |-> IF result.messages_published = 0 THEN number
                            ELSE result.first_sequence,
     last_sequence      |-> number,
     messages_published |-> result.messages_published + 1,
     bytes_sent         |-> result.bytes_sent + bytes]

SendUpdate ==
    /\ publishing = "publishing" /\ batch # <<>>
    /\ IsUpdate(Head(batch))
    /\ ~ EncodeThrows(Head(batch))
    /\ LET datagram == Wire!encode(to_packet(next_number, Head(batch)))
       IN  /\ sent' = sent \cup {datagram}
           /\ result' = count_message(next_number, datagram.length)
    /\ advance_number
    /\ batch' = Tail(batch)
    /\ UNCHANGED publishing

\* The number of the packet is used up all the same.
SendFails ==
    /\ SendMayFail
    /\ publishing = "publishing" /\ batch # <<>>
    /\ IsUpdate(Head(batch))
    /\ ~ EncodeThrows(Head(batch))
    /\ advance_number
    /\ publishing' = "threw"
    /\ batch' = <<>>
    /\ UNCHANGED <<result, sent>>

\* No number is used up.
EncodeFails ==
    /\ publishing = "publishing" /\ batch # <<>>
    /\ IsUpdate(Head(batch))
    /\ EncodeThrows(Head(batch))
    /\ publishing' = "threw"
    /\ batch' = <<>>
    /\ UNCHANGED <<encoderVars, result, sent>>

PublishReturns ==
    /\ publishing = "publishing" /\ batch = <<>>
    /\ publishing' = "returned"
    /\ UNCHANGED <<encoderVars, batch, result, sent>>

=============================================================================
