--------------------------- MODULE ReceiverProofs ---------------------------
(***************************************************************************)
(* Proofs about Codec and Receiver, for all values of the wire's fields:   *)
(* decode and encode are inverse to each other.                            *)
(***************************************************************************)
EXTENDS Receiver, TLAPS

\* What decode accepts is a legal packet, and encode turns it back into the
\* same datagram (codec.cpp:85-188).
LEMMA AcceptedIsCanonical ==
    ASSUME NEW d \in Datagram, decode_error(d) = Accepted
    PROVE  /\ decode(d) \in packet
           /\ encodable(decode(d))
           /\ encode(decode(d)) = d
<1>1. header_error(d) = Accepted /\ d.type = book_updated
      /\ body_error(d) = Accepted
  BY DEF decode_error, Accepted
<1>2. /\ d.signature = signature /\ d.version = protocol_version
      /\ d.sequence # 0 /\ ~ (d.length < header_size)
  BY <1>1 DEF header_error, Accepted
<1>3. /\ d.length - header_size = book_update_size
      /\ d.side \in {0, 1} /\ d.flags \in {0, has_price_flag}
      /\ (d.flags = has_price_flag) = (d.price > 0)
      /\ (d.flags = has_price_flag) = (d.size > 0)
      /\ d.symbol # 0
  BY <1>1 DEF body_error, Accepted
<1>4. /\ d.length \in Nat /\ d.price \in Nat /\ d.size \in Nat
      /\ d.sequence \in Sequences /\ d.symbol \in Symbols
      /\ d.price \in Prices /\ d.size \in Sizes
  BY FieldsAssumption DEF Datagram
<1>5. d.length = header_size + book_update_size
  BY <1>3, <1>4 DEF header_size, book_update_size
<1> DEFINE p == decode(d)
<1>6. /\ p.sequence = d.sequence /\ p.instrument = d.symbol
      /\ p.direction = (IF d.side = 0 THEN "buy" ELSE "sell")
      /\ p.best_price = (IF d.flags = has_price_flag THEN d.price ELSE NoPrice)
      /\ p.aggregate_size = d.size
  BY DEF decode
<1>7. p \in packet
  BY <1>4 DEF packet, decode
<1> HIDE DEF p
<1>8. p.best_price # NoPrice <=> d.flags = has_price_flag
  BY <1>4, <1>6 DEF NoPrice
<1>9. encodable(p)
  BY <1>2, <1>3, <1>4, <1>6, <1>8 DEF encodable, NoPrice, has_price_flag
<1>10. encode(p) = d
  <2>1. encode(p).side = d.side
    BY <1>3, <1>6 DEF encode
  <2>2. encode(p).flags = d.flags
    BY <1>3, <1>8 DEF encode
  <2>3. encode(p).price = d.price
    BY <1>3, <1>4, <1>6, <1>8 DEF encode
  <2>4. /\ encode(p).length = d.length /\ encode(p).signature = d.signature
        /\ encode(p).version = d.version /\ encode(p).type = d.type
        /\ encode(p).sequence = d.sequence /\ encode(p).size = d.size
        /\ encode(p).symbol = d.symbol
    BY <1>1, <1>2, <1>5, <1>6 DEF encode
  <2> QED BY <2>1, <2>2, <2>3, <2>4 DEF encode, Datagram
<1> QED BY <1>7, <1>9, <1>10 DEF p

\* What encode makes of a legal packet is accepted and decodes to the packet.
LEMMA EncodedIsAccepted ==
    ASSUME NEW p \in packet, encodable(p)
    PROVE  decode_error(encode(p)) = Accepted /\ decode(encode(p)) = p
<1> DEFINE d == encode(p)
<1>1. /\ p.sequence \in Sequences /\ p.instrument \in Symbols
      /\ p.direction \in {"buy", "sell"}
      /\ p.best_price \in Prices \cup {NoPrice} /\ p.aggregate_size \in Sizes
  BY DEF packet
<1>2. /\ p.sequence # 0 /\ p.instrument # 0 /\ p.best_price # 0
      /\ p.best_price # NoPrice <=> p.aggregate_size > 0
  BY DEF encodable
<1>3. /\ d.length = header_size + book_update_size
      /\ d.signature = signature /\ d.version = protocol_version
      /\ d.type = book_updated /\ d.sequence = p.sequence
      /\ d.side = (IF p.direction = "buy" THEN 0 ELSE 1)
      /\ d.flags = (IF p.best_price # NoPrice THEN has_price_flag ELSE 0)
      /\ d.price = (IF p.best_price # NoPrice THEN p.best_price ELSE 0)
      /\ d.size = p.aggregate_size /\ d.symbol = p.instrument
  BY DEF encode
<1> HIDE DEF d
<1>4. header_error(d) = Accepted
  BY <1>2, <1>3 DEF header_error, header_size, book_update_size
<1>5. d.flags = has_price_flag <=> p.best_price # NoPrice
  BY <1>3 DEF has_price_flag
<1>6. (d.flags = has_price_flag) <=> (d.price > 0)
  <2>1. CASE p.best_price = NoPrice
    BY <1>3, <1>5, <2>1
  <2>2. CASE p.best_price # NoPrice
    <3>1. p.best_price \in Nat /\ p.best_price # 0
      BY <1>1, <1>2, <2>2, FieldsAssumption
    <3>2. d.price = p.best_price
      BY <1>3, <2>2
    <3>3. d.price > 0
      BY <3>1, <3>2
    <3> QED BY <1>5, <2>2, <3>3
  <2> QED BY <2>1, <2>2
<1>7. (d.flags = has_price_flag) <=> (d.size > 0)
  BY <1>2, <1>3, <1>5
<1>8. body_error(d) = Accepted
  <2>1. d.length - header_size = book_update_size
    BY <1>3 DEF header_size, book_update_size
  <2>2. ~ (d.length - header_size < book_update_size)
    BY <2>1 DEF book_update_size
  <2>3. d.side \in {0, 1} /\ d.flags \in {0, has_price_flag}
    BY <1>3
  <2> QED BY <1>2, <1>3, <1>6, <1>7, <2>1, <2>2, <2>3 DEF body_error
<1>9. decode_error(d) = Accepted
  BY <1>3, <1>4, <1>8 DEF decode_error
<1>10. decode(d) = p
  <2>1. decode(d).direction = p.direction
    BY <1>1, <1>3 DEF decode
  <2>2. decode(d).best_price = p.best_price
    BY <1>3, <1>5 DEF decode
  <2>3. /\ decode(d).sequence = p.sequence
        /\ decode(d).instrument = p.instrument
        /\ decode(d).aggregate_size = p.aggregate_size
    BY <1>3 DEF decode
  <2> QED BY <2>1, <2>2, <2>3 DEF decode, packet
<1> QED BY <1>9, <1>10 DEF d

-----------------------------------------------------------------------------
\* The type of the datagram and what a call of receive() returns for it.
IInv ==
    /\ datagram \in Datagram
    /\ \/ result = Waiting
       \/ status = "truncated" /\ result = truncated_packet
       \/ /\ status # "truncated" /\ decode_error(datagram) # Accepted
          /\ result = malformed_packet(decode_error(datagram))
       \/ /\ status # "truncated" /\ decode_error(datagram) = Accepted
          /\ result = received_packet(decode(datagram))

\* receive() is the only step.
LEMMA Inductive == Spec => []IInv
<1>1. Init => IInv
  BY DEF Init, IInv
<1>2. IInv /\ [Next]_vars => IInv'
  BY DEF IInv, Next, receive, vars
<1> QED BY <1>1, <1>2, PTL DEF Spec

\* multicast_receiver::receive reports a packet only for the datagram that
\* encode makes of that packet, for all values of all fields.
THEOREM OnlyCanonical == Spec => []DecodeCanonical
<1>1. IInv => DecodeCanonical
  <2> SUFFICES ASSUME IInv, result.outcome = "received"
               PROVE  encodable(result.value) /\ encode(result.value) = datagram
    BY DEF DecodeCanonical
  <2>1. datagram \in Datagram
    BY DEF IInv
  <2>2. /\ decode_error(datagram) = Accepted
        /\ result = received_packet(decode(datagram))
    BY DEF IInv, Waiting, truncated_packet, malformed_packet
  <2>3. result.value = decode(datagram)
    BY <2>2 DEF received_packet
  <2> QED BY <2>1, <2>2, <2>3, AcceptedIsCanonical
<1> QED BY <1>1, Inductive, PTL

\* multicast_receiver::receive reports every packet that encode sends, and
\* reports it unchanged, for all values of all fields.
THEOREM AllEncodedAccepted == Spec => []EncodedAccepted
<1>1. IInv => EncodedAccepted
  <2> SUFFICES ASSUME IInv, result # Waiting, status = "complete",
                      NEW p \in packet, encodable(p), encode(p) = datagram
               PROVE  result = received_packet(p)
    BY DEF EncodedAccepted
  <2>1. decode_error(datagram) = Accepted /\ decode(datagram) = p
    BY EncodedIsAccepted
  <2> QED BY <2>1 DEF IInv
<1> QED BY <1>1, Inductive, PTL

=============================================================================
