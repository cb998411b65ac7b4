------------------------------- MODULE Codec -------------------------------
(***************************************************************************)
(* The market data wire protocol, version 2 (market_data/protocol,         *)
(* codec.cpp): encode and decode.                                          *)
(*                                                                         *)
(* A datagram is the value of each of its fields and its length in bytes.  *)
(* The byte order of a field is left to ObzLib's write_be and read_be,     *)
(* which are inverse to each other.  In a datagram that is too short the   *)
(* missing fields have any value: decode must not depend on them.          *)
(***************************************************************************)
EXTENDS Integers

CONSTANTS
    Lengths,     \* lengths of datagrams, in bytes
    Signatures, Versions, Types, Sequences, Sides, Flags, Prices, Sizes,
    Symbols      \* values of the fields of a datagram

ASSUME FieldsAssumption ==
    /\ Lengths \subseteq Nat /\ Signatures \subseteq Nat
    /\ Versions \subseteq Nat /\ Types \subseteq Nat
    /\ Sequences \subseteq Nat /\ Sides \subseteq Nat /\ Flags \subseteq Nat
    /\ Prices \subseteq Nat /\ Sizes \subseteq Nat /\ Symbols \subseteq Nat

Datagram ==
    [length : Lengths, signature : Signatures, version : Versions,
     type : Types, sequence : Sequences, side : Sides, flags : Flags,
     price : Prices, size : Sizes, symbol : Symbols]

signature == 1329748557   \* 0x4f425a4d, "OBZM"
protocol_version == 2
book_updated == 1
header_size == 16
book_update_size == 22
has_price_flag == 1

NoPrice == -1   \* an empty std::optional

\* packet, with the fields of its book_update
packet ==
    [sequence : Sequences, instrument : Symbols, direction : {"buy", "sell"},
     best_price : Prices \cup {NoPrice}, aggregate_size : Sizes]

-----------------------------------------------------------------------------
(* encode                                                                  *)

\* The checks of encode and encode_book_update; the code throws
\* std::invalid_argument when one of them fails.
encodable(p) ==
    /\ p.sequence # 0
    /\ p.instrument # 0
    /\ p.direction \in {"buy", "sell"}
    /\ p.best_price # 0
    /\ p.best_price # NoPrice <=> p.aggregate_size > 0

\* Mutant: the price and the size change places on the wire.
encode_swapped(p) ==
    [length    |-> header_size + book_update_size,
     signature |-> signature,
     version   |-> protocol_version,
     type      |-> book_updated,
     sequence  |-> p.sequence,
     side      |-> IF p.direction = "buy" THEN 0 ELSE 1,
     flags     |-> IF p.best_price # NoPrice THEN has_price_flag ELSE 0,
     price     |-> p.aggregate_size,
     size      |-> IF p.best_price # NoPrice THEN p.best_price ELSE 0,
     symbol    |-> p.instrument]

encode(p) ==
    [length    |-> header_size + book_update_size,
     signature |-> signature,
     version   |-> protocol_version,
     type      |-> book_updated,
     sequence  |-> p.sequence,
     side      |-> IF p.direction = "buy" THEN 0 ELSE 1,
     flags     |-> IF p.best_price # NoPrice THEN has_price_flag ELSE 0,
     price     |-> IF p.best_price # NoPrice THEN p.best_price ELSE 0,
     size      |-> p.aggregate_size,
     symbol    |-> p.instrument]

-----------------------------------------------------------------------------
(* decode                                                                  *)

Accepted == "packet"

DecodeErrors ==
    {"header_truncated", "invalid_signature", "unsupported_version",
     "unknown_message_type", "invalid_sequence", "body_truncated",
     "body_length_mismatch", "invalid_symbol", "invalid_side",
     "invalid_flags", "invalid_book_state"}

\* The error that decode_header returns, if any.
header_error(d) ==
    IF d.length < header_size THEN "header_truncated"
    ELSE IF d.signature # signature THEN "invalid_signature"
    ELSE IF d.version # protocol_version THEN "unsupported_version"
    ELSE IF d.sequence = 0 THEN "invalid_sequence"
    ELSE Accepted

\* Mutant: bytes behind the body are ignored, and so is a zero symbol.
body_error_lenient(d) ==
    LET has_price == d.flags = has_price_flag
    IN  IF d.length - header_size < book_update_size THEN "body_truncated"
        ELSE IF d.side \notin {0, 1} THEN "invalid_side"
        ELSE IF d.flags \notin {0, has_price_flag} THEN "invalid_flags"
        ELSE IF has_price # (d.price > 0) THEN "invalid_book_state"
        ELSE IF has_price # (d.size > 0) THEN "invalid_book_state"
        ELSE Accepted

\* The error that decode_book_update returns, if any.
body_error(d) ==
    LET body == d.length - header_size
        has_price == d.flags = has_price_flag
    IN  IF body < book_update_size THEN "body_truncated"
        ELSE IF body # book_update_size THEN "body_length_mismatch"
        ELSE IF d.side \notin {0, 1} THEN "invalid_side"
        ELSE IF d.flags \notin {0, has_price_flag} THEN "invalid_flags"
        ELSE IF has_price # (d.price > 0) THEN "invalid_book_state"
        ELSE IF has_price # (d.size > 0) THEN "invalid_book_state"
        ELSE IF d.symbol = 0 THEN "invalid_symbol"
        ELSE Accepted

decode_error(d) ==
    IF header_error(d) # Accepted THEN header_error(d)
    ELSE IF d.type # book_updated THEN "unknown_message_type"
    ELSE body_error(d)

\* The packet that decode returns when there is no error.
decode(d) ==
    [sequence       |-> d.sequence,
     instrument     |-> d.symbol,
     direction      |-> IF d.side = 0 THEN "buy" ELSE "sell",
     best_price     |-> IF d.flags = has_price_flag THEN d.price ELSE NoPrice,
     aggregate_size |-> d.size]

=============================================================================
