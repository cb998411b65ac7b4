---------------------------- MODULE TopOfBookView ----------------------------
(***************************************************************************)
(* class top_of_book_view (market_data/feed): the best bid and ask of each *)
(* symbol, established by a snapshot and kept up by the updates that the   *)
(* processor delivers in order.                                            *)
(***************************************************************************)
EXTENDS Integers

VARIABLES
    books,         \* books_, by symbol
    stream_stale   \* stream_stale_

viewVars == <<books, stream_stale>>

ViewInit == books = <<>> /\ stream_stale = FALSE

\* An empty std::optional<top_of_book_level>, and that of a packet's price.
NoLevel == [price |-> 0, size |-> 0]
NoPrice == -1

\* Mutant: a book that is known is left as it is.
establish_emplaces(snapshot) ==
    /\ books' = [i \in DOMAIN books \cup {snapshot.instrument} |->
                    IF i \in DOMAIN books
                    THEN [books[i] EXCEPT !.state = "current"]
                    ELSE [state         |-> "current",
                          last_sequence |-> snapshot.reference_sequence,
                          best_bid      |-> snapshot.best_bid,
                          best_ask      |-> snapshot.best_ask]]
    /\ UNCHANGED stream_stale

establish(snapshot) ==
    /\ books' = [i \in DOMAIN books \cup {snapshot.instrument} |->
                    IF i # snapshot.instrument THEN books[i]
                    ELSE [state         |-> "current",
                          last_sequence |-> snapshot.reference_sequence,
                          best_bid      |-> snapshot.best_bid,
                          best_ask      |-> snapshot.best_ask]]
    /\ UNCHANGED stream_stale

invalidate ==
    /\ stream_stale' = TRUE
    /\ books' = [i \in DOMAIN books |-> [books[i] EXCEPT !.state = "stale"]]

state(instrument) ==
    IF instrument \in DOMAIN books THEN books[instrument].state
    ELSE IF stream_stale THEN "stale" ELSE "awaiting_snapshot"

\* Is there a value in what get() returns?
Shown(instrument) == state(instrument) = "current"

\* The value.
get(instrument) ==
    [instrument         |-> instrument,
     reference_sequence |-> books[instrument].last_sequence,
     best_bid           |-> books[instrument].best_bid,
     best_ask           |-> books[instrument].best_ask]

\* Mutant: an update that the snapshot already contains is applied again.
Applies_any(sequence, update) == Shown(update.instrument)

\* The early return of apply.
Applies(sequence, update) ==
    /\ Shown(update.instrument)
    /\ sequence > books[update.instrument].last_sequence

Updated(book, sequence, update) ==
    LET level == IF update.best_price = NoPrice THEN NoLevel
                 ELSE [price |-> update.best_price,
                       size |-> update.aggregate_size]
    IN  IF update.direction = "buy"
        THEN [book EXCEPT !.best_bid = level, !.last_sequence = sequence]
        ELSE [book EXCEPT !.best_ask = level, !.last_sequence = sequence]

apply(sequence, update) ==
    /\ books' = IF Applies(sequence, update)
                THEN [books EXCEPT ![update.instrument] =
                          Updated(@, sequence, update)]
                ELSE books
    /\ UNCHANGED stream_stale

=============================================================================
