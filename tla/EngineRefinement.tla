-------------------------- MODULE EngineRefinement --------------------------
(***************************************************************************)
(* Engine implements PriceTimeMatching.  A client sees nothing of a        *)
(* command before it returns, so the abstract state is the one at the last *)
(* return: the history variable `committed' remembers it while a command   *)
(* is in progress (the previous answer has been taken by then).  The       *)
(* history variable `view' is what a reader of the event stream knows: the *)
(* last book_updated of every symbol and side.                             *)
(***************************************************************************)
EXTENDS Engine

VARIABLES committed, view

hvars == <<vars, committed, view>>

\* The resting orders of all books, as one set.
Resting ==
    UNION {UNION {UNION {
        LET orders == books[instrument][direction][p].orders
        IN  {[key |-> orders[i].key, instrument |-> instrument,
              direction |-> orders[i].direction,
              limit_price |-> orders[i].limit_price,
              open_size |-> orders[i].open_size,
              sequence |-> orders[i].sequence] : i \in DOMAIN orders} :
        p \in DOMAIN books[instrument][direction]} :
        direction \in Side} : instrument \in DOMAIN books}

\* The answer a client waits for: the events, book updates left out.
Response(stream) ==
    FoldLeft(LAMBDA heard, e : IF e.type = "book_updated" THEN heard
                               ELSE Append(heard, e),
             <<>>, stream)

Visible ==
    [resting |-> Resting, next_sequence |-> next_sequence,
     response |-> Response(events)]

\* A reader applies the book updates of a command in the order of the events.
Apply(tops, stream) ==
    FoldLeft(LAMBDA known, e :
                 IF e.type # "book_updated" THEN known
                 ELSE [known EXCEPT ![e.instrument][e.direction] =
                          [best_price |-> e.best_price,
                           total_size |-> e.total_size]],
             tops, stream)

HInit ==
    /\ Init
    /\ committed = [resting |-> {}, next_sequence |-> 1, response |-> <<>>]
    /\ view = [instrument \in Symbols |-> [direction \in Side |-> NoTop]]

HNext ==
    /\ Next
    /\ committed' = IF call' = NoCall THEN Visible'
                    ELSE [committed EXCEPT !.response = <<>>]
    /\ view' = IF call' = NoCall THEN Apply(view, events') ELSE view

HSpec == HInit /\ [][HNext]_hvars

Abstract ==
    INSTANCE PriceTimeMatching WITH
        Prices <- Price, Sizes <- Quantity,
        resting <- committed.resting,
        next_sequence <- committed.next_sequence,
        response <- committed.response

\* Every command of the engine, matching loop and all, does what one step of
\* PriceTimeMatching does, and answers with the same events in the same order.
ImplementsPriceTime == Abstract!Spec

\* A reader who applies the book updates of every answer, and nothing else,
\* always knows the best price and size of every side of every book: no change
\* of the top goes unreported, whichever operation made it.
ViewIsTopOfBook ==
    call = NoCall =>
        \A instrument \in Symbols, direction \in Side :
            view[instrument][direction] =
                top_of_book(direction, BookOf(instrument)[direction])
=============================================================================
