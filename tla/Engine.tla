------------------------------- MODULE Engine -------------------------------
(***************************************************************************)
(* The matching engine: class engine (engine.hpp, engine.cpp) with the     *)
(* order_book objects it owns (order_book.cpp).                            *)
(*                                                                         *)
(* The engine is sequential: a command runs to completion before the next  *)
(* one starts.  A command that matches is split at the iterations of its   *)
(* loop, so that invariants are also checked between two of them: it is    *)
(* begun (SubmitBegin, ReplaceBegin), takes one MatchFront step for each   *)
(* trade, and is finished (FinishSubmit, FinishReplace).  In between,      *)
(* `call' holds the locals of the functions on the stack.  All other       *)
(* commands are single steps.                                              *)
(***************************************************************************)
EXTENDS OrderBook

CONSTANTS
    Keys,          \* order keys clients use, with ids of 0 among them
    Symbols,       \* values of symbol_id, 0 included
    MaxSequence    \* bound: the last sequence number the model hands out

ASSUME KeysAssumption == Keys \subseteq [user : Nat, client_order : Nat]
ASSUME SymbolsAssumption == Symbols \subseteq Nat
ASSUME MaxSequenceAssumption == MaxSequence \in Nat

VARIABLES
    books,          \* books_: the order books, by symbol
    active_orders,  \* active_orders_: symbol and handle, by order key
    next_sequence,  \* next_sequence_
    events,         \* the events the last command returned (or has so far)
    call            \* the command in progress, or NoCall

vars == <<books, active_orders, next_sequence, events, call>>

-----------------------------------------------------------------------------
(* Types.                                                                  *)

Sequence == Nat \ {0}

resting_order ==
    [key : Keys, direction : Side, limit_price : Price,
     open_size : Quantity, sequence : Sequence]

price_level == [total_size : Size, orders : Seq(resting_order)]

\* f is a map with keys in K
IsMap(f, K) == DOMAIN f \subseteq K /\ f = [x \in DOMAIN f |-> f[x]]

IsLevels(levels) ==
    IsMap(levels, Price) /\ \A p \in DOMAIN levels : levels[p] \in price_level

IsBook(book) ==
    /\ DOMAIN book = Side
    /\ book = [direction \in Side |-> book[direction]]
    /\ \A direction \in Side : IsLevels(book[direction])

active_order ==
    [instrument : Symbols, direction : Side, limit_price : Price,
     node : Sequence]

top_of_book_state == [best_price : Price \cup {NoPrice}, total_size : Size]

Reason ==
    {"user id must be non-zero", "client order id must be non-zero",
     "symbol id must be non-zero", "order key is already active",
     "update pricing must be limit", "order is not active",
     "order book is missing", "order book is inconsistent"}

event ==
    [type : {"submit_accepted", "update_accepted", "order_cancelled"},
     key : Keys]
    \cup
    [type : {"submit_rejected", "update_rejected", "cancel_rejected"},
     key : Keys, reason : Reason]
    \cup
    [type : {"trade_executed"}, aggressor : Keys, resting : Keys,
     instrument : Symbols, execution_price : Price, executed_size : Quantity]
    \cup
    [type : {"book_updated"}, instrument : Symbols, direction : Side,
     best_price : Price \cup {NoPrice}, total_size : Size]

NoCall == [kind |-> "none"]

\* The order a command submits, or submits again to replace a resting one;
\* incoming_order, filled_resting_orders and the tops of book captured
\* before the command touched the book.
Call ==
    [kind : {"submit", "replace"}, key : Keys, instrument : Symbols,
     direction : Side, pricing : Pricing, size : Quantity, open_size : Size,
     sequence : Sequence, filled : SUBSET Keys,
     own_before : top_of_book_state, opposite_before : top_of_book_state]

-----------------------------------------------------------------------------
Init ==
    /\ books = EmptyMap
    /\ active_orders = EmptyMap
    /\ next_sequence = 1
    /\ events = <<>>
    /\ call = NoCall

accepted(type, key) == [type |-> type, key |-> key]
rejected(type, key, reason) == [type |-> type, key |-> key, reason |-> reason]

\* get_or_create_book
BookOf(instrument) ==
    IF instrument \in DOMAIN books THEN books[instrument]
    ELSE [direction \in Side |-> EmptyMap]

-----------------------------------------------------------------------------
(* submit                                                                  *)

Ok == "ok"

\* validate(submit_order) and the duplicate check.  A size of zero cannot be
\* constructed, so the fourth check of the code never fires.
submit_verdict(key, instrument) ==
    CASE key.user = 0 -> "user id must be non-zero"
      [] key.user # 0 /\ key.client_order = 0 ->
            "client order id must be non-zero"
      [] key.user # 0 /\ key.client_order # 0 /\ instrument = 0 ->
            "symbol id must be non-zero"
      [] key.user # 0 /\ key.client_order # 0 /\ instrument # 0
         /\ key \in DOMAIN active_orders -> "order key is already active"
      [] OTHER -> Ok

SubmitRejected(key, instrument) ==
    /\ call = NoCall
    /\ submit_verdict(key, instrument) # Ok
    /\ events' = <<rejected("submit_rejected", key,
                            submit_verdict(key, instrument))>>
    /\ UNCHANGED <<books, active_orders, next_sequence, call>>

SubmitBegin(key, instrument, direction, pricing, size) ==
    /\ call = NoCall
    /\ submit_verdict(key, instrument) = Ok
    /\ next_sequence <= MaxSequence
    /\ LET book == BookOf(instrument)
           opposite == Opposite(direction)
       IN  /\ books' = Put(books, instrument, book)
           /\ call' = [kind |-> "submit", key |-> key,
                       instrument |-> instrument, direction |-> direction,
                       pricing |-> pricing, size |-> size, open_size |-> size,
                       sequence |-> next_sequence, filled |-> {},
                       own_before |->
                           top_of_book(direction, book[direction]),
                       opposite_before |->
                           top_of_book(opposite, book[opposite])]
    /\ next_sequence' = next_sequence + 1
    /\ events' = <<accepted("submit_accepted", key)>>
    /\ UNCHANGED active_orders

-----------------------------------------------------------------------------
(* match_order, for submit and replace alike                               *)

OwnLevels == books[call.instrument][call.direction]
OppositeLevels == books[call.instrument][Opposite(call.direction)]

\* The loop condition of match_order.
CanMatch ==
    /\ call.open_size > 0
    /\ DOMAIN OppositeLevels # {}
    /\ can_cross(call.direction, call.pricing,
                 begin(Opposite(call.direction), OppositeLevels))

\* The front order of the best level trades with the incoming one.
match_against_level ==
    /\ LET opposite == Opposite(call.direction)
           p == begin(opposite, OppositeLevels)
           resting == Head(OppositeLevels[p].orders)
           executed == Min({call.open_size, resting.open_size})
       IN  /\ books' = [books EXCEPT ![call.instrument][opposite] =
                            take_from_front(@, p, executed)]
           /\ call' = [call EXCEPT
                           !.open_size = @ - executed,
                           !.filled = IF executed = resting.open_size
                                      THEN @ \cup {resting.key} ELSE @]
           /\ events' = Append(events,
                  trade_executed(call.key, resting.key, call.instrument,
                                 resting.limit_price, executed))
    /\ UNCHANGED <<active_orders, next_sequence>>

\* Mutant: an order of the same user is skipped, but the loop does not advance.
MatchFrontSkipsOwn ==
    /\ call # NoCall
    /\ CanMatch
    /\ LET p == begin(Opposite(call.direction), OppositeLevels)
       IN  IF Head(OppositeLevels[p].orders).key.user = call.key.user
           THEN UNCHANGED vars ELSE match_against_level

MatchFront ==
    /\ call # NoCall
    /\ CanMatch
    /\ match_against_level

-----------------------------------------------------------------------------
(* The end of submit_buy, submit_sell and replace_order: what is left of a *)
(* limit order rests, what is left of a market order is dropped.           *)

Rests == call.open_size > 0 /\ call.pricing # Market

OwnLevelsAfter ==
    IF Rests
    THEN rest_order(OwnLevels,
            [key |-> call.key, direction |-> call.direction,
             limit_price |-> call.pricing, open_size |-> call.open_size,
             sequence |-> call.sequence])
    ELSE OwnLevels

Handle ==
    [instrument |-> call.instrument, direction |-> call.direction,
     limit_price |-> call.pricing, node |-> call.sequence]

OwnUpdate ==
    book_update_if_changed(call.instrument, call.direction, call.own_before,
        top_of_book(call.direction, OwnLevelsAfter))

OppositeUpdate ==
    book_update_if_changed(call.instrument, Opposite(call.direction),
        call.opposite_before,
        top_of_book(Opposite(call.direction), OppositeLevels))

StoreOwnLevels ==
    books' = [books EXCEPT ![call.instrument][call.direction] = OwnLevelsAfter]

\* Mutant: the orders that were filled stay in the index.
record_submit_result_keeps_filled ==
    active_orders' = IF Rests THEN Emplace(active_orders, call.key, Handle)
                     ELSE active_orders

record_submit_result ==
    LET kept == Erase(active_orders, call.filled)
    IN  active_orders' = IF Rests THEN Emplace(kept, call.key, Handle)
                         ELSE kept

\* submit_buy, submit_sell (the bid update always comes before the ask
\* update) and record_submit_result.
FinishSubmit ==
    /\ call.kind = "submit"
    /\ ~ CanMatch
    /\ StoreOwnLevels
    /\ events' = IF call.direction = "buy"
                 THEN events \o OwnUpdate \o OppositeUpdate
                 ELSE events \o OppositeUpdate \o OwnUpdate
    /\ record_submit_result
    /\ call' = NoCall
    /\ UNCHANGED next_sequence

\* Mutant: emplace keeps the handle of the node that was removed.
record_update_result_emplaces ==
    LET kept == Erase(active_orders, call.filled)
    IN  active_orders' = IF Rests THEN Emplace(kept, call.key, Handle)
                         ELSE Erase(kept, {call.key})

\* Mutant: an order whose replacement was filled stays in the index.
record_update_result_keeps_replaced ==
    LET kept == Erase(active_orders, call.filled)
    IN  active_orders' = IF Rests THEN Put(kept, call.key, Handle) ELSE kept

record_update_result ==
    LET kept == Erase(active_orders, call.filled)
    IN  active_orders' = IF Rests THEN Put(kept, call.key, Handle)
                         ELSE Erase(kept, {call.key})

\* replace_order (the own side comes first) and record_update_result.
FinishReplace ==
    /\ call.kind = "replace"
    /\ ~ CanMatch
    /\ StoreOwnLevels
    /\ events' = events \o OwnUpdate \o OppositeUpdate
    /\ record_update_result
    /\ call' = NoCall
    /\ UNCHANGED next_sequence

-----------------------------------------------------------------------------
(* update                                                                  *)

\* The levels of the side the handle of an active order points into.
LevelsOf(active) == books[active.instrument][active.direction]

\* validate(update_order), then the three ways the engine fails to find the
\* order.
update_verdict(key, pricing) ==
    CASE key.user = 0 -> "user id must be non-zero"
      [] key.user # 0 /\ key.client_order = 0 ->
            "client order id must be non-zero"
      [] key.user # 0 /\ key.client_order # 0 /\ pricing = Market ->
            "update pricing must be limit"
      [] OTHER ->
            IF key \notin DOMAIN active_orders THEN "order is not active"
            ELSE IF active_orders[key].instrument \notin DOMAIN books
                 THEN "order book is missing"
            ELSE IF ~ Holds(LevelsOf(active_orders[key]),
                            active_orders[key], key)
                 THEN "order book is inconsistent"
            ELSE Ok

\* The last two reasons also drop the entry, and the last one has already
\* consumed a sequence number.
UpdateRejected(key, pricing) ==
    LET verdict == update_verdict(key, pricing)
    IN  /\ call = NoCall
        /\ verdict # Ok
        /\ events' = <<rejected("update_rejected", key, verdict)>>
        /\ active_orders' =
              IF verdict \in {"order book is missing",
                              "order book is inconsistent"}
              THEN Erase(active_orders, {key}) ELSE active_orders
        /\ next_sequence' = IF verdict = "order book is inconsistent"
                            THEN next_sequence + 1 ELSE next_sequence
        /\ UNCHANGED <<books, call>>

\* An update that keeps the price and does not grow keeps its place.  It
\* consumes a sequence number all the same.
UpdateReduce(key, pricing, size) ==
    /\ call = NoCall
    /\ update_verdict(key, pricing) = Ok
    /\ next_sequence <= MaxSequence
    /\ LET active == active_orders[key]
           before == LevelsOf(active)
           after == reduce_order_size(before, active, size)
       IN  /\ can_reduce(before, active, key, pricing, size)
           /\ books' = [books EXCEPT
                            ![active.instrument][active.direction] = after]
           /\ events' = <<accepted("update_accepted", key)>>
                        \o book_update_if_changed(
                              active.instrument, active.direction,
                              top_of_book(active.direction, before),
                              top_of_book(active.direction, after))
    /\ next_sequence' = next_sequence + 1
    /\ UNCHANGED <<active_orders, call>>

\* Any other update takes the order out and submits it again.
ReplaceBegin(key, pricing, size) ==
    /\ call = NoCall
    /\ update_verdict(key, pricing) = Ok
    /\ next_sequence <= MaxSequence
    /\ LET active == active_orders[key]
           own == LevelsOf(active)
           opposite == Opposite(active.direction)
       IN  /\ ~ can_reduce(own, active, key, pricing, size)
           /\ books' = [books EXCEPT
                            ![active.instrument][active.direction] =
                                remove_order(own, active)]
           /\ call' = [kind |-> "replace", key |-> key,
                       instrument |-> active.instrument,
                       direction |-> active.direction,
                       pricing |-> pricing, size |-> size, open_size |-> size,
                       sequence |-> next_sequence, filled |-> {},
                       own_before |-> top_of_book(active.direction, own),
                       opposite_before |-> top_of_book(opposite,
                           books[active.instrument][opposite])]
    /\ next_sequence' = next_sequence + 1
    /\ events' = <<accepted("update_accepted", key)>>
    /\ UNCHANGED active_orders

-----------------------------------------------------------------------------
(* cancel                                                                  *)

cancel_verdict(key) ==
    IF key \notin DOMAIN active_orders THEN "order is not active"
    ELSE IF active_orders[key].instrument \notin DOMAIN books
         THEN "order book is missing"
    ELSE Ok

CancelRejected(key) ==
    /\ call = NoCall
    /\ cancel_verdict(key) # Ok
    /\ events' = <<rejected("cancel_rejected", key, cancel_verdict(key))>>
    /\ active_orders' = IF cancel_verdict(key) = "order book is missing"
                        THEN Erase(active_orders, {key}) ELSE active_orders
    /\ UNCHANGED <<books, next_sequence, call>>

\* When the book does not hold the order the code returns no event at all
\* and keeps the entry.
Cancel(key) ==
    /\ call = NoCall
    /\ cancel_verdict(key) = Ok
    /\ LET active == active_orders[key]
           before == LevelsOf(active)
           after == remove_order(before, active)
       IN  IF Holds(before, active, key)
           THEN /\ books' = [books EXCEPT
                        ![active.instrument][active.direction] = after]
                /\ events' = <<accepted("order_cancelled", key)>>
                             \o book_update_if_changed(
                                   active.instrument, active.direction,
                                   top_of_book(active.direction, before),
                                   top_of_book(active.direction, after))
                /\ active_orders' = Erase(active_orders, {key})
           ELSE /\ events' = <<>>
                /\ UNCHANGED <<books, active_orders>>
    /\ UNCHANGED <<next_sequence, call>>

\* snapshot: reads a book, changes nothing.
snapshot(instrument, depth) ==
    [direction \in Side |->
        snapshot_levels(direction, books[instrument][direction], depth)]

-----------------------------------------------------------------------------
Next ==
    \/ MatchFront
    \/ FinishSubmit
    \/ FinishReplace
    \/ \E key \in Keys :
          \/ CancelRejected(key)
          \/ Cancel(key)
          \/ \E instrument \in Symbols : SubmitRejected(key, instrument)
          \/ \E instrument \in Symbols, direction \in Side,
                pricing \in Pricing, size \in Quantity :
                SubmitBegin(key, instrument, direction, pricing, size)
          \/ \E pricing \in Pricing : UpdateRejected(key, pricing)
          \/ \E pricing \in Price, size \in Quantity :
                \/ UpdateReduce(key, pricing, size)
                \/ ReplaceBegin(key, pricing, size)

\* A command that was begun runs on: nothing in it waits.
Fairness == WF_vars(MatchFront \/ FinishSubmit \/ FinishReplace)

Spec == Init /\ [][Next]_vars /\ Fairness

-----------------------------------------------------------------------------
(* Properties.                                                             *)

TypeOK ==
    /\ IsMap(books, Symbols)
    /\ \A instrument \in DOMAIN books : IsBook(books[instrument])
    /\ IsMap(active_orders, Keys)
    /\ \A key \in DOMAIN active_orders : active_orders[key] \in active_order
    /\ next_sequence \in Sequence
    /\ events \in Seq(event)
    /\ call \in Call \cup {NoCall}

\* Keys whose entry in active_orders_ is not settled before the end of the
\* command in progress: the orders it has filled and the one it replaces.
Unsettled ==
    IF call = NoCall THEN {}
    ELSE call.filled \cup (IF call.kind = "replace" THEN {call.key} ELSE {})

\* No handle of active_orders_ dangles: outside of the command in progress,
\* the handle of every active order points at a list node that still exists,
\* in the book, on the side and in the level it names, and that belongs to
\* that order.  A handle that does not is undefined behaviour in the next
\* update or cancel of its key (order_book.cpp:296, 333, 363).
HandlesValid ==
    \A key \in DOMAIN active_orders \ Unsettled :
        LET active == active_orders[key]
        IN  /\ active.instrument \in DOMAIN books
            /\ Holds(LevelsOf(active), active, key)

\* The converse: every order in a book is active, under the handle of the
\* node it is in.  An order that is not would trade but could not be
\* cancelled, and its key could be submitted a second time.
RestingOrdersIndexed ==
    \A instrument \in DOMAIN books : \A direction \in Side :
        \A p \in DOMAIN books[instrument][direction] :
            LET orders == books[instrument][direction][p].orders
            IN  \A i \in DOMAIN orders :
                    /\ orders[i].key \in DOMAIN active_orders \ Unsettled
                    /\ active_orders[orders[i].key] =
                          [instrument |-> instrument, direction |-> direction,
                           limit_price |-> p, node |-> orders[i].sequence]

\* The orders of a level carry its price and side, and their sequence numbers
\* increase strictly from the front and lie below n.  The level is not empty.
OrderedLevel(level, direction, p, n) ==
    LET orders == level.orders
    IN  /\ orders # <<>>
        /\ \A i \in DOMAIN orders :
              /\ orders[i].limit_price = p
              /\ orders[i].direction = direction
              /\ orders[i].sequence < n
        /\ \A i, j \in DOMAIN orders :
              i < j => orders[i].sequence < orders[j].sequence

\* Time priority is the order of the list: in every level the orders stand in
\* the order of the commands that placed them, through fills, reductions,
\* replacements and cancels; and no level is empty (one that is would be the
\* best level with nothing to trade, and match_order would never end).
LevelsOrdered ==
    \A instrument \in DOMAIN books : \A direction \in Side :
        \A p \in DOMAIN books[instrument][direction] :
            OrderedLevel(books[instrument][direction][p], direction, p,
                         next_sequence)

\* A book is never crossed or locked, not even between two trades of a
\* command: every bid is below every ask.
BookUncrossed ==
    \A instrument \in DOMAIN books :
        \A bid \in DOMAIN books[instrument]["buy"],
           ask \in DOMAIN books[instrument]["sell"] : bid < ask

SumOpen(orders) ==
    FoldLeft(LAMBDA sum, order : sum + order.open_size, 0, orders)

\* The running total of a level, kept by += and -= in five functions, is the
\* sum of the open sizes of its orders, modulo 2^64.
LevelTotals ==
    \A instrument \in DOMAIN books : \A direction \in Side :
        \A p \in DOMAIN books[instrument][direction] :
            LET level == books[instrument][direction][p]
            IN  level.total_size = SumOpen(level.orders) % SizeModulus

\* docs/matching-rules.md: a book update carries the "total size available
\* at that best price".
LevelTotalsExact ==
    \A instrument \in DOMAIN books : \A direction \in Side :
        \A p \in DOMAIN books[instrument][direction] :
            LET level == books[instrument][direction][p]
            IN  level.total_size = SumOpen(level.orders)

SumTraded(stream) ==
    FoldLeft(LAMBDA sum, e : IF e.type = "trade_executed"
                             THEN sum + e.executed_size ELSE sum, 0, stream)

\* Nothing is lost or made up while a command matches: what its trades have
\* executed and what is still open add up to the size that was ordered.
SizeConserved ==
    call # NoCall => SumTraded(events) + call.open_size = call.size

\* The answers the code keeps for a corrupted index never occur: no update or
\* cancel is refused because a book is missing or inconsistent, and no cancel
\* is answered by no event (engine.cpp:47, 53, 73 and order_book.cpp:228).
IndexNeverCorrupt ==
    /\ events = <<>> => books = EmptyMap
    /\ \A i \in DOMAIN events :
          events[i].type \in {"update_rejected", "cancel_rejected"} =>
              events[i].reason \notin {"order book is missing",
                                       "order book is inconsistent"}

OpenSizeOf(key) ==
    LET active == active_orders[key]
        orders == LevelsOf(active)[active.limit_price].orders
    IN  orders[PositionOf(orders, active.node)].open_size

\* A snapshot of this depth tells the truth about the active orders: its
\* levels are the best ones, best first, and each shows the sum (modulo
\* 2^64) of the open sizes of the active orders with a handle to that price.
TruthfulAt(depth) ==
    call = NoCall =>
    \A instrument \in DOMAIN books, direction \in Side :
        LET shown == snapshot(instrument, depth)[direction]
            keys == {key \in DOMAIN active_orders :
                        /\ active_orders[key].instrument = instrument
                        /\ active_orders[key].direction = direction}
            prices == {active_orders[key].limit_price : key \in keys}
            at(p) == {key \in keys : active_orders[key].limit_price = p}
        IN  /\ Len(shown) = Min({depth, Cardinality(prices)})
            /\ \A i \in DOMAIN shown :
                  LET p == shown[i].level_price
                  IN  /\ p \in prices
                      /\ Cardinality({q \in prices :
                                        Better(direction, q, p)}) = i - 1
                      /\ shown[i].total_size =
                            MapThenSumSet(OpenSizeOf, at(p)) % SizeModulus

\* Snapshots of no level, of the best one, and of more are truthful, whatever
\* submits, updates and cancels came before (order_book::snapshot_levels).
SnapshotTruthful == \A depth \in 0 .. 2 : TruthfulAt(depth)

\* Priority is earned, never gained by an update: as long as an order keeps
\* its sequence number it keeps its book, side, price and key, and its open
\* size never grows.  (An order that grows or moves gets a new number and so
\* goes to the back.)
PriorityEarned ==
    [][\A instrument \in DOMAIN books : \A direction \in Side :
         \A p \in DOMAIN books[instrument][direction] :
           LET orders == books[instrument][direction][p].orders
           IN  \A i \in DOMAIN orders :
                 \A s \in DOMAIN books' : \A d \in Side :
                   \A q \in DOMAIN books'[s][d] :
                     \A j \in DOMAIN books'[s][d][q].orders :
                       LET after == books'[s][d][q].orders[j]
                       IN  orders[i].sequence = after.sequence =>
                             /\ <<s, d, q>> = <<instrument, direction, p>>
                             /\ after.key = orders[i].key
                             /\ after.open_size <= orders[i].open_size
      ]_vars

\* Every command ends: the matching loop never runs forever.
CommandsEnd == call # NoCall ~> call = NoCall

=============================================================================
