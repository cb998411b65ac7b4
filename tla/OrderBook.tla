----------------------------- MODULE OrderBook -----------------------------
(***************************************************************************)
(* The data structures and the helpers of class order_book                 *)
(* (components/matching/engine, order_book.hpp and order_book.cpp), as     *)
(* operators on values; module Engine holds the state and the operations.  *)
(*                                                                         *)
(* One side of a book, bid_levels or ask_levels, is a std::map from price  *)
(* to price_level: here a function whose DOMAIN is the set of the prices   *)
(* present.  A price_level holds a running total and a std::list of        *)
(* resting orders, here a sequence.  A list iterator is the identity of a  *)
(* list node; nodes never move and carry the unique sequence number of     *)
(* the command that created them, so that number stands for the iterator.  *)
(***************************************************************************)
EXTENDS Integers, SequencesExt

CONSTANTS
    MaxPrice,    \* largest value of a price (2^64 - 1 in the code)
    SizeModulus  \* number of values of a std::uint64_t size (2^64)

ASSUME MaxPriceAssumption == MaxPrice \in Nat \ {0}
ASSUME SizeModulusAssumption == SizeModulus \in Nat \ {0, 1}

Price == 1 .. MaxPrice            \* price{0} throws
Quantity == 1 .. SizeModulus - 1  \* quantity{0} throws
Size == 0 .. SizeModulus - 1      \* a plain std::uint64_t

Side == {"buy", "sell"}
Opposite(direction) == IF direction = "buy" THEN "sell" ELSE "buy"

\* order_pricing: the limit price of a limit_order, or market_order.  No
\* price is 0, so 0 also stands for an empty std::optional<price>.
Market == 0
NoPrice == 0
Pricing == Price \cup {Market}

-----------------------------------------------------------------------------
(* The maps and the arithmetic of the code.                                *)

EmptyMap == <<>>

\* map[x] = v
Put(f, x, v) == [y \in DOMAIN f \cup {x} |-> IF y = x THEN v ELSE f[y]]

\* map.emplace(x, v): an entry that is present is kept
Emplace(f, x, v) ==
    [y \in DOMAIN f \cup {x} |-> IF y \in DOMAIN f THEN f[y] ELSE v]

\* map.erase(x), for every x in S
Erase(f, S) == [y \in DOMAIN f \ S |-> f[y]]

\* += and -= on std::uint64_t
Plus(a, b) == (a + b) % SizeModulus
Minus(a, b) == (a - b) % SizeModulus

-----------------------------------------------------------------------------
(* Order of the levels: bids_ by std::greater, asks_ by std::less.         *)

\* Mutant: both maps in descending order.
Better_descending(direction, p, q) == p > q

Better(direction, p, q) == IF direction = "buy" THEN p > q ELSE p < q

\* levels.begin()->first, of a side that has a level
begin(direction, levels) ==
    CHOOSE p \in DOMAIN levels :
        \A q \in DOMAIN levels : ~ Better(direction, q, p)

NoTop == [best_price |-> NoPrice, total_size |-> 0]

top_of_book(direction, levels) ==
    IF DOMAIN levels = {} THEN NoTop
    ELSE LET p == begin(direction, levels)
         IN  [best_price |-> p, total_size |-> levels[p].total_size]

\* The prices of a side in the order of its std::map, best first.
in_order(direction, levels) ==
    LET n == Cardinality(DOMAIN levels)
    IN  CHOOSE prices \in [1 .. n -> DOMAIN levels] :
            \A i, j \in 1 .. n : i < j => Better(direction, prices[i], prices[j])

\* Mutant: one level too many.
snapshot_levels_extra(direction, levels, depth) ==
    LET prices == in_order(direction, levels)
    IN  [i \in 1 .. Min({depth + 1, Cardinality(DOMAIN levels)}) |->
            [level_price |-> prices[i],
             total_size  |-> levels[prices[i]].total_size]]

\* The loop over a side that breaks at `depth' levels.
snapshot_levels(direction, levels, depth) ==
    LET prices == in_order(direction, levels)
    IN  [i \in 1 .. Min({depth, Cardinality(DOMAIN levels)}) |->
            [level_price |-> prices[i],
             total_size  |-> levels[prices[i]].total_size]]

-----------------------------------------------------------------------------
(* Resting, finding and removing orders.                                   *)

\* Mutant: equal prices do not cross.
can_cross_strict(direction, pricing, best) ==
    \/ pricing = Market
    \/ direction = "buy" /\ pricing > best
    \/ direction = "sell" /\ pricing < best

\* can_buy_cross, can_sell_cross: may an order of this side and pricing
\* trade with the best opposite price?
can_cross(direction, pricing, best) ==
    \/ pricing = Market
    \/ direction = "buy" /\ pricing >= best
    \/ direction = "sell" /\ pricing <= best

\* levels[p] = level, or levels.erase(p) once its last order is gone.
StoreLevel(levels, p, level) ==
    IF level.orders = <<>> THEN Erase(levels, {p}) ELSE Put(levels, p, level)

\* Mutant: the new order goes to the front.
rest_order_at_front(levels, order) ==
    LET p == order.limit_price
        level == IF p \in DOMAIN levels THEN levels[p]
                 ELSE [total_size |-> 0, orders |-> <<>>]
    IN  Put(levels, p,
            [total_size |-> Plus(level.total_size, order.open_size),
             orders     |-> <<order>> \o level.orders])

\* The new order goes to the back of the list of its price.
rest_order(levels, order) ==
    LET p == order.limit_price
        level == IF p \in DOMAIN levels THEN levels[p]
                 ELSE [total_size |-> 0, orders |-> <<>>]
    IN  Put(levels, p,
            [total_size |-> Plus(level.total_size, order.open_size),
             orders     |-> Append(level.orders, order)])

\* *handle.order_ is the node of `key', in a level that still exists.  A
\* handle whose node was erased would be undefined behaviour in the code;
\* Engine's HandlesValid shows that none is ever dereferenced.
Holds(levels, handle, key) ==
    /\ handle.limit_price \in DOMAIN levels
    /\ \E i \in DOMAIN levels[handle.limit_price].orders :
          /\ levels[handle.limit_price].orders[i].sequence = handle.node
          /\ levels[handle.limit_price].orders[i].key = key

PositionOf(orders, node) ==
    CHOOSE i \in DOMAIN orders : orders[i].sequence = node

\* The erasure that remove_order and cancel_from_levels share.
remove_order(levels, handle) ==
    LET level == levels[handle.limit_price]
        i == PositionOf(level.orders, handle.node)
    IN  StoreLevel(levels, handle.limit_price,
            [total_size |-> Minus(level.total_size, level.orders[i].open_size),
             orders     |-> RemoveAt(level.orders, i)])

\* Mutant: an order may also grow in place.
can_reduce_any_size(levels, handle, key, pricing, size) ==
    /\ pricing = handle.limit_price
    /\ Holds(levels, handle, key)

\* The condition and the effect of reduce_order_size: the same price and a
\* size that does not grow.
can_reduce(levels, handle, key, pricing, size) ==
    /\ pricing = handle.limit_price
    /\ Holds(levels, handle, key)
    /\ LET orders == levels[handle.limit_price].orders
       IN  size <= orders[PositionOf(orders, handle.node)].open_size

\* Mutant: the total of the level is not adjusted.
reduce_order_size_keeps_total(levels, handle, size) ==
    LET p == handle.limit_price
        i == PositionOf(levels[p].orders, handle.node)
    IN  [levels EXCEPT ![p].orders[i].open_size = size]

reduce_order_size(levels, handle, size) ==
    LET level == levels[handle.limit_price]
        i == PositionOf(level.orders, handle.node)
    IN  Put(levels, handle.limit_price,
            [total_size |-> Minus(level.total_size,
                                  level.orders[i].open_size - size),
             orders     |-> [level.orders EXCEPT ![i].open_size = size]])

\* Mutant: an order that is filled stays at the front.
take_from_front_keeps_filled(levels, p, executed) ==
    [levels EXCEPT ![p].total_size = Minus(@, executed),
                   ![p].orders[1].open_size = @ - executed]

\* One iteration of match_against_level, and the erasure of the level by
\* match_order when it was the last one: `executed' units of the front order.
take_from_front(levels, p, executed) ==
    LET level == levels[p]
        resting == Head(level.orders)
    IN  StoreLevel(levels, p,
            [total_size |-> Minus(level.total_size, executed),
             orders     |-> IF executed = resting.open_size
                            THEN Tail(level.orders)
                            ELSE [level.orders EXCEPT
                                    ![1].open_size = @ - executed]])

-----------------------------------------------------------------------------
(* Events.                                                                 *)

\* Mutant: the price and the size change places.
trade_executed_swapped(aggressor, resting, instrument, price, size) ==
    [type |-> "trade_executed", aggressor |-> aggressor, resting |-> resting,
     instrument |-> instrument, execution_price |-> size,
     executed_size |-> price]

trade_executed(aggressor, resting, instrument, price, size) ==
    [type |-> "trade_executed", aggressor |-> aggressor, resting |-> resting,
     instrument |-> instrument, execution_price |-> price,
     executed_size |-> size]

book_updated(instrument, direction, top) ==
    [type |-> "book_updated", instrument |-> instrument,
     direction |-> direction, best_price |-> top.best_price,
     total_size |-> top.total_size]

\* Mutant: a change of the size alone goes unreported.
book_update_if_price_changed(instrument, direction, before, after) ==
    IF before.best_price = after.best_price THEN <<>>
    ELSE <<book_updated(instrument, direction, after)>>

\* append_book_update_if_changed: the events it appends.
book_update_if_changed(instrument, direction, before, after) ==
    IF before = after THEN <<>>
    ELSE <<book_updated(instrument, direction, after)>>

=============================================================================
