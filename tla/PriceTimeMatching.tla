------------------------- MODULE PriceTimeMatching --------------------------
(***************************************************************************)
(* What the matching engine promises its clients, without books, levels,   *)
(* lists, handles or loops: a set of resting orders, and commands that     *)
(* take effect in one step.  An incoming order is filled against the       *)
(* resting orders it crosses in price-time priority; how much each of them *)
(* gives is stated in closed form (Fill), not by a loop.                   *)
(*                                                                         *)
(* The rules are those of engine.cpp and order_book.cpp; Engine is shown   *)
(* to implement this specification in module EngineRefinement.             *)
(***************************************************************************)
EXTENDS Integers, Sequences, FiniteSets, FiniteSetsExt

CONSTANTS Keys, Symbols, Prices, Sizes, MaxSequence

VARIABLES
    resting,        \* the set of resting orders
    next_sequence,  \* arrival number of the next command that is accepted
    response        \* the answer to the last command, book updates left out

vars == <<resting, next_sequence, response>>

Sides == {"buy", "sell"}
MarketPricing == 0

ActiveKeys == {o.key : o \in resting}
OrderOf(key) == CHOOSE o \in resting : o.key = key

\* Resting order o is matched before resting order r of the same side.
Precedes(o, r) ==
    \/ o.direction = "buy" /\ o.limit_price > r.limit_price
    \/ o.direction = "sell" /\ o.limit_price < r.limit_price
    \/ o.limit_price = r.limit_price /\ o.sequence < r.sequence

\* The orders of the set `pool' an incoming order may trade with.
Crossed(pool, order) ==
    {o \in pool :
        /\ o.instrument = order.instrument
        /\ o.direction # order.direction
        /\ \/ order.limit_price = MarketPricing
           \/ order.direction = "buy" /\ order.limit_price >= o.limit_price
           \/ order.direction = "sell" /\ order.limit_price <= o.limit_price}

OpenSize(o) == o.open_size

\* What resting order o gives to an incoming order of that size: all the
\* orders ahead of it have given everything first.
Fill(o, crossed, size) ==
    LET ahead == MapThenSumSet(OpenSize, {r \in crossed : Precedes(r, o)})
    IN  Min({o.open_size, Max({0, size - ahead})})

\* What the orders of the set give in all.
Filled(crossed, size) ==
    MapThenSumSet(LAMBDA o : Fill(o, crossed, size), crossed)

\* The trades, in the order in which they are reported.
Trades(order, crossed) ==
    LET hit == {o \in crossed : Fill(o, crossed, order.open_size) > 0}
        nth(n) == CHOOSE o \in hit :
                     Cardinality({r \in hit : Precedes(r, o)}) = n - 1
    IN  [n \in 1 .. Cardinality(hit) |->
            [type |-> "trade_executed", aggressor |-> order.key,
             resting |-> nth(n).key, instrument |-> order.instrument,
             execution_price |-> nth(n).limit_price,
             executed_size |-> Fill(nth(n), crossed, order.open_size)]]

\* The order enters a pool of resting orders: fills are taken out of the
\* pool, and what is left of a limit order joins it.
Enter(pool, order, verdict) ==
    LET crossed == Crossed(pool, order)
        fill(o) == Fill(o, crossed, order.open_size)
        left == order.open_size - Filled(crossed, order.open_size)
    IN  /\ resting' =
              (pool \ crossed)
              \cup {[o EXCEPT !.open_size = @ - fill(o)] :
                       o \in {c \in crossed : fill(c) < c.open_size}}
              \cup (IF left > 0 /\ order.limit_price # MarketPricing
                    THEN {[order EXCEPT !.open_size = left]} ELSE {})
        /\ response' = <<[type |-> verdict, key |-> order.key]>>
                       \o Trades(order, crossed)

Order(key, instrument, direction, pricing, size) ==
    [key |-> key, instrument |-> instrument, direction |-> direction,
     limit_price |-> pricing, open_size |-> size, sequence |-> next_sequence]

-----------------------------------------------------------------------------
Init ==
    /\ resting = {}
    /\ next_sequence = 1
    /\ response = <<>>

ValidKey(key) == key.user # 0 /\ key.client_order # 0

\* A command is refused for one reason and changes nothing.
Refuse(type, key, reason) ==
    /\ response' = <<[type |-> type, key |-> key, reason |-> reason]>>
    /\ UNCHANGED <<resting, next_sequence>>

Accept ==
    /\ next_sequence <= MaxSequence
    /\ next_sequence' = next_sequence + 1

Submit(key, instrument, direction, pricing, size) ==
    /\ ValidKey(key) /\ instrument # 0 /\ key \notin ActiveKeys
    /\ Accept
    /\ Enter(resting, Order(key, instrument, direction, pricing, size),
             "submit_accepted")

RefuseSubmit(key, instrument) ==
    \/ key.user = 0 /\ Refuse("submit_rejected", key,
                              "user id must be non-zero")
    \/ key.user # 0 /\ key.client_order = 0
          /\ Refuse("submit_rejected", key, "client order id must be non-zero")
    \/ ValidKey(key) /\ instrument = 0
          /\ Refuse("submit_rejected", key, "symbol id must be non-zero")
    \/ ValidKey(key) /\ instrument # 0 /\ key \in ActiveKeys
          /\ Refuse("submit_rejected", key, "order key is already active")

\* The order keeps its place.
Reduce(key, pricing, size) ==
    LET o == OrderOf(key)
    IN  /\ key \in ActiveKeys
        /\ pricing = o.limit_price /\ size <= o.open_size
        /\ Accept
        /\ resting' = (resting \ {o}) \cup {[o EXCEPT !.open_size = size]}
        /\ response' = <<[type |-> "update_accepted", key |-> key]>>

\* The order loses its place: it leaves and enters again as a new arrival.
Replace(key, pricing, size) ==
    LET o == OrderOf(key)
    IN  /\ key \in ActiveKeys
        /\ ~ (pricing = o.limit_price /\ size <= o.open_size)
        /\ Accept
        /\ Enter(resting \ {o},
                 Order(key, o.instrument, o.direction, pricing, size),
                 "update_accepted")

RefuseUpdate(key, pricing) ==
    \/ key.user = 0 /\ Refuse("update_rejected", key,
                              "user id must be non-zero")
    \/ key.user # 0 /\ key.client_order = 0
          /\ Refuse("update_rejected", key, "client order id must be non-zero")
    \/ ValidKey(key) /\ pricing = MarketPricing
          /\ Refuse("update_rejected", key, "update pricing must be limit")
    \/ ValidKey(key) /\ pricing # MarketPricing /\ key \notin ActiveKeys
          /\ Refuse("update_rejected", key, "order is not active")

Cancel(key) ==
    /\ key \in ActiveKeys
    /\ resting' = resting \ {OrderOf(key)}
    /\ response' = <<[type |-> "order_cancelled", key |-> key]>>
    /\ UNCHANGED next_sequence

RefuseCancel(key) ==
    /\ key \notin ActiveKeys
    /\ Refuse("cancel_rejected", key, "order is not active")

\* The answer is taken by whoever called.
Take ==
    /\ response' = <<>>
    /\ UNCHANGED <<resting, next_sequence>>

Next ==
    \/ Take
    \/ \E key \in Keys :
          \/ Cancel(key)
          \/ RefuseCancel(key)
          \/ \E pricing \in Prices \cup {MarketPricing} : RefuseUpdate(key, pricing)
          \/ \E pricing \in Prices, size \in Sizes :
                Reduce(key, pricing, size) \/ Replace(key, pricing, size)
          \/ \E instrument \in Symbols :
                \/ RefuseSubmit(key, instrument)
                \/ \E direction \in Sides, size \in Sizes,
                      pricing \in Prices \cup {MarketPricing} :
                      Submit(key, instrument, direction, pricing, size)

Spec == Init /\ [][Next]_vars
=============================================================================
