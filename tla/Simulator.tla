------------------------------ MODULE Simulator ------------------------------
(***************************************************************************)
(* The exchange feed simulator (apps/exchange_feed_simulator, main.cpp):   *)
(* one thread submits commands, waits for the events of each, and          *)
(* publishes them: burst by burst when a number of messages was asked for, *)
(* otherwise the events of three fixed commands, one after the other.      *)
(*                                                                         *)
(* The engine is that of module Engine.  The runner between them is left   *)
(* out: the thread waits for every future before it goes on, and Runner    *)
(* shows that every future becomes ready.  Option parsing, pacing, timing  *)
(* and printing are left out.                                              *)
(***************************************************************************)
EXTENDS Publisher

CONSTANTS
    MessageCounts,  \* values of --messages; 0 stands for none given
    BurstSizes,     \* values of --burst-size
    SizeTValues     \* number of values of std::size_t and of a size (2^64)

\* A count above the middle of std::size_t would take centuries to publish;
\* the walkthrough orders up to 10 units.
ASSUME SimulatorAssumption ==
    /\ SizeTValues \in Nat /\ SizeTValues > 10
    /\ \A m \in MessageCounts : m \in Nat /\ 2 * m <= SizeTValues
    /\ BurstSizes \subseteq 1 .. SizeTValues - 1

VARIABLES
    books, active_orders, engine_sequence, events, call,  \* the engine
    options,      \* simulator_options
    stage,        \* "loop", "submit", "get", "publish", "publishing",
                  \* "stop", "exited"
    first,        \* number of commands of earlier bursts
    offset,       \* number of commands submitted of this burst
    gathered,     \* the events of this burst
    total,        \* publish_load's sum of the results
    exit_status   \* what main returns, or -1

engineVars == <<books, active_orders, engine_sequence, events, call>>
loopVars == <<options, first, offset, gathered, total>>
simulatorVars == <<publisherVars, engineVars, loopVars, stage, exit_status>>

Exchange == INSTANCE Engine WITH
    MaxPrice <- 101, SizeModulus <- SizeTValues, Keys <- {}, Symbols <- {1},
    MaxSequence <- SizeTValues, next_sequence <- engine_sequence

SimulatorInit ==
    /\ PublisherInit
    /\ Exchange!Init
    /\ options \in [message_count : MessageCounts, burst_size : BurstSizes]
    /\ stage = "loop"
    /\ first = 0 /\ offset = 0 /\ gathered = <<>>
    /\ total = publish_result
    /\ exit_status = -1

-----------------------------------------------------------------------------
(* The commands: a row of equal bids, or the walkthrough.                  *)

Load == options.message_count # 0

CommandCount == IF Load THEN options.message_count ELSE 3
Burst == IF Load THEN options.burst_size ELSE 1

order_key(user, client_order) == [user |-> user, client_order |-> client_order]

Submits(n) == Load \/ n \in {1, 2}

make_limit_order(n) ==
    IF Load THEN [key |-> order_key(1, n), side |-> "buy", price |-> 100,
                  size |-> 1]
    ELSE IF n = 1 THEN [key |-> order_key(1, 1), side |-> "buy",
                        price |-> 100, size |-> 10]
    ELSE [key |-> order_key(2, 1), side |-> "sell", price |-> 101,
          size |-> 8]

-----------------------------------------------------------------------------
(* main and publish_load                                                   *)

\* Mutant: the last burst is as long as the others.
BurstCount_unclipped == Burst

\* count, the commands of the burst that begins after `first' of them.
BurstCount == Min({Burst, CommandCount - first})

Loop ==
    /\ stage = "loop"
    /\ stage' = IF first < CommandCount THEN "submit" ELSE "stop"
    /\ offset' = 0 /\ gathered' = <<>>
    /\ UNCHANGED <<publisherVars, engineVars, options, first, total,
                   exit_status>>

Submit ==
    /\ stage = "submit"
    /\ Submits(first + offset + 1)
    /\ LET order == make_limit_order(first + offset + 1)
       IN  Exchange!SubmitBegin(order.key, 1, order.side, order.price,
                                order.size)
    /\ stage' = "get"
    /\ UNCHANGED <<publisherVars, loopVars, exit_status>>

\* The events of a command join those of the burst.
Gather ==
    /\ gathered' = gathered \o events'
    /\ offset' = offset + 1
    /\ stage' = IF offset + 1 < BurstCount THEN "submit" ELSE "publish"
    /\ UNCHANGED <<publisherVars, options, first, total, exit_status>>

\* No two of the orders cross, so the engine goes straight to the end.
Get ==
    /\ stage = "get"
    /\ Exchange!FinishSubmit
    /\ Gather

CancelAndGet ==
    /\ stage = "submit"
    /\ ~ Submits(first + offset + 1)
    /\ Exchange!Cancel(order_key(1, 1))
    /\ Gather

PublishBurst ==
    /\ stage = "publish"
    /\ publish(gathered)
    /\ stage' = "publishing"
    /\ UNCHANGED <<engineVars, loopVars, exit_status>>

PublishStep ==
    /\ SkipEvent \/ SendUpdate \/ PublishReturns
    /\ UNCHANGED <<engineVars, loopVars, stage, exit_status>>

PublishFails ==
    /\ SendFails \/ EncodeFails
    /\ UNCHANGED <<engineVars, loopVars, stage, exit_status>>

\* Mutant: the next burst begins where the last one did.
next_first_stays == first

\* first += options.burst_size
next_first == (first + Burst) % SizeTValues

add_to_total ==
    [first_sequence     |-> IF total.messages_published = 0
                               /\ result.messages_published # 0
                            THEN result.first_sequence
                            ELSE total.first_sequence,
     last_sequence      |-> result.last_sequence,
     messages_published |-> total.messages_published
                            + result.messages_published,
     bytes_sent         |-> total.bytes_sent + result.bytes_sent]

Published ==
    /\ stage = "publishing" /\ publishing = "returned"
    /\ total' = IF Load THEN add_to_total ELSE total
    /\ first' = next_first
    /\ stage' = "loop"
    /\ UNCHANGED <<publisherVars, engineVars, options, offset, gathered,
                   exit_status>>

\* engine.stop()
Stop ==
    /\ stage = "stop"
    /\ stage' = "exited" /\ exit_status' = 0
    /\ UNCHANGED <<publisherVars, engineVars, loopVars>>

\* The exception ends main; the destructor of the runner stops the engine.
Fail ==
    /\ stage = "publishing" /\ publishing = "threw"
    /\ stage' = "exited" /\ exit_status' = 1
    /\ UNCHANGED <<publisherVars, engineVars, loopVars>>

SimulatorStep ==
    \/ Loop \/ Submit \/ Get \/ CancelAndGet
    \/ PublishBurst \/ PublishStep \/ PublishFails \/ Published
    \/ Stop \/ Fail

-----------------------------------------------------------------------------
(* Properties.                                                             *)

Packets == {Wire!decode(datagram) : datagram \in sent}

Update(number, side, price, size) ==
    [sequence |-> number, instrument |-> 1, direction |-> side,
     best_price |-> price, aggregate_size |-> size]

\* README.md: load mode "submits a deterministic series of resting buy orders
\* and publishes their consecutive top-of-book updates", and without it "the
\* publisher retains the three-update walkthrough".
Announced ==
    IF Load THEN {Update(n, "buy", 100, n) : n \in 1 .. options.message_count}
    ELSE {Update(1, "buy", 100, 10), Update(2, "sell", 101, 8),
          Update(3, "buy", Wire!NoPrice, 0)}

\* Whatever the burst size, the simulator sends nothing but what README.md
\* announces; when it exits with status 0 it has sent all of it, and its
\* summary names the first and the last number, the messages and the bytes;
\* with status 1 something is missing.
SummaryTruthful ==
    /\ Packets \subseteq Announced
    /\ exit_status = 0 =>
          /\ Packets = Announced
          /\ Load => total = [first_sequence |-> 1,
                              last_sequence |-> options.message_count,
                              messages_published |-> options.message_count,
                              bytes_sent |-> 38 * options.message_count]
    /\ exit_status = 1 => Packets # Announced

\* The simulator always comes to an end.
SimulatorEnds == stage # "exited" ~> stage = "exited"

=============================================================================
