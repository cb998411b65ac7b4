# OBZ Market Lab: TLA+ models, checks and proofs

This directory models OBZ Market Lab: the matching engine, the threaded runner
around it, both halves of the market data feed, and the three programs built
from them (simulator, listener, replay).
Everything is translated from the C++ sources; `PROJECT.json` maps every
definition to its lines. Paths below are relative to the repository.

## 1. Inventory

| Component | State | Operations | Hard parts | What makes it correct |
|---|---|---|---|---|
| order book (`components/matching/engine`, `order_book.cpp`) | two `std::map`s from price to a level (running total and `std::list` of orders) | submit, update (reduce or replace), cancel, snapshot | partial fills over several orders and levels, iterators that outlive their nodes, running totals in `uint64`, book updates only on change | price and time order, no crossed book, exact accounting, every change of the top reported |
| engine (`engine.cpp`) | books by symbol, `active_orders_` by key (symbol and list iterator), next sequence | submit, update, cancel, snapshot | index and books change in different functions; an update can fill others, itself, or rest again | index and books agree at every return; keys are unique; refused commands change nothing |
| runner (`components/matching/runtime`, `runner.cpp`) | atomics `accepting`, `closed`; bounded queue; `std::thread` | start, stop, submit/update/cancel/snapshot returning futures | check-then-act on atomics, blocking queue at its limit, stop while clients push, drain and join | each command runs once or not at all, in client order; futures become ready; nobody hangs |
| wire codec (`components/market_data/protocol`) | none | encode, decode | lengths and reserved bits at boundaries, asymmetry between encoder and decoder | decode accepts exactly what encode makes |
| multicast receiver (`components/market_data/feed`) | a reused buffer | receive | truncated and short datagrams | every datagram gets the one right verdict |
| sequenced buffer, processor (`components/market_data/feed`) | next sequence, held packets, exhaustion flag | push, pop_ready, process | loss, duplication, reordering, two limits, the largest number, a consumer that throws | delivery without gap, repetition or reordering; nothing releasable is kept |
| listener (`apps/market_data_listener`) | counters, signal flag, exit status | the receive loop, signal handler, summary | a signal at any moment, early `continue`s, `--stop-after` overshoot | counters account for every datagram, exit status truthful, clean shutdown |
| feed encoder, multicast publisher (`components/market_data/feed`) | next feed sequence, exhaustion flag | encode, publish | failure in the middle of a batch, the largest number | numbers are never used twice; what a receiver is not told leaves a gap in them |
| top-of-book view (`components/market_data/feed`) | per symbol: state, last sequence, bid, ask; stream flag | establish, invalidate, apply, state, get | snapshot against delivered updates, numbers shared by all books | a current book equals the exchange's book at its sequence |
| exchange feed simulator (`apps/exchange_feed_simulator`) | position in the load loop, sum of the results, the engine and publisher it drives | load loop, walkthrough | a last, shorter burst; burst sizes up to the largest `size_t`; a failure in a burst | sends exactly what is announced, or exits with status 1 |
| scenario parser (`apps/market_replay`) | symbol table, line number | load, line by line | a format with six kinds of tokens and an order of checks; ids in first-seen order, and their end | accepts exactly the documented format, with the documented meaning |
| market replay (`apps/market_replay`) | options, files left, steps left, one engine per file | command line, demo, file, directory | a bad file in the middle of a directory | files run whole, in order, each on a fresh engine |
| replay writers (`apps/market_replay`) | none | print events and snapshots | formatting | |
| tracing, tests, benchmarks | none | | | |

How they interact: clients call the runner, which queues commands to one worker
thread that owns the engine; the engine returns events; a publisher turns its
`book_updated` events into numbered datagrams; a receiver on another host
decodes, reorders and delivers them, in the listener to a printer, in an
application with snapshots to a top-of-book view. Between publisher and
receiver lie UDP multicast and its losses. The simulator drives a runner and a
publisher from one thread; the replay drives a runner from scenario files.
Nothing is persisted, so there is no crash recovery.

`PROJECT.json` lists the hazards, each at its line.

## 2. Modules

| Module | Models |
|---|---|
| `OrderBook` | data structures and helper functions of `order_book.cpp` as operators on values |
| `Engine` | the engine and its books as a state machine, and the properties |
| `PriceTimeMatching` | abstract specification: a set of resting orders; each command is one step, fills are in closed form |
| `EngineRefinement` | history variables and the mapping of `Engine` to `PriceTimeMatching`; the view of a reader of the events |
| `Runner` | clients, controllers, worker and queue, one step per access to shared state |
| `Processor` | `sequenced_buffer` and `processor`, split at the calls of the consumer |
| `Listener` | the listener process around `Processor` |
| `Codec` | `encode`, `decode` and their checks on field values and lengths |
| `Receiver` | `multicast_receiver::receive` around `Codec` |
| `Publisher` | `multicast_publisher` and `feed_encoder`, split at the events of a batch; uses `Codec` |
| `TopOfBookView` | `top_of_book_view` |
| `MarketFeed` | composition: exchange, `Publisher`, network, `Processor`, and `TopOfBookView` as its consumer |
| `Simulator` | the simulator process on `Engine` and `Publisher` |
| `Multicast` | composition: `Simulator`, network, `Listener` |
| `Scenario` | the scenario parser as operators on the tokens of a line, and the format of `README.md` as a set of sentences |
| `Replay` | the replay process around `Scenario` |
| `EngineProofs` | theorems about `Engine`: types, price and time order, the index against the books, priority |
| `EngineRefinementProofs` | theorems about `Engine` and `EngineRefinement`: totals, sizes, what book updates tell, what snapshots show, and that `Engine` implements `PriceTimeMatching` |
| `MulticastProofs` | theorems about `Listener`, whatever arrives, and then about `Multicast` |
| `ReplayProofs` | theorems about `Scenario` and `Replay` |
| `RunnerProofs`, `ProcessorProofs`, `ReceiverProofs`, `MarketFeedProofs` | theorems about the module each is named after |
| `MCEngine`, `MCEngineRefinement`, `MCMarketFeed`, `MCReplay` | instances for TLC (the other runs check the modules directly) |

Definitions named `..._something` behind a comment "Mutant" are broken variants
of the definition that follows them. Nothing uses them; replacing the
definition by its variant must make TLC report the property that `PROJECT.json`
lists, which shows that the property depends on that line of the code.

### State and actions

*Engine.* `books`, `active_orders` and `next_sequence` are the members of
`class engine`; `events` is what the last command returned; `call` holds the
locals of a command in progress. A list iterator is represented by the sequence
number of its node, which is unique and never changes while the node lives.
Rejections, `UpdateReduce` and `Cancel` are one step each. A submit is
`SubmitBegin`, a `MatchFront` per trade and `FinishSubmit`; a replacing update
is `ReplaceBegin`, `MatchFront`s and `FinishReplace`. The engine is sequential:
the split only exposes the states between two trades to the invariants. Sizes
and totals are `std::uint64_t` with `SizeModulus` values; `price{0}` and
`quantity{0}` throw in their constructors and are not inputs. The texts of
rejections stand for themselves because clients see which check failed.

*Runner.* Clients, controllers and worker interleave freely. `start` is three
steps (`StartCheck`, `StartExchange`, `StartThread` or `StartThreadFails`),
`stop` four (`StopExchange`, `StopClosed`, `StopQueue`, `StopJoin`), a client
call two (`Enqueue`, then `Push` or `PushClosed`). Assigning to a joinable
`std::thread` is `std::terminate`. The queue is ObzLib's
`bounded_blocking_queue`, which is not in the repository; its blocking, closing
and draining are taken from how `runner.cpp` and `runner_tests.cpp` rely on it.
Whether its `push` throws or returns false once closed makes no difference
here: either way the command is destroyed without running. The variable
`orderly` is history: it becomes false when start or stop is called while
another call of them is in progress, or when the worker cannot be created.
`OneFate` and `ClientOrderKept` hold regardless; the other properties are
claimed for orderly behaviours, as the code supports no more (section 5).

*Processor.* A packet is its sequence number; 0, which `decode_header` refuses,
stands for an empty optional. `LastSequence` stands for 2^64 - 1.

*Listener.* `Check`, `Block`, an arrival (`Receive`, `Discard`), `Process`
steps, `Processed`, `Summary`. `Signal` may happen between any two. Arrivals are
arbitrary sequence numbers in any order: that covers loss, duplication and
reordering, and several senders.

*Receiver.* A datagram is an arbitrary value for each field and a length. In a
short datagram the missing fields are arbitrary, as is the reused buffer
behind the bytes received.

*Publisher.* `publish` begins a batch; then one step per event: `SkipEvent`
(not a book update), `SendUpdate`, `SendFails` (the number is used up, the rest
of the batch is gone), `EncodeFails` (no number is used up, the rest is gone);
`PublishReturns`. The datagrams sent are a set that the network may deliver
from in any order, repeatedly or not at all. `LastNumber` stands for 2^64 - 1.

*TopOfBookView.* One operator per member function. An empty `std::optional`
level is price 0 and size 0, which no packet carries as a level.

*MarketFeed.* The exchange is not the engine itself but what
`EngineRefinement` shows of it: a command changes the tops of one book and
reports every side that changed. `told` and `image` are history: the market as
the numbers given out describe it. Snapshots and the coordinator that rebases
on them are not implemented in the repository (`feed/README.md`); the model
lets a coordinator establish a book from the exchange's image at any number
given out, between two calls of `process`, provided that no update after that
number has already been delivered (`Rebased`). That is the requirement on the
coordinator: `establish` itself checks nothing, and an older snapshot would take
the book back. `invalidate` may come at any time.

*Simulator.* The two modes share one loop: the walkthrough is three commands in
bursts of one. A command is the engine's own steps (`Exchange!SubmitBegin`,
`Exchange!FinishSubmit`, `Exchange!Cancel`). The runner is left out, because the
thread waits for each future before it goes on. `first += burst_size` wraps at
`SizeTValues`.

*Replay.* One step per argument, file, line and command. A line is the sequence
of its tokens; `Value` says which tokens denote which `std::uint64_t`. An
answer of the engine is represented by the commands the engine has run, which
determine it. `Scenario` states the parser twice: `fields` and the error
operators follow the code, `Grammar` follows the format in `README.md`;
`LoadFaithful` compares them, and `ParserExact` proves that they agree. A path of "" counts as not given, as in the code.

## 3. Runs

| Run | Question | Bounds |
|---|---|---|
| `EngineSafety` | do the index, the levels, the totals and the sizes agree at every moment; are snapshots right; is priority kept; does matching end? | 3 usable keys (two of one user), 1 with a zero id, 2 symbols, prices 1-2, sizes 1-2, 3 accepted commands |
| `EngineRefinement` | does the engine implement price-time matching, and do its updates suffice to follow the top of book? | 3 usable keys, 1 with a zero id, symbols 0 and 1, 4 accepted commands |
| `EngineTotals` | (violated) is a level's total the sum of its sizes? | 3 usable keys, 2 with a zero id, symbols 0 and 1 |
| `Runner` | what becomes of commands, futures and calls under any interleaving, racing controllers and a failing thread constructor included | 2 controllers with 2 calls, 2 clients with 2 commands, queue of 2 |
| `RunnerRestart` | (violated) can a stopped runner accept again? | 2 controllers, 1 client |
| `Listener` | ordering, counters, status and termination over unreliable delivery | 6 sequence numbers, 6 datagrams, gap and capacity 2, stop after 3 |
| `ListenerShutdown` | (violated) does every signal end the listener? | 2 datagrams |
| `ProcessorThrow` | (violated) does a throwing consumer leave the buffer sound? | 5 sequence numbers |
| `Receiver` | does receive accept exactly what encode makes? | each field legal, zero and out of range; lengths around 16 and 38 |
| `MarketFeed` | does the view show the exchange's book? | 2 books (3 sides), 3 feed numbers, the third the largest, gap and capacity 2, failing sends, one command to a batch |
| `Multicast` | does the demo of `README.md` do what it says? | walkthrough and 2-5 messages, 4 numbers, burst sizes 1-3 and the largest, 6 datagrams, stop after 3 |
| `Replay` | is the parser the documented format, and are files replayed whole? | all lines one token away from five sentences, files of up to 3 lines, directories of 2 files of up to 2 lines, all command lines of up to 4 of 7 arguments, 2 symbol ids |

Why the bounds suffice to be interesting. Three orders at two prices and three
commands reach: two orders in one level, a market order over two levels, a
partial fill followed by a reduction, a replacement that fills others, itself
or rests again, a key used again after a fill, all with a second book beside;
`EngineRefinement` adds a fourth command, such as a command on a book that a
replacement has just been through. Sizes up to 2 with a modulus of 3 wrap a
total with two orders. A queue of two places with two clients blocks a push and
is closed while one is blocked. Six numbers with a gap limit of 2 reach both
limits, releases of several packets at once, and the largest number. Three feed
numbers reach a batch of two updates, a failed send in its middle, a snapshot
before, between and after them, and a number for the other book in between.
Message counts below, at and above multiples of the burst size, and above the
largest number, reach every way the load loop can end. One edited token reaches
every check of the parser; three lines reach a name that is repeated, one too
many, or in a line that is refused, before and after blank lines.

Deadlock is checked except where the system may stop: the listener, the
simulator and the replay exit, `Receiver` looks at a single call, a feed whose
numbers are used up has nothing left to send, and in `Runner` a runner without
a worker blocks its clients (section 5).

### Fairness

- `Engine`: weak fairness of the steps of a command that has begun; the code
  between them is straight-line. Nobody has to submit anything.
- `Runner`: weak fairness of each thread's steps inside a call it has begun
  and of the worker; the operating system runs threads that can run. No
  fairness of calling. Weak fairness suffices for `Push`: no client is kept
  out for ever, because the clients issue finitely many commands in the model.
- `Listener`: weak fairness of the process itself; no fairness of datagrams
  and signals.
- `Multicast`: weak fairness of the simulator, a single thread that waits for
  nobody but the runner's worker; none of the network and the listener.
- `Replay`: weak fairness of the only thread.

## 4. Proofs

TLAPS proves the following for all values of the constants, from the
assumptions on constants stated in the modules (prices and sizes positive,
keys and symbols numbers, limits natural numbers). Every inductive invariant
below was checked with TLC, on the instance of a run, before it was proved.

*`EngineProofs`.* `Inductive` proves `Spec => []IInv`; `TypeCorrect`,
`TimePriority` and `NeverCrossed` follow from it. None of the three properties
is inductive alone. Time order needs to know that every resting number is below
the number the next order will rest with, which during a command is not
`next_sequence` but the number already handed to that command (`Bound`). Type
correctness needs that no level is empty, otherwise the front order of the best
level does not exist. That a book stays uncrossed when an order comes to rest
needs that `begin` really is the best price (`BeginIsBest`): the loop ends
with nothing open, or with an opposite best that the order does not reach, and
so it reaches none. The proof has one lemma per helper (what `rest_order`,
`take_from_front`, `remove_order`, `reduce_order_size` do to a good set of
levels) and one per action.

The second part is about the index. `IndexInductive` proves that `active_orders_` and the
books agree: `NoDanglingHandle`, `EveryOrderIndexed` and `NeverCorrupt` follow.
The proof sees the books as a set of orders in their places (`At`); every helper
removes, resizes or adds one of them. The two directions of the agreement are
only inductive together, with the uniqueness of node numbers over all books (a
handle finds its node by its number), except for the keys that the command in
progress has still to settle (`Unsettled`), and with the fact that the key of a
submit in progress is not active. `PriorityNotGained` is the action property
`PriorityEarned`: it rests on the same set of places and on the numbers of new
orders being above all others.

*`EngineRefinementProofs`.* `TotalsAreSums` (`LevelTotals`), `NothingLostInMatching`
(`SizeConserved`) and `ReaderKnowsTop` (`ViewIsTopOfBook`). All three speak of a
`FoldLeft` over a sequence of any length. The provers do not do induction over
data, so what a fold computes is shown by hand: FoldLeft's recursion over sets
of indices has a solution (`FoldExists`) and the functions of partial results
are unique, each because there would otherwise be a least index at which it
fails. From there: appending adds, removing subtracts, resizing adds the
difference, and `+=` and `-=` modulo 2^64 commute with the sum. `SizeConserved`
is inductive with the totals and `IInv`. `ViewIsTopOfBook` speaks of the moments
between commands only; `ViewInv` says what a reader knows in the middle of one:
of the book at work, the two tops the command noted before it touched anything,
of all other books, the tops. It also needs that nothing but accepted and trade
events has been emitted before the last step of a command.

The rest of the module is the refinement: `PriceTimeImplemented` proves
`HSpec => ImplementsPriceTime`. The two sides say the same thing in different
ways. The code takes the front order of the best level, again and again; the
abstract specification says at once, for each order that is crossed, how much
it gives (`Fill`, which subtracts the sum of what is ahead of it), and finds the
k-th trade as that of the order with k-1 others ahead of it. `RefInv`, proved by
`RefInductive`, is what holds in between: the orders the command crosses
(`Reach`) have given what a function `given` says, nobody before those ahead of
him have given everything (`Shared`); the trades in the answer are those of a
list of the orders that gave something, in priority (`Queue`, `Answer`); and the
books hold the pool less what was given (`Remaining`). A step of the loop moves
one such state to the next (`ProgressMore`), because the front of the best level
is the first in priority of those that have anything left (`FrontFirst`, which
needs `IInv` and the agreement of index and books). At the end of the loop
either nothing is wanted any more or nothing is left that the order crosses
(`AllGiven`), and then there is only one way of having shared, `Fill`
(`SharedIsFill`), and only one list of trades, `Trades` (`QueueTrades`). After
that there is one lemma per command: the step in which it returns is the
abstract command, and every other step changes nothing abstract but takes the
previous answer. The sums over sets (`MapThenSumSet`) are treated like the
folds, by the number of elements; book updates drop out of an answer because
`Response` folds over it (`ResponseUpdated`).

`SnapshotsTrue` (`SnapshotTruthful`) and `SnapshotOfAnyDepth` need no invariant
of their own. The list of prices in the order of the map exists and puts each
price at its rank (`InOrder`); the prices of a side are those to which active
orders have handles (`PricesOfKeys`, from the agreement of index and books); and
the total of a level, a sum along its list, is the sum over the set of its
keys (`ListTotal`).

*`RunnerProofs`.* `Inductive` proves `ClientInv /\ ControlInv`, for any number of
clients, controllers, calls and commands and any capacity. `ClientInv` holds in
every behaviour, racing controllers included: the commands processed, in hand
and queued, read as one sequence, keep the order of issue of each client, and a
command is in it, still being pushed, or refused, never two of these;
`CommandsHaveOneFate` and `OrderKept` follow. `ControlInv` holds as long as the
controllers take turns (`orderly`): where the one active controller is tells in
which of three stages of its life the runner is (`Fresh`, `Served`, `Over`);
`StopHasDrained`, `NoTerminate` and `RunningIsServed` follow, and
`NotRestartedInTurn`: what `RunnerRestart` shows violated holds for controllers
that take turns. `AnswersAreFinal` is an action theorem: a future that is ready
stays as it is.

*`ProcessorProofs`.* `Ordered` strengthens `OrderedDelivery` by types and by
what ties the packet in hand and the exhaustion flag to the rest; it needs no
assumption on the consumer. `Window` strengthens `PendingAhead` to the states
inside `process()`, where the expected packet may be among those held; it needs
a consumer that does not throw, and `ProcessorThrow` shows why. `CapacityOfGap`
then bounds the number of held packets by the size of the window.

*`MulticastProofs`, the listener.* The first part is about `Listener` by itself,
for whatever arrives. `Ordered` and `Window` are carried over to the listener,
whose steps are steps of the processor or leave it alone. `SummaryAddsUp`,
`ExitStatusTruthful` and `StopsInTime` need what the counters lag behind while
`process()` is on the stack (`Uncounted`, `Refused`, `Held`, `InHand`), and for
`--stop-after` the bound on everything delivered, in hand and held back taken
together, because one datagram may release all that is held.

*`MarketFeedProofs`.* `NumbersAreUnique`, `ShownBooksAreTruthful` and
`CaughtUpViewIsLive`, for any books, levels and numbers. The invariant ties
four places together: the datagrams on the wire, each of which changes the
image of the market at its number as its packet says (`HistoryInv`); the
events still waiting to be published, which lead from what was told to the
market as it is (`Leads`); what the processor holds, which was on the wire
(`FlowInv`); and each book of the view, which is the image at its own number,
unchanged by every number up to the last one seen (`ShownInv`). The last two
are claimed unless an update was dropped without a gap (section 5). The codec
enters by `RoundTrip`: what is encoded arrives.

*`MulticastProofs`, the demo.* `SimulatorTruthful` (`SummaryTruthful`) and
`StoppedListenerGotAll` (`StopAfterMeansAll`), for any number of messages, any
burst size and widths of sizes and numbers. The simulator's commands are fixed,
so the book after `n` of them is known (`BookAfter`), and so is the update that
the `n`-th brings about (`Report`); the engine's own operators compute it. From
there the invariant follows the updates through the burst (`Fitting`), through
`publish` (`Inside`) and onto the wire (`SentInv`): what has been sent are the
first `Shipped` updates under the numbers from 1 on, whatever failed. A burst
size near the largest `size_t` enters in `OptionFacts`: `first` plus the burst
size stays below 2^64 because a command count above the middle of `size_t` is
excluded. The listener's part is `ListenerInv` as it is, and `SeenInv`: it has
seen no number above `Shipped`, and what it was handed is consecutive. So a
count of `--stop-after` delivered packets can only be all of them.

*`ReceiverProofs`.* `OnlyCanonical` and `AllEncodedAccepted`: `decode` and
`encode` are inverse to each other on what each accepts.

*`ReplayProofs`.* `LoadsFaithfully` (`LoadFaithful`) and `ReplaysWholeFiles`
(`WholeFilesOnly`), for all command lines, any number of files and lines, tokens
of any kind and any number of symbol ids. Three parts carry them.

- The parser, one line at a time. `ParserExact`: `parse_error` is `NoError`
  exactly for the sentences of the format. The code asks field after field and
  looks at the pricing and the number of tokens last; the format says what stands
  at each place. `Accepts` turns the code's first error into a condition on all
  fields, and for each of the five forms the two conditions are the same
  (`AcceptsLimit` to `AcceptsShort`). `MeaningOfLine`: the command that is made
  means the line.
- The symbol table. `FirstSeenIs`: the number of names up to the line in which a
  name occurs first is its id. `Interned` says that the table and its counter
  are those of the lines read so far, and `InternName` that the next id is right,
  and that `intern` throws exactly when the ids are used up: the counter is 0 then
  and only then (`CounterWraps`).
- The files. `ReplayInv`, proved by `ReplayInductive`, says for each stage what
  has become of each file: those behind are complete (`DoneInv`), those ahead are
  in order and nothing of them is written (`QueueInv`); of the file that is being
  loaded the steps are its first lines (`LoadInv`); of the one being executed,
  what is written and what is left make up all its lines, none of them malformed,
  and its engine has run what is written and nothing else (`ExecuteInv`). That a
  fresh engine starts each file is what makes the last part inductive.

From the command line it only needs that no run has both a file and a directory
(`OneSource`). The assumption on the inputs is that a path is either the
directory or a file, and that paths differ in `Rank`.

Only model-checked are the liveness properties (`CommandsEnd`,
`FuturesBecomeReady`, `CallsReturn`, `ProcessingEnds`, `SimulatorEnds`,
`ReplayEnds`): fairness is out of the prover's reach. Every invariant and every
action property that a run checks is proved, as is the refinement.

## 5. Findings

Each is shown by a run that TLC reports as violated.

- `EngineTotals`: the total of a level wraps (`order_book.cpp:508`); book
  updates and snapshots then report the sum modulo 2^64. `LevelTotals` shows
  that nothing else goes wrong with it: the total is always right modulo 2^64.
- `RunnerRestart`: a start that races with a start and stop of another thread
  passes its check and makes the stopped runner accept again
  (`runner.cpp:51-56`). With one controlling thread this cannot happen.
- `ListenerShutdown`: a signal between the test of the flag and the system call
  goes unnoticed until the next datagram (`main.cpp:195-198`).
- `ProcessorThrow`: after a consumer has thrown, the buffer may hold a packet
  that is not ahead of the expected one and can block all later releases
  (`processor.hpp:46`, `sequenced_buffer.hpp:51, 78`). The listener's own
  consumer only prints.

Also seen, and left to the reader:

- A level whose total has wrapped to 0 (`EngineTotals`) makes the encoder throw
  before it takes a number (`feed_encoder.cpp:61`). The update and the rest of
  its batch are lost, but the numbers have no gap, so receivers go on with a
  wrong book. `ShownIsTruthful` excludes exactly this (`dropped`). A failed
  send, by contrast, does leave a gap.
- `--file ""` runs the demo instead of failing (`market_replay` `main.cpp:321`),
  and on platforms where a directory can be opened for reading, `--file` with a
  directory replays nothing and exits with status 0.
- When the constructor of `std::thread` throws, `accepting` stays true without
  a worker (`runner.cpp:60`).
- `README.md:282` describes the listener's measured interval as ending with the
  last datagram, the code ends it with the last delivery.

## 6. Not modelled

The option parsing of listener and simulator, printing (the two replay writers
included), pacing, timing, tracing, hashing, sockets, byte order, and splitting
text into tokens: formatting, I/O or library code. The runner between simulator
or replay and engine is left out of those two modules, because their one thread
waits for every future; `Runner` covers the runner with concurrent clients. The
transport of snapshots is not implemented in the repository.

## 7. Plan

Done, in this order: `OrderBook` and `Engine`; `PriceTimeMatching` and the
refinement; `Runner`; `Processor` and `Listener`; `Codec` and `Receiver`; the
theorems of section 4; `Publisher`, `TopOfBookView` and `MarketFeed`;
`Simulator` and `Multicast`; `Scenario` and `Replay`.

Then the proofs: the engine's index and priority, its sums and the view of its
readers; the runner; the listener; the feed from end to end; the multicast demo.

Last, the refinement and the snapshots, which use the engine's index, its totals
and its view; and the replay with its parser.
