----------------------------- MODULE MarketFeed -----------------------------
(***************************************************************************)
(* The market data feed from end to end: an exchange whose tops of book    *)
(* change, the Publisher, a network that loses, repeats and reorders       *)
(* datagrams, the Processor and, as its consumer, a TopOfBookView.         *)
(*                                                                         *)
(* The exchange is what EngineRefinement shows of the engine: a command on *)
(* one symbol reports every side whose top it changed, and nothing else    *)
(* changes.  The total of a level wraps at 2^64 (run EngineTotals), so a   *)
(* top may be reported with a price and size 0.                            *)
(*                                                                         *)
(* feed/README.md leaves the transport of snapshots and the coordinator    *)
(* that rebases on them to the application.  Here it establishes a book    *)
(* from any snapshot that leaves no gap to the updates that are still to   *)
(* be delivered, and it may invalidate the view at any time.               *)
(***************************************************************************)
EXTENDS Publisher, TopOfBookView, Processor

CONSTANTS
    Instruments,   \* symbols
    Tops,          \* Tops[i][d]: tops that side d of book i can have
    MaxCommands    \* bound: commands whose events are published together

Side == {"buy", "sell"}

ASSUME MarketAssumption ==
    /\ Instruments \subseteq Nat \ {0}
    /\ \A i \in Instruments, d \in Side :
          /\ NoLevel \in Tops[i][d]
          /\ Tops[i][d] \subseteq [price : Nat, size : Nat]
    /\ MaxCommands \in Nat
ASSUME OneWidthAssumption == LastNumber = LastSequence

VARIABLES
    market,    \* the exchange's top of each side of each book
    emitted,   \* events that are not published yet
    told,      \* the market as of the last update that was numbered
    image,     \* image[n]: told when number n was given out; image[0] before
    dropped    \* history: an update was dropped without using up a number

marketVars == <<market, emitted>>
historyVars == <<told, image, dropped>>
vars == <<publisherVars, viewVars, processorVars, marketVars, historyVars>>

EmptyMarket == [i \in Instruments |-> [d \in Side |-> NoLevel]]

Init ==
    /\ PublisherInit /\ ViewInit /\ ProcessorInit
    /\ market = EmptyMarket /\ emitted = <<>>
    /\ told = EmptyMarket /\ image = [n \in {0} |-> EmptyMarket]
    /\ dropped = FALSE

\* The number given out last, or 0.
Given == IF sequence_exhausted THEN LastNumber ELSE next_number - 1

-----------------------------------------------------------------------------
(* The exchange.                                                           *)

accepted == [type |-> "submit_accepted"]

book_updated(i, d, top) ==
    [type |-> "book_updated", instrument |-> i, direction |-> d,
     best_price |-> top.price, total_size |-> top.size]

\* The sides that a command can move, in the order in which it reports them.
Moves == {<<"buy">>, <<"sell">>, <<"buy", "sell">>, <<"sell", "buy">>}

\* A command that moves the tops of one book.  Bound: none after an update
\* that the encoder refused, since no property speaks of what follows.
Command(i, tops, moved) ==
    /\ publishing # "publishing" /\ ~ dropped
    /\ Len(SelectSeq(emitted, LAMBDA e : ~ IsUpdate(e))) < MaxCommands
    /\ Range(moved) = {d \in Side : tops[d] # market[i][d]}
    /\ market' = [market EXCEPT ![i] = tops]
    /\ emitted' = emitted \o <<accepted>>
                  \o [k \in DOMAIN moved |->
                         book_updated(i, moved[k], tops[moved[k]])]
    /\ UNCHANGED <<publisherVars, viewVars, processorVars, historyVars>>

-----------------------------------------------------------------------------
(* Publishing, with the history of what each number stands for.            *)

Publish ==
    /\ emitted # <<>>
    /\ publish(emitted)
    /\ emitted' = <<>>
    /\ UNCHANGED <<market, viewVars, processorVars, historyVars>>

PublishStep ==
    /\ SkipEvent \/ PublishReturns
    /\ UNCHANGED <<marketVars, viewVars, processorVars, historyVars>>

\* The history, with what the next number stands for.
Recorded(tops) ==
    [n \in DOMAIN image \cup {next_number} |->
        IF n = next_number THEN tops ELSE image[n]]

Send ==
    /\ SendUpdate
    /\ LET e == Head(batch)
       IN  told' = [told EXCEPT ![e.instrument][e.direction] =
                       [price |-> e.best_price, size |-> e.total_size]]
    /\ image' = Recorded(told')
    /\ UNCHANGED <<dropped, marketVars, viewVars, processorVars>>

\* The rest of the batch falls under the number that was not sent.
SendFailure ==
    /\ SendFails
    /\ told' = market
    /\ image' = Recorded(market)
    /\ UNCHANGED <<dropped, marketVars, viewVars, processorVars>>

EncodeFailure ==
    /\ EncodeFails
    /\ told' = market
    /\ dropped' = TRUE
    /\ UNCHANGED <<image, marketVars, viewVars, processorVars>>

-----------------------------------------------------------------------------
(* The network and the receiving side.                                     *)

\* A datagram is never used up: it may arrive again, late, or not at all.
Arrive(datagram) ==
    /\ Wire!decode_error(datagram) = Wire!Accepted
    /\ LET s == Wire!decode(datagram).sequence
       IN  PushHeld(s) \/ PushReady(s)
    /\ UNCHANGED <<publisherVars, viewVars, marketVars, historyVars>>

\* The packet with that sequence number (UniqueNumbers).
PacketOf(s) ==
    Wire!decode(CHOOSE datagram \in sent : datagram.sequence = s)

\* The view is the consumer.
Deliver ==
    /\ Consume
    /\ apply(value, PacketOf(value))
    /\ UNCHANGED <<publisherVars, marketVars, historyVars>>

Process ==
    /\ PopReady \/ ProcessReturns
    /\ UNCHANGED <<publisherVars, viewVars, marketVars, historyVars>>

\* All updates after number n are still to be delivered.
Rebased(n) ==
    IF exhausted THEN n = LastSequence
    ELSE next_sequence # NoSequence /\ n >= next_sequence - 1

Establish(i, n) ==
    /\ phase = "idle"
    /\ Rebased(n)
    /\ establish([instrument |-> i, reference_sequence |-> n,
                  best_bid |-> image[n][i]["buy"],
                  best_ask |-> image[n][i]["sell"]])
    /\ UNCHANGED <<publisherVars, processorVars, marketVars, historyVars>>

Invalidate ==
    /\ phase = "idle"
    /\ invalidate
    /\ UNCHANGED <<publisherVars, processorVars, marketVars, historyVars>>

-----------------------------------------------------------------------------
Next ==
    \/ \E i \in Instruments, moved \in Moves :
          \E bid \in Tops[i]["buy"], ask \in Tops[i]["sell"] :
             Command(i, [d \in Side |-> IF d = "buy" THEN bid ELSE ask], moved)
    \/ Publish \/ PublishStep \/ Send \/ SendFailure \/ EncodeFailure
    \/ \E datagram \in sent : Arrive(datagram)
    \/ Deliver \/ Process
    \/ \E i \in Instruments, n \in 0 .. Given : Establish(i, n)
    \/ Invalidate

Spec == Init /\ [][Next]_vars

-----------------------------------------------------------------------------
(* Properties.                                                             *)

\* docs/market-data-protocol.md: the feed sequence is a "Positive,
\* monotonically increasing publisher sequence".  No two datagrams carry the
\* same number, also at the end of the numbers and after a failed send; each
\* is positive, and a receiver accepts each.
UniqueNumbers ==
    /\ \A d, e \in sent : d.sequence = e.sequence => d = e
    /\ \A d \in sent : Wire!decode_error(d) = Wire!Accepted

\* A book that the view shows is the exchange's book at the number it names,
\* both sides of it: whatever the network does, wherever a send fails and
\* whenever snapshots arrive.  The one exception is an update that the encoder
\* refuses: it leaves no gap in the numbers that a receiver could notice.
ShownIsTruthful ==
    ~ dropped =>
        \A i \in Instruments :
            Shown(i) =>
                LET book == get(i)
                    truth == image[book.reference_sequence][i]
                IN  /\ book.best_bid = truth["buy"]
                    /\ book.best_ask = truth["sell"]

\* A view that has been delivered every number given out shows the market as
\* it is: no update was overlooked between a snapshot and the stream.
CaughtUpIsLive ==
    /\ ~ dropped
    /\ publishing # "publishing" /\ emitted = <<>>
    /\ phase = "idle" /\ Newest = Given
    => \A i \in Instruments :
          Shown(i) => /\ get(i).best_bid = market[i]["buy"]
                      /\ get(i).best_ask = market[i]["sell"]

=============================================================================
