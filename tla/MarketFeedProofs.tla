-------------------------- MODULE MarketFeedProofs --------------------------
(***************************************************************************)
(* Proofs about MarketFeed, for any books, any tops and numbers of any     *)
(* width: numbers are unique, a book that the view shows is the exchange's *)
(* book at the number it names, and a view that has caught up shows the    *)
(* market as it is.                                                        *)
(***************************************************************************)
EXTENDS MarketFeed, ProcessorProofs

-----------------------------------------------------------------------------
(* The inductive invariant.                                                *)

Levels == [price : Nat, size : Nat]
Markets == [Instruments -> [Side -> Levels]]

Updates == [type : {"book_updated"}, instrument : Instruments,
            direction : Side, best_price : Nat, total_size : Nat]
Events == [type : {"submit_accepted"}] \cup Updates

\* The level that an event of the engine reports, and the one in a packet.
Reported(e) == [price |-> e.best_price, size |-> e.total_size]
LevelIn(p) ==
    IF p.best_price = NoPrice THEN NoLevel
    ELSE [price |-> p.best_price, size |-> p.aggregate_size]

FeedTypeOK ==
    /\ next_number \in 1 .. LastNumber /\ sequence_exhausted \in BOOLEAN
    /\ sequence_exhausted => next_number = LastNumber
    /\ batch \in Seq(Events) /\ emitted \in Seq(Events)
    /\ market \in Markets /\ told \in Markets
    /\ image \in [0 .. Given -> Markets]
    /\ dropped \in BOOLEAN
    /\ IF publishing = "publishing" THEN emitted = <<>> ELSE batch = <<>>

\* What is on the wire: datagrams that a receiver accepts, one per number.
SentInv ==
    /\ \A g \in sent :
          /\ g.sequence \in 1 .. Given
          /\ Wire!decode_error(g) = Wire!Accepted
          /\ Wire!decode(g).sequence = g.sequence
          /\ Wire!decode(g).instrument \in Instruments
          /\ Wire!decode(g).direction \in Side
          /\ LevelIn(Wire!decode(g)) \in Levels
    /\ \A g, h \in sent : g.sequence = h.sequence => g = h

\* What the processor holds was on the wire.
FlowInv ==
    /\ \A s \in pending : \E g \in sent : g.sequence = s
    /\ value # NoSequence => \E g \in sent : g.sequence = value

\* What is shown was established, after the stream had begun, at a number
\* that had been given out.
BooksInv ==
    /\ DOMAIN books \subseteq Instruments
    /\ \A i \in DOMAIN books :
          /\ books[i] \in [state : {"current", "stale"}, last_sequence : Nat,
                           best_bid : Levels, best_ask : Levels]
          /\ books[i].last_sequence <= Given
    /\ next_sequence = NoSequence /\ ~ exhausted =>
          \A i \in DOMAIN books : books[i].state # "current"

\* The packet p changes the image of the market at number n as it says, and
\* nothing else.
Tells(p, n) ==
    \A i \in Instruments, d \in Side :
        image[n][i][d] = IF p.instrument = i /\ p.direction = d THEN LevelIn(p)
                         ELSE image[n - 1][i][d]

\* The events of a queue that report side d of book i; they lead from one
\* level to another if the last of them reports the other.
Reports(q, i, d) ==
    {k \in DOMAIN q : /\ IsUpdate(q[k])
                      /\ q[k].instrument = i /\ q[k].direction = d}
Leads(q, i, d, from, to) ==
    /\ Reports(q, i, d) = {} => from = to
    /\ \A k \in Reports(q, i, d) :
          (\A m \in Reports(q, i, d) : m <= k) => Reported(q[k]) = to

Queue == IF publishing = "publishing" THEN batch ELSE emitted

\* Every number on the wire changes the image of the market as its packet
\* says, and the events still to be published lead to the market as it is.
HistoryInv ==
    /\ told = image[Given]
    /\ \A g \in sent : Tells(Wire!decode(g), g.sequence)
    /\ \A i \in Instruments, d \in Side :
          Leads(Queue, i, d, told[i][d], market[i][d])

\* The last number whose packet the view has been given, or could not miss.
Seen == IF phase = "consume" THEN value - 1
        ELSE IF exhausted THEN LastSequence ELSE next_sequence - 1

\* A book that is shown is the image at its own number, and no number up to
\* the last one seen has changed it since.
ShownInv ==
    \A i \in DOMAIN books :
        books[i].state = "current" =>
            LET n == books[i].last_sequence
            IN  /\ books[i].best_bid = image[n][i]["buy"]
                /\ books[i].best_ask = image[n][i]["sell"]
                /\ Seen > n => Seen <= Given /\ image[Seen][i] = image[n][i]

FeedInv ==
    /\ Ordered /\ FeedTypeOK /\ SentInv /\ FlowInv /\ BooksInv
    /\ ~ dropped => HistoryInv /\ ShownInv

-----------------------------------------------------------------------------
(* The wire.                                                               *)

\* What feed_encoder and codec.cpp make of a report of the engine arrives as
\* that report: its side, its level, and a number that is the encoder's.
LEMMA RoundTrip ==
    ASSUME NEW n \in Nat, NEW e \in Updates, NEW g,
           Wire!encodable(to_packet(n, e)),
           g = Wire!encode(to_packet(n, e))
    PROVE  /\ g.sequence = n
           /\ Wire!decode_error(g) = Wire!Accepted
           /\ Wire!decode(g).sequence = n
           /\ Wire!decode(g).instrument = e.instrument
           /\ Wire!decode(g).direction = e.direction
           /\ LevelIn(Wire!decode(g)) = Reported(e)
<1> DEFINE p == to_packet(n, e)
<1>1. /\ e.best_price \in Nat /\ e.total_size \in Nat
      /\ e.direction \in {"buy", "sell"} /\ e.instrument \in Nat
  BY MarketAssumption DEF Updates, Side
<1>2. /\ p.sequence = n /\ p.instrument = e.instrument
      /\ p.direction = e.direction /\ p.aggregate_size = e.total_size
      /\ p.best_price = IF e.best_price = 0 THEN -1 ELSE e.best_price
  BY DEF to_packet, Wire!NoPrice
<1>3. /\ n # 0 /\ e.instrument # 0
      /\ e.best_price # 0 <=> e.total_size > 0
  BY <1>1, <1>2 DEF Wire!encodable, Wire!NoPrice
<1>4. /\ g.length = 38 /\ g.signature = Wire!signature
      /\ g.version = Wire!protocol_version /\ g.type = Wire!book_updated
      /\ g.sequence = n /\ g.symbol = e.instrument
      /\ g.side = (IF e.direction = "buy" THEN 0 ELSE 1)
      /\ g.flags = (IF e.best_price # 0 THEN 1 ELSE 0)
      /\ g.price = e.best_price /\ g.size = e.total_size
  <2> HIDE DEF p
  <2>1. g = Wire!encode(p)
    BY DEF p
  <2>2. p.best_price # -1 <=> e.best_price # 0
    BY <1>1, <1>2
  <2> QED BY <1>1, <1>2, <2>1, <2>2
          DEF Wire!encode, Wire!header_size, Wire!book_update_size,
              Wire!NoPrice, Wire!has_price_flag
<1>5. Wire!decode_error(g) = Wire!Accepted
  <2>1. Wire!header_error(g) = Wire!Accepted
    BY <1>3, <1>4 DEF Wire!header_error, Wire!header_size
  <2>2. Wire!body_error(g) = Wire!Accepted
    BY <1>1, <1>3, <1>4
       DEF Wire!body_error, Wire!header_size, Wire!book_update_size,
           Wire!has_price_flag
  <2> QED BY <1>4, <2>1, <2>2 DEF Wire!decode_error
<1>6. /\ Wire!decode(g).sequence = n
      /\ Wire!decode(g).instrument = e.instrument
      /\ Wire!decode(g).direction = e.direction
  BY <1>1, <1>4 DEF Wire!decode
<1>7. LevelIn(Wire!decode(g)) = Reported(e)
  <2>1. /\ Wire!decode(g).best_price =
              IF e.best_price # 0 THEN e.best_price ELSE -1
        /\ Wire!decode(g).aggregate_size = e.total_size
    BY <1>1, <1>4 DEF Wire!decode, Wire!has_price_flag, Wire!NoPrice
  <2>2. e.best_price = 0 => e.total_size = 0
    BY <1>1, <1>3
  <2> QED BY <1>1, <2>1, <2>2 DEF LevelIn, Reported, NoPrice, NoLevel
<1> QED BY <1>4, <1>5, <1>6, <1>7

\* The number of a packet is used up: it was one more than the last one.
LEMMA NumberUsed ==
    ASSUME FeedTypeOK, ~ sequence_exhausted, advance_number
    PROVE  /\ next_number \in 1 .. LastNumber
           /\ Given = next_number - 1 /\ Given' = next_number
           /\ Given \in Nat /\ next_number \in Nat
           /\ next_number' \in 1 .. LastNumber
           /\ sequence_exhausted' \in BOOLEAN
           /\ sequence_exhausted' => next_number' = LastNumber
<1>1. /\ next_number \in 1 .. LastNumber /\ LastNumber \in Nat
      /\ next_number \in Nat
  BY LastNumberAssumption DEF FeedTypeOK
<1>2. Given = next_number - 1 /\ Given \in Nat
  BY <1>1 DEF Given
<1>3. CASE next_number = LastNumber
  <2>1. sequence_exhausted' = TRUE /\ next_number' = next_number
    BY <1>3 DEF advance_number
  <2> QED BY <1>1, <1>2, <1>3, <2>1 DEF Given
<1>4. CASE next_number # LastNumber
  <2>1. sequence_exhausted' = FALSE /\ next_number' = next_number + 1
    BY <1>4 DEF advance_number
  <2>2. next_number + 1 \in 1 .. LastNumber /\ (next_number + 1) - 1 = next_number
    BY <1>1, <1>4
  <2>3. Given' = next_number
    BY <2>1, <2>2 DEF Given
  <2> QED BY <1>1, <1>2, <2>1, <2>2, <2>3
<1> QED BY <1>3, <1>4

\* The image of the market is extended by one number.
LEMMA ImageExtended ==
    ASSUME NEW n \in Nat, n # 0, n = next_number, NEW m \in Markets,
           image \in [0 .. n - 1 -> Markets]
    PROVE  /\ Recorded(m) \in [0 .. n -> Markets] /\ Recorded(m)[n] = m
           /\ \A k \in 0 .. n - 1 : Recorded(m)[k] = image[k]
<1>1. DOMAIN image \cup {next_number} = 0 .. n
  OBVIOUS
<1>2. \A x \in 0 .. n : x # n => x \in 0 .. n - 1
  OBVIOUS
<1> QED BY <1>1, <1>2 DEF Recorded

-----------------------------------------------------------------------------
(* The queue of events.                                                    *)

\* The first event is told, or is not a report.
LEMMA LeadsTail ==
    ASSUME NEW q \in Seq(Events), q # <<>>, NEW i, NEW d, NEW from, NEW to,
           Leads(q, i, d, from, to), NEW told_,
           told_ = IF /\ IsUpdate(Head(q)) /\ Head(q).instrument = i
                      /\ Head(q).direction = d
                   THEN Reported(Head(q)) ELSE from
    PROVE  Leads(Tail(q), i, d, told_, to)
<1> DEFINE R == Reports(q, i, d)
           T == Reports(Tail(q), i, d)
<1>1. /\ Len(q) \in Nat /\ Len(q) # 0 /\ Len(Tail(q)) = Len(q) - 1
      /\ DOMAIN q = 1 .. Len(q) /\ DOMAIN Tail(q) = 1 .. Len(q) - 1
      /\ \A k \in 1 .. Len(q) - 1 : Tail(q)[k] = q[k + 1]
      /\ Head(q) = q[1]
  OBVIOUS
<1>2. \A k \in 1 .. Len(q) - 1 : k \in T <=> k + 1 \in R
  BY <1>1 DEF Reports
<1>3. T \subseteq 1 .. Len(q) - 1 /\ R \subseteq 1 .. Len(q)
  BY <1>1 DEF Reports
<1>4. 1 \in R <=> /\ IsUpdate(Head(q)) /\ Head(q).instrument = i
                  /\ Head(q).direction = d
  BY <1>1 DEF Reports
<1>5. /\ R = {} => from = to
      /\ \A k \in R : (\A m \in R : m <= k) => Reported(q[k]) = to
  BY DEF Leads
<1> HIDE DEF R, T
<1>6. ASSUME T = {} PROVE told_ = to
  <2>1. \A k \in R : k = 1
    <3> SUFFICES ASSUME NEW k \in R, k # 1 PROVE FALSE
      OBVIOUS
    <3>1. k - 1 \in 1 .. Len(q) - 1 /\ (k - 1) + 1 = k
      BY <1>1, <1>3
    <3>2. k - 1 \in T
      BY <1>2, <3>1
    <3> QED BY <1>6, <3>2
  <2>2. CASE 1 \in R
    <3>1. Reported(q[1]) = to
      BY <1>5, <2>1, <2>2
    <3> QED BY <1>1, <1>4, <2>2, <3>1
  <2>3. CASE 1 \notin R
    BY <1>4, <1>5, <2>1, <2>3
  <2> QED BY <2>2, <2>3
<1>7. ASSUME NEW k \in T, \A m \in T : m <= k
      PROVE  Reported(Tail(q)[k]) = to
  <2>1. k \in 1 .. Len(q) - 1 /\ k + 1 \in R
    BY <1>2, <1>3
  <2>2. ASSUME NEW m \in R PROVE m <= k + 1
    <3>1. m \in 1 .. Len(q)
      BY <1>3
    <3>2. CASE m = 1
      BY <2>1, <3>2
    <3>3. CASE m # 1
      <4>1. m - 1 \in 1 .. Len(q) - 1 /\ (m - 1) + 1 = m
        BY <1>1, <3>1, <3>3
      <4>2. m - 1 \in T
        BY <1>2, <4>1
      <4>3. m - 1 <= k
        BY <1>7, <4>2
      <4> QED BY <2>1, <3>1, <4>3
    <3> QED BY <3>2, <3>3
  <2>3. Reported(q[k + 1]) = to
    BY <1>5, <2>1, <2>2
  <2> QED BY <1>1, <2>1, <2>3
<1> QED BY <1>6, <1>7 DEF Leads, T

\* More events: none of them is a report, or there is one.
LEMMA LeadsMore ==
    ASSUME NEW q \in Seq(Events), NEW r \in Seq(Events), NEW i, NEW d,
           NEW from, NEW to, NEW to2, Leads(q, i, d, from, to),
           \/ Reports(r, i, d) = {} /\ to2 = to
           \/ \E k \in DOMAIN r :
                 Reports(r, i, d) = {k} /\ Reported(r[k]) = to2
    PROVE  Leads(q \o r, i, d, from, to2)
<1> DEFINE n == Len(q)
           R == Reports(q, i, d)
           S == Reports(r, i, d)
           T == Reports(q \o r, i, d)
<1>1. /\ n \in Nat /\ Len(r) \in Nat
      /\ DOMAIN q = 1 .. n /\ DOMAIN r = 1 .. Len(r)
      /\ DOMAIN (q \o r) = 1 .. n + Len(r)
      /\ \A k \in 1 .. n : (q \o r)[k] = q[k]
      /\ \A k \in 1 .. Len(r) : (q \o r)[k + n] = r[k]
  OBVIOUS
<1>2. /\ R \subseteq 1 .. n /\ S \subseteq 1 .. Len(r)
      /\ T \subseteq 1 .. n + Len(r)
  BY <1>1 DEF Reports
<1>3. \A k \in 1 .. n : k \in T <=> k \in R
  BY <1>1 DEF Reports
<1>4. \A k \in 1 .. Len(r) : k + n \in T <=> k \in S
  BY <1>1 DEF Reports
<1>5. /\ R = {} => from = to
      /\ \A k \in R : (\A m \in R : m <= k) => Reported(q[k]) = to
  BY DEF Leads
<1>6. \/ S = {} /\ to2 = to
      \/ \E k \in DOMAIN r : S = {k} /\ Reported(r[k]) = to2
  OBVIOUS
<1> HIDE DEF n, R, S, T
<1>7. \A k \in 1 .. n + Len(r) : k > n => k - n \in 1 .. Len(r)
                                          /\ (k - n) + n = k
  BY <1>1
<1>8. CASE S = {} /\ to2 = to
  <2>1. T = R
    <3>1. ASSUME NEW k \in T PROVE k \in 1 .. n
      <4>1. k \in 1 .. n + Len(r)
        BY <1>2
      <4>2. CASE k > n
        <5>1. k - n \in 1 .. Len(r) /\ (k - n) + n = k
          BY <1>7, <4>1, <4>2
        <5>2. k - n \in S
          BY <1>4, <5>1
        <5> QED BY <1>8, <5>2
      <4> QED BY <1>1, <4>1, <4>2
    <3>2. \A k \in R : k \in 1 .. n + Len(r)
      BY <1>1, <1>2
    <3> QED BY <1>2, <1>3, <3>1, <3>2
  <2>2. \A k \in T : (q \o r)[k] = q[k]
    BY <1>1, <1>2, <2>1
  <2> QED BY <1>5, <1>8, <2>1, <2>2 DEF Leads, T
<1>9. ASSUME NEW j \in DOMAIN r, S = {j}, Reported(r[j]) = to2
      PROVE  Leads(q \o r, i, d, from, to2)
  <2>1. j + n \in T /\ j \in 1 .. Len(r)
    BY <1>1, <1>4, <1>9
  <2>2. ASSUME NEW k \in T, \A m \in T : m <= k
        PROVE  Reported((q \o r)[k]) = to2
    <3>1. k \in 1 .. n + Len(r) /\ j + n <= k
      BY <1>2, <2>1, <2>2
    <3>2. k > n
      BY <1>1, <2>1, <3>1
    <3>3. k - n \in S
      BY <1>4, <1>7, <3>1, <3>2
    <3>4. k = j + n
      BY <1>1, <1>9, <2>1, <3>1, <3>3
    <3> QED BY <1>1, <1>9, <2>1, <3>4
  <2> QED BY <2>1, <2>2 DEF Leads, T
<1> QED BY <1>6, <1>8, <1>9

-----------------------------------------------------------------------------
(* The publishing side: the view and the processor do not move.            *)

\* What is received stays as true as it was when numbers are added.
LEMMA ReceiverKept ==
    ASSUME FeedInv, UNCHANGED <<viewVars, processorVars>>,
           sent \subseteq sent', Given' \in Nat, Given <= Given',
           \A k \in 0 .. Given : image'[k] = image[k]
    PROVE  Ordered' /\ FlowInv' /\ BooksInv' /\ (~ dropped => ShownInv')
<1>0. books' = books
  BY DEF viewVars
<1>1. Ordered'
  BY NextOrdered DEF FeedInv
<1>2. /\ next_sequence' = next_sequence /\ pending' = pending
      /\ exhausted' = exhausted /\ phase' = phase /\ value' = value
  BY DEF processorVars, bufferVars
<1>3. FlowInv'
  BY <1>2 DEF FeedInv, FlowInv
<1>4. Given \in Nat
  BY LastNumberAssumption DEF FeedInv, FeedTypeOK, Given
<1>5. BooksInv'
  <2>1. ASSUME NEW i \in DOMAIN books PROVE books[i].last_sequence <= Given'
    <3>1. books[i].last_sequence \in Nat /\ books[i].last_sequence <= Given
      BY DEF FeedInv, BooksInv
    <3> QED BY <1>4, <3>1
  <2> QED BY <1>0, <1>2, <2>1 DEF FeedInv, BooksInv
<1>6. Seen' = Seen
  BY <1>2 DEF Seen
<1>7. ASSUME ~ dropped, NEW i \in DOMAIN books, books[i].state = "current"
      PROVE  LET n == books[i].last_sequence
             IN  /\ books[i].best_bid = image'[n][i]["buy"]
                 /\ books[i].best_ask = image'[n][i]["sell"]
                 /\ Seen > n => Seen <= Given' /\ image'[Seen][i] = image'[n][i]
  <2> DEFINE n == books[i].last_sequence
  <2>1. n \in Nat /\ n <= Given /\ n \in 0 .. Given
    BY <1>4 DEF FeedInv, BooksInv
  <2>2. /\ books[i].best_bid = image[n][i]["buy"]
        /\ books[i].best_ask = image[n][i]["sell"]
        /\ Seen > n => Seen <= Given /\ image[Seen][i] = image[n][i]
    BY <1>7 DEF FeedInv, ShownInv
  <2>3. Seen \in Int
    BY SequencesAssumption DEF FeedInv, Ordered, ProcessorTypeOK, Seen
  <2> HIDE DEF n
  <2>4. Seen > n => Seen \in 0 .. Given /\ Seen <= Given'
    BY <1>4, <2>1, <2>2, <2>3
  <2>5. image'[n] = image[n]
    BY <2>1
  <2>6. Seen > n => image'[Seen] = image[Seen]
    BY <2>4
  <2>7. /\ books[i].best_bid = image'[n][i]["buy"]
        /\ books[i].best_ask = image'[n][i]["sell"]
        /\ Seen > n => Seen <= Given' /\ image'[Seen][i] = image'[n][i]
    BY <2>2, <2>4, <2>5, <2>6
  <2> QED BY <2>7 DEF n
<1>8. ~ dropped => ShownInv'
  BY <1>0, <1>6, <1>7 DEF ShownInv
<1> QED BY <1>1, <1>3, <1>5, <1>8

\* What is on the wire and what numbers stand for, when neither changes.
LEMMA WireKept ==
    ASSUME FeedInv,
           UNCHANGED <<next_number, sequence_exhausted, sent, told, image>>
    PROVE  /\ Given' = Given /\ Given \in Nat /\ SentInv'
           /\ ~ dropped => /\ (told = image[Given])'
                           /\ \A g \in sent : Tells(Wire!decode(g), g.sequence)'
<1>1. Given' = Given /\ Given \in Nat
  BY LastNumberAssumption DEF FeedInv, FeedTypeOK, Given
<1>2. SentInv'
  BY <1>1 DEF FeedInv, SentInv
<1>3. ~ dropped => HistoryInv
  BY DEF FeedInv
<1> QED BY <1>1, <1>2, <1>3 DEF HistoryInv, Tells

\* Publish, SkipEvent and PublishReturns keep the invariant.
LEMMA PublishInv ==
    ASSUME FeedInv, Publish \/ PublishStep
    PROVE  FeedInv'
<1>1. /\ UNCHANGED <<next_number, sequence_exhausted, sent, told, image>>
      /\ market' = market /\ dropped' = dropped
      /\ UNCHANGED <<viewVars, processorVars>>
  BY DEF Publish, PublishStep, publish, SkipEvent, PublishReturns, encoderVars,
         marketVars, historyVars
<1>2. /\ Given' = Given /\ Given \in Nat /\ SentInv'
      /\ ~ dropped => /\ (told = image[Given])'
                      /\ \A g \in sent : Tells(Wire!decode(g), g.sequence)'
  BY <1>1, WireKept
<1>3. Ordered' /\ FlowInv' /\ BooksInv' /\ (~ dropped => ShownInv')
  <2>1. /\ sent \subseteq sent' /\ Given' \in Nat /\ Given <= Given'
        /\ \A k \in 0 .. Given : image'[k] = image[k]
    BY <1>1, <1>2
  <2> QED BY <1>1, <2>1, ReceiverKept
<1>4. /\ batch' \in Seq(Events) /\ emitted' \in Seq(Events)
      /\ IF publishing' = "publishing" THEN emitted' = <<>> ELSE batch' = <<>>
      /\ \/ Queue' = Queue
         \/ /\ Queue # <<>> /\ Queue \in Seq(Events)
            /\ Queue' = Tail(Queue) /\ ~ IsUpdate(Head(Queue))
  <2>0. /\ batch \in Seq(Events) /\ emitted \in Seq(Events)
        /\ IF publishing = "publishing" THEN emitted = <<>> ELSE batch = <<>>
    BY DEF FeedInv, FeedTypeOK
  <2>1. CASE Publish
    BY <2>0, <2>1 DEF Publish, publish, Queue
  <2>2. CASE SkipEvent /\ UNCHANGED emitted
    BY <2>0, <2>2 DEF SkipEvent, Queue
  <2>3. CASE PublishReturns /\ UNCHANGED emitted
    BY <2>0, <2>3 DEF PublishReturns, Queue
  <2> QED BY <2>1, <2>2, <2>3 DEF PublishStep, marketVars
<1>5. FeedTypeOK'
  BY <1>1, <1>2, <1>4 DEF FeedInv, FeedTypeOK
<1>6. ASSUME ~ dropped, NEW i \in Instruments, NEW d \in Side
      PROVE  Leads(Queue', i, d, told[i][d], market[i][d])
  <2>1. Leads(Queue, i, d, told[i][d], market[i][d])
    BY <1>6 DEF FeedInv, HistoryInv
  <2>2. CASE Queue' = Queue
    BY <2>1, <2>2
  <2>3. CASE /\ Queue # <<>> /\ Queue \in Seq(Events)
             /\ Queue' = Tail(Queue) /\ ~ IsUpdate(Head(Queue))
    <3>1. Leads(Tail(Queue), i, d, told[i][d], market[i][d])
      BY <2>1, <2>3, LeadsTail
    <3> QED BY <2>3, <3>1
  <2> QED BY <1>4, <2>2, <2>3
<1>7. ~ dropped => HistoryInv'
  <2>1. \A i \in Instruments, d \in Side :
           ~ dropped => Leads(Queue, i, d, told[i][d], market[i][d])'
    BY <1>1, <1>6 DEF Leads, Reports
  <2> QED BY <1>1, <1>2, <2>1 DEF HistoryInv
<1> QED BY <1>1, <1>2, <1>3, <1>5, <1>7 DEF FeedInv

\* What a command reports, after what was reported before.
LEMMA CommandReports ==
    ASSUME NEW i \in Instruments, NEW tops \in [Side -> Levels],
           NEW moved \in Moves, NEW j \in Instruments, NEW d \in Side, NEW r,
           r = [k \in DOMAIN moved |->
                   book_updated(i, moved[k], tops[moved[k]])]
    PROVE  /\ r \in Seq(Events)
           /\ j # i \/ d \notin Range(moved) => Reports(r, j, d) = {}
           /\ j = i /\ d \in Range(moved) =>
                 \E k \in DOMAIN r :
                    Reports(r, j, d) = {k} /\ Reported(r[k]) = tops[d]
<1>1. /\ DOMAIN moved = 1 .. Len(moved) /\ Len(moved) \in {1, 2}
      /\ \A k \in DOMAIN moved : moved[k] \in Side
      /\ \A k, m \in DOMAIN moved : moved[k] = moved[m] => k = m
  BY DEF Moves, Side
<1>2. DOMAIN r = DOMAIN moved
  OBVIOUS
<1>3. ASSUME NEW k \in DOMAIN moved
      PROVE  /\ r[k] \in Updates /\ IsUpdate(r[k])
             /\ r[k].instrument = i /\ r[k].direction = moved[k]
             /\ Reported(r[k]) = tops[moved[k]]
  <2>1. moved[k] \in Side /\ tops[moved[k]] \in Levels
    BY <1>1
  <2>2. r[k] = [type |-> "book_updated", instrument |-> i,
                direction |-> moved[k],
                best_price |-> tops[moved[k]].price,
                total_size |-> tops[moved[k]].size]
    BY DEF book_updated
  <2> DEFINE top == tops[moved[k]]
  <2>3. /\ top.price \in Nat /\ top.size \in Nat
        /\ top = [price |-> top.price, size |-> top.size]
    BY <2>1 DEF Levels
  <2> HIDE DEF top
  <2>4. r[k] \in Updates
    BY <2>1, <2>2, <2>3 DEF Updates, top
  <2>5. Reported(r[k]) = [price |-> top.price, size |-> top.size]
    BY <2>2 DEF Reported, top
  <2> QED BY <2>2, <2>3, <2>4, <2>5 DEF IsUpdate, top
<1>4. r \in Seq(Events)
  <2>1. \A k \in 1 .. Len(moved) : r[k] \in Events
    BY <1>1, <1>3 DEF Events
  <2>2. r = [k \in 1 .. Len(moved) |-> r[k]] /\ Len(moved) \in Nat
    BY <1>1
  <2> QED BY <2>1, <2>2, SeqDef
<1>5. Reports(r, j, d) = {k \in DOMAIN moved : i = j /\ moved[k] = d}
  BY <1>2, <1>3 DEF Reports
<1>6. j # i \/ d \notin Range(moved) => Reports(r, j, d) = {}
  BY <1>5 DEF Range
<1>7. ASSUME j = i, d \in Range(moved)
      PROVE  \E k \in DOMAIN r :
                Reports(r, j, d) = {k} /\ Reported(r[k]) = tops[d]
  <2>1. PICK k \in DOMAIN moved : moved[k] = d
    BY <1>7 DEF Range
  <2>2. Reports(r, j, d) = {k}
    BY <1>1, <1>5, <1>7, <2>1
  <2>3. Reported(r[k]) = tops[d]
    BY <1>3, <2>1
  <2> QED BY <1>2, <2>2, <2>3
<1> QED BY <1>4, <1>6, <1>7

\* A command keeps the invariant: the queue leads to the new market.
LEMMA CommandInv ==
    ASSUME FeedInv, NEW i \in Instruments, NEW tops \in [Side -> Levels],
           NEW moved \in Moves, Command(i, tops, moved)
    PROVE  FeedInv'
<1> DEFINE r == [k \in DOMAIN moved |->
                    book_updated(i, moved[k], tops[moved[k]])]
<1>1. /\ UNCHANGED <<next_number, sequence_exhausted, sent, told, image>>
      /\ UNCHANGED <<viewVars, processorVars>>
      /\ dropped' = dropped /\ ~ dropped
      /\ publishing # "publishing" /\ publishing' = publishing
      /\ batch' = batch
      /\ market' = [market EXCEPT ![i] = tops]
      /\ emitted' = (emitted \o <<accepted>>) \o r
      /\ Range(moved) = {d \in Side : tops[d] # market[i][d]}
  BY DEF Command, publisherVars, encoderVars, historyVars
<1>2. r \in Seq(Events)
      /\ \A j \in Instruments, d \in Side :
           /\ j # i \/ d \notin Range(moved) => Reports(r, j, d) = {}
           /\ j = i /\ d \in Range(moved) =>
                 \E k \in DOMAIN r :
                    Reports(r, j, d) = {k} /\ Reported(r[k]) = tops[d]
  <2>1. ASSUME NEW j \in Instruments, NEW d \in Side
        PROVE  /\ r \in Seq(Events)
               /\ j # i \/ d \notin Range(moved) => Reports(r, j, d) = {}
               /\ j = i /\ d \in Range(moved) =>
                     \E k \in DOMAIN r :
                        Reports(r, j, d) = {k} /\ Reported(r[k]) = tops[d]
    BY CommandReports
  <2>2. "buy" \in Side
    BY DEF Side
  <2> QED BY <2>1, <2>2
<1> HIDE DEF r
<1>3. /\ Given' = Given /\ Given \in Nat /\ SentInv'
      /\ ~ dropped => /\ (told = image[Given])'
                      /\ \A g \in sent : Tells(Wire!decode(g), g.sequence)'
  BY <1>1, WireKept
<1>4. Ordered' /\ FlowInv' /\ BooksInv' /\ (~ dropped => ShownInv')
  <2>1. /\ sent \subseteq sent' /\ Given' \in Nat /\ Given <= Given'
        /\ \A k \in 0 .. Given : image'[k] = image[k]
    BY <1>1, <1>3
  <2> QED BY <1>1, <2>1, ReceiverKept
<1>5. emitted \in Seq(Events) /\ batch = <<>> /\ market \in Markets
  BY <1>1 DEF FeedInv, FeedTypeOK
<1>6. <<accepted>> \in Seq(Events) /\ emitted \o <<accepted>> \in Seq(Events)
  <2>1. accepted \in Events
    BY DEF accepted, Events
  <2> QED BY <1>5, <2>1
<1>7. emitted' \in Seq(Events)
  BY <1>1, <1>2, <1>6
<1>8. market' \in Markets
  BY <1>1, <1>5 DEF Markets
<1>9. FeedTypeOK'
  BY <1>1, <1>3, <1>5, <1>7, <1>8 DEF FeedInv, FeedTypeOK
<1>10. ASSUME NEW j \in Instruments, NEW d \in Side
       PROVE  Leads(emitted', j, d, told[j][d], market'[j][d])
  <2>1. Leads(emitted, j, d, told[j][d], market[j][d])
    BY <1>1 DEF FeedInv, HistoryInv, Queue
  <2>2. Leads(emitted \o <<accepted>>, j, d, told[j][d], market[j][d])
    <3>1. Reports(<<accepted>>, j, d) = {}
      BY DEF Reports, IsUpdate, accepted
    <3> QED BY <1>5, <1>6, <2>1, <3>1, LeadsMore
  <2>3. CASE j # i \/ d \notin Range(moved)
    <3>1. market'[j][d] = market[j][d]
      BY <1>1, <1>5, <2>3 DEF Markets
    <3>2. Reports(r, j, d) = {}
      BY <1>2, <2>3
    <3>3. Leads((emitted \o <<accepted>>) \o r, j, d, told[j][d], market[j][d])
      BY <1>2, <1>6, <2>2, <3>2, LeadsMore
    <3> QED BY <1>1, <3>1, <3>3
  <2>4. CASE j = i /\ d \in Range(moved)
    <3>1. market'[j][d] = tops[d]
      BY <1>1, <1>5, <2>4 DEF Markets
    <3>2. \E k \in DOMAIN r :
             Reports(r, j, d) = {k} /\ Reported(r[k]) = tops[d]
      BY <1>2, <2>4
    <3>3. Leads((emitted \o <<accepted>>) \o r, j, d, told[j][d], tops[d])
      BY <1>2, <1>6, <2>2, <3>2, LeadsMore
    <3> QED BY <1>1, <3>1, <3>3
  <2> QED BY <2>3, <2>4
<1>11. HistoryInv'
  <2>0. Queue' = emitted' /\ told' = told
    BY <1>1 DEF Queue
  <2>1. ASSUME NEW j \in Instruments, NEW d \in Side
        PROVE  Leads(Queue, j, d, told[j][d], market[j][d])'
    <3>1. Leads(emitted', j, d, told[j][d], market'[j][d])
      BY <1>10
    <3> QED BY <2>0, <3>1 DEF Leads, Reports
  <2> QED BY <1>1, <1>3, <2>1 DEF HistoryInv
<1> QED BY <1>1, <1>3, <1>4, <1>9, <1>11 DEF FeedInv

\* A number is given out: what all numbers before it stand for is kept.
LEMMA NumberInv ==
    ASSUME FeedInv, ~ sequence_exhausted, advance_number,
           UNCHANGED <<viewVars, processorVars>>, sent \subseteq sent',
           NEW m \in Markets, image' = Recorded(m)
    PROVE  /\ Ordered' /\ FlowInv' /\ BooksInv' /\ (~ dropped => ShownInv')
           /\ image' \in [0 .. Given' -> Markets] /\ image'[Given'] = m
           /\ \A k \in 0 .. Given : image'[k] = image[k]
           /\ Given \in Nat /\ Given' = Given + 1 /\ Given' = next_number
           /\ next_number' \in 1 .. LastNumber
           /\ sequence_exhausted' \in BOOLEAN
           /\ sequence_exhausted' => next_number' = LastNumber
           /\ next_number \in Nat
<1>1. /\ next_number \in 1 .. LastNumber
      /\ Given = next_number - 1 /\ Given' = next_number
      /\ Given \in Nat /\ next_number \in Nat
      /\ next_number' \in 1 .. LastNumber
      /\ sequence_exhausted' \in BOOLEAN
      /\ sequence_exhausted' => next_number' = LastNumber
  BY NumberUsed DEF FeedInv
<1>2. next_number # 0 /\ image \in [0 .. next_number - 1 -> Markets]
  BY <1>1 DEF FeedInv, FeedTypeOK
<1>3. /\ Recorded(m) \in [0 .. next_number -> Markets]
      /\ Recorded(m)[next_number] = m
      /\ \A k \in 0 .. next_number - 1 : Recorded(m)[k] = image[k]
  BY <1>1, <1>2, ImageExtended
<1>4. \A k \in 0 .. Given : image'[k] = image[k]
  BY <1>1, <1>3
<1>5. Ordered' /\ FlowInv' /\ BooksInv' /\ (~ dropped => ShownInv')
  <2>1. Given' \in Nat /\ Given <= Given'
    BY <1>1
  <2> QED BY <1>4, <2>1, ReceiverKept
<1>6. Given' = Given + 1
  BY <1>1
<1> QED BY <1>1, <1>3, <1>4, <1>5, <1>6

\* The packets that were sent before say what they said.
LEMMA OldPackets ==
    ASSUME FeedInv, ~ dropped, Given \in Nat,
           \A k \in 0 .. Given : image'[k] = image[k]
    PROVE  \A g \in sent : Tells(Wire!decode(g), g.sequence)'
<1> SUFFICES ASSUME NEW g \in sent, NEW i \in Instruments, NEW d \in Side
             PROVE  image'[g.sequence][i][d] =
                       IF /\ Wire!decode(g).instrument = i
                          /\ Wire!decode(g).direction = d
                       THEN LevelIn(Wire!decode(g))
                       ELSE image'[g.sequence - 1][i][d]
  BY DEF Tells
<1>1. g.sequence \in 1 .. Given
  BY DEF FeedInv, SentInv
<1>2. g.sequence \in 0 .. Given /\ g.sequence - 1 \in 0 .. Given
  BY <1>1
<1>3. /\ image'[g.sequence] = image[g.sequence]
      /\ image'[g.sequence - 1] = image[g.sequence - 1]
  BY <1>2
<1>4. Tells(Wire!decode(g), g.sequence)
  BY DEF FeedInv, HistoryInv
<1> QED BY <1>3, <1>4 DEF Tells

\* Send keeps the invariant: one report becomes a number.
LEMMA SendInv ==
    ASSUME FeedInv, Send
    PROVE  FeedInv'
<1> DEFINE e == Head(batch)
           p == to_packet(next_number, e)
           new == Wire!encode(p)
<1>1. /\ publishing = "publishing" /\ publishing' = publishing
      /\ batch # <<>> /\ IsUpdate(e) /\ ~ EncodeThrows(e)
      /\ sent' = sent \cup {new} /\ advance_number /\ batch' = Tail(batch)
      /\ told' = [told EXCEPT ![e.instrument][e.direction] = Reported(e)]
      /\ image' = Recorded(told') /\ dropped' = dropped
      /\ market' = market /\ emitted' = emitted
      /\ UNCHANGED <<viewVars, processorVars>>
  BY DEF Send, SendUpdate, Reported, marketVars
<1>2. ~ sequence_exhausted /\ Wire!encodable(p)
  BY <1>1 DEF EncodeThrows
<1>3. batch \in Seq(Events) /\ emitted = <<>> /\ told \in Markets
  BY <1>1 DEF FeedInv, FeedTypeOK
<1>4. e \in Updates
  <2>1. e \in Events
    BY <1>1, <1>3
  <2>2. e \in [type : {"submit_accepted"}] => e.type = "submit_accepted"
    OBVIOUS
  <2> QED BY <1>1, <2>1, <2>2 DEF Events, IsUpdate
<1>5. /\ e.instrument \in Instruments /\ e.direction \in Side
      /\ Reported(e) \in Levels
  BY <1>4 DEF Updates, Reported, Levels
<1> HIDE DEF e
<1>6. told' \in Markets
  BY <1>1, <1>3, <1>5 DEF Markets
<1>7. /\ Ordered' /\ FlowInv' /\ BooksInv' /\ (~ dropped => ShownInv')
      /\ image' \in [0 .. Given' -> Markets] /\ image'[Given'] = told'
      /\ \A k \in 0 .. Given : image'[k] = image[k]
      /\ Given \in Nat /\ Given' = Given + 1 /\ Given' = next_number
      /\ next_number' \in 1 .. LastNumber
      /\ sequence_exhausted' \in BOOLEAN
      /\ sequence_exhausted' => next_number' = LastNumber
      /\ next_number \in Nat
  <2>1. sent \subseteq sent'
    BY <1>1
  <2> QED BY <1>1, <1>2, <1>6, <2>1, NumberInv
<1>8. FeedTypeOK'
  <2>1. batch' \in Seq(Events)
    BY <1>1, <1>3
  <2> QED BY <1>1, <1>3, <1>6, <1>7, <2>1 DEF FeedInv, FeedTypeOK
<1>9. /\ new.sequence = next_number
      /\ Wire!decode_error(new) = Wire!Accepted
      /\ Wire!decode(new).sequence = next_number
      /\ Wire!decode(new).instrument = e.instrument
      /\ Wire!decode(new).direction = e.direction
      /\ LevelIn(Wire!decode(new)) = Reported(e)
  BY <1>2, <1>4, <1>7, RoundTrip
<1> HIDE DEF p, new
<1>10. SentInv'
  <2>1. ASSUME NEW g \in sent'
        PROVE  /\ g.sequence \in 1 .. Given'
               /\ Wire!decode_error(g) = Wire!Accepted
               /\ Wire!decode(g).sequence = g.sequence
               /\ Wire!decode(g).instrument \in Instruments
               /\ Wire!decode(g).direction \in Side
               /\ LevelIn(Wire!decode(g)) \in Levels
    <3>1. CASE g \in sent
      <4>1. /\ g.sequence \in 1 .. Given
            /\ Wire!decode_error(g) = Wire!Accepted
            /\ Wire!decode(g).sequence = g.sequence
            /\ Wire!decode(g).instrument \in Instruments
            /\ Wire!decode(g).direction \in Side
            /\ LevelIn(Wire!decode(g)) \in Levels
        BY <3>1 DEF FeedInv, SentInv
      <4>2. g.sequence \in 1 .. Given'
        BY <1>7, <4>1
      <4> QED BY <4>1, <4>2
    <3>2. CASE g = new
      <4>1. next_number \in 1 .. Given'
        BY <1>7
      <4> QED BY <1>5, <1>9, <3>2, <4>1
    <3> QED BY <1>1, <3>1, <3>2
  <2>2. ASSUME NEW g \in sent', NEW h \in sent', g.sequence = h.sequence
        PROVE  g = h
    <3>1. \A k \in sent : k.sequence \in 1 .. Given
      BY DEF FeedInv, SentInv
    <3>2. \A k \in sent : k.sequence # new.sequence
      BY <1>7, <1>9, <3>1
    <3>3. \A k, m \in sent : k.sequence = m.sequence => k = m
      BY DEF FeedInv, SentInv
    <3> QED BY <1>1, <2>2, <3>2, <3>3
  <2> QED BY <2>1, <2>2 DEF SentInv
<1>11. ASSUME ~ dropped PROVE HistoryInv'
  <2>1. /\ told = image[Given]
        /\ \A i \in Instruments, d \in Side :
              Leads(batch, i, d, told[i][d], market[i][d])
    BY <1>1, <1>11 DEF FeedInv, HistoryInv, Queue
  <2>2. ASSUME NEW i \in Instruments, NEW d \in Side
        PROVE  told'[i][d] = IF e.instrument = i /\ e.direction = d
                             THEN Reported(e) ELSE told[i][d]
    BY <1>1, <1>3, <1>5 DEF Markets
  <2>3. ASSUME NEW g, g = new PROVE Tells(Wire!decode(g), g.sequence)'
    <3>1. image'[g.sequence] = told' /\ image'[g.sequence - 1] = told
      <4>1. Given \in 0 .. Given /\ next_number - 1 = Given
        BY <1>7
      <4> QED BY <1>7, <1>9, <2>1, <2>3, <4>1
    <3>2. /\ Wire!decode(g).instrument = e.instrument
          /\ Wire!decode(g).direction = e.direction
          /\ LevelIn(Wire!decode(g)) = Reported(e)
      BY <1>9, <2>3
    <3> QED BY <2>2, <3>1, <3>2 DEF Tells
  <2>4. \A g \in sent : Tells(Wire!decode(g), g.sequence)'
    BY <1>7, <1>11, OldPackets
  <2>5. \A g \in sent' : Tells(Wire!decode(g), g.sequence)'
    BY <1>1, <2>3, <2>4
  <2>6. ASSUME NEW i \in Instruments, NEW d \in Side
        PROVE  Leads(Queue, i, d, told[i][d], market[i][d])'
    <3>1. Queue' = Tail(batch)
      BY <1>1 DEF Queue
    <3>2. Leads(batch, i, d, told[i][d], market[i][d])
      BY <2>1
    <3>3. told'[i][d] = IF /\ IsUpdate(Head(batch))
                           /\ Head(batch).instrument = i
                           /\ Head(batch).direction = d
                        THEN Reported(Head(batch)) ELSE told[i][d]
      BY <1>1, <2>2 DEF e
    <3>4. Leads(Tail(batch), i, d, told'[i][d], market[i][d])
      BY <1>1, <1>3, <3>2, <3>3, LeadsTail
    <3> QED BY <1>1, <3>1, <3>4 DEF Leads, Reports
  <2> QED BY <1>7, <2>5, <2>6 DEF HistoryInv
<1> QED BY <1>1, <1>7, <1>8, <1>10, <1>11 DEF FeedInv

\* SendFailure keeps the invariant: the number that was not sent stands for
\* the rest of the batch, and no packet carries it.
LEMMA SendFailureInv ==
    ASSUME FeedInv, SendFailure
    PROVE  FeedInv'
<1>1. /\ publishing = "publishing" /\ publishing' = "threw"
      /\ ~ EncodeThrows(Head(batch))
      /\ sent' = sent /\ advance_number /\ batch' = <<>>
      /\ told' = market /\ image' = Recorded(market) /\ dropped' = dropped
      /\ market' = market /\ emitted' = emitted
      /\ UNCHANGED <<viewVars, processorVars>>
  BY DEF SendFailure, SendFails, marketVars
<1>2. ~ sequence_exhausted
  BY <1>1 DEF EncodeThrows
<1>3. emitted = <<>> /\ market \in Markets
  BY <1>1 DEF FeedInv, FeedTypeOK
<1>4. /\ Ordered' /\ FlowInv' /\ BooksInv' /\ (~ dropped => ShownInv')
      /\ image' \in [0 .. Given' -> Markets] /\ image'[Given'] = market
      /\ \A k \in 0 .. Given : image'[k] = image[k]
      /\ Given \in Nat /\ Given' = Given + 1 /\ Given' = next_number
      /\ next_number' \in 1 .. LastNumber
      /\ sequence_exhausted' \in BOOLEAN
      /\ sequence_exhausted' => next_number' = LastNumber
      /\ next_number \in Nat
  <2>1. sent \subseteq sent'
    BY <1>1
  <2> QED BY <1>1, <1>2, <1>3, <2>1, NumberInv
<1>5. FeedTypeOK'
  <2>1. batch' \in Seq(Events)
    BY <1>1
  <2> QED BY <1>1, <1>3, <1>4, <2>1 DEF FeedInv, FeedTypeOK
<1>6. SentInv'
  <2>1. \A g \in sent : g.sequence \in 1 .. Given => g.sequence \in 1 .. Given'
    BY <1>4
  <2> QED BY <1>1, <2>1 DEF FeedInv, SentInv
<1>7. ASSUME ~ dropped PROVE HistoryInv'
  <2>1. \A g \in sent' : Tells(Wire!decode(g), g.sequence)'
    BY <1>1, <1>4, <1>7, OldPackets
  <2>2. Queue' = <<>> /\ DOMAIN <<>> = {}
    BY <1>1, <1>3 DEF Queue
  <2>3. \A i \in Instruments, d \in Side :
           Leads(Queue, i, d, told[i][d], market[i][d])'
    BY <1>1, <2>2 DEF Leads, Reports
  <2> QED BY <1>1, <1>4, <2>1, <2>3 DEF HistoryInv
<1> QED BY <1>1, <1>4, <1>5, <1>6, <1>7 DEF FeedInv

\* EncodeFailure keeps the invariant.
LEMMA EncodeFailureInv ==
    ASSUME FeedInv, EncodeFailure
    PROVE  FeedInv'
<1>1. /\ publishing = "publishing" /\ publishing' = "threw" /\ batch' = <<>>
      /\ UNCHANGED <<next_number, sequence_exhausted, sent, image>>
      /\ told' = market /\ dropped' = TRUE
      /\ market' = market /\ emitted' = emitted
      /\ UNCHANGED <<viewVars, processorVars>>
  BY DEF EncodeFailure, EncodeFails, encoderVars, marketVars
<1>2. Given' = Given /\ Given \in Nat
  BY <1>1, LastNumberAssumption DEF FeedInv, FeedTypeOK, Given
<1>3. Ordered' /\ FlowInv' /\ BooksInv'
  <2>1. /\ sent \subseteq sent' /\ Given' \in Nat /\ Given <= Given'
        /\ \A k \in 0 .. Given : image'[k] = image[k]
    BY <1>1, <1>2
  <2> QED BY <1>1, <2>1, ReceiverKept
<1>4. FeedTypeOK'
  <2>1. batch' \in Seq(Events)
    BY <1>1
  <2> QED BY <1>1, <1>2, <2>1 DEF FeedInv, FeedTypeOK
<1>5. SentInv'
  BY <1>1, <1>2 DEF FeedInv, SentInv
<1> QED BY <1>1, <1>3, <1>4, <1>5 DEF FeedInv

-----------------------------------------------------------------------------
(* The receiving side: the exchange and the publisher do not move.         *)

\* What is sent stays as true as it was.
LEMMA PublisherKept ==
    ASSUME FeedInv, UNCHANGED <<publisherVars, marketVars, historyVars>>
    PROVE  /\ FeedTypeOK' /\ SentInv' /\ (~ dropped => HistoryInv')
           /\ Given' = Given /\ Given \in Nat /\ sent' = sent
           /\ image' = image /\ dropped' = dropped
<1>1. /\ UNCHANGED <<next_number, sequence_exhausted, sent, told, image>>
      /\ publishing' = publishing /\ batch' = batch /\ emitted' = emitted
      /\ market' = market /\ dropped' = dropped
  BY DEF publisherVars, encoderVars, marketVars, historyVars
<1>2. /\ Given' = Given /\ Given \in Nat /\ SentInv'
      /\ ~ dropped => /\ (told = image[Given])'
                      /\ \A g \in sent : Tells(Wire!decode(g), g.sequence)'
  BY <1>1, WireKept
<1>3. FeedTypeOK'
  BY <1>1, <1>2 DEF FeedInv, FeedTypeOK
<1>4. ~ dropped => HistoryInv'
  <2>1. Queue' = Queue
    BY <1>1 DEF Queue
  <2>2. \A i \in Instruments, d \in Side :
           ~ dropped => Leads(Queue, i, d, told[i][d], market[i][d])'
    BY <1>1, <2>1 DEF FeedInv, HistoryInv, Leads, Reports
  <2> QED BY <1>1, <1>2, <2>2 DEF HistoryInv
<1> QED BY <1>1, <1>2, <1>3, <1>4

\* After any packet the stream has begun.
LEMMA Begun ==
    ASSUME NEW s \in Nat, advance_after(s)
    PROVE  next_sequence' # NoSequence \/ exhausted'
<1>1. CASE s = LastSequence
  BY <1>1, Zenon DEF advance_after
<1>2. CASE s # LastSequence
  <2>1. next_sequence' = s + 1
    BY <1>2 DEF advance_after
  <2> QED BY <2>1 DEF NoSequence
<1> QED BY <1>1, <1>2

\* The steps of the processor before and after the consumer move on to the
\* next number, but the view has seen the same ones.
LEMMA SeenKept ==
    ASSUME Ordered,
           \/ \E s \in Sequences : PushHeld(s) \/ PushReady(s)
           \/ PopReady \/ ProcessReturns
    PROVE  /\ Seen' = Seen \/ (next_sequence = NoSequence /\ ~ exhausted)
           /\ next_sequence' = NoSequence /\ ~ exhausted' =>
                 next_sequence = NoSequence /\ ~ exhausted
<1>1. next_sequence \in Nat
  BY SequencesAssumption DEF Ordered, ProcessorTypeOK
<1>2. ASSUME NEW s \in Sequences, PushHeld(s)
      PROVE  /\ Seen' = Seen /\ next_sequence' = next_sequence
             /\ exhausted' = exhausted
  BY <1>2 DEF PushHeld, Seen
<1>3. ASSUME NEW s \in Sequences, PushReady(s)
      PROVE  /\ Seen' = Seen \/ (next_sequence = NoSequence /\ ~ exhausted)
             /\ next_sequence' # NoSequence \/ exhausted'
  <2>1. /\ ~ exhausted /\ (next_sequence = NoSequence \/ s = next_sequence)
        /\ phase = "idle" /\ phase' = "consume" /\ value' = s
        /\ advance_after(s)
    BY <1>3 DEF PushReady, push_result
  <2>2. next_sequence' # NoSequence \/ exhausted'
    <3>1. s \in Nat
      BY SequencesAssumption DEF Sequences
    <3> QED BY <2>1, <3>1, Begun
  <2> QED BY <2>1, <2>2 DEF Seen
<1>4. ASSUME PopReady
      PROVE  Seen' = Seen /\ (next_sequence' # NoSequence \/ exhausted')
  <2>1. /\ ~ exhausted /\ next_sequence # NoSequence
        /\ Min(pending) = next_sequence
        /\ phase = "pop" /\ phase' = "consume" /\ value' = next_sequence
        /\ advance_after(next_sequence)
    BY <1>4 DEF PopReady, CanPop
  <2>2. next_sequence' # NoSequence \/ exhausted'
    BY <1>1, <2>1, Begun
  <2> QED BY <2>1, <2>2 DEF Seen
<1>5. ASSUME ProcessReturns
      PROVE  /\ Seen' = Seen /\ next_sequence' = next_sequence
             /\ exhausted' = exhausted
  BY <1>5 DEF ProcessReturns, bufferVars, Seen
<1> QED BY <1>2, <1>3, <1>4, <1>5

\* A datagram arrives, or process() goes on: the view does not change.
LEMMA MoveInv ==
    ASSUME FeedInv, UNCHANGED <<publisherVars, viewVars, marketVars, historyVars>>,
           \/ \E s \in Sequences : PushHeld(s) \/ PushReady(s)
           \/ PopReady \/ ProcessReturns,
           FlowInv'
    PROVE  FeedInv'
<1>1. /\ FeedTypeOK' /\ SentInv' /\ (~ dropped => HistoryInv')
      /\ Given' = Given /\ Given \in Nat /\ sent' = sent
      /\ image' = image /\ dropped' = dropped
  BY PublisherKept
<1>2. Ordered'
  BY NextOrdered DEF FeedInv, ProcessorNext, ProcessStep
<1>3. books' = books
  BY DEF viewVars
<1>4. /\ Seen' = Seen \/ (next_sequence = NoSequence /\ ~ exhausted)
      /\ next_sequence' = NoSequence /\ ~ exhausted' =>
            next_sequence = NoSequence /\ ~ exhausted
  BY SeenKept DEF FeedInv
<1>5. BooksInv'
  BY <1>1, <1>3, <1>4 DEF FeedInv, BooksInv
<1>6. ASSUME ~ dropped PROVE ShownInv'
  <2>1. ShownInv
    BY <1>6 DEF FeedInv
  <2>2. CASE Seen' = Seen
    BY <1>1, <1>3, <2>1, <2>2 DEF ShownInv
  <2>3. CASE next_sequence = NoSequence /\ ~ exhausted
    BY <1>3, <2>3 DEF FeedInv, BooksInv, ShownInv
  <2> QED BY <1>4, <2>2, <2>3
<1> QED BY <1>1, <1>2, <1>5, <1>6 DEF FeedInv

\* Arrive keeps the invariant.
LEMMA ArriveInv ==
    ASSUME FeedInv, NEW g \in sent, Arrive(g)
    PROVE  FeedInv'
<1> DEFINE s == g.sequence
<1>1. /\ PushHeld(s) \/ PushReady(s)
      /\ UNCHANGED <<publisherVars, viewVars, marketVars, historyVars>>
      /\ s \in 1 .. Given
  BY DEF Arrive, FeedInv, SentInv
<1>2. s \in Sequences
  <2>1. Given \in Nat /\ Given <= LastNumber /\ LastNumber \in Nat
    BY LastNumberAssumption DEF FeedInv, FeedTypeOK, Given
  <2> QED BY <1>1, <2>1, OneWidthAssumption DEF Sequences
<1>3. sent' = sent
  BY <1>1 DEF publisherVars
<1>4. FlowInv'
  <2>1. /\ \A t \in pending' : t \in pending \/ t = s
        /\ value' = value \/ value' = s
    BY <1>1 DEF PushHeld, PushReady
  <2> QED BY <1>3, <2>1 DEF FeedInv, FlowInv
<1> QED BY <1>1, <1>2, <1>4, MoveInv

\* Process keeps the invariant.
LEMMA ProcessInv ==
    ASSUME FeedInv, Process
    PROVE  FeedInv'
<1>1. /\ PopReady \/ ProcessReturns
      /\ UNCHANGED <<publisherVars, viewVars, marketVars, historyVars>>
  BY DEF Process
<1>2. sent' = sent
  BY <1>1 DEF publisherVars
<1>3. FlowInv'
  <2>1. CASE PopReady
    <3>1. next_sequence \in pending
      BY <2>1, FirstIsHeld DEF FeedInv, PopReady
    <3>2. value' = next_sequence /\ \A t \in pending' : t \in pending
      BY <2>1 DEF PopReady, CanPop
    <3> QED BY <1>2, <3>1, <3>2 DEF FeedInv, FlowInv
  <2>2. CASE ProcessReturns
    BY <1>2, <2>2 DEF FeedInv, FlowInv, ProcessReturns, bufferVars
  <2> QED BY <1>1, <2>1, <2>2
<1> QED BY <1>1, <1>3, MoveInv

\* The packet in hand is the next one to see.
LEMMA SeenNext ==
    ASSUME Ordered, Consume
    PROVE  /\ Seen = value - 1 /\ Seen' = value
           /\ value \in Nat /\ value # NoSequence /\ value' = NoSequence
           /\ next_sequence' # NoSequence \/ exhausted'
<1>1. /\ phase = "consume" /\ phase' = "pop" /\ value' = NoSequence
      /\ next_sequence' = next_sequence /\ exhausted' = exhausted
  BY DEF Consume, bufferVars
<1>2. value \in Nat /\ value # NoSequence /\ Newest = value
  BY <1>1, SequencesAssumption DEF Ordered, ProcessorTypeOK, Newest
<1>3. IF value = LastSequence THEN exhausted /\ next_sequence = NoSequence
      ELSE ~ exhausted /\ next_sequence = value + 1
  BY <1>2 DEF Ordered, OrderedDelivery
<1>4. CASE value = LastSequence
  BY <1>1, <1>2, <1>3, <1>4 DEF Seen
<1>5. CASE value # LastSequence
  <2>1. next_sequence = value + 1 /\ ~ exhausted /\ (value + 1) - 1 = value
        /\ value + 1 # NoSequence
    BY <1>2, <1>3, <1>5 DEF NoSequence
  <2> QED BY <1>1, <1>2, <2>1 DEF Seen
<1> QED BY <1>4, <1>5

\* apply writes into one book, if it writes.
LEMMA ApplyEffect ==
    ASSUME BooksInv, NEW s \in Nat, NEW p, apply(s, p),
           p.direction \in Side, LevelIn(p) \in Levels
    PROVE  /\ DOMAIN books' = DOMAIN books
           /\ \A i \in DOMAIN books :
                 IF /\ i = p.instrument /\ books[i].state = "current"
                    /\ s > books[i].last_sequence
                 THEN /\ books'[i].state = "current"
                      /\ books'[i].last_sequence = s
                      /\ books'[i].best_bid =
                            IF p.direction = "buy" THEN LevelIn(p)
                            ELSE books[i].best_bid
                      /\ books'[i].best_ask =
                            IF p.direction = "sell" THEN LevelIn(p)
                            ELSE books[i].best_ask
                      /\ books'[i] \in
                            [state : {"current", "stale"}, last_sequence : Nat,
                             best_bid : Levels, best_ask : Levels]
                 ELSE books'[i] = books[i]
<1>1. CASE Applies(s, p)
  <2> DEFINE j == p.instrument
             b == Updated(books[j], s, p)
  <2>1. /\ j \in DOMAIN books /\ books[j].state = "current"
        /\ s > books[j].last_sequence
    BY <1>1 DEF Applies, Shown, state
  <2>2. books' = [books EXCEPT ![j] = b]
    BY <1>1 DEF apply
  <2>3. books[j] \in [state : {"current", "stale"}, last_sequence : Nat,
                      best_bid : Levels, best_ask : Levels]
    BY <2>1 DEF BooksInv
  <2>4. b = IF p.direction = "buy"
            THEN [books[j] EXCEPT !.best_bid = LevelIn(p), !.last_sequence = s]
            ELSE [books[j] EXCEPT !.best_ask = LevelIn(p), !.last_sequence = s]
    BY DEF Updated, LevelIn
  <2> HIDE DEF b
  <2>5. /\ b.state = books[j].state /\ b.last_sequence = s
        /\ b.best_bid = IF p.direction = "buy" THEN LevelIn(p)
                        ELSE books[j].best_bid
        /\ b.best_ask = IF p.direction = "sell" THEN LevelIn(p)
                        ELSE books[j].best_ask
        /\ b \in [state : {"current", "stale"}, last_sequence : Nat,
                  best_bid : Levels, best_ask : Levels]
    <3>1. CASE p.direction = "buy"
      BY <2>3, <2>4, <3>1
    <3>2. CASE p.direction = "sell"
      BY <2>3, <2>4, <3>2
    <3> QED BY <3>1, <3>2 DEF Side
  <2> HIDE DEF j
  <2>6. DOMAIN books' = DOMAIN books /\ books'[j] = b
        /\ \A i \in DOMAIN books : i # j => books'[i] = books[i]
    BY <2>1, <2>2
  <2> QED BY <2>1, <2>5, <2>6 DEF j
<1>2. CASE ~ Applies(s, p)
  <2>1. books' = books
    BY <1>2 DEF apply
  <2>2. \A i \in DOMAIN books :
           ~ (/\ i = p.instrument /\ books[i].state = "current"
              /\ s > books[i].last_sequence)
    BY <1>2 DEF Applies, Shown, state
  <2> QED BY <2>1, <2>2
<1> QED BY <1>1, <1>2

\* Deliver keeps the invariant: the book of the packet moves on to its number,
\* and the packet says that no other book has changed.
LEMMA DeliverInv ==
    ASSUME FeedInv, Deliver
    PROVE  FeedInv'
<1> DEFINE Records == [state : {"current", "stale"}, last_sequence : Nat,
                       best_bid : Levels, best_ask : Levels]
<1>1. /\ Consume /\ apply(value, PacketOf(value))
      /\ UNCHANGED <<publisherVars, marketVars, historyVars>>
  BY DEF Deliver
<1>2. /\ FeedTypeOK' /\ SentInv' /\ (~ dropped => HistoryInv')
      /\ Given' = Given /\ Given \in Nat /\ sent' = sent
      /\ image' = image /\ dropped' = dropped
  BY <1>1, PublisherKept
<1>3. Ordered'
  BY <1>1, NextOrdered DEF FeedInv, ProcessorNext, ProcessStep
<1>4. /\ Seen = value - 1 /\ Seen' = value
      /\ value \in Nat /\ value # NoSequence /\ value' = NoSequence
      /\ next_sequence' # NoSequence \/ exhausted'
  BY <1>1, SeenNext DEF FeedInv
<1>5. FlowInv'
  <2>1. pending' = pending
    BY <1>1 DEF Consume, bufferVars
  <2> QED BY <1>2, <1>4, <2>1 DEF FeedInv, FlowInv
<1>6. PICK g \in sent : g.sequence = value
  BY <1>4 DEF FeedInv, FlowInv
<1>7. PacketOf(value) = Wire!decode(g)
  <2>1. \A h \in sent : h.sequence = value => h = g
    BY <1>6 DEF FeedInv, SentInv
  <2>2. (CHOOSE h \in sent : h.sequence = value) = g
    BY <1>6, <2>1
  <2> QED BY <2>2 DEF PacketOf
<1> DEFINE p == Wire!decode(g)
<1>8. /\ value \in 1 .. Given /\ p.instrument \in Instruments
      /\ p.direction \in Side /\ LevelIn(p) \in Levels
  BY <1>6 DEF FeedInv, SentInv
<1>9. ~ dropped => Tells(p, value)
  BY <1>6 DEF FeedInv, HistoryInv
<1>10. apply(value, p)
  BY <1>1, <1>7
<1> HIDE DEF p
<1>11. BooksInv /\ (~ dropped => ShownInv) /\ image \in [0 .. Given -> Markets]
  BY DEF FeedInv, FeedTypeOK
<1>12. /\ DOMAIN books' = DOMAIN books
       /\ \A i \in DOMAIN books :
             IF /\ i = p.instrument /\ books[i].state = "current"
                /\ value > books[i].last_sequence
             THEN /\ books'[i].state = "current"
                  /\ books'[i].last_sequence = value
                  /\ books'[i].best_bid =
                        IF p.direction = "buy" THEN LevelIn(p)
                        ELSE books[i].best_bid
                  /\ books'[i].best_ask =
                        IF p.direction = "sell" THEN LevelIn(p)
                        ELSE books[i].best_ask
                  /\ books'[i] \in
                        [state : {"current", "stale"}, last_sequence : Nat,
                         best_bid : Levels, best_ask : Levels]
             ELSE books'[i] = books[i]
  BY <1>4, <1>8, <1>10, <1>11, ApplyEffect
<1>13. BooksInv'
  <2>1. ASSUME NEW i \in DOMAIN books
        PROVE  books'[i] \in Records /\ books'[i].last_sequence <= Given
    <3>1. books[i] \in Records /\ books[i].last_sequence <= Given
      BY <1>11 DEF BooksInv
    <3> QED BY <1>8, <1>12, <3>1
  <2> QED BY <1>2, <1>4, <1>11, <1>12, <2>1 DEF BooksInv
<1>14. ASSUME ~ dropped, NEW i \in DOMAIN books, books'[i].state = "current"
       PROVE  LET n == books'[i].last_sequence
              IN  /\ books'[i].best_bid = image[n][i]["buy"]
                  /\ books'[i].best_ask = image[n][i]["sell"]
                  /\ value > n =>
                        value <= Given /\ image[value][i] = image[n][i]
  <2> DEFINE n == books[i].last_sequence
  <2>1. books[i].state = "current" /\ i \in Instruments /\ n \in Nat
    BY <1>11, <1>12, <1>14 DEF BooksInv
  <2>2. /\ books[i].best_bid = image[n][i]["buy"]
        /\ books[i].best_ask = image[n][i]["sell"]
        /\ value - 1 > n => image[value - 1][i] = image[n][i]
    BY <1>4, <1>11, <1>14, <2>1 DEF ShownInv
  <2> HIDE DEF n
  <2>3. value > n => image[value - 1][i] = image[n][i]
    <3>1. value > n => value - 1 > n \/ value - 1 = n
      BY <1>4, <2>1
    <3> QED BY <2>2, <3>1
  <2>4. \A d \in Side :
           image[value][i][d] =
              IF p.instrument = i /\ p.direction = d THEN LevelIn(p)
              ELSE image[value - 1][i][d]
    BY <1>9, <1>14, <2>1 DEF Tells
  <2>5. CASE i = p.instrument /\ value > n
    <3>1. /\ books'[i].last_sequence = value
          /\ books'[i].best_bid = IF p.direction = "buy" THEN LevelIn(p)
                                  ELSE books[i].best_bid
          /\ books'[i].best_ask = IF p.direction = "sell" THEN LevelIn(p)
                                  ELSE books[i].best_ask
      BY <1>12, <2>1, <2>5 DEF n
    <3>2. /\ books'[i].best_bid = image[value][i]["buy"]
          /\ books'[i].best_ask = image[value][i]["sell"]
      BY <2>2, <2>3, <2>4, <2>5, <3>1 DEF Side
    <3>3. ~ (value > value)
      BY <1>4
    <3> QED BY <3>1, <3>2, <3>3
  <2>6. CASE ~ (i = p.instrument /\ value > n)
    <3>1. books'[i] = books[i]
      BY <1>12, <2>6 DEF n
    <3>2. ASSUME value > n
          PROVE  value <= Given /\ image[value][i] = image[n][i]
      <4>1. /\ value \in 0 .. Given /\ value - 1 \in 0 .. Given
            /\ value <= Given
        BY <1>2, <1>8
      <4>2. /\ image[value][i] \in [Side -> Levels]
            /\ image[value - 1][i] \in [Side -> Levels]
        BY <1>11, <2>1, <4>1 DEF Markets
      <4>3. \A d \in Side : image[value][i][d] = image[value - 1][i][d]
        BY <2>4, <2>6, <3>2
      <4>4. image[value][i] = image[value - 1][i]
        BY <4>2, <4>3
      <4> QED BY <2>3, <3>2, <4>1, <4>4
    <3> QED BY <2>2, <3>1, <3>2 DEF n
  <2> QED BY <2>5, <2>6
<1>15. ~ dropped => ShownInv'
  BY <1>2, <1>4, <1>12, <1>14 DEF ShownInv
<1> QED BY <1>2, <1>3, <1>5, <1>13, <1>15 DEF FeedInv

\* Establish keeps the invariant: the snapshot is not behind the stream.
LEMMA EstablishInv ==
    ASSUME FeedInv, NEW i \in Instruments, NEW n \in 0 .. Given,
           Establish(i, n)
    PROVE  FeedInv'
<1> DEFINE new == [state |-> "current", last_sequence |-> n,
                   best_bid |-> image[n][i]["buy"],
                   best_ask |-> image[n][i]["sell"]]
<1>1. /\ phase = "idle" /\ Rebased(n)
      /\ UNCHANGED <<publisherVars, processorVars, marketVars, historyVars>>
      /\ books' = [j \in DOMAIN books \cup {i} |->
                      IF j # i THEN books[j] ELSE new]
  BY DEF Establish, establish
<1>2. /\ FeedTypeOK' /\ SentInv' /\ (~ dropped => HistoryInv')
      /\ Given' = Given /\ Given \in Nat /\ sent' = sent
      /\ image' = image /\ dropped' = dropped
  BY <1>1, PublisherKept
<1>3. Ordered'
  BY <1>1, NextOrdered DEF FeedInv
<1>4. /\ next_sequence' = next_sequence /\ pending' = pending
      /\ exhausted' = exhausted /\ phase' = phase /\ value' = value
  BY <1>1 DEF processorVars, bufferVars
<1>5. FlowInv'
  BY <1>2, <1>4 DEF FeedInv, FlowInv
<1>6. n \in Nat /\ n <= Given
  BY <1>2
<1>7. new \in [state : {"current", "stale"}, last_sequence : Nat,
               best_bid : Levels, best_ask : Levels]
  <2>1. image[n][i] \in [Side -> Levels]
    BY DEF FeedInv, FeedTypeOK, Markets
  <2>2. image[n][i]["buy"] \in Levels /\ image[n][i]["sell"] \in Levels
    BY <2>1 DEF Side
  <2> QED BY <1>6, <2>2
<1>8. BooksInv'
  <2>1. next_sequence # NoSequence \/ exhausted
    BY <1>1 DEF Rebased
  <2>2. DOMAIN books' \subseteq Instruments
    BY <1>1 DEF FeedInv, BooksInv
  <2>3. \A j \in DOMAIN books' :
           /\ books'[j] \in [state : {"current", "stale"}, last_sequence : Nat,
                             best_bid : Levels, best_ask : Levels]
           /\ books'[j].last_sequence <= Given
    BY <1>1, <1>6, <1>7 DEF FeedInv, BooksInv
  <2> QED BY <1>2, <1>4, <2>1, <2>2, <2>3 DEF BooksInv
<1>9. Seen' = Seen /\ ~ (Seen > n)
  <2>1. Seen' = Seen
    BY <1>4 DEF Seen
  <2>2. next_sequence \in Nat /\ LastSequence \in Nat
    BY SequencesAssumption DEF FeedInv, Ordered, ProcessorTypeOK
  <2> QED BY <1>1, <1>6, <2>1, <2>2 DEF Seen, Rebased
<1>10. ~ dropped => ShownInv'
  BY <1>1, <1>2, <1>9 DEF FeedInv, ShownInv
<1> QED BY <1>2, <1>3, <1>5, <1>8, <1>10 DEF FeedInv

\* Invalidate keeps the invariant: nothing is shown.
LEMMA InvalidateInv ==
    ASSUME FeedInv, Invalidate
    PROVE  FeedInv'
<1>1. /\ UNCHANGED <<publisherVars, processorVars, marketVars, historyVars>>
      /\ books' = [i \in DOMAIN books |-> [books[i] EXCEPT !.state = "stale"]]
  BY DEF Invalidate, invalidate
<1>2. /\ FeedTypeOK' /\ SentInv' /\ (~ dropped => HistoryInv')
      /\ Given' = Given /\ Given \in Nat /\ sent' = sent
      /\ image' = image /\ dropped' = dropped
  BY <1>1, PublisherKept
<1>3. Ordered'
  BY <1>1, NextOrdered DEF FeedInv
<1>4. FlowInv'
  BY <1>1, <1>2 DEF FeedInv, FlowInv, processorVars, bufferVars
<1>5. DOMAIN books' = DOMAIN books
  BY <1>1
<1>6. ASSUME NEW i \in DOMAIN books
      PROVE  /\ books'[i] \in [state : {"current", "stale"},
                               last_sequence : Nat,
                               best_bid : Levels, best_ask : Levels]
             /\ books'[i].last_sequence <= Given /\ books'[i].state = "stale"
  <2>1. /\ books[i] \in [state : {"current", "stale"}, last_sequence : Nat,
                         best_bid : Levels, best_ask : Levels]
        /\ books[i].last_sequence <= Given
    BY DEF FeedInv, BooksInv
  <2>2. books'[i] = [books[i] EXCEPT !.state = "stale"]
    BY <1>1
  <2> QED BY <2>1, <2>2
<1>7. BooksInv' /\ ShownInv'
  BY <1>2, <1>5, <1>6 DEF FeedInv, BooksInv, ShownInv
<1> QED BY <1>2, <1>3, <1>4, <1>7 DEF FeedInv

-----------------------------------------------------------------------------
(* The theorems.                                                           *)

\* Before anything happens.
LEMMA InitFeedInv == Init => FeedInv
<1> SUFFICES ASSUME Init PROVE FeedInv
  OBVIOUS
<1>1. Ordered
  BY InitOrdered DEF Init
<1>2. NoLevel \in Levels /\ EmptyMarket \in Markets
  BY DEF NoLevel, Levels, EmptyMarket, Markets
<1>3. Given = 0
  BY DEF Init, PublisherInit, Given
<1>4. FeedTypeOK
  <2>1. image \in [0 .. 0 -> Markets] /\ <<>> \in Seq(Events)
    BY <1>2 DEF Init
  <2> QED BY <1>2, <1>3, <2>1, LastNumberAssumption
          DEF Init, PublisherInit, FeedTypeOK
<1>5. SentInv /\ FlowInv
  BY DEF Init, PublisherInit, ProcessorInit, SentInv, FlowInv
<1>6. books = <<>> /\ DOMAIN books = {}
  BY DEF Init, ViewInit
<1>7. BooksInv /\ ShownInv
  BY <1>6 DEF BooksInv, ShownInv
<1>8. HistoryInv
  <2>1. Queue = <<>> /\ told = market /\ told = image[0] /\ sent = {}
    BY DEF Init, PublisherInit, Queue
  <2> QED BY <1>3, <2>1 DEF HistoryInv, Leads, Reports
<1> QED BY <1>1, <1>4, <1>5, <1>7, <1>8 DEF FeedInv

\* Every step of the feed keeps the invariant.
LEMMA NextFeedInv ==
    ASSUME FeedInv, [Next]_vars
    PROVE  FeedInv'
<1>1. ASSUME NEW i \in Instruments, NEW moved \in Moves,
             NEW bid \in Tops[i]["buy"], NEW ask \in Tops[i]["sell"],
             Command(i, [d \in Side |-> IF d = "buy" THEN bid ELSE ask], moved)
      PROVE  FeedInv'
  <2> DEFINE tops == [d \in Side |-> IF d = "buy" THEN bid ELSE ask]
  <2>1. bid \in Levels /\ ask \in Levels
    BY MarketAssumption DEF Levels, Side
  <2>2. tops \in [Side -> Levels] /\ Command(i, tops, moved)
    BY <1>1, <2>1
  <2> HIDE DEF tops
  <2> QED BY <2>2, CommandInv
<1>2. CASE Publish \/ PublishStep
  BY <1>2, PublishInv
<1>3. CASE Send
  BY <1>3, SendInv
<1>4. CASE SendFailure
  BY <1>4, SendFailureInv
<1>5. CASE EncodeFailure
  BY <1>5, EncodeFailureInv
<1>6. ASSUME NEW g \in sent, Arrive(g) PROVE FeedInv'
  BY <1>6, ArriveInv
<1>7. CASE Deliver
  BY <1>7, DeliverInv
<1>8. CASE Process
  BY <1>8, ProcessInv
<1>9. ASSUME NEW i \in Instruments, NEW n \in 0 .. Given, Establish(i, n)
      PROVE  FeedInv'
  BY <1>9, EstablishInv
<1>10. CASE Invalidate
  BY <1>10, InvalidateInv
<1>11. CASE UNCHANGED vars
  <2>1. /\ UNCHANGED <<publisherVars, marketVars, historyVars>>
        /\ UNCHANGED <<viewVars, processorVars>>
    BY <1>11 DEF vars
  <2>2. /\ FeedTypeOK' /\ SentInv' /\ (~ dropped => HistoryInv')
        /\ Given' = Given /\ Given \in Nat /\ sent' = sent
        /\ image' = image /\ dropped' = dropped
    BY <2>1, PublisherKept
  <2>3. Ordered' /\ FlowInv' /\ BooksInv' /\ (~ dropped => ShownInv')
    <3>1. /\ sent \subseteq sent' /\ Given' \in Nat /\ Given <= Given'
          /\ \A k \in 0 .. Given : image'[k] = image[k]
      BY <2>2
    <3> QED BY <2>1, <3>1, ReceiverKept
  <2> QED BY <2>2, <2>3 DEF FeedInv
<1> QED
  BY <1>1, <1>2, <1>3, <1>4, <1>5, <1>6, <1>7, <1>8, <1>9, <1>10, <1>11
     DEF Next

\* The invariant says what the properties say.
LEMMA FeedInvImplies ==
    ASSUME FeedInv
    PROVE  UniqueNumbers /\ ShownIsTruthful /\ CaughtUpIsLive
<1>1. UniqueNumbers
  BY DEF FeedInv, SentInv, UniqueNumbers
<1>2. ASSUME NEW i \in Instruments, Shown(i)
      PROVE  i \in DOMAIN books /\ books[i].state = "current"
  BY <1>2 DEF Shown, state
<1>3. ShownIsTruthful
  BY <1>2 DEF FeedInv, ShownInv, ShownIsTruthful, get
<1>4. CaughtUpIsLive
  <2> SUFFICES ASSUME ~ dropped, publishing # "publishing", emitted = <<>>,
                      phase = "idle", Newest = Given,
                      NEW i \in Instruments, Shown(i)
               PROVE  /\ get(i).best_bid = market[i]["buy"]
                      /\ get(i).best_ask = market[i]["sell"]
    BY DEF CaughtUpIsLive
  <2> DEFINE n == books[i].last_sequence
  <2>1. i \in DOMAIN books /\ books[i].state = "current"
    BY <1>2
  <2>2. /\ books[i].best_bid = image[n][i]["buy"]
        /\ books[i].best_ask = image[n][i]["sell"]
        /\ Seen > n => Seen <= Given /\ image[Seen][i] = image[n][i]
    BY <2>1 DEF FeedInv, ShownInv
  <2>3. n \in Nat /\ n <= Given /\ Given \in Nat
    BY <2>1, LastNumberAssumption DEF FeedInv, BooksInv, FeedTypeOK, Given
  <2> HIDE DEF n
  <2>4. \A d \in Side : image[Given][i][d] = market[i][d]
    <3>1. Queue = <<>> /\ DOMAIN <<>> = {}
      BY DEF Queue
    <3>2. \A d \in Side : told[i][d] = market[i][d]
      BY <3>1 DEF FeedInv, HistoryInv, Leads, Reports
    <3> QED BY <3>2 DEF FeedInv, HistoryInv
  <2>5. image[Given][i] = image[n][i]
    <3>1. CASE Given = NoSequence
      <4>1. n = Given
        BY <2>3, <3>1 DEF NoSequence
      <4> QED BY <4>1
    <3>2. CASE Given # NoSequence
      <4>1. Seen = Given
        <5>1. IF Given = LastSequence
              THEN exhausted /\ next_sequence = NoSequence
              ELSE ~ exhausted /\ next_sequence = Given + 1
          BY <3>2 DEF FeedInv, Ordered, OrderedDelivery
        <5>2. (Given + 1) - 1 = Given
          BY <2>3
        <5> QED BY <5>1, <5>2 DEF Seen
      <4>2. n = Given \/ Given > n
        BY <2>3
      <4> QED BY <2>2, <4>1, <4>2
    <3> QED BY <3>1, <3>2
  <2> QED BY <2>2, <2>4, <2>5 DEF get, Side, n
<1> QED BY <1>1, <1>3, <1>4

\* The invariant of the feed holds in every reachable state.
THEOREM FeedInductive == Spec => []FeedInv
BY InitFeedInv, NextFeedInv, PTL DEF Spec

\* feed_encoder gives no number to two datagrams, also when the numbers run
\* out or a send fails, and decode accepts each datagram.
THEOREM NumbersAreUnique == Spec => []UniqueNumbers
BY FeedInductive, FeedInvImplies, PTL

\* A book that top_of_book_view shows is the exchange's book at the number it
\* names, whatever the network loses, repeats or reorders, wherever a send
\* fails and whenever a snapshot is established.
THEOREM ShownBooksAreTruthful == Spec => []ShownIsTruthful
BY FeedInductive, FeedInvImplies, PTL

\* A view that has been given every number shows the market as it is.
THEOREM CaughtUpViewIsLive == Spec => []CaughtUpIsLive
BY FeedInductive, FeedInvImplies, PTL

=============================================================================
