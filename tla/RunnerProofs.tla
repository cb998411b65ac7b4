---------------------------- MODULE RunnerProofs ----------------------------
(***************************************************************************)
(* Proofs about Runner, for any clients, controllers, capacity and number  *)
(* of commands and calls.  What is promised to clients holds whatever the  *)
(* controllers do; what is promised to controllers holds while they take   *)
(* turns.                                                                  *)
(***************************************************************************)
EXTENDS Runner, SequenceTheorems, TLAPS

-----------------------------------------------------------------------------
(* The inductive invariant.                                                *)

\* The command in hand, as a sequence, and all commands that got into the
\* queue, in the order in which they got there.
InHand == IF current = NoCommand THEN <<>> ELSE <<current>>
Arriving == processed \o InHand \o commands

\* In a sequence of commands, those of one client appear as they were issued.
InIssueOrder(s) ==
    \A i, j \in DOMAIN s :
        i < j /\ s[i][1] = s[j][1] => s[i][2] < s[j][2]

\* No command arrived before it was issued; the one a client is still
\* pushing did not.
Issued ==
    /\ \A i \in DOMAIN Arriving :
          /\ Arriving[i][2] <= issued[Arriving[i][1]]
          /\ Arriving[i][1] \in sending =>
                Arriving[i][2] < issued[Arriving[i][1]]
    /\ \A c \in sending : issued[c] # 0

\* What becomes of a command, told from where it is.
Fates ==
    \A command \in Command :
        /\ outcome[command] = "resolved" <=> command \in ToSet(processed)
        /\ outcome[command] = "queued" <=>
              command \in ToSet(commands) \cup {current}

\* The std::thread object and the thread behind it: a thread that is not
\* joinable does not run, and one that has left its loop has seen the queue
\* closed and empty.
WorkerState ==
    /\ thread = "processing" <=> current # NoCommand
    /\ worker # "joinable" => thread \in {"none", "done"}
    /\ thread = "done" => queue_closed /\ commands = <<>>

\* What clients rely on, in every behaviour.
ClientInv ==
    TypeOK /\ InIssueOrder(Arriving) /\ Issued /\ Fates /\ WorkerState

\* The three stages of a runner's life.
Fresh == worker = "none" /\ ~ closed /\ ~ queue_closed /\ ~ stopped
Served ==
    /\ worker = "joinable" /\ thread # "done"
    /\ ~ closed /\ ~ queue_closed /\ ~ stopped
Over ==
    /\ worker = "joined" /\ thread = "done" /\ commands = <<>>
    /\ closed /\ queue_closed /\ stopped

\* Where a controller is tells the stage, when controllers take turns.
StageOf(k) ==
    /\ control[k] = "start_exchange" => ~ closed
    /\ control[k] = "start_thread" => accepting /\ Fresh
    /\ control[k] = "stop_closed" => ~ accepting /\ Served
    /\ control[k] = "stop_queue" =>
          /\ ~ accepting /\ ~ stopped /\ closed /\ ~ queue_closed
          /\ worker = "joinable" /\ thread # "done"
    /\ control[k] = "stop_join" =>
          /\ ~ accepting /\ ~ stopped /\ closed /\ queue_closed
          /\ worker = "joinable"

\* Between the steps that change the stage.
Settled == \A k \in Controllers : control[k] \in {"idle", "start_exchange"}

\* What controllers rely on, while they take turns and threads can be made.
Lifecycle ==
    /\ ~ terminated
    /\ \A j, k \in Controllers :
          control[j] # "idle" /\ control[k] # "idle" => j = k
    /\ \A k \in Controllers : StageOf(k)
    /\ Settled => IF accepting THEN Served ELSE Fresh \/ Over

ControlInv == orderly => Lifecycle

-----------------------------------------------------------------------------
(* Commands and the sequences they pass through.                           *)

\* What make_promise and enqueue pair up: a client and the number of its
\* command; no command is the empty one.
LEMMA CommandFacts ==
    /\ \A c \in Clients, n \in 1 .. MaxCommands : <<c, n>> \in Command
    /\ \A e \in Command :
          /\ e[1] \in Clients /\ e[2] \in 1 .. MaxCommands /\ e[2] \in Nat
          /\ e = <<e[1], e[2]>> /\ e # NoCommand
<1>1. \A c \in Clients, n \in 1 .. MaxCommands : <<c, n>> \in Command
  BY DEF Command
<1>2. ASSUME NEW e \in Command
      PROVE  /\ e[1] \in Clients /\ e[2] \in 1 .. MaxCommands /\ e[2] \in Nat
             /\ e = <<e[1], e[2]>> /\ e # NoCommand
  BY BoundsAssumption DEF Command, NoCommand
<1> QED BY <1>1, <1>2

\* In a sequence that is in issue order no command occurs twice.
LEMMA OrderIsInjective ==
    ASSUME NEW s \in Seq(Command), InIssueOrder(s),
           NEW i \in DOMAIN s, NEW j \in DOMAIN s, s[i] = s[j]
    PROVE  i = j
<1>1. /\ i \in Nat /\ j \in Nat /\ s[i] \in Command
      /\ s[i][2] \in Nat
  BY CommandFacts
<1> QED BY <1>1 DEF InIssueOrder

\* A command newer than all of its client's keeps the order: push.
LEMMA AppendInOrder ==
    ASSUME NEW s \in Seq(Command), InIssueOrder(s), NEW e \in Command,
           \A i \in DOMAIN s : s[i][1] = e[1] => s[i][2] < e[2]
    PROVE  InIssueOrder(Append(s, e))
<1> DEFINE t == Append(s, e)
<1>1. /\ t \in Seq(Command) /\ Len(t) = Len(s) + 1 /\ Len(s) \in Nat
      /\ DOMAIN t = 1 .. Len(s) + 1 /\ DOMAIN s = 1 .. Len(s)
      /\ \A i \in 1 .. Len(s) : t[i] = s[i]
      /\ t[Len(s) + 1] = e
  BY AppendProperties
<1>2. ASSUME NEW i \in DOMAIN t, NEW j \in DOMAIN t, i < j,
             t[i][1] = t[j][1]
      PROVE  t[i][2] < t[j][2]
  <2>1. i \in DOMAIN s /\ t[i] = s[i]
    BY <1>1, <1>2
  <2>2. CASE j \in DOMAIN s
    BY <1>1, <1>2, <2>1, <2>2 DEF InIssueOrder
  <2>3. CASE j = Len(s) + 1
    BY <1>1, <1>2, <2>1, <2>3
  <2> HIDE DEF t
  <2> QED BY <1>1, <2>2, <2>3
<1> HIDE DEF t
<1>3. InIssueOrder(t)
  BY <1>2 DEF InIssueOrder
<1> QED BY <1>3 DEF t

\* The parts that make up what has arrived.
LEMMA ArrivingParts ==
    ASSUME TypeOK
    PROVE  /\ InHand \in Seq(Command) /\ Arriving \in Seq(Command)
           /\ Arriving = processed \o (InHand \o commands)
           /\ \A e : e \in ToSet(processed) \cup ToSet(commands) =>
                 \E i \in DOMAIN Arriving : Arriving[i] = e
           /\ current # NoCommand =>
                 \E i \in DOMAIN Arriving : Arriving[i] = current
<1>1. processed \in Seq(Command) /\ commands \in Seq(Command)
  BY DEF TypeOK
<1>2. InHand \in Seq(Command)
  BY DEF TypeOK, InHand
<1> DEFINE h == processed \o InHand
<1>3. /\ h \in Seq(Command) /\ Len(h) = Len(processed) + Len(InHand)
      /\ \A i \in 1 .. Len(processed) + Len(InHand) :
            h[i] = IF i <= Len(processed) THEN processed[i]
                   ELSE InHand[i - Len(processed)]
  BY <1>1, <1>2, ConcatProperties
<1>4. Arriving = h \o commands
  BY DEF Arriving
<1>5. /\ Len(processed) \in Nat /\ Len(InHand) \in Nat
      /\ Len(commands) \in Nat
      /\ DOMAIN processed = 1 .. Len(processed)
      /\ DOMAIN commands = 1 .. Len(commands)
  BY <1>1, <1>2
<1> HIDE DEF h
<1>6. /\ Arriving \in Seq(Command)
      /\ Len(Arriving) = Len(h) + Len(commands)
      /\ DOMAIN Arriving = 1 .. Len(h) + Len(commands)
      /\ \A i \in 1 .. Len(h) + Len(commands) :
            Arriving[i] = IF i <= Len(h) THEN h[i] ELSE commands[i - Len(h)]
  <2>1. /\ h \o commands \in Seq(Command)
        /\ Len(h \o commands) = Len(h) + Len(commands)
        /\ \A i \in 1 .. Len(h) + Len(commands) :
              (h \o commands)[i] =
                 IF i <= Len(h) THEN h[i] ELSE commands[i - Len(h)]
    <3>1. h \in Seq(Command) /\ commands \in Seq(Command)
      BY <1>1, <1>3
    <3> QED BY <3>1, ConcatProperties
  <2>2. DOMAIN (h \o commands) = 1 .. Len(h \o commands)
    BY <2>1, LenProperties
  <2> QED BY <1>4, <2>1, <2>2
<1>7. Arriving = processed \o (InHand \o commands)
  BY <1>1, <1>2, ConcatAssociative DEF Arriving
<1>8. ASSUME NEW i \in DOMAIN processed
      PROVE  i \in DOMAIN Arriving /\ Arriving[i] = processed[i]
  BY <1>3, <1>5, <1>6
<1>9. ASSUME NEW i \in DOMAIN commands
      PROVE  /\ Len(h) + i \in DOMAIN Arriving
             /\ Arriving[Len(h) + i] = commands[i]
  BY <1>3, <1>5, <1>6
<1>10. ASSUME current # NoCommand
       PROVE  /\ Len(processed) + 1 \in DOMAIN Arriving
              /\ Arriving[Len(processed) + 1] = current
  <2>1. InHand = <<current>> /\ Len(InHand) = 1 /\ InHand[1] = current
    BY <1>10 DEF InHand
  <2> QED BY <1>3, <1>5, <1>6, <2>1
<1>11. ASSUME NEW e, e \in ToSet(processed) \cup ToSet(commands)
       PROVE  \E i \in DOMAIN Arriving : Arriving[i] = e
  BY <1>8, <1>9, <1>11 DEF ToSet
<1> QED BY <1>2, <1>6, <1>7, <1>10, <1>11

\* The commands that ran are the first of those that arrived.
LEMMA ProcessedFirst ==
    ASSUME TypeOK, NEW i \in DOMAIN processed
    PROVE  i \in DOMAIN Arriving /\ Arriving[i] = processed[i]
<1>1. processed \in Seq(Command) /\ InHand \o commands \in Seq(Command)
  BY ArrivingParts, ConcatProperties DEF TypeOK
<1> DEFINE t == InHand \o commands
<1> HIDE DEF t
<1>2. /\ Len(processed \o t) = Len(processed) + Len(t)
      /\ \A j \in 1 .. Len(processed) + Len(t) :
            (processed \o t)[j] = IF j <= Len(processed) THEN processed[j]
                                  ELSE t[j - Len(processed)]
  <2>1. processed \in Seq(Command) /\ t \in Seq(Command)
    BY <1>1 DEF t
  <2> QED BY <2>1, ConcatProperties
<1>3. Arriving = processed \o t /\ Arriving \in Seq(Command)
  BY ArrivingParts DEF t
<1>4. i \in 1 .. Len(processed) /\ Len(processed) \in Nat /\ Len(t) \in Nat
  BY <1>1 DEF t
<1> QED BY <1>2, <1>3, <1>4

\* The places of the commands: those that ran come first, the one in hand is
\* next, and it is in no other place when the order is kept.
LEMMA InHandOnce ==
    ASSUME TypeOK, InIssueOrder(Arriving), current # NoCommand
    PROVE  current \notin ToSet(commands)
<1> SUFFICES ASSUME current \in ToSet(commands) PROVE FALSE
  OBVIOUS
<1>1. /\ processed \in Seq(Command) /\ commands \in Seq(Command)
      /\ InHand = <<current>> /\ <<current>> \in Seq(Command)
      /\ Len(<<current>>) = 1 /\ <<current>>[1] = current
  BY DEF TypeOK, InHand
<1> DEFINE t == <<current>> \o commands
<1>2. /\ t \in Seq(Command) /\ Len(t) = 1 + Len(commands)
      /\ \A i \in 1 .. 1 + Len(commands) :
            t[i] = IF i <= 1 THEN <<current>>[i] ELSE commands[i - 1]
  BY <1>1, ConcatProperties
<1>3. Arriving = processed \o t /\ Arriving \in Seq(Command)
  BY <1>1, ArrivingParts
<1> HIDE DEF t
<1>4. /\ Len(Arriving) = Len(processed) + Len(t)
      /\ \A i \in 1 .. Len(processed) + Len(t) :
            Arriving[i] = IF i <= Len(processed) THEN processed[i]
                          ELSE t[i - Len(processed)]
  <2>1. processed \in Seq(Command) /\ t \in Seq(Command)
    BY <1>1, <1>2
  <2> QED BY <1>3, <2>1, ConcatProperties
<1>5. PICK j \in 1 .. Len(commands) : commands[j] = current
  BY <1>1 DEF ToSet
<1>6. Len(processed) \in Nat /\ Len(commands) \in Nat
  BY <1>1
<1>7. /\ Len(processed) + 1 \in DOMAIN Arriving
      /\ Arriving[Len(processed) + 1] = current
  BY <1>1, <1>2, <1>3, <1>4, <1>6
<1>8. /\ Len(processed) + 1 + j \in DOMAIN Arriving
      /\ Arriving[Len(processed) + 1 + j] = current
  <2>1. t[1 + j] = current
    BY <1>2, <1>5, <1>6
  <2> QED BY <1>2, <1>3, <1>4, <1>6, <2>1
<1>9. Len(processed) + 1 = Len(processed) + 1 + j
  BY <1>3, <1>7, <1>8, OrderIsInjective
<1> QED BY <1>6, <1>9

\* push puts its command behind all that have arrived.
LEMMA PushArrives ==
    ASSUME TypeOK, NEW e \in Command, commands' = Append(commands, e),
           UNCHANGED <<processed, current>>
    PROVE  Arriving' = Append(Arriving, e)
<1> DEFINE h == processed \o InHand
<1>1. /\ commands \in Seq(Command) /\ processed \in Seq(Command)
      /\ InHand \in Seq(Command) /\ Arriving \in Seq(Command)
      /\ <<e>> \in Seq(Command)
  BY ArrivingParts DEF TypeOK
<1>2. h \in Seq(Command)
  BY <1>1, ConcatProperties
<1>3. InHand' = InHand /\ Arriving = h \o commands
  BY DEF InHand, Arriving
<1>4. Arriving' = h \o Append(commands, e)
  BY <1>3 DEF Arriving
<1> HIDE DEF h
<1>5. Append(commands, e) = commands \o <<e>>
  BY <1>1, AppendIsConcat
<1>6. h \o (commands \o <<e>>) = (h \o commands) \o <<e>>
  BY <1>1, <1>2, ConcatAssociative
<1>7. Append(Arriving, e) = Arriving \o <<e>>
  BY <1>1, AppendIsConcat
<1> QED BY <1>3, <1>4, <1>5, <1>6, <1>7

\* A non-empty sequence is its head followed by its tail.
LEMMA HeadThenTail ==
    ASSUME NEW S, NEW s \in Seq(S), s # <<>>
    PROVE  s = <<Head(s)>> \o Tail(s)
<1>1. /\ Head(s) \in S /\ Tail(s) \in Seq(S) /\ Len(Tail(s)) = Len(s) - 1
      /\ \A i \in 1 .. Len(Tail(s)) : Tail(s)[i] = s[i + 1]
      /\ Head(s) = s[1] /\ Len(s) \in Nat \ {0}
  BY HeadTailProperties, EmptySeq
<1>2. /\ <<Head(s)>> \in Seq(S) /\ Len(<<Head(s)>>) = 1
      /\ <<Head(s)>>[1] = Head(s)
  BY <1>1
<1> DEFINE h == <<Head(s)>>
           t == Tail(s)
<1> HIDE DEF h, t
<1>3. /\ h \o t \in Seq(S) /\ Len(h \o t) = Len(h) + Len(t)
      /\ \A i \in 1 .. Len(h) + Len(t) :
            (h \o t)[i] = IF i <= Len(h) THEN h[i] ELSE t[i - Len(h)]
  <2>1. h \in Seq(S) /\ t \in Seq(S)
    BY <1>1, <1>2 DEF h, t
  <2> QED BY <2>1, ConcatProperties
<1>4. Len(h \o t) = Len(s)
  BY <1>1, <1>2, <1>3 DEF h, t
<1>5. ASSUME NEW i \in 1 .. Len(s) PROVE s[i] = (h \o t)[i]
  <2>1. CASE i = 1
    BY <1>1, <1>2, <1>3, <2>1 DEF h, t
  <2>2. CASE i # 1
    <3>1. i - 1 \in 1 .. Len(t) /\ t[i - 1] = s[i]
      BY <1>1, <2>2 DEF t
    <3> QED BY <1>1, <1>2, <1>3, <2>2, <3>1 DEF h
  <2> QED BY <2>1, <2>2
<1>6. s = h \o t
  BY <1>3, <1>4, <1>5, SeqEqual
<1> QED BY <1>6 DEF h, t

\* wait_and_pop moves a command from the queue into the worker's hand: what
\* has arrived stays the same.
LEMMA PopKeepsArriving ==
    ASSUME TypeOK, current = NoCommand, commands # <<>>,
           current' = Head(commands), commands' = Tail(commands),
           processed' = processed
    PROVE  Arriving' = Arriving
<1>1. commands \in Seq(Command) /\ processed \in Seq(Command)
  BY DEF TypeOK
<1>2. /\ Head(commands) \in Command /\ Tail(commands) \in Seq(Command)
      /\ <<Head(commands)>> \in Seq(Command)
  BY <1>1, HeadTailProperties
<1>3. InHand = <<>> /\ InHand' = <<Head(commands)>>
  BY <1>2, CommandFacts DEF InHand
<1>4. processed \o <<>> = processed
  BY <1>1, ConcatEmptySeq
<1>5. Arriving = processed \o commands
  BY <1>3, <1>4 DEF Arriving
<1>6. Arriving' = (processed \o <<Head(commands)>>) \o Tail(commands)
  BY <1>3 DEF Arriving
<1>7. Arriving' = processed \o (<<Head(commands)>> \o Tail(commands))
  BY <1>1, <1>2, <1>6, ConcatAssociative
<1>8. commands = <<Head(commands)>> \o Tail(commands)
  BY <1>1, HeadThenTail
<1> QED BY <1>5, <1>7, <1>8

\* process moves the command in hand to those that have run.
LEMMA ProcessKeepsArriving ==
    ASSUME TypeOK, current # NoCommand, current' = NoCommand,
           processed' = Append(processed, current), commands' = commands
    PROVE  Arriving' = Arriving
<1>1. processed \in Seq(Command) /\ current \in Command
  BY DEF TypeOK
<1>2. InHand = <<current>> /\ InHand' = <<>>
  BY DEF InHand
<1>3. Append(processed, current) = processed \o <<current>>
  BY <1>1, AppendIsConcat
<1>4. /\ Append(processed, current) \in Seq(Command)
      /\ Append(processed, current) \o <<>> = Append(processed, current)
  BY <1>1, AppendProperties, ConcatEmptySeq
<1> QED BY <1>2, <1>3, <1>4 DEF Arriving

-----------------------------------------------------------------------------
(* What clients rely on is kept by every step.                             *)

\* A runner that has been constructed and not started.
LEMMA InitClient == Init => ClientInv
<1> SUFFICES ASSUME Init PROVE ClientInv
  OBVIOUS
<1>1. commands = <<>> /\ processed = <<>> /\ current = NoCommand
  BY DEF Init
<1>2. TypeOK
  <2>1. /\ commands \in Seq(Command) /\ Len(commands) <= Capacity
        /\ processed \in Seq(Command)
    BY <1>1, CapacityAssumption
  <2>2. /\ issued \in [Clients -> 0 .. MaxCommands]
        /\ calls \in [Controllers -> 0 .. MaxCalls]
    BY BoundsAssumption DEF Init
  <2> QED BY <2>1, <2>2 DEF Init, TypeOK
<1>3. Arriving = <<>>
  <2>1. InHand = <<>>
    BY <1>1 DEF InHand
  <2> QED BY <1>1, <2>1 DEF Arriving
<1>4. InIssueOrder(Arriving) /\ Issued
  BY <1>3 DEF InIssueOrder, Issued, Init
<1>5. Fates
  BY <1>1, CommandFacts DEF Fates, Init, ToSet
<1>6. WorkerState
  BY DEF WorkerState, Init
<1> QED BY <1>2, <1>4, <1>5, <1>6 DEF ClientInv

\* Steps that neither move a command nor issue one.
LEMMA ClientKept ==
    ASSUME ClientInv, TypeOK', WorkerState',
           UNCHANGED <<commands, processed, current, outcome, issued, sending>>
    PROVE  ClientInv'
<1>1. Arriving' = Arriving
  BY DEF Arriving, InHand
<1>2. InIssueOrder(Arriving)'
  BY <1>1 DEF ClientInv, InIssueOrder
<1>3. Issued'
  BY <1>1 DEF ClientInv, Issued
<1>4. Fates'
  BY DEF ClientInv, Fates
<1> QED BY <1>2, <1>3, <1>4 DEF ClientInv

\* enqueue, up to its check of the flag: the new number is above all that
\* have arrived.
LEMMA EnqueueClient ==
    ASSUME ClientInv, NEW c \in Clients, Enqueue(c)
    PROVE  ClientInv'
<1> DEFINE e == NextCommand(c)
<1>1. /\ issued \in [Clients -> 0 .. MaxCommands] /\ issued[c] \in Nat
      /\ issued[c] < MaxCommands /\ MaxCommands \in Nat
      /\ issued' = [issued EXCEPT ![c] = issued[c] + 1]
      /\ c \notin sending /\ sending \subseteq Clients
      /\ sending' \in {sending, sending \cup {c}}
  BY BoundsAssumption DEF ClientInv, TypeOK, Enqueue
<1>2. issued' \in [Clients -> 0 .. MaxCommands]
  BY <1>1
<1>3. e \in Command /\ e = <<c, issued[c] + 1>>
  BY <1>1, CommandFacts DEF NextCommand
<1>4. /\ \E o \in {"pushing", "refused"} : outcome' = [outcome EXCEPT ![e] = o]
      /\ UNCHANGED <<accepting, closed, queueVars, workerVars, controlVars>>
  BY DEF Enqueue
<1> HIDE DEF e
<1>5. TypeOK'
  BY <1>1, <1>2, <1>3, <1>4
     DEF ClientInv, TypeOK, queueVars, workerVars, controlVars
<1>6. Arriving' = Arriving /\ Arriving \in Seq(Command)
  BY <1>4, ArrivingParts
     DEF ClientInv, Arriving, InHand, queueVars, workerVars
<1>7. InIssueOrder(Arriving)'
  BY <1>6 DEF ClientInv, InIssueOrder
<1>8. Issued'
  <2>1. ASSUME NEW i \in DOMAIN Arriving
        PROVE  /\ Arriving[i][2] <= issued'[Arriving[i][1]]
               /\ Arriving[i][1] \in sending' =>
                     Arriving[i][2] < issued'[Arriving[i][1]]
    <3> DEFINE d == Arriving[i][1]
    <3>1. Arriving[i] \in Command
      BY <1>6
    <3>2. d \in Clients /\ Arriving[i][2] \in Nat
      BY <3>1, CommandFacts
    <3>3. /\ Arriving[i][2] <= issued[d]
          /\ d \in sending => Arriving[i][2] < issued[d]
      BY DEF ClientInv, Issued
    <3> HIDE DEF d
    <3>4. /\ Arriving[i][2] <= issued'[d]
          /\ d \in sending' => Arriving[i][2] < issued'[d]
      <4>1. CASE d = c
        BY <1>1, <3>2, <3>3, <4>1
      <4>2. CASE d # c
        BY <1>1, <3>2, <3>3, <4>2
      <4> QED BY <4>1, <4>2
    <3> QED BY <3>4 DEF d
  <2>2. ASSUME NEW d \in sending' PROVE issued'[d] # 0
    <3>1. d \in Clients /\ (d = c \/ d \in sending)
      BY <1>1
    <3> QED BY <1>1, <3>1 DEF ClientInv, Issued
  <2> QED BY <1>6, <2>1, <2>2 DEF Issued
<1>9. \A i \in DOMAIN Arriving : Arriving[i] # e
  <2> SUFFICES ASSUME NEW i \in DOMAIN Arriving, Arriving[i] = e PROVE FALSE
    OBVIOUS
  <2>1. Arriving[i][2] <= issued[Arriving[i][1]]
    BY DEF ClientInv, Issued
  <2>2. Arriving[i][1] = c /\ Arriving[i][2] = issued[c] + 1
    BY <1>3
  <2> QED BY <1>1, <2>1, <2>2
<1>10. /\ e \notin ToSet(processed) /\ e \notin ToSet(commands)
       /\ e # current
  BY <1>3, <1>9, ArrivingParts, CommandFacts DEF ClientInv
<1>11. Fates'
  <2>1. ASSUME NEW f \in Command
        PROVE  /\ outcome'[f] = "resolved" <=> f \in ToSet(processed)
               /\ outcome'[f] = "queued" <=> f \in ToSet(commands) \cup {current}
    <3>1. CASE f = e
      BY <1>3, <1>4, <1>10, <3>1 DEF ClientInv, TypeOK
    <3>2. CASE f # e
      BY <1>3, <1>4, <3>2 DEF ClientInv, TypeOK, Fates
    <3> QED BY <3>1, <3>2
  <2>2. processed' = processed /\ commands' = commands /\ current' = current
    BY <1>4 DEF queueVars, workerVars
  <2> QED BY <2>1, <2>2 DEF Fates
<1>12. WorkerState'
  BY <1>4 DEF ClientInv, WorkerState, queueVars, workerVars
<1> QED BY <1>5, <1>7, <1>8, <1>11, <1>12 DEF ClientInv

\* The command a client is pushing is newer than all of its that arrived.
LEMMA PushingIsNew ==
    ASSUME ClientInv, NEW c \in sending
    PROVE  /\ c \in Clients /\ issued[c] \in Nat
           /\ Pushing(c) \in Command /\ Pushing(c) = <<c, issued[c]>>
           /\ \A i \in DOMAIN Arriving :
                 Arriving[i][1] = c => Arriving[i][2] < issued[c]
           /\ Pushing(c) \notin ToSet(processed)
           /\ Pushing(c) \notin ToSet(commands) /\ Pushing(c) # current
<1>1. c \in Clients /\ issued[c] \in 1 .. MaxCommands /\ issued[c] \in Nat
  BY BoundsAssumption DEF ClientInv, TypeOK, Issued
<1>2. Pushing(c) \in Command /\ Pushing(c) = <<c, issued[c]>>
  BY <1>1, CommandFacts DEF Pushing
<1>3. \A i \in DOMAIN Arriving :
         Arriving[i][1] = c => Arriving[i][2] < issued[c]
  BY DEF ClientInv, Issued
<1>4. \A i \in DOMAIN Arriving : Arriving[i] # Pushing(c)
  BY <1>1, <1>2, <1>3
<1>5. /\ Pushing(c) \notin ToSet(processed)
      /\ Pushing(c) \notin ToSet(commands) /\ Pushing(c) # current
  BY <1>2, <1>4, ArrivingParts, CommandFacts DEF ClientInv
<1> QED BY <1>1, <1>2, <1>3, <1>5

\* push: the command becomes the newest one.
LEMMA PushClient ==
    ASSUME ClientInv, NEW c \in Clients, Push(c)
    PROVE  ClientInv'
<1> DEFINE e == Pushing(c)
<1>1. /\ c \in sending /\ sending' = sending \ {c} /\ issued' = issued
      /\ ~ queue_closed /\ Len(commands) < Capacity
      /\ commands' = Append(commands, e)
      /\ outcome' = [outcome EXCEPT ![e] = "queued"]
      /\ UNCHANGED <<accepting, closed, queue_closed, workerVars, controlVars>>
  BY DEF Push
<1>2. /\ e \in Command /\ e = <<c, issued[c]>> /\ issued[c] \in Nat
      /\ \A i \in DOMAIN Arriving :
            Arriving[i][1] = c => Arriving[i][2] < issued[c]
      /\ e \notin ToSet(processed) /\ e \notin ToSet(commands)
      /\ e # current
  BY <1>1, PushingIsNew
<1> HIDE DEF e
<1>3. commands \in Seq(Command) /\ Len(commands) \in Nat
  BY DEF ClientInv, TypeOK
<1>4. /\ commands' \in Seq(Command) /\ Len(commands') = Len(commands) + 1
      /\ DOMAIN commands' = 1 .. Len(commands) + 1
      /\ DOMAIN commands = 1 .. Len(commands)
      /\ \A i \in 1 .. Len(commands) : commands'[i] = commands[i]
      /\ commands'[Len(commands) + 1] = e
  BY <1>1, <1>2, <1>3, AppendProperties
<1>5. ToSet(commands') = ToSet(commands) \cup {e}
  BY <1>3, <1>4 DEF ToSet
<1>6. TypeOK'
  <2>1. Len(commands') <= Capacity
    BY <1>1, <1>3, <1>4, CapacityAssumption
  <2> QED BY <1>1, <1>2, <1>4, <2>1
          DEF ClientInv, TypeOK, workerVars, controlVars
<1>7. Arriving' = Append(Arriving, e) /\ Arriving \in Seq(Command)
  BY <1>1, <1>2, PushArrives, ArrivingParts DEF ClientInv, workerVars
<1>8. InIssueOrder(Arriving)'
  <2>1. InIssueOrder(Append(Arriving, e))
    BY <1>2, <1>7, AppendInOrder DEF ClientInv
  <2> QED BY <1>7, <2>1 DEF InIssueOrder
<1>9. Issued'
  <2>1. ASSUME NEW i \in DOMAIN Arriving'
        PROVE  /\ Arriving'[i][2] <= issued[Arriving'[i][1]]
               /\ Arriving'[i][1] \in sending' =>
                     Arriving'[i][2] < issued[Arriving'[i][1]]
    <3>1. \/ i \in DOMAIN Arriving /\ Arriving'[i] = Arriving[i]
          \/ Arriving'[i] = e
      BY <1>2, <1>7, AppendProperties
    <3>2. CASE i \in DOMAIN Arriving /\ Arriving'[i] = Arriving[i]
      BY <1>1, <3>2 DEF ClientInv, Issued
    <3>3. CASE Arriving'[i] = e
      BY <1>1, <1>2, <3>3
    <3> QED BY <3>1, <3>2, <3>3
  <2>2. \A d \in sending' : issued[d] # 0
    BY <1>1 DEF ClientInv, Issued
  <2> QED BY <1>1, <2>1, <2>2 DEF Issued
<1>10. Fates'
  <2>1. ASSUME NEW f \in Command
        PROVE  /\ outcome'[f] = "resolved" <=> f \in ToSet(processed)
               /\ outcome'[f] = "queued" <=>
                     f \in ToSet(commands) \cup {e} \cup {current}
    <3>1. CASE f = e
      BY <1>1, <1>2, <3>1 DEF ClientInv, TypeOK
    <3>2. CASE f # e
      BY <1>1, <1>2, <3>2 DEF ClientInv, TypeOK, Fates
    <3> QED BY <3>1, <3>2
  <2>2. processed' = processed /\ current' = current
    BY <1>1 DEF workerVars
  <2> QED BY <1>5, <2>1, <2>2 DEF Fates
<1>11. WorkerState'
  BY <1>1 DEF ClientInv, WorkerState, workerVars
<1> QED BY <1>6, <1>8, <1>9, <1>10, <1>11 DEF ClientInv

\* push on a closed queue: the command is gone.
LEMMA PushClosedClient ==
    ASSUME ClientInv, NEW c \in Clients, PushClosed(c)
    PROVE  ClientInv'
<1> DEFINE e == Pushing(c)
<1>1. /\ c \in sending /\ sending' = sending \ {c} /\ issued' = issued
      /\ outcome' = [outcome EXCEPT ![e] = "refused"]
      /\ UNCHANGED <<accepting, closed, queueVars, workerVars, controlVars>>
  BY DEF PushClosed
<1>2. /\ e \in Command
      /\ e \notin ToSet(processed) /\ e \notin ToSet(commands)
      /\ e # current
  BY <1>1, PushingIsNew
<1> HIDE DEF e
<1>3. TypeOK'
  BY <1>1, <1>2 DEF ClientInv, TypeOK, queueVars, workerVars, controlVars
<1>4. Arriving' = Arriving
  BY <1>1 DEF Arriving, InHand, queueVars, workerVars
<1>5. InIssueOrder(Arriving)'
  BY <1>4 DEF ClientInv, InIssueOrder
<1>6. Issued'
  BY <1>1, <1>4 DEF ClientInv, Issued
<1>7. Fates'
  <2>1. ASSUME NEW f \in Command
        PROVE  /\ outcome'[f] = "resolved" <=> f \in ToSet(processed)
               /\ outcome'[f] = "queued" <=> f \in ToSet(commands) \cup {current}
    <3>1. CASE f = e
      BY <1>1, <1>2, <3>1 DEF ClientInv, TypeOK
    <3>2. CASE f # e
      BY <1>1, <1>2, <3>2 DEF ClientInv, TypeOK, Fates
    <3> QED BY <3>1, <3>2
  <2>2. processed' = processed /\ commands' = commands /\ current' = current
    BY <1>1 DEF queueVars, workerVars
  <2> QED BY <2>1, <2>2 DEF Fates
<1>8. WorkerState'
  BY <1>1 DEF ClientInv, WorkerState, queueVars, workerVars
<1> QED BY <1>3, <1>5, <1>6, <1>7, <1>8 DEF ClientInv

\* wait_and_pop: the command changes places, not its fate.
LEMMA PopClient ==
    ASSUME ClientInv, Pop
    PROVE  ClientInv'
<1>1. /\ thread = "waiting" /\ commands # <<>> /\ thread' = "processing"
      /\ current' = Head(commands) /\ commands' = Tail(commands)
      /\ UNCHANGED <<accepting, closed, queue_closed, worker, processed,
                     outcome, clientVars, controlVars>>
  BY DEF Pop
<1>2. current = NoCommand /\ commands \in Seq(Command) /\ worker = "joinable"
  BY <1>1 DEF ClientInv, WorkerState, TypeOK
<1>3. /\ current' \in Command /\ commands' \in Seq(Command)
      /\ Len(commands') = Len(commands) - 1 /\ Len(commands) \in Nat \ {0}
      /\ DOMAIN commands = 1 .. Len(commands)
      /\ DOMAIN commands' = 1 .. Len(commands) - 1
      /\ \A i \in 1 .. Len(commands) - 1 : commands'[i] = commands[i + 1]
      /\ current' = commands[1]
  BY <1>1, <1>2, HeadTailProperties, EmptySeq
<1>4. TypeOK'
  <2>1. Len(commands') <= Capacity
    BY <1>3, CapacityAssumption DEF ClientInv, TypeOK
  <2> QED BY <1>1, <1>3, <2>1
          DEF ClientInv, TypeOK, clientVars, controlVars
<1>5. Arriving' = Arriving
  BY <1>1, <1>2, PopKeepsArriving DEF ClientInv
<1>6. InIssueOrder(Arriving)'
  BY <1>5 DEF ClientInv, InIssueOrder
<1>7. Issued'
  BY <1>1, <1>5 DEF ClientInv, Issued, clientVars
<1>8. ToSet(commands) = ToSet(commands') \cup {current'}
  <2>1. ASSUME NEW i \in 1 .. Len(commands)
        PROVE  commands[i] \in ToSet(commands') \cup {current'}
    <3>1. i = 1 \/ (i - 1 \in DOMAIN commands' /\ commands'[i - 1] = commands[i])
      BY <1>3
    <3> QED BY <1>3, <3>1 DEF ToSet
  <2>2. ASSUME NEW i \in DOMAIN commands'
        PROVE  commands'[i] \in ToSet(commands)
    <3>1. i + 1 \in DOMAIN commands /\ commands'[i] = commands[i + 1]
      BY <1>3
    <3> QED BY <3>1 DEF ToSet
  <2>3. current' \in ToSet(commands)
    BY <1>3 DEF ToSet
  <2> QED BY <1>3, <2>1, <2>2, <2>3 DEF ToSet
<1>9. Fates'
  BY <1>1, <1>2, <1>8, CommandFacts DEF ClientInv, Fates
<1>10. WorkerState'
  BY <1>1, <1>2, <1>3, CommandFacts DEF ClientInv, WorkerState
<1> QED BY <1>4, <1>6, <1>7, <1>9, <1>10 DEF ClientInv

\* process: the command has run, and is in no other place.
LEMMA ProcessClient ==
    ASSUME ClientInv, Process
    PROVE  ClientInv'
<1>1. /\ thread = "processing" /\ thread' = "waiting"
      /\ current' = NoCommand /\ processed' = Append(processed, current)
      /\ outcome' = [outcome EXCEPT ![current] = "resolved"]
      /\ UNCHANGED <<accepting, closed, queueVars, worker, clientVars,
                     controlVars>>
  BY DEF Process
<1>2. /\ current # NoCommand /\ current \in Command /\ worker = "joinable"
      /\ processed \in Seq(Command) /\ Len(processed) \in Nat
  BY <1>1 DEF ClientInv, WorkerState, TypeOK
<1>3. /\ processed' \in Seq(Command)
      /\ DOMAIN processed' = 1 .. Len(processed) + 1
      /\ DOMAIN processed = 1 .. Len(processed)
      /\ \A i \in 1 .. Len(processed) : processed'[i] = processed[i]
      /\ processed'[Len(processed) + 1] = current
  BY <1>1, <1>2, AppendProperties
<1>4. ToSet(processed') = ToSet(processed) \cup {current}
  BY <1>2, <1>3 DEF ToSet
<1>5. TypeOK'
  BY <1>1, <1>2, <1>3 DEF ClientInv, TypeOK, queueVars, clientVars, controlVars
<1>6. Arriving' = Arriving
  BY <1>1, <1>2, ProcessKeepsArriving DEF ClientInv, queueVars
<1>7. InIssueOrder(Arriving)'
  BY <1>6 DEF ClientInv, InIssueOrder
<1>8. Issued'
  BY <1>1, <1>6 DEF ClientInv, Issued, clientVars
<1>9. current \notin ToSet(commands)
  BY <1>2, InHandOnce DEF ClientInv
<1>10. Fates'
  <2>1. ASSUME NEW f \in Command
        PROVE  /\ outcome'[f] = "resolved" <=>
                     f \in ToSet(processed) \cup {current}
               /\ outcome'[f] = "queued" <=> f \in ToSet(commands)
    <3>1. CASE f = current
      BY <1>1, <1>2, <1>9, <3>1 DEF ClientInv, TypeOK
    <3>2. CASE f # current
      BY <1>1, <1>2, <3>2 DEF ClientInv, TypeOK, Fates
    <3> QED BY <3>1, <3>2
  <2>2. commands' = commands
    BY <1>1 DEF queueVars
  <2> QED BY <1>1, <1>4, <2>1, <2>2, CommandFacts DEF Fates
<1>11. WorkerState'
  BY <1>1, <1>2 DEF ClientInv, WorkerState, queueVars
<1> QED BY <1>5, <1>7, <1>8, <1>10, <1>11 DEF ClientInv
\* The worker leaves its loop.
LEMMA WorkerExitClient ==
    ASSUME ClientInv, WorkerExit
    PROVE  ClientInv'
<1>1. TypeOK'
  BY DEF ClientInv, TypeOK, WorkerExit, queueVars, clientVars, controlVars
<1>2. WorkerState'
  BY DEF ClientInv, WorkerState, WorkerExit, queueVars
<1> QED BY <1>1, <1>2, ClientKept DEF WorkerExit, queueVars, clientVars

\* A controller may be anywhere: start and stop move no command.
LEMMA ControllerClient ==
    ASSUME ClientInv, NEW k \in Controllers,
           StartCheck(k) \/ StopExchange(k) \/ ControllerStep(k)
    PROVE  ClientInv'
<1> DEFINE Kept == UNCHANGED <<commands, processed, current, outcome, issued,
                               sending>>
<1>0. TypeOK /\ WorkerState
  BY DEF ClientInv
<1>1. CASE StartCheck(k)
  <2>1. TypeOK'
    <3>1. calls' \in [Controllers -> 0 .. MaxCalls]
      BY <1>0, <1>1, BoundsAssumption DEF TypeOK, StartCheck, Calls
    <3> QED BY <1>0, <1>1, <3>1 DEF TypeOK, StartCheck, Calls, Goto,
               queueVars, workerVars, clientVars
  <2>2. WorkerState' /\ Kept
    BY <1>0, <1>1 DEF WorkerState, StartCheck, queueVars, workerVars, clientVars
  <2> QED BY <2>1, <2>2, ClientKept
<1>2. CASE StopExchange(k)
  <2>1. TypeOK'
    <3>1. calls' \in [Controllers -> 0 .. MaxCalls]
      BY <1>0, <1>2, BoundsAssumption DEF TypeOK, StopExchange, Calls
    <3> QED BY <1>0, <1>2, <3>1 DEF TypeOK, StopExchange, Calls, Goto,
               queueVars, workerVars, clientVars
  <2>2. WorkerState' /\ Kept
    BY <1>0, <1>2
       DEF WorkerState, StopExchange, queueVars, workerVars, clientVars
  <2> QED BY <2>1, <2>2, ClientKept
<1>3. CASE StartExchange(k)
  <2>1. TypeOK'
    BY <1>0, <1>3
       DEF TypeOK, StartExchange, Goto, queueVars, workerVars, clientVars
  <2>2. WorkerState' /\ Kept
    BY <1>0, <1>3
       DEF WorkerState, StartExchange, queueVars, workerVars, clientVars
  <2> QED BY <2>1, <2>2, ClientKept
<1>4. CASE StartThread(k)
  <2>1. TypeOK'
    BY <1>0, <1>4 DEF TypeOK, StartThread, Goto, queueVars, clientVars
  <2>2. WorkerState' /\ Kept
    BY <1>0, <1>4 DEF WorkerState, StartThread, queueVars, clientVars
  <2> QED BY <2>1, <2>2, ClientKept
<1>5. CASE StartThreadFails(k)
  <2>1. TypeOK'
    BY <1>0, <1>5
       DEF TypeOK, StartThreadFails, Goto, queueVars, workerVars, clientVars
  <2>2. WorkerState' /\ Kept
    BY <1>0, <1>5
       DEF WorkerState, StartThreadFails, queueVars, workerVars, clientVars
  <2> QED BY <2>1, <2>2, ClientKept
<1>6. CASE StopClosed(k)
  <2>1. TypeOK'
    BY <1>0, <1>6
       DEF TypeOK, StopClosed, Goto, queueVars, workerVars, clientVars
  <2>2. WorkerState' /\ Kept
    BY <1>0, <1>6
       DEF WorkerState, StopClosed, queueVars, workerVars, clientVars
  <2> QED BY <2>1, <2>2, ClientKept
<1>7. CASE StopQueue(k)
  <2>1. TypeOK'
    BY <1>0, <1>7 DEF TypeOK, StopQueue, Goto, workerVars, clientVars
  <2>2. WorkerState' /\ Kept
    BY <1>0, <1>7 DEF WorkerState, StopQueue, workerVars, clientVars
  <2> QED BY <2>1, <2>2, ClientKept
<1>8. CASE StopJoin(k)
  <2>1. TypeOK'
    BY <1>0, <1>8 DEF TypeOK, StopJoin, Goto, queueVars, clientVars
  <2>2. WorkerState' /\ Kept
    BY <1>0, <1>8 DEF WorkerState, StopJoin, queueVars, clientVars
  <2> QED BY <2>1, <2>2, ClientKept
<1> QED BY <1>1, <1>2, <1>3, <1>4, <1>5, <1>6, <1>7, <1>8
        DEF ControllerStep

\* No step of any thread disturbs what clients rely on.
LEMMA NextClient == ClientInv /\ [Next]_vars => ClientInv'
<1> SUFFICES ASSUME ClientInv, [Next]_vars PROVE ClientInv'
  OBVIOUS
<1>1. CASE WorkerStep
  BY <1>1, PopClient, ProcessClient, WorkerExitClient DEF WorkerStep
<1>2. ASSUME NEW c \in Clients, Enqueue(c) \/ ClientStep(c) PROVE ClientInv'
  BY <1>2, EnqueueClient, PushClient, PushClosedClient DEF ClientStep
<1>3. ASSUME NEW k \in Controllers,
             StartCheck(k) \/ StopExchange(k) \/ ControllerStep(k)
      PROVE  ClientInv'
  BY <1>3, ControllerClient
<1>4. CASE UNCHANGED vars
  <2>1. TypeOK' /\ WorkerState'
    BY <1>4 DEF ClientInv, TypeOK, WorkerState, vars
  <2> QED BY <1>4, <2>1, ClientKept DEF vars
<1> QED BY <1>1, <1>2, <1>3, <1>4 DEF Next, Quiet
-----------------------------------------------------------------------------
(* What controllers rely on is kept by every step.                         *)

\* A new runner is fresh and nobody is starting or stopping it.
LEMMA InitControl == Init => ControlInv
<1> SUFFICES ASSUME Init PROVE Lifecycle
  BY DEF ControlInv
<1>1. \A k \in Controllers : control[k] = "idle"
  BY DEF Init
<1> QED BY <1>1 DEF Init, Lifecycle, StageOf, Fresh

\* Steps of clients and of the worker do not change the stage: the worker
\* leaves only a closed queue, and the queue stays empty behind it.
LEMMA ControlKept ==
    ASSUME ControlInv,
           UNCHANGED <<accepting, closed, queue_closed, worker, controlVars>>,
           thread' = "done" => thread = "done" \/ queue_closed,
           thread = "done" => thread' = "done" /\ commands' = commands
    PROVE  ControlInv'
<1> SUFFICES ASSUME orderly PROVE Lifecycle'
  BY DEF ControlInv, controlVars
<1>1. Lifecycle
  BY DEF ControlInv
<1>2. /\ Fresh' = Fresh
      /\ Served => Served'
      /\ Over => Over'
  BY DEF Fresh, Served, Over, controlVars
<1>3. ASSUME NEW k \in Controllers PROVE StageOf(k)'
  BY <1>1, <1>2 DEF Lifecycle, StageOf, Served, controlVars
<1> QED BY <1>1, <1>2, <1>3 DEF Lifecycle, Settled, controlVars

\* A controller that is inside start or stop is the only one.
LEMMA OnlyOne ==
    ASSUME ControlInv, orderly, NEW k \in Controllers, control[k] # "idle"
    PROVE  /\ Lifecycle /\ StageOf(k)
           /\ \A j \in Controllers : j # k => control[j] = "idle"
BY DEF ControlInv, Lifecycle

\* Moving that one controller: the rest follows from its own stage.
LEMMA MoveOne ==
    ASSUME TypeOK, NEW k \in Controllers, NEW place,
           \A j \in Controllers : j # k => control[j] = "idle",
           Goto(k, place), ~ terminated', StageOf(k)',
           place \in {"idle", "start_exchange"} =>
              (IF accepting' THEN Served' ELSE Fresh' \/ Over')
    PROVE  Lifecycle'
<1>1. /\ control'[k] = place
      /\ \A j \in Controllers : j # k => control'[j] = "idle"
  BY DEF Goto, TypeOK
<1>2. \A j \in Controllers : StageOf(j)'
  BY <1>1 DEF StageOf
<1> QED BY <1>1, <1>2 DEF Lifecycle, Settled

\* start and stop, one step after the other.
LEMMA ControllerControl ==
    ASSUME ClientInv, ControlInv, NEW k \in Controllers,
           StartCheck(k) \/ StopExchange(k) \/ ControllerStep(k)
    PROVE  ControlInv'
<1> SUFFICES ASSUME orderly' PROVE Lifecycle'
  BY DEF ControlInv
<1>0. /\ TypeOK /\ WorkerState
      /\ \A place : Goto(k, place) => control'[k] = place
  BY DEF ClientInv, TypeOK, Goto
<1>1. CASE StartCheck(k)
  <2>1. orderly /\ \A j \in Controllers : control[j] = "idle"
    BY <1>1 DEF StartCheck, Calls
  <2>2. Lifecycle /\ (IF accepting THEN Served ELSE Fresh \/ Over)
    BY <2>1 DEF ControlInv, Lifecycle, Settled
  <2>3. UNCHANGED <<accepting, closed, queueVars, workerVars, stopped,
                    terminated>>
    BY <1>1 DEF StartCheck
  <2>4. CASE closed
    <3>1. Goto(k, "idle")
      BY <1>1, <2>4 DEF StartCheck
    <3>2. StageOf(k)'
      BY <1>0, <3>1 DEF StageOf
    <3> QED BY <1>0, <2>1, <2>2, <2>3, <3>1, <3>2, MoveOne
            DEF Lifecycle, Served, Fresh, Over, queueVars, workerVars
  <2>5. CASE ~ closed
    <3>1. Goto(k, "start_exchange")
      BY <1>1, <2>5 DEF StartCheck
    <3>2. StageOf(k)'
      BY <1>0, <2>3, <2>5, <3>1 DEF StageOf
    <3> QED BY <1>0, <2>1, <2>2, <2>3, <3>1, <3>2, MoveOne
            DEF Lifecycle, Served, Fresh, Over, queueVars, workerVars
  <2> QED BY <2>4, <2>5
<1>2. CASE StopExchange(k)
  <2>1. orderly /\ \A j \in Controllers : control[j] = "idle"
    BY <1>2 DEF StopExchange, Calls
  <2>2. Lifecycle /\ (IF accepting THEN Served ELSE Fresh \/ Over)
    BY <2>1 DEF ControlInv, Lifecycle, Settled
  <2>3. /\ UNCHANGED <<closed, queueVars, workerVars, stopped, terminated>>
        /\ accepting' = FALSE
    BY <1>2 DEF StopExchange
  <2>4. CASE accepting
    <3>1. Goto(k, "stop_closed")
      BY <1>2, <2>4 DEF StopExchange
    <3>2. StageOf(k)'
      BY <1>0, <2>2, <2>3, <2>4, <3>1
         DEF StageOf, Served, queueVars, workerVars
    <3> QED BY <1>0, <2>1, <2>2, <2>3, <3>1, <3>2, MoveOne DEF Lifecycle
  <2>5. CASE ~ accepting
    <3>1. Goto(k, "idle")
      BY <1>2, <2>5 DEF StopExchange
    <3>2. StageOf(k)'
      BY <1>0, <3>1 DEF StageOf
    <3> QED BY <1>0, <2>1, <2>2, <2>3, <2>5, <3>1, <3>2, MoveOne
            DEF Lifecycle, Fresh, Over, queueVars, workerVars
  <2> QED BY <2>4, <2>5
<1>3. CASE StartExchange(k)
  <2>1. orderly /\ control[k] = "start_exchange"
    BY <1>3 DEF StartExchange
  <2>2. /\ Lifecycle /\ ~ closed
        /\ \A j \in Controllers : j # k => control[j] = "idle"
        /\ IF accepting THEN Served ELSE Fresh \/ Over
    <3>1. /\ Lifecycle /\ StageOf(k)
          /\ \A j \in Controllers : j # k => control[j] = "idle"
      BY <2>1, OnlyOne
    <3> QED BY <2>1, <3>1 DEF StageOf, Lifecycle, Settled
  <2>3. /\ UNCHANGED <<closed, queueVars, workerVars, stopped, terminated>>
        /\ accepting' = TRUE
    BY <1>3 DEF StartExchange
  <2>4. CASE accepting
    <3>1. Goto(k, "idle")
      BY <1>3, <2>4 DEF StartExchange
    <3>2. StageOf(k)'
      BY <1>0, <3>1 DEF StageOf
    <3> QED BY <1>0, <2>2, <2>3, <2>4, <3>1, <3>2, MoveOne
            DEF Lifecycle, Served, queueVars, workerVars
  <2>5. CASE ~ accepting
    <3>1. Goto(k, "start_thread")
      BY <1>3, <2>5 DEF StartExchange
    <3>2. StageOf(k)'
      BY <1>0, <2>2, <2>3, <2>5, <3>1
         DEF StageOf, Fresh, Over, queueVars, workerVars
    <3> QED BY <1>0, <2>2, <2>3, <3>1, <3>2, MoveOne DEF Lifecycle
  <2> QED BY <2>4, <2>5
<1>4. CASE StartThread(k)
  <2>1. orderly /\ control[k] = "start_thread" /\ Goto(k, "idle")
    BY <1>4 DEF StartThread
  <2>2. /\ Lifecycle /\ accepting /\ Fresh
        /\ \A j \in Controllers : j # k => control[j] = "idle"
    BY <2>1, OnlyOne DEF StageOf
  <2>3. /\ UNCHANGED <<accepting, closed, queueVars, stopped, terminated>>
        /\ worker' = "joinable" /\ thread' = "waiting"
    BY <1>4, <2>2 DEF StartThread, Fresh
  <2>4. Served' /\ StageOf(k)'
    BY <1>0, <2>1, <2>2, <2>3 DEF StageOf, Served, Fresh, queueVars
  <2> QED BY <1>0, <2>1, <2>2, <2>3, <2>4, MoveOne DEF Lifecycle
<1>5. CASE StartThreadFails(k)
  BY <1>5 DEF StartThreadFails
<1>6. CASE StopClosed(k)
  <2>1. orderly /\ control[k] = "stop_closed" /\ Goto(k, "stop_queue")
    BY <1>6 DEF StopClosed
  <2>2. /\ Lifecycle /\ ~ accepting /\ Served
        /\ \A j \in Controllers : j # k => control[j] = "idle"
    BY <2>1, OnlyOne DEF StageOf
  <2>3. /\ UNCHANGED <<accepting, queueVars, workerVars, stopped, terminated>>
        /\ closed'
    BY <1>6 DEF StopClosed
  <2>4. StageOf(k)'
    BY <1>0, <2>1, <2>2, <2>3 DEF StageOf, Served, queueVars, workerVars
  <2> QED BY <1>0, <2>1, <2>2, <2>3, <2>4, MoveOne DEF Lifecycle
<1>7. CASE StopQueue(k)
  <2>1. orderly /\ control[k] = "stop_queue" /\ Goto(k, "stop_join")
    BY <1>7 DEF StopQueue
  <2>2. /\ Lifecycle /\ StageOf(k)
        /\ \A j \in Controllers : j # k => control[j] = "idle"
    BY <2>1, OnlyOne
  <2>3. /\ UNCHANGED <<accepting, closed, workerVars, stopped, terminated>>
        /\ queue_closed'
    BY <1>7 DEF StopQueue
  <2>4. StageOf(k)'
    BY <1>0, <2>1, <2>2, <2>3 DEF StageOf, workerVars
  <2> QED BY <1>0, <2>1, <2>2, <2>3, <2>4, MoveOne DEF Lifecycle
<1>8. CASE StopJoin(k)
  <2>1. orderly /\ control[k] = "stop_join" /\ Goto(k, "idle")
    BY <1>8 DEF StopJoin
  <2>2. /\ Lifecycle /\ ~ accepting /\ closed /\ queue_closed
        /\ worker = "joinable"
        /\ \A j \in Controllers : j # k => control[j] = "idle"
    BY <2>1, OnlyOne DEF StageOf
  <2>3. /\ UNCHANGED <<accepting, closed, queueVars, thread, terminated>>
        /\ thread = "done" /\ worker' = "joined" /\ stopped'
    BY <1>8, <2>2 DEF StopJoin
  <2>4. Over' /\ StageOf(k)'
    BY <1>0, <2>1, <2>2, <2>3 DEF StageOf, Over, WorkerState, queueVars
  <2> QED BY <1>0, <2>1, <2>2, <2>3, <2>4, MoveOne DEF Lifecycle
<1> QED BY <1>1, <1>2, <1>3, <1>4, <1>5, <1>6, <1>7, <1>8
        DEF ControllerStep

\* No step of any thread disturbs what controllers rely on.
LEMMA NextControl ==
    ClientInv /\ ControlInv /\ [Next]_vars => ControlInv'
<1> SUFFICES ASSUME ClientInv, ControlInv, [Next]_vars PROVE ControlInv'
  OBVIOUS
<1>1. CASE Pop
  BY <1>1, ControlKept DEF Pop
<1>2. CASE Process
  BY <1>2, ControlKept DEF Process, queueVars
<1>3. CASE WorkerExit
  BY <1>3, ControlKept DEF WorkerExit, queueVars
<1>4. ASSUME NEW c \in Clients, Enqueue(c) PROVE ControlInv'
  BY <1>4, ControlKept DEF Enqueue, queueVars, workerVars
<1>5. ASSUME NEW c \in Clients, Push(c) PROVE ControlInv'
  <2>1. thread # "done"
    BY <1>5 DEF Push, ClientInv, WorkerState
  <2> QED BY <1>5, <2>1, ControlKept DEF Push, workerVars
<1>6. ASSUME NEW c \in Clients, PushClosed(c) PROVE ControlInv'
  BY <1>6, ControlKept DEF PushClosed, queueVars, workerVars
<1>7. ASSUME NEW k \in Controllers,
             StartCheck(k) \/ StopExchange(k) \/ ControllerStep(k)
      PROVE  ControlInv'
  BY <1>7, ControllerControl
<1>8. CASE UNCHANGED vars
  BY <1>8, ControlKept DEF vars, controlVars
<1> QED BY <1>1, <1>2, <1>3, <1>4, <1>5, <1>6, <1>7, <1>8
        DEF Next, WorkerStep, ClientStep, Quiet

-----------------------------------------------------------------------------
(* Theorems.                                                               *)

\* The inductive invariant holds in every state of every runner.
THEOREM Inductive == Spec => [](ClientInv /\ ControlInv)
<1>1. Init => ClientInv /\ ControlInv
  BY InitClient, InitControl
<1>2. ClientInv /\ ControlInv /\ [Next]_vars => (ClientInv /\ ControlInv)'
  BY NextClient, NextControl
<1> QED BY <1>1, <1>2, PTL DEF Spec

\* Every variable of the runner keeps its type; in particular the queue never
\* holds more than command_capacity commands.
THEOREM TypeCorrect == Spec => []TypeOK
<1>1. ClientInv /\ ControlInv => TypeOK
  BY DEF ClientInv
<1> QED BY <1>1, Inductive, PTL

\* However enqueue, the worker and stop interleave: a promise is fulfilled
\* exactly when the engine has run its command, no command runs twice, and a
\* refused one never runs.
THEOREM CommandsHaveOneFate == Spec => []OneFate
<1>1. ClientInv /\ ControlInv => OneFate
  <2> SUFFICES ASSUME ClientInv PROVE OneFate
    OBVIOUS
  <2>1. ASSUME NEW i \in DOMAIN processed
        PROVE  i \in DOMAIN Arriving /\ Arriving[i] = processed[i]
    BY ProcessedFirst DEF ClientInv
  <2>2. Arriving \in Seq(Command)
    BY ArrivingParts DEF ClientInv
  <2>3. ASSUME NEW i \in DOMAIN processed, NEW j \in DOMAIN processed,
               processed[i] = processed[j]
        PROVE  i = j
    BY <2>1, <2>2, <2>3, OrderIsInjective DEF ClientInv
  <2> QED BY <2>3 DEF OneFate, IsInjective, ClientInv, Fates
<1> QED BY <1>1, Inductive, PTL

\* The worker runs the commands of a client in the order in which it called
\* submit, update, cancel and snapshot, for any number of clients.
THEOREM OrderKept == Spec => []ClientOrderKept
<1>1. ClientInv /\ ControlInv => ClientOrderKept
  BY DEF ClientInv, ClientOrderKept, InIssueOrder, Arriving, InHand
<1> QED BY <1>1, Inductive, PTL

\* Where the controllers are, seen from the flag `stopped'.
LEMMA StoppedIsOver ==
    ASSUME ClientInv, ControlInv, orderly, stopped
    PROVE  Over /\ ~ accepting
<1>1. Lifecycle
  BY DEF ControlInv
<1>2. Settled
  <2>1. ASSUME NEW k \in Controllers
        PROVE  control[k] \in {"idle", "start_exchange"}
    BY <1>1 DEF Lifecycle, StageOf, Fresh, Served, ClientInv, TypeOK
  <2> QED BY <2>1 DEF Settled
<1> QED BY <1>1, <1>2 DEF Lifecycle, Served, Fresh

\* When stop returns to controllers that take turns, everything that got into
\* the queue has been answered and the worker has been joined.
THEOREM StopHasDrained == Spec => []StopDrains
<1>1. ClientInv /\ ControlInv => StopDrains
  <2> SUFFICES ASSUME ClientInv, ControlInv, orderly, stopped
               PROVE  /\ commands = <<>>
                      /\ \A command \in Command : outcome[command] # "queued"
                      /\ thread = "done" /\ worker = "joined"
    BY DEF StopDrains
  <2>1. commands = <<>> /\ thread = "done" /\ worker = "joined"
    BY StoppedIsOver DEF Over
  <2>2. current = NoCommand
    BY <2>1 DEF ClientInv, WorkerState
  <2>3. ASSUME NEW command \in Command PROVE outcome[command] # "queued"
    <3>1. command \notin ToSet(commands) \cup {current}
      BY <2>1, <2>2, CommandFacts DEF ToSet
    <3> QED BY <3>1 DEF ClientInv, Fates
  <2> QED BY <2>1, <2>3
<1> QED BY <1>1, Inductive, PTL

\* Controllers that take turns never make start assign to a joinable
\* std::thread, and never leave one behind in a runner that was stopped.
THEOREM NoTerminate == Spec => []NeverTerminates
<1>1. ClientInv /\ ControlInv => NeverTerminates
  BY StoppedIsOver DEF NeverTerminates, ControlInv, Lifecycle, Over
<1> QED BY <1>1, Inductive, PTL

\* running() does not lie to controllers that take turns: it is true only
\* while a worker serves the queue, or while start is creating it.
THEOREM RunningIsServed == Spec => []RunningMeansServed
<1>1. ClientInv /\ ControlInv => RunningMeansServed
  <2> SUFFICES ASSUME ClientInv, ControlInv, orderly, accepting,
                      \A k \in Controllers : control[k] # "start_thread"
               PROVE  worker = "joinable" /\ thread # "done"
    BY DEF RunningMeansServed
  <2>1. Lifecycle
    BY DEF ControlInv
  <2>2. Settled
    BY <2>1 DEF Lifecycle, StageOf, Settled, ClientInv, TypeOK
  <2> QED BY <2>1, <2>2 DEF Lifecycle, Served
<1> QED BY <1>1, Inductive, PTL

\* A runner that was stopped never accepts again, as runner.cpp:52 promises,
\* as long as start and stop do not overlap and threads can be made: the
\* behaviour that RunnerRestart shows needs such an overlap.
THEOREM NotRestartedInTurn == Spec => [](orderly => NotRestarted)
<1>1. ClientInv /\ ControlInv => (orderly => NotRestarted)
  BY StoppedIsOver DEF NotRestarted
<1> QED BY <1>1, Inductive, PTL
-----------------------------------------------------------------------------
(* What becomes of a command, step by step.                                *)

\* A command is unsent exactly until it is issued, and the one that a client
\* is pushing has no answer yet.
Numbered ==
    /\ \A f \in Command : outcome[f] = "unsent" <=> issued[f[1]] < f[2]
    /\ \A c \in sending : outcome[Pushing(c)] = "pushing"

\* The only ways an outcome may change: a promise is made once, and once it is
\* fulfilled or dropped that is final.
OutcomeSteps ==
    \A f \in Command :
        \/ outcome'[f] = outcome[f]
        \/ outcome[f] = "unsent" /\ outcome'[f] \in {"pushing", "refused"}
        \/ outcome[f] = "pushing" /\ outcome'[f] \in {"queued", "refused"}
        \/ outcome[f] = "queued" /\ outcome'[f] = "resolved"

\* enqueue issues a command nobody has issued before.
LEMMA EnqueueNumbered ==
    ASSUME ClientInv, Numbered, NEW c \in Clients, Enqueue(c)
    PROVE  Numbered' /\ OutcomeSteps
<1> DEFINE e == NextCommand(c)
<1>1. /\ issued \in [Clients -> 0 .. MaxCommands]
      /\ \A d \in Clients : issued[d] \in Nat
      /\ outcome \in [Command ->
            {"unsent", "pushing", "queued", "refused", "resolved"}]
      /\ issued[c] < MaxCommands /\ MaxCommands \in Nat
      /\ issued' = [issued EXCEPT ![c] = issued[c] + 1]
      /\ c \notin sending /\ sending \subseteq Clients
  BY BoundsAssumption DEF ClientInv, TypeOK, Enqueue
<1>2. e \in Command /\ e[1] = c /\ e[2] = issued[c] + 1
  BY <1>1, CommandFacts DEF NextCommand
<1>3. outcome[e] = "unsent"
  BY <1>1, <1>2 DEF Numbered
<1>4. PICK o \in {"pushing", "refused"} :
         /\ outcome' = [outcome EXCEPT ![e] = o]
         /\ sending' = IF o = "pushing" THEN sending \cup {c} ELSE sending
  BY DEF Enqueue
<1>5. OutcomeSteps
  BY <1>1, <1>2, <1>3, <1>4 DEF OutcomeSteps
<1>6. Pushing(c)' = e
  BY <1>1 DEF Pushing, NextCommand
<1> HIDE DEF e
<1>7. ASSUME NEW f \in Command
      PROVE  outcome'[f] = "unsent" <=> issued'[f[1]] < f[2]
  <2>1. f[1] \in Clients /\ f[2] \in Nat /\ f = <<f[1], f[2]>>
    BY CommandFacts
  <2>2. CASE f = e
    BY <1>1, <1>2, <1>4, <2>2
  <2>3. CASE f # e /\ f[1] = c
    <3>1. f[2] # issued[c] + 1
      BY <1>2, <2>1, <2>3, CommandFacts
    <3> QED BY <1>1, <1>4, <2>1, <2>3, <3>1 DEF Numbered
  <2>4. CASE f[1] # c
    BY <1>1, <1>2, <1>4, <2>1, <2>4 DEF Numbered
  <2> QED BY <2>2, <2>3, <2>4
<1>8. ASSUME NEW d \in sending' PROVE outcome'[Pushing(d)'] = "pushing"
  <2>1. CASE d = c
    BY <1>1, <1>2, <1>4, <1>6, <1>8, <2>1
  <2>2. CASE d # c
    <3>1. d \in sending /\ Pushing(d)' = Pushing(d) /\ Pushing(d) # e
      BY <1>1, <1>2, <1>4, <2>2 DEF Pushing
    <3>2. Pushing(d) \in Command
      BY <3>1, PushingIsNew
    <3> QED BY <1>1, <1>4, <3>1, <3>2 DEF Numbered
  <2> QED BY <2>1, <2>2
<1> QED BY <1>5, <1>7, <1>8 DEF Numbered

\* Every later change of an outcome is to a command that has been issued.
LEMMA AnswerNumbered ==
    ASSUME ClientInv, Numbered, NEW e \in Command, NEW o,
           outcome[e] # "unsent", o # "unsent",
           outcome' = [outcome EXCEPT ![e] = o], issued' = issued,
           sending' \subseteq sending, \A c \in sending' : Pushing(c) # e
    PROVE  Numbered'
<1>1. outcome \in [Command ->
         {"unsent", "pushing", "queued", "refused", "resolved"}]
  BY DEF ClientInv, TypeOK
<1>2. ASSUME NEW c \in sending' PROVE outcome'[Pushing(c)'] = "pushing"
  <2>1. c \in sending /\ Pushing(c)' = Pushing(c)
    BY DEF Pushing
  <2>2. Pushing(c) \in Command
    BY <2>1, PushingIsNew
  <2> QED BY <1>1, <2>1, <2>2 DEF Numbered
<1>3. ASSUME NEW f \in Command
      PROVE  outcome'[f] = "unsent" <=> issued'[f[1]] < f[2]
  BY <1>1 DEF Numbered
<1> QED BY <1>2, <1>3 DEF Numbered

\* Clients push different commands.
LEMMA PushingDiffer ==
    ASSUME NEW c, NEW d, Pushing(c) = Pushing(d)
    PROVE  c = d
BY DEF Pushing

\* No step of any thread gives a command a second answer.
LEMMA NextNumbered ==
    ASSUME ClientInv, Numbered, [Next]_vars
    PROVE  Numbered' /\ OutcomeSteps
<1>1. outcome \in [Command ->
         {"unsent", "pushing", "queued", "refused", "resolved"}]
  BY DEF ClientInv, TypeOK
<1>2. ASSUME UNCHANGED <<outcome, issued, sending>>
      PROVE  Numbered' /\ OutcomeSteps
  BY <1>2 DEF Numbered, OutcomeSteps, Pushing
<1>3. ASSUME NEW c \in Clients, ClientStep(c)
      PROVE  Numbered' /\ OutcomeSteps
  <2>1. /\ c \in sending /\ sending' = sending \ {c} /\ issued' = issued
        /\ \E o \in {"queued", "refused"} :
              outcome' = [outcome EXCEPT ![Pushing(c)] = o]
    BY <1>3 DEF ClientStep, Push, PushClosed
  <2>2. outcome[Pushing(c)] = "pushing" /\ Pushing(c) \in Command
    BY <2>1, PushingIsNew DEF Numbered
  <2>3. OutcomeSteps
    BY <1>1, <2>1, <2>2 DEF OutcomeSteps
  <2>4. \A d \in sending' : Pushing(d) # Pushing(c)
    BY <2>1, PushingDiffer
  <2>5. Numbered'
    BY <2>1, <2>2, <2>4, AnswerNumbered
  <2> QED BY <2>3, <2>5
<1>4. CASE Process
  <2>1. /\ current # NoCommand /\ current \in Command
        /\ outcome' = [outcome EXCEPT ![current] = "resolved"]
        /\ issued' = issued /\ sending' = sending
    BY <1>4 DEF Process, ClientInv, WorkerState, TypeOK, clientVars
  <2>2. outcome[current] = "queued"
    BY <2>1 DEF ClientInv, Fates
  <2>3. OutcomeSteps
    BY <1>1, <2>1, <2>2 DEF OutcomeSteps
  <2>4. \A d \in sending' : Pushing(d) # current
    BY <2>1, PushingIsNew
  <2>5. Numbered'
    BY <2>1, <2>2, <2>4, AnswerNumbered
  <2> QED BY <2>3, <2>5
<1>5. CASE Pop \/ WorkerExit
  BY <1>2, <1>5 DEF Pop, WorkerExit, clientVars
<1>6. ASSUME NEW k \in Controllers,
             StartCheck(k) \/ StopExchange(k) \/ ControllerStep(k)
      PROVE  UNCHANGED <<outcome, issued, sending>>
  BY <1>6 DEF StartCheck, StopExchange, ControllerStep, StartExchange,
              StartThread, StartThreadFails, StopClosed, StopQueue, StopJoin,
              clientVars
<1>7. CASE UNCHANGED vars
  BY <1>2, <1>7 DEF vars
<1> QED BY <1>2, <1>3, <1>4, <1>5, <1>6, <1>7, EnqueueNumbered
        DEF Next, WorkerStep, Quiet

\* A promise is fulfilled or dropped once: whatever start, stop and the other
\* clients do meanwhile, an answer that a client got never changes, and a
\* command is only answered with a result after it was in the queue.
THEOREM AnswersAreFinal == Spec => [][OutcomeSteps]_vars
<1>1. Init => Numbered
  <2> SUFFICES ASSUME Init PROVE Numbered
    OBVIOUS
  <2>1. ASSUME NEW f \in Command
        PROVE  outcome[f] = "unsent" /\ issued[f[1]] < f[2]
    BY CommandFacts, BoundsAssumption DEF Init
  <2> QED BY <2>1 DEF Init, Numbered
<1>2. ClientInv /\ Numbered /\ [Next]_vars => Numbered'
  BY NextNumbered
<1>3. ClientInv /\ Numbered /\ [Next]_vars => [OutcomeSteps]_vars
  BY NextNumbered
<1>4. Spec => []ClientInv
  BY Inductive, PTL
<1> QED BY <1>1, <1>2, <1>3, <1>4, PTL DEF Spec
=============================================================================
