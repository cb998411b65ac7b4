------------------------------- MODULE Runner -------------------------------
(***************************************************************************)
(* class runner (components/matching/runtime): clients on any thread send  *)
(* commands through a bounded blocking queue to one worker thread, which   *)
(* runs them on the engine and fulfils a promise for each; controllers     *)
(* start and stop the worker.  A step of this module is an access to state *)
(* that threads share: an atomic, the queue, the std::thread object, a     *)
(* promise.                                                                *)
(*                                                                         *)
(* The queue is ObzLib's bounded_blocking_queue, which is not part of the  *)
(* repository.  It is modelled from its use: push blocks while the queue   *)
(* is full and does not enqueue once it is closed; wait_and_pop blocks     *)
(* while it is empty and open, hands out what is left after close, then    *)
(* returns false.                                                          *)
(***************************************************************************)
EXTENDS Integers, SequencesExt

CONSTANTS
    Clients,        \* threads that call submit, update, cancel or snapshot
    Controllers,    \* threads that call start and stop
    Capacity,       \* command_capacity
    MaxCommands,    \* bound: commands of one client
    MaxCalls,       \* bound: start and stop calls of one controller
    ThreadMayFail   \* may the construction of a std::thread throw?

ASSUME CapacityAssumption == Capacity \in Nat \ {0}
ASSUME BoundsAssumption == MaxCommands \in Nat /\ MaxCalls \in Nat
ASSUME ThreadMayFailAssumption == ThreadMayFail \in BOOLEAN

VARIABLES
    accepting,     \* atomic flag
    closed,        \* atomic flag
    commands,      \* the queue
    queue_closed,  \* the queue's own flag, set by commands.close()
    worker,        \* the std::thread member: "none", "joinable", "joined"
    thread,        \* the thread behind it: "none", "waiting", "processing",
                   \* "done"
    current,       \* the command it is processing
    processed,     \* the commands the engine has run, in order
    outcome,       \* what has become of each command
    issued,        \* the number of commands each client has issued
    sending,       \* clients inside enqueue, past its check
    calls,         \* the number of calls each controller has made
    control,       \* where each controller is
    stopped,       \* a stop that found the runner accepting has returned
    terminated,    \* std::terminate was called
    orderly        \* history: start and stop were never called while another
                   \* call of theirs was under way, and no thread failed

vars == <<accepting, closed, commands, queue_closed, worker, thread, current,
          processed, outcome, issued, sending, calls, control, stopped,
          terminated, orderly>>

queueVars == <<commands, queue_closed>>
workerVars == <<worker, thread, current, processed>>
clientVars == <<issued, sending>>
controlVars == <<calls, control, stopped, terminated, orderly>>

Command == Clients \X (1 .. MaxCommands)
NoCommand == <<>>

\* The command a client is about to issue, or is pushing.
NextCommand(c) == <<c, issued[c] + 1>>
Pushing(c) == <<c, issued[c]>>

Init ==
    /\ accepting = FALSE /\ closed = FALSE
    /\ commands = <<>> /\ queue_closed = FALSE
    /\ worker = "none" /\ thread = "none" /\ current = NoCommand
    /\ processed = <<>>
    /\ outcome = [command \in Command |-> "unsent"]
    /\ issued = [c \in Clients |-> 0]
    /\ sending = {}
    /\ calls = [k \in Controllers |-> 0]
    /\ control = [k \in Controllers |-> "idle"]
    /\ stopped = FALSE /\ terminated = FALSE /\ orderly = TRUE

-----------------------------------------------------------------------------
(* Clients: submit, update, cancel and snapshot make a promise and enqueue *)
(* it.  The flag is read first, the queue is touched later.                *)

Enqueue(c) ==
    /\ c \notin sending
    /\ issued[c] < MaxCommands
    /\ issued' = [issued EXCEPT ![c] = @ + 1]
    /\ IF accepting
       THEN /\ sending' = sending \cup {c}
            /\ outcome' = [outcome EXCEPT ![NextCommand(c)] = "pushing"]
       ELSE /\ outcome' = [outcome EXCEPT ![NextCommand(c)] = "refused"]
            /\ UNCHANGED sending
    /\ UNCHANGED <<accepting, closed, queueVars, workerVars, controlVars>>

\* Mutant: the queue has no bound.
PushUnbounded(c) ==
    /\ c \in sending
    /\ ~ queue_closed
    /\ commands' = Append(commands, Pushing(c))
    /\ outcome' = [outcome EXCEPT ![Pushing(c)] = "queued"]
    /\ sending' = sending \ {c}
    /\ UNCHANGED <<accepting, closed, queue_closed, workerVars, issued,
                   controlVars>>

Push(c) ==
    /\ c \in sending
    /\ ~ queue_closed /\ Len(commands) < Capacity
    /\ commands' = Append(commands, Pushing(c))
    /\ outcome' = [outcome EXCEPT ![Pushing(c)] = "queued"]
    /\ sending' = sending \ {c}
    /\ UNCHANGED <<accepting, closed, queue_closed, workerVars, issued,
                   controlVars>>

\* The result of push is ignored: the command is destroyed with its promise,
\* and the client holds a future that reports a broken promise (or push
\* threw); either way the command will never run.
PushClosed(c) ==
    /\ c \in sending
    /\ queue_closed
    /\ outcome' = [outcome EXCEPT ![Pushing(c)] = "refused"]
    /\ sending' = sending \ {c}
    /\ UNCHANGED <<accepting, closed, queueVars, workerVars, issued,
                   controlVars>>

-----------------------------------------------------------------------------
(* The worker: run and process.                                            *)

\* Mutant: the command is read but stays in the queue.
PopKeeps ==
    /\ thread = "waiting"
    /\ commands # <<>>
    /\ current' = Head(commands)
    /\ thread' = "processing"
    /\ UNCHANGED <<accepting, closed, queueVars, worker, processed, outcome,
                   clientVars, controlVars>>

\* Mutant: the newest command comes first.
PopLast ==
    /\ thread = "waiting"
    /\ commands # <<>>
    /\ current' = Last(commands)
    /\ commands' = Front(commands)
    /\ thread' = "processing"
    /\ UNCHANGED <<accepting, closed, queue_closed, worker, processed, outcome,
                   clientVars, controlVars>>

Pop ==
    /\ thread = "waiting"
    /\ commands # <<>>
    /\ current' = Head(commands)
    /\ commands' = Tail(commands)
    /\ thread' = "processing"
    /\ UNCHANGED <<accepting, closed, queue_closed, worker, processed, outcome,
                   clientVars, controlVars>>

\* The engine runs the command; its events or its exception go to the promise.
Process ==
    /\ thread = "processing"
    /\ processed' = Append(processed, current)
    /\ outcome' = [outcome EXCEPT ![current] = "resolved"]
    /\ current' = NoCommand
    /\ thread' = "waiting"
    /\ UNCHANGED <<accepting, closed, queueVars, worker, clientVars,
                   controlVars>>

\* Mutant: the worker leaves as soon as the queue is closed.
WorkerExitEarly ==
    /\ thread = "waiting"
    /\ queue_closed
    /\ thread' = "done"
    /\ UNCHANGED <<accepting, closed, queueVars, worker, current, processed,
                   outcome, clientVars, controlVars>>

\* wait_and_pop returns false.
WorkerExit ==
    /\ thread = "waiting"
    /\ commands = <<>> /\ queue_closed
    /\ thread' = "done"
    /\ UNCHANGED <<accepting, closed, queueVars, worker, current, processed,
                   outcome, clientVars, controlVars>>

-----------------------------------------------------------------------------
(* Controllers.                                                            *)

Goto(k, place) == control' = [control EXCEPT ![k] = place]

Calls(k) ==
    /\ control[k] = "idle"
    /\ calls[k] < MaxCalls
    /\ calls' = [calls EXCEPT ![k] = @ + 1]
    /\ orderly' = (orderly /\ \A j \in Controllers : control[j] = "idle")

\* start throws "runner cannot be restarted after stop", or goes on.
StartCheck(k) ==
    /\ Calls(k)
    /\ Goto(k, IF closed THEN "idle" ELSE "start_exchange")
    /\ UNCHANGED <<accepting, closed, queueVars, workerVars, outcome,
                   clientVars, stopped, terminated>>

\* The compare-exchange: "runner is already running", or goes on.
StartExchange(k) ==
    /\ control[k] = "start_exchange"
    /\ accepting' = TRUE
    /\ Goto(k, IF accepting THEN "idle" ELSE "start_thread")
    /\ UNCHANGED <<closed, queueVars, workerVars, outcome, clientVars, calls,
                   stopped, terminated, orderly>>

\* worker = std::thread(...): assigning to a joinable std::thread terminates.
StartThread(k) ==
    /\ control[k] = "start_thread"
    /\ Goto(k, "idle")
    /\ IF worker = "joinable"
       THEN terminated' = TRUE /\ UNCHANGED <<worker, thread>>
       ELSE /\ worker' = "joinable" /\ thread' = "waiting"
            /\ UNCHANGED terminated
    /\ UNCHANGED <<accepting, closed, queueVars, current, processed, outcome,
                   clientVars, calls, stopped, orderly>>

\* The constructor of std::thread throws out of start.
StartThreadFails(k) ==
    /\ ThreadMayFail
    /\ control[k] = "start_thread"
    /\ Goto(k, "idle")
    /\ orderly' = FALSE
    /\ UNCHANGED <<accepting, closed, queueVars, workerVars, outcome,
                   clientVars, calls, stopped, terminated>>

\* Mutant: the flag is read and not cleared.
StopExchangeLoads(k) ==
    /\ Calls(k)
    /\ Goto(k, IF accepting THEN "stop_closed" ELSE "idle")
    /\ UNCHANGED <<accepting, closed, queueVars, workerVars, outcome,
                   clientVars, stopped, terminated>>

\* stop returns at once unless it is the one that clears the flag.
StopExchange(k) ==
    /\ Calls(k)
    /\ accepting' = FALSE
    /\ Goto(k, IF accepting THEN "stop_closed" ELSE "idle")
    /\ UNCHANGED <<closed, queueVars, workerVars, outcome, clientVars,
                   stopped, terminated>>

StopClosed(k) ==
    /\ control[k] = "stop_closed"
    /\ closed' = TRUE
    /\ Goto(k, "stop_queue")
    /\ UNCHANGED <<accepting, queueVars, workerVars, outcome, clientVars,
                   calls, stopped, terminated, orderly>>

\* Mutant: the queue is not closed.
StopQueueForgotten(k) ==
    /\ control[k] = "stop_queue"
    /\ Goto(k, "stop_join")
    /\ UNCHANGED <<accepting, closed, queueVars, workerVars, outcome,
                   clientVars, calls, stopped, terminated, orderly>>

StopQueue(k) ==
    /\ control[k] = "stop_queue"
    /\ queue_closed' = TRUE
    /\ Goto(k, "stop_join")
    /\ UNCHANGED <<accepting, closed, commands, workerVars, outcome,
                   clientVars, calls, stopped, terminated, orderly>>

\* Mutant: stop does not join.
StopJoinSkipped(k) ==
    /\ control[k] = "stop_join"
    /\ stopped' = TRUE
    /\ Goto(k, "idle")
    /\ UNCHANGED <<accepting, closed, queueVars, workerVars, outcome,
                   clientVars, calls, terminated, orderly>>

\* join waits for the thread, if there is one to join.
StopJoin(k) ==
    /\ control[k] = "stop_join"
    /\ worker = "joinable" => thread = "done"
    /\ worker' = IF worker = "joinable" THEN "joined" ELSE worker
    /\ stopped' = TRUE
    /\ Goto(k, "idle")
    /\ UNCHANGED <<accepting, closed, queueVars, thread, current, processed,
                   outcome, clientVars, calls, terminated, orderly>>

-----------------------------------------------------------------------------
ClientStep(c) == Push(c) \/ PushClosed(c)

WorkerStep == Pop \/ Process \/ WorkerExit

ControllerStep(k) ==
    \/ StartExchange(k) \/ StartThread(k) \/ StartThreadFails(k)
    \/ StopClosed(k) \/ StopQueue(k) \/ StopJoin(k)

\* Nobody has anything left to do, and nobody is waiting.
Quiet ==
    /\ sending = {}
    /\ \A k \in Controllers : control[k] = "idle" /\ calls[k] = MaxCalls
    /\ \A c \in Clients : issued[c] = MaxCommands
    /\ commands = <<>>
    /\ UNCHANGED vars

Next ==
    \/ /\ ~ terminated
       /\ \/ WorkerStep
          \/ \E c \in Clients : Enqueue(c) \/ ClientStep(c)
          \/ \E k \in Controllers :
                StartCheck(k) \/ StopExchange(k) \/ ControllerStep(k)
    \/ Quiet
    \/ terminated /\ UNCHANGED vars

\* A thread that is inside a call, and can go on, goes on; nobody has to call.
Fairness ==
    /\ WF_vars(~ terminated /\ WorkerStep)
    /\ \A c \in Clients : WF_vars(~ terminated /\ ClientStep(c))
    /\ \A k \in Controllers : WF_vars(~ terminated /\ ControllerStep(k))

Spec == Init /\ [][Next]_vars /\ Fairness

-----------------------------------------------------------------------------
(* Properties.                                                             *)

TypeOK ==
    /\ accepting \in BOOLEAN /\ closed \in BOOLEAN /\ queue_closed \in BOOLEAN
    /\ commands \in Seq(Command) /\ Len(commands) <= Capacity
    /\ worker \in {"none", "joinable", "joined"}
    /\ thread \in {"none", "waiting", "processing", "done"}
    /\ current \in Command \cup {NoCommand}
    /\ processed \in Seq(Command)
    /\ outcome \in [Command ->
          {"unsent", "pushing", "queued", "refused", "resolved"}]
    /\ issued \in [Clients -> 0 .. MaxCommands]
    /\ sending \subseteq Clients
    /\ calls \in [Controllers -> 0 .. MaxCalls]
    /\ control \in [Controllers ->
          {"idle", "start_exchange", "start_thread", "stop_closed",
           "stop_queue", "stop_join"}]
    /\ stopped \in BOOLEAN /\ terminated \in BOOLEAN /\ orderly \in BOOLEAN

\* Every command is run at most once and has exactly one fate: a promise is
\* fulfilled exactly for the commands the engine has run, and a command that
\* was refused is neither queued nor run, whatever stop was doing between its
\* check of the flag and its push.
OneFate ==
    /\ IsInjective(processed)
    /\ \A command \in Command :
          /\ outcome[command] = "resolved" <=> command \in ToSet(processed)
          /\ outcome[command] = "queued" <=>
                command \in ToSet(commands) \cup {current}

\* The engine runs the commands of a client in the order it issued them.
ClientOrderKept ==
    LET arriving == processed \o (IF current = NoCommand THEN <<>>
                                  ELSE <<current>>) \o commands
    IN  \A i, j \in DOMAIN arriving :
            i < j /\ arriving[i][1] = arriving[j][1] =>
                arriving[i][2] < arriving[j][2]

\* runner_tests.cpp, "matching runner stop drains queued commands": when stop
\* returns, every command that got into the queue has been answered, and the
\* worker is gone.  This and what follows is promised to controllers that
\* take turns, on whichever threads they are, and while threads can be
\* created; RunnerRestart shows what becomes of it otherwise.
StopDrains ==
    orderly /\ stopped /\ worker # "none" =>
        /\ commands = <<>>
        /\ \A command \in Command : outcome[command] # "queued"
        /\ thread = "done" /\ worker = "joined"

\* runner.cpp:52, "runner cannot be restarted after stop".
NotRestarted == stopped => ~ accepting

\* No std::thread is overwritten or left behind while it is joinable and its
\* runner is out of use: std::terminate is never called.
NeverTerminates ==
    orderly => ~ terminated /\ (stopped => worker # "joinable")

\* running() is true only while a worker serves the queue, apart from the
\* moment inside start in which the thread is being created.
RunningMeansServed ==
    orderly /\ accepting
    /\ (\A k \in Controllers : control[k] # "start_thread") =>
        worker = "joinable" /\ thread # "done"

\* Every future of a command that got into the queue becomes ready.
FuturesBecomeReady ==
    \A command \in Command :
        outcome[command] = "queued" ~>
            outcome[command] = "resolved" \/ ~ orderly

\* Nobody hangs: a push that blocks on a full queue ends, also when the
\* runner is stopped meanwhile, and stop itself returns.
CallsReturn ==
    /\ \A c \in Clients : c \in sending ~> c \notin sending \/ ~ orderly
    /\ \A k \in Controllers :
          control[k] # "idle" ~> control[k] = "idle" \/ ~ orderly
=============================================================================
