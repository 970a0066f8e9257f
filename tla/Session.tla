------------------------------ MODULE Session -------------------------------
(***************************************************************************)
(* The Tokio client of openvpn-connect/src/tokio.rs, on top of the         *)
(* synchronous client (module Client), whose actions its threads take.     *)
(*                                                                         *)
(* Tasks call the asynchronous API and may drop any future they await.     *)
(* `setup` is a Tokio mutex: configuration closures run on the blocking    *)
(* pool with its guard moved into them, and connect() keeps it until Core  *)
(* has reported `started`.  A session has a worker (the blocking thread    *)
(* inside connect_with_started) and a driver (the task that selects over   *)
(* the worker's end, the cancellation token and a bounded command          *)
(* channel).  The runtime itself stays up: a task is never aborted at an   *)
(* await point by a runtime shutdown.                                      *)
(***************************************************************************)
EXTENDS Client, Sequences

CONSTANTS
    Tasks,      \* application tasks sharing the client
    Worker,     \* the blocking thread that runs connect_with_started
    Driver,     \* the session's driver task
    Blocking,   \* the blocking-pool thread that runs setup closures
    Capacity    \* command_capacity, at least 1 by ClientBuilder

ASSUME SessionAssumption ==
    /\ Threads = Tasks \cup {Worker, Driver, Blocking}
    /\ Worker \notin Tasks /\ Driver \notin Tasks /\ Blocking \notin Tasks
    /\ Worker # Driver /\ Worker # Blocking /\ Driver # Blocking
    /\ Capacity \in Nat \ {0}

VARIABLES
    setup,           \* who holds the setup mutex: a task, Blocking, or nobody
    session_active,  \* Client.session_active
    closure,         \* the setup closure handed to the blocking pool
    task,            \* what each task is awaiting
    request,         \* the kind of command a task is sending
    worker,          \* the session's blocking task
    started,         \* the oneshot on which the worker reports `started`
    driver,          \* where the driver is
    current,         \* the command the driver is executing
    commands,        \* the bounded command channel
    commands_open,   \* the driver's flag of that name
    token,           \* the cancellation token is cancelled
    completion,      \* the oneshot that carries the session's result
    session,         \* the Session value handed to the application
    holders          \* tasks that own a SessionHandle

asyncVars == <<setup, session_active, closure, task, request, worker, started,
               driver, current, commands, commands_open, token, completion,
               session, holders>>
sessionVars == <<clientVars, asyncVars>>

(* Stop, the commands executed inline, and the two certificate checks that *)
(* the driver awaits on the blocking pool.                                 *)
Kinds == {"stop", "control", "cert_check"}

(* A command carries its reply channel: the awaiting task, or NoThread     *)
(* when that task dropped the future.                                      *)
CommandSet == [reply : Tasks \cup {NoThread}, kind : Kinds]
NoCommand == [reply |-> NoThread, kind |-> "none"]

TaskStates ==
    {"idle", "await_blocking", "checked", "await_started", "sending",
     "await_reply", "replied", "cancelling", "cancel_native"}

(* The driver is inside its loop, calling core.stop() for a command, for   *)
(* the token or for the guard, awaiting, or past the guard.                *)
DriverStates ==
    {"none", "select", "command_stop", "cert_check", "cancel_stop", "join",
     "guard_stop", "guard", "completing", "closing", "done"}
DriverActive == DriverStates \ {"none", "completing", "closing", "done"}

SessionTypeOK ==
    /\ setup \in Tasks \cup {Blocking, NoThread}
    /\ session_active \in BOOLEAN
    /\ closure \in {"none", "evaluate", "provide_credentials", "self_test",
                    "running", "self_testing", "returned"}
    /\ task \in [Tasks -> TaskStates]
    /\ request \in [Tasks -> Kinds]
    /\ worker \in {"none", "queued", "running", "finished"}
    /\ started \in {"none", "pending", "sent"}
    /\ driver \in DriverStates
    /\ current \in CommandSet \cup {NoCommand}
    /\ commands \in Seq(CommandSet)
    /\ Len(commands) <= Capacity
    /\ commands_open \in BOOLEAN
    /\ token \in BOOLEAN
    /\ completion \in {"none", "pending", "sent"}
    /\ session \in {"none", "live", "completed", "dropped"}
    /\ holders \in SUBSET Tasks

SessionInit ==
    /\ ClientInit /\ handles = Threads
    /\ setup = NoThread
    /\ session_active = FALSE
    /\ closure = "none"
    /\ task = [t \in Tasks |-> "idle"]
    /\ request = [t \in Tasks |-> "control"]
    /\ worker = "none"
    /\ started = "none"
    /\ driver = "none"
    /\ current = NoCommand
    /\ commands = <<>>
    /\ commands_open = FALSE
    /\ token = FALSE
    /\ completion = "none"
    /\ session = "none"
    /\ holders = {}

Await(t, state) == task' = [task EXCEPT ![t] = state]

-----------------------------------------------------------------------------
(* evaluate, provide_credentials and callback_self_test.                   *)

(* Lock setup, check that no session is active, and hand the closure with  *)
(* the guard inside it to the blocking pool.  An active session only makes *)
(* the call fail.                                                          *)
SetupCall(t, operation) ==
    /\ task[t] = "idle"
    /\ setup = NoThread
    /\ ~session_active
    /\ setup' = Blocking
    /\ closure' = operation
    /\ Await(t, "await_blocking")
    /\ UNCHANGED <<clientVars, session_active, request, worker, started, driver,
                   current, commands, commands_open, token, completion, session,
                   holders>>

SetupAbandonUnlocks(t) ==
    /\ task[t] = "await_blocking"
    /\ setup' = NoThread
    /\ Await(t, "idle")
    /\ UNCHANGED <<clientVars, session_active, closure, request, worker, started,
                   driver, current, commands, commands_open, token, completion,
                   session, holders>>

(* The caller drops the future: the closure and its guard live on.         *)
SetupAbandon(t) ==
    /\ task[t] = "await_blocking"
    /\ Await(t, "idle")
    /\ UNCHANGED <<clientVars, setup, session_active, closure, request, worker,
                   started, driver, current, commands, commands_open, token,
                   completion, session, holders>>

closureRest == <<setup, session_active, task, request, worker, started, driver,
                 current, commands, commands_open, token, completion, session,
                 holders>>

(* The closure enters the synchronous client, or is refused there.         *)
ClosureBegin ==
    /\ \/ closure = "evaluate" /\ EvaluateBegin(Blocking) /\ closure' = "running"
       \/ closure = "provide_credentials" /\ ProvideCredentialsBegin(Blocking) /\ closure' = "running"
       \/ closure = "self_test" /\ UNCHANGED clientVars /\ closure' = "self_testing"
       \/ closure \in {"evaluate", "provide_credentials"} /\ UNCHANGED clientVars /\ closure' = "returned"
    /\ UNCHANGED closureRest

ClosureEnd ==
    /\ \/ closure = "running" /\ (EvaluateEnd(Blocking) \/ ProvideCredentialsEnd(Blocking))
       \/ closure = "self_testing" /\ UNCHANGED clientVars
    /\ closure' = "returned"
    /\ UNCHANGED closureRest

ClosureLeaksGuard ==
    /\ closure = "returned"
    /\ closure' = "none"
    /\ task' = [t \in Tasks |-> IF task[t] = "await_blocking" THEN "idle" ELSE task[t]]
    /\ UNCHANGED <<clientVars, setup, session_active, request, worker, started, driver,
                   current, commands, commands_open, token, completion, session,
                   holders>>

(* The closure is dropped with its guard; whoever still waits is woken.    *)
ClosureRelease ==
    /\ closure = "returned"
    /\ closure' = "none"
    /\ setup' = NoThread
    /\ task' = [t \in Tasks |-> IF task[t] = "await_blocking" THEN "idle" ELSE task[t]]
    /\ UNCHANGED <<clientVars, session_active, request, worker, started, driver,
                   current, commands, commands_open, token, completion, session,
                   holders>>

-----------------------------------------------------------------------------
(* connect.                                                                *)

(* Lock setup and ensure_connectable, which looks at the lifecycle but not *)
(* at the session flag.                                                    *)
ConnectCheck(t) ==
    /\ task[t] = "idle"
    /\ setup = NoThread
    /\ guard = NoThread
    /\ lifecycle = "Ready"
    /\ setup' = t
    /\ Await(t, "checked")
    /\ UNCHANGED <<clientVars, session_active, closure, request, worker, started,
                   driver, current, commands, commands_open, token, completion,
                   session, holders>>

(* The compare_exchange on session_active, then the channels, the worker   *)
(* and the driver of a new session.                                        *)
ConnectClaim(t) ==
    /\ task[t] = "checked"
    /\ \/ /\ session_active
          /\ setup' = NoThread
          /\ Await(t, "idle")
          /\ UNCHANGED <<session_active, worker, started, driver, current,
                         commands, commands_open, token, completion>>
       \/ /\ ~session_active
          /\ session_active' = TRUE
          /\ worker' = "queued"
          /\ driver' = "select"
          /\ started' = "pending"
          /\ completion' = "pending"
          /\ commands' = <<>>
          /\ commands_open' = TRUE
          /\ current' = NoCommand
          /\ token' = FALSE
          /\ Await(t, "await_started")
          /\ UNCHANGED setup
    /\ UNCHANGED <<clientVars, closure, request, session, holders>>

(* The worker reported: connect() returns the Session and unlocks setup.   *)
ConnectStarted(t) ==
    /\ task[t] = "await_started"
    /\ started = "sent"
    /\ session' = "live"
    /\ setup' = NoThread
    /\ Await(t, "idle")
    /\ UNCHANGED <<clientVars, session_active, closure, request, worker, started,
                   driver, current, commands, commands_open, token, completion,
                   holders>>

(* The caller drops connect() first.  The handle inside it is not          *)
(* cancelled: nobody can address the session any more, but it goes on.     *)
ConnectAbandon(t) ==
    /\ task[t] = "await_started"
    /\ setup' = NoThread
    /\ Await(t, "idle")
    /\ UNCHANGED <<clientVars, session_active, closure, request, worker, started,
                   driver, current, commands, commands_open, token, completion,
                   session, holders>>

-----------------------------------------------------------------------------
(* The worker: connect_with_started on the blocking pool.                  *)

workerRest == <<setup, session_active, closure, task, request, driver, current,
                commands, commands_open, token, completion, session, holders>>

WorkerPrepare ==
    /\ worker = "queued"
    /\ PrepareConnect(Worker)
    /\ worker' = "running"
    /\ UNCHANGED <<started, workerRest>>

(* prepare_connect refused: report `started` all the same, then fail.      *)
WorkerRefused ==
    /\ worker = "queued"
    /\ guard = NoThread /\ lifecycle # "Ready"
    /\ started' = "sent"
    /\ worker' = "finished"
    /\ UNCHANGED <<clientVars, workerRest>>

WorkerRunReportsEarly ==
    /\ worker = "running"
    /\ \/ ClearStopRequested(Worker) /\ started' = "sent"
       \/ ConnectEnter(Worker, TRUE) /\ UNCHANGED started
       \/ CoreSetup(Worker) /\ UNCHANGED started
       \/ CoreRunEnds(Worker) /\ UNCHANGED started
       \/ ConnectRun(Worker) /\ UNCHANGED started
       \/ ConnectReturn(Worker) /\ UNCHANGED started
    /\ UNCHANGED <<worker, workerRest>>

(* Inside connect_with_started.  The callback the bridge invokes is the    *)
(* send on `started`.                                                      *)
WorkerRun ==
    /\ worker = "running"
    /\ \/ ClearStopRequested(Worker) /\ UNCHANGED started
       \/ ConnectEnter(Worker, TRUE) /\ UNCHANGED started
       \/ CoreSetup(Worker) /\ UNCHANGED started
       \/ CoreRunEnds(Worker) /\ UNCHANGED started
       \/ /\ ConnectRun(Worker) \/ ConnectReturn(Worker)
          /\ started' = IF connect_started THEN "sent" ELSE started
    /\ UNCHANGED <<worker, workerRest>>

(* The lifecycle reset ends the closure; only then can it be joined.       *)
WorkerFinish ==
    /\ worker = "running"
    /\ LifecycleReset(Worker)
    /\ worker' = "finished"
    /\ UNCHANGED <<started, workerRest>>

-----------------------------------------------------------------------------
(* The driver task.                                                        *)

driverRest == <<setup, session_active, closure, request, worker, started,
                token, completion, session, holders>>

(* A live sender of the command channel.                                   *)
SenderAlive ==
    \/ session = "live"
    \/ holders # {}
    \/ \E t \in Tasks : task[t] \in {"await_started", "sending"}

(* The reply wakes the task that awaits it, if it still does.  stop() goes *)
(* on to cancel the token.                                                 *)
Reply(command) ==
    task' = [t \in Tasks |->
                IF command.reply = t
                THEN IF command.kind = "stop" THEN "replied" ELSE "idle"
                ELSE task[t]]

SelectJoinedLast ==
    /\ driver = "select" /\ worker = "finished" /\ ~commands_open
    /\ driver' = "guard_stop"
    /\ UNCHANGED <<clientVars, driverRest, task, current, commands, commands_open>>

SelectJoined ==
    /\ driver = "select" /\ worker = "finished"
    /\ driver' = "guard_stop"
    /\ UNCHANGED <<clientVars, driverRest, task, current, commands, commands_open>>

SelectCancelledForgetsStop ==
    /\ driver = "select" /\ token
    /\ driver' = "join"
    /\ UNCHANGED <<clientVars, driverRest, task, current, commands, commands_open>>

SelectCancelled ==
    /\ driver = "select" /\ token
    /\ driver' = "cancel_stop"
    /\ UNCHANGED <<clientVars, driverRest, task, current, commands, commands_open>>

(* recv() returned a command: inline ones are executed and answered at     *)
(* once, stop() calls into the client, a certificate check is awaited.     *)
SelectCommand ==
    /\ driver = "select" /\ commands_open /\ commands # <<>>
    /\ LET command == Head(commands) IN
         \/ /\ command.kind = "control"
            /\ Reply(command)
            /\ UNCHANGED <<driver, current>>
         \/ /\ command.kind = "stop"
            /\ driver' = "command_stop" /\ current' = command
            /\ UNCHANGED task
         \/ /\ command.kind = "cert_check"
            /\ driver' = "cert_check" /\ current' = command
            /\ UNCHANGED task
    /\ commands' = Tail(commands)
    /\ UNCHANGED <<clientVars, driverRest, commands_open>>

SelectClosed ==
    /\ driver = "select" /\ commands_open /\ commands = <<>> /\ ~SenderAlive
    /\ commands_open' = FALSE
    /\ UNCHANGED <<clientVars, driverRest, driver, task, current, commands>>

CertCheckDone ==
    /\ driver = "cert_check"
    /\ driver' = "select"
    /\ Reply(current)
    /\ current' = NoCommand
    /\ UNCHANGED <<clientVars, driverRest, commands, commands_open>>

(* core.stop(), from a Stop command, the token or ActiveSessionGuard::drop *)
DriverStopSwap ==
    /\ driver \in {"command_stop", "cancel_stop", "guard_stop"}
    /\ StopSwap(Driver)
    /\ UNCHANGED asyncVars

DriverStopNative == StopNative(Driver) /\ UNCHANGED asyncVars

(* ... and what follows its return, which the flag shows was not needed or *)
(* which completed.                                                        *)
DriverStopped ==
    /\ stop_requested /\ pc[Driver] = "idle"
    /\ \/ /\ driver = "command_stop"
          /\ driver' = "select"
          /\ Reply(current)
          /\ current' = NoCommand
       \/ /\ driver = "cancel_stop" /\ driver' = "join"
          /\ UNCHANGED <<task, current>>
       \/ /\ driver = "guard_stop" /\ driver' = "guard"
          /\ UNCHANGED <<task, current>>
    /\ UNCHANGED <<clientVars, driverRest, commands, commands_open>>

JoinUnawaited ==
    /\ driver = "join"
    /\ driver' = "guard_stop"
    /\ UNCHANGED <<clientVars, driverRest, task, current, commands, commands_open>>

(* The cancelled branch awaits the worker.                                 *)
Join ==
    /\ driver = "join" /\ worker = "finished"
    /\ driver' = "guard_stop"
    /\ UNCHANGED <<clientVars, driverRest, task, current, commands, commands_open>>

GuardForgotten ==
    /\ driver = "guard"
    /\ driver' = "completing"
    /\ UNCHANGED <<clientVars, setup, closure, request, worker, started, token,
                   completion, session, holders, task, current, commands,
                   commands_open, session_active>>

GuardRelease ==
    /\ driver = "guard"
    /\ session_active' = FALSE
    /\ driver' = "completing"
    /\ UNCHANGED <<clientVars, setup, closure, request, worker, started, token,
                   completion, session, holders, task, current, commands,
                   commands_open>>

(* The result is sent; the receiver of the channel still lives.            *)
Complete ==
    /\ driver = "completing"
    /\ completion' = "sent"
    /\ driver' = "closing"
    /\ UNCHANGED <<clientVars, setup, session_active, closure, request, worker,
                   started, token, session, holders, task, current, commands,
                   commands_open>>

DriverEndsKeepsCommands ==
    /\ driver = "closing"
    /\ driver' = "done"
    /\ UNCHANGED <<clientVars, driverRest, task, current, commands, commands_open>>

(* The task ends and drops the receiver of the channel: the replies of     *)
(* queued commands are dropped with it.                                    *)
DriverEnds ==
    /\ driver = "closing"
    /\ driver' = "done"
    /\ commands' = <<>>
    /\ task' = [t \in Tasks |->
                  IF \E i \in DOMAIN commands : commands[i].reply = t
                  THEN "idle" ELSE task[t]]
    /\ UNCHANGED <<clientVars, driverRest, current, commands_open>>

-----------------------------------------------------------------------------
(* Session and SessionHandle.                                              *)

taskRest == <<setup, session_active, closure, worker, started, driver,
              commands_open, completion>>

(* Session::handle; a clone may be dropped at any time.                    *)
TakeHandle(t) ==
    /\ session = "live" /\ t \notin holders
    /\ holders' = holders \cup {t}
    /\ UNCHANGED <<clientVars, taskRest, task, request, current, commands,
                   token, session>>

DropSessionHandle(t) ==
    /\ t \in holders /\ task[t] = "idle"
    /\ holders' = holders \ {t}
    /\ UNCHANGED <<clientVars, taskRest, task, request, current, commands,
                   token, session>>

(* SessionHandle::query: send into the bounded channel, await the reply.   *)
RequestCall(t, kind) ==
    /\ t \in holders /\ task[t] = "idle"
    /\ Await(t, "sending")
    /\ request' = [request EXCEPT ![t] = kind]
    /\ UNCHANGED <<clientVars, taskRest, current, commands, token, session, holders>>

RequestSentUnbounded(t) ==
    /\ task[t] = "sending"
    /\ driver # "done" /\ Len(commands) <= Capacity
    /\ commands' = Append(commands, [reply |-> t, kind |-> request[t]])
    /\ Await(t, "await_reply")
    /\ UNCHANGED <<clientVars, taskRest, request, current, token, session, holders>>

RequestSent(t) ==
    /\ task[t] = "sending"
    /\ driver # "done" /\ Len(commands) < Capacity
    /\ commands' = Append(commands, [reply |-> t, kind |-> request[t]])
    /\ Await(t, "await_reply")
    /\ UNCHANGED <<clientVars, taskRest, request, current, token, session, holders>>

(* The receiver is gone: Error::SessionClosed.                             *)
RequestClosed(t) ==
    /\ task[t] = "sending" /\ driver = "done"
    /\ Await(t, "idle")
    /\ UNCHANGED <<clientVars, taskRest, request, current, commands, token,
                   session, holders>>

Unreply(command, t) ==
    IF command.reply = t THEN [command EXCEPT !.reply = NoThread] ELSE command

(* The caller drops the request's future; a command already sent remains.  *)
RequestAbandon(t) ==
    /\ task[t] \in {"sending", "await_reply", "replied"}
    /\ Await(t, "idle")
    /\ commands' = [i \in DOMAIN commands |-> Unreply(commands[i], t)]
    /\ current' = Unreply(current, t)
    /\ UNCHANGED <<clientVars, taskRest, request, token, session, holders>>

(* SessionHandle::stop, after its reply.                                   *)
StopReplied(t) ==
    /\ task[t] = "replied"
    /\ token' = TRUE
    /\ Await(t, "idle")
    /\ UNCHANGED <<clientVars, taskRest, request, current, commands, session, holders>>

(* SessionHandle::cancel: the token first, then core.stop().               *)
Cancel(t) ==
    /\ t \in holders /\ task[t] = "idle"
    /\ token' = TRUE
    /\ Await(t, "cancelling")
    /\ UNCHANGED <<clientVars, taskRest, request, current, commands, session, holders>>

(* Session::drop before completion is a cancel.                            *)
SessionDrop(t) ==
    /\ session = "live" /\ task[t] = "idle"
    /\ session' = "dropped"
    /\ token' = TRUE
    /\ Await(t, "cancelling")
    /\ UNCHANGED <<clientVars, taskRest, request, current, commands, holders>>

CancelAlwaysStops(t) ==
    /\ task[t] = "cancelling"
    /\ stop_requested' = TRUE
    /\ Goto(t, "stopping")
    /\ Await(t, "cancel_native")
    /\ UNCHANGED <<lifecycle, guard, handles, core, stop_signal, connect_started,
                   started_calls>>
    /\ UNCHANGED <<taskRest, request, current, commands, token, session, holders>>

CancelStopSwap(t) ==
    /\ task[t] = "cancelling"
    /\ \/ StopSwap(t) /\ Await(t, "cancel_native")
       \/ stop_requested /\ UNCHANGED clientVars /\ Await(t, "idle")
    /\ UNCHANGED <<taskRest, request, current, commands, token, session, holders>>

CancelStopNative(t) ==
    /\ task[t] = "cancel_native"
    /\ StopNative(t)
    /\ Await(t, "idle")
    /\ UNCHANGED <<taskRest, request, current, commands, token, session, holders>>

(* A clone of the token is cancelled by the application: no stop() here.   *)
CancelToken ==
    /\ session # "none" /\ ~token
    /\ token' = TRUE
    /\ UNCHANGED <<clientVars, taskRest, task, request, current, commands,
                   session, holders>>

(* Session::poll takes the result.                                         *)
SessionPoll ==
    /\ session = "live" /\ completion = "sent"
    /\ session' = "completed"
    /\ UNCHANGED <<clientVars, taskRest, task, request, current, commands,
                   token, holders>>

-----------------------------------------------------------------------------
ClosureStep == ClosureBegin \/ ClosureEnd \/ ClosureRelease

WorkerStep == WorkerPrepare \/ WorkerRefused \/ WorkerRun \/ WorkerFinish

DriverStep ==
    \/ SelectJoined \/ SelectCancelled \/ SelectCommand \/ SelectClosed
    \/ CertCheckDone \/ DriverStopSwap \/ DriverStopNative \/ DriverStopped
    \/ Join \/ GuardRelease \/ Complete \/ DriverEnds

(* A task that is awaiting or inside a call goes on ...                    *)
TaskStep(t) ==
    \/ ConnectClaim(t) \/ ConnectStarted(t)
    \/ RequestSent(t) \/ RequestClosed(t) \/ StopReplied(t)
    \/ CancelStopSwap(t) \/ CancelStopNative(t)

(* ... and starts or drops what it likes.                                  *)
TaskCall(t) ==
    \/ \E operation \in {"evaluate", "provide_credentials", "self_test"} :
          SetupCall(t, operation)
    \/ \E kind \in Kinds : RequestCall(t, kind)
    \/ ConnectCheck(t) \/ Cancel(t) \/ SessionDrop(t)
    \/ TakeHandle(t) \/ DropSessionHandle(t)
    \/ SetupAbandon(t) \/ ConnectAbandon(t) \/ RequestAbandon(t)

SessionNext ==
    \/ ClosureStep
    \/ WorkerStep
    \/ DriverStep
    \/ \E t \in Tasks : TaskStep(t) \/ TaskCall(t)
    \/ CancelToken
    \/ SessionPoll

SessionSpec == SessionInit /\ [][SessionNext]_sessionVars

(* The pool's threads, the driver and every woken task keep running; Core  *)
(* ends its run once it accepted a stop.  select! polls its branches in    *)
(* random order, so a cancelled token is noticed even if commands keep     *)
(* coming; the channel serves waiting senders in order.                    *)
WorkerRunsOn == WorkerStep /\ (core = "run" /\ core' = "returned" => stop_signal)

SessionFairSpec ==
    /\ SessionSpec
    /\ WF_sessionVars(ClosureStep)
    /\ WF_sessionVars(WorkerRunsOn)
    /\ WF_sessionVars(DriverStep)
    /\ SF_sessionVars(SelectCancelled)
    /\ SF_sessionVars(SelectJoined)
    /\ \A t \in Tasks :
          /\ WF_sessionVars(TaskStep(t))
          /\ SF_sessionVars(RequestSent(t))

-----------------------------------------------------------------------------
(* Properties.                                                             *)

(* The inductive invariant, by parts.  Where each thread of the            *)
(* synchronous client can be, seen from the Tokio layer.                   *)
ThreadInv ==
    /\ handles = Threads
    /\ pc[Worker] \in {"idle", "preparing", "entering", "connecting", "resetting"}
    /\ worker = "running" <=> pc[Worker] # "idle"
    /\ pc[Blocking] \in {"idle", "evaluating", "crediting"}
    /\ closure = "running" <=> pc[Blocking] # "idle"
    /\ pc[Driver] \in {"idle", "stopping"}
    /\ pc[Driver] = "stopping" => driver \in {"command_stop", "cancel_stop", "guard_stop"}
    /\ \A t \in Tasks :
          /\ pc[t] \in {"idle", "stopping"}
          /\ pc[t] = "stopping" <=> task[t] = "cancel_native"

(* The driver, its worker and the result belong together.                  *)
DriverInv ==
    /\ driver = "none" <=> worker = "none"
    /\ driver \in {"guard_stop", "guard", "completing", "closing", "done"} => worker = "finished"
    /\ worker = "finished" => lifecycle = "Finished"
    /\ worker # "none" => lifecycle # "New"
    /\ session_active <=> driver \in DriverActive
    /\ completion = "sent" <=> driver \in {"closing", "done"}

(* Who holds the setup mutex.                                              *)
SetupInv ==
    /\ setup = Blocking <=> closure # "none"
    /\ closure # "none" => ~session_active
    /\ \A t \in Tasks :
          setup = t <=> task[t] \in {"checked", "await_started"}
    /\ setup \in Tasks => session = "none" /\ lifecycle # "New"

(* Until a Session has been handed out nobody can address the session.     *)
QuietInv ==
    session = "none" =>
        /\ ~token /\ holders = {} /\ commands = <<>>
        /\ driver \notin {"command_stop", "cert_check", "cancel_stop", "join"}
        /\ \A t \in Tasks :
              task[t] \in {"idle", "await_blocking", "checked", "await_started"}

(* Every reply channel has one owner, which is still awaiting it: no reply *)
(* can wake a task that has gone on to something else.                     *)
ReplyInv ==
    /\ current = NoCommand \/ driver \in {"command_stop", "cert_check"}
    /\ \A t \in Tasks :
          /\ current.reply = t => task[t] = "await_reply"
          /\ \A i \in DOMAIN commands : commands[i].reply = t =>
                task[t] = "await_reply" /\ current.reply # t
          /\ \A i, j \in DOMAIN commands :
                commands[i].reply = t /\ commands[j].reply = t => i = j

(* `started` is only reported by a Core that accepts foreign calls or is   *)
(* already through, so nobody asks for a stop before that.                 *)
ReportInv ==
    /\ started = "sent" => core \notin {"idle", "setup"}
    /\ session # "none" => core \notin {"idle", "setup"}
    /\ stop_requested => core \notin {"idle", "setup"}
    /\ \A t \in Threads : pc[t] = "stopping" => stop_requested

(* "stop() cannot be lost" (bridge.cpp:1106): while Core runs, a recorded  *)
(* stop request has reached Core or is held by a thread about to deliver   *)
(* it.  Later calls are suppressed by the flag, so nothing would repair a  *)
(* request that Core never saw.                                            *)
StopNotLost ==
    stop_requested /\ core \in ForeignAccess =>
        stop_signal \/ \E t \in Threads : pc[t] = "stopping"

(* Everything above: the state of the Tokio client between any two steps.  *)
SessionInv ==
    /\ SessionTypeOK /\ ThreadInv /\ DriverInv /\ SetupInv /\ QuietInv
    /\ ReplyInv /\ ReportInv /\ StopNotLost

(* Whoever was given a Session can stop it: Core accepts foreign calls by  *)
(* then, or has already returned.                                          *)
SessionStoppable == session # "none" => core \notin {"idle", "setup"}

(* session_active is set exactly while a driver is before the end of its   *)
(* guard, and covers every moment Core is connecting.                      *)
ActiveWhileDriven ==
    /\ session_active <=> driver \in DriverActive
    /\ lifecycle = "Connecting" => session_active

(* A configuration closure on the blocking pool and a session exclude each *)
(* other, even when the future that started the closure was dropped.       *)
ClosureExcludesSession == closure # "none" => ~session_active

(* The result is only available once the worker is joined, the client is   *)
(* Finished and the active flag is clear.                                  *)
ResultAfterCleanup ==
    completion = "sent" =>
        worker = "finished" /\ lifecycle = "Finished" /\ ~session_active

(* A cancelled token, a cancel(), a stop() or a dropped Session ends the   *)
(* connect of the worker.                                                  *)
CancelEndsSession ==
    (token \/ session = "dropped") ~> lifecycle = "Finished"

(* No request hangs: it is answered or fails with SessionClosed, also when *)
(* the channel is full or the driver no longer reads it.                   *)
RequestsSettle ==
    \A t \in Tasks :
        task[t] \in {"sending", "await_reply"} ~> task[t] \notin {"sending", "await_reply"}

(* The setup mutex is never kept for ever: neither by a closure whose      *)
(* future was dropped nor by a connect() waiting for Core.                 *)
SetupReleased == (setup # NoThread) ~> (setup = NoThread)

(* A finished session delivers its result.                                 *)
ResultDelivered ==
    (lifecycle = "Finished" /\ completion = "pending") ~> completion = "sent"
=============================================================================
