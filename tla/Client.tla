------------------------------- MODULE Client -------------------------------
(***************************************************************************)
(* The synchronous client of openvpn-connect/src/client.rs together with   *)
(* the native client of openvpn-connect-sys/src/bridge.cpp that it owns.   *)
(*                                                                         *)
(* `Client` is a cloneable handle on one shared `Inner`.  Any thread that  *)
(* owns a clone may configure, connect, stop or drop it.  `Inner` keeps a  *)
(* lifecycle behind a mutex and an atomic `stop_requested`; the rest of    *)
(* the state belongs to OpenVPN Core, which is external: it is modelled by *)
(* what the bridge relies on, namely that connect() first sets the session *)
(* up (and may fail doing so), then accepts stop() from foreign threads,   *)
(* and only then runs.                                                     *)
(***************************************************************************)
EXTENDS Naturals, FiniteSets

CONSTANTS
    Threads,    \* threads that may own a clone of the client
    NoThread    \* "nobody holds the lifecycle mutex"

ASSUME ThreadsAssumption == NoThread \notin Threads

VARIABLES
    lifecycle,        \* Inner.lifecycle, the value under the mutex
    guard,            \* the thread that holds the lifecycle mutex, or NoThread
    stop_requested,   \* Inner.stop_requested, an atomic outside the mutex
    handles,          \* threads that own a clone of the Arc<Inner>
    core,             \* how far Core's connect() has come (external)
    stop_signal,      \* Core accepted an asynchronous stop (external)
    connect_started,  \* RustClient.connect_started_ holds a callback
    started_calls,    \* how often that callback has been invoked
    pc                \* where each thread is inside the client's operations

clientVars == <<lifecycle, guard, stop_requested, handles, core, stop_signal,
                connect_started, started_calls, pc>>

-----------------------------------------------------------------------------
(* enum Lifecycle.                                                         *)
Lifecycle == {"New", "Ready", "Connecting", "Finished"}

(* The phases of the native client: constructed; inside connect() before   *)
(* foreign-thread access; access enabled but connect_run not yet entered;  *)
(* running; connect() returned or threw; connect_started returned; deleted *)
CorePhases == {"idle", "setup", "access", "run", "returned", "done", "freed"}

(* Phases in which Core lets another thread reach the session.             *)
ForeignAccess == {"access", "run"}

(* A thread's position.  The four after "crediting" are one connect():     *)
(* lifecycle mutex held, prepared, inside Core, about to reset.            *)
Positions ==
    {"idle", "evaluating", "crediting",
     "preparing", "entering", "connecting", "resetting",
     "stopping", "callback_stopping", "drop_stopping", "freeing"}

HoldsGuard == {"evaluating", "crediting", "preparing"}

(* Positions of a thread that is between prepare_connect and the reset of  *)
(* the lifecycle, the frames of one call of connect().                     *)
ConnectFrame ==
    {"preparing", "entering", "connecting", "callback_stopping", "resetting"}

(* Positions inside a call into the native client.                         *)
InNative ==
    {"evaluating", "crediting", "connecting", "stopping",
     "callback_stopping", "drop_stopping", "freeing"}

ClientTypeOK ==
    /\ lifecycle \in Lifecycle
    /\ guard \in Threads \cup {NoThread}
    /\ stop_requested \in BOOLEAN
    /\ handles \in SUBSET Threads
    /\ core \in CorePhases
    /\ stop_signal \in BOOLEAN
    /\ connect_started \in BOOLEAN
    /\ started_calls \in Nat
    /\ pc \in [Threads -> Positions]

(* A freshly created client whose first clones have been handed out.       *)
ClientInit ==
    /\ lifecycle = "New"
    /\ guard = NoThread
    /\ stop_requested = FALSE
    /\ handles \in (SUBSET Threads) \ {{}}
    /\ core = "idle"
    /\ stop_signal = FALSE
    /\ connect_started = FALSE
    /\ started_calls = 0
    /\ pc = [t \in Threads |-> "idle"]

Goto(t, position) == pc' = [pc EXCEPT ![t] = position]

Idle(t) == t \in handles /\ pc[t] = "idle"

-----------------------------------------------------------------------------
(* Cloning and configuring.  A call that only returns an error leaves the  *)
(* state as it was and has no action: a configuration the linked Core      *)
(* cannot honour, a lifecycle that forbids the call.                       *)

Clone(t, u) ==
    /\ Idle(t)
    /\ u \notin handles /\ pc[u] = "idle"
    /\ handles' = handles \cup {u}
    /\ UNCHANGED <<lifecycle, guard, stop_requested, core, stop_signal,
                   connect_started, started_calls, pc>>

EvaluateBeginUnchecked(t) ==
    /\ Idle(t)
    /\ guard = NoThread
    /\ guard' = t
    /\ Goto(t, "evaluating")
    /\ UNCHANGED <<lifecycle, stop_requested, handles, core, stop_signal,
                   connect_started, started_calls>>

(* evaluate(): the mutex is taken, the lifecycle examined, and the mutex   *)
(* stays locked across the native call.                                    *)
EvaluateBegin(t) ==
    /\ Idle(t)
    /\ guard = NoThread
    /\ lifecycle \in {"New", "Ready"}
    /\ guard' = t
    /\ Goto(t, "evaluating")
    /\ UNCHANGED <<lifecycle, stop_requested, handles, core, stop_signal,
                   connect_started, started_calls>>

(* native::evaluate returned: only a success makes the client Ready.       *)
EvaluateEnd(t) ==
    /\ pc[t] = "evaluating"
    /\ lifecycle' \in {lifecycle, "Ready"}
    /\ guard' = NoThread
    /\ Goto(t, "idle")
    /\ UNCHANGED <<stop_requested, handles, core, stop_signal,
                   connect_started, started_calls>>

(* provide_credentials(): a Ready client, mutex held across the call.      *)
ProvideCredentialsBegin(t) ==
    /\ Idle(t)
    /\ guard = NoThread
    /\ lifecycle = "Ready"
    /\ guard' = t
    /\ Goto(t, "crediting")
    /\ UNCHANGED <<lifecycle, stop_requested, handles, core, stop_signal,
                   connect_started, started_calls>>

ProvideCredentialsEnd(t) ==
    /\ pc[t] = "crediting"
    /\ guard' = NoThread
    /\ Goto(t, "idle")
    /\ UNCHANGED <<lifecycle, stop_requested, handles, core, stop_signal,
                   connect_started, started_calls>>

-----------------------------------------------------------------------------
(* connect(): prepare, run Core, reset.                                    *)

(* prepare_connect(), first half: Ready becomes Connecting under the mutex *)
PrepareConnect(t) ==
    /\ Idle(t)
    /\ guard = NoThread
    /\ lifecycle = "Ready"
    /\ lifecycle' = "Connecting"
    /\ guard' = t
    /\ Goto(t, "preparing")
    /\ UNCHANGED <<stop_requested, handles, core, stop_signal,
                   connect_started, started_calls>>

(* prepare_connect(), second half.  The flag is not protected by the       *)
(* mutex: a stop() of another thread may fall between the two halves.      *)
ClearStopRequested(t) ==
    /\ pc[t] = "preparing"
    /\ stop_requested' = FALSE
    /\ guard' = NoThread
    /\ Goto(t, "entering")
    /\ UNCHANGED <<lifecycle, handles, core, stop_signal,
                   connect_started, started_calls>>

(* ovpn_client_connect_started: store the callback (none for connect())    *)
(* and enter Core's connect().                                             *)
ConnectEnter(t, callback) ==
    /\ pc[t] = "entering"
    /\ connect_started' = callback
    /\ core' = "setup"
    /\ Goto(t, "connecting")
    /\ UNCHANGED <<lifecycle, guard, stop_requested, handles, stop_signal,
                   started_calls>>

NotifyWithoutClearing ==
    /\ started_calls' = started_calls + (IF connect_started THEN 1 ELSE 0)
    /\ UNCHANGED connect_started

(* RustClient::notify_connect_started: take the callback, then call it.    *)
NotifyConnectStarted ==
    /\ started_calls' = started_calls + (IF connect_started THEN 1 ELSE 0)
    /\ connect_started' = FALSE

(* Core's connect_setup either enables foreign-thread access or fails.     *)
CoreSetup(t) ==
    /\ pc[t] = "connecting" /\ core = "setup"
    /\ core' \in {"access", "returned"}
    /\ UNCHANGED <<lifecycle, guard, stop_requested, handles, stop_signal,
                   connect_started, started_calls, pc>>

(* RustClient::connect_run: notify, then run the session.                  *)
ConnectRun(t) ==
    /\ pc[t] = "connecting" /\ core = "access"
    /\ core' = "run"
    /\ NotifyConnectStarted
    /\ UNCHANGED <<lifecycle, guard, stop_requested, handles, stop_signal, pc>>

(* The session ends: it was told to stop, or the connection went away.     *)
CoreRunEnds(t) ==
    /\ pc[t] = "connecting" /\ core = "run"
    /\ core' = "returned"
    /\ UNCHANGED <<lifecycle, guard, stop_requested, handles, stop_signal,
                   connect_started, started_calls, pc>>

(* connect() returned or threw: every path notifies before it returns.     *)
ConnectReturn(t) ==
    /\ pc[t] = "connecting" /\ core = "returned"
    /\ NotifyConnectStarted
    /\ core' = "done"
    /\ Goto(t, "resetting")
    /\ UNCHANGED <<lifecycle, guard, stop_requested, handles, stop_signal>>

ResetToReady(t) ==
    /\ pc[t] = "resetting"
    /\ guard = NoThread
    /\ lifecycle' = "Ready"
    /\ Goto(t, "idle")
    /\ UNCHANGED <<guard, stop_requested, handles, core, stop_signal,
                   connect_started, started_calls>>

(* ConnectLifecycleReset::drop, also on unwinding.                         *)
LifecycleReset(t) ==
    /\ pc[t] = "resetting"
    /\ guard = NoThread
    /\ lifecycle' = "Finished"
    /\ Goto(t, "idle")
    /\ UNCHANGED <<guard, stop_requested, handles, core, stop_signal,
                   connect_started, started_calls>>

-----------------------------------------------------------------------------
(* Stopping and dropping.                                                  *)

(* stop(): only the caller that flips the flag goes on to the native stop. *)
StopSwap(t) ==
    /\ Idle(t)
    /\ ~stop_requested
    /\ stop_requested' = TRUE
    /\ Goto(t, "stopping")
    /\ UNCHANGED <<lifecycle, guard, handles, core, stop_signal,
                   connect_started, started_calls>>

(* The same call made by a handler, which Core calls on the thread that    *)
(* runs connect(), in every phase of it; the handler may own a clone.      *)
CallbackStopSwap(t) ==
    /\ pc[t] = "connecting" /\ core \in {"setup", "access", "run"}
    /\ ~stop_requested
    /\ stop_requested' = TRUE
    /\ Goto(t, "callback_stopping")
    /\ UNCHANGED <<lifecycle, guard, handles, core, stop_signal,
                   connect_started, started_calls>>

NativeStopDropped ==
    UNCHANGED stop_signal

(* ovpn_client_stop: Core ignores it unless foreign access is enabled.     *)
NativeStop ==
    stop_signal' = (stop_signal \/ core \in ForeignAccess)

StopNative(t) ==
    /\ pc[t] = "stopping"
    /\ NativeStop
    /\ Goto(t, "idle")
    /\ UNCHANGED <<lifecycle, guard, stop_requested, handles, core,
                   connect_started, started_calls>>

CallbackStopNative(t) ==
    /\ pc[t] = "callback_stopping"
    /\ NativeStop
    /\ Goto(t, "connecting")
    /\ UNCHANGED <<lifecycle, guard, stop_requested, handles, core,
                   connect_started, started_calls>>

DropHandleFreesAlways(t) ==
    /\ Idle(t)
    /\ handles' = handles \ {t}
    /\ stop_requested' = TRUE
    /\ Goto(t, IF stop_requested THEN "freeing" ELSE "drop_stopping")
    /\ UNCHANGED <<lifecycle, guard, core, stop_signal, connect_started,
                   started_calls>>

DropHandleAfterStop(t) ==
    /\ Idle(t)
    /\ handles' = handles \ {t}
    /\ \/ /\ handles # {t} \/ stop_requested
          /\ UNCHANGED <<stop_requested, pc>>
       \/ /\ handles = {t} /\ ~stop_requested
          /\ stop_requested' = TRUE
          /\ Goto(t, "drop_stopping")
    /\ UNCHANGED <<lifecycle, guard, core, stop_signal, connect_started,
                   started_calls>>

(* Dropping a clone; the last one runs Inner::drop.                        *)
DropHandle(t) ==
    /\ Idle(t)
    /\ handles' = handles \ {t}
    /\ \/ /\ handles # {t}
          /\ UNCHANGED <<stop_requested, pc>>
       \/ /\ handles = {t}
          /\ stop_requested' = TRUE
          /\ Goto(t, IF stop_requested THEN "freeing" ELSE "drop_stopping")
    /\ UNCHANGED <<lifecycle, guard, core, stop_signal, connect_started,
                   started_calls>>

DropStopNative(t) ==
    /\ pc[t] = "drop_stopping"
    /\ NativeStop
    /\ Goto(t, "freeing")
    /\ UNCHANGED <<lifecycle, guard, stop_requested, handles, core,
                   connect_started, started_calls>>

FreeClient(t) ==
    /\ pc[t] = "freeing"
    /\ core' = "freed"
    /\ Goto(t, "idle")
    /\ UNCHANGED <<lifecycle, guard, stop_requested, handles, stop_signal,
                   connect_started, started_calls>>

-----------------------------------------------------------------------------
(* What a thread does once it is inside an operation ...                   *)
ThreadStep(t) ==
    \/ EvaluateEnd(t)
    \/ ProvideCredentialsEnd(t)
    \/ ClearStopRequested(t)
    \/ \E callback \in BOOLEAN : ConnectEnter(t, callback)
    \/ CoreSetup(t)
    \/ ConnectRun(t)
    \/ CoreRunEnds(t)
    \/ ConnectReturn(t)
    \/ LifecycleReset(t)
    \/ StopNative(t)
    \/ CallbackStopNative(t)
    \/ DropStopNative(t)
    \/ FreeClient(t)

(* ... and the operations its program may start.                           *)
ThreadCall(t) ==
    \/ \E u \in Threads : Clone(t, u)
    \/ EvaluateBegin(t)
    \/ ProvideCredentialsBegin(t)
    \/ PrepareConnect(t)
    \/ StopSwap(t)
    \/ CallbackStopSwap(t)
    \/ DropHandle(t)

ClientNext == \E t \in Threads : ThreadStep(t) \/ ThreadCall(t)

ClientSpec == ClientInit /\ [][ClientNext]_clientVars

(* Threads inside an operation keep running.  Core may keep a session up   *)
(* for ever, but not once it has accepted a stop.  No program is obliged   *)
(* to start an operation.                                                  *)
RunsOn(t) == ThreadStep(t) /\ (core = "run" /\ core' = "returned" => stop_signal)

ClientFairSpec == ClientSpec /\ \A t \in Threads : WF_clientVars(RunsOn(t))

-----------------------------------------------------------------------------
(* Properties.                                                             *)

(* The inductive invariant, by parts.  The lifecycle mutex is held exactly *)
(* by the thread that is inside a section it protects.                     *)
GuardInv ==
    \A t \in Threads : guard = t <=> pc[t] \in HoldsGuard

(* Connecting means that exactly one thread is inside connect().           *)
FrameInv ==
    /\ \A t, u \in Threads : pc[t] \in ConnectFrame /\ pc[u] \in ConnectFrame => t = u
    /\ lifecycle = "Connecting" <=> \E t \in Threads : pc[t] \in ConnectFrame
    /\ \A t \in Threads :
          /\ pc[t] = "evaluating" => lifecycle \in {"New", "Ready"}
          /\ pc[t] = "crediting" => lifecycle = "Ready"

(* How far Core is, seen from the lifecycle and from the connecting thread *)
PhaseInv ==
    /\ lifecycle \in {"New", "Ready"} => core \in {"idle", "freed"}
    /\ lifecycle = "Finished" => core \in {"done", "freed"}
    /\ \A t \in Threads :
          /\ pc[t] \in {"preparing", "entering"} => core = "idle"
          /\ pc[t] = "connecting" => core \in {"setup", "access", "run", "returned"}
          /\ pc[t] = "callback_stopping" => core \in {"setup", "access", "run"}
          /\ pc[t] = "resetting" => core = "done"

(* A thread inside an operation owns a clone; only the thread that dropped *)
(* the last clone tears the native client down, and it does so once.       *)
HandleInv ==
    /\ \A t \in Threads :
          /\ pc[t] \notin {"idle", "drop_stopping", "freeing"} => t \in handles
          /\ pc[t] \in {"drop_stopping", "freeing"} => handles = {} /\ core # "freed"
    /\ \A t, u \in Threads :
          /\ pc[t] \in {"drop_stopping", "freeing"}
          /\ pc[u] \in {"drop_stopping", "freeing"}
          => t = u
    /\ core = "freed" => handles = {}

(* A stored callback has not been called, and Core is still before it.     *)
StartedInv ==
    /\ started_calls <= 1
    /\ connect_started => started_calls = 0 /\ core \in {"setup", "access", "returned"}
    /\ core = "idle" => started_calls = 0

(* Everything above: the state of the client between any two steps.        *)
ClientInv ==
    ClientTypeOK /\ GuardInv /\ FrameInv /\ PhaseInv /\ HandleInv /\ StartedInv

(* The claim behind `unsafe impl Sync for Inner`: configuration mutations  *)
(* and connect entry are serialized, so Core's eval_config and provide_    *)
(* creds never run beside each other or beside a connect() frame.          *)
ConfigurationSerialized ==
    \A t, u \in Threads :
        /\ pc[t] \in {"evaluating", "crediting"}
        /\ pc[u] \in {"evaluating", "crediting"} \cup ConnectFrame
        => t = u

(* One client supports one session: Core's connect() is entered only by a  *)
(* native client that never ran, whatever was called before.               *)
OneSession == [][core' = "setup" => core \in {"idle", "setup"}]_clientVars

(* Inner::drop deletes the native client only when no thread is inside a   *)
(* native call and none owns a clone that could make one.                  *)
NoUseAfterFree ==
    core = "freed" =>
        /\ handles = {}
        /\ \A t \in Threads : pc[t] \notin InNative

(* The `started` callback is a pointer to the stack of the connecting      *)
(* thread: the bridge keeps it only while that thread is inside connect(), *)
(* and calls it at most once.                                              *)
StartedPointerLive ==
    /\ connect_started => \E t \in Threads : pc[t] \in {"connecting", "callback_stopping"}
    /\ started_calls <= 1

(* A stop that reaches its native half while Core accepts foreign calls    *)
(* ends the connect(): the client becomes Finished.                        *)
AcceptedStopEnds ==
    \A t \in Threads :
        (pc[t] \in {"stopping", "callback_stopping"} /\ core \in ForeignAccess)
            ~> lifecycle = "Finished"

(* When the last clone is dropped the native client is deleted, even if    *)
(* other threads' operations finished only a moment before.                *)
DroppedIsFreed == (handles = {}) ~> (core = "freed")

(* connect() "runs the VPN session until it disconnects or stop is called" *)
(* (client.rs:91): a stop() called after connect() prepared the session    *)
(* makes connect() return.                                                 *)
StopEndsConnect ==
    (stop_requested /\ \E t \in Threads : pc[t] \in {"entering", "connecting"})
        ~> lifecycle = "Finished"
=============================================================================
