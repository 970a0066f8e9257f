----------------------------- MODULE Callbacks ------------------------------
(***************************************************************************)
(* Core's callbacks on their way to the application and back: the          *)
(* overrides of RustClient in openvpn-connect-sys/src/bridge.cpp, the      *)
(* trampolines of openvpn-connect/src/native.rs, BroadcastHandler and      *)
(* AsyncHandlerBridge of openvpn-connect/src/tokio.rs, the handler's trait *)
(* with its defaults, and the streams on which events, logs and control    *)
(* messages are also broadcast.                                            *)
(*                                                                         *)
(* Two threads of Core may be inside a callback: the connection's, and the *)
(* one on which the session's driver runs an external PKI certificate      *)
(* check.  What Core calls, what the application answers, tokio's channel  *)
(* and its receivers are the environment.  An answer is the integer that   *)
(* crosses the FFI: 0 or 1 for a bool, a descriptor or -1, and 0 where     *)
(* nothing is returned.                                                    *)
(***************************************************************************)
EXTENDS Integers, Sequences, FiniteSets

CONSTANTS
    Readers,      \* receivers of the streams
    MaxCapacity,  \* bound on the capacity asked of the builder
    MaxCalls      \* bound on the callbacks of the connection

ASSUME CallbacksAssumption == MaxCapacity \in Nat /\ MaxCalls \in Nat

-----------------------------------------------------------------------------
(* The callbacks, with the answer of each trampoline when the handler has  *)
(* no such interface or panics.                                            *)

Notifications == [event |-> 0, log |-> 0, app_control_message |-> 0, clock_tick |-> 0]

HandlerRequests ==
    [socket_protect |-> 0, pause_on_connection_timeout |-> 0,
     remote_override_enabled |-> 0]

(* Answered through a completion; an error is answer 0.                    *)
PkiRequests == [external_pki_certificate |-> 0, external_pki_sign |-> 0]
RemoteRequest == [remote_override |-> 0]

TransportMethods ==
    [configure_transport |-> 0, start_transport |-> 0, stop_transport |-> 0,
     send_transport |-> 0, send_queue_empty |-> 1, has_send_queue |-> 0,
     stop_requeueing |-> 0, send_queue_size |-> 0, reset_align_adjust |-> 0,
     endpoint |-> 0, native_handle |-> -1, is_relay |-> 0, process_push |-> 0]

ExternalTunMethods ==
    [configure_tun |-> 0, start_tun |-> 0, stop_tun |-> 0, set_disconnect |-> 0,
     send_tun |-> 0, info |-> 0, adjust_mss |-> 0, apply_push_update |-> 0,
     layer_2_supported |-> 0, supports_epoch_data |-> 0, finalize |-> 0]

TunAddressing ==
    [new_tunnel |-> 0, set_layer |-> 1, set_remote_address |-> 0, add_address |-> 0,
     set_route_metric_default |-> 1, reroute_gateway |-> 0, add_route |-> 0,
     exclude_route |-> 0]

TunNaming ==
    [set_dns_options |-> 0, set_mtu |-> 0, set_session_name |-> 0,
     add_proxy_bypass |-> 0, set_proxy_auto_config_url |-> 0, set_proxy_http |-> 0,
     set_proxy_https |-> 0, add_wins_server |-> 0, set_allow_family |-> 1,
     set_allow_local_dns |-> 1]

TunLifecycle ==
    [establish |-> -1, persist |-> 1, local_networks |-> 0, establish_lite |-> 0,
     teardown |-> 0]

TunDco ==
    [dco_available |-> 0, dco_enable |-> -1, dco_new_peer |-> 0, dco_set_peer |-> 0,
     dco_delete_peer |-> 0, dco_get_peer |-> 0, dco_new_key |-> 0,
     dco_swap_keys |-> 0, dco_delete_key |-> 0, dco_establish |-> 0]

TunSteps == DOMAIN TunAddressing \cup DOMAIN TunNaming
TunMethods == TunSteps \cup DOMAIN TunLifecycle \cup DOMAIN TunDco
Optional == TunMethods \cup DOMAIN TransportMethods \cup DOMAIN ExternalTunMethods
Methods == Optional \cup DOMAIN Notifications \cup DOMAIN HandlerRequests
             \cup DOMAIN PkiRequests \cup DOMAIN RemoteRequest

CallDefault(m) ==
    CASE m \in DOMAIN TunAddressing      -> TunAddressing[m]
      [] m \in DOMAIN TunNaming          -> TunNaming[m]
      [] m \in DOMAIN TunLifecycle       -> TunLifecycle[m]
      [] m \in DOMAIN TunDco             -> TunDco[m]
      [] m \in DOMAIN TransportMethods   -> TransportMethods[m]
      [] m \in DOMAIN ExternalTunMethods -> ExternalTunMethods[m]
      [] m \in DOMAIN Notifications      -> Notifications[m]
      [] m \in DOMAIN HandlerRequests    -> HandlerRequests[m]
      [] m \in DOMAIN PkiRequests        -> PkiRequests[m]
      [] OTHER                           -> RemoteRequest[m]

(* What a handler answers that does not override the method: the defaults  *)
(* of TunBuilder, EventHandler, ExternalTransport and ExternalTun.         *)
TunBuilderTrue ==
    {"set_layer", "set_route_metric_default", "set_allow_family",
     "set_allow_local_dns", "persist"}
EventHandlerTrue == {"socket_protect"}
ExternalTransportTrue == {"send_queue_empty"}
NoDescriptor == {"establish", "dco_enable", "native_handle"}

TraitDefault(m) ==
    IF m \in TunBuilderTrue \cup EventHandlerTrue \cup ExternalTransportTrue THEN 1
    ELSE IF m \in NoDescriptor THEN -1 ELSE 0

(* What Core is answered by its own base class, or by the override when    *)
(* there is no callback at all.                                            *)
BaseTrue ==
    {"socket_protect", "send_queue_empty", "set_layer", "set_route_metric_default",
     "set_allow_family", "set_allow_local_dns", "persist"}
BaseDescriptor == {"establish", "dco_enable"}
BaseAnswer(m) == IF m \in BaseTrue THEN 1 ELSE IF m \in BaseDescriptor THEN -1 ELSE 0

-----------------------------------------------------------------------------
(* What the handler did: it has no such interface, it panicked, it left    *)
(* the method alone, or it returned (1 accepts or gives a value, 7 is a    *)
(* descriptor, 0 refuses or fails, -2 is an error with an empty text).     *)
Returned(v) == [kind |-> "returned", v |-> v]
Absent == [kind |-> "absent", v |-> 0]
Panicked == [kind |-> "panicked", v |-> 0]
Inherited == [kind |-> "inherited", v |-> 0]

Results(m) ==
    IF m \in NoDescriptor THEN {-1, 7}
    ELSE IF m = "remote_override" THEN {-2, 0, 1} ELSE {0, 1}
Outcomes(m) ==
    {Panicked, Inherited} \cup {Returned(v) : v \in Results(m)}
       \cup IF m \in Optional THEN {Absent} ELSE {}

CompletionAnswer(m, v) ==
    IF m = "remote_override" /\ v = -2 THEN 1 ELSE v

TrampolineAssumes(m, o) ==
    CASE o.kind \in {"absent", "panicked"} -> IF m \in TunMethods THEN 1 ELSE CallDefault(m)
      [] o.kind = "inherited" -> TraitDefault(m)
      [] OTHER -> CompletionAnswer(m, o.v)

TrampolineUnwraps(m, o) ==
    CASE o.kind = "absent" -> CallDefault(m)
      [] o.kind \in {"inherited", "panicked"} -> TraitDefault(m)
      [] OTHER -> CompletionAnswer(m, o.v)

(* call_tun and its kin: catch_unwind, map_or(default), unwrap_or(default) *)
(* A completion reports an error by a flag for external PKI, and only by   *)
(* its text for a remote override.                                         *)
Trampoline(m, o) ==
    CASE o.kind \in {"absent", "panicked"} -> CallDefault(m)
      [] o.kind = "inherited" -> TraitDefault(m)
      [] OTHER -> CompletionAnswer(m, o.v)

(* set_dns_options hands over two enumerations as integers.                *)
DnsCodes == 0..3
CoreDns(code) == <<<<"Unset", "No", "Yes", "Optional">>[code + 1],
                   <<"Unset", "Plain", "HTTPS", "TLS">>[code + 1]>>
DnsSecurity(code) ==
    CASE code = 1 -> "No" [] code = 2 -> "Yes" [] code = 3 -> "Optional" [] OTHER -> "Unset"
DnsTransport(code) ==
    CASE code = 1 -> "Plain" [] code = 2 -> "HTTPS" [] code = 3 -> "TLS" [] OTHER -> "Unset"

Streams == {"event", "log", "app_control_message"}
AsyncRequests ==
    {"socket_protect", "pause_on_connection_timeout", "remote_override",
     "external_pki_certificate", "external_pki_sign"}

-----------------------------------------------------------------------------
VARIABLES
    session,    \* unbuilt, built, running, returned, delivered
    capacity,   \* slots of a broadcast channel
    calls,      \* how many callbacks the connection has made
    call,       \* per thread: the callback it is in
    driver,     \* free, checking (inside run_command), joining (cancelled), gone
    cancelled,  \* the session's token
    commands,   \* the session's channel: start_check, or the thread whose callback asks
    factories,  \* external factories Core was given: transport, tun
    tun,        \* Core's tunnel: none, building, failed, up
    skipped,    \* history: tunnel steps Core passed without the builder's yes
    reported,   \* history: messages Core has reported, per stream
    sent,       \* tail of each broadcast channel
    rx,         \* the receivers
    owners      \* who keeps a sender: the Client, the SessionHandles, the worker

callbackVars == <<session, capacity, calls, call, driver, commands,
                  factories, tun, skipped, reported, sent, rx, owners, cancelled>>

NoCall == [phase |-> "none", m |-> "clock_tick", code |-> 0, awaited |-> FALSE]
NoReceiver == [state |-> "none", stream |-> "event", from |-> 0, next |-> 0,
               got |-> <<>>, lagged |-> 0]
Threads == {"core", "check"}

CallStates ==
    [phase : {"none", "broadcast", "handler", "waiting"}, m : Methods, code : DnsCodes,
     awaited : BOOLEAN]
Receivers ==
    [state : {"none", "open", "ended"}, stream : Streams, from : Nat, next : Nat,
     got : Seq(Nat), lagged : Nat]

CallbackTypeOK ==
    /\ session \in {"unbuilt", "built", "running", "returned", "delivered"}
    /\ capacity \in Nat /\ calls \in 0..MaxCalls
    /\ call \in [Threads -> CallStates]
    /\ driver \in {"free", "checking", "joining", "gone"} /\ cancelled \in BOOLEAN
    /\ commands \in Seq(Threads \cup {"start_check"})
    /\ factories \subseteq {"transport", "tun"}
    /\ tun \in {"none", "building", "failed", "up"}
    /\ skipped \subseteq TunMethods
    /\ sent \in [Streams -> Nat] /\ reported \in [Streams -> Nat]
    /\ rx \in [Readers -> Receivers]
    /\ owners \subseteq {"client", "session", "worker"}

CallbackInit ==
    /\ session = "unbuilt" /\ capacity = 1 /\ calls = 0
    /\ call = [th \in Threads |-> NoCall]
    /\ driver = "gone" /\ cancelled = FALSE /\ commands = <<>>
    /\ factories = {} /\ tun = "none" /\ skipped = {}
    /\ reported = [s \in Streams |-> 0] /\ sent = [s \in Streams |-> 0]
    /\ rx = [r \in Readers |-> NoReceiver]
    /\ owners = {}

-----------------------------------------------------------------------------
(* Building, connecting, ending.                                           *)

(* broadcast::channel rounds the capacity up to a power of two: there is   *)
(* one among c, ..., 2c - 1.                                               *)
Slots(c) == {n \in c..(2 * c - 1) : \E k \in 0..c : n = 2 ^ k}

(* capacity(0) is 1; an async handler needs an active runtime.             *)
Build(kind, runtime, c) ==
    /\ session = "unbuilt"
    /\ kind = "async" => runtime
    /\ session' = "built"
    /\ capacity' \in Slots(IF c > 1 THEN c ELSE 1)
    /\ owners' = {"client"}
    /\ UNCHANGED <<calls, call, driver, commands, factories, tun, skipped, reported, sent, rx,
                   cancelled>>

Connect ==
    /\ session = "built" /\ "client" \in owners
    /\ session' = "running"
    /\ driver' = "free"
    /\ owners' = owners \cup {"session", "worker"}
    /\ UNCHANGED <<capacity, calls, call, commands, factories, tun, skipped, reported, sent, rx,
                   cancelled>>

(* connect returns, the tunnel torn down before.                           *)
CoreReturns ==
    /\ session = "running" /\ call["core"] = NoCall
    /\ session' = "returned"
    /\ tun' = "none" /\ factories' = {}
    /\ UNCHANGED <<capacity, calls, call, driver, commands, skipped, reported, sent, rx, owners,
                   cancelled>>

(* SessionHandle::cancel or stop, a clone of the token, or a Session that  *)
(* is dropped while handles remain.                                        *)
Cancel ==
    /\ session \in {"running", "returned"} /\ ~cancelled
    /\ cancelled' = TRUE
    /\ UNCHANGED <<session, capacity, calls, call, driver, commands, factories, tun, skipped,
                   reported, sent, rx, owners>>

(* The driver tells Core to stop and awaits the worker: the channel stays  *)
(* open, and no command is taken from it any more.                         *)
SelectCancelled ==
    /\ driver = "free" /\ cancelled
    /\ driver' = "joining"
    /\ UNCHANGED <<session, capacity, calls, call, commands, factories, tun, skipped, reported,
                   sent, rx, owners, cancelled>>

(* The driver joins the worker and completes; its clones of core go, and   *)
(* the channel with it.                                                    *)
Complete ==
    /\ session = "returned" /\ driver \in {"free", "joining"}
    /\ session' = "delivered"
    /\ driver' = "gone"
    /\ commands' = <<>>
    /\ owners' = owners \ {"worker"}
    /\ UNCHANGED <<capacity, calls, call, factories, tun, skipped, reported, sent, rx,
                   cancelled>>

(* The last of the Session and its handles, when it goes before the        *)
(* result, cancels the session.  A request on its way holds a handle.      *)
DropOwner(o) ==
    /\ o \in owners \cap {"client", "session"}
    /\ o = "session" => \A th \in Threads : call[th].phase # "waiting"
    /\ owners' = owners \ {o}
    /\ cancelled' = (cancelled \/ (o = "session" /\ session # "delivered"))
    /\ UNCHANGED <<session, capacity, calls, call, driver, commands, factories, tun, skipped,
                   reported, sent, rx>>

-----------------------------------------------------------------------------
(* One callback.                                                           *)

Enter(th, m, code) ==
    call' = [call EXCEPT ![th] =
        [NoCall EXCEPT !.phase = IF m \in Streams THEN "broadcast" ELSE "handler",
                       !.m = m, !.code = code]]

(* Core builds a tunnel step by step and establishes it when no step was   *)
(* refused; an external transport or tunnel is used once it accepted its   *)
(* configuration; the other callbacks come at any time.                    *)
Establishing == {"establish", "dco_enable"}

CoreMayCall(m) ==
    /\ m = "new_tunnel" => tun = "none"
    /\ m \in (TunSteps \ {"new_tunnel"}) \cup Establishing => tun = "building"
    /\ m \in DOMAIN TunDco \ {"dco_available", "dco_enable"} => tun = "up"
    /\ m \in {"persist", "teardown", "establish_lite"} => tun # "none"
    /\ m \in DOMAIN TransportMethods \ {"configure_transport"} => "transport" \in factories
    /\ m \in DOMAIN ExternalTunMethods \ {"configure_tun"} => "tun" \in factories

CoreCalls(m, code) ==
    /\ session = "running" /\ call["core"] = NoCall
    /\ calls < MaxCalls /\ calls' = calls + 1
    /\ CoreMayCall(m)
    /\ m = "set_dns_options" \/ code = 0
    /\ IF m \in Streams
       THEN reported' = [reported EXCEPT ![m] = @ + 1]
       ELSE UNCHANGED reported
    /\ Enter("core", m, code)
    /\ UNCHANGED <<session, capacity, driver, commands, factories, tun, skipped, sent, rx,
                   owners, cancelled>>

(* start_external_pki_certificate_check, by a task of the application.     *)
RequestCheck ==
    /\ session \in {"running", "returned"} /\ "session" \in owners
    /\ driver # "checking"
    /\ \A i \in DOMAIN commands : commands[i] # "start_check"
    /\ commands' = Append(commands, "start_check")
    /\ UNCHANGED <<session, capacity, calls, call, driver, factories, tun, skipped, reported,
                   sent, rx, owners, cancelled>>

(* The driver runs StartEpkiCertCheck and takes no other command until it  *)
(* is over.                                                                *)
StartCheck ==
    /\ driver = "free" /\ commands # <<>> /\ Head(commands) = "start_check"
    /\ driver' = "checking"
    /\ commands' = Tail(commands)
    /\ Enter("check", "external_pki_certificate", 0)
    /\ UNCHANGED <<session, capacity, calls, factories, tun, skipped, reported, sent, rx,
                   owners, cancelled>>

ToHandler(th) == call' = [call EXCEPT ![th].phase = "handler"]

BroadcastForgotten(th) ==
    /\ call[th].phase = "broadcast"
    /\ ToHandler(th)
    /\ UNCHANGED <<session, capacity, calls, driver, commands, factories, tun, skipped,
                   reported, sent, rx, owners, cancelled>>

(* BroadcastHandler sends before it delegates.                             *)
Broadcast(th) ==
    /\ call[th].phase = "broadcast"
    /\ sent' = [sent EXCEPT ![call[th].m] = @ + 1]
    /\ ToHandler(th)
    /\ UNCHANGED <<session, capacity, calls, driver, commands, factories, tun, skipped,
                   reported, rx, owners, cancelled>>

(* block_on: the future awaits a request to its own session.               *)
HandlerAwaits(th) ==
    /\ call[th].phase = "handler" /\ ~call[th].awaited
    /\ call[th].m \in AsyncRequests /\ "session" \in owners
    /\ call' = [call EXCEPT ![th].phase = "waiting", ![th].awaited = TRUE]
    /\ commands' = Append(commands, th)
    /\ UNCHANGED <<session, capacity, calls, driver, factories, tun, skipped, reported, sent,
                   rx, owners, cancelled>>

DriverAnswersBetweenCallbacks(th) ==
    /\ call[th].phase = "waiting" /\ driver = "free" /\ commands # <<>>
    /\ Head(commands) = th /\ call["core"] = NoCall
    /\ commands' = Tail(commands)
    /\ ToHandler(th)
    /\ UNCHANGED <<session, capacity, calls, driver, factories, tun, skipped, reported, sent,
                   rx, owners, cancelled>>

(* ... which the driver serves in its turn, on a thread of its own ...     *)
DriverAnswers(th) ==
    /\ call[th].phase = "waiting" /\ driver = "free" /\ commands # <<>>
    /\ Head(commands) = th
    /\ commands' = Tail(commands)
    /\ ToHandler(th)
    /\ UNCHANGED <<session, capacity, calls, driver, factories, tun, skipped, reported, sent,
                   rx, owners, cancelled>>

(* The handler's outcome goes back as an answer, on which Core acts: the   *)
(* first step of a tunnel that is refused fails it.                        *)
Refused == {0, -1}
Granted(m, o) ==
    \/ o.kind = "returned" /\ o.v \notin Refused
    \/ o.kind = "inherited" /\ TraitDefault(m) \notin Refused

HandlerReturns(th, o) ==
    /\ call[th].phase = "handler"
    /\ call' = [call EXCEPT ![th] = NoCall]
    /\ driver' = IF th = "check" THEN "free" ELSE driver
    /\ LET m == call[th].m
           v == Trampoline(m, o) IN
         /\ factories' =
              CASE m = "configure_transport" /\ v = 1 -> factories \cup {"transport"}
                [] m = "configure_tun" /\ v = 1 -> factories \cup {"tun"}
                [] OTHER -> factories
         /\ IF m \in TunSteps \cup Establishing
            THEN /\ tun' = IF v \in Refused THEN "failed"
                           ELSE IF m \in Establishing THEN "up" ELSE "building"
                 /\ skipped' = IF v \in Refused \/ Granted(m, o) THEN skipped
                               ELSE skipped \cup {m}
            ELSE IF m = "teardown" THEN tun' = "none" /\ skipped' = {}
            ELSE UNCHANGED <<tun, skipped>>
    /\ UNCHANGED <<session, capacity, calls, commands, reported, sent, rx, owners, cancelled>>

-----------------------------------------------------------------------------
(* The receivers.                                                          *)

Subscribe(r, s) ==
    /\ rx[r].state = "none" /\ "client" \in owners
    /\ rx' = [rx EXCEPT ![r] = [NoReceiver EXCEPT !.state = "open", !.stream = s,
                                !.from = sent[s], !.next = sent[s]]]
    /\ UNCHANGED <<session, capacity, calls, call, driver, commands, factories, tun, skipped,
                   reported, sent, owners, cancelled>>

(* The oldest message still in the channel is the one after Floor.         *)
Floor(s) == IF sent[s] > capacity THEN sent[s] - capacity ELSE 0

(* recv: the next message; or Lagged, when it was overwritten; or Closed,  *)
(* when nothing is left and no sender is.                                  *)
Recv(r) ==
    /\ rx[r].state = "open"
    /\ LET q == rx[r] IN
         rx' = [rx EXCEPT ![r] =
            IF q.next < Floor(q.stream)
            THEN [q EXCEPT !.lagged = @ + (Floor(q.stream) - q.next), !.next = Floor(q.stream)]
            ELSE IF q.next < sent[q.stream]
            THEN [q EXCEPT !.got = Append(@, q.next + 1), !.next = @ + 1]
            ELSE IF owners = {} THEN [q EXCEPT !.state = "ended"] ELSE q]
    /\ UNCHANGED <<session, capacity, calls, call, driver, commands, factories, tun, skipped,
                   reported, sent, owners, cancelled>>

-----------------------------------------------------------------------------
ThreadStep(th) ==
    \/ Broadcast(th) \/ DriverAnswers(th)
    \/ \E o \in Outcomes(call[th].m) : HandlerReturns(th, o)

CallbackNext ==
    \/ \E kind \in {"sync", "async"}, runtime \in BOOLEAN, c \in 0..MaxCapacity :
          Build(kind, runtime, c)
    \/ Connect \/ CoreReturns \/ Cancel \/ SelectCancelled \/ Complete
    \/ RequestCheck \/ StartCheck
    \/ \E o \in owners : DropOwner(o)
    \/ \E m \in Methods, code \in DnsCodes : CoreCalls(m, code)
    \/ \E th \in Threads : HandlerAwaits(th) \/ ThreadStep(th)
    \/ \E r \in Readers : Recv(r) \/ \E s \in Streams : Subscribe(r, s)

CallbackSpec == CallbackInit /\ [][CallbackNext]_callbackVars

(* A callback of the application returns, the driver serves commands and   *)
(* notices the token, and a Core that was told to stop returns from        *)
(* connect() between two callbacks.                                        *)
CallbackFairSpec ==
    /\ CallbackSpec
    /\ WF_callbackVars(StartCheck) /\ WF_callbackVars(SelectCancelled)
    /\ WF_callbackVars(driver = "joining" /\ CoreReturns) /\ WF_callbackVars(Complete)
    /\ \A th \in Threads : WF_callbackVars(ThreadStep(th))

-----------------------------------------------------------------------------
(* Properties.                                                             *)

(* A receiver that has not ended holds everything since it subscribed: in  *)
(* order, what it got, what it was told it missed and what is still there. *)
(* Nothing Core reported is missing from a stream once its callback is     *)
(* over, so a receiver drained after the session's result has seen all.    *)
StreamExact ==
    /\ \A r \in Readers : LET q == rx[r] IN
         /\ q.next = q.from + q.lagged + Len(q.got)
         /\ q.next <= sent[q.stream]
         /\ \A i, j \in DOMAIN q.got : i < j => q.got[i] < q.got[j]
         /\ q.state = "ended" => q.next = reported[q.stream] /\ owners = {}
    /\ \A s \in Streams :
         reported[s] = sent[s] + IF call["core"].phase = "broadcast" /\ call["core"].m = s
                                 THEN 1 ELSE 0

(* Core calls only inside connect(), whose worker keeps a sender: a stream *)
(* ends after the last message.  Only Core's thread reports, and nobody    *)
(* receives from a client that was not built.                              *)
SendersKept ==
    /\ session \in {"running", "returned"} => "worker" \in owners
    /\ call["core"].phase # "none" => session = "running"
    /\ call["core"].phase = "broadcast" => call["core"].m \in Streams
    /\ call["check"].phase # "broadcast"
    /\ session = "unbuilt" => owners = {} /\ \A r \in Readers : rx[r].state = "none"
    /\ \A r \in Readers : \A i \in DOMAIN rx[r].got : rx[r].got[i] <= rx[r].next

CallbackInv == CallbackTypeOK /\ StreamExact /\ SendersKept

(* Core has no tunnel on a step that the application's builder did not     *)
(* accept, however callbacks fail or panic, but for the steps that Core's  *)
(* own base class takes for granted.                                       *)
TunnelConfigured == tun = "up" => skipped \subseteq BaseTrue

(* A handler that leaves a method alone, or has no such interface, cannot  *)
(* be told from Core's base class; one that panics gives that answer or    *)
(* refuses; an answer reaches Core as given; DNS settings keep their       *)
(* meaning.  (native_handle is -1 where the override alone would say 0; a  *)
(* remote override that fails with an empty text looks like a success.)    *)
AnswersFaithful ==
    \A th \in Threads : call[th].phase = "handler" =>
        LET m == call[th].m
            code == call[th].code IN
        /\ \A o \in Outcomes(m) : LET v == Trampoline(m, o) IN
             CASE o.kind \in {"inherited", "absent"} ->
                    m = "native_handle" \/ v = BaseAnswer(m)
               [] o.kind = "panicked" ->
                    IF m \in EventHandlerTrue THEN v = 0 ELSE v \in {BaseAnswer(m), -1}
               [] OTHER -> o.v = -2 \/ v = o.v
        /\ <<DnsSecurity(code), DnsTransport(code)>> = CoreDns(code)

(* A callback comes to its end, also one that awaits a request to its own  *)
(* session, unless nobody serves the request: the driver is inside the     *)
(* certificate check whose callback asks, or has left its loop for a       *)
(* cancelled session and awaits the very worker that is in the callback.   *)
Unserved ==
    \/ call["check"].phase = "waiting"
    \/ driver = "joining" /\ call["core"].phase = "waiting"

CallbackSettles ==
    \A th \in Threads :
        (call[th].phase # "none") ~> (call[th].phase = "none" \/ Unserved)

(* Cancelling a session ends it: "Dropping an unfinished session is        *)
(* cancellation-safe: Core receives `stop()` and its blocking worker is    *)
(* allowed to finish cleanup in the background" (tokio.rs:566), and        *)
(* "Dropping `session`, or cancelling its CancellationToken, also stops    *)
(* Core safely" (README.md:311).                                           *)
CancelledSessionEnds == (driver = "joining") ~> (session = "delivered")
=============================================================================
