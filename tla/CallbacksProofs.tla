-------------------------- MODULE CallbacksProofs ---------------------------
(***************************************************************************)
(* Proofs about Callbacks, for every number of receivers, every capacity   *)
(* and every number of callbacks.                                          *)
(***************************************************************************)
EXTENDS Callbacks, SequenceTheorems, TLAPS

USE CallbacksAssumption

-----------------------------------------------------------------------------
(* What the trampolines answer.                                            *)

(* The answer of every trampoline when the handler has no such interface   *)
(* or panics (native.rs): yes only where Core's base class says so, but    *)
(* for socket_protect, which refuses.                                      *)
LEMMA DefaultAnswers ==
    \A m \in Methods :
        CallDefault(m) = IF m \in BaseTrue \ {"socket_protect"} THEN 1
                         ELSE IF m \in NoDescriptor THEN -1 ELSE 0
<1>. DEFINE Answer(m) == IF m \in BaseTrue \ {"socket_protect"} THEN 1
                         ELSE IF m \in NoDescriptor THEN -1 ELSE 0
<1>. USE DEF CallDefault, TunAddressing, TunNaming, TunLifecycle, TunDco, TransportMethods,
        ExternalTunMethods, Notifications, HandlerRequests, PkiRequests, RemoteRequest,
        BaseTrue, NoDescriptor
<1>1. ASSUME NEW m \in DOMAIN TunAddressing PROVE CallDefault(m) = Answer(m)
    OBVIOUS
<1>2. ASSUME NEW m \in DOMAIN TunNaming PROVE CallDefault(m) = Answer(m)
    OBVIOUS
<1>3. ASSUME NEW m \in DOMAIN TunLifecycle PROVE CallDefault(m) = Answer(m)
    OBVIOUS
<1>4. ASSUME NEW m \in DOMAIN TunDco PROVE CallDefault(m) = Answer(m)
    OBVIOUS
<1>5. ASSUME NEW m \in DOMAIN TransportMethods PROVE CallDefault(m) = Answer(m)
    OBVIOUS
<1>6. ASSUME NEW m \in DOMAIN ExternalTunMethods PROVE CallDefault(m) = Answer(m)
    OBVIOUS
<1>7. ASSUME NEW m \in DOMAIN Notifications PROVE CallDefault(m) = Answer(m)
    OBVIOUS
<1>8. ASSUME NEW m \in DOMAIN HandlerRequests PROVE CallDefault(m) = Answer(m)
    OBVIOUS
<1>9. ASSUME NEW m \in DOMAIN PkiRequests PROVE CallDefault(m) = Answer(m)
    OBVIOUS
<1>10. ASSUME NEW m \in DOMAIN RemoteRequest PROVE CallDefault(m) = Answer(m)
    OBVIOUS
<1>. HIDE DEF CallDefault, TunAddressing, TunNaming, TunLifecycle, TunDco, TransportMethods,
        ExternalTunMethods, Notifications, HandlerRequests, PkiRequests, RemoteRequest,
        BaseTrue, NoDescriptor, Answer
<1>11. \A m \in Methods : CallDefault(m) = Answer(m)
    BY <1>1, <1>2, <1>3, <1>4, <1>5, <1>6, <1>7, <1>8, <1>9, <1>10
    DEF Methods, Optional, TunMethods, TunSteps
<1>. QED  BY <1>11 DEF Answer

(* What the trait's own defaults answer is what Core's base class says,    *)
(* but for native_handle.                                                  *)
LEMMA TraitAnswers ==
    \A m : m # "native_handle" => TraitDefault(m) = BaseAnswer(m)
BY DEF TraitDefault, BaseAnswer, BaseTrue, BaseDescriptor, TunBuilderTrue, EventHandlerTrue,
    ExternalTransportTrue, NoDescriptor

(* The four kinds of outcome, and when an interface can be missing.        *)
LEMMA OutcomeKinds ==
    ASSUME NEW m, NEW o \in Outcomes(m)
    PROVE  \/ o.kind = "panicked"
           \/ o.kind = "inherited"
           \/ o.kind = "returned" /\ o.v \in Results(m)
           \/ o.kind = "absent" /\ m \in Optional
BY DEF Outcomes, Panicked, Inherited, Returned, Absent

(* A missing interface is no part of an event handler.                     *)
LEMMA OptionalApart == "socket_protect" \notin Optional
BY DEF Optional, TunMethods, TunSteps, TunAddressing, TunNaming, TunLifecycle, TunDco,
    TransportMethods, ExternalTunMethods

(* The answer that crosses the FFI for one method and one outcome, with    *)
(* the base class of Core as the reference.                                *)
LEMMA AnswerHolds ==
    ASSUME NEW m \in Methods, NEW o \in Outcomes(m)
    PROVE  LET v == Trampoline(m, o) IN
           CASE o.kind \in {"inherited", "absent"} -> m = "native_handle" \/ v = BaseAnswer(m)
             [] o.kind = "panicked" ->
                  IF m \in EventHandlerTrue THEN v = 0 ELSE v \in {BaseAnswer(m), -1}
             [] OTHER -> o.v = -2 \/ v = o.v
<1>. DEFINE v == Trampoline(m, o)
<1>1. CASE o.kind = "inherited"
    <2>1. v = TraitDefault(m)
        BY <1>1 DEF Trampoline
    <2>. QED  BY <1>1, <2>1, TraitAnswers
<1>2. CASE o.kind = "absent"
    <2>1. v = CallDefault(m) /\ m # "socket_protect"
        BY <1>2, OutcomeKinds, OptionalApart DEF Trampoline
    <2>2. m = "native_handle" \/ v = BaseAnswer(m)
        BY <2>1, DefaultAnswers DEF BaseAnswer, BaseTrue, BaseDescriptor, NoDescriptor
    <2>. QED  BY <1>2, <2>2
<1>3. CASE o.kind = "panicked"
    <2>1. v = CallDefault(m)
        BY <1>3 DEF Trampoline
    <2>2. IF m \in EventHandlerTrue THEN v = 0 ELSE v \in {BaseAnswer(m), -1}
        BY <2>1, DefaultAnswers
        DEF BaseAnswer, BaseTrue, BaseDescriptor, NoDescriptor, EventHandlerTrue
    <2>. QED  BY <1>3, <2>2
<1>4. CASE o.kind = "returned"
    <2>1. v = CompletionAnswer(m, o.v)
        BY <1>4 DEF Trampoline
    <2>2. o.v = -2 \/ v = o.v
        BY <2>1 DEF CompletionAnswer
    <2>. QED  BY <1>4, <2>2
<1>. QED  BY <1>1, <1>2, <1>3, <1>4, OutcomeKinds

(* The two enumerations of set_dns_options keep their meaning.             *)
LEMMA DnsHolds ==
    \A code \in DnsCodes : <<DnsSecurity(code), DnsTransport(code)>> = CoreDns(code)
<1>. SUFFICES ASSUME NEW code \in DnsCodes
              PROVE  <<DnsSecurity(code), DnsTransport(code)>> = CoreDns(code)
    OBVIOUS
<1>1. code \in {0, 1, 2, 3}
    BY DEF DnsCodes
<1>2. CASE code = 0
    BY <1>2 DEF DnsSecurity, DnsTransport, CoreDns
<1>3. CASE code = 1
    BY <1>3 DEF DnsSecurity, DnsTransport, CoreDns
<1>4. CASE code = 2
    BY <1>4 DEF DnsSecurity, DnsTransport, CoreDns
<1>5. CASE code = 3
    BY <1>5 DEF DnsSecurity, DnsTransport, CoreDns
<1>. QED  BY <1>1, <1>2, <1>3, <1>4, <1>5

(* A tunnel step that Core passes without the builder's yes is one that    *)
(* Core's base class takes for granted.                                    *)
LEMMA OnlyBaseSkipped ==
    ASSUME NEW m \in TunSteps \cup Establishing, NEW o \in Outcomes(m),
           Trampoline(m, o) \notin Refused, ~Granted(m, o)
    PROVE  m \in BaseTrue
<1>1. m \in Methods /\ m # "remote_override"
    BY DEF Methods, Optional, TunMethods, TunSteps, Establishing, TunAddressing, TunNaming,
        TunLifecycle, TunDco
<1>2. o.kind # "inherited"
    BY DEF Trampoline, Granted
<1>3. o.kind # "returned"
    BY <1>1 DEF Trampoline, Granted, CompletionAnswer
<1>4. Trampoline(m, o) = CallDefault(m)
    BY <1>2, <1>3, OutcomeKinds DEF Trampoline
<1>. QED  BY <1>1, <1>4, DefaultAnswers DEF Refused

-----------------------------------------------------------------------------
(* The invariant.                                                          *)

(* The states a thread and a receiver begin with, and the methods a        *)
(* callback can be in.                                                     *)
LEMMA RestingStates ==
    NoCall \in CallStates /\ NoReceiver \in Receivers
      /\ "external_pki_certificate" \in Methods \ Streams /\ 0 \in DnsCodes
<1>1. "clock_tick" \in Methods /\ "external_pki_certificate" \in Methods
    BY DEF Methods, Notifications, PkiRequests
<1>2. 0 \in DnsCodes /\ "event" \in Streams /\ "external_pki_certificate" \notin Streams
    BY DEF DnsCodes, Streams
<1>3. NoCall \in CallStates
    BY <1>1, <1>2 DEF NoCall, CallStates
<1>4. NoReceiver \in Receivers
    <2>1. <<>> \in Seq(Nat)
        BY EmptySeq
    <2>. QED  BY <1>2, <2>1 DEF NoReceiver, Receivers
<1>. QED  BY <1>1, <1>2, <1>3, <1>4

(* No callback, no message and no receiver: all streams are empty.         *)
LEMMA CallbackInitInv == CallbackInit => CallbackInv
<1>. SUFFICES ASSUME CallbackInit PROVE CallbackInv
    OBVIOUS
<1>. USE DEF CallbackInit
<1>1. CallbackTypeOK
    <2>1. cancelled \in BOOLEAN
        BY Zenon
    <2>. QED  BY <2>1, RestingStates, EmptySeq DEF CallbackTypeOK, Threads
<1>2. StreamExact
    <2>1. \A r \in Readers : rx[r] = NoReceiver
        OBVIOUS
    <2>2. /\ NoReceiver.next = 0 /\ NoReceiver.from = 0 /\ NoReceiver.lagged = 0
          /\ NoReceiver.got = <<>> /\ NoReceiver.state = "none" /\ NoReceiver.stream \in Streams
        BY DEF NoReceiver, Streams
    <2>3. \A s \in Streams : reported[s] = 0 /\ sent[s] = 0
        OBVIOUS
    <2>4. call["core"].phase = "none"
        BY DEF Threads, NoCall
    <2>. QED  BY <2>1, <2>2, <2>3, <2>4 DEF StreamExact
<1>3. SendersKept
    BY DEF SendersKept, Threads, NoCall, NoReceiver
<1>. QED  BY <1>1, <1>2, <1>3 DEF CallbackInv

(* A step that moves no message and no receiver, starts and ends no        *)
(* callback of Core's thread in the middle of a broadcast, and leaves the  *)
(* ended receivers without senders, keeps the streams exact.               *)
LEMMA StreamKept ==
    ASSUME CallbackInv, UNCHANGED <<reported, sent, rx>>,
           call["core"].phase = "broadcast" <=> call'["core"].phase = "broadcast",
           call'["core"].phase = "broadcast" => call'["core"].m = call["core"].m,
           owners' \subseteq owners \/ \A r \in Readers : rx[r].state # "ended"
    PROVE  StreamExact'
<1>1. \A r \in Readers : rx[r].state = "ended" => owners' = {}
    BY DEF CallbackInv, StreamExact
<1>. QED  BY <1>1 DEF CallbackInv, StreamExact

(* The order of what was received survives the next message.               *)
LEMMA AppendRising ==
    ASSUME NEW g \in Seq(Nat), NEW n \in Nat,
           \A i, j \in DOMAIN g : i < j => g[i] < g[j],
           \A i \in DOMAIN g : g[i] <= n
    PROVE  LET h == Append(g, n + 1) IN
           /\ h \in Seq(Nat) /\ Len(h) = Len(g) + 1 /\ Len(g) \in Nat
           /\ \A i, j \in DOMAIN h : i < j => h[i] < h[j]
           /\ \A i \in DOMAIN h : h[i] <= n + 1
<1>. DEFINE h == Append(g, n + 1)
<1>1. /\ h \in Seq(Nat) /\ Len(h) = Len(g) + 1 /\ Len(g) \in Nat
      /\ DOMAIN g = 1..Len(g) /\ h[Len(g) + 1] = n + 1
      /\ \A i \in 1..Len(g) : h[i] = g[i]
    BY AppendProperties, LenProperties
<1>2. DOMAIN h = 1..(Len(g) + 1) /\ \A i \in 1..Len(g) : g[i] \in Nat
    BY <1>1, LenProperties, ElementOfSeq
<1>. HIDE DEF h
<1>3. ASSUME NEW i \in DOMAIN h PROVE (i \in DOMAIN g \/ i = Len(g) + 1) /\ i \in Nat /\ h[i] \in Nat
    <2>1. i \in Nat /\ (i \in 1..Len(g) \/ i = Len(g) + 1)
        BY <1>1, <1>2
    <2>2. CASE i \in 1..Len(g)
        BY <1>1, <1>2, <2>1, <2>2
    <2>3. CASE i = Len(g) + 1
        BY <1>1, <2>1, <2>3
    <2>. QED  BY <1>1, <2>1, <2>2, <2>3
<1>4. ASSUME NEW i \in DOMAIN g PROVE h[i] = g[i] /\ h[i] <= n /\ i <= Len(g)
    BY <1>1
<1>5. ASSUME NEW i \in DOMAIN h PROVE h[i] <= n + 1
    <2>1. CASE i \in DOMAIN g
        BY <1>3, <1>4, <2>1
    <2>2. CASE i = Len(g) + 1
        BY <1>1, <2>2
    <2>. QED  BY <1>3, <2>1, <2>2
<1>6. ASSUME NEW i \in DOMAIN h, NEW j \in DOMAIN h, i < j PROVE h[i] < h[j]
    <2>1. i \in DOMAIN g
        <3>1. j <= Len(g) + 1 /\ i \in Nat /\ j \in Nat
            BY <1>1, <1>2, <1>3
        <3>. QED  BY <1>1, <1>3, <1>6, <3>1
    <2>2. CASE j \in DOMAIN g
        BY <1>4, <1>6, <2>1, <2>2
    <2>3. CASE j = Len(g) + 1
        <3>1. h[j] = n + 1 /\ h[i] <= n /\ h[i] \in Nat
            BY <1>1, <1>3, <1>4, <2>1, <2>3
        <3>. QED  BY <3>1
    <2>. QED  BY <1>3, <2>2, <2>3
<1>. QED  BY <1>1, <1>5, <1>6 DEF h

(* The position of a receiver, when it is moved to the oldest message and  *)
(* when it takes one: what it started from, missed and got still add up.   *)
LEMMA PositionAddsUp ==
    ASSUME NEW from \in Nat, NEW lagged \in Nat, NEW got \in Nat, NEW floor \in Nat,
           NEW next \in Nat, next = from + lagged + got
    PROVE  /\ next < floor => lagged + (floor - next) \in Nat
           /\ floor = from + (lagged + (floor - next)) + got
           /\ next + 1 = from + lagged + (got + 1)
OBVIOUS

(* What is kept about a receiver q of a channel with that tail, and the    *)
(* two ways recv moves it.                                                 *)
Tidy(q, tail) ==
    /\ q.next = q.from + q.lagged + Len(q.got)
    /\ q.next <= tail
    /\ \A i, j \in DOMAIN q.got : i < j => q.got[i] < q.got[j]
    /\ \A i \in DOMAIN q.got : q.got[i] <= q.next
Lagged(q, floor) == [q EXCEPT !.lagged = @ + (floor - q.next), !.next = floor]
Taken(q) == [q EXCEPT !.got = Append(@, q.next + 1), !.next = @ + 1]

(* A receiver that is told it lagged.                                      *)
LEMMA ReceiverLags ==
    ASSUME NEW q \in Receivers, NEW floor \in Nat, NEW tail \in Nat,
           floor <= tail, q.next < floor, Tidy(q, tail)
    PROVE  LET p == Lagged(q, floor) IN
           p \in Receivers /\ p.stream = q.stream /\ p.state = q.state /\ Tidy(p, tail)
<1>. DEFINE p == Lagged(q, floor)
<1>0. /\ p = [q EXCEPT !.lagged = @ + (floor - q.next), !.next = floor]
      /\ q.next = q.from + q.lagged + Len(q.got)
      /\ \A i, j \in DOMAIN q.got : i < j => q.got[i] < q.got[j]
      /\ \A i \in DOMAIN q.got : q.got[i] <= q.next
    BY DEF Lagged, Tidy
<1>. HIDE DEF p
<1>1. /\ q.from \in Nat /\ q.next \in Nat /\ q.lagged \in Nat /\ q.got \in Seq(Nat)
      /\ q.stream \in Streams
    BY DEF Receivers
<1>2. Len(q.got) \in Nat /\ \A i \in DOMAIN q.got : q.got[i] \in Nat
    BY <1>1, LenProperties, ElementOfSeq
<1>3. /\ p.stream = q.stream /\ p.got = q.got /\ p.state = q.state /\ p.from = q.from
      /\ p.next = floor /\ p.lagged = q.lagged + (floor - q.next)
    BY <1>0 DEF Receivers
<1>4. /\ q.lagged + (floor - q.next) \in Nat
      /\ floor = q.from + (q.lagged + (floor - q.next)) + Len(q.got)
    <2>1. PICK a \in Nat, b \in Nat, c \in Nat, n \in Nat :
              a = q.from /\ b = q.lagged /\ c = Len(q.got) /\ n = q.next /\ n = a + b + c
        BY <1>0, <1>1, <1>2, Zenon
    <2>2. n < floor
        BY <2>1, Zenon
    <2>3. b + (floor - n) \in Nat /\ floor = a + (b + (floor - n)) + c
        <3>1. n = a + b + c
            BY <2>1
        <3>. HIDE <2>1
        <3>. QED  BY <2>2, <3>1, PositionAddsUp
    <2>. QED  BY <2>1, <2>3, Zenon
<1>5. p \in Receivers
    BY <1>0, <1>1, <1>4 DEF Receivers
<1>6. p.next = p.from + p.lagged + Len(p.got)
    BY <1>3, <1>4, Zenon
<1>7. \A i \in DOMAIN p.got : p.got[i] <= p.next
    BY <1>0, <1>1, <1>2, <1>3
<1>8. Tidy(p, tail)
    BY <1>0, <1>3, <1>6, <1>7 DEF Tidy
<1>. QED  BY <1>3, <1>5, <1>8 DEF p

(* A receiver that takes the next message.                                 *)
LEMMA ReceiverTakes ==
    ASSUME NEW q \in Receivers, NEW tail \in Nat, q.next < tail, Tidy(q, tail)
    PROVE  LET p == Taken(q) IN
           p \in Receivers /\ p.stream = q.stream /\ p.state = q.state /\ Tidy(p, tail)
<1>. DEFINE p == Taken(q)
<1>0. /\ p = [q EXCEPT !.got = Append(@, q.next + 1), !.next = @ + 1]
      /\ q.next = q.from + q.lagged + Len(q.got)
      /\ \A i, j \in DOMAIN q.got : i < j => q.got[i] < q.got[j]
      /\ \A i \in DOMAIN q.got : q.got[i] <= q.next
    BY DEF Taken, Tidy
<1>. HIDE DEF p
<1>1. /\ q.from \in Nat /\ q.next \in Nat /\ q.lagged \in Nat /\ q.got \in Seq(Nat)
      /\ q.stream \in Streams
    BY DEF Receivers
<1>. DEFINE h == Append(q.got, q.next + 1)
<1>2. /\ h \in Seq(Nat) /\ Len(h) = Len(q.got) + 1 /\ Len(q.got) \in Nat
      /\ \A i, j \in DOMAIN h : i < j => h[i] < h[j]
      /\ \A i \in DOMAIN h : h[i] <= q.next + 1
    BY <1>0, <1>1, AppendRising
<1>3. p = [q EXCEPT !.got = h, !.next = q.next + 1]
    BY <1>0
<1>. HIDE DEF h
<1>4. /\ p.stream = q.stream /\ p.got = h /\ p.state = q.state /\ p.from = q.from
      /\ p.next = q.next + 1 /\ p.lagged = q.lagged
    BY <1>3 DEF Receivers
<1>5. p \in Receivers
    <2>1. q.next + 1 \in Nat /\ h \in Seq(Nat)
        BY <1>1, <1>2
    <2>. QED  BY <1>3, <2>1 DEF Receivers
<1>6. q.next + 1 = q.from + q.lagged + (Len(q.got) + 1)
    <2>1. PICK a \in Nat, b \in Nat, c \in Nat, n \in Nat :
              a = q.from /\ b = q.lagged /\ c = Len(q.got) /\ n = q.next /\ n = a + b + c
        BY <1>0, <1>1, <1>2, Zenon
    <2>2. n + 1 = a + b + (c + 1)
        <3>1. n = a + b + c
            BY <2>1
        <3>. HIDE <2>1
        <3>. QED  BY <3>1, PositionAddsUp
    <2>. QED  BY <2>1, <2>2, Zenon
<1>7. p.next = p.from + p.lagged + Len(p.got)
    BY <1>2, <1>4, <1>6, Zenon
<1>8. p.next <= tail
    BY <1>1, <1>4
<1>9. Tidy(p, tail)
    BY <1>2, <1>4, <1>7, <1>8 DEF Tidy
<1>. QED  BY <1>4, <1>5, <1>9 DEF p

(* One step per action: the client and its session, the callbacks, the     *)
(* receivers.                                                              *)
LEMMA CallbackNextInv == CallbackInv /\ [CallbackNext]_callbackVars => CallbackInv'
<1>. SUFFICES ASSUME CallbackInv, [CallbackNext]_callbackVars PROVE CallbackInv'
    OBVIOUS
<1>t. CallbackTypeOK /\ StreamExact /\ SendersKept
    BY DEF CallbackInv
<1>c. "core" \in Threads /\ "check" \in Threads /\ \A th \in Threads : th = "core" \/ th = "check"
    BY DEF Threads
<1>1. ASSUME NEW kind \in {"sync", "async"}, NEW runtime \in BOOLEAN, NEW c \in 0..MaxCapacity,
             Build(kind, runtime, c)
      PROVE  CallbackInv'
    <2>. USE <1>1 DEF Build
    <2>1. capacity' \in Nat
        BY DEF Slots
    <2>2. CallbackTypeOK'
        BY <1>t, <2>1 DEF CallbackTypeOK
    <2>3. StreamExact'
        BY <1>t, StreamKept DEF SendersKept
    <2>4. SendersKept'
        BY <1>t DEF SendersKept
    <2>. QED  BY <2>2, <2>3, <2>4 DEF CallbackInv
<1>2. CASE Connect
    <2>. USE <1>2 DEF Connect
    <2>1. CallbackTypeOK'
        BY <1>t DEF CallbackTypeOK
    <2>2. \A r \in Readers : rx[r].state # "ended"
        BY <1>t DEF StreamExact
    <2>3. StreamExact'
        BY <2>2, StreamKept
    <2>4. SendersKept'
        BY <1>t DEF SendersKept
    <2>. QED  BY <2>1, <2>3, <2>4 DEF CallbackInv
<1>3. CASE CoreReturns
    <2>. USE <1>3 DEF CoreReturns
    <2>1. CallbackTypeOK'
        BY <1>t DEF CallbackTypeOK
    <2>2. StreamExact'
        BY StreamKept
    <2>3. SendersKept'
        BY <1>t DEF SendersKept, NoCall
    <2>. QED  BY <2>1, <2>2, <2>3 DEF CallbackInv
<1>4. CASE Complete
    <2>. USE <1>4 DEF Complete
    <2>1. CallbackTypeOK'
        BY <1>t, EmptySeq DEF CallbackTypeOK
    <2>2. StreamExact'
        BY StreamKept
    <2>3. SendersKept'
        BY <1>t DEF SendersKept
    <2>. QED  BY <2>1, <2>2, <2>3 DEF CallbackInv
<1>5. CASE RequestCheck
    <2>. USE <1>5 DEF RequestCheck
    <2>1. CallbackTypeOK'
        BY <1>t, AppendProperties DEF CallbackTypeOK
    <2>2. StreamExact'
        BY StreamKept
    <2>3. SendersKept'
        BY <1>t DEF SendersKept
    <2>. QED  BY <2>1, <2>2, <2>3 DEF CallbackInv
<1>6. CASE StartCheck
    <2>. DEFINE entered == [NoCall EXCEPT !.phase = "handler", !.m = "external_pki_certificate",
                                          !.code = 0]
    <2>. USE <1>6 DEF StartCheck
    <2>1. call' = [call EXCEPT !["check"] = entered]
        BY RestingStates DEF Enter
    <2>2. entered \in CallStates /\ entered.phase = "handler"
        BY RestingStates DEF NoCall, CallStates
    <2>. HIDE DEF entered
    <2>3. call' \in [Threads -> CallStates] /\ call'["core"] = call["core"] /\ call'["check"] = entered
        BY <1>t, <1>c, <2>1, <2>2 DEF CallbackTypeOK
    <2>4. CallbackTypeOK'
        BY <1>t, <2>3, HeadTailProperties DEF CallbackTypeOK
    <2>5. StreamExact'
        BY <2>3, StreamKept
    <2>6. SendersKept'
        BY <1>t, <2>2, <2>3 DEF SendersKept
    <2>. QED  BY <2>4, <2>5, <2>6 DEF CallbackInv
<1>7. ASSUME NEW o \in owners, DropOwner(o)
      PROVE  CallbackInv'
    <2>. USE <1>7 DEF DropOwner
    <2>1. CallbackTypeOK'
        <3>1. cancelled' \in BOOLEAN
            BY Zenon
        <3>. QED  BY <1>t, <3>1 DEF CallbackTypeOK
    <2>2. StreamExact'
        BY StreamKept
    <2>3. SendersKept'
        BY <1>t DEF SendersKept
    <2>. QED  BY <2>1, <2>2, <2>3 DEF CallbackInv
<1>8. ASSUME NEW m \in Methods, NEW code \in DnsCodes, CoreCalls(m, code)
      PROVE  CallbackInv'
    <2>. DEFINE entered == [NoCall EXCEPT !.phase = IF m \in Streams THEN "broadcast" ELSE "handler",
                                          !.m = m, !.code = code]
    <2>. USE <1>8 DEF CoreCalls
    <2>1. call' = [call EXCEPT !["core"] = entered]
        BY DEF Enter
    <2>2. /\ entered \in CallStates /\ entered.m = m
          /\ entered.phase = IF m \in Streams THEN "broadcast" ELSE "handler"
        BY RestingStates DEF NoCall, CallStates
    <2>. HIDE DEF entered
    <2>3. call' \in [Threads -> CallStates] /\ call'["core"] = entered /\ call'["check"] = call["check"]
        BY <1>t, <1>c, <2>1, <2>2 DEF CallbackTypeOK
    <2>4. /\ session = "running" /\ UNCHANGED <<session, sent, rx, owners>>
          /\ call["core"].phase = "none" /\ calls' \in 0..MaxCalls
        BY <1>t DEF NoCall, CallbackTypeOK
    <2>5. /\ reported' \in [Streams -> Nat]
          /\ \A s \in Streams : reported'[s] = reported[s] + IF m = s THEN 1 ELSE 0
        <3>1. reported \in [Streams -> Nat]
            BY <1>t DEF CallbackTypeOK
        <3>2. CASE m \in Streams
            BY <3>1, <3>2
        <3>3. CASE m \notin Streams
            BY <3>1, <3>3
        <3>. QED  BY <3>2, <3>3
    <2>6. CallbackTypeOK'
        BY <1>t, <2>3, <2>4, <2>5 DEF CallbackTypeOK
    <2>. HIDE DEF CoreCalls
    <2>7. StreamExact'
        <3>1. \A s \in Streams : reported[s] = sent[s] + 0 /\ sent[s] \in Nat
            BY <1>t, <2>4 DEF StreamExact, CallbackTypeOK
        <3>2. \A s \in Streams : reported'[s] =
                  sent[s] + IF call'["core"].phase = "broadcast" /\ call'["core"].m = s THEN 1 ELSE 0
            BY <2>2, <2>3, <2>5, <3>1
        <3>3. owners # {}
            BY <1>t, <2>4 DEF SendersKept
        <3>. QED  BY <1>t, <2>4, <3>2, <3>3 DEF StreamExact
    <2>8. SendersKept'
        BY <1>t, <2>2, <2>3, <2>4 DEF SendersKept
    <2>. QED  BY <2>6, <2>7, <2>8 DEF CallbackInv
<1>9. ASSUME NEW th \in Threads, HandlerAwaits(th)
      PROVE  CallbackInv'
    <2>. USE <1>9 DEF HandlerAwaits
    <2>1. /\ call' \in [Threads -> CallStates] /\ call'[th].phase = "waiting"
          /\ \A u \in Threads : u # th => call'[u] = call[u]
          /\ call[th].phase = "handler"
        BY <1>t DEF CallbackTypeOK, CallStates
    <2>2. CallbackTypeOK'
        BY <1>t, <2>1, AppendProperties DEF CallbackTypeOK
    <2>3. StreamExact'
        BY <1>c, <2>1, StreamKept
    <2>4. SendersKept'
        BY <1>t, <1>c, <2>1 DEF SendersKept
    <2>. QED  BY <2>2, <2>3, <2>4 DEF CallbackInv
<1>10. ASSUME NEW th \in Threads, Broadcast(th)
      PROVE  CallbackInv'
    <2>. DEFINE s == call["core"].m
    <2>. USE <1>10 DEF Broadcast, ToHandler
    <2>1. th = "core" /\ s \in Streams /\ call["core"].phase = "broadcast"
        BY <1>t, <1>c DEF SendersKept
    <2>2. /\ call' \in [Threads -> CallStates] /\ call'["core"].phase = "handler"
          /\ call'["check"] = call["check"]
        <3>1. /\ call' \in [Threads -> CallStates] /\ call'[th].phase = "handler"
              /\ \A u \in Threads : u # th => call'[u] = call[u]
            BY <1>t DEF CallbackTypeOK, CallStates
        <3>. QED  BY <1>c, <2>1, <3>1
    <2>3. /\ sent' \in [Streams -> Nat]
          /\ \A u \in Streams : sent'[u] = sent[u] + IF s = u THEN 1 ELSE 0
        BY <1>t, <2>1 DEF CallbackTypeOK
    <2>4. CallbackTypeOK'
        BY <1>t, <2>2, <2>3 DEF CallbackTypeOK
    <2>5. UNCHANGED <<session, reported, rx, owners>>
        OBVIOUS
    <2>. HIDE DEF Broadcast, s
    <2>6. StreamExact'
        <3>1. \A u \in Streams : reported[u] = sent[u] + IF s = u THEN 1 ELSE 0
            BY <1>t, <2>1 DEF StreamExact, s
        <3>2. \A u \in Streams : sent[u] \in Nat /\ sent[u] <= sent'[u]
            <4>1. \A u \in Streams : sent[u] \in Nat
                BY <1>t DEF CallbackTypeOK
            <4>. QED  BY <2>3, <4>1
        <3>3. \A r \in Readers : rx[r].stream \in Streams /\ rx[r].next \in Nat
            BY <1>t DEF CallbackTypeOK, Receivers
        <3>4. \A r \in Readers : rx[r].next <= sent'[rx[r].stream]
            BY <1>t, <2>3, <3>2, <3>3 DEF StreamExact
        <3>5. \A u \in Streams : reported[u] = sent'[u] + 0
            BY <2>3, <3>1, <3>2
        <3>. QED  BY <1>t, <2>2, <2>5, <3>4, <3>5 DEF StreamExact
    <2>7. SendersKept'
        BY <1>t, <2>1, <2>2, <2>5 DEF SendersKept
    <2>. QED  BY <2>4, <2>6, <2>7 DEF CallbackInv
<1>11. ASSUME NEW th \in Threads, DriverAnswers(th)
      PROVE  CallbackInv'
    <2>. USE <1>11 DEF DriverAnswers, ToHandler
    <2>1. /\ call' \in [Threads -> CallStates] /\ call'[th].phase = "handler"
          /\ \A u \in Threads : u # th => call'[u] = call[u]
          /\ call[th].phase = "waiting"
        BY <1>t DEF CallbackTypeOK, CallStates
    <2>2. CallbackTypeOK'
        BY <1>t, <2>1, HeadTailProperties DEF CallbackTypeOK
    <2>3. StreamExact'
        BY <1>c, <2>1, StreamKept
    <2>4. SendersKept'
        BY <1>t, <1>c, <2>1 DEF SendersKept
    <2>. QED  BY <2>2, <2>3, <2>4 DEF CallbackInv
<1>12. ASSUME NEW th \in Threads, NEW o \in Outcomes(call[th].m), HandlerReturns(th, o)
      PROVE  CallbackInv'
    <2>. USE <1>12 DEF HandlerReturns
    <2>1. /\ call' \in [Threads -> CallStates] /\ call'[th].phase = "none"
          /\ \A u \in Threads : u # th => call'[u] = call[u]
          /\ call[th].phase = "handler"
        BY <1>t, RestingStates DEF CallbackTypeOK, NoCall
    <2>2. /\ driver' \in {"free", "checking", "joining", "gone"}
          /\ factories' \subseteq {"transport", "tun"}
          /\ tun' \in {"none", "building", "failed", "up"}
          /\ skipped' \subseteq TunMethods
        <3>1. TunSteps \cup Establishing \subseteq TunMethods
            BY DEF TunMethods, Establishing, TunLifecycle, TunDco
        <3>. DEFINE m == call[th].m
                    v == Trampoline(m, o)
        <3>2. driver' \in {"free", "checking", "joining", "gone"}
            BY <1>t DEF CallbackTypeOK
        <3>3. factories' \subseteq {"transport", "tun"}
            <4>1. factories' \in {factories \cup {"transport"}, factories \cup {"tun"}, factories}
                <5>1. CASE m = "configure_transport" /\ v = 1
                    BY <5>1
                <5>2. CASE m = "configure_tun" /\ v = 1
                    BY <5>2
                <5>3. CASE ~(m = "configure_transport" /\ v = 1) /\ ~(m = "configure_tun" /\ v = 1)
                    BY <5>3
                <5>. QED  BY <5>1, <5>2, <5>3
            <4>. QED  BY <1>t, <4>1 DEF CallbackTypeOK
        <3>4. tun' \in {"none", "building", "failed", "up"} /\ skipped' \subseteq TunMethods
            <4>1. CASE m \in TunSteps \cup Establishing
                BY <1>t, <3>1, <4>1 DEF CallbackTypeOK
            <4>2. CASE m \notin TunSteps \cup Establishing
                BY <1>t, <4>2 DEF CallbackTypeOK
            <4>. QED  BY <4>1, <4>2
        <3>. QED  BY <3>2, <3>3, <3>4
    <2>3. UNCHANGED <<session, capacity, calls, commands, reported, sent, rx, owners, cancelled>>
        OBVIOUS
    <2>. HIDE DEF HandlerReturns
    <2>4. CallbackTypeOK'
        BY <1>t, <2>1, <2>2, <2>3 DEF CallbackTypeOK
    <2>5. StreamExact'
        BY <1>c, <2>1, <2>3, StreamKept
    <2>6. SendersKept'
        BY <1>t, <1>c, <2>1, <2>3 DEF SendersKept
    <2>. QED  BY <2>4, <2>5, <2>6 DEF CallbackInv
<1>13. ASSUME NEW r \in Readers, Recv(r)
      PROVE  CallbackInv'
    <2>. DEFINE q == rx[r]
                floor == Floor(q.stream)
    <2>. USE <1>13 DEF Recv
    <2>1. /\ q \in Receivers /\ q.stream \in Streams /\ q.from \in Nat /\ q.next \in Nat
          /\ q.got \in Seq(Nat) /\ q.lagged \in Nat /\ q.state = "open"
        BY <1>t DEF CallbackTypeOK, Receivers
    <2>2. sent[q.stream] \in Nat /\ capacity \in Nat
        BY <1>t, <2>1 DEF CallbackTypeOK
    <2>3. floor \in Nat /\ floor <= sent[q.stream]
        BY <2>2 DEF Floor
    <2>4. Tidy(q, sent[q.stream])
        BY <1>t DEF StreamExact, SendersKept, Tidy
    <2>5. UNCHANGED <<session, capacity, calls, call, driver, commands, factories, tun, skipped,
                      reported, sent, owners, cancelled>>
        OBVIOUS
    <2>6. PICK p : /\ rx' = [rx EXCEPT ![r] = p]
                   /\ \/ q.next < floor /\ p = Lagged(q, floor)
                      \/ q.next < sent[q.stream] /\ p = Taken(q)
                      \/ /\ ~(q.next < sent[q.stream]) /\ owners = {}
                         /\ p = [q EXCEPT !.state = "ended"]
                      \/ p = q
        BY DEF Lagged, Taken
    <2>. HIDE DEF Recv, floor, q
    <2>7. /\ p \in Receivers /\ p.stream = q.stream /\ Tidy(p, sent[q.stream])
          /\ p.state = "ended" => p.next = reported[p.stream] /\ owners = {}
        <3>1. CASE q.next < floor /\ p = Lagged(q, floor)
            BY <2>1, <2>2, <2>3, <2>4, <3>1, ReceiverLags
        <3>2. CASE q.next < sent[q.stream] /\ p = Taken(q)
            BY <2>1, <2>2, <2>4, <3>2, ReceiverTakes
        <3>3. CASE /\ ~(q.next < sent[q.stream]) /\ owners = {}
                   /\ p = [q EXCEPT !.state = "ended"]
            <4>1. /\ p.stream = q.stream /\ p.from = q.from /\ p.got = q.got
                  /\ p.lagged = q.lagged /\ p.next = q.next /\ p \in Receivers
                BY <2>1, <3>3 DEF Receivers
            <4>2. call["core"].phase = "none"
                BY <1>t, <3>3 DEF SendersKept
            <4>3. reported[q.stream] = sent[q.stream] + 0
                BY <1>t, <2>1, <4>2 DEF StreamExact
            <4>4. q.next = reported[q.stream]
                <5>1. q.next <= sent[q.stream]
                    BY <2>4 DEF Tidy
                <5>. QED  BY <2>1, <2>2, <3>3, <4>3, <5>1
            <4>5. Tidy(p, sent[q.stream])
                BY <2>4, <4>1 DEF Tidy
            <4>. QED  BY <3>3, <4>1, <4>4, <4>5
        <3>4. CASE p = q
            BY <2>1, <2>4, <3>4
        <3>. QED  BY <2>6, <3>1, <3>2, <3>3, <3>4
    <2>8. /\ rx' \in [Readers -> Receivers] /\ rx'[r] = p
          /\ \A e \in Readers : e # r => rx'[e] = rx[e]
        BY <1>t, <2>6, <2>7 DEF CallbackTypeOK
    <2>9. session # "unbuilt"
        BY <1>t, <2>1 DEF SendersKept, q
    <2>. HIDE DEF q
    <2>10. CallbackTypeOK'
        BY <1>t, <2>5, <2>8 DEF CallbackTypeOK
    <2>11. StreamExact'
        BY <1>t, <2>5, <2>7, <2>8 DEF StreamExact, Tidy
    <2>12. SendersKept'
        BY <1>t, <2>5, <2>7, <2>8, <2>9 DEF SendersKept, Tidy
    <2>. QED  BY <2>10, <2>11, <2>12 DEF CallbackInv
<1>14. ASSUME NEW r \in Readers, NEW s \in Streams, Subscribe(r, s)
      PROVE  CallbackInv'
    <2>. DEFINE p == [NoReceiver EXCEPT !.state = "open", !.stream = s,
                                        !.from = sent[s], !.next = sent[s]]
    <2>. USE <1>14 DEF Subscribe
    <2>1. sent[s] \in Nat
        BY <1>t DEF CallbackTypeOK
    <2>2. /\ p \in Receivers /\ p.state = "open" /\ p.stream = s /\ p.from = sent[s]
          /\ p.next = sent[s] /\ p.got = <<>> /\ p.lagged = 0
        BY <2>1, RestingStates DEF Receivers, NoReceiver
    <2>3. rx' = [rx EXCEPT ![r] = p]
          /\ UNCHANGED <<session, capacity, calls, call, driver, commands, factories, tun, skipped,
                         reported, sent, owners, cancelled>>
          /\ "client" \in owners
        OBVIOUS
    <2>. HIDE DEF Subscribe, p
    <2>4. /\ rx' \in [Readers -> Receivers] /\ rx'[r] = p
          /\ \A e \in Readers : e # r => rx'[e] = rx[e]
        BY <1>t, <2>2, <2>3 DEF CallbackTypeOK
    <2>5. session # "unbuilt"
        BY <1>t, <2>3 DEF SendersKept
    <2>6. CallbackTypeOK'
        BY <1>t, <2>3, <2>4 DEF CallbackTypeOK
    <2>7. /\ p.next = p.from + p.lagged + Len(p.got)
          /\ p.next <= sent[p.stream] /\ DOMAIN p.got = {} /\ p.state # "ended"
        BY <2>1, <2>2
    <2>8. StreamExact'
        BY <1>t, <2>3, <2>4, <2>7 DEF StreamExact
    <2>9. SendersKept'
        BY <1>t, <2>3, <2>4, <2>5, <2>7 DEF SendersKept
    <2>. QED  BY <2>6, <2>8, <2>9 DEF CallbackInv
<1>15. CASE Cancel
    <2>. USE <1>15 DEF Cancel
    <2>1. CallbackTypeOK'
        BY <1>t DEF CallbackTypeOK
    <2>2. StreamExact'
        BY StreamKept
    <2>3. SendersKept'
        BY <1>t DEF SendersKept
    <2>. QED  BY <2>1, <2>2, <2>3 DEF CallbackInv
<1>16. CASE SelectCancelled
    <2>. USE <1>16 DEF SelectCancelled
    <2>1. CallbackTypeOK'
        BY <1>t DEF CallbackTypeOK
    <2>2. StreamExact'
        BY StreamKept
    <2>3. SendersKept'
        BY <1>t DEF SendersKept
    <2>. QED  BY <2>1, <2>2, <2>3 DEF CallbackInv
<1>17. CASE UNCHANGED callbackVars
    BY <1>t, <1>17 DEF callbackVars, CallbackInv, CallbackTypeOK, StreamExact, SendersKept
<1>. QED
    BY <1>1, <1>2, <1>3, <1>4, <1>5, <1>6, <1>7, <1>8, <1>9, <1>10, <1>11, <1>12, <1>13,
       <1>14, <1>15, <1>16, <1>17
    DEF CallbackNext, ThreadStep

(* For every number of receivers and every capacity of the channels: a     *)
(* receiver has seen in order, been told it missed, or still finds in the  *)
(* channel every message since it subscribed; a stream ends only when Core *)
(* has reported its last message and no sender is left (BroadcastHandler   *)
(* and Shared of tokio.rs).                                                *)
THEOREM CallbackInvariant == CallbackSpec => []CallbackInv
BY CallbackInitInv, CallbackNextInv, PTL DEF CallbackSpec

(* Core never has a tunnel on a step that the application's builder did    *)
(* not accept, but for those its own base class takes for granted, however *)
(* many callbacks fail, panic or are missing (call_tun of native.rs).      *)
THEOREM CallbackTunnelConfigured == CallbackSpec => []TunnelConfigured
<1>. DEFINE Skips == skipped \subseteq BaseTrue
<1>1. CallbackInit => Skips
    BY DEF CallbackInit
<1>2. CallbackInv /\ Skips /\ [CallbackNext]_callbackVars => Skips'
    <2>. SUFFICES ASSUME Skips, [CallbackNext]_callbackVars PROVE Skips'
        OBVIOUS
    <2>1. ASSUME NEW th \in Threads, NEW o \in Outcomes(call[th].m), HandlerReturns(th, o)
          PROVE  Skips'
        <3>. DEFINE m == call[th].m
                    v == Trampoline(m, o)
        <3>1. CASE m \in TunSteps \cup Establishing
            <4>1. skipped' = IF v \in Refused \/ Granted(m, o) THEN skipped ELSE skipped \cup {m}
                BY <2>1, <3>1 DEF HandlerReturns
            <4>2. v \notin Refused /\ ~Granted(m, o) => m \in BaseTrue
                BY <2>1, <3>1, OnlyBaseSkipped
            <4>. QED  BY <4>1, <4>2
        <3>2. CASE m \notin TunSteps \cup Establishing
            BY <2>1, <3>2 DEF HandlerReturns
        <3>. QED  BY <3>1, <3>2
    <2>2. CASE skipped' = skipped
        BY <2>2
    <2>3. CASE \E th \in Threads : \E o \in Outcomes(call[th].m) : HandlerReturns(th, o)
        BY <2>1, <2>3
    <2>4. CASE ~\E th \in Threads : \E o \in Outcomes(call[th].m) : HandlerReturns(th, o)
        <3>1. skipped' = skipped
            BY <2>4 DEF CallbackNext, ThreadStep, callbackVars, Build, Connect, CoreReturns,
                Cancel, SelectCancelled, Complete, RequestCheck, StartCheck, DropOwner, CoreCalls, HandlerAwaits,
                Broadcast, DriverAnswers, Recv, Subscribe
        <3>. QED  BY <2>2, <3>1
    <2>. QED  BY <2>3, <2>4
<1>3. Skips => TunnelConfigured
    BY DEF TunnelConfigured
<1>. QED  BY <1>1, <1>2, <1>3, CallbackInvariant, PTL DEF CallbackSpec

(* Every answer the application gives reaches Core as given; a handler     *)
(* that leaves a method alone or lacks the interface cannot be told from   *)
(* Core's base class; a panic gives that answer or refuses; and the DNS    *)
(* codes keep their meaning: for all methods of native.rs' callback table. *)
THEOREM CallbackAnswersFaithful == CallbackSpec => []AnswersFaithful
<1>1. CallbackInv => AnswersFaithful
    <2>. SUFFICES ASSUME CallbackInv, NEW th \in Threads
                  PROVE  /\ call[th].m \in Methods
                         /\ call[th].code \in DnsCodes
        BY AnswerHolds, DnsHolds DEF AnswersFaithful
    <2>. QED  BY DEF CallbackInv, CallbackTypeOK, CallStates
<1>. QED  BY <1>1, CallbackInvariant, PTL
=============================================================================
