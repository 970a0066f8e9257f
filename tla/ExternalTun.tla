---------------------------- MODULE ExternalTun -----------------------------
(***************************************************************************)
(* The reverse path of a custom tunnel: ExternalTunIo handles of           *)
(* openvpn-connect/src/external_tun.rs and RustExternalTunClient of        *)
(* openvpn-connect-sys/src/bridge.cpp.                                     *)
(*                                                                         *)
(* Unlike the transport, the tunnel's state has a recursive mutex and its  *)
(* calls are dispatched: made on Core's I/O thread, inside a callback such *)
(* as start() or send(), they run at once, nested in that callback and     *)
(* with the mutex held; made by an application thread they are queued.     *)
(* The I/O thread is therefore a stack of frames.  When Core builds,       *)
(* starts, stops and destroys a tunnel is external.                        *)
(***************************************************************************)
EXTENDS Naturals, Sequences, FiniteSets

CONSTANTS
    Foreign,      \* application threads that own handles
    Io,           \* Core's I/O thread
    Generations,  \* tunnel objects Core may build
    MaxPosts,     \* bound on the calls each thread makes
    MaxDepth      \* bound on the frames of the I/O thread

ASSUME TunAssumption ==
    /\ Io \notin Foreign
    /\ MaxPosts \in Nat /\ MaxDepth \in Nat

VARIABLES
    client,     \* each generation's RustExternalTunClient
    depth,      \* how often the I/O thread holds its recursive mutex
    queue,      \* closures posted to the io_context, and Core's own packets
    stack,      \* the frames of the I/O thread, outermost first
    op,         \* what each application thread is doing
    hold,       \* generations of which an application thread owns a handle
    sent,       \* how many calls each thread has made
    connected,  \* generations for which Core has run tun_connected
    reported,   \* who had connected() accepted, for which generation
    rejected    \* generations for which Core refused a packet wrongly

vars == <<client, depth, queue, stack, op, hold, sent, connected, reported, rejected>>

-----------------------------------------------------------------------------
Callers == Foreign \cup {Io}

(* connected(), error(), and receive() standing for pre_tun_config() and   *)
(* pre_route_config() as well; "data" is a packet from the VPN server that *)
(* Core itself has queued.                                                 *)
Calls == {"receive", "connected", "error"}

Items == [call : Calls \cup {"data"}, gen : Generations, after : BOOLEAN]

Frames ==
    \* Core called the application
    [at : {"callback"}, gen : Generations]
    \* ... which is about to call back into the reverse path
    \cup [at : {"calling"}, gen : Generations, target : Generations, call : Calls]
    \* a method of the parent is running
    \cup [at : {"core"}, gen : Generations, locked : BOOLEAN]
    \* the stop callback, which may join application threads
    \cup [at : {"stop"}, gen : Generations, join : SUBSET Foreign]

OpStates ==
    [at : {"idle"}] \cup [at : {"posting"}, gen : Generations, call : Calls]
OpIdle == [at |-> "idle"]

TunTypeOK ==
    /\ client \in [Generations -> {"none", "new", "started", "stopped", "destroyed"}]
    /\ depth \in [Generations -> Nat]
    /\ queue \in Seq(Items)
    /\ stack \in Seq(Frames)
    /\ op \in [Foreign -> OpStates]
    /\ hold \in [Foreign -> SUBSET Generations]
    /\ sent \in [Callers -> 0..MaxPosts]
    /\ connected \in SUBSET Generations
    /\ reported \in SUBSET (Callers \X Generations)
    /\ rejected \in SUBSET Generations

TunInit ==
    /\ client = [g \in Generations |-> "none"]
    /\ depth = [g \in Generations |-> 0]
    /\ queue = <<>>
    /\ stack = <<>>
    /\ op = [f \in Foreign |-> OpIdle]
    /\ hold = [f \in Foreign |-> {}]
    /\ sent = [c \in Callers |-> 0]
    /\ connected = {}
    /\ reported = {}
    /\ rejected = {}

Top == stack[Len(stack)]
On(at) == stack # <<>> /\ Top.at = at
Push(frame) == stack' = Append(stack, frame)
Pop == stack' = SubSeq(stack, 1, Len(stack) - 1)
Retop(frame) == stack' = [stack EXCEPT ![Len(stack)] = frame]

(* Core's own code is running: its event loop or a method of the parent.   *)
InCore == stack # <<>> => Top.at = "core"

(* Between constructor and destructor parent and io are not null.          *)
Open(g) == client[g] \in {"new", "started", "stopped"}

-----------------------------------------------------------------------------
(* Core's I/O thread: the life of a tunnel object and its callbacks.       *)

NewTunClient(g) ==
    /\ stack = <<>>
    /\ client[g] = "none"
    /\ client' = [client EXCEPT ![g] = "new"]
    /\ UNCHANGED <<depth, queue, stack, op, hold, sent, connected, reported, rejected>>

TunStart(g) ==
    /\ InCore /\ Len(stack) < MaxDepth
    /\ client[g] = "new"
    /\ client' = [client EXCEPT ![g] = "started"]
    /\ Push([at |-> "callback", gen |-> g])
    /\ UNCHANGED <<depth, queue, op, hold, sent, connected, reported, rejected>>

(* tun_send, the info getters, adjust_mss, apply_push_update,              *)
(* set_disconnect: Core calls the application again.                       *)
TunCallback(g) ==
    /\ InCore /\ Len(stack) < MaxDepth
    /\ client[g] \in {"started", "stopped"}
    /\ Push([at |-> "callback", gen |-> g])
    /\ UNCHANGED <<client, depth, queue, op, hold, sent, connected, reported, rejected>>

(* The application gives a clone of its handle to a reader thread.         *)
HandOver(f) ==
    /\ On("callback")
    /\ hold' = [hold EXCEPT ![f] = @ \cup {Top.gen}]
    /\ UNCHANGED <<client, depth, queue, stack, op, sent, connected, reported, rejected>>

CallbackReturns ==
    /\ On("callback")
    /\ Pop
    /\ UNCHANGED <<client, depth, queue, op, hold, sent, connected, reported, rejected>>

(* stop: from the event loop, or because a parent's method failed the      *)
(* session (tun_error, or a packet that threw).                            *)
TunStop(g, join) ==
    /\ InCore /\ Len(stack) < MaxDepth
    /\ client[g] = "started"
    /\ client' = [client EXCEPT ![g] = "stopped"]
    /\ Push([at |-> "stop", gen |-> g, join |-> join])
    /\ UNCHANGED <<depth, queue, op, hold, sent, connected, reported, rejected>>

TunStopReturns ==
    /\ On("stop")
    /\ \A f \in Top.join : op[f] = OpIdle
    /\ hold' = [f \in Foreign |-> IF f \in Top.join THEN hold[f] \ {Top.gen} ELSE hold[f]]
    /\ Pop
    /\ UNCHANGED <<client, depth, queue, op, sent, connected, reported, rejected>>

(* ~RustExternalTunClient, under the mutex.                                *)
DestroyTunClient(g) ==
    /\ stack = <<>>
    /\ Open(g) /\ depth[g] = 0
    /\ client' = [client EXCEPT ![g] = "destroyed"]
    /\ UNCHANGED <<depth, queue, stack, op, hold, sent, connected, reported, rejected>>

(* A packet from the server is waiting in the event loop (external).       *)
ServerData(g) ==
    /\ Open(g) /\ g \notin connected
    /\ \A i \in DOMAIN queue : queue[i].call # "data"
    /\ queue' = Append(queue, [call |-> "data", gen |-> g, after |-> FALSE])
    /\ UNCHANGED <<client, depth, stack, op, hold, sent, connected, reported, rejected>>

-----------------------------------------------------------------------------
(* post_external_tun on the I/O thread.                                    *)

InlineCall(g, call) ==
    /\ On("callback") /\ sent[Io] < MaxPosts
    /\ client[g] \notin {"none", "new"}
    /\ Retop([at |-> "calling", gen |-> Top.gen, target |-> g, call |-> call])
    /\ sent' = [sent EXCEPT ![Io] = @ + 1]
    /\ UNCHANGED <<client, depth, queue, op, hold, connected, reported, rejected>>

BackInCallback == [at |-> "callback", gen |-> Top.gen]

Accepted(c, g, call) ==
    reported' = IF call = "connected" THEN reported \cup {<<c, g>>} ELSE reported

InlineAlwaysPosts ==
    /\ On("calling")
    /\ LET g == Top.target IN
         \/ ~Open(g) /\ Retop(BackInCallback) /\ UNCHANGED <<queue, reported>>
         \/ /\ Open(g)
            /\ Retop(BackInCallback)
            /\ queue' = Append(queue, [call |-> Top.call, gen |-> g, after |-> FALSE])
            /\ Accepted(Io, g, Top.call)
    /\ UNCHANGED <<client, depth, op, hold, sent, connected, rejected>>

InlineNotRecursive ==
    /\ On("calling")
    /\ LET g == Top.target IN
         /\ depth[g] = 0
         /\ \/ ~Open(g) /\ Retop(BackInCallback) /\ UNCHANGED <<depth, connected, reported>>
            \/ /\ Open(g)
               /\ depth' = [depth EXCEPT ![g] = @ + 1]
               /\ stack' = [stack EXCEPT ![Len(stack)] = BackInCallback]
                           \o <<[at |-> "core", gen |-> g, locked |-> TRUE]>>
               /\ connected' = IF Top.call = "connected" THEN connected \cup {g} ELSE connected
               /\ Accepted(Io, g, Top.call)
    /\ UNCHANGED <<client, queue, op, hold, sent, rejected>>

(* The recursive mutex never blocks here: application threads hold it only *)
(* while they queue.  dispatch runs the closure in place, inside the lock. *)
InlineLocked ==
    /\ On("calling")
    /\ LET g == Top.target IN
         \/ ~Open(g) /\ Retop(BackInCallback) /\ UNCHANGED <<depth, connected, reported>>
         \/ /\ Open(g)
            /\ depth' = [depth EXCEPT ![g] = @ + 1]
            /\ stack' = [stack EXCEPT ![Len(stack)] = BackInCallback]
                        \o <<[at |-> "core", gen |-> g, locked |-> TRUE]>>
            /\ connected' = IF Top.call = "connected" THEN connected \cup {g} ELSE connected
            /\ Accepted(Io, g, Top.call)
    /\ UNCHANGED <<client, queue, op, hold, sent, rejected>>

CoreReturnsLocked ==
    /\ On("core")
    /\ Pop
    /\ UNCHANGED <<client, depth, queue, op, hold, sent, connected, reported, rejected>>

(* The parent's method returns and, for an inline call, the lock is left.  *)
CoreReturns ==
    /\ On("core")
    /\ depth' = IF Top.locked THEN [depth EXCEPT ![Top.gen] = @ - 1] ELSE depth
    /\ Pop
    /\ UNCHANGED <<client, queue, op, hold, sent, connected, reported, rejected>>

-----------------------------------------------------------------------------
(* post_external_tun on an application thread, and the queued closures.    *)

PostCall(f, g, call) ==
    /\ op[f] = OpIdle /\ g \in hold[f] /\ sent[f] < MaxPosts
    /\ ~(On("stop") /\ f \in Top.join)
    /\ op' = [op EXCEPT ![f] = [at |-> "posting", gen |-> g, call |-> call]]
    /\ sent' = [sent EXCEPT ![f] = @ + 1]
    /\ UNCHANGED <<client, depth, queue, stack, hold, connected, reported, rejected>>

PostLocked(f) ==
    /\ op[f].at = "posting"
    /\ LET g == op[f].gen IN
         /\ depth[g] = 0
         /\ \/ ~Open(g) /\ UNCHANGED <<queue, reported>>
            \/ /\ Open(g)
               /\ queue' = Append(queue, [call |-> op[f].call, gen |-> g,
                                          after |-> <<f, g>> \in reported])
               /\ Accepted(f, g, op[f].call)
    /\ op' = [op EXCEPT ![f] = OpIdle]
    /\ UNCHANGED <<client, depth, stack, hold, sent, connected, rejected>>

(* Clone and Drop of ExternalTunIo.                                        *)
CloneHandle(f, h, g) ==
    /\ op[f] = OpIdle /\ g \in hold[f]
    /\ ~(On("stop") /\ f \in Top.join)
    /\ hold' = [hold EXCEPT ![h] = @ \cup {g}]
    /\ UNCHANGED <<client, depth, queue, stack, op, sent, connected, reported, rejected>>

DropHandle(f, g) ==
    /\ op[f] = OpIdle /\ g \in hold[f]
    /\ hold' = [hold EXCEPT ![f] = @ \ {g}]
    /\ UNCHANGED <<client, depth, queue, stack, op, sent, connected, reported, rejected>>

(* Core refuses packets of a tunnel that is not connected.  That is wrong  *)
(* for a packet received by a caller after its own connected(), and for a  *)
(* server packet handled after connected() returned on the I/O thread.     *)
Rejects(item) ==
    /\ item.gen \notin connected
    /\ \/ item.call = "receive" /\ item.after
       \/ item.call = "data" /\ <<Io, item.gen>> \in reported

ClosureTakeLocked ==
    /\ stack = <<>> /\ queue # <<>>
    /\ LET item == Head(queue) IN
         \/ ~Open(item.gen) /\ UNCHANGED <<depth, stack, connected, rejected>>
         \/ /\ Open(item.gen)
            /\ depth' = [depth EXCEPT ![item.gen] = @ + 1]
            /\ Push([at |-> "core", gen |-> item.gen, locked |-> TRUE])
            /\ connected' = IF item.call = "connected" THEN connected \cup {item.gen} ELSE connected
            /\ rejected' = IF Rejects(item) THEN rejected \cup {item.gen} ELSE rejected
    /\ queue' = Tail(queue)
    /\ UNCHANGED <<client, op, hold, sent, reported>>

(* A closure's turn: look the parent up under the mutex, unlock, call it.  *)
ClosureTake ==
    /\ stack = <<>> /\ queue # <<>>
    /\ LET item == Head(queue) IN
         \/ ~Open(item.gen) /\ UNCHANGED <<stack, connected, rejected>>
         \/ /\ Open(item.gen)
            /\ Push([at |-> "core", gen |-> item.gen, locked |-> FALSE])
            /\ connected' = IF item.call = "connected" THEN connected \cup {item.gen} ELSE connected
            /\ rejected' = IF Rejects(item) THEN rejected \cup {item.gen} ELSE rejected
    /\ queue' = Tail(queue)
    /\ UNCHANGED <<client, depth, op, hold, sent, reported>>

-----------------------------------------------------------------------------
IoStep ==
    \/ CallbackReturns \/ TunStopReturns \/ InlineLocked \/ CoreReturns \/ ClosureTake

IoCall ==
    \/ \E g \in Generations :
          \/ NewTunClient(g) \/ TunStart(g) \/ TunCallback(g)
          \/ DestroyTunClient(g) \/ ServerData(g)
          \/ \E join \in SUBSET Foreign : TunStop(g, join)
          \/ \E call \in Calls : InlineCall(g, call)
    \/ \E f \in Foreign : HandOver(f)

ForeignCall(f) ==
    \E g \in Generations :
        \/ DropHandle(f, g)
        \/ \E h \in Foreign : CloneHandle(f, h, g)
        \/ \E call \in Calls : PostCall(f, g, call)

TunNext ==
    IoStep \/ IoCall \/ \E f \in Foreign : PostLocked(f) \/ ForeignCall(f)

TunSpec == TunInit /\ [][TunNext]_vars

(* Every frame of the I/O thread goes on, and a thread that waits for the  *)
(* mutex gets it if it keeps becoming free.                                *)
TunFairSpec ==
    /\ TunSpec
    /\ WF_vars(InlineLocked) /\ WF_vars(TunStopReturns)
    /\ \A f \in Foreign : SF_vars(PostLocked(f))

-----------------------------------------------------------------------------
(* Properties.                                                             *)

(* The mutex is held once for every inline call on the stack, and never by *)
(* the event loop.                                                         *)
LockInv ==
    \A g \in Generations :
        depth[g] = Cardinality({i \in DOMAIN stack :
                        stack[i].at = "core" /\ stack[i].gen = g /\ stack[i].locked})

(* Frames belong to tunnels that are open: the destructor runs only with   *)
(* an empty stack.                                                         *)
FrameInv ==
    \A i \in DOMAIN stack : Open(stack[i].gen)

(* Why connected() comes first.  Once a thread's connected() was accepted, *)
(* Core has run it or its closure is still queued, and ahead of every      *)
(* closure the thread queued after it; on the I/O thread Core ran it at    *)
(* once.  Closures are queued only for tunnels that were built.            *)
Pending(q, g, n) ==
    \E j \in DOMAIN q : j < n /\ q[j].call = "connected" /\ q[j].gen = g

OrderInv ==
    /\ \A i \in DOMAIN queue :
         /\ client[queue[i].gen] # "none"
         /\ queue[i].after /\ client[queue[i].gen] # "destroyed"
               => queue[i].gen \in connected \/ Pending(queue, queue[i].gen, i)
    /\ \A f \in Foreign, g \in Generations :
         <<f, g>> \in reported /\ client[g] # "destroyed"
               => g \in connected \/ Pending(queue, g, Len(queue) + 1)
    /\ \A g \in Generations : <<Io, g>> \in reported => g \in connected

TunInv == TunTypeOK /\ LockInv /\ FrameInv /\ OrderInv

(* "Dispatch preserves that ordering" (bridge.cpp:2244): once connected()  *)
(* has returned inside start(), no packet that was already waiting is      *)
(* refused as not connected; and a reader's packets do not overtake its    *)
(* own connected().                                                        *)
ConnectedFirst == rejected = {}

(* A stop callback that Core entered from its event loop or from a queued  *)
(* closure returns, even if it joins a thread blocked in receive().  (One  *)
(* entered from an inline error() holds the mutex and need not return.)    *)
StopFromLoop ==
    On("stop") /\ \A i \in DOMAIN stack : stack[i].at # "callback"

TunStopEnds == StopFromLoop ~> ~StopFromLoop

(* A callback may call the reverse path, be called again by Core from      *)
(* inside that call, and call the reverse path once more: the recursive    *)
(* mutex lets it through.                                                  *)
InlineProceeds == On("calling") ~> ~On("calling")
=============================================================================
