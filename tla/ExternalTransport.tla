------------------------- MODULE ExternalTransport --------------------------
(***************************************************************************)
(* The reverse path of a custom transport: ExternalTransportIo handles of  *)
(* openvpn-connect/src/external_transport.rs and the client object behind  *)
(* them in openvpn-connect-sys/src/bridge.cpp.                             *)
(*                                                                         *)
(* Core builds one RustExternalTransportClient per (re)connection, here a  *)
(* generation.  The object and all handles retained from it share an       *)
(* ExternalTransportState: a mutex, the io_context and the parent to which *)
(* packets are delivered; the destructor clears the last two.  Application *)
(* threads post closures to Core's I/O thread or query the parent on their *)
(* own thread.  Core itself is external: when it builds, starts, stops,    *)
(* reparents and destroys a client, and that it does so on one thread.     *)
(***************************************************************************)
EXTENDS Naturals, Sequences

CONSTANTS
    Foreign,      \* application threads that own handles
    Io,           \* Core's I/O thread
    Nobody,       \* "nobody holds the mutex"
    Generations,  \* client objects Core may build
    Parents,      \* TransportClientParent objects
    NoParent,     \* the null pointer
    NoGeneration, \* the owner of a parent object not yet made
    MaxPosts      \* bound on the calls each thread makes

ASSUME TransportAssumption ==
    /\ Io \notin Foreign /\ Nobody \notin Foreign \cup {Io}
    /\ NoParent \notin Parents /\ NoGeneration \notin Generations
    /\ MaxPosts \in Nat

VARIABLES
    client,     \* each generation's RustExternalTransportClient
    parent,     \* its ExternalTransportState.parent; io is null when this is
    mutex,      \* its ExternalTransportState.mutex
    owner,      \* the generation a parent object was made for
    dead,       \* parent objects Core has destroyed
    queue,      \* closures posted to the io_context
    io,         \* what Core's I/O thread is doing
    op,         \* what each application thread is doing
    hold,       \* generations of which a thread owns a handle
    sent,       \* how many calls each thread has numbered
    delivered   \* history: what reached a parent, in order

vars == <<client, parent, mutex, owner, dead, queue, io, op, hold, sent, delivered>>

-----------------------------------------------------------------------------
Callers == Foreign \cup {Io}
Items == [from : Callers, n : 1..MaxPosts, gen : Generations]

(* The I/O thread is in the event loop, in the start or stop callback (the *)
(* latter may join application threads), about to run a closure, inside a  *)
(* parent's method, or waiting for the mutex in the destructor.            *)
IoStates ==
    [at : {"idle"}]
    \cup [at : {"starting", "destroying"}, gen : Generations]
    \cup [at : {"stopping"}, gen : Generations, join : SUBSET Foreign]
    \cup [at : {"closure"}, item : Items]
    \cup [at : {"calling"}, gen : Generations, parent : Parents]
IoIdle == [at |-> "idle"]

OpStates ==
    [at : {"idle"}]
    \cup [at : {"posting", "querying"}, gen : Generations]
    \cup [at : {"in_query"}, gen : Generations, parent : Parents]
OpIdle == [at |-> "idle"]

TransportTypeOK ==
    /\ client \in [Generations -> {"none", "new", "started", "destroyed"}]
    /\ parent \in [Generations -> Parents \cup {NoParent}]
    /\ mutex \in [Generations -> Foreign \cup {Nobody}]
    /\ owner \in [Parents -> Generations \cup {NoGeneration}]
    /\ dead \in SUBSET Parents
    /\ queue \in Seq(Items)
    /\ io \in IoStates
    /\ op \in [Foreign -> OpStates]
    /\ hold \in [Foreign -> SUBSET Generations]
    /\ sent \in [Callers -> 0..MaxPosts]
    /\ delivered \in Seq([item : Items, to : Parents])

TransportInit ==
    /\ client = [g \in Generations |-> "none"]
    /\ parent = [g \in Generations |-> NoParent]
    /\ mutex = [g \in Generations |-> Nobody]
    /\ owner = [p \in Parents |-> NoGeneration]
    /\ dead = {}
    /\ queue = <<>>
    /\ io = IoIdle
    /\ op = [f \in Foreign |-> OpIdle]
    /\ hold = [f \in Foreign |-> {}]
    /\ sent = [c \in Callers |-> 0]
    /\ delivered = <<>>

-----------------------------------------------------------------------------
(* Core's I/O thread: the life of a client object.                         *)

Built(g) == client[g] \in {"new", "started"}
Unborn(p) == owner[p] = NoGeneration

(* The factory's new_transport_client_obj.                                 *)
NewTransportClient(g, p) ==
    /\ io = IoIdle
    /\ client[g] = "none" /\ Unborn(p)
    /\ client' = [client EXCEPT ![g] = "new"]
    /\ parent' = [parent EXCEPT ![g] = p]
    /\ owner' = [owner EXCEPT ![p] = g]
    /\ UNCHANGED <<mutex, dead, queue, io, op, hold, sent, delivered>>

(* transport_start: the callback retains a handle and gives clones of it   *)
(* to some threads, which may use them before the callback returns.        *)
TransportStart(g, threads) ==
    /\ io = IoIdle
    /\ client[g] = "new"
    /\ client' = [client EXCEPT ![g] = "started"]
    /\ hold' = [f \in Foreign |-> IF f \in threads THEN hold[f] \cup {g} ELSE hold[f]]
    /\ io' = [at |-> "starting", gen |-> g]
    /\ UNCHANGED <<parent, mutex, owner, dead, queue, op, sent, delivered>>

TransportStartReturns ==
    /\ io.at = "starting"
    /\ io' = IoIdle
    /\ UNCHANGED <<client, parent, mutex, owner, dead, queue, op, hold, sent, delivered>>

TransportStopLocked(g, join) ==
    /\ io.at \in {"idle", "calling"}
    /\ client[g] = "started"
    /\ mutex[g] = Nobody
    /\ mutex' = [mutex EXCEPT ![g] = Io]
    /\ io' = [at |-> "stopping", gen |-> g, join |-> join]
    /\ UNCHANGED <<client, parent, owner, dead, queue, op, hold, sent, delivered>>

(* stop, from the event loop or because a parent's method failed the       *)
(* session.  It neither locks nor clears the parent.  An application may   *)
(* tell threads to finish and join them.                                   *)
TransportStop(g, join) ==
    /\ io.at \in {"idle", "calling"}
    /\ client[g] = "started"
    /\ io' = [at |-> "stopping", gen |-> g, join |-> join]
    /\ UNCHANGED <<client, parent, mutex, owner, dead, queue, op, hold, sent, delivered>>

TransportStopReturns ==
    /\ io.at = "stopping"
    /\ \A f \in io.join : op[f] = OpIdle
    /\ hold' = [f \in Foreign |-> IF f \in io.join THEN hold[f] \ {io.gen} ELSE hold[f]]
    /\ io' = IoIdle
    /\ UNCHANGED <<client, parent, mutex, owner, dead, queue, op, sent, delivered>>

(* transport_reparent: another parent takes over, under the mutex.         *)
TransportReparent(g, p) ==
    /\ io = IoIdle
    /\ Built(g) /\ Unborn(p)
    /\ mutex[g] = Nobody
    /\ parent' = [parent EXCEPT ![g] = p]
    /\ owner' = [owner EXCEPT ![p] = g]
    /\ UNCHANGED <<client, mutex, dead, queue, io, op, hold, sent, delivered>>

(* ~RustExternalTransportClient: lock, clear parent and io, unlock.        *)
DestroyBegin(g) ==
    /\ io = IoIdle
    /\ Built(g)
    /\ io' = [at |-> "destroying", gen |-> g]
    /\ UNCHANGED <<client, parent, mutex, owner, dead, queue, op, hold, sent, delivered>>

DestroyUnlocked ==
    /\ io.at = "destroying"
    /\ client' = [client EXCEPT ![io.gen] = "destroyed"]
    /\ parent' = [parent EXCEPT ![io.gen] = NoParent]
    /\ io' = IoIdle
    /\ UNCHANGED <<mutex, owner, dead, queue, op, hold, sent, delivered>>

DestroyLocked ==
    /\ io.at = "destroying"
    /\ mutex[io.gen] = Nobody
    /\ client' = [client EXCEPT ![io.gen] = "destroyed"]
    /\ parent' = [parent EXCEPT ![io.gen] = NoParent]
    /\ io' = IoIdle
    /\ UNCHANGED <<mutex, owner, dead, queue, op, hold, sent, delivered>>

(* Core deletes a parent that no client refers to any more.                *)
DestroyParent(p) ==
    /\ io = IoIdle
    /\ ~Unborn(p) /\ p \notin dead
    /\ \A g \in Generations : parent[g] # p
    /\ dead' = dead \cup {p}
    /\ UNCHANGED <<client, parent, mutex, owner, queue, io, op, hold, sent, delivered>>

-----------------------------------------------------------------------------
(* post_external_transport: receive, needs_send, error, proxy_error,       *)
(* pre_resolve, wait_proxy, wait, connecting.                              *)

Item(c, g) == [from |-> c, n |-> sent[c] + 1, gen |-> g]

(* The section under the mutex: refuse with SessionClosed, or post.        *)
Post(c, g) ==
    /\ mutex[g] = Nobody
    /\ sent' = [sent EXCEPT ![c] = @ + 1]
    /\ queue' = IF parent[g] = NoParent THEN queue ELSE Append(queue, Item(c, g))

MayCall(f, g) ==
    /\ op[f] = OpIdle
    /\ g \in hold[f]
    /\ ~(io.at = "stopping" /\ f \in io.join)

PostCall(f, g) ==
    /\ MayCall(f, g) /\ sent[f] < MaxPosts
    /\ op' = [op EXCEPT ![f] = [at |-> "posting", gen |-> g]]
    /\ UNCHANGED <<client, parent, mutex, owner, dead, queue, io, hold, sent, delivered>>

PostLocked(f) ==
    /\ op[f].at = "posting"
    /\ Post(f, op[f].gen)
    /\ op' = [op EXCEPT ![f] = OpIdle]
    /\ UNCHANGED <<client, parent, mutex, owner, dead, io, hold, delivered>>

(* The start callback posts from the I/O thread itself.                    *)
PostFromStart ==
    /\ io.at = "starting" /\ sent[Io] < MaxPosts
    /\ Post(Io, io.gen)
    /\ UNCHANGED <<client, parent, mutex, owner, dead, io, op, hold, delivered>>

(* A closure's turn: it looks the parent up under the mutex and calls it   *)
(* after unlocking, or does nothing.                                       *)
ClosureTake ==
    /\ io = IoIdle /\ queue # <<>>
    /\ io' = [at |-> "closure", item |-> Head(queue)]
    /\ queue' = Tail(queue)
    /\ UNCHANGED <<client, parent, mutex, owner, dead, op, hold, sent, delivered>>

(* ... delivering to p.                                                    *)
ClosureDeliver(p) ==
    /\ io' = [at |-> "calling", gen |-> io.item.gen, parent |-> p]
    /\ delivered' = Append(delivered, [item |-> io.item, to |-> p])

ClosureSkipsBusy ==
    /\ io.at = "closure"
    /\ LET p == parent[io.item.gen] IN
         IF p = NoParent \/ mutex[io.item.gen] # Nobody
         THEN io' = IoIdle /\ UNCHANGED delivered ELSE ClosureDeliver(p)
    /\ UNCHANGED <<client, parent, mutex, owner, dead, queue, op, hold, sent>>

ClosureOnNewestParent ==
    /\ io.at = "closure"
    /\ mutex[io.item.gen] = Nobody
    /\ \/ \E g \in Generations : parent[g] # NoParent /\ ClosureDeliver(parent[g])
       \/ /\ \A g \in Generations : parent[g] = NoParent
          /\ io' = IoIdle /\ UNCHANGED delivered
    /\ UNCHANGED <<client, parent, mutex, owner, dead, queue, op, hold, sent>>

ClosureRead ==
    /\ io.at = "closure"
    /\ mutex[io.item.gen] = Nobody
    /\ LET p == parent[io.item.gen] IN
         IF p = NoParent THEN io' = IoIdle /\ UNCHANGED delivered ELSE ClosureDeliver(p)
    /\ UNCHANGED <<client, parent, mutex, owner, dead, queue, op, hold, sent>>

CallReturns ==
    /\ io.at = "calling"
    /\ io' = IoIdle
    /\ UNCHANGED <<client, parent, mutex, owner, dead, queue, op, hold, sent, delivered>>

-----------------------------------------------------------------------------
(* query_external_transport: is_openvpn_protocol, is_keepalive_enabled,    *)
(* disable_keepalive.  The parent's method runs on the caller's thread,    *)
(* with the mutex locked.                                                  *)

QueryCall(f, g) ==
    /\ MayCall(f, g)
    /\ op' = [op EXCEPT ![f] = [at |-> "querying", gen |-> g]]
    /\ UNCHANGED <<client, parent, mutex, owner, dead, queue, io, hold, sent, delivered>>

QueryLocked(f) ==
    /\ op[f].at = "querying"
    /\ LET g == op[f].gen IN
         /\ mutex[g] = Nobody
         /\ \/ /\ parent[g] = NoParent
               /\ op' = [op EXCEPT ![f] = OpIdle]
               /\ UNCHANGED mutex
            \/ /\ parent[g] # NoParent
               /\ op' = [op EXCEPT ![f] = [at |-> "in_query", gen |-> g, parent |-> parent[g]]]
               /\ mutex' = [mutex EXCEPT ![g] = f]
    /\ UNCHANGED <<client, parent, owner, dead, queue, io, hold, sent, delivered>>

QueryReturns(f) ==
    /\ op[f].at = "in_query"
    /\ mutex' = [mutex EXCEPT ![op[f].gen] = Nobody]
    /\ op' = [op EXCEPT ![f] = OpIdle]
    /\ UNCHANGED <<client, parent, owner, dead, queue, io, hold, sent, delivered>>

(* Clone and Drop of ExternalTransportIo.                                  *)
CloneHandle(f, h, g) ==
    /\ MayCall(f, g)
    /\ hold' = [hold EXCEPT ![h] = @ \cup {g}]
    /\ UNCHANGED <<client, parent, mutex, owner, dead, queue, io, op, sent, delivered>>

DropHandle(f, g) ==
    /\ MayCall(f, g)
    /\ hold' = [hold EXCEPT ![f] = @ \ {g}]
    /\ UNCHANGED <<client, parent, mutex, owner, dead, queue, io, op, sent, delivered>>

-----------------------------------------------------------------------------
(* What the I/O thread must go on with, and what Core may start.           *)
IoStep ==
    \/ TransportStartReturns \/ TransportStopReturns \/ DestroyLocked
    \/ ClosureTake \/ ClosureRead \/ CallReturns

IoCall ==
    \/ \E g \in Generations, p \in Parents :
          NewTransportClient(g, p) \/ TransportReparent(g, p)
    \/ \E g \in Generations, threads \in SUBSET Foreign :
          TransportStart(g, threads) \/ TransportStop(g, threads)
    \/ \E g \in Generations : DestroyBegin(g)
    \/ \E p \in Parents : DestroyParent(p)
    \/ PostFromStart

ForeignStep(f) == PostLocked(f) \/ QueryLocked(f) \/ QueryReturns(f)

ForeignCall(f) ==
    \E g \in Generations :
        \/ PostCall(f, g) \/ QueryCall(f, g) \/ DropHandle(f, g)
        \/ \E h \in Foreign : CloneHandle(f, h, g)

TransportNext ==
    IoStep \/ IoCall \/ \E f \in Foreign : ForeignStep(f) \/ ForeignCall(f)

TransportSpec == TransportInit /\ [][TransportNext]_vars

(* The I/O thread and the application's threads keep running.  A caller    *)
(* that waits for a mutex others keep taking gets it in the end, and the   *)
(* event loop does not run closures so rarely that one starves.            *)
TransportFairSpec ==
    /\ TransportSpec
    /\ WF_vars(IoStep)
    /\ SF_vars(DestroyLocked) /\ SF_vars(ClosureTake) /\ SF_vars(ClosureRead)
    /\ \A f \in Foreign :
          SF_vars(PostLocked(f)) /\ SF_vars(QueryLocked(f)) /\ WF_vars(QueryReturns(f))

-----------------------------------------------------------------------------
(* Properties.                                                             *)

(* The mutex is held exactly by a thread inside a query, which the parent  *)
(* it found there cannot leave.                                            *)
QueryInv ==
    /\ \A g \in Generations : mutex[g] \in Foreign =>
          op[mutex[g]].at = "in_query" /\ op[mutex[g]].gen = g
    /\ \A f \in Foreign : op[f].at = "in_query" =>
          mutex[op[f].gen] = f /\ parent[op[f].gen] = op[f].parent

(* A thread that has started a call still has it to number.                *)
PostInv == \A f \in Foreign : op[f].at = "posting" => sent[f] < MaxPosts

(* A client object is built, alive and destroyed with its parent pointer.  *)
ParentInv ==
    /\ \A g \in Generations : parent[g] # NoParent <=> Built(g)
    /\ \A g \in Generations : parent[g] # NoParent =>
          owner[parent[g]] = g /\ parent[g] \notin dead
    /\ \A p \in dead : ~Unborn(p)
    /\ io.at = "calling" => parent[io.gen] = io.parent
    /\ io.at = "destroying" => Built(io.gen)

TransportInv == TransportTypeOK /\ QueryInv /\ PostInv /\ ParentInv

(* No call of the reverse path enters a parent Core has destroyed, neither *)
(* a closure that waited in the queue across a reconnect nor a query on an *)
(* application thread that races the destructor.                           *)
ParentsAlive ==
    /\ io.at = "calling" => io.parent \notin dead
    /\ \A f \in Foreign : op[f].at = "in_query" => op[f].parent \notin dead

(* A packet handed to one connection's handle never reaches the parent of  *)
(* a later connection.                                                     *)
OwnGeneration ==
    \A i \in DOMAIN delivered : owner[delivered[i].to] = delivered[i].item.gen

(* receive() returning Ok means the packet reaches Core unless its client  *)
(* is destroyed first.                                                     *)
AcceptedDelivered ==
    \A c \in Callers, n \in 1..MaxPosts, g \in Generations :
        LET item == [from |-> c, n |-> n, gen |-> g] IN
        (\E i \in DOMAIN queue : queue[i] = item)
            ~> \/ \E i \in DOMAIN delivered : delivered[i].item = item
               \/ ~Built(g)

(* The I/O thread always comes back to its event loop: neither a stop()    *)
(* that joins threads blocked in the reverse path nor the destructor waits *)
(* for ever.                                                               *)
IoNeverStuck == (io.at # "idle") ~> (io.at = "idle")

(* "the native handle implementation serializes access to session state"   *)
(* (external_transport.rs:217): a parent is not used by an application     *)
(* thread and by the I/O thread at once.                                   *)
SessionStateSerialized ==
    \A f \in Foreign :
        ~(op[f].at = "in_query" /\ io.at = "calling" /\ op[f].parent = io.parent)
=============================================================================
