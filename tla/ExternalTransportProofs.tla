---------------------- MODULE ExternalTransportProofs -----------------------
(* Proofs about the reverse path of a custom transport, for any number of  *)
(* application threads, connections and calls.                             *)
EXTENDS ExternalTransport, TLAPS

USE TransportAssumption

(* Before Core builds its first client object there is nothing to protect. *)
LEMMA TransportInitInv == TransportInit => TransportInv
<1>. SUFFICES ASSUME TransportInit PROVE TransportInv
    OBVIOUS
<1>. USE DEF TransportInit
<1>1. io = IoIdle /\ io.at = "idle" /\ \A f \in Foreign : op[f] = OpIdle /\ op[f].at = "idle"
    BY DEF IoIdle, OpIdle
<1>2. TransportTypeOK
    BY DEF TransportTypeOK, IoStates, IoIdle, OpStates, OpIdle, Callers
<1>3. QueryInv /\ PostInv /\ ParentInv
    BY <1>1 DEF QueryInv, PostInv, ParentInv, Built, Unborn
<1>. QED  BY <1>2, <1>3 DEF TransportInv

(* Every step of Core's I/O thread and of every application thread keeps   *)
(* the invariant.                                                          *)
LEMMA TransportNextInv == TransportInv /\ [TransportNext]_vars => TransportInv'
<1>. SUFFICES ASSUME TransportInv, [TransportNext]_vars PROVE TransportInv'
    OBVIOUS
<1>. USE DEF TransportInv, IoIdle, OpIdle
<1>1. ASSUME NEW g \in Generations, NEW p \in Parents, NewTransportClient(g, p)
      PROVE  TransportInv'
    <2>. USE <1>1 DEF NewTransportClient
    <2>1. TransportTypeOK'  BY DEF TransportTypeOK, IoStates, OpStates, Items, Callers
    <2>2. QueryInv'
        <3>1. parent[g] = NoParent  BY DEF ParentInv, Built, TransportTypeOK
        <3>2. \A f \in Foreign : op[f].at = "in_query" =>
                  op[f].gen \in Generations /\ op[f].parent \in Parents
            BY DEF TransportTypeOK, OpStates
        <3>3. \A f \in Foreign : op[f].at = "in_query" => op[f].gen # g
            BY <3>1, <3>2 DEF QueryInv
        <3>. QED  BY <3>2, <3>3 DEF QueryInv, TransportTypeOK
    <2>3. ParentInv'  BY DEF ParentInv, Built, Unborn, TransportTypeOK, QueryInv
    <2>4. PostInv'  BY DEF PostInv, TransportTypeOK, Callers
    <2>. QED  BY <2>1, <2>2, <2>3, <2>4
<1>2. ASSUME NEW g \in Generations, NEW threads \in SUBSET Foreign, TransportStart(g, threads)
      PROVE  TransportInv'
    <2>. USE <1>2 DEF TransportStart
    <2>1. TransportTypeOK'  BY DEF TransportTypeOK, IoStates, OpStates, Items, Callers
    <2>2. QueryInv'  BY DEF QueryInv, TransportTypeOK
    <2>3. ParentInv'  BY DEF ParentInv, Built, Unborn, TransportTypeOK, QueryInv
    <2>4. PostInv'  BY DEF PostInv, TransportTypeOK, Callers
    <2>. QED  BY <2>1, <2>2, <2>3, <2>4
<1>3. ASSUME TransportStartReturns
      PROVE  TransportInv'
    <2>. USE <1>3 DEF TransportStartReturns
    <2>1. TransportTypeOK'  BY DEF TransportTypeOK, IoStates, OpStates, Items, Callers
    <2>2. QueryInv'  BY DEF QueryInv, TransportTypeOK
    <2>3. ParentInv'  BY DEF ParentInv, Built, Unborn, TransportTypeOK, QueryInv
    <2>4. PostInv'  BY DEF PostInv, TransportTypeOK, Callers
    <2>. QED  BY <2>1, <2>2, <2>3, <2>4
<1>4. ASSUME NEW g \in Generations, NEW threads \in SUBSET Foreign, TransportStop(g, threads)
      PROVE  TransportInv'
    <2>. USE <1>4 DEF TransportStop
    <2>1. TransportTypeOK'  BY DEF TransportTypeOK, IoStates, OpStates, Items, Callers
    <2>2. QueryInv'  BY DEF QueryInv, TransportTypeOK
    <2>3. ParentInv'  BY DEF ParentInv, Built, Unborn, TransportTypeOK, QueryInv
    <2>4. PostInv'  BY DEF PostInv, TransportTypeOK, Callers
    <2>. QED  BY <2>1, <2>2, <2>3, <2>4
<1>5. ASSUME TransportStopReturns
      PROVE  TransportInv'
    <2>. USE <1>5 DEF TransportStopReturns
    <2>1. TransportTypeOK'  BY DEF TransportTypeOK, IoStates, OpStates, Items, Callers
    <2>2. QueryInv'  BY DEF QueryInv, TransportTypeOK
    <2>3. ParentInv'  BY DEF ParentInv, Built, Unborn, TransportTypeOK, QueryInv
    <2>4. PostInv'  BY DEF PostInv, TransportTypeOK, Callers
    <2>. QED  BY <2>1, <2>2, <2>3, <2>4
<1>6. ASSUME NEW g \in Generations, NEW p \in Parents, TransportReparent(g, p)
      PROVE  TransportInv'
    <2>. USE <1>6 DEF TransportReparent
    <2>1. TransportTypeOK'  BY DEF TransportTypeOK, IoStates, OpStates, Items, Callers
    <2>2. QueryInv'  BY DEF QueryInv, TransportTypeOK
    <2>3. ParentInv'  BY DEF ParentInv, Built, Unborn, TransportTypeOK, QueryInv
    <2>4. PostInv'  BY DEF PostInv, TransportTypeOK, Callers
    <2>. QED  BY <2>1, <2>2, <2>3, <2>4
<1>7. ASSUME NEW g \in Generations, DestroyBegin(g)
      PROVE  TransportInv'
    <2>. USE <1>7 DEF DestroyBegin
    <2>1. TransportTypeOK'  BY DEF TransportTypeOK, IoStates, OpStates, Items, Callers
    <2>2. QueryInv'  BY DEF QueryInv, TransportTypeOK
    <2>3. ParentInv'  BY DEF ParentInv, Built, Unborn, TransportTypeOK, QueryInv
    <2>4. PostInv'  BY DEF PostInv, TransportTypeOK, Callers
    <2>. QED  BY <2>1, <2>2, <2>3, <2>4
<1>8. ASSUME DestroyLocked
      PROVE  TransportInv'
    <2>. USE <1>8 DEF DestroyLocked
    <2>1. TransportTypeOK'  BY DEF TransportTypeOK, IoStates, OpStates, Items, Callers
    <2>2. QueryInv'  BY DEF QueryInv, TransportTypeOK
    <2>3. ParentInv'  BY DEF ParentInv, Built, Unborn, TransportTypeOK, QueryInv
    <2>4. PostInv'  BY DEF PostInv, TransportTypeOK, Callers
    <2>. QED  BY <2>1, <2>2, <2>3, <2>4
<1>9. ASSUME NEW p \in Parents, DestroyParent(p)
      PROVE  TransportInv'
    <2>. USE <1>9 DEF DestroyParent
    <2>1. TransportTypeOK'  BY DEF TransportTypeOK, IoStates, OpStates, Items, Callers
    <2>2. QueryInv'  BY DEF QueryInv, TransportTypeOK
    <2>3. ParentInv'  BY DEF ParentInv, Built, Unborn, TransportTypeOK, QueryInv
    <2>4. PostInv'  BY DEF PostInv, TransportTypeOK, Callers
    <2>. QED  BY <2>1, <2>2, <2>3, <2>4
<1>10. ASSUME NEW f \in Foreign, NEW g \in Generations, PostCall(f, g)
      PROVE  TransportInv'
    <2>. USE <1>10 DEF PostCall, MayCall
    <2>1. TransportTypeOK'  BY DEF TransportTypeOK, IoStates, OpStates, Items, Callers
    <2>2. QueryInv'  BY DEF QueryInv, TransportTypeOK
    <2>3. ParentInv'  BY DEF ParentInv, Built, Unborn, TransportTypeOK, QueryInv
    <2>4. PostInv'  BY DEF PostInv, TransportTypeOK, Callers
    <2>. QED  BY <2>1, <2>2, <2>3, <2>4
<1>11. ASSUME NEW f \in Foreign, PostLocked(f)
      PROVE  TransportInv'
    <2>. USE <1>11 DEF PostLocked, Post, Item
    <2>1. TransportTypeOK'
        <3>1. op[f].gen \in Generations /\ sent[f] \in Nat /\ sent[f] < MaxPosts
            BY DEF TransportTypeOK, OpStates, PostInv, Callers
        <3>2. Item(f, op[f].gen) \in Items
            BY <3>1 DEF Items, TransportTypeOK, Callers
        <3>3. queue' \in Seq(Items)
            BY <3>2 DEF TransportTypeOK
        <3>4. sent' \in [Callers -> 0..MaxPosts]
            BY <3>1 DEF TransportTypeOK, Callers
        <3>. QED  BY <3>3, <3>4 DEF TransportTypeOK, OpStates
    <2>2. QueryInv'  BY DEF QueryInv, TransportTypeOK
    <2>3. ParentInv'  BY DEF ParentInv, Built, Unborn, TransportTypeOK, QueryInv
    <2>4. PostInv'  BY DEF PostInv, TransportTypeOK, Callers
    <2>. QED  BY <2>1, <2>2, <2>3, <2>4
<1>12. ASSUME PostFromStart
      PROVE  TransportInv'
    <2>. USE <1>12 DEF PostFromStart, Post, Item
    <2>1. TransportTypeOK'
        <3>1. io.gen \in Generations /\ sent[Io] \in Nat /\ sent[Io] < MaxPosts
            BY DEF TransportTypeOK, IoStates, Callers
        <3>2. Item(Io, io.gen) \in Items
            BY <3>1 DEF Items, TransportTypeOK, Callers
        <3>3. queue' \in Seq(Items)
            BY <3>2 DEF TransportTypeOK
        <3>4. sent' \in [Callers -> 0..MaxPosts]
            BY <3>1 DEF TransportTypeOK, Callers
        <3>. QED  BY <3>3, <3>4 DEF TransportTypeOK, OpStates
    <2>2. QueryInv'  BY DEF QueryInv, TransportTypeOK
    <2>3. ParentInv'  BY DEF ParentInv, Built, Unborn, TransportTypeOK, QueryInv
    <2>4. PostInv'  BY DEF PostInv, TransportTypeOK, Callers
    <2>. QED  BY <2>1, <2>2, <2>3, <2>4
<1>13. ASSUME ClosureTake
      PROVE  TransportInv'
    <2>. USE <1>13 DEF ClosureTake
    <2>1. TransportTypeOK'
        <3>1. Head(queue) \in Items /\ Tail(queue) \in Seq(Items)
            BY DEF TransportTypeOK
        <3>2. io' \in IoStates
            BY <3>1 DEF IoStates
        <3>. QED  BY <3>1, <3>2 DEF TransportTypeOK
    <2>2. QueryInv'  BY DEF QueryInv, TransportTypeOK
    <2>3. ParentInv'  BY DEF ParentInv, Built, Unborn, TransportTypeOK, QueryInv
    <2>4. PostInv'  BY DEF PostInv, TransportTypeOK, Callers
    <2>. QED  BY <2>1, <2>2, <2>3, <2>4
<1>14. ASSUME ClosureRead
      PROVE  TransportInv'
    <2>. USE <1>14 DEF ClosureRead, ClosureDeliver
    <2>1. TransportTypeOK'
        <3>1. io.item \in Items /\ io.item.gen \in Generations
            BY DEF TransportTypeOK, IoStates, Items
        <3>2. CASE parent[io.item.gen] = NoParent
            BY <3>2 DEF TransportTypeOK, IoStates
        <3>3. CASE parent[io.item.gen] # NoParent
            <4>1. parent[io.item.gen] \in Parents
                BY <3>1, <3>3 DEF TransportTypeOK
            <4>2. io' \in IoStates
                BY <3>1, <3>3, <4>1 DEF IoStates
            <4>. DEFINE entry == [item |-> io.item, to |-> parent[io.item.gen]]
            <4>4. entry \in [item : Items, to : Parents]
                BY <3>1, <4>1
            <4>5. delivered' = Append(delivered, entry)
                BY <3>3
            <4>. HIDE DEF entry
            <4>3. delivered' \in Seq([item : Items, to : Parents])
                BY <4>4, <4>5 DEF TransportTypeOK
            <4>. QED  BY <4>2, <4>3 DEF TransportTypeOK
        <3>. QED  BY <3>2, <3>3
    <2>2. QueryInv'  BY DEF QueryInv, TransportTypeOK
    <2>3. ParentInv'  BY DEF ParentInv, Built, Unborn, TransportTypeOK, QueryInv
    <2>4. PostInv'  BY DEF PostInv, TransportTypeOK, Callers
    <2>. QED  BY <2>1, <2>2, <2>3, <2>4
<1>15. ASSUME CallReturns
      PROVE  TransportInv'
    <2>. USE <1>15 DEF CallReturns
    <2>1. TransportTypeOK'  BY DEF TransportTypeOK, IoStates, OpStates, Items, Callers
    <2>2. QueryInv'  BY DEF QueryInv, TransportTypeOK
    <2>3. ParentInv'  BY DEF ParentInv, Built, Unborn, TransportTypeOK, QueryInv
    <2>4. PostInv'  BY DEF PostInv, TransportTypeOK, Callers
    <2>. QED  BY <2>1, <2>2, <2>3, <2>4
<1>16. ASSUME NEW f \in Foreign, NEW g \in Generations, QueryCall(f, g)
      PROVE  TransportInv'
    <2>. USE <1>16 DEF QueryCall, MayCall
    <2>1. TransportTypeOK'  BY DEF TransportTypeOK, IoStates, OpStates, Items, Callers
    <2>2. QueryInv'  BY DEF QueryInv, TransportTypeOK
    <2>3. ParentInv'  BY DEF ParentInv, Built, Unborn, TransportTypeOK, QueryInv
    <2>4. PostInv'  BY DEF PostInv, TransportTypeOK, Callers
    <2>. QED  BY <2>1, <2>2, <2>3, <2>4
<1>17. ASSUME NEW f \in Foreign, QueryLocked(f)
      PROVE  TransportInv'
    <2>. USE <1>17 DEF QueryLocked
    <2>a. op[f].gen \in Generations
        BY DEF TransportTypeOK, OpStates
    <2>b. ASSUME parent[op[f].gen] = NoParent PROVE TransportTypeOK' /\ QueryInv' /\ PostInv'
        <3>1. op' = [op EXCEPT ![f] = OpIdle] /\ mutex' = mutex
            BY <2>b
        <3>2. TransportTypeOK'
            BY <3>1 DEF TransportTypeOK, OpStates
        <3>3. QueryInv'
            BY <3>1 DEF TransportTypeOK, QueryInv
        <3>4. PostInv'
            BY <3>1 DEF TransportTypeOK, PostInv
        <3>. QED  BY <3>2, <3>3, <3>4
    <2>c. ASSUME parent[op[f].gen] # NoParent PROVE TransportTypeOK' /\ QueryInv' /\ PostInv'
        <3>. DEFINE g == op[f].gen
                    inside == [at |-> "in_query", gen |-> g, parent |-> parent[g]]
        <3>1. op' = [op EXCEPT ![f] = inside] /\ mutex' = [mutex EXCEPT ![g] = f]
            BY <2>c
        <3>2. parent[g] \in Parents
            BY <2>a, <2>c DEF TransportTypeOK
        <3>3. inside \in OpStates
            BY <2>a, <3>2 DEF OpStates
        <3>4. op' \in [Foreign -> OpStates] /\ mutex' \in [Generations -> Foreign \cup {Nobody}]
            BY <3>1, <3>3, <2>a DEF TransportTypeOK
        <3>5. TransportTypeOK'
            BY <3>4 DEF TransportTypeOK
        <3>6. \A e \in Foreign : op[e].at = "in_query" => op[e].gen # g
            BY DEF QueryInv
        <3>7. \A e \in Foreign : e # f => op'[e] = op[e]
            BY <3>1 DEF TransportTypeOK
        <3>8. op'[f] = inside /\ inside.at = "in_query" /\ inside.gen = g /\ inside.parent = parent[g]
            BY <3>1 DEF TransportTypeOK
        <3>9. mutex'[g] = f /\ \A h \in Generations : h # g => mutex'[h] = mutex[h]
            BY <3>1, <2>a DEF TransportTypeOK
        <3>10. \A e \in Foreign : op[e].at = "in_query" => op[e].gen \in Generations
            BY DEF TransportTypeOK, OpStates
        <3>. HIDE DEF inside, g
        <3>11. QueryInv'
            BY <3>6, <3>7, <3>8, <3>9, <3>10, <2>a DEF QueryInv
        <3>12. PostInv'
            BY <3>7, <3>8 DEF PostInv
        <3>. QED  BY <3>5, <3>11, <3>12
    <2>1. TransportTypeOK'  BY <2>b, <2>c
    <2>2. QueryInv'  BY <2>b, <2>c
    <2>3. ParentInv'  BY DEF ParentInv, Built, Unborn, TransportTypeOK, QueryInv
    <2>4. PostInv'  BY <2>b, <2>c
    <2>. QED  BY <2>1, <2>2, <2>3, <2>4
<1>18. ASSUME NEW f \in Foreign, QueryReturns(f)
      PROVE  TransportInv'
    <2>. USE <1>18 DEF QueryReturns
    <2>1. TransportTypeOK'  BY DEF TransportTypeOK, IoStates, OpStates, Items, Callers
    <2>2. QueryInv'  BY DEF QueryInv, TransportTypeOK
    <2>3. ParentInv'  BY DEF ParentInv, Built, Unborn, TransportTypeOK, QueryInv
    <2>4. PostInv'  BY DEF PostInv, TransportTypeOK, Callers
    <2>. QED  BY <2>1, <2>2, <2>3, <2>4
<1>19. ASSUME NEW f \in Foreign, NEW h \in Foreign, NEW g \in Generations, CloneHandle(f, h, g)
      PROVE  TransportInv'
    <2>. USE <1>19 DEF CloneHandle, MayCall
    <2>1. TransportTypeOK'  BY DEF TransportTypeOK, IoStates, OpStates, Items, Callers
    <2>2. QueryInv'  BY DEF QueryInv, TransportTypeOK
    <2>3. ParentInv'  BY DEF ParentInv, Built, Unborn, TransportTypeOK, QueryInv
    <2>4. PostInv'  BY DEF PostInv, TransportTypeOK, Callers
    <2>. QED  BY <2>1, <2>2, <2>3, <2>4
<1>20. ASSUME NEW f \in Foreign, NEW g \in Generations, DropHandle(f, g)
      PROVE  TransportInv'
    <2>. USE <1>20 DEF DropHandle, MayCall
    <2>1. TransportTypeOK'  BY DEF TransportTypeOK, IoStates, OpStates, Items, Callers
    <2>2. QueryInv'  BY DEF QueryInv, TransportTypeOK
    <2>3. ParentInv'  BY DEF ParentInv, Built, Unborn, TransportTypeOK, QueryInv
    <2>4. PostInv'  BY DEF PostInv, TransportTypeOK, Callers
    <2>. QED  BY <2>1, <2>2, <2>3, <2>4
<1>21. CASE UNCHANGED vars
    BY <1>21 DEF vars, TransportTypeOK, QueryInv, PostInv, ParentInv, Built, Unborn
<1>. QED
    BY <1>1, <1>2, <1>3, <1>4, <1>5, <1>6, <1>7, <1>8, <1>9, <1>10, <1>11, <1>12, <1>13, <1>14, <1>15, <1>16, <1>17, <1>18, <1>19, <1>20, <1>21
    DEF TransportNext, IoStep, IoCall, ForeignStep, ForeignCall

(* For every set of threads, connections and parent objects: the mutex, a  *)
(* running query and the parent pointer of bridge.cpp's                    *)
(* ExternalTransportState stay in step, and a client's pointer is set      *)
(* exactly while the client exists and never to a destroyed parent.        *)
THEOREM TransportInvariant == TransportSpec => []TransportInv
BY TransportInitInv, TransportNextInv, PTL DEF TransportSpec

(* No closure and no query ever runs in a parent that Core has destroyed:  *)
(* the lookup under the mutex (bridge.cpp post_external_transport and      *)
(* query_external_transport) and the destructor's clearing suffice.        *)
THEOREM TransportParentsAlive == TransportSpec => []ParentsAlive
<1>1. TransportInv => ParentsAlive
    <2>. SUFFICES ASSUME TransportInv PROVE ParentsAlive
        OBVIOUS
    <2>. USE DEF TransportInv, ParentInv
    <2>1. io.at = "calling" => io.parent \notin dead
        <3>1. io.at = "calling" => io.gen \in Generations /\ io.parent \in Parents
            BY DEF TransportTypeOK, IoStates
        <3>. QED  BY <3>1
    <2>2. ASSUME NEW f \in Foreign, op[f].at = "in_query" PROVE op[f].parent \notin dead
        <3>1. op[f].gen \in Generations /\ op[f].parent \in Parents
            BY <2>2 DEF TransportTypeOK, OpStates
        <3>. QED  BY <2>2, <3>1 DEF QueryInv
    <2>. QED  BY <2>1, <2>2 DEF ParentsAlive
<1>. QED  BY <1>1, TransportInvariant, PTL

(* A step delivers only to a parent of the generation the packet was       *)
(* posted for, and no step changes the owner of a parent it was given to.  *)
LEMMA OwnGenerationStep ==
    TransportInv /\ OwnGeneration /\ [TransportNext]_vars => OwnGeneration'
<1>. SUFFICES ASSUME TransportInv, OwnGeneration, [TransportNext]_vars PROVE OwnGeneration'
    OBVIOUS
<1>. DEFINE Entries == [item : Items, to : Parents]
<1>t. /\ delivered \in Seq(Entries)
      /\ owner \in [Parents -> Generations \cup {NoGeneration}]
    BY DEF TransportInv, TransportTypeOK
<1>e. \A i \in DOMAIN delivered :
          delivered[i] \in Entries /\ delivered[i].to \in Parents /\ delivered[i].item.gen \in Generations
    <2>1. \A e \in Entries : e.to \in Parents /\ e.item.gen \in Generations
        BY DEF Items
    <2>. HIDE DEF Entries
    <2>2. \A i \in DOMAIN delivered : delivered[i] \in Entries
        BY <1>t
    <2>. QED  BY <2>1, <2>2
<1>1. ASSUME NEW g \in Generations, NEW p \in Parents, Unborn(p),
             owner' = [owner EXCEPT ![p] = g], delivered' = delivered
      PROVE  OwnGeneration'
    <2>1. \A i \in DOMAIN delivered : delivered[i].to # p
        BY <1>1, <1>e DEF OwnGeneration, Unborn
    <2>. QED  BY <1>1, <1>t, <1>e, <2>1 DEF OwnGeneration
<1>2. ASSUME owner' = owner, delivered' = delivered
      PROVE  OwnGeneration'
    BY <1>2 DEF OwnGeneration
<1>3. ASSUME ClosureRead
      PROVE  OwnGeneration'
    <2>. DEFINE g == io.item.gen
                entry == [item |-> io.item, to |-> parent[g]]
    <2>1. CASE parent[g] = NoParent
        BY <1>2, <1>3, <2>1 DEF ClosureRead
    <2>2. CASE parent[g] # NoParent
        <3>1. owner' = owner /\ delivered' = Append(delivered, entry)
            BY <1>3, <2>2 DEF ClosureRead, ClosureDeliver
        <3>2. io.item \in Items /\ g \in Generations
            BY <1>3 DEF ClosureRead, TransportInv, TransportTypeOK, IoStates, Items
        <3>3. parent[g] \in Parents /\ owner[parent[g]] = g
            BY <3>2, <2>2 DEF TransportInv, TransportTypeOK, ParentInv
        <3>4. entry \in Entries /\ entry.to = parent[g] /\ entry.item.gen = g
            BY <3>2, <3>3
        <3>. HIDE DEF entry, g, Entries
        <3>. QED  BY <1>t, <3>1, <3>3, <3>4 DEF OwnGeneration
    <2>. QED  BY <2>1, <2>2
<1>. QED
    <2>1. CASE \E g \in Generations, p \in Parents : NewTransportClient(g, p)
        BY <2>1, <1>1 DEF NewTransportClient
    <2>2. CASE \E g \in Generations, p \in Parents : TransportReparent(g, p)
        BY <2>2, <1>1 DEF TransportReparent
    <2>3. CASE ClosureRead
        BY <2>3, <1>3
    <2>4. CASE TransportStartReturns \/ TransportStopReturns \/ DestroyLocked \/ ClosureTake \/ CallReturns
        BY <2>4, <1>2 DEF TransportStartReturns, TransportStopReturns, DestroyLocked, ClosureTake, CallReturns
    <2>5. CASE \E g \in Generations, threads \in SUBSET Foreign :
                  TransportStart(g, threads) \/ TransportStop(g, threads)
        BY <2>5, <1>2 DEF TransportStart, TransportStop
    <2>6. CASE \/ \E g \in Generations : DestroyBegin(g)
               \/ \E p \in Parents : DestroyParent(p)
               \/ PostFromStart
        BY <2>6, <1>2 DEF DestroyBegin, DestroyParent, PostFromStart
    <2>7. CASE \E f \in Foreign : ForeignStep(f)
        BY <2>7, <1>2 DEF ForeignStep, PostLocked, QueryLocked, QueryReturns
    <2>8. CASE \E f \in Foreign : ForeignCall(f)
        BY <2>8, <1>2 DEF ForeignCall, PostCall, QueryCall, DropHandle, CloneHandle
    <2>9. CASE UNCHANGED vars
        BY <2>9, <1>2 DEF vars
    <2>. QED
        BY <2>1, <2>2, <2>3, <2>4, <2>5, <2>6, <2>7, <2>8, <2>9
        DEF TransportNext, IoStep, IoCall

(* A packet posted through a handle of one connection is never delivered   *)
(* to the parent of another, however many reconnects and reparentings lie  *)
(* between the post and the closure's turn.                                *)
THEOREM TransportOwnGeneration == TransportSpec => []OwnGeneration
<1>1. TransportInit => OwnGeneration
    BY DEF TransportInit, OwnGeneration
<1>. QED  BY <1>1, TransportInvariant, OwnGenerationStep, PTL DEF TransportSpec
=============================================================================
