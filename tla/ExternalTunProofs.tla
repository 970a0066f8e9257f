------------------------- MODULE ExternalTunProofs --------------------------
(***************************************************************************)
(* Proofs about ExternalTun, for every set of application threads and      *)
(* tunnels and every depth of nesting on the I/O thread.                   *)
(***************************************************************************)
EXTENDS ExternalTun, FiniteSetTheorems, SequenceTheorems, TLAPS

USE TunAssumption

-----------------------------------------------------------------------------
(* The frames of a stack that hold the mutex of tunnel g.                  *)
Holds(frame, g) == frame.at = "core" /\ frame.gen = g /\ frame.locked
Locked(s, g) == {i \in DOMAIN s : s[i].at = "core" /\ s[i].gen = g /\ s[i].locked}

(* Every frame belongs to a tunnel.                                        *)
LEMMA FrameType ==
    \A frame \in Frames : frame.gen \in Generations
BY DEF Frames

(* A stack holds a mutex finitely often.                                   *)
LEMMA LockedFinite ==
    ASSUME NEW s \in Seq(Frames), NEW g
    PROVE  IsFiniteSet(Locked(s, g)) /\ Cardinality(Locked(s, g)) \in Nat
<1>1. Locked(s, g) \in SUBSET (1..Len(s)) /\ Len(s) \in Nat
    BY DEF Locked
<1>2. IsFiniteSet(1..Len(s))
    BY <1>1, FS_Interval
<1>. QED  BY <1>1, <1>2, FS_Subset, FS_CardinalityType

(* A frame pushed on the stack adds one to the mutex it holds and nothing  *)
(* to any other.                                                           *)
LEMMA LockedPush ==
    ASSUME NEW s \in Seq(Frames), NEW frame \in Frames, NEW g
    PROVE  /\ Append(s, frame) \in Seq(Frames)
           /\ Cardinality(Locked(Append(s, frame), g)) =
                 Cardinality(Locked(s, g)) + IF Holds(frame, g) THEN 1 ELSE 0
<1>. DEFINE t == Append(s, frame)
<1>1. /\ t \in Seq(Frames) /\ Len(s) \in Nat
      /\ DOMAIN t = 1..(Len(s) + 1) /\ DOMAIN s = 1..Len(s)
      /\ \A i \in 1..Len(s) : t[i] = s[i]
      /\ t[Len(s) + 1] = frame
    BY AppendProperties, LenProperties
<1>. HIDE DEF t
<1>2. CASE Holds(frame, g)
    <2>1. Locked(t, g) = Locked(s, g) \cup {Len(s) + 1}
        BY <1>1, <1>2 DEF Locked, Holds
    <2>2. Len(s) + 1 \notin Locked(s, g)
        BY <1>1 DEF Locked
    <2>. QED  BY <1>1, <1>2, <2>1, <2>2, LockedFinite, FS_AddElement DEF t
<1>3. CASE ~Holds(frame, g)
    <2>1. Locked(t, g) = Locked(s, g)
        BY <1>1, <1>3 DEF Locked, Holds
    <2>. QED  BY <1>1, <1>3, <2>1, LockedFinite DEF t
<1>. QED  BY <1>2, <1>3

(* Leaving the top frame gives back what it held and nothing else.         *)
LEMMA LockedPop ==
    ASSUME NEW s \in Seq(Frames), s # <<>>, NEW g
    PROVE  /\ SubSeq(s, 1, Len(s) - 1) \in Seq(Frames)
           /\ Len(s) \in Nat \ {0} /\ s[Len(s)] \in Frames
           /\ \A i \in DOMAIN SubSeq(s, 1, Len(s) - 1) :
                 i \in DOMAIN s /\ SubSeq(s, 1, Len(s) - 1)[i] = s[i]
           /\ Cardinality(Locked(s, g)) =
                 Cardinality(Locked(SubSeq(s, 1, Len(s) - 1), g))
                     + IF Holds(s[Len(s)], g) THEN 1 ELSE 0
<1>. DEFINE t == SubSeq(s, 1, Len(s) - 1)
<1>1. /\ Len(s) \in Nat \ {0} /\ DOMAIN s = 1..Len(s)
      /\ \A i \in 1..Len(s) : s[i] \in Frames
    BY EmptySeq, LenProperties, ElementOfSeq
<1>2. /\ t \in Seq(Frames) /\ Len(t) = Len(s) - 1
      /\ \A i \in 1..(Len(s) - 1) : t[i] = s[i]
    BY <1>1, SubSeqProperties
<1>3. DOMAIN t = 1..(Len(s) - 1)
    BY <1>2, LenProperties
<1>. HIDE DEF t
<1>4. CASE Holds(s[Len(s)], g)
    <2>1. Locked(s, g) = Locked(t, g) \cup {Len(s)}
        BY <1>1, <1>2, <1>3, <1>4 DEF Locked, Holds
    <2>2. Len(s) \notin Locked(t, g)
        BY <1>1, <1>3 DEF Locked
    <2>3. Cardinality(Locked(s, g)) = Cardinality(Locked(t, g)) + 1
        BY <1>2, <2>1, <2>2, LockedFinite, FS_AddElement
    <2>. QED  BY <1>1, <1>2, <1>3, <1>4, <2>3 DEF t
<1>5. CASE ~Holds(s[Len(s)], g)
    <2>1. Locked(s, g) = Locked(t, g)
        BY <1>1, <1>2, <1>3, <1>5 DEF Locked, Holds
    <2>2. Cardinality(Locked(s, g)) = Cardinality(Locked(t, g)) + 0
        BY <1>2, <2>1, LockedFinite
    <2>. QED  BY <1>1, <1>2, <1>3, <1>5, <2>2 DEF t
<1>. QED  BY <1>4, <1>5

(* Replacing a top frame that holds nothing by one that holds nothing.     *)
LEMMA LockedRetop ==
    ASSUME NEW s \in Seq(Frames), s # <<>>, NEW frame \in Frames, NEW g,
           s[Len(s)].at # "core", frame.at # "core"
    PROVE  /\ [s EXCEPT ![Len(s)] = frame] \in Seq(Frames)
           /\ DOMAIN [s EXCEPT ![Len(s)] = frame] = DOMAIN s
           /\ Len(s) \in DOMAIN s /\ s[Len(s)] \in Frames
           /\ \A i \in DOMAIN s :
                 [s EXCEPT ![Len(s)] = frame][i] = IF i = Len(s) THEN frame ELSE s[i]
           /\ Locked([s EXCEPT ![Len(s)] = frame], g) = Locked(s, g)
<1>. DEFINE t == [s EXCEPT ![Len(s)] = frame]
<1>1. /\ Len(s) \in Nat \ {0} /\ DOMAIN s = 1..Len(s) /\ Len(s) \in 1..Len(s)
      /\ s[Len(s)] \in Frames
    BY EmptySeq, LenProperties, ElementOfSeq
<1>2. /\ t \in Seq(Frames) /\ DOMAIN t = DOMAIN s
      /\ \A i \in DOMAIN s : t[i] = IF i = Len(s) THEN frame ELSE s[i]
    BY <1>1, ExceptSeq
<1>. HIDE DEF t
<1>3. Locked(t, g) = Locked(s, g)
    BY <1>1, <1>2 DEF Locked
<1>. QED  BY <1>1, <1>2, <1>3 DEF t

-----------------------------------------------------------------------------
(* The three ways in which an action changes the stack.                    *)

(* No action reopens a tunnel that is gone or unmakes one.                 *)
LivesOn ==
    \A g \in Generations :
        /\ Open(g) => Open(g)' \/ stack = <<>>
        /\ client[g] # "none" => client'[g] # "none"
        /\ client[g] = "destroyed" => client'[g] = "destroyed"

(* Core or the application is called one level deeper.                     *)
LEMMA PushKeeps ==
    ASSUME TunInv, LivesOn, NEW frame \in Frames, Push(frame), Open(frame.gen)',
           \A g \in Generations : depth'[g] = depth[g] + IF Holds(frame, g) THEN 1 ELSE 0
    PROVE  stack' \in Seq(Frames) /\ LockInv' /\ FrameInv'
<1>1. stack \in Seq(Frames)
    BY DEF TunInv, TunTypeOK
<1>2. stack' = Append(stack, frame) /\ stack' \in Seq(Frames)
    BY <1>1, LockedPush DEF Push
<1>3. LockInv'
    <2>. SUFFICES ASSUME NEW g \in Generations
                  PROVE  depth'[g] = Cardinality(Locked(stack', g))
        BY DEF LockInv, Locked
    <2>1. depth[g] = Cardinality(Locked(stack, g))
        BY DEF TunInv, LockInv, Locked
    <2>. QED  BY <1>1, <1>2, <2>1, LockedPush
<1>4. FrameInv'
    <2>1. /\ DOMAIN stack = 1..Len(stack) /\ DOMAIN stack' = 1..(Len(stack) + 1)
          /\ \A i \in 1..Len(stack) : stack'[i] = stack[i] /\ stack[i] \in Frames
          /\ stack'[Len(stack) + 1] = frame /\ Len(stack) \in Nat
        BY <1>1, <1>2, AppendProperties, LenProperties, ElementOfSeq
    <2>2. \A i \in 1..Len(stack) : Open(stack[i].gen) /\ stack[i].gen \in Generations
        BY <2>1, FrameType DEF TunInv, FrameInv
    <2>3. \A i \in 1..Len(stack) : Open(stack[i].gen)'
        <3>. SUFFICES ASSUME NEW i \in 1..Len(stack)
                      PROVE  client'[stack[i].gen] \in {"new", "started", "stopped"}
            BY <2>1 DEF Open
        <3>1. stack # <<>>
            BY <2>1
        <3>. QED  BY <3>1, <2>2 DEF LivesOn, Open
    <2>. QED  BY <2>1, <2>3 DEF FrameInv, Open
<1>. QED  BY <1>2, <1>3, <1>4

(* A frame returns.                                                        *)
LEMMA PopKeeps ==
    ASSUME TunInv, stack # <<>>, client' = client, Pop, depth' \in [Generations -> Int],
           \A g \in Generations : depth[g] = depth'[g] + IF Holds(Top, g) THEN 1 ELSE 0
    PROVE  stack' \in Seq(Frames) /\ LockInv' /\ FrameInv'
<1>1. stack \in Seq(Frames)
    BY DEF TunInv, TunTypeOK
<1>2. /\ stack' \in Seq(Frames)
      /\ \A i \in DOMAIN stack' : i \in DOMAIN stack /\ stack'[i] = stack[i]
    BY <1>1, LockedPop DEF Pop
<1>3. LockInv'
    <2>. SUFFICES ASSUME NEW g \in Generations
                  PROVE  depth'[g] = Cardinality(Locked(stack', g))
        BY DEF LockInv, Locked
    <2>1. depth[g] = Cardinality(Locked(stack, g))
        BY DEF TunInv, LockInv, Locked
    <2>2. Cardinality(Locked(stack', g)) \in Nat
        BY <1>2, LockedFinite
    <2>3. Cardinality(Locked(stack, g)) =
              Cardinality(Locked(stack', g)) + IF Holds(Top, g) THEN 1 ELSE 0
        BY <1>1, LockedPop DEF Pop, Top
    <2>. QED  BY <2>1, <2>2, <2>3
<1>4. FrameInv'
    BY <1>2 DEF TunInv, FrameInv, Open
<1>. QED  BY <1>2, <1>3, <1>4

(* The application's frame begins or ends a call of the reverse path.      *)
LEMMA RetopKeeps ==
    ASSUME TunInv, stack # <<>>, client' = client, depth' = depth,
           NEW frame \in Frames, Top.at # "core", frame.at # "core", frame.gen = Top.gen,
           Retop(frame)
    PROVE  stack' \in Seq(Frames) /\ LockInv' /\ FrameInv'
<1>1. stack \in Seq(Frames)
    BY DEF TunInv, TunTypeOK
<1>2. /\ stack' \in Seq(Frames) /\ DOMAIN stack' = DOMAIN stack /\ Len(stack) \in DOMAIN stack
      /\ \A i \in DOMAIN stack : stack'[i] = IF i = Len(stack) THEN frame ELSE stack[i]
    BY <1>1, LockedRetop DEF Retop, Top
<1>3. LockInv'
    <2>. SUFFICES ASSUME NEW g \in Generations
                  PROVE  depth'[g] = Cardinality(Locked(stack', g))
        BY DEF LockInv, Locked
    <2>1. depth[g] = Cardinality(Locked(stack, g))
        BY DEF TunInv, LockInv, Locked
    <2>. DEFINE t == [stack EXCEPT ![Len(stack)] = frame]
    <2>2. Locked(t, g) = Locked(stack, g)
        BY <1>1, LockedRetop DEF Top
    <2>3. stack' = t
        BY DEF Retop
    <2>. HIDE DEF t
    <2>4. Locked(stack', g) = Locked(stack, g)
        BY <2>2, <2>3
    <2>. QED  BY <2>1, <2>4
<1>4. FrameInv'
    BY <1>2 DEF TunInv, FrameInv, Open, Top
<1>. QED  BY <1>2, <1>3, <1>4

(* The order of connected() and what follows it does not depend on what    *)
(* tunnels, frames and handles do.                                         *)
LEMMA OrderKept ==
    ASSUME TunInv, LivesOn, UNCHANGED <<queue, reported>>, connected \subseteq connected'
    PROVE  OrderInv'
<1>1. \A i \in DOMAIN queue : queue[i].gen \in Generations
    <2>1. queue \in Seq(Items)
        BY DEF TunInv, TunTypeOK
    <2>2. \A i \in DOMAIN queue : queue[i] \in Items
        BY <2>1, LenProperties, ElementOfSeq
    <2>. QED  BY <2>2 DEF Items
<1>. QED  BY <1>1 DEF TunInv, OrderInv, Pending, LivesOn

(* A closure is appended: what was pending stays pending.                  *)
LEMMA OrderAppended ==
    ASSUME TunInv, NEW item \in Items, queue' = Append(queue, item),
           UNCHANGED <<client, connected>>, Open(item.gen),
           item.after => \E f \in Foreign : <<f, item.gen>> \in reported,
           \A f \in Foreign, g \in Generations : <<f, g>> \in reported' =>
               \/ <<f, g>> \in reported
               \/ item.call = "connected" /\ item.gen = g,
           \A g \in Generations : <<Io, g>> \in reported' => <<Io, g>> \in reported
    PROVE  queue' \in Seq(Items) /\ OrderInv'
<1>1. queue \in Seq(Items) /\ item.gen \in Generations
    BY DEF TunInv, TunTypeOK, Items
<1>2. /\ queue' \in Seq(Items) /\ Len(queue) \in Nat /\ Len(queue') = Len(queue) + 1
      /\ DOMAIN queue = 1..Len(queue) /\ DOMAIN queue' = 1..(Len(queue) + 1)
      /\ \A i \in 1..Len(queue) : queue'[i] = queue[i]
      /\ queue'[Len(queue) + 1] = item
    BY <1>1, AppendProperties, LenProperties
<1>3. \A g, n : Pending(queue, g, n) => Pending(queue', g, n)
    BY <1>2 DEF Pending
<1>4. \A g : Pending(queue, g, Len(queue) + 1) => Pending(queue', g, Len(queue') + 1)
    BY <1>2 DEF Pending
<1>5. item.call = "connected" => Pending(queue', item.gen, Len(queue') + 1)
    BY <1>2 DEF Pending
<1>6. ASSUME NEW i \in DOMAIN queue'
      PROVE  /\ client[queue'[i].gen] # "none"
             /\ queue'[i].after /\ client[queue'[i].gen] # "destroyed"
                   => queue'[i].gen \in connected \/ Pending(queue', queue'[i].gen, i)
    <2>1. CASE i \in DOMAIN queue
        <3>1. queue'[i] = queue[i]
            BY <1>2, <2>1
        <3>. QED  BY <1>3, <2>1, <3>1 DEF TunInv, OrderInv
    <2>2. CASE i = Len(queue) + 1
        <3>1. queue'[i] = item
            BY <1>2, <2>2
        <3>2. item.after /\ client[item.gen] # "destroyed"
                 => item.gen \in connected \/ Pending(queue, item.gen, i)
            BY <1>1, <2>2 DEF TunInv, OrderInv
        <3>. QED  BY <1>3, <3>1, <3>2 DEF Open
    <2>. QED  BY <1>2, <2>1, <2>2
<1>7. ASSUME NEW f \in Foreign, NEW g \in Generations,
             <<f, g>> \in reported', client[g] # "destroyed"
      PROVE  g \in connected \/ Pending(queue', g, Len(queue') + 1)
    <2>1. CASE <<f, g>> \in reported
        BY <1>4, <1>7, <2>1 DEF TunInv, OrderInv
    <2>2. CASE item.call = "connected" /\ item.gen = g
        BY <1>5, <2>2
    <2>. QED  BY <1>7, <2>1, <2>2
<1>8. \A g \in Generations : <<Io, g>> \in reported' => g \in connected
    BY DEF TunInv, OrderInv
<1>. QED  BY <1>2, <1>6, <1>7, <1>8 DEF OrderInv

(* A closure is taken: the first one is run when its tunnel is open, and   *)
(* the others move up by one.                                              *)
LEMMA OrderTaken ==
    ASSUME TunInv, queue # <<>>, queue' = Tail(queue), UNCHANGED <<client, reported>>,
           connected \subseteq connected',
           Head(queue).call = "connected" /\ Open(Head(queue).gen)
               => Head(queue).gen \in connected'
    PROVE  queue' \in Seq(Items) /\ OrderInv'
<1>1. queue \in Seq(Items)
    BY DEF TunInv, TunTypeOK
<1>2. /\ queue' \in Seq(Items) /\ Len(queue) \in Nat \ {0} /\ Len(queue') = Len(queue) - 1
      /\ DOMAIN queue = 1..Len(queue) /\ DOMAIN queue' = 1..(Len(queue) - 1)
      /\ \A i \in 1..(Len(queue) - 1) : queue'[i] = queue[i + 1]
      /\ queue[1] = Head(queue)
      /\ \A i \in 1..Len(queue) : queue[i].gen \in Generations
    <2>1. queue' \in Seq(Items) /\ Len(queue) \in Nat \ {0} /\ Len(queue') = Len(queue) - 1
        BY <1>1, HeadTailProperties, EmptySeq
    <2>2. DOMAIN queue = 1..Len(queue) /\ DOMAIN queue' = 1..(Len(queue) - 1)
        BY <1>1, <2>1, LenProperties
    <2>3. \A i \in 1..(Len(queue) - 1) : queue'[i] = queue[i + 1]
        BY <1>1, <2>1, HeadTailProperties
    <2>4. \A i \in 1..Len(queue) : queue[i] \in Items
        BY <1>1, ElementOfSeq
    <2>5. \A i \in 1..Len(queue) : queue[i].gen \in Generations
        BY <2>4 DEF Items
    <2>. QED  BY <1>1, <2>1, <2>2, <2>3, <2>5
<1>3. ASSUME NEW g \in Generations, NEW n \in 2..(Len(queue) + 1), Pending(queue, g, n),
             client[g] \notin {"none", "destroyed"}
      PROVE  g \in connected' \/ Pending(queue', g, n - 1)
    <2>1. PICK j \in DOMAIN queue : j < n /\ queue[j].call = "connected" /\ queue[j].gen = g
        BY <1>3 DEF Pending
    <2>2. CASE j = 1
        BY <1>2, <1>3, <2>1, <2>2 DEF Open, TunInv, TunTypeOK
    <2>3. CASE j # 1
        <3>1. j - 1 \in DOMAIN queue' /\ queue'[j - 1] = queue[j] /\ j - 1 < n - 1
            BY <1>2, <2>1, <2>3
        <3>. QED  BY <2>1, <3>1 DEF Pending
    <2>. QED  BY <2>2, <2>3
<1>4. ASSUME NEW i \in DOMAIN queue'
      PROVE  /\ client[queue'[i].gen] # "none"
             /\ queue'[i].after /\ client[queue'[i].gen] # "destroyed"
                   => queue'[i].gen \in connected' \/ Pending(queue', queue'[i].gen, i)
    <2>1. /\ i \in Nat /\ i + 1 \in DOMAIN queue /\ i + 1 \in 2..(Len(queue) + 1)
          /\ queue'[i] = queue[i + 1] /\ queue[i + 1].gen \in Generations /\ (i + 1) - 1 = i
        BY <1>2, <1>4
    <2>. DEFINE g == queue[i + 1].gen
    <2>2. /\ client[g] # "none"
          /\ queue[i + 1].after /\ client[g] # "destroyed"
                => g \in connected \/ Pending(queue, g, i + 1)
        BY <2>1 DEF TunInv, OrderInv
    <2>3. Pending(queue, g, i + 1) /\ client[g] # "destroyed"
              => g \in connected' \/ Pending(queue', g, i)
        BY <1>3, <2>1, <2>2
    <2>. QED  BY <2>1, <2>2, <2>3
<1>5. ASSUME NEW f \in Foreign, NEW g \in Generations,
             <<f, g>> \in reported, client[g] # "destroyed"
      PROVE  g \in connected' \/ Pending(queue', g, Len(queue') + 1)
    <2>1. g \in connected \/ Pending(queue, g, Len(queue) + 1)
        BY <1>5 DEF TunInv, OrderInv
    <2>2. CASE Pending(queue, g, Len(queue) + 1)
        <3>1. client[g] # "none"
            BY <1>2, <2>2 DEF TunInv, OrderInv, Pending
        <3>2. Len(queue) + 1 \in 2..(Len(queue) + 1) /\ (Len(queue) + 1) - 1 = Len(queue') + 1
            BY <1>2
        <3>. QED  BY <1>3, <1>5, <2>2, <3>1, <3>2
    <2>. QED  BY <2>1, <2>2
<1>6. \A g \in Generations : <<Io, g>> \in reported => g \in connected'
    BY DEF TunInv, OrderInv
<1>. QED  BY <1>2, <1>4, <1>5, <1>6 DEF OrderInv

(* The closure whose turn it is meets a connected tunnel if it was queued  *)
(* after its thread's connected().                                         *)
LEMMA NothingRejected ==
    ASSUME TunInv, queue # <<>>, Open(Head(queue).gen)
    PROVE  ~Rejects(Head(queue))
<1>1. queue \in Seq(Items)
    BY DEF TunInv, TunTypeOK
<1>2. /\ Len(queue) \in Nat \ {0} /\ DOMAIN queue = 1..Len(queue)
      /\ queue[1] = Head(queue) /\ Head(queue) \in Items
    BY <1>1, EmptySeq, LenProperties, HeadTailProperties
<1>3. Head(queue).gen \in Generations
    BY <1>2 DEF Items
<1>4. ~Pending(queue, Head(queue).gen, 1)
    BY <1>2 DEF Pending
<1>. QED  BY <1>2, <1>3, <1>4 DEF TunInv, OrderInv, Rejects, Open

-----------------------------------------------------------------------------
(* No tunnel has been built, nothing is queued and nobody has reported.    *)
LEMMA TunInitInv == TunInit => TunInv
<1>. SUFFICES ASSUME TunInit PROVE TunInv
    OBVIOUS
<1>. USE DEF TunInit
<1>1. TunTypeOK
    BY DEF TunTypeOK, OpStates, OpIdle, Callers
<1>2. LockInv
    <2>1. \A g \in Generations : Locked(stack, g) = {}
        BY DEF Locked
    <2>. QED  BY <2>1, FS_EmptySet DEF LockInv, Locked
<1>. QED  BY <1>1, <1>2 DEF TunInv, FrameInv, OrderInv

(* One step per action: the callbacks and calls of the I/O thread first,   *)
(* then the closures, then the application threads.                        *)
LEMMA TunNextInv == TunInv /\ [TunNext]_vars => TunInv'
<1>. SUFFICES ASSUME TunInv, [TunNext]_vars PROVE TunInv'
    OBVIOUS
<1>t. TunTypeOK
    BY DEF TunInv
<1>s. stack # <<>> => Top \in Frames /\ Top.gen \in Generations /\ Open(Top.gen)
    <2>1. stack \in Seq(Frames)
        BY <1>t DEF TunTypeOK
    <2>2. stack # <<>> => Len(stack) \in DOMAIN stack /\ Top \in Frames
        BY <2>1, EmptySeq, LenProperties, ElementOfSeq DEF Top
    <2>. QED  BY <2>2, FrameType DEF TunInv, FrameInv, Top
<1>u. client' = client => LivesOn
    BY DEF LivesOn, Open
<1>1. CASE CallbackReturns
    <2>. USE <1>1 DEF CallbackReturns, On
    <2>1. ~\E g : Holds(Top, g)
        BY DEF Holds
    <2>2. stack' \in Seq(Frames) /\ LockInv' /\ FrameInv'
        BY <1>t, <2>1, PopKeeps DEF TunTypeOK
    <2>3. OrderInv'
        BY <1>u, OrderKept
    <2>. QED  BY <1>t, <2>2, <2>3 DEF TunInv, TunTypeOK
<1>2. CASE TunStopReturns
    <2>. USE <1>2 DEF TunStopReturns, On
    <2>1. ~\E g : Holds(Top, g)
        BY DEF Holds
    <2>2. stack' \in Seq(Frames) /\ LockInv' /\ FrameInv'
        BY <1>t, <2>1, PopKeeps DEF TunTypeOK
    <2>3. OrderInv'
        BY <1>u, OrderKept
    <2>4. hold' \in [Foreign -> SUBSET Generations]
        BY <1>t DEF TunTypeOK
    <2>. QED  BY <1>t, <2>2, <2>3, <2>4 DEF TunInv, TunTypeOK
<1>3. CASE InlineLocked
    <2>. DEFINE g == Top.target
                back == [at |-> "callback", gen |-> Top.gen]
                inner == [at |-> "core", gen |-> g, locked |-> TRUE]
    <2>. USE <1>3 DEF InlineLocked, On
    <2>1. g \in Generations /\ Top.call \in Calls /\ Top.at # "core" /\ stack # <<>>
        BY <1>s DEF Frames
    <2>2. back \in Frames /\ inner \in Frames
        BY <1>s, <2>1 DEF Frames
    <2>3. CASE ~Open(g)
        <3>1. Retop(back) /\ UNCHANGED <<client, depth, queue, connected, reported>>
            BY <2>3 DEF BackInCallback
        <3>. HIDE DEF InlineLocked, back
        <3>2. back.at # "core" /\ back.gen = Top.gen
            BY DEF back
        <3>3. stack' \in Seq(Frames) /\ LockInv' /\ FrameInv'
            BY <2>1, <2>2, <3>1, <3>2, RetopKeeps
        <3>4. OrderInv'
            BY <1>u, <3>1, OrderKept
        <3>. QED  BY <1>t, <3>1, <3>3, <3>4 DEF TunInv, TunTypeOK, InlineLocked
    <2>4. CASE Open(g)
        <3>. DEFINE mid == [stack EXCEPT ![Len(stack)] = back]
        <3>1. /\ stack' = mid \o <<inner>>
              /\ depth' = [depth EXCEPT ![g] = @ + 1]
              /\ connected' = IF Top.call = "connected" THEN connected \cup {g} ELSE connected
              /\ reported' = IF Top.call = "connected" THEN reported \cup {<<Io, g>>} ELSE reported
              /\ UNCHANGED <<client, queue, op, hold, sent, rejected>>
            BY <2>4 DEF BackInCallback, Accepted
        <3>. HIDE DEF InlineLocked
        <3>2. stack \in Seq(Frames) /\ depth \in [Generations -> Nat]
            BY <1>t DEF TunTypeOK
        <3>3. back.at # "core" /\ back.gen = Top.gen
            OBVIOUS
        <3>. HIDE DEF back
        <3>4. /\ mid \in Seq(Frames) /\ DOMAIN mid = DOMAIN stack
              /\ \A i \in DOMAIN stack : mid[i] = IF i = Len(stack) THEN back ELSE stack[i]
              /\ \A h : Locked(mid, h) = Locked(stack, h)
            BY <2>1, <2>2, <3>2, <3>3, LockedRetop DEF Top
        <3>. HIDE DEF mid
        <3>5. /\ stack' = Append(mid, inner) /\ stack' \in Seq(Frames)
              /\ DOMAIN stack' = 1..(Len(mid) + 1) /\ DOMAIN mid = 1..Len(mid) /\ Len(mid) \in Nat
              /\ \A i \in 1..Len(mid) : stack'[i] = mid[i]
              /\ stack'[Len(mid) + 1] = inner
            <4>1. stack' = Append(mid, inner)
                BY <2>2, <3>1, <3>4, AppendIsConcat
            <4>. QED  BY <2>2, <3>4, <4>1, AppendProperties, LenProperties
        <3>6. LockInv'
            <4>. SUFFICES ASSUME NEW h \in Generations
                          PROVE  depth'[h] = Cardinality(Locked(stack', h))
                BY DEF LockInv, Locked
            <4>1. depth[h] = Cardinality(Locked(stack, h))
                BY DEF TunInv, LockInv, Locked
            <4>2. Cardinality(Locked(stack', h)) =
                      Cardinality(Locked(mid, h)) + IF Holds(inner, h) THEN 1 ELSE 0
                BY <2>2, <3>4, <3>5, LockedPush
            <4>3. Holds(inner, h) <=> h = g
                BY DEF Holds
            <4>4. depth'[h] = depth[h] + IF h = g THEN 1 ELSE 0
                BY <2>1, <3>1, <3>2
            <4>. QED  BY <3>4, <4>1, <4>2, <4>3, <4>4
        <3>7. FrameInv'
            <4>1. \A i \in DOMAIN stack : Open(mid[i].gen)
                BY <1>s, <2>1, <3>3, <3>4 DEF TunInv, FrameInv
            <4>2. Open(inner.gen)
                BY <2>4
            <4>. HIDE DEF inner
            <4>. QED  BY <3>1, <3>4, <3>5, <4>1, <4>2 DEF FrameInv, Open
        <3>8. OrderInv'
            <4>1. /\ \A f \in Foreign, h \in Generations : <<f, h>> \in reported' => <<f, h>> \in reported
                  /\ \A h \in Generations : <<Io, h>> \in reported' => h \in connected'
                BY <2>1, <3>1 DEF TunInv, OrderInv
            <4>2. connected \subseteq connected'
                BY <3>1
            <4>. QED  BY <3>1, <4>1, <4>2 DEF TunInv, OrderInv
        <3>9. depth' \in [Generations -> Nat]
            BY <2>1, <3>1, <3>2
        <3>10. connected' \in SUBSET Generations /\ reported' \in SUBSET (Callers \X Generations)
            BY <1>t, <2>1, <3>1 DEF TunTypeOK, Callers
        <3>. QED  BY <1>t, <3>1, <3>5, <3>6, <3>7, <3>8, <3>9, <3>10 DEF TunInv, TunTypeOK
    <2>. QED  BY <2>3, <2>4
<1>4. CASE CoreReturns
    <2>. USE <1>4 DEF CoreReturns, On
    <2>1. \A g \in Generations : depth[g] = Cardinality(Locked(stack, g)) /\ depth[g] \in Nat
        BY <1>t DEF TunInv, LockInv, Locked, TunTypeOK
    <2>2. depth' \in [Generations -> Int]
        <3>1. depth \in [Generations -> Nat]
            BY <1>t DEF TunTypeOK
        <3>2. CASE Top.locked
            BY <1>s, <3>1, <3>2
        <3>3. CASE ~Top.locked
            BY <3>1, <3>3
        <3>. QED  BY <3>2, <3>3
    <2>3. \A g \in Generations : depth[g] = depth'[g] + IF Holds(Top, g) THEN 1 ELSE 0
        BY <1>s, <1>t DEF TunTypeOK, Holds
    <2>4. stack' \in Seq(Frames) /\ LockInv' /\ FrameInv'
        BY <2>2, <2>3, PopKeeps
    <2>5. depth' \in [Generations -> Nat]
        <3>1. \A g \in Generations : depth'[g] = Cardinality(Locked(stack', g))
            BY <2>4 DEF LockInv, Locked
        <3>2. \A g \in Generations : depth'[g] \in Nat
            BY <2>4, <3>1, LockedFinite
        <3>. QED  BY <2>2, <3>2
    <2>6. OrderInv'
        BY <1>u, OrderKept
    <2>. QED  BY <1>t, <2>4, <2>5, <2>6 DEF TunInv, TunTypeOK
<1>5. CASE ClosureTake
    <2>. DEFINE item == Head(queue)
                frame == [at |-> "core", gen |-> item.gen, locked |-> FALSE]
    <2>. USE <1>5 DEF ClosureTake
    <2>1. item \in Items /\ item.gen \in Generations
        <3>1. item \in Items
            BY <1>t, HeadTailProperties DEF TunTypeOK
        <3>. QED  BY <3>1 DEF Items
    <2>2. connected \subseteq connected' /\ connected' \in SUBSET Generations
        BY <1>t, <2>1 DEF TunTypeOK
    <2>3. item.call = "connected" /\ Open(item.gen) => item.gen \in connected'
        OBVIOUS
    <2>4. queue' \in Seq(Items) /\ OrderInv'
        BY <2>2, <2>3, OrderTaken
    <2>5. rejected' \in SUBSET Generations
        BY <1>t, <2>1 DEF TunTypeOK
    <2>6. stack' \in Seq(Frames) /\ LockInv' /\ FrameInv'
        <3>1. CASE ~Open(item.gen)
            <4>1. UNCHANGED <<client, depth, stack>>
                BY <3>1
            <4>. HIDE DEF ClosureTake
            <4>. QED  BY <1>t, <4>1 DEF TunTypeOK, TunInv, LockInv, FrameInv, Open
        <3>2. CASE Open(item.gen)
            <4>1. frame \in Frames /\ frame.gen = item.gen
                BY <2>1 DEF Frames
            <4>2. ~\E g : Holds(frame, g)
                BY DEF Holds
            <4>3. Push(frame) /\ client' = client /\ depth' = depth
                BY <3>2
            <4>. HIDE DEF frame, item, ClosureTake
            <4>4. \A g \in Generations : depth'[g] = depth[g] + IF Holds(frame, g) THEN 1 ELSE 0
                BY <1>t, <4>2, <4>3 DEF TunTypeOK
            <4>5. client'[frame.gen] \in {"new", "started", "stopped"}
                BY <3>2, <4>1, <4>3 DEF Open
            <4>. QED  BY <1>u, <4>1, <4>3, <4>4, <4>5, PushKeeps DEF Open
        <3>. QED  BY <3>1, <3>2
    <2>. QED  BY <1>t, <2>2, <2>4, <2>5, <2>6 DEF TunInv, TunTypeOK
<1>6. ASSUME NEW g \in Generations, NewTunClient(g)
      PROVE  TunInv'
    <2>. USE <1>6 DEF NewTunClient
    <2>1. LivesOn
        BY <1>t DEF LivesOn, TunTypeOK, Open
    <2>2. stack = <<>> /\ UNCHANGED <<stack, depth, queue, connected, reported>>
        OBVIOUS
    <2>3. LockInv' /\ FrameInv'
        <3>. HIDE DEF NewTunClient
        <3>. QED  BY <2>2 DEF TunInv, LockInv, FrameInv
    <2>4. OrderInv'
        BY <2>1, OrderKept
    <2>5. client' \in [Generations -> {"none", "new", "started", "stopped", "destroyed"}]
        BY <1>t DEF TunTypeOK
    <2>. QED  BY <1>t, <2>3, <2>4, <2>5 DEF TunInv, TunTypeOK
<1>7. ASSUME NEW g \in Generations, TunStart(g)
      PROVE  TunInv'
    <2>. DEFINE frame == [at |-> "callback", gen |-> g]
    <2>. USE <1>7 DEF TunStart, Open
    <2>1. frame \in Frames /\ frame.gen = g /\ ~\E h : Holds(frame, h)
        BY DEF Frames, Holds
    <2>2. /\ Push(frame) /\ UNCHANGED <<depth, queue, connected, reported>>
          /\ LivesOn /\ Open(g)'
        BY <1>t DEF LivesOn, TunTypeOK
    <2>. HIDE DEF frame, TunStart, Open
    <2>3. \A h \in Generations : depth'[h] = depth[h] + IF Holds(frame, h) THEN 1 ELSE 0
        BY <1>t, <2>1, <2>2 DEF TunTypeOK
    <2>4. stack' \in Seq(Frames) /\ LockInv' /\ FrameInv'
        BY <2>1, <2>2, <2>3, PushKeeps DEF Open
    <2>5. OrderInv'
        BY <2>2, OrderKept
    <2>6. client' \in [Generations -> {"none", "new", "started", "stopped", "destroyed"}]
        BY <1>t DEF TunTypeOK, TunStart
    <2>. QED  BY <1>t, <2>2, <2>4, <2>5, <2>6 DEF TunInv, TunTypeOK, TunStart
<1>8. ASSUME NEW g \in Generations, TunCallback(g)
      PROVE  TunInv'
    <2>. DEFINE frame == [at |-> "callback", gen |-> g]
    <2>. USE <1>8 DEF TunCallback, Open
    <2>1. frame \in Frames /\ frame.gen = g /\ ~\E h : Holds(frame, h)
        BY DEF Frames, Holds
    <2>2. /\ Push(frame) /\ UNCHANGED <<depth, queue, connected, reported>>
          /\ LivesOn /\ Open(g)'
        BY <1>t DEF LivesOn, TunTypeOK
    <2>. HIDE DEF frame, TunCallback, Open
    <2>3. \A h \in Generations : depth'[h] = depth[h] + IF Holds(frame, h) THEN 1 ELSE 0
        BY <1>t, <2>1, <2>2 DEF TunTypeOK
    <2>4. stack' \in Seq(Frames) /\ LockInv' /\ FrameInv'
        BY <2>1, <2>2, <2>3, PushKeeps DEF Open
    <2>5. OrderInv'
        BY <2>2, OrderKept
    <2>6. client' \in [Generations -> {"none", "new", "started", "stopped", "destroyed"}]
        BY <1>t DEF TunTypeOK, TunCallback
    <2>. QED  BY <1>t, <2>2, <2>4, <2>5, <2>6 DEF TunInv, TunTypeOK, TunCallback
<1>9. ASSUME NEW g \in Generations, DestroyTunClient(g)
      PROVE  TunInv'
    <2>. USE <1>9 DEF DestroyTunClient
    <2>1. LivesOn
        BY <1>t DEF LivesOn, TunTypeOK, Open
    <2>2. stack = <<>> /\ UNCHANGED <<stack, depth, queue, connected, reported>>
        OBVIOUS
    <2>3. LockInv' /\ FrameInv'
        <3>. HIDE DEF DestroyTunClient
        <3>. QED  BY <2>2 DEF TunInv, LockInv, FrameInv
    <2>4. OrderInv'
        BY <2>1, OrderKept
    <2>5. client' \in [Generations -> {"none", "new", "started", "stopped", "destroyed"}]
        BY <1>t DEF TunTypeOK
    <2>. QED  BY <1>t, <2>3, <2>4, <2>5 DEF TunInv, TunTypeOK
<1>10. ASSUME NEW g \in Generations, ServerData(g)
      PROVE  TunInv'
    <2>. DEFINE item == [call |-> "data", gen |-> g, after |-> FALSE]
    <2>. USE <1>10 DEF ServerData
    <2>1. item \in Items /\ item.gen = g /\ ~item.after
        BY DEF Items
    <2>2. UNCHANGED <<client, depth, stack, connected, reported>> /\ queue' = Append(queue, item) /\ Open(g)
        OBVIOUS
    <2>. HIDE DEF item, ServerData
    <2>3. queue' \in Seq(Items) /\ OrderInv'
        BY <2>1, <2>2, OrderAppended
    <2>4. LockInv' /\ FrameInv'
        BY <2>2 DEF TunInv, LockInv, FrameInv, Open
    <2>. QED  BY <1>t, <2>3, <2>4 DEF TunInv, TunTypeOK, ServerData
<1>11. ASSUME NEW g \in Generations, NEW join \in SUBSET Foreign, TunStop(g, join)
      PROVE  TunInv'
    <2>. DEFINE frame == [at |-> "stop", gen |-> g, join |-> join]
    <2>. USE <1>11 DEF TunStop, Open
    <2>1. frame \in Frames /\ frame.gen = g /\ ~\E h : Holds(frame, h)
        BY DEF Frames, Holds
    <2>2. /\ Push(frame) /\ UNCHANGED <<depth, queue, connected, reported>>
          /\ LivesOn /\ Open(g)'
        BY <1>t DEF LivesOn, TunTypeOK
    <2>. HIDE DEF frame, TunStop, Open
    <2>3. \A h \in Generations : depth'[h] = depth[h] + IF Holds(frame, h) THEN 1 ELSE 0
        BY <1>t, <2>1, <2>2 DEF TunTypeOK
    <2>4. stack' \in Seq(Frames) /\ LockInv' /\ FrameInv'
        BY <2>1, <2>2, <2>3, PushKeeps DEF Open
    <2>5. OrderInv'
        BY <2>2, OrderKept
    <2>6. client' \in [Generations -> {"none", "new", "started", "stopped", "destroyed"}]
        BY <1>t DEF TunTypeOK, TunStop
    <2>. QED  BY <1>t, <2>2, <2>4, <2>5, <2>6 DEF TunInv, TunTypeOK, TunStop
<1>12. ASSUME NEW g \in Generations, NEW call \in Calls, InlineCall(g, call)
      PROVE  TunInv'
    <2>. DEFINE frame == [at |-> "calling", gen |-> Top.gen, target |-> g, call |-> call]
    <2>. USE <1>12 DEF InlineCall, On
    <2>1. frame \in Frames /\ frame.gen = Top.gen /\ frame.at # "core"
        BY <1>s DEF Frames
    <2>2. /\ stack # <<>> /\ Top.at # "core" /\ Retop(frame)
          /\ UNCHANGED <<client, depth, queue, connected, reported>>
        OBVIOUS
    <2>3. sent' \in [Callers -> 0..MaxPosts]
        BY <1>t DEF TunTypeOK, Callers
    <2>. HIDE DEF frame, InlineCall
    <2>4. stack' \in Seq(Frames) /\ LockInv' /\ FrameInv'
        BY <2>1, <2>2, RetopKeeps
    <2>5. OrderInv'
        BY <1>u, <2>2, OrderKept
    <2>. QED  BY <1>t, <2>3, <2>4, <2>5 DEF TunInv, TunTypeOK, InlineCall
<1>13. ASSUME NEW f \in Foreign, HandOver(f)
      PROVE  TunInv'
    <2>. USE <1>13 DEF HandOver, On
    <2>1. UNCHANGED <<client, depth, queue, stack, connected, reported, rejected>>
        OBVIOUS
    <2>2. LockInv' /\ FrameInv'
        <3>. HIDE DEF HandOver, On
        <3>. QED  BY <2>1 DEF TunInv, LockInv, FrameInv, Open
    <2>3. OrderInv'
        BY <1>u, <2>1, OrderKept
    <2>4. TunTypeOK'
        BY <1>s, <1>t DEF TunTypeOK
    <2>. QED  BY <2>2, <2>3, <2>4 DEF TunInv
<1>14. ASSUME NEW f \in Foreign, PostLocked(f)
      PROVE  TunInv'
    <2>. DEFINE g == op[f].gen
                item == [call |-> op[f].call, gen |-> g, after |-> <<f, g>> \in reported]
    <2>. USE <1>14 DEF PostLocked
    <2>1. g \in Generations /\ op[f].call \in Calls
        BY <1>t DEF TunTypeOK, OpStates
    <2>2. op' \in [Foreign -> OpStates]
        BY <1>t DEF TunTypeOK, OpStates, OpIdle
    <2>3. LockInv' /\ FrameInv'
        <3>1. UNCHANGED <<client, depth, stack>>
            OBVIOUS
        <3>. HIDE DEF PostLocked
        <3>. QED  BY <3>1 DEF TunInv, LockInv, FrameInv, Open
    <2>4. CASE ~Open(g)
        <3>1. UNCHANGED <<client, depth, queue, stack, hold, sent, connected, reported, rejected>>
            BY <2>4
        <3>2. OrderInv'
            BY <1>u, <3>1, OrderKept
        <3>. QED  BY <1>t, <2>2, <2>3, <3>1, <3>2 DEF TunInv, TunTypeOK
    <2>5. CASE Open(g)
        <3>1. item \in Items /\ item.gen = g /\ item.call = op[f].call
              /\ item.after = (<<f, g>> \in reported)
            <4>1. \A c \in Calls, h \in Generations, b \in BOOLEAN :
                      [call |-> c, gen |-> h, after |-> b] \in Items
                BY DEF Items
            <4>2. (<<f, g>> \in reported) \in BOOLEAN
                OBVIOUS
            <4>. QED  BY <2>1, <4>1, <4>2, Zenon
        <3>2. /\ queue' = Append(queue, item)
              /\ reported' = IF item.call = "connected" THEN reported \cup {<<f, g>>} ELSE reported
              /\ UNCHANGED <<client, depth, stack, hold, sent, connected, rejected>>
            BY <2>5 DEF Accepted
        <3>3. reported' \in SUBSET (Callers \X Generations)
            BY <1>t, <2>1, <3>2 DEF TunTypeOK, Callers
        <3>. HIDE DEF item, PostLocked
        <3>4. \A e \in Foreign, h \in Generations : <<e, h>> \in reported' =>
                  \/ <<e, h>> \in reported
                  \/ item.call = "connected" /\ item.gen = h
            BY <3>1, <3>2
        <3>5. \A h \in Generations : <<Io, h>> \in reported' => <<Io, h>> \in reported
            BY <3>2
        <3>. HIDE DEF g
        <3>6. queue' \in Seq(Items) /\ OrderInv'
            BY <2>5, <3>1, <3>2, <3>4, <3>5, OrderAppended
        <3>. QED  BY <1>t, <2>2, <2>3, <3>2, <3>3, <3>6 DEF TunInv, TunTypeOK
    <2>. QED  BY <2>4, <2>5
<1>15. ASSUME NEW f \in Foreign, NEW g \in Generations, DropHandle(f, g)
      PROVE  TunInv'
    <2>. USE <1>15 DEF DropHandle
    <2>1. UNCHANGED <<client, depth, queue, stack, connected, reported, rejected>>
        OBVIOUS
    <2>2. LockInv' /\ FrameInv'
        <3>. HIDE DEF DropHandle
        <3>. QED  BY <2>1 DEF TunInv, LockInv, FrameInv, Open
    <2>3. OrderInv'
        BY <1>u, <2>1, OrderKept
    <2>4. TunTypeOK'
        BY <1>s, <1>t DEF TunTypeOK
    <2>. QED  BY <2>2, <2>3, <2>4 DEF TunInv
<1>16. ASSUME NEW f \in Foreign, NEW h \in Foreign, NEW g \in Generations, CloneHandle(f, h, g)
      PROVE  TunInv'
    <2>. USE <1>16 DEF CloneHandle
    <2>1. UNCHANGED <<client, depth, queue, stack, connected, reported, rejected>>
        OBVIOUS
    <2>2. LockInv' /\ FrameInv'
        <3>. HIDE DEF CloneHandle
        <3>. QED  BY <2>1 DEF TunInv, LockInv, FrameInv, Open
    <2>3. OrderInv'
        BY <1>u, <2>1, OrderKept
    <2>4. TunTypeOK'
        BY <1>s, <1>t DEF TunTypeOK
    <2>. QED  BY <2>2, <2>3, <2>4 DEF TunInv
<1>17. ASSUME NEW f \in Foreign, NEW g \in Generations, NEW call \in Calls, PostCall(f, g, call)
      PROVE  TunInv'
    <2>. USE <1>17 DEF PostCall
    <2>1. UNCHANGED <<client, depth, queue, stack, connected, reported, rejected>>
        OBVIOUS
    <2>2. LockInv' /\ FrameInv'
        <3>. HIDE DEF PostCall
        <3>. QED  BY <2>1 DEF TunInv, LockInv, FrameInv, Open
    <2>3. OrderInv'
        BY <1>u, <2>1, OrderKept
    <2>4. TunTypeOK'
        BY <1>s, <1>t DEF TunTypeOK, OpStates, Callers
    <2>. QED  BY <2>2, <2>3, <2>4 DEF TunInv
<1>18. CASE UNCHANGED vars
    BY <1>18 DEF vars, TunInv, TunTypeOK, LockInv, FrameInv, OrderInv, Open
<1>. QED
    BY <1>1, <1>2, <1>3, <1>4, <1>5, <1>6, <1>7, <1>8, <1>9, <1>10, <1>11, <1>12, <1>13,
       <1>14, <1>15, <1>16, <1>17, <1>18
    DEF TunNext, IoStep, IoCall, ForeignCall

(* For every set of threads and tunnels: the recursive mutex of a tunnel   *)
(* (bridge.cpp, ExternalTunState) is held exactly once for every inline    *)
(* call on the I/O thread's stack, so every lock is given back and the     *)
(* event loop never holds it; every frame belongs to a tunnel that exists; *)
(* and a thread's connected() stays ahead of what it queued later.         *)
THEOREM TunInvariant == TunSpec => []TunInv
BY TunInitInv, TunNextInv, PTL DEF TunSpec

(* "Dispatch preserves that ordering" (bridge.cpp:2244), for every number  *)
(* of threads, tunnels, reconnects and calls: no packet queued after its   *)
(* thread's connected(), and no packet of the server waiting behind an     *)
(* inline connected(), is refused as not connected.                        *)
THEOREM TunConnectedFirst == TunSpec => []ConnectedFirst
<1>1. TunInit => ConnectedFirst
    BY DEF TunInit, ConnectedFirst
<1>2. TunInv /\ ConnectedFirst /\ [TunNext]_vars => ConnectedFirst'
    <2>. SUFFICES ASSUME TunInv, ConnectedFirst, [TunNext]_vars PROVE ConnectedFirst'
        OBVIOUS
    <2>1. CASE ClosureTake
        <3>1. Open(Head(queue).gen) => ~Rejects(Head(queue))
            BY <2>1, NothingRejected DEF ClosureTake
        <3>. QED  BY <2>1, <3>1 DEF ClosureTake, ConnectedFirst
    <2>2. CASE ~ClosureTake
        <3>1. rejected' = rejected
            BY <2>2 DEF TunNext, IoStep, IoCall, ForeignCall, vars, CallbackReturns,
                TunStopReturns, InlineLocked, CoreReturns, NewTunClient, TunStart,
                TunCallback, DestroyTunClient, ServerData, TunStop, InlineCall, HandOver,
                PostLocked, DropHandle, CloneHandle, PostCall
        <3>. QED  BY <3>1 DEF ConnectedFirst
    <2>. QED  BY <2>1, <2>2
<1>. QED  BY <1>1, <1>2, TunInvariant, PTL DEF TunSpec
=============================================================================
