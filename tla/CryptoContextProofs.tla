------------------------ MODULE CryptoContextProofs --------------------------
(***************************************************************************)
(* The handles of the crypto contexts and the results made with them, for  *)
(* any number of contexts, keys, messages and handles.                     *)
(***************************************************************************)
EXTENDS CryptoContext, SequenceTheorems, TLAPS

-----------------------------------------------------------------------------
(* What a constructor returns.                                             *)

(* The tables hold the size of every key.                                  *)
LEMMA Sizes ==
    \A alg \in CipherSupported \cup AeadSupported : KeySizes[alg] \in Nat
BY DEF CipherSupported, AeadSupported, KeySizes

(* The key of a digest, which has none.                                    *)
LEMMA NoKeyType == NoKey \in KeyMaterial
BY DEF NoKey, KeyMaterial

(* The handle of an accepted algorithm and key, and what its caller then   *)
(* believes it holds.                                                      *)
LEMMA NewHandleType ==
    ASSUME NEW k \in Kinds, NEW alg \in Algorithms(k), NEW key \in KeysOf(k),
           NEW encrypt \in Directions(k), KeyAccepted(k, alg, key)
    PROVE  /\ NewHandle(k, alg, key, encrypt) \in Handles
           /\ Known(NewHandle(k, alg, key, encrypt)) \in Beliefs
<1>1. alg \in AllAlgorithms /\ (k \in {"cipher", "aead"} => alg \in CipherSupported \cup AeadSupported)
    BY DEF KeyAccepted, Supported, Kinds, AllAlgorithms
<1>2. key \in KeyMaterial
    BY CryptoAssumption, NoKeyType DEF KeysOf
<1>3. KeyKept(k, alg, key) \in KeyMaterial
    BY <1>1, <1>2, Sizes DEF KeyKept, KeyMaterial
<1>4. encrypt \in BOOLEAN
    BY DEF Directions
<1>5. "none" \in Ivs /\ << >> \in Seq(Messages) /\ << >> \in Seq(Inputs)
    BY DEF Ivs
<1>. QED  BY <1>1, <1>3, <1>4, <1>5 DEF NewHandle, Handles, Known, Beliefs

(* A context without a handle is believed to hold nothing.                 *)
LEMMA NothingKnown == Nothing \in Beliefs
BY NoKeyType DEF Nothing, Beliefs, Ivs

-----------------------------------------------------------------------------
(* A freed handle and its context.                                         *)

(* free() of the context's own handle leaves every other one as it was.    *)
LEMMA FreeHandle ==
    ASSUME CryptoTypeOK, NEW h \in 0..Len(heap)
    PROVE  /\ Free(h, heap) \in Seq(Handles \cup {Freed})
           /\ Len(Free(h, heap)) = Len(heap)
           /\ \A i \in 1..Len(heap) :
                 Free(h, heap)[i] = IF i = h THEN Freed ELSE heap[i]
<1>. DEFINE S == Handles \cup {Freed}
<1>1. heap \in Seq(S) /\ Freed \in S
    BY DEF CryptoTypeOK
<1>. HIDE DEF S
<1>2. CASE h = 0
    BY <1>1, <1>2 DEF Free, S
<1>3. CASE h # 0
    <2>1. h \in 1..Len(heap)
        BY <1>1, <1>3
    <2>2. Free(h, heap) = [heap EXCEPT ![h] = Freed]
        BY <1>3 DEF Free
    <2>3. /\ [heap EXCEPT ![h] = Freed] \in Seq(S) /\ Len([heap EXCEPT ![h] = Freed]) = Len(heap)
          /\ \A i \in 1..Len(heap) : [heap EXCEPT ![h] = Freed][i] = IF i = h THEN Freed ELSE heap[i]
        BY <1>1, <2>1, ExceptSeq
    <2>. QED  BY <2>2, <2>3 DEF S
<1>. QED  BY <1>2, <1>3

(* What a context has in use is a live handle of the heap.                 *)
LEMMA UsableHandle ==
    ASSUME CryptoTypeOK, HandlesOwned, NEW c \in Contexts, Usable(c)
    PROVE  handle[c] \in 1..Len(heap) /\ heap[handle[c]] \in Handles
<1>1. handle[c] \in 1..Len(heap)
    BY DEF CryptoTypeOK, Usable
<1>2. heap[handle[c]] \in Handles \cup {Freed} /\ heap[handle[c]].live
    BY <1>1, ElementOfSeq DEF CryptoTypeOK, HandlesOwned, Usable
<1>. QED  BY <1>1, <1>2 DEF Freed

(* Once the handle of one context is freed, the others have the rest.      *)
LEMMA FreedOwn ==
    ASSUME CryptoTypeOK, HandlesOwned, NEW c \in Contexts
    PROVE  LET hp == Free(handle[c], heap)
           IN  /\ hp \in Seq(Handles \cup {Freed}) /\ Len(hp) = Len(heap)
               /\ \A d \in Contexts \ {c} : handle[d] # 0 => hp[handle[d]] = heap[handle[d]]
               /\ \A i \in 1..Len(heap) :
                     hp[i].live => \E d \in Contexts \ {c} : handle[d] = i
<1>. DEFINE hp == Free(handle[c], heap)
<1>1. handle[c] \in 0..Len(heap) /\ \A d \in Contexts : handle[d] # 0 => handle[d] \in 1..Len(heap)
    BY DEF CryptoTypeOK
<1>2. /\ hp \in Seq(Handles \cup {Freed}) /\ Len(hp) = Len(heap)
      /\ \A i \in 1..Len(heap) : hp[i] = IF i = handle[c] THEN Freed ELSE heap[i]
    BY <1>1, FreeHandle
<1>. HIDE DEF hp
<1>3. \A d \in Contexts \ {c} : handle[d] # 0 => hp[handle[d]] = heap[handle[d]]
    BY <1>1, <1>2 DEF HandlesOwned
<1>4. ASSUME NEW i \in 1..Len(heap), hp[i].live PROVE \E d \in Contexts \ {c} : handle[d] = i
    <2>1. i # handle[c] /\ heap[i].live
        BY <1>2, <1>4 DEF Freed
    <2>2. PICK d \in Contexts : handle[d] = i
        BY <2>1 DEF HandlesOwned
    <2>. QED  BY <2>1, <2>2
<1>. QED  BY <1>2, <1>3, <1>4 DEF hp

-----------------------------------------------------------------------------
(* Every action keeps the heap, the handles and the beliefs in step.       *)

HeapInv ==
    /\ heap \in Seq(Handles \cup {Freed}) /\ Len(heap) <= MaxHandles
    /\ handle \in [Contexts -> 0..Len(heap)]
    /\ held \in [Contexts -> Beliefs]
    /\ HandlesOwned /\ HeldExact
WireInv == wire \subseteq Packets /\ \A v, w \in wire : v = w

(* The parts of the invariant.                                             *)
LEMMA CryptoParts == CryptoInv <=> kind \in Kinds /\ HeapInv /\ WireInv /\ ResultExact
BY DEF CryptoInv, CryptoTypeOK, CryptoExact, HeapInv, WireInv

(* One handle takes another value, and its callers believe it.             *)
LEMMA WriteHandle ==
    ASSUME CryptoInv, NEW c \in Contexts, Usable(c), NEW x \in Handles,
           heap' = [heap EXCEPT ![handle[c]] = x],
           held' = [held EXCEPT ![c] = Known(x)], handle' = handle
    PROVE  HeapInv'
<1>. DEFINE S == Handles \cup {Freed}
<1>1. CryptoTypeOK /\ HandlesOwned /\ HeldExact
    BY DEF CryptoInv, CryptoExact
<1>2. handle[c] \in 1..Len(heap) /\ heap \in Seq(S) /\ x \in S
    BY <1>1, UsableHandle DEF CryptoTypeOK
<1>3. /\ heap' \in Seq(S) /\ Len(heap') = Len(heap)
      /\ \A i \in 1..Len(heap) : heap'[i] = IF i = handle[c] THEN x ELSE heap[i]
    BY <1>2, ExceptSeq
<1>4. Known(x) \in Beliefs
    BY DEF Known, Beliefs, Handles
<1>5. held' \in [Contexts -> Beliefs] /\ held'[c] = Known(x) /\ \A d \in Contexts \ {c} : held'[d] = held[d]
    BY <1>1, <1>4 DEF CryptoTypeOK
<1>6. x.live
    BY DEF Handles
<1>7. \A d \in Contexts : handle[d] # 0 => handle[d] \in 1..Len(heap)
    BY <1>1 DEF CryptoTypeOK
<1>8. HandlesOwned'
    BY <1>1, <1>2, <1>3, <1>6, <1>7 DEF HandlesOwned
<1>9. HeldExact'
    <2>1. SUFFICES ASSUME NEW d \in Contexts, handle[d] # 0
                   PROVE  Known(heap'[handle[d]]) = held'[d]
        BY DEF HeldExact, Usable, Known
    <2>2. CASE d = c
        BY <1>2, <1>3, <1>5, <2>2
    <2>3. CASE d # c
        <3>1. heap'[handle[d]] = heap[handle[d]] /\ held'[d] = held[d]
            BY <1>1, <1>3, <1>5, <1>7, <2>1, <2>3 DEF HandlesOwned
        <3>. QED  BY <1>1, <2>1, <3>1 DEF HeldExact, Usable
    <2>. QED  BY <2>2, <2>3
<1>. QED  BY <1>1, <1>3, <1>5, <1>8, <1>9 DEF HeapInv, CryptoTypeOK

(* A context loses its handle and believes in nothing.                     *)
LEMMA DropHandle ==
    ASSUME CryptoInv, NEW c \in Contexts,
           heap' = Free(handle[c], heap), handle' = [handle EXCEPT ![c] = 0],
           held' = [held EXCEPT ![c] = Nothing]
    PROVE  HeapInv'
<1>1. CryptoTypeOK /\ HandlesOwned /\ HeldExact
    BY DEF CryptoInv, CryptoExact
<1>2. /\ heap' \in Seq(Handles \cup {Freed}) /\ Len(heap') = Len(heap)
      /\ \A d \in Contexts \ {c} : handle[d] # 0 => heap'[handle[d]] = heap[handle[d]]
      /\ \A i \in 1..Len(heap) : heap'[i].live => \E d \in Contexts \ {c} : handle[d] = i
    BY <1>1, FreedOwn
<1>3. /\ handle' \in [Contexts -> 0..Len(heap)] /\ held' \in [Contexts -> Beliefs]
      /\ handle'[c] = 0
      /\ \A d \in Contexts \ {c} : handle'[d] = handle[d] /\ held'[d] = held[d]
    BY <1>1, NothingKnown DEF CryptoTypeOK
<1>4. HandlesOwned'
    <2>1. \A d \in Contexts : handle'[d] # 0 => heap'[handle'[d]].live
        BY <1>1, <1>2, <1>3 DEF HandlesOwned
    <2>2. \A d, e \in Contexts : handle'[d] = handle'[e] /\ handle'[d] # 0 => d = e
        BY <1>1, <1>3 DEF HandlesOwned
    <2>3. \A i \in 1..Len(heap) : heap'[i].live => \E d \in Contexts : handle'[d] = i
        BY <1>2, <1>3
    <2>. QED  BY <1>2, <2>1, <2>2, <2>3 DEF HandlesOwned
<1>5. HeldExact'
    <2>1. SUFFICES ASSUME NEW d \in Contexts, handle'[d] # 0
                   PROVE  Known(heap'[handle'[d]]) = held'[d]
        BY DEF HeldExact, Usable, Known
    <2>2. heap'[handle'[d]] = heap[handle[d]] /\ held'[d] = held[d] /\ handle[d] # 0
        BY <1>2, <1>3, <2>1
    <2>. QED  BY <1>1, <2>2 DEF HeldExact, Usable
<1>. QED  BY <1>1, <1>2, <1>3, <1>4, <1>5 DEF HeapInv, CryptoTypeOK

(* init() replaces the handle of a context by a new one at the end of the  *)
(* heap.                                                                   *)
LEMMA FreshHandle ==
    ASSUME CryptoInv, NEW c \in Contexts, NEW x \in Handles, Len(heap) < MaxHandles,
           heap' = Append(Free(handle[c], heap), x),
           handle' = [handle EXCEPT ![c] = Len(heap) + 1],
           held' = [held EXCEPT ![c] = Known(x)]
    PROVE  HeapInv'
<1>. DEFINE S  == Handles \cup {Freed}
            hp == Free(handle[c], heap)
            n  == Len(heap)
<1>1. CryptoTypeOK /\ HandlesOwned /\ HeldExact
    BY DEF CryptoInv, CryptoExact
<1>2. /\ hp \in Seq(S) /\ Len(hp) = n
      /\ \A d \in Contexts \ {c} : handle[d] # 0 => hp[handle[d]] = heap[handle[d]]
      /\ \A i \in 1..n : hp[i].live => \E d \in Contexts \ {c} : handle[d] = i
    BY <1>1, FreedOwn
<1>3. n \in Nat /\ x \in S /\ x.live /\ n < MaxHandles
    <2>1. n \in Nat /\ x \in S /\ n < MaxHandles
        BY <1>1 DEF CryptoTypeOK
    <2>. QED  BY <2>1 DEF Handles
<1>4. heap' = Append(hp, x)
    OBVIOUS
<1>5. /\ handle \in [Contexts -> 0..n] /\ handle' = [handle EXCEPT ![c] = n + 1]
      /\ held \in [Contexts -> Beliefs]
    BY <1>1 DEF CryptoTypeOK
<1>6. Known(x) \in Beliefs
    BY DEF Known, Beliefs, Handles
<1>. HIDE DEF S, hp, n
<1>7. /\ heap' \in Seq(S) /\ Len(heap') = n + 1 /\ heap'[n + 1] = x
      /\ \A i \in 1..n : heap'[i] = hp[i]
    BY <1>2, <1>3, <1>4, AppendProperties
<1>8. /\ handle' \in [Contexts -> 0..(n + 1)] /\ held' \in [Contexts -> Beliefs]
      /\ handle'[c] = n + 1 /\ held'[c] = Known(x)
      /\ \A d \in Contexts \ {c} : handle'[d] = handle[d] /\ handle[d] \in 0..n /\ held'[d] = held[d]
    BY <1>3, <1>5, <1>6
<1>9. \A d \in Contexts \ {c} : handle[d] # 0 => heap'[handle[d]] = heap[handle[d]]
    BY <1>2, <1>7, <1>8
<1>10. HandlesOwned'
    <2>1. \A d \in Contexts : handle'[d] # 0 => heap'[handle'[d]].live
        BY <1>1, <1>3, <1>7, <1>8, <1>9 DEF HandlesOwned
    <2>2. \A d, e \in Contexts : handle'[d] = handle'[e] /\ handle'[d] # 0 => d = e
        BY <1>1, <1>3, <1>8 DEF HandlesOwned
    <2>3. \A i \in 1..(n + 1) : heap'[i].live => \E d \in Contexts : handle'[d] = i
        <3>1. SUFFICES ASSUME NEW i \in 1..(n + 1), heap'[i].live
                       PROVE  \E d \in Contexts : handle'[d] = i
            OBVIOUS
        <3>2. CASE i = n + 1
            BY <1>8, <3>2
        <3>3. CASE i # n + 1
            BY <1>2, <1>3, <1>7, <1>8, <3>1, <3>3
        <3>. QED  BY <3>2, <3>3
    <2>. QED  BY <1>7, <2>1, <2>2, <2>3 DEF HandlesOwned
<1>11. HeldExact'
    <2>1. SUFFICES ASSUME NEW d \in Contexts, handle'[d] # 0
                   PROVE  Known(heap'[handle'[d]]) = held'[d]
        BY DEF HeldExact, Usable, Known
    <2>2. CASE d = c
        BY <1>7, <1>8, <2>2
    <2>3. CASE d # c
        <3>1. heap'[handle'[d]] = heap[handle[d]] /\ held'[d] = held[d] /\ handle[d] # 0
            BY <1>8, <1>9, <2>1, <2>3
        <3>. QED  BY <1>1, <3>1 DEF HeldExact, Usable
    <2>. QED  BY <2>2, <2>3
<1>12. n + 1 <= MaxHandles
    BY <1>3, CryptoAssumption
<1>. QED  BY <1>7, <1>8, <1>10, <1>11, <1>12 DEF HeapInv, S

(* A move hands the handle over; that of the target is freed first.        *)
LEMMA HandleMoves ==
    ASSUME CryptoInv, NEW c \in Contexts, NEW d \in Contexts, MoveAssign(c, d)
    PROVE  HeapInv'
<1>1. CryptoTypeOK /\ HandlesOwned /\ HeldExact
    BY DEF CryptoInv, CryptoExact
<1>2. CASE c = d
    BY <1>2, DropHandle DEF MoveAssign, MoveHandle
<1>3. CASE c # d
    <2>1. /\ heap' \in Seq(Handles \cup {Freed}) /\ Len(heap') = Len(heap)
          /\ \A e \in Contexts \ {d} : handle[e] # 0 => heap'[handle[e]] = heap[handle[e]]
          /\ \A i \in 1..Len(heap) : heap'[i].live => \E e \in Contexts \ {d} : handle[e] = i
        BY <1>1, FreedOwn DEF MoveAssign
    <2>2. /\ handle' = [handle EXCEPT ![d] = handle[c], ![c] = 0]
          /\ held' = [held EXCEPT ![d] = held[c], ![c] = Nothing]
        BY <1>3 DEF MoveAssign, MoveHandle
    <2>3. /\ handle' \in [Contexts -> 0..Len(heap)] /\ held' \in [Contexts -> Beliefs]
          /\ handle'[c] = 0 /\ handle'[d] = handle[c] /\ held'[d] = held[c]
          /\ \A e \in Contexts \ {c, d} : handle'[e] = handle[e] /\ held'[e] = held[e]
        <3>1. /\ handle \in [Contexts -> 0..Len(heap)] /\ 0 \in 0..Len(heap)
              /\ held \in [Contexts -> Beliefs]
            BY <1>1 DEF CryptoTypeOK
        <3>2. /\ handle' \in [Contexts -> 0..Len(heap)] /\ handle'[c] = 0 /\ handle'[d] = handle[c]
              /\ \A e \in Contexts \ {c, d} : handle'[e] = handle[e]
            BY <1>3, <2>2, <3>1
        <3>3. /\ held' \in [Contexts -> Beliefs] /\ held'[d] = held[c]
              /\ \A e \in Contexts \ {c, d} : held'[e] = held[e]
            BY <1>3, <2>2, <3>1, NothingKnown
        <3>. QED  BY <3>2, <3>3
    <2>4. HandlesOwned'
        <3>1. \A e \in Contexts : handle'[e] # 0 => heap'[handle'[e]].live
            BY <1>1, <1>3, <2>1, <2>3 DEF HandlesOwned
        <3>2. \A e, f \in Contexts : handle'[e] = handle'[f] /\ handle'[e] # 0 => e = f
            BY <1>1, <1>3, <2>3 DEF HandlesOwned
        <3>3. \A i \in 1..Len(heap) : heap'[i].live => \E e \in Contexts : handle'[e] = i
            BY <1>3, <2>1, <2>3
        <3>. QED  BY <2>1, <3>1, <3>2, <3>3 DEF HandlesOwned
    <2>5. HeldExact'
        <3>1. SUFFICES ASSUME NEW e \in Contexts, handle'[e] # 0
                       PROVE  Known(heap'[handle'[e]]) = held'[e]
            BY DEF HeldExact, Usable, Known
        <3>2. PICK f \in Contexts : f # d /\ handle'[e] = handle[f] /\ held'[e] = held[f]
            BY <1>3, <2>3, <3>1
        <3>3. handle[f] # 0 /\ heap'[handle[f]] = heap[handle[f]]
            BY <2>1, <3>1, <3>2
        <3>. QED  BY <1>1, <3>2, <3>3 DEF HeldExact, Usable
    <2>. QED  BY <1>1, <2>1, <2>3, <2>4, <2>5 DEF HeapInv, CryptoTypeOK
<1>. QED  BY <1>2, <1>3

-----------------------------------------------------------------------------
(* The steps.                                                              *)

(* A handle and the belief about it change together.                       *)
LEMMA KnownUpdate ==
    ASSUME NEW h \in Handles, NEW d \in Seq(Inputs), h.encrypt => d \in Seq(Messages),
           NEW x, x = [h EXCEPT !.data = d]
    PROVE  x \in Handles /\ Known(x) = [Known(h) EXCEPT !.data = d]
<1>1. x \in Handles
    BY DEF Handles
<1>2. x.alg = h.alg /\ x.key = h.key /\ x.encrypt = h.encrypt /\ x.iv = h.iv /\ x.data = d
    BY DEF Handles
<1>. QED  BY <1>1, <1>2 DEF Known

(* init().                                                                 *)
LEMMA InitContextKeeps ==
    ASSUME CryptoInv, NEW c \in Contexts, NEW alg \in Algorithms(kind),
           NEW key \in KeysOf(kind), NEW encrypt \in Directions(kind),
           InitContext(c, alg, key, encrypt)
    PROVE  HeapInv'
<1>1. CASE KeyAccepted(kind, alg, key)
    <2>. DEFINE x == NewHandle(kind, alg, key, encrypt)
    <2>1. x \in Handles
        BY <1>1, NewHandleType DEF CryptoInv, CryptoTypeOK
    <2>2. Known(x) = [alg |-> alg, key |-> KeyKept(kind, alg, key), encrypt |-> encrypt,
                      iv |-> "none", data |-> << >>]
        BY DEF Known, NewHandle
    <2>3. /\ Len(heap) < MaxHandles /\ heap' = Append(Free(handle[c], heap), x)
          /\ handle' = [handle EXCEPT ![c] = Len(heap) + 1]
          /\ held' = [held EXCEPT ![c] = Known(x)]
        BY <1>1, <2>2 DEF InitContext
    <2>. HIDE DEF x
    <2>. QED  BY <2>1, <2>3, FreshHandle
<1>2. CASE ~KeyAccepted(kind, alg, key)
    BY <1>2, DropHandle DEF InitContext
<1>. QED  BY <1>1, <1>2

(* reset() and update().                                                   *)
LEMMA InputKeeps ==
    ASSUME CryptoInv, NEW c \in Contexts, Usable(c), NEW i \in Ivs, NEW d \in Seq(Inputs),
           heap[handle[c]].encrypt => d \in Seq(Messages), handle' = handle,
           \/ /\ heap' = [heap EXCEPT ![handle[c]] = [heap[handle[c]] EXCEPT !.iv = i, !.data = d]]
              /\ held' = [held EXCEPT ![c].iv = i, ![c].data = d]
           \/ /\ heap' = [heap EXCEPT ![handle[c]].data = d]
              /\ held' = [held EXCEPT ![c].data = d]
    PROVE  HeapInv'
<1>. DEFINE h == heap[handle[c]]
<1>1. /\ h \in Handles /\ Known(h) = held[c] /\ held \in [Contexts -> Beliefs]
      /\ h.encrypt => d \in Seq(Messages)
    BY UsableHandle DEF CryptoInv, CryptoTypeOK, CryptoExact, HeldExact
<1>2. CASE /\ heap' = [heap EXCEPT ![handle[c]] = [h EXCEPT !.iv = i, !.data = d]]
           /\ held' = [held EXCEPT ![c].iv = i, ![c].data = d]
    <2>. DEFINE x == [h EXCEPT !.iv = i, !.data = d]
    <2>1. held' = [held EXCEPT ![c] = [held[c] EXCEPT !.iv = i, !.data = d]]
        BY <1>1, <1>2
    <2>2. x \in Handles /\ Known(x) = [Known(h) EXCEPT !.iv = i, !.data = d]
        <3>. DEFINE r == [Known(h) EXCEPT !.iv = i]
        <3>. HIDE DEF h
        <3>1. x \in Handles
            BY <1>1 DEF Handles
        <3>2. x.alg = h.alg /\ x.key = h.key /\ x.encrypt = h.encrypt /\ x.iv = i /\ x.data = d
            BY <1>1 DEF Handles
        <3>3. r = [alg |-> h.alg, key |-> h.key, encrypt |-> h.encrypt, iv |-> i, data |-> h.data]
            BY DEF Known
        <3>4. [Known(h) EXCEPT !.iv = i, !.data = d] = [r EXCEPT !.data = d]
            OBVIOUS
        <3>. HIDE DEF r, x
        <3>5. [r EXCEPT !.data = d] =
                 [alg |-> h.alg, key |-> h.key, encrypt |-> h.encrypt, iv |-> i, data |-> d]
            BY <3>3
        <3>6. Known(x) = [alg |-> h.alg, key |-> h.key, encrypt |-> h.encrypt, iv |-> i, data |-> d]
            BY <3>2 DEF Known
        <3>. QED  BY <3>1, <3>4, <3>5, <3>6
    <2>3. held' = [held EXCEPT ![c] = Known(x)]
        BY <1>1, <2>1, <2>2
    <2>. HIDE DEF x, h
    <2>. QED  BY <1>2, <2>2, <2>3, WriteHandle DEF x
<1>3. CASE /\ heap' = [heap EXCEPT ![handle[c]].data = d]
           /\ held' = [held EXCEPT ![c].data = d]
    <2>. DEFINE x == [h EXCEPT !.data = d]
    <2>1. heap' = [heap EXCEPT ![handle[c]] = x] /\ held' = [held EXCEPT ![c] = [held[c] EXCEPT !.data = d]]
        BY <1>1, <1>3
    <2>2. x \in Handles /\ Known(x) = [Known(h) EXCEPT !.data = d]
        <3>1. x = [h EXCEPT !.data = d]
            OBVIOUS
        <3>. HIDE DEF h, x
        <3>. QED  BY <1>1, <3>1, KnownUpdate
    <2>3. held' = [held EXCEPT ![c] = Known(x)]
        BY <1>1, <2>1, <2>2
    <2>. HIDE DEF x, h
    <2>. QED  BY <2>1, <2>2, <2>3, WriteHandle
<1>. QED  BY <1>2, <1>3

(* Each of them.                                                           *)
LEMMA ResetKeeps ==
    ASSUME CryptoInv, NEW c \in Contexts, NEW iv \in Nonces, NEW short \in BOOLEAN,
           Reset(c, iv, short)
    PROVE  HeapInv'
<1>. DEFINE i == IF kind = "cipher" THEN iv ELSE "none"
<1>1. /\ i \in Ivs /\ << >> \in Seq(Messages) /\ << >> \in Seq(Inputs)
      /\ Usable(c) /\ handle' = handle
    BY DEF Ivs, Reset
<1>2. CASE UNCHANGED <<heap, held>>
    BY <1>1, <1>2, CryptoParts DEF HeapInv, HandlesOwned, HeldExact, Usable, Known
<1>3. CASE ~UNCHANGED <<heap, held>>
    <2>1. /\ heap' = [heap EXCEPT ![handle[c]] = ResetHandle(heap[handle[c]], i)]
          /\ held' = [held EXCEPT ![c].iv = i, ![c].data = << >>]
        BY <1>3 DEF Reset, CryptoInv, CryptoTypeOK
    <2>. HIDE DEF i
    <2>. QED  BY <1>1, <2>1, InputKeeps DEF ResetHandle
<1>. QED  BY <1>2, <1>3

(* update() collects a message, or a packet to decrypt, in its handle.     *)
LEMMA UpdateKeeps ==
    ASSUME CryptoInv, NEW c \in Contexts, NEW input \in {<< >>} \cup {<<m>> : m \in InputsOf(c)},
           Update(c, input)
    PROVE  HeapInv'
<1>. DEFINE h == heap[handle[c]]
            d == h.data \o input
<1>1. /\ h \in Handles /\ Known(h) = held[c] /\ held \in [Contexts -> Beliefs]
      /\ Usable(c) /\ handle' = handle /\ wire \subseteq Packets
    BY UsableHandle DEF CryptoInv, CryptoTypeOK, CryptoExact, HeldExact, Update
<1>2. /\ h.data = held[c].data /\ h.encrypt = held[c].encrypt /\ h.data \in Seq(Inputs)
      /\ h.encrypt => h.data \in Seq(Messages)
    <2>1. Known(h).data = h.data /\ Known(h).encrypt = h.encrypt
        BY DEF Known
    <2>2. h.data \in Seq(Inputs) /\ (h.encrypt => h.data \in Seq(Messages))
        BY <1>1 DEF Handles
    <2>. QED  BY <1>1, <2>1, <2>2
<1>3. input \in Seq(Inputs) /\ (h.encrypt => input \in Seq(Messages))
    <2>1. InputsOf(c) \subseteq Inputs /\ (h.encrypt => InputsOf(c) = Messages)
        BY <1>1, <1>2 DEF InputsOf, Inputs
    <2>2. CASE input = << >>
        BY <2>2
    <2>3. ASSUME NEW m \in InputsOf(c), input = <<m>>
          PROVE  input \in Seq(Inputs) /\ (h.encrypt => input \in Seq(Messages))
        <3>1. m \in Inputs /\ (h.encrypt => m \in Messages)
            BY <2>1
        <3>. HIDE DEF h
        <3>. QED  BY <2>3, <3>1
    <2>. QED  BY <2>2, <2>3
<1>4. heap' = [heap EXCEPT ![handle[c]].data = d] /\ held' = [held EXCEPT ![c].data = d]
    <2>1. heap' = [heap EXCEPT ![handle[c]].data = @ \o input]
        BY DEF Update
    <2>2. held' = [held EXCEPT ![c].data = @ \o input]
        BY DEF Update
    <2>3. held' = [held EXCEPT ![c].data = held[c].data \o input]
        BY <2>2
    <2>. QED  BY <1>2, <2>1, <2>3
<1>5. "none" \in Ivs
    BY DEF Ivs
<1>6. d \in Seq(Inputs) /\ (h.encrypt => d \in Seq(Messages))
    BY <1>2, <1>3, ConcatProperties
<1>. HIDE DEF d
<1>. QED  BY <1>1, <1>4, <1>5, <1>6, InputKeeps

(* The invariant speaks of each variable apart.                            *)
LEMMA HeapStays ==
    ASSUME HeapInv, UNCHANGED <<handle, heap, held>>
    PROVE  HeapInv'
BY DEF HeapInv, HandlesOwned, HeldExact, Usable, Known

(* No step but final() and the AEAD operations touches the last result.    *)
LEMMA ResultStays ==
    ASSUME ResultExact, UNCHANGED result
    PROVE  ResultExact'
BY DEF ResultExact, OnePacket, SameKey

(* What final() uses is what the callers gave: the code, the ciphertext    *)
(* and the direction.                                                      *)
LEMMA EncryptExact ==
    ASSUME CryptoInv, NEW c \in Contexts, Usable(c), NEW iv \in Ivs, NEW d \in Seq(Messages),
           heap[handle[c]].encrypt, NEW op \in {"encrypt", "seal"},
           op = "encrypt" => iv = heap[handle[c]].iv /\ d = heap[handle[c]].data,
           wire' = {Packet(heap[handle[c]], iv, d)},
           result' = Success(op, c, Packet(heap[handle[c]], iv, d))
    PROVE  WireInv' /\ ResultExact'
<1>. DEFINE h == heap[handle[c]]
            w == Packet(h, iv, d)
<1>1. h \in Handles /\ Known(h) = held[c] /\ h.encrypt
    BY UsableHandle DEF CryptoInv, CryptoExact, HeldExact
<1>2. op = "encrypt" => iv = h.iv /\ d = h.data
    OBVIOUS
<1>3. wire' = {w} /\ result' = Success(op, c, w)
    OBVIOUS
<1>. HIDE DEF h
<1>4. w \in Packets /\ w.alg = h.alg /\ w.key = h.key /\ w.iv = iv /\ w.data = d
    BY <1>1 DEF Packet, Packets, Handles
<1>5. /\ held[c].encrypt = h.encrypt /\ held[c].key = h.key /\ held[c].alg = h.alg
      /\ held[c].iv = h.iv /\ held[c].data = h.data
    <2>1. /\ Known(h).encrypt = h.encrypt /\ Known(h).key = h.key /\ Known(h).alg = h.alg
          /\ Known(h).iv = h.iv /\ Known(h).data = h.data
        BY DEF Known
    <2>. QED  BY <1>1, <2>1
<1>. HIDE DEF w
<1>6. WireInv'
    BY <1>3, <1>4 DEF WireInv
<1>7. result'.op = op /\ result'.of = held[c] /\ result'.value = w
    BY <1>3 DEF Success
<1>8. /\ result'.of.encrypt
      /\ result'.value.alg = result'.of.alg /\ result'.value.key = result'.of.key
      /\ op = "encrypt" => result'.value.iv = result'.of.iv /\ result'.value.data = result'.of.data
    BY <1>1, <1>2, <1>4, <1>5, <1>7
<1>. QED  BY <1>6, <1>7, <1>8 DEF ResultExact, OnePacket, SameKey

(* A call that fails says so, and that is all it says.                     *)
LEMMA FailureExact ==
    ASSUME NEW c \in Contexts, NEW op \in {"encrypt", "seal", "unusable"}, result' = Failure(op, c)
    PROVE  ResultExact'
<1>1. result'.op = op /\ result'.ok = FALSE
    BY DEF Failure
<1>. QED  BY <1>1 DEF ResultExact

(* final() of a digest or HMAC context is over exactly the input given.    *)
LEMMA MacExact ==
    ASSUME CryptoInv, NEW c \in Contexts, FinalMac(c)
    PROVE  ResultExact'
<1>1. Known(heap[handle[c]]) = held[c]
    BY DEF CryptoInv, CryptoExact, HeldExact, FinalMac
<1>2. result' = Success("mac", c, held[c])
    BY <1>1 DEF FinalMac
<1>3. result'.op = "mac" /\ result'.of = held[c] /\ result'.value = held[c]
    BY <1>2 DEF Success
<1>. QED  BY <1>3 DEF ResultExact

(* A packet opens for the receiving side of its key and nonce, and for     *)
(* nobody else.                                                            *)
LEMMA OpenExact ==
    ASSUME CryptoInv, NEW c \in Contexts, NEW nonce \in Nonces, Open(c, nonce)
    PROVE  ResultExact'
<1>. DEFINE h == heap[handle[c]]
<1>1. h \in Handles /\ Known(h) = held[c]
    BY UsableHandle DEF CryptoInv, CryptoExact, HeldExact, Open
<1>2. PICK w \in wire : result' = Opened(c, w, nonce, Opens(h, w, nonce))
    BY DEF Open
<1>. HIDE DEF h
<1>3. held[c].encrypt = h.encrypt /\ held[c].key = h.key /\ held[c].alg = h.alg
    <2>1. Known(h).encrypt = h.encrypt /\ Known(h).key = h.key /\ Known(h).alg = h.alg
        BY DEF Known
    <2>. QED  BY <1>1, <2>1
<1>4. /\ result'.op = "open" /\ result'.of = held[c] /\ result'.packet = w
      /\ result'.nonce = nonce /\ result'.ok = Opens(h, w, nonce)
    BY <1>2 DEF Opened
<1>5. Opens(h, w, nonce) <=> /\ ~held[c].encrypt /\ w.intact /\ SameKey(held[c], w, nonce)
    BY <1>3, Zenon DEF Opens, SameKey
<1>. QED  BY <1>4, <1>5 DEF ResultExact, OnePacket, SameKey

(* What was encrypted comes back to whoever has the key and the IV, and    *)
(* nothing without an IV or without input.                                 *)
LEMMA DecryptExact ==
    ASSUME CryptoInv, NEW c \in Contexts, FinalDecrypt(c)
    PROVE  ResultExact'
<1>. DEFINE h  == heap[handle[c]]
            of == held[c]
            plain == h.data[1].data
<1>1. Known(h) = of
    BY DEF CryptoInv, CryptoExact, HeldExact, FinalDecrypt
<1>2. \/ OnePacket(h) /\ result' = Decrypted(c, plain # << >>, plain)
      \/ /\ ~OnePacket(h) /\ h.iv # "none" /\ h.data # << >>
         /\ result' = Decrypted(c, TRUE, Noise)
      \/ ~OnePacket(h) /\ result' = Decrypted(c, FALSE, << >>)
    BY DEF FinalDecrypt
<1>. HIDE DEF h
<1>3. of.key = h.key /\ of.alg = h.alg /\ of.iv = h.iv /\ of.data = h.data
    <2>1. Known(h).key = h.key /\ Known(h).alg = h.alg /\ Known(h).iv = h.iv /\ Known(h).data = h.data
        BY DEF Known
    <2>. QED  BY <1>1, <2>1
<1>4. OnePacket(of) <=> OnePacket(h)
    BY <1>3 DEF OnePacket, SameKey
<1>5. result'.op = "decrypt" /\ result'.of = of
    BY <1>2 DEF Decrypted
<1>. HIDE DEF of, plain
<1>6. CASE OnePacket(h)
    <2>1. result' = Decrypted(c, plain # << >>, plain)
        BY <1>2, <1>6
    <2>2. result'.ok = (plain # << >>) /\ result'.value = plain
        BY <2>1 DEF Decrypted
    <2>3. (result'.ok <=> plain # << >>) /\ (result'.ok => result'.value = plain)
        BY <2>2, Zenon
    <2>4. of.data[1].data = plain
        BY <1>3 DEF plain
    <2>. QED  BY <1>4, <1>5, <1>6, <2>3, <2>4 DEF ResultExact, OnePacket, SameKey
<1>7. CASE ~OnePacket(h)
    <2>1. result'.ok => of.iv # "none" /\ of.data # << >>
        BY <1>2, <1>3, <1>7 DEF Decrypted
    <2>. QED  BY <1>4, <1>5, <1>7, <2>1 DEF ResultExact, OnePacket, SameKey
<1>. QED  BY <1>6, <1>7

-----------------------------------------------------------------------------
(* No context has a handle, and there is no result.                        *)
LEMMA CryptoInitInv == CryptoInit => CryptoInv
<1>1. SUFFICES ASSUME CryptoInit PROVE CryptoInv
    OBVIOUS
<1>2. heap = << >> /\ heap \in Seq(Handles \cup {Freed}) /\ Len(heap) = 0
    BY <1>1 DEF CryptoInit
<1>3. handle \in [Contexts -> 0..0] /\ \A c \in Contexts : handle[c] = 0
    BY <1>1 DEF CryptoInit
<1>4. held \in [Contexts -> Beliefs]
    BY <1>1, NothingKnown DEF CryptoInit
<1>5. HandlesOwned /\ HeldExact
    BY <1>2, <1>3 DEF HandlesOwned, HeldExact, Usable
<1>6. HeapInv
    BY <1>2, <1>3, <1>4, <1>5, CryptoAssumption DEF HeapInv
<1>7. ResultExact
    BY <1>1 DEF CryptoInit, NoResult, ResultExact
<1>8. kind \in Kinds /\ WireInv
    BY <1>1 DEF CryptoInit, WireInv
<1>. QED  BY <1>6, <1>7, <1>8, CryptoParts

(* One step per action, the heap, the packet on the wire and the last      *)
(* result each in turn.                                                    *)
LEMMA CryptoNextInv == CryptoInv /\ CryptoNext => CryptoInv'
<1>1. SUFFICES ASSUME CryptoInv, CryptoNext PROVE CryptoInv'
    OBVIOUS
<1>2. kind \in Kinds /\ HeapInv /\ WireInv /\ ResultExact
    BY <1>1, CryptoParts
<1>3. SUFFICES kind' = kind /\ HeapInv' /\ WireInv' /\ ResultExact'
    BY <1>2, CryptoParts DEF CryptoInv, CryptoTypeOK, CryptoExact, HeapInv, WireInv
<1>4. ASSUME UNCHANGED wire PROVE WireInv'
    BY <1>2, <1>4 DEF WireInv
<1>5. ASSUME NEW c \in Contexts, NEW alg \in Algorithms(kind), NEW key \in KeysOf(kind),
             NEW encrypt \in Directions(kind), InitContext(c, alg, key, encrypt)
      PROVE  kind' = kind /\ HeapInv' /\ WireInv' /\ ResultExact'
    <2>1. UNCHANGED <<kind, wire, result>>
        BY <1>5 DEF InitContext
    <2>. QED  BY <1>1, <1>2, <1>4, <1>5, <2>1, InitContextKeeps, ResultStays
<1>6. ASSUME NEW c \in Contexts, NEW d \in Contexts, MoveAssign(c, d)
      PROVE  kind' = kind /\ HeapInv' /\ WireInv' /\ ResultExact'
    <2>1. UNCHANGED <<kind, wire, result>>
        BY <1>6 DEF MoveAssign
    <2>. QED  BY <1>1, <1>2, <1>4, <1>6, <2>1, HandleMoves, ResultStays
<1>7. ASSUME NEW c \in Contexts, NEW iv \in Nonces, NEW short \in BOOLEAN, Reset(c, iv, short)
      PROVE  kind' = kind /\ HeapInv' /\ WireInv' /\ ResultExact'
    <2>1. UNCHANGED <<kind, wire, result>>
        BY <1>7 DEF Reset
    <2>. QED  BY <1>1, <1>2, <1>4, <1>7, <2>1, ResetKeeps, ResultStays
<1>8. ASSUME NEW c \in Contexts, NEW input \in {<< >>} \cup {<<m>> : m \in InputsOf(c)},
             Update(c, input)
      PROVE  kind' = kind /\ HeapInv' /\ WireInv' /\ ResultExact'
    <2>1. UNCHANGED <<kind, wire, result>>
        BY <1>8 DEF Update
    <2>. QED  BY <1>1, <1>2, <1>4, <1>8, <2>1, UpdateKeeps, ResultStays
<1>9. ASSUME NEW c \in Contexts, DestroyContext(c)
      PROVE  kind' = kind /\ HeapInv' /\ WireInv' /\ ResultExact'
    <2>1. UNCHANGED <<kind, wire, result>>
        BY <1>9 DEF DestroyContext
    <2>2. HeapInv'
        BY <1>1, <1>9, DropHandle DEF DestroyContext
    <2>. QED  BY <1>2, <1>4, <2>1, <2>2, ResultStays
<1>10. ASSUME NEW c \in Contexts, CallUnusable(c)
       PROVE  kind' = kind /\ HeapInv' /\ WireInv' /\ ResultExact'
    <2>1. UNCHANGED <<kind, handle, heap, held, wire>> /\ result' = Failure("unusable", c)
        BY <1>10 DEF CallUnusable
    <2>. QED  BY <1>2, <1>4, <2>1, HeapStays, FailureExact
<1>11. ASSUME NEW c \in Contexts, FinalMac(c)
       PROVE  kind' = kind /\ HeapInv' /\ WireInv' /\ ResultExact'
    <2>1. UNCHANGED <<kind, handle, heap, held, wire>>
        BY <1>11 DEF FinalMac
    <2>. QED  BY <1>1, <1>2, <1>4, <1>11, <2>1, HeapStays, MacExact
<1>12. ASSUME NEW c \in Contexts, FinalEncrypt(c)
       PROVE  kind' = kind /\ HeapInv' /\ WireInv' /\ ResultExact'
    <2>. DEFINE h == heap[handle[c]]
    <2>1. UNCHANGED <<kind, handle, heap, held>> /\ Usable(c) /\ h.encrypt
        BY <1>12 DEF FinalEncrypt
    <2>2. h.iv \in Ivs /\ h.data \in Seq(Messages)
        <3>1. h \in Handles
            BY <1>1, <2>1, UsableHandle DEF CryptoInv
        <3>2. h.iv \in Ivs /\ (h.encrypt => h.data \in Seq(Messages))
            BY <3>1 DEF Handles
        <3>. QED  BY <2>1, <3>2
    <2>3. \/ result' = Failure("encrypt", c) /\ UNCHANGED wire
          \/ wire' = {Packet(h, h.iv, h.data)} /\ result' = Success("encrypt", c, Packet(h, h.iv, h.data))
        BY <1>12 DEF FinalEncrypt
    <2>4. HeapInv' /\ kind' = kind
        BY <1>2, <2>1, HeapStays
    <2>5. CASE result' = Failure("encrypt", c) /\ UNCHANGED wire
        BY <1>4, <2>4, <2>5, FailureExact
    <2>6. CASE /\ wire' = {Packet(h, h.iv, h.data)}
               /\ result' = Success("encrypt", c, Packet(h, h.iv, h.data))
        BY <1>1, <2>1, <2>2, <2>4, <2>6, EncryptExact
    <2>. QED  BY <2>3, <2>5, <2>6
<1>13. ASSUME NEW c \in Contexts, FinalDecrypt(c)
       PROVE  kind' = kind /\ HeapInv' /\ WireInv' /\ ResultExact'
    <2>1. UNCHANGED <<kind, handle, heap, held, wire>>
        BY <1>13 DEF FinalDecrypt
    <2>. QED  BY <1>1, <1>2, <1>4, <1>13, <2>1, HeapStays, DecryptExact
<1>14. ASSUME NEW c \in Contexts, NEW nonce \in Nonces, Open(c, nonce)
       PROVE  kind' = kind /\ HeapInv' /\ WireInv' /\ ResultExact'
    <2>1. UNCHANGED <<kind, handle, heap, held, wire>>
        BY <1>14 DEF Open
    <2>. QED  BY <1>1, <1>2, <1>4, <1>14, <2>1, HeapStays, OpenExact
<1>15. ASSUME NEW c \in Contexts, NEW m \in Messages, NEW nonce \in Nonces, Seal(c, m, nonce)
       PROVE  kind' = kind /\ HeapInv' /\ WireInv' /\ ResultExact'
    <2>. DEFINE h == heap[handle[c]]
    <2>1. UNCHANGED <<kind, handle, heap, held>> /\ Usable(c)
        BY <1>15 DEF Seal
    <2>2. nonce \in Ivs /\ <<m>> \in Seq(Messages)
        BY DEF Ivs
    <2>3. HeapInv' /\ kind' = kind
        BY <1>2, <2>1, HeapStays
    <2>4. CASE ~h.encrypt
        <3>1. result' = Failure("seal", c) /\ UNCHANGED wire
            BY <1>15, <2>4 DEF Seal
        <3>. QED  BY <1>4, <2>3, <3>1, FailureExact
    <2>5. CASE h.encrypt
        <3>1. /\ wire' = {Packet(h, nonce, <<m>>)}
              /\ result' = Success("seal", c, Packet(h, nonce, <<m>>))
            BY <1>15, <2>5 DEF Seal
        <3>. QED  BY <1>1, <2>1, <2>2, <2>3, <2>5, <3>1, EncryptExact
    <2>. QED  BY <2>4, <2>5
<1>16. ASSUME Tamper PROVE kind' = kind /\ HeapInv' /\ WireInv' /\ ResultExact'
    <2>1. UNCHANGED <<kind, handle, heap, held, result>>
        BY <1>16 DEF Tamper
    <2>2. wire' = {[w EXCEPT !.intact = FALSE] : w \in wire}
        BY <1>16 DEF Tamper
    <2>3. \A w \in wire : [w EXCEPT !.intact = FALSE] \in Packets
        BY <1>2 DEF WireInv, Packets
    <2>4. WireInv'
        BY <1>2, <2>2, <2>3 DEF WireInv
    <2>. QED  BY <1>2, <2>1, <2>4, HeapStays, ResultStays
<1>. QED  BY <1>1, <1>5, <1>6, <1>7, <1>8, <1>9, <1>10, <1>11, <1>12, <1>13, <1>14, <1>15, <1>16
          DEF CryptoNext
=============================================================================
