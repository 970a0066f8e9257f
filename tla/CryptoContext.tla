--------------------------- MODULE CryptoContext ----------------------------
(***************************************************************************)
(* The cipher, AEAD, digest and HMAC contexts of                           *)
(* openvpn-connect-sys/src/rust_crypto.hpp and the handles behind them in  *)
(* openvpn-connect-sys/src/rust_backend/crypto.rs.  A context owns at most *)
(* one handle: init() frees the old one before it asks for a new one, a    *)
(* move takes it from its source, the destructor frees it.  A handle only  *)
(* collects its input; the work is done at final().                        *)
(*                                                                         *)
(* A key or an IV is known by its name and its length; a message by its    *)
(* name, and a call of length zero brings none.  What a primitive computes *)
(* is a term: two results are equal exactly when everything that went into *)
(* them is.  The primitives are the environment, and so is Core, *)
(* which calls the contexts of one data channel from one thread.           *)
(***************************************************************************)
EXTENDS Integers, Sequences

CONSTANTS
    Contexts,   \* contexts of one kind
    Keys,       \* key material: records of a name and a length
    Messages,   \* messages, none of them empty
    Nonces,     \* initialisation vectors and nonces
    MaxHandles, \* bound on the handles ever created
    MaxUpdates  \* bound on the messages collected between two resets

KeyMaterial == [name : {k.name : k \in Keys} \cup {"none"}, length : Nat]
ASSUME CryptoAssumption ==
    MaxHandles \in Nat /\ MaxUpdates \in Nat /\ Keys \subseteq KeyMaterial

VARIABLES
    kind,    \* which class of contexts this behaviour follows
    handle,  \* handle_ of each context: 0 is a null pointer
    heap,    \* the handles created so far, freed or not
    held,    \* what the callers of a context believe it holds
    wire,    \* the last ciphertext produced
    result   \* the last result handed to a caller
cryptoVars == <<kind, handle, heap, held, wire, result>>

Kinds == {"cipher", "aead", "digest", "hmac"}

(* One algorithm of each shape, the sizes being those of the tables of     *)
(* crypto.rs; MD_UNKNOWN is in none of them.                               *)
KeySizes == [AES_128_CBC |-> 16, AES_256_CTR |-> 32, AES_128_GCM |-> 16,
             CHACHA20_POLY1305 |-> 32]
Digests == {"SHA256"}
CipherSupported == {"AES_128_CBC", "AES_256_CTR"}
AeadSupported == {"AES_128_GCM", "CHACHA20_POLY1305"}
Supported == [cipher |-> CipherSupported, aead |-> AeadSupported,
              digest |-> Digests, hmac |-> Digests]

Unsupported == "MD_UNKNOWN"
Algorithms(k) == Supported[k] \cup {Unsupported}

NoKey == [name |-> "none", length |-> 0]
KeysOf(k) == IF k = "digest" THEN {NoKey} ELSE Keys
Directions(k) == IF k \in {"cipher", "aead"} THEN BOOLEAN ELSE {FALSE}

-----------------------------------------------------------------------------
(* The constructors: a handle keeps exactly the key bytes its algorithm    *)
(* uses; an unknown algorithm or a short key gives a null pointer.         *)

KeyAccepted(k, alg, key) ==
    alg \in Supported[k] /\ (k \in {"cipher", "aead"} => key.length >= KeySizes[alg])

KeyKept(k, alg, key) ==
    IF k \in {"cipher", "aead"} THEN [key EXCEPT !.length = KeySizes[alg]] ELSE key

NewHandle(k, alg, key, encrypt) ==
    [live |-> TRUE, alg |-> alg, key |-> KeyKept(k, alg, key), encrypt |-> encrypt,
     iv |-> "none", data |-> << >>]

Nothing == [alg |-> Unsupported, key |-> NoKey, encrypt |-> FALSE, iv |-> "none",
            data |-> << >>]
Freed == [live |-> FALSE]

Free(h, hs) == IF h = 0 THEN hs ELSE [hs EXCEPT ![h] = Freed]

(* init() throws when it gets no handle, and the context then has none.    *)
InitContext(c, alg, key, encrypt) ==
    /\ Len(heap) < MaxHandles
    /\ LET erased == Free(handle[c], heap)
           fresh  == NewHandle(kind, alg, key, encrypt)
       IN  IF KeyAccepted(kind, alg, key)
             THEN /\ heap' = Append(erased, fresh)
                  /\ handle' = [handle EXCEPT ![c] = Len(heap) + 1]
                  /\ held' = [held EXCEPT ![c] =
                         [alg |-> alg, key |-> KeyKept(kind, alg, key),
                          encrypt |-> encrypt, iv |-> "none", data |-> << >>]]
             ELSE /\ heap' = erased
                  /\ handle' = [handle EXCEPT ![c] = 0]
                  /\ held' = [held EXCEPT ![c] = Nothing]
    /\ UNCHANGED <<kind, wire, result>>

(* CipherContextAEAD is the only movable context.                          *)
(* A move that forgets to clear its source.                                *)
MoveKeepsSource(c, d) == handle' = [handle EXCEPT ![d] = handle[c]]
MoveHandle(c, d) ==
    handle' = IF c = d THEN [handle EXCEPT ![d] = 0]
                       ELSE [handle EXCEPT ![d] = handle[c], ![c] = 0]

MoveAssign(c, d) ==
    /\ kind = "aead"
    /\ heap' = Free(handle[d], heap)
    /\ MoveHandle(c, d)
    /\ held' = IF c = d THEN [held EXCEPT ![c] = Nothing]
                        ELSE [held EXCEPT ![d] = held[c], ![c] = Nothing]
    /\ UNCHANGED <<kind, wire, result>>

DestroyContext(c) ==
    /\ handle[c] # 0
    /\ heap' = Free(handle[c], heap)
    /\ handle' = [handle EXCEPT ![c] = 0]
    /\ held' = [held EXCEPT ![c] = Nothing]
    /\ UNCHANGED <<kind, wire, result>>

-----------------------------------------------------------------------------
(* Collecting the input.  A short IV is refused and changes nothing.       *)

Usable(c) == handle[c] # 0
(* A reset that keeps the input collected before it.                       *)
ResetKeepsData(h, iv) == [h EXCEPT !.iv = iv]
ResetHandle(h, iv) == [h EXCEPT !.iv = iv, !.data = << >>]

Reset(c, iv, short) ==
    /\ kind \in {"cipher", "hmac"} /\ Usable(c)
    /\ IF kind = "cipher" /\ short
         THEN UNCHANGED <<heap, held>>
         ELSE /\ heap' = [heap EXCEPT ![handle[c]] =
                             ResetHandle(@, IF kind = "cipher" THEN iv ELSE "none")]
              /\ held' = [held EXCEPT ![c].iv = IF kind = "cipher" THEN iv ELSE "none",
                                      ![c].data = << >>]
    /\ UNCHANGED <<kind, handle, wire, result>>

(* A context that decrypts is given the packet received, any other one     *)
(* messages; either may be of length zero.                                 *)
InputsOf(c) == IF kind = "cipher" /\ ~held[c].encrypt THEN wire ELSE Messages
Update(c, input) ==
    /\ kind # "aead" /\ Usable(c) /\ Len(held[c].data) < MaxUpdates
    /\ heap' = [heap EXCEPT ![handle[c]].data = @ \o input]
    /\ held' = [held EXCEPT ![c].data = @ \o input]
    /\ UNCHANGED <<kind, handle, wire, result>>

-----------------------------------------------------------------------------
(* The results.  A length of zero is how final() learns of a failure, so   *)
(* an empty result is one too.  A result remembers what its context was    *)
(* believed to hold; final() leaves it as it is.                           *)

Known(h) == [alg |-> h.alg, key |-> h.key, encrypt |-> h.encrypt, iv |-> h.iv,
             data |-> h.data]

NoResult == [op |-> "none", ok |-> FALSE]
Failure(op, c) == [op |-> op, ok |-> FALSE, of |-> held[c]]
Success(op, c, value) == [op |-> op, ok |-> TRUE, of |-> held[c], value |-> value]
Decrypted(c, ok, value) == [op |-> "decrypt", ok |-> ok, of |-> held[c], value |-> value]
Opened(c, w, nonce, ok) ==
    [op |-> "open", ok |-> ok, of |-> held[c], packet |-> w, nonce |-> nonce]

(* Every call on a null handle fails, and nothing else happens.            *)
CallUnusable(c) ==
    /\ ~Usable(c)
    /\ result' = Failure("unusable", c)
    /\ UNCHANGED <<kind, handle, heap, held, wire>>

FinalMac(c) ==
    /\ kind \in {"digest", "hmac"} /\ Usable(c)
    /\ result' = Success("mac", c, Known(heap[handle[c]]))
    /\ UNCHANGED <<kind, handle, heap, held, wire>>

Packet(h, iv, data) == [alg |-> h.alg, key |-> h.key, iv |-> iv, data |-> data, intact |-> TRUE]
SameKey(h, w, iv) == w.alg = h.alg /\ w.key = h.key /\ w.iv = iv

(* A cipher needs its IV; CBC always adds a block, CTR keeps the length.   *)
Stream(alg) == alg = "AES_256_CTR"
FinalEncrypt(c) ==
    LET h == heap[handle[c]] IN
    /\ kind = "cipher" /\ Usable(c) /\ h.encrypt
    /\ IF h.iv = "none" \/ (Stream(h.alg) /\ h.data = << >>)
         THEN result' = Failure("encrypt", c) /\ UNCHANGED wire
         ELSE /\ wire' = {Packet(h, h.iv, h.data)}
              /\ result' = Success("encrypt", c, Packet(h, h.iv, h.data))
    /\ UNCHANGED <<kind, handle, heap, held>>

(* With another key or IV, or more input than one packet, a block cipher   *)
(* finds bad padding or gives noise, a stream cipher always noise.         *)
Noise == <<"noise">>
OnePacket(h) == Len(h.data) = 1 /\ SameKey(h, h.data[1], h.iv)
FinalDecrypt(c) ==
    LET h     == heap[handle[c]]
        ready == h.iv # "none" /\ h.data # << >>
    IN  /\ kind = "cipher" /\ Usable(c) /\ ~h.encrypt
        /\ \/ /\ OnePacket(h)
              /\ result' = Decrypted(c, h.data[1].data # << >>, h.data[1].data)
           \/ ~OnePacket(h) /\ ready /\ result' = Decrypted(c, TRUE, Noise)
           \/ /\ ~OnePacket(h) /\ ~(ready /\ Stream(h.alg))
              /\ result' = Decrypted(c, FALSE, << >>)
        /\ UNCHANGED <<kind, handle, heap, held, wire>>

(* AEAD works on a whole packet; the direction of the handle is checked.   *)
Seal(c, m, nonce) ==
    LET h == heap[handle[c]] IN
    /\ kind = "aead" /\ Usable(c)
    /\ IF ~h.encrypt THEN result' = Failure("seal", c) /\ UNCHANGED wire
       ELSE /\ wire' = {Packet(h, nonce, <<m>>)}
            /\ result' = Success("seal", c, Packet(h, nonce, <<m>>))
    /\ UNCHANGED <<kind, handle, heap, held>>

Opens(h, w, nonce) == ~h.encrypt /\ w.intact /\ SameKey(h, w, nonce)

Open(c, nonce) ==
    /\ kind = "aead" /\ Usable(c)
    /\ \E w \in wire :
         result' = Opened(c, w, nonce, Opens(heap[handle[c]], w, nonce))
    /\ UNCHANGED <<kind, handle, heap, held, wire>>

(* The network.                                                            *)
Tamper ==
    /\ kind = "aead" /\ \E w \in wire : w.intact
    /\ wire' = {[w EXCEPT !.intact = FALSE] : w \in wire}
    /\ UNCHANGED <<kind, handle, heap, held, result>>

-----------------------------------------------------------------------------
CryptoInit ==
    /\ kind \in Kinds
    /\ handle = [c \in Contexts |-> 0]
    /\ heap = << >>
    /\ held = [c \in Contexts |-> Nothing]
    /\ wire = {}
    /\ result = NoResult

CryptoNext ==
    \/ \E c \in Contexts, alg \in Algorithms(kind), key \in KeysOf(kind), encrypt \in Directions(kind) :
          InitContext(c, alg, key, encrypt)
    \/ \E c, d \in Contexts : MoveAssign(c, d)
    \/ \E c \in Contexts, iv \in Nonces, short \in BOOLEAN : Reset(c, iv, short)
    \/ \E c \in Contexts : \E input \in {<< >>} \cup {<<m>> : m \in InputsOf(c)} : Update(c, input)
    \/ \E c \in Contexts : DestroyContext(c) \/ CallUnusable(c)
    \/ \E c \in Contexts : FinalMac(c) \/ FinalEncrypt(c) \/ FinalDecrypt(c)
    \/ \E c \in Contexts, iv \in Nonces : Open(c, iv)
    \/ \E c \in Contexts, m \in Messages, nonce \in Nonces : Seal(c, m, nonce)
    \/ Tamper

-----------------------------------------------------------------------------
AllAlgorithms == CipherSupported \cup AeadSupported \cup Digests
Ivs == Nonces \cup {"none"}
Packets == [alg : AllAlgorithms, key : KeyMaterial, iv : Ivs, data : Seq(Messages),
            intact : BOOLEAN]
Inputs == Messages \cup Packets
Handles == {h \in [live : {TRUE}, alg : AllAlgorithms, key : KeyMaterial, encrypt : BOOLEAN,
                   iv : Ivs, data : Seq(Inputs)] : h.encrypt => h.data \in Seq(Messages)}
Beliefs == [alg : AllAlgorithms \cup {Unsupported}, key : KeyMaterial, encrypt : BOOLEAN,
            iv : Ivs, data : Seq(Inputs)]

CryptoTypeOK ==
    /\ kind \in Kinds
    /\ heap \in Seq(Handles \cup {Freed}) /\ Len(heap) <= MaxHandles
    /\ handle \in [Contexts -> 0..Len(heap)]
    /\ held \in [Contexts -> Beliefs]
    /\ wire \subseteq Packets /\ \A v, w \in wire : v = w

(* Who owns a handle, through init(), moves and destructors: a context     *)
(* points at a live handle, two contexts never at the same one, and every  *)
(* live handle has its context, so each is freed once and none is lost.    *)
HandlesOwned ==
    /\ \A c \in Contexts : handle[c] # 0 => heap[handle[c]].live
    /\ \A c, d \in Contexts : handle[c] = handle[d] /\ handle[c] # 0 => c = d
    /\ \A h \in 1..Len(heap) : heap[h].live => \E c \in Contexts : handle[c] = h

(* A handle holds what its callers believe: the key and the direction of   *)
(* the last init() that succeeded, the IV of the last reset() and the      *)
(* input since it.                                                         *)
HeldExact == \A c \in Contexts : Usable(c) => Known(heap[handle[c]]) = held[c]

(* The last result is right for what its context was believed to hold.     *)
ResultExact ==
    /\ result.op = "mac" => result.value = result.of
    /\ result.op = "encrypt" /\ result.ok =>
          /\ result.of.encrypt /\ SameKey(result.of, result.value, result.of.iv)
          /\ result.value.data = result.of.data
    /\ result.op = "seal" /\ result.ok =>
          /\ result.of.encrypt
          /\ result.value.alg = result.of.alg /\ result.value.key = result.of.key
    /\ result.op = "open" =>
          (result.ok <=> /\ ~result.of.encrypt /\ result.packet.intact
                         /\ SameKey(result.of, result.packet, result.nonce))
    /\ result.op = "decrypt" /\ OnePacket(result.of) =>
          /\ result.ok <=> result.of.data[1].data # << >>
          /\ result.ok => result.value = result.of.data[1].data
    /\ result.op = "decrypt" /\ ~OnePacket(result.of) /\ result.ok =>
          result.of.iv # "none" /\ result.of.data # << >>
    /\ result.op = "unusable" => ~result.ok

(* Every result is made with what the caller gave this context last: the   *)
(* key and the direction of the last init() that succeeded, nothing after  *)
(* one that failed, the IV of the last reset() and the input since it.  So *)
(* a code is over exactly that input; a packet opens for the receiving     *)
(* side with the sender's algorithm, key and nonce, untouched, and for     *)
(* nobody else; a cipher gives back what was encrypted, and fails on the   *)
(* encryption of nothing, without an IV and without input (cipher_final of *)
(* crypto.rs).                                                             *)
CryptoExact == HeldExact /\ ResultExact

(* The three together are inductive: a result is right because the handle  *)
(* holds what was believed, and it does because no other context can reach *)
(* the handle.                                                             *)
CryptoInv == CryptoTypeOK /\ HandlesOwned /\ CryptoExact
=============================================================================
