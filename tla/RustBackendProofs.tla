------------------------- MODULE RustBackendProofs ---------------------------
(***************************************************************************)
(* The Rust backend as a whole: what a handshake trusts, what a crypto     *)
(* context holds and what a lookup answers, for any set of profiles,       *)
(* servers, contexts and resolver threads.                                 *)
(***************************************************************************)
EXTENDS MCRustBackend, CryptoContextProofs, FiniteSetTheorems, TLAPS

-----------------------------------------------------------------------------
(* The resolver.                                                           *)

(* The addresses of a host are its own, in their order; the buffer takes   *)
(* the first of them.                                                      *)
LEMMA AddressesType ==
    ASSUME NEW host \in Hosts, NEW n \in Nat
    PROVE  /\ Addresses(host, n) \in Seq(Hosts \X Nat) /\ Len(Addresses(host, n)) = n
           /\ \A i \in 1..n : Addresses(host, n)[i] = <<host, i>>
BY DEF Addresses

(* What RustResolver reports of an answer of n addresses.                  *)
LEMMA ResolvedAnswer ==
    ASSUME NEW host \in Hosts, NEW n \in Nat
    PROVE  \E k \in Nat :
              /\ Resolved(host, Addresses(host, n)) = Answered(host, n > 0, Addresses(host, k))
              /\ k <= Capacity /\ (n > 0 => k > 0) /\ (n = 1 => k = 1)
<1>. DEFINE k == IF n < Capacity THEN n ELSE Capacity
            a == Addresses(host, n)
            x == SubSeq(a, 1, k)
            y == Addresses(host, k)
            S == Hosts \X Nat
<1>1. k \in Nat /\ k <= n /\ k <= Capacity /\ (n > 0 => k > 0) /\ (n = 1 => k = 1)
    BY ResolverAssumption
<1>2. a \in Seq(S) /\ Len(a) = n /\ \A i \in 1..n : a[i] = <<host, i>>
    BY AddressesType
<1>3. y \in Seq(S) /\ Len(y) = k /\ \A i \in 1..k : y[i] = <<host, i>>
    BY <1>1, AddressesType
<1>4. Truncated(a) = x
    BY <1>2 DEF Truncated
<1>. HIDE DEF k, a, y, S
<1>5. \A i \in 1..k : a[i] \in S
    BY <1>1, <1>2, ElementOfSeq
<1>6. /\ x \in Seq(S) /\ Len(x) = k /\ \A i \in 1..k : x[i] = a[i]
    BY <1>1, <1>5, SubSeqProperties
<1>. HIDE DEF x
<1>7. x = y
    <2>1. \A i \in 1..k : x[i] = y[i]
        <3>1. SUFFICES ASSUME NEW i \in 1..k PROVE x[i] = y[i]
            OBVIOUS
        <3>2. i \in 1..n
            BY <1>1
        <3>3. x[i] = a[i] /\ a[i] = <<host, i>>
            BY <1>2, <1>6, <3>2, Zenon
        <3>4. y[i] = <<host, i>>
            BY <1>3, Zenon
        <3>. QED  BY <3>3, <3>4, Zenon
    <2>. QED  BY <1>3, <1>6, <2>1, SeqEqual
<1>8. (a # << >>) = (n > 0)
    BY <1>2, EmptySeq
<1>9. Resolved(host, a) = Answered(host, n > 0, y)
    BY <1>4, <1>7, <1>8 DEF Resolved
<1>. QED  BY <1>1, <1>9 DEF a, y

(* Such an answer has the type of one and says what LookupsAnswered asks.  *)
AnswerExact(l) ==
    /\ l.host \in Literals => l.ok /\ l.addresses = << <<l.host, 1>> >>
    /\ l.ok => Len(l.addresses) \in 1..Capacity
    /\ l.addresses = Addresses(l.host, Len(l.addresses))

(* A lookup that ended, well or not.                                       *)
LEMMA AnswersExact ==
    ASSUME NEW host \in Hosts, NEW n \in Nat, NEW l,
           \/ l = Resolved(host, Addresses(host, n)) /\ (host \in Literals => n = 1)
           \/ l = NotFound(host) /\ host \notin Literals
    PROVE  l \in Answers /\ l.at = "answered" /\ AnswerExact(l)
<1>1. CASE l = Resolved(host, Addresses(host, n)) /\ (host \in Literals => n = 1)
    <2>1. PICK k \in Nat :
             /\ l = Answered(host, n > 0, Addresses(host, k))
             /\ k <= Capacity /\ (n > 0 => k > 0) /\ (n = 1 => k = 1)
        BY <1>1, ResolvedAnswer
    <2>2. /\ l.at = "answered" /\ l.host = host /\ l.ok = (n > 0) /\ l.addresses = Addresses(host, k)
          /\ l = [at |-> "answered", host |-> host, ok |-> (n > 0), addresses |-> Addresses(host, k)]
        BY <2>1 DEF Answered
    <2>. DEFINE some == n > 0
    <2>3. l.ok <=> n > 0
        <3>1. l.ok = some
            BY <2>2
        <3>. HIDE DEF some
        <3>2. l.ok <=> some
            BY <3>1
        <3>. QED  BY <3>2 DEF some
    <2>4. Addresses(host, k) \in Seq(Hosts \X Nat) /\ Len(Addresses(host, k)) = k
        BY AddressesType
    <2>5. l \in Answers
        BY <2>2, <2>4 DEF Answers
    <2>6. l.ok => Len(l.addresses) \in 1..Capacity
        BY <2>1, <2>2, <2>4, <2>3, ResolverAssumption
    <2>7. ASSUME host \in Literals PROVE l.ok /\ l.addresses = << <<host, 1>> >>
        <3>1. n = 1 /\ k = 1
            BY <1>1, <2>1, <2>7
        <3>2. Addresses(host, 1) = << <<host, 1>> >>
            BY DEF Addresses
        <3>. QED  BY <2>2, <2>3, <3>1, <3>2
    <2>. QED  BY <2>2, <2>4, <2>5, <2>6, <2>7 DEF AnswerExact
<1>2. CASE l = NotFound(host) /\ host \notin Literals
    <2>1. /\ l.at = "answered" /\ l.host = host /\ l.ok = FALSE /\ l.addresses = << >>
          /\ l = [at |-> "answered", host |-> host, ok |-> FALSE, addresses |-> << >>]
        BY <1>2 DEF NotFound, Answered
    <2>2. l \in Answers
        BY <2>1 DEF Answers
    <2>3. Addresses(host, 0) = << >> /\ Len(<< >>) = 0
        BY DEF Addresses
    <2>. QED  BY <1>2, <2>1, <2>2, <2>3 DEF AnswerExact
<1>. QED  BY <1>1, <1>2

(* One builder and nothing built, or no builder and one runtime at most.   *)
LEMMA OneBuilder ==
    ASSUME NEW B, NEW b \in 0..1, \A t, u \in B : t = u, B # {} => b = 0
    PROVE  Cardinality(B) + b <= 1
<1>1. CASE B = {}
    BY <1>1, FS_EmptySet
<1>2. CASE B # {}
    <2>1. PICK t \in B : TRUE
        BY <1>2
    <2>2. B = {t}
        BY <2>1
    <2>3. Cardinality({t}) = 1
        BY FS_Singleton
    <2>. QED  BY <1>2, <2>2, <2>3
<1>. QED  BY <1>1, <1>2

(* A pending lookup in another place.                                      *)
LEMMA Placed ==
    ASSUME NEW r \in Pending, NEW at \in {"runtime", "building"}
    PROVE  [r EXCEPT !.at = at] = [at |-> at, host |-> r.host]
<1>1. r = [at |-> r.at, host |-> r.host]
    BY DEF Pending
<1>. QED  BY <1>1

(* The parts of the invariant that the steps keep; the rest follows.       *)
AllExact == \A t \in Threads : lookup[t].at = "answered" => AnswerExact(lookup[t])
ResolverCore == ResolverTypeOK /\ RuntimeInv /\ AllExact

(* Once the runtime has one builder, it is built once.                     *)
LEMMA CoreSuffices == ResolverCore => ResolverInv
<1>1. SUFFICES ASSUME ResolverCore PROVE LookupsAnswered
    BY DEF ResolverCore, ResolverInv
<1>. DEFINE B == {t \in Threads : lookup[t].at = "building"}
<1>2. built \in 0..1 /\ (\A t, u \in B : t = u) /\ (B # {} => built = 0)
    BY <1>1 DEF ResolverCore, ResolverTypeOK, RuntimeInv
<1>3. runtime = "failed" => \A t \in Threads : lookup[t].at # "waiting"
    BY <1>1 DEF ResolverCore, RuntimeInv
<1>. HIDE DEF B
<1>4. Cardinality(B) + built <= 1
    BY <1>2, OneBuilder
<1>. QED  BY <1>1, <1>3, <1>4 DEF LookupsAnswered, ResolverCore, AllExact, AnswerExact, B

(* The converse, for the state before a step.                              *)
LEMMA CoreHolds == ResolverInv => ResolverCore
BY DEF ResolverCore, ResolverInv, LookupsAnswered, AllExact, AnswerExact

(* A thread moves on: its new place is one it may be in, and nobody else   *)
(* moves.                                                                  *)
LEMMA ThreadMoves ==
    ASSUME ResolverCore, NEW t \in Threads, NEW x \in {Idle} \cup Pending \cup Answers \cup Refusals,
           lookup' = [lookup EXCEPT ![t] = x], x.at = "answered" => AnswerExact(x)
    PROVE  /\ lookup' \in [Threads -> {Idle} \cup Pending \cup Answers \cup Refusals] /\ lookup'[t] = x
           /\ \A u \in Threads \ {t} : lookup'[u] = lookup[u]
           /\ AllExact'
<1>1. /\ lookup' \in [Threads -> {Idle} \cup Pending \cup Answers \cup Refusals] /\ lookup'[t] = x
      /\ \A u \in Threads \ {t} : lookup'[u] = lookup[u]
    BY DEF ResolverCore, ResolverTypeOK
<1>2. \A u \in Threads : lookup'[u].at = "answered" => AnswerExact(lookup'[u])
    BY <1>1 DEF ResolverCore, AllExact
<1>. QED  BY <1>1, <1>2 DEF AllExact, AnswerExact

(* A thread that neither builds nor starts to, and waits only for a        *)
(* runtime that is there.                                                  *)
LEMMA RuntimeKept ==
    ASSUME ResolverCore, NEW t \in Threads, UNCHANGED <<runtime, built>>,
           lookup[t].at # "building", lookup'[t].at # "building",
           lookup'[t].at = "waiting" => runtime = "ready",
           \A u \in Threads \ {t} : lookup'[u] = lookup[u]
    PROVE  RuntimeInv'
BY DEF ResolverCore, RuntimeInv

(* Nobody has asked for a name yet.                                        *)
LEMMA ResolverInitInv == ResolverInit => ResolverInv
<1>1. SUFFICES ASSUME ResolverInit PROVE ResolverCore
    BY CoreSuffices
<1>2. ResolverTypeOK
    BY <1>1 DEF ResolverInit, ResolverTypeOK
<1>3. \A t \in Threads : lookup[t].at = "idle"
    BY <1>1 DEF ResolverInit, Idle
<1>4. RuntimeInv /\ AllExact
    BY <1>1, <1>3 DEF ResolverInit, RuntimeInv, AllExact
<1>. QED  BY <1>2, <1>4 DEF ResolverCore

(* One step per action.                                                    *)
LEMMA ResolverNextCore == ResolverInv /\ ResolverNext => ResolverCore'
<1>1. SUFFICES ASSUME ResolverInv, ResolverNext PROVE ResolverCore'
    OBVIOUS
<1>2. ResolverCore
    BY <1>1, CoreHolds
<1>. DEFINE L == {Idle} \cup Pending \cup Answers \cup Refusals
<1>3. /\ installed \in 0..1 /\ built \in 0..1 /\ lookup \in [Threads -> L]
      /\ runtime \in {"unset", "building", "ready", "failed"}
    BY <1>2 DEF ResolverCore, ResolverTypeOK
<1>4. \A t \in Threads : lookup[t].at \in {"runtime", "building", "waiting"} =>
         /\ lookup[t].host \in Hosts \ Literals /\ lookup[t] \in Pending
         /\ lookup[t] = [at |-> lookup[t].at, host |-> lookup[t].host]
    BY <1>3 DEF Pending, Answers, Refusals, Idle
<1>5. CASE Install
    BY <1>2, <1>5 DEF Install, InstallOnce, ResolverCore, ResolverTypeOK, RuntimeInv, AllExact,
                      AnswerExact
<1>6. ASSUME NEW t \in Threads, NEW host \in Hosts, NEW isPort \in BOOLEAN,
             Resolve(t, host, isPort)
      PROVE  ResolverCore'
    <2>. DEFINE x == IF ~isPort THEN InvalidArgument(host)
                     ELSE IF host \in Literals THEN Resolved(host, Addresses(host, 1))
                     ELSE [at |-> "runtime", host |-> host]
    <2>1. /\ UNCHANGED <<installed, runtime, built>> /\ lookup[t].at = "idle"
          /\ lookup' = [lookup EXCEPT ![t] = x]
        BY <1>6 DEF Resolve
    <2>2. /\ x \in L /\ x.at \in {"runtime", "answered", "refused"}
          /\ x.at = "answered" => AnswerExact(x)
        <3>1. CASE isPort /\ host \in Literals
            BY <3>1, AnswersExact
        <3>2. CASE isPort /\ host \notin Literals
            BY <3>2 DEF Pending
        <3>3. CASE ~isPort
            BY <3>3 DEF InvalidArgument, Refusals
        <3>. QED  BY <3>1, <3>2, <3>3
    <2>. HIDE DEF x
    <2>3. /\ lookup' \in [Threads -> L] /\ lookup'[t] = x
          /\ \A u \in Threads \ {t} : lookup'[u] = lookup[u]
          /\ AllExact'
        BY <1>2, <2>1, <2>2, ThreadMoves
    <2>4. RuntimeInv'
        BY <1>2, <2>1, <2>2, <2>3, RuntimeKept
    <2>. QED  BY <1>3, <2>1, <2>3, <2>4 DEF ResolverCore, ResolverTypeOK
<1>7. ASSUME NEW t \in Threads, RuntimeBuild(t) PROVE ResolverCore'
    <2>. DEFINE x == [at |-> "building", host |-> lookup[t].host]
    <2>1. /\ UNCHANGED <<installed, built>> /\ lookup[t].at = "runtime" /\ runtime = "unset"
          /\ runtime' = "building" /\ lookup' = [lookup EXCEPT ![t].at = "building"]
        BY <1>7 DEF RuntimeBuild
    <2>2. x \in L /\ x.at = "building"
        BY <1>4, <2>1 DEF Pending
    <2>3. [lookup[t] EXCEPT !.at = "building"] = x
        BY <1>4, <2>1, Placed
    <2>4. lookup' = [lookup EXCEPT ![t] = x]
        BY <2>1, <2>3
    <2>. HIDE DEF x
    <2>5. /\ lookup' \in [Threads -> L] /\ lookup'[t] = x
          /\ \A u \in Threads \ {t} : lookup'[u] = lookup[u]
          /\ AllExact'
        BY <1>2, <2>2, <2>4, ThreadMoves
    <2>6. \A u \in Threads : lookup[u].at \notin {"building", "waiting"}
        BY <1>2, <2>1 DEF ResolverCore, RuntimeInv
    <2>7. RuntimeInv'
        BY <1>2, <2>1, <2>2, <2>5, <2>6 DEF ResolverCore, RuntimeInv
    <2>. QED  BY <1>3, <2>1, <2>5, <2>7 DEF ResolverCore, ResolverTypeOK
<1>8. ASSUME NEW t \in Threads, RuntimeBuilt(t) PROVE ResolverCore'
    <2>. DEFINE x == [at |-> "runtime", host |-> lookup[t].host]
    <2>1. /\ UNCHANGED installed /\ lookup[t].at = "building" /\ runtime' \in {"ready", "failed"}
          /\ built' = built + 1 /\ lookup' = [lookup EXCEPT ![t].at = "runtime"]
        BY <1>8 DEF RuntimeBuilt
    <2>2. x \in L /\ x.at = "runtime"
        BY <1>4, <2>1 DEF Pending
    <2>3. [lookup[t] EXCEPT !.at = "runtime"] = x
        BY <1>4, <2>1, Placed
    <2>4. lookup' = [lookup EXCEPT ![t] = x]
        BY <2>1, <2>3
    <2>. HIDE DEF x
    <2>5. /\ lookup' \in [Threads -> L] /\ lookup'[t] = x
          /\ \A u \in Threads \ {t} : lookup'[u] = lookup[u]
          /\ AllExact'
        BY <1>2, <2>2, <2>4, ThreadMoves
    <2>6. runtime = "building" /\ built = 0
        BY <1>2, <2>1 DEF ResolverCore, RuntimeInv
    <2>7. \A u \in Threads : lookup[u].at # "waiting" /\ (u # t => lookup[u].at # "building")
        BY <1>2, <2>1, <2>6 DEF ResolverCore, RuntimeInv
    <2>8. \A u \in Threads : lookup'[u].at \notin {"building", "waiting"}
        BY <2>2, <2>5, <2>7
    <2>9. RuntimeInv' /\ built' = 1
        BY <2>1, <2>6, <2>8 DEF RuntimeInv
    <2>. QED  BY <1>3, <2>1, <2>5, <2>9 DEF ResolverCore, ResolverTypeOK
<1>9. ASSUME NEW t \in Threads, Spawn(t) PROVE ResolverCore'
    <2>. DEFINE x == IF runtime = "failed" THEN NotFound(lookup[t].host)
                     ELSE [at |-> "waiting", host |-> lookup[t].host]
    <2>1. /\ UNCHANGED <<installed, runtime, built>> /\ lookup[t].at = "runtime"
          /\ runtime \in {"ready", "failed"} /\ lookup' = [lookup EXCEPT ![t] = x]
        BY <1>9 DEF Spawn
    <2>2. /\ x \in L /\ x.at \in {"answered", "waiting"} /\ (x.at = "waiting" => runtime = "ready")
          /\ x.at = "answered" => AnswerExact(x)
        <3>1. lookup[t].host \in Hosts \ Literals
            BY <1>4, <2>1
        <3>2. CASE runtime = "failed"
            BY <3>1, <3>2, AnswersExact
        <3>3. CASE runtime = "ready"
            BY <3>1, <3>3 DEF Pending
        <3>. QED  BY <2>1, <3>2, <3>3
    <2>. HIDE DEF x
    <2>3. /\ lookup' \in [Threads -> L] /\ lookup'[t] = x
          /\ \A u \in Threads \ {t} : lookup'[u] = lookup[u]
          /\ AllExact'
        BY <1>2, <2>1, <2>2, ThreadMoves
    <2>4. RuntimeInv'
        BY <1>2, <2>1, <2>2, <2>3, RuntimeKept
    <2>. QED  BY <1>3, <2>1, <2>3, <2>4 DEF ResolverCore, ResolverTypeOK
<1>10. ASSUME NEW t \in Threads, LookupDone(t) PROVE ResolverCore'
    <2>1. UNCHANGED <<installed, runtime, built>> /\ lookup[t].at = "waiting"
        BY <1>10 DEF LookupDone
    <2>2. lookup[t].host \in Hosts /\ lookup[t].host \notin Literals
        BY <1>4, <2>1
    <2>3. ASSUME NEW x, NEW n \in Nat, lookup' = [lookup EXCEPT ![t] = x],
                 \/ x = Resolved(lookup[t].host, Addresses(lookup[t].host, n))
                 \/ x = NotFound(lookup[t].host)
          PROVE  ResolverCore'
        <3>1. x \in Answers /\ x.at = "answered" /\ AnswerExact(x)
            BY <2>2, <2>3, AnswersExact
        <3>2. /\ lookup' \in [Threads -> L] /\ lookup'[t] = x
              /\ \A u \in Threads \ {t} : lookup'[u] = lookup[u]
              /\ AllExact'
            BY <1>2, <2>3, <3>1, ThreadMoves
        <3>3. RuntimeInv'
            BY <1>2, <2>1, <3>1, <3>2, RuntimeKept
        <3>. QED  BY <1>3, <2>1, <3>2, <3>3 DEF ResolverCore, ResolverTypeOK
    <2>4. 0..MaxAddresses \subseteq Nat /\ 0 \in Nat
        OBVIOUS
    <2>. QED  BY <1>10, <2>3, <2>4 DEF LookupDone
<1>11. ASSUME NEW t \in Threads, Return(t) PROVE ResolverCore'
    <2>1. /\ UNCHANGED <<installed, runtime, built>> /\ lookup[t].at \in {"answered", "refused"}
          /\ lookup' = [lookup EXCEPT ![t] = Idle]
        BY <1>11 DEF Return
    <2>2. Idle.at = "idle" /\ Idle \in L
        BY DEF Idle
    <2>3. /\ lookup' \in [Threads -> L] /\ lookup'[t] = Idle
          /\ \A u \in Threads \ {t} : lookup'[u] = lookup[u]
          /\ AllExact'
        BY <1>2, <2>1, <2>2, ThreadMoves
    <2>4. RuntimeInv'
        BY <1>2, <2>1, <2>2, <2>3, RuntimeKept
    <2>. QED  BY <1>3, <2>1, <2>3, <2>4 DEF ResolverCore, ResolverTypeOK
<1>. QED  BY <1>1, <1>5, <1>6, <1>7, <1>8, <1>9, <1>10, <1>11 DEF ResolverNext

-----------------------------------------------------------------------------
(* What the options ask and what the verifier checks.                      *)

(* The larger of two numbers.                                              *)
LEMMA MaxOfTwo ==
    ASSUME NEW a \in Nat, NEW b \in Nat
    PROVE  Max({a, b}) \in Nat /\ Max({a, b}) >= a /\ Max({a, b}) >= b
<1>1. \E x \in {a, b} : \A y \in {a, b} : x >= y
    OBVIOUS
<1>2. Max({a, b}) \in {a, b} /\ \A y \in {a, b} : Max({a, b}) >= y
    BY <1>1 DEF Max
<1>. QED  BY <1>2

(* A version that is enabled is in the range that was asked.               *)
LEMMA VersionsInRange ==
    ASSUME NEW min \in Nat, NEW max \in Nat, NEW v \in ProtocolVersions(min, max)
    PROVE  v >= min /\ (max # UNDEF => v <= max)
<1>1. TLS_VERSION_1_2 \in Nat
    BY DEF TLS_VERSION_1_2
<1>2. Max({min, TLS_VERSION_1_2}) \in Nat /\ Max({min, TLS_VERSION_1_2}) >= min
    BY <1>1, MaxOfTwo
<1>3. /\ v \in Nat /\ (max # UNDEF => v <= max)
      /\ min = UNDEF \/ Max({min, TLS_VERSION_1_2}) <= v
    BY DEF ProtocolVersions, TLS_VERSION_1_2, TLS_VERSION_1_3, UNDEF
<1>. QED  BY <1>2, <1>3 DEF UNDEF

(* Taking the bits of an octet apart and putting them together again, in   *)
(* the order of remote-cert-ku.                                            *)
LEMMA OctetRestored ==
    ASSUME NEW octet \in 0..255
    PROVE  EncodedUsage(UsageFlags(octet)) = octet
<1>1. PICK b0, b1, b2, b3, b4, b5, b6, b7 \in 0..1 :
         /\ b0 = (octet \div 128) % 2 /\ b1 = (octet \div 64) % 2
         /\ b2 = (octet \div 32) % 2 /\ b3 = (octet \div 16) % 2
         /\ b4 = (octet \div 8) % 2 /\ b5 = (octet \div 4) % 2
         /\ b6 = (octet \div 2) % 2 /\ b7 = (octet \div 1) % 2
    OBVIOUS
<1>2. octet = 128 * b0 + 64 * b1 + 32 * b2 + 16 * b3 + 8 * b4 + 4 * b5 + 2 * b6 + b7
    <2>1. octet = 2 * (octet \div 2) + b7
        BY <1>1
    <2>2. octet \div 2 = 2 * (octet \div 4) + b6
        BY <1>1
    <2>3. octet \div 4 = 2 * (octet \div 8) + b5
        BY <1>1
    <2>4. octet \div 8 = 2 * (octet \div 16) + b4
        BY <1>1
    <2>5. octet \div 16 = 2 * (octet \div 32) + b3
        BY <1>1
    <2>6. octet \div 32 = 2 * (octet \div 64) + b2
        BY <1>1
    <2>7. octet \div 64 = 2 * (octet \div 128) + b1
        BY <1>1
    <2>8. octet \div 128 = b0
        BY <1>1
    <2>. QED  BY <2>1, <2>2, <2>3, <2>4, <2>5, <2>6, <2>7, <2>8
<1>3. /\ 0 \in UsageFlags(octet) <=> b0 = 1
      /\ 1 \in UsageFlags(octet) <=> b1 = 1
      /\ 2 \in UsageFlags(octet) <=> b2 = 1
      /\ 3 \in UsageFlags(octet) <=> b3 = 1
      /\ 4 \in UsageFlags(octet) <=> b4 = 1
      /\ 5 \in UsageFlags(octet) <=> b5 = 1
      /\ 6 \in UsageFlags(octet) <=> b6 = 1
      /\ 7 \in UsageFlags(octet) <=> b7 = 1
    BY <1>1 DEF UsageFlags, BitValues
<1>. QED  BY <1>2, <1>3 DEF EncodedUsage, BitValues

(* A name that is not empty is a prefix when it is the beginning.          *)
LEMMA PrefixIsBeginning ==
    ASSUME NEW name \in Seq(STRING), NEW cn \in Seq(STRING), name # << >>
    PROVE  IsPrefix(name, cn) <=> \E n \in 1..Len(cn) : name = SubSeq(cn, 1, n)
<1>. DEFINE k == Len(name)
<1>1. k \in Nat /\ k > 0 /\ Len(cn) \in Nat
    BY EmptySeq
<1>2. SubSeq(name, 1, k) = name
    BY <1>1
<1>3. ASSUME IsPrefix(name, cn) PROVE \E n \in 1..Len(cn) : name = SubSeq(cn, 1, n)
    <2>1. k \in 1..Len(cn) /\ name = SubSeq(cn, 1, k)
        BY <1>1, <1>2, <1>3 DEF IsPrefix
    <2>. HIDE DEF k
    <2>. QED  BY <2>1
<1>4. ASSUME NEW n \in 1..Len(cn), name = SubSeq(cn, 1, n) PROVE IsPrefix(name, cn)
    <2>1. Len(SubSeq(cn, 1, n)) = n
        BY <1>1
    <2>. QED  BY <1>1, <1>2, <1>4, <2>1 DEF IsPrefix
<1>. QED  BY <1>3, <1>4

(* The characters of names and of the legacy names made from them.         *)
Characters == STRING \cup {"_", "/", "CN"}

(* A name in legacy form, character by character.                          *)
LegacyOf(y, n, U) ==
    /\ y \in Seq(Characters) /\ Len(y) = Len(n)
    /\ \A i \in 1..Len(n) : (n[i] \in U => y[i] = "_") /\ (n[i] \notin U => y[i] = n[i])

(* It is as long as the name itself.                                       *)
LEMMA SanitizeType ==
    ASSUME NEW n \in Seq(Characters), NEW U
    PROVE  LegacyOf(Sanitize(n, U), n, U)
<1>. DEFINE y == Sanitize(n, U)
<1>1. "_" \in Characters /\ Len(n) \in Nat /\ DOMAIN n = 1..Len(n)
    <2>1. "_" \in Characters
        BY Zenon DEF Characters
    <2>. QED  BY <2>1, LenProperties
<1>2. \A i \in 1..Len(n) : n[i] \in Characters
    BY ElementOfSeq
<1>3. y = [i \in 1..Len(n) |-> IF n[i] \in U THEN "_" ELSE n[i]]
    BY <1>1 DEF Sanitize
<1>. HIDE DEF y
<1>4. \A i \in 1..Len(n) : (n[i] \in U => y[i] = "_") /\ (n[i] \notin U => y[i] = n[i])
    BY <1>3, Zenon
<1>5. \A i \in 1..Len(n) : y[i] \in Characters
    BY <1>1, <1>2, <1>4, Zenon
<1>6. DOMAIN y = 1..Len(n) /\ y = [i \in 1..Len(n) |-> y[i]]
    BY <1>3, Zenon
<1>7. y \in Seq(Characters) /\ Len(y) = Len(n)
    <2>1. [i \in 1..Len(n) |-> y[i]] \in [1..Len(n) -> Characters]
        BY <1>5, Zenon
    <2>2. y \in [1..Len(n) -> Characters]
        BY <1>6, <2>1, Zenon
    <2>3. y \in Seq(Characters)
        <3>. DEFINE F == [1..Len(n) -> Characters]
                    all == {[1..k -> Characters] : k \in Nat}
        <3>1. F \in all
            BY <1>1, Zenon
        <3>2. y \in F
            BY <2>2
        <3>. HIDE DEF F, all
        <3>3. y \in UNION all
            BY <3>1, <3>2
        <3>. QED  BY <3>3, SeqDef, Zenon DEF all
    <2>4. 1..Len(y) = 1..Len(n) /\ Len(y) \in Nat
        BY <1>6, <2>3, LenProperties
    <2>5. ASSUME NEW a \in Nat, NEW b \in Nat, 1..a = 1..b PROVE a = b
        BY <2>5
    <2>. QED  BY <1>1, <2>3, <2>4, <2>5, Zenon
<1>. QED  BY <1>4, <1>7 DEF LegacyOf, y

(* What spells the beginning of a name has the characters of its legacy    *)
(* form.                                                                   *)
LEMMA SpellsElements ==
    ASSUME NEW g \in Seq(Characters), NEW n \in Seq(Characters), NEW U, NEW y, LegacyOf(y, n, U)
    PROVE  Spells(g, n, U) <=> Len(g) <= Len(y) /\ \A i \in 1..Len(g) : g[i] = y[i]
<1>1. Len(g) \in Nat /\ Len(n) \in Nat /\ Len(y) = Len(n)
    BY LenProperties, Zenon DEF LegacyOf
<1>2. ASSUME Len(g) <= Len(n), NEW i \in 1..Len(g)
      PROVE  (IF n[i] \in U THEN g[i] = "_" ELSE g[i] = n[i]) <=> g[i] = y[i]
    <2>1. i \in 1..Len(n)
        BY <1>1, <1>2
    <2>. QED  BY <2>1, Zenon DEF LegacyOf
<1>. QED  BY <1>1, <1>2 DEF Spells

(* What spells the beginning of a name is a prefix of its legacy form.     *)
LEMMA SpellsBeginning ==
    ASSUME NEW g \in Seq(Characters), NEW n \in Seq(Characters), NEW U
    PROVE  Spells(g, n, U) <=> IsPrefix(g, Sanitize(n, U))
<1>. DEFINE y == Sanitize(n, U)
            k == Len(g)
<1>1. LegacyOf(y, n, U)
    BY SanitizeType
<1>. HIDE DEF y
<1>2. y \in Seq(Characters) /\ k \in Nat /\ Len(y) \in Nat
    BY <1>1, LenProperties, Zenon DEF LegacyOf
<1>3. Spells(g, n, U) <=> k <= Len(y) /\ \A i \in 1..k : g[i] = y[i]
    BY <1>1, SpellsElements
<1>4. ASSUME k <= Len(y) PROVE SubSeq(g, 1, k) = SubSeq(y, 1, k) <=> \A i \in 1..k : g[i] = y[i]
    <2>. DEFINE a == SubSeq(g, 1, k)
                b == SubSeq(y, 1, k)
    <2>1. \A i \in 1..k : g[i] \in Characters /\ y[i] \in Characters
        BY <1>2, <1>4, ElementOfSeq
    <2>2. /\ a \in Seq(Characters) /\ b \in Seq(Characters) /\ Len(a) = k /\ Len(b) = k
          /\ \A i \in 1..k : a[i] = g[i] /\ b[i] = y[i]
        BY <1>2, <2>1, SubSeqProperties
    <2>. HIDE DEF a, b
    <2>3. ASSUME \A i \in 1..k : g[i] = y[i] PROVE a = b
        BY <2>2, <2>3, SeqEqual
    <2>4. ASSUME a = b PROVE \A i \in 1..k : g[i] = y[i]
        BY <2>2, <2>4
    <2>. QED  BY <2>3, <2>4 DEF a, b
<1>. QED  BY <1>3, <1>4 DEF IsPrefix, y

(* What spells a name to its end is its legacy form.                       *)
LEMMA SpellsWhole ==
    ASSUME NEW g \in Seq(Characters), NEW n \in Seq(Characters), NEW U
    PROVE  g = Sanitize(n, U) <=> Len(g) = Len(n) /\ Spells(g, n, U)
<1>. DEFINE y == Sanitize(n, U)
<1>1. LegacyOf(y, n, U)
    BY SanitizeType
<1>. HIDE DEF y
<1>2. y \in Seq(Characters) /\ Len(g) \in Nat /\ Len(y) = Len(n) /\ Len(n) \in Nat
    BY <1>1, LenProperties, Zenon DEF LegacyOf
<1>3. Spells(g, n, U) <=> Len(g) <= Len(y) /\ \A i \in 1..Len(g) : g[i] = y[i]
    BY <1>1, SpellsElements
<1>4. ASSUME Len(g) = Len(n), Spells(g, n, U) PROVE g = y
    BY <1>2, <1>3, <1>4, SeqEqual
<1>5. ASSUME g = y PROVE Len(g) = Len(n) /\ Spells(g, n, U)
    BY <1>2, <1>3, <1>5
<1>. QED  BY <1>4, <1>5 DEF y

(* The slash in front of a subject is none of the characters replaced.     *)
LEMMA SlashKept ==
    ASSUME NEW n \in Seq(Characters)
    PROVE  Sanitize(<<"/">> \o n, {"*"}) = <<"/">> \o Sanitize(n, {"*"})
<1>. DEFINE x == <<"/">> \o n
            y == Sanitize(n, {"*"})
            z == <<"/">> \o y
            v == Sanitize(x, {"*"})
<1>1. "/" \in Characters /\ "/" # "*"
    BY DEF Characters
<1>2. LegacyOf(y, n, {"*"}) /\ Len(n) \in Nat
    BY SanitizeType
<1>3. y \in Seq(Characters) /\ Len(y) = Len(n)
    BY <1>2 DEF LegacyOf
<1>. HIDE DEF y
<1>4. /\ x \in Seq(Characters) /\ Len(x) = 1 + Len(n) /\ x[1] = "/"
      /\ \A i \in 1..Len(n) : x[i + 1] = n[i]
    BY <1>1, <1>2
<1>5. /\ z \in Seq(Characters) /\ Len(z) = 1 + Len(n) /\ z[1] = "/"
      /\ \A i \in 1..Len(n) : z[i + 1] = y[i]
    BY <1>1, <1>2, <1>3
<1>. HIDE DEF x, z
<1>6. LegacyOf(v, x, {"*"})
    BY <1>4, SanitizeType
<1>. HIDE DEF v
<1>7. v \in Seq(Characters) /\ Len(v) = 1 + Len(n)
    BY <1>4, <1>6 DEF LegacyOf
<1>8. \A i \in 1..(1 + Len(n)) : v[i] = z[i]
    <2>1. v[1] = z[1]
        <3>1. 1 \in 1..Len(x)
            BY <1>2, <1>4
        <3>. QED  BY <1>1, <1>4, <1>5, <1>6, <3>1 DEF LegacyOf
    <2>2. ASSUME NEW i \in 1..Len(n) PROVE v[i + 1] = z[i + 1]
        <3>1. i + 1 \in 1..Len(x)
            BY <1>2, <1>4
        <3>2. x[i + 1] = n[i] /\ z[i + 1] = y[i]
            BY <1>4, <1>5
        <3>3. /\ n[i] \in {"*"} => y[i] = "_" /\ v[i + 1] = "_"
              /\ n[i] \notin {"*"} => y[i] = n[i] /\ v[i + 1] = n[i]
            BY <1>2, <1>6, <3>1, <3>2, Zenon DEF LegacyOf
        <3>. QED  BY <3>2, <3>3, Zenon
    <2>3. ASSUME NEW i \in 1..(1 + Len(n)), i # 1 PROVE v[i] = z[i]
        <3>1. i - 1 \in 1..Len(n) /\ i = (i - 1) + 1
            BY <1>2, <2>3
        <3>2. v[(i - 1) + 1] = z[(i - 1) + 1]
            BY <2>2, <3>1, Zenon
        <3>. QED  BY <3>1, <3>2
    <2>. QED  BY <2>1, <2>3
<1>9. v = z
    BY <1>5, <1>7, <1>8, SeqEqual
<1>. QED  BY <1>9 DEF v, x, y, z

(* tls-remote: the whole subject or the beginning of the common name, each *)
(* in its legacy form.                                                     *)
LEMMA TlsRemoteExact ==
    ASSUME NEW o, NEW s, o.tlsRemote \in Seq(STRING), s.cn \in Seq(STRING)
    PROVE  TlsRemoteVerified(o, s) <=>
              \/ Spells(o.tlsRemote, s.cn, {"*", ":"})
              \/ /\ Len(o.tlsRemote) = Len(Subject(s)) + 1
                 /\ Spells(o.tlsRemote, <<"/">> \o Subject(s), {"*"})
<1>. DEFINE g == o.tlsRemote
            n == Subject(s)
            x == <<"/">> \o n
<1>1. STRING \subseteq Characters /\ "/" \in Characters /\ "CN" \in Characters
    BY DEF Characters
<1>2. g \in Seq(Characters) /\ s.cn \in Seq(Characters)
    BY <1>1, SeqMonotonic
<1>. HIDE DEF Characters
<1>3. n \in Seq(Characters)
    BY <1>1, <1>2 DEF Subject
<1>. HIDE DEF g, n
<1>4. x \in Seq(Characters) /\ Len(x) = Len(n) + 1
    BY <1>1, <1>3
<1>. HIDE DEF x
<1>5. Spells(g, s.cn, {"*", ":"}) <=> IsPrefix(g, Sanitize(s.cn, {"*", ":"}))
    BY <1>2, SpellsBeginning
<1>6. g = Sanitize(x, {"*"}) <=> Len(g) = Len(n) + 1 /\ Spells(g, x, {"*"})
    BY <1>2, <1>4, SpellsWhole
<1>7. Sanitize(x, {"*"}) = <<"/">> \o Sanitize(n, {"*"})
    BY <1>3, SlashKept DEF x
<1>8. g = << >> => Spells(g, s.cn, {"*", ":"})
    BY <1>2 DEF Spells
<1>. QED  BY <1>5, <1>6, <1>7, <1>8 DEF TlsRemoteVerified, g, n, x

(* The scheme chosen is one the server offered.                            *)
LEMMA SchemeOffered ==
    ASSUME NEW algorithm \in {"RSA", "ECDSA", "ED25519", "DSA"}, NEW offered,
           ChooseScheme(algorithm, offered) # "none"
    PROVE  ChooseScheme(algorithm, offered) \in offered
<1>. DEFINE preferred == PreferredSchemes[algorithm]
            usable == {i \in 1..Len(preferred) : preferred[i] \in offered}
            first  == CHOOSE i \in usable : \A j \in usable : i <= j
<1>1. Len(preferred) \in 0..2
    BY DEF PreferredSchemes
<1>2. usable # {} /\ usable \subseteq 1..2
    BY <1>1 DEF ChooseScheme
<1>3. \E i \in usable : \A j \in usable : i <= j
    <2>1. CASE 1 \in usable
        BY <1>2, <2>1
    <2>2. CASE 1 \notin usable
        BY <1>2, <2>2
    <2>. QED  BY <2>1, <2>2
<1>4. first \in usable
    BY <1>3
<1>5. ChooseScheme(algorithm, offered) = preferred[first]
    BY <1>2 DEF ChooseScheme
<1>. QED  BY <1>4, <1>5

(* CertificatePolicy lets through exactly the servers that serve the       *)
(* purposes and have the name the options give.                            *)
LEMMA PolicyExact ==
    ASSUME NEW o, NEW s, ScenarioValid(o, s), PolicyValid(o)
    PROVE  PolicyVerified(o, s) <=> Purposed(o, s) /\ Named(o, s)
<1>1. NsCertTypeVerified(o, s) <=>
         /\ o.nsCertType = "server" => "server" \in s.nsCertTypes \/ HasPurpose(s, ServerAuth)
         /\ o.nsCertType = "client" => "client" \in s.nsCertTypes \/ HasPurpose(s, ClientAuth)
    BY DEF ScenarioValid, NsCertTypeVerified, HasPurpose
<1>2. KeyUsageVerified(o, s) <=>
         (o.keyUsages # {} => s.keyUsage.given /\ s.keyUsage.octet \in o.keyUsages)
    BY OctetRestored DEF ScenarioValid, KeyUsageVerified
<1>3. ExtendedKeyUsageVerified(o, s) <=>
         /\ o.extendedKeyUsage \in ServerNames => HasPurpose(s, ServerAuth)
         /\ o.extendedKeyUsage \in ClientNames => HasPurpose(s, ClientAuth)
         /\ o.extendedKeyUsage \notin {""} \cup ServerNames \cup ClientNames
               => HasPurpose(s, UsageNamed(o.extendedKeyUsage))
    <2>1. \A oid : HasPurpose(s, oid) <=> s.eku.given /\ (AnyUsage \in s.eku.items \/ oid \in s.eku.items)
        BY DEF HasPurpose
    <2>2. ServerNames \cap ClientNames = {} /\ "" \notin ServerNames \cup ClientNames
        BY DEF ServerNames, ClientNames, ServerAuth, ClientAuth
    <2>3. /\ \A n \in ServerNames : UsageNamed(n) = ServerAuth
          /\ \A n \in ClientNames : UsageNamed(n) = ClientAuth
        BY <2>2 DEF UsageNamed, ServerNames, ClientNames, ServerAuth, ClientAuth
    <2>. QED  BY <2>1, <2>2, <2>3 DEF ExtendedKeyUsageVerified, ExtendedKeyUsageMatches
<1>4. NameVerified(o, s) <=>
         /\ o.nameMode = "subject" => o.name = Subject(s)
         /\ o.nameMode = "name" => o.name = s.cn
         /\ o.nameMode = "name-prefix" => \E n \in 1..Len(s.cn) : o.name = SubSeq(s.cn, 1, n)
    <2>1. /\ o.nameMode \in {"none", "subject", "name", "name-prefix"}
          /\ o.name \in Seq(STRING) /\ s.cn \in Seq(STRING)
          /\ o.nameMode # "none" => o.name # << >>
        BY DEF ScenarioValid, PolicyValid
    <2>2. o.nameMode # "none" =>
             (IsPrefix(o.name, s.cn) <=> \E n \in 1..Len(s.cn) : o.name = SubSeq(s.cn, 1, n))
        BY <2>1, PrefixIsBeginning
    <2>. QED  BY <2>1, <2>2 DEF NameVerified
<1>5. TlsRemoteVerified(o, s) <=>
         \/ Spells(o.tlsRemote, s.cn, {"*", ":"})
         \/ /\ Len(o.tlsRemote) = Len(Subject(s)) + 1
            /\ Spells(o.tlsRemote, <<"/">> \o Subject(s), {"*"})
    BY TlsRemoteExact DEF ScenarioValid
<1>. QED  BY <1>1, <1>2, <1>3, <1>4, <1>5 DEF PolicyVerified, Purposed, Named

(* A set of numbers has a least one.                                       *)
LEMMA LeastIndex ==
    ASSUME NEW S, S \subseteq Nat, S # {}
    PROVE  \E i \in S : \A j \in S : i <= j
<1>1. PICK i \in S : \A j \in S : ~(<<j, i>> \in OpToRel(<, Nat))
    BY NatLessThanWellFounded, WFMin
<1>2. \A j \in S : ~(j < i)
    BY <1>1 DEF OpToRel
<1>. QED  BY <1>2

(* The list webpki consults does not name the server exactly when none of  *)
(* those that do comes first of its issuer, and the issuer has one.        *)
LEMMA RevocationExact ==
    ASSUME NEW lists, NEW n \in Nat, DOMAIN lists = 1..n, NEW s
    PROVE  NotRevoked(lists, s) <=>
              \E i \in DOMAIN lists : /\ lists[i].issuer = s.issuer /\ s.id \notin lists[i].revoked
                                      /\ \A j \in 1..(i - 1) : lists[j].issuer # s.issuer
<1>. DEFINE S == {i \in 1..n : lists[i].issuer = s.issuer}
<1>1. ASSUME NotRevoked(lists, s)
      PROVE  \E i \in 1..n : /\ lists[i].issuer = s.issuer /\ s.id \notin lists[i].revoked
                             /\ \A j \in 1..(i - 1) : lists[j].issuer # s.issuer
    <2>1. S # {} /\ S \subseteq Nat
        BY <1>1 DEF NotRevoked
    <2>2. PICK i \in S : \A j \in S : i <= j
        BY <2>1, LeastIndex
    <2>3. \A j \in 1..(i - 1) : lists[j].issuer # s.issuer
        BY <2>2
    <2>4. s.id \notin lists[i].revoked
        BY <1>1, <2>2, <2>3 DEF NotRevoked
    <2>. QED  BY <2>2, <2>3, <2>4
<1>2. ASSUME NEW i \in 1..n, lists[i].issuer = s.issuer, s.id \notin lists[i].revoked,
             \A j \in 1..(i - 1) : lists[j].issuer # s.issuer
      PROVE  NotRevoked(lists, s)
    <2>1. ASSUME NEW k \in 1..n, lists[k].issuer = s.issuer, s.id \in lists[k].revoked
          PROVE  \E j \in 1..(k - 1) : lists[j].issuer = s.issuer
        <3>1. i \in 1..(k - 1)
            BY <1>2, <2>1
        <3>. QED  BY <1>2, <3>1
    <2>. QED  BY <1>2, <2>1 DEF NotRevoked
<1>. QED  BY <1>1, <1>2

(* The chain, the pins and the waiver, whatever of them is given.          *)
LEMMA ChainExact ==
    ASSUME NEW o, NEW s, ScenarioValid(o, s), o.crl.given => o.crl.items # << >>
    PROVE  (o.noVerify => o.pins.given)
               => (Trusted(o, s) <=> IF o.pins.items # {} THEN s.id \in o.pins.items
                                     ELSE VerifyForUsage(o.ca.items, o.crl.items, s))
<1>1. SUFFICES ASSUME o.noVerify => o.pins.given
               PROVE  Trusted(o, s) <=> IF o.pins.items # {} THEN s.id \in o.pins.items
                                        ELSE VerifyForUsage(o.ca.items, o.crl.items, s)
    OBVIOUS
<1>2. CASE o.pins.items # {}
    BY <1>1, <1>2 DEF Trusted
<1>3. CASE o.pins.items = {}
    <2>. DEFINE lists == o.crl.items
                consulted ==
                    \E i \in DOMAIN lists : /\ lists[i].issuer = s.issuer /\ s.id \notin lists[i].revoked
                                            /\ \A j \in 1..(i - 1) : lists[j].issuer # s.issuer
    <2>1. lists # << >> <=> o.crl.given
        BY DEF ScenarioValid
    <2>2. consulted <=> NotRevoked(lists, s)
        <3>1. DOMAIN lists = 1..Len(lists) /\ Len(lists) \in Nat
            BY DEF ScenarioValid
        <3>. HIDE DEF lists
        <3>. QED  BY <3>1, RevocationExact
    <2>3. Trusted(o, s) <=>
             /\ s.issuer \in o.ca.items /\ s.current
             /\ s.eku.given => ServerAuth \in s.eku.items
             /\ o.crl.given => NotRevoked(lists, s)
        BY <1>1, <1>3 DEF Trusted
    <2>4. VerifyForUsage(o.ca.items, lists, s) <=>
             /\ s.issuer \in o.ca.items /\ s.current
             /\ s.eku.given => ServerAuth \in s.eku.items
             /\ lists # << >> => consulted
        BY DEF VerifyForUsage
    <2>. HIDE DEF consulted
    <2>. QED  BY <1>3, <2>1, <2>2, <2>3, <2>4
<1>. QED  BY <1>2, <1>3

(* OpenVpnServerVerifier accepts the servers the options trust and no      *)
(* other.                                                                  *)
LEMMA VerifierExact ==
    ASSUME ScenarioValid(options, server), NEW f, Faithful(f)
    PROVE  VerifyServerCert(f, server) <=>
              Trusted(options, server) /\ Purposed(options, server) /\ Named(options, server)
<1>1. PolicyVerified(f.policy, server) <=> Purposed(options, server) /\ Named(options, server)
    BY PolicyExact DEF Faithful
<1>2. CASE options.noVerify /\ ~options.pins.given
    <2>1. ~f.verifyChain
        BY <1>2 DEF Faithful
    <2>2. Trusted(options, server)
        BY <1>2 DEF Trusted
    <2>. QED  BY <1>1, <2>1, <2>2 DEF VerifyServerCert
<1>3. CASE ~(options.noVerify /\ ~options.pins.given)
    <2>1. f.verifyChain
        BY <1>3 DEF Faithful
    <2>2. Trusted(options, server) <=>
             IF options.pins.items # {} THEN server.id \in options.pins.items
             ELSE VerifyForUsage(options.ca.items, options.crl.items, server)
        BY <1>3, ChainExact DEF Faithful
    <2>3. /\ f.pins = options.pins.items /\ f.roots = options.ca.items
          /\ f.crls = options.crl.items
        BY DEF Faithful
    <2>. QED  BY <1>1, <2>1, <2>2, <2>3 DEF VerifyServerCert
<1>. QED  BY <1>2, <1>3

(* Whatever client and server agree on is in the ranges asked.             *)
AgreementExact(f, agreed) ==
    LET v == SuiteVersion(agreed.suite)
        asked == IF v = TLS_VERSION_1_2 THEN options.ciphers ELSE options.ciphersuites
    IN  /\ v >= f.min /\ (options.max # UNDEF => v <= options.max)
        /\ asked = {} \/ ({"DEFAULT"} \cup SuiteNames(agreed.suite)) \cap asked # {}
        /\ \/ options.groups = {}
           \/ ({"DEFAULT"} \cup GroupNames[agreed.group]) \cap options.groups # {}

(* However the lists of suites, versions and groups combine.               *)
LEMMA AgreementInRange ==
    ASSUME ScenarioValid(options, server), NEW f, Faithful(f), NEW n \in Negotiable(f, server)
    PROVE  AgreementExact(f, n)
<1>. DEFINE v == SuiteVersion(n.suite)
<1>1. /\ n.suite \in ConfiguredSuites(options) /\ n.group \in ConfiguredGroups(options)
      /\ v \in ProtocolVersions(f.min, options.max)
    BY DEF Negotiable, Faithful
<1>2. f.min \in Nat /\ options.max \in Nat
    BY DEF Faithful, ScenarioValid
<1>3. v >= f.min /\ (options.max # UNDEF => v <= options.max)
    BY <1>1, <1>2, VersionsInRange
<1>4. CASE n.suite \in Suites13
    <2>1. v = TLS_VERSION_1_3 /\ TLS_VERSION_1_3 # TLS_VERSION_1_2 /\ n.suite \notin Suites12
        BY <1>4 DEF SuiteVersion, TLS_VERSION_1_3, TLS_VERSION_1_2, Suites12, Suites13
    <2>2. Restricts(options.ciphersuites) => SuiteNames(n.suite) \cap options.ciphersuites # {}
        BY <1>1, <2>1 DEF ConfiguredSuites
    <2>3. \/ options.ciphersuites = {}
          \/ ({"DEFAULT"} \cup SuiteNames(n.suite)) \cap options.ciphersuites # {}
        BY <2>2 DEF Restricts
    <2>4. \/ options.groups = {}
          \/ ({"DEFAULT"} \cup GroupNames[n.group]) \cap options.groups # {}
        BY <1>1 DEF ConfiguredGroups, Restricts
    <2>. QED  BY <1>3, <2>1, <2>3, <2>4 DEF AgreementExact
<1>5. CASE n.suite \notin Suites13
    <2>1. v = TLS_VERSION_1_2
        BY <1>5 DEF SuiteVersion
    <2>2. Restricts(options.ciphers) => SuiteNames(n.suite) \cap options.ciphers # {}
        BY <1>1, <1>5 DEF ConfiguredSuites
    <2>3. \/ options.ciphers = {}
          \/ ({"DEFAULT"} \cup SuiteNames(n.suite)) \cap options.ciphers # {}
        BY <2>2 DEF Restricts
    <2>4. \/ options.groups = {}
          \/ ({"DEFAULT"} \cup GroupNames[n.group]) \cap options.groups # {}
        BY <1>1 DEF ConfiguredGroups, Restricts
    <2>. QED  BY <1>3, <2>1, <2>3, <2>4 DEF AgreementExact
<1>. QED  BY <1>4, <1>5

-----------------------------------------------------------------------------
(* The steps of a configuration, its factory and a connection.             *)

(* What HandshakeTrusted says of a connection built from these options.    *)
ConnTrusted(k) ==
    /\ k.state = "rejected" =>
          ~(Trusted(options, server) /\ Purposed(options, server) /\ Named(options, server))
    /\ k.state \in {"verified", "up"} =>
          /\ Trusted(options, server) /\ Purposed(options, server) /\ Named(options, server)
          /\ AgreementExact(k.tls, k.agreed)
    /\ k.state = "up" /\ k.scheme # "none" =>
          /\ k.scheme \in server.schemes /\ k.outcome = "signed"
          /\ ~options.externalPki => k.tls.signer # {} /\ k.tls.signer \subseteq options.cert.items

(* Before a step,                                                          *)
LEMMA TrustedBefore ==
    ASSUME TrustInv, HandshakeTrusted
    PROVE  ConnTrusted(conn)
<1>1. conn.state # "none" => conn.tls.asked = options
    BY DEF TrustInv, Faithful
<1>2. conn.state \in {"rejected", "verified", "up"} => conn.state # "none"
    OBVIOUS
<1>. QED  BY <1>1, <1>2 DEF HandshakeTrusted, ConnTrusted, AgreementExact

(* and after it.                                                           *)
LEMMA TrustedAfter ==
    ASSUME UNCHANGED <<server, options>>, conn'.state # "none" => conn'.tls.asked = options,
           ConnTrusted(conn')
    PROVE  HandshakeTrusted'
<1>1. conn'.state \in {"rejected", "verified", "up"} => conn'.state # "none"
    OBVIOUS
<1>2. conn'.state = "rejected" =>
         ~(/\ Trusted(conn'.tls.asked, server') /\ Purposed(conn'.tls.asked, server')
           /\ Named(conn'.tls.asked, server'))
    BY <1>1 DEF ConnTrusted
<1>3. conn'.state \in {"verified", "up"} =>
         /\ Trusted(conn'.tls.asked, server') /\ Purposed(conn'.tls.asked, server')
         /\ Named(conn'.tls.asked, server')
         /\ conn'.tls.asked = options /\ AgreementExact(conn'.tls, conn'.agreed)
    BY <1>1 DEF ConnTrusted
<1>4. conn'.state = "up" /\ conn'.scheme # "none" =>
         /\ conn'.scheme \in server'.schemes /\ conn'.outcome = "signed"
         /\ ~conn'.tls.asked.externalPki =>
               conn'.tls.signer # {} /\ conn'.tls.signer \subseteq conn'.tls.asked.cert.items
    BY DEF ConnTrusted
<1>. QED  BY <1>2, <1>3, <1>4 DEF HandshakeTrusted, AgreementExact

(* A connection is made from a faithful configuration, meets the server    *)
(* and may be asked to sign.                                               *)
LEMMA ConnStep ==
    ASSUME TlsConfigTypeOK, TrustInv, HandshakeTrusted,
           \/ ConnectionNew \/ MeetServer \/ ConnectionFree
           \/ \E outcome \in SignOutcomes : AuthenticateClient(outcome)
    PROVE  /\ UNCHANGED <<server, options, config, factory, builds>>
           /\ conn'.state \in {"none", "connecting", "no agreement", "rejected", "verified",
                               "sign failed", "up"}
           /\ conn'.state # "none" => Faithful(conn'.tls)
           /\ ConnTrusted(conn')
<1>1. CASE ConnectionNew
    <2>1. UNCHANGED <<server, options, config, factory, builds>>
        BY <1>1 DEF ConnectionNew
    <2>2. conn'.state = "connecting" /\ conn'.tls = factory
        BY <1>1 DEF ConnectionNew
    <2>3. Faithful(factory)
        BY <1>1 DEF ConnectionNew, TrustInv
    <2>. QED  BY <2>1, <2>2, <2>3 DEF ConnTrusted
<1>2. CASE MeetServer
    <2>1. UNCHANGED <<server, options, config, factory, builds>> /\ conn.state = "connecting"
        BY <1>2 DEF MeetServer
    <2>2. Faithful(conn.tls) /\ ScenarioValid(options, server)
        BY <2>1 DEF TrustInv
    <2>3. CASE conn' = [state |-> "no agreement", tls |-> conn.tls]
        BY <2>1, <2>2, <2>3 DEF ConnTrusted
    <2>4. CASE ~VerifyServerCert(conn.tls, server) /\ conn' = [state |-> "rejected", tls |-> conn.tls]
        <3>1. ~(Trusted(options, server) /\ Purposed(options, server) /\ Named(options, server))
            BY <2>2, <2>4, VerifierExact
        <3>2. conn'.state = "rejected" /\ conn'.tls = conn.tls
            BY <2>4
        <3>. QED  BY <2>1, <2>2, <3>1, <3>2 DEF ConnTrusted
    <2>5. ASSUME NEW n \in Negotiable(conn.tls, server), VerifyServerCert(conn.tls, server),
                 conn' = [state |-> "verified", tls |-> conn.tls, agreed |-> n]
          PROVE  conn'.state = "verified" /\ conn'.tls = conn.tls /\ ConnTrusted(conn')
        <3>1. Trusted(options, server) /\ Purposed(options, server) /\ Named(options, server)
            BY <2>2, <2>5, VerifierExact
        <3>2. AgreementExact(conn.tls, n)
            BY <2>2, AgreementInRange
        <3>3. conn'.state = "verified" /\ conn'.tls = conn.tls /\ conn'.agreed = n
            BY <2>5
        <3>. QED  BY <3>1, <3>2, <3>3 DEF ConnTrusted
    <2>. QED  BY <1>2, <2>1, <2>2, <2>3, <2>4, <2>5 DEF MeetServer
<1>3. CASE ConnectionFree
    BY <1>3 DEF ConnectionFree, NoConn, ConnTrusted
<1>4. ASSUME NEW outcome \in SignOutcomes, AuthenticateClient(outcome)
      PROVE  /\ UNCHANGED <<server, options, config, factory, builds>>
             /\ conn'.state \in {"sign failed", "up"} /\ Faithful(conn'.tls) /\ ConnTrusted(conn')
    <2>. DEFINE scheme == ChooseScheme(conn.tls.asked.keyType, server.schemes)
                signs  == conn.tls.localCert /\ scheme # "none"
    <2>1. UNCHANGED <<server, options, config, factory, builds>> /\ conn.state = "verified"
        BY <1>4 DEF AuthenticateClient
    <2>2. Faithful(conn.tls) /\ ScenarioValid(options, server)
        BY <2>1 DEF TrustInv
    <2>3. CASE signs /\ ~SignAccepted(outcome)
        <3>1. conn' = [state |-> "sign failed", tls |-> conn.tls]
            BY <1>4, <2>3 DEF AuthenticateClient
        <3>. QED  BY <2>1, <2>2, <3>1 DEF ConnTrusted
    <2>4. CASE ~(signs /\ ~SignAccepted(outcome))
        <3>1. conn' = [state |-> "up", tls |-> conn.tls, agreed |-> conn.agreed, outcome |-> outcome,
                       scheme |-> IF signs THEN scheme ELSE "none"]
            BY <1>4, <2>4 DEF AuthenticateClient
        <3>2. /\ conn'.state = "up" /\ conn'.tls = conn.tls /\ conn'.agreed = conn.agreed
              /\ conn'.outcome = outcome /\ conn'.scheme = IF signs THEN scheme ELSE "none"
            BY <3>1
        <3>3. conn.tls.asked.keyType \in {"RSA", "ECDSA", "ED25519", "DSA"}
            BY <2>2 DEF Faithful, ScenarioValid
        <3>4. scheme # "none" => scheme \in server.schemes
            BY <3>3, SchemeOffered
        <3>5. conn'.scheme # "none" => /\ conn'.scheme \in server.schemes /\ conn'.outcome = "signed"
                                       /\ conn.tls.localCert
            BY <2>4, <3>2, <3>4 DEF SignAccepted
        <3>6. ConnTrusted(conn)
            BY TrustedBefore
        <3>. HIDE DEF scheme, signs
        <3>7. conn.tls.localCert /\ ~options.externalPki =>
                 conn.tls.signer # {} /\ conn.tls.signer \subseteq options.cert.items
            BY <2>2 DEF Faithful
        <3>8. ConnTrusted(conn')
            BY <2>1, <3>2, <3>5, <3>6, <3>7 DEF ConnTrusted
        <3>. QED  BY <2>1, <2>2, <3>2, <3>8
    <2>. QED  BY <2>3, <2>4
<1>. QED  BY <1>1, <1>2, <1>3, <1>4

(* An application's profile and the server it reaches.                     *)
LEMMA TlsConfigInitInv == TlsConfigInit => TlsConfigInv
<1>1. SUFFICES ASSUME TlsConfigInit PROVE TlsConfigInv
    OBVIOUS
<1>2. ScenarioValid(options, server)
    BY <1>1, TlsConfigAssumption DEF TlsConfigInit
<1>3. conn.state = "none" /\ factory.state = "none"
    BY <1>1 DEF TlsConfigInit, NoConn, NoFactory
<1>4. config = [state |-> "new", password |-> "", verifyPins |-> FALSE, min |-> 0] /\ builds = 0
    BY <1>1 DEF TlsConfigInit, UNDEF
<1>5. TlsConfigTypeOK
    <2>1. "" \in Passwords /\ MaxBuilds \in Nat
        BY TlsConfigAssumption
    <2>2. config \in [state : {"new", "loaded", "failed"}, password : Passwords,
                      verifyPins : BOOLEAN, min : Nat]
        BY <1>4, <2>1
    <2>3. builds \in 0..MaxBuilds
        <3>1. builds = 0 /\ MaxBuilds \in Nat
            BY <1>4, <2>1, Zenon
        <3>. QED  BY <3>1
    <2>. QED  BY <1>3, <2>2, <2>3 DEF TlsConfigTypeOK
<1>6. TrustInv
    BY <1>2, <1>3, <1>4 DEF TrustInv
<1>7. HandshakeTrusted
    BY <1>3 DEF HandshakeTrusted
<1>. QED  BY <1>5, <1>6, <1>7 DEF TlsConfigInv

(* The types of a configuration, which the steps of a connection leave     *)
(* alone.                                                                  *)
Configs == [state : {"new", "loaded", "failed"}, password : Passwords, verifyPins : BOOLEAN,
            min : Nat]

(* The parts of the invariant, put together after a step.                  *)
LEMMA PartsAfter ==
    ASSUME ScenarioValid(options, server), UNCHANGED <<server, options>>,
           config' \in Configs, builds' \in 0..MaxBuilds,
           factory'.state \in {"none", "ready", "failed"},
           conn'.state \in {"none", "connecting", "no agreement", "rejected", "verified",
                            "sign failed", "up"},
           config'.state = "loaded" => /\ config'.verifyPins = options.pins.given
                                       /\ options.crl.given => options.crl.items # << >>,
           factory'.state = "ready" => Faithful(factory'),
           conn'.state # "none" => Faithful(conn'.tls),
           ConnTrusted(conn')
    PROVE  TlsConfigInv'
<1>1. TlsConfigTypeOK'
    BY DEF TlsConfigTypeOK, Configs
<1>2. TrustInv'
    <2>1. ScenarioValid(options', server')
        OBVIOUS
    <2>2. config'.state = "loaded" => /\ config'.verifyPins = options'.pins.given
                                      /\ options'.crl.given => options'.crl.items # << >>
        OBVIOUS
    <2>3. factory'.state = "ready" => Faithful(factory)'
        BY DEF Faithful
    <2>4. conn'.state # "none" => Faithful(conn.tls)'
        BY DEF Faithful
    <2>. QED  BY <2>1, <2>2, <2>3, <2>4 DEF TrustInv
<1>3. conn'.state # "none" => conn'.tls.asked = options
    BY DEF Faithful
<1>4. HandshakeTrusted'
    BY <1>3, TrustedAfter
<1>. QED  BY <1>1, <1>2, <1>4 DEF TlsConfigInv

(* One step per action.                                                    *)
LEMMA TlsConfigNextInv == TlsConfigInv /\ TlsConfigNext => TlsConfigInv'
<1>1. SUFFICES ASSUME TlsConfigInv, TlsConfigNext PROVE TlsConfigInv'
    OBVIOUS
<1>2. TlsConfigTypeOK /\ TrustInv /\ HandshakeTrusted
    BY <1>1 DEF TlsConfigInv
<1>3. /\ config \in Configs /\ builds \in 0..MaxBuilds
      /\ factory.state \in {"none", "ready", "failed"}
      /\ conn.state \in {"none", "connecting", "no agreement", "rejected", "verified",
                         "sign failed", "up"}
    BY <1>2 DEF TlsConfigTypeOK, Configs
<1>4. /\ ScenarioValid(options, server)
      /\ config.state = "loaded" => /\ config.verifyPins = options.pins.given
                                    /\ options.crl.given => options.crl.items # << >>
      /\ factory.state = "ready" => Faithful(factory)
      /\ conn.state # "none" => Faithful(conn.tls)
    BY <1>2 DEF TrustInv
<1>5. ConnTrusted(conn)
    BY <1>2, TrustedBefore
<1>6. options.min \in Nat /\ options.pins.given \in BOOLEAN
    BY <1>4 DEF ScenarioValid
<1>7. CASE Load
    <2>1. UNCHANGED <<server, options, factory, builds, conn>> /\ config.state = "new"
        BY <1>7 DEF Load
    <2>2. CASE TextsValid(options, config.password)
        <3>1. config' = [config EXCEPT !.state = "loaded", !.min = options.min,
                                       !.verifyPins = options.pins.given]
            BY <1>7, <2>2 DEF Load
        <3>2. config' \in Configs /\ config'.verifyPins = options.pins.given
            BY <1>3, <1>6, <3>1 DEF Configs
        <3>3. options.crl.given => options.crl.items # << >>
            BY <2>2 DEF TextsValid, Validate
        <3>. QED  BY <1>3, <1>4, <1>5, <2>1, <3>2, <3>3, PartsAfter
    <2>3. CASE ~TextsValid(options, config.password)
        <3>1. config' \in Configs /\ config'.state = "failed"
            BY <1>3, <1>7, <2>3 DEF Load, Configs
        <3>. QED  BY <1>3, <1>4, <1>5, <2>1, <3>1, PartsAfter
    <2>. QED  BY <2>2, <2>3
<1>8. ASSUME NEW p \in Passwords, SetPrivateKeyPassword(p) PROVE TlsConfigInv'
    <2>1. UNCHANGED <<server, options, factory, builds, conn>>
        BY <1>8 DEF SetPrivateKeyPassword
    <2>2. /\ config' \in Configs /\ config'.state = config.state
          /\ config'.verifyPins = config.verifyPins
        BY <1>3, <1>8 DEF SetPrivateKeyPassword, Configs
    <2>. QED  BY <1>3, <1>4, <1>5, <2>1, <2>2, PartsAfter
<1>9. CASE SetTlsVersionMin(TLS_VERSION_1_3)
    <2>1. UNCHANGED <<server, options, factory, builds, conn>>
        BY <1>9 DEF SetTlsVersionMin
    <2>2. /\ config' \in Configs /\ config'.state = config.state
          /\ config'.verifyPins = config.verifyPins
        BY <1>3, <1>9 DEF SetTlsVersionMin, Configs, TLS_VERSION_1_3
    <2>. QED  BY <1>3, <1>4, <1>5, <2>1, <2>2, PartsAfter
<1>10. CASE NewFactory
    <2>1. /\ UNCHANGED <<server, options, config, conn>> /\ config.state = "loaded"
          /\ builds' = builds + 1 /\ builds < MaxBuilds
        BY <1>10 DEF NewFactory
    <2>2. builds' \in 0..MaxBuilds
        <3>1. MaxBuilds \in Nat /\ builds \in 0..MaxBuilds /\ builds < MaxBuilds
            BY <1>3, <2>1, TlsConfigAssumption
        <3>. QED  BY <2>1, <3>1
    <2>3. CASE ConfigAccepted(options, config)
        <3>1. factory' = Built(options, config)
            BY <1>10, <2>3 DEF NewFactory
        <3>2. factory'.state = "ready" /\ Faithful(factory')
            <4>1. /\ factory'.asked = options /\ factory'.policy = options
                  /\ factory'.roots = options.ca.items /\ factory'.crls = options.crl.items
                  /\ factory'.pins = options.pins.items /\ factory'.state = "ready"
                  /\ factory'.min = config.min
                  /\ factory'.versions = ProtocolVersions(config.min, options.max)
                  /\ factory'.suites = ConfiguredSuites(options)
                  /\ factory'.groups = ConfiguredGroups(options)
                BY <3>1 DEF Built
            <4>2. factory'.verifyChain = ChainVerified(options, config)
                BY <3>1 DEF Built
            <4>3. factory'.verifyChain <=> ~options.noVerify \/ options.pins.given
                BY <1>4, <2>1, <4>2 DEF ChainVerified
            <4>4. config.min \in Nat /\ PolicyValid(options)
                BY <1>3, <2>3 DEF Configs, ConfigAccepted
            <4>5. factory'.localCert = options.localCert
                BY <3>1 DEF Built
            <4>6. ASSUME options.localCert, ~options.externalPki
                  PROVE  factory'.signer # {} /\ factory'.signer \subseteq options.cert.items
                <5>. DEFINE keys == KeysOpened(options.key, config.password)
                <5>1. factory'.signer = {k.id : k \in keys}
                    BY <3>1 DEF Built
                <5>2. /\ ParseKey(options.key, config.password)
                      /\ \A k \in options.key.items : k.id \in options.cert.items
                    BY <2>3, <4>6 DEF ConfigAccepted
                <5>3. keys # {} /\ keys \subseteq options.key.items
                    BY <5>2 DEF ParseKey, KeysOpened
                <5>. HIDE DEF keys
                <5>. QED  BY <5>1, <5>2, <5>3
            <4>. QED  BY <1>4, <2>1, <4>1, <4>3, <4>4, <4>5, <4>6 DEF Faithful
        <3>. QED  BY <1>3, <1>4, <1>5, <2>1, <2>2, <3>2, PartsAfter
    <2>4. CASE ~ConfigAccepted(options, config)
        <3>1. factory'.state = "failed"
            BY <1>10, <2>4 DEF NewFactory
        <3>. QED  BY <1>3, <1>4, <1>5, <2>1, <2>2, <3>1, PartsAfter
    <2>. QED  BY <2>3, <2>4
<1>11. CASE FreeFactory
    <2>1. UNCHANGED <<server, options, config, builds, conn>> /\ factory'.state = "none"
        BY <1>11 DEF FreeFactory, NoFactory
    <2>. QED  BY <1>3, <1>4, <1>5, <2>1, PartsAfter
<1>12. CASE \/ ConnectionNew \/ MeetServer \/ ConnectionFree
            \/ \E outcome \in SignOutcomes : AuthenticateClient(outcome)
    <2>1. /\ UNCHANGED <<server, options, config, factory, builds>>
          /\ conn'.state \in {"none", "connecting", "no agreement", "rejected", "verified",
                              "sign failed", "up"}
          /\ conn'.state # "none" => Faithful(conn'.tls)
          /\ ConnTrusted(conn')
        BY <1>2, <1>12, ConnStep
    <2>. QED  BY <1>3, <1>4, <2>1, PartsAfter
<1>. QED  BY <1>1, <1>7, <1>8, <1>9, <1>10, <1>11, <1>12 DEF TlsConfigNext

-----------------------------------------------------------------------------
(* The backend: a behaviour follows one of its parts.                      *)

(* What is not followed does not move.                                     *)
LEMMA TlsConfigStays == TlsConfigInv /\ UNCHANGED tlsConfigVars => TlsConfigInv'
<1>1. SUFFICES ASSUME TlsConfigInv, UNCHANGED tlsConfigVars PROVE TlsConfigInv'
    OBVIOUS
<1>2. UNCHANGED <<server, options, config, factory, builds, conn>>
    BY <1>1 DEF tlsConfigVars
<1>3. TlsConfigTypeOK /\ TrustInv /\ HandshakeTrusted
    BY <1>1 DEF TlsConfigInv
<1>4. /\ config \in Configs /\ builds \in 0..MaxBuilds
      /\ factory.state \in {"none", "ready", "failed"}
      /\ conn.state \in {"none", "connecting", "no agreement", "rejected", "verified",
                         "sign failed", "up"}
    BY <1>3 DEF TlsConfigTypeOK, Configs
<1>5. /\ ScenarioValid(options, server)
      /\ config.state = "loaded" => /\ config.verifyPins = options.pins.given
                                    /\ options.crl.given => options.crl.items # << >>
      /\ factory.state = "ready" => Faithful(factory)
      /\ conn.state # "none" => Faithful(conn.tls)
    BY <1>3 DEF TrustInv
<1>6. ConnTrusted(conn)
    BY <1>3, TrustedBefore
<1>. QED  BY <1>2, <1>4, <1>5, <1>6, PartsAfter

(* The same of the contexts and of the resolver.                           *)
LEMMA CryptoStays == CryptoInv /\ UNCHANGED cryptoVars => CryptoInv'
<1>1. SUFFICES ASSUME CryptoInv, UNCHANGED cryptoVars PROVE CryptoInv'
    OBVIOUS
<1>2. UNCHANGED <<kind, handle, heap, held, wire, result>>
    BY <1>1 DEF cryptoVars
<1>3. kind \in Kinds /\ HeapInv /\ WireInv /\ ResultExact
    BY <1>1, CryptoParts
<1>4. HeapInv' /\ ResultExact'
    BY <1>2, <1>3, HeapStays, ResultStays
<1>5. kind' \in Kinds /\ WireInv'
    BY <1>2, <1>3 DEF WireInv
<1>. QED  BY <1>4, <1>5 DEF CryptoInv, CryptoTypeOK, CryptoExact, HeapInv, WireInv

(* A resolver that is not followed.                                        *)
LEMMA ResolverStays == ResolverInv /\ UNCHANGED resolverVars => ResolverCore'
<1>1. SUFFICES ASSUME ResolverInv, UNCHANGED resolverVars PROVE ResolverCore'
    OBVIOUS
<1>2. UNCHANGED <<installed, runtime, lookup, built>> /\ ResolverCore
    BY <1>1, CoreHolds DEF resolverVars
<1>. QED  BY <1>2 DEF ResolverCore, ResolverTypeOK, RuntimeInv, AllExact, AnswerExact

(* The three parts, each with its own invariant.                           *)
Parts == TlsConfigInv /\ CryptoInv /\ ResolverCore

(* The parts of the backend, together and for good.                        *)
LEMMA BackendParts == BackendSpec => []Parts
<1>1. BackendInit => Parts
    BY TlsConfigInitInv, CryptoInitInv, ResolverInitInv, CoreHolds DEF BackendInit, Parts
<1>2. Parts /\ [BackendNext]_vars => Parts'
    <2>1. SUFFICES ASSUME Parts, [BackendNext]_vars PROVE Parts'
        OBVIOUS
    <2>2. TlsConfigInv /\ CryptoInv /\ ResolverInv
        BY <2>1, CoreSuffices DEF Parts
    <2>3. TlsConfigNext \/ UNCHANGED tlsConfigVars
        BY <2>1 DEF BackendNext, vars
    <2>4. CryptoNext \/ UNCHANGED cryptoVars
        BY <2>1 DEF BackendNext, vars
    <2>5. ResolverNext \/ UNCHANGED resolverVars
        BY <2>1 DEF BackendNext, vars
    <2>6. TlsConfigInv'
        BY <2>2, <2>3, TlsConfigNextInv, TlsConfigStays
    <2>7. CryptoInv'
        BY <2>2, <2>4, CryptoNextInv, CryptoStays
    <2>8. ResolverCore'
        BY <2>2, <2>5, ResolverNextCore, ResolverStays
    <2>. QED  BY <2>6, <2>7, <2>8 DEF Parts
<1>. QED  BY <1>1, <1>2, PTL DEF BackendSpec

(* BackendInv holds in every state: the types, the handles of the crypto   *)
(* contexts, each freed once and by its owner, and a DNS runtime that one  *)
(* thread builds once, every answer being of its own host.                 *)
THEOREM BackendInvariant == BackendSpec => []BackendInv
<1>1. Parts => BackendInv
    BY CoreSuffices DEF Parts, BackendInv, TlsConfigInv, CryptoInv
<1>. QED  BY <1>1, BackendParts, PTL

(* A finished handshake is with a server the options trust, for their      *)
(* purposes and under their name, in the ranges of versions, suites and    *)
(* groups asked; its signature was made, with a key that the password      *)
(* opened and that belongs to the certificate; a rejected server is one    *)
(* they do not trust.  For every profile and every server, any number of   *)
(* revocation lists of any issuers included.                               *)
THEOREM BackendHandshakeTrusted == BackendSpec => []HandshakeTrusted
<1>1. Parts => HandshakeTrusted
    BY DEF Parts, TlsConfigInv
<1>. QED  BY <1>1, BackendParts, PTL

(* Every result of a crypto context is made with the key, the direction,   *)
(* the IV and the input its callers gave it last, and with nothing else.   *)
THEOREM BackendCryptoExact == BackendSpec => []CryptoExact
<1>1. Parts => CryptoExact
    BY DEF Parts, CryptoInv
<1>. QED  BY <1>1, BackendParts, PTL
=============================================================================
