------------------------------ MODULE Resolver -------------------------------
(***************************************************************************)
(* Name resolution and the registration of the Rust backend:               *)
(* openvpn-connect-sys/src/rust_backend.rs, with RustResolver of           *)
(* rust_resolver.hpp and the table bridge.cpp keeps.  Clients register the *)
(* backend, once in a process; Core's resolver threads then ask for names. *)
(* The first of them builds the DNS runtime while the others wait, and     *)
(* what it got, runtime or error, stays for the life of the process.       *)
(* The runtime, the DNS and Core's threads are the environment.            *)
(***************************************************************************)
EXTENDS Integers, Sequences, FiniteSets

CONSTANTS
    Threads,      \* Core's resolver threads
    Literals,     \* hosts that are IP addresses, each with its address
    Names,        \* hosts that are looked up
    MaxAddresses, \* bound on the addresses a lookup finds
    Capacity      \* entries of the buffer RustResolver lends

ASSUME ResolverAssumption == MaxAddresses \in Nat /\ Capacity \in Nat \ {0}

VARIABLES
    installed,  \* INSTALL and the table kept by bridge.cpp
    runtime,    \* RESOLVER
    lookup,     \* each thread's call: its host and where it stands
    built       \* how often a runtime was built
resolverVars == <<installed, runtime, lookup, built>>

Idle == [at |-> "idle"]
Hosts == Literals \cup Names

(* An address is known by its host and its place in the answer; encoding   *)
(* keeps the family and the octets.                                        *)
Addresses(host, n) == [i \in 1..n |-> <<host, i>>]

InstallOnce == installed' = IF installed = 0 THEN 1 ELSE installed
Install == InstallOnce /\ UNCHANGED <<runtime, lookup, built>>

Answered(host, ok, addresses) ==
    [at |-> "answered", host |-> host, ok |-> ok, addresses |-> addresses]

(* RustResolver: an error, or an answer without a single address, is       *)
(* host_not_found.                                                         *)
Truncated(addresses) == SubSeq(addresses, 1, IF Len(addresses) < Capacity THEN Len(addresses)
                                                                      ELSE Capacity)
Resolved(host, addresses) ==
    Answered(host, addresses # << >>, Truncated(addresses))
NotFound(host) == Answered(host, FALSE, << >>)

(* A service that is not a port is invalid_argument, and nobody is asked.  *)
InvalidArgument(host) == [at |-> "refused", host |-> host]

(* A client is created, and so the backend registered, before Core runs.   *)
Resolve(t, host, isPort) ==
    /\ installed > 0 /\ lookup[t].at = "idle"
    /\ lookup' = [lookup EXCEPT ![t] =
                     IF ~isPort THEN InvalidArgument(host)
                     ELSE IF host \in Literals THEN Resolved(host, Addresses(host, 1))
                     ELSE [at |-> "runtime", host |-> host]]
    /\ UNCHANGED <<installed, runtime, built>>

(* get_or_init: one thread runs the closure, the rest wait for it.         *)
RuntimeBuild(t) ==
    /\ lookup[t].at = "runtime" /\ runtime = "unset"
    /\ runtime' = "building"
    /\ lookup' = [lookup EXCEPT ![t].at = "building"]
    /\ UNCHANGED <<installed, built>>

RuntimeBuilt(t) ==
    /\ lookup[t].at = "building"
    /\ runtime' \in {"ready", "failed"}
    /\ built' = built + 1
    /\ lookup' = [lookup EXCEPT ![t].at = "runtime"]
    /\ UNCHANGED installed

Spawn(t) ==
    /\ lookup[t].at = "runtime" /\ runtime \in {"ready", "failed"}
    /\ lookup' = [lookup EXCEPT ![t] =
                     IF runtime = "failed" THEN NotFound(lookup[t].host)
                     ELSE [at |-> "waiting", host |-> lookup[t].host]]
    /\ UNCHANGED <<installed, runtime, built>>

(* The task sends what it found, or is dropped with its sender.            *)
LookupDone(t) ==
    /\ lookup[t].at = "waiting"
    /\ \/ \E n \in 0..MaxAddresses :
            lookup' = [lookup EXCEPT ![t] =
                          Resolved(lookup[t].host, Addresses(lookup[t].host, n))]
       \/ lookup' = [lookup EXCEPT ![t] = NotFound(lookup[t].host)]
    /\ UNCHANGED <<installed, runtime, built>>

Return(t) ==
    /\ lookup[t].at \in {"answered", "refused"}
    /\ lookup' = [lookup EXCEPT ![t] = Idle]
    /\ UNCHANGED <<installed, runtime, built>>

ResolverInit ==
    /\ installed = 0
    /\ runtime = "unset"
    /\ lookup = [t \in Threads |-> Idle]
    /\ built = 0

ResolverNext ==
    \/ Install
    \/ \E t \in Threads :
          \/ \E host \in Hosts, isPort \in BOOLEAN : Resolve(t, host, isPort)
          \/ RuntimeBuild(t) \/ RuntimeBuilt(t) \/ Spawn(t) \/ LookupDone(t) \/ Return(t)

-----------------------------------------------------------------------------
Pending == [at : {"runtime", "building", "waiting"}, host : Hosts \ Literals]
Answers == [at : {"answered"}, host : Hosts, ok : BOOLEAN, addresses : Seq(Hosts \X Nat)]
Refusals == [at : {"refused"}, host : Hosts]

ResolverTypeOK ==
    /\ installed \in 0..1 /\ built \in 0..1
    /\ runtime \in {"unset", "building", "ready", "failed"}
    /\ lookup \in [Threads -> {Idle} \cup Pending \cup Answers \cup Refusals]

(* Where RESOLVER stands says who may be where: get_or_init has one        *)
(* builder, and only a runtime that was built has lookups to wait for.     *)
RuntimeInv ==
    /\ built = IF runtime \in {"ready", "failed"} THEN 1 ELSE 0
    /\ runtime = "building" <=> \E t \in Threads : lookup[t].at = "building"
    /\ \A t, u \in Threads : lookup[t].at = "building" /\ lookup[u].at = "building" => t = u
    /\ \A t \in Threads : lookup[t].at = "waiting" => runtime = "ready"

(* The DNS runtime is built by one thread at a time and once for good; a   *)
(* literal address never depends on it; and a call that succeeds has at    *)
(* least one address and only addresses of its own host, first ones first, *)
(* within the buffer it lent.                                              *)
LookupsAnswered ==
    /\ Cardinality({t \in Threads : lookup[t].at = "building"}) + built <= 1
    /\ runtime = "failed" => \A t \in Threads : lookup[t].at # "waiting"
    /\ \A t \in Threads : lookup[t].at = "answered" =>
          LET l == lookup[t] IN
          /\ l.host \in Literals => l.ok /\ l.addresses = << <<l.host, 1>> >>
          /\ l.ok => Len(l.addresses) \in 1..Capacity
          /\ l.addresses = Addresses(l.host, Len(l.addresses))

(* The invariant of the resolver: LookupsAnswered rests on RuntimeInv.     *)
ResolverInv == ResolverTypeOK /\ RuntimeInv /\ LookupsAnswered
=============================================================================
