----------------------------- MODULE TlsStream ------------------------------
(***************************************************************************)
(* What Core expects of a TLS session's receiving side (SSLAPI): the       *)
(* peer's plaintext, in order and without gaps, then its close; or a       *)
(* failure, after which nothing is delivered.  No buffers, no records.     *)
(***************************************************************************)
EXTENDS Naturals, Sequences

VARIABLES
    sent,    \* how many units of plaintext the peer has produced
    pipe,    \* what the peer produced and Core has not yet seen
    got,     \* what Core has read
    ended    \* how the session ended for Core

streamVars == <<sent, pipe, got, ended>>

Close == 0   \* the peer's close, among the units 1, 2, ...

StreamInit == sent = 0 /\ pipe = <<>> /\ got = <<>> /\ ended = "open"

Open == ended = "open"
Enters(unit) == pipe' = IF Open THEN Append(pipe, unit) ELSE pipe

PeerSends ==
    /\ sent' = sent + 1
    /\ Enters(sent + 1)
    /\ UNCHANGED <<got, ended>>

PeerCloses ==
    /\ Enters(Close)
    /\ UNCHANGED <<sent, got, ended>>

Receive(k) ==
    /\ Open /\ k \in 1..Len(pipe)
    /\ \A i \in 1..k : pipe[i] # Close
    /\ got' = got \o SubSeq(pipe, 1, k)
    /\ pipe' = SubSeq(pipe, k + 1, Len(pipe))
    /\ UNCHANGED <<sent, ended>>

(* Core learns of the close only after everything before it.               *)
ReceiveClose ==
    /\ Open /\ pipe # <<>> /\ Head(pipe) = Close
    /\ pipe' = <<>> /\ ended' = "closed"
    /\ UNCHANGED <<sent, got>>

Break ==
    /\ Open
    /\ pipe' = <<>> /\ ended' = "broken"
    /\ UNCHANGED <<sent, got>>

StreamNext ==
    \/ PeerSends \/ PeerCloses \/ ReceiveClose \/ Break
    \/ \E k \in 1..Len(pipe) : Receive(k)

StreamSpec == StreamInit /\ [][StreamNext]_streamVars
=============================================================================
