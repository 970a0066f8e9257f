--------------------------- MODULE TlsConnection ----------------------------
(***************************************************************************)
(* One TLS session of the Rust backend: RustTLSContext::SSL of             *)
(* openvpn-connect-sys/src/rust_tls.hpp over TlsConnection of              *)
(* openvpn-connect-sys/src/rust_backend/tls.rs.                            *)
(*                                                                         *)
(* Core feeds the peer's ciphertext in pieces as control packets arrive,   *)
(* reads plaintext while the adapter says it is ready, writes plaintext at *)
(* any time (also before the handshake is complete) and takes ciphertext   *)
(* out in frame-sized pieces.  rustls is external, by its documented       *)
(* interface; so are the peer and the order in which Core calls.  All      *)
(* calls for one session come from one thread.                             *)
(***************************************************************************)
EXTENDS Integers, Sequences, SequencesExt

CONSTANTS
    MaxIn,      \* bound on the records of the peer
    MaxOut,     \* bound on the writes of Core
    MaxChunk    \* bound on the pieces of ciphertext and plaintext

ASSUME TlsAssumption ==
    MaxIn \in Nat /\ MaxOut \in Nat /\ MaxChunk \in Nat \ {0}

VARIABLES
    wire,              \* ciphertext of the peer not yet fed
    peer,              \* what the peer has sent: records, units, and whether it closed
    handle,            \* the session object: open, failed (an exception reached Core), freed
    call,              \* inside which call of the adapter the thread is
    deframer,          \* rustls: ciphertext read but not processed
    handshaking,       \* rustls: is_handshaking
    received,          \* rustls: decrypted plaintext not yet read
    close_received,    \* rustls: the peer's close_notify was processed
    buffered,          \* rustls: plaintext written before the handshake was complete
    sendable,          \* rustls: records to be sent
    ciphertext,        \* TlsConnection.ciphertext
    plaintext_ready,   \* TlsConnection.plaintext_ready
    peer_closed,       \* TlsConnection.peer_closed
    full_handshake_reported,  \* SSL.full_handshake_reported_
    authcert,          \* SSL.authcert: none, empty or the peer's
    got,               \* history: what Core has read
    close_reported,    \* history: Core was told PEER_CLOSE_NOTIFY
    written,           \* how many units Core has written
    net                \* history: the ciphertext Core has taken out

rustls == <<deframer, handshaking, received, close_received, buffered, sendable>>
adapter == <<ciphertext, plaintext_ready, peer_closed, full_handshake_reported, authcert>>
history == <<got, close_reported, written, net>>
tlsVars == <<wire, peer, handle, call, rustls, adapter, history>>

-----------------------------------------------------------------------------
(* A record of the peer is two pieces of ciphertext, so that it can be cut *)
(* by a packet boundary.  Its unit is the number of a piece of plaintext,  *)
(* 0 for the close.                                                        *)
Kinds == {"flight", "data", "close", "bad"}
Pieces == [kind : Kinds, part : {1, 2}, unit : Nat]
Record(kind, unit) == <<[kind |-> kind, part |-> 1, unit |-> unit],
                        [kind |-> kind, part |-> 2, unit |-> unit]>>

(* What the client sends: ClientHello, its last handshake flight, and the  *)
(* numbered units of plaintext.                                            *)
Hello == -1
Finished == 0
Out == {Hello, Finished} \cup (1..MaxOut)

TlsTypeOK ==
    /\ wire \in Seq(Pieces)
    /\ peer \in [records : 0..MaxIn, units : 0..MaxIn, closed : BOOLEAN]
    /\ handle \in {"open", "failed", "freed"}
    /\ call \in {"idle", "process_new_packets", "sign"}
    /\ deframer \in Seq(Pieces)
    /\ handshaking \in BOOLEAN
    /\ received \in Seq(Nat)
    /\ close_received \in BOOLEAN
    /\ buffered \in Seq(1..MaxOut)
    /\ sendable \in Seq(Out)
    /\ ciphertext \in Seq(Out)
    /\ plaintext_ready \in Nat
    /\ peer_closed \in BOOLEAN
    /\ full_handshake_reported \in BOOLEAN
    /\ authcert \in {"none", "empty", "peer"}
    /\ got \in Seq(Nat)
    /\ close_reported \in BOOLEAN
    /\ written \in 0..MaxOut
    /\ net \in Seq(Out)

(* connection_new: rustls queues ClientHello at once.                      *)
TlsInit ==
    /\ wire = <<>>
    /\ peer = [records |-> 0, units |-> 0, closed |-> FALSE]
    /\ handle = "open"
    /\ call = "idle"
    /\ deframer = <<>> /\ handshaking = TRUE
    /\ received = <<>> /\ close_received = FALSE
    /\ buffered = <<>> /\ sendable = <<Hello>>
    /\ ciphertext = <<>> /\ plaintext_ready = 0 /\ peer_closed = FALSE
    /\ full_handshake_reported = FALSE /\ authcert = "none"
    /\ got = <<>> /\ close_reported = FALSE /\ written = 0 /\ net = <<>>

Callable == handle = "open" /\ call = "idle"

(* An error of the adapter becomes an exception; Core gives the session up *)
Throws == handle' = "failed" /\ call' = "idle"

-----------------------------------------------------------------------------
(* The peer: its handshake flight, then data, perhaps a close.  A record   *)
(* that does not decrypt may come at any time, also after the close.       *)
PeerRecord(kind) ==
    /\ peer.records < MaxIn
    /\ peer.closed => kind = "bad"
    /\ kind \in {"data", "close"} => peer.records > 0
    /\ kind = "flight" => peer.records = 0
    /\ LET unit == IF kind = "data" THEN peer.units + 1 ELSE 0 IN
         /\ wire' = wire \o Record(kind, unit)
         /\ peer' = [records |-> peer.records + 1,
                     units |-> IF kind = "data" THEN unit ELSE peer.units,
                     closed |-> peer.closed \/ kind = "close"]
    /\ UNCHANGED <<handle, call, rustls, adapter, history>>

-----------------------------------------------------------------------------
(* Ciphertext in.                                                          *)

(* write_ciphertext: read_tls takes the piece, or nothing once the close   *)
(* was received, which the SSL object reports as an overflow.              *)
WriteCiphertext(k) ==
    /\ Callable /\ k \in 1..Len(wire)
    /\ wire' = SubSeq(wire, k + 1, Len(wire))
    /\ IF close_received
       THEN Throws /\ UNCHANGED deframer
       ELSE /\ deframer' = deframer \o SubSeq(wire, 1, k)
            /\ call' = "process_new_packets"
            /\ UNCHANGED handle
    /\ UNCHANGED <<peer, handshaking, received, close_received, buffered,
                   sendable, adapter, history>>

Processing == call = "process_new_packets"
RecordDue(kind) == Processing /\ Len(deframer) > 1 /\ Head(deframer).kind = kind
RestOfDeframer == SubSeq(deframer, 3, Len(deframer))

(* The peer's flight: its certificate is verified and accepted.            *)
VerifyServerCert ==
    /\ RecordDue("flight")
    /\ call' = "sign"
    /\ deframer' = RestOfDeframer
    /\ UNCHANGED <<wire, peer, handle, handshaking, received, close_received,
                   buffered, sendable, adapter, history>>

(* The handshake is signed, if need be by the application's external PKI   *)
(* in the middle of this call; what Core wrote early follows it.           *)
SignHandshake ==
    /\ call = "sign"
    /\ call' = "process_new_packets"
    /\ handshaking' = FALSE
    /\ sendable' = Append(sendable, Finished) \o buffered
    /\ buffered' = <<>>
    /\ UNCHANGED <<wire, peer, handle, deframer, received, close_received,
                   adapter, history>>

SignFails ==
    /\ call = "sign"
    /\ Throws
    /\ UNCHANGED <<wire, peer, rustls, adapter, history>>

(* Verification refused, no decryption, or data before the handshake:      *)
(* process_new_packets returns an error.  plaintext_ready and peer_closed  *)
(* keep their old values.                                                  *)
ProcessFails ==
    /\ \/ RecordDue("flight")
       \/ RecordDue("bad")
       \/ (RecordDue("data") \/ RecordDue("close")) /\ handshaking
    /\ Throws
    /\ deframer' = RestOfDeframer
    /\ UNCHANGED <<wire, peer, handshaking, received, close_received, buffered,
                   sendable, adapter, history>>

ProcessData ==
    /\ RecordDue("data") /\ ~handshaking
    /\ received' = Append(received, Head(deframer).unit)
    /\ deframer' = RestOfDeframer
    /\ UNCHANGED <<wire, peer, handle, call, handshaking, close_received,
                   buffered, sendable, adapter, history>>

ProcessClose ==
    /\ RecordDue("close") /\ ~handshaking
    /\ close_received' = TRUE
    /\ deframer' = <<>>
    /\ UNCHANGED <<wire, peer, handle, call, handshaking, received, buffered,
                   sendable, adapter, history>>

(* The state rustls reports is copied into the adapter.                    *)
ProcessDone ==
    /\ Processing /\ Len(deframer) < 2
    /\ plaintext_ready' = Len(received)
    /\ peer_closed' = close_received
    /\ call' = "idle"
    /\ UNCHANGED <<wire, peer, handle, rustls, ciphertext,
                   full_handshake_reported, authcert, history>>

-----------------------------------------------------------------------------
(* Plaintext out.                                                          *)

PlaintextCounted == plaintext_ready # 0

(* read_cleartext_ready, on which Core's reading loop depends.             *)
PlaintextReady == plaintext_ready # 0 \/ peer_closed

Least(a, b) == IF a < b THEN a ELSE b

ReadPlaintextForgets(k) ==
    /\ Callable /\ received # <<>>
    /\ LET n == Least(k, Len(received)) IN
         /\ got' = got \o SubSeq(received, 1, n)
         /\ received' = SubSeq(received, n + 1, Len(received))
         /\ plaintext_ready' = 0
    /\ UNCHANGED <<wire, peer, handle, call, deframer, handshaking, close_received,
                   buffered, sendable, ciphertext, peer_closed,
                   full_handshake_reported, authcert, close_reported, written, net>>

(* read_cleartext into a buffer for k units.  With nothing to read it is   *)
(* SHOULD_RETRY and nothing changes.                                       *)
ReadPlaintext(k) ==
    /\ Callable /\ received # <<>>
    /\ LET n == Least(k, Len(received)) IN
         /\ got' = got \o SubSeq(received, 1, n)
         /\ received' = SubSeq(received, n + 1, Len(received))
         /\ plaintext_ready' = IF n > plaintext_ready THEN 0 ELSE plaintext_ready - n
    /\ UNCHANGED <<wire, peer, handle, call, deframer, handshaking, close_received,
                   buffered, sendable, ciphertext, peer_closed,
                   full_handshake_reported, authcert, close_reported, written, net>>

ReadCloseFirst ==
    /\ Callable /\ peer_closed /\ ~close_reported
    /\ close_reported' = TRUE
    /\ UNCHANGED <<wire, peer, handle, call, rustls, adapter, got, written, net>>

(* ... and once the peer closed, PEER_CLOSE_NOTIFY when all has been read. *)
ReadClose ==
    /\ Callable /\ received = <<>> /\ peer_closed /\ ~close_reported
    /\ close_reported' = TRUE
    /\ UNCHANGED <<wire, peer, handle, call, rustls, adapter, got, written, net>>

-----------------------------------------------------------------------------
(* The sending side.                                                       *)

(* write_cleartext: rustls encrypts, or keeps it for after the handshake.  *)
WritePlaintext ==
    /\ Callable /\ written < MaxOut
    /\ written' = written + 1
    /\ IF handshaking
       THEN buffered' = Append(buffered, written + 1) /\ UNCHANGED sendable
       ELSE sendable' = Append(sendable, written + 1) /\ UNCHANGED buffered
    /\ UNCHANGED <<wire, peer, handle, call, deframer, handshaking, received,
                   close_received, adapter, got, close_reported, net>>

CiphertextQueued == ciphertext # <<>>

(* read_ciphertext_ready.                                                  *)
CiphertextReady == ciphertext # <<>> \/ sendable # <<>>

ReadCiphertextReplaces(k) ==
    /\ Callable /\ CiphertextReady
    /\ LET taken == IF sendable # <<>> THEN sendable ELSE ciphertext
           n == Least(k, Len(taken)) IN
         /\ net' = net \o SubSeq(taken, 1, n)
         /\ ciphertext' = SubSeq(taken, n + 1, Len(taken))
    /\ sendable' = <<>>
    /\ UNCHANGED <<wire, peer, handle, call, deframer, handshaking, received,
                   close_received, buffered, plaintext_ready, peer_closed,
                   full_handshake_reported, authcert, got, close_reported, written>>

(* read_ciphertext into a frame for k pieces: an empty queue is refilled   *)
(* from rustls, then the frame is filled from the queue.                   *)
ReadCiphertext(k) ==
    /\ Callable /\ CiphertextReady
    /\ LET refill == ciphertext = <<>>
           taken == IF refill THEN sendable ELSE ciphertext
           n == Least(k, Len(taken)) IN
         /\ net' = net \o SubSeq(taken, 1, n)
         /\ ciphertext' = SubSeq(taken, n + 1, Len(taken))
         /\ sendable' = IF refill THEN <<>> ELSE sendable
    /\ UNCHANGED <<wire, peer, handle, call, deframer, handshaking, received,
                   close_received, buffered, plaintext_ready, peer_closed,
                   full_handshake_reported, authcert, got, close_reported, written>>

-----------------------------------------------------------------------------
(* Queries that change the SSL object, and its end.                        *)

DidFullHandshake ==
    /\ Callable /\ ~handshaking /\ ~full_handshake_reported
    /\ full_handshake_reported' = TRUE
    /\ UNCHANGED <<wire, peer, handle, call, rustls, ciphertext, plaintext_ready,
                   peer_closed, authcert, history>>

(* The answer is cached, also the one given before there was a peer.       *)
AuthCert ==
    /\ Callable /\ authcert = "none"
    /\ authcert' = IF handshaking THEN "empty" ELSE "peer"
    /\ UNCHANGED <<wire, peer, handle, call, rustls, ciphertext, plaintext_ready,
                   peer_closed, full_handshake_reported, history>>

FreeConnection ==
    /\ handle # "freed" /\ call = "idle"
    /\ handle' = "freed"
    /\ UNCHANGED <<wire, peer, call, rustls, adapter, history>>

-----------------------------------------------------------------------------
Process ==
    \/ VerifyServerCert \/ SignHandshake \/ SignFails
    \/ ProcessFails \/ ProcessData \/ ProcessClose \/ ProcessDone

(* Core's loops: read what is ready, and send what is ready.               *)
ReadLoop ==
    PlaintextReady /\ (ReadClose \/ \E k \in 1..MaxChunk : ReadPlaintext(k))
SendLoop == CiphertextReady /\ \E k \in 1..MaxChunk : ReadCiphertext(k)

TlsNext ==
    \/ \E kind \in Kinds : PeerRecord(kind)
    \/ \E k \in 1..MaxChunk : WriteCiphertext(k)
    \/ Process \/ ReadLoop \/ SendLoop
    \/ WritePlaintext \/ DidFullHandshake \/ AuthCert \/ FreeConnection

TlsSpec == TlsInit /\ [][TlsNext]_tlsVars

(* Calls return, and Core goes on reading and sending while it is told     *)
(* that there is something.                                                *)
TlsFairSpec ==
    TlsSpec /\ WF_tlsVars(Process) /\ SF_tlsVars(ReadLoop) /\ SF_tlsVars(SendLoop)

-----------------------------------------------------------------------------
(* Properties.                                                             *)

(* The adapter's copies agree with rustls between two calls: Core reads    *)
(* only while told so, hence a count too low would strand plaintext.       *)
ReadyExact ==
    Callable => plaintext_ready = Len(received) /\ peer_closed = close_received

(* A call ends where it began; nothing is read, and nothing follows, after *)
(* a close; and the peer's flight is signed for once.                      *)
CallsInv ==
    /\ call # "idle" => handle = "open"
    /\ call = "sign" => handshaking /\ ~close_received
    /\ close_received => deframer = <<>> /\ ~handshaking
    /\ peer_closed => close_received
    /\ close_reported => received = <<>> /\ peer_closed

(* The ciphertext that rustls may still process is cut in whole records,   *)
(* the handshake's flight first, the close after all data, and the data in *)
(* order and without gaps from where decryption stands.                    *)
coming == deframer \o wire
decrypted == Len(got) + Len(received)
Live == handle = "open" /\ ~close_received

Framed(s) ==
    s # <<>> => /\ s[1].part = 1 /\ s[Len(s)].part = 2
                /\ \A i \in 1..(Len(s) - 1) : s[i].part # s[i + 1].part

Begins(s, i, kind) == i \in DOMAIN s /\ s[i].part = 1 /\ s[i].kind = kind

Ordered(s, from, to) ==
    /\ \A i \in DOMAIN s : Begins(s, i, "data") => s[i].unit \in (from + 1)..to
    /\ \A i, j \in DOMAIN s :
          Begins(s, i, "data") /\ Begins(s, j, "data") /\ i < j => s[i].unit < s[j].unit
    /\ \A u \in (from + 1)..to : \E i \in DOMAIN s : Begins(s, i, "data") /\ s[i].unit = u
    /\ \A i, j \in DOMAIN s : Begins(s, i, "data") /\ Begins(s, j, "close") => i < j

ComingInv ==
    Live =>
      /\ Framed(coming) /\ Ordered(coming, decrypted, peer.units)
      /\ \A i \in DOMAIN coming : Begins(coming, i, "close") => peer.closed
      /\ \A i \in DOMAIN coming :
            Begins(coming, i, "flight") => i = 1 /\ handshaking /\ call # "sign"
      /\ peer.records = 0 => coming = <<>> /\ handshaking /\ call = "idle"

ReceivedInv ==
    /\ peer.units <= peer.records
    /\ decrypted <= peer.units
    /\ \A i \in DOMAIN received : received[i] = Len(got) + i
    /\ close_received => peer.closed /\ decrypted = peer.units

(* What has gone out, by the state of the handshake.                       *)
Numbers(n) == [i \in 1..n |-> i]
SendInv ==
    IF handshaking
    THEN net \o ciphertext \o sendable = <<Hello>> /\ buffered = Numbers(written)
    ELSE net \o ciphertext \o sendable = <<Hello, Finished>> \o Numbers(written)
         /\ buffered = <<>>

TlsInv ==
    TlsTypeOK /\ ReadyExact /\ CallsInv /\ ComingInv /\ ReceivedInv /\ SendInv

(* The receiving side is the stream Core expects: the units after those    *)
(* that were read, and the close.                                          *)
unread == [i \in 1..(peer.units - Len(got)) |-> Len(got) + i]

pipe ==
    IF close_reported \/ handle # "open" THEN <<>>
    ELSE unread \o (IF peer.closed THEN <<0>> ELSE <<>>)

ended ==
    IF close_reported THEN "closed" ELSE IF handle = "open" THEN "open" ELSE "broken"

Stream == INSTANCE TlsStream WITH sent <- peer.units

(* read_cleartext gives the peer's plaintext in order and without gaps,    *)
(* and reports PEER_CLOSE_NOTIFY only after all of it, however records and *)
(* packets are cut and however reads and writes interleave.                *)
StreamSpec == Stream!StreamSpec

(* What Core writes leaves in the order written, none of it lost or        *)
(* repeated between rustls and the ciphertext queue, and after the         *)
(* handshake's last flight.                                                *)
SentInOrder ==
    net \o ciphertext \o sendable \o buffered =
        <<Hello>> \o (IF handshaking THEN <<>> ELSE <<Finished>>) \o Numbers(written)

(* Plaintext that was decrypted is read, though more ciphertext and writes *)
(* come in between, unless the session fails or is dropped.                *)
PlaintextIsRead == (received # <<>>) ~> (received = <<>> \/ handle # "open")

(* Core is told of the peer's close.                                       *)
CloseIsReported == close_received ~> (close_reported \/ handle # "open")

(* Every unit Core wrote, before the handshake was complete or after, is   *)
(* sent once it is, unless the session fails or is dropped.                *)
WrittenIsSent ==
    \A n \in 1..MaxOut :
        (written >= n /\ ~handshaking) ~> (handle # "open" \/ Contains(net, n))
=============================================================================
