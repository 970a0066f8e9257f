# A TLA+ model of openvpn-connect-rs

`openvpn-connect-rs` is a Rust client library around OpenVPN 3 Core. This
project models the parts of it that carry its own logic: the synchronous
client, the Tokio client with its sessions, the two reverse paths through which
application threads reach Core (custom transport, custom tunnel), the callbacks
through which Core reaches the application, and the Rust backend with its TLS
configuration, TLS sessions, crypto contexts and resolver. OpenVPN Core itself,
Asio, Tokio, rustls, webpki and the cryptographic primitives are external; they
are modelled by what the code in the repository relies on.

## The system

| Component | State it keeps | Operations | Hard because |
|---|---|---|---|
| Synchronous client (`client.rs`, `native.rs`, `RustClient` in `bridge.cpp`) | lifecycle under a mutex, atomic `stop_requested`, reference count, the native client with its stored `started` callback | clone, evaluate, provide_credentials, connect, stop, drop | clones on several threads; stop races connect; last drop races everything; callback on the connecting thread's stack |
| Tokio client (`tokio.rs`) | `setup` mutex, `session_active`, worker, driver, bounded command channel, token, oneshots | evaluate, provide_credentials, connect, requests, stop, cancel, drop of any future | every future may be dropped at every await; four places call `core.stop()`; bounded channel |
| External transport (`external_transport.rs`, `bridge.cpp`) | per connection: mutex, parent pointer, io_context pointer, handles | start, stop, reparent, destroy; posts and queries from any thread | closures outlive their connection; queries race the destructor; stop joins threads |
| External tunnel (`external_tun.rs`, `bridge.cpp`) | the same with a recursive mutex | start, callbacks, stop, destroy; calls run inline or queued | re-entrancy; `connected()` must precede queued packets; stop joins threads |
| Session controls | none of their own | pause, resume, reconnect, control messages, statistics, certificate checks | a long command delays cancellation |
| Callback FFI (`native.rs`, overrides in `bridge.cpp`) | the boxed handler | events, PKI, remotes, TUN builder, external transport and tunnel | panics, missing interfaces and inherited methods become defaults, written in three places |
| Async callback bridge, event streams (`tokio.rs`) | bounded broadcast channels | subscribe, send, block_on | slow readers lose events; a callback blocks Core's thread while it awaits its own session |
| Rust TLS configuration (`rust_backend/tls.rs`, `rust_tls.hpp`) | options, flags, password, verifier, policy, signing key | load, setters, build a context, verify, sign | flags, emptiness and defaults combine in several places; settings change between validation and use |
| Rust TLS sessions (the same files) | rustls connection, plaintext and ciphertext buffers, verification result | feed and drain both sides | copies of rustls' state go stale; close and buffered data; records cut by packets; signing calls the application in mid-call |
| Rust crypto (`rust_backend/crypto.rs`, `rust_crypto.hpp`) | cipher, digest and MAC contexts | init, move, reset, update, final, encrypt, decrypt | handles owned by movable C++ objects; input collected until final(); failure told by a length of zero |
| Resolver (`rust_backend.rs`, `rust_resolver.hpp`) | one process-wide table and runtime | install, resolve | concurrent first lookups; a failed creation is cached |
| Types, errors, build scripts | none | conversions | |

Interactions: the Tokio client calls the synchronous one from blocking threads,
from its driver and from tasks that cancel; the synchronous client enters Core
on the calling thread, and Core calls back on that thread (which is also Core's
I/O thread); handles of the reverse paths post closures to that thread's event
loop, or, for transport queries, call Core's object directly.

## Modules

| Module | Models | Uses |
|---|---|---|
| `Client` | synchronous client and native client | |
| `Session` | Tokio client; its client steps *are* `Client` actions taken by the threads `Worker`, `Driver`, `Blocking` and the tasks | `Client` |
| `ExternalTransport` | transport reverse path | |
| `ExternalTun`, `MCExternalTun` | tunnel reverse path | |
| `TlsStream` | abstract: the stream Core expects of a TLS session | |
| `TlsConnection` | `SSL` of `rust_tls.hpp` over `TlsConnection` of `tls.rs` | `TlsStream` |
| `Callbacks` | overrides, trampolines, traits, `BroadcastHandler`, `AsyncHandlerBridge`, streams | |
| `TlsConfig` | `RustTLSContext::Config`, `config_new`, verifier, policy, external signing | |
| `CryptoContext` | contexts of `rust_crypto.hpp` over the handles of `crypto.rs` | |
| `Resolver` | `rust_backend.rs` and `RustResolver` | |
| `MCRustBackend` | the scenarios for the last three, which share only the registered table | `TlsConfig`, `CryptoContext`, `Resolver` |
| `ClientProofs`, `SessionProofs`, `ExternalTransportProofs`, `ExternalTunProofs`, `CallbacksProofs`, `TlsConnectionProofs` | theorems about the module named | |
| `CryptoContextProofs` | lemmas about crypto contexts | `CryptoContext` |
| `RustBackendProofs` | theorems about the backend's three parts together | `MCRustBackend`, `CryptoContextProofs` |

### Client

`lifecycle` with its mutex `guard`, `stop_requested`, `handles` (owners of the
`Arc`), and `pc`, the position of each thread inside an operation. Operations
that hold the mutex across a native call (`evaluate`, `provide_credentials`) are
a Begin and an End; `connect` is `PrepareConnect`, `ClearStopRequested`
(the flag is reset inside the mutex, but `stop` does not take it),
`ConnectEnter`, Core's phases, `ConnectReturn` and `LifecycleReset`. `stop` is
the swap (`StopSwap`) and the native call (`StopNative`), two steps of the same
thread; the same call made by an event handler is `CallbackStopSwap` and
`CallbackStopNative`, in every phase of `connect()` in which Core calls back.
Core's phases (`core`) are external: `setup` until foreign
access is enabled, `access`, `run` from `connect_run`, `returned`. A call that
merely returns an error changes nothing and has no action.

### Session

Extends `Client`. `setup` is the Tokio mutex, owned by a task in `connect` or by
the closure on the blocking pool. The driver's `select!` is one action per
branch; its calls of `core.stop()` are two actions each, interleaved with
everybody else's. A request carries its reply channel; a caller that drops the
future leaves the command in the channel with a dead reply
(`RequestAbandon`). `ConnectAbandon` and `SetupAbandon` drop the other futures.
The driver ends in two steps: it sends the result (`Complete`), then its task is
dropped and with it the receiver of the commands (`DriverEnds`), so a task may
act on the result in between. The error path of `connect()` on a dropped
`started` sender (`tokio.rs:320-322`) has no action of its own beyond the worker
that was refused: otherwise only a panic of the worker or a runtime shutdown
drops that sender unsent.
Not in the model: clones of the client being dropped (`handles = Threads`; the
drop is checked in `Client`), runtime shutdown, and event streams. Waiting for
`setup` or the channel is implicit in the guards.

### ExternalTransport

A *generation* is one `RustExternalTransportClient`; `parent[g]`, `mutex[g]` are
its `ExternalTransportState` (the `io` pointer is set and cleared together with
`parent`). `io` is what Core's I/O thread is doing, `op` what each application
thread is doing, `queue` the posted closures. A post locks, tests and appends in
one step; a closure is taken, reads the parent under the mutex and calls it
unlocked; a query holds the mutex while it is inside the parent. Core creates,
starts, stops, reparents and destroys clients on its I/O thread; it deletes a
parent only after no client refers to it. `delivered` is a history variable.

### ExternalTun

Calls are *dispatched*: on the I/O thread they run inside the caller's frame
with the recursive mutex held, so the I/O thread is a `stack` of frames
(application callback, call of the reverse path, method of the parent, stop).
`rejected` records packets Core refused although `connected()` had been reported
before them; `data` are server packets already waiting in the event loop.
`receive` stands for the other posts with no effect on the tunnel's state.

### TlsConnection

`ciphertext`, `plaintext_ready`, `peer_closed`, `full_handshake_reported` and
`authcert` are the fields of the two objects; the variables listed as `rustls`
are that library's, by its documented interface. `write_ciphertext` is a
sequence of steps of one call: `WriteCiphertext` feeds, `VerifyServerCert`,
`SignHandshake`, `ProcessData` and `ProcessClose` are what rustls does with each
whole record, `ProcessDone` copies its state into the adapter; `SignFails` and
`ProcessFails` leave through an error, which reaches Core as an exception
(`handle = "failed"`) with the copies unrefreshed. No other call of the session
can come in between (Core runs a session on one thread), which the guard
`Callable` says. A record is two pieces, so that a packet can cut it; a unit of
plaintext is a number, so that order and gaps show. The handshake is one flight
each way. After the peer's close rustls takes no more ciphertext, and
`write_ciphertext` reports an overflow.

`TlsStream` has no buffers: `pipe` is what the peer sent and Core has not seen.
The refinement mapping needs no more than the numbers of the units the peer sent
and Core has not read, followed by the close; that rustls, its deframer and the
wire hold exactly those, in this order, is the invariant (`ComingInv`,
`ReceivedInv`) under which a step of the session is a step of the stream.

### Callbacks

One entry per callback of `callback_table`, with the default of its trampoline;
`TraitDefault` is what a handler answers that does not override the method,
`BaseAnswer` what Core gets when there is no callback. A callback of Core is
`CoreCalls`, for the three streamed ones `Broadcast`, then the handler, which may
await a request to its own session (`HandlerAwaits`, `DriverAnswers`), and
`HandlerReturns` with any `Outcome`: absent interface, panic, inherited method,
or a value. Core acts on the answer: factories, and a tunnel that is built step
by step and fails at the first refusal (external, `CoreMayCall`). The session may
be cancelled at any time (`Cancel`), also by the drop of its last owner
(`DropOwner`); the driver then leaves its loop (`SelectCancelled`), tells Core to
stop and waits for the worker, `driver = "joining"`, with the command channel
open and unread, until `Complete`. `DriverAnswers` is the free driver only. The
second thread is the certificate check that the driver runs inside a command.
`skipped` and `reported` are history variables. Of the arguments only the two DNS
enumerations are modelled, as the conversions between integers and names that
they are; the rest are copies.

### TlsConfig, CryptoContext, Resolver

`TlsConfig`: a text option says whether it is given, whether it parses and what
it holds; a text of comments is given and holds nothing. `Load` validates and
sets the flags; the password and the minimum version, which are kept in `config`
beside the options, may change before or after it; `NewFactory` is `config_new`, a record of what the verifier keeps;
`MeetServer` is rustls' negotiation with the call of `verify_server_cert`;
`AuthenticateClient` is the choice of a scheme and the external signature. Names
are short sequences of characters in which `*` and `:` stand for those that
`sanitize_x509_name` and `sanitize_common_name` replace in both names and in the
common name only. The revocation lists are a sequence, any number of them of the
same issuer: webpki looks for the first list of the certificate's issuer and
consults no other (`VerifyForUsage`). A private key says which password opens it;
the configuration keeps the keys that were opened, and a signature is made with
one of them (`signer`). `HandshakeTrusted` compares the outcome with a
definition of trust written from the options (`Trusted`, `NotRevoked`,
`Purposed`, `Named`), not from the code's flags: `NotRevoked` says that a list
naming the server counts unless another list of its issuer comes before it, and
`Named` spells the legacy name character by character (`Spells`) where the code
rewrites the certificate's name and compares. The model assumes that Core keeps a context while a
connection may ask it for a signature (`FreeFactory`). `ScenarioValid` says what
the option parsers in front of the configuration guarantee (enumerations, an
octet of key usage, no items in a text that is not given) and no more.

`CryptoContext`: a behaviour follows one class of contexts. `handle` and `heap`
are pointers and the objects behind them; `held` is what a caller may believe;
results are terms, equal when everything that went into them is. A context that
decrypts collects the packet with `update` like any other input, pieces of length
zero included, and keeps it until the next `reset`. `final()` reports a failure
by a length of zero, so decrypting an encrypted empty message fails; the model
and `CryptoExact` state this behaviour as it is. The usage limit of AEAD keys is
Core's and is not modelled. The tables of
`crypto.rs` are represented by one algorithm of each shape.

`Resolver`: `get_or_init` is two steps, so that other threads wait in between.
`addresses` keeps the first `Capacity` of what was found. A service that is not a
port number is refused before anything is looked up (`InvalidArgument`).

## Runs

| Run | Bounds | Result |
|---|---|---|
| `client` | 3 threads (a connecting one, a stopping one, a dropping or configuring one) | holds, 1,470 states |
| `client_stop` | 2 threads | **violated**, finding 1 |
| `session` | 2 tasks, capacity 1 (the channel fills with the first command) | holds, about 319,000 states |
| `session_live` | 1 task with all three service threads | holds, about 17,800 states |
| `external_transport` | 1 thread beside Core's, 2 connections, 2 parents, 1 post by each thread | holds, about 41,000 states |
| `external_transport_race` | 1 thread, 1 connection | **violated**, finding 2 |
| `external_tun` | 1 reader, 2 connections, 2 calls per thread, callbacks entered up to depth 3 | holds, about 3 million states |
| `external_tun_live` | 1 reader, 1 connection | holds |
| `tls_connection` | 4 records of the peer, 2 writes, pieces up to 3 | holds, about 100,000 states |
| `callbacks` | 3 callbacks of a connection beside a certificate check, 1 receiver, capacities 1 and 2 | holds, about 663,000 states |
| `callbacks_cancel` | 1 callback | **violated**, finding 3 |
| `rust_backend` | about 4,100 pairs of a profile and a server, 2 contexts with 3 handles, 2 resolver threads, up to symmetry of contexts and of threads | holds, about 969,000 states |

The bounds: two generations are the smallest number for which a closure or a
handle can be stale; two parents of one generation exercise reparenting; two
calls per thread in the tunnel are needed for a packet after the caller's own
`connected()`; one application thread meets Core's thread in every mutex and
closure of the transport, and its invariants are proved for any number; depth
three is callback, Core, callback again, whose own inline call adds the fourth
frame. Four records of the peer are its flight, two of data
and a close (or a bad one); three pieces per packet end in the middle of a
record. Three callbacks are the shortest tunnel (new, one step, establish) and
overrun a channel of one or two slots. The families of `rust_backend` vary one
concern each around a profile that connects: trust (CA, up to three revocation
lists, two of one issuer, pins, waiver), purposes, names, algorithms and the
client's key; the code decides them independently, so products across families
would repeat them. Three handles are
enough to move over an owner and initialise again; two builds of a context meet
a changed password or version. `MaxPosts`, `MaxDepth`, `MaxIn`, `MaxOut`, `MaxChunk`, `MaxCalls`,
`MaxCapacity`, `MaxBuilds`, `MaxHandles`, `MaxUpdates` and `MaxAddresses` bound what the
code does not. Deadlock is not checked because an application may stop calling,
and a client that has run its one session has nothing left to do; hanging is
covered by the liveness properties instead.

What the properties say:

* `client`: `ConfigurationSerialized` is the claim behind `unsafe impl Sync for
  Inner`; `NoUseAfterFree` and `DroppedIsFreed` say when the native client is
  deleted; `StartedPointerLive` that the pointer to the connecting thread's
  stack is never kept or used twice; `OneSession` that Core's `connect()` is
  entered once; `AcceptedStopEnds` that a stop Core accepts ends the connect.
* `session`: `StopNotLost` is "`stop()` cannot be lost" (`bridge.cpp:1106`), true
  through the Tokio client because a `Session` is handed out only after
  `started` (`SessionStoppable`); `ActiveWhileDriven`, `ClosureExcludesSession`
  and `ResultAfterCleanup` relate the flag, the setup closures and the result;
  `ClientSpec` says that `Session` implements `Client`.
* `session_live`: `CancelEndsSession`, `RequestsSettle`, `SetupReleased`,
  `ResultDelivered`.
* `external_transport`: `ParentsAlive`,
  `OwnGeneration`, `AcceptedDelivered`, `IoNeverStuck`.
* `external_tun`, `external_tun_live`: `TunInv` (the lock count equals the inline
  frames on the stack; an accepted `connected()` has run or is queued ahead of
  what its thread posted later), `ConnectedFirst`, `TunStopEnds`, `InlineProceeds`.
* `tls_connection`: `TlsInv` (between calls `plaintext_ready` and `peer_closed`
  are exactly what rustls has; what is still to be processed is whole records, in
  order and without gaps), `SentInOrder`, and `StreamSpec`, the refinement
  of `TlsStream`.
  The same run has `PlaintextIsRead`, `CloseIsReported` and `WrittenIsSent`:
  Core calls `read_cleartext` and `read_ciphertext` only while the adapter says
  there is something, so a wrong answer would leave data behind for ever.
* `callbacks`: `CallbackInv` (besides the types: a receiver accounts for every
  message since it subscribed, and an ended one has seen or been told of all
  that Core reported), `TunnelConfigured` (no tunnel is up on a step the builder
  did not accept), `AnswersFaithful` (the three layers of defaults agree, and an
  answer arrives as given; one outcome is excluded by name, a remote override that
  fails with an empty text and looks like a success), and `CallbackSettles`: every
  callback comes to its end, also one that awaits its own session. `Unserved`
  names the two cases in which the code blocks: the callback of a certificate check that the driver itself is inside
  of, and a callback on Core's thread once the driver was cancelled.
* `callbacks_cancel`: `CancelledSessionEnds`, which the second of these violates.
* `rust_backend`: `BackendInv` (factories and connections hold what the options
  say; handles have one owner and are freed once; the
  DNS runtime is built once; a lookup answers with its own host's addresses),
  `HandshakeTrusted`, `CryptoExact` (every result is made with the key,
  direction, IV and input its context was given last).

### Findings

1. `connect()` "runs ... until it disconnects or `stop` is called"
   (`client.rs:91`), but a `stop()` in the window between `prepare_connect` and
   Core's foreign-access phase is ignored by Core and, through
   `stop_requested`, suppresses every later one.
2. "the native handle implementation serializes access to session state"
   (`external_transport.rs:217`), but a query runs Core's parent on the
   application's thread while Core's I/O thread may be inside the same parent.
3. "Dropping an unfinished session is cancellation-safe: Core receives `stop()`
   and its blocking worker is allowed to finish cleanup in the background"
   (`tokio.rs:566`), but after a cancellation the driver awaits the worker with
   the command receiver alive and unread. An asynchronous handler that is
   awaiting a request to its own session on Core's thread is then never answered;
   the worker waits for the handler, the driver for the worker, and the session
   never ends.

### Fairness

Threads inside an operation keep running (weak fairness of a thread's steps).
Core is not obliged to end a session unless it has accepted a stop. No program
is obliged to call anything. Strong fairness is assumed where a step competes
with others that may disable it for a moment: a mutex that keeps becoming free
is obtained in the end; `select!` polls its branches in random order, so the
cancelled token and the finished worker are noticed even if commands keep
arriving; Tokio's channel serves waiting senders in order; the event loop runs
closures in order beside its other work. For TLS: a call returns, and Core's
loops read and send in the end while `read_cleartext_ready` and
`read_ciphertext_ready` keep saying yes; calls of other kinds may come between,
hence strong fairness. Core need not feed ciphertext, nor write. For callbacks:
a handler of the application returns unless it waits for a reply, the driver
serves its commands in order and notices the token, and a Core that was told to
stop returns between two callbacks; nothing obliges Core to call, nor a receiver
to read. In `Session` an accepted stop ends Core's `connect()`: this takes it
that the callbacks on Core's thread return, and `Callbacks` shows the exception
(finding 3), to which `CancelEndsSession` and `RequestsSettle` do not extend.

## Proofs

Every invariant, every action property and both refinements that the passing
runs check are also proved, for every value of the constants: any number of
threads, tasks, connections, parents, receivers, contexts and handles, any
capacity, any profile and any server. The assumptions are named in the modules:
the special values are distinct from threads, parents and generations; bounds
are natural numbers, and a packet or a reply has room for at least one item
(`MaxChunk`, `Capacity`); a key has a name and a length; the empty password is
one; every scenario satisfies `ScenarioValid`. The runs evaluate them.

* `ClientProofs`: `ClientInv` is inductive. The mutex ties the configuration
  calls to the lifecycle (`GuardInv`, `FrameInv`); the phase of Core follows the
  connecting thread (`PhaseInv`); a thread inside an operation owns a clone
  (`HandleInv`), which is why the last drop finds nobody inside; a stored
  callback has not been called (`StartedInv`). The four safety properties
  follow, `OneSession` as an action property.
* `SessionProofs`: every action of `Session` is a `Client` step or leaves the
  client unchanged (`SessionStepSimulates`), hence `SessionImplementsClient`,
  and `ClientInv` holds below the Tokio layer. `SessionInv` adds where each
  service thread can be (`ThreadInv`), how driver, worker and result belong
  together (`DriverInv`), who owns `setup` (`SetupInv`), that nobody can address
  a session before it was handed out (`QuietInv`, which `StopNotLost` needs),
  that a reply has one waiting owner (`ReplyInv`), and that `started` is
  reported only by a Core that accepts stops (`ReportInv`).
* `ExternalTransportProofs`: `TransportInv` is inductive: the mutex is held by
  the thread inside a query, and the pointer it read cannot change meanwhile
  (`QueryInv`); the pointer is set exactly while the client exists and never to
  a dead parent (`ParentInv`). `ParentsAlive` follows; `OwnGeneration` needs in
  addition that a parent keeps its owner.

* `ExternalTunProofs`: `TunInv` is inductive. The lock count is the cardinality
  of the locked frames, so the lemmas about the stack say how that set grows when
  a frame is pushed, shrinks when one is popped and keeps its size when the top
  one changes. `OrderInv` is the strengthening `ConnectedFirst` needs: a packet
  marked as sent after `connected()` finds the tunnel connected or that
  `connected()` still ahead of it in the queue, so when it is at the head the
  tunnel is connected.
* `CallbacksProofs`: `CallbackInv` is inductive with `SendersKept`: Core calls
  only inside `connect()`, whose worker keeps a sender, so no receiver sees the
  end of a stream before the last message. `TunnelConfigured` follows because,
  through all three layers of defaults, an answer that is neither a refusal nor
  the builder's consent exists only for steps of `BaseTrue`; `AnswersFaithful` is a case analysis over
  the callbacks and their outcomes.
* `TlsConnectionProofs`: `TlsInv` is inductive. `ComingInv` is kept in terms of
  the deframer and the wire together, because a packet cuts records anywhere;
  taking one record off the front keeps what follows framed and ordered.
  `SendInv` pins the outgoing side, and `SentInOrder` follows.
  `TlsImplementsStream` maps the initial state and each action to the abstract
  stream: sending and reading to its own actions, failing and dropping to
  breaking it, all else to a stutter.
* `CryptoContextProofs`: `CryptoInv` (types, `HandlesOwned`, `HeldExact`,
  `ResultExact`) is inductive only as a whole: a result is right because the
  handle holds what was believed, and it does because no other context reaches
  that handle.
* `RustBackendProofs`: `TrustInv` says that a factory, and the connection made
  from it, hold what the options say flag by flag (`Faithful`), whatever was set
  in between. `HandshakeTrusted` follows because the checks of the code are
  equivalent to the requirements of the options for every profile and server:
  `PolicyExact` (purposes and names; `OctetRestored` for the reversed bits of the
  key usage, `TlsRemoteExact` for the legacy names), `RevocationExact` (the first
  list of the issuer, which `LeastIndex` finds, decides), `ChainExact` and
  `VerifierExact` (waiver, pins, chain, revocation) and `AgreementInRange` (versions, suites and groups). `RuntimeInv` says who may
  be where while the DNS runtime is built, which `LookupsAnswered` needs. The
  three parts share no variable; `BackendInvariant`, `BackendHandshakeTrusted`
  and `BackendCryptoExact` are stated of their composition.

Only model-checked: liveness under fairness, which is beyond the prover
(`AcceptedStopEnds`, `DroppedIsFreed`, `CancelEndsSession`, `RequestsSettle`,
`SetupReleased`, `ResultDelivered`, `AcceptedDelivered`, `IoNeverStuck`,
`TunStopEnds`, `InlineProceeds`, `PlaintextIsRead`, `CloseIsReported`,
`WrittenIsSent`, `CallbackSettles`), and the three violations.

## Plan

1. done: `Client`, `Session`, `ExternalTransport`, `ExternalTun`,
   `TlsConnection` with `TlsStream`, `Callbacks`, `TlsConfig`, `CryptoContext`,
   `Resolver`.
2. done: the invariants, action properties and refinements of all of them proved.
3. An abstract reverse path (accepted packets of a connection reach its parent at
   most once, in the order of their thread) implemented by `ExternalTransport`,
   with its refinement proved in `ExternalTransportProofs`.
4. Runtime shutdown as an action of `Session`, which drops the driver at an await.

## Not modelled

OpenVPN Core's protocol, the contents of profiles and packets, cryptographic
transformations (library code), `random()` and the PRF, key export, session
details and peer information (queries without state), `tls-cert-profile`,
`x509-track` and session tickets (stored by the configuration and never passed
on), value types and conversions other than those above, the examples, buffer
sizes and the limits of rustls' own buffers (including the headroom computed in `ovpn_external_tun_receive`),
build scripts and generated bindings. Memory ordering of the atomics is taken as
sequentially consistent: every flag is written with release or acquire-release
order and each property concerns one flag at a time or is protected by a mutex.
