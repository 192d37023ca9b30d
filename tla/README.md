# A TLA+ model of nng-rs

nng-rs is two Rust crates over the C library NNG: `nng`, a callback style
binding, and `anng`, an async binding for tokio; `nng-sys` holds the generated
bindings. The crates implement no wire protocol. What they add, and what can go
wrong in them, is the bridge between NNG's threads and Rust's ownership: who
owns a message when a future is dropped, which callback belongs to which
operation, what is freed under whom, and what state one call leaves behind for
the next. The modules here model that bridge. NNG itself, tokio and the network
are external: they appear as the actions that the crates' code can observe.

## Inventory

| component | state | operations | what is hard | correct when |
|---|---|---|---|---|
| `anng` `Aio` (`anng/src/aio.rs`) | `nng_aio` pointer, `Notify`, `msg_was_set` | `wait`, `set_message`, `take_message`, `Drop`, callback `notify_on_call` | the future is dropped at any await point while NNG completes the operation and calls back; drop glue blocks | never busy when borrowed, one owner per message, every drop ends |
| `anng` `Socket`, `Context` (`lib.rs`, `context.rs`) | an `Aio`, `recovered_msg` | `send_msg`, `recv_msg`, `try_recv_msg`, `Drop` | a receive completes while it is being cancelled | received messages in order, none lost, failed sends give the message back |
| `anng` protocols (`protocols/*.rs`) | context, `Responder`, `SurveyResponses`, topic filter | `request`, `receive`, `reply`, `survey`, `next`, `respond`, `publish`, `subscribe_to`, ... | replies lost, resent and late; timers; state left by a cancelled call | a caller sees the answer to its own request, once |
| `anng` dialers and listeners (`protocols/mod.rs`) | `nng_dialer`, worker of `spawn_blocking`, future | `dial`, `listen` | a cancelled dial leaves its worker running, the socket is dropped under it | results hold, nothing survives the socket |
| `anng` initialisation and options (`init.rs`, `options.rs`) | NNG's init count and parameters | `init_nng`, `deinit_nng`, option setters of every protocol | sockets initialise the library too; sentinels in machine integers | the first configuration stays, no value wraps |
| `anng` `Message` (`message.rs`) | body, header, cursor, capacity | `Buf`, `BufMut`, truncation, cloning | the cursor under edits at both ends; capacity against headroom | the cursor stays on its byte, slices stay in the buffer |
| `nng` `Aio` (`nng/src/aio.rs`) | `Arc<Inner>`, atomic `state`, closure | `send_*`, `recv_*`, `sleep`, `cancel`, `set_timeout`, clone, drop | lock free; callbacks race threads and the drop of the last reference | one operation, its own result, once, nothing freed in use |
| `nng` sockets and parts (`socket.rs`, `ctx.rs`, `dialer.rs`, `listener.rs`, `lib.rs`) | reference counts, NNG's init count | creation, clone, `close`, builders, `start`, drop | drops of different threads interleave between `nng_fini` and `nng_socket_close` | a held socket is usable, no part is left open |
| `nng` pipe events (`socket.rs`) | closure under an `RwLock`, three hooks | `pipe_notify`, `trampoline`, drop | the closure is replaced while NNG runs it, the socket dropped meanwhile | no event missed, no freed closure run |
| `anng` pair, pipeline, bus (`pair1.rs`, `pipeline0.rs`, `bus0.rs`) | the socket's `Aio` and `recovered_msg` | `send`, `receive`, `push`, `pull`, ... | pipes come and go, failed sends are retried, a pull is dropped after its item arrived | in order, to one worker, none lost to a cancellation |
| `nng` `Message`, `Header`, `Body` (`nng/src/message.rs`) | one `nng_msg` pointer, held twice | edits, clone, send, receive, drop | a send that fails or races a close gives the pointer back | one owner per message |
| errors (`anng/src/aio.rs`, `nng/src/error.rs`, `nng-sys/src/lib.rs`) | none | conversions of codes | several calls pick codes and call the rest unreachable | no panic, the caller can tell which error it was |
| addresses and URLs (`anng/src/pipes.rs`, `message.rs`, `nng/src/addr.rs`) | a pipe id, a listener | `remote_addr`, `local_addr`, `listen_tcp` | the pipe closes between two calls; byte order, escaping | a URL names the peer and no other |
| `nng` devices (`device.rs`) | sockets moved into the call | `forwarder`, `reflector` | they drop raw sockets | as for sockets |
| build script (`nng-sys/build.rs`) | environment, cargo's record of it | `main` | variables in two variants, some read only on one path | the artifact is that of today's environment, linking and bindings agree with it |

The components interact by calls downwards (protocol -> `Context` or `Socket` ->
`Aio` -> NNG), by callbacks upwards (NNG thread -> `notify_on_call` or the
bounce closure -> task or user callback), and through shared state: the
`Notify`, the atomic `state`, the `RwLock` and NNG's own init count.

## Modules

| module | models | run |
|---|---|---|
| `CancelSafe` | abstract: what an anng handle promises about messages | (refined by `AnngAio`) |
| `AnngAio` | `Aio`, and the calls of `Socket` and `Context` on it | `anng_aio` |
| `CallbackOnce` | abstract: what the `Aio` of `nng` promises about operations, results and messages | (refined by `NngAio`) |
| `NngAio` | the callback style `Aio` of `nng` | `nng_callbacks` |
| `ReqRep`, `MCReqRep` | Req0 and Rep0 contexts | `reqrep`, `reqrep_stale` |
| `Survey` | Surveyor0 and Respondent0 contexts | `survey` |
| `PubSub` | Pub0 socket, Sub0 context | `pubsub` |
| `Direct` | Pair1, Push0, Pull0 and Bus0 sockets | `pubsub` |
| `Endpoints` | dialers and listeners of an anng socket | `endpoints` |
| `NngSocket`, `MCNngSocket` | life cycle of the objects of `nng`, devices | `nng_socket`, `nng_socket_raw` |
| `PipeNotify` | pipe events of `nng` | `nng_callbacks` |
| `Message` | `anng::Message` | `message`, `message_slice` |
| `NngMessage` | `nng::Message`, `Header`, send and receive of `nng::Socket` | `message` |
| `Settings` | thread pools, durations and options on their way into NNG | `boundary` |
| `Errors` | error codes on their way out of NNG | `boundary` |
| `Addresses` | addresses and URLs | `boundary` |
| `Build` | the build script of `nng-sys` | `boundary` |
| `AnngAioProofs` | theorems about `AnngAio`, its refinement of `CancelSafe` | |
| `NngCallbacksProofs` | theorems about `NngAio` and its refinement of `CallbackOnce`, and about `PipeNotify` | |
| `ReqRepProofs`, `SurveyProofs`, `EndpointsProofs` | theorems about `ReqRep`, `Survey`, `Endpoints` | |
| `ProtocolsProofs` | theorems about `PubSub` and `Direct` | |
| `ObjectProofs` | theorems about `NngSocket`, `NngMessage`, `Message` | |
| `BoundaryProofs` | theorems about `Settings`, `Build`, `Addresses`, `Errors` | |

`MCReqRep` and `MCNngSocket` add symmetry sets. `MCNngCallbacks`, `MCMessage`,
`MCPubSub` and `MCBoundary` each explore several modules that share no state: a
variable (`part`, `callback`) is chosen in the initial state and says which of
them the behaviour belongs to, and the others stay as they began. The state
space is the sum of theirs, not the product.
Definitions named `Faulty...` are seeded faults: each is a plausible slip in the
definition after it, no specification uses them, and putting one in that
definition's place makes the property it is paired with fail (`mutants` in
`PROJECT.json`).

The modules with a state worth the name give the ranges of their variables as
`TypeOK` (`NotifyTypeOK`, `DirectTypeOK`, ... where modules meet in one proof
module). It is the first part of the inductive invariants and is proved with
them; no run spends a check on it.

### AnngAio

A state is a point between two visible steps of four parties: the application,
the executor, drop glue, and NNG with its callback.

| in the model | in the code |
|---|---|
| `pc = "wait"` | the future is inside `notified().await` of `Aio::wait` |
| `pc = "join"` | past it, in the `nng_aio_wait` that lets the callback return |
| `pc = "dropping"`, `"cancelWait"` | `CancellationGuard::drop` of `Aio::wait`, before and after `nng_aio_cancel` |
| `pc = "recvGuard"` | the guard of `recv_msg`, which fills `recovered_msg` |
| `permit`, `waiter` | tokio's `Notify`: its stored permit, its registered waiter |
| `aioState`, `aioResult`, `aioMsg` | the `nng_aio`; "finished" is before `notify_one`, "notified" before the callback returns |
| `msgWasSet`, `recovered` | `msg_was_set`, `recovered_msg` |
| `pc = "panic"` | an `assert!`, `expect` or `unreachable!` was reached |

`Socket` and `Context` have the same `send_msg`, `recv_msg` and `try_recv_msg`,
so one module stands for both. The futures of the model are polled to their end
or dropped, never leaked.

`CancelSafe` states the documented promises alone: a send that returns `Ok` was
accepted, one that fails gives its message back, an abandoned one is accepted or
freed, and receives return every message once and in order. `AnngAio`
implements it with the mapping `callBar`, `fateBar`.

The property `NoPanic` covers the assertions and `unreachable!`s of `wait`, its
guard, `set_message`, `take_message`, `Drop` and the two calls on top of them;
that of `new_inner` (an allocation fails) is left out, and the codes that
`try_recv_msg` holds unreachable are in `Errors`. `JoinIsShort` says
that the executor's thread blocks in `nng_aio_wait` only when the callback of
its own operation has already notified, which is where a leftover permit would
bite; `CleanWhenIdle` is the busy invariant of `aio.rs:19-21`, together with
what the next call relies on.

### NngAio

Threads and callback activations (`Slots`) hold references. Winning the
`compare_exchange` and calling NNG are two steps, as are the steps of the
closure: upgrade of the weak reference, match on the state with the reset to
`Inactive`, the user's callback. The callback may use the `Aio` and drops its
reference at its end, which may be the last. `CallbackFindsOperation` is the
comment "99% sure" of the closure, made a claim about the operation and the
message it carries. `OneOperation`, that only one actor has won the state, is
what it rests on; it is proved, and no run repeats it.

`CallbackOnce` states the documented promises alone, without threads,
references or the `nng_aio`: one operation at a time, whose result is passed to
the callback once and with its message, unless the `Aio` is dropped first. A
result is owed from the `compare_exchange` to the end of the closure
(`slotBar`), a message of the operation is held whether it is with the caller or
in the `nng_aio` (`fateBar`), and the `Aio` is being dropped when nobody holds a
reference (`lifeBar`). `set_timeout` is invisible at that level. The property
`CallbackPromise` is this refinement. `ExactlyOnce`, the count of operations and
results, is a consequence; it is proved, and no run repeats it.

### ReqRep, Survey, PubSub, Direct

These compose contexts with NNG's protocols at the grain of `CancelSafe`: an
operation is started, NNG may complete it, and then the task notices or its
future is dropped. Every future can be dropped at each point. The external part
keeps what the code relies on: matching of replies to the outstanding request,
resends and losses, the survey timer, prefix filters and the bounded queue with
its two drop policies. A reply carries both the request NNG routes it to and the
request its sender meant, so that misrouting is visible.

What `recv_msg` returns can differ from what NNG hands over for the pending call:
see `reqrep_stale` below.

`Direct` has one socket that may have a pipe to each of the others and picks the
protocol in its initial state. Over the pipes a pair talks to its one peer, a
Push0 hands each message to one Pull0, and a bus reaches every peer with room;
pipes come and go at any time, and a message may be lost on the way. A send that
fails gives its message back, and the application may send it again.
`DeliveredInOrder` compares what a socket returned with what NNG took, per
sender; `NoWorkLost` follows every message from the moment NNG handed it to a
receive.

### Endpoints, NngSocket, PipeNotify

`Endpoints` has one future and one worker per dial; dropping the future
detaches the worker, and the socket can then be dropped while the worker is
queued or blocked. `NngSocket` splits `Inner::drop` in its two calls,
`nng_fini` and `nng_socket_close`, with every other thread running in between,
and lets the last `nng_fini` close everything; it has raw sockets, the
conversion `RawSocket::try_from`, which consumes a socket that is not raw, the
endpoints that `Socket::dial` starts without a handle and that a pipe can give
one to, and devices, which drop the sockets they were given. `PipeNotify` takes the lock, the
store of the closure and the three registrations as steps of their own, while
pipes go through add-pre, add-post and remove and the trampoline runs.

### Message, NngMessage

In `Message` every byte written is a new number, so that a byte can be followed
through edits. The header is its length only.

`NngMessage` is about the pointer: a `Message` and the `Header` inside it hold
the same one, `into_ptr` gives it up before the call of NNG, and the result of
the call decides who frees it. Threads send, receive and close on one socket.
`OneHolder` says that every allocated message has exactly one owner among the
holders, the calls in progress and NNG's queue, and that nothing was freed while
held: no double free, no leak.

### Settings, Errors, Addresses, Build

These are about what crosses the boundary of NNG.

- In `Settings` the largest integer is `MaxInt`, one below half of the
  `Modulus` at which integers wrap where the code casts; one pool stands for
  the three. `asked` keeps what the caller that initialised the library gave, a
  configuration or `Params`, and `params` the machine integers NNG got. What NNG
  makes of them is external (`NullParams`, `Means`): 0 is its default, a negative
  maximum none. `ConfigSticks` says that a configuration `init_nng` lets through
  arrives with its meaning and stays; since a `NonZeroI16` may be -1, that rests
  on the validation coming before the conversion. `SettingKept` is about every
  option: durations of `nng` saturate, those of `anng` panic when they do not
  fit, TTL and buffer sizes are checked.
- `Errors` has the tables and, for each call, the codes it sorts and those it
  calls `unreachable!`. NNG may return any code at every call (`Returned`), codes
  its table does not name included, with a bit for an error of the system or of
  the transport: `Unlisted`, any set of such numbers in the proofs, eleven of
  them in the run. A call that gets a code it does not list panics, and the model
  lets it. `NoUnreachable` is what the code does promise: whatever a call wraps,
  the later conversion to `io::Error` does not panic, so each call has taken out
  timeout and cancellation; a send and a receive panic for no code; and no call
  panics for a code of `Observed`, the failures that `anng/tests/errors.rs`
  provokes and the comments tell of, among them two that are not in NNG's
  documentation (`protocols/mod.rs:288-294`). `ErrorKept` says that the
  conversions lose no error.
- `Addresses` keeps octets in their order in memory and names as sequences over
  four characters that the encodings treat differently. `remote_addr` is two
  calls of NNG, and the pipe may close between them. `UrlNamesPeer` says that
  the URL belongs to the peer and to no other address, which is injectivity of
  the encoding; the names for which it is not are in `Ambiguous`.
- `Build` has the environment, cargo's rule for running the script again, and
  the script. A found library has an include directory, which decides the headers
  that are bound; one without NNG's headers leaves bindgen those on the
  compiler's own path, so a `NNG_DIR` without headers may be bound to those of
  another NNG. `BuildIsCurrent` relates the artifact of an earlier run to the
  environment of now. It holds for the variables of `ENV_VARS`; the two things
  that `main` reads and does not name to cargo are excepted by name: `CFLAGS`
  where the library is looked for on the compiler's paths (`CflagsChanged`) and
  an `NNG_CMAKE_` variable that was not set before (`NewlySet`). Without either
  exception TLC finds the stale artifact. The crates cc, cmake and pkg-config read
  variables of their own and may name them to cargo; they are external, so the
  exception for `CFLAGS` is about what this script does. `LinkSound` is about the
  two calls of `should_link_static`, and the bindings of the repository.

## Runs

All runs use breadth first search to completion; sizes are distinct states.

| run | bounds | states | shows |
|---|---|---|---|
| `anng_aio` | 3 outgoing, 3 incoming messages | 34,914 | safety, liveness and refinement of the handle |
| `nng_callbacks` | Aio: 2 threads, 2 activations, 2 messages, 3 operations; pipe events: 2 threads, 2 pipes, 3 closures | 157,614 | implements `CallbackOnce`, nothing freed in use, drops end; closure alive, no event missed, registration returns |
| `reqrep` | 2 clients, 2 servers, 2 requests, symmetry | 804,099 | answers once, routed right, no request lost |
| `reqrep_stale` | 1 client, 1 server, 2 requests | violation | a stale reply is returned |
| `survey` | 2 respondents, 2 surveys | 600,753 | responses once, final end, `next` returns |
| `pubsub` | 3 publications, queue of 2, nested topics; 3 sockets, 2 messages, queues of 1 | 215,956 | order, one worker, no loss |
| `endpoints` | 3 dials, 2 listens | 123,696 | dial results, nothing survives the socket, workers end |
| `nng_socket` | 3 sockets, 2 parts, 2 references, 1 failed creation, symmetry | 968,824 | held sockets stay usable, no stray part |
| `nng_socket_raw` | the same | violation | a raw socket's drop undoes another's `nng_init` |
| `message` | anng: 2 messages, 2 bytes, capacity 3, `usize` of 7 bits; nng: 2 pointers, 3 holders, bodies of 1 byte | 106,944 | the reader's place is kept; one owner |
| `message_slice` | 1 message, 3 bytes | violation | `chunk_mut` reaches beyond the buffer |
| `boundary` | 4 bit integers, 3 inits, durations past the range; every error code of the tables and of `Unlisted`; 3 octets, names of 3; 3 changes of the environment | 3,047,051 | configuration and settings kept, no conversion panics, errors kept, URLs name peers, builds current |

Why the bounds are enough. A handle runs one operation at a time and its calls
leave no state behind (`CleanWhenIdle`), so three messages each way cover a
cancelled call, the one that recovers and one after it, and the proofs remove
this bound altogether. For `NngAio`, two threads and two activations give every
pair of racing parties, and three operations allow one to start while the
closure of the one before still runs. Two requests or surveys are what a stale
answer needs; two peers what misrouting needs. Three published messages with a
queue of two overflow it. A third socket lets one thread drop, one hold and one
create. Two bytes put the cursor before, at and after every cut. Two other
sockets make a worker that could get another's item; two messages and queues of
one give an order to get wrong and a send that waits. Two pointers and three
holders let a clone, a send that fails and a receive meet, and a freed pointer
be allocated again. With 4 bits and a second of 3 ms every threshold of the
conversions (product, sum, cast) is crossed. Three values of an octet, two
octets of a port, and names of three characters have different octets to swap
and a name as long as an escaped character; `MaxUrl` of 5 is crossed by escaped
names. Three changes of the environment set a variable, build, change it, build
and unset it, in any mixture of two variants.

`CHECK_DEADLOCK FALSE` is set where behaviours end: a dropped handle, `Aio`,
socket or `Inner` has no further step, and neither has an application that has
used up its objects.

### Fairness

- `anng_aio`: weak fairness of the woken task, of drop glue and of a scheduled
  callback. A tokio runtime that is running polls woken tasks; drop glue is
  sequential code; NNG runs the callbacks of completed operations. Nothing makes
  the network complete an operation: `CancelCompletes` holds because
  `nng_aio_cancel` completes it.
- `nng_callbacks`, the Aio: the closure runs, a user's callback returns (its documentation
  demands it), and threads leave library functions.
- `survey`: NNG's survey timer fires, and a completed receive is noticed. That
  somebody answers is not assumed.
- `endpoints`: tokio runs queued workers and polls futures; `nng_dialer_start`
  ends on a closed dialer. That a dial ever connects is not assumed.
- `nng_callbacks`, pipe events: threads and callbacks run on; closing a socket removes its
  pipes.

### Disagreements between code and documentation

Shown by runs:

- `reqrep_stale`: a reply that arrives as its future is dropped is kept in
  `recovered_msg`, and the next `request` on that context does not clear it, so
  its reply future returns the old reply; `reqrep0.rs:283-285` and `358-359` say
  that it is discarded. Surveys have the same gap (`survey0.rs:217-218`), and a
  recovered publication is returned after its topic was unsubscribed
  (`pubsub0.rs:431-433`): the same lines of `context.rs`.
- `message_slice`: `chunk_mut` (`message.rs:1038`) measures the free space from
  the start of the buffer, and hands it out from the end of the body; bytes
  before the body make the slice too long. In the run they are a front that
  `truncate_front` has trimmed (`Headroom` is 0 there); headroom that NNG
  allocates does the same.
- `nng_socket_raw`: `RawSocket::new` (`nng/src/socket.rs:658`) makes no
  `nng_init`, but its drop calls `nng_fini`, against the comment at `614`. The
  last `nng_fini` closes a socket that is still held. `LiveSocketUsable`
  therefore holds up to the first drop of a raw socket, and says so.

Met while modelling, without a run of their own:

- A polled future that is leaked leaves the `Aio` busy although it can be
  borrowed again, against `anng/src/aio.rs:19-21`.
- The closure passes its upgraded `Aio` to the callback by value
  (`nng/src/aio.rs:210`), so `Inner::drop` can run in the callback it waits
  for; the comment at `518-522` excludes this. In the model the drop then stays
  in "stop" for ever and nothing is freed (theorem `CallbackCannotFree`);
  `DropCompletes` is about drops on threads.
- A cancelled dial that fails later leaves its dialer unclosed until the socket
  is dropped (`protocols/mod.rs:318-321`); a failed `nng_listener_start` does
  the same (`162`).
- `Inner::drop` calls `nng_fini` before `nng_socket_close`
  (`nng/src/socket.rs:615-618`); a failed `Socket::new` never undoes its
  `nng_init` (`60`).
- `deinit_nng` after several sockets does not release the library
  (`anng/src/init.rs:164-169`), as each socket has called `nng_init`.
- `Params` casts `u16` to `i16` and validates nothing (`nng/src/lib.rs:248`):
  counts above 32767 become negative. `ConfigSticks` excepts them.
- `RawSocket::try_from` (and `into_raw`) consumes a socket that is not raw: the
  caller gets an error and the socket is dropped.
- An abstract name with a `%` is written as it is (`anng/src/pipes.rs:213`), so
  its URL is also that of another name.
- `Listener::local_addr` panics for a URL that fills its buffer
  (`anng/src/pipes.rs:101`).
- `nng::SocketAddr` keeps the port in memory order, where `anng` converts it
  (`nng/src/addr.rs:73,77`), drops the scope of an IPv6 address, and is never an
  abstract one, as `try_convert_from` lacks that family (`nng-sys/src/lib.rs:378`).
- An `NNG_CMAKE_` variable that is set for the first time after a build does not
  run the build script again (`nng-sys/build.rs:436`): it could not be named to
  cargo. `BuildIsCurrent` excepts it.
- `CFLAGS`, plain or prefixed with the target, decides the include directories of
  the bindings when the library is found by the compiler (`nng-sys/build.rs:258`),
  and is not in `ENV_VARS`: the script does not name it to cargo, against the
  comment at `104`, "Rerun if any environment variables change".
  `BuildIsCurrent` excepts it.
- `nng/src/dialer.rs:230-231` and `listener.rs:198-200` say that dropping the
  handle of a started dialer or listener shuts it down. The handles have no
  `Drop`: the endpoint lives until `close` or the end of its socket.
  `NoStrayPart` is about contexts and builders for that reason.
- `dial`, `listen` (`anng/src/lib.rs:415-419` and the like) and `listen_tcp`
  (`pipes.rs:310-316`) list "Out of memory conditions" among the errors they
  return; on ENOMEM the code panics (`protocols/mod.rs:112`, `193`, `285`).
- `prepend` does not move the read cursor (`anng/src/message.rs:694`);
  `KeepsPlace` leaves it out.

## Proofs

The theorems hold for every value of the constants that the named assumptions of
the modules allow: any number of threads, contexts, messages, pipes, requests,
surveys, bytes, any queue length and integer width. They remove the bounds of
the runs for what they state. Each rests on an inductive invariant, which holds
initially (`...InitInd`) and is kept by every step (`...StepInd`, one case per
action). Every invariant was checked by TLC on the bounds of the run before it
was proved.

| module | theorem | states |
|---|---|---|
| `AnngAioProofs` | `Invariance`, `TypeCorrect` | `IndInv`, `TypeOK` |
| | `PanicFree`, `ReceiveInOrder`, `SingleOwner`, `ShortJoin`, `IdleIsClean`, `DropLeaksNothing` | the six invariants of run `anng_aio` |
| | `Refinement` | `AnngAio` implements `CancelSafe` |
| `NngCallbacksProofs` | `Invariance`, `TypeCorrect`, `ClosureSound`, `MutualExclusion`, `ResultsCounted`, `FreeIsSafe` | `CallbackFindsOperation`, `OneOperation`, `ExactlyOnce`, `NoUseAfterFree` |
| | `PromiseKept` | `NngAio` implements `CallbackOnce` |
| | `CallbackCannotFree` | an activation that drops the last reference stays in `Inner::drop` |
| | `NotifyInvariance`, `NotifyTypeCorrect`, `TrampolineSound`, `EventsPassedOn` | `ClosureAlive`, `NoEventMissed` |
| `EndpointsProofs` | `Invariance`, `TypeCorrect`, `DialTruthful`, `SocketDropFinal` | `DialResultHolds`, `NothingSurvives` |
| `ReqRepProofs` | `Invariance`, `TypeCorrect`, `RepliesRouted`, `OneAnswerEach`, `RequestsKept` | `ReplyIsRouted`, `AnsweredOnce`, the action property `NoRequestLost` |
| | `CurrentUnlessRecovered` | `ReplyIsCurrent`, for callers that drop no reply future after its reply has come |
| `SurveyProofs` | `Invariance`, `TypeCorrect`, `ResponsesOnce`, `NoneIsLast` | `ResponseOnce`, the action property `EndIsFinal` |
| `ProtocolsProofs` | `DirectInvariance`, `DirectTypeCorrect`, `OrderedDelivery`, `WorkKept` | `DeliveredInOrder`, `NoWorkLost` |
| | `PubSubInvariance`, `PubSubTypeCorrect`, `SubscriptionOrdered` | `ArrivalOrder` |
| `ObjectProofs` | `Invariance`, `TypeCorrect`, `LibraryKept`, `PartsAccountedFor` | `LiveSocketUsable`, `NoStrayPart` |
| | `NngMessageInvariance`, `NngMessageTypeCorrect`, `MessageHeldOnce` | `OneHolder` |
| | `ReaderInBody`, `PlaceKept` | `ReaderInv`, the action property `KeepsPlace` |
| | `MessageTypeCorrect` | `MessageTypeOK`: cursor in the body, body in the buffer |
| | `SliceSafe` | `SliceInBuffer`, without headroom and without `truncate_front` |
| `BoundaryProofs` | `ConfigurationHolds`, `SettingArrives` | `ConfigSticks`, `SettingKept` |
| | `BuildInvariance`, `NothingStale`, `LinkAgrees` | `BuildIsCurrent`, `LinkSound` |
| | `PeerNamed` | `UrlNamesPeer` |
| | `NoConversionPanics`, `ErrorsTold` | `NoUnreachable`, `ErrorKept` |

### The arguments

*`AnngAio`.* `CleanWhenIdle`, for instance, holds after a cancelled receive only
because the guard finds exactly one permit, which depends on whether the
callback had run when the `Notified` was dropped, and because a failed receive
leaves no message. `IndInv` records both:

- `NotifyInv`: an operation has one notification. Before its callback there is
  none; after it, there is one, as permit or with the waiter, until the call or
  its guard has taken it.
- `SendInv`: an outgoing message that is neither the application's, nor NNG's,
  nor freed is the one in the `Aio` of a send that has not succeeded.
- `RecvInv`: of the messages NNG handed out at most the last has not been
  returned, and it is in the `Aio` of a successful receive or in `recovered_msg`.

`Refinement` shows that each action maps to an action of `CancelSafe` or to a
stutter, using `IndInv` where the mapping needs it (a successful send has its
message on the wire, a receive returns the next number).

*`NngAio`.* The atomic `state` is a lock that is handed on: from the actor that
won the `compare_exchange` to NNG, from NNG to the activation it starts, and back
to `Inactive`. `LockInv` says that its holder is alone and NNG idle, `StateInv`
that the state names the holder's operation, `MsgInv` where the operation's
message is, `CountInv` that at most one result is owed, `DropInv` that whoever
is in `Inner::drop` is alone. That the closure's `match` fits ("99% sure") is
`StateInv` for the activation that has upgraded its reference.

`PromiseKept` needs one part more. `CallbackOnce` gives back, or loses, every
message that is held when a result is delivered, or discarded; the closure moves
only the one in `aioMsg`, and only if the result carries it. `OwnInv` says that
there is no other: of a send between the `compare_exchange` and the call of NNG
the caller has the one message, and what is in the `nng_aio` is that of a
pending send, or what the result of the ended operation carries. A message left
behind in the `nng_aio`, which a later receive could take for its own, is
thereby excluded.

*`PipeNotify`.* A running trampoline reads under the lock, so the closure it uses
is the stored one (`ClosureInv`); a closure that waits for the lock belongs to
one thread and was never dropped. A thread that sets hooks has set those that
its list no longer has, and hooks are never taken back (`HookInv`). The frame of
the socket's drop is `InnerInv`.

*`Endpoints`.* Future, worker and dialer of one dial are changed by three
parties; `DialInv` says which combinations of their states exist.

*`ReqRep`.* The server side is `ServerInv`: the peer NNG remembers for a context
is that of the request in its `nng_aio`, in `recovered_msg` or in its
`Responder`, which are never two. For the client side, `OwnInv` says that
numbers belong to the context that issued them and `OpenInv` that what can still
be returned, and what is still awaited, occurs in no answer. The invariant is
compatible with the stale reply of `reqrep_stale`: that reply is returned once,
to the wrong caller. `CurrentUnlessRecovered` finds its cause: as long as no
step drops a reply future whose reply is in the `nng_aio`, `recovered_msg` stays
empty and what NNG has for a waiting context is what its caller asked
(`CurrentInv`). A future dropped at any other point, losses, resends and
requests served twice do no harm.

*`Survey`.* A response begins as the survey that was sent to its respondent and
is then in one of six places (`PlaceInv`: network, respondent, answer, queue,
context, returned); each step takes it to the next one or drops it. `EndInv`:
when the survey was said to be over, no place that the surveyor reads has
anything.

*`Direct`.* The messages of a socket form a line: what it returned, what its
`nng_aio` or `recovered_msg` holds, its receive queue. `LineInv`: the line is in
the order in which NNG took the messages from each sender, and lines of a pair
or pipeline are disjoint. `FreshInv`: what was not taken is in no line, so a send
that is retried cannot duplicate.

*`PubSub`.* `RisingInv`: publication numbers rise from what was returned, over
what the context holds and the queue, to the network. Overflow of either policy
and changes of the filter only take numbers out.

*`NngSocket`.* The proof counts. `LibInv`: up to the first drop of a raw socket,
NNG's count is at least the number of Sockets held, plus one for the guard of
`Params::init`; the `nng_fini` that releases the library therefore finds no
held Socket. Sockets not yet made may be infinitely many, so finiteness of the
held ones is part of the invariant.

*`NngMessage`.* `OwnerInv`: what is allocated is reached from one variable, one
call or NNG's queue, and what is reached is allocated.

*`Message`.* `ReaderInv`: the cursor is in the body, and no byte is twice in a
body, so the bytes before and after the cursor have nothing in common; the
lemmas say what each kind of edit (append, prepend, cut at either end, advance,
clone) does to this place. `BufferInv` is about the buffer: the body and what
precedes it fit. It needs that the growth of `reserve`, the least power of two
that is large enough or else `usize::MAX`, is a size. `SliceSafe` follows the
bytes in front of the body: without headroom nothing but `truncate_front` makes
any, so the slice of `chunk_mut` is too long only after it.

*`Settings`, `Build`, `Addresses`.* `LibraryInv` adds to `ConfigSticks` what the
library is like without an initialiser; that a valid configuration is converted
to its meaning is shown for the two kinds of limit (`LimitCases`). For the options a lemma about
`duration_to_nng` shows that two saturating operations equal one, whatever the
width. `BuildInv` says that the artifact is `Main` of the environment the script
saw and that cargo watches what the script read of it. It then suffices that
`Main` reads nothing but `ENV_VARS`, `NNG_CMAKE_` and, on the path that
`CflagsChanged` describes, `CFLAGS`. `AddressInv` ties what `remote_addr` has read to the
peer; the rest is injectivity of the encodings. That of an abstract name, whose
characters become one or three each, is by induction over the name from its end:
two escaped names that are the same end in the escape of the same character,
because the characters before a last "0" that was not escaped cannot be those of
an escape (`EscapedNameEnd`, `NoStrayZero`).

*`Errors`.* `ErrorInv` keeps, for each call, what its error can stand for
(`Sorted`): the call has panicked, or it has taken timeout and cancellation out
first, and the kinds of the rest are injective in the code. What a call does with
a code of `Observed` is a case for each of its arms (`CallCases`, `DialerCases`).

### Assumptions

All are about constants, and TLC evaluates each in a run: bounds are natural
numbers, positive where the code has at least one (`MaxRefs`, `Capacity`,
`Room`); model values are none of the sentinels (`NULL`, `Null`, "none",
"closed"); threads and callback activations are different things and finitely
many; `MaxTtl` and `MaxBuffer` fit an integer; a name fits the URL buffer
(`MaxName < MaxUrl`); powers of two of a `usize` are at most its maximum; codes
that the table of errors does not name are positive and not in it. `SliceSafe`
assumes `Headroom = 0` on top, which is what it is about.

### Only model-checked

- Liveness: `CancelCompletes`, `CompletionReturns`, `DropCompletes`,
  `ResultDelivered`, `RegisterReturns`, `NextReturns`, `WorkersEnd`. Fairness and
  `ENABLED` are beyond the prover.
- The three properties that runs show to be violated. Theorems say when two of
  them hold (`SliceSafe`, `CurrentUnlessRecovered`), and `LiveSocketUsable` is
  what holds of the third.

Where a proof is by induction over numbers (`SetInduction`), it takes the least
member of a set of counterexamples (`LeastElement`), as the prover cannot
instantiate the induction rules of its library. The modules that are proved
about have no recursive operator.


## Not modelled

- NNG: protocols, transports, its `nng_aio` internals. The modules model what
  the crates see of it.
- The generated declarations of `nng-sys/src/bindings.rs` beyond error codes and
  address families; statistics and unit enumerations. They have no behaviour.
- The enumeration of protocols in `nng/src/protocol.rs`, comparison, ordering
  and hashing of handles, wording of `Display` and `Debug`.
- Panics in user callbacks (they abort), allocation failures, leaked futures.
- A callback that drops the last reference to its own `Aio` or socket: what NNG
  does then is external.

## Where it stands

All components of the inventory have their runs. Every safety invariant and
action property of the passing runs is proved, and so are the two refinements,
of `CancelSafe` by `AnngAio` and of `CallbackOnce` by `NngAio`. Worth adding:

1. An abstract remote call that `ReqRep` implements for callers that drop no
   reply future after its reply has come. `CurrentUnlessRecovered` and
   `AnsweredOnce` are its safety.
2. A subscription as a subsequence of what was published, implemented by
   `PubSub`.
3. If the code clears `recovered_msg` in `request`, `ReplyIsCurrent` becomes an
   invariant to be proved without its proviso.
