# A TLA+ model of grpc-web-server

This directory specifies `grpc-web-server`, a gRPC-Web proxy and static web
server written in Rust with a Rust API and a C interface. The specifications
are checked with TLC on small instances; the theorems about them are checked
with TLAPS for every value of the constants.

Paths below are relative to the repository root.

## 1. Inventory

| Component | Source | State it keeps | Operations |
|---|---|---|---|
| Server handle | `src/server/handle.rs` | options, mutex around `thread` (join handle) and `stop_tx` (oneshot sender), atomic `running` | `start`, `stop`, `wait`, `is_running`, drop |
| C interface, lifecycle | `src/server/ffi.rs` | the heap allocation behind a pointer | `start`, `wait`, `is_running`, `stop`, `destroy` |
| C interface, `create` | `src/server/ffi.rs`, `src/utils.rs` | process-wide `TRACING_INIT` | `create`, conversion of options |
| Configuration and router | `src/server/server.rs` | `GrpcWebServerOptions`, `Router` | `validate`, `new`, `add_proxy`, `add_web`, `add_cors`, `add_observability` |
| Serving | `src/server/server.rs` | listener, connections, Tokio tasks | `GrpcWebServer::start` |
| Proxy | `src/server/proxy.rs` | HTTP/2 client, authority, `use_tls` | `new`, `call` |
| Certificate library | `src/tls/{ca,leaf,ffi}.rs` | CA and leaf handles, PEM files | make, issue, write, destroy |
| `gen-certs` | `src/bin/gen-certs.rs` | eight PEM files | one pass over all of them |
| Executable | `src/bin/grpc-web-server.rs` | none of its own | parse, `new`, `start` |
| Build | `build.rs`, CMake files | none at run time | header generation |

How they interact. A host calls `create`, which initializes tracing, converts
the C struct and boxes a handle. `start` takes the handle's mutex, cleans up a
finished thread, raises `running` and spawns a server thread; that thread
builds a Tokio runtime, calls `GrpcWebServer::new` (validation, proxy client,
CORS layer) and blocks on `GrpcWebServer::start`, which binds and then
`select!`s between the server and the shutdown future. The future resolves
when `stop` or `destroy` sends on the oneshot channel, or when the sender is
dropped. The thread lowers `running` without the mutex before it goes away.
`wait` takes the join handle out under the mutex, joins without it, and takes
the mutex again to clear the sender and the flag. `destroy` drops the box,
which stops and joins. The server reads the PEM files that `gen-certs` or the
certificate library write.

What is hard to get right here:

- **Interleavings of host threads.** `wait` has two critical sections and a
  join between them; what it clears in the second may belong to a later server.
- **A flag with many writers.** `running` is written by `start`, by `wait`, by
  drop (with and without the mutex) and by every server thread (without it).
- **Failure in the background.** Validation, file reads, the bind and library
  panics happen after `start` has returned `true`.
- **Failure under the mutex.** `thread::spawn` can panic with the lock held.
- **Configuration.** Eight optional or required strings, three lists with
  their `allow_any` flags and a credentials flag pass three filters (the
  conversion, `validate`, the CORS layer) on two threads.
- **Files.** Certificates and keys are written as separate files and read one
  by one.

What makes each component correct:

- *Handle*: one server at a time; it ends by itself or on request; every
  server can be stopped and is joined before the handle is freed; `wait`
  blocks; `is_running` tells the truth while a server serves and never sticks.
- *create*: what the handle stores is what was given; what is illegal is
  refused.
- *Configuration, router, proxy*: nothing that was asked for (TLS, a restricted
  list, a client certificate beside its authority) is silently left out, and no
  policy that reaches a browser combines credentials with a wildcard.
- *Serving*: requests get an answer a browser can read, also when the upstream
  is down; only the end of their server leaves them without one, and the end of
  a server does not depend on them.
- *Certificates*: a pair on disk matches, and chains to the CA beside it.

`PROJECT.json` lists the hazards line by line.

## 2. Modules

| Module | Contents |
|---|---|
| `ServerHandle` | the handle, the C lifecycle calls and the server threads |
| `Lifecycle` | abstract specification: what a handle promises |
| `SerialHost` | `ServerHandle` under a rule on the host; the refinement mapping to `Lifecycle` |
| `WaitHistory` | a history variable that lets `wait`'s promise be stated |
| `Startup` | from the C option struct to a listening server |
| `Serving` | `ServerHandle` composed with the router, the proxy and the requests its servers take; the refinement mapping to `Exchanges` |
| `Exchanges` | abstract specification: what a server owes its clients |
| `CertFiles` | the certificate library behind its C interface, and the files it writes |
| `GenCerts` | repeated, interrupted runs of `gen-certs`; the refinement mapping to `CertFiles` |
| `TlsBoot` | `Startup` composed with `GenCerts`: servers that read the files while they may change |
| `Executable` | the command-line server, over the boot of `Startup` |
| `MC...` | TLC instances: option structs, arguments, symmetry |
| `...Proofs` | theorems and proofs about the module they are named for |

Who extends whom:

    ServerHandle <- SerialHost <- WaitHistory
                              <- Serving            (INSTANCE Exchanges)
    Startup      <- Executable
                 <- TlsBoot
    GenCerts     <- TlsBoot                          (GenCerts: INSTANCE CertFiles)

### ServerHandle

Variables and the code: `thread`, `stop_tx` are `GrpcWebServerState`; `lock`
and `poisoned` its mutex; `running` the `AtomicBool`; `handle` the allocation;
`signal[s]` the oneshot channel of server `s` as its receiver sees it;
`phase[s]` the progress of the thread closure in `start`; `pc`, `own` and `ret`
each host thread's position, its local `thread_handle` and its last result.

Critical sections are single actions where nothing outside can see between
their steps. `start` is cut after `cleanup_finished_locked` (the flag may change
before it is loaded) and after raising the flag (`thread::spawn` may panic;
`is_running` can see the flag). `wait` is cut where it releases the mutex. The
lock is part of the state, so contention and poisoning are visible. Server
phases: `booting` (runtime and `GrpcWebServer::new`), `serving`
(`GrpcWebServer::start`), `returned` (before the flag is lowered), `closing`
(flag lowered, runtime being dropped), `exited` or `panicked`
(`is_finished()`). `running` is treated as sequentially consistent: there is
one atomic location, and no property depends on its order relative to the
mutex-protected fields as seen by a thread that does not hold the mutex.

`destroy` requires that no other thread uses the handle; that is its documented
safety contract and a guard here. A null handle makes every call return `false`
at once and is left out.

`Servers` bounds the number of starts; each identity is used once and
`CallStart` is guarded so that a start always finds one.

### SerialHost, WaitHistory and Lifecycle

The handle's documentation says it is "safe to operate from multiple threads".
Four promises hold only if the host avoids one pattern: it must not call
`start` or `wait` while another thread is inside `wait`, nor `wait` while
another is inside `start`. `OneDriver` is exactly this rule. It still allows
concurrent starts, and `stop` and `is_running` from any thread at any time.
Under it the handle implements `Lifecycle`: at most one active server, which
ends by itself or because it was asked, and a release only when nothing is
active. In the mapping a server is active from its spawn until its thread has
finished; a request is the message in its channel; "dropped" has no
counterpart, so a live server whose sender is dropped breaks the refinement.

`WaitHistory` remembers which servers lived when each caller entered `wait`.

### Startup

One action per step of the boot, in source order: `Create` (tracing, then
conversion), `Start`, `BuildRuntime`, `Validate`, `AddProxy`/`AddProxyFails`,
`AddCors`, `Bind`/`BindFails`, `ServeEnds`. `given` keeps the struct the host
passed and `options` what the handle stores, so that properties can compare
what was asked with what serves. A path is given or not; reading a file that is
needed may fail. A list is a set of the kinds of its elements, in which
a `*` after the first counts as plain: to tower-http `*,*` is no wildcard.
`LayerRefuses` and `ReadsStar` model tower-http's CORS layer,
which is not part of the repository: it panics on `*` inside an origin list and
on credentials combined with a rule whose header value is `*`, as its
documentation says. In terms of `ServerHandle`, stages `runtime` to `cors` are
`booting`, a panic in `cors` is `BootPanics`, a failure before `bind` is
`BootFails`, and `bind`, `http`, `https` are `serving`.

### Serving and Exchanges

The servers here are those of `ServerHandle`, and each of its steps is a step
of `Serving` (`ServingIsAHandle`). Three steps of the server thread get a
meaning: `StopServing` and `ServingFails` drop the listener when
`GrpcWebServer::start` returns, and `LastTaskGone` is the end of a thread whose
runtime has been dropped, which waits for its tasks. `Bind` is new.

`Router` follows `GrpcWebServer::new`: `AddProxy`, `AddWeb`, `AddCors` and
`AddObservability` take a router and return one. A router maps each route
(`/api` and the fallback) and kind of request to the set of layers the request
meets. The set is enough because each layer either lets a request pass or
answers it, and the answer leaves through the same layers. A request is a
preflight, a call, or anything else; a request over HTTP/2 counts as a call
because tonic-web's layer lets it pass.

A request is `queued` in the HTTP client, `forwarded` to the upstream,
`file` while `ServeDir` looks for its file, `sending` once the head of its
answer is out; it is `done`, `torn` (broken off), `cut` (its runtime was
dropped) or `left` (its client went away). `link` is the one HTTP/2
connection that all calls of a server share: `LinkBreaks` fails every call
that waits and breaks off every body under way. Connections are not told
apart, a request is the unit; the proxy's client is created with the router,
before the bind, and dials when it is first used.

`Exchanges` is what remains for a client: a request that was taken is answered
or the client leaves; it goes without an answer only while its server winds
up; no server is gone before all its exchanges are over. Several requests may
move in one abstract step, because the loss of a shared connection settles
several at once.

What is external is modelled from its use in `server.rs` and `proxy.rs`: what
the CORS and gRPC-Web layers answer themselves, how `Router::layer` wraps what
is there, hyper's client, and the drop of a Tokio runtime.

### CertFiles

One identity is one generated key pair with its certificate. `made` and `held`
are the identities that exist and those the host has a handle of; `file` is
what `{prefix}.pem` and `{prefix}-key.pem` hold. `fs::write` is two steps,
`Open` (which truncates) and `WriteCert` or `WriteKey`; each can fail and the
process can end between any two. `settled` remembers, per prefix, which write
returned `true` last with no file of that prefix opened since.

Nothing in the library keeps two threads from writing one prefix, an
authority's included; their files would interleave and both calls return
`true`. `OneWriter` is the rule a host has to keep, and the property is stated
under it. The documented safety contract (a handle is not destroyed while it is
in use) is a guard of `Destroy`.

### GenCerts

`main` is one pass over eight files. `step` and `at` are its program counter,
`file[k]` the run that last opened the file at place `k`, `torn` the files that
are truncated and not yet written. `End` is a `?`, a kill or the regular end, at
any point. The next run finds what the last has left. `made` and `broken` are
history, needed for the mapping to `CertFiles`: each run is a process with one
thread that makes, writes and forgets its handles, and it keeps `OneWriter`.

### TlsBoot

`Startup` lets a read fail or succeed by choice; here it reads. A boot reads
the authority, the client certificate and its key when the proxy is built, and
the server's certificate and key when it binds, one step each, with
`gen-certs` free to run in between. `got[h][k]` is the run whose file the boot
has read. `rustls` compares a certificate with its key (`Matches`), nobody
compares a certificate with the authority. `fresh` and `raced` are history: the
directory was complete when the boot started; a file was touched during it.
A torn file never gives a usable certificate or key. An intact file is assumed
to be readable, and reading one is a single step, PEM files being smaller than
the buffers they are read with.

### Executable

`main` replaces `Create`, `Start` and `BuildRuntime` of `Startup`: it sets the
log level, turns its arguments into options with `CorsPolicy::default`, and runs
`new` and `start` under a shutdown future that never resolves. `status` is the
exit status. clap's own parsing is left out; what it may hand over is
`ArgumentRecord`.

## 3. Runs

Passing runs (`tlc -config <run>.cfg <module>`):

| Run | Module | Question | Instance | States |
|---|---|---|---|---|
| `handle` | `ServerHandle` | Is any thread lost, unstoppable, alive after destroy, or the flag stuck, whatever the host does? Does a server told to stop end, does destroy return, does a wait on a stopped server? | 3 callers, 2 servers | 171 329 |
| `serial` | `WaitHistory` | Under the host rule: one server, ended only on request, flag true while serving, wait blocks, a stop ends another thread's wait, `Lifecycle` implemented with its fairness? | 3 callers, 2 servers | 121 165 |
| `startup` | `MCStartup` | What does a serving handle guarantee about the options it was given? | 1 handle, 8 480 structs | 13 768 |
| `serving` | `MCServing` | Which layers does every answer pass, what does the upstream see, who goes without an answer, what is in flight when wait or destroy has joined? | 2 callers, 1 server, 2 requests, host rule, symmetry | 826 256 |
| `serving_liveness` | `MCServing` | Does a server told to stop end with a request waiting for a silent upstream? | 1 caller, 2 servers, 1 request | 232 356 |
| `cert_files` | `MCCertFiles` | Is what a successful write has left a matching pair, whatever fails or is killed? | 2 threads, 2 authorities, 2 leaves, 2 prefixes | 223 089 |
| `tls_boot` | `MCTlsBoot` | Which mixtures of runs may the directory hold, which may a server serve with, and is `gen-certs` a legal use of the library? | 1 server, 10 option structs, 2 runs | 163 949 |
| `executable` | `MCExecutable` | Does the process listen or fail with a status, for all arguments? | 1 process, 128 argument records | 349 |

Runs that exhibit a disagreement between the code and what it says of itself:

| Run | Property | What TLC shows |
|---|---|---|
| `contract_one_server` | `OneServerAtWork` | Thread A is in `wait`, joining. Thread B calls `wait`, finds no join handle, does not block, drops the sender of the live server and lowers the flag. A `start` sees no thread and no flag and spawns a second server. |
| `contract_mtls` | `MtlsNeedsCa` | A client key and certificate without a CA pass `validate`; the proxy then dials plain HTTP. |
| `contract_panic` | `ValidatedNeverPanics` | Credentials with any method or header pass `validate` and panic in the CORS layer. |
| `contract_graceful` | `StopIsGraceful` | A request is in flight when `stop` is called, which "requests graceful shutdown". The `select!` drops the serve future, the thread drops its runtime, and the request is cut off. |

The first of these breaks `OneServerAtATime`, `WaitBlocks` and
`ShutdownOnlyOnRequest`, too, which therefore are checked under the host rule
only. Two smaller disagreements can
be read off `Startup!Create`: `create` does not validate
(`src/server/ffi.rs:214` says it returns null "after validation ... failure"),
and it fixes the process's log level even when it then returns null.

What the passing runs say about the files is as much as the code gives. After
an interrupted `gen-certs` the directory may hold leaves of an older authority
beside a new one, and a server boots on it without complaint; never the other
way round, and never with a pair that does not match. A server that boots while
`gen-certs` writes may end with an authority and leaves of different runs in
either order. Only a complete run and a boot that nothing disturbs give one
generation.

Bounds. Three callers are enough for two overlapping waits and a third thread
that starts, stops or destroys; two servers are enough for an old and a new one
to overlap, which is what every hazard of the handle is about. `MCStartup` takes
every combination of addresses and TLS paths under one CORS policy and every
CORS policy under one choice of the rest: no action reads both a CORS rule and a
TLS path except `Valid`, which is a conjunction of conditions on one or the
other. One handle is enough because handles share only the tracing level. Two
requests on one server are enough for a call to be failed by a connection
another one has opened, and two callers for a destroy while another thread has
been in `wait`. Two servers in `serving_liveness` make the second bind against
the listener of the first. Each property of
`TlsBoot` and `GenCerts` compares two files, which come from at most two runs;
the first run can be complete or stopped anywhere before the second. Two
threads and two prefixes let a write of an authority and of a leaf meet in every
order the rule allows. `MaxRun`, `Servers`, `Requests` and the identities of
`CertFiles` are the only bounds; each identity is used once. All safety
properties of the passing runs are also proved for any values.

Deadlock is checked in the handle, serving and `cert_files` runs; in the first
two `Terminated` is the one state in which nothing is left to do. The others
may stop: after a failed `create` there is no handle to act on, after `MaxRun`
runs none is left, a process that has exited does nothing.

Fairness (`ServerHandle!Fairness`). The operating system runs every thread that
can run: a caller inside a call takes its next step, a server thread boots,
notices a resolved shutdown future, lowers the flag and exits. Weak fairness
only: the mutex is not assumed fair among contenders, which is why no liveness
property promises that a particular `start` or `stop` gets the lock against
others for ever. Host threads are never obliged to call, and servers are never
obliged to fail; `wait` on a server nobody stops may block for ever.

`StopEndsWait` is where the mutex matters ("Release the lock before joining to
avoid deadlocks with concurrent stop", `src/src/server/handle.rs:150`): a wait
that joined with the mutex held would keep the stop out that has to end it. It
is stated under the host rule. Without it a third thread whose starts are
refused again and again may keep the stop from an unfair mutex, and a start that
panics poisons the mutex under a waiter.

`Serving!ServingFairness` is the same, where a bind ends one way or the other
and the tasks of a runtime that is dropped are dropped. Nothing is asked of
clients or of the upstream: the code has no timeout on a dial, an answer or a
body. `Executable!ExecFairSpec` asks that the boot goes on; the runtime polls
`main`'s future.

## 4. Proofs

`ServerHandleProofs`, for any `Callers` and `Servers` with `None` in neither:
`HandleInv` is inductive. Beside the properties it needs to know who holds the
mutex and what that caller has seen (`LockInv`), who holds a join handle
(`OwnInv`), that a poisoned mutex guards an empty thread field (`PoisonInv`;
hence nothing is leaked when drop gives up on it), that inside `destroy`
everyone else is idle and which of its steps has cleared what (`DropInv`), and
that channels of unspawned servers are untouched (`UnbornInv`). It yields type
correctness, `NeverDetached`, `DestroyReclaims`, `AlwaysStoppable` and
`FlagNotStuck`.

Three more theorems about any host bound the disagreement `contract_one_server`
shows: two servers live at once only while a caller is joining in `wait`
(`OverlapNeedsAWait`); the sender of a live server that nobody has stopped is
dropped only while one is inside `wait`, past its first section
(`DroppedSendersNeedAWait`); and so is the flag lowered in front of a server
that has not finished its work (`LoweredFlagsNeedAWait`). A host that never
calls `wait` meets none of the three.

The liveness of the handle is proved from `GuardedFairness`, which is
`Fairness` with the guards of the actions in the place of ENABLED: a caller that
can take a step for ever takes one, and so does a server thread. A caller that
needs the mutex can take a step only while it is free, so nothing is assumed
about a mutex that is not; where a proof needs it free, it proves it.

- `ResolvedServersEnd`: `PhaseOrder` says that a thread's phases come in one
  order and that a resolved future stays resolved; hence a server that was told
  to stop leaves each phase for a later one.
- `StoppedJoinsReturn`: only the joiner itself leaves its join (`JoinSteps`);
  the server it joins ends by the previous theorem, and then nothing holds the
  caller up.
- `DestroysReturn`: inside `destroy` the caller is alone (`DropInv`), so the
  mutex it needs is free, and it joins only a server whose future is resolved.

`SerialHostProofs`: `SerialInv` adds what the host rule gives in every state
(`RuleInv`: a caller in `wait` is alone among starts and waits), and that
therefore the thread field stays empty between a waiter's two sections
(`EmptyInv`). From it follow `OneServerOnly`, `OnlyOnRequest`,
`FlagTellsTheTruth`, `WaitDoesBlock` and the refinement
`HandleRefinesLifecycle`, whose step lemma maps each action to a `Lifecycle`
action or a stutter. `StopsEndWaits` is liveness again, from `GuardedFairness`:
while a caller joins nobody is in a start, hence the mutex is free and sound
(`SoundInv`); the stop resolves the future of the very server the waiter joins;
that server ends and the join returns.

`StartupProofs`, for every set of option structs: `BootInv` records what each
stage has established. Options do not change once stored, so each fact
survives. It yields type correctness and the four properties of the `startup`
run. `OnlyWildcardsPanic` gives `contract_panic` its exact extent: a start
panics only for a struct with a `*` inside its origin list, or with credentials
and a method or header rule that is `*` (`Unlayerable`), and no such struct gets
past the CORS layer. `UpstreamTlsIsTheAuthoritys` does the same for
`contract_mtls`: a serving proxy dials TLS if and only if a CA was given,
whatever else was; and `AuthorityMakesItMtls`, that it presents a client
certificate if and only if a CA and any part of the client's pair were given.
What is said of panics assumes `LayerRefuses`, the model of
the library.

`ServingProofs`, for any number of callers, servers and requests and any host:
`ServingIsAHandle` and `SerialServingIsSerial` carry over all that is proved of
the handle; with them `ServingImplementsLifecycle` is the refinement of
`SerialHostProofs`. `RouterLayers` computes what the four `add_` functions
build. `TrafficInv` says of every request that it has met the outer layers, that
it is in the client only if it is a call and has met `HandleError`, and that it
belongs to a server that serves or winds up while it is in flight. From it
follow `EveryAnswerIsReadable`, `OnlyCallsGoUpstream` and
`ServingRefinesExchanges`. `ReturnsAreQuiet` combines it with `SerialInv`: a
request in flight has a live server, and nobody lives where `wait` and destroy
have joined. `ListenersAreServed` says that only a server in its serving loop
has a listener, and `RestartsFindTheAddress` that, under the host rule, a
restarted server never finds its predecessor's in the way.

`CertFilesProofs`, for any threads, identities and prefixes:
`WritesUseLiveHandles` needs no rule on the host (a write has its handle until
it is over, a file holds nothing that was not generated). `CertInv` says which
part of a write a thread is in and what its prefix holds by then; it is
inductive only under `OneWriter`.

`GenCertsProofs`, for any number of runs: `ToolInv` says that the files before
the place a run has come to are of this run, those after it older, and in the
order of the places. It yields the three properties of the directory and the
action property `DirectoryMovesForward`: a file is only ever replaced by a newer
one, after everything that is written before it. `GenCertsUsesTheLibrary` maps
every step of the tool to a library call or a stutter.

`TlsBootProofs`, for any servers and option structs: `TlsBootIsAStartup` and
`TlsBootIsAToolRun` carry over what is proved of the halves. `TlsInv` adds,
for each server, that an undisturbed boot has read what the directory holds
(`Quiet`), that what it has read is in the order of the tool's writes
(`Ordered`), and that each stage has read and matched what it needs
(`Equipped`). Without `Quiet` the others would not survive a read. It yields
all properties of servers in the `tls_boot` run, the action property included.

`ExecutableProofs`, for any arguments and any number of processes: a process
boots as `Startup` does, so `ExecInv` is `BootInv` and what `main` adds to it
(`ProcessInv`): its policy has no list and no credentials, so that the CORS
layer takes it, and a process has an exit status exactly when its boot or its
server has ended. It yields `DefaultsNeverPanic`, `SuccessIsServed`, the type
invariant, which no run checks, and what `Startup` says of TLS
(`ProcessesServeAsTold`). `ProcessesListenOrFail` derives the liveness property
from a `GuardedFairness` of its own (main's future is polled while it boots), one
stage after the other.

Only model-checked:

- the liveness properties under the fairness of `FairSpec`, `SerialFairSpec` and
  `ExecFairSpec` itself: weak fairness is stated with ENABLED, which is out of
  the prover's reach. That it gives the two `GuardedFairness` is read off the
  guards and is not checked by a tool;
- `ImplementsFairLifecycle`, and `ResolvedServerEnds` in `Serving`, where a
  runtime winds up in as many steps as it has tasks, an induction on top of the
  fairness;
- the `contract_` runs, which are counterexamples.

## 5. Not modelled

- `ServerHandle` and `Startup` are composed with `Serving` and `GenCerts`, but
  not with each other: that the boot of one thread is the `booting` phase of the
  other is argued in section 2, and that a handle boots one server at a time,
  which `Startup!Start` takes for granted, is `OneServerOnly`. Two handles that
  compete for one address appear as two servers of one handle.
- Connections, HTTP framing, header values and the contents of certificates: no
  property tells them apart. That a leaf is signed by the authority beside it is
  the equality of their runs.
- A PEM file that is there, whole and yet unreadable (permissions, an I/O
  error) fails the boot in `Startup`, not in `TlsBoot`.
- Two `gen-certs` processes at once on one directory: the tool makes no attempt
  at it; `CertFiles` without its rule shows what happens.
- `build.rs`, the CMake files and the header generation have no state at run
  time. Parsing of arguments by clap, the wording of logs, and null pointers
  passed for handles (every call returns at once) are left out.
