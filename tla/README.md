# mitm-core in TLA+

TLA+ modules of the proxy in this repository, TLC configurations that check them on small
instances, and proofs, checked by TLAPS, for every value of the constants. Paths are relative to
the repository. `PROJECT.json` names, for every definition that models code, the lines it
stands for; this file says how the modules are meant to be read.

1. [The system](#the-system): inventory of the components
2. [The modules](#the-modules): what each one models, and how
3. [The runs](#the-runs): bounds, and what each run shows
4. [Fairness](#fairness)
5. [The proofs](#the-proofs)
6. [Disagreements found](#disagreements-found)
7. [What is not modelled](#what-is-not-modelled)
8. [Plan](#plan)

Run from this directory: `tlc -config MCH1Transaction.cfg MCH1Transaction.tla` and alike for TLC,
`tlapm H1TransactionProofs.tla` for the proofs.

## The system

mitm-core is an intercepting proxy library for Node: it accepts HTTP requests, CONNECT tunnels
(whose TLS it can terminate with certificates it makes) and WebSocket upgrades, emits events to
plugins at each stage, and forwards to the upstream. Everything runs in one thread: a *step* is
the code between two `await`s, or all that one Node `emit` runs. Concurrency is the
interleaving of such steps, of several promise chains and callbacks within one request, of several
requests on a connection, and of `listen()` and `stop()` with everything; certificate workers and
other processes that share a certificate directory run in parallel.

| Component | State | Operations | Interacts with |
|---|---|---|---|
| Proxy (`src/lib/Proxy.ts`) | active and initialised plugins, starting flag, stop promise, shutdown handlers, the HTTP server | `use`, `unuse`, `listen`, `stop`, signals, server events | plugins' hooks, context and connection managers, middleware |
| Plugin hooks (`core/plugin`) | | `init`, `run`, `cleanup`, `observe` | called by Proxy and by plugin events |
| Middleware (`src/middleware`) | | `onHttpPlain`, `onConnect`, `onUpgrade`, decrypted requests, `onProxyTargetResponse`, ... | plugin events, then `Pipeline.run` |
| Pipeline (`core/pipelines`, `phase`, `core/handlers`) | jumps, next phase in the lifecycle | `run`, failure and abort handling | request, response, handshake, WebSocket handlers |
| HTTP/1 transport (`core/transport/http1`) | upstream request, its flags, the bridge promise, streams | initiate, copy the body, dispatch response or error | plugin events, response cache, context manager |
| Context manager (`core/scope/ContextManager.ts`) | `requestIndex`, `activeRequests`, `requestLifeCycleIndex`, `connectionIndex` | create, look up, destroy, on closing sockets | every handler; the drain of `stop()` |
| Connection manager (`core/connection`) | `activeSockets` | add, remove, destroy all | Proxy |
| Plugin events, event buses (`core/event`) | listeners, time limit | `emitAsync`: one listener after the other, each with the time limit (plugin events); all together, errors aggregated (buses) | plugins |
| Certificates (`core/cache/CertificateCacheManager.ts`, `core/security`, `core/workers`) | two LRU caches, two in-flight maps, files, worker pool | get, generate, save, read | TLS handshake |
| Handshake (`core/handlers/handshake.handler.ts`, `H1InboundBridge`) | TLS server, TLS socket | handshake with time-out, bypass | certificates, context manager, decrypted requests |
| WebSocket (`core/transport/ws`) | two sockets, pending messages, close timers | initiate, bridge, tear down | plugin events, context manager |
| Response cache (`core/cache/ResponseCache*.ts`) | LRU of stored responses | look up, save, revalidate | bridge |
| Rules (`core/rule`) | rule sets, pending appends, watcher, reload timer | create, append, reload, destroy | plugins, the rule file, other programs |
| State store, abort signal (`core/state`, `core/signals`) | keyed values of a request | get, set | plugins, bridges |

What is hard here:

* **Many ends of one request.** The upstream's "error", the initiator's own error listener, the
  failing body copy, the pipeline's failure handling, the streamed response, a time-out, the
  client's disconnect and plugins (some of which have timed out and are still running) can each
  end the same client response, in any order.
* **Late answers.** `connect`, `response` and `error` events arrive while plugin listeners are
  awaited; listeners of the bridge are attached late; flags read before an `await` may be stale.
* **Bookkeeping by connection.** The request context is looked up by connection although a
  connection carries many requests, may be pipelined, and may turn into a tunnel.
* **Start and stop.** `listen()`, `stop()` and signals overlap, hooks fail, sockets must be drained
  or destroyed.
* **Shared generation.** Handshakes for one host share one certificate; files, caches and failures
  have to stay consistent over faults, crashes and other processes.
* **Two ends of a tunnel.** Both sockets of a tunnel close, break or fall silent on their own, while
  each message runs its listeners in a promise of its own and a TLS handshake races with its time-out.
* **Files and streams as they are.** Other programs change the rule file while it is loaded, watched and
  appended to; a response is cached while it passes, and may break or outgrow the limit.

What makes the components correct:

* *Transaction*: one head per response; every request ends for its client; the upstream is
  released when the client has gone; nothing is forwarded after a failure; a terminal lifecycle
  enters no further phase; a request counts as active until its response is over; documented
  status codes.
* *Proxy*: every initialised plugin is cleaned up once, in reverse order, whoever cleans up; run
  listeners serve only initialised plugins as long as their client is connected; `listen()` and `stop()` settle; nothing is open after
  `stop()`.
* *Tracking*: requests in flight are seen by the drain of `stop()`; closed connections leave
  nothing behind; one request's lifecycle is not inherited by the next.
* *Certificates*: certificate and key are a pair; one generation per host and process; memory
  agrees with disk; each handshake is answered; failures are forgotten.
* *Handshake*: a CONNECT settles once, and eventually; a hijacked connection gets no TLS socket; a
  failure leaves no socket open.
* *WebSocket*: a tunnel comes down as a whole, and tells its peer; a live one is never forgotten;
  messages are sent at most once, in order where nobody listens, and never after the end.
* *Response cache*: only whole responses are kept; a hit answers the same request, may be shared (if no request was
  pipelined) and is fresh.
* *Rules*: nothing is written twice; a written rule is matched in the end; stale rules are about to
  be reloaded.

## The modules

| Module | Models | Instance |
|---|---|---|
| `H1Transaction` | one plain request from its "request" event to the end of the response | `MCH1Transaction` |
| `PluginLifecycle` | abstract: what the proxy promises its plugins' hooks | |
| `ProxyLifecycle` | `use`, `unuse`, `listen`, `stop`, signals and the server | in `MCProxyLifecycle` |
| `PluginEmissions` | `ProxyLifecycle` with the emissions of its clients' handlers, which outlive it | `MCProxyLifecycle` |
| `RequestTracking` | the indexes of the context and connection managers | `MCRequestTracking` |
| `ProxyServer` | `ProxyLifecycle` over the sockets and requests of `RequestTracking` | `MCProxyServer` |
| `CertificateCache` | certificate caches, in-flight maps, files and workers | `MCCertificateCache` |
| `EventEmission` | one `emitAsync` with its listeners, of a plugin event or a bus | |
| `Handshake` | a CONNECT from its event to the end of its TLS tunnel | `MCHandshake` |
| `MessageRelay` | abstract: what a tunnel promises for messages | |
| `WebSocketTunnel` | an upgrade and its tunnel | `MCWebSocketTunnel` |
| `ResponseCache` | the response cache and the processors that use it | `MCResponseCache` |
| `RuleStore` | the rule stores of one file | `MCRuleStore` |
| `...Proofs` | theorems about the module they are named after, and (`ProxyServerProofs`) about `RequestTracking` | |

    PluginLifecycle <--implements-- ProxyLifecycle <--implements-- ProxyServer --extends--> RequestTracking
    ProxyLifecycle <--extends-- PluginEmissions
    EventEmission <--extends-- Handshake --implements (one CONNECT)--> RequestTracking
    MessageRelay <--implements-- WebSocketTunnel --implements (one upgrade)--> RequestTracking
    H1Transaction --implements (one plain request)--> RequestTracking

### H1Transaction

State: `life` is `scope.lifecycle` (next phase, abort, failure, hijack); `active` whether the id is in
`activeRequests`; `run` what the promise chain `onHttpPlain → Pipeline.run → RequestHandler →
ResponseHandler` awaits; `jumps` the counter of `Pipeline.run`; `client`, `req`, `res` the client's
socket, request and response; `init` the closure flags of `initH1UpstreamReq`; `up`, `upRes`, `pipe`
the upstream request, response and body copy; `conn`, `fin` the promises of the connect and
request events; `bridge`, `resp`, `err` the promise of `H1OutboundBridge.execute` and its two
listeners; `straggler` whether a listener that timed out still runs.

Every plugin event has one action for its return (`ConnectPluginsReturn(o)` and so on) that takes
the outcome `o` of its listeners together (return, abort, throw, time-out) and runs what the code
does from there to its next await. `Hijack` and `PluginAnswers` are what a running listener may do
meanwhile. `Upstream` and `Streams` collect what Node emits. Choices made:

* `RunResumes` is a step of its own: the chain continues some time after its promise has settled.
  In the program that is a microtask later, so this only adds interleavings.
* A body or a head is a single value: `res.code` says who wrote the head, with the status of the
  proxy's own answers and `upstream`, `cache`, `plugin` for the rest. Writes to a destroyed
  response are lost, as in Node.
* A client's FIN and its reset are one action, `ClientCloses`; a plugin that only reads is no
  step.
* `http:request`, an event bus without a time-out, is assumed to return.
* A fresh cache hit is `UseCache` and the branch of `OpenBridge`; revalidation cannot be
  reached by a request with a context of its own (an expired response is deleted first) and is left out. A decrypted request takes the same path
  with other event names. A 101 answer to a plain request is not modelled.

`TracksRequest` maps a transaction to one connection of `RequestTracking` with one plain request: in flight while it is
active, finished when somebody has taken it out of the indexes, closed with its response.

### PluginLifecycle, ProxyLifecycle, PluginEmissions

`listen` and `stop` are the program counters of the two asynchronous operations, named for the
await each has reached; `todo`, `listenLoop` and `stopLoop` are the rest of their loops over
plugins. `activePlugins`, `observed`, `initialized`, `listening`, `handlers` are the fields of
`Proxy`; `open` and `active` are what it reads of sockets and requests. A stop that finds no
active request ("drained") and one that polls ("draining") go on to `ForceClose`, where the
sockets are destroyed; the close event comes once the server does not listen and no socket is
open. Assumptions: one `Proxy` per process (its managers are shared); a server passed in the
options does not listen already.

`PluginLifecycle` says in 50 lines what a plugin author relies on: hooks run one at a time, one
cleanup for each successful init, in reverse order, and nothing is initialised before a cleanup that has begun
is complete. `HooksKeepContract` instantiates it with a mapping in which `ready` is
`initialized` and what the two cleanup loops still hold.

`PluginEmissions` adds to the proxy what the handlers of requests, tunnels and messages have going on: `running` are the
handlers, `client[h]` is the open socket that `h` serves (nothing, once it has closed) and `left[h]` the plugins whose listeners its
emission has still to call or to wait for. `emitAsync` goes through the listeners that were registered when it began, so `ForceClose`,
which removes them, and the cleanup that follows change nothing about `left`. What holds is `RunsOnlyReady`: while the client
is connected all of them are ready, since cleanup waits until the sockets have closed. What does not hold is
`CallsOnlyReady`: an emission that outlives its client calls plugins that have been cleaned up.

### RequestTracking

`index`, `activeRequests`, `lifecycles`, `activeSockets` are `requestIndex`, `activeRequests`,
`requestLifeCycleIndex` and `ConnectionManager.activeSockets`. A request id and a lifecycle are
named after the transaction that created them, so sharing is visible. `mode` is what a socket
carries; `txn` how far a transaction is. Actions are the server's events (`Request`, `Connect`,
`DecryptedRequest`, `Upgrade`, `SocketCloses`) and the ends of transactions: `Finishes`,
`ResponseCloses`, `TearsDown`, and `IsLeft` for the paths that end a CONNECT or an upgrade without
`destroyRequestLifecycle` (hijack, abort, failing hook, unreachable upstream of an upgrade). A
handler that goes on after its socket has closed is "unwinding" until `Unwinds`; an upgrade whose bridge already waits for
that "close" event is over with it (`heard` in `Closing`). `connectionIndex`
is keyed by the socket object and follows it; it is left out.

### ProxyServer

Extends `RequestTracking` and instantiates `ProxyLifecycle` with its sockets as `open` and its
`activeRequests` as `active`. `ForceClose` performs both sides of that step.
`KeepsProxyLifecycle` states that the composition implements `ProxyLifecycle`: what that
module assumes of clients and requests is no more than what happens.

### CertificateCache

A leaf is the pair of key pairs that `cert.crt` and `key.pem` were made with (each worker thread
has its own key), which is all that tells a good file pair from a bad one. `task[c]` is the
generation the handshake `c` has started and `call[c]` what has become of its own request.
File operations are synchronous, so within a process nothing comes between them (`Busy`);
other processes and crashes do. A task that reads both files has no `await`, so its `finally` runs
before `inFlight.set`: `AfterSync` is the entry that is left. `useCertificateCache` is the
configuration option; it is a variable that never changes, so that one run covers both values. The tests for the two files are one step,
since files are never removed. Not modelled: contents and expiry of certificates (nothing checks the age
of a leaf from disk), the case-folding of host names.

### EventEmission, Handshake

`EventEmission` has the listeners of the event that is being emitted, one by one: `listener[l]` waits,
runs, has settled in one of three ways, or is "late", when its time limit has passed and it runs on. `Over`
says when `emitAsync` settles, and `Thrown` what it throws; `EventBus` collects several errors into
one that is no abort signal. (Elsewhere an emission is what its listeners do together.)

`Handshake` emits the six events of a CONNECT with it. `step` is what `onConnect`, `HandshakeHandler.execute`
and the promise inside it await, `outcome` how they have ended; `sock`, `tls` are the two sockets, `sni` the
certificate that `SNICallback` asks for. `After` is the order of the events, with the "200" left out if
the socket has gone. The certificate itself is `CertificateCache`'s matter: here it comes or fails.
`TracksTunnels` maps all this to one connection of `RequestTracking`. A TLS socket that wraps a socket
which had closed before (`wraps`) never says anything: only its time-out ends it. Assumptions: the CONNECT
is the first request of its socket and HTTP/1; `pluginTimeoutMs` is positive; a listener that is late hijacks
nothing after its CONNECT has failed, where it would have no effect; `DestroyAll` of `stop()` is `SocketEnds`.

### MessageRelay, WebSocketTunnel

`exec` and `boot` are how far `execute()` and the listener of the "upgrade" event are, `upReq` the
upstream request; per side there are its socket, its WebSocket, and how far its close and error
listeners are; per message (`from`, `stage`) the side it came from and what its promise chain awaits. `sent` is
the history of what was written to an open socket. A listener that an `await` separates from its
`finally` is two actions; one that has none is one. `isTornDown` is `torn`. What becomes of the context is
`tracked`. `TracksUpgrades` maps all this to one connection of `RequestTracking`: `Through` is the end of what the upgrade's
handlers, listeners and timers may still do to its lifecycle.

`MessageRelay` is the promise: at most once, no overtaking on an ordered side, nothing after the end.
`RelaysMessages` instantiates it with a hijack or a teardown as the end, and with those sides as ordered on which
no plugin listens: a listener of messages may take its time, and later ones overtake. Assumptions: the
ws library is external and modelled as the bridge uses it; a socket that breaks before anyone
listens to its errors is not modelled; event-bus listeners return; the 60 s time-out of the upstream request
has no listener, so it is no step.

### ResponseCache

A cached response is named after the transaction that has fetched it, so that the cache maps keys to
transactions, and a hit says whose response it repeats. `Starts` is the lookup (`Hits`, `Misses`), `Responds` the
"response" event with `tryServeRevalidation` and `initializeUpstreamIntercept`, `ChunkPasses` a chunk
through `trackChunk`, `Completes` and `Breaks` the ends of the stream. `early` says what plugins have done
with the client's response before. Time is in ticks, bodies in chunks, and headers are the
directives that the code looks at. The LRU cache is external: it forgets by time and at will. As in the code, an
older response may replace a newer one, and neither `Vary` (other than `*`) nor `Range` is part of the key.

A processor reads the request each time from the context of its connection, in the constructor to make `key`, and again when the
response comes to judge it. `req` is the request that the upstream answers; `Reads` is what the processor finds in the context: the
same one, or, if a later request has come over the connection, one of `Pipelined`. `mixed` remembers that. With `Pipelined`
empty each context has one request. `terms` remembers the headers that `expires` was set by, and when, so that freshness can be stated
without repeating the computation of the expiry at a time when it is past.

### RuleStore

Each store is `phase` ("loaded" between the first load in the constructor and the start of the watcher, where
another program may come in between), the rules it matches by, `pendingSaves`, the change event on its way,
and the reload timer. `missed` remembers a change without an event or a failed read or write, the cases
the code does nothing about. The file is the number of times each rule is in it; that one rule's text contains another's is
`Inside`, since `appendRule` looks for the text. A watcher stays with the file it was started on: after a replacement it is "deaf".
Assumptions: the read and the write of `appendRule` are one step; the parser has a
`formatForSave`; two proxies with one rule file are other programs to each other.

## The runs

Distinct states in parentheses; each passing run takes less than two minutes. `CHECK_DEADLOCK` is
off everywhere, since each of these systems may rightly stop: a finished transaction, an idle proxy,
transactions used up. Type and inductive invariants are proved, and not checked again by the runs.

### Transaction

* **h1_transaction** (61,568; every event observed, every outcome, cache on, `MaxJumps` as in the
  code): `ActiveUntilAnswered`, `OneAnswer`, `TerminalEndsPhases`, `NoLateForward`,
  `StartedTimeoutIs504`, `TracksRequest`, and the liveness properties `EventuallyAnswered` and `UpstreamReleased`. The
  model of one transaction is finite as it is: nothing is cut off. An event without listeners is
  the case of listeners that return at once. Both liveness properties exempt transactions in which
  `proxy:upstream-dispatch` listeners made the bridge miss the upstream (`MissedUpstream`).
* **h1_timeout_504**: the status of a time-out that the documentation names and the code does not keep.

### Proxy

* **proxy_lifecycle** (5,639; two plugins, one socket, one request, one handler that emits again and again): `RunsOnlyReady`,
  `SettledIsClean`, `HooksKeepContract`, `StopSettlesEventually`, `ListenSettles`. Two plugins show the
  order of cleanup and a failure in the middle of it; the server looks at sockets and
  requests only to see whether there are any. The handler may begin an emission before, during and after the drain, and end
  it, or not, while the plugins are cleaned up.
* **request_tracking** (32,751; two sockets, three transactions of any kind):
  `LifecycleNotInherited`, `NothingLeftBehind`. Three transactions are a CONNECT with
  two requests in the tunnel, or a request, a pipelined one and one after them; the second socket
  shows that entries do not mix. That the drain sees a connection's first request is what proxy_server checks as
  `FirstRequestIsWaitedFor`; `FirstIsTracked`, the invariant behind it, is proved.
* **tracking_leak**: the statement about `destroyRequestLifecycle` that does not hold.
* **proxy_server** (117,896; one plugin, two sockets, two transactions of any kind): `StoppedIsIdle`,
  `KeepsProxyLifecycle`, `FirstRequestIsWaitedFor`.

### Certificates

* **cert_cache** (59,154; one process, two handshakes for two hosts, two key pairs, every fault and
  crashes, certificate cache on and off): `OneTaskPerHost`, `PairsMatch`,
  `MemoryMatchesDisk`, `CallSettles`. A handshake may be followed by another of the same caller, so two
  callers are one that starts a task, one that joins it and ones that come later; two key
  pairs suffice for a mismatch; the second host keeps the process busy.
* **cert_failure_kept**: what does not hold of failures.

### Tunnels

* **handshake** (1,687; three listeners for each event): `HijackedGetsNoTls`, `ListenersAreWaitedFor`,
  `FailedIsClosed`, `HandshakeSettles`, `ClosedTunnelForgotten`, `TracksTunnels`. Three listeners
  are one before, one at and one after a failure or a time-out; a bus with two errors and one still
  running tells `allSettled` from `all`.
* **ws_tunnel** (86,697; two messages, plugins listen to the client's): `ForgottenIsClosed`,
  `PeerIsTold`, `ClosedComesDown`, `RelaysMessages`, `TracksUpgrades`. Two messages are what it takes to overtake; the
  two sides are an ordered and an unordered one.

### Data

* **response_cache** (1,513,824; two transactions for one URL with three kinds of request, of which a plain GET may be pipelined behind
  any, eight responses, a limit of two chunks, three instants): `CachedIsComplete`, `HitMayBeShared`,
  `HitIsFresh`. One transaction fills the cache, the other races with it, hits or
  misses; the responses differ in the directives the code tells apart, and one of unknown length
  outgrows the limit; a GET that takes the place of an authorised one or of a POST is what mixes two requests up. Three
  instants are one to store, one to expire and one after. A hit on what was revalidated takes a third transaction, and is left to the proof
  of `HitIsFresh`.
* **rule_store** (391,816; two stores, two rules of which one's text contains the other's, two inputs that are formatted
  alike, one change by another program): `NoDuplicates`, `StaleHasReload`, `PendingIsWritten`,
  `WrittenIsMatched`. The second store is a replacement of the first, or its rival on the file. The
  safety properties are proved for any number of stores, rules and changes.

Each property of a passing run has a mutant: a definition in the modules marked "Mutant of", changed as
a plausible bug would, with which TLC finds the property violated. Mutants are used by no specification.

## Fairness

* `H1Transaction`: `pluginTimeoutMs` bounds every plugin event; promise continuations and emitted
  events run; the operating system ends a connection attempt one way or the other;
  `upstreamTimeoutMs` fires on an idle upstream socket (once: `up.timer`); an ended response is
  flushed or its client closes. Nothing makes the upstream answer, the client send its body
  or close, or a plugin hijack or answer.
* `ProxyLifecycle`, `PluginEmissions`: hooks and the startup callback return; the server emits its events;
  `shutdownTimeoutMs` passes; a destroyed socket closes. No client has to close by itself, no request
  has to end, no listener of an emission or handler has to return, nobody has to call `stop()`.
* `CertificateCache`: a worker answers or fails, and synchronous code runs on. It is strong fairness per task,
  since the event loop is a queue: a worker's answer is handled although other calls keep
  making the process busy. No eviction, restart or call has to happen.
* `Handshake`: a plugin listener's time limit passes; bus listeners have none and are assumed to settle, as
  are writes and certificates; `handshakeTimeoutMs` passes; a socket that ends closes. No client has to speak TLS.
* `WebSocketTunnel`: the listeners of "ws:close" and "ws:error" return, the timer of one
  second fires, and a socket that ends emits "close". Neither side has to send, to answer a close frame, or to
  close, and no message's listeners have to return.
* `RuleStore`: the event loop delivers change events and fires timers. Changes less than 200 ms apart for ever would
  put the reload off for ever; the bound on edits excludes that.
* `RequestTracking`, `ProxyServer`, `ResponseCache`: safety only.

## The proofs

`H1TransactionProofs` proves, for every set of observed events, every set of outcomes, with or without
the cache and every `MaxJumps`:

| Theorem | States |
|---|---|
| `TypeCorrect` | `Spec => []TypeOK` |
| `Inductive` | `Spec => []IInv` |
| `DrainedIsAnswered` | `Spec => []ActiveUntilAnswered`: a request leaves `activeRequests` only when its response is over |
| `HeadWrittenOnce` | `Spec => OneAnswer` |
| `TerminalIsFinal` | `Spec => TerminalEndsPhases` |
| `ForwardNotLate` | `Spec => NoLateForward` |
| `StartedTimeoutAnswers504` | `Spec => []StartedTimeoutIs504`: a time-out heard after the body copy has started is not answered 502 |
| `RequestsAreTracked` | `Spec => TracksRequest`: a transaction implements `RequestTracking` |
| `RequestsGoOn` | `Spec => []AnswerGoesOn`: until a request is over, aborted or hijacked, something is due that takes it further, unless the bridge waits in vain |
| `OnlyDispatchMisses` | `Spec => VainIsMissed`: the bridge comes to wait in vain only from `MissedUpstream` |
| `OnlyDispatchDelays` | `Spec => [](WaitsInVain => "proxy:upstream-dispatch" \in Listening)` |

They assume only the four assumptions on the constants in `H1Transaction`: which events and outcomes there are,
that `UseCache` is a Boolean, and that `MaxJumps` is a natural number above 1 (it is 10), so that
a request and a response phase fit.

`TypeOK /\ ActiveUntilAnswered` is not inductive. `IInv` adds what the progress of the parts says about
one another:

* `AnsweredIsOver`: a head that is out belongs to a response that is over, or to one the bridge streams.
  Without it an error path could find a head of a response that nobody ends, and `active` could be
  cleared by a callback while the response is still open.
* `ResponseComesFirst`: the bridge's "response" listener has run only if there is a response.
* `RequestPhaseComesFirst`: while the client request's plugins and listeners run, nothing has
  been set up for the upstream; so the steps of upstream and streams are impossible there.
* `AbortRejects`: the initiator's `aborted` flag goes with a rejected connect promise, which is why
  the body copy cannot start after an abort.

Each conjunct is shown to be kept by each action; the lemmas about `Answer`, `AnswerOrDestroy`,
`DestroyRes` and `DestroyUp` state once what the shared operations keep. The action properties
then follow action by action from `IInv`.

Several actions answer 502, and none of them may come before a time-out that the bridge hears. `TimeoutInv` says
why: the upstream request comes before what is done with it (`UpstreamComesFirst`); a time-out that was heard has destroyed
it without a further error (`ErrorsDestroy`); who answers 502 leaves no upstream request that could time out for the bridge
(`BadGatewayIsLate`); a bridge that has failed has a response that is over (`FailedIsOver`), and one that has resolved
enters no phase again (`ResolvedStops`).

For `RequestsAreTracked`, `ClosedIsUntracked` is added: a response that has closed is not tracked, and none outlives its
socket. Then only two steps close anything (`NextStaysOpen`); of the others each one that takes the request out of
`activeRequests` maps to `Finishes`, and none puts it back.

For `RequestsGoOn` a request is split in two. What settles it (its response is over, an abort, a hijack) settles it for good
(`SettledStays`), and then only the response's "close" is left. Until then `Unsettled` holds: the promise chain has not ended,
the bridge is opened once, it waits for an error listener at work or for a response that its listener has not seen, and a
response breaks with its upstream request. Each action keeps `Unsettled` or settles the request. What an open bridge still
waits for then either comes or has been missed before it opened, which is `OnlyDispatchMisses`; and without a listener of
`proxy:upstream-dispatch` nothing lies between the upstream request and the bridge (`OnlyDispatchDelays`).

`CertificateCacheProofs` proves, for any handshakes, hosts, key pairs and faults:

| Theorem | States |
|---|---|
| `CacheInductive` | `Spec => []IInv` |
| `CacheTypeCorrect` | `Spec => []TypeOK` |
| `GenerationIsShared` | `Spec => []OneTaskPerHost`, for any number of processes |
| `PairsStayMatched` | `OneProcess` implies `Spec => []PairsMatch` |
| `MemoryStaysTrue` | `OneProcess` implies `Spec => []MemoryMatchesDisk` |
| `WaitersAreServed` | `Spec => []NobodyIsForgotten`, for any number of processes |

They assume that `None` is no key pair, host or handshake, that each handshake has a process, and, where
said, that there is one process; with two, `PairsMatch` is false. `IInv` has two layers:

* For any number of processes: `TasksAreRegistered`, a task at work is the one that the `inFlight` entry of
  its host names, from which `OneTaskPerHost` follows; and `TasksKnowTheirPart`, a task reads only where
  both files exist and saves only matching leaves. Files are never removed, so other processes cannot break it.
* For one process (`Consistent`): the key is renamed last, so a key on disk has its certificate
  (`KeyComesLast`); whoever generates finds no key on disk and nothing in memory
  (`GeneratesWhatIsMissing`), which is why replacing the certificate cannot break a pair; a certificate
  that was read or saved stays until the task ends (`CertStays`); an entry that outlives its task is
  a failure or the pair on disk (`SettledIsOnDisk`).

`SettlesKeepsOrder` and `SettlesKeepsConsistent` state once what the end of a task keeps, and
`TaskGoesOn` and `TaskGoesOnConsistent` what its other steps keep; the actions only have to meet their conditions. `NobodyIsForgotten` is the safety that
`CallSettles` rests on: whoever waits, waits for a task that is at work for its host in its process. It is
inductive together with `RunningIsAtWork`, since a task and those who wait for it end in one step, or crash in one.

`ProxyServerProofs` proves of `RequestTracking`, for any connections and transactions and every mix of kinds:

| Theorem | States |
|---|---|
| `TrackingInductive`, `TrackingTypeCorrect` | `Spec => []IInv`, `Spec => []TypeOK` |
| `DrainSeesFirst` | `Spec => []FirstIsTracked` |
| `PlainLeavesNothing` | `Spec => []NothingLeftBehind` |
| `LifecyclesAreOwn` | `Spec => LifecycleNotInherited` |

The properties speak of one transaction, while the indexes are kept by connection; `IInv` connects the two: an index
entry names a transaction on its open connection (`IndexIsOpen`), which has lent its id to all others there
(`IdsAreShared`); an idle connection has nothing active (`IdleIsForgotten`), a tunnel that opened its
connection is active (`TunnelIsActive`), and a lifecycle in the index of a plain connection is that of a request in flight
(`LifecycleIsInFlight`), from which `LifecycleNotInherited` follows.

and of `ProxyServer`, for any plugins besides:

| Theorem | States |
|---|---|
| `ServerInductive` | `ServerSpec => []ServerInv` |
| `StopLeavesNothing` | `ServerSpec => []StoppedIsIdle` |
| `DrainWaitsForFirst` | `ServerSpec => FirstRequestIsWaitedFor` |
| `ServerImplementsProxy` | `ServerSpec => KeepsProxyLifecycle`: the server implements `ProxyLifecycle` |
| `ServerKeepsPromises` | `ServerSpec` implies what is proved of `ProxyLifecycle`: `HooksKeepContract`, `ObservedAreReady`, `SettledIsClean`, `SomethingIsDue`, `NeverBack` |

`ServerInv` is `IInv` as long as `stop()` has not destroyed anything: until then each step is one of `RequestTracking`. From
`ForceClose` on it is `Quiet`: the sockets that are left only wait for their "close" events, and nothing is active; when
`stop()` goes on from there no socket is left either. `ProxyInv` (only a server that listens is stopped, and it never listens
again) keeps new sockets out, and `OpenWhileInFlight` makes nothing be in flight once the sockets have closed. For the
refinement, a transaction's step changes `activeRequests` by one request or not at all and opens no socket (`Maps`); that it
starts a request only over an open socket that is not destroyed is what `ProxyLifecycle` assumes of it. `ServerKeepsPromises`
carries the theorems of `ProxyLifecycleProofs` over this refinement: `PL` is `Proxy` with its theorems, and `SameProxy` says
that the two are the same.

`HandshakeProofs` proves, for any number of listeners:

| Theorem | States |
|---|---|
| `HandshakeInductive`, `HandshakeTypeCorrect` | `Spec => []IInv`, `Spec => []TypeOK` |
| `HijackedIsLeftPlain` | `Spec => []HijackedGetsNoTls` |
| `HandlersWait` | `Spec => []ListenersAreWaitedFor` |
| `FailuresClose` | `Spec => []FailedIsClosed` |
| `OutcomeIsFinal` | `Spec => SettlesOnce` |
| `TunnelsAreTracked` | `Spec => TracksTunnels`: a CONNECT implements `RequestTracking` |
| `ConnectGoesOn` | `Spec => []SomethingIsDue /\ NeverBack` |

`OneAfterAnother` (before the plugin listener that runs all have returned, after it none has started) is why a failure, which
ends the emission, leaves no other running; `HijackEnds` says that after a hijack the
handlers only get to the end of the event. For `TunnelsAreTracked`, `WrapsInv` relates the TLS socket to the socket
it was made on; then what the handlers do maps to `TunnelOpens`, to `TearsDown` or `IsLeft`, or to `Unwinds` if the
socket has gone before, and the "close" events to `SocketCloses` or `Unwinds`. For `ConnectGoesOn`, `BusRunsAll` (a bus has
started all its listeners) and `ForgottenWithTls` (the TLS socket's "close" event forgets the lifecycle) are added.

`WebSocketTunnelProofs` proves, for any number of messages and whichever sides plugins listen to:

| Theorem | States |
|---|---|
| `TunnelInductive`, `TunnelTypeCorrect` | `Spec => []IInv`, `Spec => []TypeOK` |
| `ForgottenTunnelIsClosed` | `Spec => []ForgottenIsClosed` |
| `ClosingTellsPeer` | `Spec => PeerIsTold` |
| `TunnelRelays` | `Spec => RelaysMessages`: the tunnel implements `MessageRelay` |
| `UpgradesAreTracked` | `Spec => TracksUpgrades`: an upgrade implements `RequestTracking` |
| `ClosedIsBroughtDown` | `Spec => []ClosedIsComingDown /\ NeverBack` |

`UpgradeOpensTunnel` (no socket, WebSocket or message of the tunnel before the upstream has upgraded) keeps the paths
that forget a request apart from those that forget a tunnel; `CloseListenersAgree` is why a close
listener that waits has told its peer. For the refinement, `SentIsHeard` (what was sent has been received, and a
message whose plugin listeners still run has not been sent) and `PluginsListen` (only messages of a listened side
wait for plugins) are added; then each step maps to a step of the relay or to none. For `UpgradesAreTracked`,
`WebSocketsComeTogether` (the two WebSockets are made in one step, and nothing of a tunnel comes before them) says which listener,
timer or handler is the last that may forget the upgrade. For `ClosedIsBroughtDown`, `SocketsExist` is added: a tunnel that is torn
down has both sockets, so that none of them is left to open.

`ResponseCacheProofs` proves, for any requests, pipelined or not, responses, limits and times:

| Theorem | States |
|---|---|
| `CacheInductive`, `CacheTypeCorrect` | `Spec => []IInv`, `Spec => []TypeOK` |
| `OnlyCompleteIsCached` | `Spec => []CachedIsComplete` |
| `HitsAreShared` | `Spec => []HitMayBeShared`: a hit may be shared unless the transaction that fetched it has read a pipelined request |
| `UnmixedHitsAreAllowed` | `Spec => [](Pipelined = {} => ForbiddenIsNotHit)`: if no client pipelines, any hit may be shared |
| `HitsAreFresh` | `Spec => HitIsFresh` |
| `RevalidationIsIdle` | `Spec => []NothingIsRevalidated`: only a transaction that has read a pipelined request's response revalidates |

`StreamsAreBuffered`: while a response may still be cached all that has passed is in the buffer, so at the end it is
whole, and it was judged by its own request, or mixed. `CacheIsSound`: what is cached is whole, has its key, and was judged so.
`LookedUpIsSound` carries this over evictions for who has looked it up. `TermsAreTrue`: each expiry is what the headers in `terms` say,
whether they came with the response or with one that revalidated it. `HitsAskNobody`: who asks the upstream in
spite of a fresh response has sent headers, which is why nothing is revalidated while the context stays the transaction's own;
`ContextsAreOwn`: it does if nothing is pipelined.

`RuleStoreProofs` proves, for any stores, rules, inputs, formats and numbers of changes:

| Theorem | States |
|---|---|
| `RulesInductive`, `RulesTypeCorrect` | `Spec => []IInv`, `Spec => []TypeOK` |
| `NothingWrittenTwice` | `Spec => []NoDuplicates` |
| `SkippedIsWritten` | `Spec => []PendingIsWritten` |
| `StaleIsReloaded` | `Spec => []StaleHasReload` |
| `DestroyedStaysQuiet` | `Spec => DestroyedIsQuiet` |

`StaleHasReload` speaks of watching stores; `LiveIsFresh` extends it to the moment between first load and watcher,
`NewHasNothingPending` does the same for `PendingIsWritten`, and `WatchedIsThere` says that a file that is watched is there.

`ProxyLifecycleProofs` proves, for any plugins, connections and requests:

| Theorem | States |
|---|---|
| `LifecycleInductive` | `Spec => []IInv` |
| `LifecycleTypeCorrect` | `Spec => []TypeOK` |
| `ListenersAreReady` | `Spec => []ObservedAreReady` |
| `EmissionsCallReady` | `EmissionSpec => []RunsOnlyReady`, for any handlers of `PluginEmissions` |
| `ShutDownIsClean` | `Spec => []SettledIsClean` |
| `HooksAreKept` | `Spec => HooksKeepContract`: the proxy implements `PluginLifecycle` |
| `StopGoesOn` | `Spec => []SomethingIsDue /\ NeverBack` |

Both invariants depend on how far `listen()` is when `stop()` comes. `IInv` says so: a proxy that is not bound has not been
stopped (`UnboundIsNotStopped`), it listens only once bound (`ListensWhenBound`), an observed plugin is initialised, or will be
before the server is bound (`ObservedIsToBeReady`), and after the loops nothing is initialised (`CleanedUp`). For the
refinement two facts are added: of the two cleanup loops only one has plugins (`LoopsTakeTurns`), and no plugin is
registered twice, so none is initialised twice (`NoPluginTwice`). The type invariant, by which no list holds a plugin
twice, rests on those.

`EmissionsCallReady` adds to `IInv` that a handler's client is an open socket, and that a handler that has returned has
nobody left to call. While a socket is open no step takes a plugin out of `initialized` (`ReadyStay`), and a
listener that an emission finds registered is of a ready plugin (`ObservedAreReady`).

Of the constants the proofs assume what the modules' named assumptions say, and that the values that stand for
"none" are none of the others.

### What is only model-checked

The liveness properties (`EventuallyAnswered`, `UpstreamReleased`, `StopSettlesEventually`, `ListenSettles`,
`CallSettles`, `HandshakeSettles`, `ClosedTunnelForgotten`, `ClosedComesDown`, `WrittenIsMatched`) stay with TLC, since the prover has
neither fairness nor ENABLED. Every safety property of a passing run, and each refinement, is proved.

Of some of them the part that is safety is proved as well: that at every moment a step is due that leads to the end, and
that no step leads back.

| Liveness | Safety it rests on | Theorem |
|---|---|---|
| `StopSettlesEventually`, `ListenSettles` | `ProxyLifecycle!SomethingIsDue`, `NeverBack` (of `listen()` only the former and its cleanup loop) | `StopGoesOn` |
| `CallSettles` | `NobodyIsForgotten` | `WaitersAreServed` |
| `HandshakeSettles`, `ClosedTunnelForgotten` | `Handshake!SomethingIsDue`, `NeverBack` | `ConnectGoesOn` |
| `ClosedComesDown` | `ClosedIsComingDown`, `WebSocketTunnel!NeverBack` | `ClosedIsBroughtDown` |
| `EventuallyAnswered` | `AnswerGoesOn`, `VainIsMissed` | `RequestsGoOn`, `OnlyDispatchMisses` |
| `WrittenIsMatched` | `StaleHasReload`, `PendingIsWritten` | `StaleIsReloaded`, `SkippedIsWritten` |

`EventuallyAnswered` excuses a request that was once in `MissedUpstream`. `AnswerGoesOn` excuses only a state of the bridge
(`WaitsInVain`: open, and what it waits for has passed), and `VainIsMissed` says that this state is entered from
`MissedUpstream` alone; TLC finds both true of the instance `MCH1Transaction.cfg` as well. `UpstreamReleased` has no such
part yet.

## Disagreements found

Three have a run each and, in `PROJECT.json`, the quoted statement:

| Run | The code |
|---|---|
| h1_timeout_504 | answers 502, not 504, if the upstream times out before the body copy has started |
| tracking_leak | leaves CONNECTs and upgrades that fail in `activeRequests` |
| cert_failure_kept | keeps a failed read of certificate files as the answer to every later handshake |

More statements, of the documentation, of comments, or that a reader of the code would expect of it, are in the modules, each as a
definition in the last section that TLC refutes when a configuration names it:

| Definition | The code |
|---|---|
| `H1Transaction!AbortStopsResponse` | forwards the upstream response after an abort in `proxy:target-response` |
| `H1Transaction!DelayedNotLost` | loses a response, and never answers, if it comes while `proxy:upstream-dispatch` listeners run |
| `ProxyLifecycle!StopMeansStopped` | comes up after `stop()` has been answered, if plugins were being initialised |
| `ProxyServer!ActiveRequestsDrain` | does not wait in `stop()` for later requests of a keep-alive connection |
| `PluginEmissions!CallsOnlyReady` | goes on with an emission whose client has closed, over plugins that were cleaned up meanwhile |
| `ResponseCache!ForbiddenIsNotHit` | caches the response to an authorised request, and gives it to others, if a pipelined request without credentials was in the context when the response came |
| `WebSocketTunnel!HijackedIsLeftAlone` | closes a hijacked client's socket when its own upstream request fails |

The models show more behaviours a maintainer may want to know of, which no run is about:

* `handlePipelineFailure` answers 502 for a hijacked request when a later listener fails.
* An abort in a client request listener ends the pipeline; `docs/plugins.md` denies that,
  `docs/troubleshooting.md` confirms it.
* All requests of a keep-alive connection have the `requestId` of the first.
* `stop()` may resolve while a failed `listen()` that it races with is still cleaning up plugins.
* Two processes that save a leaf for one host at once can pair the certificate of one with the key
  of the other (`PairsMatch` with two elements in `Procs`).
* `connect:established` is emitted before the certificate and the TLS handshake, `docs/proxy-events.md` says
  after them.
* "ws:client-message" is emitted also for a message that was not sent because the peer is not open.
* A CONNECT that a listener aborts stays open without an answer.
* An upgrade that the upstream answers with anything but 101, or not at all, leaves the client waiting; one
  whose client has gone when `handleUpgrade` is called leaves the upstream's socket open and the request active.
* An appended rule whose write fails stays pending, and is skipped until the next reload.
* The code that revalidates a cached response does not run, since an expired one is deleted first, unless a pipelined request's
  response has replaced one that had headers.
* A pipelined request that comes before the processor of the one in flight is made gives that one's response its own key, or is
  answered by that one's hit (`ResponseCache`, `mixed`).
* The shutdown handlers stay installed after a failed bind; the certificate worker tells CAs apart by the
  lengths of their texts.

## What is not modelled

* Data: headers, URLs, bodies, certificates, the text of rules. Text handling without state, such as header
  rules, URL parsing, configuration and logging, is left out, as are the TCP
  handler, whose phase no code enters, and the HTTP/2 files, which are empty.
* Several listeners of one plugin event, except in `Handshake`: elsewhere an emission is what its
  listeners do together, which is what `EventEmission` lets `emitAsync` throw.
* The `StateStore` that the decrypted requests of a tunnel share with their CONNECT
  (`H1InboundBridge.ts`): its only reader in the proxy, `HandshakeHandler`, reads it before there are
  any; what plugins make of it is theirs.
* What a pipelined request that overwrites `client.req` and `client.res` of the one before does to the answers of the two: `H1Transaction`
  is one request with a context of its own. `ResponseCache` models what it does to the cache, `RequestTracking` that the two share
  their id and lifecycle.
* Several `Proxy` objects in a process.

## Plan

What is left:

1. The safety that `UpstreamReleased` rests on, and that what is due for a request does not come back (the rank of its steps).
2. What is proved of `RequestTracking` carried over to a CONNECT, an upgrade and a plain request, as `ServerKeepsPromises` does for
   `ProxyLifecycle`.
3. The `StateStore` of a tunnel, with plugins that keep state of overlapping requests in it.
4. Several listeners of an event in `H1Transaction`, with `EventEmission`, if the state space allows; today their outcomes
   come together.
5. Several `Proxy` objects in one process, which share their managers.
6. The connection of `CertificateCache` to `Handshake`, where a certificate now comes or fails.
