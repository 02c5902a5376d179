# TLA+ models of rxdaemon

This directory holds TLA+ models of the Go daemon framework in `../src`. They are checked with TLC.
`PROJECT.json` lists the components, runs, mutants, the map from definitions to source lines, findings and hazards.

## The system

The repository holds several generations of one design.

* **Service manager.** `src/service_manager.go`, `RunContinuousManager.Manage`, lines 44–131. One goroutine per service drives the lifecycle `Init → Idle → Run → Stop → Init …`. Before each callback, `updateState` reports the next state to the daemon. The manager then waits in a `select` on the service context's `Done` and on a state timer. Once the select is left, it runs `Stop` if the cycle has not stopped yet and reports `Exit`. A deferred `recover` only logs a callback panic.
* **Intracom topic.** This is the in-process pub/sub that carries the daemon's `ServiceStates` snapshots to watchers. There are two versions:
  * `src/intracom/topic.go`: an RWMutex-protected map from consumer group to subscriber, plus a broadcaster goroutine. For every message, the broadcaster starts one send goroutine per subscriber under the read lock and waits for all of them (`wg.Wait`) before the next message.
  * `src/unnamed/part_004`: request-channel version. Subscribe, Unsubscribe and Close are requests to a broadcaster loop, and they carry context timeouts.
* **Service context watchers.** `src/unnamed/part_000` lines 109–321, and the older `src/service_context.go`. `WatchAllServices`, `WatchAnyServices` and `WatchAllStates` subscribe to the states topic with a one-slot `DropOldest` buffer. Each emits on a one-slot channel when its filter over the snapshot holds.
* **Supervisor / state aggregator.** This is the daemon that spawns the managers, serialises their `updateState` calls into a snapshot, publishes it, and orders shutdown. It is described in `spec.md` but is not in `src/`.
* **Legacy generations.** There are two:
  * `manager.go` with `service_config.go`: a ServiceConfig-based manager with `isStopped`/`isShutdown` flags.
  * `service_context.go` 325–507 with the daemon of `part_003` and `NewService` of `part_005`: a `*ServiceContext` manager. Its `start` closes `m.stopCh` when every service has returned, and a stop goroutine then runs `shutdown` and cancels `m.ctx`. The daemon's `signalWatcher` runs `manager.shutdown` on a signal (or once the manager is done), then waits for the manager before closing `stopLogCh`.
* **Examples.** The multi_service example: an API server (`part_002`) and a poller (`examples/multi_service/polling_service.go`) that leaves Idle when told the server runs, and polls it on a timer.
* **Logging, notifier, options and tests.** These are enumerations, formatting, functional options and unit tests.

The manager talks to the daemon only through `updateState` and `sctx.Done()`. The daemon publishes every update to the states topic. Watchers read the topic.

## Modules

| Module | Models | State ↔ code |
|---|---|---|
| `ServiceLifecycle` | abstract lifecycle table (spec 4.3) | `status[s]`: last reported state of each service; `Enter` is one edge of the table |
| `ServiceManager` | `Manage` for a set of services, plus the daemon's cancel | `pc` is the point in `Manage`: `report` is the `updateState` call, `select` the wait, `final_stop`/`final_report` lines 120–131, `done` the return. `state`, `hasStopped` and `cancelled` are the Go variables and the root context. `reported` is what `updateState` last published. `lastCall`, `stops` and `runs` are history variables for the properties |
| `MCServiceManager` | two services | |
| `IntracomTopic` | `topic.go`: Subscribe, Unsubscribe, Close, broadcast, plus the watchers' receive loop | `closed` and `subscribers` are the struct fields. `queue[i]`/`chClosed[i]` are subscriber instance *i*'s buffered channel. `cpc`/`upc` are the points of a client's Subscribe/receive goroutine and of its Unsubscribe goroutine. `bpc`/`pending` are the broadcaster and its outstanding send goroutines. `closerPc` is `Close`. `published`, `sentTo` and `recvd` are history variables |
| `MCIntracomTopic` | two clients, and group assignments | |
| `StateWatchers` | `service_context.go` 112–324 (the same code as `part_000` 109–321): the three `Watch*` goroutines, composed with `IntracomTopic` through `INSTANCE` | The topic's variables are shared with the instance `T`; each watch is a topic client. `wpc[w]` is the goroutine's point (`subscribe`, `loop` in the receive select, `send` in the send select, `returned`). `staged` is `interestedServices` or `filteredInterests` waiting to be sent. `out[w]` is the watch channel `ch` (capacity 1). `wcancelled` is the watch context. `startedAt` and `lastEmitted` are history variables. Message *m* of the topic is the snapshot `Snapshots[m]` |
| `MCStateWatchers` | watch configurations and snapshots | |
| `LegacyManager` | `manager.go` with `service_config.go`: the ServiceConfig generation | `spc[s]` is the point in `startService` (`loop`, then `exit_stop`, `exit_check`, `exit_close` on the exit path, `done`). `resp` is `svcResp`; `isStopped`/`isShutdown` are the flags; `chClosed` is ShutdownC/StateC. `wg`, `mpc` and `launched` are `start`. `gpc`/`todo` are the stop-watching goroutine and `shutdown`'s loop. `crashed` is a panic from closing a closed channel |
| `MCLegacyManager` | two services, one per run-once policy, every callback response | |
| `LegacyDaemon` | `service_context.go` 349–507 (`NewManager`, `startService`, `start`, `shutdown`), the daemon of `part_003` (`Start`, `signalWatcher`), and the example's API server and poller as the runners | `spc[s]` is the point in `startService`: `loop` at the switch, `idle`/`run` inside a blocking callback, `done`. Each case of the switch is an action (`CallInit` … `ExitPath`); `RunReturn` applies the run policy. The callbacks are the example services': `IdleShutdown`, `ApiIdleTimer`, `PollIdleNotified`, `RunShutdown`, `ApiListenFail`, `PollRunNotified`, `PollTick`. `resp` is `svcResp`; `pollCount` the poller's local counter; `isStopped`/`isShutdown` the ServiceContext flags. `wg`, `mpc`, `launched` are `start` and the daemon's manager routine; `gpc["mg"]`/`gpc["sw"]` are the manager's stop goroutine and the signal watcher, both of which run `shutdown`'s loop over `todo`. `mStopClosed`, `dStopClosed`, `stopLogClosed`, `cancelled` are the channels and `m.ctx`; `dwg`/`mainDone` are `d.wg` and `Start`'s return. `stops` is a history variable |
| `MCLegacyDaemon` | the example's two services and their run policies | |
| `IntracomTopicReq` | `part_004`: `NewTopic`, `Subscribe`, `Unsubscribe`, `Close`; the broadcaster's request loop from spec 4.1 | `closed` is the atomic flag. `requestC` is the channel's buffer (capacity 1), and `reqClosed` means `close(requestC)` and `close(publishC)` have run. `subs`, `chOpen`, `nchans` and `bClosed` are the broadcaster's map, its delivery channels and its "closed" state; `bpc` is its loop. `cpc[c]` is the point of client *c*'s current call (`sub_send`/`unsub_send` in the first select, `sub_wait`/`unsub_wait` in the second). `calls[c]` numbers the calls, and `resp[c]` is the answer in the current call's `responseC`, tagged with the call it answers. `held[c]` is the channel the client reads. `clpc`/`closeResp` are `Close` and its `responseC`. `crashed` is a send on the closed `requestC` |
| `MCIntracomTopicReq` | two clients of one group, one subscribing with `ErrIfExists` | |

Each Go statement that waits on a lock or a channel boundary is its own action. So Subscribe is three actions:
1. `SubscribeCheckClosed`: the unlocked `closed` read.
2. `SubscribeLookup`: the lookup under the read lock.
3. `SubscribeInsert`: the insert under the write lock.

Close is two actions: `CloseSwap` and `CloseLocked`. The broadcaster is three: receiving a message and starting the sends, one `SubscriberSend` per send goroutine, and the `wg.Wait`.

Callback results are an input: a nil error, an error, or a panic (the panic outcome is modelled, but no kept run enables it; see Found while modelling). Messages are the numbers `1..MaxPublish`, published in order, so order properties can compare them.

The subscriber type (`newSubscriber`, `send`, `close`) is not in `src/`. `DropOldestSend` models its `DropOldest` send from spec 4.1; it is the only policy the callers use. The root cancel (`Cancel`) is the daemon's and is also taken from the spec.

## Runs

| Run | Expect | What it shows |
|---|---|---|
| `manager` | pass | Two managers, callbacks that succeed or fail, cancellation at any time. `StopExactlyOncePerCycle`: at most one Stop since the last Init, and exactly one once Exit is reported. `CancelLeadsToExit`: cancellation always leads to every service reporting Exit. `LifecycleRefinement`: the sequence of reported states implements `ServiceLifecycle` |
| `topic` | pass | Buffers within size. Per-subscriber delivery in publication order (`DeliveryOrder`, which depends on `wg.Wait`). The newest message delivered to a buffer is eventually read (`LatestDelivered`, which depends on DropOldest dropping the oldest) |
| `topic_group` | violation | Two concurrent Subscribes of one group create two subscribers (the RUnlock→Lock gap) |
| `topic_close` | violation | A Subscribe racing Close leaves an unclosed subscriber |
| `topic_req` | pass | The request-channel topic, with Close racing calls and timeouts at any point. `CloseClosesAll`: once Close returned, every channel is closed, including one registered for a Subscribe that timed out after its request was taken. `CallsReturn`: every call, and Close, returns unless the program has panicked |
| `topic_req_panic` | violation | A Subscribe that read `closed` as false sends on `requestC` after Close closed it, and panics |
| `watchers` | pass | A WatchAllServices(Entering, Run, a, b) and a WatchAnyServices(Exiting, Init, a, b) over the topic, with cancellation and topic close at any time. `EmittedSatisfiesWatch`: every emitted map is what the spec's set-based definitions (reference operators `SpecDelivers`, `SpecContent`) say, so the Go loops and the `len` comparison agree with them. `LatestMatchEmitted`: the last snapshot, once it reaches a live watch whose filter it passes, is emitted unless the watch is cancelled |
| `watchers_rewatch` | violation | A WatchAllStates cancelled and made again: the goroutine never Unsubscribes, so the second watch joins the leftover group and emits a snapshot published before it was created |
| `legacy` | pass | `CompleteAfterAllReturned`: completeCh closes only after every `startService` returned (wg.Add before `go`). `ShutdownReachesAll`: after stopCh closes, every ShutdownC gets closed, whichever side closes it |
| `legacy_close` | violation | startService's exit path and `shutdown` both pass the unlocked `isShutdown` test; the second `close(ShutdownC)` panics |
| `daemon` | pass | The multi_service example under the *ServiceContext daemon: the server runs once, the poller until stopped; signals, notifications and listen failures come at any time. `StopExactlyOnce`: Stop never runs twice and has run for every returned service (startService's `setIsStopped(false)` and the exit path's test). `LogStopAfterServices`: `stopLogCh` closes only after every service goroutine returned. `DaemonReturns`: a caught signal, or every service returning, leads to `daemon.Start` returning, through both `shutdown` callers and the `m.stopCh` → `m.ctx` → `d.stopCh` → `d.wg` chain |
| `daemon_retry` | violation | The poller under RetryUntilSuccessPolicy: the shadowing `svcResp :=` leaves the loop on Run's own StopState response, so Stop runs a second time |

Every property of a passing run has a mutant in `PROJECT.json` that TLC finds violated. Each mutant is a plausible bug in the mapped code, for example:
* a Subscribe reusing one responseC across calls;
* a dropped `wg.Wait`;
* DropOldest dropping the newest;
* a wrong table edge;
* an explicit `wg.Done()` beside the deferred one;
* a non-blocking send on the watch channel.

**Bounds.**
* The manager uses two services and `MaxRuns = 2`. This is enough for a re-init cycle (Stop → Init → … → Stop) and for cancellation at every point of it. 7.7k states.
* The topic uses two clients, two published messages, a one-slot buffer (the size the watchers use), and at most three subscriber instances, so that a re-subscribe after Unsubscribe happens. 164k states, about 90 s.
* The violation runs use smaller bounds; the races need only one message.
* The watchers use two watches with two snapshots (b initialising, then both running), chosen so that each watch matches one or both. That makes the latest-snapshot property meaningful. It also exercises an Exiting watch that reports a strict subset. 134k states, about 60 s. A third watch, for WatchAllStates, multiplies the space past 6M states. WatchAllStates's filter is exercised by the re-watch run only.
* The request-channel topic uses two clients in one group, two calls each, and at most four channels (one per possible Subscribe, so the broadcaster never runs out). Two calls are enough for a Subscribe then Unsubscribe, or a timed-out Subscribe then a retry. 8.8k states. Three calls or a third client give 75k states and over two minutes, without new kinds of interleaving.
* The legacy manager uses two services whose callbacks may return any of the ten responses. One service has RetryUntilSuccessPolicy and one RunOncePolicy, so both run-policy paths and the exit path occur. 5.7k states.
* The daemon uses the example's two services. The server runs once, so it can finish on its own after a failed listen; the poller runs until stopped, so it reaches its poll limit. `MaxPollCount = 1` (5 in the example) still makes the poller poll twice and stop on the third tick. 2.2k states: the services' behaviour is fixed by their code, and only signals, notifications and listen failures branch.

**Fairness.**
* Manager steps are weakly fair: `Manage` is a goroutine that is never blocked except in the select.
* `SelectDone` is strongly fair. Go's `select` picks uniformly among ready cases, so a Done case that is ready infinitely often is eventually taken. This is the assumption `CancelLeadsToExit` needs, and it is what the code gives.
* The topic's broadcaster, the in-progress client calls, `Receive` and the locked half of Close are weakly fair.
* Starting Subscribe, Unsubscribe or Close is not fair: a client may never call them.
* Watch goroutines are weakly fair in every step.
* In `IntracomTopicReq` the broadcaster and `Close` are weakly fair. A call blocked on a full `requestC` is strongly fair: the Go runtime queues blocked senders. A call waiting on its `responseC` is weakly fair. Timeouts and new calls are the caller's and get no fairness, so `CallsReturn` does not lean on a timeout.
* The service reading a watch channel is weakly fair: a caller of `Watch*` ranges over the channel it gets. Starting and cancelling a watch are the service's choice and get no fairness.
* In the legacy manager every goroutine is weakly fair. The daemon's stop request and cancel get no fairness.
* In the daemon every goroutine is weakly fair, and the timers fire. The Idle select of a service is strongly fair on its shutdown case: Go picks ready cases at random, and after the signal the server's Idle may take its timer, fail to listen and come back. Signals, notifications and a failing listener come from outside and get no fairness.
* A goroutine that spins without changing state takes no step in the model. This covers startService after `m.ctx` is done, and a response of Exit with an error. Liveness properties about it would fail; see the hazards.

## Plan and what is not yet modelled

Done so far:
* `ServiceManager` with its refinement of `ServiceLifecycle`.
* `IntracomTopic`.
* `StateWatchers`, composed with the topic.
* `LegacyManager`, for the manager.go generation.
* `LegacyDaemon`, for the *ServiceContext generation with its daemon and the multi_service example.
* `IntracomTopicReq`, for the request-channel topic.

Next, in order:
1. **Daemon.** The composition of managers, aggregator and topic, covering shutdown order (spec 5) and the blocking `Log` send. The aggregator is taken from the spec because it is not in `src/`.
2. **Shared-group watches.** A configuration with two live watches in one consumer group.

The twelve runs are all used. New questions will have to replace or merge existing runs.

In `LegacyDaemon` the `ServiceContext` type that `startService` calls is not in `src/`. `CtxShutdown` closes the channels under its mutex, once, as spec 5 says of the legacy flags. State notifications (`notifyStateChange`, `ChangeState`) reach the poller from outside. Log sends are left out: `NewManager` leaves `m.logC` nil and nothing in `src/` sets it, so as written every log send would block (a hazard).

Found while modelling, and not kept as runs (they are listed as hazards):
* In `manager.go`, `isStopped` starts TRUE and is never cleared, so the exit path never runs Stop.
* After `m.ctx` is cancelled, startService spins.
* In `service_manager.go`, the Stop run after the loop is not reported through `updateState(Stop)` (spec 4.3 says every state is reported before its callback).
* `Manage` never reads a run policy, so `RunOnceUnbiased` has no effect (spec 4.3 says it forces Exit after one Run).
* In `service_manager.go`, a callback can start after cancellation: with the timer also ready (it fires at once under the default `DefaultDelay` of 0), `select` may take the timer case (spec 4.3 says cancellation pre-empts the wait).
* In `service_manager.go`, a panicking callback is recovered by a `recover` that only logs, so Manage returns without Stop and without reporting Exit (spec 4.3 says the manager proceeds to Exit via Stop). The panic outcome is still in `ServiceManager`.
* In `part_004`, a Subscribe whose context ends after the broadcaster took its request leaves its group registered. The caller gets an error, and a retry with `ErrIfExists` fails until Close.
* In the daemon, a signal that arrives before the watcher waits in its select is dropped (`signal.Notify` with an unbuffered channel).

Not modelled, and not planned:
* the supervisor and state aggregator, and the `SyncBroadcaster` of `part_004`: neither is in `src/`. A model of them would be taken from the spec alone, and the map allows at most half of its definitions to be. The broadcaster's request handling is in `IntracomTopicReq` because the topic's own code cannot be checked without it; its publish fan-out and the buffer policies are not;
* the log level and notifier enumerations and their string conversions (formatting only);
* the service context's field and name plumbing (`With`, `ServiceContextWith`, the `context.Context` forwarding);
* `UsingRunPolicy` (a field setter; its result is the `Policy` constant);
* `service_test.go` (unit tests with mocks).
