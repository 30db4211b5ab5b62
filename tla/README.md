# infermesh: TLA+ models, checks and proofs

infermesh routes OpenAI-style inference requests from HTTP clients to a fleet
of workers. A *router* keeps a registry of workers, picks one per request and
talks to it over HTTP, over a WebSocket the worker opened, or through a
*relay*. A *worker* fronts a local inference backend. A desktop application
supervises both. This directory models the concurrent core of router, relay
and worker: which goroutine may do what to a call, a connection, a frame or a
registry entry, in every order the Go scheduler and the network allow; and the
pure decisions the router takes (scores, tiers, names).

## 1. Inventory

| Component | State | Operations | Talks to | Hard part |
|---|---|---|---|---|
| Worker connection (`ws_conn.go`, `ws_pending.go`, `pendingCall` in `ws_hub.go`) | `pending` map, `sendCh`, `queueDepth`, per call `chunkCh`/`respCh`, `errCh`, `doneCh`, `closeOnce` | `Stream`, `Complete`, `LoadModel`, reader loop, writer loop, `shutdown` | HTTP handlers, worker socket, hub | five goroutines end the same call; closed channels in a `select`; a call registered after the drain |
| WebSocket hub (`ws_hub.go`) | `conns`, `connSem`, `workerMaxInFlight` | `handleConn`, `dispatch`, `bridge`, supersede | registry, connections | registration is several critical sections; eager and deferred slot release; removal by an old connection |
| Registry (`internal/registry`) | worker map with last-seen times, subscriber channels | `HandleEvent`, `checkStale`, `broadcast`, `pruneSubs` | discovery, hub, capability cache | events dropped on a full channel; slow subscriber pruned |
| Capability cache (`capability_cache.go`) | cached workers, inference stats | event loop, `Update` | registry, worker's HTTP API | lags the registry; two maps under two locks |
| Failover dispatch (`dispatch.go`, `handlers_chat.go`) | per request: attempt, excluded set, budget, trace rows | `selectWorkerExcluding`, `dispatchWithFailover`, `writeFailoverError` | cache, hub, tracker, counter | cache changes during selection; cap check without reservation; error taxonomy |
| Relay link of the router (`ws_relay.go`, `ws_stats.go`) | `relayConn`, `relayPending`, `relayInFlight`, `relaySendCh` | dial, reader, writer, fail-all, relay clients, `handleRelayRegister` | relay process | sessions overlap; count and map change in different critical sections; a lock taken twice |
| Relay process (`cmd/relay`) | worker and router connections, per-router queue, buffered frames | read, write and ping loops, buffer, flush | workers, router | replacement of connections, buffering across a router restart, overlapping flushes |
| Worker breaker, concurrency estimator | state, failure count, cap | record, recompute, persist | worker server | half-open state, cap movements for several reasons |
| Worker server and backends | model list, stream channels, health | HTTP and WebSocket handlers, retries, streaming, refresh, load | backend | errors racing closed channels; goroutines left behind; lost updates of the model list |
| Worker start, registration, reload (`run.go`, `register.go`, `ws_client.go`) | configuration, current registration loop, filters | `RunWorker`, `ReloadConfig`, `Stop`, HTTP, mTLS and WebSocket loops | router, relay | an old loop next to a new one; blocking reads and posts |
| Scheduler (`pkg/scheduler`) | weights | scoring, filtering, selection | dispatch | unknown values, clamping, ties |
| Classifier, aliases, routing configuration (`classifier.go`, `aliases.go`, `routing_config.go`, `handlers_meta.go`) | auto-routing configuration, alias table | classify, resolve, configure, list | requests, cache | conversions both ways; two reads of one table |
| Request tracker, call counter | trace ring, sliding windows | `Begin`, `SetStatus`, `Finish`, prune | dispatch | retention, `Stop` |
| Desktop app | child processes, activation state, config | supervise, activate, probe | router, worker | operating-system processes |
| Discovery transport, security, platform probes, frontend | | | | I/O or libraries; not modelled |

What makes each modelled component correct:

* connection: no call is lost, none ends twice, none succeeds without its
  answer, none waits for ever and every unit of capacity comes back (unless a
  client stops reading), no call is admitted above the cap;
* hub: tokens of the connection semaphore add up, the map only holds live
  connections of the right worker, a late shutdown never evicts a successor,
  a departed worker is forgotten;
* registry and cache: the cache equals the registry up to the events still
  queued, whatever was dropped before;
* failover: no failover comes back to a worker it left, no opted-out worker
  gets the request at all, no usable worker is skipped, the trace agrees with
  the answer, every request is answered;
* relay link: the count of a worker's calls is exact, the cap is kept as on a
  direct connection, every call returns, a lost link is dialled again;
* relay: no frame is delivered twice, a leaving connection does not take its
  successor down, a register does not stay in the buffer beside a router;
* worker: a stream that ends cleanly hides no reported error, every request
  ends, the capacity advertised comes back with the backend, the registration
  follows the latest configuration, and a declared model stays in the catalogue;
* decisions: the chosen worker is the best one, better is never scored less,
  configuration survives its two conversions, each loaded model has a name.

`PROJECT.json` lists the hazards line by line, the covered ones with their
properties and the others with the reason.

## 2. Modules

| Module | Models | State and actions |
|---|---|---|
| `InFlightContract` | the promise any transport makes about a worker's calls | `inFlight`, `over`, `cap`; `Admit`, `Refuse`, `End`, `SetCap` |
| `PendingCalls` | one direct connection and its calls | handler (`Register`, `Send*`, `Consume*`, `IdleTimeout`, `WriteReturns`), context watcher (`WatchCtx`), reader (`Receive`, `Lookup`, `Deliver*`, `ReaderTerminate`), writer (`WriteFrame`, ...), `closeOnce` winner (`FinishRemove`, `FinishClose`), `Shutdown*` |
| `WSHub` | registration, supersede, slots, shutdown, registry bridge | `pc` is the program counter of `handleConn`; one action per critical section |
| `Registry` | `memoryRegistry` and one subscriber channel | `HandleSeen`, `HandleRemoved`, `HandleExpired`, `SweepBegin`, `CheckStale`, `PruneSubs` |
| `CapabilityCache` | extends `Registry` by its consumer; composed specification | `TakeSeen`, `TakeGone`, `TakeProbe`, `Fetch*`, `SetInferenceStats`, `DeleteInferenceStats` |
| `Failover` | `dispatchWithFailover`, and other calls taking the worker's places | one action per step of the loop and of `postWithRetry` (`Repost`), plus `CtxEnds`, `CacheChange`, `OtherCall` |
| `RelayLink` | the router's end of the relay: one worker's calls over successive sessions | relay clients (`Register`, `EnqueueRelay`, `Send*`, `Consume*`, `WriteReturns`), `runRelay` (`DialOk`, `Redial`), one writer per session (`WriterStart`, `WriteFrame`, `WriterFail`, `WriterExit`), reader and its deferred clean-up (`Receive`, `Deliver`, `HandleRelayRegister`, `Cleanup*`) |
| `RelayBroker` | the relay process | one program counter per connection: `HandleWorker`, `ReadFrame`, `CheckRouter`, `EnqueueRouter`, `BufferWorkerMessage`, `Flush*`, `HandleRouter`, `RouterGone`, `Writer*`, `RelayPing` |
| `WorkerCapacity` | the breaker and the estimator, as operators | `RecordSuccess`, `RecordFailure`, `CanExecute`, `RecordRequest`, `Recompute`, ... |
| `WorkerServe` | extends `WorkerCapacity`: the requests of a worker | handlers (`Arrive` to `Result`), the streaming goroutine (`OpenStream`, `ReadLine`, `SendChunk`, `CloseErrCh`, `CloseChunkCh`), `streamSSE` (`Http*`), `streamOrFallback` (`WS*`), the health loop |
| `WorkerAgent` | start, reload, stop, registration loops, model catalogue | one generation (`Gen`) per launched loop; `ReloadConfig`, `ReloadCancels`, `ReloadLaunches`, `Stop`; `RefreshModels`, `SetModels`, `LoadModelByName` |
| `Scheduling` | the scorer, the filters and `SelectWorker` | scores in integer units, ratios rounded down; `SetScorerWeights`, `ScoreCandidates` (the snapshot), `SelectWorker` (a round of the loop), `DispatchSelected` |
| `ModelNames` | tiers, routing configuration, aliases, the model list | `HandleAutoRouting`, `HandleSetAliases`, a request (`ParseRequest`, `Resolve*`, `Dispatch`), a listing (`List*`) |
| `MC*` | TLC instances | constants only |
| `*Proofs` | theorems about the module they are named after: `PendingCalls`, `WSHub`, `CapabilityCache` (with `Registry`), `Failover`, `RelayLink`, `RelayBroker`; `WorkerProofs` is about `WorkerServe` (with `WorkerCapacity`) and `WorkerAgent`, `RoutingProofs` about `ModelNames` and `Scheduling` | |

Conventions. Actions carry the source's names. A specification that is
extended together with another one carries its name in `Init`, `Next` and `Spec`
(`RegistryInit`, `AgentSpec`, `SchedulingSpec`). A step is one critical section,
one channel operation or one `select`; code between two such points touches
only local data. `sync.Once` is a phase (`fin`, `shut`): the winner moves it
on, and any other caller of `Do` waits until it is closed, as in Go. A send on
a closed channel is a panic (`DeliverPanic`, the reader state `crashed` of
`RelayLink`), not an error. Payloads are reduced to what the handlers branch
on: a chunk, a final answer, an empty final answer, a final answer with an
error, an error message. Prompts are reduced to their token count and the
signals the classifier finds. Operators marked *Mutant* are deliberately wrong
variants of the definition below them; each breaks a property under the run
that checks it, which shows that the property depends on the code it is about.

How the modules fit together: `PendingCalls` and `RelayLink` are the two
transports, and both are shown to implement `InFlightContract`; `Failover`
uses their cap and the cache of `CapabilityCache` as its surroundings, and
takes any admissible worker where `Scheduling` says which; `PendingCalls`
leaves the deregistration at the end of `shutdown` to `WSHub`, and `WSHub`
leaves the failing of calls to `PendingCalls`; `WSHub` keeps of the registry
only the address its collision check reads. `RelayBroker` stands between
`RelayLink` and `WorkerAgent`: each of the three takes the other two as a
socket that may drop and a peer that may say anything. `WorkerServe` answers
the calls `PendingCalls` and `RelayLink` send.

## 3. Runs

| Run | Checks |
|---|---|
| `calls` | `TypeOK`, `NoOrphanedCall` and the refinement `ImplementsContract` for a stream and a call that share one connection, the cap moving between 1 and 2 |
| `calls_live` | `SuccessNeedsAnswer`, `EveryCallReturns`, `CapacityComesBack` for a stream or a call, with repeated answers, a control frame and a client that may stop reading |
| `hub` | `SlotAccounting`, `ConnectionCap`, `MapHoldsLiveConnections`, `SuccessorKeepsItsEntry`, `SupersededConnectionEnds`, `DepartedWorkerForgotten` for a reconnecting worker and a competitor with one slot |
| `cache` | `ReplayMatchesRegistry`, `StatsOnlyForCached`, `SilentWorkersForgotten`: one worker whose capability fetch has a timeout and one whose fetch has none |
| `failover` | `TraceMatchesAnswer`, `SentWithinLimits`, `GivesUpOnlyWhenTried`, `EveryRequestAnswered`: a WebSocket worker whose only place other calls may take, an HTTP worker, a worker that opted out, two cache changes at any point |
| `relay_link` | `CountMatchesCalls`, the refinement `ImplementsContract`, `EveryRelayCallReturns`, `DroppedLinkIsRedialled`: a stream and a call over two sessions |
| `relay_broker` | `NoFrameTwice`, `SuccessorKeepsLink`, `RegisterNotStranded`, `NoRouteToEndedConnection`, `LostRouterIsReleased`: two routers in turn, two connections of one worker, a queue of one frame |
| `worker_serve` | `BreakerMatchesCount`, `CleanEndHidesNoError`, `EveryRequestEnds`, `CapacityRecovers`: a request of every kind beside the health loop and the estimator, after a restart with any of the persisted caps 1 to 3 |
| `worker_agent` | `EveryLoopEnds`, `LatestConfigWins`, `DeclaredModelSurvives`: every start configuration, a reload, a stop |
| `scheduling` | `SelectedIsBest` (the loop of `SelectWorker`, round by round, against a declarative maximum), `BetterNeverScoresLess`, with the scorer replaced during a selection |
| `model_names` | `PostedConfigRoundTrips`, `LongerPromptNeverSimpler`, `ListedNamesCoverLoaded` (of a listing during which no aliases are posted) |
| `relay_reregister` | violated: `ReRegistrationCompletes` (section 4) |

Bounds. Channel capacities are 1 or 2, so that full, empty and just-fitting
all occur within a few steps. `MaxMsgs` bounds what the worker sends per call:
one message reaches every branch of the handlers in `calls`, where two calls
interact; `calls_live` allows two, so that a second answer meets a call that
has ended, and makes one call per behaviour (`MaxCalls`), of either flavour.
`MaxControl` bounds control frames: one occupies the whole queue. Three
sockets are the smallest set with a supersede and a competitor for the freed
slot. Two workers and a channel of capacity 2 drop events in `cache`;
`MaxEvents` lets a worker come, go and come back while the other holds the
channel. In `Failover`, two attempts and three workers make exclusion, opt-out
and exhaustion differ. Two dials (`MaxDials`) are what an old and a new
session need to overlap, and three relay events (`MaxEvents`: registers,
drops, cap changes, control frames) let a drop come before, between and after
a registration and a cap change. Two routers, two connections and four events
in `relay_broker` are what a supersede on both sides needs. One request in
`worker_serve` goes through every kind in turn with a threshold of two
failures, so that one failure alone, two in a row and a failed probe differ;
the streaming goroutine left behind by the grace period is a second writer to
the breaker. One reload gives two loops side by side. Pools of two candidates
are every comparison `SelectWorker` makes. Bounds are guards of the
environment's actions only, never of the code's. Deadlock is checked where the
system never stops (`scheduling`, `model_names`); elsewhere all calls over and
all sockets closed is a legitimate end.

Fairness. Weak fairness for goroutines that can run (the Go scheduler), for
timers that are armed (idle timer, grace timer, sweep ticker, health ticker,
the breaker's cool-down, `maxRelayCallTimeout`) and for the end of a
single-response call's context, which the retry budget guarantees. None for
workers, sockets, clients, the relay or a successful dial: they may stay
silent for ever. That holds for the writes to a client too. `proxyStream` and
the worker's SSE handlers write outside their `select`, and no `http.Server`
sets a `WriteTimeout`, so a client that stays connected and does not read holds
its handler: `WriteReturns` and `HttpWriteReturns` get no fairness, and
`EveryCallReturns`, `CapacityComesBack`, `EveryRelayCallReturns` and
`EveryRequestEnds` name that case (`ClientBlocks`, `CallerBlocks`) as an
exception. Behind the relay the call's unit comes back even then, since
`maxRelayCallTimeout` ends the call. A capability fetch ends where the plain
HTTP client's timeout of 5 seconds applies (`Timely`). The mTLS client
(`server.go:539`) has none and the request no context, so a fetch from a silent
worker may never end and then stops the cache's goroutine;
`SilentWorkersForgotten` has that one exception (`FetchHangs`). An HTTP
`Complete` is bounded by the retry budget, an HTTP registration by its client's
timeout; the mTLS registration client has no timeout and gets no fairness. A
heartbeat of a cancelled loop gets none either: `wsHeartbeat` may send it and
need not.
`LatestConfigWins` also assumes
strong fairness of the router's side: asked again and again, it accepts at
some point; without it no worker ever registers. The last send of a stream
(`openai_stream.go:185`) has no context case, so a goroutine may stay behind
when its handler has left: `EveryRequestEnds` names exactly that case
(`Parked`) and no other.

## 4. Where the code and its comments differ

`relay_reregister` shows `handleRelayRegister` calling `enqueueClose` under
`h.mu`, which `enqueue` locks again while the relay is connected: a worker that
registers a second time through the relay blocks the reader for good, with the
hub lock held. The liveness properties of `RelayLink` except this one state.

The following statements are kept in their modules under the names given.
They say what a comment, a test or a plan says; TLC finds each violated when it
is added to the configuration of the module's run, so they are not properties
of the runs:

| Statement | Said in | What the code does |
|---|---|---|
| `PendingCalls!ReaderSurvives` | `ws_pending.go:38` | a chunk for a stream that has just ended may panic the reader loop: `select` may choose the send on the closed channel |
| `PendingCalls!FailedStreamTracedAsError` | `handlers_chat.go:188` | error and closed channel are ready together; a failed stream may be recorded as done |
| `WSHub!ReplacementStaysRegistered` | `ws_hub_caps_test.go:266` | the shutdown of a superseded connection deregisters its replacement |
| `WSHub!OneActiveConnection` | `ws_hub.go:383` | with two slots, two simultaneous registrations of one worker both stay active |
| `WSHub!SamePeerMayReregister` | `ws_hub.go:371` | after a heartbeat a worker behind a NAT cannot re-register |
| `Failover!TransportFailureFailsOver` | `dispatch.go:256` | a dial failure ends the request instead of failing over |
| `RelayLink!WriterKeepsToItsSession` | `ws_relay.go:281` | a writer that starts late captures its successor's connection |
| `RelayBroker!NoFrameForAGoneWriter` | `cmd/relay/main.go:510` | the queue is looked up, then sent to after the unlock; its writer may have gone |
| `WorkerServe!RelayedStreamIsComplete` | `ws_client.go:376` | `errCh` is closed before `chunkCh`; the `select` of `streamOrFallback` may take that for the end with chunks still buffered |
| `WorkerServe!CleanEndIsComplete` | `handlers.go:120` | a stream that the idle timer cuts short behind a full buffer (`openai_stream.go:167`) reports no error, so the handler writes `[DONE]` and records a completed inference |
| `WorkerAgent!PostedWorkerIsHTTP` | `run.go:323` | after the fall-back from an unreachable relay to HTTP the worker still announces the WebSocket transport |
| `Scheduling!UnknownThroughputIsNeutral` | `dispatch.go:593` | `toSchedulerWorker` leaves an unknown throughput at 0, which scores as the slowest |
| `ModelNames!AliasIsARename` | `handlers_meta.go:177` | a change between the two reads of the alias table can hide a model and not list its alias |

Smaller ones, visible in the models:

* `writerLoop` subtracts control frames from `queueDepth` that `enqueue` never
  added (`WriteFrame`, `EnqueueControl`);
* a `removed` event dropped on a full channel leaves the worker's throughput
  data in the cache, although `deleteWorkerInferenceStats` is there to prevent
  that (`Broadcast`; hence `stale` in `ReplayMatchesRegistry`);
* both ways of spending the retry budget are answered 503, never by the 504
  branch meant for them (`StatusOf`, `OverBudget`);
* the registry unsubscribes a channel on the thirteenth failed probe, not the
  twelfth (`PruneSubs`);
* a flush that meets a full queue appends what is left behind what was
  buffered meanwhile, past the buffer's cap, and a later frame may overtake a
  buffered register (`Rebuffered`);
* `postWithRetry` POSTs the same body up to four times to the same worker, also
  when the worker may have begun to work on it (`Repost`);
* a cap persisted by an earlier process is clamped from below only and may start
  above the thread count of this one (`NewConcurrencyEstimator`);
* the breaker lets every request through while half open, not one
  (`CanExecute`; `breaker.go:81`), completions and requests over the WebSocket
  pass the breaker or the health check by (`Execute`, `Arrive`), and a failed
  non-streaming call goes on to stream after its error was written (`Result`);
* the WebSocket client's reconnect delay is never reset (`ws_client.go:94`);
* a reload on the relay path closes the connection and with it the requests in
  flight, although they are "NOT disrupted" (`run.go:334`), and a relay URL is
  taken in production mode, where the log says it is ignored (`run.go:617`).

## 5. Proofs

Every safety property a run checks, invariant or action property, is a
theorem; so are both refinements. All theorems hold for every value of the
constants under the `ASSUME`s of the component's module. These say that sets
of calls, sockets or workers are finite where something is counted, that
capacities and limits are positive, that model values do not coincide, and,
for `ModelNames` and `Scheduling`, which Go types the inputs have (a measured
throughput is also not negative: it is tokens over elapsed time). Two of them
are about sentinels: `ProbeAssumption` (the probe of `pruneSubs`, Go's
zero-value `Event`, names no worker) and `ConnAssumption` (a worker's
connection is not a router's, and the relay's own ping is not a worker's
frame). TLC evaluates the assumptions in every run.

TLC also finds each invariant below true of every reachable state of its
component's instance. Type correctness is proved for each component but
`Scheduling`, which states no type invariant of its own (its types are part of
`SchedInv`), and is a part of the other invariants or used beside them.

`PendingCallsProofs`:

* `TypeCorrect`. Directly inductive, one step per action.
* `NoCallOrphaned` rests on `InFlightInv`. `NoOrphanedCall` alone is not
  inductive: it needs that nobody refers to a call before it registers
  (`IdleUntouched`), that the drain snapshot is empty before shutdown takes it
  (`NoEarlySnapshot`), that a call in the map has not been through `finish`
  (`PendingUnfinished`), and that an open call is in the map or the snapshot
  (`OpenIsTracked`).
* `InFlightCapHolds`, an action property: the calls in flight grow only up to
  the cap in force, and exceed it only after it was lowered. `PendingStep` shows
  that a step either admits one call below the cap or does not enlarge the map;
  finite-set cardinality does the rest.
* `NoFalseSuccess` rests on `AnswerInv`: a success in a call's channel, or in
  the reader's hands, was answered by the worker.
* `PendingMapKeepsContract` is the refinement: initial states map to initial
  states, and each step is an `Admit`, a `Refuse`, an `End`, a `SetCap` or a
  stutter, under `InFlightInv`.

`WSHubProofs` proves `SlotsAddUp`, `ConnectionCapHolds`, `MapIsLive` and
`SuccessorKept` from one invariant `HubInv`: the type invariant,
`SlotAccounting`, that a socket early in `handleConn` owns nothing and is in
no map (`Fresh`), that a registered socket nobody asked to close holds its
slot (`RegisteredHold`), and `MapHoldsLiveConnections`. The slot count needs
them together: `Acquire` adds to `Held` because the socket held nothing
before, and a release subtracts exactly when the socket held a slot.

`CapabilityCacheProofs` proves `CacheFollowsRegistry` and `StatsFollowCache`
from `CacheInv`. What the cache will say of a worker once it has consumed its
channel is the operator `After(cache, queue, w)`; four lemmas say how an
append and a removal change it, for the worker the event is about and for any
other. `RegistryClass` sorts the registry's steps: each is silent about a
worker or announces its change. `LoopKnows` is the extra part: while the
cache goroutine fetches capabilities, the worker's entry is already there.

`FailoverProofs` proves `SentWithinItsLimit` and `TraceIsTruthful` from
`DispatchInv`: the attempt counter stays within its limit, a chosen worker is
not excluded and a called one is (`ChosenIsFresh`, `CalledIsExcluded`), what
`postWithRetry` has sent to the worker it is calling is within its own count,
and there is no answer before the loop returns. `NoUsableWorkerSkipped` needs
`TriedInv` on top: a worker that stayed in the cache throughout is still there
to be found (`SteadyIsCached`), and every attempt used up excluded a different
worker, unless none was left (`AttemptsTried`). `AttemptLimitHolds` is the
converse, that a request reaches no more than `maxAttempts` workers: by
`LimitInv` each excluded worker has used up an attempt, and for a called one
that is not excluded yet there was still room. The case that needs it is a
loop that ends with a call's answer, next to one that ends exhausted.

`RelayLinkProofs` proves `CountIsExact` and `RelayKeepsContract`, the second
transport's refinement of `InFlightContract`. `relayPending` and
`relayInFlight` are updated in two critical sections, so the count is compared
with the calls that still owe a unit (`Counted`), not with the map. `BooksStep`
sorts the steps by what they do to the two; `IdleUntouched` is the extra part.
`RelayCapHolds`, the counterpart of `InFlightCapHolds`, follows from the same
classification. `NoSocketLeaked` rests on
`SocketInv`: what is published belongs to the latest session, whose reader
unpublishes it before it closes `done`, and `runRelay` dials only after that.
`NothingMadeUp` rests on `AnswerInv`, which says of the frame in the reader's
hand what it says of a caller's channel.

`RelayBrokerProofs`:

* `RoutesAreLive` from `Routed`: an entry of the routing table belongs to a
  connection of that worker whose read loop is running.
* `SuccessorStaysPublished` from `LinkInv`: routers are accepted one after the
  other (`Ordered`) and what is published belongs to the latest (`LinkLatest`),
  so an older connection's clean-up finds the link not its own.
* `RegisterReachesRouter` from `FlushToCome`: while a register that
  nothing refused is in the buffer next to a connected router, its own handler
  or the router's has a flush still to do.
* `DeliveredAtMostOnce` from `PlaceInv`. A frame is in a worker handler's hand,
  in the buffer, in a flush's hand, in a router's queue or with a router; the
  invariant says that no frame is in two places or twice in one. A step either
  shifts frames from one place to another, drops some, or brings one frame that
  was nowhere (`Known`: a frame in any place is not newer than the last one its
  connection's handler read). Each action is
  shown to be such a step, and those are shown to keep places apart.

`WorkerProofs` proves `BreakerCountsRight` from the breaker's own
operators: every request and the health loop touch it only through them. It
proves `CleanHidesNoError` from `ServeInv`, a conjunction per request of what
relates the handler to the goroutine it started: attempts and chunks within
their limits, one stream opened, every chunk delivered is passed on or still
in the channel (`ChunksAccounted`), an error is kept until it is taken
(`ErrorKept`), and a handler that ended cleanly left the goroutine through and
its channel empty (`CleanIsDrained`). `CapGrowsToDefault` bounds the announced
cap: a start value may be larger, whatever thread count or persisted cap it
comes from, and no step raises the cap above `DefaultInitCap`.

For `WorkerAgent` it proves `DeclaredModelKept` from `CatalogueInv`: the list
the refresh loop has merged and not yet stored still has the model, because
the loads that come in between only add. `AgentTypeCorrect`,
`OnlyLatestLoopLives` and `StaleLoopFallsSilent` come from `AgentInv`. That a
reload never runs out of generations is not inductive by itself: where the
signal goroutine is tells how many loops it has launched (`LaunchesCounted`)
and which of them it has cancelled (`EarlierCancelled`). The last of the three
is an action property: a stale loop may finish the POST or the register it is
making and starts no other. A heartbeat may still leave it, since `wsHeartbeat`
does not look at its context between the tick and the send, but only over a
connection that is still open; once a stale loop can announce nothing
(`CanAnnounce`), it never can again.

`RoutingProofs`:

* `GetThenPostIsIdentity` from `PostedInv`: a posted configuration has no
  blank model, no keywords and thresholds that are *settled* (between 1 and the
  cap, in order, or one above the other at the cap). The lemmas `PostSettles`
  and `SettledStays` are that building is idempotent; `TierNames` is that the
  names of the tiers lead back to them.
* `LongerNeverLower` from the lemma `ClassifyMonotone`: the baseline by length
  is on both ladders and grows with the length (also for thresholds in the
  wrong order), the correction is the same, clamping and climbing keep order.
* `ListIsComplete` from `ListInv`: what a listing has collected at each of its
  four reads, as long as no POST of aliases came between.
* `SelectionIsBest` from `SchedInv`, whose part `BestUpTo` is the loop
  invariant of `SelectWorker`: after some rounds the loop holds the best of the
  candidates it has passed, the first of them on a tie, and none only if none
  of them can serve the request.
* `ScoringIsMonotone` from the lemma `ScoreOrdered`. Ratios are compared by
  cross multiplication (`CrossOrder`, `RatioOrder`), so that only products with
  a known sign remain; each component keeps the order
  (`ComponentsOrdered`), and so do the weighted sum and the clamping. The
  weights are never negative: `Kept` lets only positive ones in. The result is
  about exact ratios rounded down; the order of two floating-point scores that
  differ by a rounding error is outside it.

Only model-checked: liveness (`EveryCallReturns`, `CapacityComesBack`,
`SupersededConnectionEnds`, `DepartedWorkerForgotten`,
`SilentWorkersForgotten`, `EveryRequestAnswered`, `EveryRelayCallReturns`,
`DroppedLinkIsRedialled`, `LostRouterIsReleased`, `EveryRequestEnds`,
`CapacityRecovers`, `EveryLoopEnds`, `LatestConfigWins`): the prover has no
reasoning about fairness or `ENABLED`.

## 6. Not modelled

* The desktop application: a sequential controller of operating-system
  processes and a client of the router's read-only endpoints.
* Retention and pruning of the request tracker, the call counter's windows and
  the wait-time and throughput samples: statistics no decision of the modelled
  code waits for, except the throughput figure, which `Scheduling` takes as an
  input.
* Forwarding from the router to a worker inside the relay: one write under a
  lock, with no queue and no retry.
* Certificates, authentication middleware, platform probing, mDNS itself, HTTP
  plumbing, the user interface and packaging: sequential, pure I/O or
  libraries'.
* Finding the classifier's signals in a text, and the translation of backend
  payloads: data only.

Time is order only: there are no clocks, so late and early are modelled and
durations are not. Within the modelled parts, the relay branches of `send` and
`enqueue` on a direct connection and `SetMaxConnections` after start are left
out.

## 7. Plan

The models are complete as far as section 6 allows, and all their safety
properties are proved. What could follow:

* a refinement of `Failover`'s choice by `Scheduling`, with the cache entries
  as the candidates, so that the two are one specification;
* liveness, once a prover with fairness reasoning is at hand: the invariants
  above are the safety half of those arguments (`FlushToCome` says which step
  is still to come, `OpenIsTracked` that a waiting call is in somebody's list);
* the forwarding from the router to a worker inside the relay.
