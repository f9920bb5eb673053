# A TLA+ model of the Istio control plane

The repository is a set of AWS and Kubernetes notes around a complete copy of
Istio (release 1.6 in development) under `src/istio-refs/istio-refs`. The
program logic is Istio's, and the part of it that everything else feeds is
Pilot's xDS server: it turns changes of configuration, services and endpoints
into pushes to the connected Envoy proxies. This project models that server,
the Kubernetes registries and the Mesh Configuration Protocol that feed it, the
protocol on the streams it serves, and the agent that runs Envoy. Paths below are relative to `src/istio-refs/istio-refs`;
`v2/` stands for `pilot/pkg/proxy/envoy/v2/`.

## Inventory

| Component | Code | State | Operations | What makes it correct |
|---|---|---|---|---|
| Push request | `pilot/pkg/model/push_context.go` 206-321 | one request: full or not, context, services, namespaces, config types | `Merge` | a merged request asks for what the two asked for, no less |
| Push queue | `v2/pushqueue.go` | `eventsMap`, `connections`, `inProgress`, a condition variable | `Enqueue`, `Dequeue`, `MarkDone` | one push per connection at a time, nothing lost, no lost wake-up |
| Debouncer | `v2/discovery.go` 265-352 | `pushChannel`, merged `req`, a timer, two time stamps, `free`, `freeCh` | `ConfigUpdate`, the select loop, the push goroutine | one push at a time, nothing forgotten, bounded delay, callers return |
| Push scoping | `v2/ads_common.go`, `model/sidecar.go` | the proxy's sidecar scope | `ProxyNeedsPush`, `PushTypeFor`, `DependsOnNamespace` | no proxy misses what concerns it |
| Push path | `v2/discovery.go` 203-400, `v2/ads.go` 508-681 | global context, `adsClients`, the semaphore, one goroutine per event | `Push`, `AdsPushAll`, `startPush`, `ProxyUpdate`, `doSendPushes`, `pushConnection` | proxies converge to the global context; tokens are not lost |
| ADS connection | `v2/ads.go` 154-499, 683-744 | node, watches, nonces, stream | `StreamAggregatedResources`, `initConnection`, `addCon`, `removeCon`, `send` | a connection is tracked while it lives and drained afterwards |
| Endpoint shards, EDS | `v2/eds.go` | shards per service and cluster, EDS clusters and their connections | `edsUpdate`, `SvcUpdate`, `updateCluster`, `pushEds`, `removeEdsCon` | shards of different registries do not disturb each other; no full push is missed |
| Kubernetes registries | `pilot/pkg/serviceregistry/kube/controller`, `aggregate` | informer stores, `servicesMap`, a work queue per cluster, the list of registries | informer handlers, `onServiceEvent`, `updateEDS`, `AddMemberCluster`, `DeleteMemberCluster` | whatever the order of events, the shards end up as the cluster is |
| Push context | `model/push_context.go` | indexes of services, rules, sidecar scopes | `InitContext`, `updateContext` | an incremental rebuild equals a full one |
| MCP source, sink, snapshot | `pkg/mcp` | snapshots and open watches; per stream a queue of responses, nonces, acked versions; the sink's resources | `Watch`, `SetSnapshot`, `ClearSnapshot`, `ClearStatus`, push, ACK, NACK, apply, reconnect | every collection keeps its turn; the sink converges to the snapshot |
| Work queue | `pkg/queue/instance.go` | task list, closing flag | `Push`, `Run` | no task is lost, also when the queue closes |
| Envoy agent | `pkg/envoy/agent.go`, `proxy.go` | active epochs with their abort channels, two mutexes, `statusCh` | `Restart`, `waitUntilLive`, `runWait`, `Run`, `terminate`, `abortAll` | no proxy outlives the agent unaborted; restarts do not hang |
| Secret cache, SDS | `security/pkg/nodeagent` | secrets by connection, rotation job | generate, rotate, push | a proxy never keeps an expired certificate |
| Galley processing | `galley/pkg/config/processing` | session, snapshots, a second debouncer | start, stop, publish | sessions do not overlap, snapshots are complete |
| Mixer | `mixer` | quota windows, check cache, handler tables | alloc, check, dispatch | quotas are not exceeded, config swaps are safe |
| Other registries, config stores, leader election, secret controller, CA, operator, istioctl | `pilot/pkg`, `pkg/kube`, `security`, `operator`, `istioctl` | caches over Kubernetes | handlers | see `PROJECT.json` |

How the modelled parts interact: event handlers (`bootstrap/server.go`,
`serviceregistry/external`, `eds.go`) call `ConfigUpdate`, which sends to
`pushChannel`; the debouncer merges and calls `Push`, which builds a context,
publishes it and starts `AdsPushAll`; that enqueues every connection in the push
queue; `doSendPushes` takes a token and a connection and offers the event to the
connection's handler, which pushes and calls `done` (MarkDone, token back).
Endpoints come from the Kubernetes controllers: informer handlers queue tasks,
`updateEDS` calls `EDSUpdate`, which changes a shard and asks for an incremental
or a full push. Configuration comes from Galley: the snapshot cache answers
watches through a queue per stream, and Pilot's sink applies and acknowledges.
On each ADS stream Envoy and Pilot exchange subscriptions, responses and
acknowledgements of four resource types.

What is hard: five kinds of goroutine run at once (callers, debouncer, push,
sender and one per event, one handler per connection); locks are released
between reading a context and using it, and between the two halves of
`MarkDone`; one lock is held while a bounded channel is sent to; timers race
with pushes; streams close at any moment and lose what they carry; requests and
acknowledgements are the same message; two informers of one cluster, and two
controllers of one cluster ID, report independently. `PROJECT.json` lists each hazard at
its line with the properties aimed at it.

## Modules

`PushRequest` — the request record and `Merge`. Go's nil is `NoReq`; a nil and
an empty scope both become `{}` because the code only tests `len`. `Wants` is
the vocabulary of the properties: everything a request asks for.

`PushCoalescer` — the abstract specification: things are asked for a client, one
push at a time takes some of what is owed, nothing owed disappears otherwise.

`PushQueue` — `pushqueue.go`. One action per critical section of `mu`: `Enqueue`
(three cases), `Park` (`cond.Wait`) and `Dequeue`, `MarkDone` and `Requeue` (its
second half). `job` stands for the code between `Dequeue` and the end of
`MarkDone`. `PushQueueOrder` adds a caller that enqueues contexts in order.

`Debounce` — `debounce` and what surrounds it. Each case of the select is an
action; `PushIfDue` is the closure `pushWorker`. Time is discrete; the two time
stamps are kept as ages and `timeChan` as what is left of it. `mutex` is
`DiscoveryServer.mutex`, which `edsUpdate` holds while it sends to the channel
and which a full `Push` takes (`PushLocks`, `PushSends`).

`PushScope` — the decision tables as operators and a small system around them:
events build requests as the handlers do, requests are merged, `PushAll` pushes
to every proxy. `ProxyNeedsPush` returns the *set* of possible answers, because
the code ranges over a Go map and stops early. `ScopeOf` is the scope
`pushConnection` decides with: `updateProxy` gives a full push the scope it brings, an
incremental one is decided with that of the last full push.

`DiscoveryServer` — extends `PushQueue` with `Push`, the `AdsPushAll` goroutines,
the sender and its tokens, the goroutine of each event (`phase`) and the handler
of each connection (`handler`). A context is the number of the last config
change it was built from. `newest` and `excused` are history variables of the
properties. The debouncer is reduced to what `Debounce` establishes of it (one
merged request, one `Push` at a time), and every push is full. `Failures` are the
proxies whose look-ups and sends may fail without a broken stream.

`AdsStream` — the protocol on one Envoy's ADS streams. `con` is the
`XdsConnection` of each stream, and `ClusterRequest`, `ListenerRequest`,
`RouteRequest` and `EndpointRequest` are the cases of
`StreamAggregatedResources`, each with the condition under which the code takes a
request for an acknowledgement (`RouteIgnored`, `EndpointIgnored`). `HandlePush` is
`pushConnection`: CDS, EDS, LDS and RDS in that order, of what is watched at the
moment, from the context of the event. A config is the number of the `Push` that
published its context and determines the clusters and routes. `Publish`, `Launch`,
`StartPush` (the copy of `adsClients`) and `EnqueueClient` are the way of a config to
the connection, `InitProxy` and `AddCon` the two halves of `initConnection`, so that
a push can fall between any two of them. What stands in the push queue for a
connection is one context (`due`); an enqueue leaves either of two there, as `Merge`
and the gap in `MarkDone` allow. `excused` is a history variable: the causes of stale
config that `DiscoveryServer` names struck. Envoy is
external: it answers in order, asks for the endpoints and routes of what it was
given, rejects, reconnects with its subscriptions. CDS, LDS and EDS nonces are 0 or
1 because Pilot only tests whether there is one; RDS nonces are counted.
The answer to a request, and a push, are each one step of the handler's goroutine:
for a sidecar both are made from `con.node`'s scope, which only that goroutine
writes. Tokens, failures and the goroutine of each event are in `DiscoveryServer`.

`WorkQueue`, `EndpointShards`, `KubeRegistry` — endpoints, from Kubernetes to a
proxy. `WorkQueue` has the critical sections of `pkg/queue` as operators.
`EndpointShards` has `edsUpdate` and what a proxy is served, for one service; the
debouncer is a merged request, and a full push recomputes the cached assignment of
a watched cluster before it pushes. `KubeRegistry` adds, per controller, informers,
tasks, `servicesMap` and the queue, the aggregate over registries and the member
clusters that come and go. `author` and `announced` are history variables: whose
report a shard is, and the accounts that were in the shards at some request for a
full push.

`UniqueQueue`, `MCPSource`, `MCP` — the Mesh Configuration Protocol. `UniqueQueue`
has the methods of `pkg/mcp/internal/queue.go` as operators; `MCPSource` the
snapshot cache and one goroutine per stream (`TakeReady` and `PushServerResponse`
are the two halves of the ready case, between which the cache may act); `MCP` adds
the sink and streams that break. `SetSnapshot` holds the cache's mutexes while it
loops over the open watches, but not the queues' mutexes: the loop is a step per
watch (`AnswerWatch`), `answering` has the watches still to be answered, and only
what needs the cache's mutexes waits for it to be empty. `NoMsg` is the nil
pending response. `rejected` and `inherited` are history variables.

`EnvoyAgent` — callers of `Restart`, one `runWait` per epoch and the control loop. One
step per critical section of `mutex`; `restarting` is the holder of `restartMutex`.

`MCPushQueue`, `MCDebounce`, `MCPushScope`, `MCDiscoveryServer`, `MCAdsStream`,
`MCKubeRegistry`, `MCMCP` — small instances. `PushRequestProofs`, `DebounceProofs`,
`PushScopeProofs`, `DiscoveryServerProofs` (queue and server), `AdsStreamProofs`,
`EnvoyAgentProofs`, `KubeRegistryProofs`, `MCPProofs` — theorems.
Operators whose comment begins with "Mutant" are deliberate faults used to show
that the properties can fail; no specification uses them.

## Runs

| Run | Instance | Shows |
|---|---|---|
| `push_queue` | 2 connections, 2 consumers, 2 jobs, 3 kinds of request | invariants of the queue, that it implements `PushCoalescer` and, under fairness, that everything asked is pushed |
| `push_queue_order` | 1 connection, 3 contexts | **violated**: the gap in `MarkDone` reorders contexts |
| `push_scope` | 2 services in 2 namespaces, 2 sidecars, 1 gateway, 8 config types, 3 merged events | scoping hides nothing new from a proxy; coalescing costs it only endpoints of services it no longer sees |
| `push_scope_removal` | the same | **violated**: the removal of a namespace's last service is not pushed |
| `debounce` | 2 callers, channel of 1, delays 2 and 3, EDS debouncing on and off | the debouncer is a coalescer within the real bound on the delay; no deadlock between mutex, channel and push; the EDS bypass does not disturb the rest |
| `discovery` | 2 connections of which one may fail, 1 change, 1 `AdsPushAll` at a time, 1 token | tokens are exact, `done` runs once, when quiet a proxy is stale only for one of three causes, pushes arrive although the connections compete for the token, closed connections drain |
| `discovery_recover` | 1 connection, 2 changes | **violated**: a proxy that connects during a push stays stale |
| `ads_stream` | 1 Envoy, 2 streams, 3 configs over 2 clusters and 2 routes, 1 rejection | every subscription is served, all from one scope, which is the latest config's unless a named cause struck; the exchange comes to rest |
| `endpoints` | 2 clusters, 3 controllers, 2 endpoints with different accounts, 3 changes in the remote cluster | proxies get what the author of each shard saw last; no account unannounced; queues drain |
| `secure_naming` | the same, both clusters change | **violated**: a changed account without a full push |
| `mcp` | a full and an incremental collection, 1 and 2 generations, 1 broken stream, 1 rejection | each collection keeps its one turn; the sink converges |
| `envoy_agent` | 2 configs, 4 epochs | no orphaned proxies; everything stops; restarts start |

Bounds. Two connections and two jobs are enough for every interplay of the
queue, whose actions touch one connection at a time; the theorems remove the
bound. A channel of one place makes callers block at once. `MaxBurst` limits the
calls between two ticks, so that the state stays finite; it also limits a Push
that sends. In `DiscoveryServer` two connections compete for one token and one
queue; one of them may fail, and both may connect and close at any moment, so that a
token or an event that is lost with one starves the other. One config change and the
`ProxyUpdate` calls next to it give the queue several events per connection. An
overtaking needs two changes and two goroutines: the run of `AdsStream` has it, and
`StaleOnlyByKnownCause` is a theorem for any number of both. Three
configs let `AdsStream` add, remove and replace the last cluster, and two pushes
overtake each other; Envoy may reject what comes of the second (`Faulty`), which is
enough for a rejection before and after a good response; two streams are an old
handler and a new one. Three controllers are the local one, a remote one
and its successor. In `KubeRegistry` three changes are enough for a service and
two reports of its endpoints in every order. One broken stream is enough for
`MCP` to inherit resources; the last stream stays, or nothing could be said of
convergence. In `EnvoyAgent` four epochs leave room for a restart during a
restart's wait. Three merged events cover every pair of config types and a third.
Where `CHECK_DEADLOCK FALSE` is set the system may indeed stop: no more changes,
sender parked, connections closed.

Fairness. A goroutine that can run runs (weak fairness per goroutine). Go's
select picks at random among ready cases, so each case of the debouncer is fair
by itself. Waiters of a Go mutex and of a channel are served in order, which
gives strong fairness of the callers' sends and of the push that needs the
mutex. A push ends because every send ends by `SendTimeout`; nothing says that
it succeeds. In `DiscoveryServer`, ending a `Push` is strongly fair only because
the number of goroutines is bounded in the model and not in Go. Nobody is obliged
to change the config, to connect or to disconnect. In `AdsStream` a `Push` that has
published goes on, each `AdsPushAll` copies and enqueues, and the handler
initialises, adds the connection, serves requests and pushes alike and notices a
broken stream; Envoy reads its
responses, acknowledges and reconnects; informers catch up with Kubernetes
and queues run; both ends of an MCP stream are scheduled, the loop of
`SetSnapshot` goes on, and a stream that is up delivers; the 20 second timer of `waitUntilLive` fires, goroutines start, and
the agent's select does not ignore an ended context for ever. Envoy is never
obliged to become live or to exit, the network never to break, Kubernetes never
to change.

`EventuallyPushed` of the queue has one honest exception: an item that gathered
during a push can be overtaken in the gap of `MarkDone` by another request. If
that happened at every `MarkDone`, each time followed by a `Dequeue` before the
second lock, the item would never be pushed; weak fairness does not exclude it.

## What the violated properties say

1. `MergeKeepsNewest`: `MarkDone` (`pushqueue.go` 95-107) enqueues an older request
   after a newer one and `Merge` keeps the older context.
2. `RemovedServicesLeaveProxies`: `namespaceDependencies` (`sidecar.go` 228) is
   made from the services there are, not from the egress config.
3. `StaleClientsRecover`: the comment at `ads.go` 376-380 relies on a periodic push
   that the server does not have. The stale part is what comes from the sidecar
   scope (services, rules); it lasts until the next push.
4. `SecureNaming`: `edsUpdate` (`eds.go` 422-442) compares a cluster's accounts with
   the last report of any cluster, not with all accounts seen so far as
   `discovery.go` 133 says.

Part of what `excused` records in `DiscoveryServer`: the `AdsPushAll` goroutines
(`discovery.go` 243) of successive pushes are not ordered, so a proxy can be sent
an older config after a newer one.

Met while modelling and visible in the modules, with no run of their own:

- The re-armed timer (`discovery.go` 316) may overshoot `debounceMax` by nearly
  `debounceAfter`; `DelayBound` states the real bound.
- A sink that reconnects keeps the names of an incremental collection that were
  removed meanwhile: the source starts with an empty `ackedVersionMap`
  (`source.go` 143 calls it what exists at the sink) and never reads
  `InitialResourceVersions`. `inherited` makes the exception.
- The key `SvcUpdate` is called with is the bare name (`controller.go` 270), the one
  `EDSUpdate` uses is the hostname, so `deleteService` never finds the entry.
- Endpoints skipped because their service is unknown (`controller.go` 811) are not
  looked at again when the service arrives; if another cluster's shards already
  make the entry, this cluster's endpoints stay missing until the next report.
  `EndpointsCurrent` therefore speaks of a shard that is its controller's latest
  report, whoever that controller is.
- A late report of a removed cluster's controller replaces the one of its successor
  (`multicluster.go` 130: the old queue drains), and stays until the next report.
- An endpoint update merged into a full push is decided with the new scope: the
  endpoints of a service that has left the scope meanwhile are not sent, which the
  update alone would have done (`CoalescingKeepsPushes` names the exception).
- The shards of a removed cluster stay (`multicluster.go` 118 says that the cache
  must be cleared).
- The aggregate's `GetIstioServiceAccounts` answers from the first registry only.
- A work queue stopped while `Run` waits never returns: `closing` is set without a
  signal (`instance.go` 62-67).
- `Restart` after `Run` has returned starts a proxy nobody will abort (`late`);
  restarting with the configuration of an epoch that failed does nothing.
  `IsLive` may be answered by an older epoch than the one waited for.
- An EDS request for no clusters, with a nonce, counts as an acknowledgement, so
  Pilot goes on watching the last clusters. A rejected RDS response that also
  carries a changed list of routes loses the change; `SubscriptionsServed` excepts
  rejected types.

## Theorems

All are about the modules' own specifications, for every value of the constants
that satisfies the named assumptions. In each proof module the inductive invariant
comes first, part by part; then one lemma per part (or per group of parts), with
one step per action that can disturb it; then the theorems, which follow from it.

**Push requests** (`PushRequestProofs`). `MergeWants`: `Wants(Merge(a, b)) = Wants(a)
\cup Wants(b)`. Queue and debouncer rest on it.

**Push queue** (`DiscoveryServerProofs`, on `Spec`). `QueueTypeCorrect`, `QueueOrderCorrect`
(`OrderMatchesMap`), `QueueCorrect` (`OnePushPerConnection`), `QueueWakesConsumers`
(`NoLostWakeup`). The four properties together are inductive, none is alone: a
connection is not listed twice because one being pushed is not queued, and the
head of the queue is not being pushed because it is queued.
`QueueImplementsCoalescer`: step simulation from that invariant; the request between
the halves of `MarkDone` counts as owed.

**Debouncer** (`DebounceProofs`). `DebounceTypeCorrect`, `DebouncePushesAlone`
(`OnePushAtATime`), `DebounceCorrect` (`NeverStuck`). The strengthening is
`TokenAfterPush`: a token in `freeCh` means the push is over. `DelayIsBounded`
(`DelayBound`) holds as long as time never passed while the debouncer had something
to receive (`late`); its inductive part is `TimerBound`, which speaks of every armed
timer, also one armed during a push. `DebounceImplementsCoalescer`: what is owed is
in a caller's hands, in the channel or merged (`OwedPlaces`); a send and a receive
only move it, `MergeWants` says that a merge keeps it, `pushWorker` gives all of
the merged request to a push, and `TokenAfterPush` with `OnePushAtATime` says that
the push before is over. An update that goes past the debouncer was never owed.

**Push scoping** (`PushScopeProofs`). `ScopeTypeCorrect`, `CoalescingIsSafe`
(`CoalescingKeepsPushes`), `ClustersAreWarmed` (`ClustersComeWithEndpoints`),
`ServicesReachProxies` (`NewServicesReachProxies`). The invariant says that the
pending request covers every request merged into it (`PendingCoversAsked`) and
announces every service that a proxy should know and does not
(`NewServicesPending`). `CoveringReachesMore` is where the early exit of
`ProxyNeedsPush` matters: it needs that only requests about services carry
namespaces (`EventRequests`), which is how the handlers build them. A request with
namespaces and other config types would break it. A full request is compared in one
scope. An incremental request merged into incremental ones too; merged into a full
one it is compared across two scopes, and what it would have sent alone are
endpoints, of which the full push leaves out only those of services the proxy no
longer sees.

**Discovery server** (`DiscoveryServerProofs`, on `ServerSpec`). `ServerTypeCorrect`,
`ServerCountsTokens` (`TokensCountPushes`), `ServerDoneOnce` (`DoneOncePerEvent`),
`ServerLeavesNoneBehind` (`StaleOnlyByKnownCause`). The invariant extends the queue's:
the goroutine of an event, its job and the handler that serves it agree (`JobInv`,
needed for `done` to run once); nothing is asked for a connection before `addCon`
(`LifeInv`); each token has an owner (`TokenInv`); and the newest context a
connection is due (`newest`) is traced from place to place: it is global or an
`AdsPushAll` will ask for it (`NewestDue`), what is queued or being pushed is no
older unless excused (`QueueFresh`, `PushFresh`), and it is queued, gathered, held by
`MarkDone`, offered, or arrived (`ClientsFresh`). When all is quiet only "arrived" is
left. `ServerImplementsCoalescer` carries the queue's refinement over to the server:
its steps are the queue's operations or leave the queue alone, and the request an
`AdsPushAll` enqueues is a request because its connections were snapshot with one
(`PushAllInv`).

**ADS stream** (`AdsStreamProofs`). `AdsTypeCorrect` and `SubscriptionsAreServed`
(`SubscriptionsServed`). The property is about a stream at rest; the invariant says
what is owed while messages are under way, in both directions:

- towards Pilot, the last request that counts (no rejection and, for routes, with the
  nonce of the last response) names what Envoy wants now, and if there is none
  Pilot watches it already (`EndpointsAsked`, `RoutesAsked`). For routes the request
  also has the version Pilot sent last, because only then does Pilot compare the
  lists instead of dropping the request;
- towards Envoy, the last response of a type under way is from the connection's
  present scope and for what is watched (`ResponsesFresh`, `EndpointsSent`, `RoutesSent`);
- what Envoy has of a type not under way is from that scope too (`EnvoyFresh`). A
  CDS response forgets endpoints of clusters that are gone and an LDS response
  routes: that a cluster which comes back is not left without endpoints needs
  `WarmInv`, clusters under way are followed by the endpoints of what is watched,
  which is the order of `pushConnection`;
- from the server, once the connection is in `adsClients` the latest config is not
  launched yet, launched, to be enqueued, queued, or the scope, or a named cause
  struck (`PushInv`). `AddCon` is the first cause; `EnqueueClient` keeps an older
  context only by the second; no other step loses it.

`FirstInv` (the first request is for clusters, so a handler in its select has `CDSWatch`),
`ListenersInv` and `WantedInv` (routes are asked for after listeners, listeners once
wanted) rule out a push of what nobody subscribed to; `StreamInv` and `ClientsInv` tie
streams, connections and `EdsClients` together. The actions are first summarised by
what they do to each field and each queue (`Moves`), so that every part is proved
from the same nine cases.

**Envoy agent** (`EnvoyAgentProofs`). `AgentTypeCorrect`, `AgentLeavesNoOrphans`: the
types, with `activeEpochs` and the bootstrap files as functions of the epochs'
states, and `NoOrphans`. They are proved together: an abort reaches an epoch
because every unfinished epoch is active, and an epoch that starts after `abortAll`
already has its message, because its channel was in the map before `Restart`
began to wait.

**Registries and shards** (`KubeRegistryProofs`). `RegistryTypeCorrect`,
`AccountsAreAnnounced` (`AccountsAnnounced`): the argument is about `edsUpdate`. Either
the report's accounts equal `ServiceAccounts`, which are announced, or the request
is full and announces them; deleting a shard or an entry only shrinks what must
be covered. `ProxiesAreCurrent` (`EndpointsCurrent`) adds to that invariant: the
last report in a running controller's queue is what its informer has
(`ControllerInv`); a shard whose author has no report queued is what the author's
informer has (`ReportInv`); a proxy that nothing is pending for was served the
shards (`ServedInv`). A controller whose cluster was removed stays the author until a later
report of that cluster, its own queued ones included, is applied or skipped, so
`ReportInv` and the theorem speak of closed authors as well. The theorem does not say
who the author is.

**MCP** (`MCPProofs`). `MCPTypeCorrect`, `NoWatchLeaks` (`NoLeakedWatches`), `AnswersMatch`
(`NoStaleRequests`), `OneTurnEach` (`OneTurn`), `IdleMeansHeld` (`SyncedMeansHeld`). The
invariant follows a collection around its cycle: initial request, request, watch,
queue, response. It is at most once in each place (`OnceInv`), never in two
(`ApartInv`) and, on a stream that is up, in one (`SomewhereInv`); tokens match
entries (`TokenInv`). Since no collection is queued twice, the queue, which has room
for all, never overflows (`Room`). Then nonces match (`NonceInv`), a watch not about
to be answered is for the snapshot (`VersionInv`), a pending delta applied to what is
acknowledged gives the version it was made for (`PendingInv`), and the sink holds
what the source believes, an ACK under way included (`HeldInv`). `OneTurn` counts
with cardinalities; `AtMostOne` links the two forms.

Assumptions: `PushRequestAssumption` (contexts are numbers, `NoReq` is no request),
`PushQueueAssumption`, `DebounceAssumption` (delays and capacity positive, markers
distinct), `PushScopeAssumption` (`ServiceEntry` is among the config types, 0 among the
contexts), `DiscoveryAssumption` (a throttle of at least one, contexts for every config), `EnvoyAgentAssumption`,
`AdsStreamAssumption` (every config has clusters and routes; faulty configs are
configs; the bounds are numbers),
`EndpointShardsAssumption` (`NoEntry` is no entry), `KubeRegistryAssumption`,
`MCPSourceAssumption` (finitely many collections, each with a sequence of contents).
TLC evaluates them in the runs.

Every invariant and both refinements the passing runs check are theorems. Only
model-checked:

- Liveness (`EventuallyPushed`, `CallersReturn`, `PushesArrive`, `ClosedConnectionsDrain`,
  `SinkConverges`, `Settles`, `AgentStopsItsProxies`, `RestartsStart`, `ComesToRest`):
  fairness is out of the prover's reach.
- The violated properties, which have counterexamples.

## Not modelled

In the modelled parts: `Start` and `Reason` of requests (metrics); `stopCh`; the
contents of CDS, EDS, LDS and RDS; the debug push of `debug.go`; incremental
pushes in `DiscoveryServer` and `AdsStream`; what a response reads of the global
context besides the proxy's scope in `AdsStream`; the destinations virtual services add to a sidecar
scope in `PushScope`; two steps of `ProxyUpdate` (look-up, then read of the
context) are one; `updateServiceShards`, which reconciles other registries than
Kubernetes; pods, nodes and endpoint slices; the retry of failed tasks, which the
modelled tasks never need; the server side of an MCP sink; the MCP journal; more
than one group of sinks; a failing `cmd.Start` is an exit without a start.

The rest of the repository. Most of its lines are not program logic that a model
could state anything about: the operator's embedded assets, protocol buffer and
template code that is generated, test frameworks, command line tools. Of what
is, the generators of listeners, routes and clusters are pure translations from
one record type to another; the certificate code is cryptography and Kubernetes
objects. Mixer, Galley's processing, the secret cache and the config stores have
state and concurrency of their own and are not modelled yet; `PROJECT.json` says
so for each.

## Plan

Done: push request, queue, debouncer, scoping, server, ADS protocol, endpoints and
Kubernetes registries, MCP, Envoy agent, each with its theorems. Next, in order of what they would add:

1. `PushContextUpdate`: `updateContext` against a full rebuild.
2. `AdsStream` under `DiscoveryServer`'s handler, in one composition.
3. `SecretCache` (rotation and SDS pushes), Galley's second debouncer, the memory
   quota windows of Mixer, the secret controller's store.
