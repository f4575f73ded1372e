# appNG in TLA+

appNG is a web application platform that runs in a servlet container: one
*platform* per node serves a set of *sites*, each with its own class loader and
application contexts, and the nodes of a cluster keep each other informed by
messages. This directory models the parts of it where threads and nodes
interact, model-checks them with TLC on small instances, and proves what matters
most with TLAPS for every instance.

Paths below are relative to `appng-core/src/main/java/org/appng/core` unless
they start with a module name.

## 1. The system

| Component | State it keeps | Operations | What must hold | Module |
|---|---|---|---|---|
| Site loading, reload, shutdown (`service/InitializerService`, `service/CoreService`, `domain/SiteImpl`) | per `SiteImpl` object: state, request counter, contexts and class loader; the platform's site map; the site's threads | `loadSite` (synchronized), `loadSiteAsync`, `getSiteLoader`, `handleReload`, `shutDownSite`, `shutdownSite`, `cleanupSite`, `SiteReloadWatcher` | one generation runs, and the map names it; no request starts on a closed context; waiting is bounded | `SiteLifecycle` |
| Request dispatch (`controller/Controller`) | the site a request was resolved to | `doGet` | every counted request is discounted once, on the object it was counted on | `SiteLifecycle` |
| Cluster membership (`controller/messaging/NodeEvent`, `SiteStateEvent`, `RequestNodeState`, `ShutdownEvent`, `service/HeartBeat`, `service/HazelcastConfigurer`) | per node: map from node id to `NodeState` | `setState`'s announcement, heartbeat, request/answer, goodbye, `memberRemoved` | a map says of a node what it was, and in the end what it is; who left is forgotten | `ClusterState` |
| Rolling reload (`controller/messaging/ReloadSiteEvent`, appngizer `SiteController`) | the events being performed | random delay, `waitForClusterState`, reading the site, `loadSite` | the site stays up on some node; every event ends; the nodes end with the last version | `RollingReload` |
| Transports (`controller/messaging/*Sender`, `*Receiver`, `Messaging`, appng-api `Serializer`) | sockets, topics, queues | publish, receive, dispatch to handlers | order per sender; own events ignored | in the two above |
| Page cache (`controller/filter/PageCacheFilter`, `service/CacheService`, `service/cache/CacheEntryListener`) | responses by method and URL, the listener's key set; it outlives the generations of its site | lookup/put, expire by element, prefix or time, clear at a shutdown | a page older than its file, or of an earlier generation, is there for a known reason, and not for long | `PageCache` |
| Repository watcher (`controller/RepositoryWatcher`) | pending file events | expire the pages of a file | a change reaches the cache | `PageCache` |
| Search indexing (appng-search `DocumentIndexer`, `GlobalIndexer`, appng-api `BlockingQueueAccessor`) | bounded queues, the Lucene index and its lock | offer, apply, commit, roll back | a commit is a whole batch; no producer and no lock is held for ever | `SearchIndex` |
| Startup, shutdown (`controller/PlatformStartup`) | platform scope | `contextInitialized`, `contextDestroyed` | what was started is stopped, in order | in the first four |

The remaining parts are listed in `PROJECT.json` as not modelled, with the
reasons; section 7 summarizes them.

**How they interact.** A request thread reads the site map and then works on a
`SiteImpl` object that a reload may replace under it. Loads are serialized by
the monitor of `InitializerService`; stops, deletions, the boot sequence and
asynchronous loads take no monitor. Every `setState` writes the node's own
entry of the cluster map and then publishes a `SiteStateEvent`; the `HeartBeat`
thread reads the site map and the same entry without a lock and publishes it as
a `NodeEvent`. The cluster map in turn decides whether a load suspends the old
generation first (`handleReload`) and when a `ReloadSiteEvent` may proceed. A
load starts the indexing thread and the repository watcher of the new
generation, a shutdown interrupts those of the old one and, if it gets that far and
the property is set, clears the page cache.

**What is hard.** Check-then-act on states (`CoreService:1908`,
`NodeEvent:61`), objects swapped under their users, threads that interrupt
themselves, messages that are late, lost or overtaken (a STARTED is announced
only after a delay), decisions on a map that is fed by the very thread that
waits for it, events of a node that has already said goodbye, pages rendered
before and stored after their expiry, a cache that outlives the generation it was
filled by, reloads that fail half-way, an index lock that outlives its site, and
loops whose time limit is not counted. `PROJECT.json` lists each such place with
its line and the properties that watch it.

## 2. The modules

Every component has a module that translates the code, an `MC` module that adds
the symmetry sets and definitions TLC needs, and a `Proofs` module.

### SiteLifecycle: one site on one node

Every load creates a *generation*, a `SiteImpl` object; `state`, `ctx` and
`requests` belong to generations, `siteMap` says which one the node answers
with and `nodeState` is the node's own entry of the cluster map. Four kinds of
threads act, each with a step counter `pc`:

* `Requests`: `Resolve`, `Admit`/`Refuse`, `AddRequest`, `Recheck`, `Handled`,
  `RemoveRequest` are the accesses of `Controller.doGet` to shared state, in
  its order. A request of the administration GUI may itself reload its site.
* `Events`: messaging threads and administration calls: reload (synchronized),
  stop, remove (`shutdownPlatform`) and delete (`SiteDeletedEvent`).
* `Workers`: the boot sequence and the `startupExecutor` of asynchronous
  reloads, both without the monitor.
* the `SiteReloadWatcher` of each generation, named by it.

An operation walks through `BeginLoad` and `SuspendSleep`/`DrainSleep`
(`handleReload`), `ShutDownSite` to `ComeToRest` (`shutdownSite`), `CleanupSite`
(deletion), `InitSite` to `Publish` (`getSiteLoader`), or `LoadFailed` (its catch
block). An exception of any other operation than a load just abandons it. The
dangerous gaps are steps of their own: between the waiting loop and STOPPING,
STOPPING and the closing of the context, `setState(STARTED)` and the second `siteMap.put`. `setState` itself is one step here; `ClusterState` splits it.

Abstracted: application contexts and class loader are one three-valued `ctx`;
phases 1 to 3 of a load are one step that may fail before or after (`FailLoad`),
as may the shutdown of an application (`FailShutdown`) and what a load does after
the second put (`FailStarted`: auditing, announcing and counting the reload; the
catch block then sets a generation INACTIVE that already serves); a deletion sets
DELETED and leaves the site map in one step; the site is active, so
it comes to rest STOPPED and not INACTIVE; time is a number of rounds. The
whole synchronized load holds the monitor; the time a request of another site
takes is not part of the model.

### SiteService: what the users of a site see of its reloads

Three variables: the generation that `serving` (or nobody), the generations that
are still `fresh`, and the generation each request is `at`. A generation goes up
only while none serves and only once, and a request is begun only by the
generation that serves. `SiteLifecycle` implements it under the refinement
mapping `ServingGeneration` (the mapped generation, if it is up),
`FreshGenerations` (not yet created, or being loaded before `SetStarted`) and
`HandledBy` (the generation of a request that passed the second check).
`ServedOpen` says of a request that its context is open; the refinement says
more: that it is begun on the one generation the node answers with, however late
the request arrives at the second check.

### ClusterState: what nodes know of one site on each other

`view[n][m]` is the entry for `m` in the map of `n`: a site state, `"none"` (a
`NodeState` without the site) or `"unknown"`. `setState` is split into the
object's state (`SetState`), the own entry (`Record`) and the message
(`Announce`, which for STARTED comes after a delay, so another thread's message
can overtake it). The constructor of `NodeEvent` is split where it can be
interrupted: the iterator (`PickSite`), `get` and `getState` (`ReadSite`, where
a removed site ends the thread), `containsKey` (`FindMissing`), the `put` and the
serialization of the entry (`BuildBeat`), the send. `Answer`, whose own look and
put are one step, is `RequestNodeState.perform` with the id it
really uses. A departing node removes its sites, sends its `ShutdownEvent` and
only later closes the transport (`StopPlatform`, `SayGoodbye`, `Close`), with
its heartbeat running all the time; the membership listener of Hazelcast acts
once per departure, unordered with the messages.

Where callers may call `setState` (`Calls`) follows `getSiteLoader`,
`shutdownSite` and `cleanupSite`: STARTING, then STARTED whatever happened
meanwhile, STOPPED, DELETED after STOPPED. SUSPENDED, STOPPING and INACTIVE
travel like the others and are left out. `budget` counts down the calls,
requests and departures the bounds allow; `had` and `late` are history
variables for the properties only.

### RollingReload: a reload that rolls over the cluster

An administrator changes the site (`db` is the version in the database) and
reloads it on one node (`ChangeAndReload`, thread `Gui`); when it is STARTED
there, the node publishes a `ReloadSiteEvent`. A node that receives one
(`ReceiveReload`) performs it in a handler: `Perform` fixes the quorum,
`WaitForSites` and `SitesStarted` are the loop of `waitForClusterState` over the
live map, `ReadSite` is `getSiteByName`, which happens outside the monitor, and
`BeginLoad`, `SetStarted`, `Announce` are the load. The announcement
of STARTED comes a delay after the state. `ReloadByAppNGizer` sends an event
whose node id belongs to no node, so that every node performs it.

Three actions are the ways in which an event or a load fails. `FailPerform`: the
site cannot be read; `Messaging.processEvent` logs the exception, and the event is
gone. `FailReload`: the load fails before the new object is in the site map, in
`handleReload` (an application does not shut down) or shortly after it; the node
keeps the version it had, and reports INACTIVE, which the other nodes hear only if
the new object already has its sender. `FailLoad`: the load fails with the new
object in the site map, before STARTED or after it, when the `ReloadSiteEvent` may
have been sent or not. `abandoned` is history: the nodes whose last reload failed
in one of the first two ways. `Failing` says whose loads may fail, by node and
thread. `queued` holds for each event whether the node had the site when it was
received, which is when `Messaging.handleEvent` looks it up.

With `Async` the receiver hands the events to an executor (Hazelcast passes
one); otherwise the receiver itself waits and loads, and the `SiteStateEvent`s
that would tell it that the others are STARTED stay in its inbox. Nodes leave
with a goodbye (`ShutDown`) or without (`Crash`).

The states of a load between SUSPENDED and STARTED are one, `"DOWN"`; what a map
entry is worth is the subject of `ClusterState`, what a load consists of that of
`SiteLifecycle`. The messages are reliable here: a lost event is an event that
was never sent, or a node that is late for ever, and the heartbeats that would
repair its map are in `ClusterState`.

### PageCache: the page cache of one site

`content` is the version of each file (`Change`), `generation` that of the site. A
request looks up its key (`Hit`, `Miss`), is admitted by a generation that is up
(`Admit`), renders (`Render`) and stores (`Put`), steps between which everything
else may happen. A watch event starts an expiry by prefix in a thread of its own
(`WatchEvent`), which copies the keys (`Collect`) and removes them in any order
(`RemoveKey`). Elements also go by hand, by time and by eviction, of which the
entry listener hears, hears, and hears nothing. A key is a method and a path; an
expiry by prefix only ever completes it with GET.

The cache belongs to the site, not to its generations. A reload interrupts the
watcher (`ShutDownSite`), which still handles the batch of events it has polled and
drops the others. The generation is then STOPPING (`SetStopping`); its applications
shut down and its contexts are closed (`CloseSite`), or one of them does not
(`FailShutdown`). In the second case the reload is over, and the *next* one finds a
generation that is not STARTED and skips the block in which `clearCache` is. In the
first, `cacheClearOnShutdown` (one of `Clears`) decides whether `RemoveAll` and
`ClearListener` follow. Without a listener, `RemoveAll` ends the reload with an
exception (item 14 of section 4). The load that follows starts a watcher if
`cacheWatchRepository` says so and the directory exists (`StartWatcher`, one of
`Watches`) and sets STARTED, or fails. Until then changes are noticed by nobody. A
SUSPENDED site is one that is up and gets no request.

History: `late` says of a request, and then of the entry it stores, that an expiry
of its page or a clearing passed by when its file was newer (`"outdated"`), and that
the cache was cleared while it was served (`"outlived"`); `lost` holds the pages
that changed unnoticed since their last expiry (no watcher, an interrupted one, an
overflow); `uncleared` the generations that ended without clearing the cache.

### SearchIndex: producers, the indexing thread and its lock

A producer is `filling`, `queued`, `taken`, then `done` or `abandoned`. Its owner
puts events into its bounded queue (`PutEvent`) and offers it to the indexer of
the generation that is loaded (`OfferProducer`), or gives up after a timeout or an interrupt
(`AbandonProducer`). The indexing thread of a generation takes a producer, opens
a writer, which takes `write.lock`, and a searcher that sees the index as it is
then (`OpenWriter`), applies events one by one (`ConsumeEvent`, `Applied`), and
commits when no further event comes in time. An I/O error or an interrupt ends
the thread, with a rollback if the writer is open. `ShutDownSite` interrupts the
thread of a generation, `LoadSite` starts that of the next one on the same
directory without waiting for it.

A commit, the close of the writer and the release of `write.lock` are one step.

`index` and `written` hold *copies* of documents, named by the event that added
them, so that a duplicate and an outdated copy can be told from the right one.

### IndexService: what the users of an index see of its threads

Three variables: the committed `index`, the `writer` (the producer that is worked
on, or nobody) and the `fate` of each producer: waiting, being written, applied or
lost. A batch begins only while there is no writer and only for a producer that
was waiting, a commit adds documents of that producer only, a rollback leaves the
index as it was. `SearchIndex` implements it under the mapping `ProducerWritten`
(the producer of the thread that holds `write.lock`) and `FateOf`: taking a
producer and applying its events are hidden, `OpenWriter` begins the batch, a
thread that ends before it could open its writer loses the producer it took.

## 3. What TLC checks

All bounds are CONSTANTS of the modules, set in the `.cfg` files.

| Run | Instance | Shows |
|---|---|---|
| `SiteReload` | 2 requests, 1 event thread, 3 generations; reloads by request, event and file; loads and shutdowns may fail; waiting on | `RunningIsMapped`, `NodeStateAgrees`, `NeverResurrected`, `ImplementsService`: with the monitor, what is up is what is mapped and announced, whatever fails, nothing comes back, and users see the service |
| `SiteConcurrent` | boot, asynchronous loads, reload, removal and deletion, 1 request, 2 generations, nothing synchronized | `TypeOK`, `RequestsCounted`, `UpImpliesOpen`, `NeverServedClosed`: even then requests are counted right and none *starts* on a closed context |
| `SiteLiveness` | 2 requests that may hang, suspending reloads, waiting on, 3 generations | `OperationsEnd`, `SiteComesBack` |
| `SiteRestart` | stop, then load, in a cluster | violates `LoadsSucceed` |
| `ClusterDeparture` | 2 nodes, 2 changes, 1 request for the node state, 1 departure, Hazelcast | `OwnEntryTrue`, `DepartedForgotten` |
| `ClusterLossy` | 2 nodes, one of which boots, loads, stops and deletes with 2 threads, 4 changes, lossy | `ClusterTypeOK`, `ReportsWereTrue`, `Converges` |
| `RollingAvailable` | 3 nodes, one of them new; executor; the administrator's own loads fail; a reload and a departure, or two reloads | `RollingTypeOK`, `StaysAvailable` |
| `RollingConverges` | 2 nodes without executor, 2 reloads by an administrator, 1 through appNGizer, 1 departure; the loads of handlers fail at any point | `NobodyLeftBehind`, `HandlersEnd`, `AllCurrent`: events that pile up behind each other and missed quorums leave no node with an old version, only a reload that fails before the new version is mapped does |
| `PageCache` | 1 page under GET and HEAD, 1 request at a time, 1 expirer, 2 changes, 2 reloads, with and without a watcher and clearing, overflow | `PageTypeOK`, `StaleExplained`, `OldPagesExplained`, `EventuallyFresh` |
| `CacheTracking` | 1 page, 2 requests, 1 reload that clears | violates `KeepsTrack` |
| `SearchIndex` | 1 document, 2 producers of up to 2 events, 2 generations, queue of 1, 1 I/O error | `IndexTypeOK`, `CommitsIntended`, `ImplementsIndexService`, `QueuedIsServed`, `LockIsFreed`: whatever error, interrupt or reload meets a batch, it is committed as a whole or not at all, and nothing is held for ever |
| `IndexThread` | the same without I/O errors | violates `ThreadAwaitsProducers` |

**Why the bounds are enough.** *Sites:* two generations let one be replaced, a
third lets the replacement be replaced while a loader of the first is still
under way. One request per generation suffices for the two checks of `doGet`;
the second one is there where a counter above the limit of 1 matters. A waiting
loop of one round already distinguishes "waited", "timed out" and "spins".
*Clusters:* two nodes are a sender and a receiver; entries of different nodes do
not influence each other except in `Answer`, which involves two. Two setter
threads produce every overtaking of STARTED and STOPPED. `MaxInbox` only says
when a heartbeat is due: it runs at an interval of minutes, so heartbeats do not
pile up faster than they are handled; inboxes are otherwise unbounded. *Rolling
reload:* three nodes are one that asks, one that follows and one that is new and
therefore does not wait; a quorum smaller than the cluster (four nodes and more)
only lets a node reload earlier, which the loop's time limit does as well. Two
rounds of waiting distinguish "reached in time" from "given up". *Page cache:*
pages interact only in `clearCache`; two reloads are one that fails and the one
after it, or two generations whose pages may both be left; the cache and the
expiries know nothing of one request but what it stores, so one thread that serves
one request after the other finds every explanation of an entry, and
`PageCacheProofs` has any number. *Index:* documents interact
only through "clear", which a single one shows; two events of one producer are
the least that can contradict each other, and "update" takes the branch of
"create". `PageCacheProofs`, `RollingReloadProofs` and the others then prove the
main invariants without the bounds.

`CHECK_DEADLOCK FALSE` stands where the system really stops: when the generations
are used up (`SiteConcurrent`), the reloads are over (`Rolling...`), or all
producers are done and the threads have ended (`SearchIndex`, `IndexThread`).

**Where the passing runs are narrower than the code.**

* `SiteReload` and `SiteConcurrent` have `SuspendOnReload = FALSE`: with it, the
  flaw `SiteRestart` shows (a stopped site is set SUSPENDED) breaks
  `UpImpliesOpen` as well.
* `SiteConcurrent` has no event that stops the site and leaves it mapped; a removal
  takes the same steps and unmaps it as well. The run with all four events has 6.5
  million states and passes, and `SiteLifecycleProofs` proves its four properties for
  every set of events.
* In `SiteReload` nobody stops the site, for the sake of `NodeStateAgrees` (item 12
  of section 4). The other three properties of the run hold with stops as well:
  `SiteReload.cfg` with `EventOps = {"reload", "stop"}`, one request and no symmetry
  has 1.5 million states, and `SiteServiceProofs` proves them for any number of
  threads that stop.
* `ClusterDeparture` has no deletion and `ClusterLossy` no `RequestNodeState`,
  because of items 6 and 5 of section 4. `Converges` excepts a heartbeat that has
  ended (item 7).
* `StaysAvailable` excepts reloads through appNGizer, whose event is performed by
  all nodes at once after their random delays, and the administrator's own load;
  and it needs `Admins` to be one node (item 8).
* `AllCurrent` and `NobodyLeftBehind` speak of the nodes without administrators: on
  an administrator's node the two loads may be ordered by the monitor otherwise
  than by `ReadSite`. For the same reason a node performs one event at a time in
  `RollingConverges` (item 10). Administrators' loads do not fail and their nodes
  stay there: the event is sent after the load, so without it nobody would be told.
* `StaysAvailable` is checked with failing loads of the administrator, whose site is
  then excused, and not of the handlers, which it does not depend on: the theorem has
  both.
* `NobodyLeftBehind` and `AllCurrent` except a node whose last reload failed before
  the new version was in the site map (item 13).
* The runs of `PageCache` have an entry listener (item 14), which is the default.
* `EventuallyFresh` needs `ByCreation`: with expiry by access a stale page lives
  as long as it is requested more often than its time to live.
* `CommitsIntended` excepts documents that were not in the index when the writer
  was opened and that the batch mentions more than once (item 9).

**Fairness.** `HangingSpec`: every step of an operation and of a request that is
under way is eventually taken (threads of a JVM are scheduled), but nothing
forces a handler to return, a request to come, a reload to be asked for or a
load to fail. `FairSpec` of ClusterState: threads inside `setState`, the
heartbeat's local steps and the receivers go on (weak fairness); a heartbeat
that is sent again and again is not lost every time (strong fairness of
`SendBeat`): without it no statement about a lossy network is possible. No
fairness is assumed of the changes themselves. `FairSpec` of RollingReload:
receivers and the threads of handlers and loads are scheduled, per thread; nobody
has to reload, fail or leave. `FairSpec` of PageCache: time goes by for every
element (a daemon of the cache expires it), and nothing else has to happen: no
expiry has to run, no reload to end, and a page may stay rendered for ever.
`FairIndexSpec`: the indexing threads are scheduled; owners, errors and reloads
are not.

## 4. Where code and documentation disagree

Three runs end in a counterexample; `PROJECT.json` quotes the lines.

1. *Restart in a cluster* (`InitializerService:953`, run `SiteRestart`): loading a
   stopped site suspends it, so it counts as running, is closed a second time and
   the load fails with a null class loader.
2. *Untracked pages* (`CacheService:134-135`, run `CacheTracking`): a page stored
   between `removeAll` and `clear` is cached, but unknown to the entry listener,
   and no expiry by prefix reaches it any more.
3. *The indexing thread ends* (`DocumentIndexer:106`, `:170`, run `IndexThread`):
   the thread of the reloaded site finds the lock of the old one, whose thread
   was interrupted but not awaited, and ends for good.

Further ones can be reproduced with the properties and constants of the modules;
they have no run of their own.

4. *Bounded wait and graceful shutdown* (`CoreService:1894-1909`). The time of an
   interrupted sleep is not counted and the flag stays set, and the reload watcher
   always interrupts itself: `OperationsEnd` fails in `SiteLiveness.cfg` with
   `ReloadFile = TRUE`, `SuspendOnReload = FALSE`, `MaxGen = 2` and one request.
   And `waitOnSiteShutdown` leaves a gap between the loop and STOPPING in which
   requests get in: `WaitsForRequests` fails in `SiteReload.cfg`.
5. *RequestNodeState* (`RequestNodeState:47`): the answer is about the asker, made
   from the state of the one who answers. `ReportsWereTrue` fails in
   `ClusterLossy.cfg` with `MaxAsks = 1` and both nodes `Changing`.
6. *Deleted sites return* (`NodeEvent:61-62`): a concurrent heartbeat restores the
   entry that the deletion removed. `OwnEntryTrue` fails in `ClusterDeparture.cfg`
   with `"DELETED"` among the `States` and `MaxChanges = 4`.
7. *The heartbeat dies* (`NodeEvent:60`): a site removed during the iteration is
   null, and nothing catches the exception. `HeartBeatLives` fails in
   `ClusterDeparture.cfg` with `"DELETED"` and without departures.
8. *Two administrators* (`ReloadSiteEvent:90-120`): after reloads on two nodes each
   performs the event of the other. If the quorum is not reached, because a third
   node is not up yet, both give up waiting and load at the same time, and the site
   is up nowhere. `StaysAvailable` fails in `RollingAvailable.cfg` with
   `Admins = {n1, n2}`.
9. *Duplicates* (`DocumentIndexer:136`): the searcher is opened once per producer,
   so a document that is new to the index and mentioned twice in a batch is found
   neither by the second "create" (two copies stay) nor by a "delete" (one copy
   stays). `CommitsIntended` without `Agrees` fails in `SearchIndex.cfg`.
10. *Overtaken versions* (`ReloadSiteEvent:61-66`, `PlatformStartup:134`): with an
    executor a node may perform two events at once. Each reads the site before it
    enters the monitor of `loadSite`, so the one that read first may load last, and
    the node keeps the older version. `NobodyLeftBehind` fails in
    `RollingConverges.cfg` with `Handlers = {h1, h2}` and `Async = TRUE`.
11. *Two setters* (`SiteImpl:426-434`): `setState` writes the object and then the
    node's entry, without a lock. Two threads (a load and a stop) can do the first in
    one order and the second in the other, and no message repairs the node's own
    entry. `OwnEntryTrue` fails in `ClusterDeparture.cfg` with two `Setters`.

12. *A late stop* (`CoreService:1922`): `shutdownSite` ends by setting STOPPED,
    however long ago it closed its generation. If a reload brings up the next one in
    between, the node's entry, which is one for all generations, ends as STOPPED while
    the site is STARTED and serves. `NodeStateAgrees` fails in
    `SiteReload.cfg` with one request and `"stop"` among the `EventOps`.

13. *Events are consumed by reloads that fail* (`InitializerService:601`,
    `CoreService:1911`, `Messaging:73-83`): if an application does not shut down, or
    the site cannot be read, the node keeps the version it has in its site map, the
    exception is logged and nothing asks for the reload again. `NobodyLeftBehind`
    without `abandoned` fails in `RollingConverges.cfg`. The catch block meanwhile sets
    the *new* object INACTIVE: the node's own entry says so, the object in the site map
    stays STOPPING, and the other nodes hear of it only if the failure came after
    `setSender` (`InitializerService:611`).
14. *Old pages survive a reload* (`CoreService:1908-1919`): the cache is cleared only if
    `cacheClearOnShutdown` is set and every application shut down; after a shutdown that
    failed, the next reload skips the block, and the new generation serves the pages of
    the old one until they time out. `OldPagesExplained` without `uncleared` fails in
    `PageCache.cfg`. With `cacheUseEntryListener` off, `CacheService:135` meets a null
    listener behind `removeAll`: the first reload of a site always fails, with the
    generation STOPPING and its contexts closed, and only the second one loads it.
15. *Changes without a watcher* (`InitializerService:225`, `:787`, `:1079`): a watcher
    runs only with `cacheWatchRepository`, which is off by default, and not between the
    shutdown of a generation and the load of the next; a page whose file changes then
    stays until it times out. `StaleExplained` without `lost` fails in `PageCache.cfg`,
    also with `MayOverflow = FALSE`.

## 5. What TLAPS proves

| Theorem | States | Assuming |
|---|---|---|
| `SiteLifecycleProofs!Typing` | `Spec => []TypeOK` | |
| `SiteLifecycleProofs!Serving` | `Spec => []UpImpliesOpen` | `SuspendOnReload = FALSE` |
| `SiteLifecycleProofs!ServedOpen` | `Spec => NeverServedClosed` | `SuspendOnReload = FALSE` |
| `SiteLifecycleProofs!CountersAreRight` | `Spec => []RequestsCounted` | finitely many requests |
| `SiteServiceProofs!OneGenerationRuns` | `Spec => []RunningIsMapped` | `Synchronized` |
| `SiteServiceProofs!AnnouncedIsRunning` | `Spec => []NodeStateAgrees` | `Synchronized`, nobody stops the site |
| `SiteServiceProofs!ClosedStaysAway` | `Spec => NeverResurrected` | `Synchronized` |
| `SiteServiceProofs!ServiceIsImplemented` | `Spec => ImplementsService` | `Synchronized` |
| `ClusterStateProofs!ClusterTyping` | `Spec => []ClusterTypeOK` | |
| `ClusterStateProofs!ReportsTrue` | `Spec => []ReportsWereTrue` | `MaxAsks = 0` |
| `ClusterStateProofs!DepartedAreForgotten` | `Spec => []DepartedForgotten` | `Lossy = FALSE` |
| `ClusterStateProofs!OwnEntriesAreTrue` | `Spec => []OwnEntryTrue` | one setter per node, no deletion |
| `RollingReloadProofs!RollingTyping` | `Spec => []RollingTypeOK` | |
| `RollingReloadProofs!StaysAvailableWithOneAdmin` | `Spec => []StaysAvailable` | one admin node |
| `RollingReloadProofs!ReloadsReachEveryNode` | `Spec => []NobodyLeftBehind` | one handler per node; administrators' loads do not fail, their nodes stay |
| `PageCacheProofs!PageTyping` | `Spec => []PageTypeOK` | |
| `PageCacheProofs!StaleIsExplained` | `Spec => []StaleExplained` | |
| `PageCacheProofs!OldPagesAreExplained` | `Spec => []OldPagesExplained` | |
| `SearchIndexProofs!IndexTyping` | `IndexSpec => []IndexTypeOK` | |
| `SearchIndexProofs!CommitsAreIntended` | `IndexSpec => CommitsIntended` | |
| `IndexServiceProofs!IndexServiceIsImplemented` | `IndexSpec => ImplementsIndexService` | |

They hold for any number of threads, generations, nodes, messages, pages and
documents, under the named assumptions of the modules (the kinds of threads are
disjoint, the constants have their types, a cluster is finite) and those in the
table. `Synchronized` says that the node has booted and that its site is only
ever loaded through `loadSite`, without suspension: no asynchronous loads, and
neither a deletion nor a removal. Any number of threads may stop the site, without
the monitor, at any time.

*Serving.* `UpImpliesOpen` is not inductive: a thread about to set STARTED must
be known to have opened its generation, and a thread about to close one must be
known to have made it STOPPING, without another having started it since.
`ServingInv` adds that a generation is loaded by at most one thread
(`OneLoader`), that what a thread shuts down is not what it loads
(`TearsDownOthers`), that a generation being loaded is not up before SetStarted
(`StartingNotUp`), that it is open from OpenContext on (`OpenedIsOpen`) and that
a generation whose context is being closed is not up (`ClosingNotUp`). The last
one is where STOPPING before `closeSiteContext` is used. Nothing in the argument
needs the monitor. With `SuspendOnReload` it fails, as `SiteRestart` shows.
`ServedOpen` follows from it and from `ServesInv` (a request in `doGet` has a
site): only `Recheck` lets a counted request through.

*CountersAreRight.* A step changes `CountedOn(g)` by at most one request, the one
that acts; `CountedRequests` shows that the counter changes with it, and the
facts on cardinalities of FiniteSetTheorems do the rest.

*The synchronized site.* `ReloadInv` extends `ServingInv`. `Phases` says for every
step of a load that it has the monitor and what it knows of the generation it shuts
down and the one it loads (`LoadPhase`); of a stop it says only that it loads nothing
and takes steps of `shutdownSite` (`StopPhase`). `Untouched` says that a generation
to be started has no watcher and was never closed, which is why none comes back;
`Mapped` that the node answers with some generation. Only `LoadPhase` uses the
monitor; it is what `SiteConcurrent` lacks. The loads exclude each other
(`LoaderIsAlone`); what a load and a stop do to each other is in `TakesDown`: a stop
brings nothing up, loads nothing and changes no entry of the map, so what a load
knows, that the mapped generation is *not* up, stays true (`TakesDownKeepsReloads`).
That the load goes on and sets STARTED after such a stop, which is thereby forgotten,
breaks none of the properties. `AnnouncedIsRunning` needs `Announced` in addition:
the node's entry differs from the state of the mapped generation only while both
are down. A stop of a generation that is no longer mapped breaks it in one step
(item 12), hence its assumption.

For `ServiceIsImplemented` the steps are mapped one by one: `SetStopping` of a load
to `GoDown`, `SetStarted` to `GoUp`, a failing load to `Discard` or a stutter (to `GoDown` if its
generation was STARTED already),
`Recheck` to `BeginRequest`, the return of the handler to `EndRequest`; a step of a
stop is `GoDown` or a stutter (`TakesDownRefines`): its `SetStopping` may find the
generation already down, and its last `setState`, late as it may be, may find it
STARTED by a load meanwhile and takes it down again. Every other step hides nothing (`HiddenStep`).

*ReportsTrue.* `TruthInv` says that every message on its way, every state a
setter is about to announce and every entry a heartbeat has built was once the
own entry of its node, which only ever grows into `had`; handling a message
then writes what was true. `TypeInv` adds to the types that an inbox holds no
message of its own node, so that no node's report overwrites its own entry. The
assumption `MaxAsks = 0` is needed: an answer to `RequestNodeState` breaks the
invariant in one step.

*DepartedAreForgotten.* `ForgottenInTime` says that when a node has said goodbye
and published nothing since, the goodbye is the last message of that node in
every inbox in which there is any, and if there is none, the node is unknown.
Messages of others cannot mention it: only `Answer` writes an entry of another
node than the sender's, the asker's, and the question was sent before the goodbye,
in order. With a lossy transport the goodbye may be lost; the membership
listener is not needed for the argument.

*OwnEntriesAreTrue.* `EntriesFollow` says where object and entry may differ: only
while the one setter stands between the two writes, and then the entry that it will
write is the object's state; the heartbeat, which writes the node's own entry too,
can only ever write back what it has read from it, or the state of the object in
the site map. The assumptions are needed: items 6 and 11 break the property as soon
as a site is deleted or two threads set its state.

*StaysAvailableWithOneAdmin.* Where only node `a` is reloaded by an administrator
and nobody uses appNGizer, no other node performs an event that `a` did not send,
and `a` performs none: no node but `a` ever publishes a reload, so no reload is in
`a`'s inbox, none is queued and its handlers are idle (`Undisturbed`). The site on
`a` is therefore DOWN only in `a`'s own load, whatever the other nodes believe. The
random delay, the quorum and the maps contribute nothing to this guarantee: it
rests on the filter of a node's own events in `Messaging.handleEvent`.

*ReloadsReachEveryNode.* `AllKeepUp` follows a version from the database to the
node: whenever the node's handler will load something older than what is in the
database, or the node has loaded something older and performs nothing, a reload is
still coming, in an administrator's load, in the inbox or in the executor's queue;
and an administrator's thread that is loading will publish its event. A reload that
fails before the new version is in the site map ends this chain; the node is then
`abandoned` until it loads again, which the theorem states as the only exception. A
load that fails later does not: the version is mapped. Nothing else
is used: the event may be received, queued and performed in any state of the maps.
That a handler reads the site *after* its event was sent is the point, and that the
one thread which reads is the one which loads.

*StaleIsExplained.* An entry is stored with the version of the file its request
rendered. The invariant carries the explanation from the entry back to the request
(`RendersExplained`): a request that holds an older version has its expiry coming,
was overtaken by it or by a clearing, or nobody has noticed the change. A reload
that interrupts the watcher moves events from the first to the last of these
(`StaleReload`). `TasksClean` says that the keys an expiry has still to remove belong
to its page.

*OldPagesAreExplained.* `GenerationInv` says of every entry and of every request that
is served: its generation is not younger than the last one, and if it is older, or the
last one has `Ended` (it is shut down, and its clearing has been or will not come), it
outlived a clearing or its generation ended without one. A request is admitted while
nothing has ended; a generation ends with a clearing, which empties the cache and marks
the requests, or joins `uncleared`; the next one starts only after that.

*CommitsAreIntended.* `ThreadInv` says that the lock is held by the one thread whose
writer is open, so the committed index does not change under it. `SessionInv` says
that the uncommitted index is what the batch consumed so far should make of the
committed one; its step, `ConsumeFollows`, compares `Intended` of a batch with
that of the batch and one more event, for the document of the event
(`IntendedSame`) and for others (`IntendedOther`).

*IndexServiceIsImplemented.* `PlacesInv` says that a producer is in one place: a
thread that waits has none (`WaitingHasNone`), no two threads, not even dead ones,
have the same (`TakenOnce`), no two places in the queues (`QueuedOnce`); and what a
writer has added to the index is from its own producer (`AddsOwnCopies`). With
`ThreadInv` each step of `IndexNext` is then one step of `IndexService` or a stutter:
the fate of a producer changes only with its own thread (`Unseen`).

**Only model-checked:** the liveness properties `OperationsEnd`, `SiteComesBack`,
`Converges`, `HandlersEnd`, `AllCurrent`, `EventuallyFresh`, `QueuedIsServed` and
`LockIsFreed`: fairness and ENABLED are out of reach of the prover. Every other
property of a passing run is a theorem, under the assumptions in the table.

## 6. What is left of the plan

1. A second site in `SiteLifecycle`, for `ServiceRequestHandler:139`: a service
   request for another site is not counted on the site it uses.
2. `RollingReload` with lost events and heartbeats, composed with `ClusterState`.
3. Failing steps of `deleteSite` between database and memory, if the boundaries of
   its transactions can be read off the source.

## 7. Not modelled, and why

* Contents of pages, forms and XML, application processing, request filters, tag
  libraries: data of one request.
* JDBC, Flyway, properties, package repositories, file extraction: input/output,
  configuration data and pure data of one thread.
* Login and password policy: sequential rules over one subject.
* Sessions: their events are ordered by the servlet container, whose guarantees
  the source does not state.
* Provisioning: the atomicity of its steps is decided by transactions outside the
  source.
* The in-place updater (appng-upngizr): its two hazards, an `isUpdateRunning` that
  is read and set in two steps and starts whose failure is only logged, are single
  steps that a model would only restate.
* The JavaScript in the repository (the swagger-ui bundles of appng-rest-api) is
  vendored and minified; nothing of appNG's own logic is in it.
* Several sites at once (sites share only the site map, the cluster map and the
  monitor), inactive sites, class loading, HTTP details, the formats of messages,
  and what is particular to RabbitMQ and Redis.
