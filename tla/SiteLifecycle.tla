--------------------------- MODULE SiteLifecycle ---------------------------
(***************************************************************************)
(* The life of ONE site on ONE node: the requests it serves, the threads   *)
(* that load, reload, stop and delete it, and the reload watcher that runs *)
(* in a thread of the site itself.                                         *)
(*                                                                         *)
(* Every (re)load creates a fresh SiteImpl object, a "generation" of the   *)
(* site.  A generation owns its state, its request counter, its            *)
(* application contexts and class loader; the platform's site map says     *)
(* which generation the node answers with.  InitializerService.loadSite is *)
(* synchronized, but the boot sequence, asynchronous reloads, stops and    *)
(* deletions take no monitor, and requests hold a generation across all of *)
(* them.  Each step below is one access (or a run of accesses nothing else *)
(* can tell apart) of InitializerService, CoreService.shutdownSite,        *)
(* SiteImpl.setState or Controller.doGet.                                  *)
(***************************************************************************)
EXTENDS Integers, FiniteSets

CONSTANTS
  Requests,        \* request threads of the servlet container
  Events,          \* threads that perform cluster events and admin calls
  Workers,         \* threads of the startupExecutor
  MaxGen,          \* bound: number of SiteImpl objects ever created
  EventOps,        \* what the Events may do, a subset of Ops
  RequestsReload,  \* a request (of the GUI) may reload its own site
  Booted,          \* start after a completed boot, or before it
  AsyncReloads,    \* site property asyncSiteReloads, read at every load
  SuspendOnReload, \* clusterState has more than one node, suspendOnReload > 0
  SuspendMaxWait,  \* suspendMaxWait, in rounds of the waiting loop
  WaitOnShutdown,  \* platform property waitOnSiteShutdown
  MaxWait,         \* maxWaitTime, in rounds of waitTime
  ReloadFile,      \* site property supportReloadFile
  MayFail,         \* loads and the shutdown of applications may fail
  NoThread         \* the monitor is free

Gens == 1..MaxGen

NoGen == 0

Ops == {"reload", "stop", "remove", "delete"}

\* The thread of the SiteReloadWatcher of generation g is named g itself.
Threads == Requests \cup Events \cup Workers \cup Gens

ASSUME ConstantsAssumption ==
  /\ MaxGen \in Nat \ {0}
  /\ SuspendMaxWait \in Nat
  /\ MaxWait \in Nat
  /\ EventOps \subseteq Ops
  /\ {RequestsReload, Booted, AsyncReloads, SuspendOnReload,
      WaitOnShutdown, ReloadFile, MayFail} \subseteq BOOLEAN

ASSUME ThreadsAssumption ==
  /\ Requests \cap (Events \cup Workers \cup Gens) = {}
  /\ Events \cap (Workers \cup Gens) = {}
  /\ Workers \cap Gens = {}
  /\ NoThread \notin Threads
  /\ NoGen \notin Threads

SiteStates == {"STARTING", "STARTED", "SUSPENDED", "STOPPING", "STOPPED",
               "INACTIVE", "DELETED"}

\* The states in which Controller.doGet hands a request to its handler.
Up == {"STARTED", "SUSPENDED"}

RequestSteps == {"idle", "resolved", "admitted", "counted", "handling",
                 "leaving"}

WatcherSteps == {"none", "watching", "ended"}

LoadSteps == {"init", "loading", "opened", "threads", "started", "failed",
              "aborted"}

ShutdownSteps == {"shutdown", "wait", "stopping", "closing", "rest",
                  "cleanup"}

OpSteps == {"acquire", "begin", "suspending", "draining", "release"}
             \cup LoadSteps \cup ShutdownSteps

Steps == RequestSteps \cup WatcherSteps \cup OpSteps

VARIABLES
  siteMap,    \* the generation in the platform's site map, or NoGen
  state,      \* SiteImpl.state of each generation
  ctx,        \* its application contexts and class loader
  requests,   \* SiteImpl.requests of each generation
  created,    \* number of SiteImpl objects created so far
  nodeState,  \* the node's own clusterState entry for the site
  monitor,    \* holder of the InitializerService monitor
  pc,         \* next step of each thread
  op,         \* the operation an event thread performs
  loads,      \* the generation a thread is loading (siteToLoad)
  target,     \* the generation a thread suspends or shuts down
  waited,     \* rounds a thread has waited in its current loop
  interrupted,\* threads whose interrupt flag is set
  serves      \* the generation a request was resolved to

vars == <<siteMap, state, ctx, requests, created, nodeState, monitor, pc, op,
          loads, target, waited, interrupted, serves>>

siteVars == <<siteMap, state, ctx, requests, created, nodeState>>
opVars == <<op, loads, target, waited>>

TypeOK ==
  /\ siteMap \in Gens \cup {NoGen}
  /\ state \in [Gens -> SiteStates]
  /\ ctx \in [Gens -> {"none", "open", "closed"}]
  /\ requests \in [Gens -> Int]
  /\ created \in 0..MaxGen
  /\ nodeState \in (SiteStates \ {"DELETED"}) \cup {"NONE"}
  /\ monitor \in Threads \cup {NoThread}
  /\ pc \in [Threads -> Steps]
  /\ op \in [Threads -> Ops]
  /\ loads \in [Threads -> Gens \cup {NoGen}]
  /\ target \in [Threads -> Gens \cup {NoGen}]
  /\ waited \in [Threads -> Nat]
  /\ interrupted \subseteq Threads
  /\ serves \in [Requests -> Gens \cup {NoGen}]

-----------------------------------------------------------------------------
(* A platform that has booted with its site, or one that is about to.      *)

BootedGens == IF Booted THEN {1} ELSE {}

IdleStep(t) ==
  IF t \in Gens
  THEN IF t \in BootedGens /\ ReloadFile THEN "watching" ELSE "none"
  ELSE "idle"

Init ==
  /\ siteMap = IF Booted THEN 1 ELSE NoGen
  /\ state = [g \in Gens |-> IF g \in BootedGens THEN "STARTED" ELSE "STOPPED"]
  /\ ctx = [g \in Gens |-> IF g \in BootedGens THEN "open" ELSE "none"]
  /\ requests = [g \in Gens |-> 0]
  /\ created = IF Booted THEN 1 ELSE 0
  /\ nodeState = IF Booted THEN "STARTED" ELSE "NONE"
  /\ monitor = NoThread
  /\ pc = [t \in Threads |-> IdleStep(t)]
  /\ op = [t \in Threads |-> "reload"]
  /\ loads = [t \in Threads |-> NoGen]
  /\ target = [t \in Threads |-> NoGen]
  /\ waited = [t \in Threads |-> 0]
  /\ interrupted = {}
  /\ serves = [r \in Requests |-> NoGen]

-----------------------------------------------------------------------------
(* Helpers.                                                                *)

Goto(t, from, to) ==
  /\ pc[t] = from
  /\ pc' = [pc EXCEPT ![t] = to]

\* Variants of SetState: a deleted site keeps its entry; only a site that is
\* up is announced.
SetStateKeepsDeleted(g, s) ==
  /\ state' = [state EXCEPT ![g] = s]
  /\ nodeState' = s

SetStateAnnouncesUp(g, s) ==
  /\ state' = [state EXCEPT ![g] = s]
  /\ nodeState' = IF s \in Up THEN s ELSE nodeState

\* SiteImpl.setState: the object's own state, then the node's cluster entry.
SetState(g, s) ==
  /\ state' = [state EXCEPT ![g] = s]
  /\ nodeState' = IF s = "DELETED" THEN "NONE" ELSE s

\* Variant: loadSite is not synchronized.
MayEnterAnyway == TRUE

MayEnter == monitor = NoThread

\* Requests that may remain: the one that performs the operation itself, or
\* had it performed by a worker.
RequestLimit(t) == IF t \in Requests \cup Workers THEN 1 ELSE 0

\* Where a thread continues when its operation is over.
AfterOp(t) ==
  IF t \in Requests THEN "handling" ELSE IF t \in Gens THEN "ended" ELSE "idle"

\* Where it continues when the old generation is down, or there was none.
AfterShutdown(t) == IF op[t] = "reload" THEN "init" ELSE "release"

\* Where an exception takes it: a load has a catch block.
OnException(t) == IF op[t] = "reload" THEN "failed" ELSE "release"

-----------------------------------------------------------------------------
(* Requests: Controller.doGet.                                             *)

\* The environment of the request is given the site that is mapped now.
Resolve(r) ==
  /\ siteMap # NoGen
  /\ Goto(r, "idle", "resolved")
  /\ serves' = [serves EXCEPT ![r] = siteMap]
  /\ UNCHANGED <<siteVars, opVars, monitor, interrupted>>

\* First look at the state: only a site that is up gets any further.
Admit(r) ==
  /\ Goto(r, "resolved", "admitted")
  /\ state[serves[r]] \in Up
  /\ UNCHANGED <<siteVars, opVars, monitor, interrupted, serves>>

Refuse(r) ==
  /\ Goto(r, "resolved", "idle")
  /\ state[serves[r]] \notin Up
  /\ serves' = [serves EXCEPT ![r] = NoGen]
  /\ UNCHANGED <<siteVars, opVars, monitor, interrupted>>

AddRequest(r) ==
  /\ Goto(r, "admitted", "counted")
  /\ requests' = [requests EXCEPT ![serves[r]] = @ + 1]
  /\ UNCHANGED <<siteMap, state, ctx, created, nodeState, opVars, monitor,
                 interrupted, serves>>

\* Variant: the second check is dropped.
PassesUnchecked(r) == TRUE

PassesRecheck(r) == state[serves[r]] \in Up

\* Variant: a request that is turned down skips the finally block.
TurnedDownUncounted == "idle"

TurnedDown == "leaving"

\* Second look at the state, now that the request is counted.
Recheck(r) ==
  /\ Goto(r, "counted", IF PassesRecheck(r) THEN "handling" ELSE TurnedDown)
  /\ UNCHANGED <<siteVars, opVars, monitor, interrupted, serves>>

Handled(r) ==
  /\ Goto(r, "handling", "leaving")
  /\ UNCHANGED <<siteVars, opVars, monitor, interrupted, serves>>

\* The finally block, for a handled and for a turned-down request.
RemoveRequest(r) ==
  /\ Goto(r, "leaving", "idle")
  /\ requests' = [requests EXCEPT ![serves[r]] = @ - 1]
  /\ serves' = [serves EXCEPT ![r] = NoGen]
  /\ UNCHANGED <<siteMap, state, ctx, created, nodeState, opVars, monitor,
                 interrupted>>

-----------------------------------------------------------------------------
(* Operations and how they start.                                          *)

\* CoreService.getSiteByName builds the SiteImpl that will be loaded, before
\* the caller enters the monitor of loadSite.
NewGeneration(t) ==
  /\ created < MaxGen
  /\ created' = created + 1
  /\ loads' = [loads EXCEPT ![t] = created + 1]
  /\ UNCHANGED <<siteMap, state, ctx, requests, nodeState, target, waited,
                 monitor, interrupted, serves>>

\* A request of the GUI reloads the site it is served by.
ReloadFromRequest(r) ==
  /\ RequestsReload
  /\ Goto(r, "handling", "acquire")
  /\ NewGeneration(r)
  /\ op' = [op EXCEPT ![r] = "reload"]

\* ReloadSiteEvent.perform.
ReloadEvent(e) ==
  /\ "reload" \in EventOps
  /\ Goto(e, "idle", "acquire")
  /\ NewGeneration(e)
  /\ op' = [op EXCEPT ![e] = "reload"]

\* StopSiteEvent, shutdownPlatform ("remove"), SiteDeletedEvent: no monitor.
ShutdownEvent(e) ==
  /\ \E o \in EventOps \ {"reload"} : op' = [op EXCEPT ![e] = o]
  /\ Goto(e, "idle", "shutdown")
  /\ UNCHANGED <<siteVars, loads, target, waited, monitor, interrupted, serves>>

\* The loaders run without the monitor when the platform boots
\* (loadPlatform) and when the site is reloaded asynchronously: the caller of
\* loadSite has left the monitor when the worker begins.
LoadUnsynchronized(w) ==
  /\ created = 0 \/ (AsyncReloads /\ MayEnter)
  /\ Goto(w, "idle", "begin")
  /\ NewGeneration(w)
  /\ op' = [op EXCEPT ![w] = "reload"]

\* The watcher of generation g found the file .reload.
WatcherFires(g) ==
  /\ g \notin interrupted
  /\ Goto(g, "watching", "acquire")
  /\ NewGeneration(g)
  /\ op' = [op EXCEPT ![g] = "reload"]

WatcherInterrupted(g) ==
  /\ g \in interrupted
  /\ Goto(g, "watching", "ended")
  /\ UNCHANGED <<siteVars, opVars, monitor, interrupted, serves>>

\* Entering the synchronized loadSite.
Acquire(t) ==
  /\ MayEnter
  /\ Goto(t, "acquire", "begin")
  /\ monitor' = t
  /\ UNCHANGED <<siteVars, opVars, interrupted, serves>>

\* Variant: the monitor is not passed on.
MonitorKept(t) == monitor

MonitorAfter(t) == IF monitor = t THEN NoThread ELSE monitor

\* The operation ends, normally or with an exception its caller catches; its
\* local variables go out of scope.
Release(t) ==
  /\ Goto(t, "release", AfterOp(t))
  /\ monitor' = MonitorAfter(t)
  /\ interrupted' = interrupted \ {t}
  /\ op' = [op EXCEPT ![t] = "reload"]
  /\ loads' = [loads EXCEPT ![t] = NoGen]
  /\ target' = [target EXCEPT ![t] = NoGen]
  /\ waited' = [waited EXCEPT ![t] = 0]
  /\ UNCHANGED <<siteVars, serves>>

-----------------------------------------------------------------------------
(* handleReload: suspend the running generation and let it drain.          *)

\* The loader looks up the running generation; a clustered node suspends it,
\* whatever state it is in.
BeginLoad(t) ==
  /\ Goto(t, "begin", IF siteMap = NoGen THEN "init"
                      ELSE IF SuspendOnReload THEN "suspending" ELSE "shutdown")
  /\ target' = [target EXCEPT ![t] = siteMap]
  /\ waited' = [waited EXCEPT ![t] = 0]
  /\ IF siteMap # NoGen /\ SuspendOnReload
     THEN SetState(siteMap, "SUSPENDED")
     ELSE UNCHANGED <<state, nodeState>>
  /\ UNCHANGED <<siteMap, ctx, requests, created, monitor, op, loads,
                 interrupted, serves>>

\* The sleep of suspendOnReload seconds; a thread with its interrupt flag
\* set leaves it with an InterruptedException, which fails the load.
SuspendSleep(t) ==
  /\ Goto(t, "suspending", IF t \in interrupted THEN "failed" ELSE "draining")
  /\ interrupted' = interrupted \ {t}
  /\ UNCHANGED <<siteVars, opVars, monitor, serves>>

StillDraining(t) ==
  /\ requests[target[t]] > RequestLimit(t)
  /\ waited[t] < SuspendMaxWait

DrainSleep(t) ==
  /\ Goto(t, "draining", IF t \in interrupted THEN "failed" ELSE "draining")
  /\ StillDraining(t)
  /\ waited' = [waited EXCEPT ![t] = @ + 1]
  /\ interrupted' = interrupted \ {t}
  /\ UNCHANGED <<siteVars, op, loads, target, monitor, serves>>

Drained(t) ==
  /\ Goto(t, "draining", "shutdown")
  /\ ~StillDraining(t)
  /\ UNCHANGED <<siteVars, opVars, monitor, interrupted, serves>>

-----------------------------------------------------------------------------
(* shutDownSite and CoreService.shutdownSite.                              *)

LiveWatchers == {g \in Gens : pc[g] \notin {"none", "ended"}}

\* Interrupt the site's threads (a deletion does not) and look up the site
\* to shut down.  Without one there is nothing to do.
ShutDownSite(t) ==
  /\ Goto(t, "shutdown", IF siteMap = NoGen THEN AfterShutdown(t) ELSE "wait")
  /\ interrupted' = IF op[t] = "delete" THEN interrupted
                    ELSE interrupted \cup LiveWatchers
  /\ target' = [target EXCEPT ![t] = siteMap]
  /\ waited' = [waited EXCEPT ![t] = 0]
  /\ UNCHANGED <<siteVars, op, loads, monitor, serves>>

MustWait(t) ==
  /\ WaitOnShutdown
  /\ waited[t] < MaxWait
  /\ requests[target[t]] > RequestLimit(t)

\* One round of the waiting loop.  An interrupted sleep restores the flag
\* and does not count as time waited, so it spins.
WaitForRequests(t) ==
  /\ pc[t] = "wait"
  /\ MustWait(t)
  /\ waited' = [waited EXCEPT ![t] = IF t \in interrupted THEN @ ELSE @ + 1]
  /\ UNCHANGED <<siteVars, op, loads, target, monitor, pc, interrupted, serves>>

\* Variant: the context is closed without the STOPPING that locks requests out.
TearDownUnannounced(t) == IF state[target[t]] \in Up THEN "closing" ELSE "rest"

\* Only a generation that is up is torn down.
TearDown(t) == IF state[target[t]] \in Up THEN "stopping" ELSE "rest"

DoneWaiting(t) ==
  /\ Goto(t, "wait", TearDown(t))
  /\ ~MustWait(t)
  /\ UNCHANGED <<siteVars, opVars, monitor, interrupted, serves>>

SetStopping(t) ==
  /\ Goto(t, "stopping", "closing")
  /\ SetState(target[t], "STOPPING")
  /\ UNCHANGED <<siteMap, ctx, requests, created, opVars, monitor,
                 interrupted, serves>>

\* closeSiteContext: the second call on an object meets a null class loader
\* and throws, which fails a load and abandons any other operation.
CloseContext(t) ==
  /\ Goto(t, "closing", IF ctx[target[t]] = "open" THEN "rest"
                                                   ELSE OnException(t))
  /\ ctx' = [ctx EXCEPT ![target[t]] = IF @ = "open" THEN "closed" ELSE @]
  /\ UNCHANGED <<siteMap, state, requests, created, nodeState, opVars, monitor,
                 interrupted, serves>>

\* The controller of an application fails to shut down: the contexts stay
\* open and the generation STOPPING.
FailShutdown(t) ==
  /\ MayFail
  /\ Goto(t, "closing", OnException(t))
  /\ UNCHANGED <<siteVars, opVars, monitor, interrupted, serves>>

\* Variant: a reload is over once the old generation is down.
AfterRestOnlyDown(t) == IF op[t] = "delete" THEN "cleanup" ELSE "release"

AfterRest(t) == IF op[t] = "delete" THEN "cleanup" ELSE AfterShutdown(t)

\* The site comes to rest, torn down or not; "remove" takes it off the map.
ComeToRest(t) ==
  /\ Goto(t, "rest", AfterRest(t))
  /\ SetState(target[t], "STOPPED")
  /\ siteMap' = IF op[t] = "remove" THEN NoGen ELSE siteMap
  /\ UNCHANGED <<ctx, requests, created, opVars, monitor, interrupted, serves>>

\* CoreService.cleanupSite.
CleanupSite(t) ==
  /\ Goto(t, "cleanup", "release")
  /\ SetState(target[t], "DELETED")
  /\ siteMap' = NoGen
  /\ UNCHANGED <<ctx, requests, created, opVars, monitor, interrupted, serves>>

-----------------------------------------------------------------------------
(* getSiteLoader: the new generation.                                      *)

\* The new generation is STARTING and takes the place in the site map.
InitSite(t) ==
  /\ Goto(t, "init", "loading")
  /\ SetState(loads[t], "STARTING")
  /\ siteMap' = loads[t]
  /\ UNCHANGED <<ctx, requests, created, opVars, monitor, interrupted, serves>>

\* Phases 1 to 3: class loader, application contexts, controller.start.
OpenContext(t) ==
  /\ Goto(t, "loading", "opened")
  /\ ctx' = [ctx EXCEPT ![loads[t]] = "open"]
  /\ UNCHANGED <<siteMap, state, requests, created, nodeState, opVars, monitor,
                 interrupted, serves>>

\* startSiteThread with the SiteReloadWatcher of the new generation.
StartWatcher(t) ==
  /\ pc[t] = "opened"
  /\ pc' = [u \in Threads |-> IF u = loads[t] /\ ReloadFile THEN "watching"
                             ELSE IF u = t THEN "threads" ELSE pc[u]]
  /\ UNCHANGED <<siteVars, opVars, monitor, interrupted, serves>>

\* The state is set whatever a concurrent stop has made of it.
SetStarted(t) ==
  /\ Goto(t, "threads", "started")
  /\ SetState(loads[t], "STARTED")
  /\ UNCHANGED <<siteMap, ctx, requests, created, opVars, monitor,
                 interrupted, serves>>

\* The second put, after the delay setState sleeps for a STARTED site.
Publish(t) ==
  /\ Goto(t, "started", "release")
  /\ siteMap' = loads[t]
  /\ UNCHANGED <<state, ctx, requests, created, nodeState, opVars, monitor,
                 interrupted, serves>>

\* An exception before the first put, or between it and STARTED.
FailLoad(t) ==
  /\ MayFail
  /\ pc[t] \in {"init", "loading", "opened", "threads"}
  /\ pc' = [pc EXCEPT ![t] = "failed"]
  /\ UNCHANGED <<siteVars, opVars, monitor, interrupted, serves>>

\* An exception after the second put: auditing, announcing or counting the
\* reload fails, and the generation that already serves meets the catch block.
FailStarted(t) ==
  /\ MayFail
  /\ Goto(t, "started", "aborted")
  /\ siteMap' = loads[t]
  /\ UNCHANGED <<state, ctx, requests, created, nodeState, opVars, monitor,
                 interrupted, serves>>

\* The catch block: the generation being loaded is INACTIVE, the map stays.
LoadFailed(t) ==
  /\ pc[t] \in {"failed", "aborted"}
  /\ pc' = [pc EXCEPT ![t] = "release"]
  /\ SetState(loads[t], "INACTIVE")
  /\ UNCHANGED <<siteMap, ctx, requests, created, opVars, monitor,
                 interrupted, serves>>

-----------------------------------------------------------------------------

RequestStep(r) ==
  \/ Admit(r) \/ Refuse(r) \/ AddRequest(r) \/ Recheck(r) \/ RemoveRequest(r)

\* What the environment may do, or not: nothing forces these steps.
Trigger ==
  \/ \E r \in Requests : Resolve(r) \/ ReloadFromRequest(r)
  \/ \E e \in Events : ReloadEvent(e) \/ ShutdownEvent(e)
  \/ \E w \in Workers : LoadUnsynchronized(w)
  \/ \E g \in Gens : WatcherFires(g)

\* Looking up and shutting down the running generation.
TearDownStep(t) ==
  \/ BeginLoad(t) \/ SuspendSleep(t) \/ DrainSleep(t) \/ Drained(t)
  \/ ShutDownSite(t) \/ WaitForRequests(t) \/ DoneWaiting(t)
  \/ SetStopping(t) \/ CloseContext(t) \/ ComeToRest(t) \/ CleanupSite(t)

\* Bringing up the new one.
BringUpStep(t) ==
  \/ InitSite(t) \/ OpenContext(t) \/ StartWatcher(t) \/ SetStarted(t)
  \/ Publish(t) \/ LoadFailed(t)

OpStep(t) == Acquire(t) \/ TearDownStep(t) \/ BringUpStep(t) \/ Release(t)

FailStep(t) == FailLoad(t) \/ FailStarted(t) \/ FailShutdown(t)

Next ==
  \/ Trigger
  \/ \E r \in Requests : RequestStep(r) \/ Handled(r)
  \/ \E g \in Gens : WatcherInterrupted(g)
  \/ \E t \in Threads : OpStep(t) \/ FailStep(t)

Spec == Init /\ [][Next]_vars

(* Every started thread is scheduled until it blocks; a request handler may *)
(* hang: there is no fairness for Handled.                                  *)

Progress ==
  /\ \A r \in Requests : WF_vars(RequestStep(r))
  /\ \A g \in Gens : WF_vars(WatcherInterrupted(g))
  /\ \A t \in Threads : WF_vars(OpStep(t))

HangingSpec == Spec /\ Progress

-----------------------------------------------------------------------------
(* What the life of a site promises.                                       *)

InOp(t) == pc[t] \in OpSteps

\* A request that counts for generation g.
CountedOn(g) ==
  {r \in Requests : serves[r] = g /\ pc[r] \notin {"resolved", "admitted"}}

\* The request counter of a SiteImpl is the number of its requests, across
\* reloads that swap the object under a running request: the waiting loops
\* of handleReload and shutdownSite rely on it.
RequestsCounted == \A g \in Gens : requests[g] = Cardinality(CountedOn(g))

\* A generation whose state lets Controller.doGet through has its class
\* loader and its application contexts open.
UpImpliesOpen == \A g \in Gens : state[g] \in Up => ctx[g] = "open"

\* The second check of Controller.doGet: whatever shutdown, reload or
\* deletion came between, no request starts on a closed context.
NeverServedClosed ==
  [][\A r \in Requests : pc[r] = "counted" /\ pc'[r] = "handling"
                            => ctx'[serves[r]] = "open"]_vars

\* A reload never leaves the old generation running beside the new one: what
\* is up is what the site map answers with.
RunningIsMapped == \A g \in Gens : state[g] \in Up => siteMap = g

\* When no operation is under way, this node announces the site as up exactly
\* when the generation it answers with is up, whatever has failed.  (Which of
\* the other states it announces may differ: a load that fails before the
\* first put reports its own generation as INACTIVE.)
NodeStateAgrees ==
  (\A t \in Threads : ~InOp(t)) /\ siteMap # NoGen
     /\ {nodeState, state[siteMap]} \cap Up # {}
  => nodeState = state[siteMap]

\* A generation that was shut down never comes back into the site map, in
\* particular not by the second siteMap.put at the end of a load.
NeverResurrected ==
  [][\A g \in Gens : ctx[g] = "closed" /\ siteMap # g => siteMap' # g]_vars

\* A load that meets no error of the configuration ends with the site
\* STARTED and never in the catch block (MayFail is FALSE here).
LoadsSucceed == \A t \in Threads : pc[t] # "failed"

\* waitOnSiteShutdown: a site is torn down only when its requests are
\* finished, or when maxWaitTime is over.
WaitsForRequests ==
  \A t \in Threads :
     pc[t] = "closing" /\ WaitOnShutdown /\ waited[t] < MaxWait
        => Cardinality({r \in CountedOn(target[t]) : pc[r] = "handling"})
              <= RequestLimit(t)

\* The refinement mapping: a generation serves while it is mapped and up, may
\* go up until its load is over, and handles a request from the second check.
ServingGeneration ==
  IF siteMap # NoGen /\ state[siteMap] \in Up THEN siteMap ELSE NoGen

BeforeStarted == {"acquire", "begin", "suspending", "draining", "init",
                  "loading", "opened", "threads"} \cup ShutdownSteps

FreshGenerations ==
  {g \in Gens : g > created \/ \E t \in Threads : loads[t] = g /\ pc[t] \in BeforeStarted}

HandledBy ==
  [r \in Requests |-> IF pc[r] = "handling" \/ InOp(r) THEN serves[r] ELSE NoGen]

Service == INSTANCE SiteService WITH
  Generations <- Gens, Nobody <- NoGen,
  serving <- ServingGeneration, fresh <- FreshGenerations, at <- HandledBy

\* Reloads replace the generation that serves as one step down and one up,
\* never two at once, and no request begins on another one, whatever the
\* threads between them interleave.
ImplementsService == Service!ServiceSpec

\* Every operation comes to its end, even if a request is never finished:
\* both waiting loops are bounded, and the monitor is passed on.
OperationsEnd == \A t \in Threads : InOp(t) ~> ~InOp(t)

\* Reloads only interrupt the site: it is STARTED again and again.
SiteComesBack == []<>(siteMap # NoGen /\ state[siteMap] = "STARTED")

=============================================================================
