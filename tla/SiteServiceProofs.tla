------------------------- MODULE SiteServiceProofs -------------------------
(***************************************************************************)
(* Proofs about the reloads of SiteLifecycle, for any number of threads    *)
(* and generations, on a booted node whose loads are synchronized and do   *)
(* not suspend sites, while any number of threads stop the site without    *)
(* the monitor: the node never runs two generations, never brings a        *)
(* generation back, and implements SiteService.  Where nobody stops the    *)
(* site, the node also announces what it runs.                             *)
(***************************************************************************)
EXTENDS SiteLifecycleProofs

\* asyncSiteReloads is off, and nobody takes the site off the map.
Synchronized ==
  /\ Booted = TRUE /\ AsyncReloads = FALSE /\ SuspendOnReload = FALSE
  /\ EventOps \subseteq {"reload", "stop"}

InLoad(t) == op[t] = "reload" /\ InOp(t) /\ pc[t] # "acquire"

\* From STOPPING on, until the new generation is STARTED.
DownSteps == {"closing", "rest", "init", "loading", "opened", "threads", "failed"}

\* What a thread knows at its step of the load, thanks to the monitor.
LoadPhase(t) ==
  /\ InLoad(t) => monitor = t
  /\ pc[t] \in BeforeStarted \cup {"started", "failed", "aborted"} => loads[t] # NoGen
  /\ pc[t] \in {"wait", "stopping", "closing", "rest"} => target[t] = siteMap
  /\ pc[t] \in DownSteps => state[siteMap] \notin Up
  /\ pc[t] \in {"loading", "opened", "threads", "started", "aborted"} => siteMap = loads[t]

\* A thread that stops the site knows nothing, but loads nothing either.
StopPhase(t) == loads[t] = NoGen /\ pc[t] \in (ShutdownSteps \cup {"release"})

Phase(t) ==
  /\ pc[t] \notin {"suspending", "draining", "cleanup"}
  /\ ~InOp(t) => loads[t] = NoGen
  /\ pc[t] \in {"wait", "stopping", "closing", "rest"} => target[t] # NoGen
  /\ \/ op[t] = "reload" /\ LoadPhase(t)
     \/ op[t] = "stop" /\ StopPhase(t)

Phases == \A t \in Threads : Phase(t)

\* The generation of t is still to be started.
Preparing(t) == pc[t] \in BeforeStarted /\ loads[t] # NoGen

\* A generation that is to be started has no watcher yet and has never been
\* closed.
Untouched ==
  /\ \A g \in Gens : g > created => pc[g] = "none" /\ ctx[g] # "closed"
  /\ \A t \in Threads : Preparing(t) =>
        /\ ctx[loads[t]] # "closed"
        /\ pc[t] # "threads" => pc[loads[t]] = "none"

\* The node always answers with some generation.
Mapped == siteMap # NoGen

ReloadInv ==
  /\ ServingInv /\ ServesInv /\ Phases /\ Untouched /\ Mapped /\ RunningIsMapped

-----------------------------------------------------------------------------
(* Phases.                                                                 *)

\* The other threads of a step inside the monitor are outside of it or only
\* stop the site: what they know stays true whatever the step does.
LEMMA LoaderIsAlone ==
  ASSUME Phases, NEW t \in Threads, InLoad(t), Phase(t)',
         \A u \in Threads \ {t} :
            /\ pc'[u] = pc[u] \/ (pc[u] = "none" /\ pc'[u] = "watching")
            /\ op'[u] = op[u] /\ loads'[u] = loads[u] /\ target'[u] = target[u]
  PROVE  Phases'
<1>1. monitor = t
  BY DEF Phases, Phase, LoadPhase, StopPhase, InLoad
<1> USE DEF Phase, InLoad, InOp, OpSteps, LoadSteps, ShutdownSteps, BeforeStarted, DownSteps
<1>2. ASSUME NEW u \in Threads \ {t} PROVE Phase(u)'
  <2>1. Phase(u) /\ (InOp(u)' <=> InOp(u))
    BY DEF Phases
  <2>2. CASE op[u] = "reload"
    <3>1. LoadPhase(u) /\ ~InLoad(u)
      BY <1>1, <2>1, <2>2 DEF LoadPhase
    <3>2. pc[u] = "acquire" \/ ~InOp(u)
      BY <2>2, <3>1
    <3>3. LoadPhase(u)'
      BY <2>1, <2>2, <3>1, <3>2 DEF LoadPhase
    <3> QED
      BY <2>1, <2>2, <3>3
  <2>3. CASE op[u] = "stop"
    <3>1. StopPhase(u) /\ pc'[u] = pc[u]
      BY <2>1, <2>3 DEF StopPhase
    <3>2. StopPhase(u)'
      BY <3>1 DEF StopPhase
    <3> QED
      BY <2>1, <2>3, <3>1, <3>2
  <2> QED
    BY <2>1, <2>2, <2>3
<1> QED
  BY <1>2 DEF Phases

\* A step outside the monitor, or the one that enters it.
LEMMA OutsiderStep ==
  ASSUME Phases, NEW t \in Threads,
         UNCHANGED <<siteMap, state, target>>,
         \A u \in Threads \ {t} : pc'[u] = pc[u] /\ op'[u] = op[u] /\ loads'[u] = loads[u],
         op'[t] = "reload",
         pc'[t] \in OpSteps => pc'[t] \in {"acquire", "begin"} /\ loads'[t] # NoGen,
         pc'[t] \notin OpSteps => loads'[t] = NoGen,
         pc'[t] = "begin" => monitor = NoThread /\ monitor' = t,
         pc'[t] # "begin" => monitor' = monitor /\ ~InLoad(t)
  PROVE  Phases'
<1> USE DEF Phase
<1>1. Phase(t)'
  <2>1. LoadPhase(t)'
    BY DEF LoadPhase, InLoad, InOp, OpSteps, LoadSteps, ShutdownSteps, BeforeStarted, DownSteps
  <2> QED
    BY <2>1 DEF InOp, OpSteps, LoadSteps, ShutdownSteps
<1>2. ASSUME NEW u \in Threads \ {t} PROVE Phase(u)'
  <2>1. Phase(u) /\ (InOp(u)' <=> InOp(u))
    BY DEF Phases, InOp
  <2>2. CASE op[u] = "reload"
    <3>1. LoadPhase(u) /\ (InLoad(u)' <=> InLoad(u))
      BY <2>1, <2>2 DEF InLoad
    <3>2. InLoad(u)' => monitor' = u
      BY <3>1, ThreadsAssumption DEF LoadPhase
    <3>3. LoadPhase(u)'
      BY <3>1, <3>2 DEF LoadPhase
    <3> QED
      BY <2>1, <2>2, <3>3
  <2>3. CASE op[u] = "stop"
    BY <2>1, <2>3 DEF StopPhase
  <2> QED
    BY <2>1, <2>2, <2>3
<1> QED
  BY <1>1, <1>2 DEF Phases

\* Most steps create and close no generation and give it no watcher.
LEMMA UntouchedKept ==
  ASSUME Untouched, UNCHANGED <<created, ctx>>,
         \A u \in Threads : loads[u] \in Gens \cup {NoGen},
         \A u \in Threads : pc[u] = "none" => pc'[u] = "none",
         \A u \in Threads : Preparing(u)' =>
            /\ Preparing(u) /\ loads'[u] = loads[u]
            /\ pc[u] = "threads" => pc'[u] = "threads"
  PROVE  Untouched'
<1>1. \A u \in Threads : Preparing(u) => loads[u] \in Gens
  BY DEF Preparing
<1>2. \A u \in Threads : Preparing(u)' => ctx'[loads'[u]] # "closed"
  BY DEF Untouched
<1>3. \A u \in Threads : Preparing(u)' /\ pc'[u] # "threads" => pc'[loads'[u]] = "none"
  BY <1>1 DEF Untouched, Threads
<1>4. \A g \in Gens : g > created' => pc'[g] = "none" /\ ctx'[g] # "closed"
  BY DEF Untouched, Threads
<1> QED
  BY <1>2, <1>3, <1>4 DEF Untouched

\* The part of ReloadInv that is about the reloads alone.
Reloads == Phases /\ Untouched /\ Mapped /\ RunningIsMapped

\* A step of a thread that has no generation to start: it takes generations
\* down, and may close one that is not being prepared.
TakesDown(t) ==
  /\ UNCHANGED <<siteMap, created, serves>>
  /\ monitor # t => monitor' = monitor
  /\ \A u \in Threads \ {t} : /\ pc'[u] = pc[u] /\ op'[u] = op[u]
                              /\ loads'[u] = loads[u] /\ target'[u] = target[u]
  /\ pc[t] # "none" /\ ~Preparing(t) /\ loads'[t] = NoGen
  /\ \A g \in Gens : state'[g] \in Up => state[g] \in Up
  /\ \A g \in Gens : ctx'[g] # ctx[g] =>
        g <= created /\ \A u \in Threads : Preparing(u) => loads[u] # g

LEMMA TakesDownKeepsReloads ==
  ASSUME ReloadInv, NEW t \in Threads, Phase(t)', TakesDown(t)
  PROVE  Reloads'
<1> USE ConstantsAssumption DEF ReloadInv, ServingInv, TypeOK, Mapped, TakesDown
<1>1. state'[siteMap] \in Up => state[siteMap] \in Up
  BY DEF NoGen
<1>2. ASSUME NEW u \in Threads \ {t} PROVE Phase(u)'
  <2>1. Phase(u) /\ (InOp(u)' <=> InOp(u)) /\ (InLoad(u)' <=> InLoad(u))
    BY DEF Phases, InOp, InLoad
  <2>2. LoadPhase(u) => LoadPhase(u)'
    BY <1>1, <2>1 DEF LoadPhase
  <2>3. StopPhase(u) => StopPhase(u)'
    BY DEF StopPhase
  <2> QED
    BY <2>1, <2>2, <2>3 DEF Phase
<1>3. Phases'
  BY <1>2 DEF Phases
<1>4. Untouched'
  <2>1. \A u \in Threads : Preparing(u)' => u # t /\ Preparing(u) /\ loads[u] \in Gens
    BY DEF Preparing
  <2>2. \A u \in Threads : Preparing(u)' => ctx'[loads'[u]] # "closed"
    BY <2>1 DEF Untouched
  <2>3. \A g \in Gens : pc[g] = "none" => pc'[g] = "none"
    BY DEF Threads
  <2>4. \A u \in Threads : Preparing(u)' /\ pc'[u] # "threads" => pc'[loads'[u]] = "none"
    BY <2>1, <2>3 DEF Untouched
  <2>5. \A g \in Gens : g > created => pc'[g] = "none" /\ ctx'[g] # "closed"
    BY <2>3 DEF Untouched, Gens
  <2> QED
    BY <2>2, <2>4, <2>5 DEF Untouched
<1>5. Mapped' /\ RunningIsMapped'
  BY DEF RunningIsMapped
<1> QED
  BY <1>3, <1>4, <1>5 DEF Reloads

\* A thread that begins a load gets a generation nobody has touched.
LEMMA NewUntouched ==
  ASSUME ReloadInv, NEW t \in Threads, NewGeneration(t),
         pc[t] \in {"idle", "handling", "watching"},
         pc' = [pc EXCEPT ![t] = "acquire"], op' = [op EXCEPT ![t] = "reload"]
  PROVE  Reloads'
<1> USE ConstantsAssumption DEF ReloadInv, ServingInv, TypeOK, NewGeneration
<1>1. /\ created + 1 \in Gens /\ created + 1 > created /\ created \in Nat
      /\ created + 1 # NoGen
      /\ loads'[t] = created + 1 /\ created' = created + 1
  BY DEF Gens, NoGen
<1>2. Phases'
  <2>1. ~InLoad(t) /\ ~InOp(t)
    BY DEF InLoad, InOp, OpSteps, LoadSteps, ShutdownSteps
  <2>2. pc'[t] = "acquire" /\ "acquire" \in OpSteps
    BY DEF OpSteps
  <2>3. op'[t] = "reload"
    OBVIOUS
  <2>4. \A u \in Threads \ {t} : pc'[u] = pc[u] /\ op'[u] = op[u] /\ loads'[u] = loads[u]
    OBVIOUS
  <2> QED
    BY <1>1, <2>1, <2>2, <2>3, <2>4, OutsiderStep
<1>3. Untouched'
  <2>1. pc[created + 1] = "none" /\ ctx[created + 1] # "closed" /\ created + 1 # t
    BY <1>1 DEF Untouched
  <2>2. \A g \in Gens : pc[g] = "none" => pc'[g] = "none"
    BY DEF Threads
  <2>3. \A u \in Threads \ {t} : Preparing(u)' =>
           Preparing(u) /\ loads'[u] = loads[u] /\ pc'[u] = pc[u] /\ loads[u] \in Gens
    BY DEF Preparing
  <2>4. \A g \in Gens : g > created + 1 => g > created
    BY <1>1 DEF Gens
  <2>5. created + 1 \in Threads
    BY <1>1 DEF Threads
  <2> QED
    BY <1>1, <2>1, <2>2, <2>3, <2>4, <2>5 DEF Untouched, Threads
<1>4. Mapped' /\ RunningIsMapped'
  BY DEF Mapped, RunningIsMapped
<1> QED
  BY <1>2, <1>3, <1>4 DEF Reloads

\* Outside of its operations a thread performs none.
LEMMA OutsideOfOps ==
  ASSUME ReloadInv, NEW t \in Threads, ~InOp(t)
  PROVE  /\ op[t] = "reload" /\ loads[t] = NoGen
         /\ ~InLoad(t) /\ ~Preparing(t)
<1>1. Phase(t)
  BY DEF ReloadInv, Phases
<1> QED
  BY <1>1 DEF Phase, StopPhase, Preparing, InLoad, InOp, OpSteps, ShutdownSteps

\* A step outside of the operations that stays outside.
LEMMA OutsideKeepsReloads ==
  ASSUME ReloadInv, NEW t \in Threads, pc[t] \notin OpSteps \cup {"none"},
         pc'[t] \notin OpSteps, \A u \in Threads \ {t} : pc'[u] = pc[u],
         UNCHANGED <<opVars, siteMap, state, ctx, created, monitor>>
  PROVE  Reloads'
<1> USE DEF ReloadInv, ServingInv, TypeOK, opVars
<1>1. op[t] = "reload" /\ loads[t] = NoGen /\ ~InLoad(t)
  BY OutsideOfOps DEF InOp
<1>2. pc'[t] # "begin"
  BY DEF OpSteps
<1>3. Phases'
  BY <1>1, <1>2, OutsiderStep
<1>4. \A u \in Threads : Preparing(u)' => u # t /\ Preparing(u)
  BY <1>1 DEF Preparing
<1>5. Untouched'
  BY <1>4, UntouchedKept
<1> QED
  BY <1>3, <1>5 DEF Reloads, Mapped, RunningIsMapped

LEMMA RequestsKeepReloads ==
  ASSUME ReloadInv, NEW r \in Requests, RequestStep(r) \/ Resolve(r) \/ Handled(r)
  PROVE  Reloads'
<1> USE DEF ReloadInv, ServingInv, TypeOK
<1>1. r \in Threads
  BY DEF Threads
<1>2. /\ UNCHANGED <<opVars, siteMap, state, ctx, created, monitor>>
      /\ \A u \in Threads \ {r} : pc'[u] = pc[u]
      /\ pc[r] \in RequestSteps /\ pc'[r] \in RequestSteps
  BY <1>1 DEF RequestStep, Resolve, Handled, Admit, Refuse, AddRequest, Recheck,
     TurnedDown, RemoveRequest, Goto, siteVars, opVars, RequestSteps
<1>3. pc'[r] \notin OpSteps /\ pc[r] \notin OpSteps \cup {"none"}
  BY <1>2 DEF OpSteps, LoadSteps, ShutdownSteps, RequestSteps
<1> QED
  BY <1>1, <1>2, <1>3, OutsideKeepsReloads

\* A stop begins: it takes no monitor.
LEMMA StopBegins ==
  ASSUME Synchronized, ReloadInv, NEW e \in Events, ShutdownEvent(e)
  PROVE  e \in Threads /\ Phase(e)' /\ TakesDown(e)
<1> USE DEF ReloadInv, ServingInv, TypeOK, ShutdownEvent, Goto, siteVars
<1>1. e \in Threads /\ pc[e] = "idle" /\ ~InOp(e)
  BY DEF Threads, InOp, OpSteps, LoadSteps, ShutdownSteps
<1>2. loads[e] = NoGen
  BY <1>1, OutsideOfOps
<1>3. op'[e] = "stop" /\ pc'[e] = "shutdown" /\ loads' = loads
  BY <1>1 DEF Synchronized
<1>4. Phase(e)'
  BY <1>2, <1>3 DEF Phase, StopPhase, InOp, OpSteps, ShutdownSteps
<1>5. \A u \in Threads \ {e} : pc'[u] = pc[u] /\ op'[u] = op[u]
  BY <1>1
<1> QED
  BY <1>1, <1>2, <1>4, <1>5 DEF TakesDown, Preparing

LEMMA TriggerKeepsReloads ==
  ASSUME Synchronized, ReloadInv, Trigger
  PROVE  Reloads'
<1> USE DEF Threads, Goto
<1>1. ASSUME NEW r \in Requests, ReloadFromRequest(r) PROVE Reloads'
  BY <1>1, NewUntouched DEF ReloadFromRequest
<1>2. ASSUME NEW e \in Events, ReloadEvent(e) PROVE Reloads'
  BY <1>2, NewUntouched DEF ReloadEvent
<1>3. ASSUME NEW g \in Gens, WatcherFires(g) PROVE Reloads'
  BY <1>3, NewUntouched DEF WatcherFires
<1>4. ASSUME NEW w \in Workers, LoadUnsynchronized(w) PROVE FALSE
  <2>1. siteMap \in Gens /\ siteMap <= created
    BY DEF ReloadInv, Mapped, ServingInv, TypeOK, Created
  <2> QED
    BY <1>4, <2>1, ConstantsAssumption DEF LoadUnsynchronized, Synchronized, Gens
<1> QED
  BY <1>1, <1>2, <1>3, <1>4, StopBegins, TakesDownKeepsReloads, RequestsKeepReloads DEF Trigger

\* The steps of a stop: it takes a generation down that is nobody's to start.
LEMMA StopTakesDown ==
  ASSUME ReloadInv, NEW t \in Threads, op[t] = "stop",
         OpStep(t) \/ FailStep(t)
  PROVE  /\ Phase(t)' /\ TakesDown(t)
         /\ pc[t] \in OpSteps /\ pc'[t] \in OpSteps \cup {AfterOp(t)}
<1> USE DEF ReloadInv, ServingInv, TypeOK, Goto, siteVars, opVars
<1> DEFINE Goal == /\ Phase(t)' /\ TakesDown(t)
                   /\ pc[t] \in OpSteps /\ pc'[t] \in OpSteps \cup {AfterOp(t)}
<1>1. Phase(t) /\ StopPhase(t)
  BY DEF Phases, Phase
<1>2. /\ loads[t] = NoGen /\ pc[t] # "none" /\ siteMap # NoGen
      /\ pc[t] \in {"shutdown", "wait", "stopping", "closing", "rest", "release"}
      /\ pc[t] \in {"wait", "stopping", "closing", "rest"} => target[t] \in Gens
  BY <1>1 DEF Phase, StopPhase, Mapped, ShutdownSteps
<1>b. ~Preparing(t) /\ pc[t] \in OpSteps
  BY <1>2 DEF Preparing, OpSteps, ShutdownSteps
\* Within the stop, a step that closes nothing only has to keep what is down down.
<1>a. ASSUME UNCHANGED <<siteMap, ctx, created, monitor, op, loads, serves>>,
             \A u \in Threads \ {t} : pc'[u] = pc[u] /\ target'[u] = target[u],
             \/ pc'[t] \in {"wait", "stopping", "closing", "rest"} /\ target'[t] # NoGen
             \/ pc'[t] = "release",
             \A g \in Gens : state'[g] \in Up => state[g] \in Up
      PROVE  Goal
  <2>1. Phase(t)' /\ pc'[t] \in OpSteps
    BY <1>2, <1>a DEF Phase, StopPhase, InOp, OpSteps, ShutdownSteps
  <2> QED
    BY <1>2, <1>a, <1>b, <2>1 DEF TakesDown
<1>3. CASE ShutDownSite(t)
  BY <1>2, <1>3, <1>a DEF ShutDownSite
<1>4. CASE WaitForRequests(t) \/ DoneWaiting(t)
  <2>1. /\ UNCHANGED <<siteMap, state, ctx, created, monitor, op, loads, target, serves>>
        /\ \A u \in Threads \ {t} : pc'[u] = pc[u]
        /\ pc[t] = "wait" /\ pc'[t] \in {"wait", "stopping", "rest"}
    BY <1>4 DEF WaitForRequests, DoneWaiting, TearDown
  <2>2. target[t] # NoGen
    BY <1>2, <2>1 DEF NoGen, Gens
  <2> QED
    BY <1>a, <2>1, <2>2
<1>5. CASE SetStopping(t)
  <2>1. target[t] \in Gens /\ pc'[t] = "closing" /\ target' = target
    BY <1>2, <1>5 DEF SetStopping
  <2>2. \A g \in Gens : state'[g] \in Up => state[g] \in Up
    BY <1>5, <2>1 DEF SetStopping, SetState, Up
  <2> QED
    BY <1>5, <1>a, <2>1, <2>2 DEF SetStopping, NoGen, Gens
<1>6. CASE ComeToRest(t)
  <2>1. target[t] \in Gens /\ pc'[t] = "release" /\ siteMap' = siteMap
    BY <1>2, <1>6 DEF ComeToRest, AfterRest, AfterShutdown
  <2>2. \A g \in Gens : state'[g] \in Up => state[g] \in Up
    BY <1>6, <2>1 DEF ComeToRest, SetState, Up
  <2> QED
    BY <1>6, <1>a, <2>1, <2>2 DEF ComeToRest
<1>7. CASE CloseContext(t)
  <2>1. /\ pc[t] = "closing" /\ target[t] \in Gens /\ pc'[t] \in {"rest", "release"}
        /\ UNCHANGED <<siteMap, state, created, monitor, op, loads, target, serves>>
        /\ \A u \in Threads \ {t} : pc'[u] = pc[u]
        /\ \A g \in Gens \ {target[t]} : ctx'[g] = ctx[g]
    BY <1>2, <1>7 DEF CloseContext, OnException
  <2>2. Phase(t)'
    BY <1>2, <2>1 DEF Phase, StopPhase, InOp, OpSteps, ShutdownSteps, NoGen, Gens
  <2>3. ASSUME NEW u \in Threads, Preparing(u) PROVE loads[u] # target[t]
    <3>1. Phase(u) /\ loads[u] # NoGen
      BY <2>3 DEF Phases, Preparing
    <3>2. op[u] = "reload" /\ pc[u] \in LoaderSteps \cup ShutdownSteps
      BY <2>3, <3>1 DEF Phase, StopPhase, Preparing, BeforeStarted, LoaderSteps
    <3>3. Starting(u)
      BY <3>1, <3>2 DEF Starting
    <3> QED
      BY <2>1, <3>3 DEF TearsDownOthers
  <2>4. target[t] <= created
    BY DEF Created
  <2> QED
    BY <1>2, <1>b, <2>1, <2>2, <2>3, <2>4 DEF TakesDown, OpSteps, ShutdownSteps
<1>8. CASE FailStep(t)
  BY <1>2, <1>8, <1>a DEF FailStep, FailLoad, FailStarted, FailShutdown, OnException
<1>9. CASE Release(t)
  <2>1. /\ pc'[t] = AfterOp(t) /\ op'[t] = "reload" /\ loads'[t] = NoGen
        /\ UNCHANGED <<siteVars, serves>>
        /\ \A u \in Threads \ {t} : /\ pc'[u] = pc[u] /\ op'[u] = op[u]
                                    /\ loads'[u] = loads[u] /\ target'[u] = target[u]
    BY <1>9 DEF Release
  <2>2. pc'[t] \in {"handling", "ended", "idle"}
    BY <2>1 DEF AfterOp
  <2>3. Phase(t)'
    BY <2>1, <2>2 DEF Phase, LoadPhase, InLoad, InOp, OpSteps, LoadSteps, ShutdownSteps,
       BeforeStarted, DownSteps
  <2>4. monitor # t => monitor' = monitor
    BY <1>9 DEF Release, MonitorAfter
  <2> QED
    BY <1>2, <1>b, <2>1, <2>3, <2>4 DEF TakesDown
<1>10. pc[t] \notin {"acquire", "begin", "suspending", "draining", "cleanup"} \cup LoadSteps
  BY <1>2 DEF LoadSteps
<1> QED
  BY <1>3, <1>4, <1>5, <1>6, <1>7, <1>8, <1>9, <1>10 DEF OpStep, TearDownStep, BringUpStep,
     Acquire, BeginLoad, SuspendSleep, DrainSleep, Drained, CleanupSite, InitSite, OpenContext,
     StartWatcher, SetStarted, Publish, LoadFailed, LoadSteps

\* A step of a load that creates, opens and closes nothing and starts no
\* watcher: what remains is what the thread itself knows, and the map.
LEMMA InsideStep ==
  ASSUME ReloadInv, NEW t \in Threads, InLoad(t),
         UNCHANGED <<created, ctx, op, loads>>,
         \A u \in Threads \ {t} : pc'[u] = pc[u] /\ target'[u] = target[u],
         pc'[t] \in BeforeStarted =>
            pc[t] \in BeforeStarted /\ (pc[t] = "threads" => pc'[t] = "threads"),
         Phase(t)', Mapped', RunningIsMapped'
  PROVE  Reloads'
<1> USE DEF ReloadInv, ServingInv, TypeOK
<1>1. Phases'
  BY LoaderIsAlone
<1>2. pc[t] # "none"
  BY DEF InLoad, InOp, OpSteps, LoadSteps, ShutdownSteps
<1>3. \A u \in Threads : Preparing(u)' =>
         Preparing(u) /\ (pc[u] = "threads" => pc'[u] = "threads")
  BY DEF Preparing
<1>4. Untouched'
  BY <1>2, <1>3, UntouchedKept
<1> QED
  BY <1>1, <1>4 DEF Reloads

\* Looking up and shutting down the running generation.
LEMMA TearDownKeepsReloads ==
  ASSUME Synchronized, ReloadInv, NEW t \in Threads, op[t] = "reload", TearDownStep(t)
  PROVE  Reloads'
<1> USE DEF ReloadInv, ServingInv, TypeOK, Goto, siteVars, opVars
<1> DEFINE Steady == UNCHANGED <<siteMap, state, created, ctx, op, loads, monitor>>
           Alone == \A u \in Threads \ {t} : pc'[u] = pc[u] /\ target'[u] = target[u]
<1>0. /\ Phase(t) /\ LoadPhase(t) /\ (InLoad(t) => monitor = t)
      /\ siteMap \in Gens
      /\ SuspendOnReload = FALSE
  BY DEF Phases, Phase, LoadPhase, Mapped, Synchronized
<1>a. ASSUME pc[t] \in {"begin", "shutdown", "wait", "stopping", "closing", "rest"}
      PROVE  InLoad(t) /\ pc[t] \in BeforeStarted /\ loads[t] # NoGen
  BY <1>0, <1>a DEF InLoad, InOp, OpSteps, LoadSteps, ShutdownSteps, BeforeStarted, LoadPhase
<1>b. Steady => Mapped' /\ RunningIsMapped'
  BY DEF Mapped, RunningIsMapped
<1> USE DEF Phase, LoadPhase, InLoad, InOp, OpSteps, LoadSteps, ShutdownSteps, BeforeStarted,
    DownSteps
<1>1. CASE BeginLoad(t)
  <2>1. pc[t] = "begin" /\ pc'[t] = "shutdown" /\ Steady /\ Alone
    BY <1>0, <1>1 DEF BeginLoad, Gens, NoGen
  <2>2. Phase(t)'
    BY <1>0, <1>a, <2>1
  <2> QED
    BY <1>a, <1>b, <2>1, <2>2, InsideStep
<1>2. CASE SuspendSleep(t) \/ DrainSleep(t) \/ Drained(t)
  BY <1>0, <1>2 DEF SuspendSleep, DrainSleep, Drained
<1>3. CASE ShutDownSite(t)
  <2>1. pc[t] = "shutdown" /\ pc'[t] = "wait" /\ Steady /\ Alone /\ target'[t] = siteMap
    BY <1>0, <1>3 DEF ShutDownSite, Gens, NoGen
  <2>2. Phase(t)'
    BY <1>0, <1>a, <2>1 DEF Gens, NoGen
  <2> QED
    BY <1>a, <1>b, <2>1, <2>2, InsideStep
<1>4. CASE WaitForRequests(t)
  <2>1. pc[t] = "wait" /\ pc' = pc /\ Steady /\ target' = target
    BY <1>4 DEF WaitForRequests
  <2>2. Phase(t)'
    BY <1>0, <1>a, <2>1
  <2> QED
    BY <1>a, <1>b, <2>1, <2>2, InsideStep
<1>5. CASE DoneWaiting(t)
  <2>1. /\ pc[t] = "wait" /\ Steady /\ target' = target /\ Alone
        /\ pc'[t] = IF state[siteMap] \in Up THEN "stopping" ELSE "rest"
    BY <1>0, <1>5 DEF DoneWaiting, TearDown
  <2>2. Phase(t)'
    BY <1>0, <1>a, <2>1
  <2> QED
    BY <1>a, <1>b, <2>1, <2>2, InsideStep
<1>6. CASE SetStopping(t)
  <2>1. /\ pc[t] = "stopping" /\ pc'[t] = "closing" /\ target[t] = siteMap
        /\ state' = [state EXCEPT ![siteMap] = "STOPPING"] /\ Alone
        /\ UNCHANGED <<siteMap, created, ctx, op, loads, target, monitor>>
    BY <1>0, <1>6 DEF SetStopping, SetState
  <2>2. state'[siteMap] = "STOPPING"
    BY <1>0, <2>1
  <2>3. Phase(t)' /\ Mapped' /\ RunningIsMapped'
    BY <1>0, <1>a, <2>1, <2>2 DEF Mapped, RunningIsMapped, Up
  <2> QED
    BY <1>a, <2>1, <2>3, InsideStep
<1>7. CASE CloseContext(t)
  <2>1. /\ pc[t] = "closing" /\ pc'[t] \in {"rest", "failed"} /\ target[t] = siteMap
        /\ UNCHANGED <<siteMap, state, created, op, loads, target, monitor>>
        /\ \A u \in Threads \ {t} : pc'[u] = pc[u]
        /\ \A g \in Gens \ {siteMap} : ctx'[g] = ctx[g]
    BY <1>0, <1>7 DEF CloseContext, OnException
  <2>2. Phase(t)' /\ Mapped' /\ RunningIsMapped'
    BY <1>0, <1>a, <2>1 DEF Mapped, RunningIsMapped
  <2>3. Phases'
    BY <1>a, <2>1, <2>2, LoaderIsAlone
  <2>4. \A u \in Threads : Preparing(u)' => /\ Preparing(u) /\ loads'[u] = loads[u]
                                            /\ pc[u] = "threads" => pc'[u] = "threads"
    BY <2>1 DEF Preparing
  <2>5. ASSUME NEW u \in Threads, Preparing(u)
        PROVE  loads[u] \in Gens /\ loads[u] # siteMap
    <3>1. Phase(u) /\ loads[u] \in Gens
      BY <2>5 DEF Phases, Preparing
    <3>2. Starting(u)
      BY <2>5, <3>1 DEF Preparing, Starting, LoaderSteps, StopPhase
    <3> QED
      BY <2>1, <3>1, <3>2 DEF TearsDownOthers
  <2>6. \A g \in Gens : g > created => g # siteMap
    BY <1>0, ConstantsAssumption DEF Created, Gens
  <2>7. \A g \in Gens : pc[g] = "none" => pc'[g] = "none"
    BY <2>1 DEF Threads
  <2>8. Untouched'
    BY <2>1, <2>4, <2>5, <2>6, <2>7 DEF Untouched
  <2> QED
    BY <2>2, <2>3, <2>8 DEF Reloads
<1>8. CASE ComeToRest(t)
  <2>1. /\ pc[t] = "rest" /\ pc'[t] = "init" /\ target[t] = siteMap
        /\ state' = [state EXCEPT ![siteMap] = "STOPPED"] /\ Alone
        /\ UNCHANGED <<siteMap, created, ctx, op, loads, target, monitor>>
    BY <1>0, <1>8 DEF ComeToRest, SetState, AfterRest, AfterShutdown
  <2>2. state'[siteMap] = "STOPPED"
    BY <1>0, <2>1
  <2>3. Phase(t)' /\ Mapped' /\ RunningIsMapped'
    BY <1>0, <1>a, <2>1, <2>2 DEF Mapped, RunningIsMapped, Up
  <2> QED
    BY <1>a, <2>1, <2>3, InsideStep
<1>9. CASE CleanupSite(t)
  BY <1>0, <1>9 DEF CleanupSite
<1> QED
  BY <1>1, <1>2, <1>3, <1>4, <1>5, <1>6, <1>7, <1>8, <1>9 DEF TearDownStep

\* The steps that bring up the new generation, and those that fail.
LEMMA BringUpKeepsReloads ==
  ASSUME ReloadInv, NEW t \in Threads, op[t] = "reload",
         BringUpStep(t) \/ FailStep(t) \/ Acquire(t) \/ Release(t)
  PROVE  Reloads'
<1> USE DEF ReloadInv, ServingInv, TypeOK, Goto, siteVars, opVars
<1> DEFINE Steady == UNCHANGED <<siteMap, state, created, ctx, op, loads, monitor>>
           Alone == \A u \in Threads \ {t} : pc'[u] = pc[u] /\ target'[u] = target[u]
<1>0. /\ Phase(t) /\ LoadPhase(t) /\ (InLoad(t) => monitor = t)
      /\ siteMap \in Gens
  BY DEF Phases, Phase, LoadPhase, Mapped
<1>a. ASSUME pc[t] \in LoadSteps \cup {"release", "closing"} PROVE InLoad(t)
  BY <1>a DEF InLoad, InOp, OpSteps, LoadSteps, ShutdownSteps
<1>b. ASSUME pc[t] \in {"init", "loading", "opened", "threads", "started", "failed",
                         "aborted"}
      PROVE  loads[t] \in Gens
  BY <1>0, <1>b DEF LoadPhase, BeforeStarted
<1>c. Steady => Mapped' /\ RunningIsMapped'
  BY DEF Mapped, RunningIsMapped
<1> USE DEF Phase, LoadPhase, InLoad, InOp, OpSteps, LoadSteps, ShutdownSteps, BeforeStarted,
    DownSteps
<1>1. CASE InitSite(t)
  <2>1. /\ pc[t] = "init" /\ pc'[t] = "loading" /\ siteMap' = loads[t]
        /\ state' = [state EXCEPT ![loads[t]] = "STARTING"] /\ Alone
        /\ UNCHANGED <<created, ctx, op, loads, target, monitor>>
    BY <1>1 DEF InitSite, SetState
  <2>2. state'[siteMap'] = "STARTING" /\ state[siteMap] \notin Up /\ loads[t] \in Gens
    BY <1>0, <1>b, <2>1
  <2>3. Mapped' /\ RunningIsMapped'
    BY <2>1, <2>2 DEF Mapped, RunningIsMapped, Up, Gens, NoGen
  <2>4. Phase(t)'
    BY <1>0, <2>1, <2>2 DEF Up
  <2> QED
    BY <1>a, <2>1, <2>3, <2>4, InsideStep
<1>2. CASE OpenContext(t)
  <2>1. /\ pc[t] = "loading" /\ pc'[t] = "opened" /\ ctx' = [ctx EXCEPT ![loads[t]] = "open"]
        /\ UNCHANGED <<siteMap, state, created, op, loads, target, monitor>> /\ Alone
    BY <1>2 DEF OpenContext
  <2>2. Phase(t)' /\ Mapped' /\ RunningIsMapped'
    BY <1>0, <2>1 DEF Mapped, RunningIsMapped
  <2>3. Phases'
    BY <1>a, <2>1, <2>2, LoaderIsAlone
  <2>4. loads[t] \in Gens /\ loads[t] <= created
    BY <1>b, <2>1 DEF Created
  <2>5. \A u \in Threads : Preparing(u)' =>
           Preparing(u) /\ loads[u] \in Gens /\ (pc[u] = "threads" => pc'[u] = "threads")
    BY <2>1 DEF Preparing
  <2>6. \A g \in Gens : ctx'[g] \in {ctx[g], "open"} /\ (g > created => ctx'[g] = ctx[g])
    BY <2>1, <2>4, ConstantsAssumption DEF Gens
  <2>7. \A g \in Gens : pc[g] = "none" => pc'[g] = "none"
    BY <2>1 DEF Threads
  <2>8. Untouched'
    BY <2>1, <2>5, <2>6, <2>7 DEF Untouched
  <2> QED
    BY <2>2, <2>3, <2>8 DEF Reloads
<1>3. CASE StartWatcher(t)
  <2>1. /\ pc[t] = "opened" /\ loads[t] \in Gens /\ loads[t] <= created
        /\ UNCHANGED <<siteMap, state, created, ctx, op, loads, target, monitor>>
    BY <1>3, <1>b DEF StartWatcher, Created
  <2>0. Preparing(t)
    BY <2>1 DEF Preparing, NoGen, Gens
  <2>2. pc[loads[t]] = "none" /\ loads[t] # t
    BY <2>0, <2>1 DEF Untouched
  <2>3. /\ pc'[t] = "threads"
        /\ \A u \in Threads \ {t, loads[t]} : pc'[u] = pc[u]
        /\ pc'[loads[t]] \in {"none", "watching"}
    BY <1>3, <2>1, <2>2 DEF StartWatcher, Threads
  <2>4. Phase(t)' /\ Mapped' /\ RunningIsMapped'
    BY <1>0, <2>1, <2>3 DEF Mapped, RunningIsMapped
  <2>5. \A u \in Threads \ {t} : pc'[u] = pc[u] \/ (pc[u] = "none" /\ pc'[u] = "watching")
    BY <2>2, <2>3
  <2>6. Phases'
    BY <1>a, <2>1, <2>4, <2>5, LoaderIsAlone
  <2>7. \A u \in Threads \ {t} : Preparing(u)' =>
           Preparing(u) /\ loads[u] \in Gens /\ loads[u] # loads[t] /\ pc'[u] = pc[u]
    BY <2>1, <2>5 DEF Preparing, OneLoader
  <2>8. \A g \in Gens \ {loads[t]} : pc[g] = "none" => pc'[g] = "none"
    BY <2>1, <2>3 DEF Threads
  <2>9. \A g \in Gens : g > created => g # loads[t]
    BY <2>1, ConstantsAssumption DEF Gens
  <2>11. Untouched'
    BY <2>1, <2>3, <2>7, <2>8, <2>0, <2>9 DEF Untouched
  <2> QED
    BY <2>4, <2>6, <2>11 DEF Reloads
<1>4. CASE SetStarted(t)
  <2>1. /\ pc[t] = "threads" /\ pc'[t] = "started" /\ siteMap = loads[t]
        /\ state' = [state EXCEPT ![siteMap] = "STARTED"] /\ Alone
        /\ UNCHANGED <<siteMap, created, ctx, op, loads, target, monitor>>
    BY <1>0, <1>4 DEF SetStarted, SetState
  <2>2. Phase(t)' /\ Mapped' /\ RunningIsMapped'
    BY <1>0, <2>1 DEF Mapped, RunningIsMapped
  <2> QED
    BY <1>a, <2>1, <2>2, InsideStep
<1>5. CASE Publish(t)
  <2>1. pc[t] = "started" /\ pc'[t] = "release" /\ Steady /\ target' = target /\ Alone
    BY <1>0, <1>5 DEF Publish
  <2>2. Phase(t)'
    BY <1>0, <2>1
  <2> QED
    BY <1>a, <1>c, <2>1, <2>2, InsideStep
<1>6. CASE LoadFailed(t)
  <2>1. /\ pc[t] \in {"failed", "aborted"} /\ pc'[t] = "release"
        /\ state' = [state EXCEPT ![loads[t]] = "INACTIVE"] /\ Alone
        /\ UNCHANGED <<siteMap, created, ctx, op, loads, target, monitor>>
    BY <1>6 DEF LoadFailed, SetState
  <2>2. (state[siteMap] \notin Up \/ siteMap = loads[t]) /\ loads[t] \in Gens
    BY <1>0, <1>b, <2>1
  <2>3. Phase(t)' /\ Mapped' /\ RunningIsMapped'
    BY <1>0, <2>1, <2>2 DEF Mapped, RunningIsMapped, Up
  <2> QED
    BY <1>a, <2>1, <2>3, InsideStep
<1>7. CASE FailStep(t)
  <2>1. /\ \/ pc[t] \in {"init", "loading", "opened", "threads", "closing"} /\ pc'[t] = "failed"
           \/ pc[t] = "started" /\ pc'[t] = "aborted"
        /\ Steady /\ target' = target /\ Alone
    BY <1>0, <1>7 DEF FailStep, FailLoad, FailStarted, FailShutdown, OnException
  <2>2. Phase(t)'
    BY <1>0, <2>1
  <2> QED
    BY <1>a, <1>c, <2>1, <2>2, InsideStep
<1>8. CASE Acquire(t)
  <2>1. /\ pc[t] = "acquire" /\ pc'[t] = "begin" /\ monitor = NoThread /\ monitor' = t
        /\ UNCHANGED <<siteVars, opVars>> /\ \A u \in Threads \ {t} : pc'[u] = pc[u]
    BY <1>8 DEF Acquire, MayEnter
  <2>2. Phases'
    BY <1>0, <2>1, OutsiderStep
  <2>3. \A u \in Threads : pc[u] = "none" => pc'[u] = "none"
    BY <2>1
  <2>4. \A u \in Threads : Preparing(u)' => /\ Preparing(u) /\ loads'[u] = loads[u]
                                            /\ pc[u] = "threads" => pc'[u] = "threads"
    BY <2>1 DEF Preparing
  <2>5. Untouched'
    BY <2>1, <2>3, <2>4, UntouchedKept
  <2> QED
    BY <1>c, <2>1, <2>2, <2>5 DEF Reloads, Mapped, RunningIsMapped
<1>9. CASE Release(t)
  <2>1. /\ pc[t] = "release" /\ pc'[t] \in {"handling", "ended", "idle"}
        /\ UNCHANGED <<siteVars, serves>> /\ op'[t] = "reload" /\ loads'[t] = NoGen
        /\ (monitor # t => monitor' = monitor)
        /\ \A u \in Threads \ {t} : /\ pc'[u] = pc[u] /\ op'[u] = op[u]
                                    /\ loads'[u] = loads[u] /\ target'[u] = target[u]
    BY <1>0, <1>9 DEF Release, MonitorAfter, AfterOp
  <2>2. Phase(t)'
    BY <2>1
  <2> QED
    BY <2>1, <2>2, TakesDownKeepsReloads DEF TakesDown, Preparing
<1> QED
  BY <1>1, <1>2, <1>3, <1>4, <1>5, <1>6, <1>7, <1>8, <1>9 DEF BringUpStep

-----------------------------------------------------------------------------

LEMMA ReloadInit == Synchronized /\ Init => ReloadInv
<1> SUFFICES ASSUME Synchronized, Init PROVE ReloadInv
  OBVIOUS
<1> USE ConstantsAssumption, ThreadsAssumption
<1>1. ServingInv
  BY ServingInit
<1>2. \A t \in Threads : pc[t] \in {"none", "watching", "idle"} /\ (t \in Requests => pc[t] = "idle")
  BY DEF Init, IdleStep, Threads
<1>3. ServesInv
  BY <1>2 DEF Init, ServesInv, Threads
<1>4. Phases
  BY <1>2 DEF Init, Phases, Phase, LoadPhase, InLoad, InOp, OpSteps, LoadSteps,
     ShutdownSteps, BeforeStarted, DownSteps
<1>5. Untouched
  <2>1. ASSUME NEW g \in Gens, g > created PROVE pc[g] = "none" /\ ctx[g] # "closed"
    <3>1. g \notin BootedGens /\ g \in Threads
      BY <2>1 DEF Init, Synchronized, BootedGens, Threads
    <3> QED
      BY <3>1 DEF Init, IdleStep
  <2>2. \A t \in Threads : pc[t] \notin BeforeStarted
    BY <1>2 DEF BeforeStarted, ShutdownSteps
  <2> QED
    BY <2>1, <2>2 DEF Untouched, Preparing
<1>6. siteMap = 1 /\ 1 \in Gens /\ BootedGens = {1}
  BY DEF Init, Synchronized, BootedGens, Gens
<1>7. Mapped /\ RunningIsMapped
  BY <1>6 DEF Init, Mapped, RunningIsMapped, NoGen, Up
<1> QED
  BY <1>1, <1>3, <1>4, <1>5, <1>7 DEF ReloadInv

LEMMA ReloadNext ==
  ASSUME Synchronized, ReloadInv, [Next]_vars
  PROVE  ReloadInv'
<1>1. ServingInv'
  BY ServingNext DEF ReloadInv, Synchronized
<1>2. ServesInv'
  BY ServesNext DEF ReloadInv, ServingInv
<1>3. CASE UNCHANGED vars
  BY <1>1, <1>2, <1>3 DEF vars, ReloadInv, Phases, Phase, LoadPhase, StopPhase, InLoad, InOp,
     Untouched, Preparing, Mapped, RunningIsMapped
<1>4. CASE Trigger
  BY <1>1, <1>2, <1>4, TriggerKeepsReloads DEF ReloadInv, Reloads
<1>5. ASSUME NEW r \in Requests, RequestStep(r) \/ Handled(r) PROVE ReloadInv'
  BY <1>1, <1>2, <1>5, RequestsKeepReloads DEF ReloadInv, Reloads
<1>6. ASSUME NEW g \in Gens, WatcherInterrupted(g) PROVE ReloadInv'
  <2>1. /\ g \in Threads /\ pc[g] = "watching" /\ pc'[g] = "ended"
        /\ \A u \in Threads \ {g} : pc'[u] = pc[u]
        /\ UNCHANGED <<siteVars, opVars, monitor>>
    BY <1>6 DEF WatcherInterrupted, Goto, Threads, ReloadInv, ServingInv, TypeOK
  <2>2. Reloads'
    BY <2>1, OutsideKeepsReloads DEF OpSteps, LoadSteps, ShutdownSteps, siteVars
  <2> QED
    BY <1>1, <1>2, <2>2 DEF ReloadInv, Reloads
<1>7. ASSUME NEW t \in Threads, OpStep(t) \/ FailStep(t) PROVE ReloadInv'
  <2>1. op[t] \in {"reload", "stop"}
    BY DEF ReloadInv, Phases, Phase
  <2>2. Reloads'
    BY <1>7, <2>1, TearDownKeepsReloads, BringUpKeepsReloads, StopTakesDown,
       TakesDownKeepsReloads DEF OpStep
  <2> QED
    BY <1>1, <1>2, <2>2 DEF ReloadInv, Reloads
<1> QED
  BY <1>3, <1>4, <1>5, <1>6, <1>7 DEF Next

LEMMA ReloadAlways == ASSUME Synchronized PROVE Spec => []ReloadInv
<1>1. Init => ReloadInv
  BY ReloadInit
<1>2. ReloadInv /\ [Next]_vars => ReloadInv'
  BY ReloadNext
<1> QED
  BY <1>1, <1>2, PTL DEF Spec

\* RunningIsMapped, for any number of threads: the reloads of administrators,
\* events, requests and the watcher that overlap each other and any number of
\* stops never leave an old generation running beside the new one, whichever
\* of them fail.
THEOREM OneGenerationRuns == ASSUME Synchronized PROVE Spec => []RunningIsMapped
<1>1. ReloadInv => RunningIsMapped
  BY DEF ReloadInv
<1> QED
  BY <1>1, ReloadAlways, PTL

\* What changes the site: in the map, its state or its entry.
LEMMA SiteChanges ==
  ASSUME SuspendOnReload = FALSE, [Next]_vars
  PROVE  \/ UNCHANGED <<siteMap, state, nodeState>>
         \/ \E t \in Threads : \/ InitSite(t) \/ Publish(t) \/ ComeToRest(t) \/ CleanupSite(t)
                               \/ SetStopping(t) \/ SetStarted(t) \/ LoadFailed(t)
                               \/ FailStarted(t)
<1> DEFINE Kept == UNCHANGED <<siteMap, state, nodeState>>
<1>1. CASE UNCHANGED vars
  BY <1>1 DEF vars
<1>2. CASE Trigger
  BY <1>2 DEF Trigger, Resolve, ReloadFromRequest, ReloadEvent, ShutdownEvent,
     LoadUnsynchronized, WatcherFires, NewGeneration, siteVars
<1>3. ASSUME NEW r \in Requests, RequestStep(r) \/ Handled(r) PROVE Kept
  BY <1>3 DEF RequestStep, Handled, Admit, Refuse, AddRequest, Recheck, RemoveRequest, siteVars
<1>4. ASSUME NEW w \in Gens, WatcherInterrupted(w) PROVE Kept
  BY <1>4 DEF WatcherInterrupted, siteVars
<1>5. ASSUME NEW t \in Threads, TearDownStep(t), ~ComeToRest(t), ~CleanupSite(t),
             ~SetStopping(t)
      PROVE  Kept
  BY <1>5 DEF TearDownStep, BeginLoad, SuspendSleep, DrainSleep, Drained, ShutDownSite,
     WaitForRequests, DoneWaiting, CloseContext, siteVars
<1>6. ASSUME NEW t \in Threads, BringUpStep(t), ~InitSite(t), ~Publish(t), ~SetStarted(t),
             ~LoadFailed(t)
      PROVE  Kept
  BY <1>6 DEF BringUpStep, OpenContext, StartWatcher, siteVars
<1>7. ASSUME NEW t \in Threads, Acquire(t) \/ FailStep(t) \/ Release(t), ~FailStarted(t)
      PROVE  Kept
  BY <1>7 DEF Acquire, FailStep, FailLoad, FailShutdown, Release, siteVars
<1> QED
  BY <1>1, <1>2, <1>3, <1>4, <1>5, <1>6, <1>7 DEF Next, OpStep

\* The node's entry in the cluster differs from the state of the generation
\* it answers with only while both are down; nobody stops the site.
Announced ==
  /\ nodeState = state[siteMap] \/ (nodeState \notin Up /\ state[siteMap] \notin Up)
  /\ \A t \in Threads : op[t] = "reload"

LEMMA AnnouncedInit == Synchronized /\ Init => Announced
<1>1. Synchronized /\ Init => siteMap = 1 /\ 1 \in BootedGens /\ 1 \in Gens
  BY ConstantsAssumption DEF Synchronized, Init, BootedGens, Gens
<1> QED
  BY <1>1 DEF Synchronized, Init, Announced

LEMMA AnnouncedNext ==
  ASSUME Synchronized, EventOps \subseteq {"reload"}, ReloadInv, Announced, [Next]_vars
  PROVE  Announced'
<1> USE DEF ReloadInv, ServingInv, TypeOK, Goto
<1>1. \A t \in Threads : op'[t] = "reload"
  <2>1. CASE UNCHANGED op
    BY <2>1 DEF Announced
  <2>2. CASE Trigger
    BY <2>2 DEF Announced, Trigger, Resolve, ReloadFromRequest, ReloadEvent, ShutdownEvent,
       LoadUnsynchronized, WatcherFires, opVars
  <2>3. ASSUME NEW t \in Threads, Release(t) PROVE \A u \in Threads : op'[u] = "reload"
    BY <2>3 DEF Announced, Release
  <2>4. ASSUME ~Trigger, \A t \in Threads : ~Release(t) PROVE UNCHANGED op
    <3>1. CASE UNCHANGED vars
      BY <3>1 DEF vars
    <3>2. ASSUME NEW r \in Requests, RequestStep(r) \/ Handled(r) PROVE UNCHANGED op
      BY <3>2 DEF RequestStep, Handled, Admit, Refuse, AddRequest, Recheck, RemoveRequest, opVars
    <3>3. ASSUME NEW w \in Gens, WatcherInterrupted(w) PROVE UNCHANGED op
      BY <3>3 DEF WatcherInterrupted, opVars
    <3>4. ASSUME NEW t \in Threads, TearDownStep(t) PROVE UNCHANGED op
      BY <3>4 DEF TearDownStep, BeginLoad, SuspendSleep, DrainSleep, Drained, ShutDownSite,
         WaitForRequests, DoneWaiting, SetStopping, CloseContext, ComeToRest, CleanupSite, opVars
    <3>5. ASSUME NEW t \in Threads, BringUpStep(t) \/ Acquire(t) \/ FailStep(t)
          PROVE  UNCHANGED op
      BY <3>5 DEF BringUpStep, InitSite, OpenContext, StartWatcher, SetStarted, Publish,
         LoadFailed, Acquire, FailStep, FailLoad, FailStarted, FailShutdown, opVars
    <3> QED
      BY <2>4, <3>1, <3>2, <3>3, <3>4, <3>5 DEF Next, OpStep
  <2> QED
    BY <2>1, <2>2, <2>3, <2>4
<1> DEFINE Agree == nodeState = state[siteMap] \/ (nodeState \notin Up /\ state[siteMap] \notin Up)
<1>2. ASSUME NEW t \in Threads, pc[t] \in DownSteps \cup {"stopping", "started", "aborted"}
      PROVE  /\ siteMap \in Gens /\ loads[t] \in Gens
             /\ pc[t] \in DownSteps => state[siteMap] \notin Up /\ nodeState \notin Up
             /\ pc[t] \in {"stopping", "closing", "rest"} => target[t] = siteMap
             /\ pc[t] \in {"loading", "opened", "threads", "started", "aborted"}
                   => siteMap = loads[t]
  <2>1. LoadPhase(t)
    BY DEF Phases, Phase, Announced
  <2> QED
    BY <1>2, <2>1 DEF LoadPhase, Mapped, Announced, BeforeStarted, ShutdownSteps, DownSteps
<1> USE DEF SetState, Up, DownSteps
<1>3. ASSUME NEW t \in Threads, SetStopping(t) \/ ComeToRest(t) PROVE Agree'
  BY <1>1, <1>2, <1>3 DEF SetStopping, ComeToRest, Announced
<1>4. ASSUME NEW t \in Threads, InitSite(t) \/ SetStarted(t) PROVE Agree'
  BY <1>2, <1>4 DEF InitSite, SetStarted
<1>5. ASSUME NEW t \in Threads, LoadFailed(t) PROVE Agree'
  BY <1>2, <1>5 DEF LoadFailed
<1>6. ASSUME NEW t \in Threads, Publish(t) \/ FailStarted(t) PROVE Agree'
  BY <1>2, <1>6 DEF Publish, FailStarted, Announced
<1>7. ASSUME NEW t \in Threads, CleanupSite(t) PROVE FALSE
  BY <1>7 DEF CleanupSite, Phases, Phase
<1>8. CASE UNCHANGED <<siteMap, state, nodeState>>
  BY <1>1, <1>8 DEF Announced
<1> QED
  BY <1>1, <1>3, <1>4, <1>5, <1>6, <1>7, <1>8, SiteChanges DEF Announced, Synchronized

\* NodeStateAgrees, where nobody stops the site: what the node announces of
\* it is what its own generation is, after any history of overlapping and
\* failing reloads.
THEOREM AnnouncedIsRunning ==
  ASSUME Synchronized, EventOps \subseteq {"reload"}
  PROVE  Spec => []NodeStateAgrees
<1>1. Init => Announced
  BY AnnouncedInit
<1>2. ReloadInv /\ Announced /\ [Next]_vars => Announced'
  BY AnnouncedNext
<1>3. Announced => NodeStateAgrees
  BY DEF Announced, NodeStateAgrees
<1> QED
  BY <1>1, <1>2, <1>3, ReloadAlways, PTL DEF Spec

\* NeverResurrected: the second put at the end of a load never brings back a
\* generation that another load or a stop has shut down meanwhile.
THEOREM ClosedStaysAway == ASSUME Synchronized PROVE Spec => NeverResurrected
<1>1. ASSUME ReloadInv, [Next]_vars, NEW g \in Gens, ctx[g] = "closed", siteMap # g
      PROVE  siteMap' # g
  <2> USE DEF ReloadInv, ServingInv, TypeOK, Goto
  <2>1. ASSUME NEW t \in Threads, InitSite(t) PROVE siteMap' # g
    <3>1. pc[t] = "init" /\ siteMap' = loads[t]
      BY <2>1 DEF InitSite
    <3>2. Phase(t)
      BY <1>1 DEF Phases
    <3>3. Preparing(t)
      BY <3>1, <3>2 DEF Phase, LoadPhase, StopPhase, Preparing, BeforeStarted, ShutdownSteps
    <3> QED
      BY <1>1, <3>1, <3>3 DEF Untouched
  <2>2. ASSUME NEW t \in Threads, Publish(t) \/ FailStarted(t) PROVE siteMap' # g
    BY <1>1, <2>2 DEF Publish, FailStarted, Phases, Phase, LoadPhase, StopPhase, ShutdownSteps
  <2>3. ASSUME NEW t \in Threads, ComeToRest(t) \/ CleanupSite(t) PROVE siteMap' # g
    BY <1>1, <2>3 DEF ComeToRest, CleanupSite, Phases, Phase
  <2>4. ASSUME NEW t \in Threads, SetStopping(t) \/ SetStarted(t) \/ LoadFailed(t)
        PROVE  siteMap' # g
    BY <1>1, <2>4 DEF SetStopping, SetStarted, LoadFailed
  <2> QED
    BY <1>1, <2>1, <2>2, <2>3, <2>4, SiteChanges DEF Synchronized
<1>2. ReloadInv /\ [Next]_vars
        => [\A g \in Gens : ctx[g] = "closed" /\ siteMap # g => siteMap' # g]_vars
  BY <1>1
<1> QED
  BY <1>2, ReloadAlways, PTL DEF Spec, NeverResurrected
-----------------------------------------------------------------------------
(* The refinement.  SetStarted is GoUp, SetStopping is GoDown, by a load or  *)
(* by a stop, the step to "failed" discards a generation, the second check  *)
(* of Controller.doGet begins a request; everything else is invisible to    *)
(* the service, unless the end of a late stop takes the generation down     *)
(* that a load has brought up meanwhile.                                    *)

LEMMA FreshSame ==
  ASSUME created' = created,
         \A u \in Threads : /\ Preparing(u)' <=> Preparing(u)
                            /\ Preparing(u) => loads'[u] = loads[u]
  PROVE  FreshGenerations' = FreshGenerations
<1>1. FreshGenerations = {g \in Gens : g > created \/ \E u \in Threads : loads[u] = g /\ Preparing(u)}
  BY DEF FreshGenerations, Preparing, Gens, NoGen
<1>2. FreshGenerations' = {g \in Gens : g > created' \/ \E u \in Threads : loads'[u] = g /\ Preparing(u)'}
  BY DEF FreshGenerations, Preparing, Gens, NoGen
<1> QED
  BY <1>1, <1>2

\* The requests' steps: what the service sees of them.
LEMMA AtSame ==
  ASSUME serves' = serves,
         \A r \in Requests : (pc'[r] = "handling" \/ InOp(r)') <=> (pc[r] = "handling" \/ InOp(r))
  PROVE  HandledBy' = HandledBy
BY DEF HandledBy

\* The threads of the service's requests stay where the service sees them.
InHandler(t) == pc[t] = "handling" \/ InOp(t)

LEMMA HiddenStep ==
  ASSUME ReloadInv, UNCHANGED <<siteMap, state, created, serves>>,
         \A u \in Threads : /\ Preparing(u)' <=> Preparing(u)
                            /\ Preparing(u) => loads'[u] = loads[u],
         \A r \in Requests : InHandler(r)' <=> InHandler(r)
  PROVE  UNCHANGED Service!serviceVars
<1>1. FreshGenerations' = FreshGenerations
  BY FreshSame
<1>2. HandledBy' = HandledBy
  BY AtSame DEF InHandler
<1>3. ServingGeneration' = ServingGeneration
  BY DEF ServingGeneration
<1> QED
  BY <1>1, <1>2, <1>3 DEF Service!serviceVars

\* Whoever takes generations down does so for the service too, or unseen.
LEMMA TakesDownRefines ==
  ASSUME ReloadInv, NEW t \in Threads, TakesDown(t),
         t \in Requests => (InHandler(t)' <=> InHandler(t))
  PROVE  Service!ServiceNext \/ UNCHANGED Service!serviceVars
<1> USE DEF ReloadInv, ServingInv, TypeOK, Mapped
<1>1. \A u \in Threads : /\ Preparing(u)' <=> Preparing(u)
                         /\ Preparing(u) => loads'[u] = loads[u]
  BY DEF TakesDown, Preparing
<1>2. FreshGenerations' = FreshGenerations
  BY <1>1, FreshSame DEF TakesDown
<1>3. HandledBy' = HandledBy
  <2>1. \A r \in Requests : InHandler(r)' <=> InHandler(r)
    BY DEF TakesDown, InHandler, InOp, Threads
  <2> QED
    BY <2>1, AtSame DEF TakesDown, InHandler
<1>4. ServingGeneration' \in {ServingGeneration, NoGen}
  <2>1. siteMap' = siteMap /\ siteMap \in Gens
    BY DEF TakesDown
  <2>2. state'[siteMap] \in Up => state[siteMap] \in Up
    BY <2>1 DEF TakesDown
  <2> QED
    BY <2>1, <2>2 DEF ServingGeneration
<1>5. CASE ServingGeneration' = ServingGeneration
  BY <1>2, <1>3, <1>5 DEF Service!serviceVars
<1>6. CASE ServingGeneration' # ServingGeneration
  BY <1>2, <1>3, <1>4, <1>6 DEF Service!ServiceNext, Service!GoDown
<1> QED
  BY <1>5, <1>6

LEMMA ServiceInitHolds == Synchronized /\ Init => Service!ServiceInit
<1> SUFFICES ASSUME Synchronized, Init PROVE Service!ServiceInit
  OBVIOUS
<1> USE ConstantsAssumption, ThreadsAssumption
<1>1. siteMap = 1 /\ 1 \in Gens /\ BootedGens = {1} /\ created = 1
  BY DEF Init, Synchronized, BootedGens, Gens
<1>2. \A t \in Threads : pc[t] \in {"none", "watching", "idle"} /\ loads[t] = NoGen
  BY DEF Init, IdleStep
<1>3. ServingGeneration = 1
  BY <1>1 DEF Init, ServingGeneration, NoGen, Up
<1>4. FreshGenerations \in SUBSET (Gens \ {1})
  BY <1>1, <1>2 DEF FreshGenerations, BeforeStarted, ShutdownSteps, Gens
<1>5. HandledBy = [r \in Requests |-> NoGen]
  BY <1>2 DEF HandledBy, InOp, OpSteps, LoadSteps, ShutdownSteps, Threads
<1> QED
  BY <1>1, <1>3, <1>4, <1>5 DEF Service!ServiceInit

\* The steps of the requests.
LEMMA RequestRefines ==
  ASSUME ReloadInv, NEW r \in Requests, RequestStep(r) \/ Resolve(r) \/ Handled(r)
  PROVE  Service!ServiceNext \/ UNCHANGED Service!serviceVars
<1> USE DEF ReloadInv, ServingInv, TypeOK
<1>1. r \in Threads
  BY DEF Threads
<1>2. /\ UNCHANGED <<opVars, siteMap, state, ctx, created>>
      /\ \A u \in Threads \ {r} : pc'[u] = pc[u]
      /\ pc[r] \in RequestSteps /\ pc'[r] \in RequestSteps
      /\ \A q \in Requests \ {r} : serves'[q] = serves[q]
  BY <1>1 DEF RequestStep, Resolve, Handled, Admit, Refuse, AddRequest, Recheck,
     TurnedDown, RemoveRequest, Goto, siteVars, opVars, RequestSteps
<1>3. pc[r] \notin OpSteps /\ pc'[r] \notin OpSteps
  BY <1>2 DEF OpSteps, LoadSteps, ShutdownSteps, RequestSteps
<1>4. FreshGenerations' = FreshGenerations
  <2>1. \A u \in Threads : (Preparing(u)' <=> Preparing(u)) /\ loads'[u] = loads[u]
    BY <1>2, <1>3 DEF Preparing, BeforeStarted, OpSteps, LoadSteps, opVars
  <2> QED
    BY <1>2, <2>1, FreshSame
<1>5. ServingGeneration' = ServingGeneration
  BY <1>2 DEF ServingGeneration
<1>6. \A q \in Requests \ {r} : HandledBy'[q] = HandledBy[q]
  BY <1>2 DEF HandledBy, InOp, Threads
<1>7. CASE pc[r] # "handling" /\ pc'[r] # "handling"
  <2>1. HandledBy' = HandledBy
    BY <1>2, <1>3, <1>7 DEF HandledBy, InOp, Threads
  <2> QED
    BY <1>4, <1>5, <2>1 DEF Service!serviceVars
<1>8. CASE Handled(r)
  <2>1. pc[r] = "handling" /\ pc'[r] = "leaving" /\ serves' = serves
    BY <1>1, <1>8 DEF Handled, Goto
  <2>2. HandledBy[r] # NoGen
    BY <1>1, <2>1 DEF HandledBy, ServesInv
  <2>3. HandledBy' = [HandledBy EXCEPT ![r] = NoGen]
    BY <1>2, <1>3, <2>1 DEF HandledBy, InOp, Threads
  <2> QED
    BY <1>4, <1>5, <2>2, <2>3 DEF Service!ServiceNext, Service!EndRequest
<1>9. CASE Recheck(r) /\ pc'[r] = "handling"
  <2>1. pc[r] = "counted" /\ serves' = serves /\ state[serves[r]] \in Up /\ serves[r] \in Gens
    BY <1>1, <1>9 DEF Recheck, Goto, PassesRecheck, TurnedDown, ServesInv
  <2>2. siteMap = serves[r]
    BY <2>1 DEF RunningIsMapped
  <2>3. ServingGeneration = serves[r] /\ ServingGeneration # NoGen
    BY <2>1, <2>2 DEF ServingGeneration, Gens, NoGen
  <2>4. HandledBy[r] = NoGen
    BY <1>3, <2>1 DEF HandledBy, InOp
  <2>5. HandledBy' = [HandledBy EXCEPT ![r] = ServingGeneration]
    BY <1>2, <1>9, <2>1, <2>3 DEF HandledBy, InOp, Threads
  <2> QED
    BY <1>4, <1>5, <2>3, <2>4, <2>5 DEF Service!ServiceNext, Service!BeginRequest
<1>10. Handled(r) \/ (Recheck(r) /\ pc'[r] = "handling")
         \/ (pc[r] # "handling" /\ pc'[r] # "handling")
  BY <1>1 DEF RequestStep, Resolve, Handled, Admit, Refuse, AddRequest, Recheck,
     TurnedDown, RemoveRequest, Goto
<1> QED
  BY <1>7, <1>8, <1>9, <1>10

\* A load that begins takes the next generation, which is as fresh as before.
LEMMA NewGenerationRefines ==
  ASSUME ReloadInv, NEW t \in Threads, NewGeneration(t),
         pc[t] \in {"idle", "handling", "watching"}, t \in Requests => pc[t] = "handling",
         pc' = [pc EXCEPT ![t] = "acquire"]
  PROVE  UNCHANGED Service!serviceVars
<1> USE ConstantsAssumption DEF ReloadInv, ServingInv, TypeOK, NewGeneration
<1>1. /\ created' = created + 1 /\ loads' = [loads EXCEPT ![t] = created + 1]
      /\ UNCHANGED <<siteMap, state, serves>>
  OBVIOUS
<1>2. pc[t] \notin BeforeStarted /\ "acquire" \in BeforeStarted
  BY DEF BeforeStarted, ShutdownSteps
<1>3. FreshGenerations' = FreshGenerations
  <2>1. ASSUME NEW g \in Gens
        PROVE  (\E u \in Threads : loads'[u] = g /\ pc'[u] \in BeforeStarted)
                  <=> g = created + 1 \/ \E u \in Threads : loads[u] = g /\ pc[u] \in BeforeStarted
    BY <1>1, <1>2
  <2>2. \A g \in Gens : g > created <=> g > created + 1 \/ g = created + 1
    BY DEF Gens
  <2> QED
    BY <1>1, <2>1, <2>2 DEF FreshGenerations
<1>4. \A r \in Requests : InHandler(r)' <=> InHandler(r)
  BY DEF InHandler, InOp, OpSteps, Threads
<1>5. HandledBy' = HandledBy
  BY <1>1, <1>4, AtSame DEF InHandler
<1>6. ServingGeneration' = ServingGeneration
  BY <1>1 DEF ServingGeneration
<1> QED
  BY <1>3, <1>5, <1>6 DEF Service!serviceVars

\* The steps of a load.
LEMMA LoadRefines ==
  ASSUME Synchronized, ReloadInv, NEW t \in Threads, op[t] = "reload",
         OpStep(t) \/ FailStep(t)
  PROVE  Service!ServiceNext \/ UNCHANGED Service!serviceVars
<1> USE ThreadsAssumption DEF ReloadInv, ServingInv, TypeOK, Goto, siteVars, opVars
<1>0. Phase(t) /\ LoadPhase(t) /\ siteMap \in Gens /\ SuspendOnReload = FALSE
  BY DEF Phases, Phase, Mapped, Synchronized
<1>a. ASSUME pc[t] \in BeforeStarted \cup {"started", "failed", "aborted"}
      PROVE  loads[t] \in Gens
  BY <1>0, <1>a DEF LoadPhase
<1> USE DEF OpSteps, LoadSteps, ShutdownSteps, BeforeStarted
\* What the service does not see of a step that moves only t.
<1>b. ASSUME UNCHANGED <<created, serves, loads>>,
             \A u \in Threads \ {t} : pc'[u] = pc[u],
             pc[t] \in OpSteps, pc'[t] \in OpSteps
      PROVE  /\ HandledBy' = HandledBy
             /\ (pc'[t] \in BeforeStarted <=> pc[t] \in BeforeStarted)
                   => FreshGenerations' = FreshGenerations
  <2>1. HandledBy' = HandledBy
    BY <1>b, AtSame DEF InOp, Threads
  <2>2. ASSUME pc'[t] \in BeforeStarted <=> pc[t] \in BeforeStarted
        PROVE  FreshGenerations' = FreshGenerations
    <3>1. \A u \in Threads : (Preparing(u)' <=> Preparing(u)) /\ loads'[u] = loads[u]
      BY <1>b, <2>2 DEF Preparing
    <3> QED
      BY <1>b, <3>1, FreshSame
  <2> QED
    BY <2>1, <2>2
\* Leaving the steps before STARTED takes the generation of t off the fresh ones.
<1>c. ASSUME UNCHANGED <<created, serves, loads>>,
             \A u \in Threads \ {t} : pc'[u] = pc[u],
             pc[t] \in BeforeStarted, pc'[t] \notin BeforeStarted
      PROVE  /\ loads[t] \in FreshGenerations
             /\ FreshGenerations' = FreshGenerations \ {loads[t]}
  <2>1. loads[t] \in Gens /\ loads[t] <= created
    BY <1>a, <1>c DEF Created
  <2>2. \A u \in Threads \ {t} : loads[u] # loads[t]
    BY <2>1 DEF OneLoader, Gens, NoGen
  <2>3. loads[t] \in FreshGenerations
    BY <1>c, <2>1 DEF FreshGenerations
  <2>4. ~(loads[t] > created)
    BY <2>1, ConstantsAssumption DEF Gens
  <2> QED
    BY <1>c, <2>2, <2>3, <2>4 DEF FreshGenerations
<1>d. ASSUME UNCHANGED <<siteMap, state, created, serves, loads>>,
             \A u \in Threads \ {t} : pc'[u] = pc[u],
             pc[t] \in OpSteps, pc'[t] \in OpSteps,
             pc'[t] \in BeforeStarted <=> pc[t] \in BeforeStarted
      PROVE  UNCHANGED Service!serviceVars
  BY <1>b, <1>d DEF Service!serviceVars, ServingGeneration
<1>e. ASSUME UNCHANGED <<siteMap, state, created, serves, loads>>,
             \A u \in Threads \ {t} : pc'[u] = pc[u],
             pc[t] \in BeforeStarted, pc'[t] = "failed"
      PROVE  Service!ServiceNext
  <2>1. HandledBy' = HandledBy /\ ServingGeneration' = ServingGeneration
    BY <1>b, <1>e DEF ServingGeneration
  <2>2. loads[t] \in Gens
    BY <1>a, <1>e
  <2> QED
    BY <1>c, <1>e, <2>1, <2>2 DEF Service!ServiceNext, Service!Discard
<1>1. CASE Acquire(t) \/ BeginLoad(t) \/ ShutDownSite(t) \/ WaitForRequests(t)
             \/ DoneWaiting(t) \/ OpenContext(t) \/ Publish(t) \/ FailStarted(t)
  <2>1. /\ UNCHANGED <<siteMap, state, created, serves, loads>>
        /\ \A u \in Threads \ {t} : pc'[u] = pc[u]
        /\ pc[t] \in OpSteps /\ pc'[t] \in OpSteps
        /\ pc'[t] \in BeforeStarted <=> pc[t] \in BeforeStarted
    <3>1. CASE BeginLoad(t)
      BY <1>0, <3>1 DEF BeginLoad, Gens, NoGen
    <3>2. CASE ShutDownSite(t)
      BY <1>0, <3>2 DEF ShutDownSite, Gens, NoGen
    <3>3. CASE Acquire(t)
      BY <3>3 DEF Acquire
    <3>4. CASE WaitForRequests(t)
      BY <3>4 DEF WaitForRequests
    <3>5. CASE DoneWaiting(t)
      BY <3>5 DEF DoneWaiting, TearDown
    <3>6. CASE OpenContext(t)
      BY <3>6 DEF OpenContext
    <3>7. CASE Publish(t) \/ FailStarted(t)
      BY <1>0, <3>7 DEF Publish, FailStarted, LoadPhase
    <3> QED
      BY <1>1, <3>1, <3>2, <3>3, <3>4, <3>5, <3>6, <3>7
  <2> QED
    BY <1>d, <2>1
<1>2. CASE SuspendSleep(t) \/ DrainSleep(t) \/ Drained(t) \/ CleanupSite(t)
  BY <1>0, <1>2 DEF SuspendSleep, DrainSleep, Drained, CleanupSite, Phase
<1>3. CASE SetStopping(t)
  <2>1. /\ pc[t] = "stopping" /\ pc'[t] = "closing"
        /\ state' = [state EXCEPT ![siteMap] = "STOPPING"]
        /\ UNCHANGED <<siteMap, created, serves, loads>>
        /\ \A u \in Threads \ {t} : pc'[u] = pc[u]
    BY <1>0, <1>3 DEF SetStopping, SetState, LoadPhase
  <2>2. HandledBy' = HandledBy /\ FreshGenerations' = FreshGenerations
    BY <1>b, <2>1
  <2>3. ServingGeneration' = NoGen
    BY <1>0, <2>1 DEF ServingGeneration, Up
  <2> QED
    BY <2>2, <2>3 DEF Service!ServiceNext, Service!GoDown, Service!serviceVars
<1>4. CASE CloseContext(t)
  <2>1. /\ UNCHANGED <<siteMap, state, created, serves, loads>>
        /\ \A u \in Threads \ {t} : pc'[u] = pc[u]
        /\ pc[t] = "closing" /\ pc'[t] \in {"rest", "failed"}
    BY <1>0, <1>4 DEF CloseContext, OnException
  <2> QED
    BY <1>d, <1>e, <2>1
<1>5. CASE FailLoad(t) \/ FailShutdown(t)
  <2>1. /\ UNCHANGED <<siteMap, state, created, serves, loads>>
        /\ \A u \in Threads \ {t} : pc'[u] = pc[u]
        /\ pc[t] \in {"init", "loading", "opened", "threads", "closing"} /\ pc'[t] = "failed"
    BY <1>0, <1>5 DEF FailLoad, FailShutdown, OnException
  <2> QED
    BY <1>e, <2>1
<1>6. CASE ComeToRest(t) \/ InitSite(t) \/ (LoadFailed(t) /\ pc[t] = "failed")
  <2>1. /\ UNCHANGED <<created, serves, loads>>
        /\ \A u \in Threads \ {t} : pc'[u] = pc[u]
        /\ pc[t] \in {"rest", "init", "failed"} /\ pc'[t] \in {"init", "loading", "release"}
        /\ pc'[t] \in BeforeStarted <=> pc[t] \in BeforeStarted
    BY <1>0, <1>6 DEF ComeToRest, AfterRest, AfterShutdown, InitSite, LoadFailed
  <2>2. HandledBy' = HandledBy /\ FreshGenerations' = FreshGenerations
    BY <1>b, <2>1
  <2>3. ServingGeneration = NoGen
    BY <1>0, <2>1 DEF LoadPhase, DownSteps, ServingGeneration
  <2>4. ServingGeneration' = NoGen
    <3>1. CASE ComeToRest(t)
      BY <1>0, <3>1 DEF ComeToRest, SetState, LoadPhase, ServingGeneration, Up
    <3>2. CASE InitSite(t)
      BY <1>a, <3>2 DEF InitSite, SetState, ServingGeneration, Up
    <3>3. CASE LoadFailed(t) /\ pc[t] = "failed"
      <4>1. state[siteMap] \notin Up /\ loads[t] \in Gens
        BY <1>0, <1>a, <3>3 DEF LoadFailed, LoadPhase, DownSteps
      <4> QED
        BY <1>0, <3>3, <4>1 DEF LoadFailed, SetState, ServingGeneration, Up
    <3> QED
      BY <1>6, <3>1, <3>2, <3>3
  <2> QED
    BY <2>2, <2>3, <2>4 DEF Service!serviceVars
<1>7. CASE StartWatcher(t)
  <2>1. pc[t] = "opened" /\ loads[t] \in Gens
    BY <1>7, <1>a DEF StartWatcher
  <2>2. pc[loads[t]] = "none" /\ loads[t] # t
    <3>1. Preparing(t)
      BY <2>1 DEF Preparing, Gens, NoGen
    <3> QED
      BY <2>1, <3>1 DEF Untouched
  <2>3. /\ pc'[t] = "threads" /\ pc'[loads[t]] \in {"none", "watching"}
        /\ \A u \in Threads \ {t, loads[t]} : pc'[u] = pc[u]
        /\ UNCHANGED <<siteMap, state, created, serves, loads>>
    BY <1>7, <2>1, <2>2 DEF StartWatcher, Threads
  <2>4. \A u \in Threads : (Preparing(u)' <=> Preparing(u)) /\ loads'[u] = loads[u]
    BY <2>1, <2>2, <2>3 DEF Preparing
  <2>5. \A r \in Requests : InHandler(r)' <=> InHandler(r)
    BY <2>1, <2>3 DEF InHandler, InOp, Threads
  <2> QED
    BY <2>3, <2>4, <2>5, HiddenStep
<1>8. CASE SetStarted(t)
  <2>1. /\ pc[t] = "threads" /\ pc'[t] = "started" /\ siteMap = loads[t]
        /\ state' = [state EXCEPT ![siteMap] = "STARTED"]
        /\ UNCHANGED <<siteMap, created, serves, loads>>
        /\ \A u \in Threads \ {t} : pc'[u] = pc[u]
    BY <1>0, <1>8 DEF SetStarted, SetState, LoadPhase
  <2>2. HandledBy' = HandledBy
    BY <1>b, <2>1
  <2>3. loads[t] \in FreshGenerations /\ FreshGenerations' = FreshGenerations \ {loads[t]}
    BY <1>c, <2>1
  <2>4. ServingGeneration = NoGen
    BY <1>0, <2>1 DEF LoadPhase, DownSteps, ServingGeneration
  <2>5. ServingGeneration' = loads[t]
    BY <1>0, <2>1 DEF ServingGeneration, Up, Gens, NoGen
  <2> QED
    BY <1>0, <2>1, <2>2, <2>3, <2>4, <2>5 DEF Service!ServiceNext, Service!GoUp
\* The generation that fails after it was STARTED goes down, if it is still up.
<1>9. CASE LoadFailed(t) /\ pc[t] = "aborted"
  <2>1. /\ UNCHANGED <<siteMap, created, serves, loads>>
        /\ \A u \in Threads \ {t} : pc'[u] = pc[u]
        /\ pc'[t] = "release" /\ siteMap = loads[t]
        /\ state' = [state EXCEPT ![siteMap] = "INACTIVE"]
    BY <1>0, <1>9 DEF LoadFailed, SetState, LoadPhase
  <2>2. HandledBy' = HandledBy /\ FreshGenerations' = FreshGenerations
    BY <1>b, <1>9, <2>1
  <2>3. ServingGeneration' = NoGen
    BY <1>0, <2>1 DEF ServingGeneration, Up
  <2> QED
    BY <2>2, <2>3 DEF Service!ServiceNext, Service!GoDown, Service!serviceVars
<1>10. CASE Release(t)
  <2>1. /\ pc[t] = "release" /\ pc'[t] = AfterOp(t) /\ loads'[t] = NoGen
        /\ UNCHANGED <<siteMap, state, created, serves>>
        /\ \A u \in Threads \ {t} : pc'[u] = pc[u] /\ loads'[u] = loads[u]
    BY <1>10 DEF Release
  <2>2. \A u \in Threads : /\ Preparing(u)' <=> Preparing(u)
                           /\ Preparing(u) => loads'[u] = loads[u]
    BY <2>1 DEF Preparing
  <2>3. t \in Requests => pc'[t] = "handling"
    BY <2>1 DEF AfterOp
  <2>4. \A r \in Requests : InHandler(r)' <=> InHandler(r)
    BY <2>1, <2>3 DEF InHandler, InOp, Threads
  <2> QED
    BY <2>1, <2>2, <2>4, HiddenStep
<1> QED
  BY <1>1, <1>2, <1>3, <1>4, <1>5, <1>6, <1>7, <1>8, <1>9, <1>10 DEF OpStep, TearDownStep,
     BringUpStep, FailStep, LoadFailed

LEMMA ServiceNextHolds ==
  ASSUME Synchronized, ReloadInv, [Next]_vars
  PROVE  [Service!ServiceNext]_(Service!serviceVars)
<1> USE DEF ReloadInv, ServingInv, TypeOK
<1>1. CASE UNCHANGED vars
  BY <1>1 DEF vars, Service!serviceVars, ServingGeneration, FreshGenerations, HandledBy, InOp
<1>2. ASSUME NEW g \in Gens, WatcherInterrupted(g) PROVE UNCHANGED Service!serviceVars
  <2>1. /\ pc[g] = "watching" /\ pc'[g] = "ended" /\ UNCHANGED <<siteVars, opVars, serves>>
        /\ \A u \in Threads \ {g} : pc'[u] = pc[u]
    BY <1>2 DEF WatcherInterrupted, Goto, Threads
  <2>2. \A u \in Threads : (Preparing(u)' <=> Preparing(u)) /\ loads'[u] = loads[u]
    BY <2>1 DEF Preparing, BeforeStarted, ShutdownSteps, opVars
  <2>3. \A r \in Requests : InHandler(r)' <=> InHandler(r)
    BY <2>1, ThreadsAssumption DEF InHandler, InOp, Threads
  <2> QED
    BY <2>1, <2>2, <2>3, HiddenStep DEF siteVars, opVars
<1>3. CASE Trigger
  <2>1. ASSUME NEW r \in Requests, ReloadFromRequest(r) PROVE UNCHANGED Service!serviceVars
    BY <2>1, NewGenerationRefines DEF ReloadFromRequest, Goto, Threads
  <2>2. ASSUME NEW e \in Events, ReloadEvent(e) PROVE UNCHANGED Service!serviceVars
    BY <2>2, NewGenerationRefines, ThreadsAssumption DEF ReloadEvent, Goto, Threads
  <2>3. ASSUME NEW g \in Gens, WatcherFires(g) PROVE UNCHANGED Service!serviceVars
    BY <2>3, NewGenerationRefines, ThreadsAssumption DEF WatcherFires, Goto, Threads
  <2>4. ASSUME NEW w \in Workers, LoadUnsynchronized(w) PROVE FALSE
    <3>1. siteMap \in Gens /\ siteMap <= created
      BY DEF Mapped, Created
    <3> QED
      BY <2>4, <3>1, ConstantsAssumption DEF LoadUnsynchronized, Synchronized, Gens
  <2>5. ASSUME NEW e \in Events, ShutdownEvent(e)
        PROVE  Service!ServiceNext \/ UNCHANGED Service!serviceVars
    BY <2>5, StopBegins, TakesDownRefines, ThreadsAssumption
  <2> QED
    BY <1>3, <2>1, <2>2, <2>3, <2>4, <2>5, RequestRefines DEF Trigger
<1>4. ASSUME NEW r \in Requests, RequestStep(r) \/ Handled(r)
      PROVE  Service!ServiceNext \/ UNCHANGED Service!serviceVars
  BY <1>4, RequestRefines
<1>5. ASSUME NEW t \in Threads, OpStep(t) \/ FailStep(t)
      PROVE  Service!ServiceNext \/ UNCHANGED Service!serviceVars
  <2>1. op[t] \in {"reload", "stop"}
    BY DEF Phases, Phase
  <2>2. ASSUME op[t] = "stop"
        PROVE  TakesDown(t) /\ (t \in Requests => (InHandler(t)' <=> InHandler(t)))
    BY <1>5, <2>2, StopTakesDown DEF InHandler, InOp, AfterOp
  <2> QED
    BY <1>5, <2>1, <2>2, LoadRefines, TakesDownRefines
<1> QED
  BY <1>1, <1>2, <1>3, <1>4, <1>5 DEF Next

\* ImplementsService, for any number of request, event and watcher threads:
\* synchronized reloads and stops between them replace the generation that
\* serves by one step down and one up, each generation goes up at most once,
\* and no request is begun by another generation than the one that serves.
THEOREM ServiceIsImplemented == ASSUME Synchronized PROVE Spec => ImplementsService
<1>1. Init => Service!ServiceInit
  BY ServiceInitHolds
<1>2. ReloadInv /\ [Next]_vars => [Service!ServiceNext]_(Service!serviceVars)
  BY ServiceNextHolds
<1> QED
  BY <1>1, <1>2, ReloadAlways, PTL DEF Spec, ImplementsService, Service!ServiceSpec
=============================================================================
