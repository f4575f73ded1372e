----------------------- MODULE SiteLifecycleProofs -----------------------
(***************************************************************************)
(* Proofs about SiteLifecycle, for any number of threads and generations:  *)
(* its type invariant, and that a node which does not suspend sites on     *)
(* reload never lets a request into a generation whose application         *)
(* contexts are closed, however loads, stops and deletions interleave.     *)
(***************************************************************************)
EXTENDS SiteLifecycle, FiniteSetTheorems, TLAPS

\* The initial values of SiteImpl, the site map and the thread pools.
LEMMA InitTyped == Init => TypeOK
BY ConstantsAssumption, ThreadsAssumption
   DEF Init, TypeOK, BootedGens, IdleStep, Gens, NoGen, Threads, Steps,
       RequestSteps, WatcherSteps, SiteStates, Ops

\* Every step of the loaders, the shutdowns and the requests keeps the types.
LEMMA NextTyped == TypeOK /\ [Next]_vars => TypeOK'
<1> SUFFICES ASSUME TypeOK, [Next]_vars PROVE TypeOK'
  OBVIOUS
<1> USE ConstantsAssumption DEF TypeOK, siteVars, opVars
<1> USE DEF Steps, RequestSteps, WatcherSteps, OpSteps, LoadSteps, ShutdownSteps
<1>1. ASSUME NEW r \in Requests, RequestStep(r) \/ Resolve(r) \/ Handled(r)
      PROVE  TypeOK'
  <2> r \in Threads
    BY DEF Threads
  <2> QED
    BY <1>1 DEF RequestStep, Resolve, Admit, Refuse, AddRequest, Recheck,
         TurnedDown, RemoveRequest, Handled, Goto, NoGen
<1>2. ASSUME NEW t \in Threads, NewGeneration(t), op' = [op EXCEPT ![t] = "reload"],
             \E from, to \in Steps : Goto(t, from, to)
      PROVE  TypeOK'
  BY <1>2 DEF NewGeneration, Goto, Gens, Ops
<1>3. ASSUME NEW e \in Events, ShutdownEvent(e)
      PROVE  TypeOK'
  <2> e \in Threads
    BY DEF Threads
  <2> QED
    BY <1>3 DEF ShutdownEvent, Goto
<1>4. CASE Trigger
  <2>1. ASSUME NEW r \in Requests, ReloadFromRequest(r) PROVE TypeOK'
    BY <2>1, <1>2 DEF ReloadFromRequest, Threads
  <2>2. ASSUME NEW e \in Events, ReloadEvent(e) PROVE TypeOK'
    BY <2>2, <1>2 DEF ReloadEvent, Threads
  <2>3. ASSUME NEW w \in Workers, LoadUnsynchronized(w) PROVE TypeOK'
    BY <2>3, <1>2 DEF LoadUnsynchronized, Threads
  <2>4. ASSUME NEW g \in Gens, WatcherFires(g) PROVE TypeOK'
    BY <2>4, <1>2 DEF WatcherFires, Threads
  <2> QED
    BY <1>4, <2>1, <2>2, <2>3, <2>4, <1>1, <1>3 DEF Trigger
<1>5. ASSUME NEW g \in Gens, WatcherInterrupted(g)
      PROVE  TypeOK'
  BY <1>5 DEF WatcherInterrupted, Goto, Threads
<1>6. ASSUME NEW t \in Threads, TearDownStep(t)
      PROVE  TypeOK'
  <2> USE DEF SetState, Goto, SiteStates
  <2>1. CASE BeginLoad(t)
    BY <2>1 DEF BeginLoad
  <2>2. CASE SuspendSleep(t) \/ DrainSleep(t) \/ Drained(t)
    BY <2>2 DEF SuspendSleep, DrainSleep, Drained
  <2>3. CASE ShutDownSite(t)
    BY <2>3 DEF ShutDownSite, AfterShutdown, LiveWatchers, Threads
  <2>4. CASE WaitForRequests(t) \/ DoneWaiting(t) \/ SetStopping(t)
    BY <2>4 DEF WaitForRequests, DoneWaiting, TearDown, SetStopping
  <2>5. CASE CloseContext(t)
    BY <2>5 DEF CloseContext, OnException
  <2>6. CASE ComeToRest(t) \/ CleanupSite(t)
    BY <2>6 DEF ComeToRest, CleanupSite, AfterRest, AfterShutdown
  <2> QED
    BY <1>6, <2>1, <2>2, <2>3, <2>4, <2>5, <2>6 DEF TearDownStep
<1>7. ASSUME NEW t \in Threads, BringUpStep(t) \/ Acquire(t) \/ FailStep(t)
      PROVE  TypeOK'
  <2> USE DEF SetState, Goto, SiteStates
  <2>1. CASE InitSite(t) \/ OpenContext(t) \/ SetStarted(t)
    BY <2>1 DEF InitSite, OpenContext, SetStarted
  <2>2. CASE StartWatcher(t)
    BY <2>2 DEF StartWatcher
  <2>3. CASE Publish(t) \/ LoadFailed(t) \/ Acquire(t) \/ FailStep(t)
    BY <2>3 DEF Publish, LoadFailed, Acquire, FailStep, FailLoad, FailStarted, FailShutdown,
       OnException
  <2> QED
    BY <1>7, <2>1, <2>2, <2>3 DEF BringUpStep
<1>8. ASSUME NEW t \in Threads, Release(t)
      PROVE  TypeOK'
  <2>1. AfterOp(t) \in Steps
    BY DEF AfterOp
  <2> QED
    BY <1>8, <2>1 DEF Release, Goto, MonitorAfter, Ops, NoGen
<1>9. CASE UNCHANGED vars
  BY <1>9 DEF vars
<1> QED
  BY <1>1, <1>4, <1>5, <1>6, <1>7, <1>8, <1>9 DEF Next, OpStep

\* SiteLifecycle's type invariant: every action keeps each variable in its
\* range, in particular generations within the bound and states the code has.
THEOREM Typing == Spec => []TypeOK
BY InitTyped, NextTyped, PTL DEF Spec

-----------------------------------------------------------------------------
(***************************************************************************)
(* UpImpliesOpen is not inductive: SetStarted needs to know that the       *)
(* contexts of the generation it starts are still open, and CloseContext   *)
(* that the generation it closes is not up.  Both follow from the          *)
(* generation a thread is loading being nobody else's business until it is *)
(* STARTED: no other thread loads it, and no thread tears it down.         *)
(***************************************************************************)

LoaderSteps == {"acquire", "begin", "suspending", "draining", "init",
                "loading", "opened", "threads"}

\* Thread t has a generation to start and has not started it yet.
Starting(t) ==
  /\ loads[t] # NoGen
  /\ \/ pc[t] \in LoaderSteps
     \/ pc[t] \in ShutdownSteps /\ op[t] = "reload"

\* Every generation in use was created.
Created ==
  /\ siteMap <= created
  /\ \A t \in Threads : loads[t] <= created /\ target[t] <= created

OneLoader ==
  \A s, t \in Threads : loads[s] = loads[t] /\ s # t => loads[s] = NoGen

StartingNotUp == \A t \in Threads : Starting(t) => state[loads[t]] \notin Up

OpenedIsOpen ==
  \A t \in Threads :
     loads[t] # NoGen /\ pc[t] \in {"opened", "threads"} => ctx[loads[t]] = "open"

TearsDownOthers ==
  \A s, t \in Threads :
     pc[s] \in {"stopping", "closing"} /\ Starting(t) => loads[t] # target[s]

ClosingNotUp ==
  \A t \in Threads :
     pc[t] = "closing" /\ target[t] # NoGen => state[target[t]] \notin Up

UpIsCreated == \A g \in Gens : state[g] \in Up => g <= created

ServingInv ==
  /\ TypeOK /\ Created /\ OneLoader /\ StartingNotUp /\ OpenedIsOpen
  /\ TearsDownOthers /\ ClosingNotUp /\ UpIsCreated /\ UpImpliesOpen

\* Most steps neither open or close a context nor start a generation: they
\* may take generations down, drop local variables and leave loading steps.
LEMMA OrdinaryStep ==
  ASSUME ServingInv, TypeOK',
         NEW t \in Threads,
         UNCHANGED <<ctx, created>>,
         siteMap' \in {NoGen, siteMap, loads[t]},
         \A g \in Gens : state'[g] \in Up => state[g] \in Up,
         \A u \in Threads \ {t} : /\ pc'[u] = pc[u] /\ op'[u] = op[u]
                                  /\ loads'[u] = loads[u] /\ target'[u] = target[u],
         loads'[t] \in {loads[t], NoGen},
         target'[t] \in {target[t], NoGen, siteMap},
         pc'[t] \notin {"opened", "threads", "stopping"},
         pc'[t] = "closing" => /\ pc[t] = "stopping" /\ target'[t] = target[t]
                               /\ target[t] # NoGen => state'[target[t]] \notin Up,
         Starting(t)' => Starting(t)
  PROVE  ServingInv'
<1> USE ConstantsAssumption DEF ServingInv, TypeOK
<1>1. Created'
  <2>1. created >= 0 /\ siteMap <= created
    BY DEF Created
  <2>2. ASSUME NEW u \in Threads
        PROVE  loads'[u] <= created /\ target'[u] <= created
    <3>1. loads[u] <= created /\ target[u] <= created
      BY DEF Created
    <3>2. target'[u] \in {target[u], NoGen, siteMap} /\ loads'[u] \in {loads[u], NoGen}
      OBVIOUS
    <3> QED
      BY <2>1, <3>1, <3>2 DEF NoGen
  <2>3. siteMap' <= created
    BY <2>1, loads[t] <= created DEF Created, NoGen
  <2> QED
    BY <2>2, <2>3 DEF Created
<1>2. OneLoader'
  BY DEF OneLoader
<1>3. UpIsCreated' /\ UpImpliesOpen'
  BY DEF UpIsCreated, UpImpliesOpen
<1>4. \A u \in Threads : Starting(u)' => Starting(u) /\ loads'[u] = loads[u]
  BY DEF Starting
<1>5. StartingNotUp'
  <2> SUFFICES ASSUME NEW u \in Threads, Starting(u)' PROVE state'[loads'[u]] \notin Up
    BY DEF StartingNotUp
  <2>1. Starting(u) /\ loads'[u] = loads[u]
    BY <1>4
  <2>2. loads[u] \in Gens
    BY <2>1 DEF Starting
  <2>3. state[loads[u]] \notin Up
    BY <2>1 DEF StartingNotUp
  <2> QED
    BY <2>1, <2>2, <2>3
<1>6. OpenedIsOpen'
  BY DEF OpenedIsOpen
<1>7. ClosingNotUp'
  <2> SUFFICES ASSUME NEW u \in Threads, pc'[u] = "closing", target'[u] # NoGen
               PROVE  state'[target'[u]] \notin Up
    BY DEF ClosingNotUp
  <2>1. CASE u = t
    BY <2>1
  <2>2. CASE u # t
    <3>1. pc[u] = "closing" /\ target'[u] = target[u] /\ target[u] \in Gens
      BY <2>2
    <3>2. state[target[u]] \notin Up
      BY <3>1 DEF ClosingNotUp
    <3> QED
      BY <3>1, <3>2
  <2> QED
    BY <2>1, <2>2
<1>8. TearsDownOthers'
  BY <1>4 DEF TearsDownOthers
<1> QED
  BY <1>1, <1>2, <1>3, <1>5, <1>6, <1>7, <1>8

\* A thread that begins a load gets a generation nobody has seen.
LEMMA NewGenerationStep ==
  ASSUME ServingInv, TypeOK',
         NEW t \in Threads, NewGeneration(t),
         pc[t] \in {"idle", "handling", "watching"},
         \E to \in {"acquire", "begin"} : pc' = [pc EXCEPT ![t] = to],
         op' = [op EXCEPT ![t] = "reload"]
  PROVE  ServingInv'
<1> USE ConstantsAssumption DEF ServingInv, TypeOK, NewGeneration
<1>1. created + 1 \in Gens /\ created + 1 # NoGen
  BY DEF Gens, NoGen
<1>2. Created' /\ UpIsCreated' /\ UpImpliesOpen'
  <2>1. Created'
    <3>1. siteMap <= created + 1
      BY DEF Created, NoGen, Gens
    <3>2. ASSUME NEW u \in Threads
          PROVE  loads'[u] <= created + 1 /\ target[u] <= created + 1
      <4>1. loads[u] <= created /\ target[u] <= created
        BY DEF Created
      <4> QED
        BY <4>1 DEF NoGen, Gens
    <3> QED
      BY <3>1, <3>2 DEF Created
  <2>2. UpIsCreated'
    BY DEF UpIsCreated, Gens
  <2>3. UpImpliesOpen'
    BY DEF UpImpliesOpen
  <2> QED
    BY <2>1, <2>2, <2>3
<1>3. \A u \in Threads \ {t} : /\ Starting(u)' <=> Starting(u)
                               /\ loads'[u] = loads[u] /\ pc'[u] = pc[u]
  BY DEF Starting
<1>4. loads'[t] = created + 1
  OBVIOUS
<1>5. OneLoader'
  BY <1>1, <1>3, <1>4 DEF OneLoader, Created, NoGen, Gens
<1>6. state[created + 1] \notin Up
  BY <1>1 DEF UpIsCreated, Gens
<1>7. StartingNotUp'
  BY <1>3, <1>4, <1>6 DEF StartingNotUp
<1>8. OpenedIsOpen' /\ ClosingNotUp'
  BY <1>3 DEF OpenedIsOpen, ClosingNotUp
<1>9. TearsDownOthers'
  BY <1>1, <1>3, <1>4 DEF TearsDownOthers, Created, NoGen, Gens
<1> QED
  BY <1>2, <1>5, <1>7, <1>8, <1>9

\* Controller.doGet touches no state of the site but the request counter.
LEMMA RequestKeepsServing ==
  ASSUME ServingInv, TypeOK', NEW r \in Requests,
         RequestStep(r) \/ Resolve(r) \/ Handled(r)
  PROVE  ServingInv'
<1>1. r \in Threads
  BY DEF Threads
<1>2. /\ UNCHANGED <<siteVars, opVars>> \/ /\ UNCHANGED opVars
                                           /\ UNCHANGED <<siteMap, state, ctx, created>>
      /\ pc'[r] \in RequestSteps
      /\ \A u \in Threads \ {r} : pc'[u] = pc[u]
  BY <1>1 DEF RequestStep, Resolve, Handled, Admit, Refuse, AddRequest, Recheck,
     TurnedDown, RemoveRequest, Goto, siteVars, opVars, ServingInv, TypeOK,
     RequestSteps
<1>3. pc'[r] \notin LoaderSteps \cup ShutdownSteps
  BY <1>2 DEF RequestSteps, LoaderSteps, ShutdownSteps
<1>4. ~Starting(r)'
  BY <1>3 DEF Starting
<1> QED
  BY <1>1, <1>2, <1>3, <1>4, OrdinaryStep DEF siteVars, opVars, LoaderSteps,
     ShutdownSteps

\* Whoever triggers an operation either creates a generation or enters
\* shutDownSite without one.
LEMMA TriggerKeepsServing ==
  ASSUME ServingInv, TypeOK', Trigger
  PROVE  ServingInv'
<1> USE DEF Threads, Goto
<1>1. ASSUME NEW r \in Requests, ReloadFromRequest(r) PROVE ServingInv'
  BY <1>1, NewGenerationStep DEF ReloadFromRequest
<1>2. ASSUME NEW e \in Events, ReloadEvent(e) PROVE ServingInv'
  BY <1>2, NewGenerationStep DEF ReloadEvent
<1>3. ASSUME NEW w \in Workers, LoadUnsynchronized(w) PROVE ServingInv'
  BY <1>3, NewGenerationStep DEF LoadUnsynchronized
<1>4. ASSUME NEW g \in Gens, WatcherFires(g) PROVE ServingInv'
  BY <1>4, NewGenerationStep DEF WatcherFires
<1>5. ASSUME NEW e \in Events, ShutdownEvent(e) PROVE ServingInv'
  <2>1. pc'[e] = "shutdown" /\ op'[e] # "reload"
    BY <1>5 DEF ShutdownEvent, ServingInv, TypeOK
  <2>2. ~Starting(e)'
    BY <2>1 DEF Starting, LoaderSteps
  <2> QED
    BY <1>5, <2>1, <2>2, OrdinaryStep DEF ShutdownEvent, siteVars, ServingInv, TypeOK
<1> QED
  BY <1>1, <1>2, <1>3, <1>4, <1>5, RequestKeepsServing DEF Trigger

\* The steps of a shutdown: only DoneWaiting and CloseContext are special.
LEMMA TearDownKeepsServing ==
  ASSUME SuspendOnReload = FALSE, ServingInv, TypeOK',
         NEW t \in Threads, TearDownStep(t)
  PROVE  ServingInv'
<1> USE DEF ServingInv, TypeOK, siteVars, opVars, Goto
<1>1. CASE BeginLoad(t)
  <2>1. pc'[t] \in {"init", "shutdown"} /\ (Starting(t)' => Starting(t))
    BY <1>1 DEF BeginLoad, Starting, LoaderSteps
  <2> QED
    BY <1>1, <2>1, OrdinaryStep DEF BeginLoad
<1>2. CASE SuspendSleep(t) \/ DrainSleep(t) \/ Drained(t)
  <2>1. /\ pc'[t] \in {"failed", "draining", "shutdown"}
        /\ Starting(t)' => Starting(t)
    BY <1>2 DEF SuspendSleep, DrainSleep, Drained, Starting, LoaderSteps
  <2> QED
    BY <1>2, <2>1, OrdinaryStep DEF SuspendSleep, DrainSleep, Drained
<1>3. CASE ShutDownSite(t)
  <2>1. /\ pc'[t] \in {"init", "wait", "release"}
        /\ Starting(t)' => Starting(t)
    BY <1>3 DEF ShutDownSite, AfterShutdown, Starting, LoaderSteps, ShutdownSteps
  <2> QED
    BY <1>3, <2>1, OrdinaryStep DEF ShutDownSite
<1>4. CASE WaitForRequests(t)
  <2>1. pc'[t] = "wait" /\ (Starting(t)' => Starting(t))
    BY <1>4 DEF WaitForRequests, Starting
  <2> QED
    BY <1>4, <2>1, OrdinaryStep DEF WaitForRequests
<1>5. CASE SetStopping(t)
  <2>1. /\ pc[t] = "stopping" /\ pc'[t] = "closing"
        /\ Starting(t)' => Starting(t)
    BY <1>5 DEF SetStopping, Starting, ShutdownSteps, LoaderSteps
  <2>2. \A g \in Gens : state'[g] \in Up => state[g] \in Up
    BY <1>5 DEF SetStopping, SetState, Up
  <2>3. target[t] \in Gens => state'[target[t]] \notin Up
    BY <1>5 DEF SetStopping, SetState, Up
  <2> QED
    BY <1>5, <2>1, <2>2, <2>3, OrdinaryStep DEF SetStopping
<1>6. CASE ComeToRest(t) \/ CleanupSite(t)
  <2>1. /\ pc'[t] \in {"init", "cleanup", "release"}
        /\ Starting(t)' => Starting(t)
    BY <1>6 DEF ComeToRest, CleanupSite, AfterRest, AfterShutdown, Starting,
       ShutdownSteps, LoaderSteps
  <2>2. \A g \in Gens : state'[g] \in Up => state[g] \in Up
    BY <1>6 DEF ComeToRest, CleanupSite, SetState, Up
  <2> QED
    BY <1>6, <2>1, <2>2, OrdinaryStep DEF ComeToRest, CleanupSite
<1>7. CASE DoneWaiting(t)
  <2>1. CASE pc'[t] # "stopping"
    <3>1. pc'[t] = "rest" /\ (Starting(t)' => Starting(t))
      BY <1>7, <2>1 DEF DoneWaiting, TearDown, Starting, ShutdownSteps, LoaderSteps
    <3> QED
      BY <1>7, <3>1, OrdinaryStep DEF DoneWaiting
  <2>2. CASE pc'[t] = "stopping"
    <3>1. state[target[t]] \in Up /\ pc[t] = "wait"
      BY <1>7, <2>2 DEF DoneWaiting, TearDown
    <3>2. \A u \in Threads : Starting(u)' => Starting(u)
      BY <1>7, <3>1 DEF DoneWaiting, TearDown, Starting, ShutdownSteps, LoaderSteps
    <3>3. \A u \in Threads : Starting(u) => loads[u] # target[t]
      BY <3>1 DEF StartingNotUp
    <3>4. TearsDownOthers'
      BY <1>7, <2>2, <3>2, <3>3 DEF DoneWaiting, TearsDownOthers
    <3>5. StartingNotUp'
      BY <1>7, <3>2 DEF DoneWaiting, StartingNotUp
    <3>6. OpenedIsOpen' /\ ClosingNotUp'
      BY <1>7, <2>2 DEF DoneWaiting, OpenedIsOpen, ClosingNotUp
    <3>7. Created' /\ OneLoader' /\ UpIsCreated' /\ UpImpliesOpen'
      BY <1>7 DEF DoneWaiting, Created, OneLoader, UpIsCreated, UpImpliesOpen
    <3> QED
      BY <3>4, <3>5, <3>6, <3>7
  <2> QED
    BY <2>1, <2>2
<1>8. CASE CloseContext(t)
  <2>1. pc[t] = "closing" /\ pc'[t] \in {"rest", "failed", "release"}
    BY <1>8 DEF CloseContext, OnException
  <2>2. \A u \in Threads : Starting(u)' => Starting(u)
    BY <1>8, <2>1 DEF CloseContext, Starting, LoaderSteps, ShutdownSteps
  <2>3. \A u \in Threads : pc'[u] \in {"opened", "threads"} => u # t /\ pc'[u] = pc[u]
    BY <1>8, <2>1 DEF CloseContext
  <2>4. OpenedIsOpen'
    BY <1>8, <2>1, <2>3 DEF CloseContext, OpenedIsOpen, TearsDownOthers, Starting,
       LoaderSteps
  <2>5. UpImpliesOpen'
    BY <1>8, <2>1 DEF CloseContext, UpImpliesOpen, ClosingNotUp, Gens, NoGen
  <2>6. TearsDownOthers' /\ ClosingNotUp' /\ StartingNotUp'
    BY <1>8, <2>1, <2>2 DEF CloseContext, TearsDownOthers, ClosingNotUp, StartingNotUp
  <2>7. Created' /\ OneLoader' /\ UpIsCreated'
    BY <1>8 DEF CloseContext, Created, OneLoader, UpIsCreated
  <2> QED
    BY <2>4, <2>5, <2>6, <2>7
<1> QED
  BY <1>1, <1>2, <1>3, <1>4, <1>5, <1>6, <1>7, <1>8 DEF TearDownStep

\* The steps that bring a generation up: SetStarted finds its contexts open.
LEMMA BringUpKeepsServing ==
  ASSUME ServingInv, TypeOK', NEW t \in Threads, BringUpStep(t)
  PROVE  ServingInv'
<1> USE DEF ServingInv, TypeOK, siteVars, opVars, Goto
<1>1. CASE InitSite(t)
  <2>1. pc'[t] = "loading" /\ (Starting(t)' => Starting(t))
    BY <1>1 DEF InitSite, Starting, LoaderSteps
  <2>2. \A g \in Gens : state'[g] \in Up => state[g] \in Up
    BY <1>1 DEF InitSite, SetState, Up
  <2> QED
    BY <1>1, <2>1, <2>2, OrdinaryStep DEF InitSite
<1>2. CASE Publish(t)
  <2>1. pc'[t] = "release" /\ ~Starting(t)'
    BY <1>2 DEF Publish, Starting, LoaderSteps, ShutdownSteps
  <2> QED
    BY <1>2, <2>1, OrdinaryStep DEF Publish
<1>3. CASE LoadFailed(t)
  <2>1. pc'[t] = "release" /\ ~Starting(t)'
    BY <1>3 DEF LoadFailed, Starting, LoaderSteps, ShutdownSteps
  <2>2. \A g \in Gens : state'[g] \in Up => state[g] \in Up
    BY <1>3 DEF LoadFailed, SetState, Up
  <2> QED
    BY <1>3, <2>1, <2>2, OrdinaryStep DEF LoadFailed
<1>4. CASE OpenContext(t)
  <2>1. pc[t] = "loading" /\ pc'[t] = "opened"
    BY <1>4 DEF OpenContext
  <2>2. \A u \in Threads : Starting(u)' => Starting(u)
    BY <1>4, <2>1 DEF OpenContext, Starting, LoaderSteps
  <2>3. OpenedIsOpen' /\ UpImpliesOpen'
    BY <1>4, <2>1 DEF OpenContext, OpenedIsOpen, UpImpliesOpen, NoGen
  <2>4. TearsDownOthers' /\ ClosingNotUp' /\ StartingNotUp'
    BY <1>4, <2>1, <2>2 DEF OpenContext, TearsDownOthers, ClosingNotUp, StartingNotUp
  <2>5. Created' /\ OneLoader' /\ UpIsCreated'
    BY <1>4 DEF OpenContext, Created, OneLoader, UpIsCreated
  <2> QED
    BY <2>3, <2>4, <2>5
<1>5. CASE StartWatcher(t)
  <2>1. /\ pc[t] = "opened"
        /\ \A u \in Threads : \/ pc'[u] = pc[u]
                              \/ u = t /\ pc'[u] = "threads"
                              \/ pc'[u] = "watching"
    BY <1>5 DEF StartWatcher
  <2>2. \A u \in Threads : Starting(u)' => Starting(u)
    BY <1>5, <2>1 DEF StartWatcher, Starting, LoaderSteps, ShutdownSteps
  <2>3. OpenedIsOpen' /\ UpImpliesOpen'
    BY <1>5, <2>1 DEF StartWatcher, OpenedIsOpen, UpImpliesOpen
  <2>4. TearsDownOthers' /\ ClosingNotUp' /\ StartingNotUp'
    BY <1>5, <2>1, <2>2 DEF StartWatcher, TearsDownOthers, ClosingNotUp, StartingNotUp
  <2>5. Created' /\ OneLoader' /\ UpIsCreated'
    BY <1>5 DEF StartWatcher, Created, OneLoader, UpIsCreated
  <2> QED
    BY <2>3, <2>4, <2>5
<1>6. CASE SetStarted(t)
  <2>1. pc[t] = "threads" /\ pc'[t] = "started"
    BY <1>6 DEF SetStarted
  <2>2. loads[t] # NoGen => Starting(t)
    BY <2>1 DEF Starting, LoaderSteps
  <2>3. \A u \in Threads : Starting(u)' => Starting(u) /\ u # t
    BY <1>6, <2>1 DEF SetStarted, Starting, LoaderSteps, ShutdownSteps
  <2>4. StartingNotUp'
    BY <1>6, <2>3 DEF SetStarted, SetState, StartingNotUp, OneLoader, Starting
  <2>5. OpenedIsOpen'
    BY <1>6, <2>1 DEF SetStarted, OpenedIsOpen
  <2>6. TearsDownOthers'
    BY <1>6, <2>1, <2>3 DEF SetStarted, TearsDownOthers
  <2>7. ClosingNotUp'
    <3>1. \A u \in Threads : pc[u] = "closing" /\ target[u] # NoGen => target[u] # loads[t]
      BY <2>2 DEF TearsDownOthers, NoGen
    <3> QED
      BY <1>6, <2>1, <3>1 DEF SetStarted, SetState, ClosingNotUp
  <2>8. UpImpliesOpen'
    BY <1>6, <2>1 DEF SetStarted, SetState, UpImpliesOpen, OpenedIsOpen, NoGen, Gens
  <2>9. Created' /\ OneLoader' /\ UpIsCreated'
    BY <1>6 DEF SetStarted, SetState, Created, OneLoader, UpIsCreated
  <2> QED
    BY <2>4, <2>5, <2>6, <2>7, <2>8, <2>9
<1> QED
  BY <1>1, <1>2, <1>3, <1>4, <1>5, <1>6 DEF BringUpStep

-----------------------------------------------------------------------------

\* A booted platform has one generation, and its context is open.
LEMMA ServingInit == Init => ServingInv
<1> SUFFICES ASSUME Init PROVE ServingInv
  OBVIOUS
<1>1. TypeOK
  BY InitTyped
<1>2. \A t \in Threads : pc[t] \in {"none", "watching", "idle"} /\ loads[t] = NoGen
  BY DEF Init, IdleStep
<1>3. Created
  BY ConstantsAssumption DEF Init, Created, NoGen
<1>4. UpIsCreated /\ UpImpliesOpen
  BY ConstantsAssumption DEF Init, UpIsCreated, UpImpliesOpen, BootedGens, Gens, Up
<1>5. /\ OneLoader /\ StartingNotUp /\ OpenedIsOpen
      /\ TearsDownOthers /\ ClosingNotUp
  BY <1>2 DEF OneLoader, StartingNotUp, OpenedIsOpen, TearsDownOthers,
     ClosingNotUp, Starting
<1> QED
  BY <1>1, <1>3, <1>4, <1>5 DEF ServingInv

\* Every step keeps it: request steps leave the generations alone, triggers at
\* most create one, and the steps of an operation keep the order of setState,
\* closeSiteContext and loading.
LEMMA ServingNext ==
  ASSUME SuspendOnReload = FALSE, ServingInv, [Next]_vars
  PROVE  ServingInv'
<1>1. TypeOK'
  BY NextTyped DEF ServingInv
<1>2. CASE Trigger
  BY <1>1, <1>2, TriggerKeepsServing
<1>3. ASSUME NEW r \in Requests, RequestStep(r) \/ Handled(r) PROVE ServingInv'
  BY <1>1, <1>3, RequestKeepsServing
<1>4. ASSUME NEW g \in Gens, WatcherInterrupted(g) PROVE ServingInv'
  <2>1. g \in Threads
    BY DEF Threads
  <2>2. pc'[g] = "ended" /\ ~Starting(g)'
    BY <1>4, <2>1 DEF WatcherInterrupted, Goto, Starting, LoaderSteps, ShutdownSteps,
       ServingInv, TypeOK
  <2> QED
    BY <1>1, <1>4, <2>1, <2>2, OrdinaryStep DEF WatcherInterrupted, Goto, siteVars,
       opVars, ServingInv, TypeOK
<1>5. ASSUME NEW t \in Threads, TearDownStep(t) \/ BringUpStep(t) PROVE ServingInv'
  BY <1>1, <1>5, TearDownKeepsServing, BringUpKeepsServing
<1>6. ASSUME NEW t \in Threads, Acquire(t) \/ FailStep(t) PROVE ServingInv'
  <2>1. pc'[t] \in {"begin", "failed", "aborted", "release"} /\ (Starting(t)' => Starting(t))
    BY <1>6 DEF Acquire, FailStep, FailLoad, FailStarted, FailShutdown,
       OnException, Goto, Starting, LoaderSteps, ShutdownSteps,
       ServingInv, TypeOK, siteVars, opVars
  <2> QED
    BY <1>1, <1>6, <2>1, OrdinaryStep DEF Acquire, FailStep, FailLoad, FailStarted, FailShutdown,
       OnException, Goto, siteVars, opVars,
       ServingInv, TypeOK
<1>7. ASSUME NEW t \in Threads, Release(t) PROVE ServingInv'
  <2>1. pc'[t] \in {"handling", "ended", "idle"} /\ ~Starting(t)'
    BY <1>7 DEF Release, Goto, AfterOp, Starting, LoaderSteps, ShutdownSteps,
       ServingInv, TypeOK
  <2> QED
    BY <1>1, <1>7, <2>1, OrdinaryStep DEF Release, Goto, siteVars, ServingInv, TypeOK
<1>8. CASE UNCHANGED vars
  BY <1>8 DEF vars, ServingInv, TypeOK, Created, OneLoader, StartingNotUp,
     OpenedIsOpen, TearsDownOthers, ClosingNotUp, UpIsCreated, UpImpliesOpen,
     Starting
<1> QED
  BY <1>2, <1>3, <1>4, <1>5, <1>6, <1>7, <1>8 DEF Next, OpStep

\* A generation that lets requests through has its contexts open: on a node
\* that does not suspend sites, for any number of threads, with or without
\* the monitor of loadSite, through failing loads, stops and deletions.
THEOREM Serving == SuspendOnReload = FALSE => (Spec => []UpImpliesOpen)
<1> SUFFICES ASSUME SuspendOnReload = FALSE PROVE Spec => []UpImpliesOpen
  OBVIOUS
<1>1. ServingInv /\ [Next]_vars => ServingInv'
  BY ServingNext
<1>2. ServingInv => UpImpliesOpen
  BY DEF ServingInv
<1> QED
  BY ServingInit, <1>1, <1>2, PTL DEF Spec

-----------------------------------------------------------------------------
(* What a request holds: a generation from Resolve to the end of doGet, and *)
(* one count of it from AddRequest to RemoveRequest.                        *)

ServesInv == \A r \in Requests : serves[r] = NoGen <=> pc[r] = "idle"

\* The site object of a request is set and dropped with the request itself;
\* reloads the request performs leave it alone.
LEMMA ServesNext == TypeOK /\ ServesInv /\ [Next]_vars => ServesInv'
<1> SUFFICES ASSUME TypeOK, ServesInv, [Next]_vars PROVE ServesInv'
  OBVIOUS
<1> USE ThreadsAssumption DEF TypeOK, Threads, Goto, siteVars, opVars
<1>1. ASSUME NEW r \in Requests, RequestStep(r) \/ Resolve(r) \/ Handled(r)
      PROVE  ServesInv'
  BY <1>1 DEF ServesInv, RequestStep, Resolve, Handled, Admit, Refuse, AddRequest,
     Recheck, TurnedDown, RemoveRequest, NoGen
<1>2. ASSUME NEW t \in Threads, pc[t] # "idle" \/ t \notin Requests,
             pc'[t] # "idle" \/ t \notin Requests, serves' = serves,
             \A r \in Requests \ {t} : pc'[r] = pc[r]
      PROVE  ServesInv'
  BY <1>2 DEF ServesInv
<1>3. CASE Trigger
  BY <1>1, <1>2, <1>3 DEF Trigger, ReloadFromRequest, ReloadEvent, LoadUnsynchronized,
     WatcherFires, ShutdownEvent, NewGeneration
<1>4. ASSUME NEW g \in Gens, WatcherInterrupted(g) PROVE ServesInv'
  BY <1>2, <1>4 DEF WatcherInterrupted
<1>5. ASSUME NEW t \in Threads, TearDownStep(t) PROVE ServesInv'
  BY <1>2, <1>5 DEF TearDownStep, BeginLoad, SuspendSleep, DrainSleep, Drained,
     ShutDownSite, WaitForRequests, DoneWaiting, TearDown, SetStopping,
     CloseContext, ComeToRest, CleanupSite, AfterRest, AfterShutdown, OnException
<1>6. ASSUME NEW t \in Threads, BringUpStep(t) \/ Acquire(t) \/ FailStep(t)
      PROVE  ServesInv'
  <2>1. CASE StartWatcher(t)
    <3>1. \A r \in Requests : r # loads[t] /\ pc'[r] \in {pc[r], "threads"}
      BY <2>1 DEF StartWatcher
    <3>2. \A r \in Requests : (pc'[r] = "threads" /\ r = t) \/ pc'[r] = pc[r]
      BY <2>1, <3>1 DEF StartWatcher
    <3> QED
      BY <2>1, <3>2 DEF StartWatcher, ServesInv
  <2>2. CASE ~StartWatcher(t)
    BY <1>2, <1>6, <2>2 DEF BringUpStep, InitSite, OpenContext, SetStarted,
       Publish, LoadFailed, Acquire, FailStep, FailLoad, FailStarted, FailShutdown,
       OnException
  <2> QED
    BY <2>1, <2>2
<1>7. ASSUME NEW t \in Threads, Release(t) PROVE ServesInv'
  BY <1>2, <1>7 DEF Release, AfterOp
<1>8. CASE UNCHANGED vars
  BY <1>8 DEF vars, ServesInv
<1> QED
  BY <1>1, <1>3, <1>4, <1>5, <1>6, <1>7, <1>8 DEF Next, OpStep

\* A request that Controller.doGet is dealing with has a site, in every
\* reachable state.
LEMMA ServesAlways == Spec => [](TypeOK /\ ServesInv)
<1>1. Init => ServesInv
  BY ThreadsAssumption DEF Init, ServesInv, IdleStep, Threads
<1> QED
  BY <1>1, InitTyped, NextTyped, ServesNext, PTL DEF Spec

\* Only Recheck lets a counted request through to its handler.
LEMMA OnlyRecheckAdmits ==
  ASSUME TypeOK, [Next]_vars, NEW r \in Requests,
         pc[r] = "counted", pc'[r] = "handling"
  PROVE  Recheck(r)
<1> USE ThreadsAssumption DEF TypeOK, Threads, Goto
<1>1. ~UNCHANGED vars
  BY DEF vars
<1>2. ~Trigger
  BY DEF Trigger, Resolve, ReloadFromRequest, ReloadEvent, ShutdownEvent,
     LoadUnsynchronized, WatcherFires
<1>3. ASSUME NEW t \in Threads, TearDownStep(t) PROVE FALSE
  BY <1>3 DEF TearDownStep, BeginLoad, SuspendSleep, DrainSleep, Drained,
     ShutDownSite, WaitForRequests, DoneWaiting, TearDown, SetStopping,
     CloseContext, ComeToRest, CleanupSite, AfterRest, AfterShutdown, OnException
<1>4. ASSUME NEW t \in Threads, BringUpStep(t) \/ Acquire(t) \/ FailStep(t) \/ Release(t)
      PROVE  FALSE
  BY <1>4 DEF BringUpStep, InitSite, OpenContext, StartWatcher, SetStarted, Publish,
     LoadFailed, Acquire, FailStep, FailLoad, FailStarted, FailShutdown,
       OnException, Release
<1>5. ASSUME NEW g \in Gens, WatcherInterrupted(g) PROVE FALSE
  BY <1>5 DEF WatcherInterrupted
<1>6. ASSUME NEW q \in Requests, RequestStep(q) \/ Handled(q) PROVE Recheck(r)
  BY <1>6 DEF RequestStep, Handled, Admit, Refuse, AddRequest, Recheck, RemoveRequest
<1> QED
  BY <1>1, <1>2, <1>3, <1>4, <1>5, <1>6 DEF Next, OpStep

\* The second check of Controller.doGet keeps every request off a generation
\* whose contexts are closed.
THEOREM ServedOpen == SuspendOnReload = FALSE => (Spec => NeverServedClosed)
<1> SUFFICES ASSUME SuspendOnReload = FALSE PROVE Spec => NeverServedClosed
  OBVIOUS
<1> DEFINE Checked == \A r \in Requests : pc[r] = "counted" /\ pc'[r] = "handling"
                                            => ctx'[serves[r]] = "open"
<1>1. ServingInv /\ [Next]_vars => ServingInv'
  BY ServingNext
<1>2. ServingInv /\ ServesInv /\ [Next]_vars => Checked
  <2> SUFFICES ASSUME ServingInv, ServesInv, [Next]_vars, NEW r \in Requests,
                      pc[r] = "counted", pc'[r] = "handling"
               PROVE  ctx'[serves[r]] = "open"
    OBVIOUS
  <2>1. Recheck(r) /\ serves[r] \in Gens
    BY OnlyRecheckAdmits DEF ServingInv, TypeOK, ServesInv
  <2>2. state[serves[r]] \in Up /\ ctx' = ctx
    BY <2>1 DEF Recheck, Goto, PassesRecheck, TurnedDown, siteVars, ServingInv,
       TypeOK, Threads
  <2> QED
    BY <2>1, <2>2 DEF ServingInv, UpImpliesOpen
<1> QED
  BY ServingInit, ServesAlways, <1>1, <1>2, PTL DEF Spec, NeverServedClosed

-----------------------------------------------------------------------------
(* The request counter.                                                    *)

Uncounted == {"resolved", "admitted"}

\* Steps that leave the counters alone, and the requests that count.
LEMMA CountedSame ==
  ASSUME RequestsCounted, requests' = requests, serves' = serves,
         \A r \in Requests : pc'[r] \in Uncounted <=> pc[r] \in Uncounted
  PROVE  RequestsCounted'
<1>1. \A g \in Gens : CountedOn(g)' = CountedOn(g)
  BY DEF CountedOn, Uncounted
<1> QED
  BY <1>1 DEF RequestsCounted

\* A request counts from AddRequest to RemoveRequest, once, on one object.
LEMMA CountedRequests ==
  ASSUME IsFiniteSet(Requests), TypeOK, ServesInv, RequestsCounted,
         NEW r \in Requests, RequestStep(r) \/ Resolve(r) \/ Handled(r)
  PROVE  RequestsCounted'
<1> USE DEF TypeOK, Goto, siteVars, opVars
<1>0. r \in Threads /\ \A g \in Gens : g # NoGen /\ IsFiniteSet(CountedOn(g))
  <2>1. \A g \in Gens : CountedOn(g) \subseteq Requests
    BY DEF CountedOn
  <2> QED
    BY <2>1, FS_Subset DEF Threads, Gens, NoGen
<1>a. ASSUME requests' = requests, \A g \in Gens : CountedOn(g)' = CountedOn(g)
      PROVE  RequestsCounted'
  BY <1>a DEF RequestsCounted
<1>b. \A q \in Requests \ {r} : q \in Threads
  BY DEF Threads
<1>1. CASE Admit(r) \/ Recheck(r) \/ Handled(r)
  <2>1. /\ requests' = requests /\ serves' = serves
        /\ \A q \in Requests : pc'[q] \in Uncounted <=> pc[q] \in Uncounted
    BY <1>0, <1>b, <1>1 DEF Admit, Recheck, Handled, TurnedDown, Uncounted
  <2> QED
    BY <2>1, CountedSame
<1>2. CASE Resolve(r) \/ Refuse(r)
  <2>1. /\ requests' = requests /\ \A q \in Requests \ {r} : serves'[q] = serves[q] /\ pc'[q] = pc[q]
        /\ serves[r] = NoGen \/ pc[r] \in Uncounted
        /\ serves'[r] = NoGen \/ pc'[r] \in Uncounted
    BY <1>0, <1>b, <1>2 DEF Resolve, Refuse, Uncounted, ServesInv
  <2>2. \A g \in Gens : CountedOn(g)' = CountedOn(g)
    BY <1>0, <2>1 DEF CountedOn, Uncounted
  <2> QED
    BY <1>a, <2>1, <2>2
<1>3. CASE AddRequest(r)
  <2>1. /\ pc[r] = "admitted" /\ pc'[r] = "counted" /\ serves' = serves
        /\ requests' = [requests EXCEPT ![serves[r]] = @ + 1]
        /\ \A q \in Requests \ {r} : pc'[q] = pc[q]
    BY <1>0, <1>b, <1>3 DEF AddRequest
  <2>2. serves[r] \in Gens
    BY <2>1 DEF ServesInv
  <2>3. /\ CountedOn(serves[r])' = CountedOn(serves[r]) \cup {r}
        /\ r \notin CountedOn(serves[r])
    BY <2>1 DEF CountedOn
  <2>4. \A g \in Gens \ {serves[r]} : CountedOn(g)' = CountedOn(g)
    BY <2>1 DEF CountedOn
  <2>5. Cardinality(CountedOn(serves[r]) \cup {r}) = Cardinality(CountedOn(serves[r])) + 1
    BY <1>0, <2>2, <2>3, FS_AddElement
  <2> QED
    BY <2>1, <2>2, <2>3, <2>4, <2>5 DEF RequestsCounted
<1>4. CASE RemoveRequest(r)
  <2>1. /\ pc[r] = "leaving" /\ pc'[r] = "idle" /\ serves' = [serves EXCEPT ![r] = NoGen]
        /\ requests' = [requests EXCEPT ![serves[r]] = @ - 1]
        /\ \A q \in Requests \ {r} : pc'[q] = pc[q]
    BY <1>0, <1>b, <1>4 DEF RemoveRequest
  <2>2. PICK h \in Gens : h = serves[r]
    BY <2>1 DEF ServesInv
  <2>3. CountedOn(h)' = CountedOn(h) \ {r} /\ r \in CountedOn(h)
    BY <1>0, <2>1, <2>2 DEF CountedOn
  <2>4. \A g \in Gens \ {h} : CountedOn(g)' = CountedOn(g)
    BY <1>0, <2>1, <2>2 DEF CountedOn
  <2>5. Cardinality(CountedOn(h) \ {r}) = Cardinality(CountedOn(h)) - 1
    BY <1>0, <2>3, FS_RemoveElement
  <2> QED
    BY <2>1, <2>2, <2>3, <2>4, <2>5 DEF RequestsCounted
<1> QED
  BY <1>1, <1>2, <1>3, <1>4 DEF RequestStep

LEMMA CountedNext ==
  ASSUME IsFiniteSet(Requests), TypeOK, ServesInv, RequestsCounted, [Next]_vars
  PROVE  RequestsCounted'
<1> USE ThreadsAssumption DEF TypeOK, Threads, Goto, siteVars, opVars
<1>1. ASSUME NEW t \in Threads, pc[t] \notin Uncounted, pc'[t] \notin Uncounted,
             requests' = requests, serves' = serves,
             \A r \in Requests \ {t} : pc'[r] = pc[r]
      PROVE  RequestsCounted'
  BY <1>1, CountedSame
<1>2. CASE Trigger
  <2>1. ASSUME NEW r \in Requests, ReloadFromRequest(r) PROVE RequestsCounted'
    BY <1>1, <2>1 DEF ReloadFromRequest, NewGeneration, Uncounted
  <2>2. ASSUME NEW t \in Threads, ReloadEvent(t) \/ ShutdownEvent(t) \/ LoadUnsynchronized(t)
        PROVE  RequestsCounted'
    BY <1>1, <2>2 DEF ReloadEvent, ShutdownEvent, LoadUnsynchronized, NewGeneration, Uncounted
  <2>3. ASSUME NEW g \in Gens, WatcherFires(g) PROVE RequestsCounted'
    BY <1>1, <2>3 DEF WatcherFires, NewGeneration, Uncounted
  <2> QED
    BY <1>2, <2>1, <2>2, <2>3, CountedRequests DEF Trigger
<1>3. ASSUME NEW g \in Gens, WatcherInterrupted(g) PROVE RequestsCounted'
  BY <1>1, <1>3 DEF WatcherInterrupted, Uncounted
<1>4. ASSUME NEW t \in Threads, TearDownStep(t) PROVE RequestsCounted'
  BY <1>1, <1>4 DEF TearDownStep, BeginLoad, SuspendSleep, DrainSleep, Drained,
     ShutDownSite, WaitForRequests, DoneWaiting, TearDown, SetStopping,
     CloseContext, ComeToRest, CleanupSite, AfterRest, AfterShutdown, OnException, Uncounted
<1>5. ASSUME NEW t \in Threads, StartWatcher(t) PROVE RequestsCounted'
  <2>1. requests' = requests /\ serves' = serves /\ pc[t] = "opened"
        /\ \A r \in Requests : pc'[r] = pc[r] \/ (r = t /\ pc'[r] = "threads")
    BY <1>5 DEF StartWatcher
  <2> QED
    BY <2>1, CountedSame DEF Uncounted
<1>6. ASSUME NEW t \in Threads, BringUpStep(t) \/ Acquire(t) \/ FailStep(t), ~StartWatcher(t)
      PROVE  RequestsCounted'
  BY <1>1, <1>6 DEF BringUpStep, InitSite, OpenContext, SetStarted, Publish, LoadFailed,
     Acquire, FailStep, FailLoad, FailStarted, FailShutdown, OnException, Uncounted
<1>7. ASSUME NEW t \in Threads, Release(t) PROVE RequestsCounted'
  BY <1>1, <1>7 DEF Release, AfterOp, Uncounted
<1>8. CASE UNCHANGED vars
  BY <1>8, CountedSame DEF vars
<1> QED
  BY <1>2, <1>3, <1>4, <1>5, <1>6, <1>7, <1>8, CountedRequests DEF Next, OpStep

\* RequestsCounted, for any number of requests: through every swap of the
\* site object by loads, stops and deletions, the counter of each SiteImpl is
\* exactly the number of requests that will decrement it, and never negative.
THEOREM CountersAreRight == ASSUME IsFiniteSet(Requests) PROVE Spec => []RequestsCounted
<1>1. Init => RequestsCounted
  <2> SUFFICES ASSUME Init, NEW g \in Gens PROVE requests[g] = Cardinality(CountedOn(g))
    BY DEF RequestsCounted
  <2>1. CountedOn(g) = {}
    BY DEF Init, CountedOn, Gens, NoGen
  <2> QED
    BY <2>1, FS_EmptySet DEF Init
<1>2. TypeOK /\ ServesInv /\ RequestsCounted /\ [Next]_vars => RequestsCounted'
  BY CountedNext
<1> QED
  BY <1>1, <1>2, ServesAlways, PTL DEF Spec

=============================================================================
