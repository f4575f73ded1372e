--------------------------- MODULE RollingReload ---------------------------
(***************************************************************************)
(* The reload of ONE site that rolls over the nodes of a cluster.          *)
(*                                                                         *)
(* An administrator changes the site and reloads it on one node; when it   *)
(* is STARTED there, that node publishes a ReloadSiteEvent.  A node that   *)
(* receives it waits a random delay, then until its own map shows the site *)
(* STARTED on a quorum of nodes, but not for ever (waitForClusterState),   *)
(* reads the site from the database and loads it.                          *)
(*                                                                         *)
(* The map a node decides by is fed by the same receiver.  Only Hazelcast  *)
(* hands asynchronous events to an executor; with multicast, Redis or      *)
(* RabbitMQ the receiver itself waits and loads, and what the other nodes  *)
(* announce stays in its inbox meanwhile.  ClusterState says what the      *)
(* entries of the maps mean, SiteLifecycle what a load consists of.        *)
(***************************************************************************)
EXTENDS Naturals, Sequences, FiniteSets

CONSTANTS
  Nodes,       \* node ids
  Admins,      \* the nodes whose administrators reload the site
  New,         \* the nodes that have not loaded the site yet
  Leaving,     \* the nodes that may leave
  Failing,     \* the threads of nodes whose loads may fail
  Handlers,    \* threads of the messaging executor, or the receiver
  Gui,         \* the request thread of an administrator
  Async,       \* the receiver passes an executor (HazelcastReceiver)
  MaxWait,     \* waitForSitesStartedMaxWaitTime, in rounds of its waitTime
  Budgets      \* bounds: the Deeds a behaviour may have

Threads == Handlers \cup {Gui}

\* Reloads by administrators and through appNGizer, and departures.
Deeds == [gui : Nat, gizer : Nat, leave : Nat]

ASSUME RollingAssumption ==
  /\ IsFiniteSet(Nodes)
  /\ "appNGizer" \notin Nodes
  /\ Admins \subseteq Nodes \ New
  /\ New \subseteq Nodes
  /\ Gui \notin Handlers
  /\ MaxWait \in Nat \ {0}
  /\ Failing \subseteq Nodes \X Threads
  /\ Budgets \subseteq Deeds
  /\ Async \in BOOLEAN

\* Everything a site is between SUSPENDED and STARTED is "DOWN".
SiteStates == {"none", "STARTED", "DOWN", "INACTIVE"}

Messages ==
  [type : {"siteState"}, from : Nodes, state : SiteStates]
    \cup [type : {"shutdown", "reload"}, from : Nodes \cup {"appNGizer"}]

VARIABLES
  db,      \* version of the site in the database
  loaded,  \* the version each node has put into its site map last
  view,    \* view[n][m]: what the map of n says of the site on m
  inbox,   \* events not yet received
  queued,  \* ReloadSiteEvents submitted: had the node the site on receipt?
  thread,  \* thread[n][t]: its step, quorum, rounds waited, version read
  gone,    \* the nodes that have left
  abandoned, \* history: the nodes whose last reload failed too early
  done     \* reloads and departures so far

vars == <<db, loaded, view, inbox, queued, thread, gone, abandoned, done>>

Idle == [step |-> "idle", quorum |-> 0, waited |-> 0, version |-> 0]

RollingTypeOK ==
  /\ db \in Nat
  /\ loaded \in [Nodes -> Nat]
  /\ view \in [Nodes -> [Nodes -> SiteStates \cup {"unknown"}]]
  /\ inbox \in [Nodes -> Seq(Messages)]
  /\ queued \in [Nodes -> Seq(BOOLEAN)]
  /\ thread \in [Nodes -> [Threads ->
        [step : {"idle", "wait", "read", "acquire", "loading", "started"},
         quorum : 0..Cardinality(Nodes), waited : 0..(MaxWait - 1),
         version : Nat]]]
  /\ gone \subseteq Nodes
  /\ abandoned \subseteq Nodes
  /\ done \in Deeds

InitialState(n) == IF n \in New THEN "none" ELSE "STARTED"

\* A cluster at rest: the nodes know each other.
Init ==
  /\ db = 0
  /\ loaded = [n \in Nodes |-> 0]
  /\ view = [n \in Nodes |-> [m \in Nodes |-> InitialState(m)]]
  /\ inbox = [n \in Nodes |-> <<>>]
  /\ queued = [n \in Nodes |-> <<>>]
  /\ thread = [n \in Nodes |-> [t \in Threads |-> Idle]]
  /\ gone = {}
  /\ abandoned = {}
  /\ done = [gui |-> 0, gizer |-> 0, leave |-> 0]

-----------------------------------------------------------------------------
(* Messages.                                                               *)

Here == Nodes \ gone

\* Variant: a node performs its own events too.
PerformsAll(n, from) == TRUE

\* Messaging.handleEvent: an event of one's own node is ignored.
Performs(n, from) == n # from

\* Each receiver that will perform them gets the messages, in their order.
Publish(from, messages) ==
  inbox' = [n \in Nodes |-> IF n \in Here /\ Performs(n, from)
                            THEN inbox[n] \o messages ELSE inbox[n]]

SiteStateEvent(n, s) == [type |-> "siteState", from |-> n, state |-> s]

ReloadSiteEvent(from) == [type |-> "reload", from |-> from]

\* What waitForClusterState counts, over the live map.
ActiveNodes(n) == {m \in Nodes : view[n][m] = "STARTED"}

KnownNodes(n) == {m \in Nodes : view[n][m] # "unknown"}

\* minActiveNodes.
Quorum(numNodes) == IF numNodes > 3 THEN ((numNodes + 1) \div 2) + 1 ELSE numNodes

Receiving(n) ==
  /\ n \in Here
  /\ inbox[n] # <<>>
  /\ Async \/ (queued[n] = <<>> /\ \A h \in Handlers : thread[n][h] = Idle)

\* SiteStateEvent.perform and ShutdownEvent.perform, on the receiver.
ReceiveState(n) ==
  /\ Receiving(n)
  /\ Head(inbox[n]).type \in {"siteState", "shutdown"}
  /\ LET message == Head(inbox[n])
         entry == IF message.type = "shutdown" THEN "unknown" ELSE message.state
     IN view' = [view EXCEPT ![n][message.from] = entry]
  /\ inbox' = [inbox EXCEPT ![n] = Tail(@)]
  /\ UNCHANGED <<db, loaded, queued, thread, gone, abandoned, done>>

\* A new node has the site from its first load on.
HasSite(n) == n \notin New \/ loaded[n] > 0

\* Whether the node has the site is looked up now, not by the handler.
ReceiveReload(n) ==
  /\ Receiving(n)
  /\ Head(inbox[n]).type = "reload"
  /\ queued' = [queued EXCEPT ![n] = Append(@, HasSite(n))]
  /\ inbox' = [inbox EXCEPT ![n] = Tail(@)]
  /\ UNCHANGED <<db, loaded, view, thread, gone, abandoned, done>>

-----------------------------------------------------------------------------
(* ReloadSiteEvent.perform.                                                *)

Step(n, t, from, to) ==
  /\ n \in Here
  /\ thread[n][t].step = from
  /\ thread' = [thread EXCEPT ![n][t].step = to]

\* A site the node had, in a cluster, is waited for; the quorum is fixed now,
\* before the random delay.
Perform(n, h) ==
  /\ n \in Here
  /\ queued[n] # <<>>
  /\ thread[n][h] = Idle
  /\ queued' = [queued EXCEPT ![n] = Tail(@)]
  /\ LET numNodes == Cardinality(KnownNodes(n))
         waits == Head(queued[n]) /\ numNodes > 1
     IN thread' = [thread EXCEPT ![n][h] =
                     [Idle EXCEPT !.step = IF waits THEN "wait" ELSE "read",
                                  !.quorum = IF waits THEN Quorum(numNodes)
                                                      ELSE 0]]
  /\ UNCHANGED <<db, loaded, view, inbox, gone, abandoned, done>>

HasQuorum(n, h) == Cardinality(ActiveNodes(n)) >= thread[n][h].quorum

\* Variant: the time limit is off by one.
TimeIsLeftLonger(waited) == waited <= MaxWait

TimeIsLeft(waited) == waited < MaxWait

\* Variant: the round is not counted, as in shutdownSite when interrupted.
NotCounted(waited) == waited

\* The sleep is counted before it begins, interrupted or not.
Counted(waited) == waited + 1

\* One round without a quorum.
WaitForSites(n, h) ==
  /\ n \in Here
  /\ thread[n][h].step = "wait"
  /\ ~HasQuorum(n, h)
  /\ LET waited == Counted(thread[n][h].waited)
     IN thread' = [thread EXCEPT
          ![n][h].waited = IF TimeIsLeft(waited) THEN waited ELSE 0,
          ![n][h].step = IF TimeIsLeft(waited) THEN "wait" ELSE "read"]
  /\ UNCHANGED <<db, loaded, view, inbox, queued, gone, abandoned, done>>

SitesStarted(n, h) ==
  /\ HasQuorum(n, h)
  /\ Step(n, h, "wait", "read")
  /\ UNCHANGED <<db, loaded, view, inbox, queued, gone, abandoned, done>>

\* Variant: the site the event was handed is loaded again.
VersionAtHand(n) == loaded[n]

VersionRead(n) == db

\* getSiteByName, outside the monitor of loadSite.
ReadSite(n, h) ==
  /\ n \in Here
  /\ thread[n][h].step = "read"
  /\ thread' = [thread EXCEPT ![n][h].step = "acquire", ![n][h].version = VersionRead(n)]
  /\ UNCHANGED <<db, loaded, view, inbox, queued, gone, abandoned, done>>

\* The site cannot be read or is not found: Messaging.processEvent logs the
\* exception, and the event is gone.
FailPerform(n, h) ==
  /\ <<n, h>> \in Failing
  /\ n \in Here
  /\ thread[n][h].step = "read"
  /\ thread' = [thread EXCEPT ![n][h] = Idle]
  /\ abandoned' = abandoned \cup {n}
  /\ UNCHANGED <<db, loaded, view, inbox, queued, gone, done>>

-----------------------------------------------------------------------------
(* loadSite, by an administrator or a handler.                             *)

Loading(n, t) == thread[n][t].step \in {"loading", "started"}

\* SiteImpl.setState, on the node's own map.
SetState(n, s) == view' = [view EXCEPT ![n][n] = s]

\* The site is shut down and STARTING; the new object is in the site map.
BeginLoad(n, t) ==
  /\ \A u \in Threads : ~Loading(n, u)
  /\ Step(n, t, "acquire", "loading")
  /\ loaded' = [loaded EXCEPT ![n] = thread[n][t].version]
  /\ abandoned' = abandoned \ {n}
  /\ SetState(n, "DOWN")
  /\ Publish(n, <<SiteStateEvent(n, "DOWN")>>)
  /\ UNCHANGED <<db, queued, gone, done>>

SetStarted(n, t) ==
  /\ Step(n, t, "loading", "started")
  /\ SetState(n, "STARTED")
  /\ UNCHANGED <<db, loaded, inbox, queued, gone, abandoned, done>>

\* sendReloadEvent.
SendsReload(t) == t = Gui

ReloadEvents(n, t) == IF SendsReload(t) THEN <<ReloadSiteEvent(n)>> ELSE <<>>

\* STARTED is announced after a delay, then the reload; both by one thread.
Announce(n, t) ==
  /\ n \in Here
  /\ thread[n][t].step = "started"
  /\ thread' = [thread EXCEPT ![n][t] = Idle]
  /\ Publish(n, <<SiteStateEvent(n, "STARTED")>> \o ReloadEvents(n, t))
  /\ UNCHANGED <<db, loaded, view, queued, gone, abandoned, done>>

\* The catch block of getSiteLoader sets the new object INACTIVE.
Deactivate(n, t, before) ==
  /\ <<n, t>> \in Failing
  /\ n \in Here
  /\ thread' = [thread EXCEPT ![n][t] = Idle]
  /\ SetState(n, "INACTIVE")
  /\ Publish(n, before \o <<SiteStateEvent(n, "INACTIVE")>>)

\* The load fails with the new object in the site map.  Once STARTED has been
\* announced, the ReloadSiteEvent may have been sent or not.
FailLoad(n, t) ==
  /\ \/ /\ thread[n][t].step = "loading"
        /\ Deactivate(n, t, <<>>)
     \/ /\ thread[n][t].step = "started"
        /\ \E sent \in {<<>>, ReloadEvents(n, t)} :
             Deactivate(n, t, <<SiteStateEvent(n, "STARTED")>> \o sent)
  /\ UNCHANGED <<db, loaded, queued, gone, abandoned, done>>

\* Without a sender the new object does not tell the others it is INACTIVE.
DeactivateSilently(n, t, before) ==
  /\ <<n, t>> \in Failing
  /\ n \in Here
  /\ thread' = [thread EXCEPT ![n][t] = Idle]
  /\ SetState(n, "INACTIVE")
  /\ Publish(n, before)

\* The load fails before the new object is in the site map: in handleReload,
\* where an application does not shut down, or, with its sender set, behind
\* it.  The version the node has stays mapped, and no reload follows.
FailReload(n, t) ==
  /\ thread[n][t].step = "acquire"
  /\ \A u \in Threads : ~Loading(n, u)
  /\ LET shutDown == IF HasSite(n) THEN <<SiteStateEvent(n, "DOWN")>> ELSE <<>>
     IN Deactivate(n, t, shutDown) \/ DeactivateSilently(n, t, shutDown)
  /\ abandoned' = abandoned \cup {n}
  /\ UNCHANGED <<db, loaded, queued, gone, done>>

-----------------------------------------------------------------------------
(* What starts a reload, and nodes that leave.                             *)

Do(deeds) ==
  /\ \E b \in Budgets : \A k \in DOMAIN b : deeds[k] <= b[k]
  /\ done' = deeds

\* An administrator saves the site and reloads it on node n.
ChangeAndReload(n) ==
  /\ n \in Admins \cap Here
  /\ thread[n][Gui] = Idle
  /\ Do([done EXCEPT !.gui = @ + 1])
  /\ db' = db + 1
  /\ thread' = [thread EXCEPT ![n][Gui] =
                  [Idle EXCEPT !.step = "acquire", !.version = db + 1]]
  /\ UNCHANGED <<loaded, view, inbox, queued, gone, abandoned>>

\* SiteController.reloadSite: the event carries no node's id, so every node
\* performs it, the sender included.
ReloadByAppNGizer ==
  /\ Do([done EXCEPT !.gizer = @ + 1])
  /\ db' = db + 1
  /\ Publish("appNGizer", <<ReloadSiteEvent("appNGizer")>>)
  /\ UNCHANGED <<loaded, view, queued, thread, gone, abandoned>>

\* contextDestroyed: the site is STOPPED, then the ShutdownEvent.
Leave(n, messages) ==
  /\ n \in Leaving \cap Here
  /\ Do([done EXCEPT !.leave = @ + 1])
  /\ gone' = gone \cup {n}
  /\ inbox' = [m \in Nodes |-> IF m = n THEN <<>>
                 ELSE IF m \in Here THEN inbox[m] \o messages ELSE inbox[m]]
  /\ queued' = [queued EXCEPT ![n] = <<>>]
  /\ thread' = [thread EXCEPT ![n] = [t \in Threads |-> Idle]]
  /\ UNCHANGED <<db, loaded, view, abandoned>>

ShutDown(n) ==
  Leave(n, <<SiteStateEvent(n, "DOWN"), [type |-> "shutdown", from |-> n]>>)

\* Without a goodbye, the entry of the node stays in every map.
Crash(n) == Leave(n, <<>>)

-----------------------------------------------------------------------------

HandlerStep(n, h) ==
  Perform(n, h) \/ WaitForSites(n, h) \/ SitesStarted(n, h) \/ ReadSite(n, h)

LoadStep(n, t) == BeginLoad(n, t) \/ SetStarted(n, t) \/ Announce(n, t)

FailStep(n, t) == FailLoad(n, t) \/ FailReload(n, t)

Receive(n) == ReceiveState(n) \/ ReceiveReload(n)

Next ==
  \/ ReloadByAppNGizer
  \/ \E n \in Nodes :
       \/ ChangeAndReload(n) \/ ShutDown(n) \/ Crash(n) \/ Receive(n)
       \/ \E h \in Handlers : HandlerStep(n, h) \/ FailPerform(n, h)
       \/ \E t \in Threads : LoadStep(n, t) \/ FailStep(n, t)

Spec == Init /\ [][Next]_vars

\* Receivers and threads are scheduled; nobody has to reload, fail or leave.
FairSpec ==
  /\ Spec
  /\ \A n \in Nodes :
       /\ WF_vars(Receive(n))
       /\ \A h \in Handlers : WF_vars(HandlerStep(n, h))
       /\ \A t \in Threads : WF_vars(LoadStep(n, t))

-----------------------------------------------------------------------------
(* What a rolling reload promises.                                         *)

State(n) == view[n][n]

\* A reload never takes the site down everywhere by itself: while an
\* administrator's own load is neither under way nor has failed, the site is
\* STARTED on some node, however late and wrong the maps are that the others
\* decide by.  (Reloads through appNGizer do not promise this.)
StaysAvailable ==
  /\ done.gizer = 0
  /\ Admins \cap gone = {}
  /\ \A n \in Admins : ~Loading(n, Gui) /\ State(n) # "INACTIVE"
  => \E n \in Here : State(n) = "STARTED"

\* A reload is on its way to n: an administrator's load whose event will be
\* sent, an event in the inbox or one for the executor.
ReloadIsComing(n) ==
  \/ \E m \in Here : thread[m][Gui].step \in {"acquire", "loading", "started"}
  \/ \E i \in DOMAIN inbox[n] : inbox[n][i].type = "reload"
  \/ queued[n] # <<>>

\* n is performing a reload and has not loaded the site yet.
IsReloading(n) == \E h \in Handlers : thread[n][h].step \in {"wait", "read", "acquire"}

\* A node expects nothing any more and has another version of the site than
\* the database for one reason only: its last reload failed before the new
\* version was in the site map.  Nothing else leaves it behind, although
\* events pile up behind each other, quorums are missed, loads fail later than
\* that and the site changes again between any two steps.  (Where nodes perform
\* one event at a time, administrators' loads do not fail and their nodes stay.)
NobodyLeftBehind ==
  \A n \in Here \ Admins :
    ~ReloadIsComing(n) /\ ~IsReloading(n) => loaded[n] = db \/ n \in abandoned

\* Every ReloadSiteEvent is performed to its end: a receiver that waits for
\* the STARTED of a node that has left, or whose message is behind it in the
\* inbox, gives up.
HandlersEnd ==
  \A n \in Nodes, h \in Handlers : thread[n][h] # Idle ~> thread[n][h] = Idle

\* When the reloads are over, every node that loads only what its receiver
\* is told to has loaded the version of the site that is in the database, but
\* for nodes whose last reload failed before it was in the site map, where
\* administrators' loads do not fail and their nodes stay.  (On an
\* administrator's own node an event may be overtaken: the versions of both
\* loads are read before the monitor of loadSite is entered.)
AllCurrent == <>[](\A n \in Here \ Admins : loaded[n] = db \/ n \in abandoned)

=============================================================================
