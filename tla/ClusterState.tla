--------------------------- MODULE ClusterState ---------------------------
(***************************************************************************)
(* What the nodes of a cluster know of ONE site on each other.             *)
(*                                                                         *)
(* Every node keeps a map from node ids to NodeStates (the platform        *)
(* attribute "nodeState").  Its own entry is written by SiteImpl.setState  *)
(* and, where it is missing, by the constructor of NodeEvent; the entries  *)
(* of the others are written by the events it receives: SiteStateEvents,   *)
(* which SiteImpl.setState sends (a STARTED one only after a delay), the   *)
(* NodeEvents of the HeartBeat thread, the answers to RequestNodeState,    *)
(* and the ShutdownEvent of a node that leaves.  ReloadSiteEvent relies on *)
(* this map when it decides whether a node may take its site down.         *)
(*                                                                         *)
(* One inbox per node stands for the topic, queue or socket: broadcasts of *)
(* one node arrive in the order they were published, or are lost where the *)
(* transport is UDP.                                                       *)
(***************************************************************************)
EXTENDS Naturals, Sequences, FiniteSets

CONSTANTS
  Nodes,         \* node ids
  Changing,      \* the nodes whose site is loaded, stopped or deleted
  Booted,        \* start with the site loaded on every node, or on none
  Setters,       \* threads of a node that call SiteImpl.setState
  States,        \* the site states in play
  MaxChanges,    \* bound: calls of setState, over all nodes
  MaxAsks,       \* bound: RequestNodeState events sent
  MaxDepartures, \* bound: shutdowns of a node
  MaxInbox,      \* bound: a heartbeat is due only to inboxes shorter than this
  Lossy,         \* messages may be lost (MulticastSender)
  Hazelcast      \* membership changes are noticed (HazelcastConfigurer)

ASSUME ClusterAssumption ==
  /\ Changing \subseteq Nodes
  /\ States \subseteq {"STARTING", "STARTED", "STOPPED", "DELETED"}
  /\ "STARTED" \in States
  /\ {MaxChanges, MaxAsks, MaxDepartures, MaxInbox} \subseteq Nat
  /\ {Booted, Lossy, Hazelcast} \subseteq BOOLEAN

\* What a NodeState says of the site: "none" if it does not mention it.
Entries == (States \ {"DELETED"}) \cup {"none"}

\* What a map says of a node: "unknown" if it has no NodeState.
Knowledge == Entries \cup {"unknown"}

\* The site map holds a site in one of the States, or no site.
Mapped == States \cup {"none"}

Messages ==
  [type : {"siteState"}, from : Nodes, state : States]
    \cup [type : {"nodeState"}, from : Nodes, state : Entries]
    \cup [type : {"request", "shutdown"}, from : Nodes]

VARIABLES
  object,  \* state of the site in the node's site map, or "none"
  view,    \* view[n][m]: what n knows of m
  setter,  \* setter[n][k]: step of a thread in setState, and its last state
  beat,    \* step of the HeartBeat thread, and the state it has read
  phase,   \* "up", "stopped" (SITES removed), "left" (goodbye sent), "down"
  inbox,   \* events not yet handled
  budget,  \* calls, requests and shutdowns the bounds still allow
  missed,  \* missed[n]: departures the membership listener of n must notice
  had,     \* history: what the own entry of each node ever was
  late     \* history: nodes that published something after their goodbye

vars == <<object, view, setter, beat, phase, inbox, budget, missed, had, late>>

ClusterTypeOK ==
  /\ object \in [Nodes -> Mapped]
  /\ view \in [Nodes -> [Nodes -> Knowledge]]
  /\ setter \in [Nodes -> [Setters -> [step : {"idle", "set", "recorded"},
                                       state : Mapped]]]
  /\ beat \in [Nodes -> [step : {"asleep", "picked", "read", "filling",
                                 "built", "dead"},
                         state : Mapped]]
  /\ phase \in [Nodes -> {"up", "stopped", "left", "down"}]
  /\ inbox \in [Nodes -> Seq(Messages)]
  /\ budget \in [changes : 0..MaxChanges, asks : 0..MaxAsks,
                 departures : 0..MaxDepartures]
  /\ missed \in [Nodes -> SUBSET Nodes]
  /\ had \in [Nodes -> SUBSET Entries]
  /\ late \subseteq Nodes

Idle == [step |-> "idle", state |-> "none"]
Asleep == [step |-> "asleep", state |-> "none"]

InitialEntry == IF Booted THEN "STARTED" ELSE "none"

\* The nodes have not heard of each other.
Init ==
  /\ object = [n \in Nodes |-> InitialEntry]
  /\ view = [n \in Nodes |->
               [m \in Nodes |-> IF m = n THEN InitialEntry ELSE "unknown"]]
  /\ setter = [n \in Nodes |-> [k \in Setters |-> Idle]]
  /\ beat = [n \in Nodes |-> Asleep]
  /\ phase = [n \in Nodes |-> "up"]
  /\ inbox = [n \in Nodes |-> <<>>]
  /\ budget = [changes |-> MaxChanges, asks |-> MaxAsks,
               departures |-> MaxDepartures]
  /\ missed = [n \in Nodes |-> {}]
  /\ had = [n \in Nodes |-> {InitialEntry}]
  /\ late = {}

-----------------------------------------------------------------------------
(* Publishing and the node's own entry.                                    *)

Others(n) == {m \in Nodes \ {n} : phase[m] # "down"}

\* The serializer stamps every event with the id of the node it leaves from;
\* receivers ignore their own.
Deliver(n, message, receivers) ==
  /\ inbox' = [m \in Nodes |-> IF m \in receivers THEN Append(inbox[m], message)
                                                  ELSE inbox[m]]
  /\ late' = IF phase[n] = "left" THEN late \cup {n} ELSE late

Publish(n, message) ==
  /\ phase[n] # "down"
  /\ \E receivers \in SUBSET Others(n) :
       /\ Lossy \/ receivers = Others(n)
       /\ Deliver(n, message, receivers)

\* Variant: a deleted site keeps its place in the map.
ReportedAlways(s) == s

Reported(s) == IF s = "DELETED" THEN "none" ELSE s

\* Every change of n's own entry.
SetOwnEntry(n, entry) ==
  /\ view' = [view EXCEPT ![n][n] = entry]
  /\ had' = [had EXCEPT ![n] = @ \cup {entry}]

-----------------------------------------------------------------------------
(* SiteImpl.setState, called by the threads that load, stop and delete.    *)

\* Where the callers call it: a thread loads (STARTING, then STARTED whatever
\* has happened meanwhile), stops, and deletes what it has stopped.
Calls(n, k) ==
  LET last == setter[n][k].state
  IN {s \in States :
        \/ s = "STARTING" /\ object[n] \in {"none", "STOPPED"}
             /\ \A j \in Setters : setter[n][j].state # "STARTING"
        \/ s = "STARTED" /\ last = "STARTING"
        \/ s = "STOPPED" /\ last # "STARTING" /\ object[n] # "none"
        \/ s = "DELETED" /\ last = "STOPPED" /\ object[n] # "none"}

\* this.state.set(state).  A load calls it before the site map has the object.
SetState(n, k) ==
  /\ n \in Changing
  /\ phase[n] = "up"
  /\ budget.changes > 0
  /\ setter[n][k].step = "idle"
  /\ \E s \in Calls(n, k) :
       /\ setter' = [setter EXCEPT ![n][k] = [step |-> "set", state |-> s]]
       /\ object' = IF s = "STARTING" \/ object[n] = "none" THEN object
                                                 ELSE [object EXCEPT ![n] = s]
  /\ budget' = [budget EXCEPT !.changes = @ - 1]
  /\ UNCHANGED <<view, beat, phase, inbox, missed, had, late>>

\* event.handleSiteState(env): the node's own entry.
Record(n, k) ==
  /\ setter[n][k].step = "set"
  /\ setter' = [setter EXCEPT ![n][k].step = "recorded"]
  /\ SetOwnEntry(n, Reported(setter[n][k].state))
  /\ UNCHANGED <<object, beat, phase, inbox, budget, missed, late>>

\* The caller puts what it loads into the site map, or removes what it deletes.
AfterCall(mapped, s) ==
  IF s = "DELETED" THEN "none"
  ELSE IF s = "STARTING" \/ (s = "STARTED" /\ mapped = "none") THEN s
  ELSE mapped

\* sendEvent, for STARTED after the delay, and the end of the call.
Announce(n, k) ==
  /\ setter[n][k].step = "recorded"
  /\ setter' = [setter EXCEPT ![n][k].step = "idle"]
  /\ Publish(n, [type |-> "siteState", from |-> n, state |-> setter[n][k].state])
  /\ object' = [object EXCEPT ![n] = AfterCall(@, setter[n][k].state)]
  /\ UNCHANGED <<view, beat, phase, budget, missed, had>>

-----------------------------------------------------------------------------
(* The HeartBeat thread.                                                   *)

\* The constructor of NodeEvent iterates over the names in the site map.
PickSite(n) ==
  /\ phase[n] = "up"
  /\ beat[n].step = "asleep"
  /\ \A m \in Others(n) : Len(inbox[m]) < MaxInbox
  /\ beat' = [beat EXCEPT ![n].step = IF object[n] = "none" THEN "read"
                                                           ELSE "picked"]
  /\ UNCHANGED <<object, view, setter, phase, inbox, budget, missed, had, late>>

\* It gets the site and reads its state.  A site that was removed in between
\* is null: the exception ends the thread.
ReadSite(n) ==
  /\ beat[n].step = "picked"
  /\ beat' = [beat EXCEPT ![n] = [step |-> IF object[n] = "none" THEN "dead"
                                                                ELSE "read",
                                 state |-> object[n]]]
  /\ UNCHANGED <<object, view, setter, phase, inbox, budget, missed, had, late>>

\* Variant: the constructor overwrites an entry that is there.
FillsAlways(entry, read) == read \notin {"none", "DELETED"}

\* It adds a site the map does not mention, unless that is deleted.
Fills(entry, read) == entry = "none" /\ read \notin {"none", "DELETED"}

\* containsKey: the map does not mention the site it has read.
FindMissing(n) ==
  /\ beat[n].step = "read"
  /\ Fills(view[n][n], beat[n].state)
  /\ beat' = [beat EXCEPT ![n].step = "filling"]
  /\ UNCHANGED <<object, view, setter, phase, inbox, budget, missed, had, late>>

\* It puts what was missing, whatever the entry has become meanwhile, and
\* serializes the map.
BuildBeat(n) ==
  /\ \/ beat[n].step = "read" /\ ~Fills(view[n][n], beat[n].state)
     \/ beat[n].step = "filling"
  /\ LET entry == IF beat[n].step = "filling" THEN beat[n].state ELSE view[n][n]
     IN /\ SetOwnEntry(n, entry)
        /\ beat' = [beat EXCEPT ![n] = [step |-> "built", state |-> entry]]
  /\ UNCHANGED <<object, setter, phase, inbox, budget, missed, late>>

PublishBeat(n, receivers) ==
  /\ phase[n] # "down"
  /\ beat[n].step = "built"
  /\ beat' = [beat EXCEPT ![n] = Asleep]
  /\ Deliver(n, [type |-> "nodeState", from |-> n, state |-> beat[n].state],
             receivers)
  /\ UNCHANGED <<object, view, setter, phase, budget, missed, had>>

SendBeat(n) == PublishBeat(n, Others(n))

LoseBeat(n) ==
  /\ Lossy
  /\ \E receivers \in (SUBSET Others(n)) \ {Others(n)} : PublishBeat(n, receivers)

-----------------------------------------------------------------------------
(* Receiving: Messaging.handleEvent and Event.perform.                     *)

\* An application asks the other nodes for their state.
Ask(n) ==
  /\ phase[n] = "up"
  /\ budget.asks > 0
  /\ budget' = [budget EXCEPT !.asks = @ - 1]
  /\ Publish(n, [type |-> "request", from |-> n])
  /\ UNCHANGED <<object, view, setter, beat, phase, missed, had>>

Receives(n, type) ==
  /\ phase[n] # "down"
  /\ inbox[n] # <<>>
  /\ Head(inbox[n]).type = type

Handled(n) ==
  /\ inbox' = [inbox EXCEPT ![n] = Tail(@)]
  /\ UNCHANGED <<object, setter, beat, phase, budget, missed, had, late>>

\* Variant: the handler takes the id of its own node.
OriginHere(n) == n

\* The node id in the event.
Origin(n) == Head(inbox[n]).from

ReceiveSiteState(n) ==
  /\ Receives(n, "siteState")
  /\ view' = [view EXCEPT ![n][Origin(n)] = Reported(Head(inbox[n]).state)]
  /\ Handled(n)

\* Variant: only an unknown node gets an entry (putIfAbsent).
EntryKept(known, told) == IF known = "unknown" THEN told ELSE known

\* NodeEvent.perform replaces the entry.
EntryTold(known, told) == told

ReceiveNodeState(n) ==
  /\ Receives(n, "nodeState")
  /\ view' = [view EXCEPT ![n][Origin(n)] = EntryTold(@, Head(inbox[n]).state)]
  /\ Handled(n)

\* Variant: the goodbye is taken for a node without sites.
EntryAfterShutdown == "none"

EntryGone == "unknown"

ReceiveShutdown(n) ==
  /\ Receives(n, "shutdown")
  /\ view' = [view EXCEPT ![n][Origin(n)] = EntryGone]
  /\ Handled(n)

\* RequestNodeState.perform builds a NodeEvent for the id of the node that
\* ASKED: it completes n's map of that node with n's own site, and sends it.
\* With SITES removed the constructor fails and nothing is sent.
Answer(n) ==
  /\ Receives(n, "request")
  /\ LET asker == Origin(n)
         known == IF view[n][asker] = "unknown" THEN "none" ELSE view[n][asker]
         entry == IF Fills(known, object[n]) THEN object[n] ELSE known
         answer == [type |-> "nodeState", from |-> n, state |-> entry]
         rest == [inbox EXCEPT ![n] = Tail(@)]
     IN IF phase[n] = "up"
        THEN /\ view' = [view EXCEPT ![n][asker] = entry]
             /\ \E receivers \in SUBSET Others(n) :
                  /\ Lossy \/ receivers = Others(n)
                  /\ inbox' = [m \in Nodes |-> IF m \in receivers
                                               THEN Append(rest[m], answer)
                                               ELSE rest[m]]
        ELSE /\ view' = [view EXCEPT ![n][asker] = known]
             /\ inbox' = rest
  /\ UNCHANGED <<object, setter, beat, phase, budget, missed, had, late>>

Receive(n) ==
  ReceiveSiteState(n) \/ ReceiveNodeState(n) \/ ReceiveShutdown(n) \/ Answer(n)

-----------------------------------------------------------------------------
(* PlatformStartup.contextDestroyed, and the membership listener.          *)

\* shutdownPlatform has stopped the site and removes SITES.
StopPlatform(n) ==
  /\ phase[n] = "up"
  /\ budget.departures > 0
  /\ object[n] \in {"STOPPED", "none"}
  /\ budget' = [budget EXCEPT !.departures = @ - 1]
  /\ object' = [object EXCEPT ![n] = "none"]
  /\ phase' = [phase EXCEPT ![n] = "stopped"]
  /\ UNCHANGED <<view, setter, beat, inbox, missed, had, late>>

SayGoodbye(n) ==
  /\ phase[n] = "stopped"
  /\ phase' = [phase EXCEPT ![n] = "left"]
  /\ Publish(n, [type |-> "shutdown", from |-> n])
  /\ UNCHANGED <<object, view, setter, beat, budget, missed, had>>

\* Messaging.shutdown and HazelcastConfigurer.shutdown: the threads of the
\* node can send no more.
Close(n) ==
  /\ phase[n] = "left"
  /\ phase' = [phase EXCEPT ![n] = "down"]
  /\ object' = [object EXCEPT ![n] = "none"]
  /\ setter' = [setter EXCEPT ![n] = [k \in Setters |-> Idle]]
  /\ beat' = [beat EXCEPT ![n] = Asleep]
  /\ inbox' = [inbox EXCEPT ![n] = <<>>]
  /\ view' = [view EXCEPT ![n] = [m \in Nodes |-> "unknown"]]
  /\ missed' = IF Hazelcast THEN [m \in Nodes |-> missed[m] \cup ({n} \ {m})]
                            ELSE missed
  /\ UNCHANGED <<budget, had, late>>

\* memberRemoved, on a thread of Hazelcast: not ordered with the topic.
MemberRemoved(n, m) ==
  /\ m \in missed[n]
  /\ phase[n] # "down"
  /\ missed' = [missed EXCEPT ![n] = @ \ {m}]
  /\ view' = [view EXCEPT ![n][m] = EntryGone]
  /\ UNCHANGED <<object, setter, beat, phase, inbox, budget, had, late>>

-----------------------------------------------------------------------------

SetterStep(n) == \E k \in Setters : Record(n, k) \/ Announce(n, k)

BeatStep(n) == PickSite(n) \/ ReadSite(n) \/ FindMissing(n) \/ BuildBeat(n)

Next ==
  \E n \in Nodes :
     \/ \E k \in Setters : SetState(n, k)
     \/ SetterStep(n) \/ BeatStep(n) \/ SendBeat(n) \/ LoseBeat(n)
     \/ Ask(n) \/ Receive(n)
     \/ StopPlatform(n) \/ SayGoodbye(n) \/ Close(n)
     \/ \E m \in Nodes : MemberRemoved(n, m)

Spec == Init /\ [][Next]_vars

\* Threads in a call go on, receivers handle what has arrived, the HeartBeat
\* never stops, and not all of its datagrams are lost.
FairSpec ==
  /\ Spec
  /\ \A n \in Nodes : /\ WF_vars(SetterStep(n))
                      /\ WF_vars(BeatStep(n))
                      /\ WF_vars(Receive(n))
                      /\ SF_vars(SendBeat(n))

-----------------------------------------------------------------------------
(* What the map of a node promises.                                        *)

Known(n, m) == phase[n] # "down" /\ view[n][m] # "unknown"

\* Nothing on n is about to change or publish its own entry.
Quiet(n) ==
  /\ beat[n].step \in {"asleep", "dead"}
  /\ \A k \in Setters : setter[n][k].step = "idle"

\* What a node believes of another was once written in that node's own
\* entry, however events are lost, delayed or overtake each other.
ReportsWereTrue == \A n, m \in Nodes : Known(n, m) => view[n][m] \in had[m]

\* Between two calls of setState the entry a node announces is the state of
\* the site in its site map; a node without the site announces none.
OwnEntryTrue ==
  \A n \in Nodes : phase[n] = "up" /\ Quiet(n)
                      => view[n][n] = Reported(object[n])

\* The heartbeats of a node that is up never end.
HeartBeatLives == \A n \in Nodes : phase[n] = "up" => beat[n].step # "dead"

\* A node that has shut down is gone from every map, when all events are
\* handled; only what it published after its ShutdownEvent brings it back.
DepartedForgotten ==
  \A n, m \in Nodes :
     /\ phase[m] = "down" /\ inbox[n] = <<>> /\ m \notin late
     => ~Known(n, m)

\* When the changes are over, heartbeats bring every map in line with what
\* the nodes say of themselves, though SiteStateEvents were lost or a STARTED
\* was sent after the STOPPED that followed it; unless the deletion of the
\* site has ended the heartbeats.
Converges ==
  \A n, m \in Nodes : <>[](view[n][m] = view[m][m] \/ beat[m].step = "dead")

=============================================================================
