------------------------ MODULE ClusterStateProofs ------------------------
(***************************************************************************)
(* Proofs about ClusterState, for any set of nodes and threads: its type   *)
(* invariant; that without RequestNodeState no node ever believes of       *)
(* another what that node did not write in its own entry, whatever is      *)
(* lost, delayed or overtaken, and whoever leaves; that a node which left  *)
(* is forgotten; and that a node's own entry follows the state of its site *)
(* where one thread at a time changes it.                                  *)
(***************************************************************************)
EXTENDS ClusterState, SequenceTheorems, TLAPS

\* What can be in the inbox of n: receivers ignore the events of their node.
Foreign(n) == {message \in Messages : message.from # n}

\* A node that runs has an own entry, which only the closing removes; a node
\* that is down does nothing.
NodesAreSound ==
  /\ \A n \in Nodes : phase[n] # "down" => view[n][n] # "unknown"
  /\ \A n \in Nodes : phase[n] = "down" =>
        /\ beat[n].step = "asleep"
        /\ \A k \in Setters : setter[n][k].step = "idle"
  /\ \A n \in Nodes : inbox[n] \in Seq(Foreign(n)) /\ n \notin missed[n]
  /\ \A n \in Nodes, k \in Setters :
        setter[n][k].step # "idle" => setter[n][k].state \in States
  /\ \A n \in Nodes : beat[n].step \in {"filling", "built"} => beat[n].state \in Entries

TypeInv == ClusterTypeOK /\ NodesAreSound

\* The nodes boot idle, with their own entry and empty inboxes.
LEMMA ClusterInitTyped == Init => TypeInv
<1> SUFFICES ASSUME Init PROVE TypeInv
  OBVIOUS
<1>1. InitialEntry \in Entries /\ InitialEntry \in Mapped
  BY ClusterAssumption DEF InitialEntry, Entries, Mapped
<1>2. <<>> \in Seq(Messages) /\ \A n \in Nodes : <<>> \in Seq(Foreign(n))
  BY EmptySeq
<1>3. budget \in [changes : 0..MaxChanges, asks : 0..MaxAsks,
                  departures : 0..MaxDepartures]
  BY ClusterAssumption DEF Init
<1>4. Idle.step = "idle" /\ Idle.state = "none" /\ Asleep.step = "asleep" /\ Asleep.state = "none"
  BY DEF Idle, Asleep
<1>5. \A n \in Nodes : beat[n].step = "asleep" /\ \A k \in Setters : setter[n][k].step = "idle"
  BY <1>4 DEF Init
<1>6. setter \in [Nodes -> [Setters -> [step : {"idle", "set", "recorded"}, state : Mapped]]]
  BY DEF Init, Idle, Mapped
<1>7. beat \in [Nodes -> [step : {"asleep", "picked", "read", "filling", "built", "dead"},
                          state : Mapped]]
  BY DEF Init, Asleep, Mapped
<1>8. ClusterTypeOK
  BY <1>1, <1>2, <1>3, <1>6, <1>7 DEF Init, ClusterTypeOK, Knowledge
<1>9. NodesAreSound
  <2>1. \A n \in Nodes : view[n][n] # "unknown"
    BY DEF Init, InitialEntry
  <2> QED
    BY <2>1, <1>2, <1>5 DEF Init, NodesAreSound
<1> QED
  BY <1>8, <1>9 DEF TypeInv

\* Deliver: a published event is foreign to all who receive it.
LEMMA DeliverTyped ==
  ASSUME TypeInv, NEW n \in Nodes, NEW message \in Messages,
         message.from = n, NEW receivers \in SUBSET Others(n),
         Deliver(n, message, receivers)
  PROVE  /\ inbox' \in [Nodes -> Seq(Messages)]
         /\ \A m \in Nodes : inbox'[m] \in Seq(Foreign(m))
         /\ late' \subseteq Nodes
<1>1. ASSUME NEW m \in Nodes
      PROVE  inbox'[m] \in Seq(Foreign(m)) /\ inbox'[m] \in Seq(Messages)
  <2>1. inbox[m] \in Seq(Foreign(m)) /\ inbox[m] \in Seq(Messages)
    BY DEF TypeInv, ClusterTypeOK, NodesAreSound
  <2>2. CASE m \in receivers
    <3>1. message \in Foreign(m)
      BY <2>2 DEF Others, Foreign
    <3>2. inbox'[m] = Append(inbox[m], message)
      BY <2>2 DEF Deliver
    <3> QED
      BY <2>1, <3>1, <3>2, AppendProperties
  <2>3. CASE m \notin receivers
    BY <2>1, <2>3 DEF Deliver
  <2> QED
    BY <2>2, <2>3
<1>2. inbox' \in [Nodes -> Seq(Messages)]
  BY <1>1 DEF Deliver
<1>3. late' \subseteq Nodes
  BY DEF Deliver, TypeInv, ClusterTypeOK
<1> QED
  BY <1>1, <1>2, <1>3

\* Handling the first event of an inbox.
LEMMA HandledTyped ==
  ASSUME TypeInv, NEW n \in Nodes, inbox[n] # <<>>
  PROVE  /\ Head(inbox[n]) \in Foreign(n)
         /\ Tail(inbox[n]) \in Seq(Foreign(n))
         /\ Tail(inbox[n]) \in Seq(Messages)
         /\ Origin(n) \in Nodes \ {n}
<1>1. inbox[n] \in Seq(Foreign(n)) /\ inbox[n] \in Seq(Messages)
  BY DEF TypeInv, ClusterTypeOK, NodesAreSound
<1>2. Head(inbox[n]) \in Foreign(n) /\ Tail(inbox[n]) \in Seq(Foreign(n)) /\ Tail(inbox[n]) \in Seq(Messages)
  BY <1>1, HeadTailProperties
<1>3. \A message \in Messages : message.from \in Nodes
  BY DEF Messages
<1> QED
  BY <1>2, <1>3 DEF Foreign, Origin

-----------------------------------------------------------------------------
(* The steps of SiteImpl.setState.                                         *)

\* SetState, Record and Announce keep the types, and only run on a node
\* that is not down.
LEMMA SetterTyped ==
  ASSUME TypeInv, NEW n \in Nodes, NEW k \in Setters,
         SetState(n, k) \/ Record(n, k) \/ Announce(n, k)
  PROVE  TypeInv'
<1> USE DEF TypeInv
<1>0. setter[n][k].state \in Mapped /\ setter[n][k].state \in States \cup {"none"}
  BY DEF ClusterTypeOK, Mapped
<1>4. ASSUME NEW step \in {"idle", "recorded"}, setter[n][k].step # "idle",
             setter' = [setter EXCEPT ![n][k].step = step]
      PROVE  /\ setter' \in [Nodes -> [Setters -> [step : {"idle", "set", "recorded"},
                                                   state : Mapped]]]
             /\ \A m \in Nodes, j \in Setters :
                   setter'[m][j].step # "idle" => setter'[m][j].state \in States
  <2> DEFINE new == [setter[n][k] EXCEPT !.step = step]
  <2>1. setter[n][k] \in [step : {"idle", "set", "recorded"}, state : Mapped]
    BY DEF ClusterTypeOK
  <2>2. /\ new \in [step : {"idle", "set", "recorded"}, state : Mapped]
        /\ new.state = setter[n][k].state
    BY <2>1
  <2>3. setter' = [setter EXCEPT ![n] = [setter[n] EXCEPT ![k] = new]]
    BY <1>4
  <2> HIDE DEF new
  <2>4. \A m \in Nodes, j \in Setters :
           setter'[m][j] = IF m = n /\ j = k THEN new ELSE setter[m][j]
    BY <2>3 DEF ClusterTypeOK
  <2>5. \A m \in Nodes, j \in Setters :
           setter'[m][j].step # "idle" => setter'[m][j].state \in States
    BY <1>4, <2>2, <2>4 DEF NodesAreSound
  <2> QED
    BY <2>2, <2>3, <2>5 DEF ClusterTypeOK
<1>1. CASE SetState(n, k)
  <2>1. PICK s \in States :
          /\ setter' = [setter EXCEPT ![n][k] = [step |-> "set", state |-> s]]
          /\ object' = IF s = "STARTING" \/ object[n] = "none" THEN object
                                                 ELSE [object EXCEPT ![n] = s]
    BY <1>1 DEF SetState, Calls
  <2>2. [step |-> "set", state |-> s] \in [step : {"idle", "set", "recorded"}, state : Mapped]
    BY DEF Mapped
  <2>3. setter' \in [Nodes -> [Setters -> [step : {"idle", "set", "recorded"}, state : Mapped]]]
    BY <2>1, <2>2 DEF ClusterTypeOK
  <2>4. object' \in [Nodes -> Mapped]
    BY <2>1 DEF ClusterTypeOK, Mapped
  <2>5. budget' \in [changes : 0..MaxChanges, asks : 0..MaxAsks,
                     departures : 0..MaxDepartures]
    <3>1. budget.changes - 1 \in 0..MaxChanges
      BY <1>1, ClusterAssumption DEF SetState, ClusterTypeOK
    <3> QED
      BY <1>1, <3>1 DEF SetState, ClusterTypeOK
  <2>6. ClusterTypeOK'
    BY <1>1, <2>3, <2>4, <2>5 DEF SetState, ClusterTypeOK
  <2>7. \A m \in Nodes : phase[m] = "down" => \A j \in Setters : setter'[m][j] = setter[m][j]
    BY <1>1, <2>1 DEF SetState, ClusterTypeOK
  <2>8. NodesAreSound'
    <3>1. \A m \in Nodes, j \in Setters :
             setter'[m][j].step # "idle" => setter'[m][j].state \in States
      BY <2>1 DEF ClusterTypeOK, NodesAreSound
    <3> QED
      BY <1>1, <2>7, <3>1 DEF SetState, NodesAreSound
  <2> QED
    BY <2>6, <2>8
<1>2. CASE Record(n, k)
  <2>1. phase[n] # "down"
    BY <1>2 DEF Record, NodesAreSound
  <2>2. setter[n][k].state # "none" => Reported(setter[n][k].state) \in Entries
    BY <1>0 DEF Reported, Entries
  <2>3. Reported(setter[n][k].state) \in Entries
    BY <1>0 DEF Reported, Entries
  <2>4. setter' \in [Nodes -> [Setters -> [step : {"idle", "set", "recorded"}, state : Mapped]]]
    BY <1>2, <1>4 DEF Record
  <2>5. view' \in [Nodes -> [Nodes -> Knowledge]] /\ had' \in [Nodes -> SUBSET Entries]
    BY <1>2, <2>3 DEF Record, SetOwnEntry, ClusterTypeOK, Knowledge
  <2>6. ClusterTypeOK'
    BY <1>2, <2>4, <2>5 DEF Record, ClusterTypeOK
  <2>7. \A m \in Nodes : phase[m] = "down" => \A j \in Setters : setter'[m][j] = setter[m][j]
    BY <1>2, <2>1 DEF Record, ClusterTypeOK
  <2>8. \A m \in Nodes : view'[m][m] # "unknown" \/ view'[m][m] = view[m][m]
    <3>1. Reported(setter[n][k].state) # "unknown"
      BY <2>3, ClusterAssumption DEF Entries
    <3> QED
      BY <1>2, <3>1 DEF Record, SetOwnEntry, ClusterTypeOK
  <2>9. NodesAreSound'
    <3>1. \A m \in Nodes : phase[m] # "down" => view'[m][m] # "unknown"
      BY <2>8 DEF NodesAreSound
    <3>2. \A m \in Nodes, j \in Setters :
             setter'[m][j].step # "idle" => setter'[m][j].state \in States
      BY <1>2, <1>4 DEF Record
    <3> QED
      BY <1>2, <2>7, <3>1, <3>2 DEF Record, NodesAreSound
  <2> QED
    BY <2>6, <2>9
<1>3. CASE Announce(n, k)
  <2> DEFINE message == [type |-> "siteState", from |-> n, state |-> setter[n][k].state]
  <2>1. phase[n] # "down"
    BY <1>3 DEF Announce, Publish
  <2>2. PICK receivers \in SUBSET Others(n) : Deliver(n, message, receivers)
    BY <1>3 DEF Announce, Publish
  <2>3. setter' \in [Nodes -> [Setters -> [step : {"idle", "set", "recorded"}, state : Mapped]]]
    BY <1>3, <1>4 DEF Announce
  <2>4. AfterCall(object[n], setter[n][k].state) \in Mapped
    BY <1>0 DEF AfterCall, Mapped, ClusterTypeOK
  <2>5. object' \in [Nodes -> Mapped]
    BY <1>3, <2>4 DEF Announce, ClusterTypeOK
  <2>6. message \in Messages /\ message.from = n
    BY <1>3 DEF Announce, NodesAreSound, Messages
  <2> HIDE DEF message
  <2>7. /\ inbox' \in [Nodes -> Seq(Messages)]
        /\ \A m \in Nodes : inbox'[m] \in Seq(Foreign(m))
        /\ late' \subseteq Nodes
    BY <2>2, <2>6, DeliverTyped
  <2>8. ClusterTypeOK'
    BY <1>3, <2>3, <2>5, <2>7 DEF Announce, ClusterTypeOK
  <2>9. \A m \in Nodes : phase[m] = "down" => \A j \in Setters : setter'[m][j] = setter[m][j]
    BY <1>3, <2>1 DEF Announce, ClusterTypeOK
  <2>10. NodesAreSound'
    BY <1>3, <1>4, <2>7, <2>9 DEF Announce, NodesAreSound
  <2> QED
    BY <2>8, <2>10
<1> QED
  BY <1>1, <1>2, <1>3

-----------------------------------------------------------------------------
(* The heartbeat, and the events it and the others bring.                  *)

\* HeartBeat.run and the constructor of NodeEvent keep the types.
LEMMA BeatTyped ==
  ASSUME TypeInv, NEW n \in Nodes,
         BeatStep(n) \/ SendBeat(n) \/ LoseBeat(n)
  PROVE  TypeInv'
<1> USE DEF TypeInv
<1>1. CASE PickSite(n)
  <2>1. beat[n].step = "asleep"
    BY <1>1 DEF PickSite
  <2> DEFINE new == [beat[n] EXCEPT !.step = IF object[n] = "none" THEN "read" ELSE "picked"]
  <2>2. new \in [step : {"asleep", "picked", "read", "filling", "built", "dead"}, state : Mapped]
    <3>1. beat[n] \in [step : {"asleep", "picked", "read", "filling", "built", "dead"}, state : Mapped]
      BY DEF ClusterTypeOK
    <3>2. (IF object[n] = "none" THEN "read" ELSE "picked")
             \in {"asleep", "picked", "read", "filling", "built", "dead"}
      OBVIOUS
    <3> QED
      BY <3>1, <3>2
  <2>3. beat' = [beat EXCEPT ![n] = new]
    BY <1>1 DEF PickSite
  <2> HIDE DEF new
  <2>4. ClusterTypeOK'
    <3>1. beat' \in [Nodes -> [step : {"asleep", "picked", "read", "filling", "built", "dead"},
                              state : Mapped]]
      BY <2>2, <2>3 DEF ClusterTypeOK
    <3>2. UNCHANGED <<object, view, setter, phase, inbox, budget, missed, had, late>>
      BY <1>1 DEF PickSite
    <3> QED
      BY <3>1, <3>2 DEF ClusterTypeOK
  <2>5. NodesAreSound'
    <3>1. new.step \in {"read", "picked"}
      BY DEF new, ClusterTypeOK
    <3>2. phase[n] # "down"
      BY <1>1 DEF PickSite
    <3> QED
      BY <1>1, <2>3, <3>1, <3>2 DEF PickSite, NodesAreSound, ClusterTypeOK
  <2> QED
    BY <2>4, <2>5
<1>2. CASE ReadSite(n)
  <2>1. object[n] \in Mapped
    BY DEF ClusterTypeOK
  <2>2. ClusterTypeOK'
    BY <1>2, <2>1 DEF ReadSite, ClusterTypeOK
  <2>3. phase[n] # "down"
    BY <1>2 DEF ReadSite, NodesAreSound
  <2>4. NodesAreSound'
    BY <1>2, <2>3 DEF ReadSite, NodesAreSound, ClusterTypeOK
  <2> QED
    BY <2>2, <2>4
<1>3. CASE FindMissing(n)
  <2>1. phase[n] # "down" /\ beat[n].state \in Entries
    BY <1>3 DEF FindMissing, Fills, NodesAreSound, ClusterTypeOK, Mapped, Entries
  <2>2. beat' = [beat EXCEPT ![n].step = "filling"]
        /\ UNCHANGED <<object, view, setter, phase, inbox, budget, missed, had, late>>
    BY <1>3 DEF FindMissing
  <2>3. ClusterTypeOK'
    BY <2>2 DEF ClusterTypeOK
  <2>4. NodesAreSound'
    BY <2>1, <2>2 DEF NodesAreSound, ClusterTypeOK
  <2> QED
    BY <2>3, <2>4
<1>4. CASE BuildBeat(n)
  <2> DEFINE entry == IF beat[n].step = "filling" THEN beat[n].state ELSE view[n][n]
  <2>1. phase[n] # "down"
    BY <1>4 DEF BuildBeat, NodesAreSound
  <2>2. /\ view[n][n] \in Entries \cup {"unknown"} /\ view[n][n] # "unknown"
        /\ beat[n].state \in States \cup {"none"}
    BY <2>1 DEF ClusterTypeOK, NodesAreSound, Knowledge, Mapped
  <2>3. entry \in Entries /\ entry # "unknown" /\ entry \in Mapped
    BY <2>1, <2>2, ClusterAssumption DEF NodesAreSound, Entries, Mapped
  <2>4. /\ SetOwnEntry(n, entry)
        /\ beat' = [beat EXCEPT ![n] = [step |-> "built", state |-> entry]]
    BY <1>4 DEF BuildBeat
  <2> HIDE DEF entry
  <2>5. ClusterTypeOK'
    BY <1>4, <2>3, <2>4 DEF BuildBeat, SetOwnEntry, ClusterTypeOK, Knowledge
  <2>6. \A m \in Nodes : view'[m][m] # "unknown" \/ view'[m][m] = view[m][m]
    BY <2>3, <2>4 DEF SetOwnEntry, ClusterTypeOK
  <2>7. NodesAreSound'
    <3>1. \A m \in Nodes : phase[m] # "down" => view'[m][m] # "unknown"
      BY <2>6 DEF NodesAreSound
    <3>2. \A m \in Nodes : beat'[m].step \in {"filling", "built"} => beat'[m].state \in Entries
      BY <2>3, <2>4 DEF NodesAreSound, ClusterTypeOK
    <3>3. \A m \in Nodes : phase[m] = "down" => beat'[m] = beat[m]
      BY <2>1, <2>4 DEF ClusterTypeOK
    <3> QED
      BY <1>4, <3>1, <3>2, <3>3 DEF BuildBeat, NodesAreSound
  <2> QED
    BY <2>5, <2>7
<1>5. ASSUME NEW receivers \in SUBSET Others(n), PublishBeat(n, receivers)
      PROVE  TypeInv'
  <2> DEFINE message == [type |-> "nodeState", from |-> n, state |-> beat[n].state]
  <2>1. beat[n].state \in Entries
    BY <1>5 DEF PublishBeat, NodesAreSound
  <2>2. message \in Messages /\ message.from = n
    BY <2>1 DEF Messages
  <2>3. Deliver(n, message, receivers)
    BY <1>5 DEF PublishBeat
  <2> HIDE DEF message
  <2>4. /\ inbox' \in [Nodes -> Seq(Messages)]
        /\ \A m \in Nodes : inbox'[m] \in Seq(Foreign(m))
        /\ late' \subseteq Nodes
    BY <2>2, <2>3, DeliverTyped
  <2>5. ClusterTypeOK'
    BY <1>5, <2>4 DEF PublishBeat, ClusterTypeOK, Asleep, Mapped
  <2>6. NodesAreSound'
    BY <1>5, <2>4 DEF PublishBeat, NodesAreSound, ClusterTypeOK, Asleep
  <2> QED
    BY <2>5, <2>6
<1> QED
  BY <1>1, <1>2, <1>3, <1>4, <1>5 DEF BeatStep, SendBeat, LoseBeat

\* The entry a map has of another node changes: what an event handler or the
\* membership listener does to the map keeps the types.
LEMMA ViewTyped ==
  ASSUME TypeInv, NEW n \in Nodes, NEW m \in Nodes \ {n}, NEW known \in Knowledge,
         view' = [view EXCEPT ![n][m] = known]
  PROVE  /\ view' \in [Nodes -> [Nodes -> Knowledge]]
         /\ \A o \in Nodes : view'[o][o] = view[o][o]
BY DEF TypeInv, ClusterTypeOK

\* Messaging.handleEvent: the handlers of the four events keep the types.
LEMMA ReceiveTyped ==
  ASSUME TypeInv, NEW n \in Nodes, Receive(n)
  PROVE  TypeInv'
<1> USE DEF TypeInv
<1>1. inbox[n] # <<>> /\ phase[n] # "down"
  BY DEF Receive, ReceiveSiteState, ReceiveNodeState, ReceiveShutdown, Answer, Receives
<1>2. /\ Head(inbox[n]) \in Foreign(n) /\ Head(inbox[n]) \in Messages
      /\ Tail(inbox[n]) \in Seq(Foreign(n))
      /\ Tail(inbox[n]) \in Seq(Messages)
      /\ Origin(n) \in Nodes \ {n}
  BY <1>1, HandledTyped DEF Foreign
<1>3. ASSUME NEW known \in Knowledge, Handled(n),
             view' = [view EXCEPT ![n][Origin(n)] = known]
      PROVE  TypeInv'
  <2>1. /\ view' \in [Nodes -> [Nodes -> Knowledge]]
        /\ \A o \in Nodes : view'[o][o] = view[o][o]
    BY <1>2, <1>3, ViewTyped
  <2>2. /\ inbox' \in [Nodes -> Seq(Messages)]
        /\ \A m \in Nodes : inbox'[m] \in Seq(Foreign(m))
    BY <1>2, <1>3 DEF Handled, ClusterTypeOK, NodesAreSound
  <2>3. ClusterTypeOK'
    BY <1>3, <2>1, <2>2 DEF Handled, ClusterTypeOK
  <2>4. NodesAreSound'
    BY <1>3, <2>1, <2>2 DEF Handled, NodesAreSound
  <2> QED
    BY <2>3, <2>4
<1>4. CASE ReceiveSiteState(n)
  <2>1. Head(inbox[n]).state \in States
    BY <1>2, <1>4 DEF ReceiveSiteState, Receives, Messages
  <2>2. Reported(Head(inbox[n]).state) \in Knowledge
    BY <2>1 DEF Reported, Knowledge, Entries
  <2> QED
    BY <1>3, <1>4, <2>2 DEF ReceiveSiteState
<1>5. CASE ReceiveNodeState(n)
  <2>1. Head(inbox[n]).state \in Knowledge
    BY <1>2, <1>5 DEF ReceiveNodeState, Receives, Messages, Knowledge
  <2>2. view' = [view EXCEPT ![n][Origin(n)] = Head(inbox[n]).state]
    BY <1>5 DEF ReceiveNodeState, EntryTold
  <2> QED
    BY <1>3, <1>5, <2>1, <2>2 DEF ReceiveNodeState
<1>6. CASE ReceiveShutdown(n)
  BY <1>3, <1>6 DEF ReceiveShutdown, EntryGone, Knowledge
<1>7. CASE Answer(n)
  <2> DEFINE asker == Origin(n)
             known == IF view[n][asker] = "unknown" THEN "none" ELSE view[n][asker]
             entry == IF Fills(known, object[n]) THEN object[n] ELSE known
             answer == [type |-> "nodeState", from |-> n, state |-> entry]
             rest == [inbox EXCEPT ![n] = Tail(@)]
  <2>1. known \in Entries
    BY <1>2 DEF ClusterTypeOK, Knowledge, Entries
  <2>2. entry \in Entries
    BY <2>1 DEF ClusterTypeOK, Mapped, Fills, Entries
  <2>3. answer \in Messages /\ answer.from = n
    BY <2>2 DEF Messages
  <2>4. /\ rest \in [Nodes -> Seq(Messages)]
        /\ \A m \in Nodes : rest[m] \in Seq(Foreign(m))
    BY <1>2 DEF ClusterTypeOK, NodesAreSound
  <2>5. PICK receivers \in SUBSET Others(n) :
          /\ inbox' = [m \in Nodes |-> IF phase[n] = "up" /\ m \in receivers
                                        THEN Append(rest[m], answer)
                                        ELSE rest[m]]
          /\ view' = [view EXCEPT ![n][asker] = IF phase[n] = "up" THEN entry ELSE known]
          /\ UNCHANGED <<object, setter, beat, phase, budget, missed, had, late>>
    BY <1>7, <2>4 DEF Answer
  <2> HIDE DEF known, entry, answer, rest
  <2>6. /\ view' \in [Nodes -> [Nodes -> Knowledge]]
        /\ \A o \in Nodes : view'[o][o] = view[o][o]
    BY <1>2, <2>1, <2>2, <2>5, ViewTyped DEF Knowledge
  <2>7. ASSUME NEW m \in Nodes
        PROVE  inbox'[m] \in Seq(Foreign(m)) /\ inbox'[m] \in Seq(Messages)
    <3>1. CASE phase[n] = "up" /\ m \in receivers
      <4>1. answer \in Foreign(m)
        BY <2>3, <3>1 DEF Others, Foreign
      <4>2. inbox'[m] = Append(rest[m], answer)
        BY <2>5, <3>1
      <4> QED
        BY <2>3, <2>4, <4>1, <4>2, AppendProperties
    <3>2. CASE ~(phase[n] = "up" /\ m \in receivers)
      BY <2>4, <2>5, <3>2
    <3> QED
      BY <3>1, <3>2
  <2>8. inbox' \in [Nodes -> Seq(Messages)]
    BY <2>5, <2>7
  <2>9. ClusterTypeOK'
    BY <2>5, <2>6, <2>8 DEF ClusterTypeOK
  <2>10. NodesAreSound'
    BY <2>5, <2>6, <2>7 DEF NodesAreSound
  <2> QED
    BY <2>9, <2>10
<1> QED
  BY <1>4, <1>5, <1>6, <1>7 DEF Receive

\* RequestNodeState, contextDestroyed and memberRemoved keep the types.
LEMMA LeaveTyped ==
  ASSUME TypeInv, NEW n \in Nodes,
         \/ Ask(n) \/ StopPlatform(n) \/ SayGoodbye(n) \/ Close(n)
         \/ \E m \in Nodes : MemberRemoved(n, m)
  PROVE  TypeInv'
<1> USE DEF TypeInv
<1>1. ASSUME NEW type \in {"request", "shutdown"},
             Publish(n, [type |-> type, from |-> n])
      PROVE  /\ inbox' \in [Nodes -> Seq(Messages)]
             /\ \A m \in Nodes : inbox'[m] \in Seq(Foreign(m))
             /\ late' \subseteq Nodes
  <2> DEFINE message == [type |-> type, from |-> n]
  <2>1. message \in Messages /\ message.from = n
    BY DEF Messages
  <2>2. PICK receivers \in SUBSET Others(n) : Deliver(n, message, receivers)
    BY <1>1 DEF Publish
  <2> HIDE DEF message
  <2> QED
    BY <2>1, <2>2, DeliverTyped
<1>2. CASE Ask(n)
  <2>1. budget.asks - 1 \in 0..MaxAsks
    BY <1>2, ClusterAssumption DEF Ask, ClusterTypeOK
  <2>2. budget' \in [changes : 0..MaxChanges, asks : 0..MaxAsks,
                     departures : 0..MaxDepartures]
    BY <1>2, <2>1 DEF Ask, ClusterTypeOK
  <2>3. ClusterTypeOK'
    BY <1>1, <1>2, <2>2 DEF Ask, ClusterTypeOK
  <2>4. NodesAreSound'
    BY <1>1, <1>2 DEF Ask, NodesAreSound
  <2> QED
    BY <2>3, <2>4
<1>3. CASE StopPlatform(n)
  <2>1. budget.departures - 1 \in 0..MaxDepartures
    BY <1>3, ClusterAssumption DEF StopPlatform, ClusterTypeOK
  <2>2. budget' \in [changes : 0..MaxChanges, asks : 0..MaxAsks,
                     departures : 0..MaxDepartures]
    BY <1>3, <2>1 DEF StopPlatform, ClusterTypeOK
  <2>3. ClusterTypeOK'
    BY <1>3, <2>2 DEF StopPlatform, ClusterTypeOK, Mapped
  <2>4. NodesAreSound'
    BY <1>3 DEF StopPlatform, NodesAreSound, ClusterTypeOK
  <2> QED
    BY <2>3, <2>4
<1>4. CASE SayGoodbye(n)
  <2>1. ClusterTypeOK'
    BY <1>1, <1>4 DEF SayGoodbye, ClusterTypeOK
  <2>2. NodesAreSound'
    BY <1>1, <1>4 DEF SayGoodbye, NodesAreSound, ClusterTypeOK
  <2> QED
    BY <2>1, <2>2
<1>5. CASE Close(n)
  <2>1. <<>> \in Seq(Messages) /\ <<>> \in Seq(Foreign(n))
    BY EmptySeq
  <2>2. /\ setter' = [setter EXCEPT ![n] = [k \in Setters |-> Idle]]
        /\ beat' = [beat EXCEPT ![n] = Asleep]
        /\ Idle \in [step : {"idle", "set", "recorded"}, state : Mapped]
        /\ Asleep \in [step : {"asleep", "picked", "read", "filling", "built", "dead"}, state : Mapped]
        /\ Idle.step = "idle" /\ Asleep.step = "asleep"
    BY <1>5 DEF Close, Idle, Asleep, Mapped
  <2>3. /\ setter' \in [Nodes -> [Setters -> [step : {"idle", "set", "recorded"},
                                              state : Mapped]]]
        /\ beat' \in [Nodes -> [step : {"asleep", "picked", "read", "filling", "built", "dead"},
                                state : Mapped]]
    BY <2>2 DEF ClusterTypeOK
  <2>4. missed' \in [Nodes -> SUBSET Nodes] /\ \A m \in Nodes : m \notin missed'[m]
    BY <1>5 DEF Close, ClusterTypeOK, NodesAreSound
  <2>5. ClusterTypeOK'
    BY <1>5, <2>1, <2>3, <2>4 DEF Close, ClusterTypeOK, Mapped, Knowledge
  <2>6. NodesAreSound'
    <3>1. \A m \in Nodes : phase'[m] # "down" => view'[m][m] # "unknown"
      BY <1>5 DEF Close, NodesAreSound, ClusterTypeOK
    <3>2. \A m \in Nodes : phase'[m] = "down" =>
            beat'[m].step = "asleep" /\ \A k \in Setters : setter'[m][k].step = "idle"
      BY <1>5, <2>2 DEF Close, NodesAreSound, ClusterTypeOK
    <3>3. \A m \in Nodes : inbox'[m] \in Seq(Foreign(m))
      BY <1>5, <2>1 DEF Close, NodesAreSound, ClusterTypeOK
    <3>4. \A m \in Nodes, k \in Setters :
             setter'[m][k].step # "idle" => setter'[m][k].state \in States
      BY <2>2 DEF NodesAreSound, ClusterTypeOK
    <3>5. \A m \in Nodes : beat'[m].step \in {"filling", "built"} => beat'[m].state \in Entries
      BY <2>2 DEF NodesAreSound, ClusterTypeOK
    <3> QED
      BY <2>4, <3>1, <3>2, <3>3, <3>4, <3>5 DEF NodesAreSound
  <2> QED
    BY <2>5, <2>6
<1>6. ASSUME NEW m \in Nodes, MemberRemoved(n, m)
      PROVE  TypeInv'
  <2>1. m \in Nodes \ {n} /\ "unknown" \in Knowledge
    BY <1>6 DEF MemberRemoved, NodesAreSound, Knowledge
  <2>2. view' = [view EXCEPT ![n][m] = "unknown"]
    BY <1>6 DEF MemberRemoved, EntryGone
  <2>3. /\ view' \in [Nodes -> [Nodes -> Knowledge]]
        /\ \A o \in Nodes : view'[o][o] = view[o][o]
    BY <2>1, <2>2, ViewTyped
  <2>4. ClusterTypeOK'
    BY <1>6, <2>3 DEF MemberRemoved, ClusterTypeOK
  <2>5. NodesAreSound'
    BY <1>6, <2>3 DEF MemberRemoved, NodesAreSound, ClusterTypeOK
  <2> QED
    BY <2>4, <2>5
<1> QED
  BY <1>2, <1>3, <1>4, <1>5, <1>6

\* Every step of the cluster, or none.
LEMMA ClusterNextTyped == TypeInv /\ [Next]_vars => TypeInv'
<1> SUFFICES ASSUME TypeInv, [Next]_vars PROVE TypeInv'
  OBVIOUS
<1>1. CASE UNCHANGED vars
  BY <1>1 DEF vars, TypeInv, ClusterTypeOK, NodesAreSound, Foreign
<1>2. CASE Next
  BY <1>2, SetterTyped, BeatTyped, ReceiveTyped, LeaveTyped DEF Next, SetterStep
<1> QED
  BY <1>1, <1>2

\* ClusterState's type invariant, for any nodes, threads and bounds: in
\* particular SiteStateEvent never leaves a DELETED site in a map.
THEOREM ClusterTyping == Spec => []ClusterTypeOK
<1>1. TypeInv => ClusterTypeOK
  BY DEF TypeInv
<1> QED
  BY <1>1, ClusterInitTyped, ClusterNextTyped, PTL DEF Spec

-----------------------------------------------------------------------------
(***************************************************************************)
(* ReportsWereTrue is not inductive: what is on its way, in an inbox, in a *)
(* call of setState or in a heartbeat that is built, must be true as well. *)
(* Entries a node ever had are never taken from its history, so what was   *)
(* true of an event when it was published is true when it arrives.         *)
(***************************************************************************)

\* The events that tell what was in the own entry of the node they are from.
Truthful ==
  {message \in Messages :
     /\ message.type # "request"
     /\ message.type = "siteState" => Reported(message.state) \in had[message.from]
     /\ message.type = "nodeState" => message.state \in had[message.from]}

TruthOnTheWay ==
  /\ \A n \in Nodes, k \in Setters :
        setter[n][k].step = "recorded" => Reported(setter[n][k].state) \in had[n]
  /\ \A n \in Nodes : beat[n].step = "built" => beat[n].state \in had[n]
  /\ \A n \in Nodes : inbox[n] \in Seq(Truthful)

ViewsWereTrue == \A n, m \in Nodes : view[n][m] \in had[m] \cup {"unknown"}

TruthInv == budget.asks = 0 /\ TruthOnTheWay /\ ViewsWereTrue

\* The nodes boot knowing only themselves.
LEMMA TruthInit == ASSUME MaxAsks = 0, Init PROVE TruthInv
<1>1. \A n \in Nodes : <<>> \in Seq(Truthful)
  BY EmptySeq
<1>2. Idle.step = "idle" /\ Asleep.step = "asleep"
  BY DEF Idle, Asleep
<1>3. TruthOnTheWay
  BY <1>1, <1>2 DEF Init, TruthOnTheWay
<1>4. ViewsWereTrue
  BY DEF Init, ViewsWereTrue
<1>5. budget.asks = 0
  BY DEF Init
<1> QED
  BY <1>3, <1>4, <1>5 DEF TruthInv

\* Publishing a truthful event: Deliver fills no inbox with anything else.
LEMMA DeliverTruthful ==
  ASSUME TypeInv, TruthInv, NEW n \in Nodes, NEW message \in Truthful,
         NEW receivers \in SUBSET Others(n), Deliver(n, message, receivers)
  PROVE  \A m \in Nodes : inbox'[m] \in Seq(Truthful)
<1> TAKE m \in Nodes
<1>1. inbox[m] \in Seq(Truthful)
  BY DEF TruthInv, TruthOnTheWay
<1>2. inbox'[m] = IF m \in receivers THEN Append(inbox[m], message) ELSE inbox[m]
  BY DEF Deliver
<1> QED
  BY <1>1, <1>2, AppendProperties

\* SetOwnEntry only adds to what a node's entry ever was: Record and the
\* constructor of NodeEvent.
LEMMA OwnEntryTruthful ==
  ASSUME TypeInv, TruthInv, NEW n \in Nodes, NEW entry \in Entries, SetOwnEntry(n, entry)
  PROVE  /\ ViewsWereTrue'
         /\ entry \in had'[n]
         /\ \A m \in Nodes : had[m] \subseteq had'[m] /\ inbox[m] \in Seq(Truthful')
<1>1. entry \in had'[n] /\ \A m \in Nodes : had[m] \subseteq had'[m]
  BY DEF SetOwnEntry, TypeInv, ClusterTypeOK
<1>2. \A m, o \in Nodes :
         view'[m][o] = IF m = n /\ o = n THEN entry ELSE view[m][o]
  BY DEF SetOwnEntry, TypeInv, ClusterTypeOK
<1>3. ViewsWereTrue'
  BY <1>1, <1>2 DEF ViewsWereTrue, TruthInv
<1>4. Truthful \subseteq Truthful'
  BY <1>1 DEF Truthful, Messages
<1>5. \A m \in Nodes : inbox[m] \in Seq(Truthful')
  BY <1>4, SeqMonotonic DEF TruthInv, TruthOnTheWay
<1> QED
  BY <1>1, <1>3, <1>5

\* The threads in SiteImpl.setState.
LEMMA SetterTruthful ==
  ASSUME TypeInv, TruthInv, NEW n \in Nodes, NEW k \in Setters,
         SetState(n, k) \/ Record(n, k) \/ Announce(n, k)
  PROVE  TruthInv'
<1>0. setter \in [Nodes -> [Setters -> [step : {"idle", "set", "recorded"}, state : Mapped]]]
  BY DEF TypeInv, ClusterTypeOK
<1>1. CASE SetState(n, k)
  <2>1. PICK s \in States : setter' = [setter EXCEPT ![n][k] = [step |-> "set", state |-> s]]
    BY <1>1 DEF SetState, Calls
  <2>2. \A m \in Nodes, j \in Setters :
           setter'[m][j] = setter[m][j] \/ setter'[m][j].step = "set"
    BY <1>0, <2>1
  <2>3. TruthOnTheWay'
    BY <1>1, <2>2 DEF SetState, TruthInv, TruthOnTheWay, Truthful
  <2>4. budget'.asks = budget.asks
    BY <1>1 DEF SetState, TypeInv, ClusterTypeOK
  <2> QED
    BY <1>1, <2>3, <2>4 DEF SetState, TruthInv, ViewsWereTrue
<1>2. CASE Record(n, k)
  <2> DEFINE entry == Reported(setter[n][k].state)
  <2>1. entry \in Entries
    BY <1>0, <1>2 DEF Record, Reported, Mapped, Entries
  <2>2. SetOwnEntry(n, entry)
    BY <1>2 DEF Record
  <2> HIDE DEF entry
  <2>3. /\ ViewsWereTrue'
        /\ entry \in had'[n]
        /\ \A m \in Nodes : had[m] \subseteq had'[m] /\ inbox[m] \in Seq(Truthful')
    BY <2>1, <2>2, OwnEntryTruthful
  <2>4. \A m \in Nodes, j \in Setters :
           setter'[m][j] = IF m = n /\ j = k THEN [setter[n][k] EXCEPT !.step = "recorded"]
                                            ELSE setter[m][j]
    BY <1>0, <1>2 DEF Record
  <2>5. setter'[n][k].state = setter[n][k].state
    BY <1>0, <2>4
  <2>6. \A m \in Nodes, j \in Setters :
           setter'[m][j].step = "recorded" => Reported(setter'[m][j].state) \in had'[m]
    BY <2>3, <2>4, <2>5 DEF TruthInv, TruthOnTheWay, entry
  <2>7. TruthOnTheWay'
    BY <1>2, <2>3, <2>6 DEF Record, TruthInv, TruthOnTheWay
  <2> QED
    BY <1>2, <2>3, <2>7 DEF Record, TruthInv
<1>3. CASE Announce(n, k)
  <2> DEFINE message == [type |-> "siteState", from |-> n, state |-> setter[n][k].state]
  <2>1. PICK receivers \in SUBSET Others(n) : Deliver(n, message, receivers)
    BY <1>3 DEF Announce, Publish
  <2>2. message \in Truthful
    BY <1>3 DEF Announce, TypeInv, NodesAreSound, TruthInv, TruthOnTheWay, Truthful, Messages
  <2> HIDE DEF message
  <2>3. \A m \in Nodes : inbox'[m] \in Seq(Truthful)
    BY <2>1, <2>2, DeliverTruthful
  <2>4. \A m \in Nodes, j \in Setters :
           setter'[m][j] = setter[m][j] \/ setter'[m][j].step = "idle"
    BY <1>0, <1>3 DEF Announce
  <2>5. TruthOnTheWay'
    BY <1>3, <2>3, <2>4 DEF Announce, TruthInv, TruthOnTheWay, Truthful
  <2> QED
    BY <1>3, <2>5 DEF Announce, TruthInv, ViewsWereTrue
<1> QED
  BY <1>1, <1>2, <1>3

\* The HeartBeat thread: it reports the own entry as it is when it is built.
LEMMA BeatTruthful ==
  ASSUME TypeInv, TruthInv, NEW n \in Nodes,
         BeatStep(n) \/ SendBeat(n) \/ LoseBeat(n)
  PROVE  TruthInv'
<1>1. CASE PickSite(n) \/ ReadSite(n) \/ FindMissing(n)
  <2>1. \A m \in Nodes : beat'[m] = beat[m] \/ beat'[m].step # "built"
    BY <1>1 DEF PickSite, ReadSite, FindMissing, TypeInv, ClusterTypeOK
  <2>2. UNCHANGED <<view, setter, inbox, budget, had>>
    BY <1>1 DEF PickSite, ReadSite, FindMissing
  <2>3. TruthOnTheWay'
    BY <2>1, <2>2 DEF TruthInv, TruthOnTheWay, Truthful
  <2> QED
    BY <2>2, <2>3 DEF TruthInv, ViewsWereTrue
<1>2. CASE BuildBeat(n)
  <2> DEFINE entry == IF beat[n].step = "filling" THEN beat[n].state ELSE view[n][n]
  <2>1. /\ view[n][n] \in Entries \cup {"unknown"} /\ view[n][n] # "unknown"
        /\ beat[n].state \in States \cup {"none"}
    BY <1>2 DEF BuildBeat, TypeInv, ClusterTypeOK, NodesAreSound, Knowledge, Mapped
  <2>2. entry \in Entries
    BY <2>1 DEF TypeInv, NodesAreSound, Entries
  <2>3. /\ SetOwnEntry(n, entry)
        /\ beat' = [beat EXCEPT ![n] = [step |-> "built", state |-> entry]]
        /\ UNCHANGED <<setter, inbox, budget>>
    BY <1>2 DEF BuildBeat
  <2> HIDE DEF entry
  <2>4. /\ ViewsWereTrue'
        /\ entry \in had'[n]
        /\ \A m \in Nodes : had[m] \subseteq had'[m] /\ inbox[m] \in Seq(Truthful')
    BY <2>2, <2>3, OwnEntryTruthful
  <2>5. \A m \in Nodes : beat'[m].step = "built" => beat'[m].state \in had'[m]
    BY <2>3, <2>4 DEF TruthInv, TruthOnTheWay, TypeInv, ClusterTypeOK
  <2>6. TruthOnTheWay'
    BY <2>3, <2>4, <2>5 DEF TruthInv, TruthOnTheWay
  <2> QED
    BY <2>3, <2>4, <2>6 DEF TruthInv
<1>3. ASSUME NEW receivers \in SUBSET Others(n), PublishBeat(n, receivers)
      PROVE  TruthInv'
  <2> DEFINE message == [type |-> "nodeState", from |-> n, state |-> beat[n].state]
  <2>1. message \in Truthful
    BY <1>3 DEF PublishBeat, TypeInv, NodesAreSound, TruthInv, TruthOnTheWay, Truthful, Messages
  <2>2. Deliver(n, message, receivers)
    BY <1>3 DEF PublishBeat
  <2> HIDE DEF message
  <2>3. \A m \in Nodes : inbox'[m] \in Seq(Truthful)
    BY <2>1, <2>2, DeliverTruthful
  <2>4. \A m \in Nodes : beat'[m] = beat[m] \/ beat'[m].step # "built"
    BY <1>3 DEF PublishBeat, Asleep, TypeInv, ClusterTypeOK
  <2>5. TruthOnTheWay'
    BY <1>3, <2>3, <2>4 DEF PublishBeat, TruthInv, TruthOnTheWay, Truthful
  <2> QED
    BY <1>3, <2>5 DEF PublishBeat, TruthInv, ViewsWereTrue
<1> QED
  BY <1>1, <1>2, <1>3 DEF BeatStep, SendBeat, LoseBeat

\* The event handlers: an entry that is told by a truthful event is true.
LEMMA ReceiveTruthful ==
  ASSUME TypeInv, TruthInv, NEW n \in Nodes, Receive(n)
  PROVE  TruthInv'
<1>1. inbox[n] # <<>>
  BY DEF Receive, ReceiveSiteState, ReceiveNodeState, ReceiveShutdown, Answer, Receives
<1>2. Origin(n) \in Nodes
  BY <1>1, HandledTyped
<1>3. Head(inbox[n]) \in Truthful /\ Tail(inbox[n]) \in Seq(Truthful)
  BY <1>1, HeadTailProperties DEF TruthInv, TruthOnTheWay
<1>4. ASSUME NEW known \in had[Origin(n)] \cup {"unknown"}, Handled(n),
             view' = [view EXCEPT ![n][Origin(n)] = known]
      PROVE  TruthInv'
  <2>1. ViewsWereTrue'
    BY <1>2, <1>4 DEF Handled, TruthInv, ViewsWereTrue, TypeInv, ClusterTypeOK
  <2>2. \A m \in Nodes : inbox'[m] \in Seq(Truthful)
    BY <1>3, <1>4 DEF Handled, TruthInv, TruthOnTheWay, TypeInv, ClusterTypeOK
  <2>3. TruthOnTheWay'
    BY <1>4, <2>2 DEF Handled, TruthInv, TruthOnTheWay, Truthful
  <2> QED
    BY <1>4, <2>1, <2>3 DEF Handled, TruthInv
<1>5. CASE ReceiveSiteState(n)
  BY <1>3, <1>4, <1>5 DEF ReceiveSiteState, Receives, Truthful, Origin
<1>6. CASE ReceiveNodeState(n)
  <2>1. view' = [view EXCEPT ![n][Origin(n)] = Head(inbox[n]).state]
    BY <1>6 DEF ReceiveNodeState, EntryTold
  <2> QED
    BY <1>3, <1>4, <1>6, <2>1 DEF ReceiveNodeState, Receives, Truthful, Origin
<1>7. CASE ReceiveShutdown(n)
  BY <1>4, <1>7 DEF ReceiveShutdown, EntryGone
<1>8. ~Answer(n)
  BY <1>3 DEF Answer, Receives, Truthful
<1> QED
  BY <1>5, <1>6, <1>7, <1>8 DEF Receive

\* A node that leaves says nothing of its site, and nobody asks for any.
LEMMA LeaveTruthful ==
  ASSUME TypeInv, TruthInv, NEW n \in Nodes,
         \/ Ask(n) \/ StopPlatform(n) \/ SayGoodbye(n) \/ Close(n)
         \/ \E m \in Nodes : MemberRemoved(n, m)
  PROVE  TruthInv'
<1>1. ~Ask(n)
  BY DEF Ask, TruthInv
<1>2. CASE StopPlatform(n)
  <2>1. budget'.asks = budget.asks
    BY <1>2 DEF StopPlatform, TypeInv, ClusterTypeOK
  <2> QED
    BY <1>2, <2>1 DEF StopPlatform, TruthInv, TruthOnTheWay, ViewsWereTrue, Truthful
<1>3. CASE SayGoodbye(n)
  <2> DEFINE message == [type |-> "shutdown", from |-> n]
  <2>1. PICK receivers \in SUBSET Others(n) : Deliver(n, message, receivers)
    BY <1>3 DEF SayGoodbye, Publish
  <2>2. message \in Truthful
    BY DEF Truthful, Messages
  <2> HIDE DEF message
  <2>3. \A m \in Nodes : inbox'[m] \in Seq(Truthful)
    BY <2>1, <2>2, DeliverTruthful
  <2>4. TruthOnTheWay'
    BY <1>3, <2>3 DEF SayGoodbye, TruthInv, TruthOnTheWay, Truthful
  <2> QED
    BY <1>3, <2>4 DEF SayGoodbye, TruthInv, ViewsWereTrue
<1>4. CASE Close(n)
  <2>1. <<>> \in Seq(Truthful)
    BY EmptySeq
  <2>2. \A m \in Nodes : inbox'[m] \in Seq(Truthful)
    BY <1>4, <2>1 DEF Close, TruthInv, TruthOnTheWay, TypeInv, ClusterTypeOK
  <2>3. \A m \in Nodes : beat'[m].step = "built" => beat'[m].state \in had[m]
    BY <1>4 DEF Close, Asleep, TruthInv, TruthOnTheWay, TypeInv, ClusterTypeOK
  <2>4. \A m \in Nodes, k \in Setters :
           setter'[m][k].step = "recorded" => Reported(setter'[m][k].state) \in had[m]
    BY <1>4 DEF Close, Idle, TruthInv, TruthOnTheWay, TypeInv, ClusterTypeOK
  <2>5. TruthOnTheWay'
    BY <1>4, <2>2, <2>3, <2>4 DEF Close, TruthOnTheWay, Truthful
  <2>6. ViewsWereTrue'
    BY <1>4 DEF Close, ViewsWereTrue, TruthInv, TypeInv, ClusterTypeOK
  <2> QED
    BY <1>4, <2>5, <2>6 DEF Close, TruthInv
<1>5. ASSUME NEW m \in Nodes, MemberRemoved(n, m)
      PROVE  TruthInv'
  <2>1. ViewsWereTrue'
    BY <1>5 DEF MemberRemoved, EntryGone, ViewsWereTrue, TruthInv, TypeInv, ClusterTypeOK
  <2> QED
    BY <1>5, <2>1 DEF MemberRemoved, TruthInv, TruthOnTheWay, Truthful
<1> QED
  BY <1>1, <1>2, <1>3, <1>4, <1>5

\* Every step of the cluster, or none, keeps what is on its way true.
LEMMA TruthNext == TypeInv /\ TruthInv /\ [Next]_vars => TruthInv'
<1> SUFFICES ASSUME TypeInv, TruthInv, [Next]_vars PROVE TruthInv'
  OBVIOUS
<1>1. CASE UNCHANGED vars
  BY <1>1 DEF vars, TruthInv, TruthOnTheWay, ViewsWereTrue, Truthful
<1>2. CASE Next
  BY <1>2, SetterTruthful, BeatTruthful, ReceiveTruthful, LeaveTruthful
     DEF Next, SetterStep
<1> QED
  BY <1>1, <1>2

\* Without RequestNodeState, what a node believes of another was once in that
\* node's own entry: for any number of nodes and threads, with lost, delayed
\* and overtaking SiteStateEvents, NodeEvents and ShutdownEvents.
THEOREM ReportsTrue == ASSUME MaxAsks = 0 PROVE Spec => []ReportsWereTrue
<1>1. Init => TypeInv /\ TruthInv
  BY ClusterInitTyped, TruthInit
<1>2. TypeInv /\ TruthInv /\ [Next]_vars => (TypeInv /\ TruthInv)'
  BY ClusterNextTyped, TruthNext
<1>3. TypeInv /\ TruthInv => ReportsWereTrue
  BY DEF TruthInv, ViewsWereTrue, ReportsWereTrue, Known
<1> QED
  BY <1>1, <1>2, <1>3, PTL DEF Spec

-----------------------------------------------------------------------------
(***************************************************************************)
(* DepartedForgotten is about empty inboxes; what makes it inductive is    *)
(* what a longer inbox still holds of a node that has left: the goodbye is *)
(* the last message from it, or there is none left and it is unknown.      *)
(***************************************************************************)

Gone(s, m, known) ==
  \/ known = "unknown" /\ \A i \in DOMAIN s : s[i].from # m
  \/ \E i \in DOMAIN s :
       /\ s[i].type = "shutdown" /\ s[i].from = m
       /\ \A j \in DOMAIN s : j > i => s[j].from # m

ForgottenInTime ==
  \A n, m \in Nodes :
     n # m /\ phase[n] # "down" /\ phase[m] \in {"left", "down"} /\ m \notin late
       => Gone(inbox[n], m, view[n][m])

LEMMA AppendGone ==
  ASSUME NEW s \in Seq(Messages), NEW message \in Messages, NEW m, NEW known
  PROVE  /\ Gone(s, m, known) /\ message.from # m => Gone(Append(s, message), m, known)
         /\ message.type = "shutdown" /\ message.from = m => Gone(Append(s, message), m, known)
<1> DEFINE u == Append(s, message)
<1>1. /\ Len(s) \in Nat /\ DOMAIN s = 1..Len(s) /\ DOMAIN u = 1..(Len(s) + 1)
      /\ \A i \in 1..Len(s) : u[i] = s[i]
      /\ u[Len(s) + 1] = message
  BY AppendProperties, LenProperties
<1> HIDE DEF u
<1>2. ASSUME Gone(s, m, known), message.from # m PROVE Gone(u, m, known)
  <2>1. ASSUME \A i \in DOMAIN s : s[i].from # m
        PROVE  \A i \in DOMAIN u : u[i].from # m
    BY <1>1, <1>2, <2>1
  <2>2. ASSUME NEW i \in DOMAIN s, s[i].type = "shutdown", s[i].from = m,
               \A j \in DOMAIN s : j > i => s[j].from # m
        PROVE  Gone(u, m, known)
    <3>1. i \in DOMAIN u /\ u[i] = s[i] /\ \A j \in DOMAIN u : j > i => u[j].from # m
      BY <1>1, <1>2, <2>2
    <3> QED
      BY <2>2, <3>1 DEF Gone
  <2> QED
    BY <1>2, <2>1, <2>2 DEF Gone
<1>3. ASSUME message.type = "shutdown", message.from = m PROVE Gone(u, m, known)
  <2>1. Len(s) + 1 \in DOMAIN u /\ \A j \in DOMAIN u : ~(j > Len(s) + 1)
    BY <1>1
  <2> QED
    BY <1>1, <1>3, <2>1 DEF Gone
<1> QED
  BY <1>2, <1>3 DEF u

\* Taking the head: the goodbye, another message of m, or one of somebody else.
LEMMA TailGone ==
  ASSUME NEW s \in Seq(Messages), s # <<>>, NEW m, NEW known, Gone(s, m, known)
  PROVE  /\ Head(s).from # m => Gone(Tail(s), m, known)
         /\ Head(s).from = m /\ Head(s).type # "shutdown"
              => \A told : Gone(Tail(s), m, told)
         /\ Gone(Tail(s), m, "unknown")
<1> DEFINE u == Tail(s)
<1>1. /\ Len(s) \in Nat /\ Len(s) > 0 /\ DOMAIN s = 1..Len(s)
      /\ DOMAIN u = 1..(Len(s) - 1) /\ Head(s) = s[1]
      /\ \A i \in 1..(Len(s) - 1) : u[i] = s[i + 1]
  BY HeadTailProperties, EmptySeq, LenProperties
<1> HIDE DEF u
<1>2. CASE known = "unknown" /\ \A i \in DOMAIN s : s[i].from # m
  <2>1. \A i \in DOMAIN u : u[i].from # m
    BY <1>1, <1>2
  <2>2. Head(s).from # m
    BY <1>1, <1>2
  <2> QED
    BY <1>2, <2>1, <2>2 DEF Gone, u
<1>3. ASSUME NEW i \in DOMAIN s, s[i].type = "shutdown", s[i].from = m,
             \A j \in DOMAIN s : j > i => s[j].from # m
      PROVE  /\ Head(s).from # m => Gone(u, m, known)
             /\ Head(s).from = m /\ Head(s).type # "shutdown" => \A told : Gone(u, m, told)
             /\ Gone(u, m, "unknown")
  <2>1. CASE i = 1
    <3>1. \A j \in DOMAIN u : u[j].from # m
      BY <1>1, <1>3, <2>1
    <3> QED
      BY <1>1, <1>3, <2>1, <3>1 DEF Gone
  <2>2. CASE i # 1
    <3>1. i - 1 \in DOMAIN u /\ u[i - 1] = s[i]
      BY <1>1, <1>3, <2>2
    <3>2. \A j \in DOMAIN u : j > i - 1 => u[j].from # m
      BY <1>1, <1>3, <2>2
    <3>3. \A told : Gone(u, m, told)
      BY <1>3, <3>1, <3>2 DEF Gone
    <3> QED
      BY <3>3
  <2> QED
    BY <2>1, <2>2
<1> QED
  BY <1>2, <1>3 DEF Gone, u

\* What p publishes is no news of any other node; after its goodbye p is late.
LEMMA DeliverForgets ==
  ASSUME TypeInv, ForgottenInTime, NEW p \in Nodes, NEW message \in Messages,
         message.from = p, phase[p] # "down", NEW receivers,
         Deliver(p, message, receivers), phase' = phase,
         \A n, m \in Nodes : n # m => view'[n][m] = view[n][m]
  PROVE  ForgottenInTime'
<1> SUFFICES ASSUME NEW n \in Nodes, NEW m \in Nodes, n # m, phase[n] # "down",
                    phase[m] \in {"left", "down"}, m \notin late'
             PROVE  Gone(inbox'[n], m, view[n][m])
  BY DEF ForgottenInTime
<1>1. m # p /\ m \notin late
  BY DEF Deliver
<1>2. Gone(inbox[n], m, view[n][m]) /\ inbox[n] \in Seq(Messages)
  BY <1>1 DEF ForgottenInTime, TypeInv, ClusterTypeOK
<1>3. Gone(Append(inbox[n], message), m, view[n][m])
  BY <1>1, <1>2, AppendGone
<1> QED
  BY <1>2, <1>3 DEF Deliver

\* The threads of a node change only its own entry.
LEMMA ThreadsForget ==
  ASSUME TypeInv, ForgottenInTime, NEW p \in Nodes,
         \/ \E k \in Setters : SetState(p, k)
         \/ SetterStep(p) \/ BeatStep(p) \/ SendBeat(p) \/ LoseBeat(p) \/ Ask(p)
  PROVE  ForgottenInTime'
<1>1. ASSUME UNCHANGED <<phase, inbox, late>>, view' = view \/ \E e : SetOwnEntry(p, e)
      PROVE  ForgottenInTime'
  <2>1. \A n, m \in Nodes : n # m => view'[n][m] = view[n][m]
    <3>1. ASSUME NEW e, SetOwnEntry(p, e), NEW n \in Nodes, NEW m \in Nodes, n # m
          PROVE  view'[n][m] = view[n][m]
      <4>1. view' = [view EXCEPT ![p][p] = e]
        BY <3>1 DEF SetOwnEntry
      <4> QED
        BY <3>1, <4>1 DEF TypeInv, ClusterTypeOK
    <3> QED
      BY <1>1, <3>1
  <2> QED
    BY <1>1, <2>1 DEF ForgottenInTime
<1>2. CASE \E k \in Setters : SetState(p, k) \/ Record(p, k)
  BY <1>1, <1>2 DEF SetState, Record
<1>3. CASE BeatStep(p)
  BY <1>1, <1>3 DEF BeatStep, PickSite, ReadSite, FindMissing, BuildBeat
<1>4. ASSUME NEW k \in Setters, Announce(p, k) PROVE ForgottenInTime'
  <2> DEFINE message == [type |-> "siteState", from |-> p, state |-> setter[p][k].state]
  <2>1. setter[p][k].state \in States
    BY <1>4 DEF Announce, TypeInv, NodesAreSound
  <2>2. message \in Messages /\ message.from = p
    BY <2>1 DEF Messages
  <2>3. PICK receivers \in SUBSET Others(p) : Deliver(p, message, receivers)
    BY <1>4 DEF Announce, Publish
  <2>4. phase[p] # "down" /\ phase' = phase /\ view' = view
    BY <1>4 DEF Announce, Publish
  <2> HIDE DEF message
  <2> QED
    BY <2>2, <2>3, <2>4, DeliverForgets
<1>5. ASSUME NEW receivers, PublishBeat(p, receivers) PROVE ForgottenInTime'
  <2> DEFINE message == [type |-> "nodeState", from |-> p, state |-> beat[p].state]
  <2>1. beat[p].state \in Entries
    BY <1>5 DEF PublishBeat, TypeInv, NodesAreSound
  <2>2. message \in Messages /\ message.from = p
    BY <2>1 DEF Messages
  <2>3. Deliver(p, message, receivers) /\ phase[p] # "down" /\ phase' = phase /\ view' = view
    BY <1>5 DEF PublishBeat
  <2> HIDE DEF message
  <2> QED
    BY <2>2, <2>3, DeliverForgets
<1>6. CASE Ask(p)
  <2> DEFINE message == [type |-> "request", from |-> p]
  <2>1. message \in Messages /\ message.from = p
    BY DEF Messages
  <2>2. PICK receivers \in SUBSET Others(p) : Deliver(p, message, receivers)
    BY <1>6 DEF Ask, Publish
  <2>3. phase[p] # "down" /\ phase' = phase /\ view' = view
    BY <1>6 DEF Ask, Publish
  <2> HIDE DEF message
  <2> QED
    BY <2>1, <2>2, <2>3, DeliverForgets
<1> QED
  BY <1>2, <1>3, <1>4, <1>5, <1>6 DEF SetterStep, SendBeat, LoseBeat

\* A receiver takes a node back only from what precedes its goodbye.
LEMMA ReceiveForgets ==
  ASSUME TypeInv, ForgottenInTime, NEW p \in Nodes, Receive(p)
  PROVE  ForgottenInTime'
<1>1. /\ inbox[p] # <<>> /\ phase' = phase /\ late' = late /\ phase[p] # "down"
      /\ inbox[p] \in Seq(Messages) /\ Head(inbox[p]) \in Messages
      /\ Origin(p) = Head(inbox[p]).from
  <2>1. inbox[p] # <<>> /\ phase' = phase /\ late' = late /\ phase[p] # "down"
    BY DEF Receive, ReceiveSiteState, ReceiveNodeState, ReceiveShutdown, Answer, Receives, Handled
  <2>2. inbox[p] \in Seq(Messages)
    BY DEF TypeInv, ClusterTypeOK
  <2> QED
    BY <2>1, <2>2, HeadTailProperties DEF Origin
<1> SUFFICES ASSUME NEW n \in Nodes, NEW m \in Nodes, n # m, phase[n] # "down",
                    phase[m] \in {"left", "down"}, m \notin late,
                    Gone(inbox[n], m, view[n][m]), inbox[n] \in Seq(Messages)
             PROVE  Gone(inbox'[n], m, view'[n][m])
  BY <1>1 DEF ForgottenInTime, TypeInv, ClusterTypeOK
<1>2. ASSUME NEW known, Handled(p), view' = [view EXCEPT ![p][Origin(p)] = known],
             Head(inbox[p]).type = "shutdown" => known = "unknown"
      PROVE  Gone(inbox'[n], m, view'[n][m])
  <2>1. inbox' = [inbox EXCEPT ![p] = Tail(inbox[p])]
    BY <1>2 DEF Handled
  <2>2. CASE n # p
    BY <1>2, <2>1, <2>2 DEF TypeInv, ClusterTypeOK
  <2>3. CASE n = p /\ Origin(p) # m
    <3>1. inbox'[n] = Tail(inbox[n]) /\ view'[n][m] = view[n][m]
      BY <1>2, <2>1, <2>3 DEF TypeInv, ClusterTypeOK
    <3> QED
      BY <1>1, <2>3, <3>1, TailGone
  <2>4. CASE n = p /\ Origin(p) = m
    <3>1. inbox'[n] = Tail(inbox[n]) /\ view'[n][m] = known
      BY <1>2, <2>1, <2>4 DEF TypeInv, ClusterTypeOK
    <3> QED
      BY <1>1, <1>2, <2>4, <3>1, TailGone
  <2> QED
    BY <2>2, <2>3, <2>4
<1>3. CASE ReceiveSiteState(p)
  BY <1>2, <1>3 DEF ReceiveSiteState, Receives
<1>4. CASE ReceiveNodeState(p)
  <2>1. view' = [view EXCEPT ![p][Origin(p)] = Head(inbox[p]).state]
    BY <1>4 DEF ReceiveNodeState, EntryTold
  <2> QED
    BY <1>2, <1>4, <2>1 DEF ReceiveNodeState, Receives
<1>5. CASE ReceiveShutdown(p)
  BY <1>2, <1>5 DEF ReceiveShutdown, EntryGone
<1>6. CASE Answer(p)
  <2> DEFINE asker == Origin(p)
             known == IF view[p][asker] = "unknown" THEN "none" ELSE view[p][asker]
             entry == IF Fills(known, object[p]) THEN object[p] ELSE known
             answer == [type |-> "nodeState", from |-> p, state |-> entry]
             told == IF phase[p] = "up" THEN entry ELSE known
             rest == [inbox EXCEPT ![p] = Tail(@)]
  <2>1. Head(inbox[p]).type = "request" /\ view' = [view EXCEPT ![p][asker] = told]
    BY <1>6 DEF Answer, Receives
  <2>2. PICK receivers \in SUBSET Others(p) :
          inbox' = IF phase[p] = "up"
                   THEN [q \in Nodes |-> IF q \in receivers THEN Append(rest[q], answer)
                                                             ELSE rest[q]]
                   ELSE rest
    BY <1>6 DEF Answer
  <2>3. known \in Entries /\ entry \in Entries
    <3>1. view[p][asker] \in Knowledge /\ object[p] \in Mapped
      BY <1>1 DEF TypeInv, ClusterTypeOK, Messages
    <3> QED
      BY <3>1 DEF Fills, Knowledge, Entries, Mapped
  <2>4. answer \in Messages /\ answer.from = p
    BY <2>3 DEF Messages
  <2> HIDE DEF known, entry, answer, told, asker
  <2>5. CASE n = p /\ asker # m
    <3>1. inbox'[n] = Tail(inbox[n]) /\ view'[n][m] = view[n][m]
      BY <2>1, <2>2, <2>5 DEF Others, TypeInv, ClusterTypeOK
    <3> QED
      BY <1>1, <2>5, <3>1, TailGone DEF asker
  <2>6. CASE n = p /\ asker = m
    <3>1. inbox'[n] = Tail(inbox[n]) /\ Head(inbox[n]).from = m
      BY <1>1, <2>2, <2>6 DEF Others, TypeInv, ClusterTypeOK, asker
    <3> QED
      BY <1>1, <2>1, <2>6, <3>1, TailGone
  <2>7. CASE n # p /\ inbox'[n] = inbox[n]
    BY <2>1, <2>7 DEF TypeInv, ClusterTypeOK
  <2>8. CASE n # p /\ inbox'[n] = Append(inbox[n], answer) /\ phase[p] = "up"
    <3>1. view'[n][m] = view[n][m]
      BY <2>1, <2>8 DEF TypeInv, ClusterTypeOK
    <3>2. answer.from # m
      BY <2>4, <2>8
    <3> QED
      BY <2>4, <2>8, <3>1, <3>2, AppendGone
  <2>9. n # p => inbox'[n] = inbox[n] \/ (phase[p] = "up" /\ inbox'[n] = Append(inbox[n], answer))
    BY <2>2 DEF TypeInv, ClusterTypeOK
  <2> QED
    BY <2>5, <2>6, <2>7, <2>8, <2>9
<1> QED
  BY <1>3, <1>4, <1>5, <1>6 DEF Receive

LEMMA LeaveForgets ==
  ASSUME Lossy = FALSE, TypeInv, ForgottenInTime, NEW p \in Nodes,
         \/ StopPlatform(p) \/ SayGoodbye(p) \/ Close(p)
         \/ \E q \in Nodes : MemberRemoved(p, q)
  PROVE  ForgottenInTime'
<1> USE DEF TypeInv, ClusterTypeOK
<1>1. CASE StopPlatform(p)
  BY <1>1 DEF StopPlatform, ForgottenInTime
<1>2. CASE SayGoodbye(p)
  <2> DEFINE message == [type |-> "shutdown", from |-> p]
  <2>1. message \in Messages /\ message.from = p /\ message.type = "shutdown"
    BY DEF Messages
  <2>2. /\ Deliver(p, message, Others(p)) /\ phase[p] = "stopped"
        /\ phase' = [phase EXCEPT ![p] = "left"] /\ view' = view
    BY <1>2 DEF SayGoodbye, Publish
  <2>3. late' = late /\ inbox' = [n \in Nodes |-> IF n \in Others(p) THEN Append(inbox[n], message)
                                                              ELSE inbox[n]]
    BY <2>2 DEF Deliver
  <2> HIDE DEF message
  <2> SUFFICES ASSUME NEW n \in Nodes, NEW m \in Nodes, n # m, phase'[n] # "down",
                      phase'[m] \in {"left", "down"}, m \notin late
               PROVE  Gone(inbox'[n], m, view[n][m])
    BY <2>2, <2>3 DEF ForgottenInTime
  <2>4. phase[n] # "down"
    BY <2>2
  <2>5. CASE m = p
    <3>1. n \in Others(p)
      BY <2>4, <2>5 DEF Others
    <3> QED
      BY <2>1, <2>3, <2>5, <3>1, AppendGone
  <2>6. CASE m # p
    <3>1. Gone(inbox[n], m, view[n][m])
      BY <2>2, <2>4, <2>6 DEF ForgottenInTime
    <3>2. Gone(Append(inbox[n], message), m, view[n][m])
      BY <2>1, <2>6, <3>1, AppendGone
    <3> QED
      BY <2>3, <3>1, <3>2
  <2> QED
    BY <2>5, <2>6
<1>3. CASE Close(p)
  <2>1. /\ phase[p] = "left" /\ phase' = [phase EXCEPT ![p] = "down"] /\ late' = late
        /\ \A n \in Nodes \ {p} : inbox'[n] = inbox[n] /\ view'[n] = view[n]
    BY <1>3 DEF Close
  <2> SUFFICES ASSUME NEW n \in Nodes, NEW m \in Nodes, n # m, phase'[n] # "down",
                      phase'[m] \in {"left", "down"}, m \notin late
               PROVE  Gone(inbox'[n], m, view'[n][m])
    BY <2>1 DEF ForgottenInTime
  <2>2. n # p /\ phase[n] # "down" /\ phase[m] \in {"left", "down"}
    BY <2>1
  <2> QED
    BY <2>1, <2>2 DEF ForgottenInTime
<1>4. ASSUME NEW q \in Nodes, MemberRemoved(p, q) PROVE ForgottenInTime'
  <2>1. /\ view' = [view EXCEPT ![p][q] = "unknown"] /\ UNCHANGED <<phase, inbox, late>>
    BY <1>4 DEF MemberRemoved, EntryGone
  <2>2. \A n, m \in Nodes : view'[n][m] \in {view[n][m], "unknown"}
    BY <2>1
  <2> QED
    BY <2>1, <2>2 DEF ForgottenInTime, Gone
<1> QED
  BY <1>1, <1>2, <1>3, <1>4

\* DepartedForgotten, for any cluster whose transport loses nothing: once all
\* events are handled, a node that has left is in nobody's map, whatever it
\* published before its goodbye and whoever has asked it for its state.
THEOREM DepartedAreForgotten ==
  ASSUME Lossy = FALSE PROVE Spec => []DepartedForgotten
<1>1. Init => ForgottenInTime
  BY DEF Init, ForgottenInTime
<1>2. TypeInv /\ ForgottenInTime /\ [Next]_vars => ForgottenInTime'
  <2>1. UNCHANGED vars /\ ForgottenInTime => ForgottenInTime'
    BY DEF vars, ForgottenInTime
  <2>2. TypeInv /\ ForgottenInTime /\ Next => ForgottenInTime'
    BY ThreadsForget, ReceiveForgets, LeaveForgets DEF Next
  <2> QED
    BY <2>1, <2>2
<1>3. TypeInv /\ ForgottenInTime => DepartedForgotten
  <2> SUFFICES ASSUME TypeInv, ForgottenInTime, NEW n \in Nodes, NEW m \in Nodes,
                      phase[m] = "down", inbox[n] = <<>>, m \notin late, phase[n] # "down"
               PROVE  view[n][m] = "unknown"
    BY DEF DepartedForgotten, Known
  <2>1. Gone(<<>>, m, view[n][m])
    BY DEF ForgottenInTime
  <2>2. DOMAIN <<>> = {}
    OBVIOUS
  <2> QED
    BY <2>1, <2>2 DEF Gone
<1> QED
  BY <1>1, <1>2, <1>3, ClusterInitTyped, ClusterNextTyped, PTL DEF Spec

-----------------------------------------------------------------------------
(***************************************************************************)
(* OwnEntryTrue, where one thread at a time changes the site of a node and *)
(* no site is deleted.  Its invariant follows a call of setState: what is  *)
(* recorded is what the call will leave in the site map.  The heartbeat,   *)
(* which reads the site map and completes the entry later, does no harm:   *)
(* it only fills an entry that says "none", and while it does, it has read *)
(* no site either.                                                         *)
(***************************************************************************)

\* The own entry of n and the state of its site, between and in the calls.
EntryFollows(n) ==
  /\ view[n][n] = "none" => object[n] = "none" /\ beat[n].state = "none"
  /\ beat[n].step # "filling"
  /\ \A k \in Setters :
        LET call == setter[n][k]
        IN /\ call.step = "idle" => view[n][n] = object[n]
           /\ call.step = "recorded" => view[n][n] = call.state
           /\ call.step # "idle" => AfterCall(object[n], call.state) = call.state

EntriesFollow == \A n \in Nodes : phase[n] = "up" => EntryFollows(n)

LEMMA EntriesFollowInit == Init => EntriesFollow
<1>1. Idle.step = "idle" /\ Asleep.state = "none" /\ Asleep.step = "asleep"
  BY DEF Idle, Asleep
<1> QED
  BY <1>1 DEF Init, EntriesFollow, EntryFollows

\* A node whose site, entry and calls a step leaves alone.
LEMMA EntryUndisturbed ==
  ASSUME EntriesFollow, NEW n \in Nodes, phase[n] = "up",
         object'[n] = object[n], view'[n][n] = view[n][n], setter'[n] = setter[n],
         beat'[n].state \in {beat[n].state, view[n][n], "none"},
         beat'[n].step \in {beat[n].step, "asleep", "picked", "read", "built", "dead"}
  PROVE  EntryFollows(n)'
<1>1. EntryFollows(n)
  BY DEF EntriesFollow
<1>2. beat'[n].step # "filling"
  BY <1>1 DEF EntryFollows
<1> QED
  BY <1>1, <1>2 DEF EntryFollows, AfterCall

\* The thread in setState.
LEMMA SetterFollows ==
  ASSUME TypeInv, EntriesFollow, "DELETED" \notin States,
         NEW k \in Setters, Setters = {k}, NEW n \in Nodes,
         SetState(n, k) \/ Record(n, k) \/ Announce(n, k)
  PROVE  EntriesFollow'
<1>0. /\ setter \in [Nodes -> [Setters -> [step : {"idle", "set", "recorded"}, state : Mapped]]]
      /\ view \in [Nodes -> [Nodes -> Knowledge]]
      /\ object \in [Nodes -> Mapped]
  BY DEF TypeInv, ClusterTypeOK
<1>1. UNCHANGED <<beat, phase>>
  BY DEF SetState, Record, Announce
<1>2. ASSUME NEW m \in Nodes, m # n, phase'[m] = "up" PROVE EntryFollows(m)'
  <2>1. object'[m] = object[m] /\ view'[m][m] = view[m][m] /\ setter'[m] = setter[m]
    BY <1>0, <1>2 DEF SetState, Record, Announce, SetOwnEntry
  <2> QED
    BY <1>1, <1>2, <2>1, EntryUndisturbed
<1>3. ASSUME phase[n] = "up" PROVE EntryFollows(n)'
  <2>0. EntryFollows(n) /\ beat'[n].step # "filling"
    BY <1>1, <1>3 DEF EntriesFollow, EntryFollows
  <2>1. CASE SetState(n, k)
    <3>1. PICK s \in Calls(n, k) :
            /\ setter' = [setter EXCEPT ![n][k] = [step |-> "set", state |-> s]]
            /\ object' = IF s = "STARTING" \/ object[n] = "none" THEN object
                                                      ELSE [object EXCEPT ![n] = s]
      BY <2>1 DEF SetState
    <3>2. /\ s \in {"STARTING", "STARTED", "STOPPED"}
          /\ s = "STOPPED" => object[n] # "none"
      BY <3>1 DEF Calls
    <3>3. setter'[n][k] = [step |-> "set", state |-> s]
      BY <1>0, <3>1
    <3>4. object'[n] = IF s = "STARTING" \/ object[n] = "none" THEN object[n] ELSE s
      BY <1>0, <3>1
    <3>5. AfterCall(object'[n], s) = s
      BY <3>2, <3>4 DEF AfterCall
    <3>6. view' = view
      BY <2>1 DEF SetState
    <3>7. view[n][n] = "none" => object'[n] = "none" /\ beat'[n].state = "none"
      BY <1>1, <2>0, <3>4 DEF EntryFollows
    <3> QED
      BY <2>0, <3>3, <3>5, <3>6, <3>7 DEF EntryFollows, AfterCall
  <2>2. CASE Record(n, k)
    <3> DEFINE s == setter[n][k].state
    <3>1. s \in States /\ Reported(s) = s /\ s # "none"
      BY <2>2, ClusterAssumption DEF Record, Reported, TypeInv, NodesAreSound
    <3>2. view'[n][n] = s
      BY <1>0, <2>2, <3>1 DEF Record, SetOwnEntry
    <3>3. setter'[n][k].step = "recorded" /\ setter'[n][k].state = s
      BY <1>0, <2>2 DEF Record
    <3>4. object' = object /\ AfterCall(object[n], s) = s
      BY <2>0, <2>2 DEF Record, EntryFollows
    <3> HIDE DEF s
    <3> QED
      BY <2>0, <3>1, <3>2, <3>3, <3>4 DEF EntryFollows, AfterCall
  <2>3. CASE Announce(n, k)
    <3> DEFINE s == setter[n][k].state
    <3>1. s \in States /\ s # "none"
      BY <2>3, ClusterAssumption DEF Announce, TypeInv, NodesAreSound
    <3>2. AfterCall(object[n], s) = s /\ view[n][n] = s
      BY <2>0, <2>3 DEF Announce, EntryFollows
    <3>3. object'[n] = s /\ view' = view
      BY <1>0, <2>3, <3>2 DEF Announce
    <3>4. setter'[n][k].step = "idle"
      BY <1>0, <2>3 DEF Announce
    <3> HIDE DEF s
    <3> QED
      BY <2>0, <3>1, <3>2, <3>3, <3>4 DEF EntryFollows
  <2> QED
    BY <2>1, <2>2, <2>3
<1> QED
  BY <1>1, <1>2, <1>3 DEF EntriesFollow

\* The HeartBeat thread: what it fills in is nothing.
LEMMA BeatFollows ==
  ASSUME TypeInv, EntriesFollow, NEW n \in Nodes,
         BeatStep(n) \/ SendBeat(n) \/ LoseBeat(n)
  PROVE  EntriesFollow'
<1>0. /\ beat \in [Nodes -> [step : {"asleep", "picked", "read", "filling", "built", "dead"},
                              state : Mapped]]
      /\ view \in [Nodes -> [Nodes -> Knowledge]]
  BY DEF TypeInv, ClusterTypeOK
<1>1. UNCHANGED <<object, setter, phase>>
  BY DEF BeatStep, PickSite, ReadSite, FindMissing, BuildBeat, SendBeat, LoseBeat, PublishBeat
<1>2. ASSUME NEW m \in Nodes, phase'[m] = "up" PROVE EntryFollows(m)'
  <2>0. EntryFollows(m)
    BY <1>1, <1>2 DEF EntriesFollow
  <2>1. CASE PickSite(n)
    <3>1. /\ beat'[m].state = beat[m].state /\ view' = view
          /\ beat'[m].step \in {beat[m].step, "read", "picked"}
      BY <1>0, <2>1 DEF PickSite
    <3> QED
      BY <1>1, <1>2, <2>0, <3>1, EntryUndisturbed DEF EntryFollows
  <2>2. CASE ReadSite(n)
    <3>1. /\ view' = view /\ beat'[m].state \in {beat[m].state, object[m]}
          /\ beat'[m].step \in {beat[m].step, "read", "dead"}
      BY <1>0, <2>2 DEF ReadSite
    <3> QED
      BY <1>1, <2>0, <3>1 DEF EntryFollows, AfterCall
  <2>3. CASE FindMissing(n)
    <3>1. n # m /\ beat'[m] = beat[m] /\ view' = view
      BY <1>0, <2>0, <2>3 DEF FindMissing, Fills, EntryFollows
    <3> QED
      BY <1>1, <1>2, <2>0, <3>1, EntryUndisturbed DEF EntryFollows
  <2>4. CASE BuildBeat(n)
    <3> DEFINE entry == IF beat[n].step = "filling" THEN beat[n].state ELSE view[n][n]
    <3>1. /\ SetOwnEntry(n, entry)
          /\ beat' = [beat EXCEPT ![n] = [step |-> "built", state |-> entry]]
      BY <2>4 DEF BuildBeat
    <3>2. n = m => entry = view[n][n]
      BY <2>0 DEF EntryFollows
    <3> HIDE DEF entry
    <3>3. /\ view'[m][m] = view[m][m] /\ beat'[m].state \in {beat[m].state, view[m][m]}
          /\ beat'[m].step \in {beat[m].step, "built"}
      BY <1>0, <3>1, <3>2 DEF SetOwnEntry
    <3> QED
      BY <1>1, <1>2, <2>0, <3>3, EntryUndisturbed DEF EntryFollows
  <2>5. CASE SendBeat(n) \/ LoseBeat(n)
    <3>1. /\ view' = view /\ beat'[m].state \in {beat[m].state, "none"}
          /\ beat'[m].step \in {beat[m].step, "asleep"}
      BY <1>0, <2>5 DEF SendBeat, LoseBeat, PublishBeat, Asleep
    <3> QED
      BY <1>1, <1>2, <2>0, <3>1, EntryUndisturbed DEF EntryFollows
  <2> QED
    BY <2>1, <2>2, <2>3, <2>4, <2>5 DEF BeatStep
<1> QED
  BY <1>2 DEF EntriesFollow

\* Events, goodbyes and the membership listener: none of them writes the
\* entry of the node it runs on.
LEMMA OthersFollow ==
  ASSUME TypeInv, EntriesFollow, NEW n \in Nodes,
         \/ Ask(n) \/ Receive(n) \/ StopPlatform(n) \/ SayGoodbye(n) \/ Close(n)
         \/ \E m \in Nodes : MemberRemoved(n, m)
  PROVE  EntriesFollow'
<1> SUFFICES ASSUME NEW o \in Nodes, phase'[o] = "up" PROVE EntryFollows(o)'
  BY DEF EntriesFollow
<1>0. /\ view \in [Nodes -> [Nodes -> Knowledge]]
      /\ phase \in [Nodes -> {"up", "stopped", "left", "down"}]
      /\ object \in [Nodes -> Mapped]
      /\ DOMAIN setter = Nodes /\ DOMAIN beat = Nodes
  BY DEF TypeInv, ClusterTypeOK
<1>1. CASE Ask(n)
  BY <1>1, EntryUndisturbed DEF Ask
<1>2. CASE Receive(n)
  <2>1. UNCHANGED <<object, setter, beat, phase>> /\ inbox[n] # <<>>
    BY <1>2 DEF Receive, ReceiveSiteState, ReceiveNodeState, ReceiveShutdown, Answer,
                Handled, Receives
  <2>2. Origin(n) # n
    BY <2>1, HandledTyped
  <2>3. \E known : view' = [view EXCEPT ![n][Origin(n)] = known]
    BY <1>2 DEF Receive, ReceiveSiteState, ReceiveNodeState, ReceiveShutdown, Answer
  <2>4. view'[o][o] = view[o][o]
    BY <1>0, <2>2, <2>3
  <2> QED
    BY <2>1, <2>4, EntryUndisturbed
<1>3. CASE StopPlatform(n) \/ SayGoodbye(n) \/ Close(n)
  <2>1. o # n
    BY <1>0, <1>3 DEF StopPlatform, SayGoodbye, Close
  <2>2. /\ phase[o] = "up" /\ object'[o] = object[o] /\ setter'[o] = setter[o]
        /\ view'[o] = view[o] /\ beat'[o] = beat[o]
    BY <1>0, <1>3, <2>1 DEF StopPlatform, SayGoodbye, Close
  <2> QED
    BY <2>2, EntryUndisturbed
<1>4. ASSUME NEW m \in Nodes, MemberRemoved(n, m) PROVE EntryFollows(o)'
  <2>1. m # n
    BY <1>4 DEF MemberRemoved, TypeInv, NodesAreSound
  <2>2. view'[o][o] = view[o][o] /\ UNCHANGED <<object, setter, beat, phase>>
    BY <1>0, <1>4, <2>1 DEF MemberRemoved
  <2> QED
    BY <2>2, EntryUndisturbed
<1> QED
  BY <1>1, <1>2, <1>3, <1>4

\* OwnEntryTrue, for any cluster, transport and number of requests for the
\* node state, where the changes of a node's site come one after the other
\* and no site is deleted: the entry a node announces of itself is the state
\* of the site in its site map, although the heartbeat reads the one and
\* completes the other without a lock.
THEOREM OwnEntriesAreTrue ==
  ASSUME NEW k, Setters = {k}, "DELETED" \notin States
  PROVE  Spec => []OwnEntryTrue
<1>1. TypeInv /\ EntriesFollow /\ [Next]_vars => EntriesFollow'
  <2> SUFFICES ASSUME TypeInv, EntriesFollow, [Next]_vars PROVE EntriesFollow'
    OBVIOUS
  <2>1. CASE UNCHANGED vars
    BY <2>1 DEF vars, EntriesFollow, EntryFollows, AfterCall
  <2>2. CASE Next
    <3>1. PICK n \in Nodes :
            \/ SetState(n, k) \/ Record(n, k) \/ Announce(n, k)
            \/ BeatStep(n) \/ SendBeat(n) \/ LoseBeat(n)
            \/ Ask(n) \/ Receive(n) \/ StopPlatform(n) \/ SayGoodbye(n) \/ Close(n)
            \/ \E m \in Nodes : MemberRemoved(n, m)
      BY <2>2 DEF Next, SetterStep
    <3> QED
      BY <3>1, SetterFollows, BeatFollows, OthersFollow
  <2> QED
    BY <2>1, <2>2
<1>2. TypeInv /\ EntriesFollow => OwnEntryTrue
  <2> SUFFICES ASSUME TypeInv, EntriesFollow, NEW n \in Nodes, phase[n] = "up", Quiet(n)
               PROVE  view[n][n] = Reported(object[n])
    BY DEF OwnEntryTrue
  <2>1. view[n][n] = object[n]
    BY DEF EntriesFollow, EntryFollows, Quiet
  <2>2. object[n] # "DELETED"
    BY ClusterAssumption DEF TypeInv, ClusterTypeOK, Mapped
  <2> QED
    BY <2>1, <2>2 DEF Reported
<1> QED
  BY <1>1, <1>2, EntriesFollowInit, ClusterInitTyped, ClusterNextTyped, PTL DEF Spec

=============================================================================
