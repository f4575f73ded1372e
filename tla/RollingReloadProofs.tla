------------------------ MODULE RollingReloadProofs ------------------------
(***************************************************************************)
(* Proofs about RollingReload, for any cluster: its types, that the site   *)
(* stays available when all reloads are asked for on one node, and that no *)
(* node is left behind when each performs one event at a time.             *)
(***************************************************************************)
EXTENDS RollingReload, SequenceTheorems, FiniteSetTheorems, TLAPS

ThreadStates ==
  [step : {"idle", "wait", "read", "acquire", "loading", "started"},
   quorum : 0..Cardinality(Nodes), waited : 0..(MaxWait - 1), version : Nat]

\* A quorum never asks for more nodes than there are.
LEMMA QuorumReachable ==
  ASSUME NEW n PROVE /\ Cardinality(Nodes) \in Nat
                     /\ Cardinality(KnownNodes(n)) \in Nat
                     /\ Quorum(Cardinality(KnownNodes(n))) \in 0..Cardinality(Nodes)
<1> DEFINE k == Cardinality(KnownNodes(n))
           all == Cardinality(Nodes)
<1>1. IsFiniteSet(Nodes) /\ KnownNodes(n) \subseteq Nodes
  BY RollingAssumption DEF KnownNodes
<1>2. k \in Nat /\ all \in Nat /\ k <= all
  BY <1>1, FS_Subset, FS_CardinalityType
<1> HIDE DEF k, all
<1>3. Quorum(k) \in 0..k
  BY <1>2 DEF Quorum
<1>4. Quorum(k) \in 0..all
  BY <1>2, <1>3
<1> QED
  BY <1>2, <1>4 DEF k, all

LEMMA IdleTyped == Idle \in ThreadStates
<1>1. Cardinality(Nodes) \in Nat /\ MaxWait \in Nat \ {0}
  BY RollingAssumption, FS_CardinalityType
<1> QED
  BY <1>1 DEF Idle, ThreadStates

\* What is published is typed.
LEMMA PublishTyped ==
  ASSUME RollingTypeOK, NEW from, NEW messages \in Seq(Messages), Publish(from, messages)
  PROVE  inbox' \in [Nodes -> Seq(Messages)]
<1>1. \A n \in Nodes : inbox[n] \in Seq(Messages)
  BY DEF RollingTypeOK
<1>2. \A n \in Nodes : inbox[n] \o messages \in Seq(Messages)
  BY <1>1, ConcatProperties
<1> QED
  BY <1>1, <1>2 DEF Publish

LEMMA EventsTyped ==
  /\ \A n \in Nodes, s \in SiteStates : <<SiteStateEvent(n, s)>> \in Seq(Messages)
  /\ \A n \in Nodes \cup {"appNGizer"} : <<ReloadSiteEvent(n)>> \in Seq(Messages)
  /\ \A n \in Nodes : <<[type |-> "shutdown", from |-> n]>> \in Seq(Messages)
  /\ <<>> \in Seq(Messages)
  /\ \A s \in Seq(Messages), t \in Seq(Messages) : s \o t \in Seq(Messages)
<1>1. \A n \in Nodes, s \in SiteStates : SiteStateEvent(n, s) \in Messages
  BY DEF SiteStateEvent, Messages
<1>2. \A n \in Nodes \cup {"appNGizer"} : ReloadSiteEvent(n) \in Messages
  BY DEF ReloadSiteEvent, Messages
<1>3. \A n \in Nodes : [type |-> "shutdown", from |-> n] \in Messages
  BY DEF Messages
<1>4. \A m \in Messages : <<m>> \in Seq(Messages)
  OBVIOUS
<1> QED
  BY <1>1, <1>2, <1>3, <1>4, EmptySeq, ConcatProperties

LEMMA RollingInitTyped == Init => RollingTypeOK
<1> SUFFICES ASSUME Init PROVE RollingTypeOK
  OBVIOUS
<1>1. thread \in [Nodes -> [Threads -> ThreadStates]]
  BY IdleTyped DEF Init
<1>2. inbox \in [Nodes -> Seq(Messages)]
  BY EmptySeq DEF Init
<1>3. view \in [Nodes -> [Nodes -> SiteStates \cup {"unknown"}]]
  BY DEF Init, InitialState, SiteStates
<1>4. queued \in [Nodes -> Seq(BOOLEAN)]
  BY DEF Init
<1> QED
  BY <1>1, <1>2, <1>3, <1>4 DEF Init, RollingTypeOK, ThreadStates, Deeds

\* Taking the head of an inbox leaves it typed, and the head is a message.
LEMMA InboxTyped ==
  ASSUME RollingTypeOK, NEW n \in Nodes, inbox[n] # <<>>
  PROVE  /\ Head(inbox[n]) \in Messages
         /\ Tail(inbox[n]) \in Seq(Messages)
<1>1. inbox[n] \in Seq(Messages)
  BY DEF RollingTypeOK
<1> QED
  BY <1>1, HeadTailProperties

LEMMA StepTyped ==
  ASSUME RollingTypeOK, NEW n \in Nodes, NEW t \in Threads, NEW from,
         NEW to \in {"idle", "wait", "read", "acquire", "loading", "started"},
         Step(n, t, from, to)
  PROVE  thread' \in [Nodes -> [Threads -> ThreadStates]]
<1> DEFINE now == [thread[n][t] EXCEPT !.step = to]
<1>1. thread \in [Nodes -> [Threads -> ThreadStates]]
  BY DEF RollingTypeOK, ThreadStates
<1>2. thread[n][t] \in ThreadStates
  BY <1>1
<1>3. now \in ThreadStates
  BY <1>2 DEF ThreadStates
<1>4. thread' = [thread EXCEPT ![n][t] = now]
  BY DEF Step
<1> HIDE DEF now
<1> QED
  BY <1>1, <1>3, <1>4

\* What a load publishes is typed, whether it fails or not.
LEMMA LoadEventsTyped ==
  ASSUME NEW n \in Nodes, NEW t
  PROVE  /\ ReloadEvents(n, t) \in Seq(Messages)
         /\ <<SiteStateEvent(n, "STARTED")>> \o ReloadEvents(n, t) \in Seq(Messages)
<1>1. ReloadEvents(n, t) \in Seq(Messages)
  BY EventsTyped DEF ReloadEvents
<1> QED
  BY <1>1, EventsTyped DEF SiteStates

\* What a failing load publishes: messages, and no reload but an
\* administrator's.
LEMMA FailStepEvents ==
  ASSUME NEW n \in Nodes, NEW t, FailStep(n, t)
  PROVE  \E messages \in Seq(Messages) :
           /\ Publish(n, messages)
           /\ t # Gui => \A i \in DOMAIN messages : messages[i].type # "reload"
                                                  /\ messages[i].from = n
<1> DEFINE Event(s) == <<SiteStateEvent(n, s)>>
           Plain(messages) == /\ messages \in Seq(Messages)
                              /\ t # Gui => \A i \in DOMAIN messages :
                                     messages[i].type # "reload" /\ messages[i].from = n
<1>1. \A s \in SiteStates : Plain(Event(s))
  <2>1. \A s \in SiteStates : Event(s) \in Seq(Messages)
    BY EventsTyped
  <2> QED
    BY <2>1 DEF SiteStateEvent
<1>2. Plain(<<>>) /\ Plain(ReloadEvents(n, t))
  <2>1. t # Gui => ReloadEvents(n, t) = <<>>
    BY DEF ReloadEvents, SendsReload
  <2> QED
    BY <2>1, EventsTyped, LoadEventsTyped
<1>3. ASSUME NEW u, NEW w, Plain(u), Plain(w) PROVE Plain(u \o w)
  <2>1. u \in Seq(Messages) /\ w \in Seq(Messages)
    BY <1>3
  <2>2. u \o w \in Seq(Messages)
    BY <2>1, EventsTyped
  <2>3. /\ Len(u) \in Nat /\ Len(w) \in Nat
        /\ DOMAIN u = 1..Len(u) /\ DOMAIN w = 1..Len(w)
        /\ DOMAIN (u \o w) = 1..(Len(u) + Len(w))
        /\ \A i \in 1..(Len(u) + Len(w)) :
             (u \o w)[i] = IF i <= Len(u) THEN u[i] ELSE w[i - Len(u)]
    BY <2>1, ConcatProperties, LenProperties
  <2>4. ASSUME t # Gui, NEW i \in DOMAIN (u \o w)
        PROVE  (u \o w)[i].type # "reload" /\ (u \o w)[i].from = n
    <3>1. CASE i <= Len(u)
      BY <1>3, <2>3, <2>4, <3>1
    <3>2. CASE ~(i <= Len(u))
      <4>1. i - Len(u) \in DOMAIN w /\ (u \o w)[i] = w[i - Len(u)]
        BY <2>3, <2>4, <3>2
      <4> QED
        BY <1>3, <2>4, <4>1
    <3> QED
      BY <3>1, <3>2
  <2> QED
    BY <2>2, <2>4
<1>4. "INACTIVE" \in SiteStates /\ "STARTED" \in SiteStates /\ "DOWN" \in SiteStates
  BY DEF SiteStates
<1>5. PICK before : /\ Plain(before)
                    /\ Deactivate(n, t, before) \/ DeactivateSilently(n, t, before)
  <2>1. ASSUME thread[n][t].step = "loading", Deactivate(n, t, <<>>)
        PROVE  \E before : Plain(before) /\ Deactivate(n, t, before)
    BY <1>2, <2>1
  <2>2. ASSUME NEW sent \in {<<>>, ReloadEvents(n, t)},
               Deactivate(n, t, Event("STARTED") \o sent)
        PROVE  \E before : Plain(before) /\ Deactivate(n, t, before)
    <3>1. Plain(Event("STARTED")) /\ Plain(sent)
      BY <1>1, <1>2, <1>4
    <3> HIDE DEF Plain, Event
    <3>2. Plain(Event("STARTED") \o sent)
      BY <1>3, <3>1
    <3> QED
      BY <2>2, <3>2
  <2>3. ASSUME NEW shutDown \in {<<>>, Event("DOWN")},
               Deactivate(n, t, shutDown) \/ DeactivateSilently(n, t, shutDown)
        PROVE  \E before : /\ Plain(before)
                           /\ Deactivate(n, t, before) \/ DeactivateSilently(n, t, before)
    <3>1. Plain(shutDown)
      BY <1>1, <1>2, <1>4
    <3> HIDE DEF Plain, Event
    <3> QED
      BY <2>3, <3>1
  <2> HIDE DEF Plain
  <2> QED
    BY <2>1, <2>2, <2>3 DEF FailStep, FailLoad, FailReload
<1>6. PICK messages \in Seq(Messages) : Plain(messages) /\ Publish(n, messages)
  <2>1. CASE Deactivate(n, t, before)
    <3>1. Plain(Event("INACTIVE"))
      BY <1>1, <1>4
    <3> HIDE DEF Plain, Event
    <3>2. Plain(before \o Event("INACTIVE"))
      BY <1>3, <1>5, <3>1
    <3>3. before \o Event("INACTIVE") \in Seq(Messages)
      BY <3>2 DEF Plain
    <3> QED
      BY <2>1, <3>2, <3>3 DEF Deactivate, Event
  <2>2. CASE DeactivateSilently(n, t, before)
    BY <1>5, <2>2 DEF DeactivateSilently
  <2> QED
    BY <1>5, <2>1, <2>2
<1> QED
  BY <1>6

\* How a load fails: the thread is idle, the site INACTIVE on its own map; the
\* node is abandoned if the new version was not in the site map yet.
LEMMA FailStepShape ==
  ASSUME NEW n \in Nodes, NEW t, FailStep(n, t)
  PROVE  /\ <<n, t>> \in Failing /\ n \in Here
         /\ thread' = [thread EXCEPT ![n][t] = Idle]
         /\ SetState(n, "INACTIVE")
         /\ UNCHANGED <<db, loaded, queued, gone, done>>
         /\ \/ abandoned' = abandoned /\ thread[n][t].step \in {"loading", "started"}
            \/ abandoned' = abandoned \cup {n} /\ thread[n][t].step = "acquire"
<1>1. UNCHANGED <<db, loaded, queued, gone, done>>
  BY DEF FailStep, FailLoad, FailReload
<1>2. \/ abandoned' = abandoned /\ thread[n][t].step \in {"loading", "started"}
      \/ abandoned' = abandoned \cup {n} /\ thread[n][t].step = "acquire"
  BY DEF FailStep, FailLoad, FailReload
<1>3. \E before : Deactivate(n, t, before) \/ DeactivateSilently(n, t, before)
  BY DEF FailStep, FailLoad, FailReload
<1> QED
  BY <1>1, <1>2, <1>3 DEF Deactivate, DeactivateSilently

\* Every step keeps the types.
LEMMA RollingNextTyped == RollingTypeOK /\ [Next]_vars => RollingTypeOK'
<1> SUFFICES ASSUME RollingTypeOK, [Next]_vars PROVE RollingTypeOK'
  OBVIOUS
<1> DEFINE ThreadOK == thread \in [Nodes -> [Threads -> ThreadStates]]
           ViewOK == view \in [Nodes -> [Nodes -> SiteStates \cup {"unknown"}]]
           InboxOK == inbox \in [Nodes -> Seq(Messages)]
<1>0. ThreadOK /\ ViewOK /\ InboxOK
  BY DEF RollingTypeOK, ThreadStates
<1>a. SUFFICES ASSUME Next PROVE RollingTypeOK'
  <2>1. CASE UNCHANGED vars
    BY <2>1 DEF vars, RollingTypeOK
  <2> QED
    BY <2>1
<1>b. ASSUME ThreadOK', ViewOK', InboxOK', db' \in Nat, loaded' \in [Nodes -> Nat],
             queued' \in [Nodes -> Seq(BOOLEAN)], gone' \subseteq Nodes,
             abandoned' \subseteq Nodes, done' \in Deeds
      PROVE  RollingTypeOK'
  BY <1>b DEF RollingTypeOK, ThreadStates
<1>c. /\ db \in Nat /\ loaded \in [Nodes -> Nat] /\ queued \in [Nodes -> Seq(BOOLEAN)]
      /\ gone \subseteq Nodes /\ abandoned \subseteq Nodes /\ done \in Deeds
  BY DEF RollingTypeOK
<1>d. ASSUME NEW n \in Nodes, NEW s \in SiteStates, SetState(n, s) PROVE ViewOK'
  BY <1>0, <1>d DEF SetState
<1>e. ASSUME NEW n \in Nodes, NEW s \in SiteStates, Publish(n, <<SiteStateEvent(n, s)>>)
      PROVE  InboxOK'
  <2>1. <<SiteStateEvent(n, s)>> \in Seq(Messages)
    BY EventsTyped
  <2> QED
    BY <1>e, <2>1, PublishTyped
<1> HIDE DEF ThreadOK, ViewOK, InboxOK
<1>1. CASE ReloadByAppNGizer
  <2>1. /\ Publish("appNGizer", <<ReloadSiteEvent("appNGizer")>>)
        /\ <<ReloadSiteEvent("appNGizer")>> \in Seq(Messages)
    BY <1>1, EventsTyped DEF ReloadByAppNGizer
  <2>2. InboxOK'
    BY <2>1, PublishTyped DEF InboxOK
  <2>3. db' \in Nat /\ done' \in Deeds
    BY <1>1, <1>c DEF ReloadByAppNGizer, Do, Deeds
  <2>4. UNCHANGED <<loaded, view, queued, thread, gone, abandoned>>
    BY <1>1 DEF ReloadByAppNGizer
  <2> QED
    BY <1>0, <1>b, <1>c, <2>2, <2>3, <2>4 DEF ThreadOK, ViewOK
<1>2. ASSUME NEW n \in Nodes, ChangeAndReload(n) PROVE RollingTypeOK'
  <2>0. db' = db + 1 /\ done' = [done EXCEPT !.gui = @ + 1]
    BY <1>2 DEF ChangeAndReload, Do
  <2>1. db' \in Nat /\ done' \in Deeds
    <3>1. done \in [gui : Nat, gizer : Nat, leave : Nat] /\ db \in Nat
      BY <1>c DEF Deeds
    <3>2. [done EXCEPT !.gui = @ + 1] \in [gui : Nat, gizer : Nat, leave : Nat]
      BY <3>1
    <3> QED
      BY <2>0, <3>1, <3>2 DEF Deeds
  <2>2. [Idle EXCEPT !.step = "acquire", !.version = db + 1] \in ThreadStates
    <3>1. db + 1 \in Nat
      BY <1>c
    <3> QED
      BY <3>1, IdleTyped DEF ThreadStates, Idle
  <2>3. ThreadOK'
    BY <1>0, <1>2, <2>2 DEF ChangeAndReload, ThreadOK
  <2>4. UNCHANGED <<loaded, view, inbox, queued, gone, abandoned>>
    BY <1>2 DEF ChangeAndReload
  <2> QED
    BY <1>0, <1>b, <1>c, <2>1, <2>3, <2>4 DEF ViewOK, InboxOK
<1>3. ASSUME NEW n \in Nodes, NEW messages \in Seq(Messages), Leave(n, messages)
      PROVE  RollingTypeOK'
  <2>1. \A m \in Nodes : inbox[m] \o messages \in Seq(Messages) /\ inbox[m] \in Seq(Messages)
    BY <1>0, EventsTyped DEF InboxOK
  <2>2. InboxOK'
    BY <1>3, <2>1, EventsTyped DEF Leave, InboxOK
  <2>3. ThreadOK'
    BY <1>0, <1>3, IdleTyped DEF Leave, ThreadOK
  <2>4. gone' \subseteq Nodes /\ done' \in Deeds /\ queued' \in [Nodes -> Seq(BOOLEAN)]
    <3>1. gone' \subseteq Nodes
      BY <1>3, <1>c DEF Leave
    <3>2. done' \in Deeds
      <4>1. [done EXCEPT !.leave = @ + 1] \in Deeds
        <5>1. done \in [gui : Nat, gizer : Nat, leave : Nat]
          BY <1>c DEF Deeds
        <5>2. done.leave + 1 \in Nat
          BY <5>1
        <5> QED
          BY <5>1, <5>2 DEF Deeds
      <4>2. done' = [done EXCEPT !.leave = @ + 1]
        BY <1>3 DEF Leave, Do
      <4> QED
        BY <4>1, <4>2
    <3>3. queued' \in [Nodes -> Seq(BOOLEAN)]
      BY <1>3, <1>c DEF Leave
    <3> QED
      BY <3>1, <3>2, <3>3
  <2>5. UNCHANGED <<db, loaded, view, abandoned>>
    BY <1>3 DEF Leave
  <2> QED
    BY <1>0, <1>b, <1>c, <2>2, <2>3, <2>4, <2>5 DEF ViewOK
<1>4. ASSUME NEW n \in Nodes, ShutDown(n) PROVE RollingTypeOK'
  <2>1. <<SiteStateEvent(n, "DOWN")>> \in Seq(Messages)
    BY EventsTyped DEF SiteStates
  <2>2. <<[type |-> "shutdown", from |-> n]>> \in Seq(Messages)
    BY EventsTyped
  <2>3. SiteStateEvent(n, "DOWN") \in Messages /\ [type |-> "shutdown", from |-> n] \in Messages
    BY DEF SiteStateEvent, Messages, SiteStates
  <2>4. <<SiteStateEvent(n, "DOWN"), [type |-> "shutdown", from |-> n]>> \in Seq(Messages)
    BY <2>3
  <2> QED
    BY <1>3, <1>4, <2>4 DEF ShutDown
<1>5. ASSUME NEW n \in Nodes, Crash(n) PROVE RollingTypeOK'
  BY <1>3, <1>5, EventsTyped DEF Crash
<1>6. ASSUME NEW n \in Nodes, ReceiveState(n) PROVE RollingTypeOK'
  <2> DEFINE message == Head(inbox[n])
             entry == IF message.type = "shutdown" THEN "unknown" ELSE message.state
  <2>1. message \in Messages /\ Tail(inbox[n]) \in Seq(Messages)
    BY <1>6, InboxTyped DEF ReceiveState, Receiving
  <2>2. /\ message.type \in {"siteState", "shutdown"}
        /\ view' = [view EXCEPT ![n][message.from] = entry]
        /\ inbox' = [inbox EXCEPT ![n] = Tail(inbox[n])]
    BY <1>6 DEF ReceiveState
  <2>3. entry \in SiteStates \cup {"unknown"}
    BY <2>1, <2>2 DEF Messages
  <2> HIDE DEF entry, message
  <2>4. ViewOK'
    BY <1>0, <2>2, <2>3 DEF ViewOK
  <2>5. InboxOK'
    BY <1>0, <2>1, <2>2 DEF InboxOK
  <2>6. UNCHANGED <<db, loaded, queued, thread, gone, abandoned, done>>
    BY <1>6 DEF ReceiveState
  <2> QED
    BY <1>0, <1>b, <1>c, <2>4, <2>5, <2>6 DEF ThreadOK
<1>7. ASSUME NEW n \in Nodes, ReceiveReload(n) PROVE RollingTypeOK'
  <2>1. Tail(inbox[n]) \in Seq(Messages)
    BY <1>7, InboxTyped DEF ReceiveReload, Receiving
  <2>0. HasSite(n) \in BOOLEAN
    BY DEF HasSite
  <2>2. InboxOK' /\ queued' \in [Nodes -> Seq(BOOLEAN)]
    BY <1>0, <1>7, <1>c, <2>0, <2>1 DEF ReceiveReload, InboxOK
  <2>3. UNCHANGED <<db, loaded, view, thread, gone, abandoned, done>>
    BY <1>7 DEF ReceiveReload
  <2> QED
    BY <1>0, <1>b, <1>c, <2>2, <2>3 DEF ThreadOK, ViewOK
<1>8. ASSUME NEW n \in Nodes, NEW h \in Handlers, HandlerStep(n, h) \/ FailPerform(n, h)
      PROVE  RollingTypeOK'
  <2>0. h \in Threads /\ MaxWait \in Nat \ {0}
    BY RollingAssumption DEF Threads
  <2>1. CASE Perform(n, h)
    <3> DEFINE numNodes == Cardinality(KnownNodes(n))
               waits == Head(queued[n]) /\ numNodes > 1
               now == [Idle EXCEPT !.step = IF waits THEN "wait" ELSE "read",
                                   !.quorum = IF waits THEN Quorum(numNodes) ELSE 0]
    <3>1. Quorum(numNodes) \in 0..Cardinality(Nodes) /\ Cardinality(Nodes) \in Nat
      BY QuorumReachable
    <3>2. now \in ThreadStates
      BY <3>1, IdleTyped DEF ThreadStates, Idle
    <3>3. thread' = [thread EXCEPT ![n][h] = now]
      BY <2>1 DEF Perform
    <3> HIDE DEF now
    <3>4. ThreadOK'
      BY <1>0, <3>2, <3>3 DEF ThreadOK
    <3>5. queued' \in [Nodes -> Seq(BOOLEAN)]
      <4>1. queued[n] \in Seq(BOOLEAN) /\ queued[n] # <<>>
        BY <1>c, <2>1 DEF Perform
      <4>2. Tail(queued[n]) \in Seq(BOOLEAN)
        BY <4>1, HeadTailProperties
      <4> QED
        BY <1>c, <2>1, <4>2 DEF Perform
    <3>6. UNCHANGED <<db, loaded, view, inbox, gone, abandoned, done>>
      BY <2>1 DEF Perform
    <3> QED
      BY <1>0, <1>b, <1>c, <3>4, <3>5, <3>6 DEF ViewOK, InboxOK
  <2>2. CASE WaitForSites(n, h)
    <3> DEFINE waited == Counted(thread[n][h].waited)
               rounds == IF TimeIsLeft(waited) THEN waited ELSE 0
               step == IF TimeIsLeft(waited) THEN "wait" ELSE "read"
    <3>1. thread[n][h] \in ThreadStates
      BY <1>0, <2>0 DEF ThreadOK
    <3>2. rounds \in 0..(MaxWait - 1)
      BY <2>0, <3>1 DEF ThreadStates, Counted, TimeIsLeft
    <3>3. thread' = [thread EXCEPT ![n][h].waited = rounds, ![n][h].step = step]
      BY <2>2 DEF WaitForSites
    <3>4. step \in {"wait", "read"}
      OBVIOUS
    <3> HIDE DEF rounds, step
    <3>5. ThreadOK'
      BY <1>0, <2>0, <3>2, <3>3, <3>4 DEF ThreadOK, ThreadStates
    <3>6. UNCHANGED <<db, loaded, view, inbox, queued, gone, abandoned, done>>
      BY <2>2 DEF WaitForSites
    <3> QED
      BY <1>0, <1>b, <1>c, <3>5, <3>6 DEF ViewOK, InboxOK
  <2>3. CASE SitesStarted(n, h)
    <3>1. ThreadOK' /\ UNCHANGED <<db, loaded, view, inbox, queued, gone, abandoned, done>>
      BY <2>0, <2>3, StepTyped DEF SitesStarted, ThreadOK
    <3> QED
      BY <1>0, <1>b, <1>c, <3>1 DEF ViewOK, InboxOK
  <2>4. CASE ReadSite(n, h)
    <3> DEFINE now == [thread[n][h] EXCEPT !.step = "acquire", !.version = db]
    <3>1. thread[n][h] \in ThreadStates
      BY <1>0, <2>0 DEF ThreadOK
    <3>2. now \in ThreadStates
      BY <1>c, <3>1 DEF ThreadStates
    <3>3. thread' = [thread EXCEPT ![n][h] = now]
      BY <2>4 DEF ReadSite, VersionRead
    <3> HIDE DEF now
    <3>4. ThreadOK'
      BY <1>0, <3>2, <3>3 DEF ThreadOK
    <3>5. UNCHANGED <<db, loaded, view, inbox, queued, gone, abandoned, done>>
      BY <2>4 DEF ReadSite
    <3> QED
      BY <1>0, <1>b, <1>c, <3>4, <3>5 DEF ViewOK, InboxOK
  <2>5. CASE FailPerform(n, h)
    <3>1. ThreadOK' /\ abandoned' \subseteq Nodes
      BY <1>0, <1>c, <2>5, IdleTyped DEF FailPerform, ThreadOK
    <3>2. UNCHANGED <<db, loaded, view, inbox, queued, gone, done>>
      BY <2>5 DEF FailPerform
    <3> QED
      BY <1>0, <1>b, <1>c, <3>1, <3>2 DEF ViewOK, InboxOK
  <2> QED
    BY <1>8, <2>1, <2>2, <2>3, <2>4, <2>5 DEF HandlerStep
<1>9. ASSUME NEW n \in Nodes, NEW t \in Threads, LoadStep(n, t) \/ FailStep(n, t)
      PROVE  RollingTypeOK'
  <2>1. CASE BeginLoad(n, t)
    <3>1. ThreadOK'
      BY <2>1, StepTyped DEF BeginLoad, ThreadOK
    <3>2. thread[n][t] \in ThreadStates
      BY <1>0 DEF ThreadOK
    <3>3. /\ loaded' \in [Nodes -> Nat] /\ abandoned' \subseteq Nodes
          /\ UNCHANGED <<db, queued, gone, done>>
      BY <1>c, <2>1, <3>2 DEF BeginLoad, ThreadStates
    <3>4. InboxOK' /\ ViewOK'
      BY <1>d, <1>e, <2>1 DEF BeginLoad, SiteStates
    <3> QED
      BY <1>b, <1>c, <3>1, <3>3, <3>4
  <2>2. CASE SetStarted(n, t)
    <3>1. ThreadOK' /\ UNCHANGED <<db, loaded, inbox, queued, gone, abandoned, done>>
      BY <2>2, StepTyped DEF SetStarted, ThreadOK
    <3>2. ViewOK'
      BY <1>d, <2>2 DEF SetStarted, SiteStates
    <3> QED
      BY <1>0, <1>b, <1>c, <3>1, <3>2 DEF InboxOK
  <2>3. CASE Announce(n, t)
    <3>1. ThreadOK' /\ UNCHANGED <<db, loaded, view, queued, gone, abandoned, done>>
      BY <1>0, <2>3, IdleTyped DEF Announce, ThreadOK
    <3> DEFINE messages == <<SiteStateEvent(n, "STARTED")>> \o ReloadEvents(n, t)
    <3>2. messages \in Seq(Messages)
      BY LoadEventsTyped
    <3>3. Publish(n, messages)
      BY <2>3 DEF Announce
    <3>4. InboxOK'
      BY <3>2, <3>3, PublishTyped DEF InboxOK
    <3> QED
      BY <1>0, <1>b, <1>c, <3>1, <3>4 DEF ViewOK
  <2>4. CASE FailStep(n, t)
    <3>0. /\ UNCHANGED <<db, loaded, queued, gone, done>>
          /\ thread' = [thread EXCEPT ![n][t] = Idle]
          /\ abandoned' \in {abandoned, abandoned \cup {n}}
      BY <2>4, FailStepShape
    <3>1. ThreadOK' /\ abandoned' \subseteq Nodes
      BY <1>0, <1>c, <3>0, IdleTyped DEF ThreadOK
    <3>2. ViewOK'
      BY <1>d, <2>4, FailStepShape DEF SiteStates
    <3>3. InboxOK'
      BY <2>4, FailStepEvents, PublishTyped DEF InboxOK
    <3> QED
      BY <1>b, <1>c, <3>0, <3>1, <3>2, <3>3
  <2> QED
    BY <1>9, <2>1, <2>2, <2>3, <2>4 DEF LoadStep
<1> QED
  BY <1>a, <1>1, <1>2, <1>4, <1>5, <1>6, <1>7, <1>8, <1>9 DEF Next, Receive

\* RollingTypeOK, for every cluster: in particular no handler waits longer
\* than MaxWait rounds, and no quorum exceeds the number of nodes.
THEOREM RollingTyping == Spec => []RollingTypeOK
<1>1. Init => RollingTypeOK
  BY RollingInitTyped
<1>2. RollingTypeOK /\ [Next]_vars => RollingTypeOK'
  BY RollingNextTyped
<1> QED
  BY <1>1, <1>2, PTL DEF Spec

-----------------------------------------------------------------------------
(* Availability.  When only node a is asked to reload, nobody asks it to   *)
(* reload a second time: what the other nodes publish are their states,    *)
(* and its own ReloadSiteEvent is not performed by itself.  So only the    *)
(* administrator's own load ever takes its site down.                      *)

\* Nothing in the inbox of node a, or behind it, would make it reload or
\* change what its map says of itself.
NobodyAsks(a) ==
  /\ \A i \in DOMAIN inbox[a] : inbox[a][i].type # "reload" /\ inbox[a][i].from # a
  /\ queued[a] = <<>>
  /\ \A h \in Handlers : thread[a][h] = Idle
  /\ \A n \in Nodes \ {a} : thread[n][Gui] = Idle

OnlyItsLoad(a) ==
  a \notin gone =>
    /\ thread[a][Gui].step # "loading" => State(a) \in {"STARTED", "INACTIVE"}
    /\ thread[a][Gui].step = "started" => State(a) = "STARTED"

Undisturbed(a) == done.gizer = 0 => NobodyAsks(a) /\ OnlyItsLoad(a)

\* What is published to node a by others, in one message or more.
Harmless(a, messages) ==
  \A i \in DOMAIN messages : messages[i].type # "reload" /\ messages[i].from # a

LEMMA HarmlessTail ==
  ASSUME NEW a, NEW s \in Seq(Messages), Harmless(a, s), s # <<>>
  PROVE  Harmless(a, Tail(s)) /\ Head(s).type # "reload" /\ Head(s).from # a
<1>1. Len(s) \in Nat /\ Len(s) > 0 /\ Tail(s) \in Seq(Messages) /\ DOMAIN s = 1..Len(s)
      /\ Head(s) = s[1] /\ DOMAIN Tail(s) = 1..(Len(s) - 1)
      /\ \A i \in 1..(Len(s) - 1) : Tail(s)[i] = s[i + 1]
  BY HeadTailProperties, EmptySeq, LenProperties
<1> QED
  BY <1>1 DEF Harmless

LEMMA HarmlessConcat ==
  ASSUME NEW a, NEW s \in Seq(Messages), NEW u \in Seq(Messages),
         Harmless(a, s), Harmless(a, u)
  PROVE  Harmless(a, s \o u)
<1>1. /\ Len(s) \in Nat /\ Len(u) \in Nat
      /\ DOMAIN s = 1..Len(s) /\ DOMAIN u = 1..Len(u)
      /\ DOMAIN (s \o u) = 1..(Len(s) + Len(u))
      /\ \A i \in 1..(Len(s) + Len(u)) :
           (s \o u)[i] = IF i <= Len(s) THEN s[i] ELSE u[i - Len(s)]
  BY ConcatProperties, LenProperties
<1> QED
  BY <1>1 DEF Harmless

\* What a node other than a publishes leaves the inbox of a harmless, and
\* what a itself publishes does not come back to it.
LEMMA InboxHarmless ==
  ASSUME RollingTypeOK, NEW a \in Nodes, Harmless(a, inbox[a]),
         NEW from, NEW messages \in Seq(Messages), Publish(from, messages),
         from # a => Harmless(a, messages)
  PROVE  Harmless(a, inbox'[a])
<1>1. inbox[a] \in Seq(Messages)
  BY DEF RollingTypeOK
<1>2. CASE from = a
  BY <1>2 DEF Publish, Performs
<1>3. CASE from # a
  <2>1. Harmless(a, inbox[a] \o messages)
    BY <1>1, <1>3, HarmlessConcat
  <2> QED
    BY <2>1 DEF Publish
<1> QED
  BY <1>2, <1>3

LEMMA StateEventHarmless ==
  ASSUME NEW a \in Nodes, NEW n \in Nodes, n # a, NEW s \in SiteStates
  PROVE  /\ Harmless(a, <<SiteStateEvent(n, s)>>)
         /\ Harmless(a, <<SiteStateEvent(n, s), [type |-> "shutdown", from |-> n]>>)
BY DEF Harmless, SiteStateEvent

LEMMA UndisturbedNext ==
  ASSUME NEW a \in Nodes, Admins = {a}, RollingTypeOK, Undisturbed(a), [Next]_vars
  PROVE  Undisturbed(a)'
<1> SUFFICES ASSUME done'.gizer = 0 PROVE NobodyAsks(a)' /\ OnlyItsLoad(a)'
  BY DEF Undisturbed
<1>0. /\ done \in Deeds
      /\ inbox \in [Nodes -> Seq(Messages)]
      /\ queued \in [Nodes -> Seq(BOOLEAN)]
      /\ thread \in [Nodes -> [Threads -> ThreadStates]]
      /\ view \in [Nodes -> [Nodes -> SiteStates \cup {"unknown"}]]
      /\ Gui \in Threads /\ Handlers \subseteq Threads /\ Gui \notin Handlers
      /\ Idle.step = "idle"
  BY RollingAssumption DEF RollingTypeOK, ThreadStates, Threads, Idle
<1>a. ASSUME done.gizer = 0 PROVE NobodyAsks(a) /\ OnlyItsLoad(a) /\ Harmless(a, inbox[a])
  BY <1>a DEF Undisturbed, NobodyAsks, Harmless
<1>b. ASSUME Harmless(a, inbox'[a]), queued'[a] = <<>>,
             \A h \in Handlers : thread'[a][h] = Idle,
             \A n \in Nodes \ {a} : thread'[n][Gui] = Idle
      PROVE  NobodyAsks(a)'
  BY <1>b DEF NobodyAsks, Harmless
<1>1. CASE UNCHANGED vars
  BY <1>1, <1>a DEF vars, NobodyAsks, OnlyItsLoad, State
<1>2. CASE ReloadByAppNGizer
  <2>1. done' = [done EXCEPT !.gizer = @ + 1]
    BY <1>2 DEF ReloadByAppNGizer, Do
  <2>2. done'.gizer = done.gizer + 1 /\ done.gizer \in Nat
    BY <1>0, <2>1 DEF Deeds
  <2> QED
    BY <2>2
<1>3. ASSUME NEW n \in Nodes, ChangeAndReload(n) PROVE NobodyAsks(a)' /\ OnlyItsLoad(a)'
  <2>1. n = a /\ thread[a][Gui].step = "idle" /\ UNCHANGED <<view, inbox, queued, gone>>
    BY <1>0, <1>3 DEF ChangeAndReload
  <2>2. done' = [done EXCEPT !.gui = @ + 1]
    BY <1>3 DEF ChangeAndReload, Do
  <2>3. done.gizer = 0
    BY <1>0, <2>2 DEF Deeds
  <2>4. thread' = [thread EXCEPT ![a][Gui] =
                     [Idle EXCEPT !.step = "acquire", !.version = db + 1]]
    BY <1>3, <2>1 DEF ChangeAndReload
  <2>5. NobodyAsks(a)'
    BY <1>0, <1>a, <1>b, <2>1, <2>3, <2>4 DEF NobodyAsks
  <2>6. OnlyItsLoad(a)'
    BY <1>0, <1>a, <2>1, <2>3, <2>4 DEF OnlyItsLoad, State, Idle
  <2> QED
    BY <2>5, <2>6
<1>4. ASSUME NEW n \in Nodes, NEW messages \in Seq(Messages), Leave(n, messages),
             n # a => Harmless(a, messages)
      PROVE  NobodyAsks(a)' /\ OnlyItsLoad(a)'
  <2>1. done' = [done EXCEPT !.leave = @ + 1]
    BY <1>4 DEF Leave, Do
  <2>2. done.gizer = 0
    BY <1>0, <2>1 DEF Deeds
  <2>3. /\ gone' = gone \cup {n} /\ queued' = [queued EXCEPT ![n] = <<>>]
        /\ thread' = [thread EXCEPT ![n] = [t \in Threads |-> Idle]]
        /\ view' = view
        /\ inbox' = [m \in Nodes |-> IF m = n THEN <<>>
                       ELSE IF m \in Here THEN inbox[m] \o messages ELSE inbox[m]]
    BY <1>4 DEF Leave
  <2>4. Harmless(a, inbox'[a])
    <3>1. CASE n = a
      BY <2>3, <3>1 DEF Harmless
    <3>2. CASE n # a
      <4>1. inbox[a] \in Seq(Messages) /\ Harmless(a, messages) /\ Harmless(a, inbox[a])
        BY <1>0, <1>4, <1>a, <2>2, <3>2
      <4>2. Harmless(a, inbox[a] \o messages)
        BY <4>1, HarmlessConcat
      <4> QED
        BY <2>3, <3>2, <4>1, <4>2
    <3> QED
      BY <3>1, <3>2
  <2>5. NobodyAsks(a)'
    <3>1. \A h \in Handlers : thread'[a][h] = Idle
      BY <1>0, <1>a, <2>2, <2>3 DEF NobodyAsks
    <3>2. \A m \in Nodes \ {a} : thread'[m][Gui] = Idle
      BY <1>0, <1>a, <2>2, <2>3 DEF NobodyAsks
    <3>3. queued'[a] = <<>>
      BY <1>0, <1>a, <2>2, <2>3 DEF NobodyAsks
    <3> QED
      BY <1>b, <2>4, <3>1, <3>2, <3>3
  <2>6. OnlyItsLoad(a)'
    <3>1. CASE n = a
      BY <2>3, <3>1 DEF OnlyItsLoad
    <3>2. CASE n # a
      BY <1>0, <1>a, <2>2, <2>3, <3>2 DEF OnlyItsLoad, State
    <3> QED
      BY <3>1, <3>2
  <2> QED
    BY <2>5, <2>6
<1>5. ASSUME NEW n \in Nodes, ShutDown(n) PROVE NobodyAsks(a)' /\ OnlyItsLoad(a)'
  <2>1. SiteStateEvent(n, "DOWN") \in Messages /\ [type |-> "shutdown", from |-> n] \in Messages
    BY DEF SiteStateEvent, Messages, SiteStates
  <2>2. <<SiteStateEvent(n, "DOWN"), [type |-> "shutdown", from |-> n]>> \in Seq(Messages)
    BY <2>1
  <2>3. n # a => Harmless(a, <<SiteStateEvent(n, "DOWN"), [type |-> "shutdown", from |-> n]>>)
    BY StateEventHarmless DEF SiteStates
  <2> QED
    BY <1>4, <1>5, <2>2, <2>3 DEF ShutDown
<1>6. ASSUME NEW n \in Nodes, Crash(n) PROVE NobodyAsks(a)' /\ OnlyItsLoad(a)'
  <2>1. <<>> \in Seq(Messages) /\ Harmless(a, <<>>)
    BY EventsTyped DEF Harmless
  <2> QED
    BY <1>4, <1>6, <2>1 DEF Crash
<1>c. CASE done' = done
  <2>0. done.gizer = 0 /\ NobodyAsks(a) /\ OnlyItsLoad(a) /\ Harmless(a, inbox[a])
    BY <1>c, <1>a
  <2>1. ASSUME NEW n \in Nodes, ReceiveState(n) PROVE NobodyAsks(a)' /\ OnlyItsLoad(a)'
    <3>1. /\ UNCHANGED <<queued, thread, gone>>
          /\ inbox' = [inbox EXCEPT ![n] = Tail(inbox[n])]
          /\ inbox[n] # <<>>
      BY <2>1 DEF ReceiveState, Receiving
    <3>2. PICK s : view' = [view EXCEPT ![n][Head(inbox[n]).from] = s]
      BY <2>1 DEF ReceiveState
    <3>3. Harmless(a, inbox'[a]) /\ (n = a => Head(inbox[n]).from # a)
      <4>1. CASE n = a
        BY <1>0, <2>0, <3>1, <4>1, HarmlessTail
      <4>2. CASE n # a
        BY <1>0, <2>0, <3>1, <4>2
      <4> QED
        BY <4>1, <4>2
    <3>4. State(a)' = State(a)
      BY <1>0, <3>2, <3>3 DEF State
    <3> QED
      BY <1>b, <2>0, <3>1, <3>3, <3>4 DEF NobodyAsks, OnlyItsLoad
  <2>2. ASSUME NEW n \in Nodes, ReceiveReload(n) PROVE NobodyAsks(a)' /\ OnlyItsLoad(a)'
    <3>1. /\ UNCHANGED <<view, thread, gone>>
          /\ inbox' = [inbox EXCEPT ![n] = Tail(inbox[n])]
          /\ queued' = [queued EXCEPT ![n] = Append(@, HasSite(n))]
          /\ inbox[n] # <<>> /\ Head(inbox[n]).type = "reload"
      BY <2>2 DEF ReceiveReload, Receiving
    <3>2. n # a
      BY <1>0, <2>0, <3>1, HarmlessTail
    <3>3. inbox'[a] = inbox[a] /\ queued'[a] = queued[a]
      BY <1>0, <3>1, <3>2
    <3> QED
      BY <1>b, <2>0, <3>1, <3>3 DEF NobodyAsks, OnlyItsLoad, State
  <2>3. ASSUME NEW n \in Nodes, NEW h \in Handlers, HandlerStep(n, h) \/ FailPerform(n, h)
        PROVE  NobodyAsks(a)' /\ OnlyItsLoad(a)'
    <3>1. /\ UNCHANGED <<view, inbox, gone>>
          /\ thread[n][h] # Idle \/ queued[n] # <<>>
      <4>1. CASE Perform(n, h)
        BY <4>1 DEF Perform
      <4>2. CASE WaitForSites(n, h)
        BY <1>0, <4>2 DEF WaitForSites
      <4>3. CASE SitesStarted(n, h)
        BY <1>0, <4>3 DEF SitesStarted, Step
      <4>4. CASE ReadSite(n, h)
        BY <1>0, <4>4 DEF ReadSite
      <4>5. CASE FailPerform(n, h)
        BY <1>0, <4>5 DEF FailPerform
      <4> QED
        BY <2>3, <4>1, <4>2, <4>3, <4>4, <4>5 DEF HandlerStep
    <3>2. n # a
      BY <1>0, <2>0, <3>1 DEF NobodyAsks
    <3>3. thread'[a] = thread[a]
      BY <1>0, <2>3, <3>2
         DEF HandlerStep, Perform, WaitForSites, SitesStarted, ReadSite, FailPerform, Step
    <3>4. \A m \in Nodes : thread'[m][Gui] = thread[m][Gui]
      <4>0. h \in Threads /\ h # Gui
        BY <1>0
      <4>1. CASE Perform(n, h)
        BY <1>0, <4>0, <4>1 DEF Perform
      <4>2. CASE WaitForSites(n, h)
        BY <1>0, <4>0, <4>2 DEF WaitForSites
      <4>3. CASE SitesStarted(n, h)
        BY <1>0, <4>0, <4>3 DEF SitesStarted, Step
      <4>4. CASE ReadSite(n, h)
        BY <1>0, <4>0, <4>4 DEF ReadSite
      <4>5. CASE FailPerform(n, h)
        BY <1>0, <4>0, <4>5 DEF FailPerform
      <4> QED
        BY <2>3, <4>1, <4>2, <4>3, <4>4, <4>5 DEF HandlerStep
    <3>5. queued'[a] = queued[a]
      BY <1>0, <2>3, <3>2
         DEF HandlerStep, Perform, WaitForSites, SitesStarted, ReadSite, FailPerform, Step
    <3> QED
      BY <1>b, <2>0, <3>1, <3>3, <3>4, <3>5 DEF NobodyAsks, OnlyItsLoad, State
  <2>4. ASSUME NEW n \in Nodes, NEW t \in Threads, LoadStep(n, t) \/ FailStep(n, t)
        PROVE  NobodyAsks(a)' /\ OnlyItsLoad(a)'
    <3>1. thread[n][t].step # "idle" /\ UNCHANGED <<queued, gone>>
      <4>1. CASE LoadStep(n, t)
        BY <1>0, <4>1 DEF LoadStep, BeginLoad, SetStarted, Announce, Step
      <4>2. CASE FailStep(n, t)
        BY <4>2, FailStepShape
      <4> QED
        BY <2>4, <4>1, <4>2
    <3>2. (n = a => t = Gui) /\ (n # a => t # Gui)
      BY <1>0, <2>0, <3>1 DEF NobodyAsks, Threads
    <3>3. Harmless(a, inbox'[a])
      <4>1. CASE BeginLoad(n, t)
        <5>1. /\ Publish(n, <<SiteStateEvent(n, "DOWN")>>)
              /\ <<SiteStateEvent(n, "DOWN")>> \in Seq(Messages)
          BY <4>1, EventsTyped DEF BeginLoad, SiteStates
        <5>2. n # a => Harmless(a, <<SiteStateEvent(n, "DOWN")>>)
          BY StateEventHarmless DEF SiteStates
        <5> QED
          BY <2>0, <5>1, <5>2, InboxHarmless
      <4>2. CASE SetStarted(n, t)
        BY <2>0, <4>2 DEF SetStarted
      <4>3. CASE Announce(n, t)
        <5> DEFINE messages == <<SiteStateEvent(n, "STARTED")>> \o ReloadEvents(n, t)
        <5>1. messages \in Seq(Messages) /\ <<SiteStateEvent(n, "STARTED")>> \in Seq(Messages)
          BY EventsTyped, LoadEventsTyped DEF SiteStates
        <5>2. Publish(n, messages)
          BY <4>3 DEF Announce
        <5>3. ASSUME n # a PROVE Harmless(a, messages)
          <6>1. messages = <<SiteStateEvent(n, "STARTED")>> \o <<>>
            BY <3>2, <5>3 DEF ReloadEvents, SendsReload
          <6>2. <<>> \in Seq(Messages) /\ Harmless(a, <<>>)
            BY EventsTyped DEF Harmless
          <6>3. Harmless(a, <<SiteStateEvent(n, "STARTED")>>)
            BY <5>3, StateEventHarmless DEF SiteStates
          <6> HIDE DEF messages
          <6> QED
            BY <5>1, <6>1, <6>2, <6>3, HarmlessConcat
        <5> HIDE DEF messages
        <5> QED
          BY <2>0, <5>1, <5>2, <5>3, InboxHarmless
      <4>4. CASE FailStep(n, t)
        <5>1. PICK messages \in Seq(Messages) :
                /\ Publish(n, messages)
                /\ t # Gui => \A i \in DOMAIN messages : messages[i].type # "reload"
                                                       /\ messages[i].from = n
          BY <4>4, FailStepEvents
        <5>2. n # a => Harmless(a, messages)
          BY <3>2, <5>1 DEF Harmless
        <5> QED
          BY <2>0, <5>1, <5>2, InboxHarmless
      <4> QED
        BY <2>4, <4>1, <4>2, <4>3, <4>4 DEF LoadStep
    <3>4. PICK now : thread' = [thread EXCEPT ![n][t] = now]
      <4>1. CASE LoadStep(n, t)
        BY <4>1 DEF LoadStep, BeginLoad, SetStarted, Announce, Step
      <4>2. CASE FailStep(n, t)
        BY <4>2, FailStepShape
      <4> QED
        BY <2>4, <4>1, <4>2
    <3>5. NobodyAsks(a)'
      <4>1. \A h \in Handlers : thread'[a][h] = Idle
        BY <1>0, <2>0, <3>2, <3>4 DEF NobodyAsks
      <4>2. \A m \in Nodes \ {a} : thread'[m][Gui] = Idle
        BY <1>0, <2>0, <3>2, <3>4 DEF NobodyAsks
      <4>3. queued'[a] = <<>>
        BY <2>0, <3>1 DEF NobodyAsks
      <4> QED
        BY <1>b, <3>3, <4>1, <4>2, <4>3
    <3>6. OnlyItsLoad(a)'
      <4>1. CASE n # a
        <5>1. (\E s : SetState(n, s)) \/ view' = view
          <6>1. CASE LoadStep(n, t)
            BY <6>1 DEF LoadStep, BeginLoad, SetStarted, Announce
          <6>2. CASE FailStep(n, t)
            BY <6>2, FailStepShape
          <6> QED
            BY <2>4, <6>1, <6>2
        <5>2. thread'[a] = thread[a] /\ State(a)' = State(a)
          BY <1>0, <3>4, <4>1, <5>1 DEF SetState, State
        <5> QED
          BY <2>0, <3>1, <5>2 DEF OnlyItsLoad
      <4>2. CASE n = a /\ t = Gui
        <5>1. thread'[a][Gui] = now /\ now.step = thread'[a][Gui].step
          BY <1>0, <3>4, <4>2
        <5>2. CASE BeginLoad(n, t)
          BY <1>0, <4>2, <5>2 DEF BeginLoad, Step, SetState, State, OnlyItsLoad
        <5>3. CASE SetStarted(n, t)
          BY <1>0, <4>2, <5>3 DEF SetStarted, Step, SetState, State, OnlyItsLoad
        <5>4. CASE Announce(n, t)
          BY <1>0, <2>0, <3>1, <4>2, <5>4 DEF Announce, State, OnlyItsLoad
        <5>5. CASE FailStep(n, t)
          <6>0. /\ view' = [view EXCEPT ![n][n] = "INACTIVE"]
                /\ thread' = [thread EXCEPT ![n][t] = Idle]
            BY <5>5, FailStepShape DEF SetState
          <6>1. State(a)' = "INACTIVE" /\ thread'[a][Gui].step = "idle"
            BY <1>0, <4>2, <6>0 DEF State
          <6> QED
            BY <6>1 DEF OnlyItsLoad
        <5> QED
          BY <2>4, <5>2, <5>3, <5>4, <5>5 DEF LoadStep
      <4> QED
        BY <3>2, <4>1, <4>2
    <3> QED
      BY <3>5, <3>6
  <2>5. CASE Next
    <3>1. done.gizer = 0
      BY <2>0
    <3> QED
      BY <1>2, <1>3, <1>5, <1>6, <2>1, <2>2, <2>3, <2>4, <2>5 DEF Next, Receive
  <2> QED
    BY <1>1, <2>5
<1>d. CASE Next
  <2>1. \/ ReloadByAppNGizer \/ done' = done
        \/ \E n \in Nodes : ChangeAndReload(n) \/ ShutDown(n) \/ Crash(n)
    <3>1. ASSUME NEW n \in Nodes, Receive(n) PROVE done' = done
      BY <3>1 DEF Receive, ReceiveState, ReceiveReload
    <3>2. ASSUME NEW n \in Nodes, NEW h \in Handlers, HandlerStep(n, h) \/ FailPerform(n, h)
          PROVE  done' = done
      BY <3>2 DEF HandlerStep, Perform, WaitForSites, SitesStarted, ReadSite, FailPerform
    <3>3. ASSUME NEW n \in Nodes, NEW t \in Threads, LoadStep(n, t) \/ FailStep(n, t)
          PROVE  done' = done
      BY <3>3 DEF LoadStep, BeginLoad, SetStarted, Announce, FailStep, FailLoad, FailReload
    <3> QED
      BY <1>d, <3>1, <3>2, <3>3 DEF Next
  <2> QED
    BY <1>2, <1>3, <1>5, <1>6, <1>c, <2>1
<1> QED
  BY <1>1, <1>d

\* StaysAvailable, for every cluster and every transport, when one node is
\* asked to reload: whatever the other nodes' maps say, however their loads
\* end and whoever leaves, an administrator's node whose own load is over and
\* has not failed serves the site.
THEOREM StaysAvailableWithOneAdmin ==
  ASSUME NEW a, Admins = {a}
  PROVE  Spec => []StaysAvailable
<1>0. a \in Nodes /\ a \notin New
  BY RollingAssumption
<1>1. Init => RollingTypeOK /\ Undisturbed(a)
  <2> SUFFICES ASSUME Init PROVE RollingTypeOK /\ Undisturbed(a)
    OBVIOUS
  <2>1. State(a) = "STARTED"
    BY <1>0 DEF Init, State, InitialState
  <2>2. NobodyAsks(a)
    BY <1>0, RollingAssumption DEF Init, NobodyAsks, Threads
  <2>3. OnlyItsLoad(a)
    BY <1>0, <2>1 DEF Init, OnlyItsLoad, Idle, Threads
  <2> QED
    BY <2>2, <2>3, RollingInitTyped DEF Undisturbed
<1>2. RollingTypeOK /\ Undisturbed(a) /\ [Next]_vars => RollingTypeOK' /\ Undisturbed(a)'
  BY <1>0, RollingNextTyped, UndisturbedNext
<1>3. RollingTypeOK /\ Undisturbed(a) => StaysAvailable
  <2> SUFFICES ASSUME Undisturbed(a), done.gizer = 0, Admins \cap gone = {},
                      ~Loading(a, Gui), State(a) # "INACTIVE"
               PROVE  a \in Here /\ State(a) = "STARTED"
    BY <1>0 DEF StaysAvailable
  <2> QED
    BY <1>0 DEF Undisturbed, OnlyItsLoad, Loading, Here
<1> QED
  BY <1>1, <1>2, <1>3, PTL DEF Spec

-----------------------------------------------------------------------------
(***************************************************************************)
(* NobodyLeftBehind, where every node performs one event at a time.  From  *)
(* a change of the site until a node has loaded it there is always         *)
(* something that will make the node load it: the administrator's load, an *)
(* event in the inbox or for the executor, or a handler that has not read  *)
(* the site yet or has read the last version; or its last reload failed    *)
(* before the new version was in its site map.  The case that needs the    *)
(* one handler: while it loads a version that is outdated by now, the      *)
(* event of the later change is still behind it.                           *)
(***************************************************************************)

HasReload(messages) == \E i \in DOMAIN messages : messages[i].type = "reload"

LEMMA ReloadInConcat ==
  ASSUME NEW s \in Seq(Messages), NEW u \in Seq(Messages), HasReload(s) \/ HasReload(u)
  PROVE  HasReload(s \o u)
<1>1. /\ Len(s) \in Nat /\ Len(u) \in Nat
      /\ DOMAIN s = 1..Len(s) /\ DOMAIN u = 1..Len(u)
      /\ DOMAIN (s \o u) = 1..(Len(s) + Len(u))
      /\ \A i \in 1..(Len(s) + Len(u)) :
           (s \o u)[i] = IF i <= Len(s) THEN s[i] ELSE u[i - Len(s)]
  BY ConcatProperties, LenProperties
<1>2. ASSUME NEW i \in DOMAIN s, s[i].type = "reload" PROVE HasReload(s \o u)
  <2>1. i \in DOMAIN (s \o u) /\ (s \o u)[i] = s[i]
    BY <1>1
  <2> QED
    BY <1>2, <2>1 DEF HasReload
<1>3. ASSUME NEW i \in DOMAIN u, u[i].type = "reload" PROVE HasReload(s \o u)
  <2>1. Len(s) + i \in DOMAIN (s \o u) /\ (s \o u)[Len(s) + i] = u[i]
    BY <1>1
  <2> QED
    BY <1>3, <2>1 DEF HasReload
<1> QED
  BY <1>2, <1>3 DEF HasReload

LEMMA ReloadInTail ==
  ASSUME NEW s \in Seq(Messages), s # <<>>, HasReload(s), Head(s).type # "reload"
  PROVE  HasReload(Tail(s))
<1>1. Len(s) \in Nat /\ Len(s) > 0 /\ DOMAIN s = 1..Len(s)
      /\ Head(s) = s[1] /\ DOMAIN Tail(s) = 1..(Len(s) - 1)
      /\ \A i \in 1..(Len(s) - 1) : Tail(s)[i] = s[i + 1]
  BY HeadTailProperties, EmptySeq, LenProperties
<1>2. PICK i \in 1..Len(s) : s[i].type = "reload"
  BY <1>1 DEF HasReload
<1>3. i # 1
  BY <1>1, <1>2
<1>4. i - 1 \in DOMAIN Tail(s) /\ Tail(s)[i - 1] = s[i]
  BY <1>1, <1>3
<1> QED
  BY <1>2, <1>4 DEF HasReload

\* Publish: a node that is here keeps the reloads in its inbox and gets those
\* of the others.
LEMMA ReloadArrives ==
  ASSUME RollingTypeOK, NEW n \in Here, NEW from, NEW messages \in Seq(Messages),
         Publish(from, messages)
  PROVE  /\ HasReload(inbox[n]) => HasReload(inbox'[n])
         /\ n # from /\ HasReload(messages) => HasReload(inbox'[n])
<1>1. n \in Nodes /\ inbox[n] \in Seq(Messages)
  BY DEF RollingTypeOK, Here
<1>2. inbox'[n] = IF n # from THEN inbox[n] \o messages ELSE inbox[n]
  BY <1>1 DEF Publish, Performs
<1> QED
  BY <1>1, <1>2, ReloadInConcat

\* Only administrators' nodes load in a request thread.
OnlyAdminsAsk ==
  \A m \in Nodes : thread[m][Gui].step # "idle" => m \in Admins \cap Here

\* What will make n load the last version, has made it, or has failed to.
KeepsUp(n, h) ==
  \/ ReloadIsComing(n)
  \/ thread[n][h].step \in {"wait", "read"}
  \/ thread[n][h].step = "acquire" /\ thread[n][h].version = db
  \/ /\ thread[n][h].step \in {"idle", "loading", "started"}
     /\ loaded[n] = db \/ n \in abandoned

AllKeepUp(h) == OnlyAdminsAsk /\ \A n \in Here \ Admins : KeepsUp(n, h)

LEMMA KeepUpInit ==
  ASSUME NEW h, Handlers = {h}, Init PROVE AllKeepUp(h)
<1>1. \A n \in Nodes : thread[n][h].step = "idle" /\ thread[n][Gui].step = "idle"
  BY DEF Init, Threads, Idle
<1> QED
  BY <1>1 DEF Init, AllKeepUp, OnlyAdminsAsk, KeepsUp, Here

\* A step that takes no event, ends no administrator's load and leaves the
\* handler of n alone.
LEMMA StillKeepsUp ==
  ASSUME NEW h, NEW n \in Here, KeepsUp(n, h), n \in Nodes,
         UNCHANGED <<db, gone>>, loaded'[n] = loaded[n],
         n \in abandoned => n \in abandoned',
         queued'[n] = queued[n], thread'[n][h] = thread[n][h],
         HasReload(inbox[n]) => HasReload(inbox'[n]),
         \A m \in Here :
            \/ thread'[m][Gui].step = thread[m][Gui].step
            \/ thread'[m][Gui].step \in {"acquire", "loading", "started"}
  PROVE  KeepsUp(n, h)'
<1>1. ReloadIsComing(n) => ReloadIsComing(n)'
  BY DEF ReloadIsComing, HasReload, Here
<1> QED
  BY <1>1 DEF KeepsUp

\* Messages that are received.
LEMMA ReceiveKeepsUp ==
  ASSUME NEW h, Handlers = {h}, RollingTypeOK, AllKeepUp(h), NEW m \in Nodes, Receive(m)
  PROVE  AllKeepUp(h)'
<1>1. /\ UNCHANGED <<db, loaded, thread, gone, abandoned>>
      /\ inbox' = [inbox EXCEPT ![m] = Tail(inbox[m])] /\ inbox[m] # <<>>
  BY DEF Receive, ReceiveState, ReceiveReload, Receiving
<1>2. ASSUME NEW n \in Here \ Admins PROVE KeepsUp(n, h)'
  <2>0. n \in Nodes /\ KeepsUp(n, h) /\ inbox \in [Nodes -> Seq(Messages)] /\ queued \in [Nodes -> Seq(BOOLEAN)]
    BY DEF AllKeepUp, Here, RollingTypeOK
  <2>1. CASE ReceiveState(m)
    <3>1. Head(inbox[m]).type # "reload" /\ queued' = queued
      BY <2>1 DEF ReceiveState
    <3>2. HasReload(inbox[n]) => HasReload(inbox'[n])
      BY <1>1, <2>0, <3>1, ReloadInTail
    <3> QED
      BY <1>1, <2>0, <3>1, <3>2, StillKeepsUp
  <2>2. CASE ReceiveReload(m)
    <3>1. queued' = [queued EXCEPT ![m] = Append(@, HasSite(m))]
      BY <2>2 DEF ReceiveReload
    <3>2. CASE n = m
      <4>1. queued'[n] = Append(queued[n], HasSite(m)) /\ queued[n] \in Seq(BOOLEAN)
        BY <2>0, <3>1, <3>2
      <4>2. HasSite(m) \in BOOLEAN
        BY DEF HasSite
      <4>3. queued'[n] # <<>>
        BY <4>1, <4>2, AppendProperties
      <4> QED
        BY <4>3 DEF KeepsUp, ReloadIsComing
    <3>3. CASE n # m
      <4>1. inbox'[n] = inbox[n] /\ queued'[n] = queued[n]
        BY <1>1, <2>0, <3>1, <3>3
      <4> QED
        BY <1>1, <2>0, <4>1, StillKeepsUp
    <3> QED
      BY <3>2, <3>3
  <2> QED
    BY <2>1, <2>2 DEF Receive
<1> QED
  BY <1>1, <1>2 DEF AllKeepUp, OnlyAdminsAsk, Here

\* The steps of ReloadSiteEvent.perform before the load.
LEMMA HandlerKeepsUp ==
  ASSUME NEW h, Handlers = {h}, RollingTypeOK, AllKeepUp(h), NEW m \in Nodes,
         HandlerStep(m, h) \/ FailPerform(m, h)
  PROVE  AllKeepUp(h)'
<1>0. /\ thread \in [Nodes -> [Threads -> ThreadStates]] /\ queued \in [Nodes -> Seq(BOOLEAN)]
      /\ h \in Threads /\ Gui \in Threads /\ h # Gui
  BY RollingAssumption DEF RollingTypeOK, ThreadStates, Threads
<1>1. UNCHANGED <<db, loaded, inbox, gone>> /\ abandoned \subseteq abandoned'
  BY DEF HandlerStep, Perform, WaitForSites, SitesStarted, ReadSite, FailPerform
<1>2. \A n \in Nodes : n # m => thread'[n] = thread[n] /\ queued'[n] = queued[n]
  BY <1>0 DEF HandlerStep, Perform, WaitForSites, SitesStarted, ReadSite, FailPerform, Step
<1>3. thread'[m][Gui] = thread[m][Gui]
  <2>1. CASE Perform(m, h)
    BY <1>0, <2>1 DEF Perform
  <2>2. CASE WaitForSites(m, h)
    BY <1>0, <2>2 DEF WaitForSites
  <2>3. CASE SitesStarted(m, h)
    BY <1>0, <2>3 DEF SitesStarted, Step
  <2>4. CASE ReadSite(m, h)
    BY <1>0, <2>4 DEF ReadSite
  <2>5. CASE FailPerform(m, h)
    BY <1>0, <2>5 DEF FailPerform
  <2> QED
    BY <2>1, <2>2, <2>3, <2>4, <2>5 DEF HandlerStep
<1>4. \/ thread'[m][h].step \in {"wait", "read"}
      \/ thread'[m][h].step = "acquire" /\ thread'[m][h].version = db
      \/ thread'[m][h].step = "idle" /\ m \in abandoned'
  <2>1. CASE Perform(m, h)
    <3> DEFINE waits == Head(queued[m]) /\ Cardinality(KnownNodes(m)) > 1
               step == IF waits THEN "wait" ELSE "read"
               quorum == IF waits THEN Quorum(Cardinality(KnownNodes(m))) ELSE 0
    <3>1. thread' = [thread EXCEPT ![m][h] = [Idle EXCEPT !.step = step, !.quorum = quorum]]
      BY <2>1 DEF Perform
    <3>2. step \in {"wait", "read"}
      OBVIOUS
    <3> HIDE DEF step, quorum
    <3>3. [Idle EXCEPT !.step = step, !.quorum = quorum].step = step
      BY DEF Idle
    <3> QED
      BY <1>0, <3>1, <3>2, <3>3
  <2>2. CASE WaitForSites(m, h)
    BY <1>0, <2>2 DEF WaitForSites, ThreadStates
  <2>3. CASE SitesStarted(m, h)
    BY <1>0, <2>3 DEF SitesStarted, Step, ThreadStates
  <2>4. CASE ReadSite(m, h)
    BY <1>0, <2>4 DEF ReadSite, VersionRead, ThreadStates
  <2>5. CASE FailPerform(m, h)
    BY <1>0, <2>5 DEF FailPerform, Idle
  <2> QED
    BY <2>1, <2>2, <2>3, <2>4, <2>5 DEF HandlerStep
<1>5. \A n \in Nodes : thread'[n][Gui] = thread[n][Gui]
  BY <1>2, <1>3
<1>6. ASSUME NEW n \in Here \ Admins PROVE KeepsUp(n, h)'
  <2>1. n \in Nodes /\ KeepsUp(n, h)
    BY DEF AllKeepUp, Here
  <2>2. CASE n = m
    BY <1>1, <1>4, <2>2 DEF KeepsUp
  <2>3. CASE n # m
    BY <1>1, <1>2, <1>5, <2>1, <2>3, StillKeepsUp DEF Here
  <2> QED
    BY <2>2, <2>3
<1> QED
  BY <1>1, <1>5, <1>6 DEF AllKeepUp, OnlyAdminsAsk, Here

\* loadSite: the handler of n loads what it has read, and an administrator's
\* load ends with the event.
LEMMA LoadKeepsUp ==
  ASSUME NEW h, Handlers = {h}, \A n \in Nodes : <<n, Gui>> \notin Failing, RollingTypeOK, AllKeepUp(h),
         NEW m \in Nodes, NEW t \in Threads, LoadStep(m, t) \/ FailStep(m, t)
  PROVE  AllKeepUp(h)'
<1>0. /\ thread \in [Nodes -> [Threads -> ThreadStates]] /\ loaded \in [Nodes -> Nat]
      /\ Threads = {h, Gui} /\ h # Gui
      /\ Idle.step = "idle"
  BY RollingAssumption DEF RollingTypeOK, ThreadStates, Threads, Idle
<1>1. /\ UNCHANGED <<db, queued, gone>> /\ m \in Here
      /\ thread[m][t].step \in {"acquire", "loading", "started"}
  <2>1. CASE LoadStep(m, t)
    BY <2>1 DEF LoadStep, BeginLoad, SetStarted, Announce, Step
  <2>2. CASE FailStep(m, t)
    BY <2>2, FailStepShape
  <2> QED
    BY <2>1, <2>2
<1>2. /\ \A n \in Nodes : n # m => thread'[n] = thread[n] /\ loaded'[n] = loaded[n]
      /\ \A u \in Threads : u # t => thread'[m][u] = thread[m][u]
      /\ \A n \in abandoned : n # m => n \in abandoned'
  <2>1. \E now : thread' = [thread EXCEPT ![m][t] = now]
    <3>1. CASE LoadStep(m, t)
      BY <3>1 DEF LoadStep, BeginLoad, SetStarted, Announce, Step
    <3>2. CASE FailStep(m, t)
      BY <3>2, FailStepShape
    <3> QED
      BY <3>1, <3>2
  <2>2. /\ \A n \in Nodes : n # m => loaded'[n] = loaded[n]
        /\ \A n \in abandoned : n # m => n \in abandoned'
    <3>1. CASE LoadStep(m, t)
      BY <1>0, <3>1 DEF LoadStep, BeginLoad, SetStarted, Announce
    <3>2. CASE FailStep(m, t)
      BY <3>2, FailStepShape
    <3> QED
      BY <3>1, <3>2
  <2> QED
    BY <1>0, <2>1, <2>2
<1>3. ASSUME NEW n \in Here
      PROVE  /\ HasReload(inbox[n]) => HasReload(inbox'[n])
             /\ Announce(m, t) /\ t = Gui /\ n # m => HasReload(inbox'[n])
  <2>1. CASE BeginLoad(m, t)
    <3>1. <<SiteStateEvent(m, "DOWN")>> \in Seq(Messages)
      BY EventsTyped DEF SiteStates
    <3>2. ~Announce(m, t)
      BY <2>1 DEF BeginLoad, Announce, Step
    <3> QED
      BY <2>1, <3>1, <3>2, ReloadArrives DEF BeginLoad
  <2>2. CASE SetStarted(m, t)
    BY <2>2 DEF SetStarted, Announce, Step
  <2>3. CASE FailStep(m, t)
    <3>1. t # Gui
      BY <2>3, FailStepShape
    <3> QED
      BY <2>3, <3>1, FailStepEvents, ReloadArrives
  <2>4. CASE Announce(m, t)
    <3> DEFINE events == ReloadEvents(m, t)
               messages == <<SiteStateEvent(m, "STARTED")>> \o events
    <3>1. <<SiteStateEvent(m, "STARTED")>> \in Seq(Messages) /\ events \in Seq(Messages)
      BY EventsTyped, LoadEventsTyped DEF SiteStates
    <3>2. t = Gui => HasReload(events)
      <4>1. <<ReloadSiteEvent(m)>>[1].type = "reload" /\ 1 \in DOMAIN <<ReloadSiteEvent(m)>>
        BY DEF ReloadSiteEvent
      <4> QED
        BY <4>1 DEF HasReload, ReloadEvents, SendsReload
    <3>3. Publish(m, messages)
      BY <2>4 DEF Announce
    <3> HIDE DEF events
    <3>4. messages \in Seq(Messages) /\ (t = Gui => HasReload(messages))
      BY <3>1, <3>2, EventsTyped, ReloadInConcat
    <3> HIDE DEF messages
    <3> QED
      BY <3>3, <3>4, ReloadArrives
  <2> QED
    BY <2>1, <2>2, <2>3, <2>4 DEF LoadStep
<1>4. ASSUME t = Gui
      PROVE  \/ thread'[m][t].step \in {"loading", "started"}
             \/ Announce(m, t) /\ thread'[m][t].step = "idle"
  <2>1. ~FailStep(m, t)
    BY <1>4, FailStepShape
  <2>2. CASE BeginLoad(m, t)
    BY <1>0, <2>2 DEF BeginLoad, Step, ThreadStates
  <2>3. CASE SetStarted(m, t)
    BY <1>0, <2>3 DEF SetStarted, Step, ThreadStates
  <2>4. CASE Announce(m, t)
    BY <1>0, <2>4 DEF Announce
  <2> QED
    BY <2>1, <2>2, <2>3, <2>4 DEF LoadStep
<1>5. OnlyAdminsAsk'
  BY <1>0, <1>1, <1>2 DEF AllKeepUp, OnlyAdminsAsk, Here
<1>6. ASSUME NEW n \in Here \ Admins PROVE KeepsUp(n, h)'
  <2>0. n \in Nodes /\ KeepsUp(n, h)
    BY DEF AllKeepUp, Here
  <2>1. CASE n = m
    <3>1. t = h
      BY <1>0, <1>1, <2>1 DEF AllKeepUp, OnlyAdminsAsk
    <3>2. ReloadIsComing(n) => ReloadIsComing(n)'
      BY <1>0, <1>1, <1>2, <1>3, <3>1 DEF ReloadIsComing, HasReload, Here
    <3>3. CASE BeginLoad(m, t)
      <4>1. loaded'[m] = thread[m][h].version /\ thread'[m][h].step = "loading"
        BY <1>0, <3>1, <3>3 DEF BeginLoad, Step, ThreadStates
      <4>2. thread[m][h].step = "acquire"
        BY <3>1, <3>3 DEF BeginLoad, Step
      <4> QED
        BY <1>1, <2>0, <2>1, <3>2, <4>1, <4>2 DEF KeepsUp
    <3>4. CASE SetStarted(m, t) \/ Announce(m, t)
      <4>1. /\ loaded' = loaded /\ thread'[m][h].step \in {"idle", "started"}
            /\ abandoned' = abandoned
        BY <1>0, <3>1, <3>4 DEF SetStarted, Announce, Step, ThreadStates
      <4>2. thread[m][h].step \in {"loading", "started"}
        BY <3>1, <3>4 DEF SetStarted, Announce, Step
      <4> QED
        BY <1>1, <2>0, <2>1, <3>2, <4>1, <4>2 DEF KeepsUp
    <3>5. CASE FailStep(m, t)
      <4>0. /\ loaded' = loaded /\ thread' = [thread EXCEPT ![m][t] = Idle]
            /\ \/ abandoned' = abandoned /\ thread[m][t].step \in {"loading", "started"}
               \/ abandoned' = abandoned \cup {m} /\ thread[m][t].step = "acquire"
        BY <3>5, FailStepShape
      <4>1. thread'[m][h].step = "idle"
        BY <1>0, <3>1, <4>0
      <4>2. \/ abandoned' = abandoned /\ thread[m][h].step \in {"loading", "started"}
            \/ m \in abandoned'
        BY <3>1, <4>0
      <4> QED
        BY <1>1, <2>0, <2>1, <3>2, <4>0, <4>1, <4>2 DEF KeepsUp
    <3> QED
      BY <3>3, <3>4, <3>5 DEF LoadStep
  <2>2. CASE n # m
    <3>1. /\ thread'[n][h] = thread[n][h] /\ loaded'[n] = loaded[n] /\ queued'[n] = queued[n]
          /\ n \in abandoned => n \in abandoned'
      BY <1>1, <1>2, <2>0, <2>2
    <3>2. CASE t = Gui /\ Announce(m, t)
      <4>1. HasReload(inbox'[n])
        BY <1>3, <2>2, <3>2
      <4> QED
        BY <4>1 DEF KeepsUp, ReloadIsComing, HasReload
    <3>3. CASE ~(t = Gui /\ Announce(m, t))
      <4>1. \A o \in Here : \/ thread'[o][Gui].step = thread[o][Gui].step
                           \/ thread'[o][Gui].step \in {"acquire", "loading", "started"}
        BY <1>0, <1>2, <1>4, <3>3 DEF Here
      <4> QED
        BY <1>1, <1>3, <2>0, <3>1, <4>1, StillKeepsUp
    <3> QED
      BY <3>2, <3>3
  <2> QED
    BY <2>1, <2>2
<1> QED
  BY <1>1, <1>5, <1>6 DEF AllKeepUp, Here

\* What starts a reload, and departures.
LEMMA DeedsKeepUp ==
  ASSUME NEW h, Handlers = {h}, Admins \cap Leaving = {}, RollingTypeOK, AllKeepUp(h),
         \/ ReloadByAppNGizer
         \/ \E m \in Nodes : ChangeAndReload(m) \/ ShutDown(m) \/ Crash(m)
  PROVE  AllKeepUp(h)'
<1>0. /\ thread \in [Nodes -> [Threads -> ThreadStates]]
      /\ inbox \in [Nodes -> Seq(Messages)]
      /\ Threads = {h, Gui} /\ h # Gui /\ gone \subseteq Nodes
  BY RollingAssumption DEF RollingTypeOK, ThreadStates, Threads
<1>1. CASE ReloadByAppNGizer
  <2>1. /\ Publish("appNGizer", <<ReloadSiteEvent("appNGizer")>>)
        /\ <<ReloadSiteEvent("appNGizer")>> \in Seq(Messages)
        /\ UNCHANGED <<thread, gone>>
    BY <1>1, EventsTyped DEF ReloadByAppNGizer
  <2>2. HasReload(<<ReloadSiteEvent("appNGizer")>>)
    <3>1. <<ReloadSiteEvent("appNGizer")>>[1].type = "reload"
          /\ 1 \in DOMAIN <<ReloadSiteEvent("appNGizer")>>
      BY DEF ReloadSiteEvent
    <3> QED
      BY <3>1 DEF HasReload
  <2>3. ASSUME NEW n \in Here PROVE HasReload(inbox'[n])
    <3>1. n # "appNGizer"
      BY RollingAssumption DEF Here
    <3> QED
      BY <2>1, <2>2, <3>1, ReloadArrives
  <2>4. \A n \in Here : KeepsUp(n, h)'
    BY <2>3 DEF KeepsUp, ReloadIsComing, HasReload
  <2> QED
    BY <2>1, <2>4 DEF AllKeepUp, OnlyAdminsAsk, Here
<1>2. ASSUME NEW m \in Nodes, ChangeAndReload(m) PROVE AllKeepUp(h)'
  <2>1. /\ m \in Admins \cap Here /\ gone' = gone
        /\ thread'[m][Gui].step = "acquire"
        /\ \A n \in Nodes : n # m => thread'[n] = thread[n]
    BY <1>0, <1>2 DEF ChangeAndReload, Idle
  <2>2. \A n \in Here : KeepsUp(n, h)'
    BY <2>1 DEF KeepsUp, ReloadIsComing, Here
  <2>3. OnlyAdminsAsk'
    BY <2>1 DEF AllKeepUp, OnlyAdminsAsk, Here
  <2> QED
    BY <2>1, <2>2, <2>3 DEF AllKeepUp, Here
<1>3. ASSUME NEW m \in Nodes, NEW messages \in Seq(Messages), Leave(m, messages)
      PROVE  AllKeepUp(h)'
  <2>1. /\ m \in Leaving \ Admins /\ m \in Here /\ gone' = gone \cup {m}
        /\ UNCHANGED <<db, loaded, abandoned>>
    BY <1>3 DEF Leave
  <2>2. /\ \A n \in Nodes : n # m => thread'[n] = thread[n] /\ queued'[n] = queued[n]
        /\ thread'[m][Gui].step = "idle"
    BY <1>0, <1>3 DEF Leave, RollingTypeOK, Idle
  <2>3. \A o \in Here : thread[o][Gui].step # "idle" => o # m
    BY <2>1 DEF AllKeepUp, OnlyAdminsAsk, Here
  <2>4. OnlyAdminsAsk'
    BY <2>1, <2>2 DEF AllKeepUp, OnlyAdminsAsk, Here
  <2>5. ASSUME NEW n \in Here', n \notin Admins PROVE KeepsUp(n, h)'
    <3>1. n \in Nodes /\ n # m /\ n \in Here /\ KeepsUp(n, h)
      BY <2>1, <2>5 DEF Here, AllKeepUp
    <3>2. HasReload(inbox[n]) => HasReload(inbox'[n])
      <4>1. inbox'[n] = inbox[n] \o messages
        BY <1>3, <3>1 DEF Leave
      <4> QED
        BY <1>0, <3>1, <4>1, ReloadInConcat
    <3>3. ReloadIsComing(n) => ReloadIsComing(n)'
      <4>1. CASE \E o \in Here : thread[o][Gui].step \in {"acquire", "loading", "started"}
        <5>1. PICK o \in Here : thread[o][Gui].step \in {"acquire", "loading", "started"}
          BY <4>1
        <5>2. o \in Here' /\ thread'[o] = thread[o]
          BY <2>1, <2>2, <2>3, <5>1 DEF Here
        <5> QED
          BY <5>1, <5>2 DEF ReloadIsComing
      <4>2. CASE HasReload(inbox[n]) \/ queued[n] # <<>>
        BY <2>2, <3>1, <3>2, <4>2 DEF ReloadIsComing, HasReload
      <4> QED
        BY <4>1, <4>2 DEF ReloadIsComing, HasReload
    <3> QED
      BY <2>1, <2>2, <3>1, <3>3 DEF KeepsUp
  <2> QED
    BY <2>4, <2>5 DEF AllKeepUp
<1>4. ASSUME NEW m \in Nodes, ShutDown(m) \/ Crash(m) PROVE AllKeepUp(h)'
  <2>1. SiteStateEvent(m, "DOWN") \in Messages /\ [type |-> "shutdown", from |-> m] \in Messages
    BY DEF SiteStateEvent, Messages, SiteStates
  <2>2. /\ <<SiteStateEvent(m, "DOWN"), [type |-> "shutdown", from |-> m]>> \in Seq(Messages)
        /\ <<>> \in Seq(Messages)
    BY <2>1
  <2> QED
    BY <1>3, <1>4, <2>2 DEF ShutDown, Crash
<1> QED
  BY <1>1, <1>2, <1>4

\* NobodyLeftBehind, for every cluster and every transport on which a node
\* performs one event at a time, where administrators' loads do not fail and
\* their nodes stay: a node that expects no reload any more has loaded what
\* is in the database, whatever the others' maps say and whoever leaves, or
\* its last reload has failed before the new version was in its site map.
THEOREM ReloadsReachEveryNode ==
  ASSUME NEW h, Handlers = {h}, \A n \in Nodes : <<n, Gui>> \notin Failing,
         Admins \cap Leaving = {}
  PROVE  Spec => []NobodyLeftBehind
<1>1. Init => RollingTypeOK /\ AllKeepUp(h)
  BY RollingInitTyped, KeepUpInit
<1>2. RollingTypeOK /\ AllKeepUp(h) /\ [Next]_vars => RollingTypeOK' /\ AllKeepUp(h)'
  <2> SUFFICES ASSUME RollingTypeOK, AllKeepUp(h), [Next]_vars PROVE AllKeepUp(h)'
    BY RollingNextTyped
  <2>1. CASE UNCHANGED vars
    BY <2>1 DEF vars, AllKeepUp, OnlyAdminsAsk, KeepsUp, ReloadIsComing, Here
  <2>2. CASE Next
    BY <2>2, DeedsKeepUp, ReceiveKeepsUp, HandlerKeepsUp, LoadKeepsUp DEF Next
  <2> QED
    BY <2>1, <2>2
<1>3. RollingTypeOK /\ AllKeepUp(h) => NobodyLeftBehind
  <2> SUFFICES ASSUME RollingTypeOK, AllKeepUp(h), NEW n \in Here \ Admins,
                      ~ReloadIsComing(n), ~IsReloading(n)
               PROVE  loaded[n] = db \/ n \in abandoned
    BY DEF NobodyLeftBehind
  <2> QED
    BY DEF AllKeepUp, KeepsUp, IsReloading
<1> QED
  BY <1>1, <1>2, <1>3, PTL DEF Spec

=============================================================================
