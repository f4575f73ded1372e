------------------------ MODULE IndexServiceProofs ------------------------
(***************************************************************************)
(* Proofs about the producers of SearchIndex, for any number of them and   *)
(* of generations: a producer is in one place at a time, and the threads   *)
(* of all generations together implement IndexService.                     *)
(***************************************************************************)
EXTENDS SearchIndexProofs

\* A thread that is waiting for a producer has none.
WaitingHasNone ==
  \A g \in Generations : pc[g] \in {"get", "unborn"} => current[g] = Nobody

\* No two threads have the same producer, not even threads that have ended.
TakenOnce ==
  \A g \in Generations : current[g] # Nobody =>
     /\ stage[current[g]] = "taken"
     /\ \A h \in Generations : current[h] = current[g] => h = g

\* The producers in the queues are queued, each once.
QueuedOnce ==
  \A g \in Generations : \A i \in DOMAIN queue[g] :
     /\ stage[queue[g][i]] = "queued"
     /\ \A h \in Generations : \A j \in DOMAIN queue[h] :
          queue[h][j] = queue[g][i] => h = g /\ j = i

\* What a writer has added is from the producer its thread works on.
AddsOwnCopies ==
  \A g \in Generations : pc[g] \in Holding =>
     \A c \in written[g] \ index : c.from = current[g]

PlacesInv == WaitingHasNone /\ TakenOnce /\ QueuedOnce /\ AddsOwnCopies

LEMMA PlacesInit == IndexInit => PlacesInv
<1> SUFFICES ASSUME IndexInit PROVE PlacesInv
  OBVIOUS
<1>1. \A g \in Generations :
        current[g] = Nobody /\ queue[g] = <<>> /\ pc[g] \notin Holding
  BY DEF IndexInit, Holding
<1>2. DOMAIN <<>> = {}
  BY EmptySeq
<1> QED
  BY <1>1, <1>2 DEF PlacesInv, WaitingHasNone, TakenOnce, QueuedOnce, AddsOwnCopies

\* The places a step of one thread leaves alone.
LEMMA PlacesUntouched ==
  ASSUME PlacesInv, UNCHANGED <<stage, queue, current, written, index>>,
         \A g \in Generations :
           /\ pc'[g] \in {"get", "unborn"} => pc[g] \in {"get", "unborn"}
           /\ pc'[g] \in Holding => pc[g] \in Holding
  PROVE  PlacesInv'
BY DEF PlacesInv, WaitingHasNone, TakenOnce, QueuedOnce, AddsOwnCopies

\* An owner's producer that nobody has seen yet.
LEMMA FillingIsNowhere ==
  ASSUME PlacesInv, NEW p \in Producers, stage[p] = "filling"
  PROVE  /\ \A g \in Generations : current[g] # p
         /\ \A g \in Generations : \A i \in DOMAIN queue[g] : queue[g][i] # p
<1>1. p # Nobody
  BY IndexAssumption
<1> QED
  BY <1>1 DEF PlacesInv, TakenOnce, QueuedOnce

LEMMA OfferKeepsPlaces ==
  ASSUME ThreadInv, PlacesInv, NEW p \in Producers, OfferProducer(p)
  PROVE  PlacesInv'
<1> DEFINE new == generation
           n == Len(queue[new]) + 1
<1>0. /\ new \in Generations /\ queue[new] \in Seq(Producers)
      /\ queue \in [Generations -> Seq(Producers)]
      /\ stage \in [Producers -> {"filling", "queued", "taken", "done", "abandoned"}]
  BY DEF ThreadInv, IndexTypeOK
<1>1. /\ stage[p] = "filling" /\ stage' = [stage EXCEPT ![p] = "queued"]
      /\ queue' = [queue EXCEPT ![new] = Append(@, p)]
      /\ UNCHANGED <<pc, current, written, index>>
  BY DEF OfferProducer, indexerVars
<1>2. /\ \A g \in Generations : current[g] # p
      /\ \A g \in Generations : \A i \in DOMAIN queue[g] : queue[g][i] # p
  BY <1>1, FillingIsNowhere
<1>3. /\ DOMAIN queue[new] = 1 .. Len(queue[new]) /\ Len(queue[new]) \in Nat
      /\ DOMAIN Append(queue[new], p) = 1 .. n
      /\ \A i \in 1 .. Len(queue[new]) : Append(queue[new], p)[i] = queue[new][i]
      /\ Append(queue[new], p)[n] = p
  BY <1>0, AppendProperties, LenProperties
<1>4. \A g \in Generations : g # new => queue'[g] = queue[g]
  BY <1>0, <1>1
<1>5. queue'[new] = Append(queue[new], p)
  BY <1>0, <1>1
<1>6. ASSUME NEW g \in Generations, NEW i \in DOMAIN queue'[g]
      PROVE  \/ i \in DOMAIN queue[g] /\ queue'[g][i] = queue[g][i]
             \/ g = new /\ i = n /\ queue'[g][i] = p
  BY <1>3, <1>4, <1>5
<1>7. \A q \in Producers : q # p => stage'[q] = stage[q]
  BY <1>0, <1>1
<1>8. \A g \in Generations : \A i \in DOMAIN queue[g] : queue[g][i] \in Producers
  BY <1>0, ElementOfSeq, LenProperties
<1>9. QueuedOnce'
  <2> SUFFICES ASSUME NEW g \in Generations, NEW i \in DOMAIN queue'[g]
               PROVE  /\ stage'[queue'[g][i]] = "queued"
                      /\ \A h \in Generations : \A j \in DOMAIN queue'[h] :
                           queue'[h][j] = queue'[g][i] => h = g /\ j = i
    BY DEF QueuedOnce
  <2>1. stage'[queue'[g][i]] = "queued"
    BY <1>0, <1>1, <1>2, <1>6, <1>7, <1>8 DEF PlacesInv, QueuedOnce
  <2>2. ASSUME NEW h \in Generations, NEW j \in DOMAIN queue'[h],
               queue'[h][j] = queue'[g][i]
        PROVE  h = g /\ j = i
    BY <1>2, <1>6, <2>2 DEF PlacesInv, QueuedOnce
  <2> QED
    BY <2>1, <2>2
<1>10. TakenOnce'
  <2>1. current \in [Generations -> Producers \cup {Nobody}]
    BY DEF ThreadInv, IndexTypeOK
  <2> QED
    BY <1>1, <1>2, <1>7, <2>1 DEF PlacesInv, TakenOnce
<1> QED
  BY <1>1, <1>9, <1>10 DEF PlacesInv, WaitingHasNone, AddsOwnCopies

LEMMA AbandonKeepsPlaces ==
  ASSUME ThreadInv, PlacesInv, NEW p \in Producers, AbandonProducer(p)
  PROVE  PlacesInv'
<1>0. /\ current \in [Generations -> Producers \cup {Nobody}]
      /\ queue \in [Generations -> Seq(Producers)]
      /\ stage \in [Producers -> {"filling", "queued", "taken", "done", "abandoned"}]
  BY DEF ThreadInv, IndexTypeOK
<1>1. /\ stage[p] = "filling"
      /\ UNCHANGED <<pc, queue, current, written, index>>
      /\ \A q \in Producers : q # p => stage'[q] = stage[q]
  BY <1>0 DEF AbandonProducer, indexerVars
<1>2. /\ \A g \in Generations : current[g] # p
      /\ \A g \in Generations : \A i \in DOMAIN queue[g] : queue[g][i] # p
  BY <1>1, FillingIsNowhere
<1>3. \A g \in Generations : \A i \in DOMAIN queue[g] : queue[g][i] \in Producers
  BY <1>0, ElementOfSeq, LenProperties
<1>4. TakenOnce'
  BY <1>0, <1>1, <1>2 DEF PlacesInv, TakenOnce
<1>5. QueuedOnce'
  BY <1>1, <1>2, <1>3 DEF PlacesInv, QueuedOnce
<1> QED
  BY <1>1, <1>4, <1>5 DEF PlacesInv, WaitingHasNone, AddsOwnCopies

LEMMA TakeKeepsPlaces ==
  ASSUME ThreadInv, PlacesInv, NEW g \in Generations, TakeProducer(g)
  PROVE  PlacesInv'
<1> DEFINE p == Head(queue[g])
<1>0. /\ current \in [Generations -> Producers \cup {Nobody}]
      /\ queue \in [Generations -> Seq(Producers)]
      /\ pc \in [Generations -> {"unborn", "dead"} \cup Live]
      /\ stage \in [Producers -> {"filling", "queued", "taken", "done", "abandoned"}]
  BY DEF ThreadInv, IndexTypeOK
<1>1. /\ pc[g] = "get" /\ pc' = [pc EXCEPT ![g] = "open"] /\ queue[g] # <<>>
      /\ current' = [current EXCEPT ![g] = p] /\ stage' = [stage EXCEPT ![p] = "taken"]
      /\ queue' = [queue EXCEPT ![g] = Tail(@)] /\ UNCHANGED <<written, index>>
  BY DEF TakeProducer
<1>2. /\ Len(queue[g]) \in Nat \ {0} /\ DOMAIN queue[g] = 1 .. Len(queue[g])
      /\ p = queue[g][1] /\ p \in Producers /\ 1 \in DOMAIN queue[g]
      /\ DOMAIN Tail(queue[g]) = 1 .. (Len(queue[g]) - 1)
      /\ \A i \in 1 .. (Len(queue[g]) - 1) : Tail(queue[g])[i] = queue[g][i + 1]
  BY <1>0, <1>1, HeadTailProperties, LenProperties, EmptySeq
<1>3. stage[p] = "queued"
  BY <1>2 DEF PlacesInv, QueuedOnce
<1>4. p # Nobody /\ \A h \in Generations : current[h] # p
  BY <1>2, <1>3, IndexAssumption DEF PlacesInv, TakenOnce
<1>5. TakenOnce'
  <2>1. /\ \A h \in Generations : current'[h] = IF h = g THEN p ELSE current[h]
        /\ \A q \in Producers : stage'[q] = IF q = p THEN "taken" ELSE stage[q]
    BY <1>0, <1>1, <1>2
  <2> HIDE DEF p
  <2> SUFFICES ASSUME NEW h \in Generations, current'[h] # Nobody
               PROVE  /\ stage'[current'[h]] = "taken"
                      /\ \A e \in Generations : current'[e] = current'[h] => e = h
    BY DEF TakenOnce
  <2>2. CASE h = g
    BY <1>2, <1>4, <2>1, <2>2
  <2>3. CASE h # g
    <3>1. current'[h] = current[h] /\ current[h] \in Producers /\ current[h] # p
      BY <1>0, <1>4, <2>1, <2>3
    <3> QED
      BY <2>1, <3>1 DEF PlacesInv, TakenOnce
  <2> QED
    BY <2>2, <2>3
<1>6. \A h \in Generations : \A i \in DOMAIN queue'[h] :
        \E k \in DOMAIN queue[h] :
          /\ queue'[h][i] = queue[h][k] /\ k = (IF h = g THEN i + 1 ELSE i)
          /\ i \in Int
  <2> SUFFICES ASSUME NEW h \in Generations, NEW i \in DOMAIN queue'[h]
               PROVE  \E k \in DOMAIN queue[h] :
                        /\ queue'[h][i] = queue[h][k] /\ k = (IF h = g THEN i + 1 ELSE i)
                        /\ i \in Int
    OBVIOUS
  <2>1. CASE h = g
    BY <1>0, <1>1, <1>2, <2>1
  <2>2. CASE h # g
    BY <1>0, <1>1, <2>2, LenProperties
  <2> QED
    BY <2>1, <2>2
<1>7. \A h \in Generations : \A i \in DOMAIN queue'[h] :
        queue'[h][i] # p /\ stage[queue'[h][i]] = "queued" /\ queue'[h][i] \in Producers
  <2> SUFFICES ASSUME NEW h \in Generations, NEW i \in DOMAIN queue'[h]
               PROVE  /\ queue'[h][i] # p /\ stage[queue'[h][i]] = "queued"
                      /\ queue'[h][i] \in Producers
    OBVIOUS
  <2>1. PICK k \in DOMAIN queue[h] :
          /\ queue'[h][i] = queue[h][k] /\ k = (IF h = g THEN i + 1 ELSE i)
          /\ i \in Int
    BY <1>6
  <2>2. queue[h][k] \in Producers
    BY <1>0, ElementOfSeq, LenProperties
  <2>3. stage[queue[h][k]] = "queued"
    BY DEF PlacesInv, QueuedOnce
  <2>4. h = g => i \in 1 .. (Len(queue[g]) - 1)
    BY <1>0, <1>1, <1>2
  <2>5. queue[h][k] = p => h = g /\ k = 1
    BY <1>2 DEF PlacesInv, QueuedOnce
  <2> QED
    BY <1>2, <2>1, <2>2, <2>3, <2>4, <2>5
<1>8. QueuedOnce'
  <2> SUFFICES ASSUME NEW h \in Generations, NEW i \in DOMAIN queue'[h]
               PROVE  /\ stage'[queue'[h][i]] = "queued"
                      /\ \A e \in Generations : \A j \in DOMAIN queue'[e] :
                           queue'[e][j] = queue'[h][i] => e = h /\ j = i
    BY DEF QueuedOnce
  <2>1. stage'[queue'[h][i]] = "queued"
    BY <1>0, <1>1, <1>7
  <2>2. ASSUME NEW e \in Generations, NEW j \in DOMAIN queue'[e],
               queue'[e][j] = queue'[h][i]
        PROVE  e = h /\ j = i
    <3>1. PICK k \in DOMAIN queue[h] :
            /\ queue'[h][i] = queue[h][k] /\ k = (IF h = g THEN i + 1 ELSE i)
            /\ i \in Int
      BY <1>6
    <3>2. PICK m \in DOMAIN queue[e] :
            /\ queue'[e][j] = queue[e][m] /\ m = (IF e = g THEN j + 1 ELSE j)
            /\ j \in Int
      BY <1>6
    <3>3. e = h /\ m = k
      BY <2>2, <3>1, <3>2 DEF PlacesInv, QueuedOnce
    <3> QED
      BY <3>1, <3>2, <3>3
  <2> QED
    BY <2>1, <2>2
<1>9. WaitingHasNone' /\ AddsOwnCopies'
  BY <1>0, <1>1 DEF PlacesInv, WaitingHasNone, AddsOwnCopies, Holding
<1> QED
  BY <1>5, <1>8, <1>9 DEF PlacesInv

LEMMA OpenKeepsPlaces ==
  ASSUME ThreadInv, PlacesInv, NEW g \in Generations, OpenWriter(g)
  PROVE  PlacesInv'
<1>0. /\ pc \in [Generations -> {"unborn", "dead"} \cup Live]
      /\ written \in [Generations -> SUBSET Copies]
  BY DEF ThreadInv, IndexTypeOK
<1>1. /\ pc' = [pc EXCEPT ![g] = "consume"] /\ written' = [written EXCEPT ![g] = index]
      /\ UNCHANGED <<stage, queue, current, index>>
  BY DEF OpenWriter
<1>2. AddsOwnCopies'
  BY <1>0, <1>1 DEF PlacesInv, AddsOwnCopies
<1>3. WaitingHasNone'
  BY <1>0, <1>1 DEF PlacesInv, WaitingHasNone
<1> QED
  BY <1>1, <1>2, <1>3 DEF PlacesInv, TakenOnce, QueuedOnce

\* What an event adds is a copy from the thread's producer.
LEMMA AppliedAddsOwn ==
  ASSUME NEW g, NEW e, \A c \in written[g] \ index : c.from = current[g]
  PROVE  \A c \in Applied(g, e) \ index : c.from = current[g]
BY DEF Applied, CopiesOf

LEMMA ConsumeKeepsPlaces ==
  ASSUME ThreadInv, PlacesInv, NEW g \in Generations, ConsumeEvent(g)
  PROVE  PlacesInv'
<1> DEFINE e == Head(buffer[current[g]])
<1>0. written \in [Generations -> SUBSET Copies]
  BY DEF ThreadInv, IndexTypeOK
<1>1. /\ pc[g] = "consume" /\ written' = [written EXCEPT ![g] = Applied(g, e)]
      /\ UNCHANGED <<pc, stage, queue, current, index>>
  BY DEF ConsumeEvent
<1>2. \A c \in Applied(g, e) \ index : c.from = current[g]
  BY <1>1, AppliedAddsOwn DEF PlacesInv, AddsOwnCopies, Holding
<1>3. AddsOwnCopies'
  BY <1>0, <1>1, <1>2 DEF PlacesInv, AddsOwnCopies
<1> QED
  BY <1>1, <1>3 DEF PlacesInv, WaitingHasNone, TakenOnce, QueuedOnce

LEMMA CommitKeepsPlaces ==
  ASSUME ThreadInv, PlacesInv, NEW g \in Generations, CommitWriter(g)
  PROVE  PlacesInv'
<1> DEFINE p == current[g]
<1>0. /\ current \in [Generations -> Producers \cup {Nobody}]
      /\ queue \in [Generations -> Seq(Producers)]
      /\ pc \in [Generations -> {"unborn", "dead"} \cup Live]
      /\ stage \in [Producers -> {"filling", "queued", "taken", "done", "abandoned"}]
  BY DEF ThreadInv, IndexTypeOK
<1>1. /\ pc[g] = "commit" /\ pc' = [pc EXCEPT ![g] = "get"]
      /\ current' = [current EXCEPT ![g] = Nobody] /\ stage' = [stage EXCEPT ![p] = "done"]
      /\ UNCHANGED <<queue, written>>
  BY DEF CommitWriter
<1>2. lock = g /\ p \in Producers /\ p # Nobody
  BY <1>0, <1>1 DEF ThreadInv, LockHeld, Holding
<1>3. \A h \in Generations : pc'[h] \notin Holding
  BY <1>0, <1>1, <1>2 DEF ThreadInv, LockHeld, Holding
<1>4. /\ \A h \in Generations : current'[h] = IF h = g THEN Nobody ELSE current[h]
      /\ \A q \in Producers : stage'[q] = IF q = p THEN "done" ELSE stage[q]
  BY <1>0, <1>1
<1>5. WaitingHasNone'
  BY <1>0, <1>1, <1>4 DEF PlacesInv, WaitingHasNone
<1>6. TakenOnce'
  <2> SUFFICES ASSUME NEW h \in Generations, current'[h] # Nobody
               PROVE  /\ stage'[current'[h]] = "taken"
                      /\ \A k \in Generations : current'[k] = current'[h] => k = h
    BY DEF TakenOnce
  <2>1. h # g /\ current'[h] = current[h] /\ current[h] \in Producers
    BY <1>0, <1>4
  <2>2. current[h] # p
    BY <1>2, <2>1 DEF PlacesInv, TakenOnce
  <2> QED
    BY <1>4, <2>1, <2>2 DEF PlacesInv, TakenOnce
<1>7. QueuedOnce'
  <2>1. stage[p] = "taken"
    BY <1>2 DEF PlacesInv, TakenOnce
  <2>2. \A h \in Generations : \A i \in DOMAIN queue[h] :
          queue[h][i] \in Producers /\ queue[h][i] # p
    BY <1>0, <2>1, ElementOfSeq, LenProperties DEF PlacesInv, QueuedOnce
  <2> HIDE DEF p
  <2> QED
    BY <1>1, <1>4, <2>2 DEF PlacesInv, QueuedOnce
<1> QED
  BY <1>3, <1>5, <1>6, <1>7 DEF PlacesInv, AddsOwnCopies

\* Every step keeps each producer in one place.
LEMMA PlacesNext == ThreadInv /\ PlacesInv /\ [IndexNext]_vars => PlacesInv'
<1> SUFFICES ASSUME ThreadInv, PlacesInv, [IndexNext]_vars PROVE PlacesInv'
  OBVIOUS
<1>0. pc \in [Generations -> {"unborn", "dead"} \cup Live]
  BY DEF ThreadInv, IndexTypeOK
<1>1. CASE UNCHANGED <<stage, queue, indexerVars>>
  BY <1>1, PlacesUntouched DEF indexerVars
<1>2. ASSUME NEW g \in Generations, LockFails(g) \/ StopAtInterrupt(g) \/ IndexFails(g)
                                     \/ RollbackWriter(g) \/ ProducerTimesOut(g)
      PROVE  PlacesInv'
  <2>1. PICK to \in {"dead", "rollback", "commit"} :
          /\ pc' = [pc EXCEPT ![g] = to]
          /\ to # "dead" => pc[g] \in Holding
    BY <1>2 DEF LockFails, StopAtInterrupt, IndexFails, RollbackWriter, ProducerTimesOut, Holding
  <2>2. UNCHANGED <<stage, queue, current, written, index>>
    BY <1>2 DEF LockFails, StopAtInterrupt, IndexFails, RollbackWriter, ProducerTimesOut
  <2>3. \A h \in Generations :
          /\ pc'[h] \in {"get", "unborn"} => pc[h] \in {"get", "unborn"}
          /\ pc'[h] \in Holding => pc[h] \in Holding
    BY <1>0, <2>1 DEF Holding
  <2> QED
    BY <2>2, <2>3, PlacesUntouched
<1>3. CASE LoadSite
  <2>1. generation + 1 \in Generations /\ pc[generation + 1] = "unborn"
    <3>1. generation \in Generations /\ generation + 1 \in Generations
            /\ generation + 1 > generation
      BY <1>3, IndexAssumption DEF LoadSite, ThreadInv, IndexTypeOK, Generations
    <3> QED
      BY <3>1 DEF ThreadInv, LockHeld
  <2>2. \A h \in Generations :
          /\ pc'[h] \in {"get", "unborn"} => pc[h] \in {"get", "unborn"}
          /\ pc'[h] \in Holding => pc[h] \in Holding
    BY <1>0, <1>3, <2>1 DEF LoadSite, Holding
  <2> QED
    BY <1>3, <2>2, PlacesUntouched DEF LoadSite
<1>4. CASE ShutDownSite \/ \E p \in Producers : PutEvent(p)
  BY <1>1, <1>4 DEF ShutDownSite, PutEvent
<1> QED
  BY <1>1, <1>2, <1>3, <1>4, OfferKeepsPlaces, AbandonKeepsPlaces, TakeKeepsPlaces,
     OpenKeepsPlaces, ConsumeKeepsPlaces, CommitKeepsPlaces
  DEF IndexNext, IndexerStep, vars

-----------------------------------------------------------------------------
(* The refinement, step by step.                                           *)

Fates == [p \in Producers |-> FateOf(p)]

\* A producer whose writer is about to be opened, and one that is written.
LEMMA FateAtWriter ==
  ASSUME ThreadInv, PlacesInv, NEW g \in Generations, current[g] # Nobody
  PROVE  /\ current[g] \in Producers
         /\ pc[g] = "open" => ProducerWritten # current[g] /\ Fates[current[g]] = "waiting"
         /\ lock = g => ProducerWritten = current[g] /\ Fates[current[g]] = "writing"
<1>1. current[g] \in Producers /\ stage[current[g]] = "taken"
  BY DEF ThreadInv, IndexTypeOK, PlacesInv, TakenOnce
<1>2. lock \in Generations \cup {Nobody}
  BY DEF ThreadInv, IndexTypeOK
<1>3. ASSUME pc[g] = "open" PROVE ProducerWritten # current[g]
  <2>1. lock # g
    BY <1>3 DEF ThreadInv, LockHeld, Holding
  <2> QED
    BY <1>2, <2>1 DEF ProducerWritten, PlacesInv, TakenOnce
<1>4. ASSUME pc[g] = "open" PROVE Fates[current[g]] = "waiting"
  BY <1>1, <1>3, <1>4 DEF Fates, FateOf, AwaitsWriter
<1>5. ASSUME lock = g PROVE ProducerWritten = current[g]
  BY <1>5, IndexAssumption DEF ProducerWritten
<1>6. ASSUME lock = g PROVE Fates[current[g]] = "writing"
  BY <1>1, <1>5, <1>6 DEF Fates, FateOf
<1> QED
  BY <1>1, <1>3, <1>4, <1>5, <1>6

\* What the fate of a producer depends on.
LEMMA FateKept ==
  ASSUME NEW q \in Producers, stage'[q] = stage[q],
         (q = ProducerWritten') <=> (q = ProducerWritten),
         \A g \in Generations :
           pc'[g] = "open" /\ current'[g] = q <=> pc[g] = "open" /\ current[g] = q
  PROVE  Fates'[q] = Fates[q]
BY DEF Fates, FateOf, AwaitsWriter

\* A step that decides the fate of one producer.
LEMMA FateTurns ==
  ASSUME NEW p \in Producers, NEW fate, Fates'[p] = fate,
         \A q \in Producers : q # p => Fates'[q] = Fates[q]
  PROVE  Fates' = [Fates EXCEPT ![p] = fate]
<1>1. Fates = [q \in Producers |-> Fates[q]] /\ Fates' = [q \in Producers |-> Fates'[q]]
  BY DEF Fates
<1> HIDE DEF Fates
<1> QED
  BY <1>1

\* Steps that users of the index do not see.
LEMMA Unseen ==
  ASSUME UNCHANGED <<stage, lock, current, index>>,
         \A g \in Generations : pc'[g] = "open" <=> pc[g] = "open"
  PROVE  UNCHANGED Service!indexVars
<1>1. ProducerWritten' = ProducerWritten
  BY DEF ProducerWritten
<1>2. \A p \in Producers : Fates'[p] = Fates[p]
  BY <1>1, FateKept
<1>3. [p \in Producers |-> FateOf(p)]' = [p \in Producers |-> FateOf(p)]
  BY <1>2 DEF Fates
<1> QED
  BY <1>1, <1>3 DEF Service!indexVars

\* The producer of the thread that opens its writer is begun.
LEMMA OpenBegins ==
  ASSUME ThreadInv, PlacesInv, NEW g \in Generations, OpenWriter(g)
  PROVE  Service!BeginBatch(current[g])
<1> DEFINE p == current[g]
<1>0. /\ pc \in [Generations -> {"unborn", "dead"} \cup Live] /\ g # Nobody
  BY IndexAssumption DEF ThreadInv, IndexTypeOK
<1>1. /\ pc[g] = "open" /\ lock = Nobody /\ lock' = g /\ pc' = [pc EXCEPT ![g] = "consume"]
      /\ UNCHANGED <<stage, current, index>>
  BY DEF OpenWriter
<1>2. p # Nobody
  BY <1>1 DEF ThreadInv, LockHeld
<1>3. p \in Producers /\ Fates[p] = "waiting" /\ stage[p] = "taken"
  BY <1>1, <1>2, FateAtWriter DEF PlacesInv, TakenOnce
<1>4. ProducerWritten = Nobody /\ ProducerWritten' = p
  BY <1>0, <1>1 DEF ProducerWritten
<1>5. Fates'[p] = "writing"
  BY <1>1, <1>3, <1>4 DEF Fates, FateOf
<1>6. ASSUME NEW q \in Producers, q # p PROVE Fates'[q] = Fates[q]
  <2>1. q # ProducerWritten /\ q # ProducerWritten'
    BY <1>4, <1>6, IndexAssumption
  <2>2. \A h \in Generations :
          pc'[h] = "open" /\ current'[h] = q <=> pc[h] = "open" /\ current[h] = q
    BY <1>0, <1>1, <1>6
  <2> QED
    BY <1>1, <2>1, <2>2, FateKept
<1>7. Fates' = [Fates EXCEPT ![p] = "writing"]
  BY <1>3, <1>5, <1>6, FateTurns
<1> QED
  BY <1>1, <1>3, <1>4, <1>7 DEF Service!BeginBatch, Fates

\* A commit, and a rollback: the producer the lock is held for is settled.
LEMMA CommitCommits ==
  ASSUME ThreadInv, PlacesInv, NEW g \in Generations, CommitWriter(g)
  PROVE  Service!CommitBatch
<1> DEFINE p == current[g]
<1>0. /\ pc \in [Generations -> {"unborn", "dead"} \cup Live]
      /\ current \in [Generations -> Producers \cup {Nobody}]
      /\ stage \in [Producers -> {"filling", "queued", "taken", "done", "abandoned"}]
  BY DEF ThreadInv, IndexTypeOK
<1>1. /\ pc[g] = "commit" /\ pc' = [pc EXCEPT ![g] = "get"] /\ lock' = Nobody
      /\ current' = [current EXCEPT ![g] = Nobody] /\ stage' = [stage EXCEPT ![p] = "done"]
      /\ index' = written[g]
  BY DEF CommitWriter
<1>2. lock = g /\ p # Nobody
  BY <1>1 DEF ThreadInv, LockHeld, Holding
<1>3. p \in Producers /\ ProducerWritten = p
  BY <1>2, FateAtWriter
<1>4. ProducerWritten' = Nobody
  BY <1>1 DEF ProducerWritten
<1>5. Fates'[p] = "applied"
  BY <1>0, <1>1, <1>3 DEF Fates, FateOf
<1>6. ASSUME NEW q \in Producers, q # p PROVE Fates'[q] = Fates[q]
  <2>1. q # ProducerWritten /\ q # ProducerWritten'
    BY <1>3, <1>4, <1>6, IndexAssumption
  <2>2. stage'[q] = stage[q]
    BY <1>0, <1>1, <1>6
  <2>3. \A h \in Generations :
          pc'[h] = "open" /\ current'[h] = q <=> pc[h] = "open" /\ current[h] = q
    BY <1>0, <1>1, <1>6
  <2> QED
    BY <2>1, <2>2, <2>3, FateKept
<1>7. Fates' = [Fates EXCEPT ![p] = "applied"]
  BY <1>3, <1>5, <1>6, FateTurns
<1>8. \A c \in index' \ index : c.from = p
  BY <1>1 DEF PlacesInv, AddsOwnCopies, Holding
<1> QED
  BY <1>2, <1>3, <1>4, <1>7, <1>8 DEF Service!CommitBatch, Fates

LEMMA RollbackRollsBack ==
  ASSUME ThreadInv, PlacesInv, NEW g \in Generations, RollbackWriter(g)
  PROVE  Service!RollBackBatch
<1> DEFINE p == current[g]
<1>0. pc \in [Generations -> {"unborn", "dead"} \cup Live]
  BY DEF ThreadInv, IndexTypeOK
<1>1. /\ pc[g] = "rollback" /\ pc' = [pc EXCEPT ![g] = "dead"] /\ lock' = Nobody
      /\ UNCHANGED <<stage, current, index>>
  BY DEF RollbackWriter
<1>2. lock = g /\ p # Nobody
  BY <1>1 DEF ThreadInv, LockHeld, Holding
<1>3. p \in Producers /\ ProducerWritten = p /\ stage[p] = "taken"
  BY <1>2, FateAtWriter DEF PlacesInv, TakenOnce
<1>4. ProducerWritten' = Nobody
  BY <1>1 DEF ProducerWritten
<1>5. Fates'[p] = "lost"
  <2>1. \A h \in Generations : ~(pc'[h] = "open" /\ current'[h] = p)
    BY <1>0, <1>1, <1>2 DEF PlacesInv, TakenOnce
  <2> QED
    BY <1>1, <1>2, <1>3, <1>4, <2>1 DEF Fates, FateOf, AwaitsWriter
<1>6. ASSUME NEW q \in Producers, q # p PROVE Fates'[q] = Fates[q]
  <2>1. q # ProducerWritten /\ q # ProducerWritten'
    BY <1>3, <1>4, <1>6, IndexAssumption
  <2>2. \A h \in Generations :
          pc'[h] = "open" /\ current'[h] = q <=> pc[h] = "open" /\ current[h] = q
    BY <1>0, <1>1
  <2> QED
    BY <1>1, <2>1, <2>2, FateKept
<1>7. Fates' = [Fates EXCEPT ![p] = "lost"]
  BY <1>3, <1>5, <1>6, FateTurns
<1> QED
  BY <1>1, <1>2, <1>3, <1>4, <1>7 DEF Service!RollBackBatch, Fates

\* A thread that ends before it has a writer loses its producer.
LEMMA EndingLoses ==
  ASSUME ThreadInv, PlacesInv, NEW g \in Generations, pc[g] = "open",
         pc' = [pc EXCEPT ![g] = "dead"], UNCHANGED <<stage, lock, current, index>>
  PROVE  Service!LoseProducer(current[g])
<1> DEFINE p == current[g]
<1>0. pc \in [Generations -> {"unborn", "dead"} \cup Live]
  BY DEF ThreadInv, IndexTypeOK
<1>1. p # Nobody
  BY DEF ThreadInv, LockHeld
<1>2. /\ p \in Producers /\ ProducerWritten # p /\ Fates[p] = "waiting"
      /\ stage[p] = "taken"
  BY <1>1, FateAtWriter DEF PlacesInv, TakenOnce
<1>3. ProducerWritten' = ProducerWritten
  BY DEF ProducerWritten
<1>4. Fates'[p] = "lost"
  <2>1. \A h \in Generations : ~(pc'[h] = "open" /\ current'[h] = p)
    BY <1>0, <1>1 DEF PlacesInv, TakenOnce
  <2> QED
    BY <1>2, <1>3, <2>1 DEF Fates, FateOf, AwaitsWriter
<1>5. ASSUME NEW q \in Producers, q # p PROVE Fates'[q] = Fates[q]
  <2>1. \A h \in Generations :
          pc'[h] = "open" /\ current'[h] = q <=> pc[h] = "open" /\ current[h] = q
    BY <1>0, <1>5
  <2> QED
    BY <1>3, <2>1, FateKept
<1>6. Fates' = [Fates EXCEPT ![p] = "lost"]
  BY <1>2, <1>4, <1>5, FateTurns
<1> QED
  BY <1>2, <1>3, <1>6 DEF Service!LoseProducer, Fates

\* So does an owner whose producer is not taken in time.
LEMMA AbandonLoses ==
  ASSUME ThreadInv, PlacesInv, NEW p \in Producers, AbandonProducer(p)
  PROVE  Service!LoseProducer(p)
<1>0. /\ stage \in [Producers -> {"filling", "queued", "taken", "done", "abandoned"}]
      /\ lock \in Generations \cup {Nobody}
  BY DEF ThreadInv, IndexTypeOK
<1>1. /\ stage[p] = "filling" /\ stage' = [stage EXCEPT ![p] = "abandoned"]
      /\ UNCHANGED <<pc, lock, current, index>>
  BY DEF AbandonProducer, indexerVars
<1>2. \A g \in Generations : current[g] # p
  BY <1>1, FillingIsNowhere
<1>3. ProducerWritten' = ProducerWritten /\ ProducerWritten # p
  BY <1>0, <1>1, <1>2, IndexAssumption DEF ProducerWritten
<1>4. Fates[p] = "waiting"
  BY <1>1, <1>3 DEF Fates, FateOf, AwaitsWriter
<1>5. Fates'[p] = "lost"
  BY <1>0, <1>1, <1>2, <1>3 DEF Fates, FateOf, AwaitsWriter
<1>6. ASSUME NEW q \in Producers, q # p PROVE Fates'[q] = Fates[q]
  <2>1. stage'[q] = stage[q]
    BY <1>0, <1>1, <1>6
  <2> QED
    BY <1>1, <1>3, <2>1, FateKept
<1>7. Fates' = [Fates EXCEPT ![p] = "lost"]
  BY <1>5, <1>6, FateTurns
<1> QED
  BY <1>1, <1>3, <1>4, <1>7 DEF Service!LoseProducer, Fates

\* An owner that offers a producer and a thread that takes it only move it.
LEMMA OfferIsUnseen ==
  ASSUME ThreadInv, PlacesInv, NEW p \in Producers, OfferProducer(p)
  PROVE  UNCHANGED Service!indexVars
<1>0. /\ stage \in [Producers -> {"filling", "queued", "taken", "done", "abandoned"}]
      /\ lock \in Generations \cup {Nobody}
  BY DEF ThreadInv, IndexTypeOK
<1>1. /\ stage[p] = "filling" /\ stage' = [stage EXCEPT ![p] = "queued"]
      /\ UNCHANGED <<pc, lock, current, index>>
  BY DEF OfferProducer, indexerVars
<1>2. \A g \in Generations : current[g] # p
  BY <1>1, FillingIsNowhere
<1>3. ProducerWritten' = ProducerWritten /\ ProducerWritten # p
  BY <1>0, <1>1, <1>2, IndexAssumption DEF ProducerWritten
<1>4. Fates[p] = "waiting" /\ Fates'[p] = "waiting"
  BY <1>0, <1>1, <1>3 DEF Fates, FateOf, AwaitsWriter
<1>5. ASSUME NEW q \in Producers, q # p PROVE Fates'[q] = Fates[q]
  <2>1. stage'[q] = stage[q]
    BY <1>0, <1>1, <1>5
  <2> QED
    BY <1>1, <1>3, <2>1, FateKept
<1>6. Fates' = Fates
  BY <1>4, <1>5 DEF Fates
<1> QED
  BY <1>1, <1>3, <1>6 DEF Service!indexVars, Fates

LEMMA TakeIsUnseen ==
  ASSUME ThreadInv, PlacesInv, NEW g \in Generations, TakeProducer(g)
  PROVE  UNCHANGED Service!indexVars
<1> DEFINE p == Head(queue[g])
<1>0. /\ stage \in [Producers -> {"filling", "queued", "taken", "done", "abandoned"}]
      /\ pc \in [Generations -> {"unborn", "dead"} \cup Live]
      /\ current \in [Generations -> Producers \cup {Nobody}]
      /\ queue \in [Generations -> Seq(Producers)]
      /\ lock \in Generations \cup {Nobody}
  BY DEF ThreadInv, IndexTypeOK
<1>1. /\ pc[g] = "get" /\ pc' = [pc EXCEPT ![g] = "open"] /\ queue[g] # <<>>
      /\ current' = [current EXCEPT ![g] = p] /\ stage' = [stage EXCEPT ![p] = "taken"]
      /\ UNCHANGED <<lock, index>>
  BY DEF TakeProducer
<1>2. p \in Producers /\ stage[p] = "queued" /\ p # Nobody
  <2>1. p = queue[g][1] /\ 1 \in DOMAIN queue[g] /\ p \in Producers
    BY <1>0, <1>1, HeadTailProperties, LenProperties, EmptySeq
  <2> QED
    BY <2>1, IndexAssumption DEF PlacesInv, QueuedOnce
<1>3. \A h \in Generations : current[h] # p
  BY <1>2 DEF PlacesInv, TakenOnce
<1> HIDE DEF p
<1>4. lock # g
  BY <1>1 DEF ThreadInv, LockHeld, Holding
<1>5. ProducerWritten' = ProducerWritten /\ ProducerWritten # p
  BY <1>0, <1>1, <1>2, <1>3, <1>4 DEF ProducerWritten
<1>6. Fates[p] = "waiting"
  BY <1>2, <1>5 DEF Fates, FateOf, AwaitsWriter
<1>7. Fates'[p] = "waiting"
  <2>1. stage'[p] = "taken" /\ pc'[g] = "open" /\ current'[g] = p
    BY <1>0, <1>1, <1>2
  <2> QED
    BY <1>2, <1>5, <2>1 DEF Fates, FateOf, AwaitsWriter
<1>8. ASSUME NEW q \in Producers, q # p PROVE Fates'[q] = Fates[q]
  <2>1. stage'[q] = stage[q]
    BY <1>0, <1>1, <1>8
  <2>2. \A h \in Generations :
          pc'[h] = "open" /\ current'[h] = q <=> pc[h] = "open" /\ current[h] = q
    <3>1. current[g] = Nobody /\ q # Nobody
      BY <1>1, IndexAssumption DEF PlacesInv, WaitingHasNone
    <3> QED
      BY <1>0, <1>1, <1>8, <3>1
  <2> QED
    BY <1>5, <2>1, <2>2, FateKept
<1>9. Fates' = Fates
  BY <1>6, <1>7, <1>8 DEF Fates
<1> QED
  BY <1>1, <1>5, <1>9 DEF Service!indexVars, Fates

LEMMA IndexServiceInitHolds == IndexInit => Service!IndexServiceInit
<1> SUFFICES ASSUME IndexInit PROVE Service!IndexServiceInit
  OBVIOUS
<1>1. ProducerWritten = Nobody
  BY DEF IndexInit, ProducerWritten
<1>2. \A p \in Producers : FateOf(p) = "waiting"
  BY <1>1, IndexAssumption DEF IndexInit, FateOf, AwaitsWriter
<1> QED
  BY <1>1, <1>2 DEF IndexInit, Service!IndexServiceInit

LEMMA IndexServiceNextHolds ==
  ThreadInv /\ PlacesInv /\ [IndexNext]_vars
    => [Service!IndexServiceNext]_(Service!indexVars)
<1> SUFFICES ASSUME ThreadInv, PlacesInv, [IndexNext]_vars
             PROVE  Service!IndexServiceNext \/ UNCHANGED Service!indexVars
  OBVIOUS
<1>0. /\ pc \in [Generations -> {"unborn", "dead"} \cup Live]
      /\ current \in [Generations -> Producers \cup {Nobody}]
  BY DEF ThreadInv, IndexTypeOK
<1>1. CASE UNCHANGED <<stage, indexerVars>>
  BY <1>1, Unseen DEF indexerVars
<1>2. ASSUME NEW p \in Producers, OfferProducer(p) \/ AbandonProducer(p)
      PROVE  Service!IndexServiceNext \/ UNCHANGED Service!indexVars
  BY <1>2, OfferIsUnseen, AbandonLoses DEF Service!IndexServiceNext
<1>3. ASSUME NEW g \in Generations,
             TakeProducer(g) \/ CommitWriter(g) \/ RollbackWriter(g)
      PROVE  Service!IndexServiceNext \/ UNCHANGED Service!indexVars
  BY <1>3, TakeIsUnseen, CommitCommits, RollbackRollsBack DEF Service!IndexServiceNext
<1>4. ASSUME NEW g \in Generations, OpenWriter(g) PROVE Service!IndexServiceNext
  <2>1. current[g] \in Producers
    BY <1>0, <1>4 DEF OpenWriter, ThreadInv, LockHeld
  <2> QED
    BY <1>4, <2>1, OpenBegins DEF Service!IndexServiceNext
<1>5. ASSUME NEW g \in Generations, LockFails(g) \/ (IndexFails(g) /\ pc[g] = "open")
      PROVE  Service!IndexServiceNext
  <2>1. /\ pc[g] = "open" /\ pc' = [pc EXCEPT ![g] = "dead"]
        /\ UNCHANGED <<stage, lock, current, index>>
    BY <1>5 DEF LockFails, IndexFails
  <2>2. current[g] \in Producers
    BY <1>0, <2>1 DEF ThreadInv, LockHeld
  <2> QED
    BY <2>1, <2>2, EndingLoses DEF Service!IndexServiceNext
<1>6. ASSUME NEW g \in Generations,
             \/ ConsumeEvent(g) \/ ProducerTimesOut(g) \/ StopAtInterrupt(g)
             \/ IndexFails(g) /\ pc[g] # "open"
      PROVE  UNCHANGED Service!indexVars
  <2>1. UNCHANGED <<stage, lock, current, index>>
    BY <1>6 DEF ConsumeEvent, ProducerTimesOut, StopAtInterrupt, IndexFails
  <2>2. \/ UNCHANGED pc
        \/ pc[g] # "open" /\ \E to \in {"dead", "rollback", "commit"} : pc' = [pc EXCEPT ![g] = to]
    BY <1>6 DEF ConsumeEvent, ProducerTimesOut, StopAtInterrupt, IndexFails
  <2>3. \A h \in Generations : pc'[h] = "open" <=> pc[h] = "open"
    BY <1>0, <2>2
  <2> QED
    BY <2>1, <2>3, Unseen
<1>7. CASE LoadSite
  <2>1. generation + 1 \in Generations /\ pc[generation + 1] = "unborn"
    <3>1. generation \in Generations /\ generation + 1 \in Generations
            /\ generation + 1 > generation
      BY <1>7, IndexAssumption DEF LoadSite, ThreadInv, IndexTypeOK, Generations
    <3> QED
      BY <3>1 DEF ThreadInv, LockHeld
  <2>2. \A h \in Generations : pc'[h] = "open" <=> pc[h] = "open"
    BY <1>0, <1>7, <2>1 DEF LoadSite
  <2> QED
    BY <1>7, <2>2, Unseen DEF LoadSite
<1>8. CASE ShutDownSite \/ \E p \in Producers : PutEvent(p)
  BY <1>1, <1>8 DEF ShutDownSite, PutEvent
<1> QED
  BY <1>1, <1>2, <1>3, <1>4, <1>5, <1>6, <1>7, <1>8 DEF IndexNext, IndexerStep, vars

\* The threads of all generations work on one producer at a time and on each
\* at most once, and a batch they do not commit leaves no trace in the index
\* (DocumentIndexer.run with write.lock, over reloads of the site).
THEOREM IndexServiceIsImplemented == IndexSpec => ImplementsIndexService
<1>1. ThreadInv /\ PlacesInv /\ [IndexNext]_vars => (ThreadInv /\ PlacesInv)'
  BY IndexNextTyped, PlacesNext
<1> QED
  BY <1>1, IndexInitTyped, PlacesInit, IndexServiceInitHolds, IndexServiceNextHolds, PTL
  DEF IndexSpec, ImplementsIndexService, Service!IndexServiceSpec
=============================================================================
