------------------------- MODULE SearchIndexProofs -------------------------
(***************************************************************************)
(* Proofs about SearchIndex, for any documents, producers, generations and *)
(* capacities: the types, that two writers are never open at once, and     *)
(* that a commit makes of the index what the producer's batch intends.     *)
(***************************************************************************)
EXTENDS SearchIndex, SequenceTheorems, TLAPS

\* Exactly the thread whose writer is open holds the lock, every thread that
\* is past get() has a producer, and no thread runs before its generation.
LockHeld ==
  /\ \A g \in Generations : g > generation => pc[g] = "unborn"
  /\ \A g \in Generations : pc[g] \in Holding <=> lock = g
  /\ \A g \in Generations : pc[g] \in {"open"} \cup Holding => current[g] # Nobody

ThreadInv == IndexTypeOK /\ LockHeld

\* The clear event and the others.
LEMMA EventTypes ==
  /\ \A e \in Events : e.kind = "clear" \/ e.doc \in Docs
  /\ \A e \in Events : e.kind = "clear" => e.doc = Nobody
  /\ \A e \in Events : e.kind \in AllKinds
BY IndexAssumption DEF Events, AllKinds

\* A consumed event leaves a well-typed index in the writer.
LEMMA AppliedTyped ==
  ASSUME ThreadInv, NEW g \in Generations, NEW e \in Events,
         current[g] \in Producers
  PROVE  Applied(g, e) \in SUBSET Copies
<1>1. written[g] \in SUBSET Copies
  BY DEF ThreadInv, IndexTypeOK
<1>2. CASE e.kind = "clear"
  BY <1>2 DEF Applied
<1>3. CASE e.kind # "clear"
  <2>1. e.doc \in Docs
    BY <1>3, EventTypes
  <2>2. Len(batch[g]) + 1 \in Nat \ {0}
    <3>1. batch[g] \in Seq(Events)
      BY DEF ThreadInv, IndexTypeOK
    <3>2. Len(batch[g]) \in Nat
      BY <3>1, LenProperties
    <3> QED
      BY <3>2
  <2>3. [doc |-> e.doc, from |-> current[g], nr |-> Len(batch[g]) + 1] \in Copies
    BY <2>1, <2>2 DEF Copies
  <2> QED
    BY <1>1, <1>3, <2>3 DEF Applied, CopiesOf
<1> QED
  BY <1>2, <1>3

LEMMA IndexInitTyped == IndexInit => ThreadInv
<1> SUFFICES ASSUME IndexInit PROVE ThreadInv
  OBVIOUS
<1>1. 1 \in Generations
  BY IndexAssumption DEF Generations
<1>2. \A g \in Generations : pc[g] \in {"get", "unborn"}
  BY DEF IndexInit
<1>3. LockHeld
  <2>1. \A g \in Generations : g > generation => pc[g] = "unborn"
    BY IndexAssumption DEF IndexInit, Generations
  <2> QED
    BY <1>2, <2>1, IndexAssumption DEF IndexInit, LockHeld, Holding
<1>4. /\ buffer \in [Producers -> Seq(Events)]
      /\ queue \in [Generations -> Seq(Producers)]
      /\ batch \in [Generations -> Seq(Events)]
  BY EmptySeq DEF IndexInit
<1>5. /\ \A p \in Producers : Len(buffer[p]) <= BufferSize
      /\ \A g \in Generations : Len(queue[g]) <= QueueSize
  BY EmptySeq, IndexAssumption DEF IndexInit
<1>6. failures \in 0 .. MaxFailures
  BY IndexAssumption DEF IndexInit
<1> QED
  BY <1>1, <1>3, <1>4, <1>5, <1>6
  DEF IndexInit, ThreadInv, IndexTypeOK, Live, Holding

\* Every step keeps the types and the lock.
LEMMA IndexNextTyped == ThreadInv /\ [IndexNext]_vars => ThreadInv'
<1> SUFFICES ASSUME ThreadInv, [IndexNext]_vars PROVE ThreadInv'
  OBVIOUS
<1> USE DEF ThreadInv
<1>0. /\ \A g \in Generations : g # Nobody
      /\ generation \in Generations
  BY IndexAssumption DEF IndexTypeOK
<1>1. CASE UNCHANGED vars
  BY <1>1 DEF vars, indexerVars, IndexTypeOK, LockHeld
<1>2. ASSUME NEW p \in Producers, PutEvent(p) PROVE ThreadInv'
  <2>1. PICK e \in Events : buffer' = [buffer EXCEPT ![p] = Append(@, e)]
    BY <1>2 DEF PutEvent
  <2>2. buffer[p] \in Seq(Events) /\ Len(buffer[p]) < BufferSize
    BY <1>2 DEF PutEvent, IndexTypeOK
  <2>3. Append(buffer[p], e) \in Seq(Events) /\ Len(Append(buffer[p], e)) = Len(buffer[p]) + 1
    BY <2>2, AppendProperties
  <2>4. Len(buffer[p]) \in Nat /\ BufferSize \in Nat
    BY <2>2, LenProperties, IndexAssumption
  <2>5. Len(Append(buffer[p], e)) <= BufferSize
    BY <2>2, <2>3, <2>4
  <2>6. buffer' \in [Producers -> Seq(Events)] /\ \A q \in Producers : Len(buffer'[q]) <= BufferSize
    BY <2>1, <2>3, <2>5 DEF IndexTypeOK
  <2> QED
    BY <1>2, <2>6 DEF PutEvent, indexerVars, IndexTypeOK, LockHeld
<1>3. ASSUME NEW p \in Producers, OfferProducer(p) PROVE ThreadInv'
  <2>1. queue[generation] \in Seq(Producers) /\ Len(queue[generation]) < QueueSize
    BY <1>0, <1>3 DEF OfferProducer, IndexTypeOK
  <2>2. /\ Append(queue[generation], p) \in Seq(Producers)
        /\ Len(Append(queue[generation], p)) = Len(queue[generation]) + 1
    BY <2>1, AppendProperties
  <2>3. Len(queue[generation]) \in Nat /\ QueueSize \in Nat
    BY <2>1, LenProperties, IndexAssumption
  <2>4. Len(Append(queue[generation], p)) <= QueueSize
    BY <2>1, <2>2, <2>3
  <2>5. queue' \in [Generations -> Seq(Producers)] /\ \A g \in Generations : Len(queue'[g]) <= QueueSize
    BY <1>0, <1>3, <2>2, <2>4 DEF OfferProducer, IndexTypeOK
  <2> QED
    BY <1>3, <2>5 DEF OfferProducer, indexerVars, IndexTypeOK, LockHeld
<1>4. ASSUME NEW p \in Producers, AbandonProducer(p) PROVE ThreadInv'
  BY <1>4 DEF AbandonProducer, indexerVars, IndexTypeOK, LockHeld
<1>5. ASSUME NEW g \in Generations, TakeProducer(g) PROVE ThreadInv'
  <2>1. queue[g] \in Seq(Producers) /\ queue[g] # <<>> /\ Len(queue[g]) <= QueueSize
    BY <1>5 DEF TakeProducer, IndexTypeOK
  <2>2. /\ Head(queue[g]) \in Producers /\ Tail(queue[g]) \in Seq(Producers)
        /\ Len(Tail(queue[g])) = Len(queue[g]) - 1
    BY <2>1, HeadTailProperties
  <2>3. Len(queue[g]) \in Nat /\ QueueSize \in Nat
    BY <2>1, LenProperties, IndexAssumption
  <2>4. queue' \in [Generations -> Seq(Producers)] /\ \A h \in Generations : Len(queue'[h]) <= QueueSize
    BY <1>5, <2>1, <2>2, <2>3 DEF TakeProducer, IndexTypeOK
  <2>5. /\ current' \in [Generations -> Producers \cup {Nobody}]
        /\ stage' \in [Producers -> {"filling", "queued", "taken", "done", "abandoned"}]
    BY <1>5, <2>2 DEF TakeProducer, IndexTypeOK
  <2>6. batch' \in [Generations -> Seq(Events)]
    BY <1>5, EmptySeq DEF TakeProducer, IndexTypeOK
  <2>7. pc' \in [Generations -> {"unborn", "dead"} \cup Live]
    BY <1>5 DEF TakeProducer, IndexTypeOK, Live
  <2>8. Head(queue[g]) # Nobody
    BY <2>2, IndexAssumption
  <2>9. LockHeld'
    BY <1>5, <2>8 DEF TakeProducer, LockHeld, IndexTypeOK, Holding
  <2> QED
    BY <1>5, <2>4, <2>5, <2>6, <2>7, <2>9 DEF TakeProducer, IndexTypeOK
<1>6. ASSUME NEW g \in Generations, OpenWriter(g) PROVE ThreadInv'
  <2>1. Found(index) \in SUBSET Docs /\ index \in SUBSET Copies
    BY DEF Found, Copies, IndexTypeOK
  <2>2. LockHeld'
    BY <1>0, <1>6 DEF OpenWriter, LockHeld, IndexTypeOK, Holding
  <2>3. IndexTypeOK'
    BY <1>6, <2>1 DEF OpenWriter, IndexTypeOK, Live, Holding
  <2> QED
    BY <2>2, <2>3
<1>7. ASSUME NEW g \in Generations, LockFails(g) PROVE ThreadInv'
  BY <1>7 DEF LockFails, IndexTypeOK, LockHeld, Live, Holding
<1>8. ASSUME NEW g \in Generations, ConsumeEvent(g) PROVE ThreadInv'
  <2>1. current[g] \in Producers
    BY <1>8 DEF ConsumeEvent, LockHeld, IndexTypeOK, Holding
  <2>2. buffer[current[g]] \in Seq(Events) /\ buffer[current[g]] # <<>>
    BY <1>8, <2>1 DEF ConsumeEvent, IndexTypeOK
  <2> DEFINE e == Head(buffer[current[g]])
  <2>3. /\ e \in Events /\ Tail(buffer[current[g]]) \in Seq(Events)
        /\ Len(Tail(buffer[current[g]])) = Len(buffer[current[g]]) - 1
    BY <2>2, HeadTailProperties
  <2>4. Len(buffer[current[g]]) \in Nat /\ BufferSize \in Nat /\ Len(buffer[current[g]]) <= BufferSize
    BY <2>1, <2>2, LenProperties, IndexAssumption DEF IndexTypeOK
  <2>5. Applied(g, e) \in SUBSET Copies
    BY <2>1, <2>3, AppliedTyped
  <2>6. written' \in [Generations -> SUBSET Copies]
    BY <1>8, <2>5 DEF ConsumeEvent, IndexTypeOK
  <2>7. batch' \in [Generations -> Seq(Events)]
    <3>1. batch[g] \in Seq(Events)
      BY DEF IndexTypeOK
    <3>2. Append(batch[g], e) \in Seq(Events)
      BY <3>1, <2>3, AppendProperties
    <3> QED
      BY <1>8, <3>2 DEF ConsumeEvent, IndexTypeOK
  <2>8. buffer' \in [Producers -> Seq(Events)] /\ \A p \in Producers : Len(buffer'[p]) <= BufferSize
    BY <1>8, <2>1, <2>3, <2>4 DEF ConsumeEvent, IndexTypeOK
  <2> QED
    BY <1>8, <2>6, <2>7, <2>8 DEF ConsumeEvent, IndexTypeOK, LockHeld
<1>9. ASSUME NEW g \in Generations, ProducerTimesOut(g) PROVE ThreadInv'
  BY <1>9 DEF ProducerTimesOut, IndexTypeOK, LockHeld, Live, Holding
<1>10. ASSUME NEW g \in Generations, CommitWriter(g) PROVE ThreadInv'
  <2>1. current[g] \in Producers /\ lock = g
    BY <1>10 DEF CommitWriter, LockHeld, IndexTypeOK, Holding
  <2>2. LockHeld'
    BY <1>0, <1>10, <2>1 DEF CommitWriter, LockHeld, IndexTypeOK, Holding
  <2>3. IndexTypeOK'
    BY <1>10, <2>1 DEF CommitWriter, IndexTypeOK, Live, Holding
  <2> QED
    BY <2>2, <2>3
<1>11. ASSUME NEW g \in Generations, StopAtInterrupt(g) PROVE ThreadInv'
  <2>1. PICK to \in {"dead", "rollback"} :
          /\ pc' = [pc EXCEPT ![g] = to]
          /\ to = "dead" => pc[g] = "get"
          /\ to = "rollback" => pc[g] = "consume"
    BY <1>11 DEF StopAtInterrupt
  <2>2. pc[g] \in {"get", "consume"}
    BY <1>11 DEF StopAtInterrupt
  <2>3. pc' \in [Generations -> {"unborn", "dead"} \cup Live]
    BY <2>1 DEF IndexTypeOK, Live, Holding
  <2>4. \A h \in Generations :
          /\ pc'[h] \in Holding <=> pc[h] \in Holding
          /\ pc'[h] \in {"open"} \cup Holding => pc[h] \in {"open"} \cup Holding
          /\ pc'[h] = "unborn" <=> pc[h] = "unborn"
    BY <2>1, <2>2 DEF IndexTypeOK, Holding
  <2>5. UNCHANGED <<generation, lock, current>>
    BY <1>11 DEF StopAtInterrupt
  <2>6. LockHeld'
    BY <2>4, <2>5 DEF LockHeld
  <2>7. IndexTypeOK'
    BY <1>11, <2>3 DEF StopAtInterrupt, IndexTypeOK
  <2> QED
    BY <2>6, <2>7
<1>12. ASSUME NEW g \in Generations, IndexFails(g) PROVE ThreadInv'
  <2>1. failures' \in 0 .. MaxFailures
    BY <1>12, IndexAssumption DEF IndexFails, IndexTypeOK
  <2> QED
    BY <1>12, <2>1 DEF IndexFails, IndexTypeOK, LockHeld, Live, Holding
<1>13. ASSUME NEW g \in Generations, RollbackWriter(g) PROVE ThreadInv'
  <2>1. LockHeld'
    BY <1>0, <1>13 DEF RollbackWriter, LockHeld, IndexTypeOK, Holding
  <2> QED
    BY <1>13, <2>1 DEF RollbackWriter, IndexTypeOK, Live, Holding
<1>14. CASE ShutDownSite
  BY <1>0, <1>14 DEF ShutDownSite, indexerVars, IndexTypeOK, LockHeld
<1>15. CASE LoadSite
  <2>1. generation + 1 \in Generations
    BY <1>15, <1>0, IndexAssumption DEF LoadSite, Generations
  <2>2. pc[generation + 1] = "unborn"
    BY <1>0, <2>1, IndexAssumption DEF LockHeld, Generations
  <2>3. \A g \in Generations : g > generation + 1 => g > generation /\ g # generation + 1
    BY <1>0, IndexAssumption DEF Generations
  <2>4. LockHeld'
    BY <1>15, <2>1, <2>2, <2>3 DEF LoadSite, IndexTypeOK, LockHeld, Holding
  <2> QED
    BY <1>15, <2>1, <2>4 DEF LoadSite, IndexTypeOK, Live, Holding
<1> QED
  BY <1>1, <1>2, <1>3, <1>4, <1>5, <1>6, <1>7, <1>8, <1>9, <1>10, <1>11, <1>12,
     <1>13, <1>14, <1>15 DEF IndexNext, IndexerStep

(* Types and lock as theorems.                                             *)

\* The types, and that at most one writer is open.
LEMMA ThreadsSound == IndexSpec => []ThreadInv
BY IndexInitTyped, IndexNextTyped, PTL DEF IndexSpec

\* Every variable has its type and no queue exceeds its capacity.
THEOREM IndexTyping == IndexSpec => []IndexTypeOK
<1>1. ThreadInv => IndexTypeOK
  BY DEF ThreadInv
<1> QED
  BY <1>1, ThreadsSound, PTL

-----------------------------------------------------------------------------
(* What a batch intends, event by event.                                   *)

\* The positions of a longer batch.
LEMMA AppendedEvents ==
  ASSUME NEW b \in Seq(Events), NEW e \in Events
  PROVE  LET n == Len(b) + 1
             c == Append(b, e)
         IN /\ Len(b) \in Nat
            /\ DOMAIN b = 1 .. Len(b)
            /\ DOMAIN c = (DOMAIN b) \cup {n}
            /\ n \notin DOMAIN b
            /\ \A i \in DOMAIN b : c[i] = b[i] /\ i < n
            /\ c[n] = e
<1>1. Len(b) \in Nat /\ DOMAIN b = 1 .. Len(b)
  BY LenProperties
<1>2. Len(Append(b, e)) = Len(b) + 1 /\ Append(b, e) \in Seq(Events)
  BY AppendProperties
<1>3. DOMAIN Append(b, e) = 1 .. Len(b) + 1
  BY <1>2, LenProperties
<1>4. /\ \A i \in 1 .. Len(b) : Append(b, e)[i] = b[i]
      /\ Append(b, e)[Len(b) + 1] = e
  BY AppendProperties
<1> QED
  BY <1>1, <1>3, <1>4

\* No event, no change.
LEMMA IntendedNothing ==
  ASSUME NEW base, NEW p PROVE Intended(base, <<>>, p) = base
<1>1. DOMAIN <<>> = {}
  BY EmptySeq
<1>2. Last(<<>>) = {}
  BY <1>1 DEF Last, Valid
<1> QED
  BY <1>1, <1>2 DEF Intended

\* A document that is neither in the index nor in the batch stays out.
LEMMA IntendedUnmentioned ==
  ASSUME NEW base, NEW b, NEW p, NEW d,
         d \notin Found(base), \A i \in DOMAIN b : b[i].doc # d
  PROVE  CopiesOf(d, Intended(base, b, p)) = {}
<1>1. Last(b) \subseteq DOMAIN b
  BY DEF Last, Valid
<1> QED
  BY <1>1 DEF Intended, CopiesOf, Found

\* Which events of a longer batch are valid.
LEMMA ValidAppended ==
  ASSUME NEW b \in Seq(Events), NEW e \in Events
  PROVE  Valid(Append(b, e)) =
           IF e.kind = "clear" THEN {} ELSE Valid(b) \cup {Len(b) + 1}
BY AppendedEvents DEF Valid

\* An event about another document leaves what is intended of d.
LEMMA IntendedOther ==
  ASSUME NEW base, NEW b \in Seq(Events), NEW e \in Events, NEW p, NEW d,
         e.kind # "clear", e.doc # d
  PROVE  CopiesOf(d, Intended(base, Append(b, e), p)) = CopiesOf(d, Intended(base, b, p))
<1> DEFINE n == Len(b) + 1
           c == Append(b, e)
<1>1. /\ DOMAIN c = (DOMAIN b) \cup {n} /\ c[n] = e
      /\ \A i \in DOMAIN b : c[i] = b[i]
  BY AppendedEvents
<1>2. Valid(c) = Valid(b) \cup {n} /\ Valid(b) \subseteq DOMAIN b
  BY ValidAppended DEF Valid
<1>3. \A i : i \in Last(c) /\ c[i].doc = d <=> i \in Last(b) /\ b[i].doc = d
  BY <1>1, <1>2 DEF Last
<1>4. Last(b) \subseteq DOMAIN b /\ Last(c) \subseteq DOMAIN c
  BY DEF Last, Valid
<1>5. ASSUME NEW x
      PROVE  x \in CopiesOf(d, Intended(base, c, p)) <=> x \in CopiesOf(d, Intended(base, b, p))
  <2>1. x \in CopiesOf(d, Intended(base, c, p)) <=>
          /\ x.doc = d
          /\ \/ x \in base /\ \A i \in DOMAIN c : c[i].kind # "clear" /\ c[i].doc # x.doc
             \/ \E i \in Last(c) : c[i].kind \in Adding
                   /\ x = [doc |-> c[i].doc, from |-> p, nr |-> i]
    BY DEF CopiesOf, Intended
  <2>2. x \in CopiesOf(d, Intended(base, b, p)) <=>
          /\ x.doc = d
          /\ \/ x \in base /\ \A i \in DOMAIN b : b[i].kind # "clear" /\ b[i].doc # x.doc
             \/ \E i \in Last(b) : b[i].kind \in Adding
                   /\ x = [doc |-> b[i].doc, from |-> p, nr |-> i]
    BY DEF CopiesOf, Intended
  <2> QED
    BY <1>1, <1>3, <1>4, <2>1, <2>2
<1> QED
  BY <1>5 DEF CopiesOf

\* An event about d decides what is intended of d.
LEMMA IntendedSame ==
  ASSUME NEW base, NEW b \in Seq(Events), NEW e \in Events, NEW p,
         e.kind # "clear"
  PROVE  CopiesOf(e.doc, Intended(base, Append(b, e), p)) =
           IF e.kind \in Adding
           THEN {[doc |-> e.doc, from |-> p, nr |-> Len(b) + 1]} ELSE {}
<1> DEFINE n == Len(b) + 1
           c == Append(b, e)
<1>1. /\ DOMAIN c = (DOMAIN b) \cup {n} /\ c[n] = e
      /\ \A i \in DOMAIN b : c[i] = b[i] /\ i < n
      /\ n \notin DOMAIN b /\ n \in Nat /\ DOMAIN b \subseteq Nat
  BY AppendedEvents
<1>2. Valid(c) = Valid(b) \cup {n} /\ Valid(b) \subseteq DOMAIN b
  BY ValidAppended DEF Valid
<1>3. \A i \in Last(c) : c[i].doc = e.doc => i = n
  BY <1>1, <1>2 DEF Last
<1>4. n \in Last(c)
  BY <1>1, <1>2 DEF Last
<1>5. ASSUME NEW x
      PROVE  x \in CopiesOf(e.doc, Intended(base, c, p)) <=>
               e.kind \in Adding /\ x = [doc |-> e.doc, from |-> p, nr |-> n]
  <2>1. x \in CopiesOf(e.doc, Intended(base, c, p)) <=>
          /\ x.doc = e.doc
          /\ \/ x \in base /\ \A i \in DOMAIN c : c[i].kind # "clear" /\ c[i].doc # x.doc
             \/ \E i \in Last(c) : c[i].kind \in Adding
                   /\ x = [doc |-> c[i].doc, from |-> p, nr |-> i]
    BY DEF CopiesOf, Intended
  <2>2. x.doc = e.doc => ~(\A i \in DOMAIN c : c[i].kind # "clear" /\ c[i].doc # x.doc)
    BY <1>1
  <2>3. ASSUME x \in CopiesOf(e.doc, Intended(base, c, p))
        PROVE  e.kind \in Adding /\ x = [doc |-> e.doc, from |-> p, nr |-> n]
    <3>1. PICK i \in Last(c) : /\ c[i].kind \in Adding /\ x.doc = e.doc
                               /\ x = [doc |-> c[i].doc, from |-> p, nr |-> i]
      BY <2>1, <2>2, <2>3
    <3>2. c[i].doc = e.doc
      BY <3>1
    <3>3. i = n
      BY <1>3, <3>2
    <3> QED
      BY <1>1, <3>1, <3>3
  <2>4. ASSUME e.kind \in Adding, x = [doc |-> e.doc, from |-> p, nr |-> n]
        PROVE  x \in CopiesOf(e.doc, Intended(base, c, p))
    BY <1>1, <1>4, <2>1, <2>4
  <2> QED
    BY <2>3, <2>4
<1>6. \A x \in CopiesOf(e.doc, Intended(base, c, p)) :
         e.kind \in Adding /\ x = [doc |-> e.doc, from |-> p, nr |-> n]
  BY <1>5
<1>7. e.kind \in Adding =>
        [doc |-> e.doc, from |-> p, nr |-> n] \in CopiesOf(e.doc, Intended(base, c, p))
  BY <1>5
<1> QED
  BY <1>6, <1>7

-----------------------------------------------------------------------------
(* Sessions.                                                               *)

\* While a writer is open the searcher's documents are those of the committed
\* index, and the uncommitted index is what the events so far intend.
WriterFollows(g) ==
  /\ snapshot[g] = Found(index)
  /\ \A d \in Docs : Agrees(d, g) =>
       CopiesOf(d, written[g]) = CopiesOf(d, Intended(index, batch[g], current[g]))

SessionInv ==
  \A g \in Generations :
    /\ pc[g] = "open" => batch[g] = <<>>
    /\ pc[g] \in {"consume", "commit"} => WriterFollows(g)

\* Consuming an event keeps the writer in line with the batch.
LEMMA ConsumeFollows ==
  ASSUME ThreadInv, NEW g \in Generations, NEW e \in Events, WriterFollows(g),
         snapshot'[g] = snapshot[g], index' = index, current'[g] = current[g],
         batch'[g] = Append(batch[g], e), written'[g] = Applied(g, e)
  PROVE  WriterFollows(g)'
<1>1. batch[g] \in Seq(Events)
  BY DEF ThreadInv, IndexTypeOK
<1>2. snapshot'[g] = Found(index')
  BY DEF WriterFollows
<1>3. ASSUME NEW d \in Docs, Agrees(d, g)'
      PROVE  CopiesOf(d, written'[g])
               = CopiesOf(d, Intended(index', batch'[g], current'[g]))
  <2> DEFINE b == batch[g]
             c == Append(batch[g], e)
             base == index
             p == current[g]
  <2>1. /\ DOMAIN c = (DOMAIN b) \cup {Len(b) + 1} /\ c[Len(b) + 1] = e
        /\ \A i \in DOMAIN b : c[i] = b[i]
        /\ Len(b) + 1 \notin DOMAIN b
    BY <1>1, AppendedEvents
  <2>2. Agrees(d, g)
    BY <1>3, <2>1 DEF Agrees, MentionedOnce
  <2>3. CopiesOf(d, written[g]) = CopiesOf(d, Intended(base, b, p))
    BY <2>2 DEF WriterFollows
  <2>4. SUFFICES CopiesOf(d, Applied(g, e)) = CopiesOf(d, Intended(base, c, p))
    OBVIOUS
  <2>5. CASE e.kind = "clear"
    <3>1. Applied(g, e) = {}
      BY <2>5 DEF Applied
    <3>2. Last(c) = {}
      BY <1>1, <2>5, ValidAppended DEF Last
    <3>3. Intended(base, c, p) = {}
      BY <2>1, <2>5, <3>2 DEF Intended
    <3> QED
      BY <3>1, <3>3 DEF CopiesOf
  <2>6. CASE e.kind # "clear" /\ e.doc # d
    <3>1. CopiesOf(d, Applied(g, e)) = CopiesOf(d, written[g])
      BY <2>6 DEF Applied, CopiesOf
    <3> QED
      BY <1>1, <2>3, <2>6, <3>1, IntendedOther
  <2>7. CASE e.kind # "clear" /\ e.doc = d
    <3>1. d \notin snapshot[g] => CopiesOf(d, written[g]) = {}
      <4>1. ASSUME d \notin snapshot[g] PROVE CopiesOf(d, written[g]) = {}
        <5>1. MentionedOnce(d, c)
          BY <1>3, <4>1 DEF Agrees
        <5>2. \A i \in DOMAIN b : b[i].doc # d
          BY <2>1, <2>7, <5>1 DEF MentionedOnce
        <5>3. d \notin Found(base)
          BY <4>1 DEF WriterFollows
        <5> QED
          BY <2>3, <5>2, <5>3, IntendedUnmentioned
      <4> QED
        BY <4>1
    <3>2. CopiesOf(d, Applied(g, e)) =
            IF e.kind \in Adding
            THEN {[doc |-> d, from |-> p, nr |-> Len(b) + 1]} ELSE {}
      BY <2>7, <3>1 DEF Applied, CopiesOf
    <3>3. CopiesOf(e.doc, Intended(base, c, p)) =
            IF e.kind \in Adding
            THEN {[doc |-> e.doc, from |-> p, nr |-> Len(b) + 1]} ELSE {}
      BY <1>1, <2>7, IntendedSame
    <3> QED
      BY <2>7, <3>2, <3>3
  <2> QED
    BY <2>5, <2>6, <2>7
<1> QED
  BY <1>2, <1>3 DEF WriterFollows

LEMMA SessionInit == IndexInit => SessionInv
BY DEF IndexInit, SessionInv

\* A step that leaves a thread's session alone leaves it in line.
LEMMA SessionUntouched ==
  ASSUME SessionInv, NEW g \in Generations,
         pc'[g] = pc[g] \/ pc'[g] \in {"get", "rollback", "dead", "unborn"}
           \/ (pc[g] = "consume" /\ pc'[g] = "commit"),
         snapshot'[g] = snapshot[g], written'[g] = written[g], batch'[g] = batch[g],
         current'[g] = current[g],
         index' = index \/ pc'[g] \notin {"consume", "commit"}
  PROVE  /\ pc'[g] = "open" => batch'[g] = <<>>
         /\ pc'[g] \in {"consume", "commit"} => WriterFollows(g)'
<1>1. pc'[g] = "open" => pc[g] = "open"
  OBVIOUS
<1>2. pc'[g] \in {"consume", "commit"} => pc[g] \in {"consume", "commit"} /\ index' = index
  OBVIOUS
<1>3. ASSUME index' = index, WriterFollows(g) PROVE WriterFollows(g)'
  BY <1>3 DEF WriterFollows, Agrees
<1> QED
  BY <1>1, <1>2, <1>3 DEF SessionInv

LEMMA SessionNext == ThreadInv /\ SessionInv /\ [IndexNext]_vars => SessionInv'
<1> SUFFICES ASSUME ThreadInv, SessionInv, [IndexNext]_vars,
                    NEW h \in Generations
             PROVE  /\ pc'[h] = "open" => batch'[h] = <<>>
                    /\ pc'[h] \in {"consume", "commit"} => WriterFollows(h)'
  BY DEF SessionInv
<1> DEFINE Goal == /\ pc'[h] = "open" => batch'[h] = <<>>
                   /\ pc'[h] \in {"consume", "commit"} => WriterFollows(h)'
<1>0. /\ pc \in [Generations -> {"unborn", "dead"} \cup Live]
      /\ current \in [Generations -> Producers \cup {Nobody}]
      /\ snapshot \in [Generations -> SUBSET Docs]
      /\ written \in [Generations -> SUBSET Copies]
      /\ batch \in [Generations -> Seq(Events)]
      /\ buffer \in [Producers -> Seq(Events)]
      /\ generation \in Generations
  BY DEF ThreadInv, IndexTypeOK
<1>1. CASE UNCHANGED indexerVars
  BY <1>1, SessionUntouched DEF indexerVars
<1>2. ASSUME NEW g \in Generations, TakeProducer(g) PROVE Goal
  <2>1. CASE h = g
    BY <1>0, <1>2, <2>1 DEF TakeProducer
  <2>2. CASE h # g
    BY <1>0, <1>2, <2>2, SessionUntouched DEF TakeProducer
  <2> QED
    BY <2>1, <2>2
<1>3. ASSUME NEW g \in Generations, OpenWriter(g) PROVE Goal
  <2>1. CASE h = g
    <3>1. /\ pc'[h] = "consume" /\ batch'[h] = <<>> /\ index' = index
          /\ snapshot'[h] = Found(index) /\ written'[h] = index
      BY <1>0, <1>3, <2>1 DEF OpenWriter, SessionInv
    <3>2. Intended(index', batch'[h], current'[h]) = index
      BY <3>1, IntendedNothing
    <3> QED
      BY <3>1, <3>2 DEF WriterFollows
  <2>2. CASE h # g
    BY <1>0, <1>3, <2>2, SessionUntouched DEF OpenWriter
  <2> QED
    BY <2>1, <2>2
<1>4. ASSUME NEW g \in Generations, LockFails(g) \/ StopAtInterrupt(g) \/ IndexFails(g)
                                     \/ RollbackWriter(g) \/ ProducerTimesOut(g)
      PROVE  Goal
  <2>1. pc'[h] = pc[h] \/ pc'[h] \in {"rollback", "dead"}
          \/ (pc[h] = "consume" /\ pc'[h] = "commit")
    BY <1>0, <1>4 DEF LockFails, StopAtInterrupt, IndexFails, RollbackWriter, ProducerTimesOut
  <2>2. UNCHANGED <<snapshot, written, batch, current, index>>
    BY <1>4 DEF LockFails, StopAtInterrupt, IndexFails, RollbackWriter, ProducerTimesOut
  <2> QED
    BY <2>1, <2>2, SessionUntouched
<1>5. ASSUME NEW g \in Generations, ConsumeEvent(g) PROVE Goal
  <2>1. CASE h = g
    <3>1. current[g] \in Producers
      BY <1>0, <1>5 DEF ConsumeEvent, ThreadInv, LockHeld, Holding
    <3> DEFINE e == Head(buffer[current[g]])
    <3>2. e \in Events
      BY <1>0, <1>5, <3>1, HeadTailProperties DEF ConsumeEvent
    <3>3. /\ written'[g] = Applied(g, e) /\ batch'[g] = Append(batch[g], e)
          /\ pc'[g] = "consume" /\ pc[g] = "consume"
          /\ UNCHANGED <<current, snapshot, index>>
      BY <1>0, <1>5 DEF ConsumeEvent
    <3>4. WriterFollows(g)
      BY <3>3 DEF SessionInv
    <3>5. WriterFollows(g)'
      BY <3>2, <3>3, <3>4, ConsumeFollows
    <3> QED
      BY <2>1, <3>3, <3>5
  <2>2. CASE h # g
    BY <1>0, <1>5, <2>2, SessionUntouched DEF ConsumeEvent
  <2> QED
    BY <2>1, <2>2
<1>6. ASSUME NEW g \in Generations, CommitWriter(g) PROVE Goal
  <2>1. CASE h = g
    BY <1>0, <1>6, <2>1 DEF CommitWriter
  <2>2. CASE h # g
    <3>1. lock = g /\ pc[h] \notin Holding /\ pc'[h] = pc[h]
      BY <1>0, <1>6, <2>2 DEF CommitWriter, ThreadInv, LockHeld, Holding
    <3> QED
      BY <1>0, <1>6, <2>2, <3>1, SessionUntouched DEF CommitWriter, Holding
  <2> QED
    BY <2>1, <2>2
<1>7. CASE LoadSite
  <2>1. pc'[h] = pc[h] \/ pc'[h] = "get"
    BY <1>0, <1>7 DEF LoadSite
  <2> QED
    BY <1>7, <2>1, SessionUntouched DEF LoadSite
<1>8. IndexNext /\ ~UNCHANGED indexerVars =>
        \/ \E g \in Generations : IndexerStep(g) \/ IndexFails(g)
        \/ LoadSite
  BY DEF IndexNext, PutEvent, OfferProducer, AbandonProducer, ShutDownSite, indexerVars
<1> QED
  BY <1>1, <1>2, <1>3, <1>4, <1>5, <1>6, <1>7, <1>8 DEF IndexerStep, vars

\* A commit makes of the committed index what the batch of the producer
\* intends, and nothing but a commit changes it, whatever is interrupted,
\* fails or runs beside it (DocumentIndexer.run).
THEOREM CommitsAreIntended == IndexSpec => CommitsIntended
<1> DEFINE Commits ==
  /\ \A g \in Generations :
       pc[g] = "commit" /\ pc'[g] = "get" =>
         \A d \in Docs :
           Agrees(d, g) =>
             CopiesOf(d, index')
               = CopiesOf(d, Intended(index, batch[g], current[g]))
  /\ index' # index => \E g \in Generations : pc[g] = "commit" /\ lock = g
<1>1. ThreadInv /\ SessionInv /\ [IndexNext]_vars => [Commits]_vars
  <2> SUFFICES ASSUME ThreadInv, SessionInv, IndexNext PROVE Commits
    OBVIOUS
  <2>0. pc \in [Generations -> {"unborn", "dead"} \cup Live]
    BY DEF ThreadInv, IndexTypeOK
  <2>1. ASSUME NEW g \in Generations, CommitWriter(g) PROVE Commits
    <3>1. index' = written[g] /\ WriterFollows(g) /\ lock = g /\ pc[g] = "commit"
      BY <2>1 DEF CommitWriter, SessionInv, ThreadInv, LockHeld, Holding
    <3>2. \A h \in Generations : pc[h] = "commit" => h = g
      BY <3>1 DEF ThreadInv, LockHeld, Holding
    <3> QED
      BY <3>1, <3>2 DEF WriterFollows
  <2>2. ASSUME index' = index, \A g \in Generations : ~(pc[g] = "commit" /\ pc'[g] = "get")
        PROVE  Commits
    BY <2>2
  <2>3. CASE UNCHANGED <<pc, index>>
    BY <2>2, <2>3
  <2>4. ASSUME NEW g \in Generations, IndexFails(g) \/ (IndexerStep(g) /\ ~CommitWriter(g))
        PROVE  Commits
    <3>1. index' = index
      BY <2>4 DEF IndexFails, IndexerStep, TakeProducer, OpenWriter, LockFails,
                  ConsumeEvent, ProducerTimesOut, StopAtInterrupt, RollbackWriter
    <3>2. \A h \in Generations : pc[h] = "commit" => pc'[h] # "get"
      BY <2>0, <2>4 DEF IndexFails, IndexerStep, TakeProducer, OpenWriter, LockFails,
                  ConsumeEvent, ProducerTimesOut, StopAtInterrupt, RollbackWriter
    <3> QED
      BY <2>2, <3>1, <3>2
  <2>5. CASE LoadSite
    <3>1. generation \in Generations /\ generation + 1 \in Generations
             /\ generation + 1 > generation
      BY <2>5, IndexAssumption DEF LoadSite, ThreadInv, IndexTypeOK, Generations
    <3>2. pc[generation + 1] = "unborn"
      BY <3>1 DEF ThreadInv, LockHeld
    <3>3. \A h \in Generations : pc[h] = "commit" => pc'[h] # "get"
      BY <2>0, <2>5, <3>2 DEF LoadSite
    <3> QED
      BY <2>2, <2>5, <3>3 DEF LoadSite
  <2>6. CASE \/ \E p \in Producers : PutEvent(p) \/ OfferProducer(p) \/ AbandonProducer(p)
            \/ ShutDownSite
    BY <2>3, <2>6 DEF PutEvent, OfferProducer, AbandonProducer, ShutDownSite, indexerVars
  <2> QED
    BY <2>1, <2>4, <2>5, <2>6 DEF IndexNext, IndexerStep
<1>2. ThreadInv /\ SessionInv /\ [IndexNext]_vars => (ThreadInv /\ SessionInv)'
  BY IndexNextTyped, SessionNext
<1> QED
  BY <1>1, <1>2, IndexInitTyped, SessionInit, PTL DEF IndexSpec, CommitsIntended
=============================================================================
