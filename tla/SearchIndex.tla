---------------------------- MODULE SearchIndex ----------------------------
(***************************************************************************)
(* The search index of a site: applications and the global indexer put     *)
(* document events into producers and offer the producers to the indexing  *)
(* thread, which takes one at a time, applies its events with a Lucene     *)
(* writer and commits.  A reload of the site interrupts the thread of the  *)
(* old generation and starts another on the same index directory.          *)
(***************************************************************************)
EXTENDS Integers, Sequences

CONSTANTS
  Docs,           \* the documents (an id and a type)
  Producers,      \* the DocumentProducers
  Kinds,          \* the events put: a subset of AllKinds
  MaxGeneration,  \* bound: generations of the site
  QueueSize,      \* the capacity of an indexer's queue (indexQueueSize)
  BufferSize,     \* the capacity of a producer's queue
  MaxEvents,      \* bound: events a producer receives
  MaxFailures,    \* bound: I/O errors of the index
  Nobody          \* no generation, no producer

Generations == 1 .. MaxGeneration
AllKinds == {"create", "update", "delete", "clear"}
Adding == {"create", "update"}
Events == [kind : Kinds \ {"clear"}, doc : Docs]
            \cup [kind : Kinds \cap {"clear"}, doc : {Nobody}]

ASSUME IndexAssumption ==
  /\ Kinds \subseteq AllKinds
  /\ MaxGeneration \in Nat \ {0} /\ MaxFailures \in Nat /\ MaxEvents \in Nat
  /\ QueueSize \in Nat \ {0} /\ BufferSize \in Nat \ {0}
  /\ Nobody \notin Docs /\ Nobody \notin Producers /\ Nobody \notin Generations

VARIABLES
  generation,   \* the last generation of the site that was loaded
  stage,        \* of each producer: filling, queued, taken, done or abandoned
  buffer,       \* the events in each producer's queue
  queue,        \* the producers in the queue of each generation's indexer
  pc,           \* where the indexing thread of each generation is
  interrupted,  \* the generations whose thread was told to stop
  current,      \* the producer each thread works on, or Nobody
  snapshot,     \* the documents each thread's searcher finds
  written,      \* the uncommitted index of each thread's writer
  batch,        \* the events each thread has consumed from current
  lock,         \* the generation whose writer holds write.lock, or Nobody
  index,        \* the committed index: copies of documents
  failures      \* number of I/O errors so far

indexerVars == <<pc, current, snapshot, written, batch, lock, index, failures>>
vars == <<generation, stage, buffer, queue, interrupted, indexerVars>>

\* A document in the index: the event that added it is the nr-th of a producer.
Copies == [doc : Docs, from : Producers, nr : Nat \ {0}]
CopiesOf(d, copies) == {c \in copies : c.doc = d}
Found(copies) == {c.doc : c \in copies}

(* The thread has the writer open and has not committed (needsRollback).   *)
Holding == {"consume", "commit", "rollback"}
Live == {"get", "open"} \cup Holding

IndexInit ==
  /\ generation = 1
  /\ stage = [p \in Producers |-> "filling"]
  /\ buffer = [p \in Producers |-> <<>>]
  /\ queue = [g \in Generations |-> <<>>]
  /\ pc = [g \in Generations |-> IF g = 1 THEN "get" ELSE "unborn"]
  /\ interrupted = {}
  /\ current = [g \in Generations |-> Nobody]
  /\ snapshot = [g \in Generations |-> {}]
  /\ written = [g \in Generations |-> {}]
  /\ batch = [g \in Generations |-> <<>>]
  /\ lock = Nobody
  /\ index = {}
  /\ failures = 0

----------------------------------------------------------------------------
(* The owners of the producers.                                            *)

Received(p) ==
  Len(buffer[p]) + (IF \E g \in Generations : current[g] = p
                    THEN Len(batch[CHOOSE g \in Generations : current[g] = p])
                    ELSE 0)

(* put blocks while the producer's queue is full; an event put into a      *)
(* producer that was discarded stays in its queue for ever.                *)
PutEvent(p) ==
  /\ stage[p] \in {"filling", "queued", "taken"}
  /\ Len(buffer[p]) < BufferSize
  /\ Received(p) < MaxEvents
  /\ \E e \in Events : buffer' = [buffer EXCEPT ![p] = Append(@, e)]
  /\ UNCHANGED <<generation, stage, queue, interrupted, indexerVars>>

\* Mutant: the capacity of the indexer's queue is off by one.
OfferProducerOver(p) ==
  /\ stage[p] = "filling"
  /\ Len(queue[generation]) <= QueueSize
  /\ queue' = [queue EXCEPT ![generation] = Append(@, p)]
  /\ stage' = [stage EXCEPT ![p] = "queued"]
  /\ UNCHANGED <<generation, buffer, interrupted, indexerVars>>

(* The producer is added to the indexer of the generation that is loaded.  *)
OfferProducer(p) ==
  /\ stage[p] = "filling"
  /\ Len(queue[generation]) < QueueSize
  /\ queue' = [queue EXCEPT ![generation] = Append(@, p)]
  /\ stage' = [stage EXCEPT ![p] = "queued"]
  /\ UNCHANGED <<generation, buffer, interrupted, indexerVars>>

(* putWithTimeout throws: an event does not fit into a producer that is    *)
(* filled before it is offered, the producer does not fit into the queue,  *)
(* or the owner is interrupted, whether there is room or not.              *)
(* The global indexer leaves the producer out.                             *)
AbandonProducer(p) ==
  /\ stage[p] = "filling"
  /\ stage' = [stage EXCEPT ![p] = "abandoned"]
  /\ UNCHANGED <<generation, buffer, queue, interrupted, indexerVars>>

----------------------------------------------------------------------------
(* The indexing thread.                                                    *)

TakeProducer(g) ==
  /\ pc[g] = "get" /\ g \notin interrupted
  /\ queue[g] # <<>>
  /\ LET p == Head(queue[g]) IN
       /\ current' = [current EXCEPT ![g] = p]
       /\ stage' = [stage EXCEPT ![p] = "taken"]
  /\ queue' = [queue EXCEPT ![g] = Tail(@)]
  /\ batch' = [batch EXCEPT ![g] = <<>>]
  /\ pc' = [pc EXCEPT ![g] = "open"]
  /\ UNCHANGED <<generation, buffer, interrupted, snapshot, written, lock,
                 index, failures>>

\* Mutant: a directory without a lock (NoLockFactory).
OpenWriterUnlocked(g) ==
  /\ pc[g] = "open"
  /\ lock' = g
  /\ written' = [written EXCEPT ![g] = index]
  /\ snapshot' = [snapshot EXCEPT ![g] = Found(index)]
  /\ pc' = [pc EXCEPT ![g] = "consume"]
  /\ UNCHANGED <<generation, stage, buffer, queue, interrupted, current,
                 batch, index, failures>>

(* The writer takes the lock of the directory, and the searcher sees the   *)
(* index as it is then until the producer is done.                         *)
OpenWriter(g) ==
  /\ pc[g] = "open"
  /\ lock = Nobody
  /\ lock' = g
  /\ written' = [written EXCEPT ![g] = index]
  /\ snapshot' = [snapshot EXCEPT ![g] = Found(index)]
  /\ pc' = [pc EXCEPT ![g] = "consume"]
  /\ UNCHANGED <<generation, stage, buffer, queue, interrupted, current,
                 batch, index, failures>>

(* LockObtainFailedException: another writer is open, the thread ends.     *)
LockFails(g) ==
  /\ pc[g] = "open"
  /\ lock # Nobody
  /\ pc' = [pc EXCEPT ![g] = "dead"]
  /\ UNCHANGED <<generation, stage, buffer, queue, interrupted, current,
                 snapshot, written, batch, lock, index, failures>>

(* What an event makes of the uncommitted index: the searcher decides      *)
(* whether there is something to delete.                                   *)
Applied(g, e) ==
  LET copy == [doc |-> e.doc, from |-> current[g], nr |-> Len(batch[g]) + 1]
      rest == IF e.doc \in snapshot[g]
              THEN written[g] \ CopiesOf(e.doc, written[g])
              ELSE written[g]
  IN IF e.kind = "clear" THEN {}
     ELSE rest \cup IF e.kind \in Adding THEN {copy} ELSE {}

ConsumeEvent(g) ==
  /\ pc[g] = "consume" /\ g \notin interrupted
  /\ LET p == current[g] IN
       /\ buffer[p] # <<>>
       /\ written' = [written EXCEPT ![g] = Applied(g, Head(buffer[p]))]
       /\ batch' = [batch EXCEPT ![g] = Append(@, Head(buffer[p]))]
       /\ buffer' = [buffer EXCEPT ![p] = Tail(@)]
  /\ UNCHANGED <<generation, stage, queue, interrupted, pc, current, snapshot,
                 lock, index, failures>>

\* Mutant: get() waits until the owner has put all its events.
ProducerEnds(g) ==
  /\ pc[g] = "consume" /\ g \notin interrupted
  /\ Received(current[g]) = MaxEvents /\ buffer[current[g]] = <<>>
  /\ pc' = [pc EXCEPT ![g] = "commit"]
  /\ UNCHANGED <<generation, stage, buffer, queue, interrupted, current,
                 snapshot, written, batch, lock, index, failures>>

(* No event came within the timeout: the producer is discarded.            *)
ProducerTimesOut(g) ==
  /\ pc[g] = "consume" /\ g \notin interrupted
  /\ buffer[current[g]] = <<>>
  /\ pc' = [pc EXCEPT ![g] = "commit"]
  /\ UNCHANGED <<generation, stage, buffer, queue, interrupted, current,
                 snapshot, written, batch, lock, index, failures>>

CommitWriter(g) ==
  /\ pc[g] = "commit"
  /\ index' = written[g]
  /\ lock' = Nobody
  /\ stage' = [stage EXCEPT ![current[g]] = "done"]
  /\ current' = [current EXCEPT ![g] = Nobody]
  /\ pc' = [pc EXCEPT ![g] = "get"]
  /\ UNCHANGED <<generation, buffer, queue, interrupted, snapshot, written,
                 batch, failures>>

(* InterruptedException: at the loop's head, at get() or at get(timeout).  *)
StopAtInterrupt(g) ==
  /\ g \in interrupted
  /\ \/ pc[g] = "get" /\ pc' = [pc EXCEPT ![g] = "dead"]
     \/ pc[g] = "consume" /\ pc' = [pc EXCEPT ![g] = "rollback"]
  /\ UNCHANGED <<generation, stage, buffer, queue, interrupted, current,
                 snapshot, written, batch, lock, index, failures>>

(* Lucene throws: an I/O error, or an interrupt that met a file channel.   *)
(* The thread ends, after a rollback when its writer is open.              *)
IndexFails(g) ==
  /\ pc[g] \in {"open", "consume", "commit"}
  /\ \/ g \in interrupted /\ failures' = failures
     \/ g \notin interrupted /\ failures < MaxFailures /\ failures' = failures + 1
  /\ pc' = [pc EXCEPT ![g] = IF @ = "open" THEN "dead" ELSE "rollback"]
  /\ UNCHANGED <<generation, stage, buffer, queue, interrupted, current,
                 snapshot, written, batch, lock, index>>

\* Mutant: the writer is closed without a rollback, which commits.
CloseCommits(g) ==
  /\ pc[g] = "rollback"
  /\ index' = written[g]
  /\ lock' = Nobody
  /\ pc' = [pc EXCEPT ![g] = "dead"]
  /\ UNCHANGED <<generation, stage, buffer, queue, interrupted, current,
                 snapshot, written, batch, failures>>

\* Mutant: after an error the writer is left open.
LeavesWriterOpen(g) ==
  /\ pc[g] = "rollback"
  /\ pc' = [pc EXCEPT ![g] = "dead"]
  /\ UNCHANGED <<generation, stage, buffer, queue, interrupted, current,
                 snapshot, written, batch, lock, index, failures>>

RollbackWriter(g) ==
  /\ pc[g] = "rollback"
  /\ lock' = Nobody
  /\ pc' = [pc EXCEPT ![g] = "dead"]
  /\ UNCHANGED <<generation, stage, buffer, queue, interrupted, current,
                 snapshot, written, batch, index, failures>>

----------------------------------------------------------------------------
(* The site.                                                               *)

(* shutDownSite interrupts the site's threads and does not wait for them.  *)
ShutDownSite ==
  /\ generation \notin interrupted
  /\ interrupted' = interrupted \cup {generation}
  /\ UNCHANGED <<generation, stage, buffer, queue, indexerVars>>

(* loadSite starts a thread with an empty queue.                           *)
LoadSite ==
  /\ generation \in interrupted
  /\ generation < MaxGeneration
  /\ generation' = generation + 1
  /\ pc' = [pc EXCEPT ![generation + 1] = "get"]
  /\ UNCHANGED <<stage, buffer, queue, interrupted, current, snapshot, written,
                 batch, lock, index, failures>>

IndexerStep(g) ==
  \/ TakeProducer(g) \/ OpenWriter(g) \/ LockFails(g)
  \/ ConsumeEvent(g) \/ ProducerTimesOut(g) \/ CommitWriter(g)
  \/ StopAtInterrupt(g) \/ RollbackWriter(g)

IndexNext ==
  \/ \E p \in Producers : PutEvent(p) \/ OfferProducer(p) \/ AbandonProducer(p)
  \/ \E g \in Generations : IndexerStep(g) \/ IndexFails(g)
  \/ ShutDownSite
  \/ LoadSite

IndexSpec == IndexInit /\ [][IndexNext]_vars

(* The indexing threads run; owners, errors and reloads are not fair.      *)
FairIndexSpec == IndexSpec /\ \A g \in Generations : WF_vars(IndexerStep(g))

----------------------------------------------------------------------------
(* Properties.                                                             *)

(* The variables have their types, and no queue exceeds its capacity.      *)
IndexTypeOK ==
  /\ generation \in Generations
  /\ stage \in [Producers -> {"filling", "queued", "taken", "done", "abandoned"}]
  /\ buffer \in [Producers -> Seq(Events)]
  /\ \A p \in Producers : Len(buffer[p]) <= BufferSize
  /\ queue \in [Generations -> Seq(Producers)]
  /\ \A g \in Generations : Len(queue[g]) <= QueueSize
  /\ batch \in [Generations -> Seq(Events)]
  /\ pc \in [Generations -> {"unborn", "dead"} \cup Live]
  /\ interrupted \subseteq Generations
  /\ current \in [Generations -> Producers \cup {Nobody}]
  /\ snapshot \in [Generations -> SUBSET Docs]
  /\ written \in [Generations -> SUBSET Copies]
  /\ lock \in Generations \cup {Nobody}
  /\ index \subseteq Copies
  /\ failures \in 0 .. MaxFailures

(* What a batch of events should make of an index: a document has the copy *)
(* of the last event about it, if that event adds one, and nothing from    *)
(* before a clearing is left.                                              *)
Valid(events) ==
  {i \in DOMAIN events :
     \A c \in DOMAIN events : events[c].kind = "clear" => c < i}

Last(events) ==
  {i \in Valid(events) :
     \A j \in Valid(events) : events[j].doc = events[i].doc => j <= i}

Intended(base, events, p) ==
  {c \in base :
     \A i \in DOMAIN events : events[i].kind # "clear" /\ events[i].doc # c.doc}
    \cup {[doc |-> events[i].doc, from |-> p, nr |-> i] :
            i \in {j \in Last(events) : events[j].kind \in Adding}}

MentionedOnce(d, events) ==
  \A i, j \in DOMAIN events : events[i].doc = d /\ events[j].doc = d => i = j

\* Where the writer is meant to agree with the batch.
Agrees(d, g) == d \in snapshot[g] \/ MentionedOnce(d, batch[g])

(* A commit makes of the committed index what the whole batch of one       *)
(* producer should, and nothing else ever changes it: neither half a batch *)
(* after an error or an interrupt, nor the work of another generation's    *)
(* thread is lost.  A document that was not in the index when the writer   *)
(* was opened and that the batch mentions more than once is excepted: the  *)
(* searcher never finds it (DocumentIndexer:136-153).                      *)
CommitsIntended ==
  [][/\ \A g \in Generations :
          pc[g] = "commit" /\ pc'[g] = "get" =>
            \A d \in Docs :
              Agrees(d, g) =>
                CopiesOf(d, index')
                  = CopiesOf(d, Intended(index, batch[g], current[g]))
     /\ index' # index => \E g \in Generations : pc[g] = "commit" /\ lock = g
    ]_vars

(* The refinement mapping: the writer that holds the lock works on its     *)
(* thread's producer, and a producer taken from the queue is lost when     *)
(* neither that nor the opening of a writer is ahead of it.                *)
ProducerWritten == IF lock = Nobody THEN Nobody ELSE current[lock]

AwaitsWriter(p) ==
  \/ stage[p] \in {"filling", "queued"}
  \/ \E g \in Generations : pc[g] = "open" /\ current[g] = p

FateOf(p) ==
  IF stage[p] = "done" THEN "applied"
  ELSE IF p = ProducerWritten THEN "writing"
  ELSE IF AwaitsWriter(p) THEN "waiting"
  ELSE "lost"

Service == INSTANCE IndexService WITH
  writer <- ProducerWritten, fate <- [p \in Producers |-> FateOf(p)]

(* The threads of all generations together work on one producer at a time, *)
(* on each at most once, and what they leave unfinished leaves no trace,   *)
(* wherever an error, an interrupt or the reload of the site meets them.   *)
ImplementsIndexService == Service!IndexServiceSpec

(* Every producer in the queue is consumed, committed and made room for,   *)
(* however slow its owner: unless the thread ends, no queued producer      *)
(* waits for ever (DocumentProducer.get(timeout) discards it).             *)
QueuedIsServed ==
  \A g \in Generations : \A p \in Producers :
    (pc[g] \in Live /\ current[g] = p) \/ (pc[g] \in Live /\ stage[p] = "queued"
       /\ \E i \in DOMAIN queue[g] : queue[g][i] = p)
      ~> (stage[p] = "done" \/ pc[g] = "dead")

(* write.lock is not kept for ever, whatever ends a session.               *)
LockIsFreed == (lock # Nobody) ~> (lock = Nobody)

(* searching.adoc:2: each site has its own indexing thread, that is        *)
(* waiting for producers.  Until the site is shut down its thread lives.   *)
ThreadAwaitsProducers == generation \notin interrupted => pc[generation] \in Live
=============================================================================
