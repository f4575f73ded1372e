---------------------------- MODULE IndexService ----------------------------
(***************************************************************************)
(* What the users of a search index see of its threads and reloads: the    *)
(* index is changed by one producer at a time, as a whole or not at all; a *)
(* producer is worked on once, and adds documents of its own only.         *)
(* SearchIndex implements it.                                              *)
(***************************************************************************)
CONSTANTS Producers, Nobody

VARIABLES
  index,   \* the committed index: copies of documents, each from a producer
  writer,  \* the producer that is worked on, or Nobody
  fate     \* what has become of each producer

indexVars == <<index, writer, fate>>

IndexServiceInit ==
  /\ index = {}
  /\ writer = Nobody
  /\ fate = [p \in Producers |-> "waiting"]

BeginBatch(p) ==
  /\ writer = Nobody
  /\ fate[p] = "waiting"
  /\ writer' = p
  /\ fate' = [fate EXCEPT ![p] = "writing"]
  /\ UNCHANGED index

CommitBatch ==
  /\ writer # Nobody
  /\ \A c \in index' \ index : c.from = writer
  /\ writer' = Nobody
  /\ fate' = [fate EXCEPT ![writer] = "applied"]

RollBackBatch ==
  /\ writer # Nobody
  /\ writer' = Nobody
  /\ fate' = [fate EXCEPT ![writer] = "lost"]
  /\ UNCHANGED index

\* A producer is given up before anything of it is written.
LoseProducer(p) ==
  /\ fate[p] = "waiting"
  /\ fate' = [fate EXCEPT ![p] = "lost"]
  /\ UNCHANGED <<index, writer>>

IndexServiceNext ==
  \/ CommitBatch \/ RollBackBatch
  \/ \E p \in Producers : BeginBatch(p) \/ LoseProducer(p)

IndexServiceSpec == IndexServiceInit /\ [][IndexServiceNext]_indexVars

=============================================================================
