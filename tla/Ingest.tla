------------------------------- MODULE Ingest -------------------------------
(***************************************************************************)
(* What the ingester promises to its consumers: prediction rows are        *)
(* committed in batches, and an event reaches its topic only after the     *)
(* rows of its batch.  A publication may be repeated (the Kafka writer     *)
(* retries a lost acknowledgement), be lost, or be reordered with the      *)
(* other topic's; any producer may append what Decode refuses.             *)
(***************************************************************************)
EXTENDS Domain, Sequences

CONSTANT MaxLog   \* bound: messages per topic

ASSUME IngestAssumption == MaxLog \in Nat

VARIABLES
    rows,   \* the prediction table
    log     \* log[t]: the messages of topic t, from offset 1

ingestVars == <<rows, log>>

IngestInit ==
    /\ rows = {}
    /\ log = [t \in Topics |-> <<>>]

(* InsertEvents commits a batch.                                           *)
PersistPredictions ==
    /\ \E ps \in SUBSET (Feed \cap PredictionEvent) : rows' = rows \cup ps
    /\ UNCHANGED log

AppendTo(t, m) ==
    /\ Len(log[t]) < MaxLog
    /\ log' = [log EXCEPT ![t] = Append(@, m)]
    /\ UNCHANGED rows

(* Mutant: published before the rows are committed.                        *)
PublishBeforeRows(e) == AppendTo(TopicFor(e), e)

(* Publisher.Publish                                                       *)
Publish(e) ==
    /\ e.kind = Prediction => e \in rows
    /\ AppendTo(TopicFor(e), e)

PublishUndecodable(t) == AppendTo(t, Undecodable)

IngestNext ==
    \/ PersistPredictions
    \/ \E e \in Feed : Publish(e)
    \/ \E t \in Topics : PublishUndecodable(t)

IngestSpec == IngestInit /\ [][IngestNext]_ingestVars
=============================================================================
