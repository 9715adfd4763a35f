------------------------------- MODULE Runner -------------------------------
(***************************************************************************)
(* services/ingester: Runner.collectOnce for every ingester process, with  *)
(* the two calls of the repository it makes and the publication of the     *)
(* events.                                                                 *)
(*                                                                         *)
(* A payload stands for what a feed answers with, identified by its hash;  *)
(* EventsOf gives the events Normalize reads from it.  A cycle polls the   *)
(* trip updates, then the vehicle positions.  InsertSnapshot and           *)
(* InsertEvents are two transactions; publication follows the second.      *)
(***************************************************************************)
EXTENDS Domain, Sequences, FiniteSets

CONSTANTS
    Ingesters,       \* ingester processes (replicas.ingester, rolling updates)
    Payloads,        \* payloads, identified by (feed_type, payload_hash)
    FeedType(_),     \* the feed that serves a payload
    EventsOf(_),     \* the events of a payload, in entity order
    Malformed,       \* the payloads Normalize refuses as a whole
    NoPayload,
    HasPublisher,    \* whether brokers are configured (cmd/ingester)
    MaxFaults        \* bound: crashes and failed calls

Feeds == <<"trip_updates", "vehicle_positions">>

ASSUME RunnerAssumption ==
    /\ NoPayload \notin Payloads
    /\ IsFiniteSet(Payloads)   \* a payload is a hash of fixed width
    /\ HasPublisher \in BOOLEAN
    /\ Malformed \subseteq Payloads
    /\ MaxFaults \in Nat
    /\ \A p \in Payloads : /\ FeedType(p) \in {1, 2}
                           /\ EventsOf(p) \in Seq(Feed)

VARIABLES
    snapshots,  \* feed_snapshot: the payloads that have a row
    ingested,   \* ingested[p]: batches of p's events committed to the tables
    sent,       \* the publications the broker accepted: <<payload, n>>, in order
    stage,      \* stage[i]: where process i stands
    feed,       \* feed[i]: index in Feeds of the feed being collected
    payload,    \* payload[i]: the snapshot in hand
    next,       \* next[i]: index of the event to publish
    faults

storeVars == <<snapshots, ingested, sent>>
procVars == <<stage, feed, payload, next>>
vars == <<storeVars, procVars, faults>>

Stages == {"down", "waiting", "fetching", "fetched", "normalized",
           "registered", "publishing"}

Init ==
    /\ snapshots = {}
    /\ ingested = [p \in Payloads |-> 0]
    /\ sent = <<>>
    /\ stage = [i \in Ingesters |-> "down"]
    /\ feed = [i \in Ingesters |-> 1]
    /\ payload = [i \in Ingesters |-> NoPayload]
    /\ next = [i \in Ingesters |-> 1]
    /\ faults = 0

Fault ==
    /\ faults < MaxFaults
    /\ faults' = faults + 1

Goto(i, s) == stage' = [stage EXCEPT ![i] = s]

(* Mutant: an error ends the cycle instead of the feed.                    *)
NextFeedAborts(i) ==
    /\ Goto(i, "waiting")
    /\ feed' = [feed EXCEPT ![i] = 1]
    /\ payload' = [payload EXCEPT ![i] = NoPayload]
    /\ next' = [next EXCEPT ![i] = 1]

LastFeed(i) == feed[i] = Len(Feeds)

(* The loop over the feed types: the second one, or the end of the cycle.  *)
NextFeed(i) ==
    /\ Goto(i, IF LastFeed(i) THEN "waiting" ELSE "fetching")
    /\ feed' = [feed EXCEPT ![i] = IF LastFeed(i) THEN 1 ELSE @ + 1]
    /\ payload' = [payload EXCEPT ![i] = NoPayload]
    /\ next' = [next EXCEPT ![i] = 1]

-----------------------------------------------------------------------------
(* Run: one collection at once, then one per tick.                         *)
Start(i) ==
    /\ stage[i] = "down"
    /\ Goto(i, "fetching")
    /\ UNCHANGED <<storeVars, feed, payload, next, faults>>

Tick(i) ==
    /\ stage[i] = "waiting"
    /\ Goto(i, "fetching")
    /\ UNCHANGED <<storeVars, feed, payload, next, faults>>

Crash(i) ==
    /\ stage[i] # "down"
    /\ Fault
    /\ Goto(i, "down")
    /\ feed' = [feed EXCEPT ![i] = 1]
    /\ payload' = [payload EXCEPT ![i] = NoPayload]
    /\ next' = [next EXCEPT ![i] = 1]
    /\ UNCHANGED storeVars

(* Source.Fetch answers with whatever the feed serves now.                 *)
Fetch(i) ==
    /\ stage[i] = "fetching"
    /\ \E p \in Payloads :
          /\ FeedType(p) = feed[i]
          /\ payload' = [payload EXCEPT ![i] = p]
    /\ Goto(i, "fetched")
    /\ UNCHANGED <<storeVars, feed, next, faults>>

(* No payload, a status that is not 2xx, one too large or not protobuf:    *)
(* the feed may fail for ever, so this is no counted fault.                *)
FetchFails(i) ==
    /\ stage[i] = "fetching"
    /\ NextFeed(i)
    /\ UNCHANGED <<storeVars, faults>>

(* domain.Normalize refuses a snapshot as a whole.                         *)
Normalize(i) ==
    /\ stage[i] = "fetched"
    /\ \/ /\ payload[i] \in Malformed
          /\ NextFeed(i)
       \/ /\ payload[i] \notin Malformed
          /\ Goto(i, "normalized")
          /\ UNCHANGED <<feed, payload, next>>
    /\ UNCHANGED <<storeVars, faults>>

(* Mutant: the runner does not look at inserted.                           *)
InsertSnapshotAnyway(i) ==
    /\ stage[i] = "normalized"
    /\ snapshots' = snapshots \cup {payload[i]}
    /\ Goto(i, "registered")
    /\ UNCHANGED <<ingested, sent, feed, payload, next, faults>>

(* InsertSnapshot: ON CONFLICT (feed_type, payload_hash) DO NOTHING; a     *)
(* known payload is a duplicate and its events are not looked at again.    *)
InsertSnapshot(i) ==
    /\ stage[i] = "normalized"
    /\ \/ /\ payload[i] \notin snapshots
          /\ snapshots' = snapshots \cup {payload[i]}
          /\ Goto(i, "registered")
          /\ UNCHANGED <<feed, payload, next>>
       \/ /\ payload[i] \in snapshots
          /\ NextFeed(i)
          /\ UNCHANGED snapshots
    /\ UNCHANGED <<ingested, sent, faults>>

(* The call fails, before or after the row was committed.                  *)
InsertSnapshotFails(i) ==
    /\ stage[i] = "normalized"
    /\ Fault
    /\ \/ UNCHANGED snapshots
       \/ snapshots' = snapshots \cup {payload[i]}
    /\ NextFeed(i)
    /\ UNCHANGED <<ingested, sent>>

(* Mutant: the transaction is never committed.                             *)
CommitEventsNever(p) == UNCHANGED ingested

CommitEvents(p) == ingested' = [ingested EXCEPT ![p] = @ + 1]

(* InsertEvents: one transaction for the whole batch.                      *)
InsertEvents(i) ==
    /\ stage[i] = "registered"
    /\ CommitEvents(payload[i])
    /\ Goto(i, "publishing")
    /\ UNCHANGED <<snapshots, sent, feed, payload, next, faults>>

(* Mutant: the error is counted and publication follows.                   *)
InsertEventsFailsAndPublishes(i) ==
    /\ stage[i] = "registered"
    /\ Fault
    /\ Goto(i, "publishing")
    /\ UNCHANGED <<storeVars, feed, payload, next>>

(* The transaction is rolled back, or committed without anyone hearing of  *)
(* it; in both cases the snapshot stays and nothing is published.          *)
InsertEventsFails(i) ==
    /\ stage[i] = "registered"
    /\ Fault
    /\ UNCHANGED ingested \/ CommitEvents(payload[i])
    /\ NextFeed(i)
    /\ UNCHANGED <<snapshots, sent>>

HasEvent(i) == HasPublisher /\ next[i] <= Len(EventsOf(payload[i]))

Accepted(i) == sent' = Append(sent, <<payload[i], next[i]>>)

(* The publication loop moves on whatever Publish answered.                *)
Advance(i) == next' = [next EXCEPT ![i] = @ + 1]

Publish(i) ==
    /\ stage[i] = "publishing"
    /\ HasEvent(i)
    /\ Accepted(i)
    /\ UNCHANGED <<snapshots, ingested, stage, feed, payload, faults>>
    /\ Advance(i)

(* Publish fails: counted, never retried.  The broker may have it.         *)
PublishFails(i) ==
    /\ stage[i] = "publishing"
    /\ HasEvent(i)
    /\ Fault
    /\ UNCHANGED sent \/ Accepted(i)
    /\ UNCHANGED <<snapshots, ingested, stage, feed, payload>>
    /\ Advance(i)

(* The acknowledgement is lost and the Kafka writer sends the event again  *)
(* within one call of Publish.                                             *)
WriterRetries(i) ==
    /\ stage[i] = "publishing"
    /\ HasEvent(i)
    /\ Fault
    /\ Accepted(i)
    /\ UNCHANGED <<snapshots, ingested, procVars>>

Published(i) ==
    /\ stage[i] = "publishing"
    /\ ~HasEvent(i)
    /\ NextFeed(i)
    /\ UNCHANGED <<storeVars, faults>>

-----------------------------------------------------------------------------
Collect(i) ==
    \/ Fetch(i) \/ FetchFails(i) \/ Normalize(i) \/ InsertSnapshot(i)
    \/ InsertEvents(i) \/ Publish(i) \/ Published(i)

CollectFails(i) ==
    \/ InsertSnapshotFails(i) \/ InsertEventsFails(i) \/ PublishFails(i)
    \/ WriterRetries(i)

Next ==
    \E i \in Ingesters :
        Start(i) \/ Tick(i) \/ Crash(i) \/ Collect(i) \/ CollectFails(i)

Spec == Init /\ [][Next]_vars

(* Every call of a cycle returns (the fetch has a timeout), the ticker     *)
(* ticks and the orchestrator restarts the process.                        *)
Fairness ==
    \A i \in Ingesters :
        WF_vars(Start(i)) /\ WF_vars(Tick(i)) /\ WF_vars(Collect(i))

FairSpec == Spec /\ Fairness

-----------------------------------------------------------------------------
(* Every variable keeps its type; a payload is in hand between fetch and   *)
(* the end of its publication.                                             *)
TypeOK ==
    /\ snapshots \subseteq Payloads
    /\ ingested \in [Payloads -> Nat]
    /\ sent \in Seq(Payloads \X (Nat \ {0}))
    /\ stage \in [Ingesters -> Stages]
    /\ feed \in [Ingesters -> {1, 2}]
    /\ payload \in [Ingesters -> Payloads \cup {NoPayload}]
    /\ next \in [Ingesters -> Nat \ {0}]
    /\ faults \in 0 .. MaxFaults
    /\ \A i \in Ingesters :
          stage[i] \in {"fetched", "normalized", "registered", "publishing"}
          => payload[i] \in Payloads /\ FeedType(payload[i]) = feed[i]

(* The events of a payload enter the tables at most once, however often    *)
(* it is fetched and by however many processes (the unique key of          *)
(* feed_snapshot is the only guard).                                       *)
IngestedOnce == \A p \in Payloads : ingested[p] <= 1

(* The broker sees the events of a payload in order, repeated at most by   *)
(* the writer's own retries, and only after their rows are committed.      *)
PublishedInOrder ==
    /\ \A j, k \in 1 .. Len(sent) :
          j < k /\ sent[j][1] = sent[k][1] => sent[j][2] <= sent[k][2]
    /\ \A k \in 1 .. Len(sent) : ingested[sent[k][1]] = 1

(* Why they hold: the process that registered a payload is the only one to *)
(* go on with it, and has published nothing beyond its current event.      *)
Holds(i, p) == stage[i] \in {"registered", "publishing"} /\ payload[i] = p

OneHolder ==
    /\ \A p \in Payloads : ingested[p] > 0 => p \in snapshots
    /\ \A i, j \in Ingesters, p \in Payloads :
          Holds(i, p) /\ Holds(j, p) => i = j
    /\ \A i \in Ingesters, p \in Payloads : Holds(i, p) =>
          /\ p \in snapshots
          /\ ingested[p] = IF stage[i] = "registered" THEN 0 ELSE 1
          /\ \A k \in 1 .. Len(sent) :
                sent[k][1] = p => stage[i] = "publishing" /\ sent[k][2] <= next[i]

(* The inductive invariant of IngestedOnce and PublishedInOrder.           *)
IngestInv == TypeOK /\ IngestedOnce /\ PublishedInOrder /\ OneHolder

Orphan(p) ==
    /\ p \in snapshots
    /\ ingested[p] = 0
    /\ \A i \in Ingesters : ~(stage[i] = "registered" /\ payload[i] = p)

(* A snapshot whose events were not committed with it is never ingested:   *)
(* every later cycle takes it for a duplicate (the two transactions of     *)
(* collectOnce).                                                           *)
OrphansStayOrphans ==
    [][\A p \in Payloads : Orphan(p) => Orphan(p)']_vars

(* What the matcher sees of the ingester is what it counts on: the         *)
(* published events follow their rows, each as often as it occurs in a     *)
(* payload or is sent again.                                               *)
Occurrences(p) == {<<p, n>> : n \in DOMAIN EventsOf(p)}

LogBound ==
    Cardinality(UNION {Occurrences(p) : p \in Payloads}) + MaxFaults

EventAt(s) == EventsOf(s[1])[s[2]]

Rows == {e \in Feed : /\ e.kind = Prediction
                      /\ \E p \in Payloads : /\ ingested[p] > 0
                                              /\ \E n \in DOMAIN EventsOf(p) :
                                                      EventsOf(p)[n] = e}

(* The messages of topic t among the publications s.                       *)
TopicLog(t, s) ==
    LET log[k \in 0 .. Len(s)] ==
            IF k = 0 THEN <<>>
            ELSE IF TopicFor(EventAt(s[k])) = t THEN Append(log[k - 1], EventAt(s[k]))
            ELSE log[k - 1]
    IN  log[Len(s)]

Logs == [t \in Topics |-> TopicLog(t, sent)]

Contract ==
    INSTANCE Ingest WITH
        rows <- Rows,
        log <- Logs,
        MaxLog <- LogBound

ImplementsIngest == Contract!IngestSpec

(* The vehicle feed is polled for ever, even when the trip updates fail in *)
(* every cycle (the continue of collectOnce).                              *)
VehicleFeedPolled ==
    \A i \in Ingesters : []<>(stage[i] = "fetching" /\ feed[i] = 2)

SentEvents(p) == {n \in 1 .. Len(EventsOf(p)) :
                     \E k \in 1 .. Len(sent) : sent[k] = <<p, n>>}

(* Every event that was ingested is eventually published.                  *)
EveryEventPublished ==
    \A p \in Payloads :
        ingested[p] = 1 ~> SentEvents(p) = 1 .. Len(EventsOf(p))
=============================================================================
