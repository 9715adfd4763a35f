------------------------------ MODULE Matcher ------------------------------
(***************************************************************************)
(* services/matcher against the two Redpanda topics and PostgreSQL.        *)
(*                                                                         *)
(* A matcher process is an instance; it runs one consumer goroutine per    *)
(* topic (Service.consume), all sharing one Engine under a mutex.  Topics  *)
(* have one partition each and are consumed by one group, so a topic has   *)
(* at most one owner; a process that lost a topic may still be busy with   *)
(* the message it fetched before.  Instances, their engines and the        *)
(* positions of their readers die with the process; the logs, the          *)
(* committed offsets and the database survive.                             *)
(***************************************************************************)
EXTENDS Ingest

CONSTANTS
    Instances,    \* matcher processes that may exist (replicas.matcher)
    StartupStops, \* the stop lists a start may load (table, file, URL, none)
    NoOwner,      \* a topic nobody is assigned
    MaxFaults     \* bound: crashes, failed calls and rebalances

ASSUME MatcherAssumption ==
    /\ NoOwner \notin Instances
    /\ StartupStops \subseteq SUBSET Stops
    /\ MaxFaults \in Nat

VARIABLES
    (* PostgreSQL, with the prediction rows of Ingest *)
    arrivals,     \* arrival_observed rows
    links,        \* prediction_error rows
    (* Redpanda, with the logs of Ingest *)
    committed,    \* committed[t]: offset committed by the group
    owner,        \* owner[t]: the instance t is assigned to
    position,     \* position[t]: offset of the last message its owner fetched
    (* matcher processes *)
    up,           \* up[i]: process i runs
    stops,        \* stops[i]: the stops loaded by Run
    predictions,  \* predictions[i]: keys of Engine.predictions
    emitted,      \* emitted[i]: Engine.emittedArrivals
    pc,           \* pc[i][t]: where the consumer of t stands
    at,           \* at[i][t]: offset of the message it works on
    pending,      \* pending[i][t]: arrivals still to be inserted
    faults        \* faults so far

dbVars == <<rows, arrivals, links>>
busVars == <<log, committed, owner, position>>
engineVars == <<stops, predictions, emitted>>
consumerVars == <<pc, at, pending>>
vars == <<dbVars, busVars, up, engineVars, consumerVars, faults>>

Init ==
    /\ IngestInit
    /\ arrivals = {} /\ links = {}
    /\ committed = [t \in Topics |-> 0]
    /\ owner = [t \in Topics |-> NoOwner]
    /\ position = [t \in Topics |-> 0]
    /\ up = [i \in Instances |-> FALSE]
    /\ stops = [i \in Instances |-> {}]
    /\ predictions = [i \in Instances |-> {}]
    /\ emitted = [i \in Instances |-> {}]
    /\ pc = [i \in Instances |-> [t \in Topics |-> "idle"]]
    /\ at = [i \in Instances |-> [t \in Topics |-> 0]]
    /\ pending = [i \in Instances |-> [t \in Topics |-> {}]]
    /\ faults = 0

-----------------------------------------------------------------------------
(* The ingester as the matcher sees it.                                    *)
Environment ==
    /\ IngestNext
    /\ UNCHANGED <<arrivals, links, committed, owner, position, up, engineVars,
                   consumerVars, faults>>

-----------------------------------------------------------------------------
(* Processes and the consumer group.                                       *)

Fault ==
    /\ faults < MaxFaults
    /\ faults' = faults + 1

(* Run: load the stops, ping the database, spawn the consumers.            *)
Start(i) ==
    /\ ~up[i]
    /\ up' = [up EXCEPT ![i] = TRUE]
    /\ \E s \in StartupStops : stops' = [stops EXCEPT ![i] = s]
    /\ UNCHANGED <<dbVars, busVars, predictions, emitted, consumerVars,
                   faults>>

(* The process is gone, and with it all it kept in memory.                 *)
Stop(i) ==
    /\ up[i]
    /\ up' = [up EXCEPT ![i] = FALSE]
    /\ stops' = [stops EXCEPT ![i] = {}]
    /\ predictions' = [predictions EXCEPT ![i] = {}]
    /\ emitted' = [emitted EXCEPT ![i] = {}]
    /\ pc' = [pc EXCEPT ![i] = [t \in Topics |-> "idle"]]
    /\ at' = [at EXCEPT ![i] = [t \in Topics |-> 0]]
    /\ pending' = [pending EXCEPT ![i] = [t \in Topics |-> {}]]
    /\ owner' = [t \in Topics |-> IF owner[t] = i THEN NoOwner ELSE owner[t]]
    /\ UNCHANGED <<dbVars, log, committed, position>>

Crash(i) == Fault /\ Stop(i)

(* Run returns the first consumer error; main then ends the process.       *)
RunReturns(i) ==
    /\ \E t \in Topics : pc[i][t] = "exited"
    /\ Stop(i)
    /\ UNCHANGED faults

(* The group assigns a topic; the reader resumes at the committed offset.  *)
AssignTo(t, i) ==
    /\ up[i]
    /\ owner' = [owner EXCEPT ![t] = i]
    /\ position' = [position EXCEPT ![t] = committed[t]]
    /\ UNCHANGED <<dbVars, log, committed, up, engineVars, consumerVars>>

Assign(t, i) ==
    /\ owner[t] = NoOwner
    /\ AssignTo(t, i)
    /\ UNCHANGED faults

Rebalance(t, i) ==
    /\ owner[t] \notin {NoOwner, i}
    /\ Fault
    /\ AssignTo(t, i)

-----------------------------------------------------------------------------
(* Service.consume, one action per call it makes.                          *)

Message(i, t) == log[t][at[i][t]]

(* Mutant: the error is logged and the loop goes on.                       *)
ConsumerErrorIgnored(i, t) ==
    /\ pc' = [pc EXCEPT ![i][t] = "idle"]
    /\ at' = [at EXCEPT ![i][t] = 0]
    /\ pending' = [pending EXCEPT ![i][t] = {}]

(* consume returns.                                                        *)
ConsumerError(i, t) ==
    /\ pc' = [pc EXCEPT ![i][t] = "exited"]
    /\ at' = [at EXCEPT ![i][t] = 0]
    /\ pending' = [pending EXCEPT ![i][t] = {}]

MessageDone(i, t) ==
    /\ pc' = [pc EXCEPT ![i][t] = "idle"]
    /\ at' = [at EXCEPT ![i][t] = 0]
    /\ UNCHANGED pending

Unread(t) == position[t] < Len(log[t])

Fetch(i, t) ==
    /\ up[i]
    /\ pc[i][t] = "idle"
    /\ owner[t] = i
    /\ Unread(t)
    /\ position' = [position EXCEPT ![t] = @ + 1]
    /\ pc' = [pc EXCEPT ![i][t] = "fetched"]
    /\ at' = [at EXCEPT ![i][t] = position[t] + 1]
    /\ UNCHANGED <<dbVars, log, committed, owner, up, engineVars, pending,
                   faults>>

FetchFails(i, t) ==
    /\ up[i]
    /\ pc[i][t] = "idle"
    /\ Fault
    /\ ConsumerError(i, t)
    /\ UNCHANGED <<dbVars, busVars, up, engineVars>>

(* Engine.emit: what was emitted by this process is not emitted again.     *)
Emit(i, t, as) ==
    LET fresh == {a \in as : ArrivalKey(a) \notin emitted[i]}
    IN  /\ emitted' = [emitted EXCEPT ![i] = @ \cup KeysOf(fresh)]
        /\ pending' = [pending EXCEPT ![i][t] = fresh]

(* Engine.handlePrediction: remember the prediction; if it is due, the     *)
(* vehicle has passed.                                                     *)
HandlePrediction(i, t) ==
    LET p == Message(i, t)
    IN  /\ p.kind = Prediction
        /\ predictions' = [predictions EXCEPT ![i] = @ \cup {PredictionKey(p)}]
        /\ Emit(i, t, IF Due(p) THEN {LastUpdateArrival(p)} ELSE {})

(* Mutant: the distance is not compared with the radius.                   *)
InGeofenceAnywhere(i, v) == stops[i]

(* The known stops within the radius of the vehicle.                       *)
InGeofence(i, v) == stops[i] \cap v.near

(* Engine.handleVehicle: every remembered prediction of the trip, whatever *)
(* its date, whose stop is known and near.                                 *)
HandleVehicle(i, t) ==
    LET v == Message(i, t)
    IN  /\ v.kind = VehiclePosition
        /\ Emit(i, t, {GeofenceArrival(k, v) :
                          k \in {q \in predictions[i] :
                                    /\ q.trip = v.trip
                                    /\ q.stop \in InGeofence(i, v)}})
        /\ UNCHANGED predictions

(* Engine.HandleEvent runs under the engine's mutex: one step.             *)
HandleEvent(i, t) ==
    /\ up[i]
    /\ pc[i][t] = "fetched"
    /\ HandlePrediction(i, t) \/ HandleVehicle(i, t)
    /\ pc' = [pc EXCEPT ![i][t] = "storing"]
    /\ UNCHANGED <<dbVars, busVars, up, stops, at, faults>>

(* Mutant: a message Decode refuses ends the consumer.                     *)
RejectUndecodable(i, t) ==
    /\ up[i]
    /\ pc[i][t] = "fetched"
    /\ Message(i, t).kind = Undecodable.kind
    /\ ConsumerError(i, t)
    /\ UNCHANGED <<dbVars, busVars, up, engineVars, faults>>

(* A message Decode refuses is committed so as not to block the partition. *)
SkipUndecodable(i, t) ==
    /\ up[i]
    /\ pc[i][t] = "fetched"
    /\ Message(i, t).kind = Undecodable.kind
    /\ committed' = [committed EXCEPT ![t] = at[i][t]]
    /\ MessageDone(i, t)
    /\ UNCHANGED <<dbVars, log, owner, position, up, engineVars, faults>>

(* InsertArrival's transaction.  ON CONFLICT names the logical key only:   *)
(* the table's other unique constraint, (trip, date, stop, observed_at),   *)
(* still raises an error.                                                  *)
SameInstant(a, b) ==
    /\ a.trip = b.trip /\ a.date = b.date /\ a.stop = b.stop
    /\ a.observedAt = b.observedAt

(* Mutant: no logical key in ON CONFLICT nor in the schema.                *)
InsertableAnyKey(a) == \A b \in arrivals : ~SameInstant(a, b)

Insertable(a) ==
    /\ ArrivalKey(a) \notin KeysOf(arrivals)
    /\ \A b \in arrivals : ~SameInstant(a, b)

(* Mutant: the errors are left to a transaction that never comes.          *)
StoreArrivalOnly(a) ==
    /\ arrivals' = arrivals \cup {a}
    /\ UNCHANGED links

StoreArrival(a) ==
    /\ arrivals' = arrivals \cup {a}
    /\ links' = links \cup
          {<<p, ArrivalKey(a)>> : p \in {q \in rows : Joins(q, a)}}

InsertArrival(i, t) ==
    /\ up[i]
    /\ pc[i][t] = "storing"
    /\ \E a \in pending[i][t] :
          /\ \/ Insertable(a) /\ StoreArrival(a)
             \/ ArrivalKey(a) \in KeysOf(arrivals) /\ UNCHANGED <<arrivals, links>>
          /\ pending' = [pending EXCEPT ![i][t] = @ \ {a}]
    /\ UNCHANGED <<rows, busVars, up, engineVars, pc, at, faults>>

(* The database refuses the second arrival of one instant.                 *)
UniqueViolation(i, t) ==
    /\ up[i]
    /\ pc[i][t] = "storing"
    /\ \E a \in pending[i][t] :
          /\ ArrivalKey(a) \notin KeysOf(arrivals)
          /\ \E b \in arrivals : SameInstant(a, b)
    /\ ConsumerError(i, t)
    /\ UNCHANGED <<dbVars, busVars, up, engineVars, faults>>

(* InsertArrival fails; its transaction may still have been committed.     *)
InsertFails(i, t) ==
    /\ up[i]
    /\ pc[i][t] = "storing"
    /\ Fault
    /\ \/ pending[i][t] # {} /\ UNCHANGED <<arrivals, links>>
       \/ \E a \in pending[i][t] : Insertable(a) /\ StoreArrival(a)
    /\ ConsumerError(i, t)
    /\ UNCHANGED <<rows, busVars, up, engineVars>>

(* CommitMessages: the group's offset becomes this message's, whoever owns *)
(* the topic by now.                                                       *)
Commit(i, t) ==
    /\ up[i]
    /\ pc[i][t] = "storing"
    /\ pending[i][t] = {}
    /\ committed' = [committed EXCEPT ![t] = at[i][t]]
    /\ MessageDone(i, t)
    /\ UNCHANGED <<dbVars, log, owner, position, up, engineVars, faults>>

(* A failed commit ends the consumer; the broker may have applied it.      *)
CommitFails(i, t) ==
    /\ up[i]
    /\ \/ pc[i][t] = "storing" /\ pending[i][t] = {}
       \/ pc[i][t] = "fetched" /\ Message(i, t).kind = Undecodable.kind
    /\ Fault
    /\ \/ UNCHANGED committed
       \/ committed' = [committed EXCEPT ![t] = at[i][t]]
    /\ ConsumerError(i, t)
    /\ UNCHANGED <<dbVars, log, owner, position, up, engineVars>>

-----------------------------------------------------------------------------
Consume(i, t) ==
    \/ Fetch(i, t) \/ HandleEvent(i, t) \/ SkipUndecodable(i, t)
    \/ InsertArrival(i, t) \/ UniqueViolation(i, t) \/ Commit(i, t)

ConsumeFails(i, t) ==
    FetchFails(i, t) \/ InsertFails(i, t) \/ CommitFails(i, t)

Process(i) == Start(i) \/ RunReturns(i) \/ Crash(i)

Next ==
    \/ Environment
    \/ \E i \in Instances : Process(i)
    \/ \E i \in Instances, t \in Topics :
          Assign(t, i) \/ Rebalance(t, i) \/ Consume(i, t) \/ ConsumeFails(i, t)

Spec == Init /\ [][Next]_vars

(* Goroutines are scheduled, the orchestrator restarts a process that      *)
(* ended, the group assigns a free topic to a running member.  Nothing     *)
(* obliges the feeds to publish, nor a fault to happen.                    *)
Fairness ==
    /\ \A i \in Instances :
          /\ WF_vars(Start(i))
          /\ WF_vars(RunReturns(i))
          /\ \A t \in Topics : WF_vars(Consume(i, t))
    /\ \A t \in Topics : WF_vars(\E i \in Instances : Assign(t, i))

FairSpec == Spec /\ Fairness

-----------------------------------------------------------------------------
(* The consumer of t in i has a message in hand.                           *)
Working(i, t) == pc[i][t] \in {"fetched", "storing"}

(* Every variable keeps its type; offsets never pass the end of their log. *)
TypeOK ==
    /\ rows \subseteq Feed \cap PredictionEvent
    /\ arrivals \subseteq Arrivals
    /\ links \subseteq rows \X ArrivalKeys
    /\ log \in [Topics -> Seq(Feed \cup {Undecodable})]
    /\ committed \in [Topics -> Nat]
    /\ position \in [Topics -> Nat]
    /\ owner \in [Topics -> Instances \cup {NoOwner}]
    /\ up \in [Instances -> BOOLEAN]
    /\ stops \in [Instances -> SUBSET Stops]
    /\ predictions \in [Instances -> SUBSET PredictionKeys]
    /\ emitted \in [Instances -> SUBSET ArrivalKeys]
    /\ pc \in [Instances -> [Topics -> {"idle", "fetched", "storing", "exited"}]]
    /\ at \in [Instances -> [Topics -> Nat]]
    /\ pending \in [Instances -> [Topics -> SUBSET Arrivals]]
    /\ faults \in 0 .. MaxFaults
    /\ \A t \in Topics : committed[t] <= Len(log[t]) /\ position[t] <= Len(log[t])
    /\ \A i \in Instances, t \in Topics :
          Working(i, t) => at[i][t] \in 1 .. Len(log[t])

(* At most one arrival is stored per trip, service date, stop and method,  *)
(* whatever is redelivered, restarted or consumed twice (InsertArrival).   *)
StoredOnce ==
    \A a, b \in arrivals : ArrivalKey(a) = ArrivalKey(b) => a = b

DuePrediction(m) == m.kind = Prediction /\ Due(m)

Settled(m) ==
    DuePrediction(m) => ArrivalKey(LastUpdateArrival(m)) \in KeysOf(arrivals)

(* The group never commits past a due prediction whose arrival is not      *)
(* stored: no crash, failed insert, lost acknowledgement or rebalance      *)
(* loses a last_update arrival (Service.consume commits after storing).    *)
CommittedSettled ==
    \A n \in 1 .. committed[TripUpdates] : Settled(log[TripUpdates][n])

(* The consumer to which the engine returns the arrivals of a method.      *)
ConsumerOf(method) ==
    IF method = LastUpdate THEN TripUpdates ELSE VehiclePositions

(* What an engine remembers as emitted, and will never emit again, is      *)
(* stored, or about to be by the consumer it was returned to, or that      *)
(* consumer has failed and the process is ending (Engine.emit marks the    *)
(* arrival before anyone stores it).                                       *)
EmittedAccounted ==
    \A i \in Instances : \A k \in emitted[i] :
        LET t == ConsumerOf(k.method)
        IN  \/ k \in KeysOf(arrivals)
            \/ k \in KeysOf(pending[i][t])
            \/ pc[i][t] = "exited"

Published(t) == {log[t][n] : n \in 1 .. Len(log[t])}

(* No arrival is invented: a last_update arrival is that of a persisted    *)
(* due prediction, a geofence arrival that of a published position near    *)
(* the stop of a persisted prediction of its trip and date.                *)
ArrivalsGrounded ==
    \A a \in arrivals :
        \/ \E p \in rows : Due(p) /\ a = LastUpdateArrival(p)
        \/ \E p \in rows, v \in Published(VehiclePositions) :
              /\ v.kind = VehiclePosition /\ v.trip = p.trip
              /\ p.stop \in v.near
              /\ a = GeofenceArrival(PredictionKey(p), v)

JoinedToTrigger(a) ==
    a.method = LastUpdate =>
        \E p \in rows : /\ Due(p) /\ a = LastUpdateArrival(p)
                        /\ <<p, ArrivalKey(a)>> \in links

(* Where the UTC day and the Toronto day of the prediction agree, a        *)
(* last_update arrival is joined to the prediction it comes from: rows are *)
(* committed before their message is published.                            *)
TriggerJoined ==
    \A a \in arrivals :
        (\A p \in rows : a = LastUpdateArrival(p) =>
                             LocalDate(p.predictedAt) = ServiceDate(p.predictedAt))
        => JoinedToTrigger(a)

(* The promise of docs/resultats.md, for every hour of the day.            *)
AlwaysJoined == \A a \in arrivals : JoinedToTrigger(a)

(* Why CommittedSettled holds.  A message is published to the topic of its *)
(* kind and its arrivals are in the hands of one consumer ...              *)
TopicsTyped ==
    \A t \in Topics : \A n \in 1 .. Len(log[t]) :
        log[t][n] = Undecodable \/ (log[t][n] \in Feed /\ TopicFor(log[t][n]) = t)

PendingHeld ==
    \A i \in Instances, t \in Topics :
        /\ pc[i][t] # "storing" => pending[i][t] = {}
        /\ \A a \in pending[i][t] : ConsumerOf(a.method) = t

(* ... all that precedes the message in hand is settled, as is that        *)
(* message once its arrivals are stored ...                                *)
SettledBefore ==
    \A i \in Instances : Working(i, TripUpdates) =>
        \A n \in 1 .. at[i][TripUpdates] - 1 : Settled(log[TripUpdates][n])

SettledOnceStored ==
    \A i \in Instances : pc[i][TripUpdates] = "storing" =>
        LET m == Message(i, TripUpdates)
        IN  DuePrediction(m) =>
                ArrivalKey(LastUpdateArrival(m)) \in
                    KeysOf(arrivals) \cup KeysOf(pending[i][TripUpdates])

(* ... and so is all that the owner of the topic will not fetch again.     *)
SettledBehind ==
    \A i \in Instances :
        owner[TripUpdates] = i /\ pc[i][TripUpdates] # "exited" =>
            \A n \in 1 .. position[TripUpdates] :
                \/ Settled(log[TripUpdates][n])
                \/ Working(i, TripUpdates) /\ at[i][TripUpdates] = n

(* The inductive invariant of CommittedSettled and EmittedAccounted.       *)
DeliveryInv ==
    /\ TypeOK /\ TopicsTyped /\ PendingHeld
    /\ EmittedAccounted /\ CommittedSettled
    /\ SettledBefore /\ SettledOnceStored /\ SettledBehind

(* The database changes only as the abstract arrival log allows.           *)
AbstractLog == INSTANCE ArrivalLog
ImplementsArrivalLog == AbstractLog!LogSpec

(* A due prediction, once published, eventually has its arrival stored.    *)
DueEventuallyObserved ==
    \A p \in Feed : DuePrediction(p) =>
        (p \in Published(TripUpdates)
            ~> ArrivalKey(LastUpdateArrival(p)) \in KeysOf(arrivals))

(* No message blocks its partition: the group eventually commits it.       *)
EveryMessageCommitted ==
    \A t \in Topics : \A n \in 1 .. MaxLog :
        Len(log[t]) >= n ~> committed[t] >= n

(* With both topics consumed, a position recorded near the stop of an      *)
(* earlier prediction has given its geofence arrival, however the two      *)
(* consumers were scheduled.                                               *)
Drained ==
    \A t \in Topics : committed[t] = Len(log[t])

GeofenceDeterministic ==
    Drained =>
        \A p \in Published(TripUpdates), v \in Published(VehiclePositions) :
            /\ p.kind = Prediction /\ v.kind = VehiclePosition
            /\ p.trip = v.trip /\ p.stop \in v.near
            /\ p.recordedAt <= v.recordedAt
            => ArrivalKey(GeofenceArrival(PredictionKey(p), v)) \in KeysOf(arrivals)
=============================================================================
