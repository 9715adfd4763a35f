--------------------------- MODULE MatcherProofs ---------------------------
(***************************************************************************)
(* Proofs about Matcher, for every set of instances, trips, stops, times   *)
(* and events and every value of the bounds.                               *)
(***************************************************************************)
EXTENDS Matcher, TLAPS

-----------------------------------------------------------------------------
(* The data.                                                               *)

(* A message of a log is an event of one kind, or is refused by Decode.    *)
LEMMA MessageKinds ==
    ASSUME NEW m \in Feed \cup {Undecodable}
    PROVE  \/ m \in PredictionEvent /\ m.kind = Prediction /\ m \in Feed
           \/ m \in VehicleEvent /\ m.kind = VehiclePosition /\ m \in Feed
           \/ m = Undecodable /\ m.kind = "undecodable"
BY FeedAssumption DEF PredictionEvent, VehicleEvent, Undecodable, Prediction,
                      VehiclePosition

LEMMA KeyTyped ==
    ASSUME NEW a \in Arrivals
    PROVE  ArrivalKey(a) \in ArrivalKeys
BY DEF Arrivals, ArrivalKeys, ArrivalKey

LEMMA KeysTyped ==
    ASSUME NEW as \in SUBSET Arrivals
    PROVE  KeysOf(as) \subseteq ArrivalKeys
BY KeyTyped DEF KeysOf

(* The engine emits well-formed arrivals, to the consumer of their method. *)
LEMMA LastUpdateTyped ==
    ASSUME NEW p \in PredictionEvent
    PROVE  /\ PredictionKey(p) \in PredictionKeys
           /\ LastUpdateArrival(p) \in Arrivals
           /\ LastUpdateArrival(p).method = LastUpdate
<1>1. ServiceDate(p.predictedAt) \in Dates
  BY DEF PredictionEvent, Dates
<1> QED
  BY <1>1 DEF PredictionEvent, PredictionKey, PredictionKeys,
              LastUpdateArrival, Arrivals

LEMMA GeofenceTyped ==
    ASSUME NEW k \in PredictionKeys, NEW v \in VehicleEvent
    PROVE  /\ GeofenceArrival(k, v) \in Arrivals
           /\ GeofenceArrival(k, v).method = Geofence
BY DEF PredictionKeys, VehicleEvent, GeofenceArrival, Arrivals

LEMMA KeysUnion ==
    ASSUME NEW as, NEW bs
    PROVE  KeysOf(as \cup bs) = KeysOf(as) \cup KeysOf(bs)
BY DEF KeysOf

-----------------------------------------------------------------------------
(* Type correctness.                                                       *)

LEMMA TypeInit == Init => TypeOK
BY MatcherAssumption DEF Init, IngestInit, TypeOK, Working

LEMMA TypeEnvironment == TypeOK /\ Environment => TypeOK'
<1> SUFFICES ASSUME TypeOK, Environment
             PROVE  TypeOK'
  OBVIOUS
<1>1. CASE PersistPredictions
  BY <1>1 DEF TypeOK, Environment, PersistPredictions, Working, engineVars,
              consumerVars
<1>2. ASSUME NEW t \in Topics, NEW m \in Feed \cup {Undecodable}, AppendTo(t, m)
      PROVE  TypeOK'
  <2>1. log' \in [Topics -> Seq(Feed \cup {Undecodable})]
    BY <1>2 DEF TypeOK, AppendTo
  <2>2. \A u \in Topics : Len(log'[u]) \in Nat /\ Len(log'[u]) >= Len(log[u])
    BY <1>2 DEF TypeOK, AppendTo
  <2> QED
    BY <1>2, <2>1, <2>2 DEF TypeOK, Environment, AppendTo, Working, engineVars,
                         consumerVars
<1> QED
  BY <1>1, <1>2, MessageKinds
     DEF Environment, IngestNext, Publish, PublishUndecodable, TopicFor, Topics

LEMMA TypeStop == ASSUME NEW i \in Instances, TypeOK, Stop(i), faults' \in 0 .. MaxFaults
                  PROVE  TypeOK'
BY DEF TypeOK, Stop, Working, dbVars

LEMMA FaultBounded == TypeOK /\ Fault => faults' \in 0 .. MaxFaults
BY MatcherAssumption DEF TypeOK, Fault

LEMMA TypeProcess ==
    ASSUME NEW i \in Instances, TypeOK, Process(i)
    PROVE  TypeOK'
<1>1. CASE Start(i)
  BY <1>1, MatcherAssumption
     DEF TypeOK, Start, Working, dbVars, busVars, consumerVars
<1>2. CASE RunReturns(i)
  BY <1>2, TypeStop DEF RunReturns, TypeOK
<1>3. CASE Crash(i)
  BY <1>3, TypeStop, FaultBounded DEF Crash
<1> QED
  BY <1>1, <1>2, <1>3 DEF Process

LEMMA TypeGroup ==
    ASSUME NEW i \in Instances, NEW t \in Topics, TypeOK,
           Assign(t, i) \/ Rebalance(t, i)
    PROVE  TypeOK'
<1>1. AssignTo(t, i) /\ faults' \in 0 .. MaxFaults
  BY FaultBounded DEF Assign, Rebalance, TypeOK
<1> QED
  BY <1>1 DEF TypeOK, AssignTo, Working, dbVars, engineVars, consumerVars

-----------------------------------------------------------------------------
(* The consumer.                                                           *)

(* The message in hand is in the log.                                      *)
LEMMA MessageInLog ==
    ASSUME NEW i \in Instances, NEW t \in Topics, TypeOK, Working(i, t)
    PROVE  /\ at[i][t] \in 1 .. Len(log[t])
           /\ Message(i, t) \in Feed \cup {Undecodable}
BY DEF TypeOK, Message

(* Whatever is emitted is kept as pending and remembered, in its type.     *)
LEMMA TypeEmit ==
    ASSUME NEW i \in Instances, NEW t \in Topics, TypeOK,
           NEW as \in SUBSET Arrivals, Emit(i, t, as)
    PROVE  /\ emitted' \in [Instances -> SUBSET ArrivalKeys]
           /\ pending' \in [Instances -> [Topics -> SUBSET Arrivals]]
<1> DEFINE fresh == {a \in as : ArrivalKey(a) \notin emitted[i]}
<1>1. fresh \in SUBSET Arrivals /\ KeysOf(fresh) \subseteq ArrivalKeys
  BY KeysTyped
<1>2. emitted' = [emitted EXCEPT ![i] = @ \cup KeysOf(fresh)]
      /\ pending' = [pending EXCEPT ![i][t] = fresh]
  BY DEF Emit
<1> HIDE DEF fresh
<1> QED
  BY <1>1, <1>2 DEF TypeOK

LEMMA TypeHandleEvent ==
    ASSUME NEW i \in Instances, NEW t \in Topics, TypeOK, HandleEvent(i, t)
    PROVE  TypeOK'
<1> DEFINE m == Message(i, t)
<1>1. Working(i, t) /\ pc[i][t] = "fetched"
  BY DEF HandleEvent, Working
<1>2. m \in Feed \cup {Undecodable}
  BY <1>1, MessageInLog
<1>3. /\ predictions' \in [Instances -> SUBSET PredictionKeys]
      /\ emitted' \in [Instances -> SUBSET ArrivalKeys]
      /\ pending' \in [Instances -> [Topics -> SUBSET Arrivals]]
  <2>1. CASE HandlePrediction(i, t)
    <3>1. m \in PredictionEvent
      BY <1>2, <2>1, MessageKinds
         DEF HandlePrediction, Prediction, VehiclePosition
    <3>2. (IF Due(m) THEN {LastUpdateArrival(m)} ELSE {}) \in SUBSET Arrivals
      BY <3>1, LastUpdateTyped
    <3>3. PredictionKey(m) \in PredictionKeys
      BY <3>1, LastUpdateTyped
    <3> QED
      BY <2>1, <3>2, <3>3, TypeEmit DEF HandlePrediction, TypeOK
  <2>2. CASE HandleVehicle(i, t)
    <3> DEFINE as == {GeofenceArrival(k, m) :
                        k \in {q \in predictions[i] :
                                  /\ q.trip = m.trip
                                  /\ q.stop \in InGeofence(i, m)}}
    <3>1. m \in VehicleEvent
      BY <1>2, <2>2, MessageKinds DEF HandleVehicle, Prediction, VehiclePosition
    <3>2. as \in SUBSET Arrivals
      BY <3>1, GeofenceTyped DEF TypeOK
    <3>3. Emit(i, t, as) /\ UNCHANGED predictions
      BY <2>2 DEF HandleVehicle
    <3> HIDE DEF as
    <3> QED
      BY <3>2, <3>3, TypeEmit DEF TypeOK
  <2> QED
    BY <2>1, <2>2 DEF HandleEvent
<1> QED
  BY <1>1, <1>3 DEF HandleEvent, TypeOK, Working, dbVars, busVars

LEMMA TypeStore ==
    ASSUME TypeOK, NEW a \in Arrivals, StoreArrival(a), UNCHANGED rows
    PROVE  /\ arrivals' \subseteq Arrivals
           /\ links' \subseteq rows' \X ArrivalKeys
<1>1. ArrivalKey(a) \in ArrivalKeys
  BY KeyTyped
<1> QED
  BY <1>1 DEF TypeOK, StoreArrival

LEMMA TypeConsumerError ==
    ASSUME NEW i \in Instances, NEW t \in Topics, TypeOK, ConsumerError(i, t)
    PROVE  /\ pc' \in [Instances ->
                         [Topics -> {"idle", "fetched", "storing", "exited"}]]
           /\ at' \in [Instances -> [Topics -> Nat]]
           /\ pending' \in [Instances -> [Topics -> SUBSET Arrivals]]
           /\ \A j \in Instances, u \in Topics :
                 Working(j, u)' => Working(j, u) /\ at'[j][u] = at[j][u]
BY DEF TypeOK, ConsumerError, Working

LEMMA TypeConsume ==
    ASSUME NEW i \in Instances, NEW t \in Topics, TypeOK, Consume(i, t)
    PROVE  TypeOK'
<1>1. CASE Fetch(i, t)
  BY <1>1 DEF TypeOK, Fetch, Unread, Working, dbVars, engineVars
<1>2. CASE HandleEvent(i, t)
  BY <1>2, TypeHandleEvent
<1>3. CASE SkipUndecodable(i, t)
  <2>1. at[i][t] \in 1 .. Len(log[t])
    BY <1>3, MessageInLog DEF SkipUndecodable, Working
  <2> QED
    BY <1>3, <2>1
       DEF TypeOK, SkipUndecodable, MessageDone, Working, dbVars, engineVars
<1>4. CASE InsertArrival(i, t)
  <2>1. arrivals' \subseteq Arrivals /\ links' \subseteq rows' \X ArrivalKeys
    BY <1>4, TypeStore DEF InsertArrival, TypeOK
  <2> QED
    BY <1>4, <2>1 DEF TypeOK, InsertArrival, Working, busVars, engineVars
<1>5. CASE UniqueViolation(i, t)
  BY <1>5, TypeConsumerError
     DEF TypeOK, UniqueViolation, dbVars, busVars, engineVars
<1>6. CASE Commit(i, t)
  <2>1. at[i][t] \in 1 .. Len(log[t])
    BY <1>6, MessageInLog DEF Commit, Working
  <2> QED
    BY <1>6, <2>1
       DEF TypeOK, Commit, MessageDone, Working, dbVars, engineVars
<1> QED
  BY <1>1, <1>2, <1>3, <1>4, <1>5, <1>6 DEF Consume

LEMMA TypeConsumeFails ==
    ASSUME NEW i \in Instances, NEW t \in Topics, TypeOK, ConsumeFails(i, t)
    PROVE  TypeOK'
<1>0. faults' \in 0 .. MaxFaults /\ ConsumerError(i, t)
  BY FaultBounded DEF ConsumeFails, FetchFails, InsertFails, CommitFails
<1>1. CASE FetchFails(i, t)
  BY <1>0, <1>1, TypeConsumerError
     DEF TypeOK, FetchFails, dbVars, busVars, engineVars
<1>2. CASE InsertFails(i, t)
  <2>1. arrivals' \subseteq Arrivals /\ links' \subseteq rows' \X ArrivalKeys
    BY <1>2, TypeStore DEF InsertFails, TypeOK
  <2> QED
    BY <1>0, <1>2, <2>1, TypeConsumerError
       DEF TypeOK, InsertFails, busVars, engineVars
<1>3. CASE CommitFails(i, t)
  <2>1. at[i][t] \in 1 .. Len(log[t])
    BY <1>3, MessageInLog DEF CommitFails, Working
  <2>2. committed' \in [Topics -> Nat] /\ \A u \in Topics : committed'[u] <= Len(log[u])
    <3>1. CASE UNCHANGED committed
      BY <3>1 DEF TypeOK
    <3>2. CASE committed' = [committed EXCEPT ![t] = at[i][t]]
      BY <2>1, <3>2 DEF TypeOK
    <3> QED
      BY <1>3, <3>1, <3>2 DEF CommitFails
  <2>3. \A j \in Instances, u \in Topics :
           Working(j, u)' => at'[j][u] \in 1 .. Len(log'[u])
    BY <1>0, <1>3, TypeConsumerError DEF TypeOK, CommitFails
  <2>4. UNCHANGED <<dbVars, log, owner, position, up, engineVars>>
    BY <1>3 DEF CommitFails
  <2> QED
    BY <1>0, <2>2, <2>3, <2>4, TypeConsumerError DEF TypeOK, dbVars, engineVars
<1> QED
  BY <1>1, <1>2, <1>3 DEF ConsumeFails

LEMMA TypeNext == TypeOK /\ [Next]_vars => TypeOK'
<1>1. ASSUME TypeOK, Next PROVE TypeOK'
  BY <1>1, TypeEnvironment, TypeProcess, TypeGroup, TypeConsume,
     TypeConsumeFails DEF Next
<1>2. ASSUME TypeOK, UNCHANGED vars PROVE TypeOK'
  BY <1>2 DEF TypeOK, Working, vars, dbVars, busVars, engineVars, consumerVars
<1> QED
  BY <1>1, <1>2

(* Every variable of the matcher keeps its type and no offset passes the   *)
(* end of its log.                                                         *)
THEOREM TypeCorrect == Spec => []TypeOK
BY TypeInit, TypeNext, PTL DEF Spec

-----------------------------------------------------------------------------
(* The database.  A step leaves it alone, commits a batch of predictions,  *)
(* or stores one arrival under a key that was free.                        *)
LEMMA DatabaseStep ==
    ASSUME TypeOK, [Next]_vars
    PROVE  \/ UNCHANGED <<rows, arrivals, links>>
           \/ /\ \E ps \in SUBSET (Feed \cap PredictionEvent) : rows' = rows \cup ps
              /\ UNCHANGED <<arrivals, links>>
           \/ /\ \E a \in Arrivals : Insertable(a) /\ StoreArrival(a)
              /\ UNCHANGED rows
<1>1. CASE Environment
  BY <1>1 DEF Environment, IngestNext, PersistPredictions, Publish,
              PublishUndecodable, AppendTo
<1>2. ASSUME NEW i \in Instances, Process(i)
      PROVE  UNCHANGED <<rows, arrivals, links>>
  BY <1>2 DEF Process, Start, RunReturns, Crash, Stop, dbVars
<1>3. ASSUME NEW i \in Instances, NEW t \in Topics, Assign(t, i) \/ Rebalance(t, i)
      PROVE  UNCHANGED <<rows, arrivals, links>>
  BY <1>3 DEF Assign, Rebalance, AssignTo, dbVars
<1>4. ASSUME NEW i \in Instances, NEW t \in Topics, Consume(i, t)
      PROVE  \/ UNCHANGED <<rows, arrivals, links>>
             \/ /\ \E a \in Arrivals : Insertable(a) /\ StoreArrival(a)
                /\ UNCHANGED rows
  <2>1. CASE InsertArrival(i, t)
    BY <2>1 DEF InsertArrival, TypeOK
  <2>2. CASE ~InsertArrival(i, t)
    BY <1>4, <2>2 DEF Consume, Fetch, HandleEvent, SkipUndecodable,
                      UniqueViolation, Commit, dbVars
  <2> QED
    BY <2>1, <2>2
<1>5. ASSUME NEW i \in Instances, NEW t \in Topics, ConsumeFails(i, t)
      PROVE  \/ UNCHANGED <<rows, arrivals, links>>
             \/ /\ \E a \in Arrivals : Insertable(a) /\ StoreArrival(a)
                /\ UNCHANGED rows
  <2>1. CASE InsertFails(i, t)
    BY <2>1 DEF InsertFails, TypeOK
  <2>2. CASE ~InsertFails(i, t)
    BY <1>5, <2>2 DEF ConsumeFails, FetchFails, CommitFails, dbVars
  <2> QED
    BY <2>1, <2>2
<1>6. CASE UNCHANGED vars
  BY <1>6 DEF vars, dbVars
<1> QED
  BY <1>1, <1>2, <1>3, <1>4, <1>5, <1>6 DEF Next

(* InsertArrival's transaction keeps the logical key unique.               *)
LEMMA StoredOnceStep == TypeOK /\ StoredOnce /\ [Next]_vars => StoredOnce'
<1> SUFFICES ASSUME TypeOK, StoredOnce, [Next]_vars
             PROVE  StoredOnce'
  OBVIOUS
<1>1. ASSUME NEW a \in Arrivals, Insertable(a), StoreArrival(a)
      PROVE  StoredOnce'
  BY <1>1 DEF StoredOnce, Insertable, StoreArrival, KeysOf
<1>2. ASSUME UNCHANGED arrivals
      PROVE  StoredOnce'
  BY <1>2 DEF StoredOnce
<1> QED
  BY <1>1, <1>2, DatabaseStep

(* At most one arrival is stored per trip, service date, stop and method,  *)
(* for any number of processes, redeliveries, crashes and rebalances.      *)
THEOREM AtMostOnce == Spec => []StoredOnce
<1>1. Init => StoredOnce
  BY DEF Init, StoredOnce
<1> QED
  BY <1>1, TypeInit, TypeNext, StoredOnceStep, PTL DEF Spec

-----------------------------------------------------------------------------
(* Refinement of the abstract arrival log.                                 *)

LEMMA SameData ==
    /\ AbstractLog!PredictionEvent = PredictionEvent
    /\ AbstractLog!Arrivals = Arrivals
    /\ \A a : AbstractLog!ArrivalKey(a) = ArrivalKey(a)
    /\ \A as : AbstractLog!KeysOf(as) = KeysOf(as)
    /\ \A p, a : AbstractLog!Joins(p, a) = Joins(p, a)
BY DEF AbstractLog!PredictionEvent, PredictionEvent, AbstractLog!Prediction,
       Prediction, AbstractLog!Arrivals, Arrivals, AbstractLog!Dates, Dates,
       AbstractLog!ServiceDate, ServiceDate, AbstractLog!LastUpdate, LastUpdate,
       AbstractLog!Geofence, Geofence, AbstractLog!ArrivalKey, ArrivalKey,
       AbstractLog!KeysOf, KeysOf, AbstractLog!Joins, Joins,
       AbstractLog!LocalDate, LocalDate

LEMMA LogStep == TypeOK /\ [Next]_vars => [AbstractLog!LogNext]_(AbstractLog!logVars)
<1> SUFFICES ASSUME TypeOK, [Next]_vars
             PROVE  [AbstractLog!LogNext]_(AbstractLog!logVars)
  OBVIOUS
<1>1. CASE UNCHANGED <<rows, arrivals, links>>
  BY <1>1 DEF AbstractLog!logVars
<1>2. CASE /\ \E ps \in SUBSET (Feed \cap PredictionEvent) : rows' = rows \cup ps
           /\ UNCHANGED <<arrivals, links>>
  BY <1>2, SameData DEF AbstractLog!LogNext, AbstractLog!PersistBatch
<1>3. ASSUME NEW a \in Arrivals, Insertable(a), StoreArrival(a), UNCHANGED rows
      PROVE  AbstractLog!LogNext
  <2>1. ArrivalKey(a) \notin KeysOf(arrivals)
    BY <1>3 DEF Insertable
  <2>2. {q \in rows : Joins(q, a)} = {q \in rows : AbstractLog!Joins(q, a)}
    BY SameData
  <2>3. {<<p, ArrivalKey(a)>> : p \in {q \in rows : Joins(q, a)}}
          = {<<p, AbstractLog!ArrivalKey(a)>> :
                p \in {q \in rows : AbstractLog!Joins(q, a)}}
    BY <2>2, SameData
  <2>4. links' = links \cup {<<p, AbstractLog!ArrivalKey(a)>> :
                               p \in {q \in rows : AbstractLog!Joins(q, a)}}
    BY <1>3, <2>3 DEF StoreArrival
  <2> QED
    BY <1>3, <2>1, <2>4, SameData
       DEF StoreArrival, AbstractLog!LogNext, AbstractLog!Observe
<1> QED
  BY <1>1, <1>2, <1>3, DatabaseStep

(* The matcher implements the abstract arrival log: all its concurrency,   *)
(* redelivery and failures leave the database with an append-only register *)
(* of arrivals joined once to their predictions.                           *)
THEOREM RefinesArrivalLog == Spec => ImplementsArrivalLog
<1>1. Init => AbstractLog!LogInit
  BY DEF Init, IngestInit, AbstractLog!LogInit
<1> QED
  BY <1>1, TypeInit, TypeNext, LogStep, PTL
     DEF Spec, ImplementsArrivalLog, AbstractLog!LogSpec

-----------------------------------------------------------------------------
(***************************************************************************)
(* The delivery: DeliveryInv is inductive, hence no due prediction is      *)
(* committed without its arrival and nothing an engine remembers as        *)
(* emitted is forgotten; then GroundInv is, hence no arrival is invented   *)
(* and each is joined to the prediction that made it.                      *)
(***************************************************************************)
(* Keys of sets of arrivals.                                               *)

LEMMA KeysMember ==
    ASSUME NEW as, NEW a \in as
    PROVE  ArrivalKey(a) \in KeysOf(as)
BY DEF KeysOf

LEMMA KeysEmpty == KeysOf({}) = {}
BY DEF KeysOf

LEMMA KeysRemove ==
    ASSUME NEW as, NEW a, NEW k \in KeysOf(as)
    PROVE  k = ArrivalKey(a) \/ k \in KeysOf(as \ {a})
BY DEF KeysOf

LEMMA KeyMethod ==
    ASSUME NEW as, NEW method, \A a \in as : a.method = method,
           NEW k \in KeysOf(as)
    PROVE  k.method = method
<1>1. PICK a \in as : k = ArrivalKey(a)
  BY DEF KeysOf
<1> QED
  BY <1>1 DEF ArrivalKey

(* Arrivals are never removed.                                             *)
LEMMA ArrivalsGrow ==
    ASSUME TypeOK, [Next]_vars
    PROVE  KeysOf(arrivals) \subseteq KeysOf(arrivals')
<1>1. arrivals \subseteq arrivals'
  BY DatabaseStep DEF StoreArrival
<1> QED
  BY <1>1 DEF KeysOf

-----------------------------------------------------------------------------
(* One lemma per kind of step.                                             *)

LEMMA DeliveryInit == Init => DeliveryInv
<1> SUFFICES ASSUME Init
             PROVE  DeliveryInv
  OBVIOUS
<1>1. TypeOK
  BY TypeInit
<1>2. \A t \in Topics : log[t] = <<>> /\ committed[t] = 0
  BY DEF Init, IngestInit
<1>3. TripUpdates \in Topics
  BY DEF Topics
<1>4. \A i \in Instances : emitted[i] = {} /\ owner[TripUpdates] # i
  BY <1>3, MatcherAssumption DEF Init
<1>5. \A i \in Instances, t \in Topics : pc[i][t] = "idle" /\ pending[i][t] = {}
  BY DEF Init
<1> QED
  BY <1>1, <1>2, <1>3, <1>4, <1>5
     DEF DeliveryInv, TopicsTyped, PendingHeld, EmittedAccounted,
         CommittedSettled, SettledBefore, SettledOnceStored, SettledBehind,
         Working

LEMMA AppendKeeps ==
    ASSUME NEW S, NEW s \in Seq(S), NEW m \in S
    PROVE  /\ \A n \in 1 .. Len(s) : n \in 1 .. Len(Append(s, m)) /\ Append(s, m)[n] = s[n]
           /\ \A n \in 1 .. Len(Append(s, m)) :
                 n \in 1 .. Len(s) \/ Append(s, m)[n] = m
OBVIOUS

(* Messages are appended to the topic of their kind; those in the logs     *)
(* stay where they are.                                                    *)
LEMMA LogsGrow ==
    ASSUME TypeOK, TopicsTyped, Environment
    PROVE  /\ \A t \in Topics : \A n \in 1 .. Len(log[t]) :
                 n \in 1 .. Len(log'[t]) /\ log'[t][n] = log[t][n]
           /\ TopicsTyped'
<1>1. CASE PersistPredictions
  BY <1>1 DEF PersistPredictions, TopicsTyped
<1>2. ASSUME NEW u \in Topics, NEW m \in Feed \cup {Undecodable},
             AppendTo(u, m), m = Undecodable \/ TopicFor(m) = u
      PROVE  /\ \A t \in Topics : \A n \in 1 .. Len(log[t]) :
                   n \in 1 .. Len(log'[t]) /\ log'[t][n] = log[t][n]
             /\ TopicsTyped'
  <2>1. \A t \in Topics : log[t] \in Seq(Feed \cup {Undecodable})
    BY DEF TypeOK
  <2>2. \A t \in Topics : log'[t] = IF t = u THEN Append(log[t], m) ELSE log[t]
    BY <1>2 DEF AppendTo, TypeOK
  <2>3. ASSUME NEW t \in Topics
        PROVE  /\ \A n \in 1 .. Len(log[t]) :
                     n \in 1 .. Len(log'[t]) /\ log'[t][n] = log[t][n]
               /\ \A n \in 1 .. Len(log'[t]) :
                     n \in 1 .. Len(log[t]) \/ (t = u /\ log'[t][n] = m)
    <3>1. CASE t = u
      <4>1. log'[t] = Append(log[t], m) /\ log[t] \in Seq(Feed \cup {Undecodable})
        BY <2>1, <2>2, <3>1
      <4> QED
        BY <3>1, <4>1, AppendKeeps
    <3>2. CASE t # u
      BY <2>2, <3>2
    <3> QED
      BY <3>1, <3>2
  <2>5. TopicsTyped'
    BY <1>2, <2>3 DEF TopicsTyped
  <2> QED
    BY <2>3, <2>5
<1>3. ASSUME NEW e \in Feed, Publish(e)
      PROVE  AppendTo(TopicFor(e), e) /\ TopicFor(e) \in Topics
  BY <1>3 DEF Publish, TopicFor, Topics
<1> QED
  BY <1>1, <1>2, <1>3 DEF Environment, IngestNext, PublishUndecodable

LEMMA DeliveryEnvironment ==
    ASSUME DeliveryInv, Environment
    PROVE  DeliveryInv'
<1> USE DEF DeliveryInv
<1>1. TypeOK'
  BY TypeEnvironment
<1>2. /\ \A t \in Topics : \A n \in 1 .. Len(log[t]) :
            n \in 1 .. Len(log'[t]) /\ log'[t][n] = log[t][n]
      /\ TopicsTyped'
  BY LogsGrow
<1>3. UNCHANGED <<arrivals, committed, owner, position, emitted, pc, at, pending>>
  BY DEF Environment, engineVars, consumerVars
<1>4. TripUpdates \in Topics
  BY DEF Topics
<1>5. /\ committed[TripUpdates] \in Nat /\ position[TripUpdates] \in Nat
      /\ Len(log[TripUpdates]) \in Nat
      /\ committed[TripUpdates] <= Len(log[TripUpdates])
      /\ position[TripUpdates] <= Len(log[TripUpdates])
  BY <1>4 DEF TypeOK
<1>6. \A i \in Instances : Working(i, TripUpdates) =>
         at[i][TripUpdates] \in 1 .. Len(log[TripUpdates])
  BY <1>4 DEF TypeOK
<1>7. PendingHeld' /\ EmittedAccounted'
  BY <1>3 DEF PendingHeld, EmittedAccounted
<1>8. CommittedSettled'
  BY <1>2, <1>3, <1>4, <1>5 DEF CommittedSettled, Settled
<1>9. SettledBefore'
  BY <1>2, <1>3, <1>4, <1>5, <1>6 DEF SettledBefore, Settled, Working
<1>10. SettledOnceStored'
  BY <1>2, <1>3, <1>4, <1>5, <1>6 DEF SettledOnceStored, Working, Message
<1>11. SettledBehind'
  BY <1>2, <1>3, <1>4, <1>5 DEF SettledBehind, Settled, Working
<1> QED
  BY <1>1, <1>2, <1>7, <1>8, <1>9, <1>10, <1>11

LEMMA DeliveryStop ==
    ASSUME NEW i \in Instances, DeliveryInv, Stop(i), TypeOK'
    PROVE  DeliveryInv'
<1> USE DEF DeliveryInv
<1>1. UNCHANGED <<arrivals, log, committed, position>>
  BY DEF Stop, dbVars
<1>2. \A t \in Topics :
         pc'[i][t] = "idle" /\ pending'[i][t] = {} /\ emitted'[i] = {}
  BY DEF Stop, TypeOK
<1>3. \A j \in Instances \ {i} :
         pc'[j] = pc[j] /\ at'[j] = at[j] /\ pending'[j] = pending[j]
         /\ emitted'[j] = emitted[j]
  BY DEF Stop, TypeOK
<1>4. TripUpdates \in Topics /\ VehiclePositions \in Topics
  BY DEF Topics
<1>5. \A j \in Instances : owner'[TripUpdates] = j => j # i /\ owner[TripUpdates] = j
  BY <1>4, MatcherAssumption DEF Stop
<1>6. TopicsTyped'
  BY <1>1 DEF TopicsTyped
<1>7. PendingHeld'
  BY <1>2, <1>3 DEF PendingHeld
<1>8. EmittedAccounted'
  BY <1>1, <1>2, <1>3, <1>4 DEF EmittedAccounted, ConsumerOf
<1>9. CommittedSettled'
  BY <1>1 DEF CommittedSettled, Settled
<1>10. SettledBefore'
  BY <1>1, <1>2, <1>3, <1>4 DEF SettledBefore, Settled, Working
<1>11. SettledOnceStored'
  BY <1>1, <1>2, <1>3, <1>4 DEF SettledOnceStored, Message
<1>12. SettledBehind'
  BY <1>1, <1>2, <1>3, <1>4, <1>5 DEF SettledBehind, Settled, Working
<1> QED
  BY <1>6, <1>7, <1>8, <1>9, <1>10, <1>11, <1>12

LEMMA DeliveryProcess ==
    ASSUME NEW i \in Instances, DeliveryInv, Process(i)
    PROVE  DeliveryInv'
<1> USE DEF DeliveryInv
<1>1. TypeOK'
  BY TypeProcess
<1>2. CASE Start(i)
  <2>1. UNCHANGED <<arrivals, log, committed, owner, position, emitted, pc, at,
                    pending>>
    BY <1>2 DEF Start, dbVars, busVars, consumerVars
  <2> QED
    BY <1>1, <2>1 DEF TopicsTyped, PendingHeld, EmittedAccounted,
          CommittedSettled, Settled, SettledBefore, SettledOnceStored, Message,
          SettledBehind, Working
<1>3. CASE RunReturns(i) \/ Crash(i)
  BY <1>1, <1>3, DeliveryStop DEF RunReturns, Crash
<1> QED
  BY <1>2, <1>3 DEF Process

(* A reader assigned the topic resumes at the committed offset, all of     *)
(* which is settled.                                                       *)
LEMMA DeliveryGroup ==
    ASSUME NEW i \in Instances, NEW t \in Topics, DeliveryInv,
           Assign(t, i) \/ Rebalance(t, i)
    PROVE  DeliveryInv'
<1> USE DEF DeliveryInv
<1>1. TypeOK'
  BY TypeGroup
<1>2. UNCHANGED <<arrivals, log, committed, emitted, pc, at, pending>>
      /\ owner' = [owner EXCEPT ![t] = i]
      /\ position' = [position EXCEPT ![t] = committed[t]]
  BY DEF Assign, Rebalance, AssignTo, dbVars, engineVars, consumerVars
<1>3. TripUpdates \in Topics
  BY DEF Topics
<1>4. /\ TopicsTyped' /\ PendingHeld' /\ EmittedAccounted' /\ CommittedSettled'
      /\ SettledBefore' /\ SettledOnceStored'
  BY <1>2 DEF TopicsTyped, PendingHeld, EmittedAccounted, CommittedSettled,
              Settled, SettledBefore, SettledOnceStored, Message, Working
<1>5. SettledBehind'
  <2>1. CASE t = TripUpdates
    <3>1. position'[TripUpdates] = committed[TripUpdates]
      BY <1>2, <1>3, <2>1 DEF TypeOK
    <3> QED
      BY <1>2, <3>1 DEF SettledBehind, CommittedSettled, Settled
  <2>2. CASE t # TripUpdates
    <3>1. /\ position'[TripUpdates] = position[TripUpdates]
          /\ owner'[TripUpdates] = owner[TripUpdates]
      BY <1>2, <1>3, <2>2 DEF TypeOK
    <3> QED
      BY <1>2, <3>1 DEF SettledBehind, Settled, Working
  <2> QED
    BY <2>1, <2>2
<1> QED
  BY <1>1, <1>4, <1>5

(* Fetch takes the first message its owner has not settled.                *)
LEMMA DeliveryFetch ==
    ASSUME NEW i \in Instances, NEW t \in Topics, DeliveryInv, Fetch(i, t)
    PROVE  DeliveryInv'
<1> USE DEF DeliveryInv
<1>1. TypeOK'
  BY TypeConsume DEF Consume
<1>2. UNCHANGED <<arrivals, log, committed, owner, emitted, pending>>
      /\ pc[i][t] = "idle" /\ owner[t] = i
      /\ pc' = [pc EXCEPT ![i][t] = "fetched"]
      /\ at' = [at EXCEPT ![i][t] = position[t] + 1]
      /\ position' = [position EXCEPT ![t] = position[t] + 1]
  BY DEF Fetch, dbVars, engineVars
<1>3. /\ TripUpdates \in Topics /\ VehiclePositions \in Topics
      /\ \A u \in Topics : position[u] \in Nat
  BY DEF Topics, TypeOK
<1>4. \A j \in Instances, u \in Topics :
         IF j = i /\ u = t
         THEN pc'[j][u] = "fetched" /\ at'[j][u] = position[t] + 1
         ELSE pc'[j][u] = pc[j][u] /\ at'[j][u] = at[j][u]
  BY <1>2 DEF TypeOK
<1>5. \A u \in Topics : position'[u] = IF u = t THEN position[u] + 1 ELSE position[u]
  BY <1>2 DEF TypeOK
<1>6. TopicsTyped' /\ CommittedSettled'
  BY <1>2 DEF TopicsTyped, CommittedSettled, Settled
<1>7. PendingHeld'
  BY <1>2, <1>4 DEF PendingHeld
<1>8. EmittedAccounted'
  BY <1>2, <1>3, <1>4 DEF EmittedAccounted, ConsumerOf
<1>9. SettledBefore'
  BY <1>2, <1>3, <1>4 DEF SettledBefore, SettledBehind, Settled, Working
<1>10. SettledOnceStored'
  BY <1>2, <1>3, <1>4 DEF SettledOnceStored, Message
<1>11. SettledBehind'
  BY <1>2, <1>3, <1>4, <1>5 DEF SettledBehind, Settled, Working
<1> QED
  BY <1>1, <1>6, <1>7, <1>8, <1>9, <1>10, <1>11

(* The message in hand, when it is of trip updates: all before it is       *)
(* settled, so committing it needs only its own arrival.                   *)
LEMMA CommitSettled ==
    ASSUME NEW i \in Instances, NEW t \in Topics, DeliveryInv, Working(i, t),
           t = TripUpdates => Settled(Message(i, t)),
           committed' = [committed EXCEPT ![t] = at[i][t]],
           UNCHANGED <<arrivals, log>>
    PROVE  CommittedSettled'
<1> USE DEF DeliveryInv
<1>1. TripUpdates \in Topics /\ at[i][t] \in Nat
  BY DEF Topics, TypeOK
<1>2. CASE t = TripUpdates
  <2>1. committed'[TripUpdates] = at[i][TripUpdates]
    BY <1>2, <1>1 DEF TypeOK
  <2>2. \A n \in 1 .. at[i][TripUpdates] :
           n \in 1 .. at[i][TripUpdates] - 1 \/ n = at[i][TripUpdates]
    BY <1>1, <1>2
  <2>3. \A n \in 1 .. at[i][TripUpdates] : Settled(log[TripUpdates][n])
    BY <1>2, <2>2 DEF SettledBefore, Message
  <2> QED
    BY <2>1, <2>3 DEF CommittedSettled, Settled
<1>3. CASE t # TripUpdates
  <2>1. committed'[TripUpdates] = committed[TripUpdates]
    BY <1>1, <1>3 DEF TypeOK
  <2> QED
    BY <2>1 DEF CommittedSettled, Settled
<1> QED
  BY <1>2, <1>3

(* A consumer that returns keeps nothing that has to be delivered: its     *)
(* process is ending, and what it did not commit will be fetched again.    *)
LEMMA DeliveryConsumerError ==
    ASSUME NEW i \in Instances, NEW t \in Topics, DeliveryInv, TypeOK',
           ConsumerError(i, t), KeysOf(arrivals) \subseteq KeysOf(arrivals'),
           CommittedSettled', UNCHANGED <<log, owner, position, emitted>>
    PROVE  DeliveryInv'
<1> USE DEF DeliveryInv
<1>1. \A j \in Instances, u \in Topics :
         IF j = i /\ u = t
         THEN pc'[j][u] = "exited" /\ pending'[j][u] = {}
         ELSE /\ pc'[j][u] = pc[j][u] /\ at'[j][u] = at[j][u]
              /\ pending'[j][u] = pending[j][u]
  BY DEF ConsumerError, TypeOK
<1>2. TripUpdates \in Topics /\ VehiclePositions \in Topics
  BY DEF Topics
<1>3. TopicsTyped'
  BY DEF TopicsTyped
<1>4. PendingHeld'
  BY <1>1 DEF PendingHeld
<1>5. EmittedAccounted'
  BY <1>1, <1>2 DEF EmittedAccounted, ConsumerOf
<1>6. SettledBefore'
  BY <1>1, <1>2 DEF SettledBefore, Settled, Working
<1>7. SettledOnceStored'
  BY <1>1, <1>2 DEF SettledOnceStored, Message
<1>8. SettledBehind'
  BY <1>1, <1>2 DEF SettledBehind, Settled, Working
<1> QED
  BY <1>3, <1>4, <1>5, <1>6, <1>7, <1>8

(* A consumer that commits its message, all of it settled, is done.        *)
LEMMA DeliveryCommit ==
    ASSUME NEW i \in Instances, NEW t \in Topics, DeliveryInv, TypeOK',
           Working(i, t), pending[i][t] = {},
           t = TripUpdates => Settled(Message(i, t)),
           committed' = [committed EXCEPT ![t] = at[i][t]], MessageDone(i, t),
           UNCHANGED <<arrivals, log, owner, position, emitted>>
    PROVE  DeliveryInv'
<1> USE DEF DeliveryInv
<1>1. \A j \in Instances, u \in Topics :
         IF j = i /\ u = t
         THEN pc'[j][u] = "idle"
         ELSE pc'[j][u] = pc[j][u] /\ at'[j][u] = at[j][u]
  BY DEF MessageDone, TypeOK
<1>2. /\ TripUpdates \in Topics /\ VehiclePositions \in Topics
      /\ UNCHANGED pending /\ pc[i][t] # "exited"
  BY DEF Topics, MessageDone, Working
<1>3. TopicsTyped'
  BY DEF TopicsTyped
<1>4. PendingHeld'
  BY <1>1, <1>2 DEF PendingHeld
<1>5. EmittedAccounted'
  BY <1>1, <1>2 DEF EmittedAccounted, ConsumerOf
<1>6. SettledBefore'
  BY <1>1, <1>2 DEF SettledBefore, Settled, Working
<1>7. SettledOnceStored'
  BY <1>1, <1>2 DEF SettledOnceStored, Message
<1>8. SettledBehind'
  BY <1>1, <1>2 DEF SettledBehind, Settled, Working, Message
<1>9. CommittedSettled'
  BY CommitSettled
<1> QED
  BY <1>3, <1>4, <1>5, <1>6, <1>7, <1>8, <1>9

(* Once an arrival is stored, its key is among the stored ones.            *)
LEMMA DeliveryInsertArrival ==
    ASSUME NEW i \in Instances, NEW t \in Topics, DeliveryInv, InsertArrival(i, t),
           KeysOf(arrivals) \subseteq KeysOf(arrivals')
    PROVE  DeliveryInv'
<1> USE DEF DeliveryInv
<1>1. TypeOK'
  BY TypeConsume DEF Consume
<1>2. /\ UNCHANGED <<log, committed, owner, position, emitted, pc, at>>
      /\ pc[i][t] = "storing"
  BY DEF InsertArrival, busVars, engineVars
<1>3. PICK a \in pending[i][t] :
         /\ ArrivalKey(a) \in KeysOf(arrivals')
         /\ pending' = [pending EXCEPT ![i][t] = @ \ {a}]
  BY KeysMember DEF InsertArrival, StoreArrival
<1>4. \A j \in Instances, u \in Topics :
         pending'[j][u] = IF j = i /\ u = t THEN pending[j][u] \ {a}
                                            ELSE pending[j][u]
  BY <1>3 DEF TypeOK
<1>5. \A j \in Instances, u \in Topics : \A k \in KeysOf(pending[j][u]) :
         k \in KeysOf(arrivals') \/ k \in KeysOf(pending'[j][u])
  BY <1>3, <1>4, KeysRemove
<1>6. TripUpdates \in Topics /\ VehiclePositions \in Topics
  BY DEF Topics
<1>7. TopicsTyped' /\ CommittedSettled' /\ SettledBefore' /\ SettledBehind'
  BY <1>2 DEF TopicsTyped, CommittedSettled, Settled, SettledBefore,
              SettledBehind, Working
<1>8. PendingHeld'
  <2>1. \A j \in Instances, u \in Topics : pending'[j][u] \subseteq pending[j][u]
    BY <1>4
  <2>2. \A j \in Instances, u \in Topics :
           /\ pc[j][u] # "storing" => pending'[j][u] = {}
           /\ \A b \in pending'[j][u] : ConsumerOf(b.method) = u
    BY <2>1 DEF PendingHeld
  <2> QED
    BY <1>2, <2>2 DEF PendingHeld
<1>9. EmittedAccounted'
  BY <1>2, <1>5, <1>6 DEF EmittedAccounted, ConsumerOf
<1>10. SettledOnceStored'
  BY <1>2, <1>5, <1>6 DEF SettledOnceStored, Message
<1> QED
  BY <1>1, <1>7, <1>8, <1>9, <1>10

(* What the engine returns goes to the consumer that asked: the kind of a  *)
(* message is that of its topic.                                           *)
LEMMA EmittedHere ==
    ASSUME NEW i \in Instances, NEW t \in Topics, DeliveryInv, HandleEvent(i, t)
    PROVE  \E as \in SUBSET Arrivals :
              /\ Emit(i, t, as)
              /\ \A a \in as : ConsumerOf(a.method) = t
              /\ t = TripUpdates /\ DuePrediction(Message(i, t))
                    => LastUpdateArrival(Message(i, t)) \in as
<1> USE DEF DeliveryInv
<1> DEFINE m == Message(i, t)
<1>1. Working(i, t)
  BY DEF HandleEvent, Working
<1>2. m \in Feed \cup {Undecodable} /\ (m = Undecodable \/ TopicFor(m) = t)
  BY <1>1, MessageInLog DEF TopicsTyped, Message
<1>3. CASE HandlePrediction(i, t)
  <2>1. m \in PredictionEvent /\ m.kind = Prediction /\ m # Undecodable
    BY <1>2, <1>3, MessageKinds
       DEF HandlePrediction, Prediction, VehiclePosition, Undecodable
  <2>2. t = TripUpdates
    BY <1>2, <2>1 DEF TopicFor
  <2> DEFINE as == IF Due(m) THEN {LastUpdateArrival(m)} ELSE {}
  <2>3. as \in SUBSET Arrivals /\ \A a \in as : ConsumerOf(a.method) = t
    BY <2>1, <2>2, LastUpdateTyped DEF ConsumerOf
  <2>4. Emit(i, t, as)
    BY <1>3 DEF HandlePrediction
  <2>5. DuePrediction(m) => LastUpdateArrival(m) \in as
    BY DEF DuePrediction
  <2> QED
    BY <2>3, <2>4, <2>5
<1>4. CASE HandleVehicle(i, t)
  <2> DEFINE as == {GeofenceArrival(k, m) :
                      k \in {q \in predictions[i] :
                                /\ q.trip = m.trip
                                /\ q.stop \in InGeofence(i, m)}}
  <2>1. m \in VehicleEvent /\ m.kind # Prediction /\ m # Undecodable
    BY <1>2, <1>4, MessageKinds
       DEF HandleVehicle, Prediction, VehiclePosition, Undecodable
  <2>2. t = VehiclePositions
    BY <1>2, <2>1 DEF TopicFor
  <2>3. as \in SUBSET Arrivals /\ \A a \in as : ConsumerOf(a.method) = t
    BY <2>1, <2>2, GeofenceTyped DEF TypeOK, ConsumerOf, LastUpdate, Geofence
  <2>4. Emit(i, t, as)
    BY <1>4 DEF HandleVehicle
  <2>5. ~DuePrediction(m)
    BY <2>1 DEF DuePrediction
  <2> QED
    BY <2>3, <2>4, <2>5
<1> QED
  BY <1>3, <1>4 DEF HandleEvent

(* The engine refuses to emit again only what is stored: nothing that its  *)
(* consumer should still store can be lost between emit and InsertArrival. *)
LEMMA DeliveryHandleEvent ==
    ASSUME NEW i \in Instances, NEW t \in Topics, DeliveryInv, HandleEvent(i, t)
    PROVE  DeliveryInv'
<1> USE DEF DeliveryInv
<1> DEFINE m == Message(i, t)
<1>1. TypeOK'
  BY TypeConsume DEF Consume
<1>2. /\ UNCHANGED <<arrivals, log, committed, owner, position, at>>
      /\ pc[i][t] = "fetched"
      /\ pc' = [pc EXCEPT ![i][t] = "storing"]
  BY DEF HandleEvent, dbVars, busVars
<1>3. PICK as \in SUBSET Arrivals :
         /\ Emit(i, t, as)
         /\ \A a \in as : ConsumerOf(a.method) = t
         /\ t = TripUpdates /\ DuePrediction(m) => LastUpdateArrival(m) \in as
  BY EmittedHere
<1> DEFINE fresh == {a \in as : ArrivalKey(a) \notin emitted[i]}
<1>4. /\ emitted' = [emitted EXCEPT ![i] = @ \cup KeysOf(fresh)]
      /\ pending' = [pending EXCEPT ![i][t] = fresh]
  BY <1>3 DEF Emit
<1>5. fresh \subseteq as /\ \A a \in as : a \in fresh \/ ArrivalKey(a) \in emitted[i]
  OBVIOUS
<1>6. \A a \in fresh : ConsumerOf(a.method) = t
  BY <1>3, <1>5
<1> HIDE DEF fresh
<1>7. \A j \in Instances, u \in Topics :
         IF j = i /\ u = t
         THEN pc'[j][u] = "storing" /\ pending'[j][u] = fresh
         ELSE pc'[j][u] = pc[j][u] /\ pending'[j][u] = pending[j][u]
  BY <1>2, <1>4 DEF TypeOK
<1>8. \A j \in Instances :
         emitted'[j] = IF j = i THEN emitted[j] \cup KeysOf(fresh) ELSE emitted[j]
  BY <1>4 DEF TypeOK
<1>9. TripUpdates \in Topics /\ VehiclePositions \in Topics
  BY DEF Topics
<1>10. pending[i][t] = {}
  BY <1>2 DEF PendingHeld
<1>11. \A k \in KeysOf(fresh) : ConsumerOf(k.method) = t
  BY <1>6 DEF KeysOf, ArrivalKey
<1>12. \A k \in emitted[i] : ConsumerOf(k.method) = t => k \in KeysOf(arrivals)
  BY <1>2, <1>10, KeysEmpty DEF EmittedAccounted
<1>13. TopicsTyped' /\ CommittedSettled'
  BY <1>2 DEF TopicsTyped, CommittedSettled, Settled
<1>14. PendingHeld'
  BY <1>6, <1>7 DEF PendingHeld
<1>15. EmittedAccounted'
  <2>1. ASSUME NEW k \in emitted'[i]
        PROVE  LET u == ConsumerOf(k.method)
               IN  \/ k \in KeysOf(arrivals')
                   \/ k \in KeysOf(pending'[i][u])
                   \/ pc'[i][u] = "exited"
    <3>1. CASE ConsumerOf(k.method) = t
      BY <1>2, <1>7, <1>8, <1>12, <2>1, <3>1
    <3>2. CASE ConsumerOf(k.method) # t
      <4>1. k \in emitted[i]
        BY <1>8, <1>11, <2>1, <3>2
      <4>2. ConsumerOf(k.method) \in Topics
        BY <1>9 DEF ConsumerOf
      <4> QED
        BY <1>2, <1>7, <3>2, <4>1, <4>2 DEF EmittedAccounted
    <3> QED
      BY <3>1, <3>2
  <2>2. ASSUME NEW j \in Instances \ {i}, NEW k \in emitted'[j]
        PROVE  LET u == ConsumerOf(k.method)
               IN  \/ k \in KeysOf(arrivals')
                   \/ k \in KeysOf(pending'[j][u])
                   \/ pc'[j][u] = "exited"
    <3>1. ConsumerOf(k.method) \in Topics /\ k \in emitted[j]
      BY <1>8, <1>9, <2>2 DEF ConsumerOf
    <3> QED
      BY <1>2, <1>7, <3>1 DEF EmittedAccounted
  <2> QED
    BY <2>1, <2>2 DEF EmittedAccounted
<1>16. SettledBefore' /\ SettledBehind'
  BY <1>2, <1>7, <1>9 DEF SettledBefore, SettledBehind, Settled, Working
<1>17. SettledOnceStored'
  <2>1. CASE t = TripUpdates
    <3>1. DuePrediction(m) =>
             ArrivalKey(LastUpdateArrival(m)) \in KeysOf(arrivals) \cup KeysOf(fresh)
      <4> SUFFICES ASSUME DuePrediction(m)
                   PROVE  ArrivalKey(LastUpdateArrival(m))
                             \in KeysOf(arrivals) \cup KeysOf(fresh)
        OBVIOUS
      <4> DEFINE a == LastUpdateArrival(m)
      <4>1. a \in as /\ ConsumerOf(a.method) = t
        BY <1>3, <2>1
      <4>2. ArrivalKey(a).method = a.method
        BY DEF ArrivalKey
      <4>3. CASE a \in fresh
        BY <4>3, KeysMember
      <4>4. CASE ArrivalKey(a) \in emitted[i]
        BY <1>12, <4>1, <4>2, <4>4
      <4> QED
        BY <1>5, <4>1, <4>3, <4>4
    <3> QED
      BY <1>2, <1>7, <1>9, <2>1, <3>1 DEF SettledOnceStored, Message
  <2>2. CASE t # TripUpdates
    BY <1>2, <1>7, <1>9, <2>2 DEF SettledOnceStored, Message
  <2> QED
    BY <2>1, <2>2
<1> QED
  BY <1>1, <1>13, <1>14, <1>15, <1>16, <1>17

-----------------------------------------------------------------------------
(* All steps together.                                                     *)

(* A message Decode refuses has no arrival; one whose arrivals are stored  *)
(* is settled.                                                             *)
LEMMA Committable ==
    ASSUME NEW i \in Instances, NEW t \in Topics, DeliveryInv,
           \/ pc[i][t] = "storing" /\ pending[i][t] = {}
           \/ pc[i][t] = "fetched" /\ Message(i, t).kind = Undecodable.kind
    PROVE  /\ Working(i, t) /\ pending[i][t] = {}
           /\ t = TripUpdates => Settled(Message(i, t))
<1> USE DEF DeliveryInv
<1>1. CASE pc[i][t] = "storing" /\ pending[i][t] = {}
  BY <1>1, KeysEmpty DEF SettledOnceStored, Settled, Working
<1>2. CASE pc[i][t] = "fetched" /\ Message(i, t).kind = Undecodable.kind
  BY <1>2 DEF PendingHeld, Settled, DuePrediction, Undecodable, Prediction, Working
<1> QED
  BY <1>1, <1>2

LEMMA DeliveryConsume ==
    ASSUME NEW i \in Instances, NEW t \in Topics, DeliveryInv, Consume(i, t)
    PROVE  DeliveryInv'
<1>0. /\ TypeOK /\ TypeOK' /\ CommittedSettled
      /\ KeysOf(arrivals) \subseteq KeysOf(arrivals')
  BY TypeConsume, ArrivalsGrow DEF DeliveryInv, Next
<1>1. CASE Fetch(i, t)
  BY <1>1, DeliveryFetch
<1>2. CASE HandleEvent(i, t)
  BY <1>2, DeliveryHandleEvent
<1>3. CASE SkipUndecodable(i, t) \/ Commit(i, t)
  <2>1. /\ committed' = [committed EXCEPT ![t] = at[i][t]] /\ MessageDone(i, t)
        /\ UNCHANGED <<arrivals, log, owner, position, emitted>>
    BY <1>3 DEF SkipUndecodable, Commit, dbVars, engineVars
  <2>2. /\ Working(i, t) /\ pending[i][t] = {}
        /\ t = TripUpdates => Settled(Message(i, t))
    BY <1>3, Committable DEF SkipUndecodable, Commit
  <2> QED
    BY <1>0, <2>1, <2>2, DeliveryCommit
<1>4. CASE InsertArrival(i, t)
  BY <1>0, <1>4, DeliveryInsertArrival
<1>5. CASE UniqueViolation(i, t)
  <2>1. /\ ConsumerError(i, t)
        /\ UNCHANGED <<arrivals, log, committed, owner, position, emitted>>
    BY <1>5 DEF UniqueViolation, dbVars, busVars, engineVars
  <2>2. CommittedSettled'
    BY <1>0, <2>1 DEF CommittedSettled, Settled
  <2> QED
    BY <1>0, <2>1, <2>2, DeliveryConsumerError
<1> QED
  BY <1>1, <1>2, <1>3, <1>4, <1>5 DEF Consume

LEMMA DeliveryConsumeFails ==
    ASSUME NEW i \in Instances, NEW t \in Topics, DeliveryInv, ConsumeFails(i, t)
    PROVE  DeliveryInv'
<1>0. /\ TypeOK /\ TypeOK' /\ CommittedSettled
      /\ KeysOf(arrivals) \subseteq KeysOf(arrivals')
  BY TypeConsumeFails, ArrivalsGrow DEF DeliveryInv, Next
<1>1. CASE FetchFails(i, t) \/ InsertFails(i, t)
  <2>1. /\ ConsumerError(i, t)
        /\ UNCHANGED <<log, committed, owner, position, emitted>>
    BY <1>1 DEF FetchFails, InsertFails, dbVars, busVars, engineVars
  <2>2. CommittedSettled'
    BY <1>0, <2>1 DEF CommittedSettled, Settled
  <2> QED
    BY <1>0, <2>1, <2>2, DeliveryConsumerError
<1>2. CASE CommitFails(i, t)
  <2>1. /\ ConsumerError(i, t)
        /\ UNCHANGED committed \/ committed' = [committed EXCEPT ![t] = at[i][t]]
        /\ UNCHANGED <<arrivals, log, owner, position, emitted>>
    BY <1>2 DEF CommitFails, dbVars, engineVars
  <2>2. Working(i, t) /\ (t = TripUpdates => Settled(Message(i, t)))
    BY <1>2, Committable DEF CommitFails
  <2>3. CASE UNCHANGED committed
    <3>1. CommittedSettled'
      BY <1>0, <2>1, <2>3 DEF CommittedSettled, Settled
    <3> QED
      BY <1>0, <2>1, <3>1, DeliveryConsumerError
  <2>4. CASE committed' = [committed EXCEPT ![t] = at[i][t]]
    <3>1. CommittedSettled'
      BY <2>1, <2>2, <2>4, CommitSettled
    <3> QED
      BY <1>0, <2>1, <3>1, DeliveryConsumerError
  <2> QED
    BY <2>1, <2>3, <2>4
<1> QED
  BY <1>1, <1>2 DEF ConsumeFails

LEMMA DeliveryNext == DeliveryInv /\ [Next]_vars => DeliveryInv'
<1>1. ASSUME DeliveryInv, Next PROVE DeliveryInv'
  BY <1>1, DeliveryEnvironment, DeliveryProcess, DeliveryGroup, DeliveryConsume,
     DeliveryConsumeFails DEF Next
<1>2. ASSUME DeliveryInv, UNCHANGED vars PROVE DeliveryInv'
  BY <1>2, TypeNext
     DEF DeliveryInv, TopicsTyped, PendingHeld, EmittedAccounted,
         CommittedSettled, Settled, SettledBefore, SettledOnceStored, Message,
         SettledBehind, Working, vars, dbVars, busVars, engineVars, consumerVars
<1> QED
  BY <1>1, <1>2

(* The invariant of the delivery of arrivals, for any number of processes, *)
(* rebalances, crashes and failed calls.                                   *)
THEOREM DeliveryCorrect == Spec => []DeliveryInv
BY DeliveryInit, DeliveryNext, PTL DEF Spec

(* The group never commits past a due prediction whose arrival is not in   *)
(* the database.                                                           *)
THEOREM NoDueArrivalLost == Spec => []CommittedSettled
<1>1. DeliveryInv => CommittedSettled
  BY DEF DeliveryInv
<1> QED
  BY <1>1, DeliveryCorrect, PTL

(* What an engine will not emit again is stored, held by the consumer it   *)
(* was returned to, or that consumer has ended its process.                *)
THEOREM EmittedNeverForgotten == Spec => []EmittedAccounted
<1>1. DeliveryInv => EmittedAccounted
  BY DEF DeliveryInv
<1> QED
  BY <1>1, DeliveryCorrect, PTL

-----------------------------------------------------------------------------
(* Nothing is invented: what is stored, pending or remembered comes from   *)
(* rows that were committed before their message was published.            *)

LogPersisted ==
    \A t \in Topics : \A n \in 1 .. Len(log[t]) :
        log[t][n].kind = Prediction => log[t][n] \in rows

KeysPersisted ==
    \A i \in Instances : \A k \in predictions[i] : \E p \in rows : k = PredictionKey(p)

(* ArrivalsGrounded, of one arrival.                                       *)
Grounded(a) ==
    \/ \E p \in rows : Due(p) /\ a = LastUpdateArrival(p)
    \/ \E p \in rows, v \in Published(VehiclePositions) :
          /\ v.kind = VehiclePosition /\ v.trip = p.trip
          /\ p.stop \in v.near
          /\ a = GeofenceArrival(PredictionKey(p), v)

PendingGrounded ==
    \A i \in Instances, t \in Topics : \A a \in pending[i][t] : Grounded(a)

(* TriggerJoined, with the prediction that made the arrival named.         *)
DueJoined ==
    \A a \in arrivals : a.method = LastUpdate =>
        \E p \in rows :
            /\ Due(p) /\ a = LastUpdateArrival(p)
            /\ LocalDate(p.predictedAt) = ServiceDate(p.predictedAt)
                  => <<p, ArrivalKey(a)>> \in links

GroundInv ==
    /\ LogPersisted /\ KeysPersisted /\ PendingGrounded
    /\ \A a \in arrivals : Grounded(a)
    /\ DueJoined

LEMMA GroundInit == Init => GroundInv
<1> SUFFICES ASSUME Init PROVE GroundInv
  OBVIOUS
<1>1. \A t \in Topics : log[t] = <<>>
  BY DEF Init, IngestInit
<1> QED
  BY <1>1 DEF Init, GroundInv, LogPersisted, KeysPersisted, PendingGrounded, DueJoined

(* A step of the ingester appends a message to a log or adds rows.         *)
LEMMA IngestStep ==
    ASSUME TypeOK, TopicsTyped, LogPersisted, Environment
    PROVE  /\ rows \subseteq rows'
           /\ Published(VehiclePositions) \subseteq Published(VehiclePositions)'
           /\ LogPersisted'
<1>0. VehiclePositions \in Topics
  BY DEF Topics
<1>1. Published(VehiclePositions) \subseteq Published(VehiclePositions)'
  BY <1>0, LogsGrow DEF Published
<1>2. CASE PersistPredictions
  BY <1>1, <1>2 DEF PersistPredictions, LogPersisted
<1>3. ASSUME NEW u \in Topics, NEW m \in Feed \cup {Undecodable},
             AppendTo(u, m), m.kind = Prediction => m \in rows
      PROVE  LogPersisted' /\ rows' = rows
  <2>1. log[u] \in Seq(Feed \cup {Undecodable})
    BY DEF TypeOK
  <2>2. \A t \in Topics : log'[t] = IF t = u THEN Append(log[t], m) ELSE log[t]
    BY <1>3 DEF AppendTo, TypeOK
  <2>3. rows' = rows
    BY <1>3 DEF AppendTo
  <2>4. ASSUME NEW t \in Topics, NEW n \in 1 .. Len(log'[t]), log'[t][n].kind = Prediction
        PROVE  log'[t][n] \in rows
    <3>1. CASE t = u
      <4>1. n \in 1 .. Len(Append(log[u], m)) /\ log'[t][n] = Append(log[u], m)[n]
        BY <2>2, <2>4, <3>1
      <4>2. \/ n \in 1 .. Len(log[u]) /\ Append(log[u], m)[n] = log[u][n]
            \/ Append(log[u], m)[n] = m
        BY <2>1, <4>1, AppendKeeps
      <4> QED
        BY <1>3, <2>4, <4>1, <4>2 DEF LogPersisted
    <3>2. CASE t # u
      BY <2>2, <2>4, <3>2 DEF LogPersisted
    <3> QED
      BY <3>1, <3>2
  <2> QED
    BY <2>3, <2>4 DEF LogPersisted
<1>4. ASSUME NEW e \in Feed, Publish(e)
      PROVE  AppendTo(TopicFor(e), e) /\ TopicFor(e) \in Topics /\ (e.kind = Prediction => e \in rows)
  BY <1>4 DEF Publish, TopicFor, Topics
<1>5. Undecodable.kind # Prediction
  BY DEF Undecodable, Prediction
<1> QED
  BY <1>1, <1>2, <1>3, <1>4, <1>5 DEF Environment, IngestNext, PublishUndecodable

(* Any other step leaves the logs and the rows alone.                      *)
LEMMA OutsideIngest ==
    ASSUME [Next]_vars
    PROVE  Environment \/ UNCHANGED <<rows, log>>
<1>1. ASSUME NEW i \in Instances, Process(i)
      PROVE  UNCHANGED <<rows, log>>
  BY <1>1 DEF Process, Start, RunReturns, Crash, Stop, dbVars, busVars
<1>2. ASSUME NEW i \in Instances, NEW t \in Topics, Assign(t, i) \/ Rebalance(t, i)
      PROVE  UNCHANGED <<rows, log>>
  BY <1>2 DEF Assign, Rebalance, AssignTo, dbVars
<1>3. ASSUME NEW i \in Instances, NEW t \in Topics, Consume(i, t)
      PROVE  UNCHANGED <<rows, log>>
  BY <1>3 DEF Consume, Fetch, HandleEvent, SkipUndecodable, InsertArrival, UniqueViolation,
              Commit, dbVars, busVars
<1>4. ASSUME NEW i \in Instances, NEW t \in Topics, ConsumeFails(i, t)
      PROVE  UNCHANGED <<rows, log>>
  BY <1>4 DEF ConsumeFails, FetchFails, InsertFails, CommitFails, dbVars, busVars
<1>5. CASE UNCHANGED vars
  BY <1>5 DEF vars, dbVars, busVars
<1> QED
  BY <1>1, <1>2, <1>3, <1>4, <1>5 DEF Next

(* Rows are never removed and messages never unpublished, so that what is  *)
(* grounded stays so.                                                      *)
LEMMA GroundGrows ==
    ASSUME DeliveryInv, LogPersisted, [Next]_vars
    PROVE  /\ rows \subseteq rows' /\ LogPersisted'
           /\ \A a : Grounded(a) => Grounded(a)'
<1>1. /\ rows \subseteq rows' /\ LogPersisted'
      /\ Published(VehiclePositions) \subseteq Published(VehiclePositions)'
  <2>1. CASE Environment
    BY <2>1, IngestStep DEF DeliveryInv
  <2>2. CASE UNCHANGED <<rows, log>>
    BY <2>2 DEF LogPersisted, Published
  <2> QED
    BY <2>1, <2>2, OutsideIngest
<1>2. ASSUME NEW a, Grounded(a)
      PROVE  Grounded(a)'
  <2>1. CASE \E p \in rows : Due(p) /\ a = LastUpdateArrival(p)
    BY <1>1, <2>1 DEF Grounded
  <2>2. CASE \E p \in rows, v \in Published(VehiclePositions) :
                /\ v.kind = VehiclePosition /\ v.trip = p.trip
                /\ p.stop \in v.near
                /\ a = GeofenceArrival(PredictionKey(p), v)
    BY <1>1, <2>2 DEF Grounded
  <2> QED
    BY <1>2, <2>1, <2>2 DEF Grounded
<1> QED
  BY <1>1, <1>2

(* What an engine learns from a message and what it emits for it.          *)
LEMMA EngineGrounded ==
    ASSUME NEW i \in Instances, NEW t \in Topics, DeliveryInv, GroundInv, HandleEvent(i, t)
    PROVE  /\ \A k \in predictions'[i] : \E p \in rows : k = PredictionKey(p)
           /\ \A a \in pending'[i][t] : Grounded(a)
<1> USE DEF GroundInv
<1> DEFINE m == Message(i, t)
<1>0. TypeOK /\ TopicsTyped
  BY DEF DeliveryInv
<1>1. Working(i, t)
  BY DEF HandleEvent, Working
<1>2. /\ at[i][t] \in 1 .. Len(log[t]) /\ m = log[t][at[i][t]]
      /\ m = Undecodable \/ (m \in Feed /\ TopicFor(m) = t)
  BY <1>0, <1>1, MessageInLog DEF TopicsTyped, Message
<1>3. m.kind = Prediction => m \in rows
  BY <1>2 DEF LogPersisted
<1>4. ASSUME NEW as, Emit(i, t, as)
      PROVE  pending'[i][t] \subseteq as
  BY <1>0, <1>4 DEF Emit, TypeOK
<1>5. CASE HandlePrediction(i, t)
  <2>1. /\ m.kind = Prediction
        /\ predictions' = [predictions EXCEPT ![i] = @ \cup {PredictionKey(m)}]
        /\ Emit(i, t, IF Due(m) THEN {LastUpdateArrival(m)} ELSE {})
    BY <1>5 DEF HandlePrediction
  <2>2. m \in rows
    BY <1>3, <2>1
  <2>3. predictions'[i] = predictions[i] \cup {PredictionKey(m)}
    BY <1>0, <2>1 DEF TypeOK
  <2>4. pending'[i][t] \subseteq IF Due(m) THEN {LastUpdateArrival(m)} ELSE {}
    BY <1>4, <2>1
  <2> HIDE DEF m
  <2>5. \A k \in predictions'[i] : \E p \in rows : k = PredictionKey(p)
    BY <2>2, <2>3 DEF KeysPersisted
  <2>6. \A a \in pending'[i][t] : Grounded(a)
    BY <2>2, <2>4 DEF Grounded
  <2> QED
    BY <2>5, <2>6
<1>6. CASE HandleVehicle(i, t)
  <2> DEFINE as == {GeofenceArrival(k, m) :
                      k \in {q \in predictions[i] :
                                /\ q.trip = m.trip
                                /\ q.stop \in InGeofence(i, m)}}
  <2>1. m.kind = VehiclePosition /\ Emit(i, t, as) /\ UNCHANGED predictions
    BY <1>6 DEF HandleVehicle
  <2>2. t = VehiclePositions /\ m \in Published(VehiclePositions)
    BY <1>2, <2>1 DEF TopicFor, Published, VehiclePosition, Prediction, Undecodable
  <2>3. pending'[i][t] \subseteq as
    BY <1>4, <2>1
  <2>4. ASSUME NEW a \in pending'[i][t]
        PROVE  Grounded(a)
    <3>1. PICK k \in predictions[i] :
             k.trip = m.trip /\ k.stop \in InGeofence(i, m) /\ a = GeofenceArrival(k, m)
      BY <2>3
    <3>2. PICK p \in rows : k = PredictionKey(p)
      BY DEF KeysPersisted
    <3>3. p.trip = m.trip /\ p.stop \in m.near
      BY <3>1, <3>2 DEF PredictionKey, InGeofence
    <3> HIDE DEF m, as
    <3> QED
      BY <2>1, <2>2, <3>1, <3>2, <3>3 DEF Grounded
  <2>5. \A k \in predictions'[i] : \E p \in rows : k = PredictionKey(p)
    BY <2>1 DEF KeysPersisted
  <2> QED
    BY <2>4, <2>5
<1> QED
  BY <1>5, <1>6 DEF HandleEvent

(* A step adds to an engine's memory and to what a consumer has to store   *)
(* only when that engine handles an event.                                 *)
LEMMA MemoryStep ==
    ASSUME DeliveryInv, [Next]_vars, NEW j \in Instances
    PROVE  /\ predictions'[j] \subseteq predictions[j]
              \/ \E t \in Topics : HandleEvent(j, t)
           /\ \A u \in Topics :
                 pending'[j][u] \subseteq pending[j][u] \/ HandleEvent(j, u)
<1>0. TypeOK
  BY DEF DeliveryInv
<1>1. ASSUME UNCHANGED <<predictions, pending>>
      PROVE  predictions'[j] \subseteq predictions[j]
             /\ \A u \in Topics : pending'[j][u] \subseteq pending[j][u]
  BY <1>1
<1>2. CASE Environment
  BY <1>1, <1>2 DEF Environment, engineVars, consumerVars
<1>3. ASSUME NEW i \in Instances, Process(i)
      PROVE  /\ predictions'[j] \subseteq predictions[j]
             /\ \A u \in Topics : pending'[j][u] \subseteq pending[j][u]
  <2>1. CASE Start(i)
    BY <1>1, <2>1 DEF Start, consumerVars
  <2>2. CASE Stop(i)
    BY <1>0, <2>2 DEF Stop, TypeOK
  <2> QED
    BY <1>3, <2>1, <2>2 DEF Process, RunReturns, Crash
<1>4. ASSUME NEW i \in Instances, NEW t \in Topics, Assign(t, i) \/ Rebalance(t, i)
      PROVE  UNCHANGED <<predictions, pending>>
  BY <1>4 DEF Assign, Rebalance, AssignTo, engineVars, consumerVars
<1>5. ASSUME NEW i \in Instances, NEW t \in Topics, ConsumerError(i, t), UNCHANGED predictions
      PROVE  /\ predictions'[j] \subseteq predictions[j]
             /\ \A u \in Topics : pending'[j][u] \subseteq pending[j][u]
  BY <1>0, <1>5 DEF ConsumerError, TypeOK
<1>6. ASSUME NEW i \in Instances, NEW t \in Topics, ConsumeFails(i, t)
      PROVE  ConsumerError(i, t) /\ UNCHANGED predictions
  BY <1>6 DEF ConsumeFails, FetchFails, InsertFails, CommitFails, engineVars
<1>7. ASSUME NEW i \in Instances, NEW t \in Topics, HandleEvent(i, t)
      PROVE  /\ predictions'[j] \subseteq predictions[j] \/ HandleEvent(j, t)
             /\ \A u \in Topics : pending'[j][u] \subseteq pending[j][u] \/ HandleEvent(j, u)
  <2>1. CASE j = i
    <3>1. \A u \in Topics : u # t => pending'[j][u] = pending[j][u]
      BY <1>0, <1>7, <2>1 DEF HandleEvent, HandlePrediction, HandleVehicle, Emit, TypeOK
    <3> QED
      BY <1>7, <2>1, <3>1
  <2>2. CASE j # i
    BY <1>0, <1>7, <2>2 DEF HandleEvent, HandlePrediction, HandleVehicle, Emit, TypeOK
  <2> QED
    BY <2>1, <2>2
<1>8. ASSUME NEW i \in Instances, NEW t \in Topics, Consume(i, t), ~HandleEvent(i, t)
      PROVE  /\ predictions'[j] \subseteq predictions[j]
             /\ \A u \in Topics : pending'[j][u] \subseteq pending[j][u]
  <2>1. CASE Fetch(i, t) \/ SkipUndecodable(i, t) \/ Commit(i, t)
    BY <1>1, <2>1 DEF Fetch, SkipUndecodable, Commit, MessageDone, engineVars
  <2>2. CASE UniqueViolation(i, t)
    BY <1>5, <2>2 DEF UniqueViolation, engineVars
  <2>3. CASE InsertArrival(i, t)
    <3>1. PICK a \in pending[i][t] : pending' = [pending EXCEPT ![i][t] = @ \ {a}]
      BY <2>3 DEF InsertArrival
    <3>2. \A u \in Topics : pending'[j][u] \subseteq pending[j][u]
      BY <1>0, <3>1 DEF TypeOK
    <3> QED
      BY <2>3, <3>2 DEF InsertArrival, engineVars
  <2> QED
    BY <1>8, <2>1, <2>2, <2>3 DEF Consume
<1>9. CASE UNCHANGED vars
  BY <1>1, <1>9 DEF vars, engineVars, consumerVars
<1> QED
  BY <1>1, <1>2, <1>3, <1>4, <1>5, <1>6, <1>7, <1>8, <1>9 DEF Next

(* What is stored was pending.                                             *)
LEMMA StoredWasPending ==
    ASSUME [Next]_vars
    PROVE  \/ UNCHANGED <<arrivals, links>>
           \/ /\ \E i \in Instances, t \in Topics : \E a \in pending[i][t] : StoreArrival(a)
              /\ UNCHANGED rows
<1>1. ASSUME NEW i \in Instances, NEW t \in Topics, InsertArrival(i, t) \/ InsertFails(i, t)
      PROVE  \/ UNCHANGED <<arrivals, links>>
             \/ (\E a \in pending[i][t] : StoreArrival(a)) /\ UNCHANGED rows
  BY <1>1 DEF InsertArrival, InsertFails
<1>2. CASE Environment
  BY <1>2 DEF Environment
<1>3. ASSUME NEW i \in Instances, Process(i)
      PROVE  UNCHANGED <<arrivals, links>>
  BY <1>3 DEF Process, Start, RunReturns, Crash, Stop, dbVars
<1>4. ASSUME NEW i \in Instances, NEW t \in Topics, Assign(t, i) \/ Rebalance(t, i)
      PROVE  UNCHANGED <<arrivals, links>>
  BY <1>4 DEF Assign, Rebalance, AssignTo, dbVars
<1>5. ASSUME NEW i \in Instances, NEW t \in Topics, Consume(i, t), ~InsertArrival(i, t)
      PROVE  UNCHANGED <<arrivals, links>>
  BY <1>5 DEF Consume, Fetch, HandleEvent, SkipUndecodable, UniqueViolation, Commit, dbVars
<1>6. ASSUME NEW i \in Instances, NEW t \in Topics, ConsumeFails(i, t), ~InsertFails(i, t)
      PROVE  UNCHANGED <<arrivals, links>>
  BY <1>6 DEF ConsumeFails, FetchFails, CommitFails, dbVars
<1>7. CASE UNCHANGED vars
  BY <1>7 DEF vars, dbVars
<1> QED
  BY <1>1, <1>2, <1>3, <1>4, <1>5, <1>6, <1>7 DEF Next

LEMMA GroundNext == DeliveryInv /\ GroundInv /\ [Next]_vars => GroundInv'
<1> SUFFICES ASSUME DeliveryInv, GroundInv, [Next]_vars PROVE GroundInv'
  OBVIOUS
<1>1. /\ rows \subseteq rows' /\ LogPersisted'
      /\ \A a : Grounded(a) => Grounded(a)'
  BY GroundGrows DEF GroundInv
<1>2. KeysPersisted'
  <2> SUFFICES ASSUME NEW j \in Instances, NEW k \in predictions'[j]
               PROVE  \E p \in rows : k = PredictionKey(p)
    BY <1>1 DEF KeysPersisted
  <2>1. CASE predictions'[j] \subseteq predictions[j]
    BY <2>1 DEF GroundInv, KeysPersisted
  <2>2. CASE \E t \in Topics : HandleEvent(j, t)
    BY <2>2, EngineGrounded
  <2> QED
    BY <2>1, <2>2, MemoryStep
<1>3. PendingGrounded'
  <2>1. ASSUME NEW j \in Instances, NEW u \in Topics, NEW a \in pending'[j][u]
        PROVE  Grounded(a)
    <3>1. CASE pending'[j][u] \subseteq pending[j][u]
      BY <3>1 DEF GroundInv, PendingGrounded
    <3>2. CASE HandleEvent(j, u)
      BY <3>2, EngineGrounded
    <3> QED
      BY <3>1, <3>2, MemoryStep
  <2> QED
    BY <1>1, <2>1 DEF PendingGrounded
<1>4. CASE UNCHANGED <<arrivals, links>>
  <2>1. (\A a \in arrivals : Grounded(a))'
    BY <1>1, <1>4 DEF GroundInv
  <2>2. DueJoined'
    BY <1>1, <1>4 DEF GroundInv, DueJoined
  <2> QED
    BY <1>1, <1>2, <1>3, <2>1, <2>2 DEF GroundInv
<1>5. ASSUME NEW i \in Instances, NEW t \in Topics, NEW a \in pending[i][t],
             StoreArrival(a), UNCHANGED rows
      PROVE  GroundInv'
  <2>1. /\ arrivals' = arrivals \cup {a} /\ Grounded(a)
        /\ links \subseteq links'
        /\ \A p \in rows : Joins(p, a) => <<p, ArrivalKey(a)>> \in links'
    BY <1>5 DEF StoreArrival, GroundInv, PendingGrounded
  <2>2. (\A b \in arrivals : Grounded(b))'
    BY <1>1, <2>1 DEF GroundInv
  <2>3. ASSUME a.method = LastUpdate
        PROVE  \E p \in rows :
                  /\ Due(p) /\ a = LastUpdateArrival(p)
                  /\ LocalDate(p.predictedAt) = ServiceDate(p.predictedAt)
                        => <<p, ArrivalKey(a)>> \in links'
    <3>1. \A k, v : GeofenceArrival(k, v).method # LastUpdate
      BY DEF GeofenceArrival, Geofence, LastUpdate
    <3>2. PICK p \in rows : Due(p) /\ a = LastUpdateArrival(p)
      BY <2>1, <2>3, <3>1 DEF Grounded
    <3>3. LocalDate(p.predictedAt) = ServiceDate(p.predictedAt) => Joins(p, a)
      BY <3>2 DEF Joins, LastUpdateArrival
    <3> QED
      BY <2>1, <3>2, <3>3
  <2>4. DueJoined'
    BY <1>5, <2>1, <2>3 DEF GroundInv, DueJoined
  <2> QED
    BY <1>1, <1>2, <1>3, <2>2, <2>4 DEF GroundInv
<1> QED
  BY <1>4, <1>5, StoredWasPending

LEMMA GroundAlways == Spec => []GroundInv
BY DeliveryInit, DeliveryNext, GroundInit, GroundNext, PTL DEF Spec

(* Every arrival comes from a persisted prediction that was due, or from a *)
(* published position near the stop of one (engine.go).                    *)
THEOREM NoArrivalInvented == Spec => []ArrivalsGrounded
<1>1. GroundInv => ArrivalsGrounded
  BY DEF GroundInv, Grounded, ArrivalsGrounded
<1> QED
  BY <1>1, GroundAlways, PTL

(* Where the two calendars agree, a last_update arrival is joined to the   *)
(* prediction that made it: its row was committed before it was published  *)
(* (runner.go, InsertArrival).                                             *)
THEOREM TriggersAreJoined == Spec => []TriggerJoined
<1>1. GroundInv => TriggerJoined
  BY DEF GroundInv, DueJoined, TriggerJoined, JoinedToTrigger
<1> QED
  BY <1>1, GroundAlways, PTL
=============================================================================
