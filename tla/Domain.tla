------------------------------- MODULE Domain -------------------------------
(***************************************************************************)
(* The data every part of Ponctuel exchanges: normalised feed events, the  *)
(* arrivals deduced from them and the calendars their dates are read in.   *)
(*                                                                         *)
(* A time is a number of hours since an epoch that is midnight UTC.  A     *)
(* coordinate is abstracted to the set of stops it lies within the         *)
(* geofence radius of: all the code asks of it.  Confidence, reason,       *)
(* route, vehicle and stop sequence are left out.                          *)
(***************************************************************************)
EXTENDS Integers

CONSTANTS
    Trips,          \* trip_id values
    Stops,          \* stop_id values
    Times,          \* the instants the feeds carry
    DayLength,      \* hours in a day (24)
    TorontoOffset,  \* hours Toronto is behind UTC (4 in summer, 5 in winter)
    Feed            \* the normalised events the two feeds may carry

Prediction == "prediction"
VehiclePosition == "vehicle_position"

LastUpdate == "last_update"
Geofence == "geofence"

TripUpdates == "trip-updates"
VehiclePositions == "vehicle-positions"
Topics == {TripUpdates, VehiclePositions}

(* events.TopicFor                                                         *)
TopicFor(e) == IF e.kind = Prediction THEN TripUpdates ELSE VehiclePositions

(* services/events: a message that Decode refuses.                         *)
Undecodable == [kind |-> "undecodable"]

PredictionEvent ==
    [kind : {Prediction}, trip : Trips, stop : Stops,
     recordedAt : Times, predictedAt : Times]

VehicleEvent ==
    [kind : {VehiclePosition}, trip : Trips, near : SUBSET Stops,
     recordedAt : Times]

ASSUME CalendarAssumption ==
    /\ Times \subseteq Nat
    /\ DayLength \in Nat \ {0}
    /\ TorontoOffset \in Nat

ASSUME FeedAssumption == Feed \subseteq PredictionEvent \cup VehicleEvent

(* The matcher's calendar: the UTC day (engine.go serviceDate).            *)
ServiceDate(t) == t \div DayLength

(* The calendar of the prediction table: the day in America/Toronto.       *)
LocalDate(t) == (t - TorontoOffset) \div DayLength

(* time.Time.After, negated: the prediction was already due when recorded. *)
Due(p) == p.predictedAt <= p.recordedAt

PredictionKey(p) ==
    [trip |-> p.trip, date |-> ServiceDate(p.predictedAt), stop |-> p.stop]

Dates == {ServiceDate(t) : t \in Times}

PredictionKeys == [trip : Trips, date : Dates, stop : Stops]

Arrivals ==
    [trip : Trips, date : Dates, stop : Stops, method : {LastUpdate, Geofence},
     observedAt : Times]

(* (trip_id, service_date, stop_id, method), the key of                    *)
(* arrival_observed_logical_method_idx and of the engine's own memory.     *)
ArrivalKey(a) ==
    [trip |-> a.trip, date |-> a.date, stop |-> a.stop, method |-> a.method]

ArrivalKeys == [trip : Trips, date : Dates, stop : Stops,
                method : {LastUpdate, Geofence}]

KeysOf(as) == {ArrivalKey(a) : a \in as}

(* The prediction rows an arrival is joined to when it is stored.          *)
Joins(p, a) ==
    /\ p.trip = a.trip
    /\ p.stop = a.stop
    /\ LocalDate(p.predictedAt) = a.date

(* The arrival that a due prediction makes the engine emit.                *)
LastUpdateArrival(p) ==
    [trip |-> p.trip, date |-> ServiceDate(p.predictedAt), stop |-> p.stop,
     method |-> LastUpdate, observedAt |-> p.recordedAt]

(* The arrival that a vehicle near the stop of a known prediction makes    *)
(* the engine emit.                                                        *)
GeofenceArrival(k, v) ==
    [trip |-> k.trip, date |-> k.date, stop |-> k.stop,
     method |-> Geofence, observedAt |-> v.recordedAt]
=============================================================================
