------------------------------ MODULE Serving -------------------------------
(***************************************************************************)
(* What the vehicles query shows of the stored events: LatestVehicles      *)
(* picks the newest position of each vehicle, drops the stale ones and     *)
(* joins a delay taken from the predictions of its trip or of the vehicle. *)
(*                                                                         *)
(* The ingesters of the two source modes write to one database.  A row is  *)
(* identified by its place in its table, as by its bigserial key.  The     *)
(* decoder gives positions no delay of their own, so a served delay always *)
(* comes from a prediction, which the model names instead of the delay.    *)
(***************************************************************************)
EXTENDS Integers, Sequences, FiniteSets

CONSTANTS
    Vehicles,      \* vehicle identifiers
    Trips,         \* trip identifiers
    Modes,         \* source modes
    OwnMode,       \* the mode of the serving process
    Window,        \* FRESHNESS_WINDOW
    Near,          \* the 5 minutes around a position
    Recent,        \* the 15 minutes of a fresh prediction
    Lags,          \* how old an event may be when it is stored
    MaxNow,        \* bound on the clock
    MaxRows        \* bound on the rows of the two tables together

ASSUME ServingAssumption ==
    /\ OwnMode \in Modes
    /\ {Window, Near, Recent} \subseteq Nat
    /\ Lags \subseteq Nat
    /\ {MaxNow, MaxRows} \subseteq Nat

VARIABLES
    positions,     \* table vehicle_position, with the mode of its snapshot
    predictions,   \* table prediction, with the mode of its snapshot
    now            \* the clock of the processes and of PostgreSQL

vars == <<positions, predictions, now>>

\* An optional value is a set of at most one element.
Optional(S) == {{}} \cup {{x} : x \in S}

\* A position without a trip descriptor has NULL trip_id and route_id, and a
\* descriptor may lack either.
Position == [vehicle : Vehicles, trip : Optional(Trips), routed : BOOLEAN, mode : Modes, at : Int]

Prediction == [trip : Trips, vehicle : Optional(Vehicles), mode : Modes,
               at : Int, predicted : Int, hasDelay : BOOLEAN]

Init ==
    /\ positions = <<>>
    /\ predictions = <<>>
    /\ now = 0

-----------------------------------------------------------------------------
(* The query.                                                              *)

\* Mutant: ORDER BY event_id DESC.
NewerById(i, j) == i >= j

\* View latest_vehicle_positions: DISTINCT ON (vehicle_id), in the order of
\* recorded_at DESC, event_id DESC, over the positions of all modes.
Newer(i, j) ==
    \/ positions[i].at > positions[j].at
    \/ positions[i].at = positions[j].at /\ i >= j

Latest ==
    {i \in DOMAIN positions :
        \A j \in DOMAIN positions :
            positions[j].vehicle = positions[i].vehicle => Newer(i, j)}

\* WHERE vehicle.recorded_at >= $1 AND snapshot.source_mode = $2.
Selected ==
    {i \in Latest : positions[i].at >= now - Window /\ positions[i].mode = OwnMode}

\* Mutant: the lower bound of the BETWEEN is forgotten.
TimelyBefore(p, i) == p.at =< positions[i].at + Near \/ p.at >= now - Recent

\* The predictions that the lateral join may take for position i.
Timely(p, i) ==
    \/ p.at \in (positions[i].at - Near)..(positions[i].at + Near)
    \/ p.at >= now - Recent

SameTrip(p, i) == positions[i].trip = {p.trip}

Candidates(i) ==
    {k \in DOMAIN predictions :
        LET p == predictions[k]
        IN  /\ p.hasDelay
            /\ p.mode = OwnMode
            /\ Timely(p, i)
            /\ SameTrip(p, i) \/ p.vehicle = {positions[i].vehicle}}

Upcoming(p) == p.predicted >= now

\* The order after the trip: the newest prediction, then the next stop, then
\* the last one passed, then the newest row.
Rank(k, l) ==
    LET p == predictions[k]
        q == predictions[l]
        closer == IF Upcoming(p) THEN p.predicted < q.predicted ELSE p.predicted > q.predicted
    IN  \/ p.at > q.at
        \/ /\ p.at = q.at
           /\ \/ Upcoming(p) /\ ~Upcoming(q)
              \/ /\ Upcoming(p) <=> Upcoming(q)
                 /\ closer \/ (p.predicted = q.predicted /\ k >= l)

\* Mutant: the newest prediction wins, whichever its trip.
PreferredByRank(k, l, i) == Rank(k, l)

Preferred(k, l, i) ==
    LET own == SameTrip(predictions[k], i)
        other == SameTrip(predictions[l], i)
    IN  (own /\ ~other) \/ ((own <=> other) /\ Rank(k, l))

\* LIMIT 1 of a LEFT JOIN.
DelayOf(i) == {k \in Candidates(i) : \A l \in Candidates(i) : Preferred(k, l, i)}

\* Row i cannot be scanned: a NULL column, of the trip or of the route, into a
\* Go string.
Unscannable(i) == positions[i].trip = {} \/ ~positions[i].routed

\* Rows are scanned one by one and the first failure ends the query.
Available == \A i \in Selected : ~Unscannable(i)

\* The answer to the vehicles query; no vehicle at all when it fails.
Served == IF Available THEN Selected ELSE {}

-----------------------------------------------------------------------------
(* What changes the answer.                                                *)

Room == Len(positions) + Len(predictions) < MaxRows

\* An event may carry an older time of its own than the one it is stored at.
StorePosition ==
    /\ Room
    /\ \E v \in Vehicles, t \in Optional(Trips), r \in BOOLEAN, m \in Modes, lag \in Lags :
         positions' = Append(positions,
             [vehicle |-> v, trip |-> t, routed |-> r, mode |-> m, at |-> now - lag])
    /\ UNCHANGED <<predictions, now>>

StorePrediction ==
    /\ Room
    /\ \E t \in Trips, v \in Optional(Vehicles), m \in Modes, ahead \in -1..1, d \in BOOLEAN :
         predictions' = Append(predictions,
             [trip |-> t, vehicle |-> v, mode |-> m, at |-> now,
              predicted |-> now + ahead, hasDelay |-> d])
    /\ UNCHANGED <<positions, now>>

Tick ==
    /\ now < MaxNow
    /\ now' = now + 1
    /\ UNCHANGED <<positions, predictions>>

Next == StorePosition \/ StorePrediction \/ Tick

Spec == Init /\ [][Next]_vars

-----------------------------------------------------------------------------
(* Properties.                                                             *)

TypeOK ==
    /\ positions \in Seq(Position)
    /\ predictions \in Seq(Prediction)
    /\ now \in 0..MaxNow
    /\ Len(positions) + Len(predictions) =< MaxRows

\* A delay shown beside a vehicle was predicted less than 15 minutes ago, or
\* at most 5 minutes before a position that is itself still fresh: an old
\* prediction of the vehicle never resurfaces when the newer ones expire.
DelayAgeBounded ==
    \A i \in Served : \A k \in DelayOf(i) :
        \/ predictions[k].at >= now - Recent
        \/ predictions[k].at >= now - Window - Near

\* The delay of another trip of the same vehicle is shown only while there is
\* no delay for the trip the vehicle says it runs, however newer it is.
OwnTripFirst ==
    \A i \in Served : \A k \in DelayOf(i) :
        SameTrip(predictions[k], i) \/ \A l \in Candidates(i) : ~SameTrip(predictions[l], i)

\* From one answer to the next a vehicle may disappear but never goes back in
\* time: an event stored late does not replace a newer position.
NeverBehind ==
    [][\A i \in Served, j \in Served' :
         positions[i].vehicle = positions'[j].vehicle => positions'[j].at >= positions[i].at]_vars

\* What schema.graphqls:12-13 says (routeId and tripId are nullable) and the
\* resolvers' optionalString serves: a fresh vehicle without a trip or a route
\* is in the answer, with null for what it lacks.
RoutelessVehicleServed ==
    \A i \in Selected : positions[i].trip = {} \/ ~positions[i].routed => i \in Served
=============================================================================
