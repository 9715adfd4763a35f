--------------------------- MODULE ServingProofs ---------------------------
(***************************************************************************)
(* What the vehicles query answers, for any number of vehicles, trips,     *)
(* rows and modes, any windows and any clock.                              *)
(***************************************************************************)
EXTENDS Serving, TLAPS

\* The two tables hold rows of their type: what the query compares are numbers.
Tabled ==
    /\ positions \in Seq(Position)
    /\ predictions \in Seq(Prediction)
    /\ now \in Nat

LEMMA TabledInit == Init => Tabled
BY DEF Init, Tabled

LEMMA TabledStep == Tabled /\ [Next]_vars => Tabled'
<1> SUFFICES ASSUME Tabled, [Next]_vars PROVE Tabled'
  OBVIOUS
<1>. USE DEF Tabled
<1>1. CASE StorePosition
  <2>1. PICK v \in Vehicles, t \in Optional(Trips), r \in BOOLEAN, m \in Modes, lag \in Lags :
          positions' = Append(positions,
              [vehicle |-> v, trip |-> t, routed |-> r, mode |-> m, at |-> now - lag])
    BY <1>1 DEF StorePosition
  <2>2. [vehicle |-> v, trip |-> t, routed |-> r, mode |-> m, at |-> now - lag] \in Position
    BY ServingAssumption DEF Position
  <2>3. positions' \in Seq(Position)
    BY <2>1, <2>2
  <2> QED BY <1>1, <2>3 DEF StorePosition
<1>2. CASE StorePrediction
  <2>1. PICK t \in Trips, v \in Optional(Vehicles), m \in Modes, ahead \in -1..1, d \in BOOLEAN :
          predictions' = Append(predictions,
              [trip |-> t, vehicle |-> v, mode |-> m, at |-> now,
               predicted |-> now + ahead, hasDelay |-> d])
    BY <1>2 DEF StorePrediction
  <2>2. [trip |-> t, vehicle |-> v, mode |-> m, at |-> now,
         predicted |-> now + ahead, hasDelay |-> d] \in Prediction
    BY DEF Prediction
  <2>3. predictions' \in Seq(Prediction)
    BY <2>1, <2>2
  <2> QED BY <1>2, <2>3 DEF StorePrediction
<1>3. CASE Tick
  BY <1>3 DEF Tick
<1>4. CASE UNCHANGED vars
  BY <1>4 DEF vars
<1> QED BY <1>1, <1>2, <1>3, <1>4 DEF Next

LEMMA TabledAlways == Spec => []Tabled
BY TabledInit, TabledStep, PTL DEF Spec

\* The rows of a table are numbered and have numbers for times.
LEMMA PositionsTyped ==
    ASSUME Tabled, NEW i \in DOMAIN positions
    PROVE  i \in Int /\ positions[i].at \in Int
<1>1. i \in Int /\ positions[i] \in Position
  BY DEF Tabled
<1> QED BY <1>1 DEF Position

LEMMA PredictionsTyped ==
    ASSUME Tabled, NEW k \in DOMAIN predictions
    PROVE  k \in Int /\ predictions[k].at \in Int /\ predictions[k].predicted \in Int
<1>1. k \in Int /\ predictions[k] \in Prediction
  BY DEF Tabled
<1> QED BY <1>1 DEF Prediction

\* What may be served is the latest position of its vehicle.
LEMMA ServedIsLatest == Served \subseteq Selected /\ Selected \subseteq Latest
BY DEF Served, Selected

-----------------------------------------------------------------------------
\* No delay shown beside a vehicle is older than the two windows together allow
\* (postgres.go LatestVehicles, the lateral join's BETWEEN and its OR).
THEOREM DelaysAreRecent == Spec => []DelayAgeBounded
<1>1. Tabled => DelayAgeBounded
  <2> SUFFICES ASSUME Tabled, NEW i \in Served, NEW k \in DelayOf(i)
               PROVE  \/ predictions[k].at >= now - Recent
                      \/ predictions[k].at >= now - Window - Near
    BY DEF DelayAgeBounded
  <2>1. i \in DOMAIN positions /\ positions[i].at >= now - Window
    BY ServedIsLatest DEF Selected, Latest
  <2>2. k \in DOMAIN predictions /\ Timely(predictions[k], i)
    BY DEF DelayOf, Candidates
  <2>3. positions[i].at \in Int /\ predictions[k].at \in Int
    BY <2>1, <2>2, PositionsTyped, PredictionsTyped
  <2> QED BY <2>1, <2>2, <2>3, ServingAssumption DEF Timely, Tabled
<1> QED BY <1>1, TabledAlways, PTL

\* A delay of the trip the vehicle runs is never passed over for one of another
\* trip of the same vehicle (the first key of the lateral join's ORDER BY).
THEOREM OwnTripsWin == Spec => []OwnTripFirst
<1>1. OwnTripFirst
  <2> SUFFICES ASSUME NEW i \in Served, NEW k \in DelayOf(i),
                      ~SameTrip(predictions[k], i), NEW l \in Candidates(i)
               PROVE  ~SameTrip(predictions[l], i)
    BY DEF OwnTripFirst
  <2>1. Preferred(k, l, i)
    BY DEF DelayOf
  <2> QED BY <2>1 DEF Preferred
<1> QED BY <1>1, PTL

\* The answer is a function of the tables and the clock: one row a vehicle and
\* at most one delay a row, whatever plan PostgreSQL runs.
AnswerDetermined ==
    /\ \A i, j \in Served : positions[i].vehicle = positions[j].vehicle => i = j
    /\ \A i \in Served : \A k, l \in DelayOf(i) : k = l

\* Rank, the order of the predictions, leaves no two rows level.
LEMMA RankSeparates ==
    ASSUME Tabled, NEW k \in DOMAIN predictions, NEW l \in DOMAIN predictions,
           Rank(k, l), Rank(l, k)
    PROVE  k = l
<1>1. /\ k \in Int /\ l \in Int
      /\ predictions[k].at \in Int /\ predictions[l].at \in Int
      /\ predictions[k].predicted \in Int /\ predictions[l].predicted \in Int
  BY PredictionsTyped
<1>2. predictions[k].at = predictions[l].at
  BY <1>1 DEF Rank
<1>3. Upcoming(predictions[k]) <=> Upcoming(predictions[l])
  BY <1>1, <1>2 DEF Rank
<1>4. predictions[k].predicted = predictions[l].predicted
  BY <1>1, <1>2, <1>3 DEF Rank
<1> QED BY <1>1, <1>2, <1>3, <1>4 DEF Rank

\* The two ORDER BY clauses of the query and of its view, down to the row's id,
\* leave no choice to the database (postgres.go LatestVehicles, 004_views.sql).
THEOREM OneAnswer == Spec => []AnswerDetermined
<1>1. Tabled => AnswerDetermined
  <2> SUFFICES ASSUME Tabled PROVE AnswerDetermined
    OBVIOUS
  <2>1. ASSUME NEW i \in Served, NEW j \in Served, positions[i].vehicle = positions[j].vehicle
        PROVE  i = j
    <3>1. i \in DOMAIN positions /\ j \in DOMAIN positions /\ Newer(i, j) /\ Newer(j, i)
      BY <2>1, ServedIsLatest DEF Latest
    <3>2. i \in Int /\ j \in Int /\ positions[i].at \in Int /\ positions[j].at \in Int
      BY <3>1, PositionsTyped
    <3> QED BY <3>1, <3>2 DEF Newer
  <2>2. ASSUME NEW i \in Served, NEW k \in DelayOf(i), NEW l \in DelayOf(i)
        PROVE  k = l
    <3>1. /\ k \in DOMAIN predictions /\ l \in DOMAIN predictions
          /\ Preferred(k, l, i) /\ Preferred(l, k, i)
      BY DEF DelayOf, Candidates
    <3>2. Rank(k, l) /\ Rank(l, k)
      BY <3>1 DEF Preferred
    <3> QED BY <3>1, <3>2, RankSeparates
  <2> QED BY <2>1, <2>2 DEF AnswerDetermined
<1> QED BY <1>1, TabledAlways, PTL

\* An event stored late, with an older time of its own, never takes the place
\* of a newer position (004_views.sql, DISTINCT ON by recorded_at first).
THEOREM VehiclesAdvance == Spec => NeverBehind
<1>1. ASSUME Tabled, Tabled', [Next]_vars
      PROVE  \A i \in Served, j \in Served' :
                positions[i].vehicle = positions'[j].vehicle => positions'[j].at >= positions[i].at
  <2> SUFFICES ASSUME NEW i \in Served, NEW j \in Served',
                      positions[i].vehicle = positions'[j].vehicle
               PROVE  positions'[j].at >= positions[i].at
    OBVIOUS
  <2>1. i \in DOMAIN positions
    BY ServedIsLatest DEF Latest
  <2>2. i \in DOMAIN positions' /\ positions'[i] = positions[i]
    <3>1. CASE StorePosition
      <4>1. PICK row : positions' = Append(positions, row)
        BY <3>1 DEF StorePosition
      <4> QED BY <1>1, <2>1, <4>1 DEF Tabled
    <3>2. CASE StorePrediction \/ Tick \/ UNCHANGED vars
      BY <2>1, <3>2 DEF StorePrediction, Tick, vars
    <3> QED BY <1>1, <3>1, <3>2 DEF Next
  <2>3. j \in Latest'
    BY DEF Served, Selected
  <2>4. j \in DOMAIN positions' /\ Newer(j, i)'
    BY <2>2, <2>3 DEF Latest
  <2>5. positions'[i] \in Position /\ positions'[j] \in Position
    BY <1>1, <2>2, <2>4 DEF Tabled
  <2>6. positions'[i].at \in Int /\ positions'[j].at \in Int
    BY <2>5 DEF Position
  <2> QED BY <2>2, <2>4, <2>6 DEF Newer
<1>2. Tabled /\ Tabled' /\ [Next]_vars =>
        [\A i \in Served, j \in Served' :
            positions[i].vehicle = positions'[j].vehicle => positions'[j].at >= positions[i].at]_vars
  BY <1>1
<1> QED BY <1>2, TabledAlways, PTL DEF Spec, NeverBehind
=============================================================================
