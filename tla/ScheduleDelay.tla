--------------------------- MODULE ScheduleDelay ---------------------------
(***************************************************************************)
(* The delay that InsertEvents stores with a prediction: the feed's own    *)
(* delay when it gives one, else the difference with a planned time that   *)
(* deriveScheduleDelay selects in the static schedule of the trip.         *)
(*                                                                         *)
(* Times are Toronto wall-clock times in an abstract unit, Day units to a  *)
(* day; the two AT TIME ZONE conversions of the query cancel out except on *)
(* the two days a year when the clock changes, which are left out.  A      *)
(* planned time counts from the midnight of the service day and may exceed *)
(* Day (25:10:00), as in GTFS.                                             *)
(***************************************************************************)
EXTENDS Integers, FiniteSets

CONSTANTS
    Day,         \* units in a day
    Stops,       \* stop identifiers
    Sequences,   \* stop sequences of the schedule; 0 stands for absent
    Planned,     \* planned times
    Predicted,   \* predicted wall-clock times
    MaxRows      \* bound on the rows of the trip's schedule

ASSUME ScheduleAssumption ==
    /\ Day \in Nat \ {0}
    /\ Sequences \subseteq Nat \ {0}
    /\ Planned \subseteq Nat
    /\ Predicted \subseteq Nat

VARIABLES
    stopTimes,   \* the trip's rows of gtfs_stop_time
    pending,     \* the prediction the loop of InsertEvents is at, if any
    delay        \* its delay_seconds: a singleton, or {} for NULL

delayVars == <<stopTimes, pending, delay>>

\* An optional value is a set of at most one element.
Optional(S) == {{}} \cup {{x} : x \in S}

StopTime == [stop : Stops, sequence : Sequences, arrival : Optional(Planned),
             departure : Optional(Planned)]

\* serviceDay is the midnight of the day the trip is run for.  The feed gives
\* it in the trip descriptor; the decoder drops it and no query sees it.
Prediction == [stop : Stops, sequence : Sequences \cup {0}, predicted : Predicted,
               given : Optional({0, 1}), serviceDay : {0, Day}]

\* What can happen: a trip is predicted on its service day or on the next.
Coherent(p) == p.predicted - p.serviceDay \in 0..(2 * Day - 1)

DelayInit ==
    /\ stopTimes \in {{}} \cup {{f[i] : i \in 1..MaxRows} : f \in [1..MaxRows -> StopTime]}
    /\ pending = {}
    /\ delay = {}

-----------------------------------------------------------------------------
\* COALESCE(arrival_seconds, departure_seconds).
PlannedTime(row) == IF row.arrival # {} THEN row.arrival ELSE row.departure

Scheduled == {row \in stopTimes : PlannedTime(row) # {}}

\* The date is the one of the predicted time.
ScheduledAt(row, p) ==
    LET midnight == p.predicted - (p.predicted % Day)
    IN  midnight + (CHOOSE t \in PlannedTime(row) : TRUE)

MatchPriority(row, p) ==
    CASE row.stop = p.stop /\ p.sequence \in {0, row.sequence} -> 0
      [] p.sequence > 0 /\ row.sequence = p.sequence /\ row.stop # p.stop -> 1
      [] OTHER -> 2

Gap(row, p) ==
    LET d == p.predicted - ScheduledAt(row, p) IN IF d < 0 THEN -d ELSE d

\* Mutant: the last key of the ORDER BY is forgotten.
PrecedesWithoutTime(r, s, p) ==
    LET pr == MatchPriority(r, p)
        ps == MatchPriority(s, p)
    IN  \/ pr < ps
        \/ /\ pr = ps
           /\ pr = 2 => Gap(r, p) =< Gap(s, p)

\* Mutant: the closest planned time wins, whatever its stop.
PrecedesByGap(r, s, p) == Gap(r, p) =< Gap(s, p)

\* ORDER BY match_priority, the gap when nothing matches, scheduled_at.
Precedes(r, s, p) ==
    LET pr == MatchPriority(r, p)
        ps == MatchPriority(s, p)
        gr == IF pr = 2 THEN Gap(r, p) ELSE 0
        gs == IF ps = 2 THEN Gap(s, p) ELSE 0
    IN  \/ pr < ps
        \/ pr = ps /\ gr < gs
        \/ pr = ps /\ gr = gs /\ ScheduledAt(r, p) =< ScheduledAt(s, p)

\* The rows that LIMIT 1 may keep: the engine is free to choose among ties.
Selected(p) == {r \in Scheduled : \A s \in Scheduled : Precedes(r, s, p)}

DerivedDelays(p) ==
    IF Scheduled = {} THEN {{}} ELSE {{p.predicted - ScheduledAt(r, p)} : r \in Selected(p)}

-----------------------------------------------------------------------------
\* One prediction of the loop: its own delay if the feed gave one.
InsertPrediction(p) ==
    /\ pending = {}
    /\ Coherent(p)
    /\ pending' = {p}
    /\ delay' \in (IF p.given # {} THEN {p.given} ELSE DerivedDelays(p))
    /\ UNCHANGED stopTimes

NextEvent ==
    /\ pending # {}
    /\ pending' = {}
    /\ delay' = {}
    /\ UNCHANGED stopTimes

DelayNext == NextEvent \/ \E p \in Prediction : InsertPrediction(p)

DelaySpec == DelayInit /\ [][DelayNext]_delayVars

-----------------------------------------------------------------------------
(* Properties.                                                             *)

DelayTypeOK ==
    /\ stopTimes \subseteq StopTime
    /\ pending \in Optional(Prediction)
    /\ \A d \in delay : d \in Int
    /\ Cardinality(delay) =< 1

\* Two ingesters that store the same prediction against the same schedule
\* store the same delay: the order of the query leaves LIMIT 1 no choice that
\* matters, not even for a trip that serves a stop twice (postgres.go:217-226).
DelayDeterministic ==
    \A p \in pending : p.given = {} => Cardinality(DerivedDelays(p)) = 1

\* When the trip serves the predicted stop under the predicted sequence, on
\* the calendar day of the prediction, the delay is the difference with a
\* planned time of that very stop, however close the other stops' times are.
OwnStopFirst ==
    \A p \in pending :
        LET own == {r \in Scheduled : r.stop = p.stop /\ p.sequence \in {0, r.sequence}}
        IN  p.given = {} /\ own # {} /\ p.predicted - p.serviceDay < Day =>
                \E r \in own : delay = {p.predicted - (p.serviceDay + t) : t \in PlannedTime(r)}

\* What deploy/render/README.md:42-44 says: the planned time is the one of the
\* same trip and the same stop.
SameStopOnly ==
    \A p \in pending :
        p.given = {} /\ delay # {} => \E r \in Scheduled : r.stop = p.stop

\* What docs/resultats.md:14-15 says: times past midnight are kept.  A bus
\* predicted at its planned time, which lies past midnight, is not late.
PastMidnightKept ==
    \A p \in pending, r \in Scheduled :
        (/\ p.given = {}
         /\ r.stop = p.stop /\ r.sequence = p.sequence
         /\ Cardinality({s \in Scheduled : s.sequence = r.sequence}) = 1
         /\ \E t \in PlannedTime(r) : t >= Day /\ p.predicted = p.serviceDay + t)
        => delay = {0}
=============================================================================
