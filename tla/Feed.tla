-------------------------------- MODULE Feed --------------------------------
(***************************************************************************)
(* One process that collects GTFS-Realtime feeds, from its environment to  *)
(* the rows it stores: LoadFrom, Fetch in both modes with its error        *)
(* classes, Decode, Normalize, the mode that the runner and InsertSnapshot *)
(* give a row, and the conditions that InsertEvents and Encode put on an   *)
(* event.  Each of these reads the mode, or checks its input, again in its *)
(* own way; the properties say that they agree.  The process may end at    *)
(* any snapshot and be started in another environment, over the same       *)
(* database.                                                               *)
(*                                                                         *)
(* A text field is empty, made of spaces only, a name, or one that a text  *)
(* column cannot hold.  A time is a number, zero when absent.  An optional *)
(* part is a set of at most one element.  A coordinate is only known as    *)
(* zero, valid, or invalid (out of range or not a number).                 *)
(***************************************************************************)
EXTENDS Config, FiniteSets, SequencesExt

CONSTANTS
    Environments, \* the environments the process may be started in
    Header,       \* timestamps a header may carry, 0 when absent
    Recorded,     \* the time at which the payload was read
    RawEntities,  \* the protobuf entities a feed may contain
    MaxEntities,  \* bound on the entities of a snapshot
    MaxInteger,   \* the largest value of an integer column, 2^31 - 1
    LastEncoded,  \* the last second of the year 9999
    LastStored    \* the last second that a timestamptz keeps, in the year 294276

\* A protobuf field that is not repeated.
OneOf(field) == \A x, y \in field : x = y

ASSUME FeedAssumption ==
    /\ \A env \in Environments : DOMAIN env = Variables
    /\ Header \subseteq Nat
    /\ {MaxInteger, LastEncoded, LastStored} \subseteq Nat
    /\ LastEncoded =< LastStored
    /\ Recorded \in 1..LastEncoded
    /\ \A raw \in RawEntities : OneOf(raw.update) /\ OneOf(raw.vehicle)
    /\ \A raw \in RawEntities : \A u \in raw.update :
        /\ u.stops \in Seq(Range(u.stops))
        /\ \A stop \in Range(u.stops) :
            /\ stop.sequence \in Nat
            /\ \A event \in {stop.arrival, stop.departure} :
                OneOf(event) /\ \A e \in event : e.time \in Nat
    /\ \A raw \in RawEntities : \A v \in raw.vehicle : v.timestamp \in Nat
    /\ MaxEntities \in Nat

Empty == "empty"
Spaces == "spaces"
Unstorable == "unstorable"        \* with a byte that text refuses, or too long for an index
Blank == {Empty, Spaces}          \* strings.TrimSpace(x) == ""

TripUpdates == "trip_updates"
VehiclePositions == "vehicle_positions"
FeedTypes == {TripUpdates, VehiclePositions}

\* What the upstream may answer.  "none" is a failed request or a read error.
Answers == {"ok", "401", "403", "429", "500", "502", "503", "504", "404", "none",
            "too_large", "malformed"}

\* What reading a fixture may give: the file has no status and no size limit.
FileAnswers == {"ok", "none", "malformed"}

VARIABLES
    settings,    \* the configuration of the running process, a set of at most one
    stored,      \* the modes of the rows of feed_snapshot, with their origins
    request,     \* where the last Fetch went, a set of at most one
    feedType,
    answer,      \* the upstream's answer, or "waiting"
    message,     \* the protobuf message of a good answer
    failure,     \* the error of this snapshot, or "no"
    snapshot,    \* the decoded entities
    events,      \* what Normalize returned
    stage        \* stopped, fetch, decode, normalize, store, done

feedVars == <<feedType, answer, message, failure, snapshot, events>>
vars == <<settings, stored, request, feedVars, stage>>

NoMessage == [timestamp |-> 0, entities |-> <<>>]

Init ==
    /\ settings = {}
    /\ stored = {}
    /\ request = {}
    /\ feedType = TripUpdates
    /\ answer = "waiting"
    /\ message = NoMessage
    /\ failure = "no"
    /\ snapshot = NoMessage
    /\ events = <<>>
    /\ stage = "stopped"

-----------------------------------------------------------------------------
(* The process.                                                            *)

\* Nothing of a snapshot outlives its turn.
Forget ==
    /\ request' = {}
    /\ answer' = "waiting"
    /\ message' = NoMessage
    /\ failure' = "no"
    /\ snapshot' = NoMessage
    /\ events' = <<>>

\* An environment that does not load ends the process at once.
Start ==
    /\ stage = "stopped"
    /\ \E env \in Environments :
        /\ LoadFrom(env) # {}
        /\ settings' = LoadFrom(env)
    /\ stage' = "fetch"
    /\ feedType' = TripUpdates
    /\ Forget
    /\ UNCHANGED stored

\* The process ends: a signal, or an error of another of its parts.
End ==
    /\ stage # "stopped"
    /\ settings' = {}
    /\ stage' = "stopped"
    /\ feedType' = TripUpdates
    /\ Forget
    /\ UNCHANGED stored

-----------------------------------------------------------------------------
(* Fetching.                                                               *)

ClassifyStatus(status) ==
    CASE status \in {"401", "403"} -> "unauthorized"
      [] status = "429" -> "rate_limited"
      [] status \in {"500", "502", "503", "504"} -> "upstream"
      [] OTHER -> "http"

FailureOf(a) ==
    CASE a = "ok" -> "no"
      [] a = "none" -> "request"
      [] a \in {"too_large", "malformed"} -> a
      [] OTHER -> ClassifyStatus(a)

Messages ==
    [timestamp : Header, entities : UNION {[1..n -> RawEntities] : n \in 0..MaxEntities}]

endpoint(c) == IF feedType = TripUpdates THEN c.STMTripUpdatesURL ELSE c.STMVehicleURL

\* The header of a key, if there is one.
Credentials(c) ==
    {[header |-> c.STMAPIKeyHeader, key |-> k] : k \in {c.STMAPIKey} \ {NoText}}

\* The client refuses to send a header that is not a token.
Sendable(c) == \A h \in Credentials(c) : HeaderToken(h.header)

\* Reading the file of the fixture, or asking the STM: anything that is not
\* exactly "fixture" is on line.
RequestOf(c) ==
    IF c.AppEnv = "fixture" THEN {[origin |-> "fixture", place |-> c.FixtureDir, headers |-> {}]}
    ELSE IF Sendable(c)
    THEN {[origin |-> "stm", place |-> endpoint(c), headers |-> Credentials(c)]}
    ELSE {}

AnswersTo(r) ==
    IF r = {} THEN {"none"}
    ELSE IF \E q \in r : q.origin = "fixture" THEN FileAnswers ELSE Answers

Fetch ==
    /\ stage = "fetch"
    /\ \E c \in settings : \E a \in AnswersTo(RequestOf(c)) :
        /\ request' = RequestOf(c)
        /\ answer' = a
        /\ failure' = FailureOf(a)
        /\ message' \in (IF a = "ok" THEN Messages ELSE {NoMessage})
        /\ stage' = IF a = "ok" THEN "decode" ELSE "done"
    /\ UNCHANGED <<settings, stored, feedType, snapshot, events>>

-----------------------------------------------------------------------------
(* Decoding.                                                               *)

FirstTime(times) ==
    LET known == {i \in DOMAIN times : times[i] > 0}
    IN  IF known = {} THEN 0 ELSE times[CHOOSE i \in known : \A j \in known : i =< j]

\* An event of a stop is an optional [time, delay].
TimeOf(event) == IF event = {} THEN 0 ELSE (CHOOSE e \in event : TRUE).time
DelayOf(event) == IF event = {} THEN {} ELSE (CHOOSE e \in event : TRUE).delay

\* Mutant: the header's timestamp comes before the departure's.
DecodeStopHeaderFirst(raw) ==
    [stop |-> raw.stop, sequence |-> raw.sequence,
     predicted |-> FirstTime(<<TimeOf(raw.arrival), message.timestamp,
                               TimeOf(raw.departure), Recorded>>),
     delay |-> DelayOf(raw.arrival)]

\* The departure counts only for an arrival without a time, and its delay only
\* when the arrival gave none.
DecodeStop(raw) ==
    [stop |-> raw.stop, sequence |-> raw.sequence,
     predicted |-> FirstTime(<<TimeOf(raw.arrival), TimeOf(raw.departure),
                               message.timestamp, Recorded>>),
     delay |-> IF TimeOf(raw.arrival) = 0 /\ DelayOf(raw.arrival) = {}
               THEN DelayOf(raw.departure) ELSE DelayOf(raw.arrival)]

\* The optional names are the route, with the vehicle of an update or the trip
\* of a position.
DecodeTripUpdate(raw) ==
    [trip |-> raw.trip, optional |-> raw.optional,
     stops |-> [i \in DOMAIN raw.stops |-> DecodeStop(raw.stops[i])]]

DecodeVehiclePosition(raw) ==
    [vehicle |-> raw.vehicle, optional |-> raw.optional,
     recorded |-> FirstTime(<<raw.timestamp, Recorded>>),
     hasPosition |-> raw.position # {},
     coordinate |-> IF raw.position = {} THEN "zero" ELSE CHOOSE c \in raw.position : TRUE]

\* Only the part that the feed is about is kept.
DecodeEntity(raw) ==
    [id |-> raw.id,
     update |-> IF feedType = TripUpdates THEN {DecodeTripUpdate(u) : u \in raw.update} ELSE {},
     position |-> IF feedType = VehiclePositions
                  THEN {DecodeVehiclePosition(v) : v \in raw.vehicle} ELSE {}]

Decode ==
    /\ stage = "decode"
    /\ snapshot' = [timestamp |-> message.timestamp,
                    entities |-> [i \in DOMAIN message.entities |->
                                    DecodeEntity(message.entities[i])]]
    /\ stage' = "normalize"
    /\ UNCHANGED <<settings, stored, request, feedType, answer, message, failure, events>>

-----------------------------------------------------------------------------
(* Normalizing.                                                            *)

\* Mutant: Normalize compares with the empty string, as InsertEvents does.
MissingExactly(name) == name = Empty

Missing(name) == name \in Blank

InvalidUpdate(u) == Missing(u.trip) \/ \E i \in DOMAIN u.stops : Missing(u.stops[i].stop)

\* Mutant: a position at 0,0 is taken for a missing one.
HasNonZeroPosition(v) == v.coordinate # "zero"

HasPosition(v) == v.hasPosition \/ v.coordinate # "zero"

InvalidPosition(v) == Missing(v.vehicle) \/ (HasPosition(v) /\ v.coordinate = "invalid")

\* An entity without the relevant part is skipped before its id is looked at.
InvalidEntity(e) ==
    /\ e.update \cup e.position # {}
    /\ \/ Missing(e.id)
       \/ \E u \in e.update : InvalidUpdate(u)
       \/ \E v \in e.position : InvalidPosition(v)

PredictionsOf(e) ==
    IF e.update = {} THEN <<>>
    ELSE LET u == CHOOSE x \in e.update : TRUE
         IN  [i \in DOMAIN u.stops |->
                [kind |-> "prediction", entity |-> e.id, recorded |-> Recorded, trip |-> u.trip,
                 optional |-> u.optional, stop |-> u.stops[i].stop,
                 sequence |-> u.stops[i].sequence, predicted |-> u.stops[i].predicted,
                 delay |-> u.stops[i].delay]]

PositionsOf(e) ==
    IF e.position = {} THEN <<>>
    ELSE LET v == CHOOSE x \in e.position : TRUE
         IN  IF ~HasPosition(v) THEN <<>>
             ELSE <<[kind |-> "vehicle_position", entity |-> e.id, recorded |-> v.recorded,
                     vehicle |-> v.vehicle, optional |-> v.optional,
                     coordinate |-> v.coordinate]>>

EventsOf(e) == PredictionsOf(e) \o PositionsOf(e)

\* The first invalid entity rejects the whole snapshot.
Normalize ==
    /\ stage = "normalize"
    /\ IF \E i \in DOMAIN snapshot.entities : InvalidEntity(snapshot.entities[i])
       THEN failure' = "normalize" /\ stage' = "done" /\ UNCHANGED events
       ELSE /\ stage' = "store"
            /\ events' = FlattenSeq([i \in DOMAIN snapshot.entities |->
                                        EventsOf(snapshot.entities[i])])
            /\ UNCHANGED failure
    /\ UNCHANGED <<settings, stored, request, feedType, answer, message, snapshot>>

\* SourceMode = AppEnv and InsertSnapshot.  What follows, and what may go wrong
\* in it, is the subject of Runner.
Store ==
    /\ stage = "store"
    /\ \E c \in settings : \E q \in request :
        stored' = stored \cup
            {[mode |-> m, origin |-> q.origin] : m \in RowMode(c.AppEnv, RepositoryMode(c.AppEnv))}
    /\ stage' = "done"
    /\ UNCHANGED <<settings, request, feedVars>>

\* The next turn of the loop of collectOnce, or of the runner.
NextFeed ==
    /\ stage = "done"
    /\ feedType' = IF feedType = TripUpdates THEN VehiclePositions ELSE TripUpdates
    /\ Forget
    /\ stage' = "fetch"
    /\ UNCHANGED <<settings, stored>>

Next == Start \/ End \/ Fetch \/ Decode \/ Normalize \/ Store \/ NextFeed

Spec == Init /\ [][Next]_vars

-----------------------------------------------------------------------------
(* What the event meets afterwards.                                        *)

\* InsertEvents compares with the empty string; the columns check the
\* coordinates and hold only so much: the sequence of a stop is a uint32 in the
\* feed and an integer in the table.  A time after LastStored counts as refused,
\* though the driver may store another in its place.
Insertable(event) ==
    /\ event.recorded \in 1..LastStored
    /\ Unstorable \notin {event.entity} \cup event.optional
    /\ IF event.kind = "prediction"
       THEN /\ {event.trip, event.stop} \cap {Empty, Unstorable} = {}
            /\ event.predicted \in 1..LastStored
            /\ event.sequence =< MaxInteger
       ELSE event.vehicle \notin {Empty, Unstorable} /\ event.coordinate # "invalid"

\* validate, on both sides of the bus, compares without the spaces.
Valid(event) ==
    /\ event.recorded > 0
    /\ IF event.kind = "prediction"
       THEN event.trip \notin Blank /\ event.stop \notin Blank /\ event.predicted > 0
       ELSE event.vehicle \notin Blank

\* Encode validates and then marshals, which refuses a year after 9999.
Encodable(event) ==
    /\ Valid(event)
    /\ event.recorded =< LastEncoded
    /\ event.kind = "prediction" => event.predicted =< LastEncoded

TopicOf(event) == IF event.kind = "prediction" THEN "trip-updates" ELSE "vehicle-positions"

-----------------------------------------------------------------------------
(* Properties.                                                             *)

TypeOK ==
    /\ feedType \in FeedTypes
    /\ answer \in Answers \cup {"waiting"}
    /\ stage \in {"stopped", "fetch", "decode", "normalize", "store", "done"}
    /\ settings = {} <=> stage = "stopped"
    /\ Cardinality(settings) =< 1 /\ Cardinality(request) =< 1
    /\ Len(message.entities) =< MaxEntities
    /\ failure \in {"no", "unauthorized", "rate_limited", "upstream", "http", "request",
                   "too_large", "malformed", "normalize"}

\* What the columns and JSON can hold of an entity, and of a whole payload.
InRange(raw) ==
    /\ raw.id # Unstorable
    /\ \A u \in raw.update :
        /\ Unstorable \notin {u.trip} \cup u.optional
        /\ \A stop \in Range(u.stops) :
            /\ stop.stop # Unstorable
            /\ stop.sequence =< MaxInteger
            /\ \A event \in {stop.arrival, stop.departure} : \A e \in event : e.time =< LastEncoded
    /\ \A v \in raw.vehicle :
        /\ Unstorable \notin {v.vehicle} \cup v.optional
        /\ v.timestamp =< LastEncoded

PayloadInRange ==
    message.timestamp =< LastEncoded /\ \A raw \in Range(message.entities) : InRange(raw)

\* The checks of an event in its four places agree: of a payload whose numbers,
\* times and names the columns and JSON can hold, no event that Normalize lets
\* through makes the transaction of InsertEvents fail for the others, and none
\* is stored that Encode or a consumer's Decode would then refuse; each goes to
\* the topic of its feed (normalize.go, postgres.go:133-162, event.go:23-79).
NormalizedIsAccepted ==
    \A event \in Range(events) :
        /\ PayloadInRange => Insertable(event) /\ Encodable(event)
        /\ TopicOf(event) = IF feedType = TripUpdates THEN "trip-updates" ELSE "vehicle-positions"

\* Not so of every payload: nothing bounds a sequence, a time or the bytes of a
\* name before the database and the encoder do.
EveryPayloadAccepted == \A event \in Range(events) : Insertable(event) /\ Encodable(event)

\* The events that a payload's entity stands for, and the same view of an event.
Wanted(raw) ==
    LET stops == UNION {{<<u.stops[i].stop, i>> : i \in DOMAIN u.stops} : u \in raw.update}
        located == {v.vehicle : v \in {w \in raw.vehicle : w.position # {}}}
    IN  IF feedType = TripUpdates
        THEN [i \in 1..Cardinality(stops) |->
                <<raw.id, (CHOOSE x \in stops : x[2] = i)[1]>>]
        ELSE SetToSeq({<<raw.id, v>> : v \in located})

Got(event) ==
    <<event.entity, IF event.kind = "prediction" THEN event.stop ELSE event.vehicle>>

\* A snapshot is taken whole or not at all: either it is refused, or it gives
\* one event for each stop update and each position with coordinates of the
\* payload, in the payload's order (normalize.go:24-56).
WholeOrNothing ==
    stage \in {"store", "done"} /\ answer = "ok" =>
        \/ failure = "normalize" /\ events = <<>>
        \/ /\ failure = "no"
           /\ [i \in DOMAIN events |-> Got(events[i])] =
              FlattenSeq([i \in DOMAIN message.entities |-> Wanted(message.entities[i])])

\* A stop update that carries a time of its own keeps it: only one without any
\* falls back on the header or on the clock, which the matcher takes for an
\* arrival as soon as they have passed (gtfsrt.go:224-244, engine.go:60).
OwnTimeKept ==
    \A i \in DOMAIN events :
        events[i].kind = "prediction" =>
            LET raws == FlattenSeq([k \in DOMAIN message.entities |->
                            IF message.entities[k].update = {} THEN <<>>
                            ELSE (CHOOSE u \in message.entities[k].update : TRUE).stops])
                own == {TimeOf(raws[i].arrival), TimeOf(raws[i].departure)} \ {0}
            IN  IF own # {} THEN events[i].predicted \in own
                ELSE events[i].predicted \in {message.timestamp, Recorded}

\* The mode is read in six places, with and without the case, and they are of
\* one mind: a process asks the STM if and only if its store serves the rows of
\* the stm mode, it is the one that imports the schedule, and it knows where to
\* find the stops; and a row says where its payload came from, whatever the
\* processes that ran before (config.go:59-76, gtfsrt.go:118, runner.go:122,
\* postgres.go:43-48 and 92-98, render/main.go:37).
OneMode ==
    /\ \A row \in stored : row.mode = row.origin
    /\ \A c \in settings :
        LET online == c.AppEnv # "fixture"
        IN  /\ online <=> RepositoryMode(c.AppEnv) = "stm"
            /\ online <=> ImportsSchedule(c)
            /\ online => AbsoluteURL(c.MatcherStopsURL)

\* A request that leaves for the STM carries the key, in a header the STM can
\* read, and a process that reads fixtures sends nothing (config.go:121-137,
\* gtfsrt.go:118-147).
RequestsAuthenticated ==
    \A q \in request :
        IF q.origin = "fixture" THEN q.headers = {}
        ELSE /\ AbsoluteURL(q.place)
             /\ \E h \in q.headers : h.key # NoText /\ HeaderToken(h.header)
=============================================================================
