------------------------------- MODULE MCFeed -------------------------------
(* Entities that differ in what the checks look at: names, parts, times,   *)
(* delays and coordinates, and those that the columns or JSON cannot hold. *)
(* The clock reads 3, the header nothing, 2, or a time past the year 9999. *)
EXTENDS Feed

At(t, d) == {[time |-> t, delay |-> d]}
Stop(s, a, d) == [stop |-> s, sequence |-> 1, arrival |-> a, departure |-> d]
Update(t, stops) == {[trip |-> t, optional |-> {"r"}, stops |-> stops]}
Vehicle(v, ts, p) == {[vehicle |-> v, optional |-> {}, timestamp |-> ts, position |-> p]}
Entity(id, u, v) == [id |-> id, update |-> u, vehicle |-> v]

MCHeader == {0, 2, LastEncoded + 1}

Names == {Empty, Spaces, "x"}

MCUpdates ==
    {Update(t, <<Stop(s, At(5, {}), {})>>) : t \in Names, s \in Names}
    \cup {Update("x", <<Stop("x", a, d), Stop("y", {}, {})>>) :
            a \in {{}, At(0, {7}), At(4, {})}, d \in {{}, At(6, {8})}}
    \cup {Update("x", <<>>)}

MCVehicles ==
    {Vehicle(v, ts, p) : v \in Names, ts \in {0, 1},
                         p \in {{}, {"zero"}, {"valid"}, {"invalid"}}}

\* One value at its limit or past it, in a prediction and in a position.
Extremes ==
    {Entity("e", Update("x", <<[Stop("x", At(5, {}), {}) EXCEPT !.sequence = n]>>), {}) :
        n \in {MaxInteger, MaxInteger + 1}}
    \cup {Entity("e", Update("x", <<Stop("x", {}, At(t, {}))>>), {}) :
            t \in {LastEncoded, LastEncoded + 1, LastStored + 1}}
    \cup {Entity("e", {}, Vehicle("x", t, {"valid"})) :
            t \in {LastEncoded, LastEncoded + 1, LastStored + 1}}
    \cup {Entity(Unstorable, {}, Vehicle("x", 1, {"valid"})),
          Entity("e", {[trip |-> "x", optional |-> {Unstorable}, stops |-> <<Stop("x", {}, {})>>]}, {}),
          Entity("e", Update("x", <<Stop("x", {}, {}), Stop(Unstorable, {}, {})>>), {}),
          Entity("e", {}, Vehicle(Unstorable, 1, {"valid"}))}

MCRawEntities ==
    {Entity("e", u, {}) : u \in MCUpdates} \cup {Entity("e", {}, v) : v \in MCVehicles}
    \cup {Entity(Spaces, Update("x", <<Stop("x", {}, {})>>), Vehicle("x", 1, {"valid"})),
          Entity(Empty, {}, {})}
    \cup Extremes

-----------------------------------------------------------------------------
(* Environments: the three deployments', and each with one variable        *)
(* changed.  The Compose file sets variables it has no value for to "".    *)

Bare == [v \in Variables |-> {}]

Compose == [Bare EXCEPT !["APP_ENV"] = Set("fixture"), !["STM_API_KEY"] = Set(NoText)]

Render == [Bare EXCEPT !["APP_ENV"] = Set("stm"), !["STM_API_KEY"] = Padded("key")]

Texts(v) ==
    CASE v = "APP_ENV" -> {"fixture", "stm", "STM", "prod", NoText}
      [] v \in {"POLL_INTERVAL", "FRESHNESS_WINDOW"} -> {"30s", "0s", "soon", NoText}
      [] v = "GEOFENCE_RADIUS_METERS" -> {"0", "-1", "2000", "NaN", "far", NoText}
      [] v \in {"STM_TRIP_UPDATES_URL", "STM_VEHICLE_POSITIONS_URL", "MATCHER_STOPS_URL"} ->
            {"https://site", "stm.info", NoText}
      [] v = "DATABASE_URL" -> {"postgres://db", "https://site", NoText}
      [] v = "STM_API_KEY_HEADER" -> {"apikey", "api key", "api:key", NoText}
      [] v = "STM_API_KEY" -> {"key", NoText}
      [] OTHER -> {NoText}

MCEnvironments ==
    {Bare} \cup UNION
        {{[base EXCEPT ![v] = value] : value \in {Set(t) : t \in Texts(v)} \cup {Padded(NoText)}} :
            base \in {Compose, Render}, v \in Variables \ {"REDPANDA_BROKERS"}}
    \cup {[base EXCEPT !["REDPANDA_BROKERS"] = Set(<<NoText, "redpanda">>)] :
            base \in {Compose, Render}}
=============================================================================
