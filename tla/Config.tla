------------------------------- MODULE Config -------------------------------
(***************************************************************************)
(* The configuration that every binary reads from its environment at       *)
(* start: LoadFrom, with its defaults, and Validate.                       *)
(*                                                                         *)
(* An environment maps the name of a variable to its value, a set of at    *)
(* most one element.  A value is a text and the spaces around it, which is *)
(* what TrimSpace removes.  The texts are a few representatives of what    *)
(* the checks tell apart.                                                  *)
(***************************************************************************)
EXTENDS Integers, Sequences

Variables ==
    {"APP_ENV", "INGESTER_HTTP_ADDR", "DATABASE_URL", "FIXTURE_DIR", "STM_TRIP_UPDATES_URL",
     "STM_VEHICLE_POSITIONS_URL", "STM_API_KEY", "STM_API_KEY_HEADER", "REDPANDA_BROKERS",
     "MATCHER_STOPS_FILE", "MATCHER_STOPS_URL", "POLL_INTERVAL", "FRESHNESS_WINDOW",
     "GEOFENCE_RADIUS_METERS"}

NoText == ""
Set(text) == {[text |-> text, padded |-> FALSE]}
Padded(text) == {[text |-> text, padded |-> TRUE]}

-----------------------------------------------------------------------------
(* What the libraries make of a text.                                      *)

ToLower(text) == IF text = "STM" THEN "stm" ELSE text

AbsoluteURL(text) == text \in {"https://api", "https://site"}

DatabaseURL(text) == text = "postgres://db"

\* A header name that the HTTP client sends: the validation only refuses spaces.
ContainsSpace(text) == text = "api key"
HeaderToken(text) == text = "apikey"

\* ParseDuration, in seconds, and ParseFloat: at most one number.
ParseDuration(text) ==
    CASE text = "30s" -> {30} [] text = "2m0s" -> {120} [] text = "0s" -> {0} [] OTHER -> {}

Number(x) == {[nan |-> FALSE, value |-> x]}

ParseFloat(text) ==
    CASE text = "60" -> Number(60) [] text = "0" -> Number(0) [] text = "-1" -> Number(0 - 1)
      [] text = "2000" -> Number(2000) [] text = "NaN" -> {[nan |-> TRUE, value |-> 0]}
      [] OTHER -> {}

\* A comparison with NaN is false, and NaN differs from every number.
Below(n, x) == ~n.nan /\ n.value < x
Above(n, x) == ~n.nan /\ n.value > x
Differs(n, x) == n.nan \/ n.value # x

-----------------------------------------------------------------------------
(* Reading the environment.                                                *)

\* A variable that is set keeps its value, blank or not.
valueOr(env, key, fallback) ==
    IF env[key] = {} THEN fallback ELSE (CHOOSE v \in env[key] : TRUE).text

durationValue(env, key, fallback) ==
    {d \in ParseDuration(valueOr(env, key, fallback)) : d > 0}

floatValue(env, key, fallback) == ParseFloat(valueOr(env, key, fallback))

csvValues(parts) == SelectSeq(parts, LAMBDA part : part # NoText)

\* Mutant: the case of APP_ENV is kept, which Validate accepts all the same.
AppEnvAsWritten(env) == valueOr(env, "APP_ENV", "fixture")

AppEnv(env) == ToLower(valueOr(env, "APP_ENV", "fixture"))

\* The text of REDPANDA_BROKERS is the sequence of its trimmed parts.
Settings(env) ==
    LET app == AppEnv(env)
        stops == valueOr(env, "MATCHER_STOPS_URL", NoText)
    IN  [AppEnv |-> app,
         HTTPAddr |-> valueOr(env, "INGESTER_HTTP_ADDR", ":8081"),
         DatabaseURL |-> valueOr(env, "DATABASE_URL", "postgres://db"),
         FixtureDir |-> valueOr(env, "FIXTURE_DIR", "testdata/realtime"),
         STMTripUpdatesURL |-> valueOr(env, "STM_TRIP_UPDATES_URL", "https://api"),
         STMVehicleURL |-> valueOr(env, "STM_VEHICLE_POSITIONS_URL", "https://api"),
         STMAPIKey |-> valueOr(env, "STM_API_KEY", NoText),
         STMAPIKeyHeader |-> valueOr(env, "STM_API_KEY_HEADER", "apikey"),
         RedpandaBrokers |-> csvValues(valueOr(env, "REDPANDA_BROKERS", <<>>)),
         MatcherStopsFile |-> valueOr(env, "MATCHER_STOPS_FILE", NoText),
         MatcherStopsURL |-> IF app = "stm" /\ stops = NoText THEN "https://site" ELSE stops]

-----------------------------------------------------------------------------
(* Validation.                                                             *)

\* Mutant: the key is looked for in the environment and may be blank.
KeyNotLookedAt(c) == FALSE

KeyMissing(c) == ToLower(c.AppEnv) = "stm" /\ c.STMAPIKey = NoText

RadiusRefused(n) == Differs(n, 0) /\ (Below(n, 0) \/ Above(n, 1000))

Validate(c, poll, window, radius) ==
    /\ ToLower(c.AppEnv) \in {"fixture", "stm"}
    /\ NoText \notin {c.HTTPAddr, c.DatabaseURL, c.FixtureDir, c.STMAPIKeyHeader}
    /\ DatabaseURL(c.DatabaseURL)
    /\ poll > 0 /\ window > 0
    /\ ~RadiusRefused(radius)
    /\ ~ContainsSpace(c.STMAPIKeyHeader)
    /\ AbsoluteURL(c.STMTripUpdatesURL) /\ AbsoluteURL(c.STMVehicleURL)
    /\ c.MatcherStopsURL = NoText \/ AbsoluteURL(c.MatcherStopsURL)
    /\ ~KeyMissing(c)

\* The configuration, or nothing for an error.
LoadFrom(env) ==
    {c \in {Settings(env)} :
        \E poll \in durationValue(env, "POLL_INTERVAL", "30s"),
           window \in durationValue(env, "FRESHNESS_WINDOW", "2m0s"),
           radius \in floatValue(env, "GEOFENCE_RADIUS_METERS", "60") :
            Validate(c, poll, window, radius)}

-----------------------------------------------------------------------------
(* The mode in the other packages.                                         *)

\* NewPostgresRepositoryWithSourceMode.
RepositoryMode(mode) == IF ToLower(mode) = "stm" THEN "stm" ELSE "fixture"

\* The mode of a row of feed_snapshot, or nothing when InsertSnapshot refuses it.
RowMode(mode, own) ==
    {m \in {IF mode = NoText THEN own ELSE ToLower(mode)} : m \in {"stm", "fixture"}}

\* EnsureStaticSchedule is called by the public container in this mode only.
ImportsSchedule(c) == c.AppEnv = "stm"
=============================================================================
