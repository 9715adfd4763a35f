# Ponctuel: a verification development

Ponctuel polls the two GTFS-Realtime feeds of the STM, stores what they say,
deduces from it when buses really arrived, and measures how wrong the
predictions were.  This directory holds TLA+ models of that program, the TLC
runs that check them on small instances, and theorems about them that TLAPS
proves for every value of the constants.

Every definition is a translation of code under `src/`; the `map` of
`PROJECT.json` names the lines each one stands for, `hazards` lists what is
hard to test in this code and which property watches over it, and `mutants`
gives, for every checked property, a plausible slip in the code that would
break it (the mutated operators stand beside the original in the modules,
marked *Mutant*).

## 1. The system

```
 STM / fixtures --HTTP--> ingester --SQL--> PostgreSQL <--SQL-- API <--GraphQL-- web page
                             |                  ^
                             | publish          | arrivals, errors
                             v                  |
                     Kafka or MemoryBus --> matcher (two consumers, one engine)
```

| part | code | state | operations |
|---|---|---|---|
| feed acquisition | `services/ingester/fetch`, `domain` | none | fetch, classify an error, decode, normalise |
| ingester runner | `services/ingester/runner` | `feed_snapshot`, `prediction`, `vehicle_position` | one cycle per tick and feed: fetch, normalise, insert snapshot, insert events, publish |
| schedule delay | `store/postgres.go` 150-240 | `gtfs_stop_time` | the delay of a prediction that came without one |
| bus, Kafka | `services/bus/kafka.go` | two topics, the group's offsets | publish with retries, fetch, commit |
| bus, in memory | `services/bus/memory.go` | two bounded channels | publish, fetch, close; commit does nothing |
| matcher | `services/matcher` | in memory: stops, predictions, emitted keys; in the database: `arrival_observed`, `prediction_error` | load stops, one consumer goroutine per topic, two heuristics, insert, commit |
| public service | `cmd/render`, `deploy/render` | one process with API, runner, matcher; nginx beside it | start, serve, fail, shut down, be restarted |
| migrations | `cmd/migrate`, `db/migrations` | `schema_migrations`, the schema | bootstrap a legacy history, skip, execute, record |
| read model | `store/postgres.go`, `004_views.sql` | none | latest vehicles, counters, error summary, latest stops |
| GraphQL API | `services/api` | none | let a request through, bound its lists, the two reads of the dashboard |
| web page | `web/src/App.vue`, `api/client.ts` | what is shown, loads in flight, three warnings, timer | load, abort, refresh, toggle, unmount |
| static import | `store/static_schedule.go`, `gtfs/static.go`, `cmd/gtfsimport` | the static GTFS tables | ensure a schedule, import a version |
| stops | `services/matcher/stops.go`, `service.go` | the stops of a matcher, taken at its start | from the database, a file or the site |
| configuration | `services/ingester/config` | none | read the environment, validate it |
| predictor, table, map, metrics | | | see section 7 |

What is hard in it, and what would make each part correct:

* *Matcher.*  A message is fetched, handled, stored and committed in four
  steps with a crash, a failed call, a lost acknowledgement or a move of the
  topic possible between any two.  Two goroutines share one engine.  The
  engine marks an arrival as emitted before anyone has stored it.  Correct
  means: an arrival is stored at most once, none is lost by a commit, none is
  invented, each is joined to the prediction it comes from, and no message
  blocks its topic.
* *Runner.*  A snapshot and its events are two transactions, followed by a
  publication that may fail or be doubled; replicas share one database.
  Correct means: no payload is counted twice, an event is published after its
  row, and one bad feed does not silence the other.
* *Public service.*  Bounded channels push back on the runner; a failing part
  must end the whole process, which must then start again.
* *Migrations.*  Containers of two images start at once on one database and
  may stop anywhere; a legacy schema has no history.
* *Reads and page.*  Events are stored out of order with equal or older times;
  requests overlap, fail and are aborted; the API reads the database twice for
  one answer, and the summary that the chart is drawn from is cut off.
* *Static schedule.*  The check for a schedule, the download and the import's
  transaction are three steps of a container that may die between any of them
  and start again on another day; a person may import at the same time; the
  matchers read what is committed, once.  Correct means: what can be read is a
  whole schedule, never changed, not one more per restart, and no container
  serves without it.
* *Configuration.*  Several packages compare the mode on their own; a key that
  is blank or a header that cannot be sent would show only at the first fetch.
* *Feed and delay.*  Four places validate an event and have to agree; dates are
  taken in two calendars; a planned time may lie past midnight.

## 2. Modules

| module | what it is |
|---|---|
| `Domain` | events, arrivals, their keys, the UTC and Toronto calendars |
| `Ingest` | contract: what consumers may assume of the ingester |
| `ArrivalLog` | contract: the register of arrivals and errors |
| `Matcher` | the matcher processes, the consumer group and the database; extends `Ingest`, implements `ArrivalLog` |
| `MatcherProofs` | theorems about `Matcher` |
| `Runner` | the ingester processes in detail; implements `Ingest` |
| `RunnerProofs` | theorems about `Runner` |
| `PublicService`, `PublicServiceProofs` | the single-container deployment over `MemoryBus`, and theorems about it |
| `Migrations`, `MigrationsProofs` | the migrators, and theorems about them |
| `ScheduleDelay` | the choice of a planned time, over every small schedule |
| `Config` | the configuration as operators on an environment |
| `Feed` | an ingester on that configuration: start, fetch in both modes, decode, normalise, store and encode, over every small message |
| `FeedProofs` | theorems about `Feed`, its configuration and `ScheduleDelay`; it extends both machines, which is why the latter's `DelaySpec` has a name of its own |
| `Serving`, `ServingProofs` | the vehicles query over a changing database and a clock, and theorems about it |
| `Api` | the handler's checks, the limits and the quality summary, as operators |
| `Dashboard` | the page, over the resolvers of `Api` and a growing database |
| `DashboardProofs` | theorems about `Dashboard` |
| `Gtfs` | the archive: the importer's parsers and constraints, the matcher's reader of stops |
| `StaticSchedule` | containers, importers and matchers around the static tables; extends `Gtfs` |
| `StaticScheduleProofs` | theorems about `StaticSchedule` |
| `MC*` | the small instances |

`Ingest` is the seam of the composition: `Matcher` runs against any ingester
that keeps it, and `Runner` is checked to keep it through a refinement mapping
(`rows` and `log` computed from the ingested and sent payloads).  So the
matcher is never checked together with the runner's detail, and loses nothing
by it.  `ArrivalLog` is what both promise to the readers of the database.
Three compositions are by extension: `StaticSchedule` runs the two readers of
`Gtfs` against one another, `Dashboard` the page against the resolvers of
`Api`, and `Feed` the fetcher, the store and the bus on what `Config` makes of
an environment.

### How state and actions correspond to the code

**Matcher.**  `pc[i][t]` is the place of the consumer goroutine of topic `t`
in process `i` (`Service.consume`): `idle`, `fetched` (a message in hand),
`storing` (the engine has answered, its arrivals are in `pending`) and
`exited` (it returned an error; `Run` then returns and the process ends).
There is one action per call the loop makes, and one for each way the call
fails.  `predictions` and `emitted` are the engine's two maps.  `committed`, `owner` and `position` are the
broker's side of the group.  `Stop` forgets everything in memory; a graceful
shutdown is the same to the other actors and is not told apart from a crash.
A coordinate is the set of stops within the radius, which is all that
`distanceMeters` is asked.  An hour is the unit of time, an epoch day has 24,
and Toronto is four hours behind.

**Runner.**  `stage[i]` follows `collectOnce`; the two repository calls are
one action each, since each is one transaction.  `Orphan(p)` is a snapshot
whose events were not stored with it.

**PublicService.**  Events are numbers in the order of their storage.  `lost`
records where a stored event is given up, so that "nothing is lost except
there" becomes a property.  `Collect` stores what the runner will publish;
`CollectUnacknowledged` is the insertion that commits while the runner hears of
an error and goes on (`runner.go:132-136`), whose events are given up as they
are stored.  Only one step of the runner and one of a consumer
is kept where `Runner` and `Matcher` have several.

**Migrations.**  `schema` and `history` are sets of file numbers.  `table` says
that the history table exists, `applied[p]` is the history as `p` read it once
before its loop, `open[p]` the file of its transaction.  The SQL itself is
reduced to "file f has taken effect".

**ScheduleDelay, Feed, Config.**  Queries and pure functions as operators, with
a state machine around them that runs every input of the instance.  A field is
a member of a handful of classes (empty, blank, valid, invalid, zero, or a text
that a column refuses); a sequence and a time are numbers, with the limits of
an `integer` column, of a `timestamptz` and of JSON (`MaxInteger`,
`LastStored`, `LastEncoded`) as constants.  A value
of the environment is one of a few texts, with or without spaces around it;
what the standard library makes of a text (a duration, a number that may be
NaN, an absolute URL) is written down per text.  `settings` is what `LoadFrom`
returned, `request` the last request sent, `stored` the modes of the rows.

**Gtfs.**  An archive is its size and its files, a file its columns and rows, a
cell one of the texts that the parsers tell apart.  `ParseArchive` says whether
the importer's parsers accept it and `StaticData` what they return;
`StageRows` and `CopyStagedRows` are what the staging columns and the tables'
keys refuse.  `ReadStops` is the matcher's reader, which shares no code with
them; `UrlPanics` is the row on which it indexes past the end.

**StaticSchedule.**  `stage[p]` is the place of a process in its start:
`checking`, `downloading` (`EnsureStaticSchedule`), `importing`, `inserting`,
`copying`, `committing` (one per statement of `Import`), `loading` and `up`
(`Service.Run`).  `schedule` holds the committed versions only; a transaction
is visible to others through the lock that its label holds (`Holds`).  `order`
is the order of `retrieved_at`, which the database fixes at the begin of a
transaction, not at its commit.

**Serving.**  Tables are sequences so that a row's index is its `event_id`.
The view, the two filters, the lateral join with its order and the scan are an
operator each; a position may lack its trip or its route, and either makes the
scan fail; rows of both source modes are stored over a running clock.

**Dashboard.**  A load carries the status of its three requests and the
version they brought; the API's data are a version that only grows.  A
snapshot (`Collect`) and its events (`ServerAdvances`) reach the database in
two transactions, and the resolver reads them in the other order, in two steps.

## 3. Runs

| run | module, bounds | shows |
|---|---|---|
| `matcher` | two processes, one trip and stop, two messages per topic, one fault | delivery, uniqueness, grounding, joins; the database refines `ArrivalLog` |
| `matcher_live` | one process, fair, one fault | a due prediction gets its arrival; every message is committed |
| `matcher_same_instant` | one process, no fault | **violation**: a topic blocked for ever |
| `matcher_evening` | one process, no fault, 21:00 Toronto | **violation**: an arrival joined to nothing |
| `runner` | two ingesters, four payloads, two faults, fair | once, in order, refines `Ingest`, both feeds polled |
| `public_service` | buffer of one, two events per topic, fair | one place per event, pipeline losses only at failures, failures end the process, back-pressure resolves |
| `schedule_delay` | every schedule of two rows, every prediction | one answer, own stop first |
| `migrations` | two images of three and four files, two failures, fair | nothing skipped, complete when served, recorded in the end |
| `dashboard` | two collections, four errors of two routes and two horizons, one failed request, fair | display never goes back, warnings match failures, counts within what is shown collected, exact short horizons, ends up fresh |
| `feed` | a dozen environments, every message of two entities, every upstream answer | one mode throughout, requests carry their key, one notion of validity within the columns' range, whole or nothing, own times kept |
| `serving` | two vehicles, two trips, two modes, three rows, a clock of four readings | bounded age, own trip first, never back in time |
| `static_schedule` | a container, two matchers (one with a stops file), one import by hand, two days, one fault, fair | sound and immutable versions, one per container, served only with a schedule, one notion of a stop, newest stops first, everyone comes up |

Why the bounds are enough.  *Matcher*: two messages per topic let a message be
redelivered while another waits behind it, and an undecodable one stand on
either side; two processes are what a displaced owner and its successor need;
one fault between any two steps reaches every window of a single failure; the
theorems of section 5 lift these bounds for every safety property.  The buses of the feed pass the stop at the
prediction's instant, pass it later, and pass elsewhere; `matcher_live` adds
the matcher that starts without any stop.  *Runner*: three payloads of trip updates
share an event, so that a doubled, an empty and a refused payload all occur;
two faults allow a failed call followed by a crash.  *PublicService*: with a
buffer of one, the second event already blocks; a larger buffer only delays
that.  *Migrations*: two files make the baseline, one is common to both images
and one belongs to the new one only.  *ScheduleDelay*: the ORDER BY compares
rows pairwise, so two rows exhibit every tie, with planned times before,
inside and past the day.  *Feed*: the loop treats entities independently
except that one refuses the message, which two show; each limit of a column or
of JSON is met by a value on it and by one past it.  *Serving*: the clock
outlives both the freshness window and the age of a prediction; three rows
make two positions of one vehicle with a prediction, or one position with two
competing predictions.  *Dashboard*: loads in flight are capped at two, one
more than the page keeps, so that the cap cannot hide an overlap; two collections let one come between the
two reads of an answer, and the limit of three rows cuts the four groups of
the errors, two at either horizon, in the middle of the second, so that a
summary holds a whole point and a part of one.  *StaticSchedule*: the archives are a
plain one, one that moves a stop, drops another and orders its columns
differently, one with empty files, one on which only the matcher's reader stumbles, one too large to
download, and one refused by each of: the parsers, the column types, a primary
key, a foreign key; a container, an import by hand and two days are what two
versions need, the one fault is a kill at any statement or a commit whose
answer is lost, after which the container starts again.
*Config*: each environment makes one check fail, or is a
boundary that passes (radius zero, spaces around a key, mode in capitals).

Symmetry is used in `matcher` (processes) and `serving` (vehicles, trips),
where no operator tells their members apart, and no run with symmetry checks
liveness.  Deadlock checking is off in `dashboard` (a closed page is done),
`serving` (the clock and the tables stop at their bounds) and
`static_schedule` (when all are up and the last day has come).  The type
invariants are stated in the modules; those of the modules with theorems are
proved there, and so are `DeliveryInv`, `EmittedAccounted`, `IngestInv`,
`OrphansStayOrphans` and `AppliedInOrder`, which therefore no run repeats.

## 4. Fairness

No failure is ever fair: a crash, a failed call, a signal or a rebalance may
happen and need not.

* Matcher: weak fairness of each goroutine's next call, of `RunReturns`, of a
  restart and of the group's assignment.  The code calls each blocking
  operation in an unconditional loop, a Deployment of the chart restarts its
  container (Compose would not: there the matcher stays down), and Kafka
  assigns topics without owner.
* Runner: start, tick (a `time.Ticker` in a select) and every step of a
  collection: the fetch has a deadline of 20 s, and a call to PostgreSQL or to
  the broker is taken to end with an answer or an error.
* PublicService: the Go scheduler runs a goroutine that can step; a select
  with several ready cases may take either, so nothing is assumed about which;
  the platform restarts the container.
* Migrations: the entrypoint runs the migrator at each start, and a failed
  container is started again.
* StaticSchedule: a process that runs takes its next step; a download and a
  commit answer one way or the other (the client's deadline is 45 s); a dead
  container or matcher is started again, as on Render and by the chart.  That
  the site ever answers is not assumed: once some version locates stops it is
  not needed.
* Dashboard: the interval fires while it is set; a request settles.
  `client.ts` sets no timeout of its own, so the last point rests on the API's
  `WriteTimeout` of ten seconds and nginx's default read timeout.  A request that never settled
  would keep the button disabled and the timer without effect
  (`App.vue:33,78`); that is outside the model.

## 5. Proofs

Every invariant and every action property of the runs is a theorem, and so are
the two refinements.  The columns give the theorem and what it states.

| theorem | says |
|---|---|
| `MatcherProofs!TypeCorrect` | types and offset bounds |
| `MatcherProofs!AtMostOnce` | `StoredOnce` |
| `MatcherProofs!RefinesArrivalLog` | every step of the matcher is one of `ArrivalLog` or a stutter |
| `MatcherProofs!DeliveryCorrect`, `NoDueArrivalLost`, `EmittedNeverForgotten` | `DeliveryInv` and its consequences `CommittedSettled`, `EmittedAccounted` |
| `MatcherProofs!NoArrivalInvented`, `TriggersAreJoined` | `ArrivalsGrounded`, `TriggerJoined`, from `GroundInv` |
| `RunnerProofs!IngestCorrect`, `EventsStoredOnce`, `EventsInOrder`, `OrphansLost` | `IngestInv` and its consequences; the action property `OrphansStayOrphans` |
| `RunnerProofs!RunnerImplementsIngest` | every step of the ingesters is one of `Ingest`, on computed rows and logs, or a stutter |
| `MigrationsProofs!MigrationCorrect`, `NothingSkipped`, `ServedSchema` | `MigrationInv` and its consequences |
| `StaticScheduleProofs!VersionsAreSound`, `VersionsNeverChange`, `ContainersImportOnce` | `ImportInv` and its consequences; the action property `VersionsImmutable` |
| `StaticScheduleProofs!ServedScheduleExists`, `NewestIsLoaded`, `ReadersAgreeAlways` | `ServesWithSchedule`, the action property `LoadsNewest`, `ReadersAgree` |
| `DashboardProofs!DisplayOnlyAdvances`, `CountsAreCollected`, `WarningsAreTrue` | `PageInv` and its consequences `CountedIsCollected`, `WarningsMatchFailures`; the action property `ShownNeverGoesBack` |
| `DashboardProofs!PointsExact` | `ShortHorizonsExact` |
| `PublicServiceProofs!EventsKeepTheirPlace`, `LossesAreFailures` | `EachEventInOnePlace` from `ServiceInv`; the action property `LostOnlyByFailure`: of the pipeline nothing is given up but by a failure, and of the rest only what is stored without an answer |
| `ServingProofs!DelaysAreRecent`, `OwnTripsWin`, `VehiclesAdvance`, `OneAnswer` | `DelayAgeBounded`, `OwnTripFirst`; the action property `NeverBehind`; the answer is a function of the tables and the clock |
| `FeedProofs!ModesAgree`, `RequestsCarryTheKey` | `OneMode`, `RequestsAuthenticated`, from `ModeInv` |
| `FeedProofs!EventsAreAccepted`, `PayloadsAreWhole`, `TimesAreKept` | `NormalizedIsAccepted` (of payloads within the columns' range), `WholeOrNothing`, `OwnTimeKept`, from `PayloadInv` |
| `FeedProofs!DelaysAreDetermined`, `OwnStopsFirst` | `DelayDeterministic`, `OwnStopFirst`, from `DelayInv` |

They hold for any number of processes, payloads, files, messages and faults,
from the assumptions named in the modules:

* `CalendarAssumption`, `Domain!FeedAssumption`, `IngestAssumption`,
  `MatcherAssumption` (times and bounds are naturals, the feed consists of
  events);
* `RunnerAssumption` (a payload belongs to one of two feeds and has a sequence
  of events; the payloads are finitely many, since one is known by a hash of
  fixed width);
* `MigrationsAssumption` (images share a prefix of the files);
* `StaticScheduleAssumption` (a process has one role), `ContentAssumption`
  (headers and rows are sequences of text), `GtfsAssumption` (bounds are
  naturals, an empty cell is no number);
* `ApiAssumption` and `DashboardAssumption` (errors are a sequence, limits and
  versions are naturals), `PageServed` (the API is deployed for the page and lets
  its requests through), `ServingAssumption` (windows and lags are naturals);
* `CapacityAssumption` and `MaxEventsAssumption` (a channel holds at least one
  event, the events are finitely many);
* `Feed!FeedAssumption` (a protobuf field that is not repeated has one value at
  most, a repeated one is a sequence, a time and a sequence number are naturals,
  the clock is not at zero and before the year 10000, which a `timestamptz`
  still holds) and `ScheduleAssumption` (a day has a length; sequences, planned and
  predicted times are naturals).

The bounds on messages and faults are arbitrary naturals in them.

**DeliveryInv.**  `CommittedSettled`, "no commit passes a due prediction whose
arrival is not stored", is not inductive: nothing in it says why the message
about to be committed is settled.  A chain is needed.  What the owner has
fetched past is settled or in hand (`SettledBehind`); everything before the
message in hand is settled (`SettledBefore`); and once the engine has answered,
its arrival is stored or pending (`SettledOnceStored`).  The engine answers
nothing when it remembers having emitted the key, so the last part needs
`EmittedAccounted`: what is remembered is stored, pending at the one consumer
that can be holding it, or that consumer has failed and will commit nothing
more.  `PendingHeld` and `TopicsTyped` say that the two consumers never hold
each other's arrivals.  This is the argument that the order in the code, mark,
store, commit, and the fatal error on a failed insertion are both necessary.

**GroundInv.**  `ArrivalsGrounded` and `TriggerJoined` look at the database only,
and the step that could break them is an insertion of something decided long
before.  `GroundInv` follows it back: what a consumer holds is grounded
(`PendingGrounded`), because the engine's keys come from persisted predictions
(`KeysPersisted`), because every prediction in a topic has its row
(`LogPersisted`), which is where the order *rows, then message* of the ingester
enters.  `DueJoined` names the prediction that made the arrival: a join on the
Toronto day finds it exactly when its UTC day is the same.

**IngestInv.**  `IngestedOnce` needs that at most one process is between the
registration of a payload and the end of its publication, because the
registration of a snapshot is the only step that lets a process in
(`OneHolder`), and it happens once.  Order follows, because the one holder
publishes by increasing index and only after its commit.

**MigrationInv.**  Ordering holds because `applied[p]`, read once, is a subset
of a schema that only grows, and because an open transaction is always for
`next[p]`, with every earlier file applied or read as recorded.  `PrefixGrows`
closes the argument: adding such a file to a prefix gives a prefix.

**ImportInv.**  That a container adds one version in its life is not inductive:
the step that would add the second is far from the check that should have
prevented it.  `ImportInv` says that a container between its check and its
commit owns no version yet, that what is being copied has passed the parsers
and what is being committed the constraints, and that no one else holds or has
committed the label that a transaction has inserted.  The last part is the
ON CONFLICT with its wait, and it is what makes a commit an addition.
`ScheduleSound` then rests on a lemma about the archive alone
(`StorableIsSound`): whatever passes the parsers and the constraints is sound.

**PageInv.**  That nothing on display goes back needs that no two loads race:
`OneLoad` says that at most one load is in flight, that it is the current one
and that the flags which keep the timer and the button from starting another
are up.  `InOrder` then orders what the page shows, what the load has been
answered and what the API holds now, and the order survives each settlement.

**ServiceInv.**  The pipeline of a topic is three sequences in different hands:
the message of the consumer, the channel and what the runner has not sent yet.
`Placed` states the property on them as an operator, so that a send, a fetch, a
loss and a collection are lemmas about sequences (`PlacedSent`, `PlacedTaken`,
`PlacedFinished`, `PlacedCollected`, `PlacedUnacknowledged`), and each action is
one of them for its topic.  `Resting` says that an idle goroutine holds nothing and `Ended` that a
dead process does not either, which is why a restart loses nothing more.

**SentInv.**  `RunnerImplementsIngest` maps the rows to the events of the
ingested payloads and a topic's log to the publications of its events.  That an
event is published after its row is `IngestInv`; what is new is the contract's
bound on a log.  `SentInv` counts: every publication is the first one of an
event that no process is at any more, or was paid for by a fault, which is a
write that failed for its caller or was retried.  A publication appends one
message to its topic's log and leaves the other alone, a fact about the
recursive function `TopicLog` (`TopicLogsExist` and the lemmas after it).

**OrderInv.**  `LoadsNewest` needs that one version is newest at all: the
transactions that are committed or under way are ordered strictly and totally by
`older` (`StrictOrder`), although they may commit in the other order, and every
step begins one, takes one back, commits one or leaves them alone.
`ServesWithSchedule` needs that a container past its check, its import or its
conflict has a version before it, which then stays.  `ReadersAgree` compares two
parsers cell by cell: on an archive that the importer takes no two columns have
one name (`ColumnIsUnique`), so that both read the same cells (`CellsAgree`),
and make the same stop of them or none (`ReadByURL`, `ReadByImporter`).

**ModeInv, PayloadInv.**  A running process has the configuration of one
environment, and its last request is the one it makes for the feed it is at;
the six readings of the mode are then a matter of two words.  `PayloadInv` says
what `events` is once a payload is taken: the events of all its entities, none of
them invalid, joined in their order.  `WholeOrNothing` and `OwnTimeKept`
compare that join with another of the same shape, which is what
`FlattenAligned` is about: place *i* of two joins comes from the same place of
the same part.

**DelayInv.**  The prediction in hand carries a delay that the query may give.
The ORDER BY of `deriveScheduleDelay` compares three naturals one after the
other (`PrecedesByKeys`): a first row exists (`FirstRow`), and two first rows
are planned at the same time (`FirstRowsAgree`), because the planned time is
the last key.

**ShortHorizonsExact.**  A limit keeps a row only with all the rows before it
(`FirstKeeps`), so that of a horizon below the last one no route is cut
(`SummaryKeeps`), for the repository's limit and then the resolver's.  The
rest is arithmetic of folds: the sum over the rows of a horizon of the sums of
their samples is the sum over the errors of that horizon (`RowsAdd`), because
the samples of two rows are disjoint and a sum does not depend on which
member is taken first (`SumsTake`, `SumsUnion`).

**Induction.**  The library's induction theorems take an operator as a
parameter, which none of the provers can instantiate.  Where a recursive
function or a fold must be reasoned about (`TopicLog`, `FlattenSeq`,
`MapThenSumSet`), the proofs take a minimal counterexample instead
(`LeastNatural`, `SmallestSet`, from the well-founded orders of the library),
and first show that the recursion has a solution at all (`JoinsExist`,
`SumsExist`), since its CHOOSE is worth nothing otherwise.

**Only model-checked.**  Liveness, which needs ENABLED and is out of the
prover's reach: `EventuallyFresh`, `EventuallyRecorded`, `FailureEndsProcess`,
`BackpressureResolves`, `VehicleFeedPolled`, `EventuallyUp`,
`DueEventuallyObserved`, `EveryMessageCommitted`; and the two violations of
section 6, which are counterexamples.

## 6. Where the code and its documents differ

Two disagreements have a run.

1. `matcher_same_instant` (`003_realtime.sql:62`).  `arrival_observed` kept
   `UNIQUE (trip_id, service_date, stop_id, observed_at)` when migration 005
   added the logical key with the method, and `InsertArrival` names only the
   latter in its ON CONFLICT.  A `last_update` and a `geofence` arrival of the
   same second make the second insertion fail; the matcher exits, starts
   again, fetches the same message, and so on.
2. `matcher_evening` (`engine.go:128`).  The matcher dates by the UTC day, the
   prediction rows by the Toronto day: between 20:00 and midnight in summer
   the join finds nothing.

Seven further sentences of the documents are stated in the modules and are not
kept by the code either.  TLC refutes each within a few steps when it is added
to the configuration named here.

| definition | configuration | what happens |
|---|---|---|
| `ScheduleDelay!PastMidnightKept` | `ScheduleDelay.cfg` | the planned seconds are added to the calendar day of the predicted time: a bus on time at 25:10 of its service day gets a delay of minus a day (`postgres.go:199`; `docs/resultats.md:14-15`) |
| `Dashboard!EveryPointExact` | `Dashboard.cfg` | the cut summary may end within a horizon, whose point then weighs some of its routes only (`postgres.go:462`; `docs/resultats.md:47-53`) |
| `ScheduleDelay!SameStopOnly` | `ScheduleDelay.cfg` | without a match of stop or sequence, another stop of the trip gives the delay (`postgres.go:207`; `deploy/render/README.md:42-44`) |
| `Runner!EveryEventPublished` | `Runner.cfg` | a failed publication is counted and never repeated (`runner.go:146`) |
| `Matcher!GeofenceDeterministic` | `Matcher.cfg` | a position handled before an earlier prediction gives no arrival (`service.go:84`) |
| `Dashboard!QualityPanelShowsError` | `Dashboard.cfg` | with anything on display a failed quality request raises the general warning and the panel shows its empty state (`App.vue:59`; `docs/resultats.md:56-58`) |
| `Serving!RoutelessVehicleServed` | `Serving.cfg` | one vehicle without a trip, or with a trip without a route, makes the scan, and the whole list, fail (`postgres.go:331`; `schema.graphqls:12-13`) |

Smaller disagreements met while modelling, which no run refutes:

* "imports the public STM GTFS archive only when the database has no static
  feed yet" (`static_schedule.go:20-21`) holds for one importer at a time: the
  check is made before the download and outside the transaction, so that two
  may add two versions under two labels;
* `deploy/compose/README.md:19-21` says to set `APP_ENV=stm` and `STM_API_KEY`
  to try the STM mode, but `docker-compose.yml` gives the key to the ingester
  alone and the mode to the API and the matcher too, whose `config.Load` then
  refuses to start (`config.go:135-137`; the chart passes the secret to all);
* the error of `config.go:121-123` asks for an HTTP header name, and a name
  such as `api:key`, which the client refuses at each request, passes;
* a radius of NaN passes the check of its range (`config.go:115`), and a
  variable that is set but blank is a blank value, never the default, so that
  `POLL_INTERVAL=` is an error.

Observations that the models brought up and no document contradicts:

* a payload seen before is dropped, `recorded_at` included, so that the page's
  "last collection" is the time of the last *new* snapshot;
* two migrators at once may run a file twice; every statement of the files is
  idempotent, so that only the order matters, which the proved `AppliedInOrder` covers;
* a stop that the newest schedule no longer has survives in the matchers from
  an older version, with its old place (`postgres.go:417`);
* a row of the site's `stops.txt` that ends before its `stop_id` column makes
  the matcher's reader panic (`stops.go:88-94`); the importer refuses it;
* with two members in the group, a displaced consumer may commit an older
  offset under the new generation: the messages after it are consumed again,
  which `StoredOnce` makes harmless; `EveryMessageCommitted` is checked with
  one process, the replica count of the chart;
* `MemoryBus` loses what is queued at a restart, and `LostOnlyByFailure` says
  that this, a cancelled context and a failing consumer are the only ways out of
  the pipeline;
* an insertion of events that commits without an answer is an error to the
  runner (`runner.go:132-136`): its events are stored and never published, while
  the process goes on serving;
* nothing bounds the numbers of a feed before the database and the encoder do
  (`Feed!EveryPayloadAccepted`, which TLC refutes under `Feed.cfg`): a stop
  sequence above 2^31 - 1 (`normalize.go:92`, a `uint32`; `003_realtime.sql:43`,
  an `integer`) or a name with a NUL fails the transaction of its whole
  snapshot, a time that no `timestamptz` holds is refused too or stored as
  another, and one after the year 9999 is stored but never encoded
  (`event.go:27`).  `NormalizedIsAccepted` says that
  within these ranges nothing else makes the four places disagree.

## 7. Not modelled, and why

* *Table and export of the page*: pure functions of one list in one thread,
  which their unit tests enumerate.
* *gqlgen's executor* (`generated.go`): generated code; the resolvers that it
  calls are in `Api`, `Dashboard` and `Serving`.
* *Metrics and probes, fixtures, charts, scripts*: output or text that no other
  part reads back.
* *Predictor*: numerical training over floats and a stateless service that
  nothing calls.
* *Map and dialog focus*: drawing.
* *In the modelled parts*: hours so large that their seconds overflow an
  `int64` (`static.go:489`), confidence, reasons, coordinates as numbers, JSON
  and protobuf text, the two days a year when the clock changes, metrics,
  topics of more than one partition (the deployment creates one).

## 8. Plan

1. **Done.**  The pipeline (`Ingest`, `Runner`, `Matcher`, `ArrivalLog`), the
   deployment (`PublicService`, `Migrations`), the edges (`Feed`,
   `ScheduleDelay`, `Serving`, `Dashboard`), and the safety of the first and
   of the migrations proved.
2. **Done.**  The static schedule and its readers (`Gtfs`, `StaticSchedule`),
   with the safety of the import proved; the resolvers and the summary under
   the page (`Api`); the configuration under the ingester (`Config`); the
   safety of the page, of the vehicles query and of the single-container
   deployment proved, and that the matcher invents no arrival.
3. **Done.**  Every safety property of every run proved: the ingester refines
   its contract, the matchers of the static schedule, the configuration, the
   payload from the wire to the table, the choice of a planned time, and the
   summary under the chart.
4. **Open.**  A proof that the clock change twice a year, left out of
   `ScheduleDelay` and `Domain`, disturbs only the days it falls on would need
   a model of the calendar with days of 23 and 25 hours.
