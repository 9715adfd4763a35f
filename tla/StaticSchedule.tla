--------------------------- MODULE StaticSchedule ---------------------------
(***************************************************************************)
(* The static schedule: who imports it and who reads its stops.            *)
(*                                                                         *)
(* A container of the public service imports the archive of the STM site   *)
(* at its start if the database holds no version, and dies if it cannot    *)
(* (cmd/render, EnsureStaticSchedule).  cmd/gtfsimport imports any archive *)
(* under any label.  A matcher, the one inside a container or cmd/matcher, *)
(* takes its stops once, at its start: from the database, else from its    *)
(* stops file, else from the site.  All of them may run at once, and any   *)
(* may die between two statements and be started again.                    *)
(***************************************************************************)
EXTENDS Gtfs

CONSTANTS
    Containers,    \* public containers, APP_ENV=stm
    Importers,     \* runs of cmd/gtfsimport
    Matchers,      \* cmd/matcher, APP_ENV=stm
    StopsFile,     \* StopsFile[p]: MATCHER_STOPS_FILE, NULL when it is not set
    Archives,      \* names of archives
    SiteArchives,  \* those that the site may serve
    HandArchives,  \* those that a person may import
    Content,       \* Content[a]: what is in it
    HandVersions,  \* the labels that a person may give
    MaxDay,        \* bound on the days that pass
    MaxFaults      \* bound on killed processes and lost connections

Processes == Containers \cup Importers \cup Matchers

\* feedVersion: "stm-" and the UTC date.
StmVersion(d) == <<"stm", d>>
Versions == {StmVersion(d) : d \in 0..MaxDay} \cup HandVersions

ASSUME ContentAssumption ==
    \A a \in Archives : \A f \in DOMAIN Content[a].files :
        /\ Content[a].files[f].header \in Seq(STRING)
        /\ Content[a].files[f].rows \in Seq(Seq(STRING))

ASSUME StaticScheduleAssumption ==
    /\ Containers \cap Importers = {} /\ Containers \cap Matchers = {}
    /\ Importers \cap Matchers = {}
    /\ SiteArchives \cup HandArchives \subseteq Archives
    /\ MaxDay \in Nat /\ MaxFaults \in Nat

\* The archives that the checks let through, what the importer reads in each,
\* and those of them that the tables take.
Accepted == {a \in Archives : ParseArchive(Content[a])}
Data == [a \in Accepted |-> StaticData(Content[a])]
Storable == {a \in Accepted : StageRows(Content[a]) /\ CopyStagedRows(Content[a])}

\* The archives that can be downloaded, and those that the matcher's reader
\* survives, with the stops it finds.
Served == {a \in SiteArchives : Content[a].bytes =< MaxDownload}
Survived == {a \in Served : ~UrlPanics(Content[a])}
StopsAt == [a \in Survived |-> UrlStops(Content[a])]
StopsIn == [a \in Accepted |-> Located(Data[a])]

VARIABLES
    day,        \* the UTC date
    schedule,   \* the committed versions: version -> [archive, by]
    older,      \* the pairs of transactions, by retrieved_at
    stage,      \* per process: its place in its start
    import,     \* per process: the import it works on, if any
    stops,      \* per process: the stops of its matcher
    faults

vars == <<day, schedule, older, stage, import, stops, faults>>

Stages == {"down", "checking", "downloading", "importing", "inserting", "copying",
           "committing", "loading", "up", "done"}

Import == [archive : Accepted, version : Versions]

\* Who imports which version.
Transactions == Processes \X Versions

TypeOK ==
    /\ day \in 0..MaxDay
    /\ DOMAIN schedule \subseteq Versions
    /\ \A v \in DOMAIN schedule :
        schedule[v] \in [archive : Accepted, by : Containers \cup Importers]
    /\ stage \in [Processes -> Stages]
    /\ import \in [Processes -> {NULL} \cup {{i} : i \in Import}]
    /\ DOMAIN stops = Processes
    /\ faults \in 0..MaxFaults

Init ==
    /\ day = 0
    /\ schedule = [v \in {} |-> NULL]
    /\ older = {}
    /\ stage = [p \in Processes |-> "down"]
    /\ import = [p \in Processes |-> NULL]
    /\ stops = [p \in Processes |-> {}]
    /\ faults = 0

-----------------------------------------------------------------------------
StopsOf(v) == StopsIn[schedule[v].archive]

\* The transaction that committed v.
Importer(v) == <<schedule[v].by, v>>

\* v's transaction began before w's.
Older(v, w) == <<Importer(v), Importer(w)>> \in older

\* Mutant: the oldest first.
OldestStops ==
    UNION {{s \in StopsOf(v) :
                \A w \in DOMAIN schedule :
                    Older(w, v) => \A t \in StopsOf(w) : t.id # s.id} :
           v \in DOMAIN schedule}

\* For each stop the newest of the versions that locate it, be it one that a
\* newer version replaces.
LatestStops ==
    UNION {{s \in StopsOf(v) :
                \A w \in DOMAIN schedule :
                    Older(v, w) => \A t \in StopsOf(w) : t.id # s.id} :
           v \in DOMAIN schedule}

\* A container or a matcher is started; render, compose and k8s restart it.
Start(p) ==
    /\ p \in Containers \cup Matchers
    /\ stage[p] = "down"
    /\ stage' = [stage EXCEPT ![p] = IF p \in Containers THEN "checking" ELSE "loading"]
    /\ UNCHANGED <<day, schedule, older, import, stops, faults>>

\* cmd/gtfsimport <archive> <version>, up to the transaction.
HandImport(p, a, v) ==
    /\ p \in Importers
    /\ stage[p] = "down"
    /\ IF a \in Accepted
       THEN /\ stage' = [stage EXCEPT ![p] = "importing"]
            /\ import' = [import EXCEPT ![p] = {[archive |-> a, version |-> v]}]
       ELSE /\ stage' = [stage EXCEPT ![p] = "done"]
            /\ UNCHANGED import
    /\ UNCHANGED <<day, schedule, older, stops, faults>>

\* Mutant: the schedule of the day is looked for, instead of any schedule.
CheckToday(p) ==
    /\ stage[p] = "checking"
    /\ stage' = [stage EXCEPT ![p] =
                    IF StmVersion(day) \in DOMAIN schedule THEN "loading" ELSE "downloading"]
    /\ UNCHANGED <<day, schedule, older, import, stops, faults>>

\* EnsureStaticSchedule looks for any version, outside every transaction.
Check(p) ==
    /\ stage[p] = "checking"
    /\ stage' = [stage EXCEPT ![p] = IF DOMAIN schedule # {} THEN "loading" ELSE "downloading"]
    /\ UNCHANGED <<day, schedule, older, import, stops, faults>>

\* The label of p's import, as a set of at most one.
Label(p) == {i.version : i \in import[p]}

\* The import of p ends without a commit: its transaction, if it has one, is
\* rolled back and its program exits.
Abandon(p) ==
    /\ stage' = [stage EXCEPT ![p] = IF p \in Importers THEN "done" ELSE "down"]
    /\ import' = [import EXCEPT ![p] = NULL]
    /\ stops' = [stops EXCEPT ![p] = {}]

\* The transactions that are committed or under way.
Begun ==
    {Importer(v) : v \in DOMAIN schedule} \cup
    {t \in Transactions :
        stage[t[1]] \in {"inserting", "copying", "committing"} /\ t[2] \in Label(t[1])}

\* The transaction of p, if it has begun one, leaves nothing behind.
Rollback(p) ==
    /\ Abandon(p)
    /\ older' = {o \in older : {o[1], o[2]} \cap ({p} \X Label(p)) = {}}

\* Mutant: a container goes on when the site does not answer.
DownloadForgiven(p) ==
    /\ stage[p] = "downloading"
    /\ stage' = [stage EXCEPT ![p] = "loading"]
    /\ UNCHANGED <<day, schedule, older, import, stops, faults>>

\* No answer in 45 s, a bad status, too many bytes or a bad archive.
DownloadFails(p) ==
    /\ stage[p] = "downloading"
    /\ Abandon(p)
    /\ UNCHANGED <<day, schedule, older, faults>>

\* The label is the date at which the download ended.
Download(p, a) ==
    /\ stage[p] = "downloading"
    /\ a \in Served \cap Accepted
    /\ stage' = [stage EXCEPT ![p] = "importing"]
    /\ import' = [import EXCEPT ![p] =
                    {[archive |-> a, version |-> StmVersion(day)]}]
    /\ UNCHANGED <<day, schedule, older, stops, faults>>

\* db.Begin fixes what now() returns in this transaction: a later time than in
\* those that have begun.
Begin(p) ==
    /\ stage[p] = "importing"
    /\ stage' = [stage EXCEPT ![p] = "inserting"]
    /\ older' = older \cup (Begun \X ({p} \X Label(p)))
    /\ UNCHANGED <<day, schedule, import, stops, faults>>

\* p has inserted its version and not committed it.
Holds(p) == stage[p] \in {"copying", "committing"}

\* Mutant: a version of the same label is deleted first, with its rows.
InsertReplaces(p) ==
    /\ stage[p] = "inserting"
    /\ \A q \in Processes : Holds(q) => Label(q) # Label(p)
    /\ stage' = [stage EXCEPT ![p] = "copying"]
    /\ UNCHANGED <<day, schedule, older, import, stops, faults>>

\* INSERT INTO gtfs_feed_version waits for an open transaction with the same
\* version, and inserts nothing if the version is there.
Insert(p) ==
    /\ stage[p] = "inserting"
    /\ \A q \in Processes : Holds(q) => Label(q) # Label(p)
    /\ IF Label(p) \cap DOMAIN schedule = {}
       THEN stage' = [stage EXCEPT ![p] = "copying"] /\ UNCHANGED <<import, stops, older>>
       ELSE Rollback(p)
    /\ UNCHANGED <<day, schedule, faults>>

\* The staging tables, private to the transaction, and the copy.
Copy(p) ==
    /\ stage[p] = "copying"
    /\ IF \A i \in import[p] : i.archive \in Storable
       THEN stage' = [stage EXCEPT ![p] = "committing"] /\ UNCHANGED <<import, stops, older>>
       ELSE Rollback(p)
    /\ UNCHANGED <<day, schedule, faults>>

TxCommit(p) ==
    \E i \in import[p] :
        schedule' = [v \in DOMAIN schedule \cup {i.version} |->
                        IF v = i.version THEN [archive |-> i.archive, by |-> p]
                        ELSE schedule[v]]

Commit(p) ==
    /\ stage[p] = "committing"
    /\ TxCommit(p)
    /\ stage' = [stage EXCEPT ![p] = IF p \in Importers THEN "done" ELSE "loading"]
    /\ import' = [import EXCEPT ![p] = NULL]
    /\ UNCHANGED <<day, older, stops, faults>>

\* The connection is lost after the database has committed.
CommitUnacknowledged(p) ==
    /\ stage[p] = "committing"
    /\ faults < MaxFaults
    /\ faults' = faults + 1
    /\ TxCommit(p)
    /\ Abandon(p)
    /\ UNCHANGED <<day, older>>

-----------------------------------------------------------------------------
\* The matcher is ready with the stops it was given, for as long as it runs.
Up(p, loaded) ==
    /\ stage' = [stage EXCEPT ![p] = "up"]
    /\ stops' = [stops EXCEPT ![p] = loaded]
    /\ UNCHANGED <<day, schedule, older, import, faults>>

LoadDatabase(p) ==
    /\ stage[p] = "loading"
    /\ LatestStops # {}
    /\ Up(p, LatestStops)

\* An unreadable stops file is an error.
LoadFile(p) ==
    /\ stage[p] = "loading"
    /\ LatestStops = {}
    /\ \E file \in StopsFile[p] :
        IF FileFails(file)
        THEN Abandon(p) /\ UNCHANGED <<day, schedule, older, faults>>
        ELSE FileStops(file) # {} /\ Up(p, FileStops(file))

\* The site is asked when there is no file, or none of its rows is a stop.
AsksSite(p) ==
    /\ stage[p] = "loading"
    /\ LatestStops = {}
    /\ \A file \in StopsFile[p] : ~FileFails(file) /\ FileStops(file) = {}

LoadURL(p, a) ==
    /\ AsksSite(p)
    /\ a \in Served
    /\ IF a \in Survived
       THEN Up(p, StopsAt[a])
       ELSE Abandon(p) /\ UNCHANGED <<day, schedule, older, faults>>

\* A site that does not answer leaves the matcher without stops.
LoadURLFails(p) == AsksSite(p) /\ Up(p, {})

Crash(p) ==
    /\ stage[p] \notin {"down", "done"}
    /\ faults < MaxFaults
    /\ faults' = faults + 1
    /\ Rollback(p)
    /\ UNCHANGED <<day, schedule>>

Midnight ==
    /\ day < MaxDay
    /\ day' = day + 1
    /\ UNCHANGED <<schedule, older, stage, import, stops, faults>>

ImportStep(p) == Begin(p) \/ Insert(p) \/ Copy(p) \/ Commit(p)

LoadStep(p) ==
    LoadDatabase(p) \/ LoadFile(p) \/ LoadURLFails(p) \/ \E a \in SiteArchives : LoadURL(p, a)

DownloadStep(p) == DownloadFails(p) \/ \E a \in SiteArchives : Download(p, a)

Next ==
    \/ Midnight
    \/ \E p \in Processes :
        \/ Start(p) \/ Check(p) \/ DownloadStep(p) \/ ImportStep(p) \/ LoadStep(p)
        \/ CommitUnacknowledged(p) \/ Crash(p)
        \/ \E a \in HandArchives, v \in HandVersions : HandImport(p, a, v)

Spec == Init /\ [][Next]_vars

\* A process that runs goes on, the download and the commit answer one way or
\* the other, and the host starts a process that died again.
Fairness ==
    \A p \in Containers \cup Matchers \cup Importers :
        /\ WF_vars(Start(p)) /\ WF_vars(Check(p)) /\ WF_vars(DownloadStep(p))
        /\ WF_vars(ImportStep(p)) /\ WF_vars(LoadStep(p))

FairSpec == Spec /\ Fairness

-----------------------------------------------------------------------------
Sound(data) ==
    /\ \A t \in data.stopTimes :
        /\ t.trip \in data.trips /\ t.stop \in {s.id : s \in data.stops}
        /\ \A u \in data.stopTimes : u.trip = t.trip /\ u.sequence = t.sequence => u = t
    /\ \A s, t \in data.stops : s.id = t.id => s = t
    /\ \A s \in data.stops : s.lat \subseteq -90..90 /\ s.lon \subseteq -180..180

\* A version that can be read is a whole and sound one: the stop times refer
\* to trips and stops of the same version, a trip passes once at each of its
\* ranks, and a stop has one place, on the globe.  What the delay of a
\* prediction and the geofence are computed from (Import and its constraints).
ScheduleSound == \A v \in DOMAIN schedule : Sound(Data[schedule[v].archive])

\* "A feed version is immutable" (static.go): no step, of whichever importer,
\* changes or removes a version that can be read.
VersionsImmutable ==
    [][\A v \in DOMAIN schedule : v \in DOMAIN schedule' /\ schedule'[v] = schedule[v]]_vars

\* A container that starts, dies and starts again, on whichever days, whether
\* or not it learnt of its commit, imports one version in its whole life: the
\* versions do not pile up with restarts and days (EnsureStaticSchedule).
OneImportEach ==
    \A v, w \in DOMAIN schedule :
        schedule[v].by \in Containers /\ schedule[v].by = schedule[w].by => v = w

\* A container that serves has a schedule to derive delays from, and its
\* matcher knows every stop that some version of it locates.
ServesWithSchedule ==
    \A p \in Containers :
        stage[p] = "up" =>
            \E v \in DOMAIN schedule :
                {s.id : s \in StopsOf(v)} \subseteq {s.id : s \in stops[p]}

\* A matcher without a version in its database that reads the site gets the
\* same stops as one that reads the version imported from the same archive:
\* the two readers of stops.txt agree on every archive that can be imported.
ReadersAgree ==
    \A v \in DOMAIN schedule :
        schedule[v].archive \in Survived => StopsAt[schedule[v].archive] = StopsOf(v)

\* A matcher that starts takes the places of the newest version, the one whose
\* import began last, for all the stops that it locates (LatestStops).
LoadsNewest ==
    [][\A p \in Processes, v \in DOMAIN schedule :
        /\ stage[p] = "loading" /\ stage'[p] = "up"
        /\ \A w \in DOMAIN schedule \ {v} : Older(w, v)
        => StopsOf(v) \subseteq stops'[p]]_vars

\* Once a version locates stops, every container and every matcher gets up,
\* whatever the site answers from then on.
EventuallyUp ==
    \A p \in Containers \cup Matchers :
        (\E v \in DOMAIN schedule : StopsOf(v) # {}) ~> stage[p] = "up"
=============================================================================
