------------------------ MODULE StaticScheduleProofs ------------------------
(***************************************************************************)
(* What the importers guarantee for any number of processes, archives,     *)
(* labels, days and faults.                                                *)
(***************************************************************************)
EXTENDS StaticSchedule, TLAPS

\* The stages in which a process has an import.
Importing == {"importing", "inserting", "copying", "committing"}

\* The invariant that the steps preserve.  A label that a transaction has
\* inserted is in no version that can be read, and no two transactions hold
\* one; what is about to be committed has passed the tables; and a container
\* that is on its way to a commit has none behind it.
ImportInv ==
    /\ TypeOK
    /\ \A p \in Processes : stage[p] \in Importing => import[p] # NULL
    /\ \A p \in Matchers : stage[p] \in {"down", "loading", "up"}
    /\ \A p \in Processes : Holds(p) => Label(p) \cap DOMAIN schedule = {}
    /\ \A p, q \in Processes : p # q /\ Holds(p) /\ Holds(q) => Label(p) # Label(q)
    /\ \A p \in Processes : stage[p] = "committing" => \A i \in import[p] : i.archive \in Storable
    /\ \A v \in DOMAIN schedule : schedule[v].archive \in Storable
    /\ \A p \in Containers : stage[p] \in Importing \cup {"downloading"} =>
            \A v \in DOMAIN schedule : schedule[v].by # p
    /\ OneImportEach

\* Two rows that the importer keeps are equal when the table takes both and
\* they have the same key.
LEMMA KeysIdentify ==
    ASSUME NEW a, NEW name, NEW key, NEW r \in Rows(a, name), NEW s \in Rows(a, name),
           DOMAIN a.files[name].rows \subseteq Int,
           ~Repeats(a, name, key), \A c \in key : KeyValue(c, r[c]) = KeyValue(c, s[c])
    PROVE  r = s
<1>1. PICK i \in Kept(a, name) : r = Row(a, name, i)
  BY DEF Rows
<1>2. PICK j \in Kept(a, name) : s = Row(a, name, j)
  BY DEF Rows
<1>3. ~(i < j) /\ ~(j < i)
  BY <1>1, <1>2 DEF Repeats
<1>4. i \in Int /\ j \in Int
  BY DEF Kept
<1> QED BY <1>1, <1>2, <1>3, <1>4

\* An archive that passes the checks and the constraints is a sound schedule.
LEMMA StorableIsSound ==
    ASSUME NEW a \in Storable
    PROVE  Sound(Data[a])
<1>. DEFINE c == Content[a]
<1>1. ParseArchive(c) /\ CopyStagedRows(c) /\ Data[a] = StaticData(c)
  BY DEF Storable, Accepted, Data
<1>0. \A name \in {"stops.txt", "stop_times.txt"} : DOMAIN c.files[name].rows \subseteq Int
  <2>1. a \in Archives
    BY DEF Storable, Accepted
  <2>2. "stops.txt" \in DOMAIN c.files /\ "stop_times.txt" \in DOMAIN c.files
    BY <1>1 DEF ParseArchive, ParseStops, ParseStopTimes, ReadCSV
  <2>3. \A f \in DOMAIN c.files : DOMAIN c.files[f].rows \subseteq Nat
    BY <2>1, ContentAssumption
  <2> QED BY <2>2, <2>3
<1>2. \A t \in StaticData(c).stopTimes :
        t.trip \in StaticData(c).trips /\ t.stop \in {s.id : s \in StaticData(c).stops}
  BY <1>1 DEF CopyStagedRows
<1>3. ASSUME NEW t \in StaticData(c).stopTimes, NEW u \in StaticData(c).stopTimes,
             u.trip = t.trip, u.sequence = t.sequence
      PROVE  u = t
  <2>1. PICK r \in Rows(c, "stop_times.txt") : t = StopTimeRow(r)
    BY DEF StaticData
  <2>2. PICK s \in Rows(c, "stop_times.txt") : u = StopTimeRow(s)
    BY DEF StaticData
  <2>3. r["trip_id"] = s["trip_id"] /\ IntOf[r["stop_sequence"]] = IntOf[s["stop_sequence"]]
    BY <1>3, <2>1, <2>2 DEF StopTimeRow
  <2>4. \A k \in {"trip_id", "stop_sequence"} : KeyValue(k, r[k]) = KeyValue(k, s[k])
    BY <2>3 DEF KeyValue
  <2>5. ~Repeats(c, "stop_times.txt", {"trip_id", "stop_sequence"})
    BY <1>1 DEF CopyStagedRows
  <2>6. r = s
    BY <2>4, <2>5, <1>0, KeysIdentify
  <2> QED BY <2>1, <2>2, <2>6
<1>4. ASSUME NEW t \in StaticData(c).stops, NEW u \in StaticData(c).stops, t.id = u.id
      PROVE  t = u
  <2>1. PICK r \in Rows(c, "stops.txt") : t = StopRow(r)
    BY DEF StaticData
  <2>2. PICK s \in Rows(c, "stops.txt") : u = StopRow(s)
    BY DEF StaticData
  <2>3. r["stop_id"] = s["stop_id"]
    BY <1>4, <2>1, <2>2 DEF StopRow
  <2>4. \A k \in {"stop_id"} : KeyValue(k, r[k]) = KeyValue(k, s[k])
    BY <2>3 DEF KeyValue
  <2>5. ~Repeats(c, "stops.txt", {"stop_id"})
    BY <1>1 DEF CopyStagedRows
  <2>6. r = s
    BY <2>4, <2>5, <1>0, KeysIdentify
  <2> QED BY <2>1, <2>2, <2>6
<1>5. ASSUME NEW t \in StaticData(c).stops
      PROVE  t.lat \subseteq -90..90 /\ t.lon \subseteq -180..180
  <2>1. PICK r \in Rows(c, "stops.txt") : t = StopRow(r)
    BY DEF StaticData
  <2>2. OptionalFloat(Value(r, "stop_lat"), 90) /\ OptionalFloat(Value(r, "stop_lon"), 180)
    BY <1>1 DEF ParseArchive, ParseStops
  <2> QED BY <2>1, <2>2 DEF StopRow, Coordinate, OptionalFloat, NULL
<1> QED BY <1>1, <1>2, <1>3, <1>4, <1>5 DEF Sound

LEMMA ImportInit == Init => ImportInv
<1> SUFFICES ASSUME Init PROVE ImportInv
  OBVIOUS
<1>1. TypeOK
  BY StaticScheduleAssumption DEF Init, TypeOK, Stages
<1>2. \A p \in Processes : stage[p] = "down"
  BY DEF Init
<1>3. DOMAIN schedule = {}
  BY DEF Init
<1>4. Matchers \subseteq Processes /\ Containers \subseteq Processes
  BY DEF Processes
<1> QED BY <1>1, <1>2, <1>3, <1>4 DEF ImportInv, Holds, Importing, OneImportEach

\* What a step that commits nothing has to preserve, when only p moves.
LEMMA OtherSteps ==
    ASSUME ImportInv, NEW p \in Processes, schedule' = schedule,
           day' \in 0..MaxDay, faults' \in 0..MaxFaults, DOMAIN stops' = Processes,
           NEW to \in Stages, stage' = [stage EXCEPT ![p] = to],
           NEW i \in {NULL} \cup {{j} : j \in Import}, import' = [import EXCEPT ![p] = i],
           to \in Importing => i # NULL,
           p \in Matchers => to \in {"down", "loading", "up"},
           to \in {"copying", "committing"} =>
                /\ {j.version : j \in i} \cap DOMAIN schedule = {}
                /\ \A q \in Processes \ {p} : Holds(q) => Label(q) # {j.version : j \in i},
           to = "committing" => \A j \in i : j.archive \in Storable,
           p \in Containers /\ to \in Importing \cup {"downloading"} =>
                \A v \in DOMAIN schedule : schedule[v].by # p
    PROVE  ImportInv'
<1>. USE DEF ImportInv
<1>1. TypeOK'
  BY DEF TypeOK
<1>2. \A q \in Processes : q # p => stage'[q] = stage[q] /\ import'[q] = import[q]
  BY DEF TypeOK
<1>3. stage'[p] = to /\ import'[p] = i
  BY DEF TypeOK
<1>4. \A q \in Processes : q # p => (Holds(q)' <=> Holds(q)) /\ Label(q)' = Label(q)
  BY <1>2 DEF Holds, Label
<1>5. Label(p)' = {j.version : j \in i} /\ (Holds(p)' <=> to \in {"copying", "committing"})
  BY <1>3 DEF Holds, Label
<1>6. \A q \in Processes : stage'[q] \in Importing => import'[q] # NULL
  BY <1>2, <1>3
<1>7. \A q \in Matchers : stage'[q] \in {"down", "loading", "up"}
  BY <1>2, <1>3 DEF Processes
<1>8. \A q \in Processes : Holds(q)' => Label(q)' \cap DOMAIN schedule' = {}
  BY <1>4, <1>5
<1>9. \A q, r \in Processes : q # r /\ Holds(q)' /\ Holds(r)' => Label(q)' # Label(r)'
  BY <1>4, <1>5
<1>10. \A q \in Processes : stage'[q] = "committing" => \A j \in import'[q] : j.archive \in Storable
  BY <1>2, <1>3
<1>11. \A q \in Containers : stage'[q] \in Importing \cup {"downloading"} =>
            \A v \in DOMAIN schedule' : schedule'[v].by # q
  BY <1>2, <1>3 DEF Processes
<1>12. OneImportEach'
  BY DEF OneImportEach
<1> QED BY <1>1, <1>6, <1>7, <1>8, <1>9, <1>10, <1>11, <1>12

\* A step after which p has no import, and is at rest, starting or loading.
LEMMA Release ==
    ASSUME ImportInv, NEW p \in Processes, schedule' = schedule,
           day' = day, faults' \in 0..MaxFaults, DOMAIN stops' = Processes,
           NEW to \in {"down", "done", "checking", "loading", "up"},
           stage' = [stage EXCEPT ![p] = to],
           p \in Matchers => to \in {"down", "loading", "up"},
           import' \in {import, [import EXCEPT ![p] = NULL]}
    PROVE  ImportInv'
<1>. USE DEF ImportInv, TypeOK
<1>1. PICK i \in {NULL} \cup {{j} : j \in Import} : import' = [import EXCEPT ![p] = i]
  OBVIOUS
<1>2. to \in Stages /\ to \notin Importing /\ to # "downloading" /\ day' \in 0..MaxDay
  BY DEF Stages, Importing
<1>3. to \notin {"copying", "committing"}
  OBVIOUS
<1> QED BY <1>1, <1>2, <1>3, OtherSteps

\* The import of p ends without a commit.
LEMMA AbandonStep ==
    ASSUME ImportInv, NEW p \in Processes, Abandon(p), schedule' = schedule, day' = day,
           faults' \in 0..MaxFaults
    PROVE  ImportInv'
<1>1. PICK to \in {"down", "done"} :
        stage' = [stage EXCEPT ![p] = to] /\ (to = "done" <=> p \in Importers)
  BY DEF Abandon
<1>2. p \in Matchers => to = "down"
  BY <1>1, StaticScheduleAssumption
<1>3. DOMAIN stops' = Processes
  BY DEF Abandon, ImportInv, TypeOK
<1> QED BY <1>1, <1>2, <1>3, Release DEF Abandon

\* The commit of p, whether or not p learns of it.
LEMMA CommitStep ==
    ASSUME ImportInv, NEW p \in Processes, stage[p] = "committing", TxCommit(p),
           day' = day, faults' \in 0..MaxFaults, DOMAIN stops' = Processes,
           NEW to \in {"down", "done", "loading"}, stage' = [stage EXCEPT ![p] = to],
           import' = [import EXCEPT ![p] = NULL]
    PROVE  ImportInv' /\ \A v \in DOMAIN schedule : v \in DOMAIN schedule' /\ schedule'[v] = schedule[v]
<1>. USE DEF ImportInv
<1>1. PICK i \in import[p] :
        schedule' = [v \in DOMAIN schedule \cup {i.version} |->
                        IF v = i.version THEN [archive |-> i.archive, by |-> p] ELSE schedule[v]]
  BY DEF TxCommit
<1>2. i \in Import /\ import[p] = {i} /\ Label(p) = {i.version} /\ i.archive \in Storable
  BY <1>1 DEF TypeOK, Label, NULL
<1>3. i.version \notin DOMAIN schedule
  BY <1>2 DEF Holds
<1>4. p \in Containers \cup Importers
  BY DEF Processes
<1>5. \A v \in DOMAIN schedule : v \in DOMAIN schedule' /\ schedule'[v] = schedule[v]
  BY <1>1, <1>3
<1>6. /\ DOMAIN schedule' = DOMAIN schedule \cup {i.version}
      /\ schedule'[i.version] = [archive |-> i.archive, by |-> p]
  BY <1>1
<1>7. TypeOK'
  <2>1. i.version \in Versions /\ i.archive \in Accepted
    BY <1>2 DEF Import
  <2>2. \A v \in DOMAIN schedule' :
            schedule'[v] \in [archive : Accepted, by : Containers \cup Importers]
    BY <1>4, <1>5, <1>6, <2>1 DEF TypeOK
  <2>3. stage' \in [Processes -> Stages]
    BY DEF TypeOK, Stages
  <2>4. import' \in [Processes -> {NULL} \cup {{j} : j \in Import}]
    BY DEF TypeOK
  <2> QED BY <1>6, <2>1, <2>2, <2>3, <2>4 DEF TypeOK
<1>8. \A q \in Processes : q # p => stage'[q] = stage[q] /\ import'[q] = import[q]
  BY DEF TypeOK
<1>9. stage'[p] \in {"down", "done", "loading"}
  BY DEF TypeOK
<1>10. \A q \in Processes : Holds(q)' => q # p /\ Holds(q) /\ Label(q)' = Label(q)
  BY <1>8, <1>9 DEF Holds, Label
<1>11. \A q \in Processes : Holds(q)' => Label(q)' \cap DOMAIN schedule' = {}
  <2> SUFFICES ASSUME NEW q \in Processes, Holds(q)' PROVE Label(q)' \cap DOMAIN schedule' = {}
    OBVIOUS
  <2>1. q # p /\ Holds(q) /\ Label(q)' = Label(q) /\ Holds(p)
    BY <1>10 DEF Holds
  <2>2. PICK j \in Import : import[q] = {j}
    BY <2>1 DEF TypeOK, Holds, Importing
  <2>3. Label(q) = {j.version}
    BY <2>2 DEF Label
  <2>4. j.version # i.version
    BY <1>2, <2>1, <2>3
  <2> QED BY <1>6, <2>1, <2>3, <2>4
<1>12. \A q \in Processes : stage'[q] \in Importing => import'[q] # NULL
  BY <1>8, <1>9 DEF Importing
<1>13. \A q \in Matchers : stage'[q] \in {"down", "loading", "up"}
  <2>1. \A q \in Matchers : q \in Processes /\ q # p
    BY <1>4, StaticScheduleAssumption DEF Processes
  <2> QED BY <1>8, <2>1
<1>14. \A q, r \in Processes : q # r /\ Holds(q)' /\ Holds(r)' => Label(q)' # Label(r)'
  BY <1>10
<1>15. \A q \in Processes : stage'[q] = "committing" => \A j \in import'[q] : j.archive \in Storable
  BY <1>8, <1>9
<1>16. \A v \in DOMAIN schedule' : schedule'[v].archive \in Storable
  BY <1>2, <1>5, <1>6
<1>17. \A q \in Containers : stage'[q] \in Importing \cup {"downloading"} =>
            \A v \in DOMAIN schedule' : schedule'[v].by # q
  <2> SUFFICES ASSUME NEW q \in Containers, stage'[q] \in Importing \cup {"downloading"},
                      NEW v \in DOMAIN schedule'
               PROVE  schedule'[v].by # q
    OBVIOUS
  <2>1. q # p /\ stage[q] = stage'[q]
    BY <1>8, <1>9 DEF Processes, Importing
  <2> QED BY <1>5, <1>6, <2>1
<1>18. OneImportEach'
  <2>1. p \in Containers => \A v \in DOMAIN schedule : schedule[v].by # p
    BY DEF Importing
  <2> QED BY <1>5, <1>6, <2>1 DEF OneImportEach
<1> QED BY <1>5, <1>7, <1>11, <1>12, <1>13, <1>14, <1>15, <1>16, <1>17, <1>18

\* What a step may do to the versions that can be read.
KeepsVersions == \A v \in DOMAIN schedule : v \in DOMAIN schedule' /\ schedule'[v] = schedule[v]

LEMMA ImportStepInv == ImportInv /\ [Next]_vars => ImportInv' /\ KeepsVersions
<1> SUFFICES ASSUME ImportInv, [Next]_vars PROVE ImportInv' /\ KeepsVersions
  OBVIOUS
<1>0. TypeOK /\ (schedule' = schedule => KeepsVersions)
  BY DEF ImportInv, KeepsVersions
<1>a. /\ day \in 0..MaxDay /\ faults \in 0..MaxFaults /\ DOMAIN stops = Processes
      /\ (faults < MaxFaults => faults + 1 \in 0..MaxFaults)
  BY <1>0, StaticScheduleAssumption DEF TypeOK
<1>1. CASE UNCHANGED vars
  BY <1>0, <1>1 DEF vars, ImportInv, TypeOK, OneImportEach, Holds, Label
<1>2. CASE Midnight
  <2>1. day' \in 0..MaxDay
    BY <1>2, <1>a, StaticScheduleAssumption DEF Midnight
  <2> QED BY <1>0, <1>2, <2>1 DEF Midnight, ImportInv, TypeOK, OneImportEach, Holds, Label
<1>3. ASSUME NEW p \in Processes, Start(p) PROVE ImportInv' /\ KeepsVersions
  <2>1. PICK to \in {"checking", "loading"} :
          stage' = [stage EXCEPT ![p] = to] /\ (to = "checking" <=> p \in Containers)
    BY <1>3 DEF Start
  <2>2. p \in Matchers => to = "loading"
    BY <2>1, StaticScheduleAssumption
  <2> QED BY <1>0, <1>a, <1>3, <2>1, <2>2, Release DEF Start
<1>4. ASSUME NEW p \in Processes, NEW a \in HandArchives, NEW v \in HandVersions, HandImport(p, a, v)
      PROVE  ImportInv' /\ KeepsVersions
  <2>1. p \notin Matchers /\ p \notin Containers
    BY <1>4, StaticScheduleAssumption DEF HandImport
  <2>2. CASE a \in Accepted
    <3> DEFINE i == {[archive |-> a, version |-> v]}
    <3>1. i \in {NULL} \cup {{j} : j \in Import} /\ i # NULL
      BY <2>2 DEF Import, Versions, NULL
    <3>2. stage' = [stage EXCEPT ![p] = "importing"] /\ import' = [import EXCEPT ![p] = i]
      BY <1>4, <2>2 DEF HandImport
    <3>3. "importing" \in Stages /\ "importing" \notin {"copying", "committing"}
      BY DEF Stages
    <3> HIDE DEF i
    <3> QED BY <1>0, <1>a, <1>4, <2>1, <3>1, <3>2, <3>3, OtherSteps DEF HandImport
  <2>3. CASE a \notin Accepted
    BY <1>0, <1>a, <1>4, <2>1, <2>3, Release DEF HandImport
  <2> QED BY <2>2, <2>3
<1>5. ASSUME NEW p \in Processes, Check(p) PROVE ImportInv' /\ KeepsVersions
  <2>1. p \notin Matchers
    BY <1>5 DEF Check, ImportInv
  <2>2. CASE DOMAIN schedule # {}
    BY <1>0, <1>a, <1>5, <2>1, <2>2, Release DEF Check
  <2>3. CASE DOMAIN schedule = {}
    <3>1. /\ stage' = [stage EXCEPT ![p] = "downloading"]
          /\ import' = [import EXCEPT ![p] = import[p]]
          /\ import[p] \in {NULL} \cup {{j} : j \in Import}
      BY <1>0, <1>5, <2>3 DEF Check, TypeOK
    <3>2. "downloading" \in Stages /\ "downloading" \notin Importing
      BY DEF Stages, Importing
    <3>3. "downloading" \notin {"copying", "committing"}
      OBVIOUS
    <3> QED BY <1>0, <1>a, <1>5, <2>1, <2>3, <3>1, <3>2, <3>3, OtherSteps DEF Check
  <2> QED BY <2>2, <2>3
<1>6. ASSUME NEW p \in Processes, DownloadFails(p) PROVE ImportInv' /\ KeepsVersions
  BY <1>0, <1>a, <1>6, AbandonStep DEF DownloadFails
<1>7. ASSUME NEW p \in Processes, NEW a \in SiteArchives, Download(p, a)
      PROVE  ImportInv' /\ KeepsVersions
  <2> DEFINE i == {[archive |-> a, version |-> StmVersion(day)]}
  <2>1. i \in {NULL} \cup {{j} : j \in Import} /\ i # NULL
    BY <1>7, <1>a DEF Download, Import, Versions, NULL
  <2>2. stage' = [stage EXCEPT ![p] = "importing"] /\ import' = [import EXCEPT ![p] = i]
    BY <1>7 DEF Download
  <2>3. "importing" \in Stages /\ "importing" \notin {"copying", "committing"}
    BY DEF Stages
  <2>4. p \notin Matchers /\ (p \in Containers => \A v \in DOMAIN schedule : schedule[v].by # p)
    BY <1>7 DEF Download, ImportInv
  <2> HIDE DEF i
  <2> QED BY <1>0, <1>a, <1>7, <2>1, <2>2, <2>3, <2>4, OtherSteps DEF Download
<1>8. ASSUME NEW p \in Processes, Begin(p) \/ Insert(p) \/ Copy(p) PROVE ImportInv' /\ KeepsVersions
  <2>1. /\ stage[p] \in Importing /\ p \notin Matchers /\ schedule' = schedule /\ day' = day
        /\ faults' = faults
    BY <1>8 DEF Begin, Insert, Copy, Importing, ImportInv
  <2>2. CASE Abandon(p)
    BY <1>0, <1>a, <2>1, <2>2, AbandonStep
  <2>3. CASE ~Abandon(p)
    <3>1. PICK to \in {"inserting", "copying", "committing"} :
            /\ stage' = [stage EXCEPT ![p] = to] /\ UNCHANGED <<import, stops>>
            /\ to = "inserting" => Begin(p)
            /\ to = "copying" => Insert(p) /\ Label(p) \cap DOMAIN schedule = {}
            /\ to = "committing" => Copy(p) /\ \A i \in import[p] : i.archive \in Storable
      BY <1>8, <2>3 DEF Begin, Insert, Copy, Rollback
    <3>2. /\ import' = [import EXCEPT ![p] = import[p]]
          /\ import[p] \in {NULL} \cup {{j} : j \in Import} /\ import[p] # NULL
      BY <1>0, <2>1, <3>1 DEF TypeOK, ImportInv
    <3>3. to \in {"copying", "committing"} =>
            /\ Label(p) \cap DOMAIN schedule = {}
            /\ \A q \in Processes \ {p} : Holds(q) => Label(q) # Label(p)
      BY <3>1 DEF Insert, Copy, Holds, ImportInv
    <3>4. to \in Stages /\ Label(p) = {j.version : j \in import[p]}
      BY DEF Stages, Label
    <3>5. p \in Containers => \A v \in DOMAIN schedule : schedule[v].by # p
      BY <2>1 DEF ImportInv
    <3> QED BY <1>0, <1>a, <2>1, <3>1, <3>2, <3>3, <3>4, <3>5, OtherSteps
  <2> QED BY <2>2, <2>3
<1>9. ASSUME NEW p \in Processes, Commit(p) PROVE ImportInv' /\ KeepsVersions
  <2>1. PICK to \in {"done", "loading"} : stage' = [stage EXCEPT ![p] = to]
    BY <1>9 DEF Commit
  <2> QED BY <1>a, <1>9, <2>1, CommitStep DEF Commit, KeepsVersions
<1>10. ASSUME NEW p \in Processes, CommitUnacknowledged(p) PROVE ImportInv' /\ KeepsVersions
  <2>1. PICK to \in {"done", "down"} : stage' = [stage EXCEPT ![p] = to]
    BY <1>10 DEF CommitUnacknowledged, Abandon
  <2>2. DOMAIN stops' = Processes
    BY <1>a, <1>10 DEF CommitUnacknowledged, Abandon
  <2> QED BY <1>a, <1>10, <2>1, <2>2, CommitStep DEF CommitUnacknowledged, Abandon, KeepsVersions
<1>11. ASSUME NEW p \in Processes, NEW l, stage[p] = "loading", Up(p, l)
       PROVE  ImportInv' /\ KeepsVersions
  <2>1. DOMAIN stops' = Processes
    BY <1>a, <1>11 DEF Up
  <2> QED BY <1>0, <1>a, <1>11, <2>1, Release DEF Up
<1>12. ASSUME NEW p \in Processes, LoadStep(p) PROVE ImportInv' /\ KeepsVersions
  <2>1. CASE LoadDatabase(p)
    BY <1>11, <2>1 DEF LoadDatabase
  <2>2. CASE LoadFile(p)
    BY <1>0, <1>a, <1>11, <2>2, AbandonStep DEF LoadFile
  <2>3. CASE LoadURLFails(p)
    BY <1>11, <2>3 DEF LoadURLFails, AsksSite
  <2>4. ASSUME NEW a \in SiteArchives, LoadURL(p, a) PROVE ImportInv' /\ KeepsVersions
    BY <1>0, <1>a, <1>11, <2>4, AbandonStep DEF LoadURL, AsksSite
  <2> QED BY <1>12, <2>1, <2>2, <2>3, <2>4 DEF LoadStep
<1>13. ASSUME NEW p \in Processes, Crash(p) PROVE ImportInv' /\ KeepsVersions
  BY <1>0, <1>a, <1>13, AbandonStep DEF Crash, Rollback
<1> QED
  BY <1>1, <1>2, <1>3, <1>4, <1>5, <1>6, <1>7, <1>8, <1>9, <1>10, <1>12, <1>13
  DEF Next, DownloadStep, ImportStep

\* For any number of containers, importers, matchers, archives and faults: every
\* version that can be read is whole and sound (gtfs/static.go:40-104).
THEOREM VersionsAreSound == Spec => []ScheduleSound
<1>1. ImportInv => ScheduleSound
  BY StorableIsSound DEF ImportInv, ScheduleSound
<1> QED BY <1>1, ImportInit, ImportStepInv, PTL DEF Spec

\* A version never changes once it can be read, whoever imports what.
THEOREM VersionsNeverChange == Spec => VersionsImmutable
<1>1. ImportInv /\ [Next]_vars => [KeepsVersions]_vars
  BY ImportStepInv
<1>2. [KeepsVersions]_vars <=>
        [\A v \in DOMAIN schedule : v \in DOMAIN schedule' /\ schedule'[v] = schedule[v]]_vars
  BY DEF KeepsVersions
<1> QED BY <1>1, <1>2, ImportInit, ImportStepInv, PTL DEF Spec, VersionsImmutable

\* A container imports at most once in its whole life.
THEOREM ContainersImportOnce == Spec => []OneImportEach
<1>1. ImportInv => OneImportEach
  BY DEF ImportInv
<1> QED BY <1>1, ImportInit, ImportStepInv, PTL DEF Spec

-----------------------------------------------------------------------------
(* The order of the imports, and what a matcher loads.                     *)

Open == {"inserting", "copying", "committing"}

\* The times at which the transactions began are all different.
StrictOrder ==
    /\ older \subseteq Begun \X Begun
    /\ \A t, u \in Begun : t # u => <<t, u>> \in older \/ <<u, t>> \in older
    /\ \A t, u \in Begun : <<t, u>> \in older => <<u, t>> \notin older
    /\ \A t, u, x \in Begun : <<t, u>> \in older /\ <<u, x>> \in older => <<t, x>> \in older

IsNewest(v) == \A w \in DOMAIN schedule \ {v} : Older(w, v)

\* The invariant of the order: a process with a transaction under way has
\* committed none before, which would have the same name, and a container that
\* gets as far as its matcher has a version.
OrderInv ==
    /\ ImportInv
    /\ \A p \in Processes : import[p] # NULL => stage[p] \in Importing
    /\ \A p \in Importers : stage[p] \in {"down", "done"} \cup Importing
    /\ \A p \in Importers, v \in DOMAIN schedule : schedule[v].by = p => stage[p] = "done"
    /\ StrictOrder
    /\ DOMAIN schedule # {} => \E v \in DOMAIN schedule : IsNewest(v)
    /\ \A p \in Containers : stage[p] \in {"loading", "up"} => DOMAIN schedule # {}
    /\ ServesWithSchedule

\* What a step may do to the transactions: nothing, begin one, take back one
\* that is not committed, or commit one.
Quiet == Begun' = Begun /\ older' = older /\ schedule' = schedule

Begins ==
    /\ schedule' = schedule
    /\ \E t : t \notin Begun /\ Begun' = Begun \cup {t} /\ older' = older \cup (Begun \X {t})

TakesBack ==
    /\ schedule' = schedule
    /\ \E X : /\ \A v \in DOMAIN schedule : Importer(v) \notin X
              /\ Begun' = Begun \ X
              /\ older' = {o \in older : {o[1], o[2]} \cap X = {}}

Commits ==
    /\ Begun' = Begun /\ older' = older
    /\ KeepsVersions
    /\ \E w : DOMAIN schedule' = DOMAIN schedule \cup {w}

LEMMA ImporterBegun == \A v \in DOMAIN schedule : Importer(v) \in Begun
  BY DEF Begun

\* Each of them keeps the order strict and a newest version among them.
LEMMA MovesKeepOrder ==
    ASSUME StrictOrder, DOMAIN schedule # {} => \E v \in DOMAIN schedule : IsNewest(v),
           Quiet \/ Begins \/ TakesBack \/ Commits
    PROVE  /\ StrictOrder'
           /\ (DOMAIN schedule # {} => \E v \in DOMAIN schedule : IsNewest(v))'
<1>1. CASE Quiet
  BY <1>1 DEF Quiet, StrictOrder, IsNewest, Older, Importer
<1>2. CASE Begins
  <2>1. PICK t : t \notin Begun /\ Begun' = Begun \cup {t} /\ older' = older \cup (Begun \X {t})
    BY <1>2 DEF Begins
  <2>2. StrictOrder'
    BY <2>1 DEF StrictOrder
  <2>3. schedule' = schedule /\ older \subseteq older'
    BY <1>2, <2>1 DEF Begins
  <2> QED BY <2>2, <2>3 DEF IsNewest, Older, Importer
<1>3. CASE TakesBack
  <2>1. PICK X : /\ \A v \in DOMAIN schedule : Importer(v) \notin X
                 /\ Begun' = Begun \ X
                 /\ older' = {o \in older : {o[1], o[2]} \cap X = {}}
    BY <1>3 DEF TakesBack
  <2>2. \A t, u : <<t, u>> \in older' <=> <<t, u>> \in older /\ t \notin X /\ u \notin X
    BY <2>1
  <2>3. older' \subseteq older
    BY <2>1
  <2>4. older' \subseteq Begun' \X Begun'
    BY <2>1, <2>2, <2>3 DEF StrictOrder
  <2>5. StrictOrder'
    <3>1. \A t, u \in Begun' : t # u => <<t, u>> \in older' \/ <<u, t>> \in older'
      BY <2>1, <2>2 DEF StrictOrder
    <3>2. \A t, u \in Begun' : <<t, u>> \in older' => <<u, t>> \notin older'
      BY <2>1, <2>2 DEF StrictOrder
    <3>3. \A t, u, x \in Begun' :
            <<t, u>> \in older' /\ <<u, x>> \in older' => <<t, x>> \in older'
      <4> SUFFICES ASSUME NEW t \in Begun', NEW u \in Begun', NEW x \in Begun',
                          <<t, u>> \in older', <<u, x>> \in older'
                   PROVE  <<t, x>> \in older'
        OBVIOUS
      <4>1. /\ <<t, u>> \in older /\ t \notin X
            /\ <<u, x>> \in older /\ x \notin X
        BY <2>2
      <4>2. t \in Begun /\ u \in Begun /\ x \in Begun
        BY <2>1
      <4>3. <<t, x>> \in older
        BY <4>1, <4>2 DEF StrictOrder
      <4> QED BY <2>2, <4>1, <4>3
    <3> QED BY <2>4, <3>1, <3>2, <3>3 DEF StrictOrder
  <2>6. schedule' = schedule
    BY <1>3 DEF TakesBack
  <2>7. \A v, w \in DOMAIN schedule : Older(v, w) => Older(v, w)'
    BY <2>1, <2>2, <2>6 DEF Older, Importer
  <2> QED BY <2>5, <2>6, <2>7 DEF IsNewest
<1>4. CASE Commits
  <2>1. StrictOrder'
    BY <1>4 DEF Commits, StrictOrder
  <2>2. PICK w : DOMAIN schedule' = DOMAIN schedule \cup {w}
    BY <1>4 DEF Commits
  <2>3. \A u, v \in DOMAIN schedule : Older(u, v)' <=> Older(u, v)
    BY <1>4 DEF Commits, KeepsVersions, Older, Importer
  <2>4. \A v \in DOMAIN schedule' : Importer(v)' \in Begun'
    BY ImporterBegun DEF Begun
  <2>5. CASE DOMAIN schedule = {}
    BY <2>1, <2>2, <2>5 DEF IsNewest
  <2>6. CASE DOMAIN schedule # {}
    <3>1. PICK v \in DOMAIN schedule : IsNewest(v)
      BY <2>6
    <3>0. v \in DOMAIN schedule' /\ w \in DOMAIN schedule'
      BY <2>2
    <3>2. CASE v = w \/ Older(w, v)'
      <4>1. ASSUME NEW u \in DOMAIN schedule' \ {v} PROVE Older(u, v)'
        BY <2>2, <2>3, <3>1, <3>2 DEF IsNewest
      <4>2. IsNewest(v)'
        BY <4>1 DEF IsNewest
      <4> QED BY <2>1, <3>0, <4>2
    <3>3. CASE v # w /\ Older(v, w)'
      <4>1. ASSUME NEW u \in DOMAIN schedule' \ {w} PROVE Older(u, w)'
        <5>1. u = v \/ Older(u, v)'
          BY <2>2, <2>3, <3>1 DEF IsNewest
        <5> QED BY <2>1, <2>2, <2>4, <3>3, <5>1 DEF StrictOrder, Older
      <4>2. IsNewest(w)'
        BY <4>1 DEF IsNewest
      <4> QED BY <2>1, <3>0, <4>2
    <3>4. v # w => Importer(v)' # Importer(w)'
      BY DEF Importer
    <3> QED BY <2>1, <2>2, <2>4, <3>2, <3>3, <3>4 DEF StrictOrder, Older
  <2> QED BY <2>5, <2>6
<1> QED BY <1>1, <1>2, <1>3, <1>4

\* The newest version is loaded whole.
LEMMA NewestLoaded ==
    ASSUME StrictOrder, NEW v \in DOMAIN schedule, IsNewest(v)
    PROVE  StopsOf(v) \subseteq LatestStops
<1>1. \A w \in DOMAIN schedule : ~Older(v, w)
  BY ImporterBegun DEF IsNewest, StrictOrder, Older
<1> QED BY <1>1 DEF LatestStops

\* The transactions that are begun when p moves and no version is committed.
LEMMA BegunStep ==
    ASSUME TypeOK, NEW p \in Processes, schedule' = schedule,
           \A q \in Processes \ {p} : stage'[q] = stage[q] /\ import'[q] = import[q]
    PROVE  \A t : t \in Begun' <=>
                \/ \E v \in DOMAIN schedule : t = Importer(v)
                \/ /\ t \in Transactions
                   /\ t[1] # p => t \in Begun
                   /\ t[1] = p => stage'[p] \in Open /\ t[2] \in Label(p)'
<1>1. \A v : Importer(v)' = Importer(v)
  BY DEF Importer
<1>2. \A t \in Transactions : t[1] \in Processes
  BY DEF Transactions
<1>3. \A t \in Transactions : t[1] # p =>
        (stage'[t[1]] \in Open /\ t[2] \in Label(t[1])' <=> stage[t[1]] \in Open /\ t[2] \in Label(t[1]))
  BY <1>2 DEF Label
<1> QED BY <1>1, <1>3 DEF Begun, Open

\* A step that neither opens nor ends a transaction.
LEMMA QuietStep ==
    ASSUME TypeOK, NEW p \in Processes, schedule' = schedule, older' = older,
           \A q \in Processes \ {p} : stage'[q] = stage[q] /\ import'[q] = import[q],
           \/ stage'[p] \in Open /\ stage[p] \in Open /\ import'[p] = import[p]
           \/ stage'[p] \notin Open /\ stage[p] \notin Open
    PROVE  Quiet
<1>1. Begun' = Begun
  <2>1. stage'[p] \in Open => Label(p)' = Label(p)
    BY DEF Label
  <2>2. \A t : t \in Begun <=>
                \/ \E v \in DOMAIN schedule : t = Importer(v)
                \/ t \in Transactions /\ stage[t[1]] \in Open /\ t[2] \in Label(t[1])
    BY DEF Begun, Open
  <2>3. \A t : t \in Begun' <=> t \in Begun
    BY <2>1, <2>2, BegunStep
  <2> QED BY <2>3
<1> QED BY <1>1 DEF Quiet

\* A process with a transaction has committed none of the same name.
LEMMA OwnTransactionOpen ==
    ASSUME OrderInv, NEW p \in Processes, NEW v \in DOMAIN schedule
    PROVE  Importer(v) \notin {p} \X Label(p)
<1> SUFFICES ASSUME schedule[v].by = p, v \in Label(p) PROVE FALSE
  BY DEF Importer
<1>1. import[p] # NULL
  BY DEF Label, NULL
<1>2. stage[p] \in Importing
  BY <1>1 DEF OrderInv
<1>3. p \in Containers \cup Importers
  BY DEF OrderInv, ImportInv, TypeOK
<1> QED BY <1>2, <1>3 DEF OrderInv, ImportInv, Importing

\* A transaction begins.
LEMMA BeginMoves ==
    ASSUME OrderInv, NEW p \in Processes, Begin(p)
    PROVE  Begins
<1>0. TypeOK /\ stage[p] = "importing" /\ schedule' = schedule /\ import' = import
  BY DEF OrderInv, ImportInv, Begin
<1>1. PICK i \in Import : import[p] = {i}
  BY <1>0 DEF OrderInv, ImportInv, TypeOK, Importing, NULL
<1>2. Label(p) = {i.version} /\ {p} \X Label(p) = {<<p, i.version>>}
  BY <1>1 DEF Label
<1> DEFINE t == <<p, i.version>>
<1>3. \A v \in DOMAIN schedule : Importer(v) # t
  BY <1>2, OwnTransactionOpen
<1>4. t \notin Begun /\ t \in Transactions
  BY <1>0, <1>3 DEF Begun, Transactions, Import
<1>5. stage'[p] \in Open /\ \A q \in Processes \ {p} : stage'[q] = stage[q] /\ import'[q] = import[q]
  BY <1>0 DEF Begin, TypeOK, Open
<1>6. Label(p)' = Label(p)
  BY <1>0 DEF Label
<1>7. \A u : u \in Begun =>
        (u \in Transactions /\ u[1] # p) \/ \E v \in DOMAIN schedule : u = Importer(v)
  BY <1>0 DEF Begun
<1>8. \A u \in Transactions : u[1] = p /\ u[2] \in Label(p) <=> u = t
  BY <1>2, <1>4 DEF Transactions
<1>9. \A u : u \in Begun' <=> u \in Begun \/ u = t
  BY <1>0, <1>4, <1>5, <1>6, <1>7, <1>8, BegunStep, ImporterBegun
<1>10. Begun' = Begun \cup {t} /\ older' = older \cup (Begun \X {t})
  BY <1>2, <1>9 DEF Begin
<1> QED BY <1>0, <1>4, <1>10 DEF Begins

\* A transaction is taken back.
LEMMA RollbackMoves ==
    ASSUME OrderInv, NEW p \in Processes, Rollback(p), schedule' = schedule
    PROVE  TakesBack
<1> DEFINE X == {p} \X Label(p)
<1>0. TypeOK
  BY DEF OrderInv, ImportInv
<1>1. \A v \in DOMAIN schedule : Importer(v) \notin X
  BY OwnTransactionOpen
<1>2. stage'[p] \notin Open /\ \A q \in Processes \ {p} : stage'[q] = stage[q] /\ import'[q] = import[q]
  BY <1>0 DEF Rollback, Abandon, TypeOK, Open
<1>3. \A t : t \in Begun' <=> t \in Begun /\ t \notin X
  <2>1. \A t \in Transactions : t[1] = p /\ t[2] \in Label(p) <=> t \in X
    BY DEF Transactions
  <2>2. \A t : t \in Begun <=>
                \/ \E v \in DOMAIN schedule : t = Importer(v)
                \/ t \in Transactions /\ stage[t[1]] \in Open /\ t[2] \in Label(t[1])
    BY DEF Begun, Open
  <2> QED BY <1>0, <1>1, <1>2, <2>1, <2>2, BegunStep
<1>4. Begun' = Begun \ X /\ older' = {o \in older : {o[1], o[2]} \cap X = {}}
  BY <1>3 DEF Rollback
<1> QED BY <1>1, <1>4 DEF TakesBack

\* A transaction is committed, whether or not its process learns of it.
LEMMA CommitMoves ==
    ASSUME OrderInv, NEW p \in Processes, stage[p] = "committing", TxCommit(p), KeepsVersions,
           older' = older, stage'[p] \notin Open,
           \A q \in Processes \ {p} : stage'[q] = stage[q] /\ import'[q] = import[q]
    PROVE  Commits
<1>0. TypeOK
  BY DEF OrderInv, ImportInv
<1>1. PICK i \in Import : import[p] = {i}
  BY <1>0 DEF OrderInv, ImportInv, TypeOK, Importing, NULL
<1>2. Label(p) = {i.version}
  BY <1>1 DEF Label
<1> DEFINE t == <<p, i.version>>
<1>3. /\ DOMAIN schedule' = DOMAIN schedule \cup {i.version}
      /\ schedule'[i.version].by = p
  BY <1>1 DEF TxCommit
<1>4. \A v \in DOMAIN schedule : Importer(v)' = Importer(v)
  BY DEF KeepsVersions, Importer
<1>5. Importer(i.version)' = t /\ t \in Transactions
  BY <1>1, <1>3 DEF Importer, Transactions, Import
<1>6. \A u \in Transactions : u[1] = p /\ u[2] \in Label(p) <=> u = t
  BY <1>2, <1>5 DEF Transactions
<1>7. \A u \in Transactions : u[1] # p =>
        (stage'[u[1]] \in Open /\ u[2] \in Label(u[1])' <=> stage[u[1]] \in Open /\ u[2] \in Label(u[1]))
  BY DEF Transactions, Label
<1>8. \A u : u \in Begun <=>
        \/ \E v \in DOMAIN schedule : u = Importer(v)
        \/ u = t
        \/ u \in Transactions /\ u[1] # p /\ stage[u[1]] \in Open /\ u[2] \in Label(u[1])
  BY <1>5, <1>6 DEF Begun, Open
<1>9. \A u : u \in Begun' <=>
        \/ \E v \in DOMAIN schedule : u = Importer(v)
        \/ u = t
        \/ u \in Transactions /\ u[1] # p /\ stage[u[1]] \in Open /\ u[2] \in Label(u[1])
  <2>1. \A u : (\E v \in DOMAIN schedule' : u = Importer(v)') <=>
               (\E v \in DOMAIN schedule : u = Importer(v)) \/ u = t
    BY <1>3, <1>4, <1>5
  <2> QED BY <1>7, <2>1 DEF Begun, Open
<1>10. Begun' = Begun
  BY <1>8, <1>9
<1> QED BY <1>3, <1>10 DEF Commits

\* Every step is one of the moves.
LEMMA StepMoves ==
    ASSUME OrderInv, [Next]_vars, KeepsVersions
    PROVE  Quiet \/ Begins \/ TakesBack \/ Commits
<1>0. TypeOK /\ Processes = Containers \cup Importers \cup Matchers
  BY DEF OrderInv, ImportInv, Processes
<1>1. CASE UNCHANGED vars \/ Midnight
  BY <1>1 DEF vars, Midnight, Quiet, Begun, Importer, Label
<1>2. ASSUME NEW p \in Processes,
             Start(p) \/ Check(p) \/ DownloadStep(p) \/ LoadStep(p)
             \/ (\E a \in HandArchives, v \in HandVersions : HandImport(p, a, v))
      PROVE  Quiet
  <2>1. /\ schedule' = schedule /\ older' = older
        /\ stage[p] \notin Open /\ stage'[p] \notin Open
        /\ \A q \in Processes \ {p} : stage'[q] = stage[q] /\ import'[q] = import[q]
    BY <1>0, <1>2 DEF Start, Check, DownloadStep, DownloadFails, Download, LoadStep, LoadDatabase,
        LoadFile, LoadURL, LoadURLFails, AsksSite, Up, HandImport, Abandon, TypeOK, Open
  <2> QED BY <1>0, <2>1, QuietStep
<1>3. ASSUME NEW p \in Processes, Insert(p) \/ Copy(p) PROVE Quiet \/ TakesBack
  <2>1. CASE Rollback(p)
    BY <1>3, <2>1, RollbackMoves DEF Insert, Copy
  <2>2. CASE ~Rollback(p)
    <3>1. /\ schedule' = schedule /\ older' = older
          /\ stage[p] \in Open /\ stage'[p] \in Open /\ import' = import
          /\ \A q \in Processes \ {p} : stage'[q] = stage[q]
      BY <1>0, <1>3, <2>2 DEF Insert, Copy, TypeOK, Open
    <3> QED BY <1>0, <3>1, QuietStep
  <2> QED BY <2>1, <2>2
<1>4. ASSUME NEW p \in Processes, Commit(p) \/ CommitUnacknowledged(p) PROVE Commits
  <2>1. /\ stage[p] = "committing" /\ TxCommit(p) /\ older' = older /\ stage'[p] \notin Open
        /\ \A q \in Processes \ {p} : stage'[q] = stage[q] /\ import'[q] = import[q]
    BY <1>0, <1>4 DEF Commit, CommitUnacknowledged, Abandon, TypeOK, Open
  <2> QED BY <2>1, CommitMoves
<1>5. ASSUME NEW p \in Processes, Crash(p) PROVE TakesBack
  BY <1>5, RollbackMoves DEF Crash
<1> QED BY <1>1, <1>2, <1>3, <1>4, <1>5, BeginMoves DEF Next, ImportStep

LEMMA OrderInit == Init => OrderInv
<1> SUFFICES ASSUME Init PROVE OrderInv
  OBVIOUS
<1>1. /\ \A p \in Processes : stage[p] = "down" /\ import[p] = NULL
      /\ DOMAIN schedule = {} /\ older = {}
      /\ Containers \cup Importers \subseteq Processes
  BY DEF Init, Processes
<1>2. Begun = {}
  BY <1>1 DEF Begun, Transactions
<1>3. StrictOrder
  BY <1>1, <1>2 DEF StrictOrder
<1>4. ServesWithSchedule
  BY <1>1 DEF ServesWithSchedule
<1>5. \A p \in Containers \cup Importers : stage[p] = "down" /\ import[p] = NULL
  BY <1>1
<1>6. \A p \in Importers : stage[p] \in {"down", "done"} \cup Importing
  BY <1>5
<1>7. \A p \in Containers : stage[p] \in {"loading", "up"} => DOMAIN schedule # {}
  BY <1>5
<1>8. \A p \in Importers, v \in DOMAIN schedule : schedule[v].by = p => stage[p] = "done"
  BY <1>1
<1> QED BY <1>1, <1>3, <1>4, <1>6, <1>7, <1>8, ImportInit DEF OrderInv

\* Where a process may go, and what it needs to get there.
Goes(p) ==
    /\ import'[p] # NULL => stage'[p] \in Importing
    /\ p \in Importers => /\ stage'[p] \in {"down", "done"} \cup Importing
                          /\ stage[p] = "done" => stage'[p] = "done"
    /\ p \in Containers /\ stage'[p] \in {"loading", "up"} =>
            stage[p] \in {"loading", "up"} \/ DOMAIN schedule' # {}
    /\ stage'[p] = "up" =>
            \/ stage[p] = "up" /\ stops'[p] = stops[p]
            \/ /\ stage[p] = "loading" /\ schedule' = schedule
               /\ LatestStops = {} \/ stops'[p] = LatestStops

LEMMA StageSteps ==
    ASSUME OrderInv, [Next]_vars
    PROVE  \A p \in Processes : Goes(p)
<1>0. /\ stage \in [Processes -> Stages] /\ DOMAIN stops = Processes
      /\ import \in [Processes -> {NULL} \cup {{i} : i \in Import}]
      /\ \A p \in Processes : import[p] # NULL => stage[p] \in Importing
      /\ \A p \in Importers : stage[p] \in {"down", "done"} \cup Importing
      /\ Containers \cap Importers = {} /\ Containers \cap Matchers = {} /\ Importers \cap Matchers = {}
  BY StaticScheduleAssumption DEF OrderInv, ImportInv, TypeOK
<1>1. ASSUME NEW p \in Processes, stage'[p] = stage[p], import'[p] = import[p], stops'[p] = stops[p]
      PROVE  Goes(p)
  BY <1>0, <1>1 DEF Goes
<1>2. CASE UNCHANGED vars \/ Midnight
  BY <1>1, <1>2 DEF vars, Midnight
<1>3. ASSUME NEW q \in Processes, Goes(q),
             \A p \in Processes \ {q} :
                stage'[p] = stage[p] /\ import'[p] = import[p] /\ stops'[p] = stops[p]
      PROVE  \A p \in Processes : Goes(p)
  BY <1>1, <1>3
<1>4. ASSUME NEW q \in Processes, Abandon(q) PROVE \A p \in Processes : Goes(p)
  <2>1. Goes(q)
    BY <1>0, <1>4 DEF Abandon, Goes, NULL
  <2>2. \A p \in Processes \ {q} :
            stage'[p] = stage[p] /\ import'[p] = import[p] /\ stops'[p] = stops[p]
    BY <1>0, <1>4 DEF Abandon
  <2> QED BY <1>3, <2>1, <2>2
<1>6. ASSUME NEW q \in Processes, Start(q) \/ Check(q) PROVE \A p \in Processes : Goes(p)
  <2>1. stage[q] \in {"down", "checking"} /\ import[q] = NULL /\ q \notin Importers
    BY <1>0, <1>6 DEF Start, Check, Importing
  <2>2. Goes(q)
    BY <1>0, <1>6, <2>1 DEF Start, Check, Goes
  <2>3. \A p \in Processes \ {q} :
            stage'[p] = stage[p] /\ import'[p] = import[p] /\ stops'[p] = stops[p]
    BY <1>0, <1>6 DEF Start, Check
  <2> QED BY <1>3, <2>2, <2>3
<1>7. ASSUME NEW q \in Processes, NEW a, NEW v, HandImport(q, a, v)
      PROVE  \A p \in Processes : Goes(p)
  <2>1. Goes(q)
    BY <1>0, <1>7 DEF HandImport, Goes, Importing
  <2>2. \A p \in Processes \ {q} :
            stage'[p] = stage[p] /\ import'[p] = import[p] /\ stops'[p] = stops[p]
    BY <1>0, <1>7 DEF HandImport
  <2> QED BY <1>3, <2>1, <2>2
<1>8. ASSUME NEW q \in Processes, DownloadStep(q) PROVE \A p \in Processes : Goes(p)
  <2>1. CASE DownloadFails(q)
    BY <1>4, <2>1 DEF DownloadFails
  <2>2. ASSUME NEW a, Download(q, a) PROVE \A p \in Processes : Goes(p)
    <3>1. Goes(q)
      BY <1>0, <2>2 DEF Download, Goes, Importing
    <3>2. \A p \in Processes \ {q} :
              stage'[p] = stage[p] /\ import'[p] = import[p] /\ stops'[p] = stops[p]
      BY <1>0, <2>2 DEF Download
    <3> QED BY <1>3, <3>1, <3>2
  <2> QED BY <1>8, <2>1, <2>2 DEF DownloadStep
<1>9. ASSUME NEW q \in Processes, Begin(q) \/ Insert(q) \/ Copy(q)
      PROVE  \A p \in Processes : Goes(p)
  <2>1. CASE Abandon(q)
    BY <1>4, <2>1
  <2>2. CASE ~Abandon(q)
    <3>1. Goes(q)
      BY <1>0, <1>9, <2>2 DEF Begin, Insert, Copy, Rollback, Goes, Importing
    <3>2. \A p \in Processes \ {q} :
              stage'[p] = stage[p] /\ import'[p] = import[p] /\ stops'[p] = stops[p]
      BY <1>0, <1>9, <2>2 DEF Begin, Insert, Copy, Rollback
    <3> QED BY <1>3, <3>1, <3>2
  <2> QED BY <2>1, <2>2
<1>10. ASSUME NEW q \in Processes, Commit(q) PROVE \A p \in Processes : Goes(p)
  <2>1. import[q] # NULL => DOMAIN schedule' # {}
    BY <1>10 DEF Commit, TxCommit
  <2>2. DOMAIN schedule' # {}
    BY <1>10 DEF Commit, TxCommit
  <2>3. Goes(q)
    BY <1>0, <1>10, <2>2 DEF Commit, Goes
  <2>4. \A p \in Processes \ {q} :
            stage'[p] = stage[p] /\ import'[p] = import[p] /\ stops'[p] = stops[p]
    BY <1>0, <1>10 DEF Commit
  <2> QED BY <1>3, <2>3, <2>4
<1>11. ASSUME NEW q \in Processes, LoadStep(q) PROVE \A p \in Processes : Goes(p)
  <2>1. CASE Abandon(q)
    BY <1>4, <2>1
  <2>2. CASE ~Abandon(q)
    <3>1. PICK loaded : /\ stage[q] = "loading" /\ Up(q, loaded)
                        /\ LatestStops = {} \/ loaded = LatestStops
      BY <1>11, <2>2 DEF LoadStep, LoadDatabase, LoadFile, LoadURL, LoadURLFails, AsksSite
    <3>2. import[q] = NULL /\ q \notin Importers
      BY <1>0, <3>1 DEF Importing
    <3>3. Goes(q)
      BY <1>0, <3>1, <3>2 DEF Up, Goes
    <3>4. \A p \in Processes \ {q} :
              stage'[p] = stage[p] /\ import'[p] = import[p] /\ stops'[p] = stops[p]
      BY <1>0, <3>1 DEF Up
    <3> QED BY <1>3, <3>3, <3>4
  <2> QED BY <2>1, <2>2
<1> QED
  BY <1>2, <1>4, <1>6, <1>7, <1>8, <1>9, <1>10, <1>11
  DEF Next, ImportStep, CommitUnacknowledged, Crash, Rollback

LEMMA OrderStep == OrderInv /\ [Next]_vars => OrderInv'
<1> SUFFICES ASSUME OrderInv, [Next]_vars PROVE OrderInv'
  OBVIOUS
<1>1. ImportInv' /\ KeepsVersions
  BY ImportStepInv DEF OrderInv
<1>2. StrictOrder' /\ (DOMAIN schedule # {} => \E v \in DOMAIN schedule : IsNewest(v))'
  BY <1>1, StepMoves, MovesKeepOrder DEF OrderInv
<1>3. \A p \in Processes : Goes(p)
  BY StageSteps
<1>4. Containers \cup Importers \subseteq Processes
  BY DEF Processes
<1>5. \A p \in Processes : import'[p] # NULL => stage'[p] \in Importing
  BY <1>3 DEF Goes
<1>6. \A p \in Importers : stage'[p] \in {"down", "done"} \cup Importing
  BY <1>3, <1>4 DEF Goes
<1>7. \A p \in Importers, v \in DOMAIN schedule' : schedule'[v].by = p => stage'[p] = "done"
  <2> SUFFICES ASSUME NEW p \in Importers, NEW v \in DOMAIN schedule', schedule'[v].by = p
               PROVE  stage'[p] = "done"
    OBVIOUS
  <2>1. CASE v \in DOMAIN schedule
    BY <1>1, <1>3, <1>4, <2>1 DEF KeepsVersions, Goes, OrderInv
  <2>2. CASE v \notin DOMAIN schedule
    <3>1. PICK q \in Processes : Commit(q) \/ CommitUnacknowledged(q)
      BY <2>2 DEF Next, vars, Midnight, Start, Check, DownloadStep, DownloadFails, Download,
         ImportStep, Begin, Insert, Copy, LoadStep, LoadDatabase, LoadFile, LoadURL, LoadURLFails,
         AsksSite, Up, HandImport, Crash
    <3>2. PICK i \in import[q] : schedule'[v] = [archive |-> i.archive, by |-> q]
      BY <2>2, <3>1 DEF Commit, CommitUnacknowledged, TxCommit
    <3>3. q = p /\ stage \in [Processes -> Stages]
      BY <3>2 DEF OrderInv, ImportInv, TypeOK
    <3> QED BY <3>1, <3>3 DEF Commit, CommitUnacknowledged, Abandon
  <2> QED BY <2>1, <2>2
<1>8. \A p \in Containers : stage'[p] \in {"loading", "up"} => DOMAIN schedule' # {}
  BY <1>1, <1>3, <1>4 DEF Goes, OrderInv, KeepsVersions
<1>9. ServesWithSchedule'
  <2> SUFFICES ASSUME NEW p \in Containers, stage'[p] = "up"
               PROVE  \E v \in DOMAIN schedule' :
                        {s.id : s \in StopsOf(v)'} \subseteq {s.id : s \in stops'[p]}
    BY DEF ServesWithSchedule
  <2>0. \A v \in DOMAIN schedule : v \in DOMAIN schedule' /\ StopsOf(v)' = StopsOf(v)
    BY <1>1 DEF KeepsVersions, StopsOf
  <2>1. CASE stage[p] = "up" /\ stops'[p] = stops[p]
    BY <2>0, <2>1 DEF OrderInv, ServesWithSchedule
  <2>2. CASE stage[p] = "loading" /\ (LatestStops = {} \/ stops'[p] = LatestStops)
    <3>1. PICK v \in DOMAIN schedule : IsNewest(v)
      BY <2>2 DEF OrderInv
    <3>2. StopsOf(v) \subseteq LatestStops
      BY <3>1, NewestLoaded DEF OrderInv
    <3> QED BY <2>0, <2>2, <3>1, <3>2
  <2> QED BY <1>3, <1>4, <2>1, <2>2 DEF Goes
<1> QED BY <1>1, <1>2, <1>5, <1>6, <1>7, <1>8, <1>9 DEF OrderInv

\* A container that serves has a version, and knows every stop of one.
THEOREM ServedScheduleExists == Spec => []ServesWithSchedule
<1>1. OrderInv => ServesWithSchedule
  BY DEF OrderInv
<1> QED BY <1>1, OrderInit, OrderStep, PTL DEF Spec

\* A matcher, wherever it runs, that gets up takes all the stops of the version
\* whose import began last, if there is one.
THEOREM NewestIsLoaded == Spec => LoadsNewest
<1> DEFINE A == \A p \in Processes, v \in DOMAIN schedule :
                    /\ stage[p] = "loading" /\ stage'[p] = "up"
                    /\ \A w \in DOMAIN schedule \ {v} : Older(w, v)
                    => StopsOf(v) \subseteq stops'[p]
<1>1. OrderInv /\ [Next]_vars => [A]_vars
  <2> SUFFICES ASSUME OrderInv, Next, NEW p \in Processes, NEW v \in DOMAIN schedule,
                      stage[p] = "loading", stage'[p] = "up", IsNewest(v)
               PROVE  StopsOf(v) \subseteq stops'[p]
    BY DEF IsNewest
  <2>1. StopsOf(v) \subseteq LatestStops
    BY NewestLoaded DEF OrderInv
  <2>2. LatestStops = {} \/ stops'[p] = LatestStops
    BY StageSteps DEF Goes
  <2> QED BY <2>1, <2>2
<1> QED BY <1>1, OrderInit, OrderStep, PTL DEF Spec, LoadsNewest

-----------------------------------------------------------------------------
(* The importer and the reader of the URL see the same stops.              *)

\* Of the columns of an archive that the importer takes, no two have one name.
LEMMA ColumnIsUnique ==
    ASSUME NEW header \in Seq(STRING), IsInjective(header), NEW name \in Range(header)
    PROVE  /\ Column(header, name) \in DOMAIN header /\ header[Column(header, name)] = name
           /\ (CHOOSE j \in DOMAIN header : header[j] = name) = Column(header, name)
<1>1. PICK i \in DOMAIN header : header[i] = name
  BY DEF Range
<1>2. \A j \in DOMAIN header : header[j] = name => j = i
  BY <1>1 DEF IsInjective
<1>3. DOMAIN header \subseteq Int
  OBVIOUS
<1>4. Column(header, name) = i
  <2>1. \E k \in DOMAIN header :
            header[k] = name /\ \A j \in DOMAIN header : header[j] = name => j =< k
    BY <1>1, <1>2, <1>3
  <2> QED BY <1>2, <2>1 DEF Column
<1>5. (CHOOSE j \in DOMAIN header : header[j] = name) = i
  BY <1>1, <1>2
<1> QED BY <1>1, <1>4, <1>5

\* A row that the importer keeps is read cell by cell like by the other reader.
LEMMA CellsAgree ==
    ASSUME NEW a, NEW name, NEW i \in Kept(a, name), NEW c \in Range(a.files[name].header),
           a.files[name].header \in Seq(STRING), IsInjective(a.files[name].header)
    PROVE  /\ c \in DOMAIN Row(a, name, i)
           /\ Row(a, name, i)[c] = a.files[name].rows[i][Column(a.files[name].header, c)]
           /\ Value(Row(a, name, i), c) = Row(a, name, i)[c]
  BY ColumnIsUnique DEF Row, Value

\* The cells of a row in the columns of a stop, and the stop that they make, if
\* they make one.
StopOf(header, row, s) ==
    LET id == row[Column(header, "stop_id")]
        lat == row[Column(header, "stop_lat")]
        lon == row[Column(header, "stop_lon")]
    IN  /\ id # "" /\ lat \in DOMAIN FloatOf /\ lon \in DOMAIN FloatOf
        /\ ValidStopCoordinate(FloatOf[lat], FloatOf[lon])
        /\ s = Stop(id, FloatOf[lat], FloatOf[lon])

LEMMA ReadByURL ==
    ASSUME NEW file, NEW s
    PROVE  s \in ReadStops(file) <=> \E row \in Measured(file) : StopOf(file.header, row, s)
<1> DEFINE id(row) == row[Column(file.header, "stop_id")]
           lat(row) == row[Column(file.header, "stop_lat")]
           lon(row) == row[Column(file.header, "stop_lon")]
           Places(row) == {c \in StrictFloat(lat(row)) \X StrictFloat(lon(row)) :
                            id(row) # "" /\ ValidStopCoordinate(c[1], c[2])}
<1>1. ReadStops(file) = UNION {{Stop(id(row), c[1], c[2]) : c \in Places(row)} : row \in Measured(file)}
  BY DEF ReadStops
<1>2. \A row : \A c : c \in Places(row) <=>
            /\ lat(row) \in DOMAIN FloatOf /\ lon(row) \in DOMAIN FloatOf
            /\ c = <<FloatOf[lat(row)], FloatOf[lon(row)]>>
            /\ id(row) # "" /\ ValidStopCoordinate(c[1], c[2])
  <2> SUFFICES ASSUME NEW row, NEW c
               PROVE  c \in Places(row) <=>
                        /\ lat(row) \in DOMAIN FloatOf /\ lon(row) \in DOMAIN FloatOf
                        /\ c = <<FloatOf[lat(row)], FloatOf[lon(row)]>>
                        /\ id(row) # "" /\ ValidStopCoordinate(c[1], c[2])
    OBVIOUS
  <2> HIDE DEF id, lat, lon
  <2>1. \A cell, x : x \in StrictFloat(cell) <=> cell \in DOMAIN FloatOf /\ x = FloatOf[cell]
    BY DEF StrictFloat, NULL
  <2>2. c \in StrictFloat(lat(row)) \X StrictFloat(lon(row)) <=>
            /\ lat(row) \in DOMAIN FloatOf /\ lon(row) \in DOMAIN FloatOf
            /\ c = <<FloatOf[lat(row)], FloatOf[lon(row)]>>
    BY <2>1
  <2> QED BY <2>2
<1>3. \A row : StopOf(file.header, row, s) <=>
            /\ id(row) # "" /\ lat(row) \in DOMAIN FloatOf /\ lon(row) \in DOMAIN FloatOf
            /\ ValidStopCoordinate(FloatOf[lat(row)], FloatOf[lon(row)])
            /\ s = Stop(id(row), FloatOf[lat(row)], FloatOf[lon(row)])
  BY DEF StopOf
<1> HIDE DEF id, lat, lon, Places
<1>4. s \in ReadStops(file) <=>
        \E row \in Measured(file) : \E c \in Places(row) : s = Stop(id(row), c[1], c[2])
  BY <1>1
<1>5. \A row : (\E c \in Places(row) : s = Stop(id(row), c[1], c[2])) <=> StopOf(file.header, row, s)
  <2> TAKE row
  <2>1. ASSUME NEW c \in Places(row), s = Stop(id(row), c[1], c[2])
        PROVE  StopOf(file.header, row, s)
    <3>1. /\ lat(row) \in DOMAIN FloatOf /\ lon(row) \in DOMAIN FloatOf
          /\ c = <<FloatOf[lat(row)], FloatOf[lon(row)]>>
          /\ id(row) # "" /\ ValidStopCoordinate(c[1], c[2])
      BY <1>2
    <3>2. c[1] = FloatOf[lat(row)] /\ c[2] = FloatOf[lon(row)]
      BY <3>1
    <3> QED BY <1>3, <2>1, <3>1, <3>2
  <2>2. ASSUME StopOf(file.header, row, s)
        PROVE  \E c \in Places(row) : s = Stop(id(row), c[1], c[2])
    <3> DEFINE c == <<FloatOf[lat(row)], FloatOf[lon(row)]>>
    <3>1. c[1] = FloatOf[lat(row)] /\ c[2] = FloatOf[lon(row)]
      OBVIOUS
    <3>2. /\ lat(row) \in DOMAIN FloatOf /\ lon(row) \in DOMAIN FloatOf
          /\ id(row) # "" /\ ValidStopCoordinate(FloatOf[lat(row)], FloatOf[lon(row)])
          /\ s = Stop(id(row), FloatOf[lat(row)], FloatOf[lon(row)])
      BY <1>3, <2>2
    <3>3. c \in Places(row)
      BY <1>2, <3>1, <3>2
    <3>4. s = Stop(id(row), c[1], c[2])
      BY <3>1, <3>2
    <3> QED BY <3>3, <3>4
  <2> QED BY <2>1, <2>2
<1> QED BY <1>4, <1>5

\* The same for a row that the importer keeps: a blank coordinate is none, and
\* any other one is in range.
LEMMA ReadByImporter ==
    ASSUME NEW row, NEW header, NEW cells, NEW s,
           \A c \in StopColumns : row[c] = cells[Column(header, c)] /\ Value(row, c) = row[c],
           Value(row, "stop_id") # "",
           OptionalFloat(Value(row, "stop_lat"), 90), OptionalFloat(Value(row, "stop_lon"), 180)
    PROVE  s = StopRow(row) /\ s.lat # NULL /\ s.lon # NULL <=> StopOf(header, cells, s)
<1> DEFINE id == cells[Column(header, "stop_id")]
           lat == cells[Column(header, "stop_lat")]
           lon == cells[Column(header, "stop_lon")]
<1>1. /\ row["stop_id"] = id /\ Value(row, "stop_lat") = lat /\ Value(row, "stop_lon") = lon
      /\ Value(row, "stop_id") = id
  BY DEF StopColumns
<1>2. StopOf(header, cells, s) <=>
        /\ id # "" /\ lat \in DOMAIN FloatOf /\ lon \in DOMAIN FloatOf
        /\ ValidStopCoordinate(FloatOf[lat], FloatOf[lon])
        /\ s = Stop(id, FloatOf[lat], FloatOf[lon])
  BY DEF StopOf
<1>3. StopRow(row) = [id |-> id, lat |-> Coordinate(lat), lon |-> Coordinate(lon)]
  BY <1>1 DEF StopRow
<1> HIDE DEF id, lat, lon
<1>4. \A cell : Coordinate(cell) # NULL <=> cell # ""
  BY DEF Coordinate, NULL
<1>5. /\ lat # "" => lat \in DOMAIN FloatOf /\ FloatOf[lat] \in -90..90
      /\ lon # "" => lon \in DOMAIN FloatOf /\ FloatOf[lon] \in -180..180
      /\ id # ""
  BY <1>1 DEF OptionalFloat
<1>6. \A cell : cell \in DOMAIN FloatOf => cell # "" /\ Coordinate(cell) = {FloatOf[cell]}
  BY GtfsAssumption DEF Coordinate
<1>7. ASSUME s = StopRow(row), s.lat # NULL, s.lon # NULL PROVE StopOf(header, cells, s)
  <2>0. s.lat = Coordinate(lat) /\ s.lon = Coordinate(lon)
    <3>1. StopRow(row).lat = Coordinate(lat) /\ StopRow(row).lon = Coordinate(lon)
      BY <1>1 DEF StopRow
    <3> QED BY <1>7, <3>1
  <2>1. lat # "" /\ lon # ""
    BY <1>4, <1>7, <2>0
  <2> QED BY <1>2, <1>3, <1>5, <1>6, <1>7, <2>1 DEF ValidStopCoordinate, Stop
<1>8. ASSUME StopOf(header, cells, s) PROVE s = StopRow(row) /\ s.lat # NULL /\ s.lon # NULL
  <2>1. Coordinate(lat) = {FloatOf[lat]} /\ Coordinate(lon) = {FloatOf[lon]}
    BY <1>2, <1>6, <1>8
  <2>2. s = [id |-> id, lat |-> {FloatOf[lat]}, lon |-> {FloatOf[lon]}]
    BY <1>2, <1>8 DEF Stop
  <2> QED BY <1>3, <2>1, <2>2 DEF NULL
<1> QED BY <1>7, <1>8

\* On an archive that the importer takes and that does not make the reader of
\* the URL panic, the two find the same stops.
LEMMA SameStops ==
    ASSUME NEW c, ParseArchive(c), c.bytes =< MaxDownload, ~UrlPanics(c),
           NEW file, file = c.files["stops.txt"],
           file.header \in Seq(STRING), file.rows \in Seq(Seq(STRING))
    PROVE  UrlStops(c) = Located(StaticData(c))
<1>1. /\ "stops.txt" \in DOMAIN c.files /\ IsInjective(file.header)
      /\ \A i \in DOMAIN file.rows : BlankRow(file.rows[i]) \/ Len(file.rows[i]) = Len(file.header)
      /\ \A row \in Rows(c, "stops.txt") :
            /\ Value(row, "stop_id") # ""
            /\ OptionalFloat(Value(row, "stop_lat"), 90)
            /\ OptionalFloat(Value(row, "stop_lon"), 180)
      /\ "stop_id" \in Range(file.header)
  BY DEF ParseArchive, ParseStops, ReadCSV, RequiredValues
<1>2. CASE ~(StopColumns \subseteq Range(file.header))
  <2>1. UrlStops(c) = {}
    BY <1>2 DEF UrlStops
  <2>2. PICK column \in {"stop_lat", "stop_lon"} : column \notin Range(file.header)
    BY <1>1, <1>2 DEF StopColumns
  <2>3. \A row \in Rows(c, "stops.txt") : Value(row, column) = ""
    BY <2>2 DEF Rows, Row, Value
  <2>4. \A row \in Rows(c, "stops.txt") : Coordinate(Value(row, column)) = NULL
    BY <2>3 DEF Coordinate
  <2>5. \A row \in Rows(c, "stops.txt") : StopRow(row).lat = NULL \/ StopRow(row).lon = NULL
    BY <2>2, <2>4 DEF StopRow
  <2>6. StaticData(c).stops = {StopRow(row) : row \in Rows(c, "stops.txt")}
    BY DEF StaticData
  <2> QED BY <2>1, <2>5, <2>6 DEF Located
<1>3. CASE StopColumns \subseteq Range(file.header)
  <2>1. UrlStops(c) = ReadStops(file)
    BY <1>1, <1>3 DEF UrlStops
  <2>2. \A column \in StopColumns : Column(file.header, column) \in 1..Len(file.header)
    <3> TAKE column \in StopColumns
    <3>1. Column(file.header, column) \in DOMAIN file.header
      BY <1>1, <1>3, ColumnIsUnique
    <3> QED BY <3>1
  <2>3. \A row \in Measured(file) : Len(row) >= Column(file.header, "stop_id")
    <3>1. \A row \in Measured(file) : row \in Seq(STRING)
      BY DEF Measured, Range
    <3>2. \A row \in Measured(file) : ~(Len(row) < Column(file.header, "stop_id"))
      BY <1>1, <1>3 DEF UrlPanics
    <3> QED BY <2>2, <3>1, <3>2 DEF StopColumns
  <2>4. ASSUME NEW s
        PROVE  s \in Located(StaticData(c)) <=>
                 \E i \in Kept(c, "stops.txt") : StopOf(file.header, file.rows[i], s)
    <3>1. s \in Located(StaticData(c)) <=>
            \E i \in Kept(c, "stops.txt") :
                s = StopRow(Row(c, "stops.txt", i)) /\ s.lat # NULL /\ s.lon # NULL
      BY DEF Located, StaticData, Rows
    <3>2. ASSUME NEW i \in Kept(c, "stops.txt")
          PROVE  s = StopRow(Row(c, "stops.txt", i)) /\ s.lat # NULL /\ s.lon # NULL
                 <=> StopOf(file.header, file.rows[i], s)
      <4>1. \A column \in StopColumns :
                /\ Row(c, "stops.txt", i)[column] = file.rows[i][Column(file.header, column)]
                /\ Value(Row(c, "stops.txt", i), column) = Row(c, "stops.txt", i)[column]
        <5> TAKE column \in StopColumns
        <5>1. /\ column \in Range(c.files["stops.txt"].header)
              /\ c.files["stops.txt"].header \in Seq(STRING)
              /\ IsInjective(c.files["stops.txt"].header)
          BY <1>1, <1>3
        <5> QED BY <5>1, CellsAgree
      <4>2. Row(c, "stops.txt", i) \in Rows(c, "stops.txt")
        BY DEF Rows
      <4> QED BY <1>1, <4>1, <4>2, ReadByImporter
    <3> QED BY <3>1, <3>2
  <2>5. ASSUME NEW row \in Measured(file), NEW s, StopOf(file.header, row, s)
        PROVE  \E i \in Kept(c, "stops.txt") : row = file.rows[i]
    <3>1. PICK i \in DOMAIN file.rows : row = file.rows[i]
      BY DEF Measured, Range
    <3>2. row \in Seq(STRING)
      BY <3>1
    <3>3. Column(file.header, "stop_id") \in DOMAIN row
      BY <2>2, <2>3, <3>2 DEF StopColumns
    <3>4. row[Column(file.header, "stop_id")] # ""
      BY <2>5 DEF StopOf
    <3> QED BY <3>1, <3>3, <3>4 DEF Kept, BlankRow
  <2>6. ASSUME NEW i \in Kept(c, "stops.txt") PROVE file.rows[i] \in Measured(file)
    <3>1. i \in DOMAIN file.rows /\ Len(file.rows[i]) = Len(file.header)
      BY <1>1 DEF Kept
    <3>2. file.rows[i] \in Range(file.rows)
      BY <3>1 DEF Range
    <3>3. Len(file.header) \in Nat
      OBVIOUS
    <3> QED BY <2>2, <3>1, <3>2, <3>3 DEF Measured, StopColumns
  <2>7. \A s : s \in ReadStops(file) <=> s \in Located(StaticData(c))
    <3> TAKE s
    <3>1. s \in ReadStops(file) <=> \E row \in Measured(file) : StopOf(file.header, row, s)
      BY ReadByURL
    <3> QED BY <2>4, <2>5, <2>6, <3>1
  <2>8. ReadStops(file) = Located(StaticData(c))
    BY <2>7, SetExtensionality
  <2> QED BY <2>1, <2>8
<1> QED BY <1>2, <1>3

\* The two readers of stops.txt agree on every archive that is ever imported.
THEOREM ReadersAgreeAlways == Spec => []ReadersAgree
<1>1. ImportInv => ReadersAgree
  <2> SUFFICES ASSUME ImportInv, NEW v \in DOMAIN schedule, schedule[v].archive \in Survived
               PROVE  StopsAt[schedule[v].archive] = StopsOf(v)
    BY DEF ReadersAgree
  <2> DEFINE a == schedule[v].archive
  <2>1. a \in Accepted /\ a \in Archives /\ ParseArchive(Content[a])
    BY DEF ImportInv, Storable, Accepted
  <2>2. /\ Content[a].bytes =< MaxDownload /\ ~UrlPanics(Content[a])
        /\ StopsAt[a] = UrlStops(Content[a])
    BY DEF Survived, Served, StopsAt
  <2>3. "stops.txt" \in DOMAIN Content[a].files
    BY <2>1 DEF ParseArchive, ParseStops, ReadCSV
  <2>4. /\ Content[a].files["stops.txt"].header \in Seq(STRING)
        /\ Content[a].files["stops.txt"].rows \in Seq(Seq(STRING))
    BY <2>1, <2>3, ContentAssumption
  <2>5. UrlStops(Content[a]) = Located(StaticData(Content[a]))
    BY <2>1, <2>2, <2>4, SameStops
  <2>6. StopsOf(v) = Located(StaticData(Content[a]))
    BY <2>1 DEF StopsOf, StopsIn, Data
  <2> QED BY <2>2, <2>5, <2>6
<1> QED BY <1>1, ImportInit, ImportStepInv, PTL DEF Spec
=============================================================================
