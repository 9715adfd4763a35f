-------------------------------- MODULE Gtfs --------------------------------
(***************************************************************************)
(* A static GTFS archive and its three readers: the importer of            *)
(* services/ingester/gtfs, which refuses an archive for one bad row, the   *)
(* matcher's reader of stops.txt behind a URL, which skips bad rows, and   *)
(* its reader of a local stops file, which refuses them.                   *)
(*                                                                         *)
(* A file is a header and rows of cells.  Cells and headers are what       *)
(* TrimSpace, ToLower and the removal of a byte order mark leave; "" is a  *)
(* blank one.  IntOf, FloatOf and ClockOf give the values of the cells     *)
(* that parse.  Of an archive only the five required files matter, and of  *)
(* its rows the columns that a check or another part of Ponctuel reads.    *)
(***************************************************************************)
EXTENDS Integers, Sequences, FiniteSets, Functions

CONSTANTS
    IntOf,         \* strconv.Atoi
    FloatOf,       \* strconv.ParseFloat, in degrees
    ClockOf,       \* the three numbers around two colons
    MaxBytes,      \* maxArchiveBytes: what Import accepts
    MaxDownload,   \* maxStaticGTFSBytes, maxGTFSArchiveBytes: what is downloaded
    MaxColumn      \* the largest value of an integer column of PostgreSQL

ASSUME GtfsAssumption ==
    /\ {MaxBytes, MaxDownload, MaxColumn} \subseteq Nat
    /\ "" \notin DOMAIN FloatOf

\* An optional value is a set of at most one element.
NULL == {}

\* NaN and the infinities fail every test of a range, and so does this number.
NotFinite == 1000

BlankRow(row) == \A i \in DOMAIN row : row[i] = ""

-----------------------------------------------------------------------------
(* The importer.                                                           *)

\* The checks of readCSV on a file of the archive.
ReadCSV(a, name, required) ==
    /\ name \in DOMAIN a.files
    /\ LET header == a.files[name].header
           rows == a.files[name].rows
       IN  /\ header # <<>>
           /\ "" \notin Range(header)
           /\ IsInjective(header)
           /\ required \subseteq Range(header)
           /\ \A i \in DOMAIN rows : BlankRow(rows[i]) \/ Len(rows[i]) = Len(header)

\* The rows that readCSV keeps, each as a function from column to cell.
Kept(a, name) == {i \in DOMAIN a.files[name].rows : ~BlankRow(a.files[name].rows[i])}

Row(a, name, i) ==
    LET header == a.files[name].header
    IN  [c \in Range(header) |->
            a.files[name].rows[i][CHOOSE j \in DOMAIN header : header[j] = c]]

Rows(a, name) == {Row(a, name, i) : i \in Kept(a, name)}

Value(row, column) == IF column \in DOMAIN row THEN row[column] ELSE ""

RequiredValues(row, columns) == \A c \in columns : Value(row, c) # ""

OptionalInt(cell) == cell = "" \/ cell \in DOMAIN IntOf

OptionalFloat(cell, bound) ==
    cell = "" \/ (cell \in DOMAIN FloatOf /\ FloatOf[cell] \in -bound..bound)

\* Hours are not bounded: a service day goes on after midnight.
OptionalGTFSSeconds(cell) ==
    \/ cell = ""
    \/ /\ cell \in DOMAIN ClockOf
       /\ ClockOf[cell][1] >= 0 /\ ClockOf[cell][2] \in 0..59 /\ ClockOf[cell][3] \in 0..59

Coordinate(cell) == IF cell = "" THEN NULL ELSE {FloatOf[cell]}

Seconds(cell) ==
    IF cell = "" THEN NULL
    ELSE {3600 * ClockOf[cell][1] + 60 * ClockOf[cell][2] + ClockOf[cell][3]}

ParseAgencies(a) ==
    /\ ReadCSV(a, "agency.txt", {"agency_id", "agency_name"})
    /\ \A row \in Rows(a, "agency.txt") : RequiredValues(row, {"agency_id", "agency_name"})

ParseRoutes(a) ==
    /\ ReadCSV(a, "routes.txt", {"route_id"})
    /\ \A row \in Rows(a, "routes.txt") :
        RequiredValues(row, {"route_id"}) /\ OptionalInt(Value(row, "route_type"))

ParseTrips(a) ==
    /\ ReadCSV(a, "trips.txt", {"trip_id"})
    /\ \A row \in Rows(a, "trips.txt") :
        RequiredValues(row, {"trip_id"}) /\ OptionalInt(Value(row, "direction_id"))

ParseStops(a) ==
    /\ ReadCSV(a, "stops.txt", {"stop_id", "stop_name"})
    /\ \A row \in Rows(a, "stops.txt") :
        /\ RequiredValues(row, {"stop_id", "stop_name"})
        /\ OptionalFloat(Value(row, "stop_lat"), 90)
        /\ OptionalFloat(Value(row, "stop_lon"), 180)

ParseStopTimes(a) ==
    /\ ReadCSV(a, "stop_times.txt",
               {"trip_id", "stop_id", "stop_sequence", "arrival_time", "departure_time"})
    /\ \A row \in Rows(a, "stop_times.txt") :
        /\ RequiredValues(row, {"trip_id", "stop_id", "stop_sequence"})
        /\ row["stop_sequence"] \in DOMAIN IntOf /\ IntOf[row["stop_sequence"]] >= 0
        /\ OptionalGTFSSeconds(row["arrival_time"])
        /\ OptionalGTFSSeconds(row["departure_time"])

\* What Import checks before it opens a transaction.
ParseArchive(a) ==
    /\ a.bytes =< MaxBytes
    /\ ParseAgencies(a) /\ ParseRoutes(a) /\ ParseTrips(a) /\ ParseStops(a) /\ ParseStopTimes(a)

StopRow(row) ==
    [id |-> row["stop_id"], lat |-> Coordinate(Value(row, "stop_lat")),
     lon |-> Coordinate(Value(row, "stop_lon"))]

StopTimeRow(row) ==
    [trip |-> row["trip_id"], stop |-> row["stop_id"], sequence |-> IntOf[row["stop_sequence"]],
     arrival |-> Seconds(row["arrival_time"]), departure |-> Seconds(row["departure_time"])]

\* staticData, as far as other parts read it.
StaticData(a) ==
    [trips |-> {row["trip_id"] : row \in Rows(a, "trips.txt")},
     stops |-> {StopRow(row) : row \in Rows(a, "stops.txt")},
     stopTimes |-> {StopTimeRow(row) : row \in Rows(a, "stop_times.txt")}]

FitsColumn(row, column) ==
    Value(row, column) # "" => IntOf[row[column]] \in -MaxColumn - 1..MaxColumn

\* The staging tables have the column types of the tables but no constraint.
StageRows(a) ==
    /\ \A row \in Rows(a, "routes.txt") : FitsColumn(row, "route_type")
    /\ \A row \in Rows(a, "trips.txt") : FitsColumn(row, "direction_id")
    /\ \A t \in StaticData(a).stopTimes :
        t.sequence =< MaxColumn /\ \A s \in t.arrival \cup t.departure : s =< MaxColumn

KeyValue(column, cell) == IF column = "stop_sequence" THEN IntOf[cell] ELSE cell

\* Two rows of a file with one primary key, were they two equal rows.
Repeats(a, name, key) ==
    \E i, j \in Kept(a, name) :
        /\ i < j
        /\ \A c \in key : KeyValue(c, Row(a, name, i)[c]) = KeyValue(c, Row(a, name, j)[c])

\* Mutant: the tables without their foreign keys.
CopyUnreferenced(a) == ~Repeats(a, "stops.txt", {"stop_id"})

\* The primary keys and the foreign keys of the tables, met by the copy.
CopyStagedRows(a) ==
    /\ ~Repeats(a, "agency.txt", {"agency_id"})
    /\ ~Repeats(a, "routes.txt", {"route_id"})
    /\ ~Repeats(a, "trips.txt", {"trip_id"})
    /\ ~Repeats(a, "stops.txt", {"stop_id"})
    /\ ~Repeats(a, "stop_times.txt", {"trip_id", "stop_sequence"})
    /\ \A t \in StaticData(a).stopTimes :
        t.trip \in StaticData(a).trips /\ t.stop \in {s.id : s \in StaticData(a).stops}

-----------------------------------------------------------------------------
(* The matcher's readers.  The last of two equal columns counts.           *)

Stop(id, lat, lon) == [id |-> id, lat |-> {lat}, lon |-> {lon}]

Column(header, name) ==
    CHOOSE i \in DOMAIN header :
        header[i] = name /\ \A j \in DOMAIN header : header[j] = name => j =< i

StopColumns == {"stop_id", "stop_lat", "stop_lon"}

\* validStopCoordinate
ValidStopCoordinate(lat, lon) == lat \in -90..90 /\ lon \in -180..180

\* The rows that readStopsCSV looks at; it measures a row against two columns
\* only, and panics when the identifier lies behind its end.
Measured(file) ==
    {row \in Range(file.rows) :
        Len(row) >= Column(file.header, "stop_lat") /\ Len(row) >= Column(file.header, "stop_lon")}

UrlPanics(a) ==
    LET file == a.files["stops.txt"]
    IN  /\ a.bytes =< MaxDownload
        /\ "stops.txt" \in DOMAIN a.files
        /\ StopColumns \subseteq Range(file.header)
        /\ \E row \in Measured(file) : Len(row) < Column(file.header, "stop_id")

\* Mutant: the reader of the URL takes a missing coordinate for zero.
LenientFloat(cell) == IF cell \in DOMAIN FloatOf THEN {FloatOf[cell]} ELSE {0}

StrictFloat(cell) == IF cell \in DOMAIN FloatOf THEN {FloatOf[cell]} ELSE NULL

\* readStopsCSV; no stop at all is an error, which leaves the matcher without.
ReadStops(file) ==
    LET Cell(row, name) == row[Column(file.header, name)]
        Coordinates(row) ==
            {c \in StrictFloat(Cell(row, "stop_lat")) \X StrictFloat(Cell(row, "stop_lon")) :
                Cell(row, "stop_id") # "" /\ ValidStopCoordinate(c[1], c[2])}
    IN  UNION {{Stop(Cell(row, "stop_id"), c[1], c[2]) : c \in Coordinates(row)} :
               row \in Measured(file)}

\* loadStopsURL, on an archive that was downloaded.
UrlStops(a) ==
    IF /\ a.bytes =< MaxDownload
       /\ "stops.txt" \in DOMAIN a.files
       /\ StopColumns \subseteq Range(a.files["stops.txt"].header)
    THEN ReadStops(a.files["stops.txt"]) ELSE {}

\* loadStopsFile: what makes it fail, and what it returns otherwise.  It does
\* not look at the range of a coordinate.
FileFails(file) ==
    \/ ~(StopColumns \subseteq Range(file.header))
    \/ \E row \in Range(file.rows) :
        \/ \E c \in StopColumns : Len(row) < Column(file.header, c)
        \/ row[Column(file.header, "stop_id")] = ""
        \/ \E c \in {"stop_lat", "stop_lon"} : row[Column(file.header, c)] \notin DOMAIN FloatOf

FileStops(file) ==
    LET Cell(row, name) == row[Column(file.header, name)]
    IN  {Stop(Cell(row, "stop_id"), FloatOf[Cell(row, "stop_lat")], FloatOf[Cell(row, "stop_lon")]) :
            row \in Range(file.rows)}

\* The stops of an imported version that LatestStops may return.
Located(data) == {s \in data.stops : s.lat # NULL /\ s.lon # NULL}
=============================================================================
