-------------------------- MODULE MCStaticSchedule --------------------------
(* Archives that differ in what the checks and the readers look at, a      *)
(* container, two matchers and a person who imports by hand.               *)
EXTENDS StaticSchedule, TLC

CONSTANTS c, m1, m2, h

MCIntOf == "1" :> 1 @@ "2" :> 2 @@ "9000000" :> 9000000
MCFloatOf == "45" :> 45 @@ "46" :> 46 @@ "-73" :> -73 @@ "NaN" :> NotFinite
MCClockOf == "25:10:00" :> <<25, 10, 0>> @@ "08:00:00" :> <<8, 0, 0>> @@ "08:60:00" :> <<8, 60, 0>>

Table(header, rows) == [header |-> header, rows |-> rows]

\* An archive that differs from a common one in its stops and stop times.
Archive(bytes, stopRows, stopTimes) ==
    [bytes |-> bytes,
     files |-> "agency.txt" :> Table(<<"agency_id", "agency_name">>, <<<<"a", "STM">>>>) @@
               "routes.txt" :> Table(<<"route_id", "route_type">>, <<<<"24", "">>>>) @@
               "trips.txt" :> Table(<<"trip_id", "direction_id">>, <<<<"t1", "1">>>>) @@
               "stops.txt" :>
                    Table(<<"stop_lat", "stop_lon", "stop_id", "stop_name">>, stopRows) @@
               "stop_times.txt" :>
                    Table(<<"trip_id", "stop_id", "stop_sequence", "arrival_time",
                            "departure_time">>, stopTimes)]

S1 == <<"45", "-73", "s1", "Atwater">>
S2 == <<"46", "-73", "s2", "Berri">>
S1Moved == <<"46", "-73", "s1", "Atwater">>
Unplaced == <<"", "", "s3", "Charlevoix">>
AtS1 == <<"t1", "s1", "1", "25:10:00", "">>
AtS2 == <<"t1", "s2", "2", "08:00:00", "">>

Common == Archive(1, <<S1, S2, Unplaced>>, <<AtS1, AtS2>>)

\* The columns in another order and one more, a blank row that is complete and
\* one that is short, and a stop without a longitude.
Reordered ==
    Table(<<"stop_id", "stop_name", "zone_id", "stop_lon", "stop_lat">>,
          <<<<"s1", "Atwater", "A", "-73", "46">>, <<"", "", "", "", "">>, <<"", "">>,
            <<"s4", "Du College", "", "", "45">>>>)

\* panics: a short blank row, which only the matcher's reader stumbles on.
MCContent ==
    "summer" :> Common @@
    "autumn" :> [Archive(1, <<>>, <<AtS1>>) EXCEPT !.files["stops.txt"] = Reordered] @@
    "empty" :> [Common EXCEPT !.files = [f \in DOMAIN @ |-> [@[f] EXCEPT !.rows = <<>>]]] @@
    "panics" :> Archive(1, <<S1, <<"", "">>>>, <<AtS1>>) @@
    "dangling" :> Archive(1, <<S1>>, <<AtS1, AtS2>>) @@
    "repeated" :> Archive(1, <<S1, S1Moved>>, <<AtS1>>) @@
    "wide" :> Archive(1, <<S1>>, <<<<"t1", "s1", "9000000", "", "">>>>) @@
    "late" :> Archive(1, <<S1>>, <<<<"t1", "s1", "1", "08:60:00", "">>>>) @@
    "huge" :> Archive(2, <<S2>>, <<AtS2>>)

MCArchives == DOMAIN MCContent
MCSiteArchives == {"summer", "autumn", "panics", "dangling", "huge"}
MCHandArchives == {"autumn", "empty", "repeated", "wide", "late"}

FileHeader == <<"stop_id", "stop_lat", "stop_lon">>

\* The fixture file of the image, one without rows, and one that is refused.
MCStopsFile ==
    c :> {Table(FileHeader, <<<<"f1", "45", "-73">>>>)} @@
    m1 :> {Table(FileHeader, <<>>)} @@
    m2 :> {Table(FileHeader, <<<<"f1", "45">>>>)}

MCHandVersions == {<<"hand", 0>>, StmVersion(0)}
=============================================================================
