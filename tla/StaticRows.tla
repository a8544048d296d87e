----------------------------- MODULE StaticRows -----------------------------
(***************************************************************************)
(* The rows of the static GTFS files on their way into the tables:         *)
(* package trimet's parsers (parse.go, time.go), its New...FromRow         *)
(* functions (gtfs.go), and bulkReplace with the callbacks of the loaders, *)
(* which give the columns to COPY by position (logic/loader.go).           *)
(*                                                                         *)
(* A text is the sequence of its parts between colons: <<"24", "5", "0">>  *)
(* is 24:05:00.  A part is the decimal of a number, as ToString writes it, *)
(* or a word.                                                              *)
(***************************************************************************)
EXTENDS Optional, Integers, Sequences, SequencesExt, TLC

CONSTANTS
    MaxNumber,  \* bound: the largest number of a row
    CSVs        \* the files a load may find: [file, rows]

Texts == Seq(STRING)
EmptyText == <<"">>
Decimal == [n \in 0 .. MaxNumber |-> ToString(n)]
Format(n) == <<Decimal[n]>>

(* The minutes and seconds of a time have decimals of their own.           *)
ASSUME MaxNumberAssumption == MaxNumber \in Nat /\ MaxNumber >= 59
ASSUME DecimalAssumption ==
    \A m, n \in 0 .. MaxNumber :
        Decimal[m] \in STRING \ {""} /\ (Decimal[m] = Decimal[n] => m = n)
ASSUME NilAssumption == Nil \notin Nat \cup Texts

\* A value and whether there was an error, as the parsers return them.
Ok(v) == [err |-> FALSE, v |-> v]
Error == [err |-> TRUE, v |-> Nil]

\* A struct or a row of which every field must be without error.
Parsed(fields) ==
    IF \E k \in DOMAIN fields : fields[k].err THEN Error
    ELSE Ok([k \in DOMAIN fields |-> fields[k].v])
-----------------------------------------------------------------------------
(* parse.go *)

\* strconv.Atoi and ParseFloat, of the decimals there are.
Atoi(text) ==
    IF Len(text) = 1 /\ \E n \in 0 .. MaxNumber : Decimal[n] = text[1]
    THEN Ok(CHOOSE n \in 0 .. MaxNumber : Decimal[n] = text[1])
    ELSE Error

ParseInt(text, defaultValue) == IF text = EmptyText THEN Ok(defaultValue) ELSE Atoi(text)
ParseFloat(text, defaultValue) == IF text = EmptyText THEN Ok(defaultValue) ELSE Atoi(text)
ParseNullableInt(text) == IF text = EmptyText THEN Ok(Nil) ELSE Atoi(text)
ParseNullableFloat(text) == IF text = EmptyText THEN Ok(Nil) ELSE Atoi(text)
ParseNullableString(text) == IF text = EmptyText THEN Ok(Nil) ELSE Ok(text)

\* Hours, minutes and seconds, in seconds; no part has a limit.
ParseDuration(text) ==
    IF text = EmptyText THEN Ok(Nil)
    ELSE IF Len(text) # 3 \/ \E i \in 1 .. 3 : Atoi(<<text[i]>>).err THEN Error
    ELSE Ok(3600 * Atoi(<<text[1]>>).v + 60 * Atoi(<<text[2]>>).v + Atoi(<<text[3]>>).v)
-----------------------------------------------------------------------------
(* time.go *)

\* Broken variant: the clock starts again at midnight.
MarshalTextWraps(t) ==
    <<Decimal[(t \div 3600) % 24], Decimal[(t % 3600) \div 60], Decimal[t % 60]>>

MarshalText(t) == <<Decimal[t \div 3600], Decimal[(t % 3600) \div 60], Decimal[t % 60]>>

\* An interval column holds what Value gives it, and shows it to Scan in the same form.
Interval(time) ==
    IF time.err THEN Error ELSE Ok(IF time.v = Nil THEN Nil ELSE MarshalText(time.v))

\* Scan, into a pointer: NULL is nil.
ScanTime(interval) == IF interval = Nil THEN Ok(Nil) ELSE ParseDuration(interval)
-----------------------------------------------------------------------------
(* gtfs.go *)

NewCalendarDateFromRow(row) ==
    Parsed([service_id |-> Ok(row[1]), date |-> Atoi(row[2]), exception_type |-> Atoi(row[3])])

NewShapeFromRow(row) ==
    Parsed([id |-> Ok(row[1]), lat |-> ParseFloat(row[2], 0), lng |-> ParseFloat(row[3], 0),
            pt_sequence |-> ParseInt(row[4], 0),
            dist_traveled |-> ParseNullableFloat(row[5])])

NewStopFromRow(row) ==
    Parsed([id |-> Ok(row[1]), code |-> Ok(row[2]), name |-> Ok(row[3]), desc |-> Ok(row[4]),
            lat |-> ParseFloat(row[5], 0), lon |-> ParseFloat(row[6], 0),
            zone_id |-> Ok(row[7]), url |-> Ok(row[8]), location_type |-> ParseInt(row[9], 0),
            parent_station |-> Ok(row[10]), direction |-> Ok(row[11]),
            position |-> Ok(row[12]),
            wheelchair_boarding |-> IF Len(row) >= 13 THEN ParseInt(row[13], 0) ELSE Ok(0)])

NewStopTimeFromRow(row) ==
    Parsed([trip_id |-> Ok(row[1]), arrival_time |-> ParseDuration(row[2]),
            departure_time |-> ParseDuration(row[3]), stop_id |-> Ok(row[4]),
            stop_sequence |-> Atoi(row[5]), stop_headsign |-> ParseNullableString(row[6]),
            pickup_type |-> ParseInt(row[7], 0), drop_off_type |-> ParseInt(row[8], 0),
            shape_dist_traveled |-> ParseNullableFloat(row[9]),
            timepoint |-> ParseNullableInt(row[10]),
            continuous_drop_off |-> ParseInt(row[11], 0),
            continuous_pickup |-> ParseInt(row[12], 0)])

\* TriMet has no headsigns, short names, bikes and wheelchairs in trips.txt.
NewTripFromRow(row) ==
    Parsed([route_id |-> Ok(row[1]), service_id |-> Ok(row[2]), id |-> Ok(row[3]),
            direction_id |-> ParseNullableInt(row[4]), block_id |-> ParseNullableString(row[5]),
            shape_id |-> ParseNullableString(row[6]), headsign |-> Ok(Nil),
            short_name |-> Ok(Nil), bikes_allowed |-> Ok(0), wheelchair_accessible |-> Ok(0)])
-----------------------------------------------------------------------------
(* loader.go: a row of each table, from a row of its file *)

LoadCalendarDates(row) == NewCalendarDateFromRow(row)

LoadServices(row) == Ok([id |-> row[1]])

\* The row is used as it comes: the type is given twice, as text and as a number.
LoadRoutes(row) ==
    LET routeType == Atoi(row[5])
        sortOrder == Atoi(row[9])
    IN  Parsed([id |-> Ok(row[1]), agency_id |-> Ok(row[2]), short_name |-> Ok(row[3]),
                long_name |-> Ok(row[4]), type |-> Atoi(row[5]),
                url |-> IF routeType.err THEN Error ELSE Ok(Format(routeType.v)),
                color |-> Ok(row[7]), text_color |-> Ok(row[8]), sort_order |-> sortOrder])

\* A point is stored as text, longitude first.
LoadShapes(row) ==
    LET sh == NewShapeFromRow(row)
    IN  IF sh.err THEN Error
        ELSE Ok([id |-> sh.v.id, pt_lon_lat |-> <<sh.v.lng, sh.v.lat>>,
                 pt_sequence |-> sh.v.pt_sequence, dist_traveled |-> sh.v.dist_traveled])

LoadStops(row) ==
    LET st == NewStopFromRow(row)
    IN  IF st.err THEN Error
        ELSE Ok([id |-> st.v.id, code |-> st.v.code, name |-> st.v.name, desc |-> st.v.desc,
                 lat_lon |-> <<st.v.lon, st.v.lat>>, zone_id |-> st.v.zone_id,
                 url |-> st.v.url, location_type |-> st.v.location_type,
                 parent_station |-> st.v.parent_station, direction |-> st.v.direction,
                 position |-> st.v.position])

LoadStopTimes(row) ==
    LET st == NewStopTimeFromRow(row)
    IN  IF st.err THEN Error
        ELSE Ok([st.v EXCEPT !.arrival_time = Interval(Ok(@)).v,
                             !.departure_time = Interval(Ok(@)).v])

LoadTrips(row) == NewTripFromRow(row)

Loaded(file, row) ==
    CASE file = "calendar_dates" -> LoadCalendarDates(row)
      [] file = "services" -> LoadServices(row)
      [] file = "routes" -> LoadRoutes(row)
      [] file = "shapes" -> LoadShapes(row)
      [] file = "stops" -> LoadStops(row)
      [] file = "stop_times" -> LoadStopTimes(row)
      [] file = "trips" -> LoadTrips(row)

-----------------------------------------------------------------------------
(* stops.go, shapes.go: a point as the API reads it, X being the longitude *)

FetchPoint(point) == [lat |-> point[2], lng |-> point[1]]
-----------------------------------------------------------------------------
(* What the tables should hold: the columns of the files, by their names *)

CalendarDatesHeader == <<"service_id", "date", "exception_type">>

RoutesHeader ==
    <<"route_id", "agency_id", "route_short_name", "route_long_name", "route_type",
      "route_url", "route_color", "route_text_color", "route_sort_order">>

\* There is no fixture of shapes.txt: these are the fields of NewShapeFromRow, by the
\* names GTFS gives them.
ShapesHeader ==
    <<"shape_id", "shape_pt_lat", "shape_pt_lon", "shape_pt_sequence", "shape_dist_traveled">>

StopsHeader ==
    <<"stop_id", "stop_code", "stop_name", "stop_desc", "stop_lat", "stop_lon", "zone_id",
      "stop_url", "location_type", "parent_station", "direction", "position">>

StopTimesHeader ==
    <<"trip_id", "arrival_time", "departure_time", "stop_id", "stop_sequence",
      "stop_headsign", "pickup_type", "drop_off_type", "shape_dist_traveled", "timepoint",
      "continuous_drop_off", "continuous_pickup">>

TripsHeader ==
    <<"route_id", "service_id", "trip_id", "direction_id", "block_id", "shape_id", "trip_type">>

\* The services are read from calendar_dates.txt, too.
Header == [
    calendar_dates |-> CalendarDatesHeader, services |-> CalendarDatesHeader,
    routes |-> RoutesHeader, shapes |-> ShapesHeader, stops |-> StopsHeader,
    stop_times |-> StopTimesHeader, trips |-> TripsHeader]

\* The text that a row of the file has in the column of that name.
Named(file, row, name) == row[CHOOSE n \in DOMAIN Header[file] : Header[file][n] = name]

\* The column of the file that a column of the table is about, if the file has one.
FileColumn == [
    calendar_dates |-> [service_id |-> "service_id", date |-> "date",
                        exception_type |-> "exception_type"],
    services |-> [id |-> "service_id"],
    routes |-> [id |-> "route_id", agency_id |-> "agency_id",
                short_name |-> "route_short_name", long_name |-> "route_long_name",
                type |-> "route_type", url |-> "route_url", color |-> "route_color",
                text_color |-> "route_text_color", sort_order |-> "route_sort_order"],
    shapes |-> [id |-> "shape_id", pt_sequence |-> "shape_pt_sequence",
                dist_traveled |-> "shape_dist_traveled"],
    stops |-> [id |-> "stop_id", code |-> "stop_code", name |-> "stop_name",
               desc |-> "stop_desc", zone_id |-> "zone_id", url |-> "stop_url",
               location_type |-> "location_type", parent_station |-> "parent_station",
               direction |-> "direction", position |-> "position"],
    stop_times |-> [k \in ToSet(Header.stop_times) |-> k],
    trips |-> [id |-> "trip_id", route_id |-> "route_id", service_id |-> "service_id",
               direction_id |-> "direction_id", block_id |-> "block_id",
               shape_id |-> "shape_id"]]

NumberColumns == {"date", "exception_type", "type", "sort_order", "pt_sequence",
                  "dist_traveled", "location_type", "stop_sequence", "pickup_type",
                  "drop_off_type", "shape_dist_traveled", "timepoint",
                  "continuous_drop_off", "continuous_pickup", "direction_id", "point"}
TimeColumns == {"arrival_time", "departure_time"}

\* The value v of column c says what the text says: the number, the time, or the text
\* itself; an empty text says nothing, or 0.
SaysTheSame(c, v, text) ==
    IF c \in NumberColumns
    THEN IF text = EmptyText THEN v \in {Nil, 0} ELSE v = Atoi(text).v
    ELSE IF c \in TimeColumns
    THEN ScanTime(v) = ParseDuration(text)
    ELSE v = text \/ (v = Nil /\ text = EmptyText)

(* What is loaded is what the file says in the columns of those names, and *)
(* the points that the API answers are where the file says.                *)
RowSaysTheFile(file, row, stored, columns) ==
    LET Says(c, v, name) == SaysTheSame(c, v, Named(file, row, name))
    IN  /\ \A c \in columns : Says(c, stored[c], FileColumn[file][c])
        /\ file = "shapes" =>
              /\ Says("point", FetchPoint(stored.pt_lon_lat).lng, "shape_pt_lon")
              /\ Says("point", FetchPoint(stored.pt_lon_lat).lat, "shape_pt_lat")
        /\ file = "stops" =>
              /\ Says("point", FetchPoint(stored.lat_lon).lng, "stop_lon")
              /\ Says("point", FetchPoint(stored.lat_lon).lat, "stop_lat")
-----------------------------------------------------------------------------
(* bulkReplace *)

(* The rows of a file have a field for each column of its header, the      *)
(* callbacks index them without asking; the hours of a time are a number.  *)
ASSUME CSVsAssumption ==
    \A c \in CSVs :
        /\ c.file \in DOMAIN Header
        /\ c.rows \in Seq(Seq(Texts))
        /\ \A n \in DOMAIN c.rows :
              /\ Len(c.rows[n]) >= Len(Header[c.file])
              /\ c.file = "stop_times" =>
                    \A i \in {2, 3} :
                        LET t == ParseDuration(c.rows[n][i])
                        IN  t.err \/ t.v = Nil \/ t.v \div 3600 <= MaxNumber

VARIABLES
    csv,     \* the file
    count,   \* the rows of it that were read
    ids,     \* the services that LoadServices has met
    copied,  \* what COPY was given
    load     \* "reading", "loaded" or "failed"

loadVars == <<csv, count, ids, copied, load>>

BulkReplaceInit ==
    /\ csv \in CSVs
    /\ count = 0 /\ ids = {} /\ copied = << >>
    /\ load = "reading"

\* c.Read() has another row.
Reads ==
    /\ load = "reading"
    /\ count < Len(csv.rows)
    /\ count' = count + 1
    /\ UNCHANGED csv

SkipHeader ==
    /\ Reads
    /\ count = 0
    /\ UNCHANGED <<ids, copied, load>>

Row == csv.rows[count + 1]

\* LoadServices takes each id of its file once.
Known == csv.file = "services" /\ Row[1] \in ids

SkipService ==
    /\ Reads
    /\ count > 0 /\ Known
    /\ UNCHANGED <<ids, copied, load>>

CopyRow ==
    /\ Reads
    /\ count > 0 /\ ~Known
    /\ ~Loaded(csv.file, Row).err
    /\ copied' = Append(copied, Loaded(csv.file, Row).v)
    /\ ids' = IF csv.file = "services" THEN ids \cup {Row[1]} ELSE ids
    /\ UNCHANGED load

RowFails ==
    /\ Reads
    /\ count > 0 /\ ~Known
    /\ Loaded(csv.file, Row).err
    /\ load' = "failed"
    /\ UNCHANGED <<ids, copied>>

\* The file cannot be read on, or the table does not take a row.
CopyFails ==
    /\ load = "reading"
    /\ load' = "failed"
    /\ UNCHANGED <<csv, count, ids, copied>>

EndOfFile ==
    /\ load = "reading"
    /\ count = Len(csv.rows)
    /\ load' = "loaded"
    /\ UNCHANGED <<csv, count, ids, copied>>

BulkReplace == SkipHeader \/ SkipService \/ CopyRow \/ RowFails \/ CopyFails \/ EndOfFile

BulkReplaceSpec == BulkReplaceInit /\ [][BulkReplace]_loadVars
-----------------------------------------------------------------------------
(* What the load promises *)

\* What COPY was given of the first n rows of a file: of each row after the header what it
\* says in the columns, and each service once.
Services(c, n) == {c.rows[k][1] : k \in 2 .. n}
CopiedIds(given) == {given[k].id : k \in DOMAIN given}

CopiedSays(c, given, n, columns) ==
    IF c.file = "services"
    THEN /\ CopiedIds(given) = Services(c, n)
         /\ \A k, l \in DOMAIN given : given[k].id = given[l].id => k = l
    ELSE /\ DOMAIN given = 1 .. n - 1
         /\ \A k \in DOMAIN given :
               RowSaysTheFile(c.file, c.rows[k + 1], given[k], columns)

Kept(file) == DOMAIN FileColumn[file] \ (IF file = "routes" THEN {"url"} ELSE {})

(* A file that loads is in the table as the columns of its header say, row *)
(* by row, times past midnight included, and its points are answered where *)
(* it says they are; the url of a route aside.  Each service is in it      *)
(* once.                                                                   *)
FilesSurvive == load = "loaded" => CopiedSays(csv, copied, Len(csv.rows), Kept(csv.file))

(* The table of routes declares the columns of routes.txt (00001_init.sql, *)
(* trimet.Route): what it holds as the url of a route is its url.          *)
RouteUrlSurvives ==
    load = "loaded" /\ csv.file = "routes"
        => CopiedSays(csv, copied, Len(csv.rows), {"url"})

\* The inductive invariant.
Cells(c) == {Loaded(c.file, row).v : row \in ToSet(c.rows)}

BulkReplaceInv ==
    /\ csv \in CSVs
    /\ count \in 0 .. Len(csv.rows)
    /\ copied \in Seq(Cells(csv))
    /\ load = "loaded" => count = Len(csv.rows)
    /\ load # "failed" => CopiedSays(csv, copied, count, Kept(csv.file))
    /\ csv.file = "services" => ids = CopiedIds(copied)
=============================================================================
