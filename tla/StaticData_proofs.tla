-------------------------- MODULE StaticData_proofs --------------------------
(***************************************************************************)
(* Proofs about what comes of the static data: the rows of the files on    *)
(* their way into the tables (StaticRows), the shapes of the tables on     *)
(* their way to the map (RouteLines) and the stop times on their way to    *)
(* the page of a stop (ArrivalsPage), for every file, every network of     *)
(* shapes and every timetable.                                             *)
(***************************************************************************)
EXTENDS StaticRows, RouteLines, ArrivalsPage, TLAPS

-----------------------------------------------------------------------------
(***************************************************************************)
(* StaticRows, for every file and every largest number                     *)
(***************************************************************************)

(* Without an error a struct has the value of each field.                  *)
LEMMA ParsedFields ==
    ASSUME NEW fields, ~Parsed(fields).err
    PROVE  /\ \A k \in DOMAIN fields : ~fields[k].err /\ Parsed(fields).v[k] = fields[k].v
           /\ DOMAIN Parsed(fields).v = DOMAIN fields
<1>1. Error.err
  BY DEF Error
<1>2. ~(\E k \in DOMAIN fields : fields[k].err)
  BY <1>1 DEF Parsed
<1>3. Parsed(fields) = Ok([k \in DOMAIN fields |-> fields[k].v])
  BY <1>2 DEF Parsed
<1> QED
  BY <1>2, <1>3 DEF Ok

(* Three decimals are a text of three parts.                               *)
LEMMA WrittenTexts ==
    \A a, b, c \in 0 .. MaxNumber : \A written :
        written = <<Decimal[a], Decimal[b], Decimal[c]>> =>
           /\ written \in Texts /\ written # EmptyText /\ written # Nil
           /\ Len(written) = 3
           /\ written[1] = Decimal[a] /\ written[2] = Decimal[b] /\ written[3] = Decimal[c]
<1> SUFFICES ASSUME NEW a \in 0 .. MaxNumber, NEW b \in 0 .. MaxNumber,
                    NEW c \in 0 .. MaxNumber,
                    NEW written, written = <<Decimal[a], Decimal[b], Decimal[c]>>
             PROVE  /\ written \in Texts /\ written # EmptyText /\ written # Nil
                    /\ Len(written) = 3
                    /\ written[1] = Decimal[a] /\ written[2] = Decimal[b]
                    /\ written[3] = Decimal[c]
  OBVIOUS
<1>1. written \in Texts
  <2>1. ASSUME NEW S, NEW u \in S, NEW v \in S, NEW w \in S
        PROVE  <<u, v, w>> \in Seq(S)
    OBVIOUS
  <2>2. \A n \in 0 .. MaxNumber : Decimal[n] \in STRING
    BY DecimalAssumption
  <2>3. Decimal[a] \in STRING /\ Decimal[b] \in STRING /\ Decimal[c] \in STRING
    BY <2>2
  <2>4. <<Decimal[a], Decimal[b], Decimal[c]>> \in Seq(STRING)
    BY <2>1, <2>3, Zenon
  <2> QED
    BY <2>4, Zenon DEF Texts
<1>2. written # Nil
  BY <1>1, NilAssumption
<1>3. /\ written # EmptyText /\ Len(written) = 3
      /\ written[1] = Decimal[a] /\ written[2] = Decimal[b] /\ written[3] = Decimal[c]
  BY DEF EmptyText
<1> QED
  BY <1>1, <1>2, <1>3

(* A decimal is read as the number that it was written for, and the empty  *)
(* text as none.                                                           *)
LEMMA AtoiOfDecimal ==
    /\ \A n \in 0 .. MaxNumber : Atoi(<<Decimal[n]>>) = Ok(n)
    /\ \A text : \/ Atoi(text).err
                 \/ Atoi(text) = Ok(Atoi(text).v) /\ Atoi(text).v \in 0 .. MaxNumber
    /\ Atoi(EmptyText).err
<1>1. ASSUME NEW n \in 0 .. MaxNumber
      PROVE  Atoi(<<Decimal[n]>>) = Ok(n)
  <2>1. (CHOOSE m \in 0 .. MaxNumber : Decimal[m] = Decimal[n]) = n
    BY DecimalAssumption
  <2>2. Len(<<Decimal[n]>>) = 1 /\ <<Decimal[n]>>[1] = Decimal[n]
    OBVIOUS
  <2> QED
    BY <2>1, <2>2 DEF Atoi
<1>2. ASSUME NEW text
      PROVE  Atoi(text).err \/ (Atoi(text) = Ok(Atoi(text).v) /\ Atoi(text).v \in 0 .. MaxNumber)
  <2>1. CASE Len(text) = 1 /\ \E n \in 0 .. MaxNumber : Decimal[n] = text[1]
    <3> DEFINE n == CHOOSE n \in 0 .. MaxNumber : Decimal[n] = text[1]
    <3>1. n \in 0 .. MaxNumber
      BY <2>1
    <3>2. Atoi(text) = Ok(n)
      BY <2>1 DEF Atoi
    <3> HIDE DEF n
    <3> QED
      BY <3>1, <3>2 DEF Ok
  <2>2. CASE ~(Len(text) = 1 /\ \E n \in 0 .. MaxNumber : Decimal[n] = text[1])
    <3>1. Atoi(text) = Error
      BY <2>2 DEF Atoi
    <3>2. Error.err
      BY DEF Error
    <3> QED
      BY <3>1, <3>2, Zenon
  <2> QED
    BY <2>1, <2>2
<1>3. Atoi(EmptyText).err
  BY DecimalAssumption DEF Atoi, Error, EmptyText
<1> QED
  BY <1>1, <1>2, <1>3

(* What the parsers make of a text says the same in its column.            *)
LEMMA ParsersSayTheSame ==
    ASSUME NEW text, NEW c
    PROVE  /\ c \notin NumberColumns \cup TimeColumns =>
                 SaysTheSame(c, text, text) /\ SaysTheSame(c, ParseNullableString(text).v, text)
           /\ c \in NumberColumns =>
                 /\ ~Atoi(text).err => SaysTheSame(c, Atoi(text).v, text)
                 /\ ~ParseInt(text, 0).err => SaysTheSame(c, ParseInt(text, 0).v, text)
                 /\ ~ParseFloat(text, 0).err => SaysTheSame(c, ParseFloat(text, 0).v, text)
                 /\ ~ParseNullableInt(text).err => SaysTheSame(c, ParseNullableInt(text).v, text)
                 /\ ~ParseNullableFloat(text).err
                      => SaysTheSame(c, ParseNullableFloat(text).v, text)
<1>1. Atoi(EmptyText).err
  BY AtoiOfDecimal
<1>2. CASE text = EmptyText
  BY <1>1, <1>2 DEF SaysTheSame, ParseNullableString, ParseInt, ParseFloat, ParseNullableInt,
                    ParseNullableFloat, Ok
<1>3. CASE text # EmptyText
  BY <1>3 DEF SaysTheSame, ParseNullableString, ParseInt, ParseFloat, ParseNullableInt,
              ParseNullableFloat, Ok
<1> QED
  BY <1>2, <1>3

(* A time that is stored as text is the same time when it is read, also    *)
(* past midnight.                                                          *)
LEMMA TimeSurvives ==
    ASSUME NEW text, ~ParseDuration(text).err,
           ParseDuration(text).v # Nil => ParseDuration(text).v \div 3600 <= MaxNumber
    PROVE  ScanTime(Interval(Ok(ParseDuration(text).v)).v) = ParseDuration(text)
<1>1. CASE text = EmptyText
  BY <1>1 DEF ParseDuration, Interval, ScanTime, Ok
<1>2. CASE text # EmptyText
  <2> DEFINE h == Atoi(<<text[1]>>).v
             m == Atoi(<<text[2]>>).v
             s == Atoi(<<text[3]>>).v
             t == (3600 * h) + (60 * m) + s
  <2>1. ~(Len(text) # 3 \/ \E i \in 1 .. 3 : Atoi(<<text[i]>>).err)
    BY <1>2 DEF ParseDuration, Error
  <2>2. ParseDuration(text) = Ok(t)
    BY <1>2, <2>1 DEF ParseDuration
  <2>3. h \in Nat /\ m \in Nat /\ s \in Nat
    <3>1. \A i \in 1 .. 3 : Atoi(<<text[i]>>).v \in 0 .. MaxNumber
      BY <2>1, AtoiOfDecimal
    <3>2. \A n \in 0 .. MaxNumber : n \in Nat
      BY MaxNumberAssumption
    <3> QED
      BY <3>1, <3>2
  <2> HIDE DEF h, m, s
  <2>4. t \in Nat
    BY <2>3
  <2> HIDE DEF t
  <2>5. ParseDuration(text).v = t /\ t # Nil
    BY <2>2, <2>4, NilAssumption DEF Ok
  <2> DEFINE a == t \div 3600
             b == (t % 3600) \div 60
             c == t % 60
  <2>6. a \in 0 .. MaxNumber /\ b \in 0 .. MaxNumber /\ c \in 0 .. MaxNumber
    <3>1. a \in Nat /\ a <= MaxNumber
      BY <2>4, <2>5
    <3>2. b \in 0 .. 59 /\ c \in 0 .. 59
      BY <2>4
    <3> QED
      BY <3>1, <3>2, MaxNumberAssumption
  <2>7. (3600 * a) + (60 * b) + c = t
    BY <2>4
  <2>8. MarshalText(t) = <<Decimal[a], Decimal[b], Decimal[c]>>
    BY DEF MarshalText
  <2> HIDE DEF a, b, c
  <2> DEFINE written == <<Decimal[a], Decimal[b], Decimal[c]>>
  <2>9. written = <<Decimal[a], Decimal[b], Decimal[c]>>
    OBVIOUS
  <2> HIDE DEF written
  <2>10. /\ written \in Texts /\ written # Nil /\ written # EmptyText /\ Len(written) = 3
         /\ written[1] = Decimal[a] /\ written[2] = Decimal[b] /\ written[3] = Decimal[c]
    BY <2>6, <2>9, WrittenTexts
  <2>11. /\ Atoi(<<written[1]>>) = Ok(a) /\ Atoi(<<written[2]>>) = Ok(b)
         /\ Atoi(<<written[3]>>) = Ok(c)
    BY <2>6, <2>10, AtoiOfDecimal
  <2>12. \A i \in 1 .. 3 : ~Atoi(<<written[i]>>).err
    BY <2>11 DEF Ok
  <2>13. ParseDuration(written) = Ok((3600 * a) + (60 * b) + c)
    <3>1. ~(Len(written) # 3 \/ \E i \in 1 .. 3 : Atoi(<<written[i]>>).err)
      BY <2>10, <2>12
    <3>2. /\ Atoi(<<written[1]>>).v = a /\ Atoi(<<written[2]>>).v = b
          /\ Atoi(<<written[3]>>).v = c
      BY <2>11 DEF Ok
    <3>3. ParseDuration(written) =
            Ok((3600 * Atoi(<<written[1]>>).v) + (60 * Atoi(<<written[2]>>).v)
                 + Atoi(<<written[3]>>).v)
      BY <2>10, <3>1 DEF ParseDuration
    <3> QED
      BY <3>2, <3>3
  <2>14. Interval(Ok(t)).v = written
    BY <2>5, <2>8, <2>9 DEF Interval, Ok
  <2> QED
    BY <2>2, <2>5, <2>7, <2>10, <2>13, <2>14 DEF ScanTime
<1> QED
  BY <1>1, <1>2

(* The columns of a file have different names: the n-th of them is where   *)
(* its name says.                                                          *)
LEMMA NamedColumns ==
    ASSUME NEW file \in DOMAIN Header, NEW row, NEW n \in DOMAIN Header[file]
    PROVE  Named(file, row, Header[file][n]) = row[n]
<1>1. \A m, k \in DOMAIN Header[file] : Header[file][m] = Header[file][k] => m = k
  <2>1. CASE file = "calendar_dates"
    BY <2>1 DEF Header, CalendarDatesHeader
  <2>2. CASE file = "services"
    BY <2>2 DEF Header, CalendarDatesHeader
  <2>3. CASE file = "routes"
    BY <2>3 DEF Header, RoutesHeader
  <2>4. CASE file = "shapes"
    BY <2>4 DEF Header, ShapesHeader
  <2>5. CASE file = "stops"
    BY <2>5 DEF Header, StopsHeader
  <2>6. CASE file = "stop_times"
    BY <2>6 DEF Header, StopTimesHeader
  <2>7. CASE file = "trips"
    BY <2>7 DEF Header, TripsHeader
  <2> QED
    BY <2>1, <2>2, <2>3, <2>4, <2>5, <2>6, <2>7 DEF Header
<1>2. (CHOOSE m \in DOMAIN Header[file] : Header[file][m] = Header[file][n]) = n
  BY <1>1, Zenon
<1> QED
  BY <1>2, Zenon DEF Named

(* A row of calendar_dates.                                                *)
LEMMA CalendarDatesSay ==
    ASSUME NEW row, ~LoadCalendarDates(row).err
    PROVE  RowSaysTheFile("calendar_dates", row, LoadCalendarDates(row).v, Kept("calendar_dates"))
<1> DEFINE fields == [service_id |-> Ok(row[1]), date |-> Atoi(row[2]),
                      exception_type |-> Atoi(row[3])]
           stored == LoadCalendarDates(row).v
<1>1. \A k \in DOMAIN fields : ~fields[k].err /\ stored[k] = fields[k].v
  <2>1. LoadCalendarDates(row) = Parsed(fields)
    BY DEF LoadCalendarDates, NewCalendarDateFromRow
  <2> HIDE DEF fields
  <2> QED
    BY <2>1, ParsedFields
<1> HIDE DEF stored
<1>2. /\ SaysTheSame("service_id", stored.service_id, row[1])
      /\ SaysTheSame("date", stored.date, row[2])
      /\ SaysTheSame("exception_type", stored.exception_type, row[3])
  BY <1>1, ParsersSayTheSame DEF NumberColumns, TimeColumns, Ok
<1>3. /\ Named("calendar_dates", row, "service_id") = row[1]
      /\ Named("calendar_dates", row, "date") = row[2]
      /\ Named("calendar_dates", row, "exception_type") = row[3]
  BY NamedColumns DEF Header, CalendarDatesHeader
<1>4. \A c \in Kept("calendar_dates") :
         SaysTheSame(c, stored[c], Named("calendar_dates", row, FileColumn["calendar_dates"][c]))
  BY <1>2, <1>3 DEF Kept, FileColumn
<1> QED
  BY <1>4 DEF RowSaysTheFile, stored

(* A row of trips.                                                         *)
LEMMA TripsSay ==
    ASSUME NEW row, ~LoadTrips(row).err
    PROVE  RowSaysTheFile("trips", row, LoadTrips(row).v, Kept("trips"))
<1> DEFINE fields == [route_id |-> Ok(row[1]), service_id |-> Ok(row[2]),
                      id |-> Ok(row[3]), direction_id |-> ParseNullableInt(row[4]),
                      block_id |-> ParseNullableString(row[5]),
                      shape_id |-> ParseNullableString(row[6]), headsign |-> Ok(Nil),
                      short_name |-> Ok(Nil), bikes_allowed |-> Ok(0),
                      wheelchair_accessible |-> Ok(0)]
           stored == LoadTrips(row).v
<1>1. \A k \in DOMAIN fields : ~fields[k].err /\ stored[k] = fields[k].v
  <2>1. LoadTrips(row) = Parsed(fields)
    BY DEF LoadTrips, NewTripFromRow
  <2> HIDE DEF fields
  <2> QED
    BY <2>1, ParsedFields
<1> HIDE DEF stored
<1>2. /\ SaysTheSame("id", stored.id, row[3])
      /\ SaysTheSame("route_id", stored.route_id, row[1])
      /\ SaysTheSame("service_id", stored.service_id, row[2])
      /\ SaysTheSame("direction_id", stored.direction_id, row[4])
      /\ SaysTheSame("block_id", stored.block_id, row[5])
      /\ SaysTheSame("shape_id", stored.shape_id, row[6])
  BY <1>1, ParsersSayTheSame DEF NumberColumns, TimeColumns, Ok
<1>3. /\ Named("trips", row, "trip_id") = row[3]
      /\ Named("trips", row, "route_id") = row[1]
      /\ Named("trips", row, "service_id") = row[2]
      /\ Named("trips", row, "direction_id") = row[4]
      /\ Named("trips", row, "block_id") = row[5]
      /\ Named("trips", row, "shape_id") = row[6]
  BY NamedColumns DEF Header, TripsHeader
<1>4. \A c \in Kept("trips") :
         SaysTheSame(c, stored[c], Named("trips", row, FileColumn["trips"][c]))
  BY <1>2, <1>3 DEF Kept, FileColumn
<1> QED
  BY <1>4 DEF RowSaysTheFile, stored

(* A row of shapes, and the point that the API answers.                    *)
LEMMA ShapesSay ==
    ASSUME NEW row, ~LoadShapes(row).err
    PROVE  RowSaysTheFile("shapes", row, LoadShapes(row).v, Kept("shapes"))
<1> DEFINE fields == [id |-> Ok(row[1]), lat |-> ParseFloat(row[2], 0),
                      lng |-> ParseFloat(row[3], 0), pt_sequence |-> ParseInt(row[4], 0),
                      dist_traveled |-> ParseNullableFloat(row[5])]
           parsed == NewShapeFromRow(row).v
           stored == LoadShapes(row).v
<1>1. ~NewShapeFromRow(row).err
  <2>1. Error.err
    BY DEF Error
  <2> QED
    BY <2>1 DEF LoadShapes
<1>2. \A k \in DOMAIN fields : ~fields[k].err /\ parsed[k] = fields[k].v
  <2>1. NewShapeFromRow(row) = Parsed(fields)
    BY DEF NewShapeFromRow
  <2> HIDE DEF fields
  <2> QED
    BY <1>1, <2>1, ParsedFields
<1>3. stored = [id |-> parsed.id, pt_lon_lat |-> <<parsed.lng, parsed.lat>>,
                pt_sequence |-> parsed.pt_sequence, dist_traveled |-> parsed.dist_traveled]
  BY <1>1 DEF LoadShapes, Ok
<1> HIDE DEF parsed, stored
<1>4. /\ SaysTheSame("id", stored.id, row[1])
      /\ SaysTheSame("pt_sequence", stored.pt_sequence, row[4])
      /\ SaysTheSame("dist_traveled", stored.dist_traveled, row[5])
  BY <1>2, <1>3, ParsersSayTheSame DEF NumberColumns, TimeColumns, Ok
<1>5. /\ Named("shapes", row, "shape_id") = row[1]
      /\ Named("shapes", row, "shape_pt_sequence") = row[4]
      /\ Named("shapes", row, "shape_dist_traveled") = row[5]
      /\ Named("shapes", row, "shape_pt_lon") = row[3]
      /\ Named("shapes", row, "shape_pt_lat") = row[2]
  BY NamedColumns DEF Header, ShapesHeader
<1>6. /\ SaysTheSame("point", FetchPoint(stored.pt_lon_lat).lng, row[3])
      /\ SaysTheSame("point", FetchPoint(stored.pt_lon_lat).lat, row[2])
  BY <1>2, <1>3, ParsersSayTheSame DEF NumberColumns, TimeColumns, Ok, FetchPoint
<1>7. \A c \in Kept("shapes") :
         SaysTheSame(c, stored[c], Named("shapes", row, FileColumn["shapes"][c]))
  BY <1>4, <1>5 DEF Kept, FileColumn
<1> QED
  BY <1>5, <1>6, <1>7 DEF RowSaysTheFile, stored

(* A row of stops, and the point that the API answers.                     *)
LEMMA StopsSay ==
    ASSUME NEW row, ~LoadStops(row).err
    PROVE  RowSaysTheFile("stops", row, LoadStops(row).v, Kept("stops"))
<1> DEFINE fields == [id |-> Ok(row[1]), code |-> Ok(row[2]), name |-> Ok(row[3]),
                      desc |-> Ok(row[4]), lat |-> ParseFloat(row[5], 0),
                      lon |-> ParseFloat(row[6], 0), zone_id |-> Ok(row[7]),
                      url |-> Ok(row[8]), location_type |-> ParseInt(row[9], 0),
                      parent_station |-> Ok(row[10]), direction |-> Ok(row[11]),
                      position |-> Ok(row[12]),
                      wheelchair_boarding |->
                          IF Len(row) >= 13 THEN ParseInt(row[13], 0) ELSE Ok(0)]
           parsed == NewStopFromRow(row).v
           stored == LoadStops(row).v
<1>1. ~NewStopFromRow(row).err
  <2>1. Error.err
    BY DEF Error
  <2> QED
    BY <2>1 DEF LoadStops
<1>2. \A k \in DOMAIN fields : ~fields[k].err /\ parsed[k] = fields[k].v
  <2>1. NewStopFromRow(row) = Parsed(fields)
    BY DEF NewStopFromRow
  <2> HIDE DEF fields
  <2> QED
    BY <1>1, <2>1, ParsedFields
<1>3. stored = [id |-> parsed.id, code |-> parsed.code, name |-> parsed.name,
                desc |-> parsed.desc, lat_lon |-> <<parsed.lon, parsed.lat>>,
                zone_id |-> parsed.zone_id, url |-> parsed.url,
                location_type |-> parsed.location_type,
                parent_station |-> parsed.parent_station, direction |-> parsed.direction,
                position |-> parsed.position]
  BY <1>1 DEF LoadStops, Ok
<1> HIDE DEF parsed, stored
<1>4. /\ SaysTheSame("id", stored.id, row[1])
      /\ SaysTheSame("code", stored.code, row[2])
      /\ SaysTheSame("name", stored.name, row[3])
      /\ SaysTheSame("desc", stored.desc, row[4])
      /\ SaysTheSame("zone_id", stored.zone_id, row[7])
      /\ SaysTheSame("url", stored.url, row[8])
      /\ SaysTheSame("location_type", stored.location_type, row[9])
      /\ SaysTheSame("parent_station", stored.parent_station, row[10])
      /\ SaysTheSame("direction", stored.direction, row[11])
      /\ SaysTheSame("position", stored.position, row[12])
  BY <1>2, <1>3, ParsersSayTheSame DEF NumberColumns, TimeColumns, Ok
<1>5. /\ Named("stops", row, "stop_id") = row[1]
      /\ Named("stops", row, "stop_code") = row[2]
      /\ Named("stops", row, "stop_name") = row[3]
      /\ Named("stops", row, "stop_desc") = row[4]
      /\ Named("stops", row, "zone_id") = row[7]
      /\ Named("stops", row, "stop_url") = row[8]
      /\ Named("stops", row, "location_type") = row[9]
      /\ Named("stops", row, "parent_station") = row[10]
      /\ Named("stops", row, "direction") = row[11]
      /\ Named("stops", row, "position") = row[12]
      /\ Named("stops", row, "stop_lon") = row[6]
      /\ Named("stops", row, "stop_lat") = row[5]
  BY NamedColumns DEF Header, StopsHeader
<1>6. /\ SaysTheSame("point", FetchPoint(stored.lat_lon).lng, row[6])
      /\ SaysTheSame("point", FetchPoint(stored.lat_lon).lat, row[5])
  BY <1>2, <1>3, ParsersSayTheSame DEF NumberColumns, TimeColumns, Ok, FetchPoint
<1>7. \A c \in Kept("stops") :
         SaysTheSame(c, stored[c], Named("stops", row, FileColumn["stops"][c]))
  BY <1>4, <1>5 DEF Kept, FileColumn
<1> QED
  BY <1>5, <1>6, <1>7 DEF RowSaysTheFile, stored

(* What is stored of a row of stop_times: the times as their text, the     *)
(* other columns as the row says them.                                     *)
LEMMA StopTimesStored ==
    ASSUME NEW row, ~LoadStopTimes(row).err, NEW stored, stored = LoadStopTimes(row).v
    PROVE  /\ ~ParseDuration(row[2]).err /\ ~ParseDuration(row[3]).err
           /\ stored.arrival_time = Interval(Ok(ParseDuration(row[2]).v)).v
           /\ stored.departure_time = Interval(Ok(ParseDuration(row[3]).v)).v
           /\ SaysTheSame("trip_id", stored.trip_id, row[1])
           /\ SaysTheSame("stop_id", stored.stop_id, row[4])
           /\ SaysTheSame("stop_sequence", stored.stop_sequence, row[5])
           /\ SaysTheSame("stop_headsign", stored.stop_headsign, row[6])
           /\ SaysTheSame("pickup_type", stored.pickup_type, row[7])
           /\ SaysTheSame("drop_off_type", stored.drop_off_type, row[8])
           /\ SaysTheSame("shape_dist_traveled", stored.shape_dist_traveled, row[9])
           /\ SaysTheSame("timepoint", stored.timepoint, row[10])
           /\ SaysTheSame("continuous_drop_off", stored.continuous_drop_off, row[11])
           /\ SaysTheSame("continuous_pickup", stored.continuous_pickup, row[12])
<1> DEFINE fields == [trip_id |-> Ok(row[1]), arrival_time |-> ParseDuration(row[2]),
                      departure_time |-> ParseDuration(row[3]), stop_id |-> Ok(row[4]),
                      stop_sequence |-> Atoi(row[5]),
                      stop_headsign |-> ParseNullableString(row[6]),
                      pickup_type |-> ParseInt(row[7], 0),
                      drop_off_type |-> ParseInt(row[8], 0),
                      shape_dist_traveled |-> ParseNullableFloat(row[9]),
                      timepoint |-> ParseNullableInt(row[10]),
                      continuous_drop_off |-> ParseInt(row[11], 0),
                      continuous_pickup |-> ParseInt(row[12], 0)]
           parsed == NewStopTimeFromRow(row).v
<1>1. ~NewStopTimeFromRow(row).err
  <2>1. Error.err
    BY DEF Error
  <2> QED
    BY <2>1 DEF LoadStopTimes
<1>2. /\ \A k \in DOMAIN fields : ~fields[k].err /\ parsed[k] = fields[k].v
      /\ DOMAIN parsed = DOMAIN fields
  <2>1. NewStopTimeFromRow(row) = Parsed(fields)
    BY DEF NewStopTimeFromRow
  <2> HIDE DEF fields
  <2> QED
    BY <1>1, <2>1, ParsedFields
<1>3. stored = [parsed EXCEPT !.arrival_time = Interval(Ok(@)).v,
                              !.departure_time = Interval(Ok(@)).v]
  BY <1>1 DEF LoadStopTimes, Ok
<1> HIDE DEF parsed
<1>4. /\ stored.arrival_time = Interval(Ok(ParseDuration(row[2]).v)).v
      /\ stored.departure_time = Interval(Ok(ParseDuration(row[3]).v)).v
      /\ \A k \in DOMAIN fields \ TimeColumns : stored[k] = fields[k].v
  <2>1. /\ {"arrival_time", "departure_time"} \subseteq DOMAIN parsed
        /\ parsed.arrival_time = ParseDuration(row[2]).v
        /\ parsed.departure_time = ParseDuration(row[3]).v
    BY <1>2
  <2> HIDE DEF fields
  <2>2. /\ stored.arrival_time = Interval(Ok(parsed.arrival_time)).v
        /\ stored.departure_time = Interval(Ok(parsed.departure_time)).v
        /\ \A k \in DOMAIN parsed \ TimeColumns : stored[k] = parsed[k]
    BY <1>3, <2>1 DEF TimeColumns
  <2>3. \A k \in DOMAIN fields \ TimeColumns : stored[k] = fields[k].v
    BY <1>2, <2>2
  <2> QED
    BY <2>1, <2>2, <2>3
<1>5. /\ ~ParseDuration(row[2]).err /\ ~ParseDuration(row[3]).err
      /\ stored.trip_id = row[1] /\ stored.stop_id = row[4]
      /\ stored.stop_sequence = Atoi(row[5]).v /\ ~Atoi(row[5]).err
      /\ stored.stop_headsign = ParseNullableString(row[6]).v
      /\ stored.pickup_type = ParseInt(row[7], 0).v /\ ~ParseInt(row[7], 0).err
      /\ stored.drop_off_type = ParseInt(row[8], 0).v /\ ~ParseInt(row[8], 0).err
  BY <1>2, <1>4 DEF TimeColumns, Ok
<1>6. /\ stored.shape_dist_traveled = ParseNullableFloat(row[9]).v
      /\ ~ParseNullableFloat(row[9]).err
      /\ stored.timepoint = ParseNullableInt(row[10]).v /\ ~ParseNullableInt(row[10]).err
      /\ stored.continuous_drop_off = ParseInt(row[11], 0).v /\ ~ParseInt(row[11], 0).err
      /\ stored.continuous_pickup = ParseInt(row[12], 0).v /\ ~ParseInt(row[12], 0).err
  BY <1>2, <1>4 DEF TimeColumns
<1> HIDE DEF fields
<1>7. /\ SaysTheSame("trip_id", stored.trip_id, row[1])
      /\ SaysTheSame("stop_id", stored.stop_id, row[4])
      /\ SaysTheSame("stop_sequence", stored.stop_sequence, row[5])
      /\ SaysTheSame("stop_headsign", stored.stop_headsign, row[6])
      /\ SaysTheSame("pickup_type", stored.pickup_type, row[7])
      /\ SaysTheSame("drop_off_type", stored.drop_off_type, row[8])
  BY <1>5, ParsersSayTheSame DEF NumberColumns, TimeColumns
<1>8. /\ SaysTheSame("shape_dist_traveled", stored.shape_dist_traveled, row[9])
      /\ SaysTheSame("timepoint", stored.timepoint, row[10])
      /\ SaysTheSame("continuous_drop_off", stored.continuous_drop_off, row[11])
      /\ SaysTheSame("continuous_pickup", stored.continuous_pickup, row[12])
  BY <1>6, ParsersSayTheSame DEF NumberColumns, TimeColumns
<1> QED
  BY <1>4, <1>5, <1>7, <1>8

(* A row of stop_times, with its times as they are read again.             *)
LEMMA StopTimesSay ==
    ASSUME NEW row, ~LoadStopTimes(row).err,
           \A i \in {2, 3} : LET t == ParseDuration(row[i])
                             IN  t.err \/ t.v = Nil \/ t.v \div 3600 <= MaxNumber
    PROVE  RowSaysTheFile("stop_times", row, LoadStopTimes(row).v, Kept("stop_times"))
<1> DEFINE stored == LoadStopTimes(row).v
<1>1. stored = LoadStopTimes(row).v
  OBVIOUS
<1> HIDE DEF stored
<1>2. /\ SaysTheSame("arrival_time", stored.arrival_time, row[2])
      /\ SaysTheSame("departure_time", stored.departure_time, row[3])
  <2>1. /\ ScanTime(Interval(Ok(ParseDuration(row[2]).v)).v) = ParseDuration(row[2])
        /\ ScanTime(Interval(Ok(ParseDuration(row[3]).v)).v) = ParseDuration(row[3])
    BY <1>1, StopTimesStored, TimeSurvives
  <2> QED
    BY <1>1, <2>1, StopTimesStored DEF SaysTheSame, NumberColumns, TimeColumns
<1>3. \A n \in 1 .. 12 :
         Named("stop_times", row, FileColumn["stop_times"][Header["stop_times"][n]]) = row[n]
  <2>1. DOMAIN Header["stop_times"] = 1 .. 12 /\ "stop_times" \in DOMAIN Header
    BY DEF Header, StopTimesHeader
  <2>2. \A n \in 1 .. 12 :
           FileColumn["stop_times"][Header["stop_times"][n]] = Header["stop_times"][n]
    BY <2>1 DEF FileColumn, ToSet
  <2> QED
    BY <2>1, <2>2, NamedColumns
<1>4. \A c \in Kept("stop_times") :
         SaysTheSame(c, stored[c], Named("stop_times", row, FileColumn["stop_times"][c]))
  <2>1. Kept("stop_times") = {Header["stop_times"][n] : n \in 1 .. 12}
    BY DEF Kept, FileColumn, ToSet, Header, StopTimesHeader
  <2>2. \A n \in 1 .. 12 :
           SaysTheSame(Header["stop_times"][n], stored[Header["stop_times"][n]], row[n])
    BY <1>1, <1>2, StopTimesStored DEF Header, StopTimesHeader
  <2> QED
    BY <1>3, <2>1, <2>2
<1> QED
  BY <1>4 DEF RowSaysTheFile, stored

(* A row of routes, its url aside.                                         *)
LEMMA RoutesSay ==
    ASSUME NEW row, ~LoadRoutes(row).err
    PROVE  RowSaysTheFile("routes", row, LoadRoutes(row).v, Kept("routes"))
<1> DEFINE fields == [id |-> Ok(row[1]), agency_id |-> Ok(row[2]), short_name |-> Ok(row[3]),
                      long_name |-> Ok(row[4]), type |-> Atoi(row[5]),
                      url |-> IF Atoi(row[5]).err THEN Error ELSE Ok(Format(Atoi(row[5]).v)),
                      color |-> Ok(row[7]), text_color |-> Ok(row[8]),
                      sort_order |-> Atoi(row[9])]
           stored == LoadRoutes(row).v
<1>1. \A k \in DOMAIN fields : ~fields[k].err /\ stored[k] = fields[k].v
  <2>1. LoadRoutes(row) = Parsed(fields)
    BY DEF LoadRoutes
  <2> HIDE DEF fields
  <2> QED
    BY <2>1, ParsedFields
<1> HIDE DEF stored
<1>2. /\ SaysTheSame("id", stored.id, row[1])
      /\ SaysTheSame("agency_id", stored.agency_id, row[2])
      /\ SaysTheSame("short_name", stored.short_name, row[3])
      /\ SaysTheSame("long_name", stored.long_name, row[4])
      /\ SaysTheSame("type", stored.type, row[5])
      /\ SaysTheSame("color", stored.color, row[7])
      /\ SaysTheSame("text_color", stored.text_color, row[8])
      /\ SaysTheSame("sort_order", stored.sort_order, row[9])
  BY <1>1, ParsersSayTheSame DEF NumberColumns, TimeColumns, Ok
<1>3. /\ Named("routes", row, "route_id") = row[1]
      /\ Named("routes", row, "agency_id") = row[2]
      /\ Named("routes", row, "route_short_name") = row[3]
      /\ Named("routes", row, "route_long_name") = row[4]
      /\ Named("routes", row, "route_type") = row[5]
      /\ Named("routes", row, "route_color") = row[7]
      /\ Named("routes", row, "route_text_color") = row[8]
      /\ Named("routes", row, "route_sort_order") = row[9]
  BY NamedColumns DEF Header, RoutesHeader
<1>4. \A c \in Kept("routes") :
         SaysTheSame(c, stored[c], Named("routes", row, FileColumn["routes"][c]))
  BY <1>2, <1>3 DEF Kept, FileColumn
<1> QED
  BY <1>4 DEF RowSaysTheFile, stored

(* The cells of a row, whatever its file: if the callback takes the row,   *)
(* what it gives to COPY says the same as the columns of those names.      *)
LEMMA RowsSay ==
    ASSUME NEW c \in CSVs, c.file # "services", NEW n \in DOMAIN c.rows,
           ~Loaded(c.file, c.rows[n]).err
    PROVE  RowSaysTheFile(c.file, c.rows[n], Loaded(c.file, c.rows[n]).v, Kept(c.file))
<1> DEFINE row == c.rows[n]
<1>1. /\ c.file \in DOMAIN Header
      /\ c.file = "stop_times" =>
            \A i \in {2, 3} : LET t == ParseDuration(row[i])
                              IN  t.err \/ t.v = Nil \/ t.v \div 3600 <= MaxNumber
  BY CSVsAssumption
<1> HIDE DEF row
<1>2. CASE c.file = "calendar_dates"
  BY <1>2, CalendarDatesSay DEF Loaded, row
<1>3. CASE c.file = "routes"
  BY <1>3, RoutesSay DEF Loaded, row
<1>4. CASE c.file = "shapes"
  BY <1>4, ShapesSay DEF Loaded, row
<1>5. CASE c.file = "stops"
  BY <1>5, StopsSay DEF Loaded, row
<1>6. CASE c.file = "stop_times"
  BY <1>1, <1>6, StopTimesSay DEF Loaded, row
<1>7. CASE c.file = "trips"
  BY <1>7, TripsSay DEF Loaded, row
<1>8. DOMAIN Header = {"calendar_dates", "services", "routes", "shapes", "stops", "stop_times",
                       "trips"}
  BY DEF Header
<1> QED
  BY <1>1, <1>2, <1>3, <1>4, <1>5, <1>6, <1>7, <1>8

(* The services of one row more.                                           *)
LEMMA OneMoreService ==
    ASSUME NEW c, NEW n \in Nat, n > 0
    PROVE  Services(c, n + 1) = Services(c, n) \cup {c.rows[n + 1][1]}
<1>1. 2 .. (n + 1) = (2 .. n) \cup {n + 1}
  OBVIOUS
<1> QED
  BY <1>1 DEF Services

(* A row that COPY takes is one more of the rows that were read, or one    *)
(* more of the services that were met.                                     *)
LEMMA CopiedGrows ==
    ASSUME BulkReplaceInv, CopyRow
    PROVE  /\ copied' \in Seq(Cells(csv))
           /\ CopiedSays(csv, copied', count', Kept(csv.file))
           /\ csv.file = "services" => ids' = CopiedIds(copied')
<1> DEFINE v == Loaded(csv.file, Row).v
<1>1. /\ csv \in CSVs /\ csv' = csv /\ count \in Nat \ {0} /\ count + 1 \in DOMAIN csv.rows
      /\ count' = count + 1 /\ copied' = Append(copied, v) /\ load = "reading"
      /\ CopiedSays(csv, copied, count, Kept(csv.file))
      /\ ~Loaded(csv.file, csv.rows[count + 1]).err
  <2>1. csv.rows \in Seq(Seq(Texts))
    BY CSVsAssumption DEF BulkReplaceInv
  <2>2. load = "reading"
    BY DEF CopyRow, Reads
  <2> QED
    BY <2>1, <2>2 DEF BulkReplaceInv, CopyRow, Reads, Row
<1>2. copied \in Seq(Cells(csv)) /\ v \in Cells(csv)
  BY <1>1 DEF BulkReplaceInv, ToSet, Row, Cells
<1>3. /\ copied' \in Seq(Cells(csv)) /\ Len(copied) \in Nat /\ Len(copied') = Len(copied) + 1
      /\ DOMAIN copied = 1 .. Len(copied) /\ DOMAIN copied' = 1 .. (Len(copied) + 1)
      /\ \A k \in 1 .. Len(copied) : copied'[k] = copied[k]
      /\ copied'[Len(copied) + 1] = v
  <2> HIDE DEF v
  <2> QED
    BY <1>1, <1>2
<1>4. CASE csv.file = "services"
  <2>1. v.id = csv.rows[count + 1][1] /\ v.id \notin ids /\ ids' = ids \cup {v.id}
    BY <1>4 DEF CopyRow, Known, Loaded, LoadServices, Ok, Row
  <2> HIDE DEF v
  <2>2. /\ ids = CopiedIds(copied) /\ ids = Services(csv, count)
        /\ \A k, l \in DOMAIN copied : copied[k].id = copied[l].id => k = l
    BY <1>1, <1>4 DEF BulkReplaceInv, CopiedSays
  <2>3. CopiedIds(copied') = ids \cup {v.id}
    BY <1>3, <2>2 DEF CopiedIds
  <2>4. Services(csv, count') = ids \cup {v.id}
    BY <1>1, <2>1, <2>2, OneMoreService
  <2>5. \A k, l \in DOMAIN copied' : copied'[k].id = copied'[l].id => k = l
    BY <1>3, <2>1, <2>2 DEF CopiedIds
  <2> QED
    BY <1>1, <1>3, <1>4, <2>1, <2>3, <2>4, <2>5 DEF CopiedSays
<1>5. CASE csv.file # "services"
  <2>1. /\ DOMAIN copied = 1 .. count - 1
        /\ \A k \in DOMAIN copied :
              RowSaysTheFile(csv.file, csv.rows[k + 1], copied[k], Kept(csv.file))
    BY <1>1, <1>5 DEF CopiedSays
  <2>2. RowSaysTheFile(csv.file, csv.rows[count + 1], v, Kept(csv.file))
    BY <1>1, <1>5, RowsSay DEF Row
  <2> HIDE DEF v
  <2>3. Len(copied) = count - 1
    BY <1>1, <1>3, <2>1
  <2>4. \A k \in DOMAIN copied' :
           RowSaysTheFile(csv.file, csv.rows[k + 1], copied'[k], Kept(csv.file))
    BY <1>1, <1>3, <2>1, <2>2, <2>3
  <2>5. DOMAIN copied' = 1 .. count' - 1
    BY <1>1, <1>3, <2>3
  <2> QED
    BY <1>1, <1>3, <1>5, <2>4, <2>5 DEF CopiedSays
<1> QED
  BY <1>4, <1>5

(* What is passed over says nothing: the header, and the services that     *)
(* were met before.                                                        *)
LEMMA SkippedSayNothing ==
    ASSUME BulkReplaceInv, SkipHeader \/ SkipService
    PROVE  CopiedSays(csv, copied', count', Kept(csv.file))
<1>1. /\ csv' = csv /\ copied' = copied /\ count' = count + 1 /\ count \in Nat
      /\ CopiedSays(csv, copied, count, Kept(csv.file)) /\ load = "reading"
  <2>1. load = "reading"
    BY DEF SkipHeader, SkipService, Reads
  <2>2. csv.rows \in Seq(Seq(Texts))
    BY CSVsAssumption DEF BulkReplaceInv
  <2> QED
    BY <2>1, <2>2 DEF BulkReplaceInv, SkipHeader, SkipService, Reads
<1>2. CASE csv.file = "services"
  <2>1. Services(csv, count') = Services(csv, count)
    <3>1. CASE SkipHeader
      BY <1>1, <3>1 DEF SkipHeader, Services
    <3>2. CASE SkipService
      <4>1. csv.rows[count + 1][1] \in Services(csv, count) /\ count > 0
        BY <1>1, <1>2, <3>2 DEF SkipService, Known, Row, BulkReplaceInv, CopiedSays
      <4> QED
        BY <1>1, <4>1, OneMoreService
    <3> QED
      BY <3>1, <3>2
  <2> QED
    BY <1>1, <1>2, <2>1 DEF CopiedSays
<1>3. CASE csv.file # "services"
  <2>1. count = 0
    BY <1>3 DEF SkipHeader, SkipService, Known
  <2>2. DOMAIN copied = 1 .. count' - 1
    BY <1>1, <1>3, <2>1 DEF CopiedSays
  <2> QED
    BY <1>1, <1>3, <2>2 DEF CopiedSays
<1> QED
  BY <1>2, <1>3

(* The inductive invariant of a load.                                      *)
THEOREM LoadInvariance == BulkReplaceSpec => []BulkReplaceInv
<1>1. BulkReplaceInit => BulkReplaceInv
  <2> SUFFICES ASSUME BulkReplaceInit
               PROVE  BulkReplaceInv
    OBVIOUS
  <2>1. csv \in CSVs /\ csv.rows \in Seq(Seq(Texts)) /\ count = 0 /\ copied = << >> /\ ids = {}
    BY CSVsAssumption DEF BulkReplaceInit
  <2>2. CopiedSays(csv, copied, count, Kept(csv.file)) /\ ids = CopiedIds(copied)
    <3>1. DOMAIN << >> = {} /\ DOMAIN << >> = 1 .. (0 - 1)
      OBVIOUS
    <3>2. CopiedIds(<< >>) = {}
      BY <3>1 DEF CopiedIds
    <3>3. Services(csv, 0) = {}
      BY DEF Services
    <3> QED
      BY <2>1, <3>1, <3>2, <3>3 DEF CopiedSays
  <2>3. << >> \in Seq(Cells(csv))
    OBVIOUS
  <2>4. 0 \in 0 .. Len(csv.rows)
    BY <2>1
  <2> QED
    BY <2>1, <2>2, <2>3, <2>4 DEF BulkReplaceInv, BulkReplaceInit
<1>2. BulkReplaceInv /\ [BulkReplace]_loadVars => BulkReplaceInv'
  <2> SUFFICES ASSUME BulkReplaceInv, [BulkReplace]_loadVars
               PROVE  BulkReplaceInv'
    OBVIOUS
  <2>1. csv' = csv
    BY DEF BulkReplace, SkipHeader, SkipService, CopyRow, RowFails, CopyFails, EndOfFile, Reads,
           loadVars
  <2>2. count' \in 0 .. Len(csv.rows)
    <3>1. csv.rows \in Seq(Seq(Texts))
      BY CSVsAssumption DEF BulkReplaceInv
    <3> QED
      BY <3>1 DEF BulkReplaceInv, BulkReplace, SkipHeader, SkipService, CopyRow, RowFails,
                  CopyFails, EndOfFile, Reads, loadVars
  <2>3. CASE SkipHeader \/ SkipService
    BY <2>1, <2>2, <2>3, SkippedSayNothing
       DEF BulkReplaceInv, SkipHeader, SkipService, Reads
  <2>4. CASE CopyRow
    BY <2>1, <2>2, <2>4, CopiedGrows DEF BulkReplaceInv, CopyRow, Reads
  <2>5. CASE RowFails \/ CopyFails
    BY <2>1, <2>2, <2>5 DEF BulkReplaceInv, RowFails, CopyFails, Reads
  <2>6. CASE EndOfFile
    BY <2>1, <2>2, <2>6 DEF BulkReplaceInv, EndOfFile, CopiedSays
  <2>7. CASE UNCHANGED loadVars
    BY <2>7 DEF BulkReplaceInv, CopiedSays, loadVars
  <2> QED
    BY <2>3, <2>4, <2>5, <2>6, <2>7 DEF BulkReplace
<1> QED
  BY <1>1, <1>2, PTL DEF BulkReplaceSpec

(* A file that loads is in the table as the columns of its header say, for *)
(* every file, the url of a route aside.                                   *)
THEOREM FilesAreLoaded == BulkReplaceSpec => []FilesSurvive
<1>1. BulkReplaceInv => FilesSurvive
  BY DEF BulkReplaceInv, FilesSurvive
<1> QED
  BY <1>1, LoadInvariance, PTL
-----------------------------------------------------------------------------
(***************************************************************************)
(* RouteLines, for every network of shapes and every list of requests      *)
(***************************************************************************)

(* A line to which a point was added has it, and the other lines are the   *)
(* same.                                                                   *)
LEMMA ExtendedLines ==
    ASSUME NEW S, NEW lines \in Seq(S), lines # << >>, NEW point,
           [lines[Len(lines)] EXCEPT !.points = Append(@, point)] \in S
    PROVE  /\ Extended(lines, point) \in Seq(S)
           /\ Len(Extended(lines, point)) = Len(lines)
           /\ DOMAIN Extended(lines, point) = DOMAIN lines
           /\ Len(lines) \in DOMAIN lines
           /\ \A k \in DOMAIN lines : k # Len(lines) => Extended(lines, point)[k] = lines[k]
           /\ Extended(lines, point)[Len(lines)]
                = [lines[Len(lines)] EXCEPT !.points = Append(@, point)]
<1>1. Len(lines) \in 1 .. Len(lines) /\ DOMAIN lines = 1 .. Len(lines) /\ Len(lines) \in Nat
  OBVIOUS
<1>2. lines = [k \in 1 .. Len(lines) |-> lines[k]] /\ \A k \in 1 .. Len(lines) : lines[k] \in S
  OBVIOUS
<1> DEFINE new == [lines[Len(lines)] EXCEPT !.points = Append(@, point)]
           more == [lines EXCEPT ![Len(lines)] = new]
<1>3. Extended(lines, point) = more
  BY DEF Extended
<1> HIDE DEF new
<1>4. new \in S
  BY DEF new
<1>5. more \in [1 .. Len(lines) -> S]
  BY <1>1, <1>2, <1>4
<1>6. more \in Seq(S) /\ Len(more) = Len(lines)
  BY <1>1, <1>5
<1>7. DOMAIN more = DOMAIN lines /\ more[Len(lines)] = new
      /\ \A k \in DOMAIN lines : k # Len(lines) => more[k] = lines[k]
  BY <1>1, <1>2
<1> QED
  BY <1>1, <1>3, <1>6, <1>7 DEF new

(* A point that is added to a line adds the piece from its last point.     *)
LEMMA AppendedPiece ==
    ASSUME NEW S, NEW points \in Seq(S), points # << >>, NEW point \in S
    PROVE  Pieces(Append(points, point)) = Pieces(points) \cup {<<Last(points), point>>}
<1> DEFINE more == Append(points, point)
<1>1. Len(points) \in Nat /\ Len(points) >= 1 /\ Len(more) = Len(points) + 1
  OBVIOUS
<1>2. \A n \in 1 .. Len(points) : more[n] = points[n]
  OBVIOUS
<1>3. more[Len(points) + 1] = point /\ Last(points) = points[Len(points)]
  BY DEF Last
<1> HIDE DEF more
<1>4. ASSUME NEW s \in Pieces(more)
      PROVE  s \in Pieces(points) \cup {<<Last(points), point>>}
  <2>1. PICK n \in 1 .. Len(more) - 1 : s = <<more[n], more[n + 1]>>
    BY DEF Pieces
  <2>2. CASE n < Len(points)
    <3>1. n \in 1 .. Len(points) - 1 /\ s = <<points[n], points[n + 1]>>
      BY <1>1, <1>2, <2>1, <2>2
    <3> QED
      BY <3>1 DEF Pieces
  <2>3. CASE n = Len(points)
    BY <1>1, <1>2, <1>3, <2>1, <2>3
  <2> QED
    BY <1>1, <2>1, <2>2, <2>3
<1>5. ASSUME NEW s \in Pieces(points)
      PROVE  s \in Pieces(more)
  <2>1. PICK n \in 1 .. Len(points) - 1 : s = <<points[n], points[n + 1]>>
    BY DEF Pieces
  <2>2. n \in 1 .. Len(more) - 1 /\ s = <<more[n], more[n + 1]>>
    BY <1>1, <1>2, <2>1
  <2> QED
    BY <2>2 DEF Pieces
<1>6. <<Last(points), point>> \in Pieces(more)
  <2>1. Len(points) \in 1 .. Len(more) - 1
        /\ <<Last(points), point>> = <<more[Len(points)], more[Len(points) + 1]>>
    BY <1>1, <1>2, <1>3
  <2> QED
    BY <2>1 DEF Pieces
<1> QED
  BY <1>4, <1>5, <1>6 DEF more

(* The pieces of a shape to its next point.                                *)
LEMMA NextPiece ==
    ASSUME NEW points, NEW n \in Nat, n >= 1
    PROVE  PiecesTo(points, n + 1) = PiecesTo(points, n) \cup {<<points[n], points[n + 1]>>}
<1>1. 1 .. (n + 1) - 1 = (1 .. n - 1) \cup {n}
  OBVIOUS
<1> QED
  BY <1>1 DEF PiecesTo

(* A row is a point of a use of its shape, and the other points of it are  *)
(* rows.                                                                   *)
LEMMA RowFacts ==
    ASSUME NEW net \in Networks, NEW req, NEW row \in Rows(net, req)
    PROVE  /\ row.use \in Uses(net, req)
           /\ row.use.trip \in Nat /\ row.use.id \in Nat /\ row.use.id \in DOMAIN net.shapes
           /\ row.use.route \in RouteNames(net)
           /\ row.use.direction \in {0, 1, Nil}
           /\ net.shapes[row.use.id] \in Seq(Points)
           /\ row.n \in 1 .. Len(net.shapes[row.use.id])
           /\ row.n \in Nat
           /\ row = [use |-> row.use, n |-> row.n]
           /\ \A n \in 1 .. Len(net.shapes[row.use.id]) :
                 [use |-> row.use, n |-> n] \in Rows(net, req)
<1>0. PICK u \in Uses(net, req) : \E n \in DOMAIN net.shapes[u.id] : row = [use |-> u, n |-> n]
  BY DEF Rows
<1>1. PICK n \in DOMAIN net.shapes[u.id] : row = [use |-> u, n |-> n]
  BY <1>0
<1>2. PICK x \in Selected(net, req) : u = Use(net, req, x)
  BY <1>1 DEF Uses
<1>3. x \in DOMAIN net.trips /\ net.trips[x].shape \in DOMAIN net.shapes
  BY <1>2 DEF Selected
<1>4. x \in Nat /\ net.trips[x].direction \in {0, 1, Nil}
  BY <1>3, NetworksAssumption
<1>5. u.trip \in Nat /\ u.id = net.trips[x].shape /\ u.route = net.trips[x].route
      /\ u.direction = net.trips[x].direction
  BY <1>2, <1>4 DEF Use
<1>6. u.id \in Nat /\ net.shapes[u.id] \in Seq(Points)
  BY <1>3, <1>5, NetworksAssumption
<1>7. DOMAIN net.shapes[u.id] = 1 .. Len(net.shapes[u.id]) /\ Len(net.shapes[u.id]) \in Nat
  BY <1>6
<1>8. ASSUME NEW m \in 1 .. Len(net.shapes[u.id])
      PROVE  [use |-> u, n |-> m] \in Rows(net, req)
  <2>1. [use |-> u, n |-> m] \in {[use |-> u, n |-> i] : i \in DOMAIN net.shapes[u.id]}
    BY <1>7
  <2>2. {[use |-> u, n |-> i] : i \in DOMAIN net.shapes[u.id]}
          \in {{[use |-> v, n |-> i] : i \in DOMAIN net.shapes[v.id]} : v \in Uses(net, req)}
    OBVIOUS
  <2> QED
    BY <2>1, <2>2, Zenon DEF Rows
<1>9. row.use = u /\ row.n = n
  BY <1>1
<1>10. u.route \in RouteNames(net)
  BY <1>3, <1>5 DEF RouteNames
<1>11. n \in Nat
  BY <1>1, <1>7
<1> QED
  BY <1>1, <1>3, <1>4, <1>5, <1>6, <1>7, <1>8, <1>9, <1>10, <1>11

(* FetchTripShapes makes one use of a trip.                                *)
LEMMA TripUse ==
    ASSUME NEW net \in Networks, NEW req, req.kind = "trips",
           NEW u \in Uses(net, req), NEW v \in Uses(net, req), u.trip = v.trip
    PROVE  u = v
<1>1. PICK x \in Selected(net, req) : u = Use(net, req, x)
  BY DEF Uses
<1>2. PICK y \in Selected(net, req) : v = Use(net, req, y)
  BY DEF Uses
<1>3. x = y
  BY <1>1, <1>2 DEF Use
<1> QED
  BY <1>1, <1>2, <1>3

(* Rows that ORDER BY leaves equal are the same point of the same line.    *)
LEMMA Equals ==
    ASSUME NEW net \in Networks, NEW req, NEW a \in Rows(net, req), NEW b \in Rows(net, req),
           ~Before(a, b)
    PROVE  \/ b.use.trip < a.use.trip
           \/ b.use.trip = a.use.trip /\ b.use.id < a.use.id
           \/ b.use.trip = a.use.trip /\ b.use.id = a.use.id /\ b.n <= a.n
<1>1. /\ a.use.trip \in Nat /\ a.use.id \in Nat /\ a.n \in Nat
      /\ b.use.trip \in Nat /\ b.use.id \in Nat /\ b.n \in Nat
  BY RowFacts
<1> QED
  BY <1>1 DEF Before

(* A line to which the row that was just read does not belong is read as   *)
(* before.                                                                 *)
LEMMA OtherLine ==
    ASSUME NEW net, NEW req, NEW read, NEW row, NEW line,
           LineIsRead(net, req, read, line), ~OfLine(line, row)
    PROVE  LineIsRead(net, req, read \cup {row}, line)
BY DEF LineIsRead

(* The first row of a line begins it.                                      *)
LEMMA FirstRow ==
    ASSUME NEW net \in Networks, NEW req, NEW read, NEW row \in Rows(net, req),
           row.n = 1, row.use.direction # Nil,
           \A other \in read : ~OfLine(NewLine(net, row), other)
    PROVE  /\ NewLine(net, row) \in FetchedLines(net)
           /\ OfLine(NewLine(net, row), row)
           /\ LineIsRead(net, req, read \cup {row}, NewLine(net, row))
<1> DEFINE line == NewLine(net, row)
           whole == net.shapes[row.use.id]
<1>1. /\ line.trip = row.use.trip /\ line.id = row.use.id /\ line.route = row.use.route
      /\ line.direction = row.use.direction /\ line.color = net.colors[row.use.route]
      /\ line.points = <<whole[1]>>
      /\ line = [id |-> line.id, trip |-> line.trip, route |-> line.route,
                  direction |-> line.direction, color |-> line.color, points |-> line.points]
  BY DEF NewLine, Point
<1>2. /\ row.use \in Uses(net, req) /\ row.use.trip \in Nat /\ row.use.id \in Nat
      /\ row.use.route \in RouteNames(net) /\ row.use.direction \in {0, 1}
      /\ whole \in Seq(Points) /\ 1 \in 1 .. Len(whole)
  BY RowFacts
<1>3. whole[1] \in Points
  BY <1>2
<1>4. line.points \in Seq(Points) /\ line.points # << >>
      /\ Len(line.points) = 1 /\ line.points[1] = whole[1] /\ Last(line.points) = whole[1]
  BY <1>1, <1>3 DEF Last
<1>5. line.color \in Colors(net)
  BY <1>1, <1>2 DEF Colors
<1>6. UseOf(line) = row.use
  <2>1. PICK x \in Selected(net, req) : row.use = Use(net, req, x)
    BY <1>2 DEF Uses
  <2> QED
    BY <1>1, <2>1 DEF Use, UseOf
<1>7. OfLine(line, row)
  BY <1>1 DEF OfLine
<1> HIDE DEF line
<1>8. Pieces(line.points) = {} /\ PiecesTo(whole, 1) = {}
  BY <1>4 DEF Pieces, PiecesTo
<1>9. ReachesPoint(line.points, whole, 1, req.kind)
  <2>1. \A i \in 1 .. 1 : line.points[i] = whole[i]
    BY <1>4
  <2>2. Moving(Pieces(line.points)) = Moving(PiecesTo(whole, 1))
    BY <1>8, Zenon
  <2> QED
    BY <1>4, <2>1, <2>2, Zenon DEF ReachesPoint
<1>10. \A other \in read \cup {row} : OfLine(line, other) => other.n <= row.n
  BY DEF line
<1>11. line \in FetchedLines(net)
  BY <1>1, <1>2, <1>4, <1>5 DEF FetchedLines
<1>12. LineIsRead(net, req, read \cup {row}, line)
  BY <1>1, <1>2, <1>4, <1>6, <1>7, <1>9, <1>10 DEF LineIsRead
<1> QED
  BY <1>7, <1>11, <1>12 DEF line

(* A row that continues a line is its last point again or the next.        *)
LEMMA NextRow ==
    ASSUME NEW net \in Networks, NEW req, NEW read \in SUBSET Rows(net, req),
           NEW row \in Rows(net, req), row \notin read,
           NEW line \in FetchedLines(net), LineIsRead(net, req, read, line),
           OfLine(line, row),
           \A other \in read : ~Before(row, other),
           \A other \in Rows(net, req) \ read : ~Before(other, row)
    PROVE  LET new == [line EXCEPT !.points = Append(@, Point(net, row))]
           IN  /\ new \in FetchedLines(net)
               /\ new.trip = line.trip /\ new.id = line.id
               /\ LineIsRead(net, req, read \cup {row}, new)
<1> DEFINE point == Point(net, row)
           new == [line EXCEPT !.points = Append(@, point)]
           whole == net.shapes[line.id]
<1>1. /\ line.id = row.use.id /\ line.trip = row.use.trip
      /\ row.use \in Uses(net, req) /\ row.use.trip \in Nat /\ row.use.id \in Nat
      /\ whole \in Seq(Points) /\ row.n \in 1 .. Len(whole) /\ row.n \in Nat
      /\ row = [use |-> row.use, n |-> row.n]
  BY RowFacts DEF OfLine
<1>2. point = whole[row.n] /\ point \in Points
  BY <1>1 DEF Point
<1>3. PICK last \in read : /\ OfLine(line, last)
                           /\ \A other \in read : OfLine(line, other) => other.n <= last.n
                           /\ ReachesPoint(line.points, whole, last.n, req.kind)
  BY DEF LineIsRead
<1>4. /\ last.use.id = line.id /\ last.use.trip = line.trip
      /\ last \in Rows(net, req)
      /\ last.use \in Uses(net, req) /\ last.n \in 1 .. Len(whole) /\ last.n \in Nat
      /\ last = [use |-> last.use, n |-> last.n]
  BY <1>3, RowFacts DEF OfLine
<1>5. row.n >= last.n
  BY <1>1, <1>3, <1>4 DEF Before
<1>6. row.n <= last.n + 1
  <2> SUFFICES ASSUME row.n > last.n + 1
               PROVE  FALSE
    BY <1>1, <1>4
  <2> DEFINE skipped == [use |-> row.use, n |-> last.n + 1]
  <2>1. skipped \in Rows(net, req)
    BY <1>1, <1>4, RowFacts
  <2>2. Before(skipped, row)
    BY <1>1, <1>4 DEF Before
  <2>3. skipped \in read
    BY <2>1, <2>2
  <2>4. OfLine(line, skipped)
    BY <1>1 DEF OfLine
  <2> QED
    BY <1>3, <1>4, <2>3, <2>4
<1>7. line.points \in Seq(Points) /\ line.points # << >> /\ Last(line.points) = whole[last.n]
      /\ Moving(Pieces(line.points)) = Moving(PiecesTo(whole, last.n))
  BY <1>3 DEF FetchedLines, LineIsRead, ReachesPoint
<1> DEFINE points == Append(line.points, point)
<1>8. points \in Seq(Points) /\ points # << >> /\ Last(points) = whole[row.n]
      /\ Pieces(points) = Pieces(line.points) \cup {<<whole[last.n], point>>}
  <2>1. points \in Seq(Points) /\ Len(points) = Len(line.points) + 1
        /\ points[Len(line.points) + 1] = point /\ Len(line.points) \in Nat
    BY <1>2, <1>7
  <2>2. points # << >> /\ Last(points) = point
    BY <2>1 DEF Last
  <2> QED
    BY <1>2, <1>7, <2>1, <2>2, AppendedPiece
<1>9. ReachesPoint(points, whole, row.n, req.kind)
  <2>1. CASE row.n = last.n
    <3>1. Moving(Pieces(points)) = Moving(Pieces(line.points))
      BY <1>2, <1>8, <2>1 DEF Moving
    <3>2. req.kind # "trips"
      <4> SUFFICES ASSUME req.kind = "trips"
                   PROVE  FALSE
        OBVIOUS
      <4>1. row.use = last.use
        BY <1>1, <1>4, TripUse
      <4> QED
        BY <1>1, <1>4, <2>1, <4>1
    <3> QED
      BY <1>7, <1>8, <2>1, <3>1, <3>2 DEF ReachesPoint
  <2>2. CASE row.n = last.n + 1
    <3>1. PiecesTo(whole, row.n) = PiecesTo(whole, last.n) \cup {<<whole[last.n], point>>}
      BY <1>2, <1>4, <2>2, NextPiece
    <3>2. Moving(Pieces(points)) = Moving(PiecesTo(whole, row.n))
      BY <1>7, <1>8, <3>1 DEF Moving
    <3>3. ASSUME req.kind = "trips"
          PROVE  Len(points) = row.n /\ \A i \in 1 .. row.n : points[i] = whole[i]
      <4>1. Len(line.points) = last.n /\ \A i \in 1 .. last.n : line.points[i] = whole[i]
        BY <1>3, <3>3 DEF ReachesPoint
      <4> QED
        BY <1>2, <1>4, <1>7, <2>2, <4>1
    <3> HIDE DEF points
    <3> QED
      BY <1>8, <3>2, <3>3 DEF ReachesPoint
  <2> QED
    BY <1>1, <1>4, <1>5, <1>6, <2>1, <2>2
<1> HIDE DEF point
<1>10. /\ new.trip = line.trip /\ new.id = line.id /\ new.route = line.route
       /\ new.direction = line.direction /\ new.color = line.color
       /\ new.points = points
       /\ new \in FetchedLines(net)
  BY <1>8 DEF FetchedLines
<1> HIDE DEF new, points
<1>11. UseOf(new) \in Uses(net, req) /\ new.color = net.colors[new.route]
  BY <1>10 DEF LineIsRead, UseOf
<1>12. OfLine(new, row)
       /\ \A other \in read \cup {row} : OfLine(new, other) => other.n <= row.n
  <2>1. \A other : OfLine(new, other) <=> OfLine(line, other)
    BY <1>10 DEF OfLine
  <2>2. ASSUME NEW other \in read, OfLine(line, other)
        PROVE  other.n <= row.n
    <3>1. other.n \in Nat /\ other.n <= last.n
      BY <1>3, <2>2, RowFacts
    <3> QED
      BY <1>1, <1>4, <1>5, <3>1
  <2> QED
    BY <1>1, <2>1, <2>2
<1>13. LineIsRead(net, req, read \cup {row}, new)
  BY <1>8, <1>9, <1>10, <1>11, <1>12 DEF LineIsRead
<1> QED
  BY <1>10, <1>13 DEF new, point

(* Before the first row nothing is read.                                   *)
LEMMA LinesBegin == LinesInit => LinesInv
<1> SUFFICES ASSUME LinesInit
             PROVE  LinesInv
  OBVIOUS
<1> USE DEF LinesInit
<1>1. LinesTypeOK
  <2>1. fetched \in Seq(FetchedLines(tables)) /\ drawn \in Seq(DrawnLines(tables))
    OBVIOUS
  <2>2. unread \subseteq Rows(tables, request) /\ left \subseteq DOMAIN fetched
    OBVIOUS
  <2>3. open \in BOOLEAN
    BY Zenon
  <2> QED
    BY <2>1, <2>2, <2>3 DEF LinesTypeOK
<1>2. RowsRead = {}
  BY DEF RowsRead
<1>3. LinesAreRead /\ ReadInOrder
  BY <1>2 DEF LinesAreRead, ReadInOrder
<1> QED
  BY <1>1, <1>3 DEF LinesInv, Progress, FailsForReason

(* Ask reads no row.                                                       *)
LEMMA AskKeeps == LinesInv /\ Ask => LinesInv'
<1> SUFFICES ASSUME LinesInv, Ask
             PROVE  LinesInv'
  OBVIOUS
<1> USE DEF Ask, cutting
<1>1. LinesTypeOK'
  BY DEF LinesInv, LinesTypeOK
<1>2. Progress' /\ FailsForReason'
  BY DEF LinesInv, Progress, FailsForReason
<1>3. LinesAreRead' /\ ReadInOrder'
  BY DEF LinesInv, LinesAreRead, ReadInOrder, RowsRead
<1>4. stage' \notin {"cut", "done"}
  OBVIOUS
<1> QED
  BY <1>1, <1>2, <1>3, <1>4 DEF LinesInv

(* A row that can be scanned is the next point of the last line or begins  *)
(* one.                                                                    *)
LEMMA ScanKeepsLines ==
    ASSUME LinesTypeOK, ReadInOrder, LinesAreRead,
           NEW row \in unread, \A other \in unread : ~Before(other, row),
           Scannable(tables, request, row),
           tables' = tables, request' = request, unread' = unread \ {row},
           fetched' = IF Continues(fetched, row) THEN Extended(fetched, Point(tables, row))
                      ELSE Append(fetched, NewLine(tables, row))
    PROVE  fetched' \in Seq(FetchedLines(tables)) /\ LinesAreRead'
<1> DEFINE last == Len(fetched)
           Earlier(k, l) ==
               \/ fetched[k].trip < fetched[l].trip
               \/ fetched[k].trip = fetched[l].trip /\ fetched[k].id < fetched[l].id
<1>1. /\ tables \in Networks /\ row \in Rows(tables, request) /\ row \notin RowsRead
      /\ RowsRead \in SUBSET Rows(tables, request)
      /\ unread = Rows(tables, request) \ RowsRead
      /\ RowsRead' = RowsRead \cup {row}
  BY DEF LinesTypeOK, RowsRead
<1>2. fetched \in Seq(FetchedLines(tables)) /\ last \in Nat /\ DOMAIN fetched = 1 .. last
  BY DEF LinesTypeOK
<1>3. ASSUME NEW k \in DOMAIN fetched
      PROVE  /\ fetched[k] \in FetchedLines(tables)
             /\ fetched[k].trip \in Nat /\ fetched[k].id \in Nat
             /\ LineIsRead(tables, request, RowsRead, fetched[k])
             /\ \E other \in RowsRead : OfLine(fetched[k], other)
  <2>1. fetched[k] \in FetchedLines(tables)
    BY <1>2
  <2>2. LineIsRead(tables, request, RowsRead, fetched[k])
    BY DEF LinesAreRead
  <2>3. \E other \in RowsRead : OfLine(fetched[k], other)
    BY <2>2 DEF LineIsRead
  <2> QED
    BY <2>1, <2>2, <2>3 DEF FetchedLines
<1>4. \A k, l \in DOMAIN fetched : k < l => Earlier(k, l)
  BY DEF LinesAreRead
<1>5. /\ row.use.trip \in Nat /\ row.use.id \in Nat /\ row.n \in Nat /\ row.n >= 1
      /\ row.use.direction # Nil
  BY <1>1, RowFacts DEF Scannable
<1>6. \A other \in RowsRead : ~Before(row, other)
  BY <1>1 DEF ReadInOrder
<1>7. CASE Continues(fetched, row)
  <2> DEFINE line == fetched[last]
             new == [line EXCEPT !.points = Append(@, Point(tables, row))]
  <2>1. fetched # << >> /\ last \in DOMAIN fetched /\ OfLine(line, row)
    BY <1>2, <1>7 DEF Continues, Last, OfLine
  <2>2. /\ new \in FetchedLines(tables)
        /\ new.trip = line.trip /\ new.id = line.id
        /\ LineIsRead(tables, request, RowsRead \cup {row}, new)
    BY <1>1, <1>3, <1>6, <2>1, NextRow
  <2>3. /\ fetched' \in Seq(FetchedLines(tables))
        /\ DOMAIN fetched' = DOMAIN fetched
        /\ \A k \in DOMAIN fetched : k # last => fetched'[k] = fetched[k]
        /\ fetched'[last] = new
    BY <1>2, <1>7, <2>1, <2>2, ExtendedLines
  <2> HIDE DEF new
  <2>4. \A k \in DOMAIN fetched :
            fetched'[k].trip = fetched[k].trip /\ fetched'[k].id = fetched[k].id
    BY <2>2, <2>3
  <2>5. ASSUME NEW k \in DOMAIN fetched
        PROVE  LineIsRead(tables, request, RowsRead \cup {row}, fetched'[k])
    <3>1. CASE k = last
      BY <2>2, <2>3, <3>1
    <3>2. CASE k # last
      <4>1. Earlier(k, last)
        BY <1>2, <1>4, <2>1, <3>2
      <4>2. ~OfLine(fetched[k], row)
        BY <1>3, <1>5, <2>1, <4>1 DEF OfLine
      <4> QED
        BY <1>3, <2>3, <3>2, <4>2, OtherLine
    <3> QED
      BY <3>1, <3>2
  <2>6. ASSUME NEW other \in RowsRead \cup {row}
        PROVE  \E k \in DOMAIN fetched' : OfLine(fetched'[k], other)
    <3>1. \E k \in DOMAIN fetched : OfLine(fetched[k], other)
      BY <2>1, <2>6 DEF LinesAreRead
    <3> QED
      BY <2>3, <2>4, <3>1 DEF OfLine
  <2>7. ASSUME NEW k \in DOMAIN fetched', NEW l \in DOMAIN fetched', k < l
        PROVE  \/ fetched'[k].trip < fetched'[l].trip
               \/ fetched'[k].trip = fetched'[l].trip /\ fetched'[k].id < fetched'[l].id
    BY <1>4, <2>3, <2>4, <2>7
  <2> QED
    BY <1>1, <2>3, <2>5, <2>6, <2>7 DEF LinesAreRead
<1>8. CASE ~Continues(fetched, row)
  <2> DEFINE new == NewLine(tables, row)
  <2>1. ASSUME NEW k \in DOMAIN fetched
        PROVE  \/ fetched[k].trip < row.use.trip
               \/ fetched[k].trip = row.use.trip /\ fetched[k].id < row.use.id
    <3>1. last \in DOMAIN fetched /\ fetched # << >>
      BY <1>2
    <3>2. PICK other \in RowsRead : OfLine(fetched[last], other)
      BY <1>3, <3>1
    <3>3. ~Before(row, other) /\ other \in Rows(tables, request)
      BY <1>1, <1>6
    <3>4. \/ other.use.trip < row.use.trip
          \/ other.use.trip = row.use.trip /\ other.use.id < row.use.id
          \/ other.use.trip = row.use.trip /\ other.use.id = row.use.id
      BY <1>1, <3>3, Equals
    <3>5. ~(fetched[last].trip = row.use.trip /\ fetched[last].id = row.use.id)
      BY <1>8, <3>1 DEF Continues, Last
    <3>6. \/ fetched[last].trip < row.use.trip
          \/ fetched[last].trip = row.use.trip /\ fetched[last].id < row.use.id
      BY <3>2, <3>4, <3>5 DEF OfLine
    <3>7. CASE k = last
      BY <3>6, <3>7
    <3>8. CASE k # last
      <4>1. Earlier(k, last)
        BY <1>2, <1>4, <3>1, <3>8
      <4> QED
        BY <1>3, <1>5, <3>1, <3>6, <4>1
    <3> QED
      BY <3>7, <3>8
  <2>2. \A k \in DOMAIN fetched : ~OfLine(fetched[k], row)
    BY <1>3, <1>5, <2>1 DEF OfLine
  <2>3. ASSUME NEW other \in RowsRead
        PROVE  ~(other.use.trip = row.use.trip /\ other.use.id = row.use.id)
    <3>1. PICK k \in DOMAIN fetched : OfLine(fetched[k], other)
      BY DEF LinesAreRead
    <3> QED
      BY <2>2, <3>1 DEF OfLine
  <2>4. row.n = 1
    <3> SUFFICES ASSUME row.n # 1
                 PROVE  FALSE
      OBVIOUS
    <3> DEFINE skipped == [use |-> row.use, n |-> 1]
    <3>1. skipped \in Rows(tables, request)
      <4>1. 1 \in 1 .. Len(tables.shapes[row.use.id])
        BY <1>1, RowFacts
      <4> QED
        BY <1>1, <4>1, RowFacts
    <3>2. Before(skipped, row)
      BY <1>5 DEF Before
    <3>3. skipped \in RowsRead
      BY <1>1, <3>1, <3>2
    <3> QED
      BY <2>3, <3>3
  <2>5. \A other \in RowsRead : ~OfLine(new, other)
    BY <2>3 DEF OfLine, NewLine
  <2>6. /\ new \in FetchedLines(tables) /\ OfLine(new, row)
        /\ LineIsRead(tables, request, RowsRead \cup {row}, new)
    BY <1>1, <1>5, <2>4, <2>5, FirstRow
  <2> HIDE DEF new
  <2>7. /\ fetched' \in Seq(FetchedLines(tables)) /\ DOMAIN fetched' = 1 .. last + 1
        /\ \A k \in DOMAIN fetched : fetched'[k] = fetched[k]
        /\ fetched'[last + 1] = new
    <3>1. fetched' = Append(fetched, new)
      BY <1>8 DEF new
    <3> QED
      BY <1>2, <2>6, <3>1
  <2>8. ASSUME NEW k \in DOMAIN fetched'
        PROVE  LineIsRead(tables, request, RowsRead \cup {row}, fetched'[k])
    <3>1. CASE k = last + 1
      BY <2>6, <2>7, <3>1
    <3>2. CASE k \in DOMAIN fetched
      BY <1>3, <2>2, <2>7, <3>2, OtherLine
    <3> QED
      BY <1>2, <2>7, <3>1, <3>2
  <2>9. ASSUME NEW other \in RowsRead \cup {row}
        PROVE  \E k \in DOMAIN fetched' : OfLine(fetched'[k], other)
    <3>1. CASE other = row
      BY <1>2, <2>6, <2>7, <3>1
    <3>2. CASE other \in RowsRead
      <4>1. PICK k \in DOMAIN fetched : OfLine(fetched[k], other)
        BY <3>2 DEF LinesAreRead
      <4> QED
        BY <1>2, <2>7, <4>1
    <3> QED
      BY <3>1, <3>2
  <2>10. ASSUME NEW k \in DOMAIN fetched', NEW l \in DOMAIN fetched', k < l
         PROVE  \/ fetched'[k].trip < fetched'[l].trip
                \/ fetched'[k].trip = fetched'[l].trip /\ fetched'[k].id < fetched'[l].id
    <3>1. k \in DOMAIN fetched
      BY <1>2, <2>7, <2>10
    <3>2. CASE l \in DOMAIN fetched
      BY <1>4, <2>7, <2>10, <3>1, <3>2
    <3>3. CASE l = last + 1
      <4>1. new.trip = row.use.trip /\ new.id = row.use.id
        BY <2>6 DEF OfLine
      <4> QED
        BY <2>1, <2>7, <3>1, <3>3, <4>1
    <3> QED
      BY <1>2, <2>7, <3>2, <3>3
  <2> QED
    BY <1>1, <2>7, <2>8, <2>9, <2>10 DEF LinesAreRead
<1> QED
  BY <1>7, <1>8

(* The rows are read one by one, each after all that come before it.       *)
LEMMA ScanKeeps == LinesInv /\ Scan => LinesInv'
<1> SUFFICES ASSUME LinesInv, Scan
             PROVE  LinesInv'
  OBVIOUS
<1>1. /\ stage = "scan" /\ tables' = tables /\ request' = request /\ UNCHANGED cutting
      /\ LinesTypeOK /\ Progress /\ FailsForReason /\ ReadInOrder /\ LinesAreRead
  BY DEF Scan, LinesInv
<1>2. PICK row \in unread :
          /\ \A other \in unread : ~Before(other, row)
          /\ unread' = unread \ {row}
          /\ IF Scannable(tables, request, row)
             THEN /\ fetched' = IF Continues(fetched, row)
                                THEN Extended(fetched, Point(tables, row))
                                ELSE Append(fetched, NewLine(tables, row))
                  /\ UNCHANGED stage
             ELSE /\ stage' = "failed"
                  /\ UNCHANGED fetched
  BY DEF Scan
<1>3. unread' \subseteq Rows(tables, request) /\ row \in Rows(tables, request)
  BY <1>1, <1>2 DEF LinesTypeOK
<1>4. UNCHANGED <<left, shape, at, seen, drawn, open>>
      /\ left = {} /\ shape = 0 /\ seen = {} /\ drawn = << >> /\ ~open
  BY <1>1 DEF cutting, Progress
<1>5. CASE ~Scannable(tables, request, row)
  <2>1. LinesTypeOK'
    BY <1>1, <1>2, <1>3, <1>4, <1>5 DEF LinesTypeOK
  <2>2. Progress' /\ FailsForReason' /\ stage' = "failed"
    BY <1>1, <1>2, <1>3, <1>5 DEF Progress, FailsForReason
  <2> QED
    BY <2>1, <2>2 DEF LinesInv
<1>6. CASE Scannable(tables, request, row)
  <2>1. fetched' \in Seq(FetchedLines(tables)) /\ LinesAreRead'
    BY <1>1, <1>2, <1>6, ScanKeepsLines
  <2>2. stage' = "scan"
    BY <1>1, <1>2, <1>6
  <2>3. LinesTypeOK'
    BY <1>1, <1>3, <1>4, <2>1, <2>2 DEF LinesTypeOK
  <2>4. Progress' /\ FailsForReason'
    BY <1>1, <1>4, <2>2 DEF Progress, FailsForReason
  <2>5. ReadInOrder'
    <3>1. RowsRead' = RowsRead \cup {row}
      BY <1>1, <1>2, <1>3 DEF RowsRead
    <3> QED
      BY <1>1, <1>2, <3>1 DEF ReadInOrder
  <2> QED
    BY <2>1, <2>2, <2>3, <2>4, <2>5 DEF LinesInv
<1> QED
  BY <1>5, <1>6

(* As long as nothing is read, the lines are read as before.               *)
LEMMA FetchedStays ==
    ASSUME ReadInOrder, LinesAreRead,
           tables' = tables, request' = request, unread' = unread, fetched' = fetched
    PROVE  ReadInOrder' /\ LinesAreRead'
BY DEF ReadInOrder, LinesAreRead, RowsRead

(* After the rows no segment was begun.                                    *)
LEMMA ScannedKeeps == LinesInv /\ stage = "scan" /\ Scanned => LinesInv'
<1> SUFFICES ASSUME LinesInv, stage = "scan", Scanned
             PROVE  LinesInv'
  OBVIOUS
<1>1. /\ stage = "scan" /\ stage' = IF request.kind = "lines" THEN "cut" ELSE "done"
      /\ left' = DOMAIN fetched
      /\ UNCHANGED <<tables, request, unread, fetched, shape, at, seen, drawn, open>>
  BY DEF Scanned
<1>2. LinesTypeOK /\ Progress /\ ReadInOrder /\ LinesAreRead
  BY <1>1 DEF LinesInv
<1>3. left = {} /\ shape = 0 /\ seen = {} /\ drawn = << >> /\ ~open
  BY <1>1, <1>2 DEF Progress
<1>4. LinesTypeOK'
  <2>1. shape' \in {0} \cup (DOMAIN fetched' \ left')
    BY <1>1, <1>3
  <2>2. stage' \in {"cut", "done"}
    BY <1>1
  <2>3. open' \in BOOLEAN
    BY <1>1, <1>2, Zenon DEF LinesTypeOK
  <2> QED
    BY <1>1, <1>2, <2>1, <2>2, <2>3 DEF LinesTypeOK
<1>5. Progress' /\ FailsForReason'
  BY <1>1, <1>2 DEF Progress, FailsForReason
<1>6. ReadInOrder' /\ LinesAreRead'
  BY <1>1, <1>2, FetchedStays
<1>7. SeenIsBegun'
  <2>1. \A k \in DOMAIN fetched : Begun(k)' = 0
    BY <1>1, <1>2, <1>3 DEF Begun, LinesTypeOK
  <2>2. \A k \in DOMAIN fetched : {Segment(fetched[k], j) : j \in 1 .. Begun(k)'} = {}
    BY <2>1
  <2> QED
    BY <1>1, <1>3, <2>2 DEF SeenIsBegun
<1>8. DrawnIsSeen' /\ OpenLine'
  <2>1. PiecesOf(drawn') = {} /\ NoPieceTwice(drawn') /\ DOMAIN drawn' = {}
    BY <1>1, <1>3 DEF PiecesOf, NoPieceTwice
  <2> QED
    BY <1>1, <1>3, <2>1 DEF DrawnIsSeen, OpenLine
<1> QED
  BY <1>4, <1>5, <1>6, <1>7, <1>8 DEF LinesInv

(* When no shape is under way, the next one has not begun.                 *)
LEMMA NextShapeKeeps == LinesInv /\ NextShape => LinesInv'
<1> SUFFICES ASSUME LinesInv, NextShape
             PROVE  LinesInv'
  OBVIOUS
<1>1. /\ stage = "cut" /\ shape = 0 /\ at' = 1
      /\ UNCHANGED <<tables, request, stage, unread, fetched, seen, drawn, open>>
  BY DEF NextShape
<1>2. /\ LinesTypeOK /\ Progress /\ FailsForReason /\ ReadInOrder /\ LinesAreRead
      /\ SeenIsBegun /\ DrawnIsSeen /\ OpenLine
  BY <1>1 DEF LinesInv
<1>3. PICK k \in left : left' = left \ {k} /\ shape' = k
  BY DEF NextShape
<1>4. /\ fetched \in Seq(FetchedLines(tables)) /\ DOMAIN fetched = 1 .. Len(fetched)
      /\ k \in DOMAIN fetched /\ k # 0
  BY <1>2, <1>3 DEF LinesTypeOK
<1>5. LinesTypeOK'
  <2>1. open' \in BOOLEAN
    BY <1>1, <1>2, Zenon DEF LinesTypeOK
  <2>2. left' \subseteq DOMAIN fetched' /\ shape' \in DOMAIN fetched' \ left' /\ at' \in Nat
    BY <1>1, <1>2, <1>3 DEF LinesTypeOK
  <2> QED
    BY <1>1, <1>2, <2>1, <2>2 DEF LinesTypeOK
<1>6. Progress' /\ FailsForReason'
  BY <1>1, <1>2 DEF Progress, FailsForReason
<1>7. ReadInOrder' /\ LinesAreRead'
  BY <1>1, <1>2, FetchedStays
<1>8. SeenIsBegun'
  <2>1. \A l \in DOMAIN fetched : Begun(l)' = Begun(l)
    BY <1>1, <1>3, <1>4 DEF Begun
  <2> QED
    BY <1>1, <1>2, <2>1 DEF SeenIsBegun
<1>9. DrawnIsSeen'
  BY <1>1, <1>2 DEF DrawnIsSeen
<1>10. OpenLine'
  <2>1. fetched[k] \in FetchedLines(tables) /\ LineIsRead(tables, request, RowsRead, fetched[k])
    BY <1>2, <1>4 DEF LinesAreRead
  <2>2. Len(fetched[k].points) \in Nat /\ Len(fetched[k].points) >= 1
    BY <2>1 DEF FetchedLines, LineIsRead
  <2>3. at' \in 1 .. Count(fetched'[shape']) + 1
    BY <1>1, <1>3, <2>2 DEF Count
  <2>4. ~open'
    BY <1>1, <1>2 DEF OpenLine
  <2> QED
    BY <2>3, <2>4 DEF OpenLine
<1> QED
  BY <1>5, <1>6, <1>7, <1>8, <1>9, <1>10 DEF LinesInv

(* At the end of a shape all of it is begun.                               *)
LEMMA EndShapeKeeps == LinesInv /\ EndShape => LinesInv'
<1> SUFFICES ASSUME LinesInv, EndShape
             PROVE  LinesInv'
  OBVIOUS
<1>1. /\ stage = "cut" /\ shape # 0 /\ at > Count(fetched[shape])
      /\ shape' = 0 /\ open' = FALSE
      /\ UNCHANGED <<tables, request, stage, unread, fetched, left, at, seen, drawn>>
  BY DEF EndShape
<1>2. /\ LinesTypeOK /\ Progress /\ FailsForReason /\ ReadInOrder /\ LinesAreRead
      /\ SeenIsBegun /\ DrawnIsSeen /\ OpenLine
  BY <1>1 DEF LinesInv
<1>3. /\ fetched \in Seq(FetchedLines(tables)) /\ DOMAIN fetched = 1 .. Len(fetched)
      /\ shape \in DOMAIN fetched /\ shape \notin left
  BY <1>1, <1>2 DEF LinesTypeOK
<1>4. LinesTypeOK'
  <2>1. open' \in BOOLEAN
    BY <1>1
  <2> QED
    BY <1>1, <1>2, <2>1 DEF LinesTypeOK
<1>5. Progress' /\ FailsForReason'
  BY <1>1, <1>2 DEF Progress, FailsForReason
<1>6. ReadInOrder' /\ LinesAreRead'
  BY <1>1, <1>2, FetchedStays
<1>7. SeenIsBegun'
  <2>1. fetched[shape] \in FetchedLines(tables)
    BY <1>3
  <2>2. Count(fetched[shape]) \in Int
    BY <2>1 DEF Count, FetchedLines
  <2>3. at - 1 = Count(fetched[shape])
    BY <1>1, <1>2, <2>2 DEF OpenLine
  <2>4. \A l \in DOMAIN fetched : Begun(l)' = Begun(l)
    BY <1>1, <1>3, <2>3 DEF Begun
  <2> QED
    BY <1>1, <1>2, <2>4 DEF SeenIsBegun
<1>8. DrawnIsSeen' /\ OpenLine'
  BY <1>1, <1>2 DEF DrawnIsSeen, OpenLine
<1> QED
  BY <1>4, <1>5, <1>6, <1>7, <1>8 DEF LinesInv

(* After the last shape nothing is left.                                   *)
LEMMA EndCutKeeps == LinesInv /\ EndCut => LinesInv'
<1> SUFFICES ASSUME LinesInv, EndCut
             PROVE  LinesInv'
  OBVIOUS
<1>1. /\ stage = "cut" /\ shape = 0 /\ left = {} /\ stage' = "done"
      /\ UNCHANGED <<tables, request, unread, fetched, left, shape, at, seen, drawn, open>>
  BY DEF EndCut, cutting
<1>2. /\ LinesTypeOK /\ Progress /\ FailsForReason /\ ReadInOrder /\ LinesAreRead
      /\ SeenIsBegun /\ DrawnIsSeen /\ OpenLine
  BY <1>1 DEF LinesInv
<1>3. LinesTypeOK'
  <2>1. open' \in BOOLEAN
    BY <1>1, <1>2, Zenon DEF LinesTypeOK
  <2> QED
    BY <1>1, <1>2, <2>1 DEF LinesTypeOK
<1>4. Progress' /\ FailsForReason'
  BY <1>1, <1>2 DEF Progress, FailsForReason
<1>5. ReadInOrder' /\ LinesAreRead'
  BY <1>1, <1>2, FetchedStays
<1>6. SeenIsBegun'
  <2>1. \A l \in DOMAIN fetched : Begun(l)' = Begun(l)
    BY <1>1 DEF Begun
  <2> QED
    BY <1>1, <1>2, <2>1 DEF SeenIsBegun
<1>7. DrawnIsSeen' /\ OpenLine'
  BY <1>1, <1>2 DEF DrawnIsSeen, OpenLine
<1> QED
  BY <1>3, <1>4, <1>5, <1>6, <1>7 DEF LinesInv

(* The segments of a line follow each other, in either direction.          *)
LEMMA SegmentFacts ==
    ASSUME NEW line, line.points \in Seq(Points), NEW j \in 1 .. Count(line)
    PROVE  /\ Segment(line, j)[1] \in Points /\ Segment(line, j)[2] \in Points
           /\ Segment(line, j) = <<Segment(line, j)[1], Segment(line, j)[2]>>
           /\ j > 1 => Segment(line, j)[1] = Segment(line, j - 1)[2]
<1> DEFINE p == line.points
           n == Len(p)
<1>1. n \in Nat /\ Count(line) = n - 1 /\ \A i \in 1 .. n : p[i] \in Points
  BY DEF Count
<1>2. CASE line.direction = 0
  <2>1. Segment(line, j) = <<p[j], p[j + 1]>> /\ Segment(line, j - 1) = <<p[j - 1], p[j - 1 + 1]>>
    BY <1>2 DEF Segment
  <2>2. j \in 1 .. n /\ j + 1 \in 1 .. n /\ j - 1 + 1 = j
    BY <1>1
  <2> QED
    BY <1>1, <2>1, <2>2
<1>3. CASE line.direction # 0
  <2>1. /\ Segment(line, j) = <<p[n - j + 1], p[n - j]>>
        /\ Segment(line, j - 1) = <<p[n - (j - 1) + 1], p[n - (j - 1)]>>
    BY <1>3 DEF Segment
  <2>2. n - j \in 1 .. n /\ n - j + 1 \in 1 .. n /\ n - (j - 1) = n - j + 1
    BY <1>1
  <2> QED
    BY <1>1, <2>1, <2>2
<1> QED
  BY <1>2, <1>3

(* A piece of some lines has its place in one of them.                     *)
LEMMA PlaceOfPiece ==
    ASSUME NEW lines, NEW s
    PROVE  s \in PiecesOf(lines)
             <=> \E n \in DOMAIN lines : \E a \in 1 .. Count(lines[n]) : s = Piece(lines[n], a)
BY DEF PiecesOf, Pieces, Piece, Count

\* The new lines are the old ones, with a piece at the end of the m-th.
AddsPiece(old, new, m, s) ==
    LET c == Count(new[m])
    IN  /\ m \in DOMAIN new /\ DOMAIN old \subseteq DOMAIN new
        /\ \A k \in DOMAIN new : k # m => k \in DOMAIN old /\ new[k] = old[k]
        /\ \A k \in DOMAIN old : Count(old[k]) \in Int
        /\ c \in Nat /\ c >= 1 /\ Piece(new[m], c) = s
        /\ m \in DOMAIN old => Count(old[m]) = c - 1
        /\ m \notin DOMAIN old => c = 1
        /\ \A a \in 1 .. c - 1 : Piece(new[m], a) = Piece(old[m], a)

(* A new piece at the end of a line is drawn, once, and every other is     *)
(* drawn as before.                                                        *)
LEMMA PieceIsAdded ==
    ASSUME NEW old, NEW new, NEW m, NEW s, AddsPiece(old, new, m, s),
           s \notin PiecesOf(old), NoPieceTwice(old)
    PROVE  PiecesOf(new) = PiecesOf(old) \cup {s} /\ NoPieceTwice(new)
<1> DEFINE c == Count(new[m])
<1>0. /\ m \in DOMAIN new /\ DOMAIN old \subseteq DOMAIN new
      /\ \A k \in DOMAIN new : k # m => k \in DOMAIN old /\ new[k] = old[k]
      /\ \A k \in DOMAIN old : Count(old[k]) \in Int
      /\ c \in Nat /\ c >= 1 /\ Count(new[m]) = c /\ Piece(new[m], c) = s
      /\ m \in DOMAIN old => Count(old[m]) = c - 1
      /\ m \notin DOMAIN old => c = 1
      /\ \A a \in 1 .. c - 1 : Piece(new[m], a) = Piece(old[m], a)
  BY DEF AddsPiece
<1> HIDE DEF c
<1> DEFINE Place(lines, t, n, a) ==
              n \in DOMAIN lines /\ a \in 1 .. Count(lines[n]) /\ t = Piece(lines[n], a)
<1>1. ASSUME NEW t, NEW n, NEW a, Place(new, t, n, a), ~(n = m /\ a = c)
      PROVE  Place(old, t, n, a)
  <2>1. CASE n = m
    BY <1>0, <1>1, <2>1
  <2>2. CASE n # m
    BY <1>0, <1>1, <2>2
  <2> QED
    BY <2>1, <2>2
<1>2. ASSUME NEW t, NEW n, NEW a, Place(old, t, n, a)
      PROVE  Place(new, t, n, a)
  <2>1. CASE n = m
    <3>1. a \in 1 .. c - 1
      BY <1>0, <1>2, <2>1
    <3> QED
      BY <1>0, <1>2, <2>1, <3>1
  <2>2. CASE n # m
    BY <1>0, <1>2, <2>2
  <2> QED
    BY <2>1, <2>2
<1>3. Place(new, s, m, c)
  BY <1>0
<1>4. ASSUME NEW t
      PROVE  (\E n, a : Place(old, t, n, a)) <=> t \in PiecesOf(old)
  <2>1. t \in PiecesOf(old)
          <=> \E n \in DOMAIN old : \E a \in 1 .. Count(old[n]) : t = Piece(old[n], a)
    BY PlaceOfPiece
  <2> QED
    BY <2>1, Zenon
<1>5. ASSUME NEW t
      PROVE  (\E n, a : Place(new, t, n, a)) <=> t \in PiecesOf(new)
  <2>1. t \in PiecesOf(new)
          <=> \E n \in DOMAIN new : \E a \in 1 .. Count(new[n]) : t = Piece(new[n], a)
    BY PlaceOfPiece
  <2> QED
    BY <2>1, Zenon
<1>6. \A t, n, a, k, b : Place(old, t, n, a) /\ Place(old, t, k, b) => n = k /\ a = b
  <2>1. \A n, k \in DOMAIN old : \A a \in 1 .. Count(old[n]) : \A b \in 1 .. Count(old[k]) :
            Piece(old[n], a) = Piece(old[k], b) => n = k /\ a = b
    BY DEF NoPieceTwice
  <2> SUFFICES ASSUME NEW t, NEW n, NEW a, NEW k, NEW b,
                      Place(old, t, n, a), Place(old, t, k, b)
               PROVE  n = k /\ a = b
    OBVIOUS
  <2>2. n \in DOMAIN old /\ a \in 1 .. Count(old[n]) /\ t = Piece(old[n], a)
    OBVIOUS
  <2>3. k \in DOMAIN old /\ b \in 1 .. Count(old[k]) /\ t = Piece(old[k], b)
    OBVIOUS
  <2>4. Piece(old[n], a) = Piece(old[k], b)
    BY <2>2, <2>3
  <2> HIDE DEF Place
  <2> QED
    BY <2>1, <2>2, <2>3, <2>4
<1>7. ASSUME NEW n, NEW a, Place(new, s, n, a)
      PROVE  n = m /\ a = c
  BY <1>1, <1>4, <1>7
<1>8. \A t, n, a, k, b : Place(new, t, n, a) /\ Place(new, t, k, b) => n = k /\ a = b
  <2> SUFFICES ASSUME NEW t, NEW n, NEW a, NEW k, NEW b,
                      Place(new, t, n, a), Place(new, t, k, b)
               PROVE  n = k /\ a = b
    OBVIOUS
  <2>1. CASE t = s
    <3>1. Place(new, s, n, a) /\ Place(new, s, k, b)
      BY <2>1
    <3> HIDE DEF Place
    <3> QED
      BY <1>7, <3>1
  <2>2. CASE t # s
    <3>1. Place(old, t, n, a)
      BY <1>0, <1>1, <2>2
    <3>2. Place(old, t, k, b)
      BY <1>0, <1>1, <2>2
    <3> QED
      BY <1>6, <3>1, <3>2
  <2> QED
    BY <2>1, <2>2
<1>9. NoPieceTwice(new)
  <2> SUFFICES ASSUME NEW n \in DOMAIN new, NEW k \in DOMAIN new,
                      NEW a \in 1 .. Count(new[n]), NEW b \in 1 .. Count(new[k]),
                      Piece(new[n], a) = Piece(new[k], b)
               PROVE  n = k /\ a = b
    BY DEF NoPieceTwice
  <2>1. Place(new, Piece(new[n], a), n, a) /\ Place(new, Piece(new[n], a), k, b)
    OBVIOUS
  <2> HIDE DEF Place
  <2> QED
    BY <1>8, <2>1
<1>10. PiecesOf(new) = PiecesOf(old) \cup {s}
  <2>1. ASSUME NEW t \in PiecesOf(new)
        PROVE  t \in PiecesOf(old) \cup {s}
    <3>1. PICK n, a : Place(new, t, n, a)
      BY <1>5
    <3>2. CASE n = m /\ a = c
      BY <1>0, <3>1, <3>2
    <3>3. CASE ~(n = m /\ a = c)
      <4>1. Place(old, t, n, a)
        BY <1>1, <3>1, <3>3
      <4> HIDE DEF Place
      <4> QED
        BY <1>4, <4>1
    <3> QED
      BY <3>2, <3>3
  <2>2. ASSUME NEW t \in PiecesOf(old)
        PROVE  t \in PiecesOf(new)
    <3>1. PICK n, a : Place(old, t, n, a)
      BY <1>4
    <3>2. Place(new, t, n, a)
      BY <1>2, <3>1
    <3> HIDE DEF Place
    <3> QED
      BY <1>5, <3>2
  <2>3. s \in PiecesOf(new)
    <3> HIDE DEF Place
    <3> QED
      BY <1>3, <1>5
  <2> QED
    BY <2>1, <2>2, <2>3
<1> QED
  BY <1>9, <1>10

(* A segment of the shape under way is seen from now on.                   *)
LEMMA DrawSees ==
    ASSUME LinesTypeOK, SeenIsBegun, shape # 0, at \in 1 .. Count(fetched[shape]),
           fetched' = fetched, shape' = shape, left' = left, at' = at + 1,
           seen' = seen \cup {Segment(fetched[shape], at)}
    PROVE  SeenIsBegun'
<1> DEFINE Of(k, n) == {Segment(fetched[k], j) : j \in 1 .. n}
<1>1. shape \in DOMAIN fetched /\ at \in Nat
  BY DEF LinesTypeOK
<1>2. seen = UNION {Of(k, Begun(k)) : k \in DOMAIN fetched}
  BY DEF SeenIsBegun
<1>3. \A k \in DOMAIN fetched : k # shape => Begun(k)' = Begun(k)
  BY DEF Begun
<1>4. Begun(shape) = at - 1 /\ Begun(shape)' = at
  BY <1>1 DEF Begun
<1>5. Of(shape, at) = Of(shape, at - 1) \cup {Segment(fetched[shape], at)}
  <2>1. 1 .. at = (1 .. at - 1) \cup {at}
    BY <1>1
  <2> QED
    BY <2>1
<1> HIDE DEF Of
<1>6. ASSUME NEW s
      PROVE  s \in seen' <=> \E k \in DOMAIN fetched : s \in Of(k, Begun(k)')
  <2>1. ASSUME s \in seen'
        PROVE  \E k \in DOMAIN fetched : s \in Of(k, Begun(k)')
    <3>1. CASE s = Segment(fetched[shape], at)
      BY <1>1, <1>4, <1>5, <3>1
    <3>2. CASE s \in seen
      <4>1. PICK k \in DOMAIN fetched : s \in Of(k, Begun(k))
        BY <1>2, <3>2
      <4>2. CASE k = shape
        BY <1>4, <1>5, <4>1, <4>2
      <4>3. CASE k # shape
        BY <1>3, <4>1, <4>3
      <4> QED
        BY <4>2, <4>3
    <3> QED
      BY <2>1, <3>1, <3>2
  <2>2. ASSUME NEW k \in DOMAIN fetched, s \in Of(k, Begun(k)')
        PROVE  s \in seen'
    <3>1. CASE k = shape
      <4>1. s \in Of(shape, at - 1) \/ s = Segment(fetched[shape], at)
        BY <1>4, <1>5, <2>2, <3>1
      <4>2. s \in Of(shape, Begun(shape)) => s \in seen
        BY <1>1, <1>2
      <4> QED
        BY <1>4, <4>1, <4>2
    <3>2. CASE k # shape
      <4>1. s \in Of(k, Begun(k))
        BY <1>3, <2>2, <3>2
      <4> QED
        BY <1>2, <4>1
    <3> QED
      BY <3>1, <3>2
  <2> QED
    BY <2>1, <2>2
<1>7. seen' = UNION {Of(k, Begun(k)') : k \in DOMAIN fetched}
  BY <1>6
<1> QED
  BY <1>7 DEF SeenIsBegun, Of

(* A segment of a line may be drawn as a part of it.                       *)
LEMMA CutFromSegment ==
    ASSUME NEW line, NEW new, NEW old, NEW s, s \in Segments(line),
           new.route = line.route, new.color = line.color,
           Pieces(new.points) = Pieces(old) \cup {s}, Pieces(old) \subseteq Segments(line)
    PROVE  CutFrom(new, line)
BY DEF CutFrom

(* A segment that is new goes to the end of the open line, or begins one.  *)
LEMMA DrawAdds ==
    ASSUME LinesTypeOK, DrawnIsSeen, OpenLine, shape # 0, at \in 1 .. Count(fetched[shape]),
           Segment(fetched[shape], at) \notin seen,
           seen' = seen \cup {Segment(fetched[shape], at)},
           drawn' = IF open THEN Extended(drawn, Segment(fetched[shape], at)[2])
                    ELSE Append(drawn, [color |-> fetched[shape].color,
                                        route |-> fetched[shape].route,
                                        points |-> Segment(fetched[shape], at)]),
           fetched' = fetched
    PROVE  /\ drawn' \in Seq(DrawnLines(tables)) /\ drawn' # << >>
           /\ DrawnIsSeen'
           /\ CutFrom(Last(drawn'), fetched[shape])
           /\ Last(Last(drawn').points) = Segment(fetched[shape], at)[2]
<1> DEFINE line == fetched[shape]
           seg == Segment(line, at)
<1>1. /\ shape \in DOMAIN fetched /\ at \in Nat
      /\ fetched \in Seq(FetchedLines(tables)) /\ drawn \in Seq(DrawnLines(tables))
  BY DEF LinesTypeOK
<1>2. line \in FetchedLines(tables)
  BY <1>1
<1>3. line.points \in Seq(Points) /\ line.route \in RouteNames(tables)
      /\ line.color \in Colors(tables)
  BY <1>2 DEF FetchedLines
<1>4. /\ seg[1] \in Points /\ seg[2] \in Points /\ seg = <<seg[1], seg[2]>>
      /\ at > 1 => seg[1] = Segment(line, at - 1)[2]
  BY <1>3, SegmentFacts
<1>5. seg \in Segments(line)
  BY DEF Segments
<1>6. seen = PiecesOf(drawn) /\ NoPieceTwice(drawn)
  BY DEF DrawnIsSeen
<1>7. ASSUME NEW n \in DOMAIN drawn
      PROVE  /\ drawn[n] \in DrawnLines(tables)
             /\ drawn[n].points \in Seq(Points) /\ drawn[n].points # << >>
             /\ Count(drawn[n]) \in Nat /\ Count(drawn[n]) = Len(drawn[n].points) - 1
             /\ \E k \in DOMAIN fetched : CutFrom(drawn[n], fetched[k])
  <2>1. drawn[n] \in DrawnLines(tables)
    BY <1>1
  <2>2. drawn[n].points \in Seq(Points)
    BY <2>1 DEF DrawnLines
  <2>3. drawn[n].points # << >> /\ \E k \in DOMAIN fetched : CutFrom(drawn[n], fetched[k])
    BY DEF DrawnIsSeen
  <2> QED
    BY <2>1, <2>2, <2>3 DEF Count
<1> HIDE DEF line, seg
<1>8. CASE open
  <2> DEFINE m == Len(drawn)
             old == drawn[m]
             new == [old EXCEPT !.points = Append(@, seg[2])]
             points == Append(old.points, seg[2])
  <2>1. /\ drawn # << >> /\ m \in DOMAIN drawn /\ Last(drawn) = old /\ at > 1
        /\ CutFrom(old, line) /\ Last(old.points) = Segment(line, at - 1)[2]
    BY <1>1, <1>8 DEF OpenLine, Last, line
  <2>2. /\ old \in DrawnLines(tables) /\ old.points \in Seq(Points) /\ old.points # << >>
        /\ Count(old) \in Nat /\ Len(old.points) = Count(old) + 1
    BY <1>7, <2>1
  <2>3. /\ points \in Seq(Points) /\ points # << >> /\ Len(points) = Count(old) + 2
        /\ \A a \in 1 .. Count(old) + 1 : points[a] = old.points[a]
        /\ points[Count(old) + 2] = seg[2]
    <3> DEFINE p == old.points
    <3>1. p \in Seq(Points) /\ Len(p) \in Nat /\ Len(p) = Count(old) + 1
      BY <2>2
    <3>2. seg[2] \in Points /\ points = Append(p, seg[2])
      BY <1>4
    <3> HIDE DEF p, points
    <3>3. /\ points \in Seq(Points) /\ Len(points) = Len(p) + 1
          /\ \A a \in 1 .. Len(p) : points[a] = p[a]
          /\ points[Len(p) + 1] = seg[2]
      BY <3>1, <3>2
    <3>4. points # << >>
      BY <3>1, <3>3
    <3>5. Len(p) + 1 = Count(old) + 2
      BY <2>2, <3>1
    <3> QED
      BY <3>1, <3>3, <3>4, <3>5 DEF p
  <2>4. Last(points) = seg[2] /\ old.points[Count(old) + 1] = seg[1]
    BY <1>4, <2>1, <2>2, <2>3 DEF Last
  <2>5. Pieces(points) = Pieces(old.points) \cup {seg}
    BY <1>4, <2>1, <2>2, AppendedPiece
  <2> HIDE DEF points
  <2>6. /\ new \in DrawnLines(tables) /\ new.points = points
        /\ new.route = old.route /\ new.color = old.color
    <3>1. Append(old.points, seg[2]) = points
      BY DEF points
    <3> QED
      BY <2>2, <2>3, <3>1 DEF DrawnLines
  <2>7. /\ drawn' \in Seq(DrawnLines(tables)) /\ DOMAIN drawn' = DOMAIN drawn
        /\ \A k \in DOMAIN drawn : k # m => drawn'[k] = drawn[k]
        /\ drawn'[m] = new /\ Len(drawn') = m
    <3>1. drawn' = Extended(drawn, seg[2])
      BY <1>8 DEF seg, line
    <3>2. [drawn[Len(drawn)] EXCEPT !.points = Append(@, seg[2])] \in DrawnLines(tables)
      BY <2>6
    <3>3. /\ Extended(drawn, seg[2]) \in Seq(DrawnLines(tables))
          /\ Len(Extended(drawn, seg[2])) = Len(drawn)
          /\ DOMAIN Extended(drawn, seg[2]) = DOMAIN drawn
          /\ \A k \in DOMAIN drawn : k # Len(drawn) => Extended(drawn, seg[2])[k] = drawn[k]
          /\ Extended(drawn, seg[2])[Len(drawn)]
               = [drawn[Len(drawn)] EXCEPT !.points = Append(@, seg[2])]
      <4> HIDE DEF m, old
      <4>1. drawn \in Seq(DrawnLines(tables)) /\ drawn # << >>
        BY <1>1, <2>1
      <4> QED
        BY <3>2, <4>1, ExtendedLines
    <3> QED
      BY <3>1, <3>3, Zenon
  <2>8. Count(new) = Count(old) + 1
    BY <2>2, <2>3, <2>6 DEF Count
  <2> HIDE DEF new, old
  <2>9. PiecesOf(drawn') = PiecesOf(drawn) \cup {seg} /\ NoPieceTwice(drawn')
    <3> DEFINE c == Count(old) + 1
    <3>1. seg \notin PiecesOf(drawn)
      BY <1>6 DEF seg, line
    <3>2. c \in Nat /\ c >= 1 /\ Count(drawn'[m]) = c /\ Count(drawn[m]) = c - 1
      BY <2>2, <2>7, <2>8 DEF old
    <3>3. Piece(drawn'[m], c) = seg
      <4>1. c \in 1 .. Count(old) + 1 /\ c + 1 = Count(old) + 2
        BY <2>2
      <4>2. points[c] = old.points[c] /\ old.points[c] = seg[1] /\ points[c + 1] = seg[2]
        BY <2>3, <2>4, <4>1
      <4> QED
        BY <1>4, <2>6, <2>7, <4>2, Zenon DEF Piece
    <3>4. ASSUME NEW a \in 1 .. c - 1
          PROVE  Piece(drawn'[m], a) = Piece(drawn[m], a)
      <4>1. points[a] = old.points[a] /\ points[a + 1] = old.points[a + 1]
        BY <2>2, <2>3
      <4>2. drawn[m] = old
        BY DEF old
      <4> QED
        BY <2>6, <2>7, <4>1, <4>2, Zenon DEF Piece
    <3>5. \A k \in DOMAIN drawn : Count(drawn[k]) \in Int
      BY <1>7
    <3> HIDE DEF c, m
    <3>6. AddsPiece(drawn, drawn', m, seg)
      BY <2>1, <2>7, <3>2, <3>3, <3>4, <3>5 DEF AddsPiece
    <3> QED
      BY <1>6, <3>1, <3>6, PieceIsAdded
  <2>10. CutFrom(new, line)
    BY <1>5, <2>1, <2>5, <2>6, CutFromSegment DEF CutFrom
  <2>11. ASSUME NEW n \in DOMAIN drawn'
         PROVE  /\ drawn'[n].points # << >>
                /\ \E k \in DOMAIN fetched : CutFrom(drawn'[n], fetched[k])
    <3>1. CASE n = m
      BY <1>1, <2>3, <2>6, <2>7, <2>10, <3>1 DEF line
    <3>2. CASE n # m
      BY <1>7, <2>7, <3>2
    <3> QED
      BY <3>1, <3>2
  <2>12. DrawnIsSeen'
    BY <1>6, <2>9, <2>11 DEF DrawnIsSeen, seg, line
  <2>13. drawn' # << >> /\ Last(drawn') = new
    BY <2>1, <2>7 DEF Last
  <2> QED
    BY <2>4, <2>6, <2>7, <2>10, <2>12, <2>13 DEF line, seg
<1>9. CASE ~open
  <2> DEFINE m == Len(drawn) + 1
             new == [color |-> line.color, route |-> line.route, points |-> seg]
  <2>1. drawn' = Append(drawn, new)
    BY <1>9 DEF line, seg
  <2>2. seg \in Seq(Points) /\ Len(seg) = 2 /\ seg # << >> /\ Last(seg) = seg[2]
    <3>1. \A x, y \in Points : <<x, y>> \in Seq(Points) /\ Len(<<x, y>>) = 2 /\ <<x, y>> # << >>
      OBVIOUS
    <3>2. seg \in Seq(Points) /\ Len(seg) = 2 /\ seg # << >>
      BY <1>4, <3>1, Zenon
    <3> QED
      BY <3>2 DEF Last
  <2>3. /\ new \in DrawnLines(tables) /\ new.points = seg
        /\ new.route = line.route /\ new.color = line.color
    BY <1>3, <2>2 DEF DrawnLines
  <2> HIDE DEF new
  <2>4. /\ drawn' \in Seq(DrawnLines(tables)) /\ Len(drawn') = m
        /\ DOMAIN drawn' = 1 .. m /\ DOMAIN drawn = 1 .. m - 1 /\ m \in Nat /\ m >= 1
        /\ \A k \in DOMAIN drawn : drawn'[k] = drawn[k]
        /\ drawn'[m] = new
    <3> DEFINE S == DrawnLines(tables)
    <3>1. drawn \in Seq(S) /\ new \in S
      BY <1>1, <2>3
    <3> HIDE DEF S
    <3>2. /\ Append(drawn, new) \in Seq(S) /\ Len(Append(drawn, new)) = m
          /\ DOMAIN Append(drawn, new) = 1 .. m /\ DOMAIN drawn = 1 .. m - 1
          /\ m \in Nat /\ m >= 1
          /\ \A k \in DOMAIN drawn : Append(drawn, new)[k] = drawn[k]
          /\ Append(drawn, new)[m] = new
      BY <3>1
    <3> QED
      BY <2>1, <3>2 DEF S
  <2>5. Count(new) = 1 /\ Piece(new, 1) = seg
    BY <1>4, <2>2, <2>3 DEF Count, Piece
  <2>6. Pieces(seg) = {seg}
    BY <1>4, <2>2 DEF Pieces
  <2>7. PiecesOf(drawn') = PiecesOf(drawn) \cup {seg} /\ NoPieceTwice(drawn')
    <3>1. seg \notin PiecesOf(drawn)
      BY <1>6 DEF seg, line
    <3>2. \A k \in DOMAIN drawn : Count(drawn[k]) \in Int
      BY <1>7
    <3>3. m \notin DOMAIN drawn /\ m \in DOMAIN drawn' /\ DOMAIN drawn \subseteq DOMAIN drawn'
      BY <2>4
    <3>4. \A k \in DOMAIN drawn' : k # m => k \in DOMAIN drawn /\ drawn'[k] = drawn[k]
      BY <2>4
    <3> HIDE DEF m
    <3>5. Count(drawn'[m]) = 1 /\ Piece(drawn'[m], 1) = seg
      BY <2>4, <2>5
    <3>6. AddsPiece(drawn, drawn', m, seg)
      BY <3>2, <3>3, <3>4, <3>5 DEF AddsPiece
    <3> QED
      BY <1>6, <3>1, <3>6, PieceIsAdded
  <2>8. CutFrom(new, line)
    BY <1>5, <2>3, <2>6 DEF CutFrom
  <2>9. ASSUME NEW n \in DOMAIN drawn'
        PROVE  /\ drawn'[n].points # << >>
               /\ \E k \in DOMAIN fetched : CutFrom(drawn'[n], fetched[k])
    <3>1. CASE n = m
      BY <1>1, <2>2, <2>3, <2>4, <2>8, <3>1 DEF line
    <3>2. CASE n # m
      <4>1. n \in DOMAIN drawn
        BY <2>4, <3>2
      <4> QED
        BY <1>7, <2>4, <4>1
    <3> QED
      BY <3>1, <3>2
  <2>10. DrawnIsSeen'
    BY <1>6, <2>7, <2>9 DEF DrawnIsSeen, seg, line
  <2>11. drawn' # << >> /\ Last(drawn') = new
    BY <2>4 DEF Last
  <2> QED
    BY <2>2, <2>3, <2>4, <2>8, <2>10, <2>11 DEF line, seg
<1> QED
  BY <1>8, <1>9

(* Whether a segment is new or not, it is seen and drawn once.             *)
LEMMA DrawKeeps == LinesInv /\ Draw => LinesInv'
<1> SUFFICES ASSUME LinesInv, Draw
             PROVE  LinesInv'
  OBVIOUS
<1> DEFINE line == fetched[shape]
           seg == Segment(line, at)
<1>1. /\ stage = "cut" /\ shape # 0 /\ at <= Count(line) /\ at' = at + 1
      /\ UNCHANGED <<tables, request, stage, unread, fetched, left, shape>>
  BY DEF Draw
<1>2. /\ LinesTypeOK /\ Progress /\ FailsForReason /\ ReadInOrder /\ LinesAreRead
      /\ SeenIsBegun /\ DrawnIsSeen /\ OpenLine
  BY <1>1 DEF LinesInv
<1>3. /\ shape \in DOMAIN fetched /\ line \in FetchedLines(tables)
      /\ Count(line) \in Int /\ at \in 1 .. Count(line) /\ at \in Nat
  <2>1. shape \in DOMAIN fetched /\ fetched \in Seq(FetchedLines(tables)) /\ at \in Nat
    BY <1>1, <1>2 DEF LinesTypeOK
  <2>2. line \in FetchedLines(tables)
    BY <2>1
  <2>3. Count(line) \in Int
    BY <2>2 DEF Count, FetchedLines
  <2>4. at >= 1
    BY <1>1, <1>2, <2>3 DEF OpenLine
  <2> QED
    BY <1>1, <2>1, <2>2, <2>3, <2>4
<1>4. Progress' /\ FailsForReason'
  BY <1>1, <1>2 DEF Progress, FailsForReason
<1>5. ReadInOrder' /\ LinesAreRead'
  BY <1>1, <1>2, FetchedStays
<1>6. at' \in 1 .. Count(fetched'[shape']) + 1
  BY <1>1, <1>3
<1>7. CASE seg \in seen
  <2>1. open' = FALSE /\ seen' = seen /\ drawn' = drawn
    BY <1>7 DEF Draw
  <2>2. SeenIsBegun'
    <3>1. seen' = seen \cup {Segment(fetched[shape], at)}
      BY <1>7, <2>1
    <3> QED
      BY <1>1, <1>2, <1>3, <3>1, DrawSees
  <2>3. LinesTypeOK'
    <3>1. at' \in Nat
      BY <1>1, <1>3
    <3>2. open' \in BOOLEAN
      BY <2>1, Zenon
    <3> QED
      BY <1>1, <1>2, <2>1, <3>1, <3>2 DEF LinesTypeOK
  <2>4. DrawnIsSeen' /\ OpenLine'
    BY <1>1, <1>2, <1>6, <2>1 DEF DrawnIsSeen, OpenLine
  <2> QED
    BY <1>4, <1>5, <2>2, <2>3, <2>4 DEF LinesInv
<1>8. CASE seg \notin seen
  <2>1. /\ seen' = seen \cup {Segment(fetched[shape], at)} /\ open' = TRUE
        /\ drawn' = IF open THEN Extended(drawn, Segment(fetched[shape], at)[2])
                    ELSE Append(drawn, [color |-> fetched[shape].color,
                                        route |-> fetched[shape].route,
                                        points |-> Segment(fetched[shape], at)])
    BY <1>8 DEF Draw
  <2>2. SeenIsBegun'
    BY <1>1, <1>2, <1>3, <2>1, DrawSees
  <2>3. /\ drawn' \in Seq(DrawnLines(tables)) /\ drawn' # << >>
        /\ DrawnIsSeen'
        /\ CutFrom(Last(drawn'), fetched[shape])
        /\ Last(Last(drawn').points) = Segment(fetched[shape], at)[2]
    BY <1>1, <1>2, <1>3, <1>8, <2>1, DrawAdds
  <2>4. LinesTypeOK'
    <3>1. at' \in Nat
      BY <1>1, <1>3
    <3>2. open' \in BOOLEAN
      BY <2>1, Zenon
    <3> QED
      BY <1>1, <1>2, <2>3, <3>1, <3>2 DEF LinesTypeOK
  <2>5. OpenLine'
    <3>1. at' > 1 /\ at' - 1 = at /\ shape' # 0
      BY <1>1, <1>3
    <3> QED
      BY <1>1, <1>6, <2>3, <3>1 DEF OpenLine
  <2> QED
    BY <1>4, <1>5, <2>2, <2>3, <2>4, <2>5 DEF LinesInv
<1> QED
  BY <1>7, <1>8

(* The pieces of a line that is whole are those of its shape, and a        *)
(* segment is one of them, in the direction in which it is drawn.          *)
LEMMA SegmentsOfLine ==
    ASSUME NEW line, line.points \in Seq(Points)
    PROVE  Segments(line) = IF line.direction = 0 THEN Pieces(line.points)
                            ELSE Turned(Pieces(line.points))
<1> DEFINE p == line.points
           n == Len(p)
<1>1. n \in Nat /\ Count(line) = n - 1
  BY DEF Count
<1>2. CASE line.direction = 0
  BY <1>1, <1>2 DEF Segments, Segment, Pieces
<1>3. CASE line.direction # 0
  <2>1. \A j : Segment(line, j) = <<p[n - j + 1], p[n - j]>>
    BY <1>3 DEF Segment
  <2>2. ASSUME NEW s \in Segments(line)
        PROVE  s \in Turned(Pieces(p))
    <3>1. PICK j \in 1 .. n - 1 : s = <<p[n - j + 1], p[n - j]>>
      BY <1>1, <2>1 DEF Segments
    <3>2. n - j \in 1 .. n - 1
      BY <1>1
    <3>3. <<p[n - j], p[n - j + 1]>> \in Pieces(p)
      BY <3>2 DEF Pieces
    <3> QED
      BY <3>1, <3>3 DEF Turned
  <2>3. ASSUME NEW s \in Turned(Pieces(p))
        PROVE  s \in Segments(line)
    <3>1. PICK r \in Pieces(p) : s = <<r[2], r[1]>>
      BY DEF Turned
    <3>2. PICK i \in 1 .. n - 1 : r = <<p[i], p[i + 1]>>
      BY DEF Pieces
    <3>3. n - i \in 1 .. n - 1 /\ n - (n - i) = i
      BY <1>1
    <3>4. Segment(line, n - i) = <<p[i + 1], p[i]>>
      BY <2>1, <3>3
    <3> QED
      BY <1>1, <3>1, <3>2, <3>3, <3>4 DEF Segments
  <2> QED
    BY <1>3, <2>2, <2>3
<1> QED
  BY <1>2, <1>3

(* What stands still does so in either direction.                          *)
LEMMA MovingTurned ==
    ASSUME NEW P, NEW Q, Moving(P) = Moving(Q)
    PROVE  Moving(Turned(P)) = Moving(Turned(Q))
<1>1. ASSUME NEW A, NEW B, Moving(A) = Moving(B), NEW s \in Moving(Turned(A))
      PROVE  s \in Moving(Turned(B))
  <2>1. s \in Turned(A) /\ s[1] # s[2]
    BY <1>1 DEF Moving
  <2>2. PICK r \in A : s = <<r[2], r[1]>>
    BY <2>1 DEF Turned
  <2>3. r[1] # r[2]
    BY <2>1, <2>2
  <2>4. r \in B
    BY <1>1, <2>3 DEF Moving
  <2> QED
    BY <2>1, <2>2, <2>4 DEF Moving, Turned
<1> QED
  BY <1>1

(* A line that was read draws no other track than its own, and all of it   *)
(* if it is whole.                                                         *)
LEMMA SegmentsAreTrack ==
    ASSUME LinesInv, stage # "failed", NEW k \in DOMAIN fetched
    PROVE  /\ Moving(Segments(fetched[k])) \subseteq Track(fetched[k])
           /\ unread = {} => Moving(Segments(fetched[k])) = Moving(Track(fetched[k]))
           /\ unread = {} => ReachesPoint(fetched[k].points, tables.shapes[fetched[k].id],
                                          Len(tables.shapes[fetched[k].id]), request.kind)
<1> DEFINE line == fetched[k]
           whole == tables.shapes[line.id]
           p == line.points
<1>1. LinesTypeOK /\ LinesAreRead
  BY DEF LinesInv
<1>2. line \in FetchedLines(tables) /\ LineIsRead(tables, request, RowsRead, line)
      /\ tables \in Networks
  BY <1>1 DEF LinesTypeOK, LinesAreRead
<1>3. p \in Seq(Points)
  BY <1>2 DEF FetchedLines
<1>4. PICK row \in RowsRead : /\ OfLine(line, row)
                          /\ \A other \in RowsRead : OfLine(line, other) => other.n <= row.n
                          /\ ReachesPoint(p, whole, row.n, request.kind)
  BY <1>2 DEF LineIsRead
<1>5. /\ row \in Rows(tables, request) /\ row.use.id = line.id /\ row.use.trip = line.trip
      /\ whole \in Seq(Points) /\ row.n \in 1 .. Len(whole) /\ Len(whole) \in Nat
      /\ row.n \in Nat
  BY <1>2, <1>4, RowFacts DEF RowsRead, OfLine
<1> HIDE DEF whole, p
<1>6. PiecesTo(whole, row.n) \subseteq Pieces(whole)
  BY <1>5 DEF PiecesTo, Pieces
<1>7. Moving(Pieces(p)) = Moving(PiecesTo(whole, row.n))
  BY <1>4 DEF ReachesPoint
<1>8. Segments(line) = IF line.direction = 0 THEN Pieces(p) ELSE Turned(Pieces(p))
  BY <1>3, SegmentsOfLine DEF p
<1>9. Track(line) = IF line.direction = 0 THEN Pieces(whole) ELSE Turned(Pieces(whole))
  BY DEF Track, whole
<1>10. Moving(Segments(line)) \subseteq Track(line)
  <2>1. CASE line.direction = 0
    BY <1>6, <1>7, <1>8, <1>9, <2>1 DEF Moving
  <2>2. CASE line.direction # 0
    <3>1. Moving(Segments(line)) = Moving(Turned(PiecesTo(whole, row.n)))
      BY <1>7, <1>8, <2>2, MovingTurned
    <3> QED
      BY <1>6, <1>9, <2>2, <3>1 DEF Moving, Turned
  <2> QED
    BY <2>1, <2>2
<1>11. ASSUME unread = {}
       PROVE  /\ ReachesPoint(p, whole, Len(whole), request.kind)
              /\ Moving(Segments(line)) = Moving(Track(line))
  <2> DEFINE end == [use |-> row.use, n |-> Len(whole)]
  <2>1. end \in Rows(tables, request)
    <3>1. Len(whole) \in 1 .. Len(tables.shapes[row.use.id])
      BY <1>5 DEF whole
    <3> QED
      BY <1>2, <1>5, <3>1, RowFacts
  <2>2. end \in RowsRead /\ OfLine(line, end)
    BY <1>4, <1>11, <2>1 DEF RowsRead, OfLine
  <2>3. row.n = Len(whole)
    BY <1>4, <1>5, <2>2
  <2>4. Moving(Pieces(p)) = Moving(Pieces(whole))
    BY <1>7, <2>3 DEF PiecesTo, Pieces
  <2>5. Moving(Segments(line)) = Moving(Track(line))
    BY <1>8, <1>9, <2>4, MovingTurned
  <2> QED
    BY <1>4, <2>3, <2>5
<1> QED
  BY <1>10, <1>11 DEF whole, p

(* What is answered when all rows were read.                               *)
LEMMA EachIsFetchedOnce == LinesInv /\ stage # "failed" /\ unread = {} => FetchesEachOnce
<1> SUFFICES ASSUME LinesInv, stage # "failed", unread = {}
             PROVE  FetchesEachOnce
  OBVIOUS
<1>1. LinesTypeOK /\ LinesAreRead /\ RowsRead = Rows(tables, request)
  BY DEF LinesInv, RowsRead
<1>2. tables \in Networks /\ fetched \in Seq(FetchedLines(tables))
      /\ DOMAIN fetched = 1 .. Len(fetched)
  BY <1>1 DEF LinesTypeOK
<1>3. ASSUME NEW k \in DOMAIN fetched
      PROVE  /\ fetched[k].trip \in Nat /\ fetched[k].id \in Nat
             /\ fetched[k].points \in Seq(Points)
             /\ UseOf(fetched[k]) \in Uses(tables, request)
             /\ fetched[k].color = tables.colors[fetched[k].route]
  <2>1. fetched[k] \in FetchedLines(tables) /\ LineIsRead(tables, request, RowsRead, fetched[k])
    BY <1>1, <1>2 DEF LinesAreRead
  <2> QED
    BY <2>1 DEF FetchedLines, LineIsRead
<1>4. ASSUME NEW u \in Uses(tables, request)
      PROVE  \E k \in DOMAIN fetched : <<fetched[k].trip, fetched[k].id>> = <<u.trip, u.id>>
  <2>1. PICK x \in Selected(tables, request) : u = Use(tables, request, x)
    BY DEF Uses
  <2>2. u.id \in DOMAIN tables.shapes
    BY <2>1 DEF Selected, Use
  <2>3. 1 \in DOMAIN tables.shapes[u.id]
    BY <1>2, <2>2, NetworksAssumption
  <2>4. [use |-> u, n |-> 1] \in Rows(tables, request)
    <3>1. [use |-> u, n |-> 1] \in {[use |-> u, n |-> i] : i \in DOMAIN tables.shapes[u.id]}
      BY <2>3
    <3> QED
      BY <3>1 DEF Rows
  <2>5. PICK k \in DOMAIN fetched : OfLine(fetched[k], [use |-> u, n |-> 1])
    BY <1>1, <2>4 DEF LinesAreRead
  <2> QED
    BY <2>5 DEF OfLine
<1>5. {<<fetched[k].trip, fetched[k].id>> : k \in DOMAIN fetched}
        = {<<u.trip, u.id>> : u \in Uses(tables, request)}
  <2>1. ASSUME NEW k \in DOMAIN fetched
        PROVE  <<fetched[k].trip, fetched[k].id>>
                 \in {<<u.trip, u.id>> : u \in Uses(tables, request)}
    <3>1. /\ UseOf(fetched[k]) \in Uses(tables, request)
          /\ UseOf(fetched[k]).trip = fetched[k].trip /\ UseOf(fetched[k]).id = fetched[k].id
      BY <1>3 DEF UseOf
    <3> QED
      BY <3>1
  <2> QED
    BY <1>4, <2>1
<1>6. ASSUME NEW k \in DOMAIN fetched, NEW l \in DOMAIN fetched,
             fetched[k].trip = fetched[l].trip, fetched[k].id = fetched[l].id
      PROVE  k = l
  <2>1. ~(k < l) /\ ~(l < k)
    BY <1>1, <1>3, <1>6 DEF LinesAreRead
  <2> QED
    BY <1>2, <2>1
<1>7. ASSUME NEW k \in DOMAIN fetched
      PROVE  LET line == fetched[k]
                 whole == tables.shapes[line.id]
             IN  /\ UseOf(line) \in Uses(tables, request)
                 /\ line.color = tables.colors[line.route]
                 /\ Moving(Pieces(line.points)) = Moving(Pieces(whole))
                 /\ request.kind = "trips" => line.points = whole
  <2> DEFINE p == fetched[k].points
             whole == tables.shapes[fetched[k].id]
  <2>1. ReachesPoint(p, whole, Len(whole), request.kind)
    BY SegmentsAreTrack
  <2>2. whole \in Seq(Points)
    <3>1. fetched[k].id \in DOMAIN tables.shapes
      <4>1. PICK x \in Selected(tables, request) :
                UseOf(fetched[k]) = Use(tables, request, x)
        BY <1>3 DEF Uses
      <4> QED
        BY <4>1 DEF Selected, Use, UseOf
    <3> QED
      BY <1>2, <3>1, NetworksAssumption
  <2>3. p \in Seq(Points)
    BY <1>3
  <2> HIDE DEF p, whole
  <2>4. Moving(Pieces(p)) = Moving(Pieces(whole))
    BY <2>1 DEF ReachesPoint, PiecesTo, Pieces
  <2>5. request.kind = "trips" => p = whole
    BY <2>1, <2>2, <2>3 DEF ReachesPoint
  <2> QED
    BY <1>3, <2>4, <2>5 DEF p, whole
<1> QED
  BY <1>5, <1>6, <1>7 DEF FetchesEachOnce

(* When all shapes were cut, the segments of all lines are seen.           *)
LEMMA AllIsDrawn ==
    ASSUME LinesInv, stage = "done", request.kind = "lines"
    PROVE  DrawsEachPieceOnce /\ (unread = {} => DrawsEveryTrack)
<1>1. /\ LinesTypeOK /\ Progress /\ SeenIsBegun /\ DrawnIsSeen
      /\ left = {} /\ shape = 0
  BY DEF LinesInv, Progress
<1>2. fetched \in Seq(FetchedLines(tables)) /\ DOMAIN fetched = 1 .. Len(fetched)
  BY <1>1 DEF LinesTypeOK
<1>3. seen = UNION {Segments(fetched[k]) : k \in DOMAIN fetched}
  <2>1. \A k \in DOMAIN fetched : Begun(k) = Count(fetched[k])
    BY <1>1, <1>2 DEF Begun
  <2> QED
    BY <1>1, <2>1 DEF SeenIsBegun, Segments
<1>4. NoPieceTwice(drawn) /\ PiecesOf(drawn) = seen
  BY <1>1 DEF DrawnIsSeen
<1>5. ASSUME NEW n \in DOMAIN drawn
      PROVE  \E k \in DOMAIN fetched :
                 /\ drawn[n].route = fetched[k].route /\ drawn[n].color = fetched[k].color
                 /\ Moving(Pieces(drawn[n].points)) \subseteq Track(fetched[k])
  <2>1. PICK k \in DOMAIN fetched : CutFrom(drawn[n], fetched[k])
    BY <1>1 DEF DrawnIsSeen
  <2>2. Moving(Segments(fetched[k])) \subseteq Track(fetched[k])
    BY SegmentsAreTrack
  <2>3. Moving(Pieces(drawn[n].points)) \subseteq Moving(Segments(fetched[k]))
    BY <2>1 DEF CutFrom, Moving
  <2> QED
    BY <2>1, <2>2, <2>3 DEF CutFrom
<1>6. DrawsEachPieceOnce
  BY <1>4, <1>5 DEF DrawsEachPieceOnce
<1>7. ASSUME unread = {}
      PROVE  DrawsEveryTrack
  <2>1. \A k \in DOMAIN fetched : Moving(Segments(fetched[k])) = Moving(Track(fetched[k]))
    BY <1>7, SegmentsAreTrack
  <2>2. ASSUME NEW s, s[1] # s[2], NEW k \in DOMAIN fetched
        PROVE  s \in Segments(fetched[k]) <=> s \in Track(fetched[k])
    BY <2>1, <2>2 DEF Moving
  <2>3. ASSUME NEW s
        PROVE  s \in Moving(seen)
                 <=> s \in Moving(UNION {Track(fetched[k]) : k \in DOMAIN fetched})
    BY <1>3, <2>2 DEF Moving
  <2>4. Moving(seen) = Moving(UNION {Track(fetched[k]) : k \in DOMAIN fetched})
    BY <2>3
  <2> QED
    BY <1>4, <2>4 DEF DrawsEveryTrack
<1> QED
  BY <1>6, <1>7

(* What the invariant says at the end is what was promised.                *)
LEMMA LinesInvSuffices == LinesInv => LinesSurvive
BY EachIsFetchedOnce, AllIsDrawn DEF LinesInv, LinesSurvive

(* Every step keeps the invariant.                                         *)
LEMMA LinesStep == LinesInv /\ [LinesNext]_lineVars => LinesInv'
<1> SUFFICES ASSUME LinesInv, [LinesNext]_lineVars
             PROVE  LinesInv'
  OBVIOUS
<1>1. CASE Ask
  BY <1>1, AskKeeps
<1>2. CASE Scan
  BY <1>2, ScanKeeps
<1>3. CASE AllScanned
  BY <1>3, ScannedKeeps DEF AllScanned
<1>4. CASE BreaksOff
  BY <1>4, ScannedKeeps DEF BreaksOff
<1>5. CASE NextShape
  BY <1>5, NextShapeKeeps
<1>6. CASE Draw
  BY <1>6, DrawKeeps
<1>7. CASE EndShape
  BY <1>7, EndShapeKeeps
<1>8. CASE EndCut
  BY <1>8, EndCutKeeps
<1>9. CASE UNCHANGED lineVars
  <2> USE <1>9 DEF lineVars, cutting
  <2>1. LinesTypeOK <=> LinesTypeOK'
    BY DEF LinesTypeOK
  <2>2. (Progress <=> Progress') /\ (FailsForReason <=> FailsForReason')
    BY DEF Progress, FailsForReason
  <2>3. (ReadInOrder <=> ReadInOrder') /\ (LinesAreRead <=> LinesAreRead')
    BY DEF ReadInOrder, LinesAreRead, RowsRead
  <2>4. /\ SeenIsBegun <=> SeenIsBegun'
        /\ DrawnIsSeen <=> DrawnIsSeen'
        /\ OpenLine <=> OpenLine'
    BY DEF SeenIsBegun, Begun, DrawnIsSeen, OpenLine
  <2> QED
    BY <2>1, <2>2, <2>3, <2>4 DEF LinesInv
<1> QED
  BY <1>1, <1>2, <1>3, <1>4, <1>5, <1>6, <1>7, <1>8, <1>9
     DEF LinesNext, RemoveDuplicateSegments

(* The rows are read in order into the lines they belong to, and the       *)
(* segments of the lines are seen and drawn one after the other.           *)
THEOREM LinesInvariance == LinesSpec => []LinesInv
<1>1. LinesInit => LinesInv
  BY LinesBegin
<1>2. LinesInv /\ [LinesNext]_lineVars => LinesInv'
  BY LinesStep
<1> QED
  BY <1>1, <1>2, PTL DEF LinesSpec

(* For every network and every request: the answer has each trip, or each  *)
(* shape, once and whole, and the lines of the map draw each piece of      *)
(* track once.                                                             *)
THEOREM LinesSurvival == LinesSpec => []LinesSurvive
<1>1. LinesInv => LinesSurvive
  BY LinesInvSuffices
<1> QED
  BY <1>1, LinesInvariance, PTL
-----------------------------------------------------------------------------
(***************************************************************************)
(* ArrivalsPage, for every timetable, every length of the day and of the   *)
(* window, and every number of moves and faults                            *)
(***************************************************************************)

(* Every moment is a date and a time of that day.                          *)
LEMMA Clockwork ==
    ASSUME NEW now \in Nat
    PROVE  /\ Today(now) \in Nat
           /\ TimeOfDay(now) \in 0 .. (Day - 1)
           /\ now = (Today(now) * Day) + TimeOfDay(now)
<1>1. Day \in Nat \ {0}
  BY DayAssumption
<1> QED
  BY <1>1, Z3 DEF Today, TimeOfDay

(* Whole days: a day earlier is Day units less, and dates before that are  *)
(* earlier still.                                                          *)
LEMMA DaysBefore ==
    ASSUME NEW t \in Nat, NEW d \in Nat
    PROVE  /\ d * Day \in Nat /\ t * Day \in Nat
           /\ d = t - 1 => d * Day = (t * Day) - Day
           /\ d <= t - 2 => (d * Day) + (2 * Day) <= t * Day
<1>1. Day \in Nat /\ d * Day \in Nat /\ t * Day \in Nat
  BY DayAssumption
<1>2. ASSUME d = t - 1
      PROVE  d * Day = (t * Day) - Day
  BY <1>1, <1>2
<1>3. ASSUME d <= t - 2
      PROVE  (d * Day) + (2 * Day) <= t * Day
  <2>1. PICK k \in Nat : t = (d + 2) + k
    <3>1. t - (d + 2) \in Nat /\ t = (d + 2) + (t - (d + 2))
      BY <1>3
    <3> QED
      BY <3>1
  <2>2. t * Day = ((d * Day) + (2 * Day)) + (k * Day) /\ k * Day \in Nat
    BY <2>1, <1>1
  <2> QED
    BY <1>1, <2>2
<1> QED
  BY <1>1, <1>2, <1>3

(* One stop time is fetched exactly when it is due within the hour: on the *)
(* date of the clock, or on the date before it and past midnight.  The     *)
(* services of earlier dates are over.                                     *)
LEMMA DueWithinTheHour ==
    ASSUME NEW now \in Nat, NEW s \in StopTimes
    PROVE  (\/ /\ s.date = Today(now)
               /\ s.arrival >= TimeOfDay(now) /\ s.arrival <= TimeOfDay(now) + Hour
            \/ /\ s.date = Today(now) - 1
               /\ s.arrival >= Day + TimeOfDay(now)
               /\ s.arrival <= (Day + TimeOfDay(now)) + Hour)
           <=> /\ now <= Moment(s) /\ Moment(s) <= now + Hour
               /\ s.date <= Today(now)
<1> DEFINE t == Today(now)
           o == TimeOfDay(now)
           d == s.date
           a == s.arrival
<1>1. /\ t \in Nat /\ o \in Nat /\ o < Day
      /\ now = (t * Day) + o
  BY Clockwork, DayAssumption
<1>2. d \in Nat /\ a \in Nat /\ a < 2 * Day /\ Day \in Nat /\ Hour \in Nat
  BY StopTimeAssumption, DayAssumption
<1>3. Moment(s) = (d * Day) + a
  BY DEF Moment
<1> HIDE DEF t, o, d, a
<1>4. /\ d * Day \in Nat /\ t * Day \in Nat
      /\ d = t - 1 => d * Day = (t * Day) - Day
      /\ d <= t - 2 => (d * Day) + (2 * Day) <= t * Day
  BY <1>1, <1>2, DaysBefore
<1> DEFINE x == d * Day
           y == t * Day
<1>5. /\ x \in Nat /\ y \in Nat
      /\ d = t - 1 => x = y - Day
      /\ d <= t - 2 => x + (2 * Day) <= y
      /\ d = t => x = y
      /\ now = y + o
      /\ Moment(s) = x + a
  BY <1>1, <1>3, <1>4
<1> HIDE DEF x, y
<1>6. CASE d = t
  BY <1>1, <1>2, <1>5, <1>6 DEF t, o, d, a
<1>7. CASE d = t - 1
  BY <1>1, <1>2, <1>5, <1>7 DEF t, o, d, a
<1>8. CASE d <= t - 2
  BY <1>1, <1>2, <1>5, <1>8 DEF t, o, d, a
<1>9. CASE d > t
  BY <1>1, <1>2, <1>5, <1>9 DEF t, o, d, a
<1> QED
  BY <1>1, <1>2, <1>6, <1>7, <1>8, <1>9

(* The two branches of the query are the window around the clock.          *)
LEMMA FetchesTheUpcoming ==
    ASSUME NEW stop, NEW now \in Nat
    PROVE  FetchArrivals(stop, now) = Upcoming(stop, now)
BY DueWithinTheHour DEF FetchArrivals, Upcoming

(* No stop time is one of the stop that is not selected.                   *)
LEMMA NothingIsUpcoming == Upcoming(Nil, 0) = {}
BY StopTimeAssumption, UnknownAssumption DEF Upcoming

(* The page starts with no arrivals, and with a loop that has not asked.   *)
LEMMA InitIInv == Init => IInv
<1>1. Nothing \in Answers
  BY BoundsAssumption DEF Nothing, Answers
<1>2. ASSUME Init PROVE TypeOK
  BY <1>1, <1>2, BoundsAssumption DEF Init, TypeOK
<1>3. Init => ArrivalsAreUpcoming
  BY NothingIsUpcoming DEF Init, ArrivalsAreUpcoming, Nothing
<1> QED
  BY <1>2, <1>3 DEF IInv

(* App and the loop keep their selection among the stops.                  *)
LEMMA SelectsAStop ==
    ASSUME TypeOK, NEW u, ReceiveProps(u), known' \subseteq Stops
    PROVE  app' \in Stops \cup {Nil} /\ selected' \in Stops \cup {Nil} /\ props' \subseteq Stops
BY DEF ReceiveProps, TypeOK

(* A step of the page keeps every variable in its range.                   *)
LEMMA TypeStep == TypeOK /\ [Next]_vars => TypeOK'
<1> SUFFICES ASSUME TypeOK, [Next]_vars PROVE TypeOK'
  OBVIOUS
<1> USE BoundsAssumption
<1>1. CASE Tick
  BY <1>1 DEF Tick, page, TypeOK, Answers
<1>2. CASE Navigate
  <2>1. PICK u \in (Stops \cup {Unknown, Nil}) \ {url} : url' = u /\ ReceiveProps(u)
    BY <1>2 DEF Navigate
  <2>2. known' = known
    BY <1>2 DEF Navigate
  <2>3. app' \in Stops \cup {Nil} /\ selected' \in Stops \cup {Nil} /\ props' \subseteq Stops
    BY <2>1, <2>2, SelectsAStop DEF TypeOK
  <2> QED
    BY <1>2, <2>1, <2>2, <2>3 DEF Navigate, TypeOK
<1>3. CASE Message
  <2>1. known' \subseteq Stops /\ faults' \in 0 .. MaxFaults
    BY <1>3 DEF Message, StopsMessage, VehiclesMessage, Fault, TypeOK
  <2>2. app' \in Stops \cup {Nil} /\ selected' \in Stops \cup {Nil} /\ props' \subseteq Stops
    BY <1>3, <2>1, SelectsAStop DEF Message
  <2>3. received' \in {"nothing", "stops", "vehicles"}
    BY <1>3 DEF Message, StopsMessage, VehiclesMessage
  <2> QED
    BY <1>3, <2>1, <2>2, <2>3 DEF Message, TypeOK
<1>4. CASE SocketCloses
  BY <1>4 DEF SocketCloses, TypeOK
<1>5. CASE Update
  <2>1. answer' \in Answers
    BY <1>5 DEF Update, Nothing, Answers, TypeOK
  <2> QED
    BY <1>5, <2>1 DEF Update, page, TypeOK
<1>6. CASE HandleArrivals
  <2>1. FetchArrivals(answer.stop, clock) \in SUBSET StopTimes
    BY DEF FetchArrivals
  <2>2. answer' \in Answers
    BY <1>6, <2>1 DEF HandleArrivals, Answered, Answers, TypeOK
  <2>3. loop' \in {"answered", "refused"} /\ faults' \in 0 .. MaxFaults
    BY <1>6 DEF HandleArrivals, Answered, Fault, TypeOK
  <2> QED
    BY <1>6, <2>2, <2>3 DEF HandleArrivals, page, TypeOK
<1>7. CASE RequestFails
  BY <1>7 DEF RequestFails, Fault, page, TypeOK
<1>8. CASE ProcessArrivals
  BY <1>8 DEF ProcessArrivals, page, TypeOK, Nothing, Answers
<1>9. CASE Caught
  BY <1>9 DEF Caught, page, TypeOK, Nothing, Answers
<1>10. CASE UNCHANGED vars
  BY <1>10 DEF vars, page, TypeOK
<1> QED
  BY <1>1, <1>2, <1>3, <1>4, <1>5, <1>6, <1>7, <1>8, <1>9, <1>10 DEF Next, Loop

(* The answer of the server is made of what is due at that moment; the     *)
(* store takes it over as a whole, whenever that is.                       *)
LEMMA UpcomingStep == IInv /\ [Next]_vars => ArrivalsAreUpcoming'
<1> SUFFICES ASSUME IInv, [Next]_vars PROVE ArrivalsAreUpcoming'
  OBVIOUS
<1> USE DEF IInv
<1>1. shown.rows = Upcoming(shown.stop, shown.at)
  BY DEF ArrivalsAreUpcoming
<1>2. loop = "answered" => answer.rows = Upcoming(answer.stop, answer.at)
  BY DEF ArrivalsAreUpcoming
<1>3. SUFFICES /\ shown'.rows = Upcoming(shown'.stop, shown'.at)
               /\ loop' = "answered" => answer'.rows = Upcoming(answer'.stop, answer'.at)
  BY DEF ArrivalsAreUpcoming
<1>4. CASE Tick \/ Navigate \/ Message \/ SocketCloses \/ UNCHANGED vars
  BY <1>1, <1>2, <1>4 DEF Tick, Navigate, Message, SocketCloses, vars
<1>5. CASE Update \/ RequestFails \/ Caught
  BY <1>1, <1>5 DEF Update, RequestFails, Caught
<1>6. CASE HandleArrivals
  <2>1. clock \in Nat
    BY BoundsAssumption DEF TypeOK
  <2>2. FetchArrivals(answer.stop, clock) = Upcoming(answer.stop, clock)
    BY <2>1, FetchesTheUpcoming
  <2>3. loop' = "answered" =>
            answer' = [answer EXCEPT !.at = clock, !.rows = FetchArrivals(answer.stop, clock)]
    BY <1>6 DEF HandleArrivals, Answered
  <2>4. answer \in [stop : Stops \cup {Nil}, at : 0 .. MaxClock, rows : SUBSET StopTimes]
    BY DEF TypeOK, Answers
  <2>5. loop' = "answered" =>
            /\ answer'.stop = answer.stop /\ answer'.at = clock
            /\ answer'.rows = FetchArrivals(answer.stop, clock)
    BY <2>3, <2>4
  <2> QED
    BY <1>1, <1>6, <2>2, <2>5 DEF HandleArrivals
<1>7. CASE ProcessArrivals
  BY <1>2, <1>7 DEF ProcessArrivals
<1> QED
  BY <1>4, <1>5, <1>6, <1>7 DEF Next, Loop

(* The inductive invariant of the page holds in every reachable state.     *)
THEOREM PageInvariance == Spec => []IInv
<1>1. IInv /\ [Next]_vars => IInv'
  BY TypeStep, UpcomingStep DEF IInv
<1> QED
  BY InitIInv, <1>1, PTL DEF Spec

(* Every variable of the page stays in its range.                          *)
THEOREM PageTypeCorrect == Spec => []TypeOK
<1>1. IInv => TypeOK
  BY DEF IInv
<1> QED
  BY PageInvariance, <1>1, PTL

(* What HandleArrivals answers and what the page shows are the stop times  *)
(* due within the hour, for every timetable and on either side of every    *)
(* midnight.                                                               *)
THEOREM ShowsTheUpcoming == Spec => []ArrivalsAreUpcoming
<1>1. IInv => ArrivalsAreUpcoming
  BY DEF IInv
<1> QED
  BY PageInvariance, <1>1, PTL
=============================================================================
