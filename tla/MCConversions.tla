--------------------------- MODULE MCConversions ---------------------------
(***************************************************************************)
(* The conversions of Realtime on bounded inputs, each compared with what  *)
(* should come out, the loads of StaticRows, and the requests of           *)
(* RouteLines.  A behavior converts one input, loads one file, or answers  *)
(* one request.                                                            *)
(***************************************************************************)
EXTENDS Realtime, StaticRows, RouteLines

VARIABLES input, output

conversion == <<input, output>>
vars == <<conversion, loadVars, lineVars>>
-----------------------------------------------------------------------------
(* Inputs *)

Perhaps(S) == S \cup {Nil}

\* An entity of the feed: without a vehicle position, without a vehicle, or with both.
VehicleReports ==
    {Nil} \cup
    [trip : Perhaps([trip_id : {"t1"}, route_id : Perhaps({"r0", "r9"})]),
     vehicle : Perhaps([id : Perhaps({"v1"}), label : Perhaps({"100 Bus"})]),
     position : Perhaps([lat : {45}, lng : {-122}, bearing : Perhaps({90 * 10, 905}),
                          odometer : {Nil}, speed : {12}]),
     current_stop_sequence : Perhaps({7}), stop_id : {"s1"},
     current_status : Perhaps({1}), timestamp : {1000},
     congestion_level : {Nil}, occupancy_status : Perhaps({2})]

\* The report that the row shows before.
Earlier == [trip |-> [trip_id |-> "t0", route_id |-> "r0"],
            vehicle |-> [id |-> "v1", label |-> "old"],
            position |-> [lat |-> 44, lng |-> -121, bearing |-> 10, odometer |-> Nil,
                          speed |-> Nil],
            current_stop_sequence |-> 3, stop_id |-> "s0", current_status |-> 0,
            timestamp |-> 900, congestion_level |-> 1, occupancy_status |-> 1]

\* The message is written by this, by an older or by a newer version of the program.
Versions == {"same", "older", "newer"}
Forgotten == {"occupancy_status", "uncertainty"}
Written(version) ==
    CASE version = "same" -> Schema
      [] version = "older" -> Older(Forgotten)
      [] version = "newer" -> Newer

Event(time, uncertainty) == [delay |-> 60, time |-> time, uncertainty |-> uncertainty]

StopTimeUpdates ==
    {[stop_sequence |-> 1, stop_id |-> "s1", arrival |-> Event(7200, 30),
      departure |-> Nil, schedule_relationship |-> 0],
     [stop_sequence |-> Nil, stop_id |-> "s2", arrival |-> Nil,
      departure |-> Event(Nil, Nil), schedule_relationship |-> Nil],
     [stop_sequence |-> 3, stop_id |-> Nil, arrival |-> Event(Nil, 32768),
      departure |-> Event(10800, Nil), schedule_relationship |-> 1]}

\* An entity of the feed: with a trip update, which names a trip but perhaps not its id,
\* or without.
TripUpdateEntities ==
    Perhaps([trip : [trip_id : Perhaps({"t1", "t2"}), route_id : Perhaps({"r1"})],
              vehicle : Perhaps([id : {"v1"}, label : {Nil}]),
              stop_time_update : {<<>>} \cup {<<a>> : a \in StopTimeUpdates}
                    \cup {<<a, b>> : a, b \in StopTimeUpdates},
              timestamp : Perhaps({3600}), delay : {0}])

\* A feed of two entities, the second from a few of the possible ones.
Second == {e \in TripUpdateEntities : e # Nil => /\ e.trip.trip_id # "t1"
                                               /\ e.trip.route_id = Nil
                                               /\ e.vehicle = Nil
                                               /\ Len(e.stop_time_update) < 2}

MCPoints == 1 .. 3
Paths == UNION {[1 .. n -> MCPoints] : n \in 1 .. 3}

\* The points are numbered as the first shape comes to them.
FirstPaths == {p \in Paths : \A n \in DOMAIN p : \A q \in 1 .. p[n] - 1 :
                                  \E m \in 1 .. n - 1 : p[m] = q}

\* Networks of two shapes, of which the second is not measured, and three trips: the
\* third uses the first shape for another route, in the other direction or in none, or a
\* shape that there is not.
MCNetworks ==
    {[shapes |-> (10 :> p) @@ (11 :> q),
      trips |-> (1 :> [shape |-> 10, route |-> "r1", direction |-> 0])
             @@ (2 :> [shape |-> 11, route |-> "r2", direction |-> d])
             @@ (3 :> [shape |-> x[1], route |-> x[2], direction |-> x[3]]),
      colors |-> ("r1" :> "blue") @@ ("r2" :> "red"), unmeasured |-> {11}] :
        p \in FirstPaths, q \in Paths, d \in {0, 1},
        x \in {<<10, "r1", 1>>, <<10, "r2", 0>>, <<10, "r2", Nil>>, <<12, "r1", 0>>}}

Asked(kind, trips, routeIDs, shapeIDs) ==
    [kind |-> kind, trips |-> trips, routeIDs |-> routeIDs, shapeIDs |-> shapeIDs]
MCRequests ==
    {Asked("lines", {}, {}, {}), Asked("trips", {1, 3, 4}, {}, {}),
     Asked("shapes", {}, {}, {}), Asked("shapes", {}, {}, {10}),
     Asked("shapes", {}, {"r1"}, {}), Asked("shapes", {}, {"r1", "r2"}, {10, 12})}

\* A good row of each file, of which some fields are emptied or spoilt.
GoodRow == [
    calendar_dates |-> <<<<"C">>, <<"12">>, <<"1">>>>,
    services |-> <<<<"C">>, <<"12">>, <<"1">>>>,
    routes |-> <<<<"9">>, <<"TRIMET">>, <<"9">>, <<"Powell">>, <<"3">>, <<"http", "//r9">>,
                 <<"ff">>, <<"00">>, <<"40">>>>,
    shapes |-> <<<<"7">>, <<"45">>, <<"22">>, <<"1">>, <<"0">>>>,
    stops |-> <<<<"2">>, <<"2">>, <<"A Ave">>, <<"Eastbound">>, <<"45">>, <<"22">>, <<"B">>,
                <<"http", "//s2">>, <<"1">>, <<"P">>, <<"East">>, <<"Near">>>>,
    stop_times |-> <<<<"t">>, <<"25", "4", "0">>, <<"25", "5", "30">>, <<"2">>, <<"1">>,
                     <<"45th Ave">>, <<"0">>, <<"1">>, <<"8">>, <<"1">>, <<"0">>, <<"1">>>>,
    trips |-> <<<<"9">>, <<"C">>, <<"t">>, <<"1">>, <<"90">>, <<"7">>, <<"">>>>]

Files == DOMAIN GoodRow
Spoilt(file) ==
    {[GoodRow[file] EXCEPT ![a] = x, ![b] = y] :
        a, b \in DOMAIN GoodRow[file], x, y \in {EmptyText, <<"x">>, <<"3">>, <<"1", "2">>}}

\* A file of its header, such a row, and a good row again.
MCCSVs ==
    UNION {{[file |-> file,
             rows |-> <<[n \in DOMAIN Header[file] |-> <<Header[file][n]>>], row,
                        GoodRow[file]>>] : row \in Spoilt(file)} : file \in Files}

Inputs ==
    [kind : {"vehicle"}, report : VehicleReports, version : Versions, known : BOOLEAN]
    \cup [kind : {"trips"}, feed : {<<a, b>> : a \in TripUpdateEntities, b \in Second},
          version : Versions, zone : {0, -8}]
-----------------------------------------------------------------------------
(* The conversions *)

RouteTypes == ("r0" :> 0)

\* A report on its way to the table; the producer may die of it.
Store(table, report, version) ==
    LET vp == RequestVehiclePosition(report)
        Message == ProduceVehiclePosition(Written(version), vp.v)
    IN  IF vp.ok /\ Message.ok THEN StoreVehicle(table, Message.v) ELSE table

ConvertVehicle ==
    /\ input.kind = "vehicle"
    /\ LET before == IF input.known THEN Store(<< >>, Earlier, "same") ELSE << >>
       IN  output' = Store(before, input.report, input.version)

\* What is stored before: an empty message.
NoRows == [trips |-> << >>, stops |-> {}]

ConvertTrips ==
    /\ input.kind = "trips"
    /\ output' = FetchTripUpdates(
          StoreTripUpdates(NoRows, ProduceTripUpdates(Written(input.version),
                                                      RequestTripUpdate(input.feed)),
                           input.zone))

Convert ==
    /\ output = Nil
    /\ ConvertVehicle \/ ConvertTrips
    /\ UNCHANGED input
-----------------------------------------------------------------------------
(* One of the three *)

NoConversion == input = [kind |-> "none"] /\ output = Nil
NoLoad == csv = Nil /\ count = 0 /\ ids = {} /\ copied = << >> /\ load = "failed"
NoRequest ==
    /\ tables = Nil /\ request = Asked("shapes", {}, {}, {}) /\ stage = "refused"
    /\ unread = {} /\ fetched = << >>
    /\ left = {} /\ shape = 0 /\ at = 0 /\ seen = {} /\ drawn = << >> /\ open = FALSE

Init ==
    \/ input \in Inputs /\ output = Nil /\ NoLoad /\ NoRequest
    \/ NoConversion /\ BulkReplaceInit /\ NoRequest
    \/ NoConversion /\ NoLoad /\ LinesInit

Next ==
    \/ Convert /\ UNCHANGED <<loadVars, lineVars>>
    \/ BulkReplace /\ UNCHANGED <<conversion, lineVars>>
    \/ LinesNext /\ UNCHANGED <<conversion, loadVars>>

Spec == Init /\ [][Next]_vars

Done == output # Nil
-----------------------------------------------------------------------------
(* What should come out *)

\* The report, as far as it is kept: without odometer, speed and the levels, and with
\* 0, "" or IN_TRANSIT_TO for what it does not say.
ExpectedVehicle(report) ==
    LET p == IF report.position = Nil THEN [lat |-> 0, lng |-> 0, bearing |-> Nil]
             ELSE report.position
        trip == IF report.trip = Nil THEN [trip_id |-> Nil, route_id |-> Nil]
                ELSE report.trip
    IN  [trip |-> trip, vehicle |-> report.vehicle,
         position |-> [lat |-> p.lat, lng |-> p.lng,
                       bearing |-> IF p.bearing = Nil THEN 0 ELSE p.bearing,
                       odometer |-> 0, speed |-> 0],
         current_stop_sequence |-> IF report.current_stop_sequence = Nil THEN 0
                                   ELSE report.current_stop_sequence,
         stop_id |-> report.stop_id,
         current_status |-> IF report.current_status = Nil THEN 2 ELSE report.current_status,
         timestamp |-> report.timestamp, congestion_level |-> 0, occupancy_status |-> 0,
         route_type |-> IF trip.route_id = "r0" THEN 0 ELSE 3]

\* The report names its vehicle, and smallint holds whole degrees.
Storable(report) ==
    /\ report # Nil
    /\ report.vehicle # Nil
    /\ report.vehicle.id # Nil
    /\ report.position # Nil /\ report.position.bearing # Nil
          => report.position.bearing % 10 = 0

(* The API answers what TriMet reported of a vehicle: nothing of an older  *)
(* report is left in the row, nil and NULL come out as they went in, and a *)
(* message of another version of the program is read as far as it is       *)
(* known.  A report without a vehicle's id, or whose bearing is not whole,  *)
(* is lost.                                                                *)
VehiclesSurvive ==
    Done /\ input.kind = "vehicle" =>
        LET kept == IF Storable(input.report) THEN {input.report}
                    ELSE IF input.known THEN {Earlier} ELSE {}
        IN  /\ DOMAIN output = {r.vehicle.id : r \in kept}
            /\ \A r \in kept :
                  FetchVehiclePosition("v1", output["v1"], RouteTypes) = ExpectedVehicle(r)

\* An event, with its time shifted; an older version does not tell the uncertainty.
ExpectedEvent(e) ==
    IF e = Nil THEN [delay |-> Nil, time |-> Nil, uncertainty |-> Nil]
    ELSE [delay |-> e.delay,
          time |-> IF e.time = Nil THEN Nil ELSE e.time + 3600 * input.zone,
          uncertainty |-> IF input.version = "older" THEN Nil ELSE e.uncertainty]

ExpectedUpdate(u) ==
    [trip |-> u.trip,
     vehicle |-> IF u.vehicle = Nil THEN [id |-> Nil, label |-> Nil] ELSE u.vehicle,
     stop_time_update |->
        [k \in DOMAIN u.stop_time_update |->
            [u.stop_time_update[k] EXCEPT !.arrival = ExpectedEvent(@),
                                          !.departure = ExpectedEvent(@)]],
     timestamp |-> IF u.timestamp = Nil THEN Nil ELSE u.timestamp + 3600 * input.zone,
     delay |-> u.delay]

\* The version that writes the message tells an uncertainty that no smallint holds.
TooUncertain(u) ==
    /\ input.version # "older"
    /\ \E k \in DOMAIN u.stop_time_update :
          LET a == u.stop_time_update[k].arrival
          IN  a # Nil /\ a.uncertainty # Nil /\ a.uncertainty > 32767

(* The API answers the trip updates of the feed, in order and each with    *)
(* its own stop time updates in order, with times as they were reported if *)
(* the process runs in UTC.  One trip without an id or one uncertainty     *)
(* that is too large loses the whole feed.                                 *)
TripUpdatesSurvive ==
    Done /\ input.kind = "trips" =>
        LET updates == SelectSeq(input.feed, LAMBDA e : e # Nil)
            lost == \E n \in DOMAIN updates :
                       updates[n].trip.trip_id = Nil \/ TooUncertain(updates[n])
        IN  output = IF lost THEN << >>
                     ELSE [n \in DOMAIN updates |-> ExpectedUpdate(updates[n])]
=============================================================================
