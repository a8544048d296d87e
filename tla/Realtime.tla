------------------------------ MODULE Realtime ------------------------------
(***************************************************************************)
(* What becomes of a realtime report on its way: an entity of TriMet's     *)
(* protobuf feed, the struct of package trimet, the message in Kafka, the  *)
(* row of PostgreSQL, and the struct that the API answers.                 *)
(*                                                                         *)
(* Optional fields of the protobuf that are not set, nil pointers and NULL *)
(* are Nil.  Coordinates survive: the six decimals that are stored are     *)
(* more than a float32 has.  Bearings are in tenths of a degree.           *)
(***************************************************************************)
EXTENDS Integers, Codec

\* A result, or a panic or an error of PostgreSQL.
Good(v) == [ok |-> TRUE, v |-> v]
Failed == [ok |-> FALSE, v |-> Nil]
-----------------------------------------------------------------------------
(* The vehicle positions *)

InTransitTo == 2  \* the default of current_status

TripOf(trip) ==
    IF trip = Nil THEN Zero(Schema, Struct("TripDescriptor"))
    ELSE [trip_id |-> trip.trip_id, route_id |-> trip.route_id]

VehicleOf(vehicle) ==
    IF vehicle = Nil THEN Zero(Schema, Struct("VehicleDescriptor"))
    ELSE [id |-> vehicle.id, label |-> vehicle.label]

PositionOf(p) ==
    IF p = Nil THEN Zero(Schema, Struct("Position"))
    ELSE [lat |-> p.lat, lng |-> p.lng, bearing |-> Get(p.bearing, 0),
          odometer |-> Get(p.odometer, 0), speed |-> Get(p.speed, 0)]

\* One entity of RequestVehiclePositions: the getters accept an entity without a
\* vehicle, the access to its trip does not.
RequestVehiclePosition(e) ==
    IF e = Nil THEN Failed
    ELSE Good([current_stop_sequence |-> Get(e.current_stop_sequence, 0),
               stop_id |-> Get(e.stop_id, ""),
               current_status |-> Get(e.current_status, InTransitTo),
               timestamp |-> Get(e.timestamp, 0),
               congestion_level |-> Get(e.congestion_level, 0),
               occupancy_status |-> Get(e.occupancy_status, 0),
               trip |-> TripOf(e.trip),
               vehicle |-> VehicleOf(e.vehicle),
               position |-> PositionOf(e.position)])

\* ProduceVehiclePositions dereferences the id.
ProduceVehiclePosition(schema, vp) ==
    IF vp.vehicle.id = Nil THEN Failed
    ELSE Good(Marshal(schema, Struct("VehiclePosition"), vp))

\* Broken variant: ON CONFLICT leaves the trip as it was.
UpsertKeepsTrip(table, v) ==
    IF v.position.bearing % 10 # 0 THEN Failed
    ELSE LET id == v.vehicle.id
             row == [vehicle_label |-> v.vehicle.label,
                     trip_id |-> IF id \in DOMAIN table THEN table[id].trip_id
                                 ELSE v.trip.trip_id,
                     route_id |-> v.trip.route_id,
                     lon_lat |-> <<v.position.lng, v.position.lat>>,
                     position_bearing |-> v.position.bearing \div 10,
                     current_stop_sequence |-> v.current_stop_sequence,
                     stop_id |-> v.stop_id, current_status |-> v.current_status,
                     timestamp |-> v.timestamp]
         IN  Good([x \in DOMAIN table \cup {id} |-> IF x = id THEN row ELSE table[x]])

\* UpsertVehiclePosition: every column is set anew; a bearing that is not whole is no
\* smallint, and the statement fails.
UpsertVehiclePosition(table, v) ==
    IF v.position.bearing % 10 # 0 THEN Failed
    ELSE LET id == v.vehicle.id
             row == [vehicle_label |-> v.vehicle.label, trip_id |-> v.trip.trip_id,
                     route_id |-> v.trip.route_id,
                     lon_lat |-> <<v.position.lng, v.position.lat>>,
                     position_bearing |-> v.position.bearing \div 10,
                     current_stop_sequence |-> v.current_stop_sequence,
                     stop_id |-> v.stop_id, current_status |-> v.current_status,
                     timestamp |-> v.timestamp]
         IN  Good([x \in DOMAIN table \cup {id} |-> IF x = id THEN row ELSE table[x]])

\* UpsertVehiclePositionBytes.  A message that fails is logged and passed over.
StoreVehicle(table, message) ==
    LET r == UpsertVehiclePosition(table, Unmarshal(Schema, "VehiclePosition", message))
    IN  IF r.ok THEN r.v ELSE table

\* A row as FetchVehiclePositions answers it; types are the types of the routes.
FetchVehiclePosition(id, row, types) ==
    [current_stop_sequence |-> row.current_stop_sequence, stop_id |-> row.stop_id,
     current_status |-> row.current_status, timestamp |-> row.timestamp,
     congestion_level |-> 0, occupancy_status |-> 0,
     trip |-> [trip_id |-> row.trip_id, route_id |-> row.route_id],
     vehicle |-> [id |-> id, label |-> row.vehicle_label],
     position |-> [lat |-> row.lon_lat[2], lng |-> row.lon_lat[1],
                   bearing |-> 10 * row.position_bearing, odometer |-> 0, speed |-> 0],
     route_type |-> IF row.route_id \in DOMAIN types THEN types[row.route_id] ELSE 3]
-----------------------------------------------------------------------------
(* The trip updates *)

EventOf(event) ==
    IF event = Nil THEN Zero(Schema, Struct("StopTimeEvent"))
    ELSE [delay |-> event.delay, time |-> event.time, uncertainty |-> event.uncertainty]

\* Broken variant: the departure is a copy of the arrival.
StopTimeUpdateOfCopy(stu) ==
    [schedule_relationship |-> stu.schedule_relationship,
     stop_sequence |-> stu.stop_sequence, stop_id |-> stu.stop_id,
     arrival |-> EventOf(stu.arrival), departure |-> EventOf(stu.arrival)]

StopTimeUpdateOf(stu) ==
    [schedule_relationship |-> stu.schedule_relationship,
     stop_sequence |-> stu.stop_sequence, stop_id |-> stu.stop_id,
     arrival |-> EventOf(stu.arrival), departure |-> EventOf(stu.departure)]

\* RequestTripUpdate: entities without a trip update are passed over.
RequestTripUpdate(feed) ==
    LET updates == SelectSeq(feed, LAMBDA e : e # Nil)
    IN  [n \in DOMAIN updates |->
            LET u == updates[n]
            IN  [trip |-> TripOf(u.trip), vehicle |-> VehicleOf(u.vehicle),
                 stop_time_update |->
                    [k \in DOMAIN u.stop_time_update |->
                        StopTimeUpdateOf(u.stop_time_update[k])],
                 timestamp |-> u.timestamp, delay |-> u.delay]]

ProduceTripUpdates(schema, updates) ==
    Marshal(schema, Struct("TripUpdatesMsg"), [trip_update |-> updates])

\* A time in a column without a time zone: the wall clock of the process, zone hours
\* from UTC, is stored, and read as if it were UTC.
Stored(time, zone) == IF time = Nil THEN Nil ELSE time + 3600 * zone

MaxSmallint == 32767
Fits(uncertainty) == uncertainty = Nil \/ uncertainty <= MaxSmallint

\* The constraints on the columns: trip_id is NOT NULL, an uncertainty a smallint.
Insertable(update) ==
    /\ update.trip.trip_id # Nil
    /\ \A k \in DOMAIN update.stop_time_update :
          LET stu == update.stop_time_update[k]
          IN  Fits(stu.arrival.uncertainty) /\ Fits(stu.departure.uncertainty)

\* The stop time update as a row, and as FetchTripUpdates reads it.
StopRowOf(stu, zone) ==
    [stu EXCEPT !.arrival.time = Stored(@, zone), !.departure.time = Stored(@, zone)]

\* UpdateTripUpdates replaces all rows, or none: a row that cannot be inserted rolls the
\* whole message back.  The rows of stop_time_updates have their index.
UpdateTripUpdates(rows, updates, zone) ==
    IF \E n \in DOMAIN updates : ~Insertable(updates[n]) THEN rows
    ELSE [trips |-> [n \in DOMAIN updates |->
                        [trip |-> updates[n].trip, vehicle |-> updates[n].vehicle,
                         timestamp |-> Stored(updates[n].timestamp, zone),
                         delay |-> updates[n].delay]],
          stops |-> UNION {{[id |-> n, index |-> k,
                             stu |-> StopRowOf(updates[n].stop_time_update[k], zone)] :
                               k \in DOMAIN updates[n].stop_time_update} :
                           n \in DOMAIN updates}]

StoreTripUpdates(rows, message, zone) ==
    UpdateTripUpdates(rows, Unmarshal(Schema, "TripUpdatesMsg", message).trip_update, zone)

\* FetchTripUpdates: the rows of the second query, in the order of their index, are
\* appended to the trip of their id.
FetchTripUpdates(rows) ==
    [n \in DOMAIN rows.trips |->
        LET own == {r \in rows.stops : r.id = n}
            ordered == SetToSortSeq(own, LAMBDA a, b : a.index < b.index)
        IN  [trip |-> rows.trips[n].trip, vehicle |-> rows.trips[n].vehicle,
             timestamp |-> rows.trips[n].timestamp, delay |-> rows.trips[n].delay,
             stop_time_update |-> [k \in DOMAIN ordered |-> ordered[k].stu]]]
=============================================================================
