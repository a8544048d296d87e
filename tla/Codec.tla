------------------------------- MODULE Codec -------------------------------
(***************************************************************************)
(* The messages of the two Kafka topics: the structs of package trimet and *)
(* the MessagePack code generated for them (vehicles_gen.go and            *)
(* trip_updates_gen.go).                                                   *)
(*                                                                         *)
(* The generated functions differ in the fields they name only, so that a  *)
(* schema, the fields of each struct in the order they are written, and    *)
(* one encoder and one decoder stand for all of them.  A message is a      *)
(* sequence of tokens: the header of a map or an array, a key, nil, or a   *)
(* datum.  A message may be read by another version of the program than    *)
(* the one that wrote it.                                                  *)
(***************************************************************************)
EXTENDS Optional, Naturals, Sequences, SequencesExt

Number == [is |-> "number"]
Text == [is |-> "text"]
Pointer == [is |-> "pointer"]
Struct(name) == [is |-> "struct", of |-> name]
List(name) == [is |-> "list", of |-> name]

Field(key, kind) == [key |-> key, kind |-> kind]

Position == <<Field("lat", Number), Field("lng", Number), Field("bearing", Number),
              Field("odometer", Number), Field("speed", Number)>>

VehicleDescriptor == <<Field("id", Pointer), Field("label", Pointer)>>

TripDescriptor == <<Field("trip_id", Pointer), Field("route_id", Pointer)>>

VehiclePosition == <<
    Field("trip", Struct("TripDescriptor")), Field("vehicle", Struct("VehicleDescriptor")),
    Field("position", Struct("Position")), Field("current_stop_sequence", Number),
    Field("stop_id", Text), Field("current_status", Number), Field("timestamp", Number),
    Field("congestion_level", Number), Field("occupancy_status", Number)>>

StopTimeEvent == <<Field("delay", Pointer), Field("time", Pointer),
                   Field("uncertainty", Pointer)>>

StopTimeUpdate == <<
    Field("stop_sequence", Pointer), Field("stop_id", Pointer),
    Field("arrival", Struct("StopTimeEvent")), Field("departure", Struct("StopTimeEvent")),
    Field("schedule_relationship", Pointer)>>

TripUpdate == <<
    Field("trip", Struct("TripDescriptor")), Field("vehicle", Struct("VehicleDescriptor")),
    Field("stop_time_update", List("StopTimeUpdate")), Field("timestamp", Pointer),
    Field("delay", Pointer)>>

TripUpdatesMsg == <<Field("trip_update", List("TripUpdate"))>>

Schema == [Position |-> Position, VehicleDescriptor |-> VehicleDescriptor,
           TripDescriptor |-> TripDescriptor, VehiclePosition |-> VehiclePosition,
           StopTimeEvent |-> StopTimeEvent, StopTimeUpdate |-> StopTimeUpdate,
           TripUpdate |-> TripUpdate, TripUpdatesMsg |-> TripUpdatesMsg]

\* The kind of a key, for a struct that has it.
Keys(fields) == {fields[n].key : n \in DOMAIN fields}
KindOf(fields, key) == fields[CHOOSE n \in DOMAIN fields : fields[n].key = key].kind

RECURSIVE Zero(_, _)
\* The zero value of Go, which Unmarshal starts from.
Zero(schema, kind) ==
    CASE kind.is = "number" -> 0
      [] kind.is = "text" -> ""
      [] kind.is = "pointer" -> Nil
      [] kind.is = "list" -> << >>
      [] kind.is = "struct" ->
            [key \in Keys(schema[kind.of]) |-> Zero(schema, KindOf(schema[kind.of], key))]
-----------------------------------------------------------------------------
(* MarshalMsg *)

RECURSIVE Marshal(_, _, _)
Marshal(schema, kind, x) ==
    CASE kind.is \in {"number", "text"} -> <<[t |-> "datum", x |-> x]>>
      [] kind.is = "pointer" ->
            IF x = Nil THEN <<[t |-> "nil"]>> ELSE <<[t |-> "datum", x |-> x]>>
      [] kind.is = "list" ->
            <<[t |-> "array", n |-> Len(x)]>>
                \o FlattenSeq([n \in DOMAIN x |-> Marshal(schema, Struct(kind.of), x[n])])
      [] kind.is = "struct" ->
            LET fields == schema[kind.of]
                Value(f) == IF f.key \in DOMAIN x THEN x[f.key] ELSE Zero(schema, f.kind)
            IN  <<[t |-> "map", n |-> Len(fields)]>>
                \o FlattenSeq([n \in DOMAIN fields |->
                     <<[t |-> "key", key |-> fields[n].key]>>
                         \o Marshal(schema, fields[n].kind, Value(fields[n]))])
-----------------------------------------------------------------------------
(* UnmarshalMsg *)

RECURSIVE Skip(_), SkipMany(_, _)
\* msgp.Skip: the tokens after the first object; a key goes with what follows it.
Skip(tokens) ==
    IF Head(tokens).t \in {"map", "array"} THEN SkipMany(Head(tokens).n, Tail(tokens))
    ELSE IF Head(tokens).t = "key" THEN Skip(Tail(tokens))
    ELSE Tail(tokens)

SkipMany(n, tokens) == IF n = 0 THEN tokens ELSE SkipMany(n - 1, Skip(tokens))

RECURSIVE Read(_, _, _), Elements(_, _, _, _), Entries(_, _, _, _)
\* Reads a value of the kind: [v |-> the value, rest |-> the tokens after it].
Read(schema, kind, tokens) ==
    LET head == Head(tokens)
        start == [v |-> Zero(schema, kind), rest |-> Tail(tokens)]
    IN  CASE kind.is \in {"number", "text"} -> [start EXCEPT !.v = head.x]
          [] kind.is = "pointer" -> IF head.t = "nil" THEN start ELSE [start EXCEPT !.v = head.x]
          [] kind.is = "list" -> Elements(schema, kind.of, head.n, start)
          [] kind.is = "struct" -> Entries(schema, kind.of, head.n, start)

\* The next n elements of an array.
Elements(schema, name, n, read) ==
    IF n = 0 THEN read
    ELSE LET r == Read(schema, Struct(name), read.rest)
         IN  Elements(schema, name, n - 1, [v |-> Append(read.v, r.v), rest |-> r.rest])

\* The next n entries of a map.  Unknown keys are skipped, absent ones keep the zero value.
Entries(schema, name, n, read) ==
    IF n = 0 THEN read
    ELSE LET key == Head(read.rest).key
             value == Tail(read.rest)
         IN  IF key \notin Keys(schema[name])
             THEN Entries(schema, name, n - 1, [read EXCEPT !.rest = Skip(value)])
             ELSE LET r == Read(schema, KindOf(schema[name], key), value)
                  IN  Entries(schema, name, n - 1,
                              [v |-> [read.v EXCEPT ![key] = r.v], rest |-> r.rest])

Unmarshal(schema, name, message) == Read(schema, Struct(name), message).v
-----------------------------------------------------------------------------
(* Other versions of the program *)

\* The schema of an older version, which does not have some keys, and of a newer one,
\* which has one more that holds a struct.
Older(keys) == [name \in DOMAIN Schema |->
                   SelectSeq(Schema[name], LAMBDA f : f.key \notin keys)]
Newer == [name \in DOMAIN Schema |->
             IF name = "Position" THEN Schema[name]
             ELSE <<Field("unknown", Struct("Position"))>> \o Schema[name]]
=============================================================================
