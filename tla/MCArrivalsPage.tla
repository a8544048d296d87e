--------------------------- MODULE MCArrivalsPage ---------------------------
(* Days of four units: a timetable around two midnights. *)
EXTENDS ArrivalsPage

CONSTANTS s1, s2

(* The headsign or the direction is missing in some, and one trip without a direction has *)
(* no shape either.                                                                       *)
MCStopTimes ==
    {[stop |-> s1, date |-> d, arrival |-> a, headsign |-> "h", direction |-> 0,
      shape |-> 1] : d \in 0 .. 2, a \in {0, 3, 4, 5}}
    \cup {[stop |-> s2, date |-> 0, arrival |-> 2, headsign |-> "h", direction |-> Nil,
           shape |-> Nil],
          [stop |-> s2, date |-> 0, arrival |-> 5, headsign |-> Nil, direction |-> 1,
           shape |-> 1],
          [stop |-> s2, date |-> 1, arrival |-> 3, headsign |-> "h", direction |-> Nil,
           shape |-> 1]}
=============================================================================
