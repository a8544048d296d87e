--------------------------- MODULE MCTripUpdates ---------------------------
(* TripUpdates with three messages: an empty one, one trip with one stop,  *)
(* and two trips of which one has no stops known yet.                      *)
EXTENDS TripUpdates

CONSTANTS t1, t2, s1, s2

Update(t, s) == [trip |-> t, stops |-> s]
Numbering(i, s) == [index |-> i, stop |-> s]

MCFeeds == {
    {},
    {Update(t1, {Numbering(1, s1)})},
    {Update(t1, {Numbering(1, s2), Numbering(2, s1)}), Update(t2, {Numbering(1, s1)})} }
=============================================================================
