----------------------------- MODULE RouteLines -----------------------------
(***************************************************************************)
(* The lines of the map: FetchRouteShapes with removeDuplicateSegments,    *)
(* which cuts the shapes of the trains into lines that draw each piece of  *)
(* track once, FetchTripShapes (logic/route_shapes.go), and HandleShapes   *)
(* with FetchShapes (logic/shapes.go).  The three queries join the points  *)
(* of the shapes to trips and read the rows in the same loop.              *)
(*                                                                         *)
(* The tables are a record: "shapes" maps a shape's id to its points in    *)
(* the order of pt_sequence, "trips" maps a trip to its shape, which need  *)
(* not exist, its route and its direction, or Nil for NULL, and "colors" a *)
(* route to its color; every route is a train's.  "unmeasured" are the     *)
(* shapes of which a point has no dist_traveled.  Ids are numbers in the   *)
(* order in which PostgreSQL sorts them.                                   *)
(*                                                                         *)
(* A request is [kind, trips, routeIDs, shapeIDs], of which "lines" uses   *)
(* nothing, "trips" the trips, and "shapes" the two sets of parameters.    *)
(***************************************************************************)
EXTENDS Optional, Naturals, Sequences, SequencesExt

CONSTANTS
    Points,    \* the points of shapes
    Networks,  \* the tables a request may find
    Requests   \* what may be asked

ASSUME NetworksAssumption ==
    \A net \in Networks :
        /\ \A id \in DOMAIN net.shapes :
              id \in Nat /\ net.shapes[id] \in Seq(Points) /\ net.shapes[id] # << >>
        /\ DOMAIN net.trips \subseteq Nat
        /\ \A x \in DOMAIN net.trips : net.trips[x].direction \in {0, 1, Nil}
ASSUME DirectionAssumption == Nil \notin {0, 1}

VARIABLES
    tables,   \* what the query sees
    request,
    stage,    \* "asked", "scan", "cut", "done", "refused" (400) or "failed" (500)
    unread,   \* the rows that rows.Next() has not come to
    fetched,  \* the lines read so far, the last one being lastShape
    left,     \* the lines that removeDuplicateSegments has not begun
    shape,    \* the one it is at, or 0
    at,       \* and the segment of it
    seen,     \* uniqueSegments
    drawn,    \* the new lines; the last of them is still open
    open      \* as long as this holds

cutting == <<left, shape, at, seen, drawn, open>>
lineVars == <<tables, request, stage, unread, fetched, cutting>>
-----------------------------------------------------------------------------
(* The queries *)

\* The trips that the query joins to the shapes.
Selected(net, req) ==
    {x \in DOMAIN net.trips :
        /\ net.trips[x].shape \in DOMAIN net.shapes
        /\ req.kind = "trips" => x \in req.trips
        /\ req.kind = "shapes" =>
              /\ net.trips[x].route \in req.routeIDs
              /\ req.shapeIDs = {} \/ net.trips[x].shape \in req.shapeIDs}

\* What a trip makes of its shape.  FetchTripShapes alone tells the trips apart; the
\* others take the DISTINCT routes and directions of a shape.
Use(net, req, x) ==
    [trip |-> IF req.kind = "trips" THEN x ELSE 0, id |-> net.trips[x].shape,
     route |-> net.trips[x].route, direction |-> net.trips[x].direction]

Uses(net, req) == {Use(net, req, x) : x \in Selected(net, req)}

\* The rows: a point of the shape for each use of it.
Rows(net, req) ==
    UNION {{[use |-> u, n |-> n] : n \in DOMAIN net.shapes[u.id]} : u \in Uses(net, req)}

\* ORDER BY trip, or shape, and pt_sequence.  What these leave equal comes in any order.
Before(a, b) ==
    \/ a.use.trip < b.use.trip
    \/ a.use.trip = b.use.trip /\ a.use.id < b.use.id
    \/ a.use.trip = b.use.trip /\ a.use.id = b.use.id /\ a.n < b.n

\* NULL can be scanned neither into the direction nor into the distance.
Scannable(net, req, row) ==
    /\ row.use.direction # Nil
    /\ req.kind = "shapes" => row.use.id \notin net.unmeasured

Point(net, row) == net.shapes[row.use.id][row.n]

\* The row continues the last line.
Continues(lines, row) ==
    /\ lines # << >>
    /\ Last(lines).id = row.use.id /\ Last(lines).trip = row.use.trip

NewLine(net, row) ==
    [id |-> row.use.id, trip |-> row.use.trip, route |-> row.use.route,
     direction |-> row.use.direction, color |-> net.colors[row.use.route],
     points |-> <<Point(net, row)>>]

Extended(lines, point) == [lines EXCEPT ![Len(lines)].points = Append(@, point)]

\* HandleShapes refuses a request without parameters; without routeIDs the query names
\* route_shapes, which it does not join.
Ask ==
    /\ stage = "asked"
    /\ stage' = IF request.kind # "shapes" \/ request.routeIDs # {} THEN "scan"
                ELSE IF request.shapeIDs = {} THEN "refused"
                ELSE "failed"
    /\ UNCHANGED <<tables, request, unread, fetched, cutting>>

\* One round of the loop over the rows.
Scan ==
    /\ stage = "scan"
    /\ \E row \in unread :
          /\ \A other \in unread : ~Before(other, row)
          /\ unread' = unread \ {row}
          /\ IF Scannable(tables, request, row)
             THEN /\ fetched' = IF Continues(fetched, row)
                                THEN Extended(fetched, Point(tables, row))
                                ELSE Append(fetched, NewLine(tables, row))
                  /\ UNCHANGED stage
             ELSE /\ stage' = "failed"
                  /\ UNCHANGED fetched
    /\ UNCHANGED <<tables, request, cutting>>

\* The end of the loop; the lines of the map go on to removeDuplicateSegments.
Scanned ==
    /\ stage' = IF request.kind = "lines" THEN "cut" ELSE "done"
    /\ left' = DOMAIN fetched
    /\ UNCHANGED <<tables, request, unread, fetched, shape, at, seen, drawn, open>>

AllScanned == stage = "scan" /\ unread = {} /\ Scanned

\* When the connection breaks off, rows.Next() ends the loop as after the last row, and
\* nobody asks rows.Err().
BreaksOff == stage = "scan" /\ unread # {} /\ Scanned
-----------------------------------------------------------------------------
(* removeDuplicateSegments *)

Count(line) == Len(line.points) - 1

\* Broken variant: the points of both directions are taken as they come.
SegmentUnturned(line, j) == <<line.points[j], line.points[j + 1]>>

\* The segments of a line, those of direction 1 from its end.
Segment(line, j) ==
    LET p == line.points
        n == Len(p)
    IN  IF line.direction = 0 THEN <<p[j], p[j + 1]>> ELSE <<p[n - j + 1], p[n - j]>>

\* The longest line comes first.  sort.Slice is not stable: any of the longest may.
NextShape ==
    /\ stage = "cut" /\ shape = 0
    /\ \E k \in left :
          /\ \A l \in left : Count(fetched[k]) >= Count(fetched[l])
          /\ left' = left \ {k}
          /\ shape' = k
    /\ at' = 1
    /\ UNCHANGED <<tables, request, stage, unread, fetched, seen, drawn, open>>

\* A segment that is new is added to the open line, one that was seen before closes it.
Draw ==
    /\ stage = "cut" /\ shape # 0
    /\ at <= Count(fetched[shape])
    /\ LET line == fetched[shape]
           seg == Segment(line, at)
       IN  IF seg \in seen
           THEN open' = FALSE /\ UNCHANGED <<seen, drawn>>
           ELSE /\ seen' = seen \cup {seg}
                /\ drawn' = IF open THEN Extended(drawn, seg[2])
                            ELSE Append(drawn, [color |-> line.color, route |-> line.route,
                                                points |-> seg])
                /\ open' = TRUE
    /\ at' = at + 1
    /\ UNCHANGED <<tables, request, stage, unread, fetched, left, shape>>

EndShape ==
    /\ stage = "cut" /\ shape # 0
    /\ at > Count(fetched[shape])
    /\ shape' = 0
    /\ open' = FALSE
    /\ UNCHANGED <<tables, request, stage, unread, fetched, left, at, seen, drawn>>

EndCut ==
    /\ stage = "cut" /\ shape = 0
    /\ left = {}
    /\ stage' = "done"
    /\ UNCHANGED <<tables, request, unread, fetched, cutting>>

RemoveDuplicateSegments == NextShape \/ Draw \/ EndShape \/ EndCut
-----------------------------------------------------------------------------
LinesInit ==
    /\ tables \in Networks /\ request \in Requests
    /\ stage = "asked"
    /\ unread = Rows(tables, request) /\ fetched = << >>
    /\ left = {} /\ shape = 0 /\ at = 0 /\ seen = {} /\ drawn = << >> /\ open = FALSE

LinesNext == Ask \/ Scan \/ AllScanned \/ BreaksOff \/ RemoveDuplicateSegments

LinesSpec == LinesInit /\ [][LinesNext]_lineVars
-----------------------------------------------------------------------------
(* What they promise *)

Piece(line, a) == <<line.points[a], line.points[a + 1]>>
Pieces(points) == {<<points[n], points[n + 1]>> : n \in 1 .. Len(points) - 1}
Moving(pieces) == {s \in pieces : s[1] # s[2]}
Turned(pieces) == {<<s[2], s[1]>> : s \in pieces}

PiecesOf(lines) == UNION {Pieces(lines[n].points) : n \in DOMAIN lines}
NoPieceTwice(lines) ==
    \A m, n \in DOMAIN lines :
        \A a \in 1 .. Count(lines[m]), b \in 1 .. Count(lines[n]) :
            Piece(lines[m], a) = Piece(lines[n], b) => m = n /\ a = b

UseOf(line) == [trip |-> line.trip, id |-> line.id, route |-> line.route,
                direction |-> line.direction]

\* The lines are those that were asked for, each once, along the whole of its shape; one
\* that is used several times stands still at some points.
FetchesEachOnce ==
    /\ {<<fetched[k].trip, fetched[k].id>> : k \in DOMAIN fetched}
         = {<<u.trip, u.id>> : u \in Uses(tables, request)}
    /\ \A k, l \in DOMAIN fetched :
          fetched[k].trip = fetched[l].trip /\ fetched[k].id = fetched[l].id => k = l
    /\ \A k \in DOMAIN fetched :
          LET line == fetched[k]
              whole == tables.shapes[line.id]
          IN  /\ UseOf(line) \in Uses(tables, request)
              /\ line.color = tables.colors[line.route]
              /\ Moving(Pieces(line.points)) = Moving(Pieces(whole))
              /\ request.kind = "trips" => line.points = whole

\* The track of a line in the direction in which it is drawn.
Track(line) ==
    LET p == tables.shapes[line.id]
    IN  IF line.direction = 0 THEN Pieces(p) ELSE Turned(Pieces(p))

\* The new lines draw the track of all lines and nothing else.
DrawsEveryTrack ==
    Moving(PiecesOf(drawn)) = Moving(UNION {Track(fetched[k]) : k \in DOMAIN fetched})

\* No piece is drawn twice, and each new line is on the track of one line, of its route
\* and color.
DrawsEachPieceOnce ==
    /\ NoPieceTwice(drawn)
    /\ \A n \in DOMAIN drawn :
          \E k \in DOMAIN fetched :
              /\ drawn[n].route = fetched[k].route /\ drawn[n].color = fetched[k].color
              /\ Moving(Pieces(drawn[n].points)) \subseteq Track(fetched[k])

\* A request fails only if it names no route, or if a row of it cannot be scanned.
FailsForReason ==
    stage = "failed" =>
        \/ request.kind = "shapes" /\ request.routeIDs = {}
        \/ \E row \in Rows(tables, request) : ~Scannable(tables, request, row)

(* Whatever is asked, and in whatever order PostgreSQL gives equal rows:   *)
(* the answer has each trip, or each shape, once and whole, unless the     *)
(* connection broke off, which leaves lines out or short.  The lines of    *)
(* the map draw each piece of track once, in the color of a route that     *)
(* runs there.                                                             *)
LinesSurvive ==
    /\ stage = "done" /\ unread = {} => FetchesEachOnce
    /\ stage = "done" /\ request.kind = "lines" =>
          DrawsEachPieceOnce /\ (unread = {} => DrawsEveryTrack)
    /\ FailsForReason
-----------------------------------------------------------------------------
(* The inductive invariant *)

RouteNames(net) == {net.trips[x].route : x \in DOMAIN net.trips}
Colors(net) == {net.colors[r] : r \in RouteNames(net)}
FetchedLines(net) ==
    [id : Nat, trip : Nat, route : RouteNames(net), direction : {0, 1}, color : Colors(net),
     points : Seq(Points)]
DrawnLines(net) == [color : Colors(net), route : RouteNames(net), points : Seq(Points)]

LinesTypeOK ==
    /\ tables \in Networks /\ request \in Requests
    /\ stage \in {"asked", "scan", "cut", "done", "refused", "failed"}
    /\ unread \subseteq Rows(tables, request)
    /\ fetched \in Seq(FetchedLines(tables))
    /\ left \subseteq DOMAIN fetched
    /\ shape \in {0} \cup (DOMAIN fetched \ left) /\ at \in Nat
    /\ drawn \in Seq(DrawnLines(tables))
    /\ open \in BOOLEAN

RowsRead == Rows(tables, request) \ unread

OfLine(line, row) == row.use.trip = line.trip /\ row.use.id = line.id

\* No row is read before one that ORDER BY puts before it.
ReadInOrder == \A row \in RowsRead : \A other \in unread : ~Before(other, row)

\* The pieces of a shape up to its n-th point.
PiecesTo(points, n) == {<<points[j], points[j + 1]>> : j \in 1 .. n - 1}

\* The points are those of the shape up to its n-th; a trip does not stand still.
ReachesPoint(points, whole, n, kind) ==
    /\ Last(points) = whole[n]
    /\ Moving(Pieces(points)) = Moving(PiecesTo(whole, n))
    /\ kind = "trips" => Len(points) = n /\ \A i \in 1 .. n : points[i] = whole[i]

LineIsRead(net, req, read, line) ==
    /\ line.points # << >>
    /\ UseOf(line) \in Uses(net, req)
    /\ line.color = net.colors[line.route]
    /\ \E row \in read :
          /\ OfLine(line, row)
          /\ \A other \in read : OfLine(line, other) => other.n <= row.n
          /\ ReachesPoint(line.points, net.shapes[line.id], row.n, req.kind)

LinesAreRead ==
    /\ \A k \in DOMAIN fetched : LineIsRead(tables, request, RowsRead, fetched[k])
    /\ \A row \in RowsRead : \E k \in DOMAIN fetched : OfLine(fetched[k], row)
    /\ \A k, l \in DOMAIN fetched :
          k < l => \/ fetched[k].trip < fetched[l].trip
                   \/ fetched[k].trip = fetched[l].trip /\ fetched[k].id < fetched[l].id

\* What removeDuplicateSegments has been at.
Begun(k) == IF k = shape THEN at - 1 ELSE IF k \in left THEN 0 ELSE Count(fetched[k])
Segments(line) == {Segment(line, j) : j \in 1 .. Count(line)}
SeenIsBegun ==
    seen = UNION {{Segment(fetched[k], j) : j \in 1 .. Begun(k)} : k \in DOMAIN fetched}

\* A new line is of the track of one that was fetched.
CutFrom(new, line) ==
    /\ new.route = line.route /\ new.color = line.color
    /\ Pieces(new.points) \subseteq Segments(line)

DrawnIsSeen ==
    /\ seen = PiecesOf(drawn)
    /\ NoPieceTwice(drawn)
    /\ \A n \in DOMAIN drawn :
          drawn[n].points # << >> /\ \E k \in DOMAIN fetched : CutFrom(drawn[n], fetched[k])

\* The open line ends where the next segment begins.
OpenLine ==
    /\ shape # 0 => at \in 1 .. Count(fetched[shape]) + 1
    /\ open =>
          /\ shape # 0 /\ at > 1 /\ drawn # << >>
          /\ CutFrom(Last(drawn), fetched[shape])
          /\ Last(Last(drawn).points) = Segment(fetched[shape], at - 1)[2]

Progress ==
    /\ stage = "asked" => unread = Rows(tables, request)
    /\ stage \in {"asked", "scan"} =>
          left = {} /\ shape = 0 /\ seen = {} /\ drawn = << >> /\ ~open
    /\ stage = "cut" => request.kind = "lines"
    /\ stage = "done" /\ request.kind = "lines" => left = {} /\ shape = 0

LinesInv ==
    /\ LinesTypeOK /\ Progress /\ FailsForReason
    /\ stage # "failed" => ReadInOrder /\ LinesAreRead
    /\ stage \in {"cut", "done"} => SeenIsBegun /\ DrawnIsSeen /\ OpenLine
=============================================================================
