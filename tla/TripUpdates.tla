---------------------------- MODULE TripUpdates ----------------------------
(***************************************************************************)
(* The trip_updates and stop_time_updates tables (logic/trip_updates.go):  *)
(* UpdateTripUpdates replaces their whole contents with one message of the *)
(* topic in one transaction, statement by statement, while the handlers of *)
(* /api/v1/trip read them with FetchTripUpdates, which takes two selects   *)
(* and joins them in memory.                                               *)
(*                                                                         *)
(* A trip update is its trip and a set of stops numbered by their index in *)
(* the message; a feed is a set of trip updates.  The database is          *)
(* PostgreSQL at its default isolation, READ COMMITTED: a statement sees   *)
(* what was committed when it began.  FetchTripUpdates never asks          *)
(* rows.Err(), so a connection that is lost while a result arrives looks   *)
(* like its end.                                                           *)
(***************************************************************************)
EXTENDS Naturals, Sequences

CONSTANTS
    Trips,        \* trip ids
    Stops,        \* what a stop time update tells about a stop
    Feeds,        \* the messages of the topic
    Readers,      \* concurrent requests for the trip updates
    NoRow,        \* "no first row": the first select returned nothing
    MaxIndex,     \* bound: stop time updates of one trip
    MaxId,        \* bound: ids drawn from the sequence of trip_updates
    MaxCommits    \* bound: messages written

Numbered   == [index : 1 .. MaxIndex, stop : Stops]
TripUpdate == [trip : Trips, stops : SUBSET Numbered]

ASSUME FeedsAssumption == Feeds \subseteq SUBSET TripUpdate
ASSUME BoundAssumption == MaxIndex \in Nat /\ MaxId \in Nat /\ MaxCommits \in Nat

VARIABLES
    tripUpdates,     \* committed rows of trip_updates
    stopTimeUpdates, \* committed rows of stop_time_updates
    nextId,          \* the sequence behind trip_updates.id; never rolled back
    wpc,             \* where the writer is in UpdateTripUpdates
    feed,            \* the message it writes
    txTrips,         \* trip_updates as its transaction sees it
    txStops,         \* stop_time_updates as its transaction sees it
    toInsert,        \* trip updates of the message not inserted yet
    pending,         \* stop rows of the current trip update not inserted yet
    published,       \* history: the feeds committed so far
    rpc,             \* per reader, where it is in FetchTripUpdates
    seen,            \* per reader, the rows its first select returned
    head,            \* per reader, the one that came first
    got,             \* per reader, the rows its second select returned
    began, ended,    \* history: commits so far at its first and second select
    short            \* history: those of its selects that a lost connection cut short

store  == <<tripUpdates, stopTimeUpdates>>
writer == <<wpc, feed, txTrips, txStops, toInsert, pending>>
reader == <<rpc, seen, head, got, began, ended, short>>
vars   == <<tripUpdates, stopTimeUpdates, nextId, wpc, feed, txTrips, txStops,
            toInsert, pending, published, rpc, seen, head, got, began, ended, short>>

TripRow == [id : 1 .. MaxId, trip : Trips]
StopRow == [id : 1 .. MaxId, index : 1 .. MaxIndex, stop : Stops]

TypeOK ==
    /\ tripUpdates \subseteq TripRow
    /\ stopTimeUpdates \subseteq StopRow
    /\ nextId \in 1 .. (MaxId + 1)
    /\ wpc \in {"idle", "delete", "insert"}
    /\ feed \subseteq TripUpdate
    /\ txTrips \subseteq TripRow
    /\ txStops \subseteq StopRow
    /\ toInsert \subseteq feed
    /\ pending \subseteq StopRow
    /\ published \in Seq(SUBSET TripUpdate)
    /\ rpc \in [Readers -> {"idle", "between", "replied", "panicked"}]
    /\ seen \in [Readers -> SUBSET TripRow]
    /\ head \in [Readers -> TripRow \cup {NoRow}]
    /\ got \in [Readers -> SUBSET StopRow]
    /\ began \in [Readers -> 0 .. Len(published)]
    /\ ended \in [Readers -> 0 .. Len(published)]
    /\ short \in [Readers -> SUBSET {"trips", "stops"}]

Init ==
    /\ tripUpdates = {}
    /\ stopTimeUpdates = {}
    /\ nextId = 1
    /\ wpc = "idle"
    /\ feed = {}
    /\ txTrips = {}
    /\ txStops = {}
    /\ toInsert = {}
    /\ pending = {}
    /\ published = << >>
    /\ rpc = [r \in Readers |-> "idle"]
    /\ seen = [r \in Readers |-> {}]
    /\ head = [r \in Readers |-> NoRow]
    /\ got = [r \in Readers |-> {}]
    /\ began = [r \in Readers |-> 0]
    /\ ended = [r \in Readers |-> 0]
    /\ short = [r \in Readers |-> {}]
-----------------------------------------------------------------------------
(* The writer: UpdateTripUpdates, called by the one consumer of the topic *)

Begin(f) ==
    /\ wpc = "idle"
    /\ Len(published) < MaxCommits
    /\ wpc' = "delete"
    /\ feed' = f
    /\ toInsert' = f
    /\ pending' = {}
    /\ txTrips' = tripUpdates
    /\ txStops' = stopTimeUpdates
    /\ UNCHANGED <<store, nextId, published, reader>>

\* Broken variant: no cascade.
DeleteTripsOnly ==
    /\ wpc = "delete"
    /\ wpc' = "insert"
    /\ txTrips' = {}
    /\ UNCHANGED <<store, nextId, feed, txStops, toInsert, pending, published, reader>>

\* Broken variant: TRUNCATE ... RESTART IDENTITY.
DeleteRestartsIds ==
    /\ wpc = "delete"
    /\ wpc' = "insert"
    /\ txTrips' = {}
    /\ txStops' = {}
    /\ nextId' = 1
    /\ UNCHANGED <<store, feed, toInsert, pending, published, reader>>

\* Broken variant: the DELETE commits on its own.
DeleteAutocommits ==
    /\ wpc = "delete"
    /\ wpc' = "insert"
    /\ txTrips' = {}
    /\ txStops' = {}
    /\ tripUpdates' = {}
    /\ stopTimeUpdates' = {}
    /\ UNCHANGED <<nextId, feed, toInsert, pending, published, reader>>

\* DELETE FROM trip_updates; the foreign key cascades.
Delete ==
    /\ wpc = "delete"
    /\ wpc' = "insert"
    /\ txTrips' = {}
    /\ txStops' = {}
    /\ UNCHANGED <<store, nextId, feed, toInsert, pending, published, reader>>

\* INSERT INTO trip_updates ... RETURNING id, for the next trip update.
InsertTrip ==
    /\ wpc = "insert"
    /\ pending = {}
    /\ nextId <= MaxId
    /\ \E tu \in toInsert :
        /\ txTrips' = txTrips \cup {[id |-> nextId, trip |-> tu.trip]}
        /\ pending' = {[id |-> nextId, index |-> s.index, stop |-> s.stop] : s \in tu.stops}
        /\ toInsert' = toInsert \ {tu}
    /\ nextId' = nextId + 1
    /\ UNCHANGED <<store, wpc, feed, txStops, published, reader>>

\* INSERT INTO stop_time_updates, in the order of the message.
InsertStop ==
    /\ wpc = "insert"
    /\ \E s \in pending :
        /\ \A t \in pending : s.index <= t.index
        /\ txStops' = txStops \cup {s}
        /\ pending' = pending \ {s}
    /\ UNCHANGED <<store, nextId, wpc, feed, txTrips, toInsert, published, reader>>

Commit ==
    /\ wpc = "insert"
    /\ toInsert = {} /\ pending = {}
    /\ tripUpdates' = txTrips
    /\ stopTimeUpdates' = txStops
    /\ published' = Append(published, feed)
    /\ wpc' = "idle"
    /\ UNCHANGED <<nextId, feed, txTrips, txStops, toInsert, pending, reader>>

\* A statement fails and the code rolls back, or the process dies and the
\* server does.
Rollback ==
    /\ wpc # "idle"
    /\ wpc' = "idle"
    /\ UNCHANGED <<store, nextId, feed, txTrips, txStops, toInsert, pending, published,
                   reader>>
-----------------------------------------------------------------------------
(* A reader: FetchTripUpdates *)

\* part holds what comes first of whole in the order of the index.
IsBeginning(part, whole) ==
    part \subseteq whole /\ \A s \in part, t \in whole \ part : s.index <= t.index

\* Begin, SET TRANSACTION, and the select on trip_updates, of which rows arrive.  The
\* SET and the selects go through the pool and not through the transaction, which
\* stays unused: each select is a transaction of its own.  The rows come back in no
\* particular order.
ReadTrips(r, rows) ==
    /\ rpc[r] # "between"
    /\ rpc' = [rpc EXCEPT ![r] = "between"]
    /\ seen' = [seen EXCEPT ![r] = rows]
    /\ \E row \in IF rows = {} THEN {NoRow} ELSE rows :
        head' = [head EXCEPT ![r] = row]
    /\ began' = [began EXCEPT ![r] = Len(published)]
    /\ got' = [got EXCEPT ![r] = {}]
    /\ UNCHANGED <<store, nextId, writer, published, ended>>

SelectTrips(r) ==
    /\ ReadTrips(r, tripUpdates)
    /\ short' = [short EXCEPT ![r] = {}]

\* The connection is lost before the last row: the loop ends as after the last one.
TripsBreakOff(r) ==
    /\ \E rows \in SUBSET tripUpdates :
        rows # tripUpdates /\ ReadTrips(r, rows)
    /\ short' = [short EXCEPT ![r] = {"trips"}]

\* The select on stop_time_updates, of which rows arrive.  With no trip update to
\* index, the first row panics: the request dies and its transaction is never closed.
ReadStops(r, rows) ==
    /\ rpc[r] = "between"
    /\ rpc' = [rpc EXCEPT ![r] = IF seen[r] = {} /\ rows # {}
                                 THEN "panicked" ELSE "replied"]
    /\ got' = [got EXCEPT ![r] = rows]
    /\ ended' = [ended EXCEPT ![r] = Len(published)]
    /\ UNCHANGED <<store, nextId, writer, published, seen, head, began>>

SelectStops(r) == ReadStops(r, stopTimeUpdates) /\ UNCHANGED short

\* The rows are ordered by index: a part of them is a beginning.  The transaction
\* has a connection of its own and commits all the same.
StopsBreakOff(r) ==
    /\ \E rows \in SUBSET stopTimeUpdates :
        /\ rows # stopTimeUpdates
        /\ IsBeginning(rows, stopTimeUpdates)
        /\ ReadStops(r, rows)
    /\ short' = [short EXCEPT ![r] = @ \cup {"stops"}]

\* The second query, a Scan or the final commit fails, and the reader returns an error.
ReadFails(r) ==
    /\ rpc[r] = "between"
    /\ rpc' = [rpc EXCEPT ![r] = "idle"]
    /\ UNCHANGED <<store, nextId, writer, published, seen, head, got, began, ended, short>>

\* Broken variant: an id that maps to the first trip update is taken for one that is
\* not in the map, and its row is skipped.
AttachedNotFirst(r, t) == {s \in got[r] : s.id = t.id /\ t # head[r]}

\* The stop rows r's reply carries under row t: a row whose id is not in the
\* map gets the map's zero value and lands on the first trip update.
Attached(r, t) ==
    {s \in got[r] :
        \/ s.id = t.id
        \/ t = head[r] /\ \A u \in seen[r] : u.id # s.id}
-----------------------------------------------------------------------------
Writer == (\E f \in Feeds : Begin(f)) \/ Delete \/ InsertTrip \/ InsertStop \/ Commit
          \/ Rollback

Reader(r) == SelectTrips(r) \/ TripsBreakOff(r)
             \/ SelectStops(r) \/ StopsBreakOff(r) \/ ReadFails(r)

Next == Writer \/ \E r \in Readers : Reader(r)

Spec == Init /\ [][Next]_vars
-----------------------------------------------------------------------------
(* Properties *)

\* The feed that was current after n commits.
FeedAt(n) == IF n = 0 THEN {} ELSE published[n]

\* Rows read back as the stops they were inserted from.
AsStops(rows) == {[index |-> s.index, stop |-> s.stop] : s \in rows}

\* The stops that belong to row t.
StopsOf(t, stops) == AsStops({s \in stops : s.id = t.id})

\* The trip updates that rows of the two tables stand for.
Contents(trips, stops) ==
    {[trip |-> t.trip, stops |-> StopsOf(t, stops)] : t \in trips}

\* No stop row without its trip update.
HaveParents(stops, trips) == \A s \in stops : \E t \in trips : s.id = t.id

\* Stops of a trip update that a reply may carry, given the selects cut short.
CutFrom(part, stops, cut) ==
    IsBeginning(part, stops) /\ ("stops" \notin cut => part \in {{}, stops})

\* What r answers.
Reply(r) == {[trip |-> t.trip, stops |-> AsStops(Attached(r, t))] : t \in seen[r]}

(* The committed tables are always one whole message: never a mixture of   *)
(* two, never half of one, whatever statement failed (one transaction from *)
(* DELETE to COMMIT, and a cascading foreign key).                         *)
OneWholeFeed ==
    /\ Contents(tripUpdates, stopTimeUpdates) = FeedAt(Len(published))
    /\ HaveParents(stopTimeUpdates, tripUpdates)

(* A request during which nothing was committed and no connection was lost *)
(* answers exactly the current message.                                    *)
UndisturbedReadExact ==
    \A r \in Readers :
        rpc[r] = "replied" /\ began[r] = ended[r] /\ short[r] = {} =>
            Reply(r) = FeedAt(began[r])

(* Even a request torn by a commit, or cut short by a lost connection,     *)
(* tells lies about one trip only: every trip update is one of the         *)
(* message, and all but the first carry their own stops or none, since the *)
(* ids of a deleted message are never drawn again; when the second select  *)
(* was cut short, the first of their own stops.                            *)
OnlyFirstTripPolluted ==
    \A r \in Readers :
        rpc[r] = "replied" =>
            \A t \in seen[r] : \E tu \in FeedAt(began[r]) :
                /\ tu.trip = t.trip
                /\ t # head[r] => CutFrom(AsStops(Attached(r, t)), tu.stops, short[r])

(* A request dies only when its first select returned nothing, either      *)
(* since the message then current had no trip update (or there was none    *)
(* yet) or since the connection was lost, and the message current at its   *)
(* second select has stops: without a lost connection, another one.        *)
PanicOnlyFromEmpty ==
    \A r \in Readers :
        rpc[r] = "panicked" =>
            /\ \/ "trips" \in short[r]
               \/ FeedAt(began[r]) = {} /\ began[r] < ended[r]
            /\ \E tu \in FeedAt(ended[r]) : tu.stops # {}

(* trip_updates.go says: "Because there is a race condition between the    *)
(* two selects, we must ensure that both queries see the same snapshot of  *)
(* the database."  Then a reply would be one of the messages that were     *)
(* current during the request, unless a connection was lost.               *)
SameSnapshot ==
    \A r \in Readers :
        rpc[r] = "replied" /\ short[r] = {} => \E n \in began[r] .. ended[r] : Reply(r) = FeedAt(n)
-----------------------------------------------------------------------------
(* The inductive invariant *)

\* Every row is older than every one of the others.
Older(rows, others) == \A u \in rows, v \in others : u.id < v.id

\* The rows of r's first select, while it waits for the second.
Waiting(r) == IF rpc[r] = "between" THEN seen[r] ELSE {}

\* No id is drawn twice.
IdsInv ==
    /\ \A t \in tripUpdates : t.id < nextId
    /\ \A r \in Readers : \A t \in Waiting(r) : t.id < nextId

\* The transaction holds the part of the message written so far, in rows that
\* are younger than the committed ones and those that a reader has seen.
TxInv ==
    /\ wpc = "delete" => toInsert = feed /\ pending = {}
    /\ wpc = "insert" =>
          /\ Contents(txTrips, txStops \cup pending) = feed \ toInsert
          /\ HaveParents(txStops \cup pending, txTrips)
          /\ \A t \in txTrips : t.id < nextId
          /\ Older(tripUpdates, txTrips)
          /\ \A r \in Readers : Older(Waiting(r), txTrips)

\* Between its selects a reader knows trips of the message, all of them unless it was
\* cut short; what is committed by its second select is the same, or younger than
\* what it has seen.
BetweenInv ==
    \A r \in Readers : rpc[r] = "between" =>
        /\ "stops" \notin short[r]
        /\ "trips" \in short[r] \/ (seen[r] = {} => FeedAt(began[r]) = {})
        /\ \A t \in seen[r] : \E tu \in FeedAt(began[r]) : tu.trip = t.trip
        /\ \/ /\ began[r] = Len(published)
              /\ seen[r] \subseteq tripUpdates
              /\ "trips" \in short[r] \/ seen[r] = tripUpdates
           \/ began[r] < Len(published) /\ Older(seen[r], stopTimeUpdates)

\* An undisturbed reply is exact, and the stop rows of each trip update are its own.
RepliedInv ==
    \A r \in Readers : rpc[r] = "replied" =>
        /\ began[r] = ended[r] /\ short[r] = {} => Reply(r) = FeedAt(began[r])
        /\ \A t \in seen[r] : \E tu \in FeedAt(began[r]) :
            /\ tu.trip = t.trip
            /\ CutFrom(StopsOf(t, got[r]), tu.stops, short[r])

IInv == TypeOK /\ OneWholeFeed /\ IdsInv /\ TxInv /\ BetweenInv /\ RepliedInv
        /\ PanicOnlyFromEmpty
=============================================================================
