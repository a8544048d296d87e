----------------------------- MODULE WSSession -----------------------------
(***************************************************************************)
(* One WebSocket session: HandleWS and sendStaticDataToWS (api/handlers.go)*)
(* with the goroutines they start, and the store of the client on the      *)
(* other end (web/src/store.js).                                           *)
(*                                                                         *)
(* The handler is one goroutine; a second one reads, and cancels the       *)
(* session's context when the peer is gone; a third fetches the first      *)
(* vehicles while up to three more fetch the static data.  Writing to a    *)
(* peer that is gone may succeed (the kernel takes the bytes), fail, or,   *)
(* when the message is compressed, fail in a deferred Close whose error    *)
(* nobody sees; once a write failed, all later ones do.                    *)
(*                                                                         *)
(* A static query is the number of rows it returned: none of the three     *)
(* asks rows.Err(), so a connection that is lost while the rows arrive     *)
(* ends the query early, without an error.  A stop is its place among the  *)
(* rows, the route lines are the number of points they were drawn from,    *)
(* and the positions of the vehicles are the version of the table they     *)
(* show, 0 when no position is younger than five minutes.                  *)
(***************************************************************************)
EXTENDS Integers, Sequences, SequencesExt

CONSTANTS
    Packet,      \* the stops of a packet (100)
    StopCounts,  \* the numbers of stops,
    RouteCounts, \* of routes,
    PointCounts, \* and of points on the route lines that the tables may have
    MaxTraffic,  \* bound: changes of the table of vehicles
    MaxFaults    \* bound: queries that fail or are cut short

ASSUME SessionAssumption ==
    /\ Packet \in Nat \ {0}
    /\ StopCounts \subseteq Nat /\ RouteCounts \subseteq Nat /\ PointCounts \subseteq Nat
    /\ MaxTraffic \in Nat
    /\ MaxFaults \in Nat

VARIABLES
    size,       \* the database: the rows of each static query,
    fleet,      \* the unexpired vehicles, 0: none,
    traffic,    \* and how often they changed
    faults,     \* queries that failed or were cut short
    link,       \* "up", or "gone": the peer is no longer there
    writeErr,   \* the connection remembers a write that failed
    pc,         \* the handler
    params,     \* the parameters of the session
    ctxDone,    \* ctx is cancelled
    reader,     \* the goroutine that reads: "none", "reading", "ended"
    first,      \* the first fetch of the vehicles: "none", "running", "ok", "failed"
    vehicles,   \* the handler's vehicles
    queries,    \* the static queries still running
    errored,    \* the number of those that failed
    rows,       \* the rows that each of them returned
    short,      \* history: those that a lost connection cut short
    i, packet,  \* the loop over the stops, and the array it sends
    tick,       \* the ticker's channel holds a tick
    page        \* the client's store

database == <<size, fleet, traffic>>
packets == <<i, packet>>
results == <<rows, short>>
fetches == <<first, queries, errored, faults, results>>
vars == <<database, faults, link, writeErr, pc, params, ctxDone, reader, first, vehicles,
          queries, errored, results, packets, tick, page>>

Params == [static : BOOLEAN, chunkify : BOOLEAN, compress : BOOLEAN]
StaticQueries == {"stops", "shapes", "routes"}
Closed == {"refused", "done"}
PCs == Closed \cup {"request", "fetching", "totals", "stops", "routes", "shapes",
                    "await", "vehicles", "select", "poll", "push"}

\* What reached the page: the totals (which it does not use), what its store keeps of
\* the static data (of the lines, the points of each message) and of the vehicles, and
\* the kind of the last vehicles message.
Store == [totals : BOOLEAN, stops : Seq(Nat), routes : Nat, shapes : Seq(Nat),
          vehicles : Nat, heard : {"nothing", "list", "null"}]

Sizes == [stops : StopCounts, routes : RouteCounts, shapes : PointCounts]

\* len(stops).
stopCount == rows["stops"]

TypeOK ==
    /\ size \in Sizes
    /\ fleet \in 0 .. traffic /\ traffic \in 0 .. MaxTraffic
    /\ faults \in 0 .. MaxFaults
    /\ link \in {"up", "gone"} /\ writeErr \in BOOLEAN
    /\ pc \in PCs /\ params \in Params
    /\ ctxDone \in BOOLEAN /\ tick \in BOOLEAN
    /\ reader \in {"none", "reading", "ended"}
    /\ first \in {"none", "running", "ok", "failed"}
    /\ vehicles \in Nat
    /\ queries \subseteq StaticQueries /\ errored \in 0 .. 3
    /\ rows \in [StaticQueries -> Nat] /\ short \subseteq StaticQueries
    /\ i \in 0 .. stopCount /\ packet \in [1 .. Packet -> 0 .. stopCount]
    /\ page \in Store

Init ==
    /\ size \in Sizes
    /\ fleet = 0 /\ traffic = 0 /\ faults = 0
    /\ link = "up" /\ writeErr = FALSE
    /\ pc = "request"
    /\ params = [static |-> TRUE, chunkify |-> FALSE, compress |-> TRUE]
    /\ ctxDone = FALSE /\ tick = FALSE
    /\ reader = "none" /\ first = "none" /\ vehicles = 0
    /\ queries = {} /\ errored = 0
    /\ rows = [q \in StaticQueries |-> 0] /\ short = {}
    /\ i = 0 /\ packet = [n \in 1 .. Packet |-> 0]
    /\ page = [totals |-> FALSE, stops |-> << >>, routes |-> 0, shapes |-> << >>,
               vehicles |-> 0, heard |-> "nothing"]
-----------------------------------------------------------------------------
(* The world *)

\* The pipeline stores new positions, or the last ones are five minutes old.
Traffic ==
    /\ traffic < MaxTraffic
    /\ traffic' = traffic + 1
    /\ fleet' \in {0, traffic + 1}
    /\ UNCHANGED <<size, link, writeErr, pc, params, ctxDone, reader, vehicles,
                   fetches, packets, tick, page>>

\* The tab is closed, or the network fails.
PeerGone ==
    /\ link = "up"
    /\ reader # "none"
    /\ link' = "gone"
    /\ UNCHANGED <<database, writeErr, pc, params, ctxDone, reader, vehicles, fetches,
                   packets, tick, page>>

\* time.NewTicker: a tick is dropped when the channel holds one.
Ticks ==
    /\ pc \in {"select", "poll", "push"}
    /\ ~tick
    /\ tick' = TRUE
    /\ UNCHANGED <<database, link, writeErr, pc, params, ctxDone, reader, vehicles, fetches,
                   packets, page>>

\* A query of the database fails or is cut short, if the bound allows.
QueryFails == faults < MaxFaults /\ faults' = faults + 1
-----------------------------------------------------------------------------
(* The client: handleMessage and the reducers *)

\* What removeDuplicateSegments makes of the points: no line of less than two, and null
\* when there is no line.
Lines(n) == IF n < 2 THEN << >> ELSE <<n>>

\* Stops and lines are appended, routes and vehicles replaced; an UPDATE_VEHICLES or
\* UPDATE_LINES of null throws in a reducer, and the store stays as it is.
Reduced(m) ==
    CASE m.type = "totals" -> [page EXCEPT !.totals = TRUE]
      [] m.type = "stops" -> [page EXCEPT !.stops = @ \o m.data]
      [] m.type = "routes" -> [page EXCEPT !.routes = m.data]
      [] m.type = "route_shapes" -> [page EXCEPT !.shapes = @ \o Lines(m.data)]
      [] m.type = "null" -> [page EXCEPT !.heard = "null"]
      [] m.type = "vehicles" -> [page EXCEPT !.vehicles = m.data, !.heard = "list"]
-----------------------------------------------------------------------------
(* Writing: writeJSON and writeCompressedJSON *)

\* The handler writes m and goes on at "ok", or at "bad" when write returned an error.
Write(m, ok, bad) ==
    \/ /\ ~writeErr /\ link = "up"
       /\ page' = Reduced(m)
       /\ pc' = ok
       /\ UNCHANGED writeErr
    \/ /\ ~writeErr /\ link = "gone"
       /\ writeErr' \in BOOLEAN
       /\ pc' \in {ok, bad}
       /\ pc' = bad => writeErr'
       /\ writeErr' /\ ~params.compress => pc' = bad
       /\ UNCHANGED page
    \/ /\ writeErr
       /\ pc' = bad
       /\ UNCHANGED <<writeErr, page>>

\* The deferred calls of HandleWS: the connection is closed, ctx cancelled.
Deferred == ctxDone' = (ctxDone \/ pc' = "done")
-----------------------------------------------------------------------------
(* The request *)

\* parseBool, on an absent, a good and a bad parameter.
ParseBool(s, defaultValue) ==
    [value |-> IF s \in {"true", "false"} THEN s = "true" ELSE defaultValue,
     err   |-> s \notin {"", "true", "false"}]

\* parseInt, of which only the error is used.
ParseInt(s) == [err |-> s \notin {"", "1"}]

\* HandleWS up to the goroutines: a bad parameter is answered with 400, and the
\* handshake may fail.
Accept ==
    /\ pc = "request"
    /\ \E version \in {"", "1", "x"}, chunkify, static, compress \in {"", "true", "false", "x"} :
        LET c == ParseBool(chunkify, FALSE)
            s == ParseBool(static, TRUE)
            z == ParseBool(compress, TRUE)
        IN  IF ParseInt(version).err \/ c.err \/ s.err \/ z.err
            THEN /\ pc' = "refused"
                 /\ UNCHANGED <<params, reader, first, queries>>
            ELSE \/ /\ params' = [static |-> s.value, chunkify |-> c.value,
                                  compress |-> z.value]
                    /\ reader' = "reading"
                    /\ first' = "running"
                    /\ pc' = IF s.value THEN "fetching" ELSE "await"
                    /\ queries' = IF s.value THEN StaticQueries ELSE {}
                 \/ /\ pc' = "refused"
                    /\ UNCHANGED <<params, reader, first, queries>>
    /\ UNCHANGED <<database, faults, link, writeErr, ctxDone, vehicles, errored, results,
                   packets, tick, page>>
-----------------------------------------------------------------------------
(* The other goroutines *)

\* ReadMessage returns an error: the peer is gone, or the handler closed the connection.
ReadFails ==
    /\ reader = "reading"
    /\ link = "gone" \/ pc \in Closed
    /\ reader' = "ended"
    /\ ctxDone' = TRUE
    /\ UNCHANGED <<database, link, writeErr, pc, params, vehicles, fetches, packets, tick,
                   page>>

\* The first vehicles; an error cancels the session.
FirstFetch ==
    /\ first = "running"
    /\ \/ /\ first' = "ok"
          /\ vehicles' = fleet
          /\ UNCHANGED <<ctxDone, faults>>
       \/ /\ QueryFails
          /\ first' = "failed"
          /\ ctxDone' = TRUE
          /\ UNCHANGED vehicles
    /\ UNCHANGED <<database, link, writeErr, pc, params, reader, queries, errored, results,
                   packets, tick, page>>

\* One of the three static queries returns: all its rows, or those that arrived before
\* the connection was lost, or an error.
StaticFetch ==
    /\ \E q \in queries :
        /\ queries' = queries \ {q}
        /\ \/ /\ rows' = [rows EXCEPT ![q] = size[q]]
              /\ UNCHANGED <<short, errored, faults>>
           \/ /\ QueryFails
              /\ \E n \in 0 .. (size[q] - 1) : rows' = [rows EXCEPT ![q] = n]
              /\ short' = short \cup {q}
              /\ UNCHANGED errored
           \/ /\ QueryFails
              /\ errored' = errored + 1
              /\ UNCHANGED results
    /\ UNCHANGED <<database, link, writeErr, pc, params, ctxDone, reader, first, vehicles,
                   packets, tick, page>>
-----------------------------------------------------------------------------
(* sendStaticDataToWS *)

static == <<database, faults, link, params, reader, first, vehicles, queries, errored,
            results, tick>>

\* Broken variant: the error of a static query is only logged.
StaticFetchedAnyway ==
    /\ pc = "fetching"
    /\ queries = {}
    /\ pc' = IF errored > 0 THEN "await" ELSE "totals"
    /\ UNCHANGED <<static, ctxDone, writeErr, packets, page>>

\* wg.Wait, and an error if one of the three failed.
StaticFetched ==
    /\ pc = "fetching"
    /\ queries = {}
    /\ pc' = IF errored > 0 THEN "done" ELSE "totals"
    /\ Deferred
    /\ UNCHANGED <<static, writeErr, packets, page>>

SendTotals ==
    /\ pc = "totals"
    /\ Write([type |-> "totals"], "stops", "done")
    /\ Deferred
    /\ UNCHANGED <<static, packets>>

SendStops ==
    /\ pc = "stops" /\ ~params.chunkify
    /\ Write([type |-> "stops", data |-> [n \in 1 .. stopCount |-> n]], "routes", "done")
    /\ Deferred
    /\ UNCHANGED <<static, packets>>

\* The indices at which the packet is sent, and the stop itself is not stored.
IsBoundary(n) == n % Packet = 0 \/ n = stopCount - 1
AtBoundary == IsBoundary(i)

SendPacket ==
    /\ pc = "stops" /\ params.chunkify
    /\ i < stopCount
    /\ AtBoundary
    /\ Write([type |-> "stops", data |-> packet], "stops", "done")
    /\ i' = i + 1
    /\ Deferred
    /\ UNCHANGED <<static, packet>>

FillPacket ==
    /\ pc = "stops" /\ params.chunkify
    /\ i < stopCount
    /\ ~AtBoundary
    /\ packet' = [packet EXCEPT ![(i % Packet) + 1] = i + 1]
    /\ i' = i + 1
    /\ UNCHANGED <<static, pc, ctxDone, writeErr, page>>

PacketsSent ==
    /\ pc = "stops" /\ params.chunkify
    /\ i = stopCount
    /\ pc' = "routes"
    /\ UNCHANGED <<static, ctxDone, writeErr, packets, page>>

SendRoutes ==
    /\ pc = "routes"
    /\ Write([type |-> "routes", data |-> rows["routes"]], "shapes", "done")
    /\ Deferred
    /\ UNCHANGED <<static, packets>>

SendShapes ==
    /\ pc = "shapes"
    /\ Write([type |-> "route_shapes", data |-> rows["shapes"]], "await", "done")
    /\ Deferred
    /\ UNCHANGED <<static, packets>>

StaticData ==
    \/ StaticFetched \/ SendTotals \/ SendStops
    \/ SendPacket \/ FillPacket \/ PacketsSent
    \/ SendRoutes \/ SendShapes
-----------------------------------------------------------------------------
(* The vehicles *)

loop == <<database, link, params, reader, first, queries, errored, results, packets>>

\* Broken variant: the first vehicles are not waited for.
AwaitNothing ==
    /\ pc = "await"
    /\ pc' = "vehicles"
    /\ UNCHANGED <<loop, faults, writeErr, ctxDone, vehicles, tick, page>>

\* wg.Wait for the first vehicles.
Await ==
    /\ pc = "await"
    /\ first # "running"
    /\ pc' = "vehicles"
    /\ UNCHANGED <<loop, faults, writeErr, ctxDone, vehicles, tick, page>>

\* The first vehicles; the variable is nil, and the message null, if they failed.
SendFirst ==
    /\ pc = "vehicles"
    /\ Write(IF first = "ok" THEN [type |-> "vehicles", data |-> vehicles]
                             ELSE [type |-> "null"], "select", "done")
    /\ Deferred
    /\ UNCHANGED <<loop, faults, vehicles, tick>>

\* Broken variant: "break" without a label leaves the select only.
LeaveSelect ==
    /\ pc = "select"
    /\ ctxDone
    /\ pc' = "poll"
    /\ UNCHANGED <<loop, faults, writeErr, ctxDone, vehicles, tick, page>>

\* The select finds the context cancelled and leaves the loop.
Leave ==
    /\ pc = "select"
    /\ ctxDone
    /\ pc' = "done"
    /\ UNCHANGED <<loop, faults, writeErr, ctxDone, vehicles, tick, page>>

\* The select finds a tick.
Wake ==
    /\ pc = "select"
    /\ tick
    /\ tick' = FALSE
    /\ pc' = "poll"
    /\ UNCHANGED <<loop, faults, writeErr, ctxDone, vehicles, page>>

\* Broken variant: the error of the query ends the session.
PollGivesUp ==
    /\ pc = "poll"
    /\ \/ /\ vehicles' = fleet
          /\ pc' = IF fleet = 0 THEN "select" ELSE "push"
          /\ UNCHANGED faults
       \/ /\ QueryFails
          /\ pc' = "done"
          /\ UNCHANGED vehicles
    /\ Deferred
    /\ UNCHANGED <<loop, writeErr, tick, page>>

\* FetchVehiclePositions; on an error, or without any position, nothing is sent.
Poll ==
    /\ pc = "poll"
    /\ \/ /\ vehicles' = fleet
          /\ pc' = IF fleet = 0 THEN "select" ELSE "push"
          /\ UNCHANGED faults
       \/ /\ QueryFails
          /\ pc' = "select"
          /\ UNCHANGED vehicles
    /\ UNCHANGED <<loop, writeErr, ctxDone, tick, page>>

\* A write that fails is only logged: the reader will notice.
Push ==
    /\ pc = "push"
    /\ Write([type |-> "vehicles", data |-> vehicles], "select", "select")
    /\ UNCHANGED <<loop, faults, vehicles, ctxDone, tick>>

Vehicles == Await \/ SendFirst \/ Wake \/ Poll \/ Push
-----------------------------------------------------------------------------
\* Nothing is left of the session: no goroutine runs.
Ended ==
    /\ pc \in Closed
    /\ reader # "reading"
    /\ first # "running"
    /\ queries = {}

Rest == Ended /\ UNCHANGED vars

Next ==
    \/ Traffic \/ PeerGone \/ Ticks
    \/ Accept \/ StaticData \/ Vehicles \/ Leave
    \/ ReadFails \/ FirstFetch \/ StaticFetch
    \/ Rest

Spec == Init /\ [][Next]_vars

(* Every goroutine runs and every query returns; the ticker ticks; the     *)
(* kernel notices a peer that is gone (TCP keepalive), so that ReadMessage *)
(* returns.  The select chooses at random among what is ready: it cannot   *)
(* prefer the ticker forever.                                              *)
FairSpec ==
    /\ Spec
    /\ WF_vars(StaticData)
    /\ WF_vars(Vehicles)
    /\ SF_vars(Leave)
    /\ WF_vars(ReadFails) /\ WF_vars(FirstFetch) /\ WF_vars(StaticFetch)
    /\ WF_vars(Ticks)
-----------------------------------------------------------------------------
(* Properties *)

\* The stops that reach a client which asked for packets.
InPackets == {n \in 1 .. stopCount : (n - 1) % Packet # 0 /\ n # stopCount}

(* A client that hears of vehicles has the static data it asked for, once: *)
(* the reducers append the stops and the lines, so that a repetition would *)
(* show.  It has all that the handler's queries returned, and they         *)
(* returned all rows unless a lost connection cut them short, which        *)
(* nothing tells the client.  A client that asked for packets misses the   *)
(* stops at the boundaries of the packets (handlers.go:421), and no other. *)
StaticFirst ==
    page.heard # "nothing" /\ params.static =>
        /\ page.totals
        /\ IF params.chunkify
           THEN ToSet(page.stops) \ {0} = InPackets
           ELSE page.stops = [n \in 1 .. stopCount |-> n]
        /\ page.routes = rows["routes"]
        /\ page.shapes = Lines(rows["shapes"])
        /\ \A q \in StaticQueries \ short : rows[q] = size[q]

(* The first vehicles are fetched by another goroutine into a variable of  *)
(* the handler: a client is told null only when that fetch failed, and     *)
(* then the session is already cancelled.                                  *)
NullOnlyOnFailure == page.heard = "null" => first = "failed" /\ ctxDone

(* A session that lost its peer, or that cannot be served, ends with all   *)
(* its goroutines, although write errors in the loop are only logged, and  *)
(* those of a compressed message may not be seen at all.                   *)
SessionEnds == link = "gone" \/ ctxDone \/ errored > 0 ~> Ended

(* A page that stays connected, and whose first queries succeeded, shows   *)
(* the current positions in the end, whichever polls fail, unless there    *)
(* are none: that is never told (handlers.go:588), and the page keeps      *)
(* showing positions that have expired.                                    *)
PageCatchesUp ==
    <>[] \/ pc \in {"request", "refused"}
         \/ link = "gone" \/ first = "failed" \/ errored > 0
         \/ fleet = 0
         \/ page.vehicles = fleet
-----------------------------------------------------------------------------
(* The inductive invariant behind the safety properties *)

\* Where the handler has not sent vehicles yet, and where its first fetch is over.
Unheard == PCs \ {"select", "poll", "push", "done"}
Fetched == {"vehicles", "select", "poll", "push"}

\* Only a connection without a peer remembers a failed write.
LinkInv == writeErr => link = "gone"

\* The first vehicles are not looked at while they are being fetched.
FirstInv ==
    /\ pc \notin {"request", "refused"} => first # "none"
    /\ pc \in Fetched => first # "running"
    /\ first = "failed" => ctxDone
    /\ pc \in Unheard => page.heard = "nothing"
    /\ NullOnlyOnFailure

\* The stops the loop has put into the packet so far.
Stored == {n \in 1 .. i : ~IsBoundary(n - 1)}

\* The packet holds nothing but stops that were put there, at their places.  One that
\* was not sent is still there, and the loop met no boundary since.
PacketInv ==
    /\ \A k \in 1 .. Packet : packet[k] = 0 \/ packet[k] \in Stored
    /\ ToSet(page.stops) \subseteq Stored \cup {0}
    /\ \A n \in Stored \ ToSet(page.stops) :
        /\ packet[((n - 1) % Packet) + 1] = n
        /\ \A b \in n .. (i - 1) : ~IsBoundary(b)

StopsWhole ==
    IF params.chunkify THEN ToSet(page.stops) \ {0} = InPackets
                       ELSE page.stops = [n \in 1 .. stopCount |-> n]

\* A static query fails once, and only one that was started.
ErroredInv ==
    /\ errored + Cardinality(queries) <= 3
    /\ pc = "request" => queries = {} /\ errored = 0

\* The queries run before the handler goes on, which it does when none has failed; what
\* is not cut short is whole.
FetchInv ==
    /\ pc # "fetching" => queries = {}
    /\ pc \notin {"fetching", "done"} => errored = 0
    /\ params.static /\ errored = 0 /\ pc \notin {"request", "refused"} =>
        \A q \in StaticQueries \ (queries \cup short) : rows[q] = size[q]

\* Before the loop over the stops, nothing was sent and the packet is empty.
BeforeStops == {"request", "fetching", "totals"}
EmptyInv == pc \in BeforeStops => i = 0 /\ packet = [n \in 1 .. Packet |-> 0]

\* As long as the peer is there, what the handler went past has reached the page.
BeforeShapes == BeforeStops \cup {"stops", "routes", "shapes"}
AfterShapes == {"await", "vehicles", "select", "poll", "push"}
AfterRoutes == {"shapes"} \cup AfterShapes
AfterStops == {"routes"} \cup AfterRoutes

Delivered ==
    /\ pc \in BeforeStops => page.stops = << >>
    /\ pc \in BeforeShapes => page.shapes = << >>
    /\ params.static =>
        /\ pc = "stops" =>
            /\ page.totals
            /\ IF params.chunkify THEN PacketInv ELSE page.stops = << >>
        /\ pc \in AfterStops => page.totals /\ StopsWhole
        /\ pc \in AfterRoutes => page.routes = rows["routes"]
        /\ pc \in AfterShapes => page.shapes = Lines(rows["shapes"])

IInv ==
    /\ TypeOK
    /\ LinkInv
    /\ FirstInv
    /\ ErroredInv
    /\ FetchInv
    /\ EmptyInv
    /\ link = "up" => Delivered
    /\ StaticFirst
=============================================================================
