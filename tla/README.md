# Trimetric: a TLA+ verification project

Trimetric polls TriMet's realtime feeds into Kafka topics, consumes the topics into
PostgreSQL, loads the static GTFS data once a day, and serves all of it over HTTP and a
WebSocket to a web page. This directory holds TLA+ modules translated from its source,
the TLC configurations that check them, and TLAPS proofs. Paths below are relative to the
repository.

## 1. The system

### Components, their state and their operations

| Component | Source | State it keeps | Operations |
|---|---|---|---|
| Vehicle producer | `logic/vehicles.go` ProduceVehiclePositions, `trimet/vehicles.go` | `vehicleMap`, `highestTimestamp`, the response at hand | poll once a second, drop duplicates, Produce |
| Trip updates producer | `logic/trip_updates.go` ProduceTripUpdates, `trimet/trip_updates.go` | none | poll, Produce the whole feed as one message |
| Messages | `trimet/vehicles_gen.go`, `trimet/trip_updates_gen.go` | none | MarshalMsg, UnmarshalMsg |
| Consumer worker (twice) | `logic/kafka.go` ConsumeKafkaTopic and the client's offset manager | cursor, marked offset, committed offset (broker) | connect, open partition, handle, mark, flush, close |
| Vehicle row | `logic/vehicles.go` UpsertVehiclePosition, FetchVehiclePositions | table `vehicle_positions` | upsert by vehicle id, read |
| Trip updates store | `logic/trip_updates.go` | tables `trip_updates`, `stop_time_updates` | replace both in a transaction; read with two selects |
| Static loader | `logic/loader.go`, `trimet/csv.go`, `gtfs.go`, `parse.go`, `time.go` | seven static tables, `poll_gtfs_last_ts` in Redis | poll daily, download, parse, TRUNCATE, COPY, commit |
| Static queries | `logic/stops.go`, `routes.go`, `shapes.go`, `route_shapes.go` | none (read the tables) | arrivals, trip shapes, route lines, stops |
| HTTP handlers | `api/handlers.go` | none | one or two queries, reply |
| WebSocket session | `api/handlers.go` HandleWS | packets sent, last vehicles sent | static data, whole or in packets, then vehicles every five seconds |
| Process supervisor | `trimetric.go` Run, `cmd/trimetric/main.go` | context, wait group, servers | key, database, migrations, start goroutines, cancel on the first that ends, shut down |
| Web client | `web/src/data.js`, `store.js`, `components/app.jsx` | store, timers, socket, selected stop | follow the URL, poll arrivals, reduce what the session brings |

### Interactions

The producers and the consumers share nothing but the topic: the log, the group's
committed offset and the broker's retention (one hour, `docker-compose.yml`). The
consumers and the API share nothing but the tables, at PostgreSQL's default isolation,
READ COMMITTED. The loader and the API contend for table locks. All goroutines of a
process share one context, which any of them cancels when it returns; the container is
restarted when the process ends (`restart: always`). The page has two ways to the server: a
WebSocket that is opened once, and requests for arrivals in a loop.

### What is hard here

* A handler that fails is only logged: the `break` in `kafka.go:117` leaves the select and
  not the loop, so the next message's mark passes the failed one.
* After a crash everything since the last flush is handled again, by an upsert that
  compares no time stamps.
* The producer's cursor is compared without its five seconds of slack and set with them,
  so that it moves back within a response; responses overlap; Produce is called after the
  map and the cursor have moved.
* The two selects of FetchTripUpdates are outside the transaction begun for them.
* Most loops over the rows of a query never ask rows.Err(): a connection that is lost while they
  arrive ends the loop as after the last row, and the truncated result goes on as a whole one.
* The loader stamps its time before it loads, and locks seven tables one by one under the
  queries.
* Shutting down is a race of five goroutines, two servers and a wait group, in which one
  `break` that does not leave its loop keeps the count right.
* A session is four goroutines that share variables and a context; write errors are logged
  or, when the message is compressed, not even seen.
* A report passes through five forms between TriMet and the page, a row of a static file
  through three, and columns are matched by position.
* Stop times go on past midnight, under the date of the day before.

The full list, with lines, is under "hazards" in `PROJECT.json`.

### What makes each component correct

* Consumer: a committed offset never overtakes the handling; the row of a key is its last
  handled message; a clean stop repeats nothing; rows go back only during a replay; every
  message is handled in the end.
* Vehicle producer: no report is lost by the cursor or the map; none is published twice
  or out of order by one process; each one reaches the topic.
* Pipeline: a row shows what the feed shows once everything is quiet.
* Trip updates store: committed tables are one message; a read that no commit and no lost
  connection disturbs is exact; a disturbed one is wrong in a bounded way.
* Loader: an answer comes from one archive; tables never become empty again; downloads
  are a day apart and never later; no request waits forever; the tables catch up.
* Conversions: what comes out at the API is what went in at TriMet.
* WebSocket session: all that the static queries returned reaches the client exactly once, before
  vehicles; a session without a peer ends; a page that stays is brought up to date.
* Supervisor: every goroutine is waited for, the wait group never goes negative, no
  goroutine runs on an old schema, and the end of one ends all.
* Web client: what is shown belongs to what is selected, and is upcoming.

## 2. The modules

| Module | Models | Composed of |
|---|---|---|
| `AtLeastOnce` | what a consumer worker promises (abstract) | |
| `TopicConsumer` | ConsumeKafkaTopic, broker, offset manager, handler | implements `AtLeastOnce` |
| `VehicleProducer` | ProduceVehiclePositions against TriMet's feed | |
| `VehiclePipeline` | feed, producer, topic, consumer, row, one process | instances of both |
| `TripUpdates` | UpdateTripUpdates against FetchTripUpdates | |
| `GTFSLoader` | PollGTFSData, LoadGTFSData, the queries of the API | |
| `WSSession` | HandleWS, sendStaticDataToWS, the store of the client | |
| `Supervisor` | main, MigrateDB, Run | |
| `Optional` | nil pointers, unset fields, NULL | |
| `Codec` | the message structs and their MessagePack code | extends `Optional` |
| `Realtime` | a report from the protobuf to the API | extends `Codec` |
| `StaticRows` | a static file row by row to the table: bulkReplace and the loaders' callbacks | extends `Optional` |
| `RouteLines` | route lines, trip shapes, shapes: row by row and segment by segment | extends `Optional` |
| `ArrivalsPage` | App, the client's loop, HandleArrivals, FetchArrivals | extends `Optional` |
| `MCTopicConsumer`, `MCTripUpdates`, `MCArrivalsPage` | messages, feeds and timetables for TLC | extend the module they are named after |
| `MCConversions` | inputs for the conversions, and what should come out | extends `Realtime`, `StaticRows`, `RouteLines` |
| `TopicConsumer_proofs`, `VehicleProducer_proofs`, `TripUpdates_proofs`, `GTFSLoader_proofs`, `WSSession_proofs`, `Supervisor_proofs` | theorems | extend the module they are named after |
| `StaticData_proofs` | theorems about the static data, from the file to the page | extends `StaticRows`, `RouteLines`, `ArrivalsPage` |
| `VehiclePipeline_proofs` | theorems | extends `VehiclePipeline`, instances of the proofs of its two parts |

Definitions whose comment begins "Broken variant" are not part of a specification: each is
a plausible mistake in the definition it precedes, kept to show that the properties notice
it (`PROJECT.json`, "mutants").

### TopicConsumer

One worker and partition 0 of one topic. `pc` is the point of the code: "opening" after the
clients are made (`Connect`, kafka.go:50-91), "polling" at the select, "handling" inside the
ConsumerFunc, "applied" between its return and MarkOffset, "closing" in the deferred Close
calls. `position` is the partition consumer's next offset, `marked` the offset manager's,
`committed` the broker's. Offsets are one more than Kafka's, so that 0 can mean none. An
error of the handler may hide a write that took effect, so `HandlerFails` may store or not.
`OpenPartition` starts a group that has no committed offset at the end of the log
(OffsetNewest), as the client does. `Expire` is retention; an offset below `oldest` is
refused when the partition is opened (`OpenRefused`) and closes the channel when it happens
later (`ReadsClosedChannel`: the nil message is dereferenced and the process dies). `Crash`
is a kill at any step, `Cancel` the context.

A message is abstracted to its key: a vehicle for one topic, a single key for the other,
whose handler replaces whole tables. `done`, `failed` and `base` are history variables.

### VehicleProducer

`feed` is TriMet: per vehicle the time stamp of its latest report, which becomes visible at
most `MaxLate` seconds after it. `Request` takes all reports above the cursor; `batch` is
what the loop has not looked at yet, in any order. `Remember` is the update of map and
cursor (vehicles.go:240-251), which `ProduceSucceeds` and `ProduceFails` both contain, since
the code does it before Produce. A failing Produce abandons the batch; the client's retries
may append a message more than once, and an error may hide an append. Times are naturals:
the code's are unsigned, and `TypeOK` with `CursorInv` says that no subtraction wraps.

### VehiclePipeline

Instances of the two on a shared log, in one process: a worker that ends cancels the
context (`cancelled`), no worker starts again until both have ended and the process was
restarted, and `Die` kills both at once. In this module `CancelContext` stands also for the
end of the goroutines it leaves out.

### TripUpdates

The writer statement by statement (Begin, DELETE with its cascade, an INSERT per trip
update and per stop, Commit, Rollback), with its own view of the tables; ids come from a
sequence that is never rolled back. The reader is two selects, each seeing what is committed
at its moment: SET TRANSACTION and both selects go through the pool and not through `tx`.
Either may end early: neither loop asks rows.Err(), so that a connection lost between two rows
ends it as after the last one (`TripsBreakOff`: any part of the trip updates, which are not
ordered; `StopsBreakOff`: the first stops in the order of the index), and the commit, which goes
over the connection of the unused transaction, succeeds all the same. `ReadFails` is an
error that the code does see. `Attached` is the join in memory, in which a stop of an unknown trip
update falls to index 0 (the zero value of the map), the first row of the first select, or panics if
there is none. `short` is a history variable: the selects that were cut short.

### GTFSLoader

The poll goroutine with its timer and its time stamp in Redis, then the load: download,
TRUNCATE taking one ACCESS EXCLUSIVE lock after another in the order of `staticTables`,
the seven loader functions in order with the foreign keys between their tables, commit.
A request is a list of queries, a query a list of tables on which it takes ACCESS SHARE
locks in order and then answers from its snapshot. A waiting TRUNCATE queues before later
queries; a cycle is resolved by the server, which fails the query (`QueryAborted`) or the load
(`LoadFails`). A failed Redis call may leave the one connection the goroutine keeps broken for
the rest of its life (the client's errors are sticky, and it is never dialled again). Time is
kept relative and saturates at `Day`, so the clock needs no bound. Rows are abstracted to
the version of the archive they come from.

### WSSession

The handler is one goroutine (`pc`); `reader` reads and cancels `ctx` when the peer is gone,
`first` fetches the first vehicles into a variable of the handler, and `queries` are the three
static queries, which run at once. Each of these ends with all its rows, with an error, or, the
connection being lost while they arrive, with the first of them and no error (`StaticFetch`; none
of the three asks rows.Err()); `rows` is how many it returned, `size` how many there are, and `short`
the history of those that were cut short. `Accept` parses the parameters; `SendPacket` and
`FillPacket` are the two branches of the loop over the stops, with the array that is sent
and never cleared. `Write` is a write to a peer that may be gone: the kernel may still take
it, it may fail, or fail unseen (`writeCompressedJSON` writes in a deferred Close); once one
failed, gorilla's connection fails all later ones. The client is the store of the page
(`Reduced`): stops and lines are appended, routes and vehicles replaced, and null throws, as
vehicles that were not fetched do, and lines of fewer than two points (`Lines`).

### Supervisor

main with its retries and exits, the migrations, then Run: `worker` is each of the four
goroutines that Run waits for, with Done before cancel as the deferred calls run; `poll` is the
fifth, which calls Done when it returns, and never does. `stopper` shuts the server down.
The server is Go 1.9's, whose Serve undoes a Shutdown that came before it (`Listen`
after `Shutdown`). Signals, panics and restarts may come at any point.

### The conversions

`Codec` writes and reads any struct that a schema describes; a schema is the list of
fields that a struct of package `trimet` has, in the order the generated code
writes them. The generated functions differ in those fields only, so that one encoder and one
decoder stand for all of them, tokens standing for the bytes. `Realtime` takes a report from
the protobuf's entity over the struct, the message, the row and back to the struct of the API.
It is functions only: a report or a feed is converted in one step.

`StaticRows` is a load of one file. `Loaded` takes a row over the parsers to the columns of COPY,
where the code matches by position and the module's `Header` and `FileColumn` say which names
belong together (the headers are those of the fixtures; there is none for `shapes.txt`, whose columns
are named by GTFS in the order in which `NewShapeFromRow` takes them); the actions are the rounds of bulkReplace's loop and its ends: the header
(`SkipHeader`), a service that was met before (`SkipService`), a row that is given to COPY
(`CopyRow`), one that does not parse (`RowFails`), a file that cannot be read on or a statement
that fails (`CopyFails`), and `EndOfFile`. `copied` is what COPY was given, `ids` the map of
LoadServices.

`RouteLines` is a request for shapes. `Ask` is HandleShapes with its bad parameters, `Scan` a
round of the loop over the rows, which puts a row onto the last line or begins a new one; rows
that ORDER BY leaves equal come in any order. `AllScanned` and `BreaksOff` end the loop: when the
connection is lost rows.Next() ends as after the last row, and the code never asks rows.Err().
Then come removeDuplicateSegments' two loops: `NextShape` takes any of the longest lines
(sort.Slice is not stable), `Draw` looks at one segment, `EndShape` and `EndCut` end the loops.

`MCConversions` starts one of these three machines in each behavior, and says what should come
out of the first; what should come out of the others is stated in their modules. A text is a
member of a small set or, where parsing matters, the sequence of its parts.

### ArrivalsPage

`loop` is the client's loop: timer, request, answer or error, timer. `Navigate` and `Message` are
what makes App look at the URL (`ReceiveProps`): it finds a stop only among the stops of
the properties it had before. `FetchArrivals` is the query's condition on date and time of
day; the model relies on no service lasting beyond the second midnight after its date
(`StopTimeAssumption`). A NULL headsign fails the request in `FetchArrivals` (`Readable`), a NULL
direction in `FetchTripShapes`, if the trip has a shape (`Drawable`), unless the connection is
lost before that row is read. The WebSocket is abstracted to the order in which `WSSession`
delivers: stops first (`StopsMessage`: all of them, or those that were read before the connection was
lost), then vehicles again and again (`VehiclesMessage`), until it closes for good.

## 3. What the runs check

The deadlock check is off in the runs of `TopicConsumer`, where a worker that caught up waits
for messages the bound `MaxLog` no longer allows, in those of `MCConversions`, whose behaviors
convert one input, load one file or answer one request and end, and in `ArrivalsPage`, where the
clock, the user and the socket may stop while no stop is selected. Elsewhere every state has a step; where that step may be the
environment's alone (time in `GTFSLoader`, say), it is the liveness properties that show that
the program itself goes on.

| Run | Question | Bounds |
|---|---|---|
| `TopicConsumer` | is the commit covered, the database current, the restart clean, `AtLeastOnce` implemented; does nothing but retention starve a message, does the database settle? | 2 keys, 3 messages, 2 stops or crashes, retention |
| `TopicConsumer_retention` | is every message attempted? violated, see findings | 2 keys, 3 messages, 1 stop, retention |
| `VehicleProducer` | does a report slip, is one published twice, does each reach the topic? | 2 vehicles, 2 seconds, reports 1 s late, slack 2, 1 failed Produce, 1 exit |
| `VehiclePipeline` | does the row show the feed, is the topic in order, when does a row go back, does it settle? | 1 vehicle, reports at 2 seconds, retention, 2 copies, 1 fault, 1 end |
| `TripUpdates_safety` | are the tables one message, how wrong can a reply be? | 3 messages (empty, one trip, two trips), 3 commits, 6 ids, requests one at a time, any select cut short |
| `TripUpdates_snapshot` | do both selects see one snapshot? violated, see findings | 1 request, 2 commits |
| `GTFSLoader` | one archive per answer, downloads in time and a day apart, nobody waits forever, tables catch up? | 1 request at a time, day of 4 hours, 2 archives, 3 faults |
| `WSSession` | static data once and first, null only on failure, does a session end, does the page catch up? | packets of 3, no stops or 5, 2 routes, 3 points, 2 changes of the vehicles, 1 query that fails or is cut short |
| `Supervisor` | is the count exact, the exit orderly, the schema current, do all end together? | 4 workers, 2 migrations, 3 errors, signals or panics |
| `Conversions` | does each report, message, line and file come out as it went in? | all combinations of optional fields, three versions of the writer, files of a header and two rows with one or two spoilt fields, networks of 2 shapes of at most 3 points |
| `Conversions_routes` | is a route's url its url? violated, see findings | the same |
| `ArrivalsPage` | are the arrivals upcoming, does the page follow its URL? | 2 stops and an unknown one, days of 4 units, 2 midnights, 2 changes of the URL, 1 failing request or query that is cut short |

### Why these bounds are enough to meet the interesting cases

* TopicConsumer: a replay needs two handled messages of one key and a crash before the
  flush; a failed message passed by the next mark needs two; a second stop shows what a
  restart leaves behind. Three messages on two keys contain all of these; the theorems of
  `TopicConsumer_proofs` cover the safety properties for any number.
* VehicleProducer: a report one second late with a slack of two is the smallest case in
  which the order of time stamps and of visibility differ and the cursor goes back. A second
  vehicle moves the cursor past the first one's report. `FirstTime = Slack + MaxLate` is the
  smallest the assumptions allow, where the subtraction would wrap first. Repeated appends
  are left to the pipeline run (`MaxCopies = 2`).
* VehiclePipeline: one vehicle is enough since rows are per vehicle; the cursor across
  vehicles is the run above. One end of the process gives a crash before the flush and a
  restarted producer that fetches everything again.
* TripUpdates: three commits put two of them between the selects of one request; an empty
  message gives the panicking reader, as does a first select that lost all its rows; two trips
  with two stops give the wrong attachment, and a reply with the first stop of one only. One request
  at a time is enough, since requests change nothing and share nothing; the theorems of
  `TripUpdates_proofs` cover any number. Six ids are enough for three
  commits of the longest message.
* GTFSLoader: queries do not conflict with each other, so every conflict is between the
  load and one request; the request set holds queries that lock in an order opposite to
  `staticTables`, so the deadlock occurs. Three faults give a failed load, a crash and a
  failed Redis call in one behaviour. A second archive is enough to tell old from new.
* WSSession: five stops in packets of three have a first packet (empty), one in the
  middle and a last one that carries old stops, and stops at the boundaries; an empty table
  sends none. A query that is cut short has any number of rows, so that every count of stops
  below five occurs, too, and no lines. Two changes let positions expire and come back. `IInv`
  was also checked with two faults, one query cut short and another failing.
* Supervisor: the real number of workers. Three faults are a worker that fails, a signal and a
  panic, or a shutdown before the server listens after two failed starts.
* Conversions: every field is absent or present on its own, and with every other; the second
  row of a file shows that an error, or a repetition in calendar_dates, does not shift the next.
  The shapes share track in both directions, and routes share shapes.
* ArrivalsPage: the hour is a quarter of a day, so that the window crosses midnight from
  both sides; two moves leave a stop and come back to it while an answer is late; a trip without
  a direction has a shape or none.

### Fairness

* `TopicConsumer`: weak fairness of the goroutine's own steps (the Go scheduler, statements
  that return, and `restart: always` for `Connect`) and of the flush (a ticker). Stops,
  crashes and retention are not fair. Which way a handler ends is not fair either: a
  message that fails counts as attempted, and rows whose message failed are excused by name.
* `VehicleProducer`: weak fairness of the loop. The clock and the feed owe nothing.
* `VehiclePipeline`: weak fairness of each goroutine separately, so that neither starves the
  other, and of the process manager. `ProducerStops` is strongly fair: the select has the
  context ready at every visit and Go picks among the ready cases at random.
* `GTFSLoader`: time passes, a load goes on; a query is strongly fair, for the server serves
  the queue of a lock in order. A download that never returns (`http.Get` without a timeout)
  is excluded by the fairness of `Load`: liveness assumes that TriMet closes or answers.
* `WSSession`: every goroutine runs, queries return, the ticker ticks, and a read from a peer
  that is gone returns (TCP keepalive). `Leave` is strongly fair, for the select chooses at
  random between the context and the tick. The peer, the vehicles and failures are not fair.
* `Supervisor`: the main goroutine, the server, the shutting down goroutine and each worker run.
  Signals, panics and errors are not fair, and PollGTFSData need not even spin.
* `ArrivalsPage`: timers fire and a request is answered or fails; an open session brings
  messages. The clock, the user and the closing of the socket are not fair.

## 4. What is proved

TLAPS checks every proof; no leaf is assumed. The theorems hold for all values of the
constants: any number of keys, vehicles, messages, workers, requests, any slack, period and
bounds. Every type invariant is proved, as `TypeCorrect`, `PageTypeCorrect` or as part of the
inductive invariant (`BulkReplaceInv`, `LinesTypeOK`), so that the runs do not list it; `IInv` is an invariant of the runs of `TopicConsumer` and `VehicleProducer`. All safety
properties of the passing runs, invariants and action properties, are theorems, except for
`VehiclesSurvive` and `TripUpdatesSurvive`.

**TopicConsumer_proofs**, from `MessageAssumption` (a message has a key) and `BoundAssumption`
(the bounds are naturals). `Invariance` shows `IInv`. The safety properties alone are not
inductive: `CommitCovered` says nothing about `marked`, which becomes `committed` later, nor
about `position`, which becomes `marked`. `IInv` adds the order of the three cursors
(`CursorOrder`), what each program point knows (`PcInv`), that what lies between `base` and the
cursor was attempted without a gap (`NoGap`), that rows come from attempted offsets of their
own key, and that the mark follows the cursor up to failed messages. From it:
`CommitsAreCovered`, `ViewIsCurrent`, `CleanStop`, the action property
`RegressionIsReplay`, and `Implementation`: every step of the worker is a step of
`AtLeastOnce` or a stutter, with `acked` mapped to `committed` and `start` to `base`.

**VehicleProducer_proofs**, from `SlackAssumption` (`MaxLate < Slack`: the feed is late by less
than the slack: the five seconds of vehicles.go:247 can allow for no more), `TimeAssumption` (the
model begins no earlier than `Slack + MaxLate`; the code runs long after 1970) and
`BoundAssumption`. `NoReportSlips` is about the next request and is not inductive: the
cursor moves in the middle of a response. `IInv` therefore measures against the last
request: `AccountInv` says a report not accounted for lies within the slack of
`fetchedAt`, `CursorInv` that the cursor stays that much behind it, `BatchInv` and `MapInv`
what the response and the duplicate map hold, `PublishedInv` that the map is at least as new
as the topic. From it: `NothingSlips`, and the action property `NewsOnly`; `TypeCorrect` here
says that the unsigned subtraction does not wrap. The lemma `ProduceStep` is the common part of
the two outcomes of Produce.

**VehiclePipeline_proofs**, from `PartsAssumption` (the assumptions of the parts, for the
constants they are given). The module instantiates the proof modules of both parts beside the
specifications, so that their step lemmas can be cited: `Composition` says that a step of the
pipeline is a step of each part or leaves its variables alone (appending to the shared topic
is a Publish of the consumer), and `PartsAssumptions`, `SameProducer` and `SameConsumer` connect
the instances. The invariants of the parts are not enough for `TopicInOrder`: the producer's
knows only what its own process published (`born`), and a restarted one starts with an empty map
and a cursor of zero. `IInv` therefore adds what ties the topic to the feed: no offset
holds anything newer than the feed shows (`TopicBehindFeed`), and what a response brought is at
least as new as all the topic has of that vehicle (`BatchAheadOfTopic`). From it: `TopicStaysInOrder`;
`RowsAreTheFeed`, in which the consumer contributes that the row comes from an offset no
lower than the latest report's, the order of the topic that it is no older a report, and the
feed that it is no newer one; and the action property `RowsGoBackInReplay`, since an upsert of an
unattempted offset takes the row forward. `ProducerImplemented` and `ConsumerImplemented` say
that the composition keeps each part's promise: it implements `VehicleProducer`, and
`AtLeastOnce` over a topic to which one call may append several copies (so that `Publish` there
appends one message or several). `RowsFollowTheCursor` and `CleanStop` are the consumer's for
the process as a whole.

**TripUpdates_proofs**, from `FeedsAssumption` (the type of the messages) and `BoundAssumption`.
What a reader gets depends on ids, so `IInv` is mostly about their order: none is drawn
twice (`IdsInv`), the transaction holds the part of the message written so far in rows younger
than the committed ones and than those a waiting reader has seen (`TxInv`), so that between
its selects a reader is undisturbed or everything committed since is younger than what it saw
(`BetweenInv`), what it saw being part of the message only if its first select was cut short. The
stop rows of each trip of its reply are then those of the message, none of them, or, if the
second select was cut short, a beginning of them (`RepliedInv`). The lemma `AddTrip` says that rows
under a new id add one trip update to what the tables stand for, `OwnBeginning` that a beginning of
all stops is a beginning of each trip's, `FirstSelect` and `SecondSelect` what the two selects
establish, whole or cut short. From it: `TablesAreOneFeed`, `UndisturbedIsExact`,
`OneTripPolluted`, `PanicNeedsEmpty`.

**GTFSLoader_proofs**, from `DayAssumption` and `BoundAssumption`. `IInv` says that the committed
tables are of one version (`OneVersion`), and so is every answer (`AnswerInv`), that a
load has an archive and copies only in its place (`LoadInv`), that the stamp is never newer than
the last download, and equal to it unless Redis failed (`StampInv`), and that the timer is due by
the end of the day after it (`TimerInv`). The lemma `EveryTableIsLoaded` says that the seven
loaders fill the seven tables. From it: `AnswersFromOneArchive`, `TheNextIsInTime`, and the
action properties `StaysFilled` and `ADayApart`.

**WSSession_proofs**, from `SessionAssumption`. `StaticFirst` speaks of a page that has heard of
vehicles, and says nothing of how it came there. `IInv` says for each point of the handler what
the page has got as long as the peer is there (`Delivered`); within the loop over the stops it
accounts for each stop the loop has passed (`PacketInv`): it was at a boundary, or has been
sent, or still lies at its place in the packet with no boundary since. That the last is
impossible after the loop, and that no stop is overwritten before it is sent, is arithmetic on
remainders (`MultipleBetween`: between two stops that share a place lies a boundary). A page
without a peer receives nothing more, so that what it has is what it had (`LinkInv`: only a
connection without a peer remembers a failed write). `FirstInv` follows the variable that the
handler shares with the goroutine of the first query. `ErroredInv` bounds the errors of the
static queries by three, and `FetchInv` says that the handler goes on only when all three have
ended without an error, each of them whole unless it is in `short`. From it: `StaticDataFirst` and `NullMeansFailure`.

**StaticData_proofs** follows the static data from the file to the page, in three parts.

*The load*, from `MaxNumberAssumption` (59 is a number that Atoi reads), `DecimalAssumption` (the
text of a number is read as that number), `NilAssumption` and `CSVsAssumption` (a row has a field
for each column of the header, and the hours of a time are a number). `FilesSurvive` is about a
load that has ended; `BulkReplaceInv` says the same of the rows read so far, and that `ids` are
the services that were copied. That a row that is copied says what the file says is one lemma per
file (`CalendarDatesSay` to `RoutesSay`, together `RowsSay`), over two about the parsers:
`ParsersSayTheSame`, and `TimeSurvives`, that a time of any number of hours written by
MarshalText is read back by Scan as the same time. `CopiedGrows` and `SkippedSayNothing` carry
the invariant over a row. From it: `LoadInvariance`, `FilesAreLoaded`.

*The requests for shapes*, from `NetworksAssumption` (shapes have points, ids are numbers,
directions are 0, 1 or NULL) and `DirectionAssumption`. `LinesInv` says of the loop over the rows
that no row was read before one that ORDER BY puts before it (`ReadInOrder`), and that each line
reaches to the last row read of it, the lines being in order (`LinesAreRead`): from these follows
that a row which does not continue the last line begins one that there is not yet. Of
removeDuplicateSegments it says that `seen` are the segments that the loops have passed
(`SeenIsBegun`) and the pieces of what was drawn, each of them drawn once and on the track of one
line (`DrawnIsSeen`), and that the open line ends where the next segment begins (`OpenLine`):
without this an extended line would draw a piece that is on no track. The invariant makes no use
of the order in which lines are cut, so that the theorem holds for any result of the sort. From
it, by `EachIsFetchedOnce` and `AllIsDrawn`: `LinesInvariance`, `LinesSurvival`.

*The page*, from `DayAssumption`, `StopTimeAssumption` (a stop time refers to a stop, by the
foreign key, and its service ends before the second midnight after its date),
`UnknownAssumption` and `BoundsAssumption`. The lemma `FetchesTheUpcoming` is the arithmetic of
the query: its two branches, today's date with the time of day and yesterday's with a day
added, are together the window of an hour on the line of time; dates before are over by
the second assumption (`DaysBefore`). With the type invariant, `ArrivalsAreUpcoming` is
inductive. From it: `PageInvariance`, `PageTypeCorrect`, `ShowsTheUpcoming`.

**Supervisor_proofs**, from `WorkersAssumption` (the number given to `wg.Add` is that of the
workers), `LatestAssumption` and `BoundAssumption`. `IInv` is the conjunction of the type
invariant and the three safety properties, which are inductive together: an empty count means
that no worker is left (`NobodyLeft`), and a worker that calls Done takes one off it
(`OneLess`). From it: `CounterIsExact`, `ExitIsOrderly`, `SchemaCurrent`.

**Only model-checked**: every liveness property, since fairness is outside the prover's reach
here (`OnlyRetentionStarves`, `ViewConverges`, `EveryReportProduced`, `RowsSettle`,
`EveryRequestEnds`, `DataCatchUp`, `SessionEnds`, `PageCatchesUp`, `AllEndTogether`,
`PageFollowsUrl`); and the conversions of the realtime reports (`VehiclesSurvive`,
`TripUpdatesSurvive`): `Codec` is recursive over its data, which the prover cannot follow.

## 5. Findings

* `TripUpdates_snapshot`: FetchTripUpdates promises one snapshot for both selects
  (`logic/trip_updates.go:36-38`), but runs SET TRANSACTION and the selects on the pool. A
  commit between them mixes two messages. How bad it gets is bounded by the passing run and by the
  proofs: only the first trip of the reply can carry foreign stops, and the handler panics only if
  its first select was empty.
* `TopicConsumer_retention`: a committed offset that retention removed while the worker was
  down makes ConsumePartition fail at every start; the process restarts in a loop and reads
  nothing until the broker forgets the offset. It needs a commit that lags behind (a crash
  before the flush, or a failed last message) and an hour of downtime.
* `Conversions_routes`: LoadRoutes gives COPY the type of a route twice and its url never
  (`logic/loader.go:237`), so that the column `url`, and `/api/v1/routes`, show the type.

What else goes wrong is stated in the passing properties, each as an exception with its cause:

* `VehiclesSurvive`: a bearing that is not whole is refused by the SMALLINT column and the vehicle
  keeps its old row; congestion, occupancy, odometer and speed are not stored; a report without a
  vehicle position or without an id kills the process.
* `TripUpdatesSurvive`: one uncertainty above 32767, or one trip update whose trip has no id
  (`trip_id` is NOT NULL), loses the whole feed; times are shifted by the zone of the process.
* `UndisturbedReadExact`, `OnlyFirstTripPolluted`, `PanicOnlyFromEmpty`: a reply that a lost
  connection cuts short goes out as a whole one, since neither loop of FetchTripUpdates asks
  rows.Err() (`trip_updates.go:57`, `84`): trips are missing, or carry the first of their stops
  only; the stops of a missing trip go to the first one; and the handler panics when the
  first select lost all its rows.
* `StaticFirst`: a list of stops, routes or lines that was cut short in the same way (`stops.go:60`,
  `routes.go:34`, `route_shapes.go:118`) is sent to a client as if it were whole, once at the start
  of its session, and stays for as long as the page is open.
* `LinesSurvive`: an answer that a lost connection cuts short goes out as a whole one, since
  nobody asks rows.Err() (`route_shapes.go:118`); a trip without a direction, a point without a
  distance, or shapeIDs without routeIDs fail the request.
* `FetchesADayApart` and `NextFetchInTime`: a Redis call that fails counts as 1970, and the archive is
  downloaded at once (`redisLost`), against "only download if it has been more than 24 hours"
  (`logic/loader.go:35-37`).
* `StaticFirst`: a client that asks for packets misses the stops at their boundaries
  (`handlers.go:421`). The page itself does not ask for packets.
* `PageCatchesUp`: that there are no positions any more is never told (`handlers.go:588`).
* `AllEndTogether`: a shutdown that comes before the server listens is undone, and the API is
  served without workers.
* `ArrivalsAreUpcoming`: the service of the next day is not seen before midnight.
* `PageFollowsUrl`: a session that closes before its first vehicles leaves the stop of the URL
  unselected, and so does a list of stops that was cut short before it; a stop time without a
  headsign, or without a direction on a trip with a shape, fails its requests.

## 6. What is not modelled, and why

* A broker that stays down while a worker runs (the offset manager's error channel fills),
  partitions other than 0 and rebalancing (the code asks for partition 0 by number).
* Metrics and vendored libraries, apart from the client's offset logic and the parts of the
  WebSocket and HTTP servers that the modules name.
* The decoding of protobuf, CSV and ZIP: outputs of libraries. Among it, a file that is missing
  from the archive is read from its first member (`csv.go:51`).
* The days on which the clock changes: `ArrivalsPage` has days of one length, while the query
  compares the time of day of the clock with times that GTFS counts from twelve hours before noon.
* Queries that PostGIS answers (stops within a distance or a box), and the join that adds the
  vehicle to an arrival: one statement each, with nothing to interleave.
* A connection lost at Begin or Prepare (`trip_updates.go:31`, `111`): both dereference nil and
  end the request or the process; to the tables either is a step that did not happen.
* The two queries of HandleArrivals across a commit of the loader: each is from one archive
  (`OneArchive`), but they may be from two; the page draws the arrivals without their lines then.
* `gtfs_gen.go`, and EncodeMsg, DecodeMsg and Msgsize of the other generated files: nothing
  calls them.
* Rendering of the web components, and `exception_type` (`stops.go:201` ignores it: a
  service removed from a date would run all the same).
* A server that keeps a dead client's transaction open for a while after a crash.

## 7. What could follow

1. Proofs: that the rows of `Realtime` keep a report, apart from the codec; an abstract store
   that is replaced as a whole, implemented by `TripUpdates` and `GTFSLoader`.
2. HandleArrivals with its two queries as a reader of `GTFSLoader` that is held to both.
3. A broker that is down for a while, with the error channel of the offset manager.

To check: `tlc -config <run>.cfg <module>` and `tlapm <module>_proofs.tla` in this directory;
`PROJECT.json` names the module of each run.
