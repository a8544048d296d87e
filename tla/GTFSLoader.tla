----------------------------- MODULE GTFSLoader -----------------------------
(***************************************************************************)
(* The static GTFS data (logic/loader.go): PollGTFSData wakes up once a    *)
(* day, stamps the time in Redis, downloads TriMet's archive and replaces  *)
(* the static tables in one transaction, while the handlers of the API     *)
(* query the same tables.                                                  *)
(*                                                                         *)
(* TRUNCATE takes ACCESS EXCLUSIVE locks one table after another, in the   *)
(* order of staticTables, and a query takes ACCESS SHARE locks in the      *)
(* order in which it names its tables.  The server keeps a queue per lock, *)
(* and when two transactions wait for each other it aborts one of them.    *)
(*                                                                         *)
(* Time is in hours, relative to the present: clocks run up to Day and     *)
(* stay there, so no bound on time is needed.                              *)
(***************************************************************************)
EXTENDS Naturals, Sequences, FiniteSets

CONSTANTS
    Day,         \* the polling period, in hours
    Readers,     \* concurrent API requests
    MaxFiles,    \* bound: archives TriMet publishes
    MaxFaults    \* bound: failed calls and crashes

StaticTables == << "calendar_dates", "routes", "services", "shapes", "stop_times",
                   "stops", "trips" >>

Tables == {StaticTables[i] : i \in 1 .. Len(StaticTables)}

\* Broken variant: the files in the order of the tables.
LoadersAlphabetic == StaticTables

\* The tables the loader functions fill, in order.
Loaders == << "services", "calendar_dates", "shapes", "routes", "trips", "stops",
              "stop_times" >>

\* The foreign keys: the tables a row of t refers to.
Parents(t) ==
    CASE t = "calendar_dates" -> {"services"}
      [] t = "trips"          -> {"routes", "services"}
      [] t = "stop_times"     -> {"trips", "stops"}
      [] OTHER                -> {}

\* The tables a query names, in its order (vehicle_positions, which the loader
\* leaves alone, is left out).
Arrivals    == << "routes", "trips", "stop_times", "calendar_dates" >>
TripShapes  == << "trips", "shapes", "routes" >>
RouteShapes == << "shapes", "routes", "trips" >>
AllStops    == << "stops" >>
Routes      == << "routes" >>

\* The queries of each handler.  FetchShapes locks like FetchRouteShapes, and
\* FetchVehiclePositions like FetchRoutes; a WebSocket session is three requests.
Handlers == { << Arrivals, TripShapes >>, << RouteShapes >>, << AllStops >>,
              << Routes >> }

ASSUME DayAssumption == Day \in Nat \ {0}
ASSUME BoundAssumption == MaxFiles \in Nat \ {0} /\ MaxFaults \in Nat

VARIABLES
    file,        \* TriMet: version of the archive it serves
    stamp,       \* Redis: hours since poll_gtfs_last_ts (Day: a day or more, or no key)
    tables,      \* per table, the archive its committed rows come from (0: empty)
    pc,          \* where the poll goroutine is ("down": no process)
    redis,       \* whether the one connection PollGTFSData keeps still works
    timer,       \* hours until the timer fires
    archive,     \* version downloaded
    locked,      \* how many of StaticTables the transaction has locked
    copied,      \* how many loader functions have run
    todo,        \* per request, the queries left, the current one first
    held,        \* per request, how many tables of that query it has locked
    answer,      \* per request, the versions its latest query saw
    sinceFetch,  \* history: hours since a download began (Day: a day or more)
    redisLost,   \* history: a Redis call failed since the last stamp
    faults       \* failed calls and crashes so far

loader   == <<pc, redis, timer, archive, locked, copied>>
requests == <<todo, held, answer>>
clocks   == <<stamp, timer, sinceFetch>>
vars     == <<file, stamp, tables, pc, redis, timer, archive, locked, copied, todo, held,
              answer, sinceFetch, redisLost, faults>>

TypeOK ==
    /\ file \in 1 .. MaxFiles
    /\ stamp \in 0 .. Day
    /\ tables \in [Tables -> 0 .. MaxFiles]
    /\ pc \in {"down", "waiting", "fired", "downloading", "locking", "copying"}
    /\ redis \in BOOLEAN
    /\ timer \in 0 .. Day
    /\ archive \in 0 .. MaxFiles
    /\ locked \in 0 .. Len(StaticTables)
    /\ copied \in 0 .. Len(Loaders)
    /\ todo \in [Readers -> Seq(Seq(Tables))]
    /\ held \in [Readers -> Nat]
    /\ answer \in [Readers -> SUBSET (0 .. MaxFiles)]
    /\ sinceFetch \in 0 .. Day
    /\ redisLost \in BOOLEAN
    /\ faults \in 0 .. MaxFaults

Init ==
    /\ file = 1
    /\ stamp = Day
    /\ tables = [t \in Tables |-> 0]
    /\ pc = "down"
    /\ redis = TRUE
    /\ timer = 0
    /\ archive = 0
    /\ locked = 0
    /\ copied = 0
    /\ todo = [r \in Readers |-> << >>]
    /\ held = [r \in Readers |-> 0]
    /\ answer = [r \in Readers |-> {}]
    /\ sinceFetch = Day
    /\ redisLost = FALSE
    /\ faults = 0

\* One more failure, within the bound.
Fault == faults < MaxFaults /\ faults' = faults + 1
-----------------------------------------------------------------------------
(* Time, and TriMet's archive *)

Later(h)  == IF h < Day THEN h + 1 ELSE Day
Sooner(h) == IF h > 0 THEN h - 1 ELSE 0

\* An hour passes.  (Not between the timer and the SET, which follows at once.)
Tick ==
    /\ pc # "fired"
    /\ stamp' = Later(stamp)
    /\ sinceFetch' = Later(sinceFetch)
    /\ timer' = Sooner(timer)
    /\ UNCHANGED <<file, tables, pc, redis, archive, locked, copied, requests, redisLost,
                   faults>>

NewFile ==
    /\ file < MaxFiles
    /\ file' = file + 1
    /\ UNCHANGED <<clocks, tables, pc, redis, archive, locked, copied, requests, redisLost,
                   faults>>
-----------------------------------------------------------------------------
(* PollGTFSData *)

\* Broken variant: the first download waits for a whole period.
StartWaitsADay ==
    /\ pc = "down"
    /\ pc' = "waiting"
    /\ timer' = Day
    /\ UNCHANGED <<file, stamp, tables, redis, archive, locked, copied, requests,
                   sinceFetch, redisLost, faults>>

\* GET poll_gtfs_last_ts and arm the timer for a day after it.  When the call
\* fails the error is logged and the time is 0, long ago; if it was the
\* connection that failed, it stays broken, for it is never dialled again.
Start ==
    /\ pc = "down"
    /\ pc' = "waiting"
    /\ \/ /\ timer' = Day - stamp
          /\ UNCHANGED <<redis, redisLost, faults>>
       \/ /\ Fault
          /\ timer' = 0
          /\ redis' \in BOOLEAN
          /\ redisLost' = TRUE
    /\ UNCHANGED <<file, stamp, tables, archive, locked, copied, requests, sinceFetch>>

\* The timer fires and is armed again.
Fire ==
    /\ pc = "waiting"
    /\ timer = 0
    /\ timer' = Day
    /\ pc' = "fired"
    /\ UNCHANGED <<file, stamp, tables, redis, archive, locked, copied, requests,
                   sinceFetch, redisLost, faults>>

\* Broken variant: the stamp is left for after the load.
SetStampLater ==
    /\ pc = "fired"
    /\ pc' = "downloading"
    /\ sinceFetch' = 0
    /\ UNCHANGED <<file, stamp, tables, redis, timer, archive, locked, copied, requests,
                   redisLost, faults>>

\* SET poll_gtfs_last_ts, before anything is loaded; an error is only logged.
SetStamp ==
    /\ pc = "fired"
    /\ pc' = "downloading"
    /\ \/ /\ redis
          /\ stamp' = 0
          /\ redisLost' = FALSE
          /\ UNCHANGED <<redis, faults>>
       \/ /\ \/ ~redis /\ UNCHANGED <<redis, faults>>
             \/ Fault /\ redis' \in BOOLEAN
          /\ redisLost' = TRUE
          /\ UNCHANGED stamp
    /\ sinceFetch' = 0
    /\ UNCHANGED <<file, tables, timer, archive, locked, copied, requests>>
-----------------------------------------------------------------------------
(* LoadGTFSData *)

\* RequestGTFSFile returns the archive, and the transaction begins.
Downloaded ==
    /\ pc = "downloading"
    /\ pc' = "locking"
    /\ archive' = file
    /\ UNCHANGED <<file, clocks, tables, redis, locked, copied, requests, redisLost, faults>>

DownloadFails ==
    /\ pc = "downloading"
    /\ Fault
    /\ pc' = "waiting"
    /\ UNCHANGED <<file, clocks, tables, redis, archive, locked, copied, requests, redisLost>>

\* The first n of a list of tables.
FirstOf(list, n) == {list[i] : i \in (1 .. n) \cap DOMAIN list}

\* What the transaction holds, holds or waits for, and waits for.
Locked == FirstOf(StaticTables, locked)
Queued == IF pc = "locking" THEN FirstOf(StaticTables, locked + 1) ELSE Locked
Wanted == Queued \ Locked

\* What request r holds.
Held(r) == IF todo[r] = << >> THEN {} ELSE FirstOf(todo[r][1], held[r])

\* Broken variant: TRUNCATE runs on the database, not in the transaction.
LockNextAutocommits ==
    /\ pc = "locking"
    /\ \E t \in Wanted : \A r \in Readers : t \notin Held(r)
    /\ tables' = [tables EXCEPT ![StaticTables[locked + 1]] = 0]
    /\ locked' = IF locked + 1 = Len(StaticTables) THEN 0 ELSE locked + 1
    /\ pc' = IF locked + 1 = Len(StaticTables) THEN "copying" ELSE pc
    /\ UNCHANGED <<file, clocks, redis, archive, copied, requests, redisLost, faults>>

\* TRUNCATE gets the next lock, since no query holds the table; with the last
\* one it empties the tables, out of everybody's sight.
LockNext ==
    /\ pc = "locking"
    /\ \E t \in Wanted : \A r \in Readers : t \notin Held(r)
    /\ locked' = locked + 1
    /\ pc' = IF locked + 1 = Len(StaticTables) THEN "copying" ELSE pc
    /\ UNCHANGED <<file, clocks, tables, redis, archive, copied, requests, redisLost, faults>>

\* The tables filled by the loader functions so far.
Filled == FirstOf(Loaders, copied)

\* The rows of the next file refer to rows that are there.
ForeignKeysHold == Parents(Loaders[copied + 1]) \subseteq Filled

\* Broken variant: each file is committed by itself.
CopyAlone ==
    /\ pc = "copying"
    /\ copied < Len(Loaders)
    /\ ForeignKeysHold
    /\ copied' = copied + 1
    /\ tables' = [tables EXCEPT ![Loaders[copied + 1]] = archive]
    /\ locked' = 0
    /\ UNCHANGED <<file, clocks, pc, redis, archive, requests, redisLost, faults>>

\* bulkReplace copies one file into its table.
CopyNext ==
    /\ pc = "copying"
    /\ copied < Len(Loaders)
    /\ ForeignKeysHold
    /\ copied' = copied + 1
    /\ UNCHANGED <<file, clocks, tables, pc, redis, archive, locked, requests, redisLost,
                   faults>>

\* The server aborts the transaction, or a file cannot be read, or the rows of
\* one refer to rows that are missing.
Failure ==
    \/ pc \in {"locking", "copying"} /\ Fault
    \/ /\ pc = "copying" /\ copied < Len(Loaders) /\ ~ForeignKeysHold
       /\ UNCHANGED faults

\* Broken variant: an early return without tx.Rollback.
LoadFailsOpen ==
    /\ Failure
    /\ pc' = "waiting"
    /\ copied' = 0
    /\ UNCHANGED <<file, clocks, tables, redis, archive, locked, requests, redisLost>>

\* The transaction is rolled back and the error logged: the next try is when
\* the timer fires.
LoadFails ==
    /\ Failure
    /\ pc' = "waiting"
    /\ locked' = 0
    /\ copied' = 0
    /\ UNCHANGED <<file, clocks, tables, redis, archive, requests, redisLost>>

Commit ==
    /\ pc = "copying"
    /\ copied = Len(Loaders)
    /\ tables' = [t \in Tables |-> IF t \in Filled THEN archive ELSE 0]
    /\ pc' = "waiting"
    /\ locked' = 0
    /\ copied' = 0
    /\ UNCHANGED <<file, clocks, redis, archive, requests, redisLost, faults>>

\* The process ends at any step: killed, or left by Run, which does not wait
\* for this goroutine.  (Cancelling the context has no other effect on it: the
\* break only leaves the select.)  The server rolls back what was open.
Die ==
    /\ pc # "down"
    /\ Fault
    /\ pc' = "down"
    /\ redis' = TRUE
    /\ timer' = 0
    /\ archive' = 0
    /\ locked' = 0
    /\ copied' = 0
    /\ todo' = [r \in Readers |-> << >>]
    /\ held' = [r \in Readers |-> 0]
    /\ answer' = [r \in Readers |-> {}]
    /\ UNCHANGED <<file, stamp, tables, sinceFetch, redisLost>>
-----------------------------------------------------------------------------
(* The requests *)

Request(r) ==
    /\ pc # "down"
    /\ todo[r] = << >>
    /\ \E h \in Handlers : todo' = [todo EXCEPT ![r] = h]
    /\ answer' = [answer EXCEPT ![r] = {}]
    /\ UNCHANGED <<file, stamp, sinceFetch, tables, loader, held, redisLost, faults>>

\* A query gets its next lock, unless the loader holds it or is in the queue
\* before it.
QueryLocks(r) ==
    /\ todo[r] # << >>
    /\ held[r] < Len(todo[r][1])
    /\ todo[r][1][held[r] + 1] \notin Queued
    /\ held' = [held EXCEPT ![r] = @ + 1]
    /\ UNCHANGED <<file, stamp, sinceFetch, tables, loader, todo, answer, redisLost, faults>>

\* With all its locks the query takes its snapshot and runs, and the handler
\* goes on to its next one or replies.
QueryAnswers(r) ==
    /\ todo[r] # << >>
    /\ held[r] = Len(todo[r][1])
    /\ answer' = [answer EXCEPT ![r] = {tables[t] : t \in Held(r)}]
    /\ todo' = [todo EXCEPT ![r] = Tail(@)]
    /\ held' = [held EXCEPT ![r] = 0]
    /\ UNCHANGED <<file, stamp, sinceFetch, tables, loader, redisLost, faults>>

\* r waits for a lock of the loader, and the loader for one of r's.
Deadlocked(r) ==
    /\ Wanted \cap Held(r) # {}
    /\ held[r] < Len(todo[r][1])
    /\ todo[r][1][held[r] + 1] \in Locked

\* The server resolves it by failing the query (LoadFails is the other choice).
QueryAborted(r) ==
    /\ Deadlocked(r)
    /\ todo' = [todo EXCEPT ![r] = << >>]
    /\ held' = [held EXCEPT ![r] = 0]
    /\ UNCHANGED <<file, stamp, sinceFetch, tables, loader, answer, redisLost, faults>>
-----------------------------------------------------------------------------
Poll == Start \/ Fire \/ SetStamp

Load == Downloaded \/ DownloadFails \/ LockNext \/ CopyNext \/ LoadFails \/ Commit

Query(r) == QueryLocks(r) \/ QueryAnswers(r) \/ QueryAborted(r)

Next ==
    \/ Tick \/ NewFile
    \/ Poll \/ Load \/ Die
    \/ \E r \in Readers : Request(r) \/ Query(r)

Spec == Init /\ [][Next]_vars

(* Time passes, the process is started again, a download and a statement   *)
(* return, and the queue of a lock is served in order: a query that is     *)
(* granted its lock again and again takes it.                              *)
FairSpec ==
    /\ Spec
    /\ WF_vars(Tick)
    /\ WF_vars(Poll)
    /\ WF_vars(Load)
    /\ \A r \in Readers : SF_vars(Query(r))
-----------------------------------------------------------------------------
(* Properties *)

(* A query answers from one archive, never from the middle of a load and   *)
(* never from a truncated table beside a full one (one transaction around  *)
(* TRUNCATE and all files, locks held to its end).                         *)
OneArchive == \A r \in Readers : Cardinality(answer[r]) <= 1

(* Once the static data was loaded, no request finds the tables empty,     *)
(* whatever load failed half way or died.                                  *)
NeverEmptyAgain ==
    [][ \A t \in Tables : tables[t] # 0 => tables'[t] # 0 ]_vars

(* The next download is due at the latest a day after the last one began,  *)
(* over restarts and failures of Redis too.                                *)
NextFetchInTime == pc = "waiting" => timer <= Day - sinceFetch

(* The stamp is written before the load, so that even a load that kills    *)
(* the process is not tried again for a day, as long as Redis answers.     *)
FetchesADayApart ==
    [][ pc = "fired" /\ pc' = "downloading" => sinceFetch = Day \/ redisLost ]_vars

(* Every request comes to an end, with a reply or an error: the loader     *)
(* holds its locks for one load only, and a deadlock is broken.            *)
EveryRequestEnds == \A r \in Readers : (todo[r] # << >>) ~> (todo[r] = << >>)

(* Once failures are over, the tables hold the archive TriMet serves.      *)
DataCatchUp == <>[](\A t \in Tables : tables[t] = file)
-----------------------------------------------------------------------------
(* The inductive invariant *)

\* The committed tables are those of one archive, or all empty.
OneVersion == \E v \in 0 .. MaxFiles : tables = [t \in Tables |-> v]

\* So is what a query saw, even if the tables changed since.
AnswerInv == \A r \in Readers : \E v \in 0 .. MaxFiles : answer[r] \subseteq {v}

\* A load has an archive, and files are copied with all locks held only.
LoadInv ==
    /\ pc \in {"locking", "copying"} => archive # 0
    /\ pc # "copying" => copied = 0

\* Redis knows of the last download, if the SET did not fail, or of one before.
StampInv ==
    /\ sinceFetch <= stamp
    /\ ~redisLost => stamp = sinceFetch

\* The timer fires a day after the last download, or earlier if Redis failed.
TimerInv ==
    /\ pc = "fired" => timer = Day /\ (sinceFetch = Day \/ redisLost)
    /\ pc \notin {"down", "fired"} =>
          /\ timer <= Day - sinceFetch
          /\ ~redisLost => timer = Day - sinceFetch

IInv == TypeOK /\ OneVersion /\ AnswerInv /\ LoadInv /\ StampInv /\ TimerInv
=============================================================================
