-------------------------- MODULE VehicleProducer --------------------------
(***************************************************************************)
(* ProduceVehiclePositions (logic/vehicles.go): a goroutine polls TriMet's *)
(* vehicle feed with a cursor, drops the reports it has already seen, and  *)
(* produces the rest one by one into the topic "vehicle_positions".        *)
(*                                                                         *)
(* The feed is the environment: per vehicle, the time stamp of its latest  *)
(* report.  A report may become visible up to MaxLate seconds after its    *)
(* time stamp; that is why the code keeps its cursor Slack seconds behind  *)
(* the newest time stamp it saw.                                           *)
(*                                                                         *)
(* A batch is at hand exactly while the code is in its loop over the       *)
(* vehicles; batch = {} is the select on the ticker and the context.       *)
(***************************************************************************)
EXTENDS Integers, Sequences

CONSTANTS
    Vehicles,    \* vehicle ids
    Slack,       \* how far the cursor stays behind (5 seconds in the code)
    MaxLate,     \* feed: longest delay between time stamp and visibility
    MaxCopies,   \* how often the client library may append one message (1 + retries)
    FirstTime,   \* the time the model begins
    MaxClock,    \* bound: the time it ends
    MaxFaults,   \* bound: failed Produce calls and repeated appends
    MaxExits     \* bound: how often the process ends

ASSUME SlackAssumption ==
    /\ Slack \in Nat /\ MaxLate \in Nat
    /\ MaxLate < Slack
ASSUME TimeAssumption ==
    /\ FirstTime \in Nat /\ MaxClock \in Nat
    /\ Slack + MaxLate <= FirstTime
ASSUME BoundAssumption ==
    /\ MaxCopies \in Nat \ {0}
    /\ MaxFaults \in Nat /\ MaxExits \in Nat

VARIABLES
    clock,       \* wall-clock seconds
    feed,        \* per vehicle, the time stamp of its latest report (0: none)
    up,          \* the goroutine runs
    vehicleMap,  \* per vehicle, the time stamp last seen (0: not in the map)
    highest,     \* highestTimestamp, the cursor sent as "since"
    batch,       \* reports of the current response not looked at yet
    log,         \* the topic: every message ever appended
    born,        \* history: length of the log when this process started
    fetchedAt,   \* history: time of this process's last request (0: none)
    dropped,     \* history: reports a failed Produce made this process drop
    faults,      \* failed Produce calls and repeated appends so far
    exits        \* ends of the process so far

local == <<vehicleMap, highest, batch, fetchedAt>>
vars  == <<clock, feed, up, vehicleMap, highest, batch, log, born, fetchedAt,
           dropped, faults, exits>>

Report == [key : Vehicles, ts : Nat]

\* The report the feed shows for vehicle v.
Latest(v) == [key |-> v, ts |-> feed[v]]

TypeOK ==
    /\ clock \in Nat /\ FirstTime <= clock
    /\ feed \in [Vehicles -> Nat]
    /\ up \in BOOLEAN
    /\ vehicleMap \in [Vehicles -> Nat]
    /\ highest \in Nat
    /\ batch \in SUBSET Report
    /\ log \in Seq(Report)
    /\ born \in 0 .. Len(log)
    /\ fetchedAt \in 0 .. clock
    /\ dropped \in SUBSET Report
    /\ faults \in 0 .. MaxFaults
    /\ exits \in 0 .. MaxExits

Init ==
    /\ clock = FirstTime
    /\ feed = [v \in Vehicles |-> 0]
    /\ up = FALSE
    /\ vehicleMap = [v \in Vehicles |-> 0]
    /\ highest = 0
    /\ batch = {}
    /\ log = << >>
    /\ born = 0
    /\ fetchedAt = 0
    /\ dropped = {}
    /\ faults = 0
    /\ exits = 0
-----------------------------------------------------------------------------
(* The feed *)

Tick ==
    /\ clock < MaxClock
    /\ clock' = clock + 1
    /\ UNCHANGED <<feed, up, local, log, born, dropped, faults, exits>>

\* The time stamps of the reports that may become visible now.
Fresh == (clock - MaxLate) .. clock

\* Vehicle v's report of time t replaces its previous one.
NewReport(v, t) ==
    /\ t > feed[v]
    /\ feed' = [feed EXCEPT ![v] = t]
    /\ UNCHANGED <<clock, up, local, log, born, dropped, faults, exits>>
-----------------------------------------------------------------------------
(* The producer *)

\* Broken variant: the cursor outlives the process, the map does not.
StartKeepsCursor ==
    /\ ~up
    /\ up' = TRUE
    /\ vehicleMap' = [v \in Vehicles |-> 0]
    /\ fetchedAt' = 0
    /\ born' = Len(log)
    /\ dropped' = {}
    /\ UNCHANGED <<clock, feed, highest, batch, log, faults, exits>>

\* The process starts with an empty map and a zero cursor.
Start ==
    /\ ~up
    /\ up' = TRUE
    /\ vehicleMap' = [v \in Vehicles |-> 0]
    /\ highest' = 0
    /\ fetchedAt' = 0
    /\ born' = Len(log)
    /\ dropped' = {}
    /\ UNCHANGED <<clock, feed, batch, log, faults, exits>>

\* Broken variant: the next request does not wait for the end of the batch.
RequestOverlaps ==
    /\ up
    /\ batch' = batch \cup {r \in {Latest(v) : v \in Vehicles} : r.ts > highest}
    /\ fetchedAt' = clock
    /\ UNCHANGED <<clock, feed, up, vehicleMap, highest, log, born, dropped, faults,
                   exits>>

\* The ticker fires and the request returns every report later than the
\* cursor, in no particular order.  (A failed request changes nothing.)
Request ==
    /\ up
    /\ batch = {}
    /\ batch' = {r \in {Latest(v) : v \in Vehicles} : r.ts > highest}
    /\ fetchedAt' = clock
    /\ UNCHANGED <<clock, feed, up, vehicleMap, highest, log, born, dropped, faults,
                   exits>>

\* The map holds this very time stamp for the vehicle.
SkipDuplicate(r) ==
    /\ up
    /\ vehicleMap[r.key] = r.ts
    /\ batch' = batch \ {r}
    /\ UNCHANGED <<clock, feed, up, vehicleMap, highest, log, born, fetchedAt,
                   dropped, faults, exits>>

\* Broken variant: no slack.
RememberExact(r) ==
    /\ vehicleMap[r.key] # r.ts
    /\ vehicleMap' = [vehicleMap EXCEPT ![r.key] = r.ts]
    /\ highest' = IF r.ts > highest THEN r.ts ELSE highest

\* Broken variant: the map is not updated.
RememberNothing(r) ==
    /\ vehicleMap[r.key] # r.ts
    /\ highest' = IF r.ts > highest THEN r.ts - Slack ELSE highest
    /\ UNCHANGED vehicleMap

\* The cursor and the map move before the message is handed to Kafka.  The
\* cursor may move back: it is compared without the slack and set with it.
Remember(r) ==
    /\ vehicleMap[r.key] # r.ts
    /\ vehicleMap' = [vehicleMap EXCEPT ![r.key] = r.ts]
    /\ highest' = IF r.ts > highest THEN r.ts - Slack ELSE highest

\* The broker appends n copies of r.
Appended(r, n) == log \o [i \in 1 .. n |-> r]

\* Produce returns nil.  A retry of the client library inside the call may
\* have appended the message more than once.
ProduceSucceeds(r) ==
    /\ up
    /\ Remember(r)
    /\ \E n \in 1 .. MaxCopies :
        /\ faults + (n - 1) <= MaxFaults
        /\ faults' = faults + (n - 1)
        /\ log' = Appended(r, n)
    /\ batch' = batch \ {r}
    /\ UNCHANGED <<clock, feed, up, born, fetchedAt, dropped, exits>>

\* Produce (or the encoding before it) fails: the rest of the response is
\* abandoned.  The broker may have appended the message all the same.
ProduceFails(r) ==
    /\ up
    /\ faults < MaxFaults
    /\ faults' = faults + 1
    /\ Remember(r)
    /\ \E n \in 0 .. MaxCopies : log' = Appended(r, n)
    /\ batch' = {}
    /\ dropped' = dropped \cup batch
    /\ UNCHANGED <<clock, feed, up, born, fetchedAt, exits>>

\* The goroutine sees the cancelled context, or the process dies.
Exit ==
    /\ up
    /\ exits < MaxExits
    /\ exits' = exits + 1
    /\ up' = FALSE
    /\ batch' = {}
    /\ UNCHANGED <<clock, feed, vehicleMap, highest, log, born, fetchedAt, dropped,
                   faults>>
-----------------------------------------------------------------------------
Producing == \E r \in batch : SkipDuplicate(r) \/ ProduceSucceeds(r) \/ ProduceFails(r)

Producer == Start \/ Request \/ Producing

Upstream == Tick \/ \E v \in Vehicles, t \in Fresh : NewReport(v, t)

Next == Producer \/ Exit \/ Upstream

Spec == Init /\ [][Next]_vars

(* The process is started again when it is down (restart: always), the     *)
(* ticker keeps firing, and a request or a Produce call returns.           *)
FairSpec == Spec /\ WF_vars(Producer)
-----------------------------------------------------------------------------
(* Properties *)

\* What this process has put into the topic.
Published == {log[i] : i \in (born + 1) .. Len(log)}

\* The next request returns v's report, and it is not taken for a duplicate.
WillBeFetched(v) == feed[v] > highest /\ feed[v] # vehicleMap[v]

(* The report the feed shows for a vehicle is in the topic, or at hand, or *)
(* will be fetched: the cursor never moves past a report that was not      *)
(* produced, and the duplicate check never eats one, except when a failed  *)
(* Produce dropped it (vehicles.go, the map and the cursor are updated     *)
(* before Produce and the rest of the batch is abandoned).                 *)
NoReportSlips ==
    up => \A v \in Vehicles :
            \/ feed[v] = 0
            \/ Latest(v) \in Published \cup batch \cup dropped
            \/ WillBeFetched(v)

(* A step adds to the topic only reports newer than everything this        *)
(* process has put there about the same vehicle: a report is handed to     *)
(* Kafka once, and per vehicle in the order of time, in spite of the       *)
(* cursor that goes back and requests that overlap.                        *)
OnlyNews ==
    [][ \A i \in (born + 1) .. Len(log), j \in (Len(log) + 1) .. Len(log') :
            log'[j].key = log[i].key => log'[j].ts > log[i].ts ]_vars

(* Every report reaches the topic, unless a later one of the same vehicle  *)
(* replaced it or a failed Produce dropped it.                             *)
EveryReportProduced ==
    \A v \in Vehicles, t \in (FirstTime - MaxLate) .. MaxClock :
        (feed[v] = t) ~>
            (feed[v] # t \/ Latest(v) \in Published \cup dropped)
-----------------------------------------------------------------------------
(* The inductive invariant behind the safety properties *)

\* The feed's time stamps lie in the past and are large enough for the
\* unsigned subtraction of the slack.
FeedInv == \A v \in Vehicles : feed[v] = 0 \/ feed[v] \in Slack .. clock

\* The cursor stays behind the last request by the slack.
CursorInv == highest = 0 \/ highest + Slack <= fetchedAt

\* The response at hand: what the feed showed at the time of the request, one
\* report per vehicle, none older than the map.
BatchInv ==
    /\ ~up => batch = {}
    /\ \A r \in batch :
        /\ r.ts \in Slack .. fetchedAt
        /\ r.ts <= feed[r.key]
        /\ vehicleMap[r.key] <= r.ts
        /\ \A s \in batch : s.key = r.key => s = r

\* The map holds the newest report produced, or dropped, per vehicle.
MapInv ==
    \A v \in Vehicles :
        /\ vehicleMap[v] <= feed[v]
        /\ up /\ vehicleMap[v] # 0 =>
            [key |-> v, ts |-> vehicleMap[v]] \in Published \cup dropped

PublishedInv == \A r \in Published : r.ts <= vehicleMap[r.key]

\* What became visible after the last request is within its slack.
AccountInv ==
    up => \A v \in Vehicles :
            \/ feed[v] = 0
            \/ Latest(v) \in Published \cup batch \cup dropped
            \/ feed[v] # vehicleMap[v] /\ feed[v] + Slack > fetchedAt

IInv ==
    /\ TypeOK
    /\ FeedInv
    /\ CursorInv
    /\ BatchInv
    /\ MapInv
    /\ PublishedInv
    /\ AccountInv
=============================================================================
