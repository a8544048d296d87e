-------------------------- MODULE VehiclePipeline --------------------------
(***************************************************************************)
(* The path of a vehicle position through trimetric: TriMet's feed, the    *)
(* producer (VehicleProducer), the topic "vehicle_positions", the consumer *)
(* (TopicConsumer with the upsert as its handler), and the row of the      *)
(* vehicle that the API serves.                                            *)
(*                                                                         *)
(* Both workers are goroutines of one process (Run, trimetric.go): they    *)
(* are killed together, a worker that returns cancels the other through    *)
(* the shared context, and neither starts again before both have ended and *)
(* the process is restarted.                                               *)
(***************************************************************************)
EXTENDS Integers, Sequences

CONSTANTS
    Vehicles, Slack, MaxLate, MaxCopies, FirstTime, MaxClock,  \* VehicleProducer
    Retention,                                                 \* TopicConsumer
    MaxFaults,  \* bound: failed Produce calls and repeated appends
    MaxExits    \* bound: ends of the process

VARIABLES
    clock, feed, up, vehicleMap, highest, batch, born, fetchedAt, dropped, faults,
    exits, log,
    oldest, committed, pc, position, marked, view, done, failed, base, restarts,
    cancelled   \* the context of Run is cancelled; the process is ending

producerVars == <<clock, feed, up, vehicleMap, highest, batch, born, fetchedAt,
                  dropped, faults, exits>>
consumerVars == <<oldest, committed, pc, position, marked, view, done, failed, base,
                  restarts>>
vars == <<producerVars, log, consumerVars, cancelled>>

P == INSTANCE VehicleProducer
C == INSTANCE TopicConsumer WITH
        Keys <- Vehicles, Message <- [key : Vehicles, ts : Nat],
        MaxLog <- 0, MaxRestarts <- MaxExits

ASSUME PartsAssumption ==
    /\ P!SlackAssumption /\ P!TimeAssumption /\ P!BoundAssumption
    /\ C!BoundAssumption

TypeOK == P!TypeOK /\ C!TypeOK /\ cancelled \in BOOLEAN

Init == P!Init /\ C!Init /\ cancelled = FALSE
-----------------------------------------------------------------------------
(* Steps of one part alone *)

Upstream == P!Upstream /\ UNCHANGED <<consumerVars, cancelled>>

Expire ==
    /\ \E n \in 1 .. C!Newest : C!Expire(n)
    /\ UNCHANGED <<producerVars, cancelled>>

\* A goroutine starts once per process, before anything cancelled it.
Produce ==
    /\ \/ P!Start /\ ~cancelled
       \/ P!Request
       \/ P!Producing
    /\ UNCHANGED <<consumerVars, cancelled>>

Consume ==
    /\ \/ C!Connect /\ ~cancelled
       \/ C!OpenPartition
       \/ C!Deliver \/ C!HandlerSucceeds \/ C!HandlerFails \/ C!Mark \/ C!Commit
    /\ UNCHANGED <<producerVars, cancelled>>
-----------------------------------------------------------------------------
(* The process *)

\* A signal, or the end of any other goroutine of Run.  (Counted, through the
\* consumer's exit; a process whose consumer never dialled did nothing yet.)
CancelContext ==
    /\ ~cancelled
    /\ pc \in C!Open
    /\ restarts < MaxExits /\ exits < MaxExits
    /\ cancelled' = TRUE
    /\ UNCHANGED <<producerVars, log, consumerVars>>

\* The producer's select sees the cancelled context.
ProducerStops ==
    /\ cancelled
    /\ batch = {}
    /\ P!Exit
    /\ UNCHANGED <<consumerVars, cancelled>>

\* The consumer's select sees it, and the deferred Close calls run.
ConsumerStops ==
    /\ cancelled
    /\ (C!Cancel \/ C!Closed)
    /\ UNCHANGED <<producerVars, cancelled>>

\* ConsumeKafkaTopic returns an error; "defer cancel()" takes the rest down.
ConsumerRefused ==
    /\ C!OpenRefused
    /\ cancelled' = TRUE
    /\ UNCHANGED producerVars

\* The whole process is killed, or dies of the consumer's nil message.
Die ==
    /\ C!Crash \/ C!ReadsClosedChannel
    /\ \/ P!Exit
       \/ ~up /\ UNCHANGED <<producerVars, log>>
    /\ cancelled' = TRUE

\* Every worker has ended: the process exits and is started again.
Restart ==
    /\ cancelled
    /\ ~up
    /\ pc \in {"stopped", "crashed"}
    /\ cancelled' = FALSE
    /\ UNCHANGED <<producerVars, log, consumerVars>>

Process == ProducerStops \/ ConsumerStops \/ ConsumerRefused \/ Restart

Next ==
    \/ Upstream \/ Expire \/ Produce \/ Consume
    \/ Process \/ CancelContext \/ Die

Spec == Init /\ [][Next]_vars

(* Each goroutine runs, each call of theirs returns, the flusher flushes,  *)
(* and a process that ended is started again.  The producer's select finds *)
(* the cancelled context ready at each visit, and Go chooses among the     *)
(* ready cases at random: it cannot take the ticker forever.               *)
FairSpec ==
    /\ Spec
    /\ WF_vars(Produce)
    /\ WF_vars(Consume)
    /\ WF_vars(C!Commit /\ UNCHANGED <<producerVars, cancelled>>)
    /\ WF_vars(Process)
    /\ SF_vars(ProducerStops)
-----------------------------------------------------------------------------
(* Properties *)

\* The report the database shows for v, once it shows one.
Row(v) == log[view[v]]

\* The offsets at which this process published v's latest report.
Offsets(v) == {o \in (born + 1) .. Len(log) : log[o] = P!Latest(v)}

\* v's latest report is on its way, or it was lost where the code admits it:
\* a failed Produce, a failed upsert, or a consumer that joined after it.
InFlight(v) == P!WillBeFetched(v) \/ P!Latest(v) \in batch
Lost(v) ==
    \/ P!Latest(v) \in dropped
    \/ \E o \in Offsets(v) : o \in failed \/ o < base

(* End to end: when nothing is in flight and the consumer caught up, the   *)
(* row of every vehicle is the report TriMet shows, whatever was retried,  *)
(* replayed or fetched twice on the way, unless a failure that the code    *)
(* only logs lost it.                                                      *)
RowsShowTheFeed ==
    up /\ pc = "polling" /\ position = C!Newest =>
        \A v \in Vehicles :
            \/ feed[v] = 0 \/ InFlight(v) \/ Lost(v)
            \/ (view[v] # 0 /\ Row(v) = P!Latest(v))

(* Over restarts of the producer too, the topic holds the reports of a     *)
(* vehicle in the order of time, so that the upsert, which compares no     *)
(* time stamps, is safe as long as offsets are handled in order.           *)
TopicInOrder ==
    \A i, j \in 1 .. Len(log) :
        i < j /\ log[i].key = log[j].key => log[i].ts <= log[j].ts

(* A row never goes back in time except while offsets handled before are   *)
(* replayed, although the upsert has no guard on the time stamp.           *)
RowsGoBackOnlyInReplay ==
    [][ \A v \in Vehicles :
            view[v] # 0 /\ Row(v)'.ts < Row(v).ts => position \in C!attempted ]_vars

(* Once the feed rests and faults are over, every row settles on the       *)
(* report TriMet shows, unless it was lost where the code admits it, or    *)
(* retention took the committed offset for good.                           *)
RowsSettle ==
    \/ <>[]C!OutOfRange
    \/ <>[] \A v \in Vehicles :
            feed[v] = 0 \/ Lost(v) \/ (view[v] # 0 /\ Row(v) = P!Latest(v))
-----------------------------------------------------------------------------
(* The inductive invariant behind the safety properties: those of the      *)
(* parts, and what ties the topic to the feed across restarts, which       *)
(* neither part knows.                                                     *)

\* The topic holds nothing newer than what the feed shows.
TopicBehindFeed == \A i \in 1 .. Len(log) : log[i].ts <= feed[log[i].key]

\* A report at hand is older than nothing in the topic about its vehicle,
\* whichever process put it there.
BatchAheadOfTopic ==
    \A r \in batch, i \in 1 .. Len(log) : log[i].key = r.key => log[i].ts <= r.ts

IInv ==
    /\ TypeOK
    /\ P!IInv
    /\ C!IInv
    /\ TopicBehindFeed
    /\ BatchAheadOfTopic
    /\ TopicInOrder
=============================================================================
