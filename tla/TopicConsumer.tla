--------------------------- MODULE TopicConsumer ---------------------------
(***************************************************************************)
(* One worker goroutine of trimetric: ConsumeKafkaTopic (logic/kafka.go)   *)
(* reading partition 0 of one topic and passing every message to a         *)
(* ConsumerFunc that writes it to the database.  The same code serves both *)
(* topics: "vehicle_positions", whose handler upserts the row of one       *)
(* vehicle (a key per vehicle), and "trip_updates", whose handler replaces *)
(* a whole table (a single key).                                           *)
(*                                                                         *)
(* Around it, the environment it is written against: the broker, which     *)
(* keeps the log, the group's committed offset and a retention limit; the  *)
(* offset manager of the client library, which flushes marked offsets in   *)
(* the background; and a process that may be killed at any step and is     *)
(* started again (restart: always).                                        *)
(*                                                                         *)
(* A model offset is the Kafka offset plus one, so that it indexes "log",  *)
(* and 0 is free to mean "none" (the client's OffsetNewest sentinel).      *)
(***************************************************************************)
EXTENDS Integers, Sequences

CONSTANTS
    Keys,         \* what the handler's write is keyed by
    Message,      \* the messages of the topic: records with a field "key"
    Retention,    \* whether the broker deletes old messages
    MaxLog,       \* bound: messages ever published
    MaxRestarts   \* bound: how often the process is stopped or dies

ASSUME MessageAssumption == \A m \in Message : m.key \in Keys
ASSUME BoundAssumption ==
    /\ Retention \in BOOLEAN
    /\ MaxLog \in Nat
    /\ MaxRestarts \in Nat

VARIABLES
    log,        \* broker: every message ever published (expired ones included)
    oldest,     \* broker: first offset still retained
    committed,  \* broker: the group's committed next offset, 0 when none
    pc,         \* where ConsumeKafkaTopic is
    position,   \* offset the partition consumer delivers next
    marked,     \* next offset handed to MarkOffset, not necessarily committed
    view,       \* database: per key, the offset whose message is stored (0: none)
    done,       \* history: offsets whose handling succeeded at least once
    failed,     \* history: offsets whose latest handling returned an error
    base,       \* history: first offset this group has been responsible for
    restarts    \* stops and crashes so far

broker  == <<log, oldest, committed>>
history == <<done, failed, base>>
vars    == <<log, oldest, committed, pc, position, marked, view, done, failed,
             base, restarts>>

Newest == Len(log) + 1

Max2(a, b) == IF a >= b THEN a ELSE b

\* The states in which partManager exists and its flusher runs.
Open == {"opening", "polling", "handling", "applied", "closing"}

TypeOK ==
    /\ log \in Seq(Message)
    /\ oldest \in 1 .. Newest
    /\ committed \in 0 .. Newest
    /\ pc \in Open \cup {"stopped", "crashed"}
    /\ position \in 0 .. Newest
    /\ marked \in 0 .. Newest
    /\ view \in [Keys -> 0 .. Len(log)]
    /\ done \in SUBSET (1 .. Len(log))
    /\ failed \in SUBSET (1 .. Len(log))
    /\ base \in 1 .. Newest
    /\ restarts \in 0 .. MaxRestarts

Init ==
    /\ log = << >>
    /\ oldest = 1
    /\ committed = 0
    /\ pc = "stopped"
    /\ position = 0
    /\ marked = 0
    /\ view = [k \in Keys |-> 0]
    /\ done = {}
    /\ failed = {}
    /\ base = 1
    /\ restarts = 0
-----------------------------------------------------------------------------
(* The broker *)

\* The broker appends m.  Whoever produces it decides when.
Publish(m) ==
    /\ Len(log) < MaxLog
    /\ log' = Append(log, m)
    /\ UNCHANGED <<oldest, committed, pc, position, marked, view, history, restarts>>

\* Retention drops the messages below n, read or not.
Expire(n) ==
    /\ Retention
    /\ oldest < n
    /\ oldest' = n
    /\ UNCHANGED <<log, committed, pc, position, marked, view, history, restarts>>
-----------------------------------------------------------------------------
(* The worker *)

\* Broken variant: the cursor survives from the previous connection.
ConnectKeepsCursor ==
    /\ pc \in {"stopped", "crashed"}
    /\ pc' = "opening"
    /\ marked' = committed
    /\ UNCHANGED <<broker, position, view, history, restarts>>

\* Dial the brokers, make the consumer and the offset manager, and ask it for
\* the group's next offset (0 stands for OffsetNewest: nothing committed yet).
Connect ==
    /\ pc \in {"stopped", "crashed"}
    /\ pc' = "opening"
    /\ marked' = committed
    /\ position' = committed
    /\ UNCHANGED <<broker, view, history, restarts>>

\* The offset asked for is one the broker still has (or its very end).
InRange(o) == o \in oldest .. Newest

\* Broken variant: resumes one past the committed offset.
OpenPartitionSkipsOne ==
    /\ pc = "opening"
    /\ \/ /\ position = 0
          /\ position' = Newest
          /\ base' = Newest
       \/ /\ position # 0
          /\ InRange(position + 1)
          /\ position' = position + 1
          /\ UNCHANGED base
    /\ pc' = "polling"
    /\ UNCHANGED <<broker, marked, view, done, failed, restarts>>

\* ConsumePartition succeeds.  A group without a committed offset begins at
\* the end of the log: whatever was published before is not its business.
OpenPartition ==
    /\ pc = "opening"
    /\ \/ /\ position = 0
          /\ position' = Newest
          /\ base' = Newest
       \/ /\ position # 0
          /\ InRange(position)
          /\ UNCHANGED <<position, base>>
    /\ pc' = "polling"
    /\ UNCHANGED <<broker, marked, view, done, failed, restarts>>

\* ConsumePartition returns ErrOffsetOutOfRange, and so does ConsumeKafkaTopic.
OpenRefused ==
    /\ pc = "opening"
    /\ position # 0
    /\ ~InRange(position)
    /\ pc' = "closing"
    /\ UNCHANGED <<broker, position, marked, view, history, restarts>>

\* Broken variant: the offset is marked before the message is handled.
DeliverMarks ==
    /\ pc = "polling"
    /\ position <= Len(log)
    /\ pc' = "handling"
    /\ marked' = Max2(marked, position + 1)
    /\ UNCHANGED <<broker, position, view, history, restarts>>

\* A message comes out of the channel.  It may have been buffered before
\* retention dropped it, so "oldest" does not matter here.
Deliver ==
    /\ pc = "polling"
    /\ position <= Len(log)
    /\ pc' = "handling"
    /\ UNCHANGED <<broker, position, marked, view, history, restarts>>

\* The database now holds the message being handled, under its key.
Stored == [view EXCEPT ![log[position].key] = position]

\* Broken variant: ON CONFLICT DO NOTHING.
HandlerKeepsOldRow ==
    /\ pc = "handling"
    /\ view' = IF view[log[position].key] = 0 THEN Stored ELSE view
    /\ done' = done \cup {position}
    /\ failed' = failed \ {position}
    /\ pc' = "applied"
    /\ UNCHANGED <<broker, position, marked, base, restarts>>

\* The handler writes the message and returns nil.
HandlerSucceeds ==
    /\ pc = "handling"
    /\ view' = Stored
    /\ done' = done \cup {position}
    /\ failed' = failed \ {position}
    /\ pc' = "applied"
    /\ UNCHANGED <<broker, position, marked, base, restarts>>

\* Broken variant: the handler deletes before it inserts, in no transaction.
HandlerFailsHalfway ==
    /\ pc = "handling"
    /\ view' = [view EXCEPT ![log[position].key] = 0]
    /\ failed' = failed \cup {position}
    /\ position' = position + 1
    /\ pc' = "polling"
    /\ UNCHANGED <<broker, marked, done, base, restarts>>

\* Broken variant: a message that cannot be handled is tried again at once.
HandlerFailsAndRetries ==
    /\ pc = "handling"
    /\ view' \in {view, Stored}
    /\ failed' = failed \cup {position}
    /\ pc' = "polling"
    /\ UNCHANGED <<broker, position, marked, done, base, restarts>>

\* The handler returns an error: the "break" only leaves the select, so the
\* message is neither marked nor tried again.  An error may hide a write that
\* took effect (the connection is lost after the statement ran).
HandlerFails ==
    /\ pc = "handling"
    /\ view' \in {view, Stored}
    /\ failed' = failed \cup {position}
    /\ position' = position + 1
    /\ pc' = "polling"
    /\ UNCHANGED <<broker, marked, done, base, restarts>>

\* MarkOffset(msg.Offset + 1); the offset manager never moves backwards.
Mark ==
    /\ pc = "applied"
    /\ marked' = Max2(marked, position + 1)
    /\ position' = position + 1
    /\ pc' = "polling"
    /\ UNCHANGED <<broker, view, history, restarts>>

\* The offset manager's flusher, once a second, and on Close.
Commit ==
    /\ pc \in Open
    /\ marked # committed
    /\ committed' = marked
    /\ UNCHANGED <<log, oldest, pc, position, marked, view, history, restarts>>

\* The select sees that the context is cancelled.
Cancel ==
    /\ pc = "polling"
    /\ restarts < MaxRestarts
    /\ restarts' = restarts + 1
    /\ pc' = "closing"
    /\ UNCHANGED <<broker, position, marked, view, history>>

\* Broken variant: Close does not wait for the pending flush.
ClosedAtOnce ==
    /\ pc = "closing"
    /\ pc' = "stopped"
    /\ UNCHANGED <<broker, position, marked, view, history, restarts>>

\* The deferred Close calls: partManager.Close waits for a pending flush.
Closed ==
    /\ pc = "closing"
    /\ marked = committed
    /\ pc' = "stopped"
    /\ UNCHANGED <<broker, position, marked, view, history, restarts>>

\* The offset asked for next is gone: the client closes the channel and the
\* nil message read from it is dereferenced.
ReadsClosedChannel ==
    /\ pc = "polling"
    /\ position < oldest
    /\ pc' = "crashed"
    /\ UNCHANGED <<broker, position, marked, view, history, restarts>>

\* The process is killed at any step.
Crash ==
    /\ pc \in Open
    /\ restarts < MaxRestarts
    /\ restarts' = restarts + 1
    /\ pc' = "crashed"
    /\ UNCHANGED <<broker, position, marked, view, history>>
-----------------------------------------------------------------------------
\* The goroutine's own steps, whatever the handler returns.
Step ==
    \/ Connect \/ OpenPartition \/ OpenRefused
    \/ Deliver \/ HandlerSucceeds \/ HandlerFails \/ Mark
    \/ Closed \/ ReadsClosedChannel

Worker == Step \/ Commit \/ Cancel \/ Crash

Environment ==
    \/ \E m \in Message : Publish(m)
    \/ \E n \in 1 .. Newest : Expire(n)

Next == Worker \/ Environment

Spec == Init /\ [][Next]_vars

(* A process that is up keeps running, one that is down is started again   *)
(* (restart: always), a statement returns, and the flusher's ticker fires. *)
FairSpec == Spec /\ WF_vars(Step) /\ WF_vars(Commit)
-----------------------------------------------------------------------------
(* Properties *)

attempted == done \cup failed

(* Committing means giving up the right to read again.  Every offset the   *)
(* group is responsible for and will not be sent again was handed to the   *)
(* handler: crashes, lost flushes and failed writes never let the          *)
(* committed offset run ahead of the handling (kafka.go MarkOffset after   *)
(* the handler, never before).                                             *)
CommitCovered == base .. (committed - 1) \subseteq attempted

(* Everything below the cursor is in the database, or something later for  *)
(* the same key is, unless its own write failed.  In particular a worker   *)
(* that caught up shows the last message of each key, although a replay    *)
(* stored older ones over it for a while.                                  *)
ViewFollowsCursor ==
    \A o \in (base .. (position - 1)) \ failed : view[log[o].key] >= o

(* A worker that left through its deferred Close calls will not be sent    *)
(* again a message it handled since it connected, failed ones apart: only  *)
(* a crash makes finished work be repeated.                                *)
CleanStopNeverReplays ==
    pc = "stopped" =>
        \A o \in (base .. (position - 1)) \ failed : o < committed

(* The upsert has no guard on the timestamp, so a row can go back to an    *)
(* older message.  It does only while offsets already handled before are   *)
(* replayed after a crash, never because of a message seen first.          *)
RegressionOnlyInReplay ==
    [][ \A k \in Keys : view'[k] < view[k] => position \in attempted ]_vars

(* The worker implements the at-least-once promise: first attempts in log  *)
(* order without a gap, and acknowledgements that never overtake them.     *)
Abstract == INSTANCE AtLeastOnce WITH acked <- committed, start <- base
AtLeastOnceSpec == Abstract!Spec

(* Every message the group is responsible for, and that the broker still   *)
(* has, is eventually handed to the handler.                               *)
EveryMessageAttempted ==
    \A o \in 1 .. MaxLog :
        (o \in oldest .. Len(log)) ~>
            (o \in attempted \/ o < oldest \/ o < base)

\* Retention took the committed offset: opening there is refused.
OutOfRange == committed # 0 /\ committed < oldest

(* Only retention can keep the worker from a message: unless the committed *)
(* offset falls out of the log for good, every message is handed to the    *)
(* handler, however often the worker stops, crashes and starts again.      *)
OnlyRetentionStarves == <>[]OutOfRange \/ EveryMessageAttempted

(* Once stops and crashes are over, the database settles on the last       *)
(* message of each key, however often older ones were stored over it,      *)
(* unless the committed offset fell out of the log for good.               *)
ViewConverges ==
    \/ <>[]OutOfRange
    \/ <>[] \A o \in (base .. Len(log)) \ failed : view[log[o].key] >= o
-----------------------------------------------------------------------------
(* The inductive invariant behind the safety properties *)

\* The three cursors of a group: flushed, marked, and read.
CursorOrder ==
    /\ committed <= marked
    /\ marked <= position
    /\ committed # 0 => base <= committed
    /\ marked # 0 => base <= marked

\* What each point of the code knows.
PcInv ==
    /\ pc = "opening" => position = committed
    /\ pc = "stopped" => marked = committed
    /\ pc \in {"polling", "handling", "applied"} => base <= position
    /\ pc \in {"handling", "applied"} => position <= Len(log)
    /\ pc = "applied" =>
        /\ position \in done \ failed
        /\ view[log[position].key] = position

\* First attempts are made in order and without a gap.
NoGap ==
    /\ base .. (position - 1) \subseteq attempted
    /\ \A o \in attempted : base .. o \subseteq attempted

\* A row holds a message that was handled, under its own key.
ViewAttempted ==
    \A k \in Keys : view[k] # 0 => view[k] \in attempted /\ log[view[k]].key = k

\* Only a failed message is read and not marked.
MarkFollowsCursor == \A o \in (base .. (position - 1)) \ failed : o < marked

IInv ==
    /\ TypeOK
    /\ CursorOrder
    /\ PcInv
    /\ NoGap
    /\ ViewAttempted
    /\ ViewFollowsCursor
    /\ MarkFollowsCursor
=============================================================================
