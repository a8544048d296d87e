----------------------- MODULE TopicConsumer_proofs -----------------------
(***************************************************************************)
(* Proofs about TopicConsumer, for every set of keys and messages, every   *)
(* length of the log and every number of crashes.                          *)
(***************************************************************************)
EXTENDS TopicConsumer, TLAPS

(* Publishing only extends the log: what is stored at an offset stays.     *)
LEMMA PublishExtends ==
    ASSUME TypeOK, NEW m \in Message, Publish(m)
    PROVE  /\ log' \in Seq(Message)
           /\ Len(log') = Len(log) + 1
           /\ \A o \in 1 .. Len(log) : log'[o] = log[o]
  BY DEF TypeOK, Publish

(* The initial state satisfies the inductive invariant. *)
LEMMA InitIInv == Init => IInv
<1> SUFFICES ASSUME Init PROVE IInv
  OBVIOUS
<1>1. TypeOK
  BY BoundAssumption DEF Init, TypeOK, Newest, Open
<1>2. CursorOrder /\ PcInv /\ NoGap /\ ViewAttempted
  BY DEF Init, CursorOrder, PcInv, NoGap, attempted, ViewAttempted
<1>3. ViewFollowsCursor /\ MarkFollowsCursor
  BY DEF Init, ViewFollowsCursor, MarkFollowsCursor
<1> QED
  BY <1>1, <1>2, <1>3 DEF IInv

(* Whoever extends the log, and however far, the worker's invariant holds  *)
(* of the longer log: it speaks of offsets only through what is there.     *)
LEMMA LogGrows ==
    ASSUME IInv,
           log' \in Seq(Message), Len(log) <= Len(log'),
           \A o \in 1 .. Len(log) : log'[o] = log[o],
           UNCHANGED <<oldest, committed, pc, position, marked, view, done, failed, base,
                       restarts>>
    PROVE  IInv'
<1> USE DEF IInv, TypeOK, Newest, Open, attempted
<1>1. TypeOK'
  BY DEF PcInv
<1>2. PcInv'
  BY DEF PcInv, CursorOrder
<1>3. ViewFollowsCursor'
  <2>1. base .. (position - 1) \subseteq 1 .. Len(log)
    OBVIOUS
  <2> SUFFICES ASSUME NEW o \in (base .. (position - 1)) \ failed
               PROVE  view[log'[o].key] >= o
    BY DEF ViewFollowsCursor
  <2>2. log'[o] = log[o]
    BY <2>1
  <2> QED
    BY <2>2 DEF ViewFollowsCursor
<1>4. ViewAttempted'
  BY DEF ViewAttempted
<1> QED
  BY <1>1, <1>2, <1>3, <1>4 DEF CursorOrder, NoGap, MarkFollowsCursor

(* The only step that touches the database is the handler's write of the   *)
(* message at the cursor, which leaves the topic alone.                    *)
LEMMA ViewStep ==
    ASSUME Next
    PROVE  \/ UNCHANGED view
           \/ pc = "handling" /\ view' = Stored /\ UNCHANGED log
  BY DEF Next, Worker, Step, Environment, Publish, Expire, Connect,
         OpenPartition, OpenRefused, Deliver, HandlerSucceeds, HandlerFails,
         Mark, Commit, Cancel, Closed, ReadsClosedChannel, Crash, broker, history

(* Every step preserves the inductive invariant. *)
LEMMA IInvStep == IInv /\ [Next]_vars => IInv'
<1> SUFFICES ASSUME IInv, [Next]_vars PROVE IInv'
  OBVIOUS
<1> USE MessageAssumption, BoundAssumption
<1> USE DEF IInv, TypeOK, Newest, Open, attempted
<1>0. CASE UNCHANGED vars
  BY <1>0 DEF vars, CursorOrder, PcInv, NoGap, ViewAttempted, ViewFollowsCursor,
              MarkFollowsCursor
<1>1. ASSUME NEW m \in Message, Publish(m) PROVE IInv'
  <2>1. /\ log' \in Seq(Message)
        /\ Len(log) <= Len(log')
        /\ \A o \in 1 .. Len(log) : log'[o] = log[o]
    BY <1>1, PublishExtends
  <2>2. UNCHANGED <<oldest, committed, pc, position, marked, view, done, failed, base,
                    restarts>>
    BY <1>1 DEF Publish, history
  <2> QED
    BY <2>1, <2>2, LogGrows
<1>2. ASSUME NEW n \in 1 .. Newest, Expire(n) PROVE IInv'
  BY <1>2 DEF Expire, history, CursorOrder, PcInv, NoGap, ViewAttempted,
              ViewFollowsCursor, MarkFollowsCursor
<1>3. CASE Connect
  <2>1. TypeOK'
    BY <1>3 DEF Connect, broker, history, PcInv
  <2>2. CursorOrder'
    BY <1>3 DEF Connect, broker, history, CursorOrder, PcInv
  <2>3. PcInv'
    BY <1>3 DEF Connect, broker, history, PcInv, CursorOrder
  <2>4. NoGap'
    BY <1>3 DEF Connect, broker, history, NoGap, CursorOrder, PcInv
  <2>5. ViewFollowsCursor'
    BY <1>3 DEF Connect, broker, history, ViewFollowsCursor, CursorOrder,
                PcInv
  <2>6. MarkFollowsCursor'
    BY <1>3 DEF Connect, broker, history, MarkFollowsCursor, CursorOrder,
                PcInv
  <2> QED
    BY <2>1, <2>2, <2>3, <2>4, <2>5, <2>6, <1>3 DEF Connect, broker,
                                                    history, ViewAttempted
<1>4. CASE OpenPartition
  <2>1. TypeOK'
    BY <1>4 DEF OpenPartition, broker, PcInv
  <2>2. CursorOrder'
    BY <1>4 DEF OpenPartition, broker, CursorOrder, PcInv
  <2>3. PcInv'
    BY <1>4 DEF OpenPartition, broker, PcInv, CursorOrder
  <2>4. NoGap'
    BY <1>4 DEF OpenPartition, broker, NoGap, CursorOrder, PcInv
  <2>5. ViewFollowsCursor'
    BY <1>4 DEF OpenPartition, broker, ViewFollowsCursor, CursorOrder,
                PcInv
  <2>6. MarkFollowsCursor'
    BY <1>4 DEF OpenPartition, broker, MarkFollowsCursor, CursorOrder,
                PcInv
  <2> QED
    BY <2>1, <2>2, <2>3, <2>4, <2>5, <2>6, <1>4 DEF OpenPartition, broker,
                                                    ViewAttempted
<1>5. CASE OpenRefused
  BY <1>5 DEF OpenRefused, broker, history, CursorOrder, PcInv, NoGap,
              ViewAttempted, ViewFollowsCursor, MarkFollowsCursor
<1>6. CASE Deliver
  BY <1>6 DEF Deliver, broker, history, CursorOrder, PcInv, NoGap,
              ViewAttempted, ViewFollowsCursor, MarkFollowsCursor
<1>7. CASE HandlerSucceeds
  <2>1. TypeOK'
    <3>1. position \in 1 .. Len(log)
      BY <1>7 DEF HandlerSucceeds, PcInv
    <3>2. view' \in [Keys -> 0 .. Len(log)]
      BY <1>7, <3>1 DEF HandlerSucceeds, Stored
    <3> QED
      BY <1>7, <3>1, <3>2 DEF HandlerSucceeds, broker
  <2>2. PcInv'
    BY <1>7 DEF HandlerSucceeds, broker, Stored, PcInv, CursorOrder
  <2>3. NoGap'
    BY <1>7 DEF HandlerSucceeds, broker, Stored, NoGap, CursorOrder, PcInv
  <2>4. ViewAttempted'
    <3>1. /\ attempted' = attempted \cup {position}
          /\ log' = log /\ view' = Stored
      BY <1>7 DEF HandlerSucceeds, broker
    <3>2. \A k \in Keys : view'[k] = IF k = log[position].key THEN position ELSE view[k]
      BY <3>1 DEF Stored
    <3> HIDE DEF IInv, TypeOK
    <3> QED
      BY <3>1, <3>2 DEF ViewAttempted, IInv
  <2>5. ViewFollowsCursor'
    BY <1>7 DEF HandlerSucceeds, broker, Stored, ViewFollowsCursor,
                CursorOrder, PcInv
  <2>6. MarkFollowsCursor'
    BY <1>7 DEF HandlerSucceeds, broker, Stored, MarkFollowsCursor,
                CursorOrder, PcInv
  <2> QED
    BY <2>1, <2>2, <2>3, <2>4, <2>5, <2>6, <1>7 DEF HandlerSucceeds,
                                                    broker, Stored,
                                                    CursorOrder
<1>8. CASE HandlerFails
  <2>1. TypeOK'
    <3>1. position \in 1 .. Len(log) /\ log[position].key \in Keys
      BY <1>8, MessageAssumption DEF HandlerFails, PcInv
    <3>2. view' \in [Keys -> 0 .. Len(log)]
      <4>1. position \in 0 .. Len(log) /\ view \in [Keys -> 0 .. Len(log)]
        BY <3>1
      <4> QED
        BY <1>8, <3>1, <4>1, Zenon DEF HandlerFails, Stored
    <3> QED
      BY <1>8, <3>1, <3>2 DEF HandlerFails, broker
  <2>2. CursorOrder'
    BY <1>8 DEF HandlerFails, broker, Stored, CursorOrder, PcInv
  <2>3. PcInv'
    BY <1>8 DEF HandlerFails, broker, Stored, PcInv, CursorOrder
  <2>4. NoGap'
    BY <1>8 DEF HandlerFails, broker, Stored, NoGap, CursorOrder, PcInv
  <2>5. ViewAttempted'
    BY <1>8 DEF HandlerFails, broker, Stored, ViewAttempted
  <2>6. ViewFollowsCursor'
    BY <1>8 DEF HandlerFails, broker, Stored, ViewFollowsCursor,
                CursorOrder, PcInv
  <2>7. MarkFollowsCursor'
    BY <1>8 DEF HandlerFails, broker, Stored, MarkFollowsCursor,
                CursorOrder, PcInv
  <2> QED
    BY <2>1, <2>2, <2>3, <2>4, <2>5, <2>6, <2>7
<1>9. CASE Mark
  <2>1. TypeOK'
    BY <1>9 DEF Mark, broker, history, Max2, PcInv
  <2>2. CursorOrder'
    BY <1>9 DEF Mark, broker, history, Max2, CursorOrder, PcInv
  <2>3. PcInv'
    BY <1>9 DEF Mark, broker, history, Max2, PcInv, CursorOrder
  <2>4. NoGap'
    BY <1>9 DEF Mark, broker, history, Max2, NoGap, CursorOrder, PcInv
  <2>5. ViewFollowsCursor'
    BY <1>9 DEF Mark, broker, history, Max2, ViewFollowsCursor,
                CursorOrder, PcInv
  <2>6. MarkFollowsCursor'
    BY <1>9 DEF Mark, broker, history, Max2, MarkFollowsCursor,
                CursorOrder, PcInv
  <2> QED
    BY <2>1, <2>2, <2>3, <2>4, <2>5, <2>6, <1>9 DEF Mark, broker, history,
                                                    Max2, ViewAttempted
<1>10. CASE Commit
  <2>1. TypeOK'
    BY <1>10 DEF Commit, history, PcInv
  <2>2. CursorOrder'
    BY <1>10 DEF Commit, history, CursorOrder, PcInv
  <2>3. PcInv'
    BY <1>10 DEF Commit, history, PcInv, CursorOrder
  <2> QED
    BY <2>1, <2>2, <2>3, <1>10 DEF Commit, history, NoGap, ViewAttempted,
                                   ViewFollowsCursor, MarkFollowsCursor
<1>11. CASE Cancel
  BY <1>11 DEF Cancel, broker, history, CursorOrder, PcInv, NoGap,
               ViewAttempted, ViewFollowsCursor, MarkFollowsCursor
<1>12. CASE Closed
  BY <1>12 DEF Closed, broker, history, CursorOrder, PcInv, NoGap,
               ViewAttempted, ViewFollowsCursor, MarkFollowsCursor
<1>13. CASE ReadsClosedChannel
  BY <1>13 DEF ReadsClosedChannel, broker, history, CursorOrder, PcInv,
               NoGap, ViewAttempted, ViewFollowsCursor, MarkFollowsCursor
<1>14. CASE Crash
  BY <1>14 DEF Crash, broker, history, CursorOrder, PcInv, NoGap,
               ViewAttempted, ViewFollowsCursor, MarkFollowsCursor
<1> QED
  BY <1>0, <1>1, <1>2, <1>3, <1>4, <1>5, <1>6, <1>7, <1>8,
     <1>9, <1>10, <1>11, <1>12, <1>13, <1>14
     DEF Next, Worker, Step, Environment

(* The invariant the safety properties below follow from. *)
THEOREM Invariance == Spec => []IInv
  BY InitIInv, IInvStep, PTL DEF Spec
-----------------------------------------------------------------------------
(* No cursor ever passes the end of the log (so every delivered message    *)
(* exists), and every other variable stays in its range.                   *)
THEOREM TypeCorrect == Spec => []TypeOK
<1>1. IInv => TypeOK
  BY DEF IInv
<1> QED
  BY <1>1, Invariance, PTL

(* What the group has committed past was handed to the handler: neither a  *)
(* crash, nor a lost flush, nor a failed write lets an offset be skipped.  *)
THEOREM CommitsAreCovered == Spec => []CommitCovered
<1>1. IInv => CommitCovered
  BY DEF IInv, TypeOK, Newest, CursorOrder, NoGap, CommitCovered
<1> QED
  BY <1>1, Invariance, PTL

(* The database shows, for each key, the last message below the cursor     *)
(* whose write did not fail, or a later one.                               *)
THEOREM ViewIsCurrent == Spec => []ViewFollowsCursor
<1>1. IInv => ViewFollowsCursor
  BY DEF IInv
<1> QED
  BY <1>1, Invariance, PTL

(* Stopping through the deferred Close calls leaves no finished work       *)
(* uncommitted.                                                            *)
THEOREM CleanStop == Spec => []CleanStopNeverReplays
<1>1. IInv => CleanStopNeverReplays
  BY DEF IInv, PcInv, MarkFollowsCursor, CleanStopNeverReplays
<1> QED
  BY <1>1, Invariance, PTL

(* A row goes back to an older message only while offsets that were        *)
(* handled before are replayed.                                            *)
THEOREM RegressionIsReplay == Spec => RegressionOnlyInReplay
<1> DEFINE Regress == \A k \in Keys : view'[k] < view[k] => position \in attempted
<1>1. IInv /\ [Next]_vars => [Regress]_vars
  <2> SUFFICES ASSUME IInv, Next, NEW k \in Keys, view'[k] < view[k]
               PROVE  position \in attempted
    BY DEF vars
  <2> USE DEF IInv, TypeOK, Newest
  <2>1. view' # view
    OBVIOUS
  <2>2. pc = "handling" /\ view' = Stored
    BY <2>1, ViewStep
  <2>3. position \in base .. Len(log)
    BY <2>2 DEF PcInv
  <2>4. view'[k] = position
    BY <2>1, <2>2 DEF Stored
  <2>5. view[k] \in attempted /\ position \in base .. view[k]
    BY <2>3, <2>4 DEF ViewAttempted
  <2> QED
    BY <2>5 DEF NoGap
<1> QED
  BY <1>1, Invariance, PTL DEF Spec, RegressionOnlyInReplay

(* Each step of the worker and its broker is a step of the promise, or     *)
(* none.                                                                   *)
LEMMA StepImplements == IInv /\ [Next]_vars => [Abstract!Next]_(Abstract!vars)
<1> SUFFICES ASSUME IInv, [Next]_vars
             PROVE  Abstract!Next \/ UNCHANGED Abstract!vars
  BY DEF Abstract!vars
<1> USE DEF IInv, TypeOK, Newest, Abstract!vars
<1>0. CASE UNCHANGED vars
  BY <1>0 DEF vars, attempted
<1>1. ASSUME NEW m \in Message, Publish(m) PROVE Abstract!Publish
  BY <1>1, PublishExtends DEF Publish, history, attempted, Abstract!Publish
<1>2. CASE OpenPartition
  <2>1. CASE position = 0
    BY <1>2, <2>1 DEF OpenPartition, broker, PcInv, attempted, Abstract!StartAtTheEnd,
                      Abstract!Next
  <2>2. CASE position # 0
    BY <1>2, <2>2 DEF OpenPartition, broker, attempted
  <2> QED
    BY <2>1, <2>2
<1>3. CASE HandlerSucceeds \/ HandlerFails
  <2>1. position \in base .. Len(log)
    BY <1>3 DEF HandlerSucceeds, HandlerFails, PcInv
  <2>2. attempted' = attempted \cup {position}
    BY <1>3 DEF HandlerSucceeds, HandlerFails, attempted
  <2>3. UNCHANGED <<log, committed, base>>
    BY <1>3 DEF HandlerSucceeds, HandlerFails, broker
  <2>4. base .. (position - 1) \subseteq attempted
    BY DEF NoGap
  <2> QED
    BY <2>1, <2>2, <2>3, <2>4 DEF Abstract!Attempt, Abstract!Next
<1>4. CASE Commit
  <2>1. marked \in (committed + 1) .. (Len(log) + 1)
    BY <1>4 DEF Commit, CursorOrder
  <2>2. base .. (marked - 1) \subseteq attempted
    BY DEF CursorOrder, NoGap
  <2>3. UNCHANGED <<log, attempted, base>> /\ committed' = marked
    BY <1>4 DEF Commit, history, attempted
  <2> QED
    BY <2>1, <2>2, <2>3 DEF Abstract!Acknowledge, Abstract!Next
<1>5. CASE \/ \E n \in 1 .. Newest : Expire(n)
           \/ Connect \/ OpenRefused \/ Deliver \/ Mark \/ Cancel \/ Closed
           \/ ReadsClosedChannel \/ Crash
  BY <1>5 DEF Expire, Connect, OpenRefused, Deliver, Mark, Cancel, Closed,
              ReadsClosedChannel, Crash, broker, history, attempted
<1> QED
  BY <1>0, <1>1, <1>2, <1>3, <1>4, <1>5
     DEF Next, Worker, Step, Environment, Abstract!Next

(* ConsumeKafkaTopic, with the broker and the process around it,           *)
(* implements the at-least-once promise.                                   *)
THEOREM Implementation == Spec => AtLeastOnceSpec
<1>1. Init => Abstract!Init
  BY DEF Init, Abstract!Init, attempted
<1> QED
  BY <1>1, StepImplements, Invariance, PTL DEF Spec, AtLeastOnceSpec, Abstract!Spec
=============================================================================
