---------------------- MODULE VehiclePipeline_proofs ----------------------
(***************************************************************************)
(* Proofs about VehiclePipeline, for every fleet, slack and delay of the   *)
(* feed, every number of retries and faults, and every number of ends of   *)
(* the process.                                                            *)
(*                                                                         *)
(* The parts are proved about in modules of their own; PP and CP are the   *)
(* same instances as P and C, with those theorems.                         *)
(***************************************************************************)
EXTENDS VehiclePipeline, TLAPS

PP == INSTANCE VehicleProducer_proofs
CP == INSTANCE TopicConsumer_proofs WITH
        Keys <- Vehicles, Message <- [key : Vehicles, ts : Nat],
        MaxLog <- 0, MaxRestarts <- MaxExits

(* The assumptions of the parts hold of the constants they are given.      *)
LEMMA PartsAssumptions ==
    /\ PP!SlackAssumption /\ PP!TimeAssumption /\ PP!BoundAssumption
    /\ CP!MessageAssumption /\ CP!BoundAssumption
BY PartsAssumption
   DEF P!SlackAssumption, P!TimeAssumption, P!BoundAssumption, C!BoundAssumption,
       PP!SlackAssumption, PP!TimeAssumption, PP!BoundAssumption,
       CP!MessageAssumption, CP!BoundAssumption

(* P and PP are the same producer. *)
LEMMA SameProducer ==
    /\ P!Init = PP!Init
    /\ P!IInv = PP!IInv /\ P!IInv' = PP!IInv'
    /\ P!Next = PP!Next
    /\ P!vars = PP!vars /\ P!vars' = PP!vars'
<1>1. P!Init = PP!Init /\ P!vars = PP!vars /\ P!vars' = PP!vars'
  BY DEF P!Init, PP!Init, P!vars, PP!vars
<1>2. P!IInv = PP!IInv /\ P!IInv' = PP!IInv'
  BY DEF P!IInv, PP!IInv, P!TypeOK, PP!TypeOK, P!Report, PP!Report,
         P!FeedInv, PP!FeedInv, P!CursorInv, PP!CursorInv, P!BatchInv, PP!BatchInv,
         P!MapInv, PP!MapInv, P!PublishedInv, PP!PublishedInv,
         P!AccountInv, PP!AccountInv, P!Published, PP!Published, P!Latest, PP!Latest
<1>3. P!Next = PP!Next
  BY DEF P!Next, PP!Next, P!Producer, PP!Producer, P!Producing, PP!Producing,
         P!Upstream, PP!Upstream, P!Start, PP!Start, P!Request, PP!Request,
         P!SkipDuplicate, PP!SkipDuplicate, P!ProduceSucceeds, PP!ProduceSucceeds,
         P!ProduceFails, PP!ProduceFails, P!Exit, PP!Exit, P!Tick, PP!Tick,
         P!NewReport, PP!NewReport, P!Fresh, PP!Fresh, P!Remember, PP!Remember,
         P!Appended, PP!Appended, P!Latest, PP!Latest, P!local, PP!local
<1> QED
  BY <1>1, <1>2, <1>3

(* C and CP are the same consumer. *)
LEMMA SameConsumer ==
    /\ C!Init = CP!Init
    /\ C!IInv = CP!IInv /\ C!IInv' = CP!IInv'
    /\ C!Next = CP!Next
    /\ C!vars = CP!vars
    /\ C!Stored = CP!Stored
<1>1. C!Init = CP!Init /\ C!vars = CP!vars /\ C!Stored = CP!Stored
  BY DEF C!Init, CP!Init, C!vars, CP!vars, C!Stored, CP!Stored
<1>2. C!IInv = CP!IInv /\ C!IInv' = CP!IInv'
  BY DEF C!IInv, CP!IInv, C!TypeOK, CP!TypeOK, C!Newest, CP!Newest, C!Open, CP!Open,
         C!CursorOrder, CP!CursorOrder, C!PcInv, CP!PcInv, C!NoGap, CP!NoGap,
         C!attempted, CP!attempted, C!ViewAttempted, CP!ViewAttempted,
         C!ViewFollowsCursor, CP!ViewFollowsCursor,
         C!MarkFollowsCursor, CP!MarkFollowsCursor
<1>3. C!Next = CP!Next
  BY DEF C!Next, CP!Next, C!Worker, CP!Worker, C!Step, CP!Step,
         C!Environment, CP!Environment, C!Publish, CP!Publish, C!Expire, CP!Expire,
         C!Connect, CP!Connect, C!OpenPartition, CP!OpenPartition,
         C!OpenRefused, CP!OpenRefused, C!InRange, CP!InRange, C!Deliver, CP!Deliver,
         C!HandlerSucceeds, CP!HandlerSucceeds, C!HandlerFails, CP!HandlerFails,
         C!Stored, CP!Stored, C!Mark, CP!Mark, C!Max2, CP!Max2, C!Commit, CP!Commit,
         C!Cancel, CP!Cancel, C!Closed, CP!Closed, C!Crash, CP!Crash,
         C!ReadsClosedChannel, CP!ReadsClosedChannel, C!Newest, CP!Newest,
         C!Open, CP!Open, C!broker, CP!broker, C!history, CP!history
<1> QED
  BY <1>1, <1>2, <1>3
-----------------------------------------------------------------------------
(* Whatever the process does, the producer takes a step of its own or      *)
(* none, and so does the consumer, but for the topic that grows under it.  *)
LEMMA Composition ==
    ASSUME [Next]_vars
    PROVE  /\ [P!Next]_(P!vars)
           /\ C!Next \/ UNCHANGED consumerVars
           /\ UNCHANGED log \/ UNCHANGED consumerVars
           /\ P!Next \/ UNCHANGED log
<1> USE DEF producerVars, consumerVars, P!vars
<1>1. CASE Upstream \/ Produce \/ ProducerStops
  BY <1>1 DEF Upstream, Produce, ProducerStops, P!Next, P!Producer
<1>2. CASE Expire
  BY <1>2 DEF Expire, C!Next, C!Environment, C!Expire
<1>3. CASE Consume \/ ConsumerStops
  <2>1. C!Worker /\ UNCHANGED producerVars
    BY <1>3 DEF Consume, ConsumerStops, C!Worker, C!Step
  <2>2. UNCHANGED log
    BY <1>3 DEF Consume, ConsumerStops, C!Connect, C!OpenPartition, C!Deliver,
                C!HandlerSucceeds, C!HandlerFails, C!Mark, C!Commit, C!Cancel,
                C!Closed, C!broker
  <2> QED
    BY <2>1, <2>2 DEF C!Next
<1>4. CASE ConsumerRefused
  BY <1>4 DEF ConsumerRefused, C!OpenRefused, C!broker, C!Next, C!Worker, C!Step
<1>5. CASE Die
  <2>1. C!Worker /\ UNCHANGED log
    BY <1>5 DEF Die, C!Crash, C!ReadsClosedChannel, C!broker, C!Worker, C!Step
  <2>2. P!Next \/ UNCHANGED producerVars
    BY <1>5 DEF Die, P!Next
  <2> QED
    BY <2>1, <2>2 DEF C!Next
<1>6. CASE CancelContext \/ Restart \/ UNCHANGED vars
  BY <1>6 DEF CancelContext, Restart, vars
<1> QED
  BY <1>1, <1>2, <1>3, <1>4, <1>5, <1>6 DEF Next, Process
-----------------------------------------------------------------------------
(* What a step does to the topic, the feed and the response at hand.       *)
LEMMA TopicStep ==
    ASSUME IInv, [Next]_vars
    PROVE  \/ \E r \in batch, n \in Nat :
                /\ Len(log') = Len(log) + n
                /\ \A i \in 1 .. Len(log) : log'[i] = log[i]
                /\ \A i \in (Len(log) + 1) .. Len(log') : log'[i] = r
                /\ batch' \subseteq batch \ {r}
                /\ feed' = feed
           \/ /\ log' = log /\ batch' \subseteq batch
              /\ \A v \in Vehicles : feed[v] <= feed'[v]
           \/ /\ log' = log /\ feed' = feed
              /\ \A r \in batch' : r.key \in Vehicles /\ r.ts = feed[r.key]
<1>1. PP!TypeOK
  BY SameProducer DEF IInv, PP!IInv
<1>2. PP!Next \/ UNCHANGED PP!vars
  BY Composition, SameProducer
<1>3. CASE UNCHANGED PP!vars
  BY <1>1, <1>3 DEF PP!vars, PP!TypeOK
<1>4. ASSUME PP!Next, NEW r \in batch, NEW n \in Nat, log' = PP!Appended(r, n)
      PROVE  /\ Len(log') = Len(log) + n
             /\ \A i \in 1 .. Len(log) : log'[i] = log[i]
             /\ \A i \in (Len(log) + 1) .. Len(log') : log'[i] = r
  <2>1. log \in Seq(PP!Report) /\ r \in PP!Report
    BY <1>1 DEF PP!TypeOK
  <2>2. /\ Len(PP!Appended(r, n)) = Len(log) + n
        /\ \A i \in 1 .. Len(log) : PP!Appended(r, n)[i] = log[i]
        /\ \A i \in (Len(log) + 1) .. (Len(log) + n) : PP!Appended(r, n)[i] = r
    BY <2>1, PartsAssumptions, PP!AppendedFacts, Zenon
  <2> QED
    BY <1>4, <2>2
<1>5. CASE PP!Next
  <2>1. \/ \E r \in batch, n \in Nat :
            /\ log' = PP!Appended(r, n)
            /\ batch' \subseteq batch \ {r}
            /\ feed' = feed
        \/ /\ log' = log /\ batch' \subseteq batch
           /\ \A v \in Vehicles : feed[v] <= feed'[v]
        \/ /\ log' = log /\ feed' = feed
           /\ \A r \in batch' : r.key \in Vehicles /\ r.ts = feed[r.key]
    BY <1>1, <1>5, PartsAssumptions, PP!TopicStep
  <2> QED
    BY <1>4, <1>5, <2>1
<1> QED
  BY <1>2, <1>3, <1>5

(* The topic only grows: what is stored at an offset stays.                *)
LEMMA TopicExtends ==
    ASSUME IInv, [Next]_vars
    PROVE  /\ log \in Seq(PP!Report) /\ log' \in Seq(PP!Report)
           /\ Len(log) \in Nat /\ Len(log') \in Nat /\ Len(log) <= Len(log')
           /\ \A i \in 1 .. Len(log) : log'[i] = log[i]
<1>1. PP!IInv /\ [PP!Next]_(PP!vars)
  BY Composition, SameProducer DEF IInv
<1>2. PP!IInv'
  BY <1>1, PartsAssumptions, PP!IInvStep
<1>3. log \in Seq(PP!Report) /\ log' \in Seq(PP!Report)
  BY <1>1, <1>2 DEF PP!IInv, PP!TypeOK
<1>4. Len(log) <= Len(log') /\ \A i \in 1 .. Len(log) : log'[i] = log[i]
  <2>1. Len(log) \in Nat
    BY <1>3
  <2> QED
    BY <2>1, TopicStep
<1> QED
  BY <1>3, <1>4

(* The initial state satisfies the inductive invariant. *)
LEMMA InitIInv == Init => IInv
<1> SUFFICES ASSUME Init PROVE IInv
  OBVIOUS
<1>1. P!IInv
  BY SameProducer, PartsAssumptions, PP!InitIInv DEF Init
<1>2. C!IInv
  BY SameConsumer, PartsAssumptions, CP!InitIInv DEF Init
<1>3. TypeOK
  BY <1>1, <1>2 DEF Init, TypeOK, P!IInv, C!IInv
<1>4. TopicBehindFeed /\ BatchAheadOfTopic /\ TopicInOrder
  BY DEF Init, P!Init, TopicBehindFeed, BatchAheadOfTopic, TopicInOrder
<1> QED
  BY <1>1, <1>2, <1>3, <1>4 DEF IInv

(* Every step preserves the inductive invariant.  The parts keep theirs;   *)
(* the report handed to Kafka is not older than the topic, because it was  *)
(* the feed's at a request that came after everything in the topic.        *)
LEMMA IInvStep == IInv /\ [Next]_vars => IInv'
<1> SUFFICES ASSUME IInv, [Next]_vars PROVE IInv'
  OBVIOUS
<1>1. P!IInv'
  BY Composition, SameProducer, PartsAssumptions, PP!IInvStep DEF IInv
<1>2. C!IInv'
  <2>1. CASE C!Next
    BY <2>1, SameConsumer, PartsAssumptions, CP!IInvStep DEF IInv
  <2>2. CASE UNCHANGED consumerVars
    <3>1. CP!IInv
      BY SameConsumer DEF IInv
    <3>2. UNCHANGED <<oldest, committed, pc, position, marked, view, done, failed, base,
                      restarts>>
      BY <2>2 DEF consumerVars
    <3>3. /\ log' \in Seq([key : Vehicles, ts : Nat])
          /\ Len(log) <= Len(log')
          /\ \A o \in 1 .. Len(log) : log'[o] = log[o]
      BY TopicExtends DEF PP!Report
    <3>4. CP!IInv'
      BY <3>1, <3>2, <3>3, PartsAssumptions, CP!LogGrows
    <3> QED
      BY <3>4, SameConsumer
  <2> QED
    BY <2>1, <2>2, Composition
<1>3. TypeOK'
  <2>1. cancelled' \in BOOLEAN
    BY DEF IInv, TypeOK, Next, Upstream, Expire, Produce, Consume, CancelContext,
           ProducerStops, ConsumerStops, ConsumerRefused, Die, Restart, Process, vars
  <2> QED
    BY <1>1, <1>2, <2>1 DEF TypeOK, P!IInv, C!IInv
<1>4. /\ \A i \in 1 .. Len(log) : /\ log[i].key \in Vehicles
                                 /\ log[i].ts \in Nat
      /\ \A r \in batch : /\ r.key \in Vehicles /\ r.ts \in Nat
                          /\ r.ts <= feed[r.key]
                          /\ \A s \in batch : s.key = r.key => s = r
      /\ \A v \in Vehicles : feed[v] \in Nat /\ feed'[v] \in Nat
      /\ Len(log) \in Nat
  <2>1. log \in Seq(P!Report) /\ batch \in SUBSET P!Report
    BY DEF IInv, TypeOK, P!TypeOK
  <2>2. feed \in [Vehicles -> Nat] /\ feed' \in [Vehicles -> Nat]
    BY <1>3 DEF IInv, TypeOK, P!TypeOK
  <2>3. \A r \in batch : /\ r.ts <= feed[r.key]
                         /\ \A s \in batch : s.key = r.key => s = r
    BY DEF IInv, P!IInv, P!BatchInv
  <2>4. Len(log) \in Nat /\ \A i \in 1 .. Len(log) : log[i] \in P!Report
    BY <2>1
  <2> QED
    BY <2>1, <2>2, <2>3, <2>4 DEF P!Report
<1>5. TopicBehindFeed' /\ BatchAheadOfTopic' /\ TopicInOrder'
  <2>0. TopicBehindFeed /\ BatchAheadOfTopic /\ TopicInOrder
    BY DEF IInv
  <2>1. ASSUME NEW r \in batch, NEW n \in Nat,
               Len(log') = Len(log) + n,
               \A i \in 1 .. Len(log) : log'[i] = log[i],
               \A i \in (Len(log) + 1) .. Len(log') : log'[i] = r,
               batch' \subseteq batch \ {r},
               feed' = feed
        PROVE  TopicBehindFeed' /\ BatchAheadOfTopic' /\ TopicInOrder'
    <3>1. \A i \in 1 .. Len(log') : \/ i \in 1 .. Len(log) /\ log'[i] = log[i]
                                    \/ i > Len(log) /\ log'[i] = r
      BY <1>4, <2>1
    <3>2. TopicBehindFeed'
      BY <1>4, <2>0, <2>1, <3>1 DEF TopicBehindFeed
    <3>3. BatchAheadOfTopic'
      BY <1>4, <2>0, <2>1, <3>1 DEF BatchAheadOfTopic
    <3>4. TopicInOrder'
      BY <1>4, <2>0, <2>1, <3>1 DEF BatchAheadOfTopic, TopicInOrder
    <3> QED
      BY <3>2, <3>3, <3>4
  <2>2. CASE /\ log' = log /\ batch' \subseteq batch
             /\ \A v \in Vehicles : feed[v] <= feed'[v]
    BY <1>4, <2>0, <2>2 DEF TopicBehindFeed, BatchAheadOfTopic, TopicInOrder
  <2>3. CASE /\ log' = log /\ feed' = feed
             /\ \A r \in batch' : r.key \in Vehicles /\ r.ts = feed[r.key]
    BY <1>4, <2>0, <2>3 DEF TopicBehindFeed, BatchAheadOfTopic, TopicInOrder
  <2> QED
    BY <2>1, <2>2, <2>3, TopicStep
<1> QED
  BY <1>1, <1>2, <1>3, <1>5 DEF IInv

(* The invariant the safety properties below follow from. *)
THEOREM Invariance == Spec => []IInv
  BY InitIInv, IInvStep, PTL DEF Spec
-----------------------------------------------------------------------------
(* Every variable of the pipeline stays in its range.                      *)
THEOREM TypeCorrect == Spec => []TypeOK
<1>1. IInv => TypeOK
  BY DEF IInv
<1> QED
  BY <1>1, Invariance, PTL

(* Over any number of restarts, repeated appends and failed Produce calls, *)
(* the topic holds the reports of a vehicle in the order of time.          *)
THEOREM TopicStaysInOrder == Spec => []TopicInOrder
<1>1. IInv => TopicInOrder
  BY DEF IInv
<1> QED
  BY <1>1, Invariance, PTL

(* End to end: with nothing in flight and the consumer at the end of the   *)
(* topic, each row is the report TriMet shows, unless a failure that the   *)
(* code only logs lost it.  The consumer knows that the row is no older an *)
(* offset than the latest report's; the order of the topic, that it is no  *)
(* older a report; the feed, that it is no newer one.                      *)
THEOREM RowsAreTheFeed == Spec => []RowsShowTheFeed
<1>1. IInv => RowsShowTheFeed
  <2> SUFFICES ASSUME IInv, up, position = C!Newest, NEW v \in Vehicles,
                      feed[v] # 0, ~InFlight(v), ~Lost(v)
               PROVE  view[v] # 0 /\ Row(v) = P!Latest(v)
    BY DEF RowsShowTheFeed
  <2>1. /\ log \in Seq(P!Report) /\ Len(log) \in Nat
        /\ born \in 0 .. Len(log) /\ feed[v] \in Nat
    BY DEF IInv, TypeOK, P!TypeOK
  <2>2. /\ view[v] \in 0 .. Len(log) /\ base \in 1 .. (Len(log) + 1)
        /\ done \in SUBSET (1 .. Len(log)) /\ failed \in SUBSET (1 .. Len(log))
    BY DEF IInv, TypeOK, C!TypeOK, C!Newest
  <2>3. P!Latest(v) \in P!Published
    <3>1. \/ P!Latest(v) \in P!Published \cup batch \cup dropped
          \/ feed[v] # vehicleMap[v] /\ feed[v] + Slack > fetchedAt
      BY DEF IInv, P!IInv, P!AccountInv
    <3>2. highest = 0 \/ highest + Slack <= fetchedAt
      BY DEF IInv, P!IInv, P!CursorInv
    <3>3. /\ highest \in Nat /\ Slack \in Nat
          /\ fetchedAt \in Int /\ feed[v] \in Nat
      BY PartsAssumption DEF IInv, TypeOK, P!TypeOK, P!SlackAssumption
    <3>4. ~(feed[v] # vehicleMap[v] /\ feed[v] > highest)
      BY DEF InFlight, P!WillBeFetched
    <3>5. P!Latest(v) \notin batch \cup dropped
      BY DEF InFlight, Lost
    <3> QED
      BY <3>1, <3>2, <3>3, <3>4, <3>5
  <2>4. PICK o \in (born + 1) .. Len(log) : log[o] = P!Latest(v)
    BY <2>3 DEF P!Published
  <2>5. o \notin failed /\ base <= o
    BY <2>1, <2>2, <2>4 DEF Lost, Offsets
  <2>6. log[o].key = v /\ log[o].ts = feed[v]
    BY <2>4 DEF P!Latest
  <2>7. view[v] >= o
    <3>1. o \in (base .. (position - 1)) \ failed
      BY <2>1, <2>2, <2>5 DEF C!Newest
    <3> QED
      BY <2>6, <3>1 DEF IInv, C!IInv, C!ViewFollowsCursor
  <2>8. view[v] \in 1 .. Len(log) /\ log[view[v]].key = v
    BY <2>1, <2>2, <2>7 DEF IInv, C!IInv, C!ViewAttempted
  <2>9. log[view[v]] \in P!Report
    BY <2>1, <2>8
  <2>10. log[o].ts <= log[view[v]].ts
    <3>1. o \in 1 .. Len(log)
      BY <2>1
    <3>2. CASE o < view[v]
      BY <2>6, <2>8, <3>1, <3>2 DEF IInv, TopicInOrder
    <3>3. CASE o = view[v]
      BY <2>1, <2>6, <3>3
    <3> QED
      BY <2>1, <2>2, <2>7, <3>2, <3>3
  <2>11. log[view[v]].ts <= feed[v]
    BY <2>8 DEF IInv, TopicBehindFeed
  <2>12. log[view[v]].ts = feed[v]
    BY <2>1, <2>6, <2>9, <2>10, <2>11 DEF P!Report
  <2> QED
    BY <2>8, <2>9, <2>12 DEF Row, P!Latest, P!Report
<1> QED
  BY <1>1, Invariance, PTL

(* A row goes back in time only while offsets handled before are replayed, *)
(* although the upsert does not look at the time stamp.                    *)
THEOREM RowsGoBackInReplay == Spec => RowsGoBackOnlyInReplay
<1> DEFINE Back == \A v \in Vehicles :
                      view[v] # 0 /\ Row(v)'.ts < Row(v).ts => position \in C!attempted
<1>1. IInv /\ [Next]_vars => [Back]_vars
  <2> SUFFICES ASSUME IInv, [Next]_vars, NEW v \in Vehicles,
                      view[v] # 0, Row(v)'.ts < Row(v).ts
               PROVE  position \in C!attempted
    OBVIOUS
  <2>1. /\ log \in Seq(P!Report) /\ Len(log) \in Nat
        /\ view \in [Vehicles -> 0 .. Len(log)]
        /\ base \in 1 .. (Len(log) + 1) /\ position \in 0 .. (Len(log) + 1)
    BY DEF IInv, TypeOK, P!TypeOK, C!TypeOK, C!Newest
  <2>2. view[v] \in 1 .. Len(log) /\ log[view[v]].key = v /\ log[view[v]].ts \in Nat
    <3>1. view[v] \in 1 .. Len(log)
      BY <2>1
    <3>2. log[view[v]] \in P!Report
      BY <2>1, <3>1
    <3> QED
      BY <3>1, <3>2 DEF IInv, C!IInv, C!ViewAttempted, P!Report
  <2>3. log'[view[v]] = log[view[v]]
    BY <2>2, TopicExtends
  <2>4. view' # view
    BY <2>2, <2>3 DEF Row
  <2>5. pc = "handling" /\ view' = C!Stored /\ UNCHANGED log
    <3>1. CP!Next
      BY <2>4, Composition, SameConsumer DEF consumerVars
    <3> QED
      BY <2>4, <3>1, PartsAssumptions, CP!ViewStep, SameConsumer
  <2>6. base <= position /\ position \in 1 .. Len(log)
    BY <2>1, <2>5 DEF IInv, C!IInv, C!PcInv
  <2>7. v = log[position].key /\ view'[v] = position
    BY <2>1, <2>2, <2>4, <2>5, <2>6 DEF Row, C!Stored
  <2>8. log[position].ts < log[view[v]].ts
    BY <2>5, <2>7 DEF Row
  <2>9. position <= view[v]
    <3>1. log[position] \in P!Report
      BY <2>1, <2>6
    <3>2. CASE view[v] < position
      <4>1. log[view[v]].ts <= log[position].ts
        BY <2>2, <2>6, <2>7, <3>2 DEF IInv, TopicInOrder
      <4> QED
        BY <2>2, <2>8, <3>1, <4>1 DEF P!Report
    <3> QED
      BY <2>1, <2>2, <2>6, <3>2
  <2> QED
    <3>1. view[v] \in C!attempted
      BY <2>2 DEF IInv, C!IInv, C!ViewAttempted
    <3>2. base .. view[v] \subseteq C!attempted
      BY <3>1 DEF IInv, C!IInv, C!NoGap
    <3> QED
      BY <2>1, <2>2, <2>6, <2>9, <3>2
<1> QED
  BY <1>1, Invariance, PTL DEF Spec, RowsGoBackOnlyInReplay

(* In the process that runs both, the producer still is the producer of    *)
(* VehicleProducer: what is shown of it alone holds here.                  *)
THEOREM ProducerImplemented == Spec => P!Spec
<1>1. Init => P!Init
  BY DEF Init
<1>2. [Next]_vars => [P!Next]_(P!vars)
  BY Composition
<1> QED
  BY <1>1, <1>2, PTL DEF Spec, P!Spec

(* And the consumer keeps the at-least-once promise over a topic that the  *)
(* producer fills, with retries that append a report several times.        *)
THEOREM ConsumerImplemented == Spec => C!AtLeastOnceSpec
<1>1. Init => C!Abstract!Init
  BY DEF Init, C!Init, C!attempted, C!Abstract!Init
<1>2. IInv /\ [Next]_vars => [C!Abstract!Next]_(C!Abstract!vars)
  <2> SUFFICES ASSUME IInv, [Next]_vars
               PROVE  [C!Abstract!Next]_(C!Abstract!vars)
    OBVIOUS
  <2>1. CASE C!Next
    <3>1. [CP!Abstract!Next]_(CP!Abstract!vars)
      BY <2>1, SameConsumer, PartsAssumptions, CP!StepImplements DEF IInv
    <3> QED
      BY <3>1
         DEF C!Abstract!Next, CP!Abstract!Next, C!Abstract!vars, CP!Abstract!vars,
             C!Abstract!Publish, CP!Abstract!Publish,
             C!Abstract!Attempt, CP!Abstract!Attempt,
             C!Abstract!Acknowledge, CP!Abstract!Acknowledge,
             C!Abstract!StartAtTheEnd, CP!Abstract!StartAtTheEnd,
             C!attempted, CP!attempted
  <2>2. CASE UNCHANGED consumerVars
    <3>1. UNCHANGED <<C!attempted, committed, base>>
      BY <2>2 DEF consumerVars, C!attempted
    <3>2. C!Abstract!Publish
      BY <3>1, TopicExtends DEF C!Abstract!Publish, PP!Report
    <3> QED
      BY <3>2 DEF C!Abstract!Next
  <2> QED
    BY <2>1, <2>2, Composition
<1> QED
  BY <1>1, <1>2, Invariance, PTL DEF Spec, C!AtLeastOnceSpec, C!Abstract!Spec

(* The database row of a vehicle never falls behind the consumer's cursor, *)
(* here too.                                                               *)
THEOREM RowsFollowTheCursor == Spec => []C!ViewFollowsCursor
<1>1. IInv => C!ViewFollowsCursor
  BY DEF IInv, C!IInv
<1> QED
  BY <1>1, Invariance, PTL

(* A process that ended through the deferred Close calls does not handle   *)
(* again, after its restart, what it handled.                              *)
THEOREM CleanStop == Spec => []C!CleanStopNeverReplays
<1>1. IInv => C!CleanStopNeverReplays
  BY DEF IInv, C!IInv, C!PcInv, C!MarkFollowsCursor, C!CleanStopNeverReplays
<1> QED
  BY <1>1, Invariance, PTL
=============================================================================
