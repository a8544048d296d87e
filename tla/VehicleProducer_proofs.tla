---------------------- MODULE VehicleProducer_proofs ----------------------
(***************************************************************************)
(* Proofs about VehicleProducer, for every fleet, every slack, every delay *)
(* of the feed below it, and every number of retries and faults.           *)
(***************************************************************************)
EXTENDS VehicleProducer, TLAPS

(* The broker adds n copies of r at the end, and nothing else changes.     *)
LEMMA AppendedFacts ==
    ASSUME log \in Seq(Report), NEW r \in Report, NEW n \in Nat
    PROVE  /\ Appended(r, n) \in Seq(Report)
           /\ Len(Appended(r, n)) = Len(log) + n
           /\ \A i \in 1 .. Len(log) : Appended(r, n)[i] = log[i]
           /\ \A i \in (Len(log) + 1) .. (Len(log) + n) : Appended(r, n)[i] = r
<1> DEFINE s == [i \in 1 .. n |-> r]
<1>1. s \in Seq(Report) /\ Len(s) = n /\ \A i \in 1 .. n : s[i] = r
  OBVIOUS
<1> HIDE DEF s
<1>2. /\ log \o s \in Seq(Report)
      /\ Len(log \o s) = Len(log) + n
      /\ \A i \in 1 .. Len(log) : (log \o s)[i] = log[i]
      /\ \A i \in (Len(log) + 1) .. (Len(log) + n) : (log \o s)[i] = s[i - Len(log)]
  BY <1>1
<1>3. Appended(r, n) = log \o s
  BY DEF Appended, s
<1>4. \A i \in (Len(log) + 1) .. (Len(log) + n) : (log \o s)[i] = r
  BY <1>1, <1>2
<1> QED
  BY <1>2, <1>3, <1>4

(* What the process has published grows by the report appended.            *)
LEMMA PublishedGrows ==
    ASSUME TypeOK, NEW r \in Report, NEW n \in Nat,
           log' = Appended(r, n), born' = born
    PROVE  Published' = IF n = 0 THEN Published ELSE Published \cup {r}
<1> USE DEF TypeOK, Published
<1>1. /\ Len(log') = Len(log) + n
      /\ \A i \in 1 .. Len(log) : log'[i] = log[i]
      /\ \A i \in (Len(log) + 1) .. (Len(log) + n) : log'[i] = r
  <2>1. log \in Seq(Report)
    OBVIOUS
  <2> HIDE DEF TypeOK, Published
  <2>2. /\ Len(Appended(r, n)) = Len(log) + n
        /\ \A i \in 1 .. Len(log) : Appended(r, n)[i] = log[i]
        /\ \A i \in (Len(log) + 1) .. (Len(log) + n) : Appended(r, n)[i] = r
    BY <2>1, AppendedFacts, Zenon
  <2> QED
    BY <2>2, Zenon
<1>2. CASE n = 0
  <2>1. Len(log') = Len(log) /\ Len(log) \in Nat /\ born \in Nat
    BY <1>1, <1>2
  <2>2. \A i \in (born + 1) .. Len(log) : log'[i] = log[i]
    BY <1>1, <2>1
  <2>3. Published' = Published
    BY <2>1, <2>2
  <2> QED
    BY <1>2, <2>3
<1>3. CASE n # 0
  <2>1. ASSUME NEW i \in (born + 1) .. Len(log')
        PROVE  log'[i] \in Published \cup {r}
    <3>1. CASE i <= Len(log)
      BY <1>1, <3>1
    <3>2. CASE i > Len(log)
      BY <1>1, <3>2
    <3> QED
      BY <3>1, <3>2
  <2>2. ASSUME NEW i \in (born + 1) .. Len(log)
        PROVE  log[i] \in Published'
    <3>1. log'[i] = log[i] /\ i \in (born + 1) .. Len(log')
      BY <1>1
    <3> QED
      BY <3>1
  <2>3. r \in Published'
    <3>1. Len(log) + 1 \in (born + 1) .. (Len(log) + n) /\ log'[Len(log) + 1] = r
      BY <1>1, <1>3
    <3> QED
      BY <1>1, <3>1
  <2>4. Published' \subseteq Published \cup {r}
    BY <2>1
  <2>5. Published \subseteq Published'
    BY <2>2
  <2> HIDE DEF TypeOK, Published
  <2> QED
    BY <1>3, <2>3, <2>4, <2>5
<1> HIDE DEF TypeOK, Published
<1> QED
  BY <1>2, <1>3

(* The initial state satisfies the inductive invariant. *)
LEMMA InitIInv == Init => IInv
<1> SUFFICES ASSUME Init PROVE IInv
  OBVIOUS
<1>1. TypeOK
  <2>1. log \in Seq(Report) /\ Len(log) = 0 /\ born = 0
    BY DEF Init
  <2>2. /\ clock \in Nat /\ FirstTime <= clock
        /\ fetchedAt \in 0 .. clock
        /\ faults \in 0 .. MaxFaults /\ exits \in 0 .. MaxExits
    BY TimeAssumption, BoundAssumption DEF Init
  <2>3. /\ feed \in [Vehicles -> Nat] /\ vehicleMap \in [Vehicles -> Nat]
        /\ up \in BOOLEAN /\ highest \in Nat
        /\ batch \in SUBSET Report /\ dropped \in SUBSET Report
    BY DEF Init
  <2> QED
    BY <2>1, <2>2, <2>3 DEF TypeOK
<1>2. Published = {}
  BY DEF Init, Published
<1>3. FeedInv /\ CursorInv /\ BatchInv
  BY DEF Init, FeedInv, CursorInv, BatchInv
<1>4. MapInv /\ PublishedInv /\ AccountInv
  BY <1>2 DEF Init, MapInv, PublishedInv, AccountInv
<1> QED
  BY <1>1, <1>3, <1>4 DEF IInv

(* What a step does to the topic, the feed and the response at hand: it    *)
(* hands one report of the response to Kafka, or the topic stays and       *)
(* either the feed grows or a new response shows the feed as it is.        *)
LEMMA TopicStep ==
    ASSUME TypeOK, Next
    PROVE  \/ \E r \in batch, n \in Nat :
                /\ log' = Appended(r, n)
                /\ batch' \subseteq batch \ {r}
                /\ feed' = feed
           \/ /\ log' = log /\ batch' \subseteq batch
              /\ \A v \in Vehicles : feed[v] <= feed'[v]
           \/ /\ log' = log /\ feed' = feed
              /\ \A r \in batch' : r.key \in Vehicles /\ r.ts = feed[r.key]
<1> USE DEF TypeOK
<1>1. CASE Request
  BY <1>1 DEF Request, Latest
<1>2. ASSUME NEW r \in batch, ProduceSucceeds(r)
      PROVE  \E n \in Nat : /\ log' = Appended(r, n)
                             /\ batch' \subseteq batch \ {r} /\ feed' = feed
  BY <1>2, BoundAssumption DEF ProduceSucceeds
<1>3. ASSUME NEW r \in batch, ProduceFails(r)
      PROVE  \E n \in Nat : /\ log' = Appended(r, n)
                             /\ batch' \subseteq batch \ {r} /\ feed' = feed
  BY <1>3, BoundAssumption DEF ProduceFails
<1>4. ASSUME NEW v \in Vehicles, NEW t \in Fresh, NewReport(v, t)
      PROVE  /\ log' = log /\ batch' \subseteq batch
             /\ \A u \in Vehicles : feed[u] <= feed'[u]
  <2>1. t > feed[v] /\ feed' = [feed EXCEPT ![v] = t] /\ t \in Int
    BY <1>4, TimeAssumption, SlackAssumption DEF NewReport, Fresh
  <2> QED
    BY <1>4, <2>1 DEF NewReport, local
<1>5. CASE \/ Start \/ Exit \/ Tick
           \/ \E r \in batch : SkipDuplicate(r)
  BY <1>5 DEF Start, Exit, Tick, SkipDuplicate, local
<1> QED
  BY <1>1, <1>2, <1>3, <1>4, <1>5 DEF Next, Producer, Producing, Upstream

(* Looking at a report that is not in the map: a Produce call that appends *)
(* n copies, after which "rest" is still at hand and "gone" was dropped.   *)
LEMMA ProduceStep ==
    ASSUME IInv, up, NEW r \in batch, NEW n \in Nat,
           Remember(r), log' = Appended(r, n),
           batch' \subseteq batch \ {r},
           dropped \subseteq dropped', dropped' \in SUBSET Report,
           batch \subseteq batch' \cup dropped' \cup {r},
           n # 0 \/ r \in dropped',
           faults' \in 0 .. MaxFaults,
           UNCHANGED <<clock, feed, up, born, fetchedAt, exits>>
    PROVE  IInv'
<1> USE SlackAssumption, TimeAssumption DEF IInv, TypeOK
<1>1. r \in Report /\ r.key \in Vehicles /\ r.ts \in Nat
  BY DEF Report
<1>2. /\ r.ts \in Slack .. fetchedAt /\ r.ts <= feed[r.key]
      /\ vehicleMap[r.key] < r.ts
  BY <1>1 DEF BatchInv, Remember
<1>3. /\ vehicleMap'[r.key] = r.ts
      /\ \A v \in Vehicles \ {r.key} : vehicleMap'[v] = vehicleMap[v]
      /\ vehicleMap' \in [Vehicles -> Nat]
  BY <1>1 DEF Remember
<1>4. /\ Published \subseteq Published' /\ Published' \subseteq Published \cup {r}
      /\ r \in Published' \cup dropped'
  BY <1>1, PublishedGrows
<1>5. TypeOK'
  <2>1. log' \in Seq(Report) /\ Len(log') = Len(log) + n
    <3>1. log \in Seq(Report)
      OBVIOUS
    <3> HIDE DEF TypeOK
    <3>2. Appended(r, n) \in Seq(Report) /\ Len(Appended(r, n)) = Len(log) + n
      BY <1>1, <3>1, AppendedFacts, Zenon
    <3> QED
      BY <3>2, Zenon
  <2>2. highest' \in Nat
    BY <1>1, <1>2 DEF Remember
  <2> QED
    BY <1>3, <2>1, <2>2
<1>6. FeedInv'
  BY DEF FeedInv
<1>7. CursorInv'
  BY <1>1, <1>2 DEF CursorInv, Remember
<1>8. BatchInv'
  <2> SUFFICES ASSUME NEW q \in batch'
               PROVE  /\ q.ts \in Slack .. fetchedAt
                      /\ q.ts <= feed[q.key]
                      /\ vehicleMap'[q.key] <= q.ts
                      /\ \A s \in batch' : s.key = q.key => s = q
    BY DEF BatchInv
  <2>1. q \in batch /\ q # r /\ q.key # r.key /\ q.key \in Vehicles
    BY DEF BatchInv, Report
  <2> QED
    BY <1>3, <2>1 DEF BatchInv
<1>9. MapInv'
  <2> SUFFICES ASSUME NEW v \in Vehicles
               PROVE  /\ vehicleMap'[v] <= feed[v]
                      /\ vehicleMap'[v] # 0 =>
                            [key |-> v, ts |-> vehicleMap'[v]] \in Published' \cup dropped'
    BY DEF MapInv
  <2>1. CASE v = r.key
    <3>1. [key |-> v, ts |-> vehicleMap'[v]] = r
      BY <1>1, <1>3, <2>1 DEF Report
    <3> QED
      BY <1>2, <1>3, <1>4, <2>1, <3>1
  <2>2. CASE v # r.key
    BY <1>3, <1>4, <2>2 DEF MapInv
  <2> QED
    BY <2>1, <2>2
<1>10. PublishedInv'
  <2> SUFFICES ASSUME NEW q \in Published' PROVE q.ts <= vehicleMap'[q.key]
    BY DEF PublishedInv
  <2>1. Published \subseteq Report
    BY DEF Published
  <2>2. CASE q = r
    BY <1>1, <1>3, <2>2
  <2>3. CASE q # r
    <3>1. q \in Published /\ q.key \in Vehicles /\ q.ts \in Nat
      BY <1>4, <2>1, <2>3 DEF Report
    <3>2. q.ts <= vehicleMap[q.key]
      BY <3>1 DEF PublishedInv
    <3>3. vehicleMap[q.key] <= vehicleMap'[q.key]
      <4>1. CASE q.key = r.key
        BY <1>1, <1>2, <1>3, <4>1
      <4>2. CASE q.key # r.key
        BY <1>3, <3>1, <4>2
      <4> QED
        BY <4>1, <4>2
    <3> QED
      BY <1>3, <3>1, <3>2, <3>3
  <2> QED
    BY <2>2, <2>3
<1>11. AccountInv'
  <2> SUFFICES ASSUME NEW v \in Vehicles
               PROVE  \/ feed[v] = 0
                      \/ Latest(v) \in Published' \cup batch' \cup dropped'
                      \/ feed[v] # vehicleMap'[v] /\ feed[v] + Slack > fetchedAt
    BY DEF AccountInv, Latest
  <2>1. CASE feed[v] = 0 \/ Latest(v) \in Published \cup batch \cup dropped
    BY <1>4, <2>1
  <2>2. CASE feed[v] # vehicleMap[v] /\ feed[v] + Slack > fetchedAt
    <3>1. CASE v = r.key /\ feed[v] = r.ts
      <4>1. Latest(v) = r
        BY <1>1, <3>1 DEF Latest, Report
      <4> QED
        BY <1>4, <4>1
    <3>2. CASE v # r.key \/ feed[v] # r.ts
      BY <1>3, <2>2, <3>2
    <3> QED
      BY <3>1, <3>2
  <2> QED
    BY <2>1, <2>2 DEF AccountInv
<1> QED
  BY <1>5, <1>6, <1>7, <1>8, <1>9, <1>10, <1>11

(* Every step preserves the inductive invariant. *)
LEMMA IInvStep == IInv /\ [Next]_vars => IInv'
<1> SUFFICES ASSUME IInv, [Next]_vars PROVE IInv'
  OBVIOUS
<1> USE SlackAssumption, TimeAssumption, BoundAssumption DEF IInv, TypeOK
<1>0. CASE UNCHANGED vars
  <2>1. TypeOK' /\ FeedInv' /\ CursorInv'
    BY <1>0 DEF vars, FeedInv, CursorInv
  <2>2. Published' = Published
    BY <1>0 DEF vars, Published
  <2>3. BatchInv'
    BY <1>0 DEF vars, BatchInv
  <2>4. MapInv' /\ PublishedInv'
    BY <1>0, <2>2 DEF vars, MapInv, PublishedInv
  <2>5. AccountInv'
    BY <1>0, <2>2 DEF vars, AccountInv, Latest
  <2> QED
    BY <2>1, <2>3, <2>4, <2>5
<1>1. CASE Start
  <2>1. TypeOK' /\ FeedInv' /\ CursorInv'
    BY <1>1 DEF Start, FeedInv, CursorInv
  <2>2. batch' = {} /\ Published' = {} /\ \A v \in Vehicles : vehicleMap'[v] = 0
    BY <1>1 DEF Start, BatchInv, Published
  <2>3. BatchInv' /\ MapInv' /\ PublishedInv'
    BY <1>1, <2>2 DEF Start, BatchInv, MapInv, PublishedInv
  <2>4. AccountInv'
    BY <1>1, <2>2 DEF Start, AccountInv
  <2> QED
    BY <2>1, <2>3, <2>4
<1>2. CASE Request
  <2>1. batch' = {r \in {Latest(v) : v \in Vehicles} : r.ts > highest}
    BY <1>2 DEF Request
  <2>2. \A v \in Vehicles : /\ Latest(v) \in Report
                            /\ Latest(v).key = v /\ Latest(v).ts = feed[v]
    BY DEF Latest, Report
  <2>3. \A r \in batch' : \E v \in Vehicles : r = Latest(v) /\ feed[v] > highest
    <3> SUFFICES ASSUME NEW r \in batch'
                 PROVE  \E v \in Vehicles : r = Latest(v) /\ feed[v] > highest
      OBVIOUS
    <3> HIDE DEF IInv, TypeOK
    <3>1. r.ts > highest /\ \E v \in Vehicles : r = Latest(v)
      BY <2>1
    <3> QED
      BY <2>2, <3>1
  <2>4. \A v \in Vehicles : feed[v] > highest => Latest(v) \in batch'
    BY <2>1, <2>2
  <2>5. TypeOK'
    <3>1. batch' \in SUBSET Report
      BY <2>2, <2>3
    <3> QED
      BY <1>2, <3>1 DEF Request
  <2>6. FeedInv' /\ CursorInv' /\ MapInv' /\ PublishedInv'
    <3>1. Published' = Published
      BY <1>2 DEF Request, Published
    <3>2. FeedInv' /\ CursorInv'
      BY <1>2 DEF Request, FeedInv, CursorInv
    <3>3. MapInv'
      BY <1>2, <3>1 DEF Request, MapInv
    <3>4. PublishedInv'
      BY <1>2, <3>1 DEF Request, PublishedInv
    <3> QED
      BY <3>2, <3>3, <3>4
  <2>7. BatchInv'
    <3> SUFFICES ASSUME NEW r \in batch'
                 PROVE  /\ r.ts \in Slack .. fetchedAt'
                        /\ r.ts <= feed'[r.key]
                        /\ vehicleMap'[r.key] <= r.ts
                        /\ \A s \in batch' : s.key = r.key => s = r
      BY <1>2 DEF Request, BatchInv
    <3>1. PICK v \in Vehicles : r = Latest(v) /\ feed[v] > highest
      BY <2>3
    <3>2. r.key = v /\ r.ts = feed[v] /\ r.ts \in Slack .. clock
      BY <2>2, <3>1 DEF FeedInv
    <3>3. \A s \in batch' : s.key = r.key => s = r
      BY <2>2, <2>3, <3>1
    <3>4. vehicleMap[v] <= feed[v]
      BY DEF MapInv
    <3>5. fetchedAt' = clock /\ feed' = feed /\ vehicleMap' = vehicleMap
      BY <1>2 DEF Request
    <3> QED
      BY <3>2, <3>3, <3>4, <3>5
  <2>8. AccountInv'
    <3> SUFFICES ASSUME NEW v \in Vehicles, feed[v] # 0,
                        Latest(v) \notin Published \cup batch' \cup dropped
                 PROVE  FALSE
      BY <1>2 DEF Request, AccountInv, Published, Latest
    <3>1. feed[v] + Slack > fetchedAt
      BY <1>2 DEF Request, AccountInv
    <3>2. feed[v] > highest
      BY <3>1 DEF CursorInv
    <3> QED
      BY <2>4, <3>2
  <2> QED
    BY <2>5, <2>6, <2>7, <2>8
<1>3. ASSUME NEW r \in batch, SkipDuplicate(r) PROVE IInv'
  <2>1. TypeOK' /\ FeedInv' /\ CursorInv' /\ BatchInv' /\ MapInv' /\ PublishedInv'
    <3>1. Published' = Published
      BY <1>3 DEF SkipDuplicate, Published
    <3>2. TypeOK' /\ FeedInv' /\ CursorInv'
      BY <1>3 DEF SkipDuplicate, FeedInv, CursorInv
    <3>3. BatchInv'
      BY <1>3 DEF SkipDuplicate, BatchInv
    <3>4. MapInv'
      BY <1>3, <3>1 DEF SkipDuplicate, MapInv
    <3>5. PublishedInv'
      BY <1>3, <3>1 DEF SkipDuplicate, PublishedInv
    <3> QED
      BY <3>2, <3>3, <3>4, <3>5
  <2>2. r.key \in Vehicles /\ r = [key |-> r.key, ts |-> vehicleMap[r.key]]
    BY <1>3 DEF SkipDuplicate, Report
  <2>3. r \in Published \cup dropped
    <3>1. r.ts # 0
      BY <1>3 DEF BatchInv, Report
    <3> QED
      BY <1>3, <2>2, <3>1 DEF SkipDuplicate, MapInv
  <2>4. AccountInv'
    BY <1>3, <2>3 DEF SkipDuplicate, AccountInv, Published, Latest
  <2> QED
    BY <2>1, <2>4
<1>4. ASSUME NEW r \in batch, ProduceSucceeds(r) PROVE IInv'
  <2>1. PICK n \in 1 .. MaxCopies : /\ faults' = faults + (n - 1)
                                    /\ faults + (n - 1) <= MaxFaults
                                    /\ log' = Appended(r, n)
    BY <1>4 DEF ProduceSucceeds
  <2> QED
    BY <1>4, <2>1, ProduceStep DEF ProduceSucceeds
<1>5. ASSUME NEW r \in batch, ProduceFails(r) PROVE IInv'
  <2>1. PICK n \in 0 .. MaxCopies : log' = Appended(r, n)
    BY <1>5 DEF ProduceFails
  <2> QED
    BY <1>5, <2>1, ProduceStep DEF ProduceFails
<1>6. CASE Exit
  <2>1. up' = FALSE /\ batch' = {} /\ Published' = Published
    BY <1>6 DEF Exit, Published
  <2>2. /\ UNCHANGED <<clock, feed, vehicleMap, highest, log, born, fetchedAt, dropped,
                       faults>>
        /\ exits' \in 0 .. MaxExits
    BY <1>6 DEF Exit
  <2>3. TypeOK'
    BY <2>1, <2>2
  <2>4. FeedInv' /\ CursorInv'
    BY <2>2 DEF FeedInv, CursorInv
  <2>5. BatchInv' /\ AccountInv'
    BY <2>1 DEF BatchInv, AccountInv
  <2>6. MapInv' /\ PublishedInv'
    BY <2>1, <2>2 DEF MapInv, PublishedInv
  <2> QED
    BY <2>3, <2>4, <2>5, <2>6
<1>7. CASE Tick
  <2>1. TypeOK' /\ FeedInv' /\ CursorInv'
    BY <1>7 DEF Tick, local, FeedInv, CursorInv
  <2>2. Published' = Published
    BY <1>7 DEF Tick, Published
  <2>3. BatchInv'
    BY <1>7 DEF Tick, local, BatchInv
  <2>4. MapInv' /\ PublishedInv'
    BY <1>7, <2>2 DEF Tick, local, MapInv, PublishedInv
  <2>5. AccountInv'
    BY <1>7, <2>2 DEF Tick, local, AccountInv, Latest
  <2> QED
    BY <2>1, <2>3, <2>4, <2>5
<1>8. ASSUME NEW v \in Vehicles, NEW t \in Fresh, NewReport(v, t) PROVE IInv'
  <2>1. t \in Nat /\ t >= Slack /\ t <= clock /\ t + Slack > clock
    BY DEF Fresh
  <2>2. /\ feed'[v] = t /\ \A u \in Vehicles \ {v} : feed'[u] = feed[u]
        /\ feed' \in [Vehicles -> Nat]
        /\ \A u \in Vehicles : feed[u] <= feed'[u]
    BY <1>8, <2>1 DEF NewReport
  <2>3. TypeOK' /\ FeedInv' /\ CursorInv'
    BY <1>8, <2>1, <2>2 DEF NewReport, local, FeedInv, CursorInv
  <2>4. MapInv' /\ PublishedInv'
    BY <1>8, <2>2 DEF NewReport, local, MapInv, PublishedInv, Published
  <2>5. BatchInv'
    BY <1>8, <2>2 DEF NewReport, local, BatchInv, Report
  <2>6. AccountInv'
    <3> SUFFICES ASSUME up, NEW u \in Vehicles
                 PROVE  \/ feed'[u] = 0
                        \/ Latest(u)' \in Published \cup batch \cup dropped
                        \/ feed'[u] # vehicleMap[u] /\ feed'[u] + Slack > fetchedAt
      BY <1>8 DEF NewReport, local, AccountInv, Published
    <3>1. CASE u = v
      <4>1. vehicleMap[v] <= feed[v]
        BY DEF MapInv
      <4>2. feed[v] < t
        BY <1>8 DEF NewReport
      <4> QED
        BY <2>1, <2>2, <3>1, <4>1, <4>2
    <3>2. CASE u # v
      BY <2>2, <3>2 DEF AccountInv, Latest
    <3> QED
      BY <3>1, <3>2
  <2> QED
    BY <2>3, <2>4, <2>5, <2>6
<1> QED
  BY <1>0, <1>1, <1>2, <1>3, <1>4, <1>5, <1>6, <1>7, <1>8
     DEF Next, Producer, Producing, Upstream

(* The invariant the safety properties below follow from. *)
THEOREM Invariance == Spec => []IInv
  BY InitIInv, IInvStep, PTL DEF Spec
-----------------------------------------------------------------------------
(* Every variable stays in its range; above all, the unsigned cursor never *)
(* wraps below zero when the slack is subtracted.                          *)
THEOREM TypeCorrect == Spec => []TypeOK
<1>1. IInv => TypeOK
  BY DEF IInv
<1> QED
  BY <1>1, Invariance, PTL

(* The cursor and the duplicate check never lose a report by themselves,   *)
(* for every delay of the feed below the slack.                            *)
THEOREM NothingSlips == Spec => []NoReportSlips
<1>1. IInv => NoReportSlips
  <2> SUFFICES ASSUME IInv, up, NEW v \in Vehicles, feed[v] # 0,
                      Latest(v) \notin Published \cup batch \cup dropped
               PROVE  WillBeFetched(v)
    BY DEF NoReportSlips
  <2>1. feed[v] # vehicleMap[v] /\ feed[v] + Slack > fetchedAt
    BY DEF IInv, AccountInv
  <2>2. feed[v] > highest
    BY <2>1, SlackAssumption DEF IInv, TypeOK, CursorInv
  <2> QED
    BY <2>1, <2>2 DEF WillBeFetched
<1> QED
  BY <1>1, Invariance, PTL

(* A process never hands the same report to Kafka twice, nor an older one  *)
(* of a vehicle after a newer one.                                         *)
THEOREM NewsOnly == Spec => OnlyNews
<1> DEFINE News == \A i \in (born + 1) .. Len(log), j \in (Len(log) + 1) .. Len(log') :
                       log'[j].key = log[i].key => log'[j].ts > log[i].ts
<1>1. IInv /\ [Next]_vars => [News]_vars
  <2> SUFFICES ASSUME IInv, Next,
                      NEW i \in (born + 1) .. Len(log),
                      NEW j \in (Len(log) + 1) .. Len(log'),
                      log'[j].key = log[i].key
               PROVE  log'[j].ts > log[i].ts
    BY DEF vars
  <2> USE DEF IInv, TypeOK
  <2>1. PICK r \in batch : ProduceSucceeds(r) \/ ProduceFails(r)
    <3>1. log' # log
      OBVIOUS
    <3> QED
      BY <3>1 DEF Next, Producer, Producing, Upstream, Start, Request, SkipDuplicate,
                  Exit, Tick, NewReport
  <2>2. PICK n \in Nat : log' = Appended(r, n)
    BY <2>1, BoundAssumption DEF ProduceSucceeds, ProduceFails
  <2>3. r \in Report /\ log'[j] = r
    <3>1. r \in Report /\ log \in Seq(Report)
      OBVIOUS
    <3> HIDE DEF IInv, TypeOK
    <3>2. /\ Len(log') = Len(log) + n
          /\ \A m \in (Len(log) + 1) .. (Len(log) + n) : log'[m] = r
      BY <2>2, <3>1, AppendedFacts
    <3> QED
      BY <3>1, <3>2
  <2>4. vehicleMap[r.key] < r.ts /\ r.key \in Vehicles
    BY <2>1, <2>3 DEF ProduceSucceeds, ProduceFails, Remember, BatchInv, Report
  <2>5. log[i] \in Published /\ log[i] \in Report
    BY DEF Published
  <2>6. /\ log[i].ts <= vehicleMap[log[i].key]
        /\ log[i].key = r.key
        /\ log[i].ts \in Nat /\ r.ts \in Nat /\ vehicleMap[r.key] \in Nat
    BY <2>3, <2>4, <2>5 DEF PublishedInv, Report
  <2> QED
    BY <2>3, <2>4, <2>6
<1> QED
  BY <1>1, Invariance, PTL DEF Spec, OnlyNews
=============================================================================
