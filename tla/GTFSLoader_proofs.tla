------------------------- MODULE GTFSLoader_proofs -------------------------
(***************************************************************************)
(* Proofs about GTFSLoader, for any number of requests and archives and    *)
(* for a polling period of any length.                                     *)
(***************************************************************************)
EXTENDS GTFSLoader, FiniteSetTheorems, TLAPS

-----------------------------------------------------------------------------
(* The lists of tables *)

(* Seven tables are emptied, and seven loaders fill them.                  *)
LEMMA Lengths == Len(StaticTables) = 7 /\ Len(Loaders) = 7
BY DEF StaticTables, Loaders

(* The tables that TRUNCATE names.                                         *)
LEMMA TheTables ==
    Tables = {"calendar_dates", "routes", "services", "shapes", "stop_times", "stops",
              "trips"}
<1>1. 1 .. Len(StaticTables) = {1, 2, 3, 4, 5, 6, 7}
    BY Lengths
<1> QED
    BY <1>1 DEF Tables, StaticTables

(* Every table has its loader function.                                    *)
LEMMA EveryTableIsLoaded == FirstOf(Loaders, 7) = Tables
<1>1. (1 .. 7) \cap DOMAIN Loaders = {1, 2, 3, 4, 5, 6, 7}
    BY DEF Loaders
<1>2. FirstOf(Loaders, 7) = {Loaders[1], Loaders[2], Loaders[3], Loaders[4], Loaders[5],
                             Loaders[6], Loaders[7]}
    BY <1>1 DEF FirstOf
<1> QED
    BY <1>2, TheTables DEF Loaders

(* A request is a sequence of queries, a query a sequence of tables.       *)
LEMMA HandlersType == Handlers \subseteq Seq(Seq(Tables))
<1>1. Arrivals \in Seq(Tables) /\ TripShapes \in Seq(Tables)
    BY TheTables DEF Arrivals, TripShapes
<1>2. RouteShapes \in Seq(Tables) /\ AllStops \in Seq(Tables) /\ Routes \in Seq(Tables)
    BY TheTables DEF RouteShapes, AllStops, Routes
<1> HIDE DEF Arrivals, TripShapes, RouteShapes, AllStops, Routes
<1> QED
    BY <1>1, <1>2 DEF Handlers

(* What a query has locked are tables.                                     *)
LEMMA HeldAreTables ==
    ASSUME TypeOK, NEW r \in Readers
    PROVE  Held(r) \subseteq Tables
<1>1. CASE todo[r] = << >>
    BY <1>1 DEF Held
<1>2. CASE todo[r] # << >>
    <2>1. todo[r][1] \in Seq(Tables)
        <3>1. todo[r] \in Seq(Seq(Tables))
            BY DEF TypeOK
        <3> QED
            BY <1>2, <3>1
    <2> QED
        BY <1>2, <2>1 DEF Held, FirstOf
<1> QED
    BY <1>1, <1>2

(* The loader waits for a lock only while one is left.                     *)
LEMMA LockLeft ==
    ASSUME TypeOK, Wanted # {}
    PROVE  locked + 1 <= Len(StaticTables)
<1>1. CASE locked = 7
    <2>1. (1 .. locked + 1) \cap DOMAIN StaticTables = (1 .. locked) \cap DOMAIN StaticTables
        BY <1>1 DEF StaticTables
    <2> QED
        BY <2>1 DEF Wanted, Queued, Locked, FirstOf
<1>2. locked \in 0 .. 7
    BY Lengths DEF TypeOK
<1> QED
    BY <1>1, <1>2, Lengths
-----------------------------------------------------------------------------
(* The inductive invariant *)

(* The process starts with the tables of one version.                      *)
LEMMA InitIInv == Init => IInv
<1> SUFFICES ASSUME Init PROVE IInv
    OBVIOUS
<1> USE DayAssumption, BoundAssumption, Lengths
<1>1. TypeOK
    <2>1. todo \in [Readers -> Seq(Seq(Tables))] /\ held \in [Readers -> Nat]
        BY DEF Init
    <2>2. answer \in [Readers -> SUBSET (0 .. MaxFiles)]
        BY DEF Init
    <2>3. tables \in [Tables -> 0 .. MaxFiles]
        BY DEF Init
    <2>4. redis \in BOOLEAN /\ redisLost \in BOOLEAN
        BY Zenon DEF Init
    <2>5. /\ file \in 1 .. MaxFiles /\ stamp \in 0 .. Day /\ timer \in 0 .. Day
          /\ archive \in 0 .. MaxFiles /\ sinceFetch \in 0 .. Day
          /\ faults \in 0 .. MaxFaults
          /\ locked \in 0 .. Len(StaticTables) /\ copied \in 0 .. Len(Loaders)
        BY DEF Init
    <2>6. pc \in {"down", "waiting", "fired", "downloading", "locking", "copying"}
        BY DEF Init
    <2> QED
        BY <2>1, <2>2, <2>3, <2>4, <2>5, <2>6, Zenon DEF TypeOK
<1>2. OneVersion
    BY DEF Init, OneVersion
<1>3. AnswerInv
    <2>1. 0 \in 0 .. MaxFiles
        OBVIOUS
    <2>2. \A r \in Readers : answer[r] \subseteq {0}
        BY DEF Init
    <2> QED
        BY <2>1, <2>2 DEF AnswerInv
<1>4. LoadInv /\ StampInv /\ TimerInv
    BY DEF Init, LoadInv, StampInv, TimerInv
<1> QED
    BY <1>1, <1>2, <1>3, <1>4 DEF IInv

(* Each step of the loader and of the requests keeps the invariant.        *)
LEMMA NextIInv == IInv /\ [Next]_vars => IInv'
<1> SUFFICES ASSUME IInv, [Next]_vars PROVE IInv'
    OBVIOUS
<1> USE DayAssumption, BoundAssumption, Lengths DEF IInv
\* What the steps that leave the tables or the answers alone keep.
<1>a. ASSUME UNCHANGED tables PROVE OneVersion'
    BY <1>a DEF OneVersion
<1>b. ASSUME UNCHANGED answer PROVE AnswerInv'
    BY <1>b DEF AnswerInv
<1>c. ASSUME UNCHANGED <<stamp, sinceFetch, redisLost>> PROVE StampInv'
    BY <1>c DEF StampInv
<1>d. ASSUME UNCHANGED <<stamp, sinceFetch, redisLost, timer>>,
             pc' = pc \/ (pc \notin {"down", "fired"} /\ pc' # "fired")
      PROVE  TimerInv'
    BY <1>d DEF TimerInv
<1>e. ASSUME Fault PROVE faults' \in 0 .. MaxFaults
    BY <1>e DEF Fault, TypeOK
<1>1. CASE Tick
    <2>1. /\ stamp' \in 0 .. Day /\ sinceFetch' \in 0 .. Day /\ timer' \in 0 .. Day
        BY <1>1 DEF Tick, Later, Sooner, TypeOK
    <2>2. TypeOK'
        BY <1>1, <2>1 DEF Tick, requests, TypeOK
    <2>3. LoadInv'
        BY <1>1 DEF Tick, LoadInv
    <2>4. StampInv'
        BY <1>1 DEF Tick, Later, StampInv, TypeOK
    <2>5. TimerInv'
        BY <1>1 DEF Tick, Later, Sooner, TimerInv, TypeOK
    <2> QED
        BY <1>1, <1>a, <1>b, <2>2, <2>3, <2>4, <2>5 DEF Tick, requests
<1>2. CASE NewFile
    <2>1. TypeOK'
        BY <1>2 DEF NewFile, clocks, requests, TypeOK
    <2>2. LoadInv'
        BY <1>2 DEF NewFile, LoadInv
    <2> QED
        BY <1>2, <1>a, <1>b, <1>c, <1>d, <2>1, <2>2 DEF NewFile, clocks, requests
<1>3. CASE Start
    <2>1. timer' \in 0 .. Day
        BY <1>3 DEF Start, TypeOK
    <2>2. redis' \in BOOLEAN /\ redisLost' \in BOOLEAN
        BY <1>3, Zenon DEF Start, TypeOK
    <2>3. faults' \in 0 .. MaxFaults
        BY <1>3, <1>e DEF Start, TypeOK
    <2>4. TypeOK'
        BY <1>3, <2>1, <2>2, <2>3 DEF Start, requests, TypeOK
    <2>5. LoadInv'
        BY <1>3 DEF Start, LoadInv
    <2>6. StampInv' /\ TimerInv'
        BY <1>3 DEF Start, StampInv, TimerInv, TypeOK
    <2> QED
        BY <1>3, <1>a, <1>b, <2>4, <2>5, <2>6 DEF Start, requests
<1>4. CASE Fire
    <2>1. TypeOK'
        BY <1>4 DEF Fire, requests, TypeOK
    <2>2. LoadInv'
        BY <1>4 DEF Fire, LoadInv
    <2>3. TimerInv'
        BY <1>4 DEF Fire, TimerInv, TypeOK
    <2> QED
        BY <1>4, <1>a, <1>b, <1>c, <2>1, <2>2, <2>3 DEF Fire, requests
<1>5. CASE SetStamp
    <2>1. stamp' \in 0 .. Day /\ sinceFetch' = 0
        BY <1>5 DEF SetStamp, TypeOK
    <2>2. redis' \in BOOLEAN /\ redisLost' \in BOOLEAN
        BY <1>5, Zenon DEF SetStamp, TypeOK
    <2>3. faults' \in 0 .. MaxFaults
        BY <1>5, <1>e DEF SetStamp, TypeOK
    <2>4. TypeOK'
        BY <1>5, <2>1, <2>2, <2>3 DEF SetStamp, requests, TypeOK
    <2>5. LoadInv'
        BY <1>5 DEF SetStamp, LoadInv
    <2>6. StampInv' /\ TimerInv'
        BY <1>5, <2>1 DEF SetStamp, StampInv, TimerInv, TypeOK
    <2> QED
        BY <1>5, <1>a, <1>b, <2>4, <2>5, <2>6 DEF SetStamp, requests
<1>6. CASE Downloaded
    <2>1. TypeOK'
        BY <1>6 DEF Downloaded, clocks, requests, TypeOK
    <2>2. LoadInv'
        BY <1>6 DEF Downloaded, LoadInv, TypeOK
    <2> QED
        BY <1>6, <1>a, <1>b, <1>c, <1>d, <2>1, <2>2 DEF Downloaded, clocks, requests
<1>7. CASE DownloadFails
    <2>1. TypeOK'
        BY <1>7, <1>e DEF DownloadFails, clocks, requests, TypeOK
    <2>2. LoadInv'
        BY <1>7 DEF DownloadFails, LoadInv
    <2> QED
        BY <1>7, <1>a, <1>b, <1>c, <1>d, <2>1, <2>2 DEF DownloadFails, clocks, requests
<1>8. CASE LockNext
    <2>1. locked' \in 0 .. Len(StaticTables)
        BY <1>8, LockLeft DEF LockNext, TypeOK
    <2>2. pc' \in {"locking", "copying"}
        BY <1>8 DEF LockNext
    <2>3. TypeOK'
        BY <1>8, <2>1, <2>2 DEF LockNext, clocks, requests, TypeOK
    <2>4. LoadInv'
        BY <1>8, <2>2 DEF LockNext, LoadInv
    <2>5. TimerInv'
        BY <1>8, <2>2, <1>d DEF LockNext, clocks
    <2> QED
        BY <1>8, <1>a, <1>b, <1>c, <2>3, <2>4, <2>5 DEF LockNext, clocks, requests
<1>9. CASE CopyNext
    <2>1. TypeOK'
        BY <1>9 DEF CopyNext, clocks, requests, TypeOK
    <2>2. LoadInv'
        BY <1>9 DEF CopyNext, LoadInv
    <2> QED
        BY <1>9, <1>a, <1>b, <1>c, <1>d, <2>1, <2>2 DEF CopyNext, clocks, requests
<1>10. CASE LoadFails
    <2>1. faults' \in 0 .. MaxFaults /\ pc \in {"locking", "copying"}
        BY <1>10, <1>e DEF LoadFails, Failure, TypeOK
    <2>2. TypeOK'
        BY <1>10, <2>1 DEF LoadFails, clocks, requests, TypeOK
    <2>3. LoadInv'
        BY <1>10 DEF LoadFails, LoadInv
    <2>4. TimerInv'
        BY <1>10, <2>1, <1>d DEF LoadFails, clocks
    <2> QED
        BY <1>10, <1>a, <1>b, <1>c, <2>2, <2>3, <2>4 DEF LoadFails, clocks, requests
<1>11. CASE Commit
    <2>1. archive \in 1 .. MaxFiles
        BY <1>11 DEF Commit, LoadInv, TypeOK
    <2>2. tables' = [t \in Tables |-> archive]
        BY <1>11, EveryTableIsLoaded DEF Commit, Filled
    <2>3. OneVersion'
        BY <1>11, <2>1, <2>2 DEF Commit, OneVersion
    <2>4. TypeOK'
        BY <1>11, <2>1, <2>2 DEF Commit, clocks, requests, TypeOK
    <2>5. LoadInv'
        BY <1>11 DEF Commit, LoadInv
    <2> QED
        BY <1>11, <1>b, <1>c, <1>d, <2>3, <2>4, <2>5 DEF Commit, clocks, requests
<1>12. CASE Die
    <2>1. todo' \in [Readers -> Seq(Seq(Tables))] /\ held' \in [Readers -> Nat]
        BY <1>12 DEF Die
    <2>2. answer' \in [Readers -> SUBSET (0 .. MaxFiles)]
        BY <1>12 DEF Die
    <2>3. TypeOK'
        BY <1>12, <1>e, <2>1, <2>2 DEF Die, TypeOK
    <2>4. AnswerInv'
        BY <1>12 DEF Die, AnswerInv
    <2>5. LoadInv' /\ TimerInv'
        BY <1>12 DEF Die, LoadInv, TimerInv
    <2> QED
        BY <1>12, <1>a, <1>c, <2>3, <2>4, <2>5 DEF Die
<1>13. CASE \E r \in Readers : Request(r)
    <2> PICK r \in Readers : Request(r)
        BY <1>13
    <2>1. todo' \in [Readers -> Seq(Seq(Tables))]
        BY HandlersType DEF Request, TypeOK
    <2>2. answer' \in [Readers -> SUBSET (0 .. MaxFiles)]
        BY DEF Request, TypeOK
    <2>3. TypeOK'
        BY <2>1, <2>2 DEF Request, loader, TypeOK
    <2>4. AnswerInv'
        BY DEF Request, AnswerInv, TypeOK
    <2>5. LoadInv'
        BY DEF Request, loader, LoadInv
    <2> QED
        BY <1>a, <1>c, <1>d, <2>3, <2>4, <2>5 DEF Request, loader
<1>14. CASE \E r \in Readers : QueryLocks(r)
    <2> PICK r \in Readers : QueryLocks(r)
        BY <1>14
    <2>1. held' \in [Readers -> Nat]
        <3>1. held \in [Readers -> Nat] /\ held' = [held EXCEPT ![r] = @ + 1]
            BY DEF QueryLocks, TypeOK
        <3> QED
            BY <3>1
    <2>2. TypeOK'
        BY <2>1 DEF QueryLocks, loader, TypeOK
    <2>3. LoadInv'
        BY DEF QueryLocks, loader, LoadInv
    <2> QED
        BY <1>a, <1>b, <1>c, <1>d, <2>2, <2>3 DEF QueryLocks, loader
<1>15. CASE \E r \in Readers : QueryAnswers(r)
    <2> PICK r \in Readers : QueryAnswers(r)
        BY <1>15
    <2> DEFINE saw == {tables[t] : t \in Held(r)}
    <2>1. PICK v \in 0 .. MaxFiles : tables = [t \in Tables |-> v]
        BY DEF OneVersion
    <2>2. saw \subseteq {v}
        BY <2>1, HeldAreTables
    <2>3. answer' = [answer EXCEPT ![r] = saw]
        BY DEF QueryAnswers
    <2> HIDE DEF saw
    <2>4. AnswerInv'
        <3> SUFFICES ASSUME NEW q \in Readers
                     PROVE  \E u \in 0 .. MaxFiles : answer'[q] \subseteq {u}
            BY DEF AnswerInv
        <3>1. CASE q = r
            BY <2>2, <2>3, <3>1 DEF TypeOK
        <3>2. CASE q # r
            BY <2>3, <3>2 DEF AnswerInv, TypeOK
        <3> QED
            BY <3>1, <3>2
    <2>5. answer' \in [Readers -> SUBSET (0 .. MaxFiles)]
        BY <2>2, <2>3 DEF TypeOK
    <2>6. todo' \in [Readers -> Seq(Seq(Tables))] /\ held' \in [Readers -> Nat]
        <3>1. todo[r] \in Seq(Seq(Tables)) /\ todo[r] # << >>
            BY DEF QueryAnswers, TypeOK
        <3>2. Tail(todo[r]) \in Seq(Seq(Tables))
            BY <3>1
        <3> QED
            BY <3>2 DEF QueryAnswers, TypeOK
    <2>7. TypeOK'
        BY <2>5, <2>6 DEF QueryAnswers, loader, TypeOK
    <2>8. LoadInv'
        BY DEF QueryAnswers, loader, LoadInv
    <2> QED
        BY <1>a, <1>c, <1>d, <2>4, <2>7, <2>8 DEF QueryAnswers, loader
<1>16. CASE \E r \in Readers : QueryAborted(r)
    <2> PICK r \in Readers : QueryAborted(r)
        BY <1>16
    <2>1. todo' \in [Readers -> Seq(Seq(Tables))] /\ held' \in [Readers -> Nat]
        BY DEF QueryAborted, TypeOK
    <2>2. TypeOK'
        BY <2>1 DEF QueryAborted, loader, TypeOK
    <2>3. LoadInv'
        BY DEF QueryAborted, loader, LoadInv
    <2> QED
        BY <1>a, <1>b, <1>c, <1>d, <2>2, <2>3 DEF QueryAborted, loader
<1>17. CASE UNCHANGED vars
    <2>1. TypeOK' /\ LoadInv'
        BY <1>17 DEF vars, TypeOK, LoadInv
    <2> QED
        BY <1>17, <1>a, <1>b, <1>c, <1>d, <2>1 DEF vars
<1> QED
    BY <1>1, <1>2, <1>3, <1>4, <1>5, <1>6, <1>7, <1>8, <1>9, <1>10, <1>11, <1>12, <1>13,
       <1>14, <1>15, <1>16, <1>17 DEF Next, Poll, Load, Query

(* The inductive invariant holds in every reachable state.                 *)
THEOREM Invariance == Spec => []IInv
BY InitIInv, NextIInv, PTL DEF Spec
-----------------------------------------------------------------------------
(* What follows from it *)

(* Every variable of the loader and of the requests stays in its range.    *)
THEOREM TypeCorrect == Spec => []TypeOK
<1>1. IInv => TypeOK
    BY DEF IInv
<1> QED
    BY <1>1, Invariance, PTL

(* However many requests run beside the load, each of their queries        *)
(* answers from one archive.                                               *)
THEOREM AnswersFromOneArchive == Spec => []OneArchive
<1>1. IInv => OneArchive
    <2> SUFFICES ASSUME IInv, NEW r \in Readers PROVE Cardinality(answer[r]) <= 1
        BY DEF OneArchive
    <2>1. PICK v \in 0 .. MaxFiles : answer[r] \subseteq {v}
        BY DEF IInv, AnswerInv
    <2>2. IsFiniteSet({v}) /\ Cardinality({v}) = 1
        BY FS_Singleton
    <2>3. Cardinality(answer[r]) <= Cardinality({v})
        BY <2>1, <2>2, FS_Subset
    <2> QED
        BY <2>2, <2>3
<1> QED
    BY <1>1, Invariance, PTL

(* For every polling period, the timer of PollGTFSData is due within one   *)
(* period of the last download, whatever restarts and failures of Redis.   *)
THEOREM TheNextIsInTime == Spec => []NextFetchInTime
<1>1. IInv => NextFetchInTime
    BY DEF IInv, TimerInv, NextFetchInTime
<1> QED
    BY <1>1, Invariance, PTL

(* No step empties a table that a load has filled.                         *)
THEOREM StaysFilled == Spec => NeverEmptyAgain
<1> DEFINE Kept == \A t \in Tables : tables[t] # 0 => tables'[t] # 0
<1>1. IInv /\ [Next]_vars => [Kept]_vars
    <2> SUFFICES ASSUME IInv, Next PROVE Kept
        OBVIOUS
    <2>1. CASE Commit
        <3>1. tables' = [t \in Tables |-> archive]
            BY <2>1, EveryTableIsLoaded, Lengths DEF Commit, Filled
        <3>2. archive # 0
            BY <2>1 DEF Commit, IInv, LoadInv
        <3> QED
            BY <3>1, <3>2
    <2>2. CASE UNCHANGED tables
        BY <2>2
    <2>3. Commit \/ UNCHANGED tables
        BY DEF Next, Poll, Load, Query, Tick, NewFile, Start, Fire, SetStamp, Downloaded,
               DownloadFails, LockNext, CopyNext, LoadFails, Die, Request, QueryLocks,
               QueryAnswers, QueryAborted
    <2> QED
        BY <2>1, <2>2, <2>3
<1> QED
    BY <1>1, Invariance, PTL DEF Spec, NeverEmptyAgain

(* A download begins a whole period after the one before it, unless a call *)
(* of Redis failed in between.                                             *)
THEOREM ADayApart == Spec => FetchesADayApart
<1> DEFINE Apart == pc = "fired" /\ pc' = "downloading" => sinceFetch = Day \/ redisLost
<1>1. IInv /\ [Next]_vars => [Apart]_vars
    BY DEF IInv, TimerInv
<1> QED
    BY <1>1, Invariance, PTL DEF Spec, FetchesADayApart
=============================================================================
