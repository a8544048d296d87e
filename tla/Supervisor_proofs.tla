------------------------- MODULE Supervisor_proofs -------------------------
(***************************************************************************)
(* Proofs about Supervisor, for any number of workers and migrations.      *)
(***************************************************************************)
EXTENDS Supervisor, FiniteSetTheorems, TLAPS

\* The four invariants together are inductive.
IInv == TypeOK /\ CounterExact /\ ExitAfterWorkers /\ SchemaIsCurrent

USE DEF Down, InRun

(* A worker that calls Done leaves the set that the wait group counts.     *)
LEMMA OneLess ==
    ASSUME TypeOK, CounterExact,
           NEW w \in Workers, worker[w] = "closing",
           worker' = [worker EXCEPT ![w] = "leaving"], wg' = wg - 1
    PROVE  CounterExact'
<1>1. Unfinished \subseteq Workers
    BY DEF Unfinished
<1>2. IsFiniteSet(Unfinished)
    BY <1>1, FS_Subset, WorkersAssumption
<1>3. w \in Unfinished
    BY DEF Unfinished
<1>4. Unfinished' = Unfinished \ {w}
    BY DEF Unfinished, TypeOK
<1>5. Cardinality(Unfinished \ {w}) = Cardinality(Unfinished) - 1
    BY <1>2, <1>3, FS_RemoveElement
<1> QED
    BY <1>4, <1>5 DEF CounterExact

(* An empty count means that nobody is left to wait for.                   *)
LEMMA NobodyLeft ==
    ASSUME CounterExact, wg = 0
    PROVE  Unfinished = {}
<1>1. IsFiniteSet(Unfinished)
    <2>1. Unfinished \subseteq Workers
        BY DEF Unfinished
    <2> QED
        BY <2>1, FS_Subset, WorkersAssumption
<1> QED
    BY <1>1, FS_EmptySet DEF CounterExact

(* Before Run, no worker is counted.                                       *)
LEMMA InitIInv == Init => IInv
<1> SUFFICES ASSUME Init PROVE IInv
    OBVIOUS
<1>1. TypeOK
    <2>1. Counted \in Int
        BY WorkersAssumption, FS_CardinalityType
    <2>2. migrate \in BOOLEAN
        BY Zenon DEF Init
    <2>3. ctxDone \in BOOLEAN
        BY DEF Init
    <2>4. pc \in PCs /\ wg \in Int /\ faults \in 0 .. MaxFaults
        BY <2>1, BoundAssumption DEF Init, PCs
    <2>5. worker \in [Workers -> {"running", "closing", "leaving", "ended"}]
        BY DEF Init
    <2> QED
        BY <2>2, <2>3, <2>4, <2>5, Zenon DEF Init, TypeOK
<1>2. CounterExact
    <2>1. Unfinished = Workers
        BY DEF Init, Unfinished
    <2> QED
        BY <2>1, WorkersAssumption DEF Init, CounterExact
<1>3. ExitAfterWorkers /\ SchemaIsCurrent
    BY DEF Init, ExitAfterWorkers, SchemaIsCurrent
<1> QED
    BY <1>1, <1>2, <1>3 DEF IInv

(* Each step of the process keeps the invariant.                           *)
LEMMA NextIInv == IInv /\ [Next]_vars => IInv'
<1> SUFFICES ASSUME IInv, [Next]_vars PROVE IInv'
    OBVIOUS
<1> USE DEF IInv
\* What a step leaves alone that does not touch the workers.
<1>a. ASSUME UNCHANGED goroutines PROVE CounterExact' /\ Unfinished' = Unfinished
    BY <1>a DEF goroutines, CounterExact, Unfinished
<1>b. ASSUME Fault PROVE faults' \in 0 .. MaxFaults
    BY <1>b, BoundAssumption DEF Fault, TypeOK
<1>1. CASE ReadKey
    <2>1. TypeOK'
        BY <1>1, <1>b DEF ReadKey, rest, goroutines, servers, TypeOK, PCs
    <2> QED
        BY <1>1, <1>a, <2>1 DEF ReadKey, rest, ExitAfterWorkers, SchemaIsCurrent
<1>2. CASE OpenDB
    <2>1. TypeOK'
        BY <1>2, <1>b DEF OpenDB, rest, goroutines, servers, TypeOK, PCs
    <2> QED
        BY <1>2, <1>a, <2>1 DEF OpenDB, rest, ExitAfterWorkers, SchemaIsCurrent
<1>3. CASE MigrateDB
    <2>1. schema' \in 0 .. Latest
        BY <1>3, LatestAssumption DEF MigrateDB, TypeOK
    <2>2. TypeOK'
        BY <1>3, <1>b, <2>1 DEF MigrateDB, rest, goroutines, servers, TypeOK, PCs
    <2> QED
        BY <1>3, <1>a, <2>2 DEF MigrateDB, rest, ExitAfterWorkers, SchemaIsCurrent
<1>4. CASE Restart
    <2>1. Counted \in Int
        BY WorkersAssumption, FS_CardinalityType
    <2>2. TypeOK'
        BY <1>4, <2>1 DEF Restart, TypeOK, PCs
    <2>3. Unfinished' = Workers
        BY <1>4 DEF Restart, Unfinished
    <2>4. CounterExact'
        BY <1>4, <2>3, WorkersAssumption DEF Restart, CounterExact
    <2> QED
        BY <1>4, <2>2, <2>4 DEF Restart, ExitAfterWorkers, SchemaIsCurrent
<1>5. CASE Signal
    <2>1. TypeOK'
        BY <1>5, <1>b DEF Signal, goroutines, servers, TypeOK
    <2> QED
        BY <1>5, <1>a, <2>1 DEF Signal, ExitAfterWorkers, SchemaIsCurrent
<1>6. CASE Panic
    <2>1. TypeOK'
        BY <1>6, <1>b DEF Panic, rest, goroutines, servers, TypeOK, PCs
    <2> QED
        BY <1>6, <1>a, <2>1 DEF Panic, rest, ExitAfterWorkers, SchemaIsCurrent
<1>7. ASSUME NEW w \in Workers, Returns(w) PROVE IInv'
    <2>1. TypeOK'
        BY <1>7, <1>b DEF Returns, servers, TypeOK
    <2>2. Unfinished' = Unfinished
        BY <1>7 DEF Returns, Unfinished, TypeOK
    <2> QED
        BY <1>7, <2>1, <2>2 DEF Returns, CounterExact, ExitAfterWorkers, SchemaIsCurrent
<1>8. ASSUME NEW w \in Workers, Done(w) PROVE IInv'
    <2>1. TypeOK'
        BY <1>8 DEF Done, servers, TypeOK
    <2>2. CounterExact'
        BY <1>8, OneLess DEF Done
    <2> QED
        BY <1>8, <2>1, <2>2 DEF Done, ExitAfterWorkers, SchemaIsCurrent
<1>9. ASSUME NEW w \in Workers, Cancel(w) PROVE IInv'
    <2>1. TypeOK'
        BY <1>9 DEF Cancel, servers, TypeOK
    <2>2. Unfinished' = Unfinished
        BY <1>9 DEF Cancel, Unfinished, TypeOK
    <2> QED
        BY <1>9, <2>1, <2>2 DEF Cancel, CounterExact, ExitAfterWorkers, SchemaIsCurrent
<1>10. CASE PollSpins
    <2>1. TypeOK'
        BY <1>10 DEF PollSpins, servers, TypeOK
    <2>2. Unfinished' = Unfinished
        BY <1>10 DEF PollSpins, Unfinished
    <2> QED
        BY <1>10, <2>1, <2>2 DEF PollSpins, CounterExact, ExitAfterWorkers, SchemaIsCurrent
<1>11. CASE Listen
    <2>1. TypeOK'
        BY <1>11, <1>b DEF Listen, goroutines, TypeOK, PCs
    <2> QED
        BY <1>11, <1>a, <2>1 DEF Listen, ExitAfterWorkers, SchemaIsCurrent
<1>12. CASE Shutdown
    <2>1. TypeOK'
        BY <1>12 DEF Shutdown, goroutines, TypeOK
    <2> QED
        BY <1>12, <1>a, <2>1 DEF Shutdown, ExitAfterWorkers, SchemaIsCurrent
<1>13. CASE Drained
    <2>1. TypeOK'
        BY <1>13 DEF Drained, goroutines, TypeOK
    <2> QED
        BY <1>13, <1>a, <2>1 DEF Drained, ExitAfterWorkers, SchemaIsCurrent
<1>14. CASE ServeReturns
    <2>1. TypeOK'
        BY <1>14 DEF ServeReturns, goroutines, servers, TypeOK, PCs
    <2> QED
        BY <1>14, <1>a, <2>1 DEF ServeReturns, ExitAfterWorkers, SchemaIsCurrent
<1>15. CASE Exit
    <2>1. TypeOK'
        BY <1>15 DEF Exit, rest, goroutines, servers, TypeOK, PCs
    <2>2. Unfinished = {}
        BY <1>15, NobodyLeft DEF Exit
    <2>3. Unfinished' = Unfinished /\ CounterExact'
        BY <1>15, <1>a DEF Exit, rest
    <2> QED
        BY <1>15, <2>1, <2>2, <2>3 DEF Exit, ExitAfterWorkers, SchemaIsCurrent
<1>16. CASE UNCHANGED vars
    BY <1>16, <1>a DEF vars, goroutines, servers, TypeOK, ExitAfterWorkers, SchemaIsCurrent
<1> QED
    BY <1>1, <1>2, <1>3, <1>4, <1>5, <1>6, <1>7, <1>8, <1>9, <1>10, <1>11, <1>12, <1>13,
       <1>14, <1>15, <1>16 DEF Next, Main, Worker, Server

(* The invariant holds in every reachable state.                           *)
THEOREM Invariance == Spec => []IInv
BY InitIInv, NextIInv, PTL DEF Spec

(* Every variable of the process stays in its range.                       *)
THEOREM TypeCorrect == Spec => []TypeOK
<1>1. IInv => TypeOK
    BY DEF IInv
<1> QED
    BY <1>1, Invariance, PTL

(* The wait group counts the workers exactly (trimetric.go:94): for any    *)
(* number of workers, its counter is never negative.                       *)
THEOREM CounterIsExact == Spec => []CounterExact
<1>1. IInv => CounterExact
    BY DEF IInv
<1> QED
    BY <1>1, Invariance, PTL

(* A process that ends by itself has closed every worker's client.         *)
THEOREM ExitIsOrderly == Spec => []ExitAfterWorkers
<1>1. IInv => ExitAfterWorkers
    BY DEF IInv
<1> QED
    BY <1>1, Invariance, PTL

(* The goroutines never run against an old schema.                         *)
THEOREM SchemaCurrent == Spec => []SchemaIsCurrent
<1>1. IInv => SchemaIsCurrent
    BY DEF IInv
<1> QED
    BY <1>1, Invariance, PTL
=============================================================================
