----------------------------- MODULE Supervisor -----------------------------
(***************************************************************************)
(* The life of a trimetric process: main (cmd/trimetric/main.go), which    *)
(* reads the key, waits for the database and migrates it, and Run          *)
(* (trimetric.go), which starts the goroutines and serves HTTP until the   *)
(* context is cancelled.                                                   *)
(*                                                                         *)
(* Any of the four workers that returns cancels the context, and so does a *)
(* signal.  A goroutine of its own waits for that and shuts the servers    *)
(* down; ListenAndServe returns as soon as Shutdown begins, and Run then   *)
(* waits for the workers, which a wait group counts.  The fifth goroutine, *)
(* PollGTFSData, calls Done too and is not counted.                        *)
(*                                                                         *)
(* The HTTP server is that of Go 1.9 (Dockerfile-api), whose Serve undoes  *)
(* a Shutdown that came before it.                                         *)
(***************************************************************************)
EXTENDS Integers, FiniteSets

CONSTANTS
    Workers,   \* the goroutines that Run waits for
    Counted,   \* the number given to wg.Add
    Latest,    \* the version of the last migration
    MaxFaults  \* bound: errors, signals and panics

ASSUME WorkersAssumption == IsFiniteSet(Workers) /\ Counted = Cardinality(Workers)
ASSUME LatestAssumption == Latest \in Nat
ASSUME BoundAssumption == MaxFaults \in Nat

VARIABLES
    pc,       \* the main goroutine
    migrate,  \* the flag -migrate of this deployment
    schema,   \* the version of the database
    worker,   \* each worker: "running" (or not started yet), "closing" its client,
              \* "leaving" (Done was called, cancel was not), or "ended"
    wg,       \* the counter of the wait group
    poll,     \* PollGTFSData: "waiting" in its select, "spinning", or "ended"
    ctxDone,  \* the context is cancelled
    srv,      \* the server: "new", "listening", "closed" or "failed"
    stopper,  \* the goroutine that shuts down: "waiting", "draining" or "ended"
    faults    \* errors, signals and panics so far

goroutines == <<worker, wg, poll>>
servers == <<srv, stopper>>
vars == <<pc, migrate, schema, goroutines, ctxDone, servers, faults>>

\* Run is being executed.
InRun == {"serving", "returning"}
\* The process has ended: a fatal start, Run returned, or a panic.
Down == {"fatal", "exited", "dead"}
PCs == {"key", "database", "migrating"} \cup InRun \cup Down

TypeOK ==
    /\ pc \in PCs
    /\ migrate \in BOOLEAN
    /\ schema \in 0 .. Latest
    /\ worker \in [Workers -> {"running", "closing", "leaving", "ended"}]
    /\ wg \in Int
    /\ poll \in {"waiting", "spinning", "ended"}
    /\ ctxDone \in BOOLEAN
    /\ srv \in {"new", "listening", "closed", "failed"}
    /\ stopper \in {"waiting", "draining", "ended"}
    /\ faults \in 0 .. MaxFaults

Init ==
    /\ pc = "key"
    /\ migrate \in BOOLEAN
    /\ schema \in 0 .. Latest
    /\ worker = [w \in Workers |-> "running"]
    /\ wg = Counted
    /\ poll = "waiting"
    /\ ctxDone = FALSE
    /\ srv = "new"
    /\ stopper = "waiting"
    /\ faults = 0

\* Something goes wrong, if the bound allows.
Fault == faults < MaxFaults /\ faults' = faults + 1
-----------------------------------------------------------------------------
(* main *)

rest == <<migrate, goroutines, ctxDone, servers>>

\* The key is read; without one the process ends.
ReadKey ==
    /\ pc = "key"
    /\ \/ pc' = "database" /\ UNCHANGED faults
       \/ pc' = "fatal" /\ Fault
    /\ UNCHANGED <<rest, schema>>

\* OpenDB, tried again every second until the server answers.
OpenDB ==
    /\ pc = "database"
    /\ \/ pc' = "migrating" /\ UNCHANGED faults
       \/ pc' = "database" /\ Fault
    /\ UNCHANGED <<rest, schema>>

\* Broken variant: an old database is migrated or taken as it is.
MigrateDBUnchecked ==
    /\ pc = "migrating"
    /\ \/ /\ schema < Latest /\ migrate
          /\ schema' = schema + 1
          /\ UNCHANGED <<pc, faults>>
       \/ /\ ~migrate \/ schema = Latest
          /\ pc' = "serving"
          /\ UNCHANGED <<schema, faults>>
    /\ UNCHANGED rest

\* MigrateDB: without -migrate an old database ends the process, with it the
\* migrations are applied one by one, and each may fail; then Run is called.
MigrateDB ==
    /\ pc = "migrating"
    /\ \/ /\ schema < Latest /\ migrate
          /\ schema' = schema + 1
          /\ UNCHANGED <<pc, faults>>
       \/ /\ schema < Latest /\ ~migrate
          /\ pc' = "fatal"
          /\ UNCHANGED <<schema, faults>>
       \/ /\ schema = Latest
          /\ pc' = "serving"
          /\ UNCHANGED <<schema, faults>>
       \/ /\ Fault
          /\ pc' = "fatal"
          /\ UNCHANGED schema
    /\ UNCHANGED rest

\* The signal that main listens for.
Signal ==
    /\ pc \in InRun
    /\ ~ctxDone
    /\ Fault
    /\ ctxDone' = TRUE
    /\ UNCHANGED <<pc, migrate, schema, goroutines, servers>>

\* A panic in any goroutine (a nil message, a nil vehicle) ends the process.
Panic ==
    /\ pc \in InRun
    /\ Fault
    /\ pc' = "dead"
    /\ UNCHANGED <<rest, schema>>

\* restart: always.  Run's variables are made anew.
Restart ==
    /\ pc \in Down
    /\ pc' = "key"
    /\ worker' = [w \in Workers |-> "running"]
    /\ wg' = Counted
    /\ poll' = "waiting"
    /\ ctxDone' = FALSE
    /\ srv' = "new"
    /\ stopper' = "waiting"
    /\ UNCHANGED <<migrate, schema, faults>>

Main == ReadKey \/ OpenDB \/ MigrateDB \/ Restart
-----------------------------------------------------------------------------
(* The goroutines of Run *)

\* A worker returns: its context is cancelled, or it met an error.
Returns(w) ==
    /\ pc \in InRun
    /\ worker[w] = "running"
    /\ \/ ctxDone /\ UNCHANGED faults
       \/ Fault
    /\ worker' = [worker EXCEPT ![w] = "closing"]
    /\ UNCHANGED <<pc, migrate, schema, wg, poll, ctxDone, servers>>

\* Its client is closed, and wg.Done is called: deferred calls run last to first.
Done(w) ==
    /\ pc \in InRun
    /\ worker[w] = "closing"
    /\ wg' = wg - 1
    /\ worker' = [worker EXCEPT ![w] = "leaving"]
    /\ UNCHANGED <<pc, migrate, schema, poll, ctxDone, servers, faults>>

\* Broken variant: the goroutine ends without "defer cancel()".
EndsAlone(w) ==
    /\ pc \in InRun
    /\ worker[w] = "leaving"
    /\ worker' = [worker EXCEPT ![w] = "ended"]
    /\ UNCHANGED <<pc, migrate, schema, wg, poll, ctxDone, servers, faults>>

\* "defer cancel()", the first deferred and the last to run.
Cancel(w) ==
    /\ pc \in InRun
    /\ worker[w] = "leaving"
    /\ worker' = [worker EXCEPT ![w] = "ended"]
    /\ ctxDone' = TRUE
    /\ UNCHANGED <<pc, migrate, schema, wg, poll, servers, faults>>

Worker(w) == Returns(w) \/ Done(w) \/ Cancel(w)

\* Broken variant: "break" leaves the loop, PollGTFSData returns and calls Done.
PollReturns ==
    /\ pc \in InRun
    /\ poll = "waiting"
    /\ ctxDone
    /\ poll' = "ended"
    /\ wg' = wg - 1
    /\ UNCHANGED <<pc, migrate, schema, worker, ctxDone, servers, faults>>

\* "break" leaves the select: from now on the loop spins.
PollSpins ==
    /\ pc \in InRun
    /\ poll = "waiting"
    /\ ctxDone
    /\ poll' = "spinning"
    /\ UNCHANGED <<pc, migrate, schema, worker, wg, ctxDone, servers, faults>>
-----------------------------------------------------------------------------
(* The server, and the end of Run *)

\* ListenAndServe gets the port, or fails and lets Run return.
Listen ==
    /\ pc = "serving"
    /\ srv = "new"
    /\ \/ /\ srv' = "listening"
          /\ UNCHANGED <<pc, ctxDone, faults>>
       \/ /\ Fault
          /\ srv' = "failed"
          /\ pc' = "returning"
          /\ ctxDone' = TRUE
    /\ UNCHANGED <<migrate, schema, goroutines, stopper>>

\* The goroutine sees the context: Shutdown closes the listener, if there is one yet.
Shutdown ==
    /\ pc \in InRun
    /\ stopper = "waiting"
    /\ ctxDone
    /\ stopper' = "draining"
    /\ srv' = IF srv = "listening" THEN "closed" ELSE srv
    /\ UNCHANGED <<pc, migrate, schema, goroutines, ctxDone, faults>>

\* The requests are over, or five seconds are; the internal server is closed too.
Drained ==
    /\ pc \in InRun
    /\ stopper = "draining"
    /\ stopper' = "ended"
    /\ UNCHANGED <<pc, migrate, schema, goroutines, ctxDone, srv, faults>>

\* ListenAndServe returns ErrServerClosed, and the deferred function cancels.
ServeReturns ==
    /\ pc = "serving"
    /\ srv = "closed"
    /\ pc' = "returning"
    /\ ctxDone' = TRUE
    /\ UNCHANGED <<migrate, schema, goroutines, servers, faults>>

\* Broken variant: Run returns without waiting.
ExitAtOnce ==
    /\ pc = "returning"
    /\ pc' = "exited"
    /\ UNCHANGED <<rest, schema, faults>>

\* wg.Wait returns, Run returns an error, and log.Fatal ends the process.
Exit ==
    /\ pc = "returning"
    /\ wg = 0
    /\ pc' = "exited"
    /\ UNCHANGED <<rest, schema, faults>>

Server == Listen \/ Shutdown \/ Drained \/ ServeReturns \/ Exit
-----------------------------------------------------------------------------
Next ==
    \/ Main \/ Signal \/ Panic
    \/ \E w \in Workers : Worker(w)
    \/ PollSpins
    \/ Server
    \/ pc = "serving" /\ UNCHANGED vars  \* requests are served

Spec == Init /\ [][Next]_vars

(* Statements return, so that every goroutine goes on, and a worker whose  *)
(* context is cancelled returns.                                           *)
FairSpec ==
    /\ Spec
    /\ WF_vars(Main) /\ WF_vars(Server)
    /\ WF_vars(Listen) /\ WF_vars(Shutdown)
    /\ \A w \in Workers : WF_vars(Worker(w))
-----------------------------------------------------------------------------
(* Properties *)

\* The workers that have not called Done.
Unfinished == {w \in Workers : worker[w] \in {"running", "closing"}}

(* The wait group counts the workers and nothing else: the counter never   *)
(* goes below zero, which would panic, although five goroutines call Done  *)
(* on a counter of four.  It relies on the poll never returning.           *)
CounterExact == wg = Cardinality(Unfinished)

(* A process that ends by itself has closed the clients of all its         *)
(* workers, so that the offsets are committed and nothing is produced      *)
(* halfway, whichever goroutine began the shutdown.                        *)
ExitAfterWorkers == pc = "exited" => Unfinished = {}

(* No goroutine runs against a database older than the last migration,     *)
(* through failed and repeated migrations and restarts.                    *)
SchemaIsCurrent == pc \in InRun => schema = Latest

\* Shutdown came before the server listened, and was undone.
Missed == srv = "listening" /\ stopper # "waiting"

(* Once a worker has ended or a signal came, the whole process ends, to be *)
(* started again with all its workers, unless the shutdown came before the *)
(* server listened: then the API is served without any worker.             *)
AllEndTogether ==
    (pc \in InRun /\ (ctxDone \/ \E w \in Workers : worker[w] # "running"))
        ~> (pc \in Down \/ Missed)
=============================================================================
