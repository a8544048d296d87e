---------------------------- MODULE ArrivalsPage ----------------------------
(***************************************************************************)
(* A page that shows the arrivals of a stop: the App component, which      *)
(* selects the stop of the URL (web/src/components/app.jsx), the loop of   *)
(* the client (web/src/data.js), and HandleArrivals with FetchArrivals     *)
(* and FetchTripShapes on the server (api/handlers.go, logic/stops.go).    *)
(*                                                                         *)
(* The loop asks for the arrivals of the stop selected at that moment, and *)
(* sets its timer again after the answer or the error.  App looks at the   *)
(* URL when it receives properties only: when the URL changes, and when    *)
(* the WebSocket brings stops or vehicles; it looks for the stop among the *)
(* stops of the properties it had before.  These are some of the stops     *)
(* only when the session's query for them was cut short (WSSession).       *)
(*                                                                         *)
(* Time is counted in units of which a day has Day and an hour has Hour.   *)
(* A stop time is [stop, date, arrival, headsign, direction, shape]: the   *)
(* arrival is counted from the midnight of its date and may lie beyond the *)
(* next; direction and shape are those of its trip.                        *)
(***************************************************************************)
EXTENDS Optional, Integers

CONSTANTS
    Stops,      \* the stops the server knows
    Unknown,    \* a stop it does not know
    StopTimes,  \* the timetable
    Day, Hour,  \* units of a day and of the window
    MaxClock,   \* bound: the last moment
    MaxMoves,   \* bound: changes of the URL
    MaxFaults   \* bound: requests that fail, and queries that are cut short

ASSUME DayAssumption == Day \in Nat /\ Hour \in Nat /\ 0 < Hour /\ Hour < Day
(* A stop time refers to a stop of the table stops (00001_init.sql:76), and *)
(* a service ends before the second midnight after its date.               *)
ASSUME StopTimeAssumption ==
    \A s \in StopTimes :
        s.stop \in Stops /\ s.date \in Nat /\ s.arrival \in 0 .. 2 * Day - 1
ASSUME UnknownAssumption == Unknown \notin Stops /\ Nil \notin Stops
ASSUME BoundsAssumption == MaxClock \in Nat /\ MaxMoves \in Nat /\ MaxFaults \in Nat

VARIABLES
    clock,
    url,       \* the stop of the URL, or Nil
    moves,     \* how often it changed
    socket,    \* the WebSocket: "open" or "closed"
    received,  \* what it brought: "nothing", "stops", "vehicles" after them
    known,     \* the stops that are in the store,
    props,     \* and in the properties of App
    app,       \* App's selectedStop,
    selected,  \* and the loop's
    loop,      \* "timer", "asked", "answered" or "refused"
    answer,    \* the request: its stop, the time of the answer, and the stop times
    shown,     \* the arrivals in the store
    faults

page == <<url, moves, socket, received, known, props, app, selected>>
vars == <<clock, page, loop, answer, shown, faults>>

Nothing == [stop |-> Nil, at |-> 0, rows |-> {}]
Answers == [stop : Stops \cup {Nil}, at : 0 .. MaxClock, rows : SUBSET StopTimes]

TypeOK ==
    /\ clock \in 0 .. MaxClock
    /\ url \in Stops \cup {Unknown, Nil} /\ moves \in 0 .. MaxMoves
    /\ socket \in {"open", "closed"} /\ received \in {"nothing", "stops", "vehicles"}
    /\ known \subseteq Stops /\ props \subseteq Stops
    /\ app \in Stops \cup {Nil} /\ selected \in Stops \cup {Nil}
    /\ loop \in {"timer", "asked", "answered", "refused"}
    /\ answer \in Answers /\ shown \in Answers
    /\ faults \in 0 .. MaxFaults

Init ==
    /\ clock = 0
    /\ url \in Stops \cup {Unknown, Nil} /\ moves = 0
    /\ socket = "open" /\ received = "nothing"
    /\ known = {} /\ props = {}
    /\ app = Nil /\ selected = Nil
    /\ loop = "timer"
    /\ answer = Nothing /\ shown = Nothing
    /\ faults = 0

Tick ==
    /\ clock < MaxClock
    /\ clock' = clock + 1
    /\ UNCHANGED <<page, loop, answer, shown, faults>>
-----------------------------------------------------------------------------
(* The server *)

Today(now) == now \div Day
TimeOfDay(now) == now % Day

\* Broken variant: the service of the day before is forgotten at midnight.
FetchArrivalsOfToday(stop, now) ==
    {s \in StopTimes :
        /\ s.stop = stop
        /\ s.date = Today(now)
        /\ s.arrival >= TimeOfDay(now) /\ s.arrival <= TimeOfDay(now) + Hour}

\* The rows of FetchArrivals: those of today's service within the hour, and those of
\* yesterday's, whose times go on past midnight.
FetchArrivals(stop, now) ==
    {s \in StopTimes :
        /\ s.stop = stop
        /\ \/ /\ s.date = Today(now)
              /\ s.arrival >= TimeOfDay(now) /\ s.arrival <= TimeOfDay(now) + Hour
           \/ /\ s.date = Today(now) - 1
              /\ s.arrival >= Day + TimeOfDay(now)
              /\ s.arrival <= Day + TimeOfDay(now) + Hour}

\* A connection is lost, if the bound allows.
Fault == faults < MaxFaults /\ faults' = faults + 1

\* FetchArrivals scans the headsign into a string, which NULL cannot be.
Readable(rows) == \A s \in rows : s.headsign # Nil

\* FetchTripShapes scans the direction of each trip that has a shape into an int.
Drawable(rows) == \A s \in rows : s.direction # Nil \/ s.shape = Nil

Answered(rows) ==
    /\ loop' = "answered"
    /\ answer' = [answer EXCEPT !.at = clock, !.rows = rows]

\* HandleArrivals, and the answer of an error, which is not JSON.  FetchTripShapes does
\* not meet the row it cannot scan when the connection is lost before it.
HandleArrivals ==
    /\ loop = "asked"
    /\ LET rows == FetchArrivals(answer.stop, clock)
       IN  \/ /\ Readable(rows) /\ Drawable(rows)
              /\ Answered(rows)
              /\ UNCHANGED faults
           \/ /\ Readable(rows) /\ ~Drawable(rows)
              /\ Fault
              /\ Answered(rows)
           \/ /\ ~(Readable(rows) /\ Drawable(rows))
              /\ loop' = "refused"
              /\ UNCHANGED <<answer, faults>>
    /\ UNCHANGED <<clock, page, shown>>

\* The request fails.
RequestFails ==
    /\ loop = "asked"
    /\ Fault
    /\ loop' = "refused"
    /\ UNCHANGED <<clock, page, answer, shown>>
-----------------------------------------------------------------------------
(* The loop of the client *)

\* update, with a stop selected; without one the timer is set again.
Update ==
    /\ loop = "timer"
    /\ selected # Nil
    /\ loop' = "asked"
    /\ answer' = [Nothing EXCEPT !.stop = selected]
    /\ UNCHANGED <<clock, page, shown, faults>>

\* processArrivals and timeout: the arrivals replace those in the store, whatever stop
\* is selected by now.
ProcessArrivals ==
    /\ loop = "answered"
    /\ shown' = answer
    /\ answer' = Nothing
    /\ loop' = "timer"
    /\ UNCHANGED <<clock, page, faults>>

\* Broken variant: without the catch the timer is not set again.
CaughtNot ==
    /\ loop = "refused"
    /\ answer.stop # Nil
    /\ answer' = Nothing
    /\ UNCHANGED <<clock, page, shown, loop, faults>>

\* The catch of update: the timer is set again.
Caught ==
    /\ loop = "refused"
    /\ answer' = Nothing
    /\ loop' = "timer"
    /\ UNCHANGED <<clock, page, shown, faults>>
-----------------------------------------------------------------------------
(* App *)

\* componentWillReceiveProps, with the URL it is given: handleStopChange is called with
\* the stop, or with undefined, when the URL has another stop than the selected one.
ReceiveProps(newStopID) ==
    LET found == IF newStopID \in props THEN newStopID ELSE Nil
    IN  /\ IF newStopID # app
           THEN app' = found /\ selected' = found
           ELSE UNCHANGED <<app, selected>>
        /\ props' = known'

Navigate ==
    /\ moves < MaxMoves
    /\ moves' = moves + 1
    /\ \E u \in (Stops \cup {Unknown, Nil}) \ {url} :
          url' = u /\ UNCHANGED known /\ ReceiveProps(u)
    /\ UNCHANGED <<clock, socket, received, loop, answer, shown, faults>>

\* The WebSocket brings the stops, or those that arrived before the connection to the
\* database was lost,
StopsMessage ==
    /\ received = "nothing"
    /\ received' = "stops"
    /\ \/ known' = Stops /\ UNCHANGED faults
       \/ known' \in SUBSET Stops \ {Stops} /\ Fault

\* and then vehicles, every now and then.
VehiclesMessage ==
    /\ received # "nothing"
    /\ received' = "vehicles"
    /\ UNCHANGED <<known, faults>>

Message ==
    /\ socket = "open"
    /\ StopsMessage \/ VehiclesMessage
    /\ ReceiveProps(url)
    /\ UNCHANGED <<clock, url, moves, socket, loop, answer, shown>>

\* It is closed, and not opened again.
SocketCloses ==
    /\ socket = "open"
    /\ socket' = "closed"
    /\ UNCHANGED <<clock, url, moves, received, known, props, app, selected, loop, answer,
                   shown, faults>>
-----------------------------------------------------------------------------
Loop == Update \/ HandleArrivals \/ RequestFails \/ ProcessArrivals \/ Caught

Next == Tick \/ Navigate \/ Message \/ SocketCloses \/ Loop

Spec == Init /\ [][Next]_vars

(* Timers fire, a request is answered or fails, and an open session brings *)
(* the stops and the first vehicles (WSSession).  The user and the clock   *)
(* may stop.                                                               *)
FairSpec == Spec /\ WF_vars(Loop) /\ WF_vars(Message)
-----------------------------------------------------------------------------
(* Properties *)

\* The moment at which a stop time is due.
Moment(s) == s.date * Day + s.arrival

\* What is due at the stop within the hour, except of the service of the next day.
Upcoming(stop, now) ==
    {s \in StopTimes :
        /\ s.stop = stop
        /\ now <= Moment(s) /\ Moment(s) <= now + Hour
        /\ s.date <= Today(now)}

(* What is answered and shown is what is due within the hour, on either    *)
(* side of midnight and of whichever service, except that the service of   *)
(* the next day is not seen before midnight (stops.go:203).                *)
ArrivalsAreUpcoming ==
    \A a \in {answer, shown} :
        loop = "answered" \/ a = shown => a.rows = Upcoming(a.stop, a.at)

\* The inductive invariant: the answer under way and the one in the store.
IInv == TypeOK /\ ArrivalsAreUpcoming

\* The page has not got what it needs to find the stop of its URL.
NotReady == socket = "closed" /\ received # "vehicles"

(* When the URL stays at a stop, the page comes to show the current        *)
(* arrivals of that stop, although answers to earlier requests come late,  *)
(* requests fail, and the stop may be looked for before it is known; but   *)
(* not if the session ended before the first vehicles, or a lost           *)
(* connection kept the stop from the page, nor as long as one of the       *)
(* arrivals lacks its headsign, or its direction and has a shape.          *)
PageFollowsUrl ==
    \A u \in Stops :
        <>[](url = u) =>
            \/ <>[](shown.stop = u /\ shown.at = clock)
            \/ <>[]NotReady
            \/ <>[](received # "nothing" /\ u \notin known)
            \/ <>[]~(Readable(FetchArrivals(u, clock)) /\ Drawable(FetchArrivals(u, clock)))
=============================================================================
