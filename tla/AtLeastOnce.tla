---------------------------- MODULE AtLeastOnce ----------------------------
(***************************************************************************)
(* What a worker that reads a Kafka partition promises, without how it     *)
(* keeps the promise: no connection, no local cursor, no crash.            *)
(*                                                                         *)
(* Offsets are 1-based positions in the log.  The promise starts at the    *)
(* offset "start", is about first attempts made in log order with no gap,  *)
(* and allows an acknowledgement only of what was attempted.               *)
(***************************************************************************)
EXTENDS Naturals, Sequences

CONSTANT Message

VARIABLES
    log,        \* every message ever published to the partition
    attempted,  \* the offsets handed to the worker's handler at least once
    acked,      \* offsets below it are never asked for again; 0: none yet
    start       \* the first offset the promise is about

vars == <<log, attempted, acked, start>>

Init ==
    /\ log = << >>
    /\ attempted = {}
    /\ acked = 0
    /\ start = 1

\* Producers append messages, one or several.
Publish ==
    /\ log' \in Seq(Message)
    /\ Len(log) <= Len(log')
    /\ \A o \in 1 .. Len(log) : log'[o] = log[o]
    /\ UNCHANGED <<attempted, acked, start>>

\* The handler runs on offset o: a repetition, or the next one in log order.
Attempt ==
    /\ \E o \in start .. Len(log) :
        /\ start .. (o - 1) \subseteq attempted
        /\ attempted' = attempted \cup {o}
    /\ UNCHANGED <<log, acked, start>>

\* The worker gives up its right to ask for the offsets below n again.
Acknowledge ==
    /\ \E n \in (acked + 1) .. (Len(log) + 1) :
        /\ start .. (n - 1) \subseteq attempted
        /\ acked' = n
    /\ UNCHANGED <<log, attempted, start>>

\* A worker that never acknowledged anything begins at the end of the log: what
\* it had not attempted by then is outside the promise.
StartAtTheEnd ==
    /\ acked = 0
    /\ start' = Len(log) + 1
    /\ UNCHANGED <<log, attempted, acked>>

Next == Publish \/ Attempt \/ Acknowledge \/ StartAtTheEnd

Spec == Init /\ [][Next]_vars
=============================================================================
