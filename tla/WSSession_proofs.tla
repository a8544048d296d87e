------------------------- MODULE WSSession_proofs -------------------------
(***************************************************************************)
(* Proofs about WSSession, for every size of a packet and of the static    *)
(* tables, every traffic and every number of queries that fail or are cut  *)
(* short.                                                                  *)
(***************************************************************************)
EXTENDS WSSession, FiniteSetTheorems, TLAPS

-----------------------------------------------------------------------------
(* Remainders *)

(* What the remainder is. *)
LEMMA Remainder ==
    ASSUME NEW p \in Nat \ {0}, NEW a \in Nat
    PROVE  /\ a % p \in 0 .. (p - 1)
           /\ \E q \in Nat : a = (p * q) + (a % p)
<1>1. a % p \in 0 .. (p - 1)
  OBVIOUS
<1>2. a \div p \in Nat
  OBVIOUS
<1>3. a = (p * (a \div p)) + (a % p)
  OBVIOUS
<1> QED
  BY <1>1, <1>2, <1>3

(* Two numbers with the same remainder have a multiple between them.       *)
LEMMA MultipleBetween ==
    ASSUME NEW p \in Nat \ {0}, NEW a \in Nat, NEW b \in Nat,
           a < b, a % p = b % p, a % p # 0
    PROVE  \E m \in (a + 1) .. (b - 1) : m % p = 0
<1>1. a % p \in 1 .. (p - 1)
  BY Remainder
<1>2. PICK q \in Nat : a = (p * q) + (a % p)
  BY Remainder
<1>3. PICK r \in Nat : b = (p * r) + (b % p)
  BY Remainder
<1>4. b - a = p * (r - q)
  BY <1>1, <1>2, <1>3
<1>5. r - q >= 1
  BY <1>4
<1>6. b >= a + p
  <2>1. p * (r - q) >= p
    BY <1>5
  <2> QED
    BY <1>4, <2>1
<1> DEFINE m == a + (p - (a % p))
<1>7. m % p = 0
  <2>1. m = p * (q + 1)
    BY <1>1, <1>2
  <2>2. (p * (q + 1)) % p = 0
    OBVIOUS
  <2> QED
    BY <2>1, <2>2
<1>8. m \in (a + 1) .. (b - 1)
  BY <1>1, <1>6
<1> QED
  BY <1>7, <1>8
-----------------------------------------------------------------------------
(* Sequences *)

(* The elements of a concatenation are those of its parts.                 *)
LEMMA ElementsOfConcat ==
    ASSUME NEW S, NEW s \in Seq(S), NEW t \in Seq(S)
    PROVE  s \o t \in Seq(S) /\ ToSet(s \o t) = ToSet(s) \cup ToSet(t)
<1>1. /\ s \o t \in Seq(S)
      /\ DOMAIN s = 1 .. Len(s) /\ DOMAIN t = 1 .. Len(t)
      /\ DOMAIN (s \o t) = 1 .. (Len(s) + Len(t))
      /\ Len(s) \in Nat /\ Len(t) \in Nat
  OBVIOUS
<1>2. /\ \A k \in 1 .. Len(s) : (s \o t)[k] = s[k]
      /\ \A k \in 1 .. Len(t) : (s \o t)[Len(s) + k] = t[k]
      /\ \A k \in (Len(s) + 1) .. (Len(s) + Len(t)) :
            k - Len(s) \in 1 .. Len(t) /\ (s \o t)[k] = t[k - Len(s)]
  OBVIOUS
<1>3. ASSUME NEW x \in ToSet(s \o t) PROVE x \in ToSet(s) \cup ToSet(t)
  <2>1. PICK k \in 1 .. (Len(s) + Len(t)) : x = (s \o t)[k]
    BY <1>1 DEF ToSet
  <2>2. CASE k <= Len(s)
    BY <1>1, <1>2, <2>1, <2>2 DEF ToSet
  <2>3. CASE k > Len(s)
    BY <1>1, <1>2, <2>1, <2>3 DEF ToSet
  <2> QED
    BY <1>1, <2>2, <2>3
<1>4. ASSUME NEW x \in ToSet(s) PROVE x \in ToSet(s \o t)
  <2>1. PICK k \in 1 .. Len(s) : x = s[k]
    BY <1>1 DEF ToSet
  <2>2. k \in 1 .. (Len(s) + Len(t))
    BY <1>1
  <2> QED
    BY <1>1, <1>2, <2>1, <2>2 DEF ToSet
<1>5. ASSUME NEW x \in ToSet(t) PROVE x \in ToSet(s \o t)
  <2>1. PICK k \in 1 .. Len(t) : x = t[k]
    BY <1>1 DEF ToSet
  <2>2. Len(s) + k \in 1 .. (Len(s) + Len(t))
    BY <1>1
  <2> QED
    BY <1>1, <1>2, <2>1, <2>2 DEF ToSet
<1> QED
  BY <1>1, <1>3, <1>4, <1>5

(* A set of three elements is finite, and has no more.                     *)
LEMMA ThreeElements ==
    ASSUME NEW a, NEW b, NEW c
    PROVE  IsFiniteSet({a, b, c}) /\ Cardinality({a, b, c}) <= 3
<1>1. IsFiniteSet({a}) /\ Cardinality({a}) = 1
  BY FS_Singleton
<1>2. IsFiniteSet({a} \cup {b}) /\ Cardinality({a} \cup {b}) \in {1, 2}
  BY <1>1, FS_AddElement
<1>3. /\ IsFiniteSet(({a} \cup {b}) \cup {c})
      /\ Cardinality(({a} \cup {b}) \cup {c}) \in {1, 2, 3}
  BY <1>2, FS_AddElement
<1>4. {a, b, c} = ({a} \cup {b}) \cup {c}
  OBVIOUS
<1> QED
  BY <1>3, <1>4

(* The handler has so many stops.                                          *)
LEMMA CountIsNat == ASSUME TypeOK PROVE stopCount \in Nat
<1>1. "stops" \in StaticQueries
  BY DEF StaticQueries
<1> QED
  BY <1>1 DEF TypeOK, stopCount

(* Their number is what the handler's results say it is.                   *)
LEMMA CountStays == ASSUME UNCHANGED results PROVE UNCHANGED <<rows, short, stopCount>>
  BY DEF results, stopCount

(* The lines of a message are a sequence, and all there is of them on a    *)
(* page without any.                                                       *)
LEMMA LinesAreSequence ==
    ASSUME NEW n \in Nat
    PROVE  Lines(n) \in Seq(Nat) /\ << >> \o Lines(n) = Lines(n)
<1>1. Lines(n) \in Seq(Nat)
  BY DEF Lines
<1>2. \A t \in Seq(Nat) : << >> \o t = t
  OBVIOUS
<1> QED
  BY <1>1, <1>2

(* A packet is a sequence, and its elements are what its places hold.      *)
LEMMA PacketIsSequence ==
    ASSUME TypeOK
    PROVE  /\ packet \in Seq(Nat)
           /\ ToSet(packet) = {packet[k] : k \in 1 .. Packet}
<1>1. packet \in [1 .. Packet -> 0 .. stopCount] /\ stopCount \in Nat
  BY CountIsNat DEF TypeOK
<1>2. packet \in Seq(Nat) /\ DOMAIN packet = 1 .. Packet
  BY <1>1, SessionAssumption
<1> QED
  BY <1>2 DEF ToSet

(* So is the whole table, in one message.                                  *)
LEMMA TableIsSequence ==
    ASSUME NEW n \in Nat
    PROVE  [k \in 1 .. n |-> k] \in Seq(Nat) /\ << >> \o [k \in 1 .. n |-> k] = [k \in 1 .. n |-> k]
<1> DEFINE t == [k \in 1 .. n |-> k]
<1>1. t \in Seq(Nat)
  OBVIOUS
<1> HIDE DEF t
<1>2. << >> \o t = t
  BY <1>1
<1> QED
  BY <1>1, <1>2 DEF t
-----------------------------------------------------------------------------
(* The client's store stays one, whatever message it gets.                 *)
LEMMA StoreStays ==
    ASSUME page \in Store
    PROVE  /\ [page EXCEPT !.totals = TRUE] \in Store
           /\ \A d \in Seq(Nat) : [page EXCEPT !.stops = @ \o d] \in Store
           /\ \A d \in Nat : [page EXCEPT !.routes = d] \in Store
           /\ \A d \in Seq(Nat) : [page EXCEPT !.shapes = @ \o d] \in Store
           /\ [page EXCEPT !.heard = "null"] \in Store
           /\ \A d \in Nat : [page EXCEPT !.vehicles = d, !.heard = "list"] \in Store
<1>1. /\ [page EXCEPT !.totals = TRUE] \in Store
      /\ \A d \in Nat : [page EXCEPT !.routes = d] \in Store
      /\ [page EXCEPT !.heard = "null"] \in Store
  BY DEF Store
<1>2. ASSUME NEW d \in Seq(Nat) PROVE [page EXCEPT !.stops = @ \o d] \in Store
  <2>1. page.stops \o d \in Seq(Nat)
    BY DEF Store
  <2> QED
    BY <2>1 DEF Store
<1>3. ASSUME NEW d \in Nat PROVE [page EXCEPT !.vehicles = d, !.heard = "list"] \in Store
  BY DEF Store
<1>4. ASSUME NEW d \in Seq(Nat) PROVE [page EXCEPT !.shapes = @ \o d] \in Store
  <2>1. page.shapes \o d \in Seq(Nat)
    BY DEF Store
  <2> QED
    BY <2>1 DEF Store
<1> QED
  BY <1>1, <1>2, <1>3, <1>4

\* A message makes p of the page if the peer is there.  To one that is gone, it
\* changes nothing but the connection.
Reaches(p, ok, bad) ==
    \/ link = "up" /\ writeErr' = writeErr /\ page' = p /\ pc' = ok
    \/ link = "gone" /\ writeErr' \in BOOLEAN /\ page' = page /\ pc' \in {ok, bad}

(* What each message of the handler does.                                  *)
LEMMA TotalsReach ==
    ASSUME TypeOK, LinkInv, SendTotals
    PROVE  Reaches([page EXCEPT !.totals = TRUE], "stops", "done")
  BY DEF TypeOK, LinkInv, SendTotals, Write, Reduced, Reaches

(* All stops at once, in the order of the table.                           *)
LEMMA StopsReach ==
    ASSUME TypeOK, LinkInv, SendStops
    PROVE  Reaches([page EXCEPT !.stops = @ \o [n \in 1 .. stopCount |-> n]], "routes", "done")
<1>1. Reduced([type |-> "stops", data |-> [n \in 1 .. stopCount |-> n]]) =
        [page EXCEPT !.stops = @ \o [n \in 1 .. stopCount |-> n]]
  BY DEF Reduced
<1> QED
  BY <1>1 DEF TypeOK, LinkInv, SendStops, Write, Reaches

(* The packet as it is, with what earlier rounds left in it.               *)
LEMMA PacketReaches ==
    ASSUME TypeOK, LinkInv, SendPacket
    PROVE  Reaches([page EXCEPT !.stops = @ \o packet], "stops", "done")
<1>1. Reduced([type |-> "stops", data |-> packet]) = [page EXCEPT !.stops = @ \o packet]
  BY DEF Reduced
<1> QED
  BY <1>1 DEF TypeOK, LinkInv, SendPacket, Write, Reaches

(* The routes.                                                             *)
LEMMA RoutesReach ==
    ASSUME TypeOK, LinkInv, SendRoutes
    PROVE  Reaches([page EXCEPT !.routes = rows["routes"]], "shapes", "done")
<1>1. Reduced([type |-> "routes", data |-> rows["routes"]])
        = [page EXCEPT !.routes = rows["routes"]]
  BY DEF Reduced
<1> QED
  BY <1>1 DEF TypeOK, LinkInv, SendRoutes, Write, Reaches

(* The route lines.                                                        *)
LEMMA ShapesReach ==
    ASSUME TypeOK, LinkInv, SendShapes
    PROVE  Reaches([page EXCEPT !.shapes = @ \o Lines(rows["shapes"])], "await", "done")
<1>1. Reduced([type |-> "route_shapes", data |-> rows["shapes"]])
        = [page EXCEPT !.shapes = @ \o Lines(rows["shapes"])]
  BY DEF Reduced
<1> QED
  BY <1>1 DEF TypeOK, LinkInv, SendShapes, Write, Reaches

(* The first vehicles, or null if they could not be fetched.               *)
LEMMA FirstReach ==
    ASSUME TypeOK, LinkInv, SendFirst
    PROVE  IF first = "ok"
           THEN Reaches([page EXCEPT !.vehicles = vehicles, !.heard = "list"], "select", "done")
           ELSE Reaches([page EXCEPT !.heard = "null"], "select", "done")
<1>1. /\ Reduced([type |-> "vehicles", data |-> vehicles]) =
            [page EXCEPT !.vehicles = vehicles, !.heard = "list"]
      /\ Reduced([type |-> "null"]) = [page EXCEPT !.heard = "null"]
  BY DEF Reduced
<1> QED
  BY <1>1 DEF TypeOK, LinkInv, SendFirst, Write, Reaches

(* The vehicles of a tick; a failed write does not end the session.        *)
LEMMA PushReaches ==
    ASSUME TypeOK, LinkInv, Push
    PROVE  Reaches([page EXCEPT !.vehicles = vehicles, !.heard = "list"], "select", "select")
<1>1. Reduced([type |-> "vehicles", data |-> vehicles]) =
            [page EXCEPT !.vehicles = vehicles, !.heard = "list"]
  BY DEF Reduced
<1> QED
  BY <1>1 DEF TypeOK, LinkInv, Push, Write, Reaches
-----------------------------------------------------------------------------
(* The initial state satisfies the inductive invariant. *)
LEMMA InitIInv == Init => IInv
<1> SUFFICES ASSUME Init PROVE IInv
  OBVIOUS
<1> USE SessionAssumption DEF Init
<1>1. stopCount \in Nat /\ packet \in [1 .. Packet -> 0 .. stopCount]
  BY DEF stopCount, StaticQueries
<1>2. page \in Store
  BY DEF Store
<1>3. TypeOK
  <2>1. pc \in PCs /\ params \in Params /\ i \in 0 .. stopCount
    BY <1>1 DEF PCs, Params
  <2>2. /\ fleet \in 0 .. traffic /\ traffic \in 0 .. MaxTraffic /\ faults \in 0 .. MaxFaults
        /\ vehicles \in Nat /\ errored \in 0 .. 3 /\ queries \subseteq StaticQueries
    OBVIOUS
  <2>3. /\ link \in {"up", "gone"} /\ writeErr \in BOOLEAN
        /\ ctxDone \in BOOLEAN /\ tick \in BOOLEAN
        /\ reader \in {"none", "reading", "ended"}
        /\ first \in {"none", "running", "ok", "failed"}
        /\ size \in Sizes
        /\ rows \in [StaticQueries -> Nat] /\ short \subseteq StaticQueries
    OBVIOUS
  <2> HIDE DEF Init
  <2> QED
    BY <1>1, <1>2, <2>1, <2>2, <2>3 DEF TypeOK
<1>4. LinkInv /\ FirstInv /\ EmptyInv
  BY DEF LinkInv, FirstInv, EmptyInv, NullOnlyOnFailure, Fetched
<1>5. ErroredInv
  <2>1. Cardinality({}) = 0
    BY FS_EmptySet
  <2> QED
    BY <2>1 DEF ErroredInv
<1>6. Delivered /\ StaticFirst
  BY DEF Delivered, StaticFirst, BeforeStops, AfterStops, AfterRoutes, AfterShapes
<1>7. FetchInv
  BY DEF FetchInv
<1> QED
  BY <1>3, <1>4, <1>5, <1>6, <1>7 DEF IInv
-----------------------------------------------------------------------------
(* The steps, one invariant after the other *)

\* Steps that leave the handler and the page alone.
World == Traffic \/ PeerGone \/ Ticks \/ ReadFails \/ FirstFetch \/ Rest
\* Steps of the handler in its loop that write nothing.
Quiet == Await \/ Wake \/ Poll \/ Leave

(* The handler refuses a request, or starts a session of some parameters.  *)
LEMMA Accepted ==
    ASSUME Accept
    PROVE  \/ pc' = "refused" /\ UNCHANGED <<params, reader, first, queries>>
           \/ \E c, s, z \in BOOLEAN :
                /\ params' = [static |-> s, chunkify |-> c, compress |-> z]
                /\ reader' = "reading" /\ first' = "running"
                /\ pc' = IF s THEN "fetching" ELSE "await"
                /\ queries' = IF s THEN StaticQueries ELSE {}
<1>1. \A v \in {"", "true", "false", "x"}, d \in BOOLEAN : ParseBool(v, d).value \in BOOLEAN
  BY DEF ParseBool
<1> QED
  BY <1>1 DEF Accept

(* A static query returns while the handler waits for it.                  *)
LEMMA StaticFetches ==
    ASSUME IInv, StaticFetch
    PROVE  /\ pc = "fetching"
           /\ faults' \in 0 .. MaxFaults
           /\ rows' \in [StaticQueries -> Nat]
           /\ errored' \in {errored, errored + 1}
           /\ short \subseteq short'
           /\ \E q \in queries :
                /\ queries' = queries \ {q}
                /\ short' \subseteq short \cup {q}
                /\ \A p \in StaticQueries \ {q} : rows'[p] = rows[p]
                /\ errored' = errored /\ q \notin short' => rows'[q] = size[q]
           /\ UNCHANGED <<size, fleet, traffic, link, writeErr, pc, params, ctxDone, reader,
                          first, vehicles, i, packet, tick, page>>
<1>0. TypeOK /\ FetchInv
  BY DEF IInv
<1>1. /\ UNCHANGED <<size, fleet, traffic, link, writeErr, pc, params, ctxDone, reader,
                     first, vehicles, i, packet, tick, page>>
      /\ \E q \in queries : queries' = queries \ {q}
  BY DEF StaticFetch, database, packets
<1>2. pc = "fetching"
  BY <1>0, <1>1 DEF FetchInv
<1>3. \A q \in queries : q \in StaticQueries /\ size[q] \in Nat
  <2>1. size["stops"] \in Nat /\ size["routes"] \in Nat /\ size["shapes"] \in Nat
    BY <1>0, SessionAssumption DEF TypeOK, Sizes
  <2> QED
    BY <1>0, <2>1 DEF TypeOK, StaticQueries
<1>4. PICK q \in queries :
        /\ queries' = queries \ {q}
        /\ \/ /\ rows' = [rows EXCEPT ![q] = size[q]]
              /\ UNCHANGED <<short, errored, faults>>
           \/ /\ QueryFails
              /\ \E n \in 0 .. (size[q] - 1) : rows' = [rows EXCEPT ![q] = n]
              /\ short' = short \cup {q}
              /\ UNCHANGED errored
           \/ /\ QueryFails
              /\ errored' = errored + 1
              /\ UNCHANGED results
  BY DEF StaticFetch
<1>5. errored \in Nat /\ rows \in [StaticQueries -> Nat] /\ faults \in 0 .. MaxFaults
  BY <1>0 DEF TypeOK
<1>6. CASE /\ rows' = [rows EXCEPT ![q] = size[q]]
           /\ UNCHANGED <<short, errored, faults>>
  BY <1>1, <1>2, <1>3, <1>4, <1>5, <1>6
<1>7. CASE /\ QueryFails
           /\ \E n \in 0 .. (size[q] - 1) : rows' = [rows EXCEPT ![q] = n]
           /\ short' = short \cup {q}
           /\ UNCHANGED errored
  <2>1. PICK n \in 0 .. (size[q] - 1) : rows' = [rows EXCEPT ![q] = n]
    BY <1>7
  <2>2. n \in Nat /\ faults' \in 0 .. MaxFaults
    BY <1>3, <1>5, <1>7, SessionAssumption DEF QueryFails
  <2> QED
    BY <1>1, <1>2, <1>3, <1>4, <1>5, <1>7, <2>1, <2>2
<1>8. CASE /\ QueryFails
           /\ errored' = errored + 1
           /\ UNCHANGED results
  <2>1. faults' \in 0 .. MaxFaults
    BY <1>5, <1>8, SessionAssumption DEF QueryFails
  <2> QED
    BY <1>1, <1>2, <1>3, <1>4, <1>5, <1>8, <2>1 DEF results
<1> QED
  BY <1>4, <1>6, <1>7, <1>8

(* Every variable stays in its range.                                      *)
LEMMA TypeStep == ASSUME IInv, [Next]_vars PROVE TypeOK'
<1> USE SessionAssumption
<1>0. TypeOK /\ LinkInv
  BY DEF IInv
<1>1. stopCount \in Nat
  BY <1>0, CountIsNat
<1>2. CASE UNCHANGED vars
  BY <1>0, <1>2 DEF TypeOK, vars, database, fetches, packets, results, stopCount
<1>3. CASE Traffic \/ PeerGone \/ Ticks \/ ReadFails \/ FirstFetch
  <2>1. CASE Traffic
    BY <1>0, <2>1 DEF TypeOK, Traffic, fetches, packets, results, stopCount
  <2>2. CASE PeerGone \/ Ticks \/ ReadFails
    BY <1>0, <2>2 DEF TypeOK, PeerGone, Ticks, ReadFails, database, fetches, packets,
                           results, stopCount
  <2>3. CASE FirstFetch
    <3>1. /\ first' \in {"ok", "failed"} /\ faults' \in 0 .. MaxFaults
          /\ ctxDone' \in BOOLEAN /\ vehicles' \in Nat
      <4>1. CASE UNCHANGED <<ctxDone, faults>> /\ first' = "ok" /\ vehicles' = fleet
        BY <1>0, <4>1 DEF TypeOK
      <4>2. CASE /\ faults < MaxFaults /\ faults' = faults + 1
                 /\ first' = "failed" /\ ctxDone' = TRUE /\ UNCHANGED vehicles
        BY <1>0, <4>2 DEF TypeOK
      <4> QED
        BY <2>3, <4>1, <4>2 DEF FirstFetch, QueryFails
    <3> QED
      BY <1>0, <2>3, <3>1 DEF TypeOK, FirstFetch, database, packets, results, stopCount
  <2> QED
    BY <1>3, <2>1, <2>2, <2>3
<1>4. CASE StaticFetch
  <2>1. errored' \in 0 .. 3
    <3>1. PICK q \in queries : queries' = queries \ {q}
      BY <1>4, StaticFetches
    <3>2. IsFiniteSet(queries) /\ Cardinality(queries) \in Nat /\ Cardinality(queries) > 0
      <4>1. IsFiniteSet(StaticQueries)
        BY ThreeElements DEF StaticQueries
      <4> QED
        BY <1>0, <3>1, <4>1, FS_Subset, FS_CardinalityType, FS_EmptySet DEF TypeOK
    <3>3. errored' \in {errored, errored + 1}
      BY <1>4, StaticFetches
    <3> QED
      BY <1>0, <3>2, <3>3 DEF TypeOK, IInv, ErroredInv
  <2>2. rows' \in [StaticQueries -> Nat] /\ short' \subseteq StaticQueries
        /\ queries' \subseteq StaticQueries /\ faults' \in 0 .. MaxFaults
    BY <1>0, <1>4, StaticFetches DEF TypeOK
  <2>3. i' \in 0 .. stopCount' /\ packet' \in [1 .. Packet -> 0 .. stopCount']
    <3>1. stopCount' \in Nat
      BY <2>2 DEF stopCount, StaticQueries
    <3>2. i' = 0 /\ packet' = [n \in 1 .. Packet |-> 0]
      <4>1. pc = "fetching" /\ UNCHANGED <<i, packet>>
        BY <1>4, StaticFetches
      <4> QED
        BY <4>1 DEF IInv, EmptyInv, BeforeStops
    <3> QED
      BY <3>1, <3>2
  <2> QED
    BY <1>0, <1>4, <2>1, <2>2, <2>3, StaticFetches DEF TypeOK
<1>5. CASE Accept
  <2>1. params' \in Params /\ reader' \in {"none", "reading", "ended"}
        /\ first' \in {"none", "running", "ok", "failed"}
        /\ queries' \subseteq StaticQueries /\ pc' \in PCs
    <3>1. CASE pc' = "refused" /\ UNCHANGED <<params, reader, first, queries>>
      BY <1>0, <3>1 DEF TypeOK, PCs, Closed
    <3>2. CASE \E c, s, z \in BOOLEAN :
                 /\ params' = [static |-> s, chunkify |-> c, compress |-> z]
                 /\ reader' = "reading" /\ first' = "running"
                 /\ pc' = IF s THEN "fetching" ELSE "await"
                 /\ queries' = IF s THEN StaticQueries ELSE {}
      BY <3>2 DEF Params, PCs
    <3> QED
      BY <1>5, <3>1, <3>2, Accepted
  <2> QED
    BY <1>0, <1>5, <2>1 DEF TypeOK, Accept, database, packets, results, stopCount
<1>6. CASE StaticFetched \/ PacketsSent \/ FillPacket
  <2>1. packet' \in [1 .. Packet -> 0 .. stopCount] /\ i' \in 0 .. stopCount
    <3>1. CASE FillPacket
      <4>1. i \in 0 .. (stopCount - 1)
        BY <1>0, <1>1, <3>1 DEF TypeOK, FillPacket
      <4>2. i % Packet \in 0 .. (Packet - 1)
        BY <1>1, <4>1, Remainder
      <4> QED
        BY <1>0, <1>1, <3>1, <4>1, <4>2 DEF TypeOK, FillPacket
    <3>2. CASE StaticFetched \/ PacketsSent
      BY <1>0, <3>2 DEF TypeOK, StaticFetched, PacketsSent, packets
    <3> QED
      BY <1>6, <3>1, <3>2
  <2>2. UNCHANGED <<static, stopCount>>
    BY <1>6, CountStays DEF StaticFetched, PacketsSent, FillPacket, static
  <2> QED
    BY <1>0, <1>6, <2>1, <2>2 DEF TypeOK, StaticFetched, PacketsSent, FillPacket, static,
          database, Deferred, PCs, Closed, packets, results
<1>7. CASE SendTotals \/ SendStops \/ SendPacket \/ SendRoutes \/ SendShapes
  <2>1. page' \in Store /\ writeErr' \in BOOLEAN /\ pc' \in PCs
    <3>1. CASE SendTotals
      BY <1>0, <3>1, TotalsReach, StoreStays DEF TypeOK, Reaches, PCs, Closed
    <3>2. CASE SendStops
      BY <1>0, <1>1, <3>2, StopsReach, StoreStays, TableIsSequence
         DEF TypeOK, Reaches, PCs, Closed
    <3>3. CASE SendPacket
      BY <1>0, <3>3, PacketReaches, StoreStays, PacketIsSequence
         DEF TypeOK, Reaches, PCs, Closed
    <3>4. CASE SendRoutes
      <4>1. rows["routes"] \in Nat
        BY <1>0 DEF TypeOK, StaticQueries
      <4> QED
        BY <1>0, <3>4, <4>1, RoutesReach, StoreStays DEF TypeOK, Reaches, PCs, Closed
    <3>5. CASE SendShapes
      <4>1. Lines(rows["shapes"]) \in Seq(Nat)
        BY <1>0, LinesAreSequence DEF TypeOK, StaticQueries
      <4> QED
        BY <1>0, <3>5, <4>1, ShapesReach, StoreStays DEF TypeOK, Reaches, PCs, Closed
    <3> QED
      BY <1>7, <3>1, <3>2, <3>3, <3>4, <3>5
  <2>2. ctxDone' \in BOOLEAN
    BY <1>7 DEF SendTotals, SendStops, SendPacket, SendRoutes, SendShapes, Deferred
  <2>3. i' \in 0 .. stopCount
    <3>1. i \in 0 .. stopCount
      BY <1>0 DEF TypeOK
    <3> QED
      BY <1>1, <1>7, <3>1 DEF SendTotals, SendStops, SendPacket, SendRoutes, SendShapes, packets
  <2>4. UNCHANGED <<static, packet>>
    BY <1>7 DEF SendTotals, SendStops, SendPacket, SendRoutes, SendShapes, packets
  <2>5. UNCHANGED <<rows, short, stopCount>>
    BY <2>4, CountStays DEF static
  <2> QED
    BY <1>0, <2>1, <2>2, <2>3, <2>4, <2>5 DEF TypeOK, static, database
<1>8. CASE Quiet
  <2>1. /\ pc' \in PCs /\ faults' \in 0 .. MaxFaults /\ vehicles' \in Nat
        /\ tick' \in BOOLEAN /\ UNCHANGED <<loop, writeErr, ctxDone, page>>
    <3>1. CASE Await \/ Wake \/ Leave
      BY <1>0, <3>1 DEF TypeOK, Await, Wake, Leave, PCs, Closed
    <3>2. CASE Poll
      BY <1>0, <3>2 DEF TypeOK, Poll, QueryFails, PCs, Closed
    <3> QED
      BY <1>8, <3>1, <3>2 DEF Quiet
  <2>2. UNCHANGED <<rows, short, stopCount>>
    BY <2>1, CountStays DEF loop
  <2> QED
    BY <1>0, <2>1, <2>2 DEF TypeOK, loop, database, packets
<1>9. CASE SendFirst \/ Push
  <2>1. page' \in Store /\ writeErr' \in BOOLEAN /\ pc' \in PCs
    <3>1. CASE SendFirst
      BY <1>0, <3>1, FirstReach, StoreStays DEF TypeOK, Reaches, PCs, Closed
    <3>2. CASE Push
      BY <1>0, <3>2, PushReaches, StoreStays DEF TypeOK, Reaches, PCs, Closed
    <3> QED
      BY <1>9, <3>1, <3>2
  <2>2. ctxDone' \in BOOLEAN /\ UNCHANGED <<loop, faults, vehicles, tick>>
    BY <1>0, <1>9 DEF TypeOK, SendFirst, Push, Deferred
  <2>3. UNCHANGED <<rows, short, stopCount>>
    BY <2>2, CountStays DEF loop
  <2> QED
    BY <1>0, <2>1, <2>2, <2>3 DEF TypeOK, loop, database, packets
<1> QED
  BY <1>2, <1>3, <1>4, <1>5, <1>6, <1>7, <1>8, <1>9
     DEF Next, StaticData, Vehicles, Quiet, Rest

\* A step in which the handler sends something, or nothing but moves on.
Sends == \/ SendTotals \/ SendStops \/ SendPacket \/ SendRoutes \/ SendShapes
         \/ SendFirst \/ Push
Moves == StaticFetched \/ FillPacket \/ PacketsSent \/ Quiet

(* What each kind of step leaves alone.                                    *)
LEMMA SendsKeep ==
    ASSUME Sends
    PROVE  /\ UNCHANGED <<database, faults, link, params, reader, first, queries, errored,
                         results, packet>>
           /\ ctxDone => ctxDone'
<1> USE DEF static, loop, database, packets, Deferred
<1>1. CASE SendTotals \/ SendStops
  BY <1>1 DEF SendTotals, SendStops
<1>2. CASE SendPacket
  BY <1>2 DEF SendPacket
<1>3. CASE SendRoutes \/ SendShapes
  BY <1>3 DEF SendRoutes, SendShapes
<1>4. CASE SendFirst
  BY <1>4 DEF SendFirst
<1>5. CASE Push
  BY <1>5 DEF Push
<1> QED
  BY <1>1, <1>2, <1>3, <1>4, <1>5 DEF Sends

(* What the steps of the handler without a message leave alone.            *)
LEMMA MovesKeep ==
    ASSUME Moves
    PROVE  /\ UNCHANGED <<database, link, params, reader, first, queries, errored,
                         results, writeErr, page>>
           /\ ctxDone => ctxDone'
<1> USE DEF static, loop, database, packets, Deferred
<1>1. CASE StaticFetched
  BY <1>1 DEF StaticFetched
<1>2. CASE FillPacket
  BY <1>2 DEF FillPacket
<1>3. CASE PacketsSent
  BY <1>3 DEF PacketsSent
<1>4. CASE Quiet
  BY <1>4 DEF Quiet, Await, Wake, Poll, Leave
<1> QED
  BY <1>1, <1>2, <1>3, <1>4 DEF Moves

(* What the peer, the ticker and the other goroutines leave alone.         *)
LEMMA WorldKeeps ==
    ASSUME World
    PROVE  /\ UNCHANGED <<size, results, queries, errored, writeErr, pc, params, i, packet,
                         page>>
           /\ ctxDone => ctxDone'
           /\ link' = "up" => link = "up"
  BY DEF World, Traffic, PeerGone, Ticks, ReadFails, FirstFetch, Rest,
         vars, database, fetches, packets

(* Every step is of the world, of a static query, the first, one with a    *)
(* message, or without.                                                    *)
LEMMA NextSteps == Next => World \/ StaticFetch \/ Accept \/ Sends \/ Moves
  BY DEF Next, StaticData, Vehicles, World, Sends, Moves, Quiet

(* A failed write is remembered only of a peer that is gone.               *)
LEMMA LinkStep == ASSUME IInv, [Next]_vars PROVE LinkInv'
<1>0. TypeOK /\ LinkInv
  BY DEF IInv
<1>1. CASE UNCHANGED vars
  BY <1>0, <1>1 DEF LinkInv, vars
<1>2. CASE World
  BY <1>0, <1>2, WorldKeeps DEF LinkInv, TypeOK, World, Traffic, PeerGone, Ticks, ReadFails,
                               FirstFetch, Rest, vars
<1>6. CASE StaticFetch
  BY <1>0, <1>6, StaticFetches DEF LinkInv
<1>3. CASE Accept
  BY <1>0, <1>3 DEF LinkInv, Accept
<1>4. CASE Moves
  BY <1>0, <1>4, MovesKeep DEF LinkInv
<1>5. CASE Sends
  <2>1. writeErr' = writeErr \/ link = "gone"
    BY <1>0, <1>5, TotalsReach, StopsReach, PacketReaches, RoutesReach, ShapesReach,
       FirstReach, PushReaches DEF Sends, Reaches
  <2> QED
    BY <1>0, <1>5, <2>1, SendsKeep DEF LinkInv
<1> QED
  BY <1>1, <1>2, <1>3, <1>4, <1>5, <1>6, NextSteps

(* Where the handler is when it has heard of the first vehicles, and what  *)
(* the page has.                                                           *)
LEMMA FirstStep == ASSUME IInv, [Next]_vars PROVE FirstInv'
<1>0. TypeOK /\ LinkInv /\ FirstInv
  BY DEF IInv
<1> USE DEF FirstInv, NullOnlyOnFailure, Fetched, Unheard
<1>1. CASE UNCHANGED vars
  BY <1>0, <1>1 DEF vars, fetches
<1>2. CASE World
  <2>1. CASE FirstFetch
    BY <1>0, <1>2, <2>1, WorldKeeps DEF FirstFetch
  <2>2. CASE ~FirstFetch
    <3>1. first' = first
      BY <1>2, <2>2 DEF World, Traffic, PeerGone, Ticks, ReadFails, Rest, vars, fetches
    <3> QED
      BY <1>0, <1>2, <3>1, WorldKeeps
  <2> QED
    BY <2>1, <2>2
<1>6. CASE StaticFetch
  <2>1. UNCHANGED <<first, pc, ctxDone, page>>
    BY <1>6, StaticFetches
  <2> QED
    BY <1>0, <2>1
<1>3. CASE Accept
  <2>1. pc = "request" /\ page' = page /\ ctxDone' = ctxDone
    BY <1>3 DEF Accept
  <2>2. page.heard = "nothing"
    BY <1>0, <2>1 DEF PCs
  <2>3. CASE pc' = "refused" /\ UNCHANGED first
    BY <1>0, <2>1, <2>2, <2>3
  <2>4. CASE pc' \in {"fetching", "await"} /\ first' = "running"
    BY <1>0, <2>1, <2>2, <2>4
  <2> QED
    BY <1>3, <2>3, <2>4, Accepted
<1>4. CASE Moves
  <2>1. /\ pc \notin {"request", "refused"}
        /\ pc' \in Fetched => pc \in Fetched \/ first # "running"
        /\ pc' \in Unheard => pc \in Unheard
        /\ pc' \in PCs
    BY <1>4 DEF Moves, Quiet, StaticFetched, FillPacket, PacketsSent, Await, Wake, Poll,
                Leave, PCs, Closed
  <2>2. UNCHANGED <<first, page>> /\ (ctxDone => ctxDone')
    BY <1>4, MovesKeep
  <2> HIDE DEF Fetched, Unheard
  <2> QED
    BY <1>0, <2>1, <2>2
<1>5. CASE Sends
  <2>0. UNCHANGED first /\ (ctxDone => ctxDone')
    BY <1>5, SendsKeep
  <2>1. CASE SendTotals \/ SendStops \/ SendPacket \/ SendRoutes \/ SendShapes
    <3>1. pc \in {"totals", "stops", "routes", "shapes"}
      BY <2>1 DEF SendTotals, SendStops, SendPacket, SendRoutes, SendShapes
    <3>2. pc' \in {"stops", "routes", "shapes", "await", "done"}
      BY <1>0, <2>1, TotalsReach, StopsReach, PacketReaches, RoutesReach, ShapesReach
         DEF Reaches
    <3>3. page'.heard = page.heard
      BY <1>0, <2>1, TotalsReach, StopsReach, PacketReaches, RoutesReach, ShapesReach
         DEF Reaches, TypeOK, Store
    <3>4. page.heard = "nothing"
      BY <1>0, <3>1 DEF PCs
    <3> QED
      BY <1>0, <2>0, <3>1, <3>2, <3>3, <3>4
  <2>2. CASE SendFirst
    <3>1. pc = "vehicles" /\ first \notin {"none", "running"}
      BY <1>0, <2>2 DEF SendFirst
    <3>2. pc' \in {"select", "done"}
      BY <1>0, <2>2, FirstReach DEF Reaches
    <3>3. page'.heard = "null" => first = "failed"
      <4>1. page.heard = "nothing"
        BY <1>0, <3>1 DEF PCs
      <4>2. first = "ok" => page'.heard # "null"
        BY <1>0, <2>2, <4>1, FirstReach DEF Reaches, TypeOK, Store
      <4> QED
        BY <1>0, <3>1, <4>2 DEF TypeOK
    <3> QED
      BY <1>0, <2>0, <3>1, <3>2, <3>3
  <2>3. CASE Push
    <3>1. pc = "push" /\ first \notin {"none", "running"}
      BY <1>0, <2>3 DEF Push
    <3>2. pc' = "select"
      BY <1>0, <2>3, PushReaches DEF Reaches
    <3>3. page'.heard \in {"list", page.heard}
      BY <1>0, <2>3, PushReaches DEF Reaches, TypeOK, Store
    <3> QED
      BY <1>0, <2>0, <3>1, <3>2, <3>3
  <2> QED
    BY <1>5, <2>1, <2>2, <2>3 DEF Sends
<1> QED
  BY <1>1, <1>2, <1>3, <1>4, <1>5, <1>6, NextSteps

(* No static query fails twice.                                            *)
LEMMA ErroredStep == ASSUME IInv, [Next]_vars PROVE ErroredInv'
<1>0. TypeOK /\ ErroredInv
  BY DEF IInv
<1>1. IsFiniteSet(StaticQueries) /\ Cardinality(StaticQueries) <= 3
  BY ThreeElements DEF StaticQueries
<1>2. CASE StaticFetch
  <2>1. PICK q \in queries : queries' = queries \ {q}
    BY <1>2, StaticFetches
  <2>2. IsFiniteSet(queries)
    BY <1>0, <1>1, FS_Subset DEF TypeOK
  <2>3. Cardinality(queries) \in Nat /\ Cardinality(queries') = Cardinality(queries) - 1
    BY <2>1, <2>2, FS_RemoveElement, FS_CardinalityType
  <2>4. errored' \in {errored, errored + 1} /\ pc' = pc
    BY <1>2, StaticFetches
  <2>5. pc # "request"
    BY <1>2, StaticFetches
  <2> QED
    BY <1>0, <2>3, <2>4, <2>5 DEF ErroredInv, TypeOK
<1>3. CASE Accept
  <2>1. queries = {} /\ errored = 0 /\ errored' = 0 /\ pc' # "request"
    <3>1. pc = "request" /\ errored' = errored
      BY <1>3 DEF Accept
    <3> QED
      BY <1>0, <1>3, <3>1, Accepted DEF ErroredInv
  <2>2. queries' \in {{}, StaticQueries}
    BY <1>3, <2>1, Accepted
  <2>3. Cardinality({}) = 0 /\ Cardinality(StaticQueries) \in Nat
    BY <1>1, FS_EmptySet, FS_CardinalityType
  <2>4. Cardinality(queries') \in 0 .. 3
    BY <1>1, <2>2, <2>3
  <2> QED
    BY <2>1, <2>4 DEF ErroredInv
<1>4. CASE Sends \/ Moves
  <2>1. UNCHANGED <<queries, errored>>
    BY <1>4, SendsKeep, MovesKeep
  <2>2. pc # "request"
    BY <1>4 DEF Sends, Moves, Quiet, SendTotals, SendStops, SendPacket, SendRoutes,
                SendShapes, SendFirst, Push, StaticFetched, FillPacket, PacketsSent,
                Await, Wake, Poll, Leave
  <2>3. pc' # "request"
    <3>1. CASE Sends
      BY <1>0, <3>1, TotalsReach, StopsReach, PacketReaches, RoutesReach, ShapesReach,
         FirstReach, PushReaches DEF Sends, Reaches, IInv
    <3>2. CASE Moves
      BY <3>2, <2>2 DEF Moves, Quiet, StaticFetched, FillPacket, PacketsSent, Await, Wake,
                        Poll, Leave
    <3> QED
      BY <1>4, <3>1, <3>2
  <2> QED
    BY <1>0, <2>1, <2>3 DEF ErroredInv
<1>5. CASE \/ Traffic \/ PeerGone \/ Ticks \/ ReadFails \/ FirstFetch \/ Rest
           \/ UNCHANGED vars
  <2>1. UNCHANGED <<queries, errored, pc>>
    BY <1>5 DEF Traffic, PeerGone, Ticks, ReadFails, FirstFetch, Rest, vars, fetches
  <2> QED
    BY <1>0, <2>1 DEF ErroredInv
<1> QED
  BY <1>2, <1>3, <1>4, <1>5, NextSteps DEF World

(* The loop over the stops begins at the first one, with an empty packet.  *)
LEMMA EmptyStep == ASSUME IInv, [Next]_vars PROVE EmptyInv'
<1>0. TypeOK /\ LinkInv /\ EmptyInv
  BY DEF IInv
<1> USE DEF EmptyInv, BeforeStops
<1>1. CASE UNCHANGED vars \/ World \/ StaticFetch
  BY <1>0, <1>1, WorldKeeps, StaticFetches DEF vars, packets
<1>2. CASE Accept
  BY <1>0, <1>2 DEF Accept, packets
<1>3. CASE StaticFetched
  BY <1>0, <1>3 DEF StaticFetched, packets
<1>4. CASE FillPacket \/ PacketsSent \/ Quiet
  BY <1>4 DEF Quiet, FillPacket, PacketsSent, Await, Wake, Poll, Leave
<1>5. CASE Sends
  <2>1. pc' \notin BeforeStops
    BY <1>0, <1>5, TotalsReach, StopsReach, PacketReaches, RoutesReach, ShapesReach,
       FirstReach, PushReaches DEF Sends, Reaches
  <2> QED
    BY <2>1
<1> QED
  BY <1>1, <1>2, <1>3, <1>4, <1>5, NextSteps DEF Moves

(* The handler goes on when no query failed, with what is whole unless it  *)
(* was cut short.                                                          *)
LEMMA FetchStep == ASSUME IInv, [Next]_vars PROVE FetchInv'
<1>0. TypeOK /\ LinkInv /\ ErroredInv /\ FetchInv
  BY DEF IInv
<1> USE DEF FetchInv
<1>1. CASE UNCHANGED vars \/ World
  <2>1. UNCHANGED <<size, rows, short, queries, errored, pc, params>>
    BY <1>1, WorldKeeps DEF vars, database, fetches, results
  <2> QED
    BY <1>0, <2>1
<1>2. CASE StaticFetch
  <2>1. pc = "fetching" /\ UNCHANGED <<pc, params, size>>
    BY <1>2, StaticFetches
  <2>2. PICK q \in queries :
          /\ queries' = queries \ {q}
          /\ short' \subseteq short \cup {q}
          /\ \A p \in StaticQueries \ {q} : rows'[p] = rows[p]
          /\ errored' = errored /\ q \notin short' => rows'[q] = size[q]
    BY <1>2, StaticFetches
  <2>3. short \subseteq short'
    BY <1>2, StaticFetches
  <2> SUFFICES ASSUME params.static, errored' = 0,
                      NEW p \in StaticQueries \ (queries' \cup short')
               PROVE  rows'[p] = size[p]
    BY <2>1
  <2>4. errored = 0 /\ errored' = errored
    BY <1>0, <1>2, StaticFetches DEF TypeOK
  <2>5. CASE p = q
    BY <2>2, <2>4, <2>5
  <2>6. CASE p # q
    <3>1. p \in StaticQueries \ (queries \cup short)
      BY <2>2, <2>3, <2>6
    <3> QED
      BY <1>0, <2>1, <2>2, <2>4, <2>6, <3>1
  <2> QED
    BY <2>5, <2>6
<1>3. CASE Accept
  <2>1. pc = "request" /\ errored = 0 /\ queries = {} /\ UNCHANGED errored
    BY <1>0, <1>3 DEF Accept, ErroredInv
  <2>2. CASE pc' = "refused" /\ UNCHANGED queries
    BY <2>1, <2>2
  <2>3. ASSUME NEW c \in BOOLEAN, NEW s \in BOOLEAN, NEW z \in BOOLEAN,
               params' = [static |-> s, chunkify |-> c, compress |-> z],
               pc' = IF s THEN "fetching" ELSE "await",
               queries' = IF s THEN StaticQueries ELSE {}
        PROVE  FetchInv'
    <3>1. CASE s = TRUE
      BY <2>1, <2>3, <3>1
    <3>2. CASE s = FALSE
      BY <2>1, <2>3, <3>2
    <3> QED
      BY <3>1, <3>2
  <2> QED
    BY <1>3, <2>2, <2>3, Accepted
<1>4. CASE Sends \/ Moves
  <2>1. UNCHANGED <<size, rows, short, queries, errored, params>>
    BY <1>4, SendsKeep, MovesKeep DEF database, results
  <2>2. /\ pc \notin {"request", "refused", "done"}
        /\ pc = "fetching" => queries = {} /\ (errored = 0 \/ pc' = "done")
    BY <1>0, <1>4 DEF Sends, Moves, Quiet, SendTotals, SendStops, SendPacket, SendRoutes,
                SendShapes, SendFirst, Push, StaticFetched, FillPacket, PacketsSent,
                Await, Wake, Poll, Leave, TypeOK
  <2>3. pc' # "fetching"
    <3>1. CASE Sends
      BY <1>0, <3>1, TotalsReach, StopsReach, PacketReaches, RoutesReach, ShapesReach,
         FirstReach, PushReaches DEF Sends, Reaches
    <3>2. CASE Moves
      BY <3>2 DEF Moves, Quiet, StaticFetched, FillPacket, PacketsSent, Await, Wake,
                  Poll, Leave
    <3> QED
      BY <1>4, <3>1, <3>2
  <2> QED
    BY <1>0, <2>1, <2>2, <2>3
<1> QED
  BY <1>1, <1>2, <1>3, <1>4, NextSteps
-----------------------------------------------------------------------------
(* What the page shows *)

(* Whether the page has all stops depends on these variables only.         *)
LEMMA StopsFrame ==
    ASSUME UNCHANGED <<stopCount, params>>, page'.stops = page.stops
    PROVE  StopsWhole' = StopsWhole
  BY DEF StopsWhole, InPackets

(* And so does what is known of the packet.                                *)
LEMMA PacketFrame ==
    ASSUME UNCHANGED <<stopCount, i, packet>>, page'.stops = page.stops
    PROVE  PacketInv' = PacketInv
  BY DEF PacketInv, Stored, IsBoundary

(* The packet goes out with everything put into it; the stop at hand is    *)
(* not one of those.                                                       *)
LEMMA PacketSent ==
    ASSUME TypeOK, PacketInv, i < stopCount, AtBoundary,
           page'.stops = page.stops \o packet, i' = i + 1, UNCHANGED <<stopCount, packet>>
    PROVE  PacketInv'
<1>1. /\ i \in Nat /\ stopCount \in Nat /\ Packet \in Nat \ {0}
      /\ page.stops \in Seq(Nat)
  BY SessionAssumption, CountIsNat DEF TypeOK, Store
<1>2. Stored' = Stored
  <2>1. \A n \in 1 .. i' : n = i + 1 \/ n \in 1 .. i
    BY <1>1
  <2>2. 1 .. i \subseteq 1 .. i'
    BY <1>1
  <2>3. (i + 1) - 1 = i
    BY <1>1
  <2> QED
    BY <2>1, <2>2, <2>3 DEF Stored, AtBoundary, IsBoundary
<1>3. ToSet(page'.stops) = ToSet(page.stops) \cup {packet[k] : k \in 1 .. Packet}
  BY <1>1, PacketIsSequence, ElementsOfConcat
<1>4. Stored' \subseteq ToSet(page'.stops)
  <2> SUFFICES ASSUME NEW n \in Stored, n \notin ToSet(page.stops)
               PROVE  n \in {packet[k] : k \in 1 .. Packet}
    BY <1>2, <1>3
  <2>1. packet[((n - 1) % Packet) + 1] = n
    BY DEF PacketInv
  <2>2. n - 1 \in Nat
    BY DEF Stored
  <2>3. (n - 1) % Packet \in 0 .. (Packet - 1)
    BY <1>1, <2>2, Remainder
  <2>4. ((n - 1) % Packet) + 1 \in 1 .. Packet
    BY <1>1, <2>3
  <2> QED
    BY <2>1, <2>4
<1>5. \A k \in 1 .. Packet : packet'[k] = 0 \/ packet'[k] \in Stored'
  BY <1>2 DEF PacketInv
<1>6. ToSet(page'.stops) \subseteq Stored' \cup {0}
  BY <1>2, <1>3 DEF PacketInv
<1> QED
  BY <1>4, <1>5, <1>6 DEF PacketInv

(* A stop is put into the packet at a place whose stop was sent: between   *)
(* two stops for the same place lies a boundary.                           *)
LEMMA PacketFilled ==
    ASSUME TypeOK, PacketInv, FillPacket
    PROVE  PacketInv'
<1>1. /\ i \in Nat /\ stopCount \in Nat /\ Packet \in Nat \ {0}
      /\ packet \in [1 .. Packet -> 0 .. stopCount]
  BY SessionAssumption, CountIsNat DEF TypeOK
<1>2. /\ i' = i + 1 /\ ~IsBoundary(i) /\ UNCHANGED <<stopCount, page>>
      /\ packet' = [packet EXCEPT ![(i % Packet) + 1] = i + 1]
  BY CountStays DEF FillPacket, AtBoundary, static
<1>3. Stored' = Stored \cup {i + 1}
  <2>1. \A n : n \in 1 .. (i + 1) <=> n = i + 1 \/ n \in 1 .. i
    BY <1>1
  <2>2. (i + 1) - 1 = i
    BY <1>1
  <2> QED
    BY <1>2, <2>1, <2>2 DEF Stored, IsBoundary
<1>4. \A k \in 1 .. Packet : packet'[k] = 0 \/ packet'[k] \in Stored'
  BY <1>1, <1>2, <1>3 DEF PacketInv
<1>5. ToSet(page'.stops) \subseteq Stored' \cup {0}
  BY <1>2, <1>3 DEF PacketInv
<1>6. ASSUME NEW n \in Stored' \ ToSet(page'.stops)
      PROVE  /\ packet'[((n - 1) % Packet) + 1] = n
             /\ \A b \in n .. i : ~IsBoundary(b)
  <2>0. i % Packet \in 0 .. (Packet - 1)
    BY <1>1, Remainder
  <2>1. CASE n = i + 1
    <3>1. n - 1 = i /\ n .. i = {}
      BY <1>1, <2>1
    <3>2. (i % Packet) + 1 \in 1 .. Packet
      BY <1>1, <2>0
    <3> QED
      BY <1>1, <1>2, <2>1, <3>1, <3>2
  <2>2. CASE n # i + 1
    <3>1. n \in Stored \ ToSet(page.stops)
      BY <1>2, <1>3, <2>2
    <3>2. /\ packet[((n - 1) % Packet) + 1] = n
          /\ \A b \in n .. (i - 1) : ~IsBoundary(b)
      BY <3>1 DEF PacketInv
    <3>3. n \in 1 .. i
      BY <3>1 DEF Stored
    <3>4. \A b \in n .. i : ~IsBoundary(b)
      <4>1. \A b \in n .. i : b = i \/ b \in n .. (i - 1)
        BY <1>1, <3>3
      <4> QED
        BY <1>2, <3>2, <4>1
    <3>5. (n - 1) % Packet # i % Packet
      <4> SUFFICES ASSUME (n - 1) % Packet = i % Packet PROVE FALSE
        OBVIOUS
      <4>1. i % Packet # 0
        BY <1>2 DEF IsBoundary
      <4>2. n - 1 \in Nat /\ n - 1 < i
        BY <1>1, <3>3
      <4>3. PICK b \in ((n - 1) + 1) .. (i - 1) : b % Packet = 0
        BY <1>1, <4>1, <4>2, MultipleBetween
      <4>4. b \in n .. (i - 1)
        BY <3>3
      <4> QED
        BY <3>2, <4>3, <4>4 DEF IsBoundary
    <3>6. (n - 1) % Packet \in 0 .. (Packet - 1)
      <4>1. n - 1 \in Nat
        BY <3>3
      <4> QED
        BY <1>1, <4>1, Remainder
    <3>7. ((n - 1) % Packet) + 1 # (i % Packet) + 1
      BY <2>0, <3>5, <3>6
    <3> QED
      BY <1>1, <1>2, <3>2, <3>4, <3>6, <3>7
  <2> QED
    BY <2>1, <2>2
<1>7. \A n \in Stored' \ ToSet(page'.stops) :
        /\ packet'[((n - 1) % Packet) + 1] = n
        /\ \A b \in n .. (i' - 1) : ~IsBoundary(b)'
  <2>1. i' - 1 = i
    BY <1>1, <1>2
  <2>2. \A b : IsBoundary(b)' = IsBoundary(b)
    BY <1>2 DEF IsBoundary
  <2> QED
    BY <1>6, <2>1, <2>2
<1> QED
  BY <1>4, <1>5, <1>7 DEF PacketInv

(* At the end of the loop every stop of a packet was sent.                 *)
LEMMA PacketsComplete ==
    ASSUME TypeOK, PacketInv, i = stopCount
    PROVE  ToSet(page.stops) \ {0} = InPackets
<1>1. stopCount \in Nat
  BY CountIsNat
<1>2. Stored = InPackets
  <2>1. \A n \in 1 .. stopCount : n - 1 = stopCount - 1 <=> n = stopCount
    BY <1>1
  <2> QED
    BY <2>1 DEF Stored, InPackets, IsBoundary
<1>3. 0 \notin Stored
  BY DEF Stored
<1>4. Stored \subseteq ToSet(page.stops)
  <2> SUFFICES ASSUME NEW n \in Stored, n \notin ToSet(page.stops) PROVE FALSE
    OBVIOUS
  <2>1. n \in 1 .. stopCount /\ n - 1 # stopCount - 1
    BY DEF Stored, IsBoundary
  <2>2. stopCount - 1 \in n .. (i - 1)
    BY <1>1, <2>1
  <2>3. ~IsBoundary(stopCount - 1)
    BY <2>2 DEF PacketInv
  <2> QED
    BY <2>3 DEF IsBoundary
<1> QED
  BY <1>2, <1>3, <1>4 DEF PacketInv

(* As long as the peer is there, what the handler went past has reached    *)
(* the page.                                                               *)
LEMMA DeliveredStep == ASSUME IInv, [Next]_vars, link' = "up" PROVE Delivered'
<1> USE DEF BeforeStops, BeforeShapes, AfterStops, AfterRoutes, AfterShapes
<1>0. TypeOK /\ LinkInv /\ EmptyInv
  BY DEF IInv
<1>1. CASE UNCHANGED vars \/ World
  <2>1. link = "up" /\ UNCHANGED <<rows, stopCount, pc, params, i, packet, page>>
    BY <1>1, WorldKeeps, CountStays DEF vars, fetches, packets
  <2>2. StopsWhole' = StopsWhole /\ PacketInv' = PacketInv
    BY <2>1, StopsFrame, PacketFrame
  <2> QED
    BY <2>1, <2>2 DEF IInv, Delivered
<1>6. CASE StaticFetch
  <2>1. link = "up" /\ pc = "fetching" /\ UNCHANGED <<pc, page>>
    BY <1>6, StaticFetches
  <2> QED
    BY <2>1 DEF IInv, Delivered
<1>2. link = "up" \/ World
  BY <1>1, <1>6, SendsKeep, MovesKeep, NextSteps, StaticFetches DEF Accept, vars
<1>3. CASE link = "up" /\ Accept
  <2>1. pc = "request" /\ UNCHANGED <<rows, page>>
    BY <1>3 DEF Accept, results
  <2>2. page.stops = << >> /\ page.shapes = << >>
    BY <1>3, <2>1 DEF IInv, Delivered
  <2>3. pc' \in {"refused", "fetching"} \/ (pc' = "await" /\ ~params'.static)
    <3>1. ASSUME NEW c \in BOOLEAN, NEW s \in BOOLEAN, NEW z \in BOOLEAN,
                 params' = [static |-> s, chunkify |-> c, compress |-> z],
                 pc' = IF s THEN "fetching" ELSE "await"
          PROVE  pc' = "fetching" \/ (pc' = "await" /\ ~params'.static)
      BY <3>1
    <3> QED
      BY <1>3, <3>1, Accepted
  <2> QED
    BY <2>1, <2>2, <2>3 DEF Delivered
<1>4. CASE link = "up" /\ Moves
  <2>0. Delivered /\ UNCHANGED <<rows, stopCount, params, page>>
    BY <1>4, MovesKeep, CountStays DEF IInv
  <2>1. StopsWhole' = StopsWhole
    BY <2>0, StopsFrame
  <2>2. CASE StaticFetched
    <3>1. pc = "fetching" /\ pc' \in {"totals", "done"}
      BY <2>2 DEF StaticFetched
    <3> QED
      BY <2>0, <3>1 DEF Delivered
  <2>3. CASE FillPacket
    <3>1. pc = "stops" /\ pc' = pc /\ params.chunkify
      BY <2>3 DEF FillPacket
    <3>2. params.static => PacketInv'
      BY <1>0, <2>0, <2>3, <3>1, PacketFilled DEF Delivered
    <3> QED
      BY <2>0, <3>1, <3>2 DEF Delivered
  <2>4. CASE PacketsSent
    <3>1. pc = "stops" /\ pc' = "routes" /\ params.chunkify /\ i = stopCount
      BY <2>4 DEF PacketsSent
    <3>2. params.static => StopsWhole
      BY <1>0, <2>0, <3>1, PacketsComplete DEF Delivered, StopsWhole
    <3> QED
      BY <2>0, <2>1, <3>1, <3>2 DEF Delivered
  <2>5. CASE Quiet
    <3>1. /\ pc \in AfterShapes
          /\ pc' \in AfterShapes \cup {"done"}
      BY <2>5 DEF Quiet, Await, Wake, Poll, Leave
    <3> QED
      BY <2>0, <2>1, <3>1 DEF Delivered
  <2> QED
    BY <1>4, <2>2, <2>3, <2>4, <2>5 DEF Moves
<1>5. CASE link = "up" /\ Sends
  <2>0. Delivered /\ UNCHANGED <<rows, stopCount, params, packet>>
    BY <1>5, SendsKeep, CountStays DEF IInv
  <2>1. page \in Store
    BY <1>0 DEF TypeOK
  <2>2. CASE SendTotals
    <3>1. pc = "totals" /\ i' = i /\ pc' = "stops" /\ page' = [page EXCEPT !.totals = TRUE]
      BY <1>0, <1>5, <2>2, TotalsReach DEF SendTotals, Reaches, packets
    <3>2. page'.totals /\ page'.stops = << >> /\ page'.shapes = << >>
      BY <2>0, <2>1, <3>1 DEF Delivered, Store
    <3>3. PacketInv'
      <4>1. i = 0 /\ \A k \in 1 .. Packet : packet[k] = 0
        BY <1>0, <3>1 DEF EmptyInv
      <4>2. ToSet(page'.stops) = {}
        BY <3>2 DEF ToSet
      <4>3. Stored' = {}
        BY <3>1, <4>1 DEF Stored
      <4> QED
        BY <2>0, <4>1, <4>2, <4>3 DEF PacketInv
    <3> QED
      BY <3>1, <3>2, <3>3 DEF Delivered
  <2>3. CASE SendStops
    <3>1. /\ pc = "stops" /\ ~params.chunkify /\ pc' = "routes"
          /\ page' = [page EXCEPT !.stops = @ \o [n \in 1 .. stopCount |-> n]]
      BY <1>0, <1>5, <2>3, StopsReach DEF SendStops, Reaches
    <3>2. params.static => page'.totals /\ page'.stops = [n \in 1 .. stopCount |-> n]
      <4>1. stopCount \in Nat
        BY <1>0, CountIsNat
      <4> QED
        BY <2>0, <2>1, <3>1, <4>1, TableIsSequence DEF Delivered, Store
    <3>3. page'.shapes = << >>
      BY <2>0, <2>1, <3>1 DEF Delivered, Store
    <3> QED
      BY <2>0, <3>1, <3>2, <3>3 DEF Delivered, StopsWhole
  <2>4. CASE SendPacket
    <3>1. /\ pc = "stops" /\ params.chunkify /\ pc' = "stops"
          /\ i < stopCount /\ AtBoundary /\ i' = i + 1
          /\ page' = [page EXCEPT !.stops = @ \o packet]
      BY <1>0, <1>5, <2>4, PacketReaches DEF SendPacket, Reaches
    <3>2. /\ page'.totals = page.totals /\ page'.stops = page.stops \o packet
          /\ page'.shapes = page.shapes
      BY <2>1, <3>1 DEF Store
    <3>3. params.static => PacketInv'
      BY <1>0, <2>0, <3>1, <3>2, PacketSent DEF Delivered
    <3> QED
      BY <2>0, <3>1, <3>2, <3>3 DEF Delivered
  <2>5. CASE SendRoutes \/ SendShapes
    <3>1. \/ /\ pc = "routes" /\ pc' = "shapes"
             /\ page' = [page EXCEPT !.routes = rows["routes"]]
          \/ /\ pc = "shapes" /\ pc' = "await"
             /\ page' = [page EXCEPT !.shapes = @ \o Lines(rows["shapes"])]
      BY <1>0, <1>5, <2>5, RoutesReach, ShapesReach DEF SendRoutes, SendShapes, Reaches
    <3>2. /\ page'.totals = page.totals /\ page'.stops = page.stops
          /\ pc = "routes" => page'.routes = rows["routes"] /\ page'.shapes = page.shapes
          /\ pc = "shapes" => /\ page'.routes = page.routes
                              /\ page'.shapes = page.shapes \o Lines(rows["shapes"])
      BY <2>1, <3>1 DEF Store
    <3>3. StopsWhole' = StopsWhole
      BY <2>0, <3>2, StopsFrame
    <3>4. page.shapes = << >>
      BY <2>0, <3>1 DEF Delivered
    <3>5. << >> \o Lines(rows["shapes"]) = Lines(rows["shapes"])
      BY <1>0, LinesAreSequence DEF TypeOK, StaticQueries
    <3> QED
      BY <2>0, <3>1, <3>2, <3>3, <3>4, <3>5 DEF Delivered
  <2>6. CASE SendFirst \/ Push
    <3>1. /\ pc \in {"vehicles", "push"} /\ pc' = "select"
          /\ page' \in {[page EXCEPT !.vehicles = vehicles, !.heard = "list"],
                        [page EXCEPT !.heard = "null"]}
      BY <1>0, <1>5, <2>6, FirstReach, PushReaches DEF SendFirst, Push, Reaches
    <3>2. /\ page'.totals = page.totals /\ page'.stops = page.stops
          /\ page'.routes = page.routes /\ page'.shapes = page.shapes
      BY <2>1, <3>1 DEF Store
    <3>3. StopsWhole' = StopsWhole
      BY <2>0, <3>2, StopsFrame
    <3> QED
      BY <2>0, <3>1, <3>2, <3>3 DEF Delivered
  <2> QED
    BY <1>5, <2>2, <2>3, <2>4, <2>5, <2>6 DEF Sends
<1> QED
  BY <1>1, <1>2, <1>3, <1>4, <1>5, <1>6, NextSteps

(* A page hears of vehicles only after everything else, and what it has    *)
(* then stays.                                                             *)
LEMMA StaticStep == ASSUME IInv, [Next]_vars PROVE StaticFirst'
<1>0. TypeOK /\ LinkInv /\ FirstInv /\ StaticFirst /\ page \in Store
  BY DEF IInv, TypeOK
<1>1. CASE UNCHANGED vars \/ World \/ Moves
  <2>1. UNCHANGED <<size, rows, short, stopCount, params, page>>
    BY <1>1, WorldKeeps, MovesKeep, CountStays DEF vars, database, fetches
  <2> QED
    BY <1>0, <2>1 DEF StaticFirst, InPackets
<1>5. CASE StaticFetch
  <2>1. pc = "fetching" /\ page' = page
    BY <1>5, StaticFetches
  <2>2. page'.heard = "nothing"
    BY <1>0, <2>1 DEF FirstInv, Unheard, PCs
  <2> QED
    BY <2>2 DEF StaticFirst
<1>2. CASE Accept
  <2>1. pc = "request" /\ page' = page
    BY <1>2 DEF Accept
  <2>2. page'.heard = "nothing"
    BY <1>0, <2>1 DEF FirstInv, Unheard, PCs
  <2> QED
    BY <2>2 DEF StaticFirst
<1>3. CASE SendTotals \/ SendStops \/ SendPacket \/ SendRoutes \/ SendShapes
  <2>1. pc \in Unheard
    BY <1>3 DEF SendTotals, SendStops, SendPacket, SendRoutes, SendShapes, Unheard, PCs
  <2>2. page'.heard = page.heard
    BY <1>0, <1>3, TotalsReach, StopsReach, PacketReaches, RoutesReach, ShapesReach
       DEF Reaches, Store
  <2> QED
    BY <1>0, <2>1, <2>2 DEF FirstInv, StaticFirst
<1>4. CASE SendFirst \/ Push
  <2>0. UNCHANGED <<size, rows, short, stopCount, params, link>>
    BY <1>4, SendsKeep, CountStays DEF Sends, database
  <2>1. CASE link = "gone"
    <3>1. page' = page
      BY <1>0, <1>4, <2>1, FirstReach, PushReaches DEF Reaches
    <3> QED
      BY <1>0, <2>0, <3>1 DEF StaticFirst, InPackets
  <2>2. CASE link = "up"
    <3>1. Delivered'
      BY <1>4, <2>0, <2>2, DeliveredStep DEF Next, Vehicles
    <3>2. pc' = "select"
      BY <1>0, <1>4, <2>2, FirstReach, PushReaches DEF Reaches
    <3>3. params.static => \A q \in StaticQueries \ short : rows[q] = size[q]
      <4>1. pc \in {"vehicles", "push"}
        BY <1>4 DEF SendFirst, Push
      <4> QED
        BY <4>1 DEF IInv, FetchInv
    <3> QED
      BY <2>0, <3>1, <3>2, <3>3
         DEF Delivered, StaticFirst, StopsWhole, AfterStops, AfterRoutes, AfterShapes
  <2> QED
    BY <1>0, <2>1, <2>2 DEF TypeOK
<1> QED
  BY <1>1, <1>2, <1>3, <1>4, <1>5, NextSteps DEF Sends

(* Every step preserves the inductive invariant. *)
LEMMA IInvStep == IInv /\ [Next]_vars => IInv'
  BY TypeStep, LinkStep, FirstStep, ErroredStep, FetchStep, EmptyStep, DeliveredStep,
     StaticStep
     DEF IInv

(* The invariant the safety properties below follow from. *)
THEOREM Invariance == Spec => []IInv
  BY InitIInv, IInvStep, PTL DEF Spec
-----------------------------------------------------------------------------
(* Every variable stays in its range: the loop over the stops never leaves *)
(* the table, nor its packet.                                              *)
THEOREM TypeCorrect == Spec => []TypeOK
<1>1. IInv => TypeOK
  BY DEF IInv
<1> QED
  BY <1>1, Invariance, PTL

(* For every size of the tables and of a packet, a client that hears of    *)
(* vehicles has the static data that the queries returned, once, and they  *)
(* returned all of it unless a lost connection cut them short; packets     *)
(* miss the stops at their boundaries, and no other, although one array is *)
(* sent again and again and never cleared.                                 *)
THEOREM StaticDataFirst == Spec => []StaticFirst
<1>1. IInv => StaticFirst
  BY DEF IInv
<1> QED
  BY <1>1, Invariance, PTL

(* A client is told null only in a session that is cancelled already.      *)
THEOREM NullMeansFailure == Spec => []NullOnlyOnFailure
<1>1. IInv => NullOnlyOnFailure
  BY DEF IInv, FirstInv
<1> QED
  BY <1>1, Invariance, PTL
=============================================================================
