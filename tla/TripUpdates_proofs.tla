------------------------- MODULE TripUpdates_proofs -------------------------
(***************************************************************************)
(* Proofs about TripUpdates, for all messages and any number of requests,  *)
(* commits and ids.                                                        *)
(***************************************************************************)
EXTENDS TripUpdates, TLAPS

-----------------------------------------------------------------------------
(* The rows of a message *)

\* The stop rows of a trip update under its id.
RowsOf(id, stops) == {[id |-> id, index |-> s.index, stop |-> s.stop] : s \in stops}

\* None of the rows has the id.
Fresh(id, rows) == \A x \in rows : x.id # id

(* The stop rows of a trip update read back as its stops.                  *)
LEMMA ReadBack ==
    ASSUME NEW id, NEW stops \in SUBSET Numbered
    PROVE  AsStops(RowsOf(id, stops)) = stops
<1> DEFINE row(s) == [id |-> id, index |-> s.index, stop |-> s.stop]
           back(x) == [index |-> x.index, stop |-> x.stop]
<1>1. \A s \in stops : back(row(s)) = s
    BY DEF Numbered
<1>2. AsStops({row(s) : s \in stops}) = {back(row(s)) : s \in stops}
    BY DEF AsStops
<1>3. {back(row(s)) : s \in stops} = {s : s \in stops}
    BY <1>1, Zenon
<1> HIDE DEF row, back
<1>4. AsStops({row(s) : s \in stops}) = stops
    BY <1>2, <1>3
<1> QED
    BY <1>4 DEF row, RowsOf

(* Rows under a new id add one trip update and leave the others as they    *)
(* are.                                                                    *)
LEMMA AddTrip ==
    ASSUME NEW trips, NEW stops, NEW id, NEW tu \in TripUpdate, NEW more, NEW all,
           Fresh(id, trips), Fresh(id, stops),
           more = trips \cup {[id |-> id, trip |-> tu.trip]},
           all = stops \cup RowsOf(id, tu.stops)
    PROVE  Contents(more, all) = Contents(trips, stops) \cup {tu}
<1> DEFINE new == [id |-> id, trip |-> tu.trip]
           rows == RowsOf(id, tu.stops)
           of(t, s) == [trip |-> t.trip, stops |-> StopsOf(t, s)]
<1> USE DEF Fresh
<1>1. \A x \in rows : x.id = id
    BY DEF RowsOf
<1>2. \A t \in trips : of(t, all) = of(t, stops)
    <2> TAKE t \in trips
    <2>1. {x \in all : x.id = t.id} = {x \in stops : x.id = t.id}
        BY <1>1
    <2> QED
        BY <2>1 DEF StopsOf
<1>3. of(new, all) = tu
    <2>1. {x \in all : x.id = new.id} = rows
        BY <1>1
    <2>2. tu.stops \in SUBSET Numbered
        BY DEF TripUpdate
    <2>3. AsStops(rows) = tu.stops
        BY <2>2, ReadBack
    <2>4. of(new, all) = [trip |-> tu.trip, stops |-> tu.stops]
        BY <2>1, <2>3 DEF StopsOf
    <2> QED
        BY <2>4 DEF TripUpdate
<1>4. Contents(more, all) = {of(t, all) : t \in trips} \cup {of(new, all)}
    BY DEF Contents
<1>5. Contents(trips, stops) = {of(t, stops) : t \in trips}
    BY DEF Contents
<1> HIDE DEF of, new
<1>6. {of(t, all) : t \in trips} = {of(t, stops) : t \in trips}
    BY <1>2
<1> QED
    BY <1>3, <1>4, <1>5, <1>6
-----------------------------------------------------------------------------
(* The inductive invariant *)

(* The store starts with empty tables, before any transaction.             *)
LEMMA InitIInv == Init => IInv
<1> SUFFICES ASSUME Init PROVE IInv
    OBVIOUS
<1>1. TypeOK
    BY BoundAssumption DEF Init, TypeOK
<1>2. OneWholeFeed
    BY DEF Init, OneWholeFeed, Contents, HaveParents, FeedAt
<1>3. IdsInv /\ TxInv
    BY DEF Init, IdsInv, TxInv, Waiting
<1>4. BetweenInv /\ RepliedInv /\ PanicOnlyFromEmpty
    BY DEF Init, BetweenInv, RepliedInv, PanicOnlyFromEmpty
<1> QED
    BY <1>1, <1>2, <1>3, <1>4 DEF IInv

(* The tables stay one message as long as nobody writes to them.           *)
LEMMA TablesKeep ==
    ASSUME OneWholeFeed, UNCHANGED <<tripUpdates, stopTimeUpdates, published>>
    PROVE  OneWholeFeed'
BY DEF OneWholeFeed, FeedAt, Contents, StopsOf, AsStops, HaveParents

(* A step of the writer that leaves the tables alone is nothing to a       *)
(* reader.                                                                 *)
LEMMA ReadersKeep ==
    ASSUME BetweenInv, RepliedInv, PanicOnlyFromEmpty, OneWholeFeed,
           UNCHANGED <<store, published, reader>>
    PROVE  BetweenInv' /\ RepliedInv' /\ PanicOnlyFromEmpty' /\ OneWholeFeed'
<1> USE DEF store, reader
<1>1. \A r \in Readers :
          Reply(r)' = Reply(r) /\ FeedAt(began[r])' = FeedAt(began[r])
    BY DEF Reply, Attached, FeedAt
<1>2. OneWholeFeed'
    BY TablesKeep
<1>3. BetweenInv'
    BY DEF BetweenInv, FeedAt, Older
<1>4. RepliedInv'
    BY <1>1 DEF RepliedInv, Older
<1>5. PanicOnlyFromEmpty'
    BY DEF PanicOnlyFromEmpty, FeedAt
<1> QED
    BY <1>2, <1>3, <1>4, <1>5

(* The rows of one trip update among a beginning of the table are a        *)
(* beginning of its stops.                                                 *)
LEMMA OwnBeginning ==
    ASSUME NEW whole \in SUBSET StopRow, NEW part, IsBeginning(part, whole), NEW t
    PROVE  IsBeginning(StopsOf(t, part), StopsOf(t, whole))
<1> DEFINE own(rows) == {s \in rows : s.id = t.id}
<1>1. part \subseteq whole /\ own(part) \subseteq own(whole)
    BY DEF IsBeginning
<1>2. StopsOf(t, part) \subseteq StopsOf(t, whole)
    BY <1>1 DEF AsStops, StopsOf
<1>3. ASSUME NEW s \in StopsOf(t, part), NEW u \in StopsOf(t, whole) \ StopsOf(t, part)
      PROVE  s.index <= u.index
    <2>1. PICK x \in own(part) : s = [index |-> x.index, stop |-> x.stop]
        BY DEF AsStops, StopsOf
    <2>2. PICK y \in own(whole) : u = [index |-> y.index, stop |-> y.stop]
        BY DEF AsStops, StopsOf
    <2>3. y \notin part
        BY <1>3, <2>2 DEF AsStops, StopsOf
    <2>4. x.index <= y.index
        BY <2>3 DEF IsBeginning
    <2> QED
        BY <2>1, <2>2, <2>4
<1> QED
    BY <1>2, <1>3 DEF IsBeginning

(* Every row of trip_updates stands for a trip update of the current       *)
(* message.                                                                *)
LEMMA OfTheMessage ==
    ASSUME OneWholeFeed, NEW t \in tripUpdates
    PROVE  [trip |-> t.trip, stops |-> StopsOf(t, stopTimeUpdates)] \in FeedAt(Len(published))
BY DEF OneWholeFeed, Contents

(* A first select of which any part of the rows arrives, all of them       *)
(* unless it is known as cut short, keeps the invariant.                   *)
LEMMA FirstSelect ==
    ASSUME IInv, NEW r \in Readers, NEW rows \in SUBSET tripUpdates, ReadTrips(r, rows),
           NEW cut \in SUBSET {"trips"}, "trips" \in cut \/ rows = tripUpdates,
           short' = [short EXCEPT ![r] = cut]
    PROVE  IInv'
<1> USE DEF IInv
<1>1. PICK row \in IF rows = {} THEN {NoRow} ELSE rows : head' = [head EXCEPT ![r] = row]
    BY DEF ReadTrips
<1>2. /\ rpc' = [rpc EXCEPT ![r] = "between"]
      /\ seen' = [seen EXCEPT ![r] = rows]
      /\ began' = [began EXCEPT ![r] = Len(published)]
      /\ got' = [got EXCEPT ![r] = {}]
      /\ UNCHANGED <<tripUpdates, stopTimeUpdates, nextId, wpc, feed, txTrips, txStops,
                     toInsert, pending, published, ended>>
    BY DEF ReadTrips, store, writer
<1>3. TypeOK'
    <2>1. head' \in [Readers -> TripRow \cup {NoRow}]
        BY <1>1 DEF TypeOK
    <2>2. seen' \in [Readers -> SUBSET TripRow] /\ got' \in [Readers -> SUBSET StopRow]
        BY <1>2 DEF TypeOK
    <2>3. /\ rpc' \in [Readers -> {"idle", "between", "replied", "panicked"}]
          /\ began' \in [Readers -> 0 .. Len(published)]
        BY <1>2 DEF TypeOK
    <2>4. short' \in [Readers -> SUBSET {"trips", "stops"}]
        BY DEF TypeOK
    <2> QED
        BY <1>2, <2>1, <2>2, <2>3, <2>4 DEF TypeOK
<1>4. \A q \in Readers : Waiting(q)' = IF q = r THEN rows ELSE Waiting(q)
    BY <1>2 DEF Waiting, TypeOK
<1>5. /\ \A n : FeedAt(n)' = FeedAt(n)
      /\ seen'[r] = rows /\ began'[r] = Len(published) /\ rpc'[r] = "between"
      /\ short'[r] = cut
      /\ \A q \in Readers \ {r} :
            /\ rpc'[q] = rpc[q] /\ seen'[q] = seen[q] /\ began'[q] = began[q]
            /\ got'[q] = got[q] /\ head'[q] = head[q] /\ short'[q] = short[q]
    BY <1>1, <1>2 DEF FeedAt, TypeOK
<1>6. IdsInv' /\ TxInv'
    BY <1>2, <1>4 DEF IdsInv, TxInv, Older
<1>7. OneWholeFeed'
    BY <1>2, TablesKeep
<1>8. BetweenInv'
    <2> SUFFICES ASSUME NEW q \in Readers, rpc'[q] = "between"
                 PROVE  /\ "stops" \notin short'[q]
                        /\ "trips" \in short'[q] \/ (seen'[q] = {} => FeedAt(began'[q]) = {})
                        /\ \A t \in seen'[q] : \E tu \in FeedAt(began'[q]) : tu.trip = t.trip
                        /\ \/ /\ began'[q] = Len(published)
                              /\ seen'[q] \subseteq tripUpdates
                              /\ "trips" \in short'[q] \/ seen'[q] = tripUpdates
                           \/ began'[q] < Len(published) /\ Older(seen'[q], stopTimeUpdates)
        BY <1>2 DEF BetweenInv, FeedAt, Older
    <2>1. CASE q = r
        <3>1. tripUpdates = {} => FeedAt(Len(published)) = {}
            BY DEF OneWholeFeed, Contents
        <3>2. \A t \in tripUpdates : \E tu \in FeedAt(Len(published)) : tu.trip = t.trip
            BY OfTheMessage
        <3>3. seen'[q] = rows /\ began'[q] = Len(published) /\ short'[q] = cut
            BY <1>5, <2>1
        <3>4. rows \subseteq tripUpdates /\ ("trips" \in cut \/ rows = tripUpdates)
            OBVIOUS
        <3>5. "stops" \notin cut
            OBVIOUS
        <3> QED
            BY <3>1, <3>2, <3>3, <3>4, <3>5
    <2>2. CASE q # r
        BY <1>5, <2>2 DEF BetweenInv
    <2> QED
        BY <2>1, <2>2
<1>9. RepliedInv'
    <2> SUFFICES ASSUME NEW q \in Readers, rpc'[q] = "replied"
                 PROVE  /\ began'[q] = ended[q] /\ short'[q] = {}
                               => Reply(q)' = FeedAt(began'[q])
                        /\ \A t \in seen'[q] : \E tu \in FeedAt(began'[q]) :
                            /\ tu.trip = t.trip
                            /\ CutFrom(StopsOf(t, got'[q]), tu.stops, short'[q])
        BY <1>2, <1>5 DEF RepliedInv
    <2>1. q # r
        BY <1>5
    <2>2. Reply(q)' = Reply(q)
        <3>1. \A t \in seen[q] : Attached(q, t)' = Attached(q, t)
            BY <1>5, <2>1 DEF Attached
        <3> QED
            BY <1>5, <2>1, <3>1 DEF Reply
    <2> QED
        BY <1>5, <2>1, <2>2 DEF RepliedInv
<1>10. PanicOnlyFromEmpty'
    BY <1>2, <1>5 DEF PanicOnlyFromEmpty
<1> QED
    BY <1>3, <1>6, <1>7, <1>8, <1>9, <1>10

(* A second select of which a beginning of the rows arrives, all of them   *)
(* unless it is known as cut short, keeps the invariant.                   *)
LEMMA SecondSelect ==
    ASSUME IInv, NEW r \in Readers, NEW rows \in SUBSET stopTimeUpdates, ReadStops(r, rows),
           IsBeginning(rows, stopTimeUpdates),
           short' \in [Readers -> SUBSET {"trips", "stops"}],
           NEW cut \in SUBSET {"stops"}, "stops" \in cut \/ rows = stopTimeUpdates,
           \A q \in Readers : short'[q] = IF q = r THEN short[q] \cup cut ELSE short[q]
    PROVE  IInv'
<1> USE DEF IInv
<1> DEFINE goesTo == IF seen[r] = {} /\ rows # {} THEN "panicked" ELSE "replied"
<1>1. /\ rpc[r] = "between"
      /\ rpc' = [rpc EXCEPT ![r] = goesTo]
      /\ got' = [got EXCEPT ![r] = rows]
      /\ ended' = [ended EXCEPT ![r] = Len(published)]
      /\ UNCHANGED <<tripUpdates, stopTimeUpdates, nextId, wpc, feed, txTrips, txStops,
                     toInsert, pending, published, seen, head, began>>
    BY DEF ReadStops, store, writer
<1>2. /\ got'[r] = rows /\ ended'[r] = Len(published) /\ rpc'[r] = goesTo
      /\ short'[r] = short[r] \cup cut
    BY <1>1 DEF TypeOK
<1>3. \A q \in Readers \ {r} :
          /\ rpc'[q] = rpc[q] /\ got'[q] = got[q] /\ ended'[q] = ended[q]
          /\ short'[q] = short[q]
    BY <1>1 DEF TypeOK
<1>4. \A n : FeedAt(n)' = FeedAt(n)
    BY <1>1 DEF FeedAt
<1>5. TypeOK'
    <2>1. rpc' \in [Readers -> {"idle", "between", "replied", "panicked"}]
        BY <1>1 DEF TypeOK
    <2>2. got' \in [Readers -> SUBSET StopRow] /\ ended' \in [Readers -> 0 .. Len(published)]
        BY <1>1 DEF TypeOK
    <2> QED
        BY <1>1, <2>1, <2>2 DEF TypeOK
<1>6. \A q \in Readers : Waiting(q)' = IF q = r THEN {} ELSE Waiting(q)
    BY <1>1, <1>2, <1>3 DEF Waiting
<1>7. OneWholeFeed'
    BY <1>1, TablesKeep
<1>8. IdsInv' /\ TxInv'
    BY <1>1, <1>6 DEF IdsInv, TxInv, Older
<1>9. BetweenInv'
    <2> SUFFICES ASSUME NEW q \in Readers, rpc'[q] = "between"
                 PROVE  /\ "stops" \notin short'[q]
                        /\ "trips" \in short'[q] \/ (seen[q] = {} => FeedAt(began[q]) = {})
                        /\ \A t \in seen[q] : \E tu \in FeedAt(began[q]) : tu.trip = t.trip
                        /\ \/ /\ began[q] = Len(published)
                              /\ seen[q] \subseteq tripUpdates
                              /\ "trips" \in short'[q] \/ seen[q] = tripUpdates
                           \/ began[q] < Len(published) /\ Older(seen[q], stopTimeUpdates)
        BY <1>1, <1>4 DEF BetweenInv
    <2>1. q # r
        BY <1>2
    <2> QED
        BY <1>3, <2>1 DEF BetweenInv
<1>10. RepliedInv'
    <2> SUFFICES ASSUME NEW q \in Readers, rpc'[q] = "replied"
                 PROVE  /\ began[q] = ended'[q] /\ short'[q] = {}
                               => Reply(q)' = FeedAt(began[q])
                        /\ \A t \in seen[q] : \E tu \in FeedAt(began[q]) :
                            /\ tu.trip = t.trip
                            /\ CutFrom(StopsOf(t, got'[q]), tu.stops, short'[q])
        BY <1>1, <1>4 DEF RepliedInv
    <2>1. CASE q # r
        <3>1. Reply(q)' = Reply(q)
            BY <1>1, <1>3, <2>1 DEF Reply, Attached
        <3> QED
            BY <1>3, <2>1, <3>1 DEF RepliedInv
    <2>2. CASE /\ q = r /\ began[r] = Len(published)
               /\ seen[r] \subseteq tripUpdates
               /\ "trips" \in short[r] \/ seen[r] = tripUpdates
        <3>1. ASSUME short'[r] = {} PROVE Reply(r)' = FeedAt(began[r])
            <4>1. rows = stopTimeUpdates /\ seen[r] = tripUpdates
                BY <1>2, <2>2, <3>1
            <4>2. \A t \in tripUpdates :
                      Attached(r, t)' = {s \in stopTimeUpdates : s.id = t.id}
                BY <1>1, <1>2, <4>1 DEF Attached, OneWholeFeed, HaveParents
            <4> DEFINE reply(t) == [trip |-> t.trip, stops |-> AsStops(Attached(r, t)')]
                       row(t) == [trip |-> t.trip, stops |-> StopsOf(t, stopTimeUpdates)]
            <4>3. Reply(r)' = {reply(t) : t \in tripUpdates}
                BY <1>1, <4>1 DEF Reply, AsStops
            <4>4. \A t \in tripUpdates : reply(t) = row(t)
                BY <4>2 DEF StopsOf
            <4>5. Contents(tripUpdates, stopTimeUpdates) = {row(t) : t \in tripUpdates}
                BY DEF Contents
            <4> HIDE DEF reply, row
            <4>6. Reply(r)' = Contents(tripUpdates, stopTimeUpdates)
                BY <4>3, <4>4, <4>5
            <4> QED
                BY <2>2, <4>6 DEF OneWholeFeed
        <3>2. ASSUME NEW t \in seen[r]
              PROVE  \E tu \in FeedAt(began[r]) :
                         /\ tu.trip = t.trip
                         /\ CutFrom(StopsOf(t, rows), tu.stops, short'[r])
            <4> DEFINE own(x) == StopsOf(t, x)
                       tu == [trip |-> t.trip, stops |-> own(stopTimeUpdates)]
            <4>1. tu \in FeedAt(began[r])
                BY <2>2, OfTheMessage
            <4>2. IsBeginning(own(rows), own(stopTimeUpdates))
                BY OwnBeginning DEF TypeOK
            <4>3. "stops" \notin short'[r] => own(rows) = own(stopTimeUpdates)
                BY <1>2
            <4>4. tu.trip = t.trip /\ tu.stops = own(stopTimeUpdates)
                OBVIOUS
            <4> HIDE DEF tu, own
            <4>5. CutFrom(own(rows), tu.stops, short'[r])
                BY <4>2, <4>3, <4>4 DEF CutFrom
            <4>6. \E u \in FeedAt(began[r]) :
                      u.trip = t.trip /\ CutFrom(own(rows), u.stops, short'[r])
                BY <4>1, <4>4, <4>5
            <4> QED
                BY <4>6 DEF own
        <3> QED
            BY <1>2, <2>2, <3>1, <3>2
    <2>3. CASE q = r /\ began[r] < Len(published) /\ Older(seen[r], stopTimeUpdates)
        <3>1. began[r] # ended'[r]
            BY <1>2, <2>3 DEF TypeOK
        <3>2. ASSUME NEW t \in seen[r]
              PROVE  \E tu \in FeedAt(began[r]) :
                         /\ tu.trip = t.trip
                         /\ CutFrom(StopsOf(t, rows), tu.stops, short'[r])
            <4>1. PICK tu \in FeedAt(began[r]) : tu.trip = t.trip
                BY <1>1 DEF BetweenInv
            <4>2. \A s \in stopTimeUpdates : s.id # t.id
                BY <2>3 DEF Older, TypeOK, TripRow, StopRow
            <4>3. StopsOf(t, rows) = {}
                BY <4>2 DEF AsStops, StopsOf
            <4> QED
                BY <4>1, <4>3 DEF CutFrom, IsBeginning
        <3> QED
            BY <1>2, <2>3, <3>1, <3>2
    <2> QED
        BY <1>1, <2>1, <2>2, <2>3 DEF BetweenInv
<1>11. PanicOnlyFromEmpty'
    <2> SUFFICES ASSUME NEW q \in Readers, rpc'[q] = "panicked"
                 PROVE  /\ \/ "trips" \in short'[q]
                           \/ FeedAt(began[q]) = {} /\ began[q] < ended'[q]
                        /\ \E tu \in FeedAt(ended'[q]) : tu.stops # {}
        BY <1>1, <1>4 DEF PanicOnlyFromEmpty
    <2>1. CASE q # r
        BY <1>3, <2>1 DEF PanicOnlyFromEmpty
    <2>2. CASE q = r
        <3>1. PICK s \in stopTimeUpdates : seen[r] = {}
            BY <1>2, <2>2
        <3>2. PICK t \in tripUpdates : s.id = t.id
            BY DEF OneWholeFeed, HaveParents
        <3>3. \/ "trips" \in short[r]
              \/ FeedAt(began[r]) = {} /\ began[r] < Len(published)
            BY <1>1, <3>1, <3>2 DEF BetweenInv
        <3>4. [trip |-> t.trip, stops |-> StopsOf(t, stopTimeUpdates)] \in FeedAt(Len(published))
            BY OfTheMessage
        <3>5. StopsOf(t, stopTimeUpdates) # {}
            <4>1. [index |-> s.index, stop |-> s.stop] \in StopsOf(t, stopTimeUpdates)
                BY <3>2 DEF AsStops, StopsOf
            <4> QED
                BY <4>1
        <3> QED
            BY <1>2, <2>2, <3>3, <3>4, <3>5
    <2> QED
        BY <2>1, <2>2
<1> QED
    BY <1>5, <1>7, <1>8, <1>9, <1>10, <1>11

(* Each step of the writer and of the readers keeps the invariant.         *)
LEMMA NextIInv == IInv /\ [Next]_vars => IInv'
<1> SUFFICES ASSUME IInv, [Next]_vars PROVE IInv'
    OBVIOUS
<1> USE BoundAssumption DEF IInv
<1>1. ASSUME NEW f \in Feeds, Begin(f) PROVE IInv'
    <2>1. TypeOK'
        BY <1>1, FeedsAssumption DEF Begin, store, reader, TypeOK
    <2>2. IdsInv'
        BY <1>1 DEF Begin, store, reader, IdsInv, Waiting
    <2>3. TxInv'
        BY <1>1 DEF Begin, TxInv
    <2> QED
        BY <1>1, <2>1, <2>2, <2>3, ReadersKeep DEF Begin
<1>2. CASE Delete
    <2>1. TypeOK'
        BY <1>2 DEF Delete, store, reader, TypeOK
    <2>2. IdsInv'
        BY <1>2 DEF Delete, store, reader, IdsInv, Waiting
    <2>3. TxInv'
        BY <1>2 DEF Delete, TxInv, Contents, HaveParents, Older
    <2> QED
        BY <1>2, <2>1, <2>2, <2>3, ReadersKeep DEF Delete
<1>3. CASE InsertTrip
    <2> PICK tu \in toInsert :
            /\ txTrips' = txTrips \cup {[id |-> nextId, trip |-> tu.trip]}
            /\ pending' = RowsOf(nextId, tu.stops)
            /\ toInsert' = toInsert \ {tu}
        BY <1>3 DEF InsertTrip, RowsOf
    <2>1. nextId' = nextId + 1 /\ nextId \in 1 .. MaxId
        BY <1>3 DEF InsertTrip, TypeOK
    <2>2. /\ UNCHANGED <<tripUpdates, stopTimeUpdates, wpc, feed, txStops, published, rpc,
                         seen, head, got, began, ended, short>>
          /\ pending = {} /\ wpc = "insert"
        BY <1>3 DEF InsertTrip, store, reader
    <2>3. tu \in TripUpdate /\ tu \in feed
        BY DEF TypeOK
    <2>4. TypeOK'
        <3>1. txTrips' \subseteq TripRow
            BY <2>1, <2>3 DEF TypeOK, TripRow, TripUpdate
        <3>2. pending' \subseteq StopRow
            BY <2>1, <2>3 DEF TypeOK, StopRow, TripUpdate, Numbered, RowsOf
        <3>3. nextId' \in 1 .. (MaxId + 1) /\ toInsert' \subseteq feed'
            BY <2>1, <2>2 DEF TypeOK
        <3> QED
            BY <2>2, <3>1, <3>2, <3>3 DEF TypeOK
    <2>5. IdsInv'
        <3>1. \A t \in tripUpdates : t.id \in Nat
            BY DEF TypeOK, TripRow
        <3>2. \A r \in Readers : \A t \in Waiting(r) : t.id \in Nat
            BY DEF TypeOK, TripRow, Waiting
        <3>3. \A r \in Readers : Waiting(r)' = Waiting(r)
            BY <2>2 DEF Waiting
        <3> QED
            BY <2>1, <2>2, <3>1, <3>2, <3>3 DEF IdsInv
    <2>6. TxInv'
        <3>1. \A t \in txTrips : t.id < nextId /\ t.id \in Nat
            BY <2>2 DEF TxInv, TypeOK, TripRow
        <3>2. Fresh(nextId, txTrips)
            BY <2>1, <3>1 DEF Fresh
        <3>3. Fresh(nextId, txStops)
            BY <2>2, <3>2 DEF TxInv, HaveParents, Fresh
        <3>4. Contents(txTrips, txStops) = feed \ toInsert
            BY <2>2 DEF TxInv
        <3>5. Contents(txTrips', txStops' \cup pending') = feed' \ toInsert'
            <4>1. Contents(txTrips', txStops \cup pending')
                     = Contents(txTrips, txStops) \cup {tu}
                <5>1. txStops \cup pending' = txStops \cup RowsOf(nextId, tu.stops)
                    OBVIOUS
                <5> QED
                    BY <2>3, <3>2, <3>3, <5>1, AddTrip
            <4>2. Contents(txTrips', txStops \cup pending') = (feed \ toInsert) \cup {tu}
                BY <3>4, <4>1
            <4> QED
                BY <2>2, <2>3, <4>2
        <3>6. HaveParents(txStops' \cup pending', txTrips')
            <4> SUFFICES ASSUME NEW s \in txStops' \cup pending'
                         PROVE  \E t \in txTrips' : s.id = t.id
                BY DEF HaveParents
            <4>1. CASE s \in txStops
                BY <2>2, <4>1 DEF TxInv, HaveParents
            <4>2. CASE s \in pending'
                <5>1. s.id = nextId
                    BY <4>2 DEF RowsOf
                <5>2. [id |-> nextId, trip |-> tu.trip] \in txTrips'
                    OBVIOUS
                <5> QED
                    BY <5>1, <5>2
            <4> QED
                BY <2>2, <4>1, <4>2
        <3>7. \A t \in txTrips' : t.id < nextId'
            BY <2>1, <3>1
        <3>8. Older(tripUpdates', txTrips')
            BY <2>2 DEF TxInv, IdsInv, Older
        <3>9. \A r \in Readers : Older(Waiting(r)', txTrips')
            BY <2>2 DEF TxInv, IdsInv, Older, Waiting
        <3> QED
            BY <2>2, <3>5, <3>6, <3>7, <3>8, <3>9 DEF TxInv
    <2> QED
        BY <2>2, <2>4, <2>5, <2>6, ReadersKeep DEF store, reader
<1>4. CASE InsertStop
    <2> PICK s \in pending : txStops' = txStops \cup {s} /\ pending' = pending \ {s}
        BY <1>4 DEF InsertStop
    <2>1. /\ UNCHANGED <<tripUpdates, stopTimeUpdates, nextId, wpc, feed, txTrips, toInsert,
                         published, rpc, seen, head, got, began, ended, short>>
          /\ wpc = "insert"
        BY <1>4 DEF InsertStop, store, reader
    <2>2. TypeOK'
        BY <2>1 DEF TypeOK
    <2>3. IdsInv'
        BY <2>1 DEF IdsInv, Waiting
    <2>4. TxInv'
        <3>1. txStops' \cup pending' = txStops \cup pending
            OBVIOUS
        <3> QED
            BY <2>1, <3>1 DEF TxInv, Waiting
    <2> QED
        BY <2>1, <2>2, <2>3, <2>4, ReadersKeep DEF store, reader
<1>5. CASE Commit
    <2>1. /\ tripUpdates' = txTrips /\ stopTimeUpdates' = txStops
          /\ published' = Append(published, feed) /\ wpc' = "idle"
          /\ UNCHANGED <<nextId, feed, txTrips, txStops, toInsert, pending, rpc, seen, head,
                         got, began, ended, short>>
          /\ wpc = "insert" /\ toInsert = {} /\ pending = {}
        BY <1>5 DEF Commit, reader
    <2>2. Len(published) \in Nat /\ Len(published') = Len(published) + 1
        BY <2>1 DEF TypeOK
    <2>3. \A n \in 0 .. Len(published) : FeedAt(n)' = FeedAt(n)
        BY <2>1, <2>2 DEF FeedAt, TypeOK
    <2>4. FeedAt(Len(published))' = feed
        BY <2>1, <2>2 DEF FeedAt, TypeOK
    <2>5. Contents(txTrips, txStops) = feed /\ HaveParents(txStops, txTrips)
        BY <2>1 DEF TxInv
    <2>6. TypeOK'
        <3>1. published' \in Seq(SUBSET TripUpdate)
            BY <2>1 DEF TypeOK
        <3>2. began' \in [Readers -> 0 .. Len(published')]
              /\ ended' \in [Readers -> 0 .. Len(published')]
            BY <2>1, <2>2 DEF TypeOK
        <3> QED
            BY <2>1, <3>1, <3>2 DEF TypeOK
    <2>7. OneWholeFeed'
        BY <2>1, <2>4, <2>5 DEF OneWholeFeed
    <2>8. IdsInv' /\ TxInv'
        BY <2>1 DEF IdsInv, TxInv, Waiting
    <2>9. BetweenInv'
        <3> SUFFICES ASSUME NEW r \in Readers, rpc[r] = "between"
                     PROVE  /\ "stops" \notin short[r]
                            /\ "trips" \in short[r] \/ (seen[r] = {} => FeedAt(began[r])' = {})
                            /\ \A t \in seen[r] : \E tu \in FeedAt(began[r])' : tu.trip = t.trip
                            /\ began[r] < Len(published') /\ Older(seen[r], txStops)
            BY <2>1 DEF BetweenInv
        <3>1. began[r] \in 0 .. Len(published)
            BY DEF TypeOK
        <3>2. FeedAt(began[r])' = FeedAt(began[r])
            BY <2>1, <2>3, <3>1
        <3>3. Older(seen[r], txTrips)
            BY <2>1 DEF TxInv, Waiting
        <3>4. Older(seen[r], txStops)
            BY <2>5, <3>3 DEF HaveParents, Older
        <3>5. began[r] < Len(published')
            BY <2>2, <3>1
        <3>6. /\ "stops" \notin short[r]
              /\ "trips" \in short[r] \/ (seen[r] = {} => FeedAt(began[r]) = {})
              /\ \A t \in seen[r] : \E tu \in FeedAt(began[r]) : tu.trip = t.trip
            BY DEF BetweenInv
        <3> QED
            BY <3>2, <3>4, <3>5, <3>6
    <2>10. RepliedInv'
        <3>1. \A r \in Readers :
                  Reply(r)' = Reply(r) /\ FeedAt(began[r])' = FeedAt(began[r])
            BY <2>1, <2>3 DEF Reply, Attached, TypeOK
        <3> QED
            BY <2>1, <3>1 DEF RepliedInv
    <2>11. PanicOnlyFromEmpty'
        <3>1. \A r \in Readers : /\ FeedAt(began[r])' = FeedAt(began[r])
                                 /\ FeedAt(ended[r])' = FeedAt(ended[r])
            BY <2>1, <2>3 DEF TypeOK
        <3> QED
            BY <2>1, <3>1 DEF PanicOnlyFromEmpty
    <2> QED
        BY <2>6, <2>7, <2>8, <2>9, <2>10, <2>11
<1>6. CASE Rollback
    <2>1. TypeOK'
        BY <1>6 DEF Rollback, store, reader, TypeOK
    <2>2. IdsInv' /\ TxInv'
        BY <1>6 DEF Rollback, store, reader, IdsInv, TxInv, Waiting
    <2> QED
        BY <1>6, <2>1, <2>2, ReadersKeep DEF Rollback
<1>7. ASSUME NEW r \in Readers, SelectTrips(r) PROVE IInv'
    <2>1. ReadTrips(r, tripUpdates) /\ short' = [short EXCEPT ![r] = {}]
        BY <1>7 DEF SelectTrips
    <2> QED
        BY <2>1, FirstSelect
<1>8. ASSUME NEW r \in Readers, TripsBreakOff(r) PROVE IInv'
    <2>1. PICK rows \in SUBSET tripUpdates : ReadTrips(r, rows)
        BY <1>8 DEF TripsBreakOff
    <2>2. short' = [short EXCEPT ![r] = {"trips"}]
        BY <1>8 DEF TripsBreakOff
    <2> QED
        BY <2>1, <2>2, FirstSelect
<1>9. ASSUME NEW r \in Readers, SelectStops(r) PROVE IInv'
    <2>1. ReadStops(r, stopTimeUpdates) /\ short' = short
        BY <1>9 DEF SelectStops
    <2>2. IsBeginning(stopTimeUpdates, stopTimeUpdates)
        BY DEF IsBeginning
    <2>3. \A q \in Readers : short'[q] = IF q = r THEN short[q] \cup {} ELSE short[q]
        BY <2>1
    <2>4. short' \in [Readers -> SUBSET {"trips", "stops"}]
        BY <2>1 DEF TypeOK
    <2> QED
        BY <2>1, <2>2, <2>3, <2>4, SecondSelect
<1>10. ASSUME NEW r \in Readers, StopsBreakOff(r) PROVE IInv'
    <2>1. PICK rows \in SUBSET stopTimeUpdates :
              IsBeginning(rows, stopTimeUpdates) /\ ReadStops(r, rows)
        BY <1>10 DEF StopsBreakOff
    <2>2. short' = [short EXCEPT ![r] = @ \cup {"stops"}]
        BY <1>10 DEF StopsBreakOff
    <2>3. \A q \in Readers :
              short'[q] = IF q = r THEN short[q] \cup {"stops"} ELSE short[q]
        BY <2>2 DEF TypeOK
    <2>4. short' \in [Readers -> SUBSET {"trips", "stops"}]
        BY <2>2 DEF TypeOK
    <2> QED
        BY <2>1, <2>3, <2>4, SecondSelect
<1>11. ASSUME NEW r \in Readers, ReadFails(r) PROVE IInv'
    <2>1. /\ rpc' = [rpc EXCEPT ![r] = "idle"]
          /\ UNCHANGED <<tripUpdates, stopTimeUpdates, nextId, wpc, feed, txTrips, txStops,
                         toInsert, pending, published, seen, head, got, began, ended, short>>
        BY <1>11 DEF ReadFails, store, writer
    <2>2. TypeOK'
        BY <2>1 DEF TypeOK
    <2>3. \A q \in Readers : rpc'[q] = IF q = r THEN "idle" ELSE rpc[q]
        BY <2>1 DEF TypeOK
    <2>4. \A q \in Readers : Waiting(q)' = IF q = r THEN {} ELSE Waiting(q)
        BY <2>1, <2>3 DEF Waiting
    <2>5. OneWholeFeed'
        BY <2>1 DEF OneWholeFeed, FeedAt, Contents, StopsOf, HaveParents
    <2>6. IdsInv' /\ TxInv'
        BY <2>1, <2>4 DEF IdsInv, TxInv, Older
    <2>7. BetweenInv'
        BY <2>1, <2>3 DEF BetweenInv, FeedAt
    <2>8. RepliedInv'
        <3>1. \A q \in Readers :
                  Reply(q)' = Reply(q) /\ FeedAt(began[q])' = FeedAt(began[q])
            BY <2>1 DEF Reply, Attached, FeedAt
        <3> QED
            BY <2>1, <2>3, <3>1 DEF RepliedInv
    <2>9. PanicOnlyFromEmpty'
        BY <2>1, <2>3 DEF PanicOnlyFromEmpty, FeedAt
    <2> QED
        BY <2>2, <2>5, <2>6, <2>7, <2>8, <2>9
<1>12. CASE UNCHANGED vars
    <2>1. TypeOK' /\ IdsInv' /\ TxInv'
        BY <1>12 DEF vars, TypeOK, IdsInv, TxInv, Waiting
    <2> QED
        BY <1>12, <2>1, ReadersKeep DEF vars, store, reader
<1> QED
    BY <1>1, <1>2, <1>3, <1>4, <1>5, <1>6, <1>7, <1>8, <1>9, <1>10,
       <1>11, <1>12
    DEF Next, Writer, Reader

(* The inductive invariant holds in every reachable state.                 *)
THEOREM Invariance == Spec => []IInv
BY InitIInv, NextIInv, PTL DEF Spec
-----------------------------------------------------------------------------
(* What follows from it *)

(* Every variable of the store and of the requests stays in its range.     *)
THEOREM TypeCorrect == Spec => []TypeOK
<1>1. IInv => TypeOK
    BY DEF IInv
<1> QED
    BY <1>1, Invariance, PTL

(* For all messages, the committed tables are one message as a whole.      *)
THEOREM TablesAreOneFeed == Spec => []OneWholeFeed
<1>1. IInv => OneWholeFeed
    BY DEF IInv
<1> QED
    BY <1>1, Invariance, PTL

(* A request during which nothing was committed and no connection was lost *)
(* answers the message that was current.                                   *)
THEOREM UndisturbedIsExact == Spec => []UndisturbedReadExact
<1>1. IInv => UndisturbedReadExact
    BY DEF IInv, RepliedInv, UndisturbedReadExact
<1> QED
    BY <1>1, Invariance, PTL

(* A commit between the selects and a lost connection spoil the stops of   *)
(* one trip of the reply at most; the others have theirs, none, or the     *)
(* first of them.                                                          *)
THEOREM OneTripPolluted == Spec => []OnlyFirstTripPolluted
<1>1. IInv => OnlyFirstTripPolluted
    <2> SUFFICES ASSUME IInv, NEW r \in Readers, rpc[r] = "replied", NEW t \in seen[r]
                 PROVE  \E tu \in FeedAt(began[r]) :
                            /\ tu.trip = t.trip
                            /\ t # head[r] =>
                                CutFrom(AsStops(Attached(r, t)), tu.stops, short[r])
        BY DEF OnlyFirstTripPolluted
    <2>1. PICK tu \in FeedAt(began[r]) :
              /\ tu.trip = t.trip
              /\ CutFrom(StopsOf(t, got[r]), tu.stops, short[r])
        BY DEF IInv, RepliedInv
    <2>2. t # head[r] => AsStops(Attached(r, t)) = StopsOf(t, got[r])
        BY DEF Attached, StopsOf
    <2> QED
        BY <2>1, <2>2
<1> QED
    BY <1>1, Invariance, PTL

(* A request dies of the missing first row only when its first select      *)
(* returned nothing, of an empty message or over a lost connection, and    *)
(* the message current at its second has stops.                            *)
THEOREM PanicNeedsEmpty == Spec => []PanicOnlyFromEmpty
<1>1. IInv => PanicOnlyFromEmpty
    BY DEF IInv
<1> QED
    BY <1>1, Invariance, PTL
=============================================================================
