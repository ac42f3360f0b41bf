------------------------- MODULE TestRunners_proofs -------------------------
(***************************************************************************)
(* Proofs about what the runners of tests share: the trips of StressTest,  *)
(* and the logs and lines of BrowserCapture.                               *)
(***************************************************************************)
EXTENDS StressTest, BrowserCapture, FiniteSetTheorems, SequenceTheorems, TLAPS

-----------------------------------------------------------------------------
(* StressTest, for any number of clients and trips and any capacity of the *)
(* buffer and the channel. The argument: the wait group counts the trips   *)
(* in the channel and those of clients, and every trip that was built is   *)
(* handled, or counted, or still to be flushed.                            *)

Loading == {"build", "append", "flush", "send"}
Waiting == {"wait", "collect", "done"}

LoadTyped ==
    /\ total \in 0 .. MaxTrips /\ built \in 0 .. total
    /\ loader \in {"idle", "failed", "panic"} \cup Loading \cup Waiting
    /\ partial \in [trips : [Slot -> 0 .. MaxTrips], index : 0 .. Capacity]
    /\ flushing \in [i : Nat, count : Nat, last : BOOLEAN]
    /\ channel \in Seq(Trip) /\ waitGroup \in Int
    /\ client \in [Client -> [does : {"select", "handle", "check", "left"}, trip : 0 .. MaxTrips]]
    /\ handled \subseteq Trip

Handling == {c \in Client : client[c].does = "handle"}

\* Trips are those that were built.
TripsBuilt ==
    /\ \A s \in Slot : partial.trips[s] <= built
    /\ \A i \in 1 .. Len(channel) : channel[i] <= built
    /\ \A c \in Handling : client[c].trip \in 1 .. built
    /\ \A t \in handled : t <= built

Places ==
    /\ loader = "idle" => built = 0 /\ \A c \in Client : client[c].does = "left"
    /\ loader \in {"idle", "build", "append"} => flushing.i = 0
    /\ loader \in {"flush", "send"} => flushing.count >= partial.index
    /\ loader = "send" => flushing.i \in Slot /\ partial.trips[flushing.i] # None
    /\ loader \in {"flush", "send"} /\ flushing.last => built = total
    /\ loader \in Waiting => built = total

Counted ==
    waitGroup = Len(channel) + Cardinality(Handling) + (IF loader = "send" THEN 1 ELSE 0)

\* A trip that the flush in progress, or one to come, still has to send: the
\* last one built may not be in the buffer yet.
Buffered(t) ==
    /\ loader \in Loading
    /\ \/ \E s \in Slot : flushing.i <= s /\ s < partial.index /\ partial.trips[s] = t
       \/ t = built /\ (loader = "append" \/ (loader \in {"flush", "send"} /\ ~flushing.last))

Covered ==
    loader \notin {"failed", "panic"} =>
       \A t \in 1 .. built :
          \/ t \in handled
          \/ \E i \in 1 .. Len(channel) : channel[i] = t
          \/ \E c \in Handling : client[c].trip = t
          \/ Buffered(t)

StressIInv == LoadTyped /\ TripsBuilt /\ Places /\ Counted /\ Covered /\ AllHandled

LEMMA StressInitIInv == StressInit => StressIInv
<1> SUFFICES ASSUME StressInit PROVE StressIInv
  OBVIOUS
<1> USE StressAssumption
<1>1. channel \in Seq(Trip) /\ Len(channel) = 0
  BY EmptySeq DEF StressInit
<1>2. Handling = {}
  BY DEF StressInit, Handling
<1>3. Cardinality(Handling) = 0
  BY <1>2, FS_EmptySet
<1>4. partial \in [trips : [Slot -> 0 .. MaxTrips], index : 0 .. Capacity]
  BY DEF StressInit, None
<1>5. LoadTyped
  BY <1>1, <1>4 DEF StressInit, LoadTyped, NotFlushing, None, Loading, Waiting
<1>6. TripsBuilt
  BY <1>1, <1>2 DEF StressInit, TripsBuilt, None
<1>7. Places /\ Covered /\ AllHandled
  BY DEF StressInit, Places, Covered, AllHandled, NotFlushing, Waiting
<1>8. Counted
  BY <1>1, <1>3 DEF Counted, StressInit
<1> QED
  BY <1>5, <1>6, <1>7, <1>8 DEF StressIInv

LEMMA HandlingFinite == IsFiniteSet(Handling) /\ Cardinality(Handling) \in Nat
BY StressAssumption, FS_Subset, FS_CardinalityType DEF Handling

LEMMA StartLoadIInv == StressIInv /\ StartLoad => StressIInv'
<1> SUFFICES ASSUME StressIInv, StartLoad PROVE StressIInv'
  OBVIOUS
<1> USE StressAssumption DEF StressIInv
<1>1. built = 0 /\ flushing.i = 0 /\ Handling = {} /\ loader = "idle"
  BY DEF StartLoad, Places, Handling
<1>2. PICK made \in SUBSET Client :
        /\ client' = [c \in Client |-> [does |-> IF c \in made THEN "select" ELSE "left",
                                        trip |-> None]]
        /\ loader' = IF made = Client THEN "build" ELSE "failed"
  BY DEF StartLoad
<1>3. Handling' = {}
  BY <1>2 DEF Handling
<1>4. client' \in [Client -> [does : {"select", "handle", "check", "left"}, trip : 0 .. MaxTrips]]
  BY <1>2 DEF None
<1>5. LoadTyped'
  BY <1>1, <1>2, <1>4 DEF StartLoad, LoadTyped, buffers, Trip, Loading
<1>6. TripsBuilt'
  BY <1>3 DEF TripsBuilt, StartLoad, buffers
<1>7. Places' /\ Covered' /\ AllHandled'
  BY <1>1, <1>2 DEF StartLoad, buffers, Places, Covered, AllHandled, Waiting
<1>8. Counted'
  BY <1>1, <1>2, <1>3 DEF Counted, StartLoad, buffers
<1> QED
  BY <1>5, <1>6, <1>7, <1>8

LEMMA BuildTripIInv == StressIInv /\ BuildTrip => StressIInv'
<1> SUFFICES ASSUME StressIInv, BuildTrip PROVE StressIInv'
  OBVIOUS
<1> USE StressAssumption DEF StressIInv
<1>1. /\ loader = "build" /\ built \in Nat /\ built < total
      /\ \/ built' = built + 1 /\ loader' = "append"
         \/ built' = built /\ loader' = "failed"
      /\ UNCHANGED <<total, partial, flushing, channel, waitGroup, client, handled>>
      /\ Handling' = Handling
  BY DEF BuildTrip, buffers, LoadTyped, Handling
<1>2. LoadTyped'
  BY <1>1 DEF LoadTyped, Loading
<1>3. TripsBuilt'
  <2>1. \A s \in Slot : partial.trips[s] \in Nat
    BY DEF LoadTyped
  <2>2. \A i \in 1 .. Len(channel) : channel[i] \in Nat
    BY DEF LoadTyped, Trip
  <2>3. \A t \in handled : t \in Nat
    BY DEF LoadTyped, Trip
  <2> QED
    BY <1>1, <2>1, <2>2, <2>3 DEF TripsBuilt
<1>4. Places' /\ AllHandled'
  BY <1>1 DEF Places, AllHandled, Waiting
<1>5. Counted'
  BY <1>1 DEF Counted
<1>6. Covered'
  <2>1. ASSUME NEW t \in 1 .. built, Buffered(t), loader' = "append" PROVE Buffered(t)'
    BY <1>1, <2>1 DEF Buffered, Loading
  <2>2. \A t \in 1 .. built' : t \in 1 .. built \/ t = built'
    BY <1>1
  <2>3. ASSUME NEW t \in 1 .. built', loader' = "append"
        PROVE  \/ t \in handled
               \/ \E i \in 1 .. Len(channel) : channel[i] = t
               \/ \E c \in Handling : client[c].trip = t
               \/ Buffered(t)'
    <3>1. CASE t \in 1 .. built
      BY <1>1, <2>1, <2>3, <3>1 DEF Covered
    <3>2. CASE t = built'
      BY <1>1, <2>3, <3>2 DEF Buffered, Loading
    <3> QED
      BY <2>2, <3>1, <3>2
  <2> QED
    BY <1>1, <2>3 DEF Covered
<1> QED
  BY <1>2, <1>3, <1>4, <1>5, <1>6

LEMMA AppendTripIInv == StressIInv /\ AppendTrip => StressIInv'
<1> SUFFICES ASSUME StressIInv, AppendTrip PROVE StressIInv'
  OBVIOUS
<1> USE StressAssumption DEF StressIInv
<1>1. /\ loader = "append" /\ flushing.i = 0
      /\ UNCHANGED <<total, built, channel, waitGroup, client, handled>>
      /\ Handling' = Handling
  BY DEF AppendTrip, Places, Handling
<1>2. partial.index \in 0 .. Capacity /\ partial.trips \in [Slot -> 0 .. MaxTrips]
      /\ built \in 0 .. MaxTrips /\ total \in Nat /\ built <= total
  BY DEF LoadTyped
<1>3. CASE partial.index >= Capacity
  <2>1. /\ flushing' = [i |-> 0, count |-> Capacity, last |-> FALSE]
        /\ loader' = "flush" /\ partial' = partial
    BY <1>3 DEF AppendTrip
  <2>2. LoadTyped' /\ TripsBuilt'
    BY <1>1, <2>1 DEF LoadTyped, TripsBuilt, Loading
  <2>3. Places' /\ AllHandled' /\ Counted'
    BY <1>1, <1>2, <2>1 DEF Places, AllHandled, Waiting, Counted
  <2>4. \A t \in 1 .. built : Buffered(t) => Buffered(t)'
    BY <1>1, <2>1 DEF Buffered, Loading
  <2>5. Covered'
    BY <1>1, <2>1, <2>4 DEF Covered
  <2> QED
    BY <2>2, <2>3, <2>5
<1>4. CASE ~(partial.index >= Capacity)
  <2>1. /\ partial' = [trips |-> [partial.trips EXCEPT ![partial.index] = built],
                       index |-> partial.index + 1]
        /\ loader' = "build" /\ flushing' = flushing
    BY <1>4 DEF AppendTrip
  <2>2. partial.index \in Slot
    BY <1>2, <1>4 DEF Slot
  <2>3. /\ partial'.index = partial.index + 1
        /\ partial'.trips = [partial.trips EXCEPT ![partial.index] = built]
    BY <2>1
  <2>4. \A s \in Slot : partial'.trips[s] = IF s = partial.index THEN built ELSE partial.trips[s]
    BY <1>2, <2>3
  <2>5. partial' \in [trips : [Slot -> 0 .. MaxTrips], index : 0 .. Capacity]
    <3>1. [partial.trips EXCEPT ![partial.index] = built] \in [Slot -> 0 .. MaxTrips]
      BY <1>2
    <3>2. partial.index + 1 \in 0 .. Capacity
      BY <1>2, <1>4
    <3> QED
      BY <2>1, <3>1, <3>2
  <2>6. LoadTyped' /\ TripsBuilt'
    BY <1>1, <1>2, <2>1, <2>4, <2>5 DEF LoadTyped, TripsBuilt, Loading
  <2>7. Places' /\ AllHandled' /\ Counted'
    BY <1>1, <2>1 DEF Places, AllHandled, Waiting, Counted
  <2>8. \A t \in 1 .. built : Buffered(t) => Buffered(t)'
    <3> SUFFICES ASSUME NEW t \in 1 .. built, Buffered(t) PROVE Buffered(t)'
      BY <1>1
    <3>1. /\ loader' \in Loading /\ flushing'.i = 0 /\ partial.index \in Int
          /\ partial'.trips[partial.index] = built /\ 0 <= partial.index
          /\ partial.index < partial'.index
      BY <1>1, <1>2, <2>1, <2>2, <2>3, <2>4 DEF Loading
    <3>2. CASE t = built
      BY <2>2, <3>1, <3>2 DEF Buffered
    <3>3. CASE t # built
      <4>1. PICK s \in Slot : flushing.i <= s /\ s < partial.index /\ partial.trips[s] = t
        BY <3>3 DEF Buffered
      <4>2. s \in Int /\ 0 <= s /\ s # partial.index /\ s < partial'.index
        BY <1>1, <3>1, <4>1, <2>3 DEF Slot
      <4>3. partial'.trips[s] = t
        BY <2>4, <4>1, <4>2
      <4> QED
        BY <3>1, <4>1, <4>2, <4>3 DEF Buffered
    <3> QED
      BY <3>2, <3>3
  <2>9. Covered'
    BY <1>1, <2>1, <2>8 DEF Covered
  <2> QED
    BY <2>6, <2>7, <2>9
<1> QED
  BY <1>3, <1>4

LEMMA LastFlushIInv == StressIInv /\ LastFlush => StressIInv'
<1> SUFFICES ASSUME StressIInv, LastFlush PROVE StressIInv'
  OBVIOUS
<1> USE StressAssumption DEF StressIInv
<1>1. /\ loader = "build" /\ loader' = "flush" /\ built = total /\ flushing.i = 0
      /\ flushing' = [i |-> 0, count |-> partial.index + 1, last |-> TRUE]
      /\ UNCHANGED <<total, built, partial, channel, waitGroup, client, handled>>
      /\ Handling' = Handling
  BY DEF LastFlush, Places, Handling
<1>2. partial.index \in 0 .. Capacity
  BY DEF LoadTyped
<1>3. LoadTyped' /\ TripsBuilt'
  BY <1>1, <1>2 DEF LoadTyped, TripsBuilt, Loading
<1>4. Places' /\ AllHandled' /\ Counted'
  BY <1>1, <1>2 DEF Places, AllHandled, Waiting, Counted
<1>5. \A t \in 1 .. built : Buffered(t) => Buffered(t)'
  BY <1>1 DEF Buffered, Loading
<1>6. Covered'
  BY <1>1, <1>5 DEF Covered
<1> QED
  BY <1>3, <1>4, <1>6

\* A place of the buffer that is empty holds no trip.
LEMMA FlushTripIInv == StressIInv /\ FlushTrip => StressIInv'
<1> SUFFICES ASSUME StressIInv, FlushTrip PROVE StressIInv'
  OBVIOUS
<1> USE StressAssumption DEF StressIInv
<1>1. /\ loader = "flush"
      /\ UNCHANGED <<total, built, partial, channel, client, handled>>
      /\ Handling' = Handling
  BY DEF FlushTrip, Handling
<1>2. /\ flushing.i \in Nat /\ flushing.count \in Nat /\ waitGroup \in Int
      /\ flushing \in [i : Nat, count : Nat, last : BOOLEAN]
  BY DEF LoadTyped
<1>3. CASE flushing.i \notin Slot
  <2>1. loader' = "panic" /\ UNCHANGED <<flushing, waitGroup>>
    BY <1>3 DEF FlushTrip
  <2> QED
    BY <1>1, <2>1 DEF LoadTyped, TripsBuilt, Places, AllHandled, Waiting, Counted, Covered
<1>4. CASE flushing.i \in Slot /\ partial.trips[flushing.i] = None
  <2>1. flushing' = [flushing EXCEPT !.i = @ + 1] /\ UNCHANGED <<loader, waitGroup>>
    BY <1>4 DEF FlushTrip
  <2>2. /\ flushing'.i = flushing.i + 1 /\ flushing'.count = flushing.count
        /\ flushing'.last = flushing.last
        /\ flushing' \in [i : Nat, count : Nat, last : BOOLEAN]
    BY <1>2, <2>1
  <2>3. LoadTyped' /\ TripsBuilt'
    BY <1>1, <2>1, <2>2 DEF LoadTyped, TripsBuilt
  <2>4. Places' /\ AllHandled' /\ Counted'
    BY <1>1, <2>1, <2>2 DEF Places, AllHandled, Waiting, Counted
  <2>5. \A t \in 1 .. built : Buffered(t) => Buffered(t)'
    BY <1>1, <1>2, <1>4, <2>1, <2>2 DEF Buffered, None, Slot
  <2>6. Covered'
    BY <1>1, <2>1, <2>5 DEF Covered
  <2> QED
    BY <2>3, <2>4, <2>6
<1>5. CASE flushing.i \in Slot /\ partial.trips[flushing.i] # None
  <2>1. loader' = "send" /\ waitGroup' = waitGroup + 1 /\ UNCHANGED flushing
    BY <1>5 DEF FlushTrip
  <2>2. LoadTyped' /\ TripsBuilt'
    BY <1>1, <2>1 DEF LoadTyped, TripsBuilt, Loading
  <2>3. Places' /\ AllHandled'
    BY <1>1, <1>5, <2>1 DEF Places, AllHandled, Waiting
  <2>4. Counted'
    BY <1>1, <1>2, <2>1, HandlingFinite, LenProperties DEF Counted, LoadTyped
  <2>5. \A t \in 1 .. built : Buffered(t) => Buffered(t)'
    BY <1>1, <2>1 DEF Buffered, Loading
  <2>6. Covered'
    BY <1>1, <2>1, <2>5 DEF Covered
  <2> QED
    BY <2>2, <2>3, <2>4, <2>6
<1> QED
  BY <1>3, <1>4, <1>5

\* The trip that is sent goes from the buffer to the channel.
LEMMA SendTripIInv == StressIInv /\ SendTrip => StressIInv'
<1> SUFFICES ASSUME StressIInv, SendTrip PROVE StressIInv'
  OBVIOUS
<1> USE StressAssumption DEF StressIInv
<1> DEFINE trip == partial.trips[flushing.i]
           n == Len(channel)
<1>1. /\ loader = "send" /\ loader' = "flush"
      /\ UNCHANGED <<total, built, partial, waitGroup, client, handled>>
      /\ Handling' = Handling
  BY DEF SendTrip, Handling
<1>2. /\ channel' = Append(channel, trip)
      /\ flushing' = [flushing EXCEPT !.i = @ + 1]
  BY DEF SendTrip
<1>3. /\ flushing.i \in Slot /\ flushing.i \in Nat /\ trip \in 0 .. MaxTrips /\ trip # 0
      /\ trip <= built /\ flushing \in [i : Nat, count : Nat, last : BOOLEAN]
      /\ channel \in Seq(Trip) /\ waitGroup \in Int
  BY <1>1 DEF Places, TripsBuilt, LoadTyped, None
<1>4. trip \in Trip
  BY <1>3 DEF Trip
<1>5. /\ flushing'.i = flushing.i + 1 /\ flushing'.count = flushing.count
      /\ flushing'.last = flushing.last
      /\ flushing' \in [i : Nat, count : Nat, last : BOOLEAN]
  BY <1>2, <1>3
<1> HIDE DEF trip
<1>6. /\ channel' \in Seq(Trip) /\ n \in Nat /\ Len(channel') = n + 1
      /\ \A i \in 1 .. n : channel'[i] = channel[i]
      /\ channel'[n + 1] = trip
  BY <1>2, <1>3, <1>4
<1> HIDE DEF n
<1>7. LoadTyped'
  BY <1>1, <1>5, <1>6 DEF LoadTyped, Loading
<1>8. TripsBuilt'
  <2>1. \A i \in 1 .. n : channel[i] <= built
    BY DEF n, TripsBuilt
  <2>2. \A i \in 1 .. n + 1 : channel'[i] <= built
    BY <1>3, <1>6, <2>1
  <2> QED
    BY <1>1, <1>6, <2>2 DEF TripsBuilt
<1>9. Places' /\ AllHandled'
  BY <1>1, <1>5 DEF Places, AllHandled, Waiting
<1>10. Counted'
  BY <1>1, <1>3, <1>6, HandlingFinite DEF Counted, n
<1>11. \A t \in 1 .. built : Buffered(t) => Buffered(t)' \/ t = trip
  BY <1>1, <1>3, <1>5 DEF Buffered, Loading, Slot, trip
<1>12. Covered'
  <2>1. ASSUME NEW t, \E i \in 1 .. Len(channel) : channel[i] = t
        PROVE  \E i \in 1 .. Len(channel') : channel'[i] = t
    BY <1>6, <2>1 DEF n
  <2>2. \E i \in 1 .. Len(channel') : channel'[i] = trip
    BY <1>6
  <2> QED
    BY <1>1, <1>11, <2>1, <2>2 DEF Covered
<1> QED
  BY <1>7, <1>8, <1>9, <1>10, <1>12

\* A flush that ends has sent all of the buffer.
LEMMA EndFlushIInv == StressIInv /\ EndFlush => StressIInv'
<1> SUFFICES ASSUME StressIInv, EndFlush PROVE StressIInv'
  OBVIOUS
<1> USE StressAssumption DEF StressIInv
<1>1. /\ loader = "flush" /\ flushing.i = flushing.count /\ flushing' = NotFlushing
      /\ UNCHANGED <<total, built, channel, waitGroup, client, handled>>
      /\ Handling' = Handling
      /\ flushing.i \in Nat /\ flushing.i >= partial.index
      /\ partial \in [trips : [Slot -> 0 .. MaxTrips], index : 0 .. Capacity]
      /\ flushing.last \in BOOLEAN
  BY DEF EndFlush, Handling, Places, LoadTyped
<1>2. /\ flushing'.i = 0 /\ flushing' \in [i : Nat, count : Nat, last : BOOLEAN]
  BY <1>1 DEF NotFlushing
<1>3. \A t \in 1 .. built : Buffered(t) => t = built /\ ~flushing.last
  BY <1>1 DEF Buffered, Slot
<1>4. CASE flushing.last
  <2>1. loader' = "wait" /\ partial' = partial /\ built = total
    BY <1>1, <1>4 DEF EndFlush, Places
  <2>2. LoadTyped' /\ TripsBuilt'
    BY <1>1, <1>2, <2>1 DEF LoadTyped, TripsBuilt, Waiting
  <2>3. Places' /\ AllHandled' /\ Counted'
    BY <1>1, <2>1 DEF Places, AllHandled, Counted
  <2>4. Covered'
    BY <1>1, <1>3, <1>4, <2>1 DEF Covered
  <2> QED
    BY <2>2, <2>3, <2>4
<1>5. CASE ~flushing.last
  <2>1. loader' = "append" /\ partial' = [partial EXCEPT !.index = 0]
    BY <1>5 DEF EndFlush
  <2>2. partial' \in [trips : [Slot -> 0 .. MaxTrips], index : 0 .. Capacity]
        /\ partial'.trips = partial.trips
    BY <1>1, <2>1
  <2>3. LoadTyped' /\ TripsBuilt'
    BY <1>1, <1>2, <2>1, <2>2 DEF LoadTyped, TripsBuilt, Loading
  <2>4. Places' /\ AllHandled' /\ Counted'
    BY <1>1, <1>2, <2>1 DEF Places, AllHandled, Counted, Waiting
  <2>5. Buffered(built)'
    BY <2>1 DEF Buffered, Loading
  <2>6. Covered'
    BY <1>1, <1>3, <2>1, <2>5 DEF Covered
  <2> QED
    BY <2>3, <2>4, <2>6
<1> QED
  BY <1>1, <1>4, <1>5

\* A group at zero leaves no trip in the channel or with a client.
LEMMA WaitGroupIInv == StressIInv /\ WaitGroup => StressIInv'
<1> SUFFICES ASSUME StressIInv, WaitGroup PROVE StressIInv'
  OBVIOUS
<1> USE StressAssumption DEF StressIInv
<1>1. /\ loader = "wait" /\ loader' = "collect" /\ waitGroup = 0
      /\ UNCHANGED <<total, built, partial, flushing, channel, waitGroup, client, handled>>
      /\ Handling' = Handling
  BY DEF WaitGroup, buffers, Handling
<1>2. built = total
  BY <1>1 DEF Places, Waiting
<1>3. Len(channel) = 0 /\ Cardinality(Handling) = 0
  <2>1. Len(channel) \in Nat
    BY DEF LoadTyped
  <2> QED
    BY <1>1, <2>1, HandlingFinite DEF Counted
<1>4. Handling = {}
  BY <1>3, HandlingFinite, FS_EmptySet
<1>5. \A t \in 1 .. built : ~Buffered(t)
  BY <1>1 DEF Buffered, Loading
<1>6. handled = 1 .. total
  <2>1. 1 .. total \subseteq handled
    BY <1>1, <1>2, <1>3, <1>4, <1>5 DEF Covered
  <2>2. handled \subseteq 1 .. total
    BY <1>2 DEF TripsBuilt, LoadTyped, Trip
  <2> QED
    BY <2>1, <2>2
<1>7. LoadTyped' /\ TripsBuilt' /\ Places' /\ AllHandled' /\ Counted'
  BY <1>1, <1>2, <1>6 DEF LoadTyped, TripsBuilt, Places, AllHandled, Counted, Waiting
<1>8. Covered'
  BY <1>1, <1>2, <1>6 DEF Covered
<1> QED
  BY <1>7, <1>8

LEMMA CollectIInv == StressIInv /\ CollectResponses => StressIInv'
<1> SUFFICES ASSUME StressIInv, CollectResponses PROVE StressIInv'
  OBVIOUS
<1> USE StressAssumption DEF StressIInv
<1>1. /\ loader = "collect" /\ loader' = "done"
      /\ UNCHANGED <<total, built, partial, flushing, channel, waitGroup, client, handled>>
      /\ Handling' = Handling
  BY DEF CollectResponses, buffers, Handling
<1>2. handled = 1 .. total /\ built = total
  BY <1>1 DEF AllHandled, Places, Waiting
<1>3. LoadTyped' /\ TripsBuilt' /\ Places' /\ AllHandled' /\ Counted'
  BY <1>1, <1>2 DEF LoadTyped, TripsBuilt, Places, AllHandled, Counted, Waiting
<1>4. Covered'
  BY <1>1, <1>2 DEF Covered
<1> QED
  BY <1>3, <1>4

\* A trip goes from the channel to a client.
LEMMA TakeTripIInv ==
    ASSUME StressIInv, NEW c \in Client, TakeTrip(c) PROVE StressIInv'
<1> USE StressAssumption DEF StressIInv
<1> DEFINE n == Len(channel)
<1>1. /\ client[c].does = "select" /\ channel # <<>>
      /\ channel' = Tail(channel)
      /\ client' = [client EXCEPT ![c] = [does |-> "handle", trip |-> Head(channel)]]
      /\ UNCHANGED <<total, loader, built, partial, flushing, waitGroup, handled>>
  BY DEF TakeTrip, Does
<1>2. channel \in Seq(Trip) /\ waitGroup \in Int
  BY DEF LoadTyped
<1>3. n \in Nat \ {0} /\ Head(channel) = channel[1] /\ channel[1] \in Trip
  BY <1>1, <1>2, EmptySeq, HeadTailProperties
<1>4. /\ channel' \in Seq(Trip) /\ Len(channel') = n - 1
      /\ \A i \in 1 .. n - 1 : channel'[i] = channel[i + 1]
  BY <1>1, <1>2, HeadTailProperties
<1>5. /\ channel[1] <= built /\ channel[1] \in 1 .. built
      /\ \A i \in 1 .. n : channel[i] <= built
  BY <1>3 DEF TripsBuilt, Trip
<1>6. /\ \A d \in Client : client'[d] = IF d = c THEN [does |-> "handle", trip |-> channel[1]]
                                        ELSE client[d]
      /\ client' \in [Client -> [does : {"select", "handle", "check", "left"},
                                 trip : 0 .. MaxTrips]]
  BY <1>1, <1>3 DEF LoadTyped, Trip
<1>7. c \notin Handling /\ Handling' = Handling \cup {c}
  BY <1>1, <1>6 DEF Handling
<1>8. Cardinality(Handling') = Cardinality(Handling) + 1
  BY <1>7, HandlingFinite, FS_AddElement
<1> HIDE DEF n
<1>9. LoadTyped'
  BY <1>1, <1>4, <1>6 DEF LoadTyped
<1>10. TripsBuilt'
  <2>1. \A i \in 1 .. n - 1 : channel'[i] <= built
    BY <1>3, <1>4, <1>5
  <2>2. \A d \in Handling' : client'[d].trip \in 1 .. built
    BY <1>5, <1>6, <1>7 DEF TripsBuilt, Handling
  <2> QED
    BY <1>1, <1>4, <2>1, <2>2 DEF TripsBuilt
<1>11. Places' /\ AllHandled'
  BY <1>1 DEF Places, AllHandled
<1>12. Counted'
  BY <1>1, <1>2, <1>3, <1>4, <1>8, HandlingFinite DEF Counted, n
<1>13. Covered'
  <2>1. ASSUME NEW t, \E i \in 1 .. n : channel[i] = t
        PROVE  \/ \E i \in 1 .. Len(channel') : channel'[i] = t
               \/ \E d \in Handling' : client'[d].trip = t
    <3>1. PICK i \in 1 .. n : channel[i] = t
      BY <2>1
    <3>2. CASE i = 1
      BY <1>6, <1>7, <3>1, <3>2
    <3>3. CASE i # 1
      <4>1. i - 1 \in 1 .. n - 1 /\ i - 1 + 1 = i
        BY <1>3, <3>3
      <4>2. channel'[i - 1] = t
        BY <1>4, <3>1, <4>1
      <4> QED
        BY <1>4, <4>1, <4>2
    <3> QED
      BY <3>2, <3>3
  <2>2. \A t : (\E d \in Handling : client[d].trip = t)
                  => \E d \in Handling' : client'[d].trip = t
    BY <1>6, <1>7 DEF Handling
  <2>3. \A t : Buffered(t)' <=> Buffered(t)
    BY <1>1 DEF Buffered
  <2> QED
    BY <1>1, <2>1, <2>2, <2>3 DEF Covered, n
<1> QED
  BY <1>9, <1>10, <1>11, <1>12, <1>13

\* The handling of a trip ends, and the group is told.
LEMMA EndTripIInv ==
    ASSUME StressIInv, NEW c \in Client, EndTrip(c) PROVE StressIInv'
<1> USE StressAssumption DEF StressIInv
<1>1. /\ client[c].does = "handle"
      /\ handled' = handled \cup {client[c].trip}
      /\ waitGroup' = waitGroup - 1
      /\ client' = [client EXCEPT ![c] = [does |-> "check", trip |-> None]]
      /\ UNCHANGED <<total, loader, built, partial, flushing, channel>>
  BY DEF EndTrip, Does
<1>2. c \in Handling /\ client[c].trip \in 1 .. built /\ waitGroup \in Int
      /\ built \in 0 .. MaxTrips /\ Len(channel) \in Nat
  BY <1>1 DEF Handling, TripsBuilt, LoadTyped
<1>3. /\ \A d \in Client : client'[d] = IF d = c THEN [does |-> "check", trip |-> None]
                                        ELSE client[d]
      /\ client' \in [Client -> [does : {"select", "handle", "check", "left"},
                                 trip : 0 .. MaxTrips]]
  BY <1>1 DEF LoadTyped, None
<1>4. Handling' = Handling \ {c}
  BY <1>3 DEF Handling
<1>5. Cardinality(Handling') = Cardinality(Handling) - 1
  BY <1>2, <1>4, HandlingFinite, FS_RemoveElement
<1>6. client[c].trip \in Trip
  BY <1>2 DEF Trip
<1>7. LoadTyped'
  BY <1>1, <1>2, <1>3, <1>6 DEF LoadTyped
<1>8. TripsBuilt'
  BY <1>1, <1>2, <1>3, <1>4 DEF TripsBuilt
<1>9. Places'
  BY <1>1, <1>3 DEF Places
<1>10. AllHandled'
  BY <1>1, <1>2 DEF AllHandled, Places, Waiting
<1>11. Counted'
  BY <1>1, <1>2, <1>5, HandlingFinite DEF Counted
<1>12. Covered'
  <2>1. \A t : (\E d \in Handling : client[d].trip = t)
                  => t \in handled' \/ \E d \in Handling' : client'[d].trip = t
    BY <1>1, <1>3, <1>4 DEF Handling
  <2>2. \A t : Buffered(t)' <=> Buffered(t)
    BY <1>1 DEF Buffered
  <2> QED
    BY <1>1, <2>1, <2>2 DEF Covered
<1> QED
  BY <1>7, <1>8, <1>9, <1>10, <1>11, <1>12

\* Clients that look for a trip, or leave, have none.
LEMMA ClientIInv ==
    ASSUME StressIInv, NEW c \in Client, CheckDone(c) \/ LeaveIdle(c) PROVE StressIInv'
<1> USE StressAssumption DEF StressIInv
<1>1. PICK what \in {"left", "select"} :
        /\ client[c].does \in {"check", "select"}
        /\ client' = [client EXCEPT ![c] = [does |-> what, trip |-> None]]
        /\ UNCHANGED <<total, loader, built, partial, flushing, channel, waitGroup, handled>>
  <2>1. CASE CheckDone(c)
    BY <2>1, Zenon DEF CheckDone, Does, buffers
  <2>2. CASE LeaveIdle(c)
    BY <2>2 DEF LeaveIdle, Does, buffers
  <2> QED
    BY <2>1, <2>2
<1>2. /\ \A d \in Client \ {c} : client'[d] = client[d]
      /\ client'[c].does = what /\ client[c].does # "left"
      /\ client' \in [Client -> [does : {"select", "handle", "check", "left"},
                                 trip : 0 .. MaxTrips]]
  BY <1>1 DEF LoadTyped, None
<1>3. Handling' = Handling /\ \A d \in Handling : client'[d] = client[d]
  BY <1>1, <1>2 DEF Handling
<1>4. LoadTyped' /\ TripsBuilt'
  BY <1>1, <1>2, <1>3 DEF LoadTyped, TripsBuilt
<1>5. loader # "idle"
  BY <1>2 DEF Places
<1>6. Places' /\ AllHandled' /\ Counted'
  BY <1>1, <1>2, <1>3, <1>5 DEF Places, AllHandled, Counted
<1>7. \A t : Buffered(t)' <=> Buffered(t)
  BY <1>1 DEF Buffered
<1>8. Covered'
  BY <1>1, <1>3, <1>7 DEF Covered
<1> QED
  BY <1>4, <1>6, <1>8

LEMMA NothingMoves ==
    ASSUME StressIInv,
           UNCHANGED <<total, loader, built, partial, flushing, channel, waitGroup, client,
                       handled>>
    PROVE  StressIInv'
<1>1. Handling' = Handling /\ \A t : Buffered(t)' <=> Buffered(t)
  BY DEF Handling, Buffered
<1> QED
  BY <1>1 DEF StressIInv, LoadTyped, TripsBuilt, Places, AllHandled, Counted, Covered

LEMMA StressStep == StressIInv /\ [StressNext]_stressVars => StressIInv'
<1> SUFFICES ASSUME StressIInv, [StressNext]_stressVars PROVE StressIInv'
  OBVIOUS
<1>1. CASE Load
  BY <1>1, BuildTripIInv, AppendTripIInv, LastFlushIInv, FlushTripIInv, SendTripIInv,
     EndFlushIInv, WaitGroupIInv, CollectIInv DEF Load
<1>2. ASSUME NEW c \in Client, Serves(c) PROVE StressIInv'
  BY <1>2, TakeTripIInv, EndTripIInv, ClientIInv DEF Serves
<1>3. CASE EndEmitter
  BY <1>3, NothingMoves DEF EndEmitter, buffers
<1>4. CASE UNCHANGED stressVars
  BY <1>4, NothingMoves DEF stressVars, buffers
<1> QED
  BY <1>1, <1>2, <1>3, <1>4, StartLoadIInv DEF StressNext

\* The inductive invariant: the group counts what is in the channel and with
\* clients, and a trip that was built is handled, counted or to be flushed.
THEOREM StressInductive == StressSpec => []StressIInv
BY StressInitIInv, StressStep, PTL DEF StressSpec

\* Responses are collected only after every trip is over, for any number of
\* clients and trips, any capacity, and whichever clients give up
\* (stressTest, partialStressTrips, handleRequest).
THEOREM EveryTripIsHandled == StressSpec => []AllHandled
<1>1. StressIInv => AllHandled
  BY DEF StressIInv
<1> QED
  BY <1>1, StressInductive, PTL

\* The buffer, the channel and the goroutines, in their bounds.
LoadBounded ==
    /\ flushing.i <= Capacity /\ flushing.count <= Capacity + 1
    /\ Len(channel) <= Capacity
    /\ loadDone \in BOOLEAN /\ emitter \in BOOLEAN /\ early \subseteq Client

LEMMA InitLoadBounded == StressInit => LoadBounded
<1> SUFFICES ASSUME StressInit PROVE LoadBounded
  OBVIOUS
<1>1. Len(channel) = 0 /\ flushing.i = 0 /\ flushing.count = 0
  BY EmptySeq DEF StressInit, NotFlushing
<1>2. loadDone = FALSE /\ emitter = FALSE /\ early = {}
  BY DEF StressInit
<1>3. Capacity \in Nat
  BY StressAssumption
<1>4. Len(channel) <= Capacity /\ flushing.i <= Capacity /\ flushing.count <= Capacity + 1
  BY <1>1, <1>3
<1> QED
  BY <1>2, <1>4 DEF LoadBounded

LEMMA NextLoadBounded == StressIInv /\ LoadBounded /\ [StressNext]_stressVars => LoadBounded'
<1> SUFFICES ASSUME StressIInv, LoadBounded, [StressNext]_stressVars PROVE LoadBounded'
  OBVIOUS
<1>0. /\ Capacity \in Nat /\ flushing \in [i : Nat, count : Nat, last : BOOLEAN]
      /\ channel \in Seq(Trip) /\ Len(channel) \in Nat /\ partial.index \in 0 .. Capacity
  BY StressAssumption, LenProperties DEF StressIInv, LoadTyped
<1>1. PICK f \in [i : Nat, count : Nat, last : BOOLEAN] : f = flushing
  BY <1>0
<1>2. f.i <= Capacity /\ f.count <= Capacity + 1
  BY <1>1 DEF LoadBounded
<1> DEFINE Others == UNCHANGED <<loadDone, emitter, early>>
           Kept == UNCHANGED <<flushing, channel>>
<1>3. Kept /\ Others => LoadBounded'
  BY DEF LoadBounded
<1>4. ASSUME AppendTrip \/ LastFlush \/ EndFlush PROVE LoadBounded'
  <2>1. channel' = channel /\ Others
    BY <1>4 DEF AppendTrip, LastFlush, EndFlush
  <2>2. \/ flushing' = f
        \/ flushing' = [i |-> 0, count |-> Capacity, last |-> FALSE]
        \/ flushing' = [i |-> 0, count |-> partial.index + 1, last |-> TRUE]
        \/ flushing' = [i |-> 0, count |-> 0, last |-> FALSE]
    BY <1>1, <1>4 DEF AppendTrip, LastFlush, EndFlush, NotFlushing
  <2>3. flushing'.i <= Capacity /\ flushing'.count <= Capacity + 1
    BY <1>0, <1>2, <2>2
  <2> QED
    BY <2>1, <2>3 DEF LoadBounded
<1>5. CASE FlushTrip
  <2>1. channel' = channel /\ Others
    BY <1>5 DEF FlushTrip
  <2>2. flushing' = f \/ (f.i \in Slot /\ flushing' = [f EXCEPT !.i = @ + 1])
    BY <1>1, <1>5 DEF FlushTrip
  <2>3. flushing'.i <= Capacity /\ flushing'.count <= Capacity + 1
    BY <1>0, <1>2, <2>2 DEF Slot
  <2> QED
    BY <2>1, <2>3 DEF LoadBounded
<1>6. CASE SendTrip
  <2>1. Others /\ flushing' = [f EXCEPT !.i = @ + 1] /\ f.i \in Slot
    BY <1>1, <1>6 DEF SendTrip, StressIInv, Places
  <2>2. flushing'.i <= Capacity /\ flushing'.count <= Capacity + 1
    BY <1>0, <1>2, <2>1 DEF Slot
  <2>3. Len(channel') <= Capacity
    <3>1. PICK n \in Nat : n = Len(channel) /\ n < Capacity
      BY <1>0, <1>6 DEF SendTrip
    <3>2. PICK t : channel' = Append(channel, t)
      BY <1>6 DEF SendTrip
    <3>3. Len(channel') = n + 1
      BY <1>0, <3>1, <3>2
    <3> QED
      BY <1>0, <3>1, <3>3
  <2> QED
    BY <2>1, <2>2, <2>3 DEF LoadBounded
<1>7. ASSUME NEW c \in Client, TakeTrip(c) PROVE LoadBounded'
  <2>1. Others /\ flushing' = flushing /\ channel' = Tail(channel) /\ channel # <<>>
    BY <1>7 DEF TakeTrip
  <2>2. Len(channel') <= Capacity
    BY <1>0, <2>1, HeadTailProperties DEF LoadBounded
  <2> QED
    BY <2>1, <2>2 DEF LoadBounded
<1>8. ASSUME NEW c \in Client, EndTrip(c) \/ CheckDone(c) PROVE Kept /\ Others
  BY <1>8 DEF EndTrip, CheckDone, buffers
<1>9. ASSUME NEW c \in Client, LeaveIdle(c) PROVE LoadBounded'
  BY <1>9 DEF LeaveIdle, buffers, LoadBounded
<1>10. BuildTrip \/ WaitGroup \/ UNCHANGED stressVars => Kept /\ Others
  BY DEF BuildTrip, WaitGroup, stressVars, buffers
<1>11. StartLoad \/ CollectResponses \/ EndEmitter
         => Kept /\ loadDone' \in BOOLEAN /\ emitter' \in BOOLEAN /\ early' = early
  BY DEF StartLoad, CollectResponses, EndEmitter, buffers, LoadBounded
<1>12. StartLoad \/ CollectResponses \/ EndEmitter => LoadBounded'
  BY <1>11 DEF LoadBounded
<1> QED
  BY <1>3, <1>4, <1>5, <1>6, <1>7, <1>8, <1>9, <1>10, <1>12 DEF StressNext, Load, Serves

LEMMA StressTypes == StressIInv /\ LoadBounded => StressTypeOK
<1> SUFFICES ASSUME StressIInv, LoadBounded PROVE StressTypeOK
  OBVIOUS
<1>0. LoadTyped /\ Capacity \in Nat
  BY StressAssumption DEF StressIInv
<1>1. PICK f \in [i : Nat, count : Nat, last : BOOLEAN] : f = flushing
  BY <1>0 DEF LoadTyped
<1>2. f.i \in 0 .. Capacity /\ f.count \in 0 .. Capacity + 1
  BY <1>0, <1>1 DEF LoadBounded
<1>3. flushing \in [i : 0 .. Capacity, count : 0 .. Capacity + 1, last : BOOLEAN]
  BY <1>1, <1>2
<1>4. PICK n \in Nat, h \in Nat, m \in Nat :
        n = Len(channel) /\ h = Cardinality(Handling) /\ m = Cardinality(Client)
  BY <1>0, HandlingFinite, LenProperties, FS_CardinalityType, StressAssumption DEF LoadTyped
<1>5. h <= m
  <2>1. Handling \in SUBSET Client
    BY DEF Handling
  <2>2. Cardinality(Handling) <= Cardinality(Client)
    BY <2>1, FS_Subset, StressAssumption
  <2> QED
    BY <1>4, <2>2
<1>6. waitGroup \in 0 .. Capacity + m + 1
  <2>1. waitGroup = n + h + (IF loader = "send" THEN 1 ELSE 0) /\ n <= Capacity
    BY <1>4 DEF StressIInv, Counted, LoadBounded
  <2> QED
    BY <1>0, <1>5, <2>1
<1>7. loader \in {"idle", "build", "append", "flush", "send", "wait", "collect", "done",
                  "failed", "panic"}
  BY <1>0 DEF LoadTyped, Loading, Waiting
<1> QED
  BY <1>0, <1>3, <1>4, <1>6, <1>7 DEF LoadTyped, LoadBounded, StressTypeOK

\* The load test stays within its buffer, its channel and its goroutines, for any
\* capacity and any number of clients and trips: the wait group never counts
\* below zero, nor more than the channel and the clients hold and one trip
\* (stressTest, partialStressTrips, handleRequests).
THEOREM StressTypesHold == StressSpec => []StressTypeOK
BY StressInductive, StressTypes, InitLoadBounded, NextLoadBounded, PTL DEF StressSpec

-----------------------------------------------------------------------------
(* BrowserCapture, for any requests and any number of drainers, drains and *)
(* entries. First the types.                                               *)

Browsers == [console : Seq(Console), events : Seq(NetEvent), enabled : SUBSET Domain,
             entries : 0 .. MaxConsole, requests : [NetRequest -> {"new", "open", "ended"}]]
Captures == [on : BOOLEAN, left : 0 .. MaxDrains, losses : 0 .. MaxLosses, recent : BOOLEAN,
             console : Seq(Console), inflight : SUBSET NetRequest, completed : Seq(Network)]
Sinks == [open : BOOLEAN, lines : Seq(Console \cup Network),
          nextConsole : Nat, nextNetwork : Nat, intact : BOOLEAN]
DrainRecord == [step : DrainStep, stops : BOOLEAN, console : Seq(Console),
            events : Seq(NetEvent), network : Seq(Network)]
Flagged == overlapped \subseteq {"drain", "flush"} /\ untold \subseteq NetRequest

\* A body is fetched for a request that is finished.
BodyInv == \A d \in Drainer :
              DrainAt(d, "body") => /\ drain[d].events # <<>>
                                    /\ Head(drain[d].events).event = "finished"

CTInv == CaptureTypeOK /\ BodyInv

LEMMA CaptureTyped ==
    CaptureTypeOK <=> /\ browser \in Browsers /\ capture \in Captures /\ sink \in Sinks
                      /\ drain \in [Drainer -> DrainRecord] /\ Flagged
BY DEF CaptureTypeOK, Browsers, Captures, Sinks, DrainRecord, Flagged

LEMMA CaptureInitTyped == CaptureInit => CTInv
<1> SUFFICES ASSUME CaptureInit PROVE CTInv
  OBVIOUS
<1>1. \A S : <<>> \in Seq(S)
  BY EmptySeq
<1>2. {MaxConsole, MaxDrains, MaxLosses} \subseteq Nat
  BY CaptureAssumption
<1>3. browser \in Browsers
  BY <1>1, <1>2 DEF CaptureInit, Browsers
<1>4. capture \in Captures
  BY <1>1, <1>2 DEF CaptureInit, Captures
<1>5. sink \in Sinks
  BY <1>1 DEF CaptureInit, NoSink, Sinks
<1>6. NoDrain \in DrainRecord /\ NoDrain.step = "idle"
  BY <1>1 DEF NoDrain, DrainRecord, DrainStep
<1>7. drain \in [Drainer -> DrainRecord] /\ \A d \in Drainer : drain[d].step = "idle"
  BY <1>6 DEF CaptureInit
<1>8. BodyInv
  BY <1>7 DEF BodyInv, DrainAt
<1> QED
  BY <1>3, <1>4, <1>5, <1>7, <1>8, CaptureTyped DEF CTInv, CaptureInit, Flagged

\* One drain moves to another record.
Moves(d, r) == r \in DrainRecord /\ drain' = [drain EXCEPT ![d] = r]

LEMMA MoveFacts ==
    ASSUME drain \in [Drainer -> DrainRecord], NEW d \in Drainer, NEW r, Moves(d, r)
    PROVE  /\ drain' \in [Drainer -> DrainRecord] /\ drain'[d] = r
           /\ \A e \in Drainer : e # d => drain'[e] = drain[e]
BY DEF Moves

LEMMA MoveTyped ==
    ASSUME CTInv, NEW d \in Drainer, NEW r, Moves(d, r),
           r.step = "body" => r.events # <<>> /\ Head(r.events).event = "finished",
           browser' \in Browsers, capture' \in Captures, sink' \in Sinks, Flagged'
    PROVE  CTInv'
<1>1. drain \in [Drainer -> DrainRecord]
  BY CaptureTyped DEF CTInv
<1>2. /\ drain' \in [Drainer -> DrainRecord] /\ drain'[d] = r
      /\ \A e \in Drainer : e # d => drain'[e] = drain[e]
  BY <1>1, MoveFacts
<1>3. BodyInv'
  BY <1>2 DEF BodyInv, DrainAt, CTInv
<1> QED
  BY <1>2, <1>3 DEF CTInv, CaptureTypeOK, Browsers, Captures, Sinks, DrainRecord, Flagged

\* What each step of a drain makes of its record.
LEMMA DrainRecords ==
    ASSUME CTInv, NEW d \in Drainer
    PROVE  /\ drain[d] \in DrainRecord
           /\ \A step \in DrainStep : DrainGoes(d, step) => Moves(d, [drain[d] EXCEPT !.step = step])
           /\ After(d) \in {"idle", "close"} /\ {"idle", "close"} \subseteq DrainStep
<1>1. drain \in [Drainer -> DrainRecord]
  BY CaptureTyped DEF CTInv
<1>2. drain[d] \in DrainRecord
  BY <1>1
<1>3. ASSUME NEW step \in DrainStep, DrainGoes(d, step)
      PROVE  Moves(d, [drain[d] EXCEPT !.step = step])
  <2>1. [drain[d] EXCEPT !.step = step] \in DrainRecord
    BY <1>2 DEF DrainRecord
  <2> QED
    BY <1>3, <2>1 DEF DrainGoes, Moves
<1> QED
  BY <1>2, <1>3 DEF After, DrainStep

\* The types of sequences that grow and shrink.
LEMMA ConcatTyped == ASSUME NEW S, NEW s \in Seq(S), NEW t \in Seq(S) PROVE s \o t \in Seq(S)
  BY ConcatProperties
LEMMA AppendTyped == ASSUME NEW S, NEW s \in Seq(S), NEW e \in S PROVE Append(s, e) \in Seq(S)
  BY AppendProperties
LEMMA TailTyped ==
    ASSUME NEW S, NEW s \in Seq(S), s # <<>>
    PROVE  Tail(s) \in Seq(S) /\ Head(s) \in S
  BY HeadTailProperties
LEMMA SubTyped ==
    ASSUME NEW S, NEW s \in Seq(S), NEW m \in Nat \ {0}, NEW n \in 0 .. Len(s)
    PROVE  SubSeq(s, m, n) \in Seq(S)
<1>1. Len(s) \in Nat
  BY LenProperties
<1>2. \A i \in m .. n : s[i] \in S
  BY <1>1, ElementOfSeq
<1> QED
  BY <1>1, <1>2, SubSeqProperties

LEMMA CaptureNextTyped ==
    ASSUME CTInv, [CaptureNext]_captureVars
    PROVE  CTInv'
<1>1. /\ browser \in Browsers /\ capture \in Captures /\ sink \in Sinks
      /\ drain \in [Drainer -> DrainRecord] /\ Flagged
  BY CaptureTyped DEF CTInv
<1>2. {MaxConsole, MaxDrains, MaxLosses} \subseteq Nat /\ \A S : <<>> \in Seq(S)
  BY CaptureAssumption, EmptySeq
<1>3. ASSUME UNCHANGED drain, browser' \in Browsers, capture' \in Captures, sink' \in Sinks,
             Flagged'
      PROVE  CTInv'
  BY <1>1, <1>3 DEF CTInv, CaptureTypeOK, BodyInv, DrainAt, Browsers, Captures, Sinks, DrainRecord, Flagged
<1>a. CASE UNCHANGED captureVars
  BY <1>1, <1>3, <1>a DEF captureVars, Flagged
<1>4. ASSUME NEW was \in Captures, Loses(was)
      PROVE  capture' \in Captures
  <2>1. was.losses + 1 \in 0 .. MaxLosses
    BY <1>2, <1>4 DEF Loses, Captures
  <2> QED
    BY <1>4, <2>1 DEF Loses, Captures
<1>b. CASE LogConsole
  <2>1. /\ [type |-> "console", of |-> browser.entries + 1] \in Console
        /\ [event |-> "runtime", of |-> browser.entries + 1] \in NetEvent
    BY <1>1, <1>2, <1>b DEF LogConsole, Console, NetEvent, Browsers
  <2>2. browser.entries + 1 \in 0 .. MaxConsole
    BY <1>1, <1>2, <1>b DEF LogConsole, Browsers
  <2>3. /\ Append(browser.console, [type |-> "console", of |-> browser.entries + 1]) \in Seq(Console)
        /\ Append(browser.events, [event |-> "runtime", of |-> browser.entries + 1]) \in Seq(NetEvent)
    BY <1>1, <2>1, AppendTyped DEF Browsers
  <2>4. browser' \in Browsers
    BY <1>1, <1>b, <2>2, <2>3 DEF LogConsole, Browsers
  <2> QED
    BY <1>1, <1>3, <1>b, <2>4 DEF LogConsole, Flagged
<1>c. ASSUME NEW r \in NetRequest, SendRequest(r) \/ EndRequest(r)
      PROVE  CTInv'
  <2>1. PICK event \in {"sent", "finished", "failed"}, from \in {"new", "open", "ended"},
             to \in {"new", "open", "ended"} : LogNetwork(r, event, from, to)
    BY <1>c DEF SendRequest, EndRequest
  <2>2. [event |-> event, of |-> r] \in NetEvent
    BY DEF NetEvent
  <2>3. Append(browser.events, [event |-> event, of |-> r]) \in Seq(NetEvent)
    BY <1>1, <2>2, AppendTyped DEF Browsers
  <2>4. browser' \in Browsers
    BY <1>1, <2>1, <2>3 DEF LogNetwork, Browsers
  <2>5. Flagged'
    BY <1>1, <2>1 DEF LogNetwork, Flagged
  <2> QED
    BY <1>1, <1>3, <2>1, <2>4, <2>5 DEF LogNetwork
<1>d. CASE CaptureStart
  <2>1. PICK open \in BOOLEAN : sink' = [sink EXCEPT !.open = open]
    BY <1>d DEF CaptureStart
  <2>2. sink' \in Sinks
    BY <1>1, <2>1 DEF Sinks
  <2>3. [capture EXCEPT !.on = TRUE] \in Captures
    BY <1>1 DEF Captures
  <2>4. PICK domains \in SUBSET Domain :
           /\ browser' = [browser EXCEPT !.enabled = domains]
           /\ IF domains \in {{}, Domain} THEN capture' = [capture EXCEPT !.on = TRUE]
              ELSE Loses([capture EXCEPT !.on = TRUE])
    BY <1>d DEF CaptureStart
  <2>5. capture' \in Captures
    BY <1>4, <2>3, <2>4
  <2>6. browser' \in Browsers
    BY <1>1, <2>4 DEF Browsers
  <2>7. UNCHANGED <<drain, overlapped, untold>>
    BY <1>d DEF CaptureStart
  <2> QED
    BY <1>1, <1>3, <2>2, <2>5, <2>6, <2>7 DEF Flagged
<1>e. CASE CaptureClear
  <2>1. capture.left - 1 \in 0 .. MaxDrains
    BY <1>1, <1>2, <1>e DEF CaptureClear, Captures
  <2>2. capture' \in Captures
    BY <1>1, <1>2, <1>e, <2>1 DEF CaptureClear, Captures
  <2>3. sink' \in Sinks
    BY <1>1, <1>e DEF CaptureClear, Sinks
  <2>4. Flagged'
    BY <1>1, <1>e DEF CaptureClear, Flagged
  <2> QED
    BY <1>1, <1>3, <1>e, <2>2, <2>3, <2>4 DEF CaptureClear
<1>f. CASE TimePasses
  <2>1. capture' \in Captures
    BY <1>1, <1>f DEF TimePasses, Captures
  <2> QED
    BY <1>1, <1>3, <1>f, <2>1 DEF TimePasses, Flagged
<1>g. ASSUME NEW d \in Drainer, Drains(d)
      PROVE  CTInv'
  <2>0. /\ drain[d] \in DrainRecord
        /\ \A step \in DrainStep : DrainGoes(d, step) => Moves(d, [drain[d] EXCEPT !.step = step])
        /\ After(d) \in {"idle", "close"} /\ {"idle", "close"} \subseteq DrainStep
    BY DrainRecords
  <2>1. ASSUME NEW step \in DrainStep, step # "body", DrainGoes(d, step),
               browser' \in Browsers, capture' \in Captures, sink' \in Sinks, Flagged'
        PROVE  CTInv'
    <3>1. [drain[d] EXCEPT !.step = step].step # "body"
      BY <2>0, <2>1 DEF DrainRecord
    <3>2. Moves(d, [drain[d] EXCEPT !.step = step])
      BY <2>0, <2>1
    <3>3. PICK r : r = [drain[d] EXCEPT !.step = step]
      OBVIOUS
    <3> QED
      BY <2>1, <3>1, <3>2, <3>3, MoveTyped
  <2>a. ASSUME NEW stops \in BOOLEAN, StartDrain(d, stops)
        PROVE  CTInv'
    <3>1. capture.left - 1 \in 0 .. MaxDrains
      BY <1>1, <1>2, <2>a DEF StartDrain, Captures
    <3>2. capture' \in Captures /\ Flagged'
      BY <1>1, <2>a, <3>1 DEF StartDrain, Captures, Flagged
    <3>3. PICK step \in {"close", "console"} : step = IF capture.recent THEN "close" ELSE "console"
      OBVIOUS
    <3>4. PICK r : r = [drain[d] EXCEPT !.step = step, !.stops = stops]
      OBVIOUS
    <3>5. r \in DrainRecord /\ r.step = step
      BY <2>0, <3>4 DEF DrainRecord, DrainStep
    <3>6. Moves(d, r)
      BY <1>1, <2>a, <3>3, <3>4, <3>5 DEF StartDrain, Moves
    <3> QED
      BY <1>1, <2>a, <3>2, <3>5, <3>6, MoveTyped DEF StartDrain, Flagged
  <2>b. CASE ReadConsole(d)
    <3>1. browser' \in Browsers
      BY <1>1, <1>2, <2>b DEF ReadConsole, Browsers
    <3>a. PICK step \in {"append", "network"} :
             step = IF browser.console = <<>> THEN "network" ELSE "append"
      OBVIOUS
    <3>2. PICK r : r = [drain[d] EXCEPT !.step = step, !.console = browser.console]
      OBVIOUS
    <3>3. r \in DrainRecord /\ r.step = step
      BY <1>1, <2>0, <3>2 DEF DrainRecord, DrainStep, Browsers
    <3>4. Moves(d, r)
      BY <1>1, <2>b, <3>a, <3>2, <3>3 DEF ReadConsole, Moves
    <3> QED
      BY <1>1, <2>b, <3>1, <3>3, <3>4, MoveTyped DEF ReadConsole, Flagged
  <2>c. CASE AppendConsole(d)
    <3>1. capture.console \o drain[d].console \in Seq(Console)
      BY <1>1, <2>0, ConcatTyped DEF Captures, DrainRecord
    <3>2. capture' \in Captures
      BY <1>1, <2>c, <3>1 DEF AppendConsole, Captures
    <3>3. PICK r : r = [drain[d] EXCEPT !.step = "network", !.console = <<>>]
      OBVIOUS
    <3>4. r \in DrainRecord /\ r.step = "network"
      BY <1>2, <2>0, <3>3 DEF DrainRecord, DrainStep
    <3>5. Moves(d, r)
      BY <1>1, <2>c, <3>3, <3>4 DEF AppendConsole, Moves
    <3> QED
      BY <1>1, <2>c, <3>2, <3>4, <3>5, MoveTyped DEF AppendConsole, Flagged
  <2>d. CASE ReadNetwork(d)
    <3>1. browser' \in Browsers
      BY <1>1, <1>2, <2>d DEF ReadNetwork, Browsers
    <3>2. PICK r : r = [drain[d] EXCEPT !.step = "handle", !.events = browser.events]
      OBVIOUS
    <3>3. r \in DrainRecord /\ r.step = "handle"
      BY <1>1, <2>0, <3>2 DEF DrainRecord, DrainStep, Browsers
    <3>4. Moves(d, r)
      BY <1>1, <2>d, <3>2, <3>3 DEF ReadNetwork, Moves
    <3> QED
      BY <1>1, <2>d, <3>1, <3>3, <3>4, MoveTyped DEF ReadNetwork, Flagged
  <2>e. CASE ReadFails(d)
    <3>1. PICK step \in {"network", "handle"} :
             step = IF DrainAt(d, "console") THEN "network" ELSE "handle"
      OBVIOUS
    <3>2. DrainGoes(d, step) /\ step \in DrainStep /\ step # "body"
      BY <2>e, <3>1 DEF ReadFails, DrainStep
    <3> QED
      BY <1>1, <1>4, <2>1, <2>e, <3>2 DEF ReadFails, Flagged
  <2>2. ASSUME drain[d].events # <<>>
        PROVE  /\ Head(drain[d].events) \in NetEvent /\ Tail(drain[d].events) \in Seq(NetEvent)
               /\ Head(drain[d].events).event = "runtime" =>
                     [type |-> "runtime", of |-> Head(drain[d].events).of] \in Console
               /\ Head(drain[d].events).event # "runtime" =>
                     Head(drain[d].events).of \in NetRequest /\ FinishedEvent(d) \in Network
    <3>1. /\ Head(drain[d].events) \in NetEvent /\ Tail(drain[d].events) \in Seq(NetEvent)
      BY <2>0, <2>2, TailTyped DEF DrainRecord
    <3> QED
      BY <3>1 DEF NetEvent, FinishedEvent, Network, Console
  <2>3. ASSUME drain[d].events # <<>>, NEW r, r = [drain[d] EXCEPT !.step = "handle", !.events = Tail(@)]
        PROVE  r \in DrainRecord /\ r.step = "handle"
    BY <2>0, <2>2, <2>3 DEF DrainRecord, DrainStep
  <2>p. CASE SkipEvent(d)
    <3>0. capture' \in Captures /\ Flagged'
      BY <1>1, <1>4, <2>2, <2>p DEF SkipEvent, Flagged
    <3>2. PICK r : r = [drain[d] EXCEPT !.events = Tail(@)]
      OBVIOUS
    <3>3. r \in DrainRecord /\ r.step = "handle"
      BY <2>0, <2>2, <2>p, <3>2 DEF DrainRecord, SkipEvent, DrainAt
    <3>4. Moves(d, r)
      BY <1>1, <2>p, <3>2, <3>3 DEF SkipEvent, Moves
    <3> QED
      BY <1>1, <2>p, <3>0, <3>3, <3>4, MoveTyped DEF SkipEvent
  <2>q. CASE OnRuntimeConsole(d)
    <3>0. [type |-> "runtime", of |-> Head(drain[d].events).of] \in Console
      BY <2>2, <2>q DEF OnRuntimeConsole
    <3>1. Append(capture.console, [type |-> "runtime", of |-> Head(drain[d].events).of]) \in Seq(Console)
      BY <1>1, <3>0, AppendTyped DEF Captures
    <3>5. capture' \in Captures
      BY <1>1, <2>q, <3>1 DEF OnRuntimeConsole, Captures
    <3>2. PICK r : r = [drain[d] EXCEPT !.events = Tail(@)]
      OBVIOUS
    <3>3. r \in DrainRecord /\ r.step = "handle"
      BY <2>0, <2>2, <2>q, <3>2 DEF DrainRecord, OnRuntimeConsole, DrainAt
    <3>4. Moves(d, r)
      BY <1>1, <2>q, <3>2, <3>3 DEF OnRuntimeConsole, Moves
    <3> QED
      BY <1>1, <2>q, <3>3, <3>4, <3>5, MoveTyped DEF OnRuntimeConsole, Flagged
  <2>f. CASE OnRequestWillBeSent(d)
    <3>1. capture' \in Captures
      BY <1>1, <2>2, <2>f DEF OnRequestWillBeSent, Captures
    <3>2. PICK r : r = [drain[d] EXCEPT !.events = Tail(@)]
      OBVIOUS
    <3>3. r \in DrainRecord /\ r.step = "handle"
      BY <2>0, <2>2, <2>f, <3>2 DEF DrainRecord, OnRequestWillBeSent, DrainAt
    <3>4. Moves(d, r)
      BY <1>1, <2>f, <3>2, <3>3 DEF OnRequestWillBeSent, Moves
    <3> QED
      BY <1>1, <2>f, <3>1, <3>3, <3>4, MoveTyped DEF OnRequestWillBeSent, Flagged
  <2>4. ASSUME drain[d].events # <<>>, Head(drain[d].events).event # "runtime",
               capture' = [capture EXCEPT !.completed = Append(@, FinishedEvent(d)),
                                          !.inflight = @ \ {Head(drain[d].events).of}]
        PROVE  capture' \in Captures
    <3>1. Append(capture.completed, FinishedEvent(d)) \in Seq(Network)
      BY <1>1, <2>2, <2>4, AppendTyped DEF Captures
    <3> QED
      BY <1>1, <2>4, <3>1 DEF Captures
  <2>g. CASE OnLoadingFailed(d)
    <3>1. capture' \in Captures
      BY <2>4, <2>g DEF OnLoadingFailed
    <3>2. PICK r : r = [drain[d] EXCEPT !.events = Tail(@)]
      OBVIOUS
    <3>3. r \in DrainRecord /\ r.step = "handle"
      BY <2>0, <2>2, <2>g, <3>2 DEF DrainRecord, OnLoadingFailed, DrainAt
    <3>4. Moves(d, r)
      BY <1>1, <2>g, <3>2, <3>3 DEF OnLoadingFailed, Moves
    <3> QED
      BY <1>1, <2>g, <3>1, <3>3, <3>4, MoveTyped DEF OnLoadingFailed, Flagged
  <2>h. CASE OnLoadingFinished(d)
    <3>1. capture' \in Captures
      BY <1>1, <2>2, <2>h DEF OnLoadingFinished, Captures
    <3>2. PICK r : r = [drain[d] EXCEPT !.step = "body"]
      OBVIOUS
    <3>3. r.events = drain[d].events /\ "body" \in DrainStep
      BY <2>0, <3>2 DEF DrainRecord, DrainStep
    <3>4. Moves(d, r)
      BY <2>0, <2>h, <3>2, <3>3 DEF OnLoadingFinished
    <3>5. r.events # <<>> /\ Head(r.events).event = "finished"
      BY <2>h, <3>3 DEF OnLoadingFinished
    <3> QED
      BY <1>1, <2>h, <3>1, <3>4, <3>5, MoveTyped DEF OnLoadingFinished, Flagged
  <2>i. CASE EndFinished(d)
    <3>0. drain[d].events # <<>> /\ Head(drain[d].events).event # "runtime"
      BY <2>i DEF EndFinished, CTInv, BodyInv
    <3>1. capture' \in Captures
      BY <2>4, <2>i, <3>0 DEF EndFinished
    <3>2. PICK r : r = [drain[d] EXCEPT !.step = "handle", !.events = Tail(@)]
      OBVIOUS
    <3>3. r \in DrainRecord /\ r.step = "handle"
      BY <2>3, <3>0, <3>2
    <3>4. Moves(d, r)
      BY <1>1, <2>i, <3>2, <3>3 DEF EndFinished, Moves
    <3> QED
      BY <1>1, <2>i, <3>1, <3>3, <3>4, MoveTyped DEF EndFinished, Flagged
  <2>k. CASE TakePending(d)
    <3>1. UNCHANGED <<browser, capture, sink>> /\ Flagged'
      BY <1>1, <2>k DEF TakePending, Flagged
    <3> DEFINE console == SubSeq(capture.console, sink.nextConsole + 1, Len(capture.console))
               network == SubSeq(capture.completed, sink.nextNetwork + 1, Len(capture.completed))
               beyond == sink.nextConsole > Len(capture.console)
                           \/ sink.nextNetwork > Len(capture.completed)
               step == IF ~sink.open THEN After(d) ELSE IF beyond THEN "panic"
                       ELSE IF console \o network = <<>> THEN After(d) ELSE "write"
    <3>2. drain' = IF step # "write" THEN [drain EXCEPT ![d].step = step]
                   ELSE [drain EXCEPT ![d].step = step, ![d].console = console, ![d].network = network]
      BY <2>k DEF TakePending
    <3>3. console \in Seq(Console) /\ network \in Seq(Network)
      <4>1. /\ capture.console \in Seq(Console) /\ capture.completed \in Seq(Network)
            /\ sink.nextConsole + 1 \in Nat \ {0} /\ sink.nextNetwork + 1 \in Nat \ {0}
        BY <1>1 DEF Captures, Sinks
      <4>2. Len(capture.console) \in 0 .. Len(capture.console) /\ Len(capture.completed) \in 0 .. Len(capture.completed)
        BY <4>1, LenProperties
      <4> QED
        BY <4>1, <4>2, SubTyped
    <3>4. step \in {"idle", "close", "panic", "write"}
      BY <2>0
    <3> HIDE DEF console, network, step
    <3>5. CASE step # "write"
      <4>1. step \in DrainStep /\ step # "body"
        BY <3>4 DEF DrainStep
      <4>2. DrainGoes(d, step)
        BY <3>2, <3>5 DEF DrainGoes
      <4>3. PICK q : q = step
        OBVIOUS
      <4> QED
        BY <1>1, <2>1, <3>1, <4>1, <4>2, <4>3
    <3>6. CASE step = "write"
      <4>1. PICK r : r = [drain[d] EXCEPT !.step = "write", !.console = console, !.network = network]
        OBVIOUS
      <4>2. r \in DrainRecord /\ r.step = "write"
        BY <2>0, <3>3, <4>1 DEF DrainRecord, DrainStep
      <4>3. Moves(d, r)
        BY <1>1, <3>2, <3>6, <4>1, <4>2 DEF Moves
      <4> QED
        BY <1>1, <3>1, <4>2, <4>3, MoveTyped
    <3> QED
      BY <3>5, <3>6
  <2>5. /\ drain[d].console \in Seq(Console \cup Network) /\ drain[d].network \in Seq(Console \cup Network)
        /\ sink.lines \in Seq(Console \cup Network)
    BY <1>1, <2>0, SeqMonotonic DEF DrainRecord, Sinks
  <2>l. CASE WritePending(d)
    <3>1. CASE sink.open
      <4>1. sink.lines \o drain[d].console \o drain[d].network \in Seq(Console \cup Network)
        BY <2>5, ConcatTyped
      <4>2. sink' = [sink EXCEPT !.lines = sink.lines \o drain[d].console \o drain[d].network]
        BY <2>l, <3>1 DEF WritePending
      <4>3. sink' \in Sinks
        BY <1>1, <4>1, <4>2 DEF Sinks
      <4>4. "advance" \in DrainStep /\ DrainGoes(d, "advance")
        BY <2>l, <3>1 DEF WritePending, DrainStep
      <4> QED
        BY <1>1, <2>1, <2>l, <4>3, <4>4 DEF WritePending, Flagged
    <3>2. CASE ~sink.open
      <4>1. "panic" \in DrainStep /\ DrainGoes(d, "panic") /\ UNCHANGED sink
        BY <2>l, <3>2 DEF WritePending, DrainStep
      <4> QED
        BY <1>1, <2>1, <2>l, <4>1 DEF WritePending, Flagged
    <3> QED
      BY <3>1, <3>2
  <2>6. ASSUME NEW r, r = [drain[d] EXCEPT !.step = After(d), !.console = <<>>, !.network = <<>>]
        PROVE  r \in DrainRecord /\ r.step # "body"
    BY <1>2, <2>0, <2>6 DEF DrainRecord
  <2>m. CASE WriteFails(d)
    <3> DEFINE pending == drain[d].console \o drain[d].network
    <3>1. PICK n \in 0 .. Len(pending) - 1 :
             sink' = [sink EXCEPT !.lines = @ \o SubSeq(pending, 1, n), !.intact = FALSE]
      BY <2>m DEF WriteFails
    <3>2. pending \in Seq(Console \cup Network)
      BY <2>5, ConcatTyped
    <3> HIDE DEF pending
    <3>3. n \in 0 .. Len(pending)
      BY <3>2, LenProperties
    <3>4. SubSeq(pending, 1, n) \in Seq(Console \cup Network)
      BY <3>2, <3>3, SubTyped
    <3>5. sink.lines \o SubSeq(pending, 1, n) \in Seq(Console \cup Network)
      BY <2>5, <3>4, ConcatTyped
    <3>6. sink' \in Sinks
      BY <1>1, <3>1, <3>5 DEF Sinks
    <3>7. PICK r : r = [drain[d] EXCEPT !.step = After(d), !.console = <<>>, !.network = <<>>]
      OBVIOUS
    <3>8. r \in DrainRecord /\ r.step # "body"
      BY <2>6, <3>7
    <3>9. Moves(d, r)
      BY <1>1, <2>m, <3>7, <3>8 DEF WriteFails, Moves
    <3> QED
      BY <1>1, <1>4, <2>m, <3>6, <3>8, <3>9, MoveTyped DEF WriteFails, Flagged
  <2>n. CASE AdvanceSink(d)
    <3>1. Len(drain[d].console) \in Nat /\ Len(drain[d].network) \in Nat
      BY <2>5, LenProperties
    <3>a. sink.nextConsole \in Nat /\ sink.nextNetwork \in Nat
      BY <1>1 DEF Sinks
    <3>b. /\ sink.nextConsole + Len(drain[d].console) \in Nat
          /\ sink.nextNetwork + Len(drain[d].network) \in Nat
      <4>1. \A x, y \in Nat : x + y \in Nat
        OBVIOUS
      <4> QED
        BY <3>1, <3>a, <4>1, Zenon
    <3>c. PICK m \in Nat, n \in Nat : /\ m = sink.nextConsole + Len(drain[d].console)
                                     /\ n = sink.nextNetwork + Len(drain[d].network)
      BY <3>b
    <3>e. sink' = [sink EXCEPT !.nextConsole = @ + Len(drain[d].console),
                               !.nextNetwork = @ + Len(drain[d].network)]
      BY <2>n DEF AdvanceSink
    <3>d. sink' = [sink EXCEPT !.nextConsole = m, !.nextNetwork = n]
      BY <3>c, <3>e, Zenon
    <3>2. sink' \in Sinks
      BY <1>1, <3>c, <3>d DEF Sinks
    <3>3. PICK r : r = [drain[d] EXCEPT !.step = After(d), !.console = <<>>, !.network = <<>>]
      OBVIOUS
    <3>4. r \in DrainRecord /\ r.step # "body"
      BY <2>6, <3>3
    <3>5. Moves(d, r)
      BY <1>1, <2>n, <3>3, <3>4 DEF AdvanceSink, Moves
    <3> QED
      BY <1>1, <2>n, <3>2, <3>4, <3>5, MoveTyped DEF AdvanceSink, Flagged
  <2>o. CASE CloseSink(d)
    <3>1. NoDrain \in DrainRecord /\ NoDrain.step # "body"
      BY <1>2 DEF NoDrain, DrainRecord, DrainStep
    <3>2. sink' \in Sinks
      BY <1>1, <2>o DEF CloseSink, Sinks
    <3>3. Moves(d, NoDrain)
      BY <2>o, <3>1 DEF CloseSink, Moves
    <3>4. PICK left \in SUBSET browser.enabled :
             /\ browser' = [browser EXCEPT !.enabled = left]
             /\ IF left = {} THEN UNCHANGED capture ELSE Loses(capture)
      BY <2>o DEF CloseSink
    <3>5. browser' \in Browsers /\ capture' \in Captures
      <4>1. left \in SUBSET Domain
        BY <1>1, <3>4 DEF Browsers
      <4>2. browser' \in Browsers
        BY <1>1, <3>4, <4>1 DEF Browsers
      <4> QED
        BY <1>1, <1>4, <3>4, <4>2
    <3> QED
      BY <1>1, <2>o, <3>1, <3>2, <3>3, <3>5, MoveTyped DEF CloseSink, Flagged
  <2> QED
    BY <1>g, <2>a, <2>b, <2>c, <2>d, <2>e, <2>f, <2>g, <2>h, <2>i, <2>k, <2>l, <2>m, <2>n,
       <2>o, <2>p, <2>q DEF Drains
<1> QED
  BY <1>a, <1>b, <1>c, <1>d, <1>e, <1>f, <1>g DEF CaptureNext

-----------------------------------------------------------------------------
(* SinkInOrder. An entry of the console or a request that has ended is in  *)
(* the logs of the browser, read by a drain, kept in a buffer, or none of  *)
(* them. Whatever is further on is not behind as well, and as long as no   *)
(* two drains overlap it is older, in each log; and the lines of the sink  *)
(* are further on than all but what the buffers hold before its positions. *)

Line == Console \cup Network

\* The events that become an entry or a request that has ended, and what they become.
Told(e) == e.event # "sent"
Item(e) == [type |-> IF e.event = "runtime" THEN "runtime" ELSE "network", of |-> e.of]

Gathered(s) == {s[i] : i \in 1 .. Len(s)}
Items(s) == {Item(s[i]) : i \in {j \in 1 .. Len(s) : Told(s[j])}}

\* Entry a is another than b and, if drains are in step and both are of one log, older.
Precedes(strict, a, b) ==
    a # b /\ (strict /\ a.type = b.type /\ a.type # "network" => a.of < b.of)
Ahead(strict, A, B) == \A a \in A, b \in B : Precedes(strict, a, b)
InLine(strict, s) == \A i, j \in 1 .. Len(s) : i < j => Precedes(strict, s[i], s[j])
EventsInLine(strict, s) ==
    \A i, j \in 1 .. Len(s) :
       i < j /\ Told(s[i]) /\ Told(s[j]) => Precedes(strict, Item(s[i]), Item(s[j]))
\* What the sink has is ahead of what a buffer holds past position m.
Behind(strict, W, s, m) == \A i \in 1 .. Len(s) : i > m => \A w \in W : Precedes(strict, w, s[i])

\* The way from the logs (L) over the drains (R) to the buffers (K).
Flow(strict, L, R, K) ==
    /\ Ahead(strict, K, L)
    /\ \A d \in Drainer : Ahead(strict, K, R[d]) /\ Ahead(strict, R[d], L)
    /\ \A d, e \in Drainer : d # e => Ahead(strict, R[d], R[e])
\* What is written is neither in the logs nor read.
Past(strict, W, L, R) == Ahead(strict, W, L) /\ \A d \in Drainer : Ahead(strict, W, R[d])

LEMMA PrecedesWeaker ==
    ASSUME NEW o \in BOOLEAN, NEW p \in BOOLEAN, p => o
    PROVE  /\ \A a, b : Precedes(o, a, b) => Precedes(p, a, b)
           /\ \A A, B : Ahead(o, A, B) => Ahead(p, A, B)
           /\ \A s : InLine(o, s) => InLine(p, s)
           /\ \A s : EventsInLine(o, s) => EventsInLine(p, s)
           /\ \A W, s, m : Behind(o, W, s, m) => Behind(p, W, s, m)
           /\ \A L, R, K : Flow(o, L, R, K) => Flow(p, L, R, K)
           /\ \A W, L, R : Past(o, W, L, R) => Past(p, W, L, R)
<1>1. \A a, b : Precedes(o, a, b) => Precedes(p, a, b)
  BY DEF Precedes
<1>2. \A A, B : Ahead(o, A, B) => Ahead(p, A, B)
  BY <1>1 DEF Ahead
<1>3. \A s : InLine(o, s) => InLine(p, s)
  BY <1>1 DEF InLine
<1>4. \A s : EventsInLine(o, s) => EventsInLine(p, s)
  BY <1>1 DEF EventsInLine
<1>5. \A W, s, m : Behind(o, W, s, m) => Behind(p, W, s, m)
  BY <1>1 DEF Behind
<1>6. \A L, R, K : Flow(o, L, R, K) => Flow(p, L, R, K)
  BY <1>2 DEF Flow
<1>7. \A W, L, R : Past(o, W, L, R) => Past(p, W, L, R)
  BY <1>2 DEF Past
<1> QED
  BY <1>1, <1>2, <1>3, <1>4, <1>5, <1>6, <1>7

LEMMA AheadPart ==
    ASSUME NEW o, NEW A, NEW B, Ahead(o, A, B), NEW C, NEW D, C \subseteq A, D \subseteq B
    PROVE  Ahead(o, C, D)
BY DEF Ahead

\* Something is skipped, or cleared.
LEMMA FlowShrinks ==
    ASSUME NEW o, NEW L, NEW R, NEW K, Flow(o, L, R, K),
           NEW M, NEW S, NEW J, M \subseteq L, J \subseteq K, \A d \in Drainer : S[d] \subseteq R[d]
    PROVE  Flow(o, M, S, J)
BY DEF Flow, Ahead

\* X enters the logs.
LEMMA FlowEnters ==
    ASSUME NEW o, NEW L, NEW R, NEW K, Flow(o, L, R, K),
           NEW X, Ahead(o, K, X), \A d \in Drainer : Ahead(o, R[d], X), NEW M, M \subseteq L \cup X
    PROVE  Flow(o, M, R, K)
BY DEF Flow, Ahead

\* Drain d reads X.
LEMMA FlowReads ==
    ASSUME NEW o \in BOOLEAN, NEW L, NEW R, NEW K, Flow(o, L, R, K), NEW d \in Drainer,
           NEW X, X \subseteq L, NEW M, M \subseteq L, Ahead(o, X, M),
           NEW S, S[d] \subseteq R[d] \cup X, \A e \in Drainer : e # d => S[e] = R[e],
           o => \A e \in Drainer : e # d => R[e] = {}
    PROVE  Flow(o, M, S, K)
<1>1. Ahead(o, K, M)
  BY DEF Flow, Ahead
<1>2. ASSUME NEW e \in Drainer PROVE Ahead(o, K, S[e]) /\ Ahead(o, S[e], M)
  BY DEF Flow, Ahead
<1>3. ASSUME NEW e \in Drainer, e # d PROVE Ahead(o, S[e], S[d])
  BY <1>3 DEF Flow, Ahead
<1>4. ASSUME NEW e \in Drainer, e # d PROVE Ahead(o, S[d], S[e])
  <2>1. CASE o
    BY <1>4, <2>1 DEF Ahead
  <2>2. CASE ~o
    BY <1>3, <1>4, <2>2 DEF Ahead, Precedes
  <2> QED
    BY <2>1, <2>2
<1>5. ASSUME NEW e \in Drainer, NEW f \in Drainer, e # f PROVE Ahead(o, S[e], S[f])
  <2>1. CASE e # d /\ f # d
    BY <1>5, <2>1 DEF Flow
  <2> QED
    BY <1>3, <1>4, <1>5, <2>1
<1> QED
  BY <1>1, <1>2, <1>5 DEF Flow

\* Drain d puts X into a buffer.
LEMMA FlowKeeps ==
    ASSUME NEW o \in BOOLEAN, NEW L, NEW R, NEW K, Flow(o, L, R, K), NEW d \in Drainer,
           NEW X, X \subseteq R[d], NEW S, S[d] \subseteq R[d], Ahead(o, X, S[d]),
           \A e \in Drainer : e # d => S[e] = R[e], NEW J, J \subseteq K \cup X
    PROVE  Flow(o, L, S, J)
<1>1. Ahead(o, J, L)
  BY DEF Flow, Ahead
<1>2. ASSUME NEW e \in Drainer PROVE Ahead(o, J, S[e]) /\ Ahead(o, S[e], L)
  BY DEF Flow, Ahead
<1>3. ASSUME NEW e \in Drainer, NEW f \in Drainer, e # f PROVE Ahead(o, S[e], S[f])
  BY <1>3 DEF Flow, Ahead
<1> QED
  BY <1>1, <1>2, <1>3 DEF Flow

\* What is in the logs or read was so before, or is X.
LEMMA PastMoves ==
    ASSUME NEW o, NEW W, NEW L, NEW R, Past(o, W, L, R), NEW X, Ahead(o, W, X), NEW M, NEW S,
           \A x \in M : x \in L \cup X \/ \E d \in Drainer : x \in R[d],
           \A d \in Drainer : \A x \in S[d] : x \in L \cup X \/ \E e \in Drainer : x \in R[e]
    PROVE  Past(o, W, M, S)
<1>1. \A w \in W : \A x : (x \in L \cup X \/ \E d \in Drainer : x \in R[d]) => Precedes(o, w, x)
  BY DEF Past, Ahead
<1> QED
  BY <1>1 DEF Past, Ahead

-----------------------------------------------------------------------------
(* Logs and buffers that grow and shrink.                                  *)

LEMMA EntryAt == ASSUME NEW S, NEW s \in Seq(S)
                PROVE  Len(s) \in Nat /\ \A i \in 1 .. Len(s) : s[i] \in S
  BY LenProperties, ElementOfSeq
LEMMA AppendPlaces ==
    ASSUME NEW S, NEW s \in Seq(S), NEW e \in S
    PROVE  /\ Append(s, e) \in Seq(S) /\ Len(Append(s, e)) = Len(s) + 1
           /\ \A i \in 1 .. Len(s) : Append(s, e)[i] = s[i]
           /\ Append(s, e)[Len(s) + 1] = e
  BY AppendProperties
LEMMA ConcatPlaces ==
    ASSUME NEW S, NEW s \in Seq(S), NEW t \in Seq(S)
    PROVE  /\ s \o t \in Seq(S) /\ Len(s \o t) = Len(s) + Len(t)
           /\ \A i \in 1 .. Len(s) : (s \o t)[i] = s[i]
           /\ \A i \in 1 .. Len(s) + Len(t) :
                 i > Len(s) => (s \o t)[i] = t[i - Len(s)] /\ i - Len(s) \in 1 .. Len(t)
<1>1. Len(s) \in Nat /\ Len(t) \in Nat
  BY LenProperties
<1>2. /\ s \o t \in Seq(S) /\ Len(s \o t) = Len(s) + Len(t)
      /\ \A i \in 1 .. Len(s) + Len(t) :
            (s \o t)[i] = IF i <= Len(s) THEN s[i] ELSE t[i - Len(s)]
  BY ConcatProperties
<1> QED
  BY <1>1, <1>2
\* What is pending past position m.
LEMMA PendingPlaces ==
    ASSUME NEW S, NEW s \in Seq(S), NEW m \in Nat, m <= Len(s)
    PROVE  /\ SubSeq(s, m + 1, Len(s)) \in Seq(S)
           /\ Len(SubSeq(s, m + 1, Len(s))) = Len(s) - m
           /\ \A i \in 1 .. Len(s) - m : SubSeq(s, m + 1, Len(s))[i] = s[m + i]
<1>1. Len(s) \in Nat /\ m + 1 \in Int /\ \A i \in m + 1 .. Len(s) : s[i] \in S
  BY EntryAt
<1>2. /\ SubSeq(s, m + 1, Len(s)) \in Seq(S)
      /\ Len(SubSeq(s, m + 1, Len(s))) = IF m + 1 <= Len(s) THEN Len(s) - (m + 1) + 1 ELSE 0
      /\ \A i \in 1 .. Len(s) - (m + 1) + 1 : SubSeq(s, m + 1, Len(s))[i] = s[m + 1 + i - 1]
  BY <1>1, SubSeqProperties
<1>3. Len(s) - (m + 1) + 1 = Len(s) - m /\ (m + 1 <= Len(s) \/ Len(s) - m = 0)
  BY <1>1
<1>4. Len(SubSeq(s, m + 1, Len(s))) = Len(s) - m
  BY <1>2, <1>3
<1>5. ASSUME NEW i \in 1 .. Len(s) - m
      PROVE  SubSeq(s, m + 1, Len(s))[i] = s[m + i]
  <2>1. i \in 1 .. Len(s) - (m + 1) + 1 /\ m + 1 + i - 1 = m + i
    BY <1>1
  <2>2. SubSeq(s, m + 1, Len(s))[i] = s[m + 1 + i - 1]
    BY <1>2, <2>1
  <2> QED
    BY <2>1, <2>2
<1> QED
  BY <1>2, <1>4, <1>5
LEMMA NothingThere ==
    /\ Len(<<>>) = 0 /\ Gathered(<<>>) = {} /\ Items(<<>>) = {}
    /\ \A o : InLine(o, <<>>) /\ EventsInLine(o, <<>>)
<1>1. Len(<<>>) = 0 /\ 1 .. Len(<<>>) = {}
  BY EmptySeq
<1> QED
  BY <1>1 DEF Gathered, Items, InLine, EventsInLine

LEMMA EntriesAppend ==
    ASSUME NEW S, NEW s \in Seq(S), NEW e \in S, NEW t, t = Append(s, e)
    PROVE  /\ Gathered(t) = Gathered(s) \cup {e}
           /\ \A o : InLine(o, s) /\ Ahead(o, Gathered(s), {e}) => InLine(o, t)
           /\ \A o, W, m : Behind(o, W, s, m) /\ Ahead(o, W, {e}) => Behind(o, W, t, m)
<1>1. /\ Len(t) = Len(s) + 1 /\ t[Len(s) + 1] = e /\ \A i \in 1 .. Len(s) : t[i] = s[i]
      /\ Len(s) \in Nat
  BY AppendPlaces, EntryAt
<1>2. \A i \in 1 .. Len(t) : (i \in 1 .. Len(s) /\ t[i] = s[i]) \/ (i = Len(s) + 1 /\ t[i] = e)
  BY <1>1
<1>3. Gathered(t) = Gathered(s) \cup {e}
  <2>1. Gathered(t) \subseteq Gathered(s) \cup {e}
    BY <1>2 DEF Gathered
  <2>2. \A i \in 1 .. Len(s) : i \in 1 .. Len(t)
    BY <1>1
  <2>3. Len(s) + 1 \in 1 .. Len(t)
    BY <1>1
  <2>4. Gathered(s) \subseteq Gathered(t)
    BY <1>1, <2>2 DEF Gathered
  <2>5. e \in Gathered(t)
    BY <1>1, <2>3 DEF Gathered
  <2> QED
    BY <2>1, <2>4, <2>5
<1>4. ASSUME NEW o, InLine(o, s), Ahead(o, Gathered(s), {e}) PROVE InLine(o, t)
  <2> SUFFICES ASSUME NEW i \in 1 .. Len(t), NEW j \in 1 .. Len(t), i < j
               PROVE  Precedes(o, t[i], t[j])
    BY DEF InLine
  <2>1. i \in 1 .. Len(s) /\ t[i] = s[i] /\ s[i] \in Gathered(s)
    BY <1>1, <1>2 DEF Gathered
  <2> QED
    BY <1>2, <1>4, <2>1 DEF InLine, Ahead
<1>5. ASSUME NEW o, NEW W, NEW m, Behind(o, W, s, m), Ahead(o, W, {e}) PROVE Behind(o, W, t, m)
  BY <1>2, <1>5 DEF Behind, Ahead
<1> QED
  BY <1>3, <1>4, <1>5

LEMMA EntriesConcat ==
    ASSUME NEW S, NEW s \in Seq(S), NEW t \in Seq(S), NEW u, u = s \o t
    PROVE  /\ Gathered(u) = Gathered(s) \cup Gathered(t)
           /\ \A o : InLine(o, s) /\ InLine(o, t) /\ Ahead(o, Gathered(s), Gathered(t)) => InLine(o, u)
           /\ \A o, W, m : Behind(o, W, s, m) /\ Ahead(o, W, Gathered(t)) => Behind(o, W, u, m)
<1>1. /\ Len(u) = Len(s) + Len(t) /\ \A i \in 1 .. Len(s) : u[i] = s[i]
      /\ \A i \in 1 .. Len(s) + Len(t) :
            i > Len(s) => u[i] = t[i - Len(s)] /\ i - Len(s) \in 1 .. Len(t)
      /\ Len(s) \in Nat /\ Len(t) \in Nat
  BY ConcatPlaces, EntryAt
<1>2. \A i \in 1 .. Len(u) : \/ i \in 1 .. Len(s) /\ u[i] = s[i] /\ u[i] \in Gathered(s)
                             \/ /\ i > Len(s) /\ i - Len(s) \in 1 .. Len(t)
                                /\ u[i] = t[i - Len(s)] /\ u[i] \in Gathered(t)
  BY <1>1 DEF Gathered
<1>3. Gathered(u) = Gathered(s) \cup Gathered(t)
  <2>1. Gathered(u) \subseteq Gathered(s) \cup Gathered(t)
    BY <1>2 DEF Gathered
  <2>2. Gathered(s) \subseteq Gathered(u)
    <3>1. \A i \in 1 .. Len(s) : i \in 1 .. Len(u)
      BY <1>1
    <3> QED
      BY <1>1, <3>1 DEF Gathered
  <2>3. Gathered(t) \subseteq Gathered(u)
    <3>1. \A i \in 1 .. Len(t) : i + Len(s) \in 1 .. Len(u) /\ u[i + Len(s)] = t[i]
      <4> SUFFICES ASSUME NEW i \in 1 .. Len(t)
                   PROVE  i + Len(s) \in 1 .. Len(u) /\ u[i + Len(s)] = t[i]
        OBVIOUS
      <4>1. i + Len(s) \in 1 .. Len(s) + Len(t) /\ i + Len(s) > Len(s) /\ (i + Len(s)) - Len(s) = i
        BY <1>1
      <4> QED
        BY <1>1, <4>1
    <3> QED
      BY <3>1 DEF Gathered
  <2> QED
    BY <2>1, <2>2, <2>3
<1>4. ASSUME NEW o, InLine(o, s), InLine(o, t), Ahead(o, Gathered(s), Gathered(t)) PROVE InLine(o, u)
  <2> SUFFICES ASSUME NEW i \in 1 .. Len(u), NEW j \in 1 .. Len(u), i < j
               PROVE  Precedes(o, u[i], u[j])
    BY DEF InLine
  <2>1. CASE j \in 1 .. Len(s)
    <3>1. i \in 1 .. Len(s) /\ u[i] = s[i] /\ u[j] = s[j]
      BY <1>1, <2>1
    <3> QED
      BY <1>4, <2>1, <3>1 DEF InLine
  <2>2. CASE /\ j > Len(s) /\ j - Len(s) \in 1 .. Len(t)
             /\ u[j] = t[j - Len(s)] /\ u[j] \in Gathered(t)
    <3>1. CASE i \in 1 .. Len(s) /\ u[i] \in Gathered(s)
      BY <1>4, <2>2, <3>1 DEF Ahead
    <3>2. CASE i > Len(s) /\ i - Len(s) \in 1 .. Len(t) /\ u[i] = t[i - Len(s)]
      <4>1. i - Len(s) < j - Len(s)
        BY <1>1
      <4> QED
        BY <1>4, <2>2, <3>2, <4>1 DEF InLine
    <3> QED
      BY <1>2, <3>1, <3>2
  <2> QED
    BY <1>2, <2>1, <2>2
<1>5. ASSUME NEW o, NEW W, NEW m, Behind(o, W, s, m), Ahead(o, W, Gathered(t)) PROVE Behind(o, W, u, m)
  BY <1>2, <1>5 DEF Behind, Ahead
<1> QED
  BY <1>3, <1>4, <1>5

LEMMA ItemsAppend ==
    ASSUME NEW s \in Seq(NetEvent), NEW e \in NetEvent, NEW t, t = Append(s, e)
    PROVE  /\ Items(t) = Items(s) \cup (IF Told(e) THEN {Item(e)} ELSE {})
           /\ \A o : EventsInLine(o, s) /\ (Told(e) => Ahead(o, Items(s), {Item(e)}))
                     => EventsInLine(o, t)
<1>1. /\ Len(t) = Len(s) + 1 /\ t[Len(s) + 1] = e /\ \A i \in 1 .. Len(s) : t[i] = s[i]
      /\ Len(s) \in Nat
  BY AppendPlaces, EntryAt
<1>2. \A i \in 1 .. Len(t) : (i \in 1 .. Len(s) /\ t[i] = s[i]) \/ (i = Len(s) + 1 /\ t[i] = e)
  BY <1>1
<1>3. Len(s) + 1 \in 1 .. Len(t) /\ \A i \in 1 .. Len(s) : i \in 1 .. Len(t)
  BY <1>1
<1>4. Items(t) = Items(s) \cup (IF Told(e) THEN {Item(e)} ELSE {})
  <2>1. Items(t) \subseteq Items(s) \cup (IF Told(e) THEN {Item(e)} ELSE {})
    BY <1>2 DEF Items
  <2>2. Items(s) \subseteq Items(t)
    BY <1>1, <1>3 DEF Items
  <2>3. Told(e) => Item(e) \in Items(t)
    BY <1>1, <1>3 DEF Items
  <2> QED
    BY <2>1, <2>2, <2>3
<1>5. ASSUME NEW o, EventsInLine(o, s), Told(e) => Ahead(o, Items(s), {Item(e)})
      PROVE  EventsInLine(o, t)
  <2> SUFFICES ASSUME NEW i \in 1 .. Len(t), NEW j \in 1 .. Len(t), i < j, Told(t[i]), Told(t[j])
               PROVE  Precedes(o, Item(t[i]), Item(t[j]))
    BY DEF EventsInLine
  <2>1. i \in 1 .. Len(s) /\ t[i] = s[i]
    BY <1>1
  <2>2. Item(s[i]) \in Items(s)
    BY <2>1 DEF Items
  <2> QED
    BY <1>2, <1>5, <2>1, <2>2 DEF EventsInLine, Ahead
<1> QED
  BY <1>4, <1>5

LEMMA ItemsTail ==
    ASSUME NEW s \in Seq(NetEvent), s # <<>>, NEW t, t = Tail(s)
    PROVE  /\ Items(t) \subseteq Items(s)
           /\ Told(Head(s)) => Item(Head(s)) \in Items(s)
           /\ \A o : EventsInLine(o, s) =>
                 EventsInLine(o, t) /\ (Told(Head(s)) => Ahead(o, {Item(Head(s))}, Items(t)))
<1>1. /\ t \in Seq(NetEvent) /\ Len(t) = Len(s) - 1 /\ \A i \in 1 .. Len(t) : t[i] = s[i + 1]
  BY HeadTailProperties
<1>2. Len(s) \in Nat /\ Len(s) # 0 /\ s[1] = Head(s)
  BY EmptySeq, LenProperties
<1>3. 1 \in 1 .. Len(s) /\ \A i \in 1 .. Len(t) : i + 1 \in 1 .. Len(s) /\ t[i] = s[i + 1] /\ 1 < i + 1
  BY <1>1, <1>2
<1>4. Items(t) \subseteq Items(s)
  BY <1>3 DEF Items
<1>5. Told(Head(s)) => Item(Head(s)) \in Items(s)
  BY <1>2, <1>3 DEF Items
<1>6. ASSUME NEW o, EventsInLine(o, s) PROVE EventsInLine(o, t)
  <2> SUFFICES ASSUME NEW i \in 1 .. Len(t), NEW j \in 1 .. Len(t), i < j, Told(t[i]), Told(t[j])
               PROVE  Precedes(o, Item(t[i]), Item(t[j]))
    BY DEF EventsInLine
  <2>1. i + 1 < j + 1
    BY <1>1
  <2> QED
    BY <1>3, <1>6, <2>1 DEF EventsInLine
<1>7. ASSUME NEW o, EventsInLine(o, s), Told(Head(s)) PROVE Ahead(o, {Item(Head(s))}, Items(t))
  <2> SUFFICES ASSUME NEW i \in 1 .. Len(t), Told(t[i])
               PROVE  Precedes(o, Item(Head(s)), Item(t[i]))
    BY DEF Ahead, Items
  <2> QED
    BY <1>2, <1>3, <1>7 DEF EventsInLine
<1> QED
  BY <1>4, <1>5, <1>6, <1>7

-----------------------------------------------------------------------------
(* The invariant of the order.                                             *)

Strict == "drain" \notin overlapped
Alone == "flush" \notin overlapped

Logged == Gathered(browser.console) \cup Items(browser.events)
Read(d) == (IF DrainAt(d, "append") THEN Gathered(drain[d].console) ELSE {})
             \cup Items(drain[d].events)
Reads == [d \in Drainer |-> Read(d)]
Kept == Gathered(capture.console) \cup Gathered(capture.completed)
Written == Gathered(sink.lines)

\* What the browser has logged, or did not log because nobody asked for it.
Entered(x) ==
    x \in Line /\ IF x.type = "network" THEN browser.requests[x.of] = "ended"
                  ELSE x.of <= browser.entries

\* Events are held while they are handled; drains that never overlapped take turns.
DrainPlaces ==
    /\ \A d \in Drainer : drain[d].step \notin {"handle", "body"} => drain[d].events = <<>>
    /\ Strict => \A d, e \in Drainer : Draining(d) /\ Draining(e) => d = e

LogsInLine ==
    /\ InLine(Strict, browser.console) /\ EventsInLine(Strict, browser.events)
    /\ InLine(Strict, capture.console) /\ InLine(Strict, capture.completed)
    /\ \A x \in Gathered(browser.console) : x.type = "console"
    /\ \A d \in Drainer :
          /\ EventsInLine(Strict, drain[d].events)
          /\ DrainAt(d, "append") => /\ InLine(Strict, drain[d].console)
                                     /\ \A x \in Gathered(drain[d].console) : x.type = "console"

AllEntered == /\ \A x \in Logged \cup Kept : Entered(x)
              /\ \A d \in Drainer : \A x \in Read(d) : Entered(x)

OrderCore == LogsInLine /\ Flow(Strict, Logged, Reads, Kept) /\ AllEntered

\* What a flush has taken is in the buffers past the positions.
Pending(d) == drain[d].step \in {"write", "advance"}
Slice(s, m, p) == m + Len(p) <= Len(s) /\ \A i \in 1 .. Len(p) : p[i] = s[m + i]
SinkPositions ==
    /\ sink.nextConsole <= Len(capture.console) /\ sink.nextNetwork <= Len(capture.completed)
    /\ \A d, e \in Drainer : Pending(d) /\ Pending(e) => d = e
    /\ \A d \in Drainer : Pending(d) => /\ Slice(capture.console, sink.nextConsole, drain[d].console)
                                        /\ Slice(capture.completed, sink.nextNetwork, drain[d].network)

Clean(m, n) == /\ Behind(Strict, Written, capture.console, m)
               /\ Behind(Strict, Written, capture.completed, n)
LinesInOrder ==
    /\ InLine(Strict, sink.lines)
    /\ \A x \in Written : Entered(x)
    /\ Past(Strict, Written, Logged, Reads)
    /\ (\A d \in Drainer : ~DrainAt(d, "advance")) => Clean(sink.nextConsole, sink.nextNetwork)
    /\ \A d \in Drainer : DrainAt(d, "advance") =>
          Clean(sink.nextConsole + Len(drain[d].console), sink.nextNetwork + Len(drain[d].network))

SinkInv == Alone => SinkPositions /\ (sink.intact => LinesInOrder)

OrderInv == CTInv /\ DrainPlaces /\ OrderCore /\ SinkInv

LEMMA CaptureFacts ==
    ASSUME CTInv
    PROVE  /\ browser \in Browsers /\ capture \in Captures /\ sink \in Sinks
           /\ drain \in [Drainer -> DrainRecord] /\ Flagged
           /\ browser.console \in Seq(Console) /\ browser.events \in Seq(NetEvent)
           /\ capture.console \in Seq(Console) /\ capture.completed \in Seq(Network)
           /\ sink.lines \in Seq(Line) /\ sink.nextConsole \in Nat /\ sink.nextNetwork \in Nat
           /\ browser.entries \in Nat
           /\ \A d \in Drainer : /\ drain[d] \in DrainRecord /\ drain[d].events \in Seq(NetEvent)
                                 /\ drain[d].console \in Seq(Console) /\ drain[d].network \in Seq(Network)
<1>1. /\ browser \in Browsers /\ capture \in Captures /\ sink \in Sinks
      /\ drain \in [Drainer -> DrainRecord] /\ Flagged
  BY CaptureTyped DEF CTInv
<1>2. \A d \in Drainer : drain[d] \in DrainRecord
  BY <1>1
<1>3. MaxConsole \in Nat
  BY CaptureAssumption
<1> QED
  BY <1>1, <1>2, <1>3 DEF Browsers, Captures, Sinks, DrainRecord, Line

LEMMA StrictBoolean == Strict \in BOOLEAN /\ Strict' \in BOOLEAN
  BY DEF Strict

\* What is older than what is new.
LEMMA LineKinds ==
    /\ \A x \in Console : x \in Line /\ x.type \in {"console", "runtime"} /\ x.of \in Int
    /\ \A x \in Network : x \in Line /\ x.type = "network" /\ x.of \in NetRequest
    /\ \A x \in Line : x \in Console \/ x \in Network
    /\ \A e \in NetEvent : Told(e) => /\ Item(e) \in Line /\ Item(e).type \in {"runtime", "network"}
                                      /\ Item(e).of = e.of
                                      /\ e.event = "runtime" => Item(e).type = "runtime"
                                      /\ e.event # "runtime" => Item(e).type = "network"
<1>1. MaxConsole \in Nat
  BY CaptureAssumption
<1> QED
  BY <1>1 DEF Line, Console, Network, NetEvent, Told, Item

LEMMA EntryOlder ==
    ASSUME CTInv, NEW x, Entered(x), NEW o, NEW t \in {"console", "runtime"}
    PROVE  Precedes(o, x, [type |-> t, of |-> browser.entries + 1])
<1>1. browser.entries \in Nat
  BY CaptureFacts
<1>2. CASE x.type = "network"
  BY <1>2 DEF Precedes
<1>3. CASE x.type # "network"
  <2>1. x.of <= browser.entries /\ x.of \in Int
    BY <1>3, LineKinds DEF Entered
  <2>2. x.of < browser.entries + 1 /\ x.of # browser.entries + 1
    BY <1>1, <2>1
  <2> QED
    BY <2>2 DEF Precedes
<1> QED
  BY <1>2, <1>3

LEMMA RequestOlder ==
    ASSUME NEW x, Entered(x), NEW o, NEW r \in NetRequest, browser.requests[r] # "ended"
    PROVE  Precedes(o, x, [type |-> "network", of |-> r])
BY DEF Entered, Precedes

LEMMA OtherType ==
    ASSUME NEW a, NEW b, NEW o, a.type # b.type
    PROVE  Precedes(o, a, b)
BY DEF Precedes

LEMMA ItemTypes ==
    ASSUME NEW s \in Seq(NetEvent)
    PROVE  \A x \in Items(s) : x \in Line /\ x.type # "console"
<1>1. \A i \in 1 .. Len(s) : s[i] \in NetEvent
  BY EntryAt
<1> QED
  BY <1>1, LineKinds DEF Items

-----------------------------------------------------------------------------
(* What most steps leave as it is.                                         *)

LEMMA OthersReadNothing ==
    ASSUME CTInv, DrainPlaces, Strict, NEW d \in Drainer, Draining(d), NEW e \in Drainer, e # d
    PROVE  Read(e) = {}
<1>1. ~Draining(e)
  BY DEF DrainPlaces
<1>2. drain[e].step \in {"idle", "panic"}
  BY <1>1 DEF Draining
<1>3. drain[e].events = <<>> /\ ~DrainAt(e, "append")
  BY <1>2 DEF DrainPlaces, DrainAt
<1> QED
  BY <1>3, NothingThere DEF Read

LEMMA DrainTurns ==
    ASSUME CTInv, DrainPlaces, NEW d \in Drainer, Draining(d), Strict' => Strict,
           \A e \in Drainer : e # d => drain'[e] = drain[e],
           drain'[d].step \notin {"handle", "body"} => drain'[d].events = <<>>
    PROVE  DrainPlaces'
<1>1. \A e \in Drainer : Draining(e)' => Draining(e)
  BY DEF Draining
<1> QED
  BY <1>1 DEF DrainPlaces

LEMMA CoreStays ==
    ASSUME CTInv, OrderCore, Strict' => Strict,
           browser'.console = browser.console, browser'.events = browser.events,
           browser'.requests = browser.requests, browser'.entries = browser.entries,
           capture'.console = capture.console, capture'.completed = capture.completed,
           \A e \in Drainer : /\ drain'[e].events = drain[e].events
                              /\ drain'[e].step = "append" => drain'[e] = drain[e]
    PROVE  /\ OrderCore' /\ Logged' = Logged /\ \A e \in Drainer : Reads'[e] \subseteq Reads[e]
           /\ \A x : Entered(x)' <=> Entered(x)
<1>1. Logged' = Logged /\ Kept' = Kept /\ \A x : Entered(x)' <=> Entered(x)
  BY DEF Logged, Kept, Entered
<1>2. \A e \in Drainer : Read(e)' \subseteq Read(e)
  BY DEF Read, DrainAt
<1>3. \A e \in Drainer : Reads'[e] \subseteq Reads[e]
  BY <1>2 DEF Reads
<1>4. Flow(Strict, Logged', Reads', Kept')
  <2>1. PICK L, R, K, M, S, J : L = Logged /\ R = Reads /\ K = Kept /\ M = Logged' /\ S = Reads' /\ J = Kept'
    OBVIOUS
  <2>2. Flow(Strict, L, R, K) /\ M \subseteq L /\ J \subseteq K /\ \A e \in Drainer : S[e] \subseteq R[e]
    BY <1>1, <1>3, <2>1 DEF OrderCore
  <2>3. Flow(Strict, M, S, J)
    BY <2>2, FlowShrinks
  <2> QED
    BY <2>1, <2>3
<1>5. Flow(Strict, Logged, Reads, Kept)'
  BY <1>4, PrecedesWeaker, StrictBoolean
<1>6. LogsInLine'
  <2>1. /\ InLine(Strict, browser.console)' /\ EventsInLine(Strict, browser.events)'
        /\ InLine(Strict, capture.console)' /\ InLine(Strict, capture.completed)'
    BY PrecedesWeaker, StrictBoolean DEF OrderCore, LogsInLine
  <2>2. ASSUME NEW e \in Drainer
        PROVE  EventsInLine(Strict', drain'[e].events)
    BY PrecedesWeaker, StrictBoolean DEF OrderCore, LogsInLine
  <2>3. ASSUME NEW e \in Drainer, drain'[e].step = "append"
        PROVE  /\ InLine(Strict', drain'[e].console)
               /\ \A x \in Gathered(drain'[e].console) : x.type = "console"
    <3>1. DrainAt(e, "append") /\ drain'[e].console = drain[e].console
      BY <2>3 DEF DrainAt
    <3>2. InLine(Strict, drain[e].console) /\ \A x \in Gathered(drain[e].console) : x.type = "console"
      BY <3>1 DEF OrderCore, LogsInLine
    <3> QED
      BY <3>1, <3>2, PrecedesWeaker, StrictBoolean
  <2>4. \A x \in Gathered(browser'.console) : x.type = "console"
    BY DEF OrderCore, LogsInLine
  <2> QED
    BY <2>1, <2>2, <2>3, <2>4 DEF LogsInLine, DrainAt
<1>7. AllEntered'
  BY <1>1, <1>2 DEF AllEntered, OrderCore
<1> QED
  BY <1>1, <1>3, <1>5, <1>6, <1>7 DEF OrderCore

\* A buffer keeps what it has, and what it gets is not in the sink.
Grows(s, t) ==
    /\ Len(s) <= Len(t) /\ \A i \in 1 .. Len(s) : t[i] = s[i]
    /\ Alone /\ sink.intact /\ LinesInOrder =>
          \A m \in Nat : Behind(Strict, Written, s, m) => Behind(Strict, Written, t, m)

LEMMA GrowsBack == ASSUME NEW S, NEW s \in Seq(S) PROVE Grows(s, s)
<1>1. Len(s) \in Nat
  BY EntryAt
<1> QED
  BY <1>1 DEF Grows

LEMMA SinkGrows ==
    ASSUME CTInv, CTInv', SinkInv, Alone' => Alone, Strict' => Strict,
           sink'.lines = sink.lines, sink'.intact = sink.intact,
           sink'.nextConsole = sink.nextConsole, sink'.nextNetwork = sink.nextNetwork,
           \A x : Entered(x) => Entered(x)',
           Grows(capture.console, capture'.console), Grows(capture.completed, capture'.completed),
           \A e \in Drainer : /\ Pending(e)' => drain'[e] = drain[e]
                              /\ DrainAt(e, "advance") => drain'[e] = drain[e],
           Alone /\ sink.intact /\ LinesInOrder => Past(Strict, Written, Logged', Reads')
    PROVE  SinkInv'
<1> SUFFICES ASSUME Alone' PROVE SinkPositions' /\ (sink'.intact => LinesInOrder')
  BY DEF SinkInv
<1>1. Alone /\ SinkPositions
  BY DEF SinkInv
<1>2. \A e \in Drainer : Pending(e)' => Pending(e)
  BY DEF Pending
<1>3. /\ sink.nextConsole \in Nat /\ sink.nextNetwork \in Nat
      /\ Len(capture.console) \in Nat /\ Len(capture.completed) \in Nat
      /\ Len(capture'.console) \in Nat /\ Len(capture'.completed) \in Nat
      /\ \A e \in Drainer : Len(drain[e].console) \in Nat /\ Len(drain[e].network) \in Nat
  <2>1. /\ sink.nextConsole \in Nat /\ sink.nextNetwork \in Nat
        /\ capture.console \in Seq(Console) /\ capture.completed \in Seq(Network)
        /\ \A e \in Drainer : drain[e].console \in Seq(Console) /\ drain[e].network \in Seq(Network)
    BY CaptureFacts
  <2>2. capture' \in Captures
    BY DEF CTInv, CaptureTypeOK, Captures
  <2>3. capture'.console \in Seq(Console) /\ capture'.completed \in Seq(Network)
    BY <2>2 DEF Captures
  <2> QED
    BY <2>1, <2>3, EntryAt
<1>4. SinkPositions'
  <2>1. /\ sink'.nextConsole <= Len(capture'.console)
        /\ sink'.nextNetwork <= Len(capture'.completed)
    BY <1>1, <1>3 DEF SinkPositions, Grows
  <2>2. \A e, f \in Drainer : Pending(e)' /\ Pending(f)' => e = f
    BY <1>1, <1>2 DEF SinkPositions
  <2>3. ASSUME NEW e \in Drainer, Pending(e)'
        PROVE  /\ Slice(capture'.console, sink'.nextConsole, drain'[e].console)
               /\ Slice(capture'.completed, sink'.nextNetwork, drain'[e].network)
    <3>1. /\ Slice(capture.console, sink.nextConsole, drain[e].console)
          /\ Slice(capture.completed, sink.nextNetwork, drain[e].network) /\ drain'[e] = drain[e]
      BY <1>1, <1>2, <2>3 DEF SinkPositions
    <3>2. ASSUME NEW s, NEW t, Grows(s, t), NEW m \in Nat, NEW p, Slice(s, m, p),
                 Len(p) \in Nat, Len(s) \in Nat, Len(t) \in Nat
          PROVE  Slice(t, m, p)
      <4>1. m + Len(p) <= Len(t) /\ \A i \in 1 .. Len(p) : m + i \in 1 .. Len(s)
        BY <3>2 DEF Slice, Grows
      <4> QED
        BY <3>2, <4>1 DEF Slice, Grows
    <3>3. PICK c, n : c = drain[e].console /\ n = drain[e].network
      OBVIOUS
    <3>4. Slice(capture'.console, sink.nextConsole, c)
      BY <1>3, <3>1, <3>2, <3>3
    <3>5. Slice(capture'.completed, sink.nextNetwork, n)
      BY <1>3, <3>1, <3>2, <3>3
    <3> QED
      BY <3>1, <3>3, <3>4, <3>5
  <2> QED
    BY <2>1, <2>2, <2>3 DEF SinkPositions
<1>5. ASSUME sink'.intact PROVE LinesInOrder'
  <2>1. sink.intact /\ LinesInOrder /\ Written' = Written
    BY <1>1, <1>5 DEF SinkInv, Written
  <2>2. InLine(Strict, sink.lines)' /\ \A x \in Written' : Entered(x)'
    BY <2>1, PrecedesWeaker, StrictBoolean DEF LinesInOrder
  <2>3. Past(Strict, Written, Logged, Reads)'
    BY <1>1, <2>1, PrecedesWeaker, StrictBoolean
  <2>4. ASSUME NEW m \in Nat, NEW n \in Nat, Clean(m, n)
        PROVE  Clean(m, n)'
    <3>1. /\ Behind(Strict, Written, capture'.console, m)
          /\ Behind(Strict, Written, capture'.completed, n)
      BY <1>1, <2>1, <2>4 DEF Clean, Grows
    <3> QED
      BY <2>1, <3>1, PrecedesWeaker, StrictBoolean DEF Clean
  <2>5. CASE \A e \in Drainer : ~DrainAt(e, "advance")
    <3>1. \A e \in Drainer : ~DrainAt(e, "advance")'
      BY <2>5 DEF DrainAt, Pending
    <3>2. Clean(sink.nextConsole, sink.nextNetwork)
      BY <2>1, <2>5 DEF LinesInOrder
    <3>3. Clean(sink.nextConsole, sink.nextNetwork)'
      BY <1>3, <2>4, <3>2
    <3> QED
      BY <2>2, <2>3, <3>1, <3>3 DEF LinesInOrder
  <2>6. ASSUME NEW e \in Drainer, DrainAt(e, "advance") PROVE LinesInOrder'
    <3>1. \A f \in Drainer : DrainAt(f, "advance")' => f = e
      <4>1. \A f \in Drainer : DrainAt(f, "advance")' => Pending(f)
        BY <1>2 DEF DrainAt, Pending
      <4>2. Pending(e)
        BY <2>6 DEF DrainAt, Pending
      <4> QED
        BY <1>1, <4>1, <4>2 DEF SinkPositions
    <3>2. DrainAt(e, "advance")' /\ drain'[e] = drain[e]
      BY <2>6 DEF DrainAt
    <3>3. PICK m \in Nat, n \in Nat : /\ m = sink.nextConsole + Len(drain[e].console)
                                     /\ n = sink.nextNetwork + Len(drain[e].network)
      <4>1. \A x, y \in Nat : x + y \in Nat
        OBVIOUS
      <4>2. /\ sink.nextConsole + Len(drain[e].console) \in Nat
            /\ sink.nextNetwork + Len(drain[e].network) \in Nat
        BY <1>3, <4>1, Zenon
      <4> QED
        BY <4>2
    <3>4. Clean(m, n)
      BY <2>1, <2>6, <3>3 DEF LinesInOrder
    <3>5. Clean(m, n)'
      BY <2>4, <3>4
    <3>6. Clean(sink.nextConsole + Len(drain[e].console), sink.nextNetwork + Len(drain[e].network))'
      BY <3>2, <3>3, <3>5
    <3> QED
      BY <2>2, <2>3, <3>1, <3>2, <3>6 DEF LinesInOrder
  <2> QED
    BY <2>5, <2>6
<1> QED
  BY <1>4, <1>5

-----------------------------------------------------------------------------
(* The steps that change logs and buffers.                                 *)

LEMMA PastStays ==
    ASSUME LinesInOrder, NEW X, Ahead(Strict, Written, X),
           \A x \in Logged' : x \in Logged \cup X \/ \E e \in Drainer : x \in Reads[e],
           \A d \in Drainer : \A x \in Reads'[d] : x \in Logged \cup X \/ \E e \in Drainer : x \in Reads[e]
    PROVE  Past(Strict, Written, Logged', Reads')
<1>1. PICK W, L, R, M, S : W = Written /\ L = Logged /\ R = Reads /\ M = Logged' /\ S = Reads'
  OBVIOUS
<1>2. Past(Strict, W, L, R)
  BY <1>1 DEF LinesInOrder
<1>3. Past(Strict, W, M, S)
  BY <1>1, <1>2, PastMoves
<1> QED
  BY <1>1, <1>3

LEMMA LogsGrow ==
    ASSUME OrderInv, CTInv', UNCHANGED <<capture, sink, drain, overlapped>>,
           NEW X, Logged' \subseteq Logged \cup X,
           \A x : Entered(x) => Entered(x)' /\ \A y \in X : Precedes(Strict, x, y),
           \A y \in X : Entered(y)',
           InLine(Strict, browser'.console), EventsInLine(Strict, browser'.events),
           \A x \in Gathered(browser'.console) : x.type = "console"
    PROVE  OrderInv'
<1>1. /\ Strict' = Strict /\ Alone' = Alone /\ Kept' = Kept /\ Written' = Written
      /\ \A d \in Drainer : Read(d)' = Read(d)
  BY DEF Strict, Alone, Kept, Written, Read, DrainAt
<1>2. Reads' = Reads /\ \A d \in Drainer : Reads[d] = Read(d)
  BY <1>1 DEF Reads
<1>3. DrainPlaces'
  BY <1>1 DEF OrderInv, DrainPlaces, Draining
<1>4. Flow(Strict, Logged', Reads, Kept)
  <2>1. Ahead(Strict, Kept, X) /\ \A d \in Drainer : Ahead(Strict, Reads[d], X)
    BY <1>2 DEF OrderInv, OrderCore, AllEntered, Ahead
  <2>2. PICK L, R, K, M : L = Logged /\ R = Reads /\ K = Kept /\ M = Logged'
    OBVIOUS
  <2>3. Flow(Strict, L, R, K)
    BY <2>2 DEF OrderInv, OrderCore
  <2>4. Flow(Strict, M, R, K)
    BY <2>1, <2>2, <2>3, FlowEnters
  <2> QED
    BY <2>2, <2>4
<1>5. LogsInLine'
  BY <1>1 DEF OrderInv, OrderCore, LogsInLine, DrainAt
<1>6. AllEntered'
  BY <1>1 DEF OrderInv, OrderCore, AllEntered
<1>7. SinkInv'
  <2>1. Grows(capture.console, capture'.console) /\ Grows(capture.completed, capture'.completed)
    BY CaptureFacts, GrowsBack DEF OrderInv
  <2>2. ASSUME LinesInOrder PROVE Past(Strict, Written, Logged', Reads')
    <3>1. Ahead(Strict, Written, X)
      BY <2>2 DEF LinesInOrder, Ahead
    <3> QED
      BY <1>2, <2>2, <3>1, PastStays
  <2> QED
    BY <1>1, <2>1, <2>2, SinkGrows DEF OrderInv
<1> QED
  BY <1>1, <1>2, <1>3, <1>4, <1>5, <1>6, <1>7 DEF OrderInv, OrderCore

LEMMA LogConsoleInOrder == ASSUME OrderInv, CTInv', LogConsole PROVE OrderInv'
<1>1. /\ browser \in Browsers /\ browser.entries \in Nat /\ browser.entries + 1 \in Nat
      /\ browser.console \in Seq(Console) /\ browser.events \in Seq(NetEvent)
  BY CaptureFacts DEF OrderInv
<1>2. PICK c, e : /\ c = [type |-> "console", of |-> browser.entries + 1]
                  /\ e = [event |-> "runtime", of |-> browser.entries + 1]
  OBVIOUS
<1>3. /\ browser'.entries = browser.entries + 1 /\ browser'.requests = browser.requests
      /\ browser'.console = Append(browser.console, c)
      /\ browser'.events = IF Enabled("Runtime") THEN Append(browser.events, e) ELSE browser.events
      /\ UNCHANGED <<capture, sink, drain, overlapped>> /\ browser.entries < MaxConsole
  BY <1>1, <1>2 DEF LogConsole, Browsers
<1>4. MaxConsole \in Nat
  BY CaptureAssumption
<1>5. /\ c \in Console /\ c.type = "console" /\ c.of = browser.entries + 1
      /\ e \in NetEvent /\ Told(e) /\ Item(e) = [type |-> "runtime", of |-> browser.entries + 1]
      /\ Item(e) \in Console
  BY <1>1, <1>2, <1>3, <1>4 DEF Console, NetEvent, Told, Item
<1>6. ASSUME NEW x, Entered(x)
      PROVE  Entered(x)' /\ Precedes(Strict, x, c) /\ Precedes(Strict, x, Item(e))
  <2>1. Precedes(Strict, x, c) /\ Precedes(Strict, x, Item(e))
    BY <1>2, <1>5, <1>6, EntryOlder DEF OrderInv
  <2>2. Entered(x)'
    <3>1. CASE x.type = "network"
      BY <1>3, <1>6, <3>1 DEF Entered
    <3>2. CASE x.type # "network"
      <4>1. x.of \in Int /\ x.of <= browser.entries
        BY <1>6, <3>2, LineKinds DEF Entered
      <4>2. x.of <= browser'.entries
        BY <1>1, <1>3, <4>1
      <4> QED
        BY <1>6, <3>2, <4>2 DEF Entered
    <3> QED
      BY <3>1, <3>2
  <2> QED
    BY <2>1, <2>2
<1>7. /\ \A x \in Logged : Entered(x)
      /\ InLine(Strict, browser.console) /\ EventsInLine(Strict, browser.events)
      /\ \A x \in Gathered(browser.console) : x.type = "console"
  BY DEF OrderInv, OrderCore, AllEntered, LogsInLine
<1>8. /\ Gathered(browser'.console) = Gathered(browser.console) \cup {c}
      /\ InLine(Strict, browser'.console)
  <2>1. Ahead(Strict, Gathered(browser.console), {c})
    BY <1>6, <1>7 DEF Ahead, Logged
  <2> QED
    BY <1>1, <1>3, <1>5, <1>7, <2>1, EntriesAppend
<1>9. Items(browser'.events) \subseteq Items(browser.events) \cup {Item(e)}
      /\ EventsInLine(Strict, browser'.events)
  <2>1. CASE Enabled("Runtime")
    <3>1. Ahead(Strict, Items(browser.events), {Item(e)})
      BY <1>6, <1>7 DEF Ahead, Logged
    <3>2. PICK t : t = Append(browser.events, e)
      OBVIOUS
    <3>3. Items(t) = Items(browser.events) \cup {Item(e)} /\ EventsInLine(Strict, t)
      BY <1>1, <1>5, <1>7, <3>1, <3>2, ItemsAppend
    <3> QED
      BY <1>3, <2>1, <3>2, <3>3
  <2>2. CASE ~Enabled("Runtime")
    BY <1>3, <1>7, <2>2
  <2> QED
    BY <2>1, <2>2
<1>a. PICK X : X = {c, Item(e)}
  OBVIOUS
<1>10. Logged' \subseteq Logged \cup X
  BY <1>8, <1>9, <1>a DEF Logged
<1>11. \A y \in X : Entered(y)'
  <2>1. \A y \in X : y \in Line /\ y.type # "network" /\ y.of = browser.entries + 1
    BY <1>5, <1>a, LineKinds
  <2>2. browser.entries + 1 <= browser'.entries
    BY <1>1, <1>3
  <2> QED
    BY <2>1, <2>2 DEF Entered
<1>12. \A x : Entered(x) => Entered(x)' /\ \A y \in X : Precedes(Strict, x, y)
  BY <1>6, <1>a
<1>13. \A x \in Gathered(browser'.console) : x.type = "console"
  BY <1>5, <1>7, <1>8
<1> QED
  BY <1>3, <1>8, <1>9, <1>10, <1>11, <1>12, <1>13, LogsGrow

LEMMA LogNetworkInOrder ==
    ASSUME OrderInv, CTInv', NEW r \in NetRequest, SendRequest(r) \/ EndRequest(r)
    PROVE  OrderInv'
<1>1. /\ browser \in Browsers
      /\ browser.console \in Seq(Console) /\ browser.events \in Seq(NetEvent)
  BY CaptureFacts DEF OrderInv
<1>2. PICK event \in {"sent", "finished", "failed"}, to \in {"open", "ended"} :
         /\ event # "sent" <=> to = "ended"
         /\ browser.requests[r] # "ended"
         /\ \E from \in {"new", "open"} : LogNetwork(r, event, from, to)
  BY DEF SendRequest, EndRequest, LogNetwork
<1>3. PICK e : e = [event |-> event, of |-> r]
  OBVIOUS
<1>4. /\ e \in NetEvent /\ e.event = event /\ (Told(e) <=> to = "ended")
      /\ Told(e) => Item(e) = [type |-> "network", of |-> r] /\ Item(e) \in Network
  BY <1>2, <1>3 DEF NetEvent, Told, Item, Network
<1>5. /\ browser'.entries = browser.entries /\ browser'.console = browser.console
      /\ browser'.requests = [browser.requests EXCEPT ![r] = to]
      /\ browser'.events = IF Enabled("Network") THEN Append(browser.events, e) ELSE browser.events
      /\ UNCHANGED <<capture, sink, drain, overlapped>>
  BY <1>1, <1>2, <1>3 DEF LogNetwork, Browsers
<1>6. /\ browser'.requests[r] = to
      /\ \A x \in NetRequest : x # r => browser'.requests[x] = browser.requests[x]
  BY <1>1, <1>5 DEF Browsers
<1>7. PICK X : X = IF Told(e) THEN {Item(e)} ELSE {}
  OBVIOUS
<1>8. ASSUME NEW x, Entered(x)
      PROVE  Entered(x)' /\ \A y \in X : Precedes(Strict, x, y)
  <2>1. x \in Line /\ (x.type = "network" => x.of # r /\ x.of \in NetRequest)
    BY <1>2, <1>8, LineKinds DEF Entered
  <2>2. Entered(x)'
    BY <1>5, <1>6, <1>8, <2>1 DEF Entered
  <2> QED
    BY <1>2, <1>4, <1>7, <1>8, <2>2, RequestOlder
<1>9. /\ \A x \in Logged : Entered(x)
      /\ InLine(Strict, browser.console) /\ EventsInLine(Strict, browser.events)
      /\ \A x \in Gathered(browser.console) : x.type = "console"
  BY DEF OrderInv, OrderCore, AllEntered, LogsInLine
<1>10. Items(browser'.events) \subseteq Items(browser.events) \cup X
       /\ EventsInLine(Strict, browser'.events)
  <2>1. CASE Enabled("Network")
    <3>1. Told(e) => Ahead(Strict, Items(browser.events), {Item(e)})
      BY <1>7, <1>8, <1>9 DEF Ahead, Logged
    <3> QED
      BY <1>1, <1>4, <1>5, <1>7, <1>9, <2>1, <3>1, ItemsAppend
  <2>2. CASE ~Enabled("Network")
    BY <1>5, <1>9, <2>2
  <2> QED
    BY <2>1, <2>2
<1>11. Logged' \subseteq Logged \cup X
  BY <1>5, <1>10 DEF Logged
<1>12. \A y \in X : Entered(y)'
  BY <1>4, <1>6, <1>7, LineKinds DEF Entered
<1> QED
  BY <1>5, <1>8, <1>9, <1>10, <1>11, <1>12, LogsGrow

\* A drain that reads.
LEMMA ReadsInOrder ==
    ASSUME OrderInv, CTInv', NEW d \in Drainer, ReadConsole(d) \/ ReadNetwork(d)
    PROVE  OrderInv'
<1>1. /\ drain \in [Drainer -> DrainRecord] /\ drain[d] \in DrainRecord /\ browser \in Browsers
      /\ browser.console \in Seq(Console) /\ browser.events \in Seq(NetEvent)
      /\ drain[d].events \in Seq(NetEvent)
  BY CaptureFacts DEF OrderInv
<1>2. /\ UNCHANGED <<capture, sink, overlapped>>
      /\ browser'.requests = browser.requests /\ browser'.entries = browser.entries
      /\ \A e \in Drainer : e # d => drain'[e] = drain[e]
      /\ drain[d].step \in {"console", "network"} /\ drain[d].events = <<>>
      /\ drain'[d].step \in {"append", "network", "handle"}
      /\ drain'[d].step # "handle" => drain'[d].events = <<>>
  <2>1. /\ UNCHANGED <<capture, sink, overlapped>> /\ drain[d].step \in {"console", "network"}
        /\ browser'.requests = browser.requests /\ browser'.entries = browser.entries
        /\ \A e \in Drainer : e # d => drain'[e] = drain[e]
    BY <1>1 DEF ReadConsole, ReadNetwork, DrainAt, Browsers
  <2>2. drain[d].events = <<>>
    BY <2>1 DEF OrderInv, DrainPlaces
  <2>3. /\ drain'[d].step \in {"append", "network", "handle"}
        /\ drain'[d].step # "handle" => drain'[d].events = drain[d].events
    BY <1>1 DEF ReadConsole, ReadNetwork, DrainRecord
  <2> QED
    BY <2>1, <2>2, <2>3
<1>3. /\ Strict' = Strict /\ Alone' = Alone /\ Kept' = Kept /\ Written' = Written
      /\ \A x : Entered(x)' <=> Entered(x)
      /\ Read(d) = {}
      /\ \A e \in Drainer : Reads[e] = Read(e) /\ Reads'[e] = Read(e)'
      /\ \A e \in Drainer : e # d => Read(e)' = Read(e)
  BY <1>2, NothingThere DEF Strict, Alone, Kept, Written, Entered, Read, Reads, DrainAt
<1>4. DrainPlaces'
  <2>1. Draining(d)
    BY <1>2 DEF Draining
  <2> QED
    BY <1>2, <1>3, <2>1, DrainTurns DEF OrderInv
<1>5. PICK X : /\ X \subseteq Logged /\ Logged' \subseteq Logged /\ Read(d)' \subseteq X
               /\ Ahead(Strict, X, Logged')
               /\ InLine(Strict, browser'.console) /\ EventsInLine(Strict, browser'.events)
               /\ \A x \in Gathered(browser'.console) : x.type = "console"
               /\ EventsInLine(Strict, drain'[d].events)
               /\ drain'[d].step = "append" =>
                     /\ InLine(Strict, drain'[d].console)
                     /\ \A x \in Gathered(drain'[d].console) : x.type = "console"
  <2>1. /\ InLine(Strict, browser.console) /\ EventsInLine(Strict, browser.events)
        /\ \A x \in Gathered(browser.console) : x.type = "console"
        /\ \A x \in Items(browser.events) : x.type # "console"
    BY <1>1, ItemTypes DEF OrderInv, OrderCore, LogsInLine
  <2>2. CASE ReadConsole(d)
    <3>1. /\ browser'.console = <<>> /\ browser'.events = browser.events
          /\ drain'[d].console = browser.console /\ drain'[d].events = <<>>
      BY <1>1, <1>2, <2>2 DEF ReadConsole, Browsers, DrainRecord
    <3>2. /\ Logged' = Items(browser.events)
          /\ Read(d)' \subseteq Gathered(browser.console)
      BY <3>1, NothingThere DEF Logged, Read
    <3>3. Ahead(Strict, Gathered(browser.console), Items(browser.events))
      BY <2>1, OtherType DEF Ahead
    <3>4. Gathered(browser.console) \subseteq Logged /\ Logged' \subseteq Logged
      BY <3>2 DEF Logged
    <3>5. /\ InLine(Strict, browser'.console) /\ EventsInLine(Strict, browser'.events)
          /\ \A x \in Gathered(browser'.console) : x.type = "console"
          /\ EventsInLine(Strict, drain'[d].events)
          /\ InLine(Strict, drain'[d].console)
          /\ \A x \in Gathered(drain'[d].console) : x.type = "console"
      BY <2>1, <3>1, NothingThere
    <3> QED
      BY <3>2, <3>3, <3>4, <3>5
  <2>3. CASE ReadNetwork(d)
    <3>1. /\ browser'.events = <<>> /\ browser'.console = browser.console
          /\ drain'[d].events = browser.events /\ drain'[d].step = "handle"
      BY <1>1, <2>3 DEF ReadNetwork, Browsers, DrainRecord
    <3>2. /\ Logged' = Gathered(browser.console)
          /\ Read(d)' \subseteq Items(browser.events)
      BY <3>1, NothingThere DEF Logged, Read, DrainAt
    <3>3. Ahead(Strict, Items(browser.events), Gathered(browser.console))
      BY <2>1, OtherType DEF Ahead
    <3>4. Items(browser.events) \subseteq Logged /\ Logged' \subseteq Logged
      BY <3>2 DEF Logged
    <3> QED
      BY <2>1, <3>1, <3>2, <3>3, <3>4, NothingThere
  <2> QED
    BY <2>2, <2>3
<1>6. Flow(Strict, Logged', Reads', Kept)
  <2>1. Strict => \A e \in Drainer : e # d => Reads[e] = {}
    <3>1. Draining(d)
      BY <1>2 DEF Draining
    <3> QED
      BY <1>3, <3>1, OthersReadNothing DEF OrderInv
  <2>2. PICK L, R, K, M, S : L = Logged /\ R = Reads /\ K = Kept /\ M = Logged' /\ S = Reads'
    OBVIOUS
  <2>3. /\ Flow(Strict, L, R, K) /\ M \subseteq L /\ X \subseteq L /\ Ahead(Strict, X, M)
        /\ S[d] \subseteq R[d] \cup X /\ \A e \in Drainer : e # d => S[e] = R[e]
        /\ Strict => \A e \in Drainer : e # d => R[e] = {}
    BY <1>3, <1>5, <2>1, <2>2 DEF OrderInv, OrderCore
  <2>4. Flow(Strict, M, S, K)
    BY <2>3, FlowReads, StrictBoolean
  <2> QED
    BY <2>2, <2>4
<1>7. LogsInLine'
  <2>1. \A e \in Drainer :
           /\ EventsInLine(Strict, drain'[e].events)
           /\ drain'[e].step = "append" => /\ InLine(Strict, drain'[e].console)
                                           /\ \A x \in Gathered(drain'[e].console) : x.type = "console"
    BY <1>2, <1>5 DEF OrderInv, OrderCore, LogsInLine, DrainAt
  <2> QED
    BY <1>2, <1>3, <1>5, <2>1 DEF OrderInv, OrderCore, LogsInLine, DrainAt
<1>8. AllEntered'
  <2>1. \A x \in Logged' \cup Kept' : Entered(x)'
    BY <1>3, <1>5 DEF OrderInv, OrderCore, AllEntered
  <2>2. \A e \in Drainer : \A x \in Read(e)' : Entered(x)'
    BY <1>3, <1>5 DEF OrderInv, OrderCore, AllEntered
  <2> QED
    BY <2>1, <2>2 DEF AllEntered
<1>9. SinkInv'
  <2>1. Grows(capture.console, capture'.console) /\ Grows(capture.completed, capture'.completed)
    BY <1>2, CaptureFacts, GrowsBack DEF OrderInv
  <2>2. ASSUME LinesInOrder PROVE Past(Strict, Written, Logged', Reads')
    <3>1. Ahead(Strict, Written, {})
      BY DEF Ahead
    <3>2. \A x \in Logged' : x \in Logged \cup {}
      BY <1>5
    <3>3. ASSUME NEW e \in Drainer, NEW x \in Reads'[e]
          PROVE  x \in Logged \cup {} \/ \E f \in Drainer : x \in Reads[f]
      BY <1>3, <1>5, <3>3
    <3> QED
      BY <2>2, <3>1, <3>2, <3>3, PastStays
  <2>3. \A e \in Drainer : /\ Pending(e)' => drain'[e] = drain[e]
                           /\ DrainAt(e, "advance") => drain'[e] = drain[e]
    BY <1>2 DEF Pending, DrainAt
  <2> QED
    BY <1>2, <1>3, <2>1, <2>2, <2>3, SinkGrows DEF OrderInv
<1> QED
  BY <1>3, <1>4, <1>6, <1>7, <1>8, <1>9 DEF OrderInv, OrderCore

\* A drain that puts X, which it has read, into the buffers, or skips it.
LEMMA KeepsInOrder ==
    ASSUME OrderInv, CTInv', NEW d \in Drainer, UNCHANGED <<browser, sink, overlapped>>,
           Draining(d), ~Pending(d), ~Pending(d)', drain'[d].step # "append",
           \A e \in Drainer : e # d => drain'[e] = drain[e],
           drain'[d].step \notin {"handle", "body"} => drain'[d].events = <<>>,
           NEW X, X \subseteq Read(d), Read(d)' \subseteq Read(d), Ahead(Strict, X, Read(d)'),
           Kept' \subseteq Kept \cup X, EventsInLine(Strict, drain'[d].events),
           InLine(Strict, capture'.console), InLine(Strict, capture'.completed),
           Grows(capture.console, capture'.console), Grows(capture.completed, capture'.completed)
    PROVE  OrderInv'
<1>1. /\ Strict' = Strict /\ Alone' = Alone /\ Logged' = Logged /\ Written' = Written
      /\ \A x : Entered(x)' <=> Entered(x)
      /\ \A e \in Drainer : Reads[e] = Read(e) /\ Reads'[e] = Read(e)'
      /\ \A e \in Drainer : e # d => Read(e)' = Read(e)
  BY DEF Strict, Alone, Logged, Written, Entered, Read, Reads, DrainAt
<1>2. DrainPlaces'
  BY <1>1, DrainTurns DEF OrderInv
<1>3. Flow(Strict, Logged, Reads', Kept')
  <2>1. PICK L, R, K, S, J : L = Logged /\ R = Reads /\ K = Kept /\ S = Reads' /\ J = Kept'
    OBVIOUS
  <2>2. /\ Flow(Strict, L, R, K) /\ X \subseteq R[d] /\ S[d] \subseteq R[d]
        /\ Ahead(Strict, X, S[d]) /\ J \subseteq K \cup X
        /\ \A e \in Drainer : e # d => S[e] = R[e]
    BY <1>1, <2>1 DEF OrderInv, OrderCore
  <2>3. Flow(Strict, L, S, J)
    BY <2>2, FlowKeeps, StrictBoolean, ZenonT(60)
  <2> QED
    BY <2>1, <2>3
<1>4. LogsInLine'
  <2>1. \A e \in Drainer :
           /\ EventsInLine(Strict, drain'[e].events)
           /\ drain'[e].step = "append" => /\ InLine(Strict, drain'[e].console)
                                           /\ \A x \in Gathered(drain'[e].console) : x.type = "console"
    BY DEF OrderInv, OrderCore, LogsInLine, DrainAt
  <2> QED
    BY <1>1, <2>1 DEF OrderInv, OrderCore, LogsInLine, DrainAt
<1>5. AllEntered'
  <2>1. \A x \in Logged' \cup Kept' : Entered(x)'
    BY <1>1 DEF OrderInv, OrderCore, AllEntered
  <2>2. \A e \in Drainer : \A x \in Read(e)' : Entered(x)'
    BY <1>1 DEF OrderInv, OrderCore, AllEntered
  <2> QED
    BY <2>1, <2>2 DEF AllEntered
<1>6. SinkInv'
  <2>1. ASSUME LinesInOrder PROVE Past(Strict, Written, Logged', Reads')
    <3>1. Ahead(Strict, Written, {})
      BY DEF Ahead
    <3>2. \A x \in Logged' : x \in Logged \cup {}
      BY <1>1
    <3>3. ASSUME NEW e \in Drainer, NEW x \in Reads'[e]
          PROVE  x \in Logged \cup {} \/ \E f \in Drainer : x \in Reads[f]
      BY <1>1, <3>3
    <3> QED
      BY <2>1, <3>1, <3>2, <3>3, PastStays
  <2>2. \A e \in Drainer : /\ Pending(e)' => drain'[e] = drain[e]
                           /\ DrainAt(e, "advance") => drain'[e] = drain[e]
    BY DEF Pending, DrainAt
  <2> QED
    BY <1>1, <2>1, <2>2, SinkGrows DEF OrderInv
<1> QED
  BY <1>1, <1>2, <1>3, <1>4, <1>5, <1>6 DEF OrderInv, OrderCore

LEMMA HandlesInOrder ==
    ASSUME OrderInv, CTInv', NEW d \in Drainer,
           \/ AppendConsole(d) \/ OnRuntimeConsole(d) \/ OnRequestWillBeSent(d) \/ OnLoadingFailed(d)
           \/ OnLoadingFinished(d) \/ EndFinished(d) \/ SkipEvent(d) \/ ReadFails(d)
    PROVE  OrderInv'
<1>1. /\ drain \in [Drainer -> DrainRecord] /\ drain[d] \in DrainRecord /\ capture \in Captures
      /\ capture.console \in Seq(Console) /\ capture.completed \in Seq(Network)
      /\ drain[d].events \in Seq(NetEvent) /\ drain[d].console \in Seq(Console)
  BY CaptureFacts DEF OrderInv
<1>2. /\ EventsInLine(Strict, drain[d].events)
      /\ InLine(Strict, capture.console) /\ InLine(Strict, capture.completed)
      /\ Grows(capture.console, capture.console) /\ Grows(capture.completed, capture.completed)
  BY <1>1, GrowsBack DEF OrderInv, OrderCore, LogsInLine
<1>3. ASSUME NEW x \in Read(d)
      PROVE  /\ Ahead(Strict, Gathered(capture.console), {x})
             /\ Ahead(Strict, Gathered(capture.completed), {x})
             /\ LinesInOrder => Ahead(Strict, Written, {x})
  <2>1. Ahead(Strict, Kept, Reads[d]) /\ Reads[d] = Read(d)
    BY DEF OrderInv, OrderCore, Flow, Reads
  <2>2. LinesInOrder => Ahead(Strict, Written, Reads[d])
    BY DEF LinesInOrder, Past
  <2> QED
    BY <1>3, <2>1, <2>2 DEF Kept, Ahead
\* A buffer gets what was read.
<1>4. ASSUME NEW S, NEW s \in Seq(S), NEW e \in S, e \in Read(d), NEW t, t = Append(s, e),
             s \in {capture.console, capture.completed}
      PROVE  InLine(Strict, t) /\ Grows(s, t) /\ Gathered(t) = Gathered(s) \cup {e}
  <2>1. InLine(Strict, s) /\ Ahead(Strict, Gathered(s), {e}) /\ (LinesInOrder => Ahead(Strict, Written, {e}))
    BY <1>2, <1>3, <1>4
  <2>2. /\ Gathered(t) = Gathered(s) \cup {e} /\ InLine(Strict, t)
        /\ \A m : LinesInOrder /\ Behind(Strict, Written, s, m) => Behind(Strict, Written, t, m)
    BY <1>4, <2>1, EntriesAppend
  <2>3. Len(s) <= Len(t) /\ \A i \in 1 .. Len(s) : t[i] = s[i]
    BY <1>4, AppendPlaces, EntryAt
  <2> QED
    BY <2>2, <2>3 DEF Grows
<1>5. /\ UNCHANGED <<browser, sink, overlapped>>
      /\ \A e \in Drainer : e # d => drain'[e] = drain[e]
      /\ Draining(d) /\ ~Pending(d)
      /\ drain[d].step \in {"console", "append", "network", "handle", "body"}
  BY <1>1 DEF AppendConsole, OnRuntimeConsole, OnRequestWillBeSent, OnLoadingFailed,
     OnLoadingFinished, EndFinished, SkipEvent, ReadFails, DrainGoes, DrainAt, Draining, Pending
<1>6. drain[d].step \in {"console", "append", "network"} => drain[d].events = <<>>
  BY DEF OrderInv, DrainPlaces
<1>a. CASE AppendConsole(d)
  <2>1. /\ DrainAt(d, "append") /\ drain[d].events = <<>>
        /\ capture'.console = capture.console \o drain[d].console
        /\ capture'.completed = capture.completed
        /\ drain'[d].step = "network" /\ drain'[d].events = <<>>
    BY <1>1, <1>6, <1>a DEF AppendConsole, DrainAt, Captures, DrainRecord
  <2>2. /\ Read(d) = Gathered(drain[d].console) /\ Read(d)' = {}
        /\ InLine(Strict, drain[d].console)
    BY <2>1, NothingThere DEF Read, DrainAt, OrderInv, OrderCore, LogsInLine
  <2>3. /\ Ahead(Strict, Gathered(capture.console), Gathered(drain[d].console))
        /\ LinesInOrder => Ahead(Strict, Written, Gathered(drain[d].console))
    BY <1>3, <2>2 DEF Ahead
  <2>4. PICK s, u, t : s = capture.console /\ u = drain[d].console /\ t = s \o u
    OBVIOUS
  <2>a. s \in Seq(Console) /\ u \in Seq(Console) /\ t = s \o u
    BY <1>1, <2>4
  <2>5. /\ Gathered(t) = Gathered(s) \cup Gathered(u)
        /\ InLine(Strict, t)
        /\ \A m : LinesInOrder /\ Behind(Strict, Written, s, m) => Behind(Strict, Written, t, m)
    <3>1. InLine(Strict, s) /\ InLine(Strict, u) /\ Ahead(Strict, Gathered(s), Gathered(u))
      BY <1>2, <2>2, <2>3, <2>4
    <3>2. LinesInOrder => Ahead(Strict, Written, Gathered(u))
      BY <2>3, <2>4
    <3>3. /\ Gathered(t) = Gathered(s) \cup Gathered(u)
          /\ \A o : InLine(o, s) /\ InLine(o, u) /\ Ahead(o, Gathered(s), Gathered(u)) => InLine(o, t)
          /\ \A o, W, m : Behind(o, W, s, m) /\ Ahead(o, W, Gathered(u)) => Behind(o, W, t, m)
      BY <2>a, EntriesConcat
    <3> QED
      BY <3>1, <3>2, <3>3
  <2>6. Len(s) <= Len(t) /\ \A i \in 1 .. Len(s) : t[i] = s[i]
    <3>1. /\ Len(t) = Len(s) + Len(u) /\ \A i \in 1 .. Len(s) : t[i] = s[i]
          /\ Len(s) \in Nat /\ Len(u) \in Nat
      BY <2>a, ConcatPlaces, EntryAt
    <3> QED
      BY <3>1
  <2>7. Grows(s, t)
    BY <2>5, <2>6 DEF Grows
  <2>8. Kept' \subseteq Kept \cup Read(d)
    BY <2>1, <2>2, <2>4, <2>5 DEF Kept
  <2>9. Ahead(Strict, Read(d), Read(d)') /\ EventsInLine(Strict, drain'[d].events) /\ ~Pending(d)'
    BY <2>1, <2>2, NothingThere DEF Ahead, Pending
  <2>10. /\ InLine(Strict, capture'.console) /\ InLine(Strict, capture'.completed)
         /\ Grows(capture.console, capture'.console) /\ Grows(capture.completed, capture'.completed)
    BY <1>2, <2>1, <2>4, <2>5, <2>7
  <2> QED
    BY <1>5, <2>1, <2>2, <2>8, <2>9, <2>10, KeepsInOrder
\* The first event is handled or skipped.
<1>7. ASSUME drain[d].step \in {"handle", "body"}, drain[d].events # <<>>,
             drain'[d].step = "handle", drain'[d].events = Tail(drain[d].events)
      PROVE  /\ Read(d) = Items(drain[d].events) /\ Read(d)' \subseteq Read(d)
             /\ EventsInLine(Strict, drain'[d].events) /\ ~Pending(d)'
             /\ Head(drain[d].events) \in NetEvent
             /\ Told(Head(drain[d].events)) =>
                   /\ Item(Head(drain[d].events)) \in Read(d)
                   /\ Ahead(Strict, {Item(Head(drain[d].events))}, Read(d)')
  <2>1. Read(d) = Items(drain[d].events) /\ Read(d)' = Items(drain'[d].events) /\ ~Pending(d)'
    BY <1>7 DEF Read, DrainAt, Pending
  <2>2. PICK s, t : s = drain[d].events /\ t = Tail(s)
    OBVIOUS
  <2>3. /\ Items(t) \subseteq Items(s) /\ EventsInLine(Strict, t) /\ Head(s) \in NetEvent
        /\ Told(Head(s)) => Item(Head(s)) \in Items(s) /\ Ahead(Strict, {Item(Head(s))}, Items(t))
    <3>1. s \in Seq(NetEvent) /\ s # <<>> /\ EventsInLine(Strict, s)
      BY <1>1, <1>2, <1>7, <2>2
    <3> QED
      BY <2>2, <3>1, ItemsTail, HeadTailProperties
  <2> QED
    BY <1>7, <2>1, <2>2, <2>3
<1>8. PICK e : e = Item(Head(drain[d].events))
  OBVIOUS
<1>b. CASE OnRuntimeConsole(d)
  <2>1. /\ drain[d].step = "handle" /\ drain[d].events # <<>>
        /\ drain'[d].step = "handle" /\ drain'[d].events = Tail(drain[d].events)
        /\ Head(drain[d].events).event = "runtime"
        /\ capture'.completed = capture.completed
        /\ capture'.console =
              Append(capture.console, [type |-> "runtime", of |-> Head(drain[d].events).of])
    BY <1>1, <1>b DEF OnRuntimeConsole, DrainAt, Captures, DrainRecord
  <2>2. /\ Read(d)' \subseteq Read(d) /\ EventsInLine(Strict, drain'[d].events) /\ ~Pending(d)'
        /\ e \in Read(d) /\ Ahead(Strict, {e}, Read(d)') /\ e \in Console
        /\ e = [type |-> "runtime", of |-> Head(drain[d].events).of]
    <3>1. Told(Head(drain[d].events)) /\ e = [type |-> "runtime", of |-> Head(drain[d].events).of]
      BY <1>8, <2>1 DEF Told, Item
    <3>2. Head(drain[d].events) \in NetEvent
      BY <1>7, <2>1
    <3>3. e \in Console
      BY <2>1, <3>1, <3>2 DEF NetEvent, Console
    <3> QED
      BY <1>7, <1>8, <2>1, <3>1, <3>3
  <2>3. PICK s, t : s = capture.console /\ t = Append(s, e)
    OBVIOUS
  <2>4. InLine(Strict, t) /\ Grows(s, t) /\ Gathered(t) = Gathered(s) \cup {e}
    <3>1. s \in Seq(Console) /\ s \in {capture.console, capture.completed} /\ t = Append(s, e)
      BY <1>1, <2>3
    <3>2. e \in Console /\ e \in Read(d)
      BY <2>2
    <3> QED
      BY <1>4, <3>1, <3>2
  <2>5. Kept' \subseteq Kept \cup {e}
    BY <2>1, <2>2, <2>3, <2>4 DEF Kept
  <2>6. {e} \subseteq Read(d)
    BY <2>2
  <2>7. /\ InLine(Strict, capture'.console) /\ InLine(Strict, capture'.completed)
        /\ Grows(capture.console, capture'.console) /\ Grows(capture.completed, capture'.completed)
    BY <1>2, <2>1, <2>2, <2>3, <2>4
  <2>8. PICK X : X = {e}
    OBVIOUS
  <2> QED
    BY <1>5, <2>1, <2>2, <2>5, <2>6, <2>7, <2>8, KeepsInOrder
<1>c. CASE OnLoadingFailed(d) \/ EndFinished(d)
  <2>1. /\ drain[d].step \in {"handle", "body"} /\ drain[d].events # <<>>
        /\ drain'[d].step = "handle" /\ drain'[d].events = Tail(drain[d].events)
        /\ Head(drain[d].events).event \in {"finished", "failed"}
        /\ capture'.console = capture.console
        /\ capture'.completed = Append(capture.completed, FinishedEvent(d))
    <3>1. CASE OnLoadingFailed(d)
      BY <1>1, <3>1 DEF OnLoadingFailed, DrainAt, Captures, DrainRecord
    <3>2. CASE EndFinished(d)
      <4>1. drain[d].events # <<>> /\ Head(drain[d].events).event = "finished"
        BY <3>2 DEF EndFinished, OrderInv, CTInv, BodyInv
      <4> QED
        BY <1>1, <3>2, <4>1 DEF EndFinished, DrainAt, Captures, DrainRecord
    <3> QED
      BY <1>c, <3>1, <3>2
  <2>2. /\ Read(d)' \subseteq Read(d) /\ EventsInLine(Strict, drain'[d].events) /\ ~Pending(d)'
        /\ e \in Read(d) /\ Ahead(Strict, {e}, Read(d)') /\ e \in Network
        /\ e = FinishedEvent(d)
    <3>1. Told(Head(drain[d].events)) /\ e = FinishedEvent(d)
      BY <1>8, <2>1 DEF Told, Item, FinishedEvent
    <3>2. Head(drain[d].events) \in NetEvent
      BY <1>7, <2>1
    <3>3. e \in Network
      BY <2>1, <3>1, <3>2 DEF NetEvent, Network, FinishedEvent
    <3> QED
      BY <1>7, <1>8, <2>1, <3>1, <3>3
  <2>3. PICK s, t : s = capture.completed /\ t = Append(s, e)
    OBVIOUS
  <2>4. InLine(Strict, t) /\ Grows(s, t) /\ Gathered(t) = Gathered(s) \cup {e}
    <3>1. s \in Seq(Network) /\ s \in {capture.console, capture.completed} /\ t = Append(s, e)
      BY <1>1, <2>3
    <3>2. e \in Network /\ e \in Read(d)
      BY <2>2
    <3> QED
      BY <1>4, <3>1, <3>2
  <2>5. Kept' \subseteq Kept \cup {e}
    BY <2>1, <2>2, <2>3, <2>4 DEF Kept
  <2>6. {e} \subseteq Read(d)
    BY <2>2
  <2>7. /\ InLine(Strict, capture'.console) /\ InLine(Strict, capture'.completed)
        /\ Grows(capture.console, capture'.console) /\ Grows(capture.completed, capture'.completed)
    BY <1>2, <2>1, <2>2, <2>3, <2>4
  <2>8. PICK X : X = {e}
    OBVIOUS
  <2> QED
    BY <1>5, <2>1, <2>2, <2>5, <2>6, <2>7, <2>8, KeepsInOrder
\* Nothing is put into the buffers.
<1>9. ASSUME capture'.console = capture.console, capture'.completed = capture.completed,
             Read(d)' \subseteq Read(d), EventsInLine(Strict, drain'[d].events), ~Pending(d)',
             drain'[d].step # "append",
             drain'[d].step \notin {"handle", "body"} => drain'[d].events = <<>>
      PROVE  OrderInv'
  <2>1. PICK X : X = {}
    OBVIOUS
  <2>2. X \subseteq Read(d) /\ Ahead(Strict, X, Read(d)') /\ Kept' \subseteq Kept \cup X
    BY <1>9, <2>1 DEF Ahead, Kept
  <2>3. /\ InLine(Strict, capture'.console) /\ InLine(Strict, capture'.completed)
        /\ Grows(capture.console, capture'.console) /\ Grows(capture.completed, capture'.completed)
    BY <1>2, <1>9
  <2> QED
    BY <1>5, <1>9, <2>2, <2>3, KeepsInOrder
<1>d. CASE OnRequestWillBeSent(d) \/ SkipEvent(d)
  <2>1. /\ drain[d].step = "handle" /\ drain[d].events # <<>>
        /\ drain'[d].step = "handle" /\ drain'[d].events = Tail(drain[d].events)
        /\ capture'.console = capture.console /\ capture'.completed = capture.completed
    BY <1>1, <1>d DEF OnRequestWillBeSent, SkipEvent, Loses, DrainAt, Captures, DrainRecord
  <2>2. /\ Read(d)' \subseteq Read(d) /\ EventsInLine(Strict, drain'[d].events) /\ ~Pending(d)'
        /\ drain'[d].step # "append"
    BY <1>7, <2>1
  <2> QED
    BY <1>9, <2>1, <2>2
<1>e. CASE OnLoadingFinished(d) \/ ReadFails(d)
  <2>1. /\ capture'.console = capture.console /\ capture'.completed = capture.completed
        /\ drain'[d].events = drain[d].events
        /\ drain'[d].step \in {"body", "network", "handle"}
        /\ ~DrainAt(d, "append")
    BY <1>1, <1>e DEF OnLoadingFinished, ReadFails, DrainGoes, Loses, DrainAt, Captures, DrainRecord
  <2>2. /\ Read(d)' \subseteq Read(d) /\ ~Pending(d)' /\ drain'[d].step # "append"
    BY <2>1 DEF Read, DrainAt, Pending
  <2>3. drain'[d].step \notin {"handle", "body"} => drain'[d].events = <<>>
    BY <1>1, <1>6, <1>e, <2>1 DEF OnLoadingFinished, ReadFails, DrainGoes, DrainAt, DrainRecord
  <2> QED
    BY <1>2, <1>9, <2>1, <2>2, <2>3
<1> QED
  BY <1>a, <1>b, <1>c, <1>d, <1>e

-----------------------------------------------------------------------------
(* The steps that leave the logs and the buffers, or clear them.           *)

\* The sink does not change, and no flush begins or ends.
LEMMA QuietStep ==
    ASSUME OrderInv, CTInv', DrainPlaces', Strict' => Strict, Alone' => Alone,
           browser'.console = browser.console, browser'.events = browser.events,
           browser'.requests = browser.requests, browser'.entries = browser.entries,
           capture'.console = capture.console, capture'.completed = capture.completed,
           sink'.lines = sink.lines, sink'.intact = sink.intact,
           sink'.nextConsole = sink.nextConsole, sink'.nextNetwork = sink.nextNetwork,
           \A e \in Drainer : /\ drain'[e].events = drain[e].events
                              /\ drain'[e].step = "append" => drain'[e] = drain[e]
                              /\ Pending(e)' => drain'[e] = drain[e]
                              /\ DrainAt(e, "advance") => drain'[e] = drain[e]
    PROVE  OrderInv'
<1>1. /\ OrderCore' /\ Logged' = Logged /\ \A e \in Drainer : Reads'[e] \subseteq Reads[e]
      /\ \A x : Entered(x)' <=> Entered(x)
  BY CoreStays DEF OrderInv
<1>2. Grows(capture.console, capture'.console) /\ Grows(capture.completed, capture'.completed)
  BY CaptureFacts, GrowsBack DEF OrderInv
<1>3. ASSUME LinesInOrder PROVE Past(Strict, Written, Logged', Reads')
  <2>1. Ahead(Strict, Written, {})
    BY DEF Ahead
  <2> QED
    BY <1>1, <1>3, <2>1, PastStays
<1>4. SinkInv'
  BY <1>1, <1>2, <1>3, SinkGrows DEF OrderInv
<1> QED
  BY <1>1, <1>4 DEF OrderInv

LEMMA QuietInOrder ==
    ASSUME OrderInv, CTInv', CaptureStart \/ TimePasses
    PROVE  OrderInv'
<1>1. browser \in Browsers /\ capture \in Captures /\ sink \in Sinks
  BY CaptureFacts DEF OrderInv
<1>2. /\ UNCHANGED <<drain, overlapped>>
      /\ browser'.console = browser.console /\ browser'.events = browser.events
      /\ browser'.requests = browser.requests /\ browser'.entries = browser.entries
      /\ capture'.console = capture.console /\ capture'.completed = capture.completed
      /\ sink'.lines = sink.lines /\ sink'.intact = sink.intact
      /\ sink'.nextConsole = sink.nextConsole /\ sink'.nextNetwork = sink.nextNetwork
  <2>1. CASE CaptureStart
    <3>1. PICK domains : /\ browser' = [browser EXCEPT !.enabled = domains]
                         /\ \/ capture' = [capture EXCEPT !.on = TRUE]
                            \/ Loses([capture EXCEPT !.on = TRUE])
      BY <2>1 DEF CaptureStart
    <3>2. PICK open : sink' = [sink EXCEPT !.open = open]
      BY <2>1 DEF CaptureStart
    <3>3. capture'.console = capture.console /\ capture'.completed = capture.completed
      BY <1>1, <3>1 DEF Loses, Captures
    <3>4. UNCHANGED <<drain, overlapped>>
      BY <2>1 DEF CaptureStart
    <3> QED
      BY <1>1, <3>1, <3>2, <3>3, <3>4 DEF Browsers, Sinks
  <2>2. CASE TimePasses
    BY <1>1, <2>2 DEF TimePasses, Captures
  <2> QED
    BY <2>1, <2>2
<1>3. DrainPlaces' /\ (Strict' => Strict) /\ (Alone' => Alone)
  BY <1>2 DEF OrderInv, DrainPlaces, Draining, Strict, Alone
<1> QED
  BY <1>2, <1>3, QuietStep

LEMMA StartInOrder ==
    ASSUME OrderInv, CTInv', NEW d \in Drainer, NEW stops \in BOOLEAN, StartDrain(d, stops)
    PROVE  OrderInv'
<1>1. capture \in Captures /\ drain \in [Drainer -> DrainRecord] /\ drain[d] \in DrainRecord
  BY CaptureFacts DEF OrderInv
<1>2. /\ UNCHANGED <<browser, sink>>
      /\ capture'.console = capture.console /\ capture'.completed = capture.completed
      /\ overlapped' = IF Quiet THEN overlapped ELSE overlapped \cup {"drain"}
      /\ \A e \in Drainer : e # d => drain'[e] = drain[e]
      /\ drain[d].step = "idle" /\ drain'[d].step \in {"close", "console"}
      /\ drain'[d].events = drain[d].events
  BY <1>1 DEF StartDrain, Captures, DrainRecord
<1>3. drain[d].events = <<>>
  BY <1>2 DEF OrderInv, DrainPlaces
<1>4. (Strict' => Strict /\ Quiet) /\ (Alone' => Alone)
  BY <1>2 DEF Strict, Alone
<1>5. DrainPlaces'
  <2>1. \A e \in Drainer : drain'[e].step \notin {"handle", "body"} => drain'[e].events = <<>>
    BY <1>2, <1>3 DEF OrderInv, DrainPlaces
  <2>2. Strict' => \A e \in Drainer : Draining(e)' => e = d
    BY <1>2, <1>4 DEF Quiet, Draining
  <2> QED
    BY <2>1, <2>2 DEF DrainPlaces
<1>6. \A e \in Drainer : /\ drain'[e].events = drain[e].events
                         /\ drain'[e].step = "append" => drain'[e] = drain[e]
                         /\ Pending(e)' => drain'[e] = drain[e]
                         /\ DrainAt(e, "advance") => drain'[e] = drain[e]
  BY <1>2 DEF Pending, DrainAt
<1> QED
  BY <1>2, <1>4, <1>5, <1>6, QuietStep

LEMMA ClearInOrder == ASSUME OrderInv, CTInv', CaptureClear PROVE OrderInv'
<1>1. capture \in Captures /\ sink \in Sinks
  BY CaptureFacts DEF OrderInv
<1>2. /\ UNCHANGED <<browser, drain>>
      /\ capture'.console = <<>> /\ capture'.completed = <<>>
      /\ sink'.nextConsole = 0 /\ sink'.nextNetwork = 0
      /\ sink'.lines = sink.lines /\ sink'.intact = sink.intact
      /\ overlapped' = IF Flushing THEN overlapped \cup {"flush"} ELSE overlapped
  BY <1>1 DEF CaptureClear, Captures, Sinks
<1>3. /\ Strict' = Strict /\ (Alone' => Alone /\ ~Flushing)
      /\ Logged' = Logged /\ Kept' = {} /\ Written' = Written
      /\ \A x : Entered(x)' <=> Entered(x)
      /\ \A e \in Drainer : Read(e)' = Read(e)
  BY <1>2, NothingThere DEF Strict, Alone, Logged, Kept, Written, Entered, Read, DrainAt
<1>4. Reads' = Reads
  BY <1>3 DEF Reads
<1>5. DrainPlaces'
  BY <1>2, <1>3 DEF OrderInv, DrainPlaces, Draining
<1>6. OrderCore'
  <2>1. LogsInLine'
    BY <1>2, <1>3, NothingThere DEF OrderInv, OrderCore, LogsInLine, DrainAt
  <2>2. Flow(Strict, Logged, Reads, {})
    BY DEF OrderInv, OrderCore, Flow, Ahead
  <2>3. AllEntered'
    BY <1>3 DEF OrderInv, OrderCore, AllEntered
  <2> QED
    BY <1>3, <1>4, <2>1, <2>2, <2>3 DEF OrderCore
<1>7. SinkInv'
  <2> SUFFICES ASSUME Alone' PROVE SinkPositions' /\ (sink'.intact => LinesInOrder')
    BY DEF SinkInv
  <2>1. \A e \in Drainer : ~Pending(e)'
    BY <1>2, <1>3 DEF Flushing, Pending
  <2>2. SinkPositions'
    BY <1>2, <2>1, NothingThere DEF SinkPositions
  <2>3. ASSUME sink'.intact PROVE LinesInOrder'
    <3>1. LinesInOrder
      BY <1>2, <1>3, <2>3 DEF OrderInv, SinkInv
    <3>2. \A e \in Drainer : ~DrainAt(e, "advance")'
      BY <2>1 DEF DrainAt, Pending
    <3>3. Clean(0, 0)'
      BY <1>2, NothingThere DEF Clean, Behind
    <3>4. /\ InLine(Strict, sink.lines)' /\ \A x \in Written' : Entered(x)'
          /\ Past(Strict, Written, Logged, Reads)'
      BY <1>2, <1>3, <1>4, <3>1 DEF LinesInOrder
    <3>5. Clean(sink.nextConsole, sink.nextNetwork)'
      BY <1>2, <3>3
    <3> QED
      BY <3>2, <3>4, <3>5 DEF LinesInOrder
  <2> QED
    BY <2>2, <2>3
<1> QED
  BY <1>5, <1>6, <1>7 DEF OrderInv

-----------------------------------------------------------------------------
(* The steps of a flush.                                                   *)

\* What all of them leave as it is.
LEMMA FlushSteps ==
    ASSUME OrderInv, CTInv', NEW d \in Drainer,
           TakePending(d) \/ WritePending(d) \/ WriteFails(d) \/ AdvanceSink(d) \/ CloseSink(d)
    PROVE  /\ browser'.console = browser.console /\ browser'.events = browser.events
           /\ browser'.requests = browser.requests /\ browser'.entries = browser.entries
           /\ capture'.console = capture.console /\ capture'.completed = capture.completed
           /\ Strict' = Strict /\ (Alone' => Alone) /\ DrainPlaces' /\ OrderCore'
           /\ Logged' = Logged /\ \A e \in Drainer : Reads'[e] \subseteq Reads[e]
           /\ \A x : Entered(x)' <=> Entered(x)
           /\ \A e \in Drainer : e # d => drain'[e] = drain[e]
           /\ drain[d].events = <<>> /\ drain'[d].events = <<>>
           /\ drain'[d].step \in {"idle", "close", "panic", "write", "advance"}
           /\ drain'[d].step = "write" => TakePending(d)
           /\ drain'[d].step = "advance" => WritePending(d) /\ sink.open
<1>1. /\ browser \in Browsers /\ capture \in Captures
      /\ drain \in [Drainer -> DrainRecord] /\ drain[d] \in DrainRecord
  BY CaptureFacts DEF OrderInv
<1>2. /\ browser'.console = browser.console /\ browser'.events = browser.events
      /\ browser'.requests = browser.requests /\ browser'.entries = browser.entries
      /\ capture'.console = capture.console /\ capture'.completed = capture.completed
  <2>1. browser' = browser \/ \E left : browser' = [browser EXCEPT !.enabled = left]
    BY DEF TakePending, WritePending, WriteFails, AdvanceSink, CloseSink
  <2>2. capture' = capture \/ Loses(capture)
    BY DEF TakePending, WritePending, WriteFails, AdvanceSink, CloseSink
  <2> QED
    BY <1>1, <2>1, <2>2 DEF Loses, Browsers, Captures
<1>3. /\ \A e \in Drainer : e # d => drain'[e] = drain[e]
      /\ drain[d].events = <<>> /\ Draining(d)
  <2>1. \A e \in Drainer : e # d => drain'[e] = drain[e]
    BY <1>1 DEF TakePending, WritePending, WriteFails, AdvanceSink, CloseSink, DrainGoes
  <2>2. \/ DrainAt(d, "handle") /\ drain[d].events = <<>>
        \/ drain[d].step \in {"write", "advance", "close"}
    BY DEF TakePending, WritePending, WriteFails, AdvanceSink, CloseSink, DrainAt
  <2>3. drain[d].events = <<>> /\ Draining(d)
    BY <2>2 DEF OrderInv, DrainPlaces, DrainAt, Draining
  <2> QED
    BY <2>1, <2>3
<1>4. After(d) \in {"idle", "close"}
  BY DEF After
<1>5. /\ drain'[d].events = <<>>
      /\ drain'[d].step \in {"idle", "close", "panic", "write", "advance"}
      /\ drain'[d].step = "write" => TakePending(d)
      /\ drain'[d].step = "advance" => WritePending(d) /\ sink.open
  <2>1. CASE TakePending(d)
    <3>1. \E step \in {"idle", "close", "panic", "write"} : \E c, n :
             \/ drain' = [drain EXCEPT ![d].step = step]
             \/ drain' = [drain EXCEPT ![d].step = step, ![d].console = c, ![d].network = n]
      BY <1>4, <2>1 DEF TakePending
    <3>2. drain'[d].events = <<>> /\ drain'[d].step \in {"idle", "close", "panic", "write"}
      BY <1>1, <1>3, <3>1 DEF DrainRecord
    <3> QED
      BY <2>1, <3>2
  <2>2. CASE WritePending(d)
    BY <1>1, <1>3, <2>2 DEF WritePending, DrainGoes, DrainRecord
  <2>3. CASE WriteFails(d) \/ AdvanceSink(d)
    <3> DEFINE n == After(d)
    <3>1. drain' = [drain EXCEPT ![d].step = n, ![d].console = <<>>, ![d].network = <<>>]
      BY <2>3 DEF WriteFails, AdvanceSink
    <3>2. n \in {"idle", "close"}
      BY <1>4
    <3>3. drain'[d].events = <<>> /\ drain'[d].step = n
      <4> HIDE DEF n
      <4> QED
        BY <1>1, <1>3, <3>1 DEF DrainRecord
    <3> QED
      BY <3>2, <3>3
  <2>4. CASE CloseSink(d)
    BY <1>1, <2>4 DEF CloseSink, NoDrain
  <2> QED
    BY <2>1, <2>2, <2>3, <2>4
<1>6. overlapped' = overlapped \/ overlapped' = overlapped \cup {"flush"}
  BY DEF TakePending, WritePending, WriteFails, AdvanceSink, CloseSink
<1>7. Strict' = Strict /\ (Alone' => Alone)
  BY <1>6 DEF Strict, Alone
<1>8. DrainPlaces'
  BY <1>3, <1>5, <1>7, DrainTurns DEF OrderInv
<1>9. \A e \in Drainer : /\ drain'[e].events = drain[e].events
                         /\ drain'[e].step = "append" => drain'[e] = drain[e]
  BY <1>3, <1>5
<1>10. /\ OrderCore' /\ Logged' = Logged /\ \A e \in Drainer : Reads'[e] \subseteq Reads[e]
       /\ \A x : Entered(x)' <=> Entered(x)
  BY <1>2, <1>7, <1>9, CoreStays DEF OrderInv
<1> QED
  BY <1>2, <1>3, <1>5, <1>7, <1>8, <1>10

LEMMA TakeInOrder == ASSUME OrderInv, CTInv', NEW d \in Drainer, TakePending(d) PROVE OrderInv'
<1>1. /\ capture'.console = capture.console /\ capture'.completed = capture.completed
      /\ browser'.console = browser.console /\ browser'.events = browser.events
      /\ browser'.requests = browser.requests /\ browser'.entries = browser.entries
      /\ Strict' = Strict /\ (Alone' => Alone) /\ DrainPlaces' /\ OrderCore'
      /\ Logged' = Logged /\ \A e \in Drainer : Reads'[e] \subseteq Reads[e]
      /\ \A x : Entered(x)' <=> Entered(x)
      /\ \A e \in Drainer : e # d => drain'[e] = drain[e]
      /\ drain[d].events = <<>> /\ drain'[d].events = <<>>
      /\ drain'[d].step \in {"idle", "close", "panic", "write", "advance"}
      /\ (drain'[d].step = "advance" => WritePending(d))
  BY FlushSteps
<1>2. drain[d].step = "handle" /\ UNCHANGED sink /\ drain'[d].step # "advance"
  BY <1>1 DEF TakePending, WritePending, DrainAt
<1>3. CASE drain'[d].step # "write"
  <2>1. \A e \in Drainer : /\ drain'[e].events = drain[e].events
                           /\ drain'[e].step = "append" => drain'[e] = drain[e]
                           /\ Pending(e)' => drain'[e] = drain[e]
                           /\ DrainAt(e, "advance") => drain'[e] = drain[e]
    BY <1>1, <1>2, <1>3 DEF Pending, DrainAt
  <2> QED
    BY <1>1, <1>2, <2>1, QuietStep
<1>4. CASE drain'[d].step = "write"
  <2>1. /\ sink.nextConsole \in Nat /\ sink.nextNetwork \in Nat
        /\ capture.console \in Seq(Console) /\ capture.completed \in Seq(Network)
        /\ drain \in [Drainer -> DrainRecord] /\ drain[d] \in DrainRecord
    BY CaptureFacts DEF OrderInv
  <2> DEFINE console == SubSeq(capture.console, sink.nextConsole + 1, Len(capture.console))
             network == SubSeq(capture.completed, sink.nextNetwork + 1, Len(capture.completed))
             beyond == sink.nextConsole > Len(capture.console)
                         \/ sink.nextNetwork > Len(capture.completed)
             step == IF ~sink.open THEN After(d) ELSE IF beyond THEN "panic"
                     ELSE IF console \o network = <<>> THEN After(d) ELSE "write"
  <2>2. /\ drain' = IF step # "write" THEN [drain EXCEPT ![d].step = step]
                    ELSE [drain EXCEPT ![d].step = step, ![d].console = console, ![d].network = network]
        /\ overlapped' = IF step = "write" /\ Flushing THEN overlapped \cup {"flush"} ELSE overlapped
    BY DEF TakePending
  <2>3. step = "write" => ~beyond
    BY DEF After
  <2> HIDE DEF console, network, step
  <2>4. step = "write"
    BY <1>4, <2>1, <2>2 DEF DrainRecord
  <2>5. /\ drain'[d].console = console /\ drain'[d].network = network
        /\ (Alone' => ~Flushing)
    BY <2>1, <2>2, <2>4 DEF DrainRecord, Alone
  <2>6. SinkInv'
    <3> SUFFICES ASSUME Alone' PROVE SinkPositions' /\ (sink'.intact => LinesInOrder')
      BY DEF SinkInv
    <3>1. Alone /\ SinkPositions /\ \A e \in Drainer : ~Pending(e)
      BY <1>1, <2>5 DEF OrderInv, SinkInv, Flushing, Pending
    <3>2. \A e \in Drainer : (Pending(e)' => e = d) /\ ~DrainAt(e, "advance")'
                             /\ ~DrainAt(e, "advance")
      BY <1>1, <1>4, <3>1 DEF Pending, DrainAt
    <3>3. /\ sink.nextConsole <= Len(capture.console) /\ sink.nextNetwork <= Len(capture.completed)
      BY <3>1 DEF SinkPositions
    <3>4. ASSUME NEW S, NEW s \in Seq(S), NEW m \in Nat, m <= Len(s),
                 NEW p, p = SubSeq(s, m + 1, Len(s))
          PROVE  Slice(s, m, p)
      <4>1. /\ Len(p) = Len(s) - m /\ \A i \in 1 .. Len(s) - m : p[i] = s[m + i]
            /\ Len(s) \in Nat
        BY <3>4, PendingPlaces, EntryAt
      <4> QED
        BY <3>4, <4>1 DEF Slice
    <3>5. Slice(capture.console, sink.nextConsole, console)
      <4>1. PICK s, m, p : s = capture.console /\ m = sink.nextConsole /\ p = console
        OBVIOUS
      <4>2. s \in Seq(Console) /\ m \in Nat /\ m <= Len(s) /\ p = SubSeq(s, m + 1, Len(s))
        BY <2>1, <3>3, <4>1 DEF console
      <4>3. Slice(s, m, p)
        BY <3>4, <4>2
      <4> QED
        BY <4>1, <4>3
    <3>6. Slice(capture.completed, sink.nextNetwork, network)
      <4>1. PICK s, m, p : s = capture.completed /\ m = sink.nextNetwork /\ p = network
        OBVIOUS
      <4>2. s \in Seq(Network) /\ m \in Nat /\ m <= Len(s) /\ p = SubSeq(s, m + 1, Len(s))
        BY <2>1, <3>3, <4>1 DEF network
      <4>3. Slice(s, m, p)
        BY <3>4, <4>2
      <4> QED
        BY <4>1, <4>3
    <3>7. SinkPositions'
      <4>1. \A e \in Drainer : Pending(e)' =>
               /\ Slice(capture'.console, sink'.nextConsole, drain'[e].console)
               /\ Slice(capture'.completed, sink'.nextNetwork, drain'[e].network)
        BY <1>1, <1>2, <2>5, <3>2, <3>5, <3>6
      <4>2. /\ sink'.nextConsole <= Len(capture'.console)
            /\ sink'.nextNetwork <= Len(capture'.completed)
        BY <1>1, <1>2, <3>3
      <4>3. \A e, f \in Drainer : Pending(e)' /\ Pending(f)' => e = f
        BY <3>2
      <4> QED
        BY <4>1, <4>2, <4>3 DEF SinkPositions
    <3>8. ASSUME sink'.intact PROVE LinesInOrder'
      <4>1. LinesInOrder /\ Written' = Written
        BY <1>2, <3>1, <3>8 DEF OrderInv, SinkInv, Written
      <4>2. Past(Strict, Written, Logged', Reads')
        <5>1. Ahead(Strict, Written, {})
          BY DEF Ahead
        <5> QED
          BY <1>1, <4>1, <5>1, PastStays
      <4>3. Clean(sink.nextConsole, sink.nextNetwork)'
        BY <1>1, <1>2, <3>2, <4>1 DEF LinesInOrder, Clean
      <4> QED
        BY <1>1, <1>2, <3>2, <4>1, <4>2, <4>3 DEF LinesInOrder
    <3> QED
      BY <3>7, <3>8
  <2> QED
    BY <1>1, <2>6 DEF OrderInv
<1> QED
  BY <1>3, <1>4

\* What is pending comes from the buffer, past the position.
LEMMA SliceFacts ==
    ASSUME NEW S, NEW s \in Seq(S), NEW p \in Seq(S), NEW m \in Nat, Slice(s, m, p), NEW o, InLine(o, s)
    PROVE  /\ Gathered(p) \subseteq Gathered(s) /\ InLine(o, p) /\ m + Len(p) \in Nat
           /\ Behind(o, Gathered(p), s, m + Len(p))
           /\ \A W : Behind(o, W, s, m) => Ahead(o, W, Gathered(p)) /\ Behind(o, W, s, m + Len(p))
<1>1. Len(s) \in Nat /\ Len(p) \in Nat /\ m + Len(p) <= Len(s)
  BY EntryAt DEF Slice
<1>2. \A i \in 1 .. Len(p) : m + i \in 1 .. Len(s) /\ p[i] = s[m + i] /\ m + i > m
                             /\ m + i <= m + Len(p)
  BY <1>1 DEF Slice
<1>3. Gathered(p) \subseteq Gathered(s)
  BY <1>2 DEF Gathered
<1>4. InLine(o, p)
  <2> SUFFICES ASSUME NEW i \in 1 .. Len(p), NEW j \in 1 .. Len(p), i < j
               PROVE  Precedes(o, p[i], p[j])
    BY DEF InLine
  <2>1. m + i < m + j
    BY <1>1
  <2> QED
    BY <1>2, <2>1 DEF InLine
<1>5. Behind(o, Gathered(p), s, m + Len(p))
  <2> SUFFICES ASSUME NEW i \in 1 .. Len(s), i > m + Len(p), NEW j \in 1 .. Len(p)
               PROVE  Precedes(o, p[j], s[i])
    BY DEF Behind, Gathered
  <2>1. m + j < i /\ m + j \in 1 .. Len(s) /\ p[j] = s[m + j]
    BY <1>1, <1>2
  <2> QED
    BY <2>1 DEF InLine
<1>6. ASSUME NEW W, Behind(o, W, s, m)
      PROVE  Ahead(o, W, Gathered(p)) /\ Behind(o, W, s, m + Len(p))
  <2>1. Ahead(o, W, Gathered(p))
    BY <1>2, <1>6 DEF Behind, Ahead, Gathered
  <2>2. \A i \in 1 .. Len(s) : i > m + Len(p) => i > m
    BY <1>1
  <2> QED
    BY <1>6, <2>1, <2>2 DEF Behind
<1> QED
  BY <1>1, <1>3, <1>4, <1>5, <1>6

LEMMA WriteInOrder == ASSUME OrderInv, CTInv', NEW d \in Drainer, WritePending(d) PROVE OrderInv'
<1>1. /\ capture'.console = capture.console /\ capture'.completed = capture.completed
      /\ browser'.console = browser.console /\ browser'.events = browser.events
      /\ browser'.requests = browser.requests /\ browser'.entries = browser.entries
      /\ Strict' = Strict /\ (Alone' => Alone) /\ DrainPlaces' /\ OrderCore'
      /\ Logged' = Logged /\ \A e \in Drainer : Reads'[e] \subseteq Reads[e]
      /\ \A x : Entered(x)' <=> Entered(x)
      /\ \A e \in Drainer : e # d => drain'[e] = drain[e]
      /\ drain[d].events = <<>> /\ drain'[d].events = <<>>
  BY FlushSteps
<1>2. /\ sink \in Sinks /\ sink.nextConsole \in Nat /\ sink.nextNetwork \in Nat
      /\ capture.console \in Seq(Console) /\ capture.completed \in Seq(Network)
      /\ drain \in [Drainer -> DrainRecord] /\ drain[d] \in DrainRecord
      /\ drain[d].console \in Seq(Console) /\ drain[d].network \in Seq(Network)
      /\ sink.lines \in Seq(Line)
  BY CaptureFacts DEF OrderInv
<1>3. drain[d].step = "write"
  BY DEF WritePending, DrainAt
<1>4. CASE ~sink.open
  <2>1. UNCHANGED sink /\ drain'[d].step = "panic"
    BY <1>2, <1>4 DEF WritePending, DrainGoes, DrainRecord
  <2>2. \A e \in Drainer : /\ drain'[e].events = drain[e].events
                           /\ drain'[e].step = "append" => drain'[e] = drain[e]
                           /\ Pending(e)' => drain'[e] = drain[e]
                           /\ DrainAt(e, "advance") => drain'[e] = drain[e]
    BY <1>1, <1>3, <2>1 DEF Pending, DrainAt
  <2> QED
    BY <1>1, <2>1, <2>2, QuietStep
<1>5. CASE sink.open
  <2>1. /\ sink'.lines = sink.lines \o drain[d].console \o drain[d].network
        /\ sink'.intact = sink.intact
        /\ sink'.nextConsole = sink.nextConsole /\ sink'.nextNetwork = sink.nextNetwork
        /\ drain'[d].step = "advance"
        /\ drain'[d].console = drain[d].console /\ drain'[d].network = drain[d].network
    BY <1>2, <1>5 DEF WritePending, DrainGoes, DrainRecord, Sinks
  <2>2. SinkInv'
    <3> SUFFICES ASSUME Alone' PROVE SinkPositions' /\ (sink'.intact => LinesInOrder')
      BY DEF SinkInv
    <3>1. Alone /\ SinkPositions /\ Pending(d)
      BY <1>1, <1>3 DEF OrderInv, SinkInv, Pending
    <3>2. \A e \in Drainer : (Pending(e) => e = d) /\ (Pending(e)' => e = d)
      BY <1>1, <3>1 DEF SinkPositions, Pending
    <3>3. SinkPositions'
      BY <1>1, <2>1, <3>1, <3>2 DEF SinkPositions
    <3>4. ASSUME sink'.intact PROVE LinesInOrder'
      <4>1. LinesInOrder
        BY <2>1, <3>1, <3>4 DEF OrderInv, SinkInv
      <4>2. \A e \in Drainer : ~DrainAt(e, "advance") /\ (DrainAt(e, "advance")' => e = d)
        BY <1>3, <3>2 DEF DrainAt, Pending
      <4>3. PICK o, lines, cc, cn, c, n, p, q, W :
               /\ o = Strict /\ lines = sink.lines /\ cc = capture.console /\ cn = capture.completed
               /\ c = drain[d].console /\ n = drain[d].network
               /\ p = sink.nextConsole /\ q = sink.nextNetwork /\ W = Written
        OBVIOUS
      <4>4. /\ lines \in Seq(Line) /\ cc \in Seq(Console) /\ cn \in Seq(Network)
            /\ c \in Seq(Console) /\ n \in Seq(Network) /\ p \in Nat /\ q \in Nat
        BY <1>2, <4>3
      <4>5. /\ InLine(o, lines) /\ InLine(o, cc) /\ InLine(o, cn)
            /\ Slice(cc, p, c) /\ Slice(cn, q, n)
            /\ Behind(o, W, cc, p) /\ Behind(o, W, cn, q) /\ W = Gathered(lines)
        <5>1. InLine(Strict, capture.console) /\ InLine(Strict, capture.completed)
          BY DEF OrderInv, OrderCore, LogsInLine
        <5>2. /\ Slice(capture.console, sink.nextConsole, drain[d].console)
              /\ Slice(capture.completed, sink.nextNetwork, drain[d].network)
          BY <3>1 DEF SinkPositions
        <5>3. Clean(sink.nextConsole, sink.nextNetwork) /\ InLine(Strict, sink.lines)
          BY <4>1, <4>2 DEF LinesInOrder
        <5> QED
          BY <4>3, <5>1, <5>2, <5>3 DEF Clean, Written
      <4>6. /\ Gathered(c) \subseteq Gathered(cc) /\ InLine(o, c) /\ Ahead(o, W, Gathered(c))
            /\ Behind(o, Gathered(c), cc, p + Len(c)) /\ Behind(o, W, cc, p + Len(c))
        BY <4>4, <4>5, SliceFacts
      <4>7. /\ Gathered(n) \subseteq Gathered(cn) /\ InLine(o, n) /\ Ahead(o, W, Gathered(n))
            /\ Behind(o, Gathered(n), cn, q + Len(n)) /\ Behind(o, W, cn, q + Len(n))
        BY <4>4, <4>5, SliceFacts
      <4>8. /\ \A i \in 1 .. Len(cc) : cc[i] \in Console /\ cc[i].type # "network"
            /\ \A i \in 1 .. Len(cn) : cn[i] \in Network /\ cn[i].type = "network"
            /\ \A x \in Gathered(c) : x.type # "network"
            /\ \A x \in Gathered(n) : x.type = "network"
        <5>1. /\ \A i \in 1 .. Len(cc) : cc[i] \in Console
              /\ \A i \in 1 .. Len(cn) : cn[i] \in Network
          BY <4>4, EntryAt
        <5>2. /\ \A x \in Gathered(cc) : x \in Console
              /\ \A x \in Gathered(cn) : x \in Network
          BY <5>1 DEF Gathered
        <5> QED
          BY <4>6, <4>7, <5>1, <5>2, LineKinds
      <4>9. /\ Ahead(o, Gathered(c), Gathered(n))
            /\ Behind(o, Gathered(n), cc, p + Len(c)) /\ Behind(o, Gathered(c), cn, q + Len(n))
        BY <4>8, OtherType DEF Ahead, Behind
      <4>10. PICK u, w : u = lines \o c /\ w = u \o n
        OBVIOUS
      <4>11. c \in Seq(Line) /\ n \in Seq(Line) /\ u \in Seq(Line)
        <5>1. c \in Seq(Line) /\ n \in Seq(Line)
          BY <4>4, SeqMonotonic DEF Line
        <5>2. u = lines \o c
          BY <4>10
        <5>3. u \in Seq(Line)
          BY <4>4, <5>1, <5>2, ConcatTyped
        <5> QED
          BY <5>1, <5>3
      <4>12. Gathered(u) = W \cup Gathered(c) /\ InLine(o, u)
        <5>1. u = lines \o c
          BY <4>10
        <5>2. Gathered(u) = Gathered(lines) \cup Gathered(c)
          BY <4>4, <4>11, <5>1, EntriesConcat
        <5>3. InLine(o, lines) /\ InLine(o, c) /\ Ahead(o, Gathered(lines), Gathered(c)) => InLine(o, u)
          BY <4>4, <4>11, <5>1, EntriesConcat
        <5> QED
          BY <4>5, <4>6, <5>2, <5>3
      <4>13. Gathered(w) = W \cup Gathered(c) \cup Gathered(n) /\ InLine(o, w)
        <5>1. w = u \o n
          BY <4>10
        <5>2. Gathered(w) = Gathered(u) \cup Gathered(n)
          BY <4>11, <5>1, EntriesConcat
        <5>3. InLine(o, u) /\ InLine(o, n) /\ Ahead(o, Gathered(u), Gathered(n)) => InLine(o, w)
          BY <4>11, <5>1, EntriesConcat
        <5>4. Ahead(o, Gathered(u), Gathered(n))
          BY <4>7, <4>9, <4>12 DEF Ahead
        <5> QED
          BY <4>7, <4>12, <5>2, <5>3, <5>4
      <4>14. w = sink'.lines /\ Written' = W \cup Gathered(c) \cup Gathered(n)
        BY <2>1, <4>3, <4>10, <4>13 DEF Written
      <4>15. InLine(Strict, sink.lines)'
        BY <1>1, <4>3, <4>13, <4>14
      <4>16. Gathered(c) \cup Gathered(n) \subseteq Kept
        BY <4>3, <4>6, <4>7 DEF Kept
      <4>17. \A x \in Written' : Entered(x)'
        BY <1>1, <4>1, <4>3, <4>14, <4>16 DEF LinesInOrder, OrderInv, OrderCore, AllEntered
      <4>18. Past(Strict, Written, Logged, Reads)'
        <5>1. \A x \in Written' : x \in Written \/ x \in Kept
          BY <4>3, <4>14, <4>16
        <5>2. \A x \in Written', y \in Logged : Precedes(Strict, x, y)
          BY <4>1, <5>1 DEF LinesInOrder, Past, OrderInv, OrderCore, Flow, Ahead
        <5>3. \A x \in Written', e \in Drainer : \A y \in Reads[e] : Precedes(Strict, x, y)
          BY <4>1, <5>1 DEF LinesInOrder, Past, OrderInv, OrderCore, Flow, Ahead
        <5> QED
          BY <1>1, <5>2, <5>3 DEF Past, Ahead
      <4>19. /\ Behind(o, Written', cc, p + Len(c)) /\ Behind(o, Written', cn, q + Len(n))
        BY <4>6, <4>7, <4>9, <4>14 DEF Behind
      <4>20. Clean(sink.nextConsole + Len(drain[d].console),
                   sink.nextNetwork + Len(drain[d].network))'
        BY <1>1, <2>1, <4>3, <4>19 DEF Clean
      <4>21. DrainAt(d, "advance")'
        BY <2>1 DEF DrainAt
      <4> QED
        BY <4>2, <4>15, <4>17, <4>18, <4>20, <4>21 DEF LinesInOrder
    <3> QED
      BY <3>3, <3>4
  <2> QED
    BY <1>1, <2>2 DEF OrderInv
<1> QED
  BY <1>4, <1>5

LEMMA EndOfFlushInOrder ==
    ASSUME OrderInv, CTInv', NEW d \in Drainer, WriteFails(d) \/ AdvanceSink(d) \/ CloseSink(d)
    PROVE  OrderInv'
<1>1. /\ capture'.console = capture.console /\ capture'.completed = capture.completed
      /\ browser'.console = browser.console /\ browser'.events = browser.events
      /\ browser'.requests = browser.requests /\ browser'.entries = browser.entries
      /\ Strict' = Strict /\ (Alone' => Alone) /\ DrainPlaces' /\ OrderCore'
      /\ Logged' = Logged /\ \A e \in Drainer : Reads'[e] \subseteq Reads[e]
      /\ \A x : Entered(x)' <=> Entered(x)
      /\ \A e \in Drainer : e # d => drain'[e] = drain[e]
      /\ drain[d].events = <<>> /\ drain'[d].events = <<>>
      /\ drain'[d].step \in {"idle", "close", "panic", "write", "advance"}
      /\ (drain'[d].step = "write" => TakePending(d))
      /\ (drain'[d].step = "advance" => WritePending(d) /\ sink.open)
  BY FlushSteps
<1>2. /\ sink \in Sinks /\ sink.nextConsole \in Nat /\ sink.nextNetwork \in Nat
      /\ drain \in [Drainer -> DrainRecord] /\ drain[d] \in DrainRecord
      /\ drain[d].console \in Seq(Console) /\ drain[d].network \in Seq(Network)
  BY CaptureFacts DEF OrderInv
<1>3. drain[d].step \in {"write", "advance", "close"} /\ ~Pending(d)' /\ drain'[d].step # "append"
  <2>1. drain[d].step \in {"write", "advance", "close"}
    BY DEF WriteFails, AdvanceSink, CloseSink, DrainAt
  <2>2. After(d) \in {"idle", "close"}
    BY DEF After
  <2>3. drain'[d].step \in {"idle", "close"}
    <3>1. CASE WriteFails(d) \/ AdvanceSink(d)
      <4>1. drain' = [drain EXCEPT ![d].step = After(d), ![d].console = <<>>, ![d].network = <<>>]
        BY <3>1 DEF WriteFails, AdvanceSink
      <4> QED
        BY <1>2, <2>2, <4>1 DEF DrainRecord
    <3>2. CASE CloseSink(d)
      BY <1>2, <3>2 DEF CloseSink, NoDrain
    <3> QED
      BY <3>1, <3>2
  <2> QED
    BY <2>1, <2>3 DEF Pending
<1>4. CASE CloseSink(d)
  <2>1. /\ drain[d].step = "close" /\ sink'.lines = sink.lines /\ sink'.intact = sink.intact
        /\ sink'.nextConsole = sink.nextConsole /\ sink'.nextNetwork = sink.nextNetwork
    BY <1>2, <1>4 DEF CloseSink, DrainAt, Sinks
  <2>2. \A e \in Drainer : /\ drain'[e].events = drain[e].events
                           /\ drain'[e].step = "append" => drain'[e] = drain[e]
                           /\ Pending(e)' => drain'[e] = drain[e]
                           /\ DrainAt(e, "advance") => drain'[e] = drain[e]
    BY <1>1, <1>3, <2>1 DEF Pending, DrainAt
  <2> QED
    BY <1>1, <2>1, <2>2, QuietStep
<1>5. CASE WriteFails(d) \/ AdvanceSink(d)
  <2>1. drain[d].step \in {"write", "advance"}
    BY <1>5 DEF WriteFails, AdvanceSink, DrainAt
  <2>2. SinkInv'
    <3> SUFFICES ASSUME Alone' PROVE SinkPositions' /\ (sink'.intact => LinesInOrder')
      BY DEF SinkInv
    <3>1. Alone /\ SinkPositions /\ Pending(d)
      BY <1>1, <2>1 DEF OrderInv, SinkInv, Pending
    <3>2. \A e \in Drainer : ~Pending(e)'
      BY <1>1, <1>3, <3>1 DEF SinkPositions, Pending
    <3>3. CASE WriteFails(d)
      <4>1. /\ sink'.intact = FALSE
            /\ sink'.nextConsole = sink.nextConsole /\ sink'.nextNetwork = sink.nextNetwork
        BY <1>2, <3>3 DEF WriteFails, Sinks
      <4>2. SinkPositions'
        BY <1>1, <3>1, <3>2, <4>1 DEF SinkPositions
      <4> QED
        BY <4>1, <4>2
    <3>4. CASE AdvanceSink(d)
      <4>1. /\ sink'.lines = sink.lines /\ sink'.intact = sink.intact /\ drain[d].step = "advance"
            /\ sink'.nextConsole = sink.nextConsole + Len(drain[d].console)
            /\ sink'.nextNetwork = sink.nextNetwork + Len(drain[d].network)
        <5>1. /\ sink' = [sink EXCEPT !.nextConsole = @ + Len(drain[d].console),
                                      !.nextNetwork = @ + Len(drain[d].network)]
              /\ drain[d].step = "advance"
          BY <3>4 DEF AdvanceSink, DrainAt
        <5>2. PICK m, n : m = Len(drain[d].console) /\ n = Len(drain[d].network)
          OBVIOUS
        <5>3. sink' = [sink EXCEPT !.nextConsole = sink.nextConsole + m,
                                   !.nextNetwork = sink.nextNetwork + n]
          BY <5>1, <5>2, Zenon
        <5>4. /\ sink'.lines = sink.lines /\ sink'.intact = sink.intact
              /\ sink'.nextConsole = sink.nextConsole + m /\ sink'.nextNetwork = sink.nextNetwork + n
          BY <1>2, <5>3 DEF Sinks
        <5> QED
          BY <5>1, <5>2, <5>4
      <4>2. /\ Slice(capture.console, sink.nextConsole, drain[d].console)
            /\ Slice(capture.completed, sink.nextNetwork, drain[d].network)
        BY <3>1 DEF SinkPositions
      <4>3. SinkPositions'
        BY <1>1, <3>2, <4>1, <4>2 DEF SinkPositions, Slice
      <4>4. ASSUME sink'.intact PROVE LinesInOrder'
        <5>1. LinesInOrder /\ Written' = Written
          BY <3>1, <4>1, <4>4 DEF OrderInv, SinkInv, Written
        <5>2. Clean(sink.nextConsole + Len(drain[d].console), sink.nextNetwork + Len(drain[d].network))
          BY <4>1, <5>1 DEF LinesInOrder, DrainAt
        <5>3. Clean(sink.nextConsole, sink.nextNetwork)'
          BY <1>1, <4>1, <5>1, <5>2 DEF Clean
        <5>4. \A e \in Drainer : ~DrainAt(e, "advance")'
          BY <3>2 DEF DrainAt, Pending
        <5>5. Past(Strict, Written, Logged', Reads')
          <6>1. Ahead(Strict, Written, {})
            BY DEF Ahead
          <6> QED
            BY <1>1, <5>1, <6>1, PastStays
        <5> QED
          BY <1>1, <4>1, <5>1, <5>3, <5>4, <5>5 DEF LinesInOrder
      <4> QED
        BY <4>3, <4>4
    <3> QED
      BY <1>5, <3>3, <3>4
  <2> QED
    BY <1>1, <2>2 DEF OrderInv
<1> QED
  BY <1>4, <1>5

-----------------------------------------------------------------------------
(* The order holds.                                                        *)

LEMMA InitInOrder == CaptureInit => OrderInv
<1> SUFFICES ASSUME CaptureInit PROVE OrderInv
  OBVIOUS
<1>1. /\ CTInv /\ browser.console = <<>> /\ browser.events = <<>>
      /\ capture.console = <<>> /\ capture.completed = <<>>
      /\ sink.lines = <<>> /\ sink.nextConsole = 0 /\ sink.nextNetwork = 0
      /\ \A d \in Drainer : drain[d].step = "idle" /\ drain[d].events = <<>>
  BY CaptureInitTyped DEF CaptureInit, NoSink, NoDrain
<1>2. /\ Logged = {} /\ Kept = {} /\ Written = {} /\ \A d \in Drainer : Read(d) = {}
  BY <1>1, NothingThere DEF Logged, Kept, Written, Read, DrainAt
<1>3. \A d \in Drainer : Reads[d] = {}
  BY <1>2 DEF Reads
<1>4. DrainPlaces /\ \A d \in Drainer : ~Pending(d) /\ ~DrainAt(d, "append") /\ ~DrainAt(d, "advance")
  BY <1>1 DEF DrainPlaces, Draining, Pending, DrainAt
<1>5. LogsInLine
  BY <1>1, <1>4, NothingThere DEF LogsInLine
<1>6. Flow(Strict, Logged, Reads, Kept)
  BY <1>2, <1>3 DEF Flow, Ahead
<1>7. AllEntered
  BY <1>2 DEF AllEntered
<1>8. SinkPositions
  BY <1>1, <1>4, NothingThere DEF SinkPositions
<1>9. LinesInOrder
  BY <1>1, <1>2, <1>3, <1>4, NothingThere DEF LinesInOrder, Past, Ahead, Clean, Behind
<1> QED
  BY <1>1, <1>4, <1>5, <1>6, <1>7, <1>8, <1>9 DEF OrderInv, OrderCore, SinkInv

LEMMA StepInOrder == OrderInv /\ [CaptureNext]_captureVars => OrderInv'
<1> SUFFICES ASSUME OrderInv, [CaptureNext]_captureVars PROVE OrderInv'
  OBVIOUS
<1>1. CTInv'
  BY CaptureNextTyped DEF OrderInv
<1>2. CASE LogConsole
  BY <1>1, <1>2, LogConsoleInOrder
<1>3. ASSUME NEW r \in NetRequest, SendRequest(r) \/ EndRequest(r) PROVE OrderInv'
  BY <1>1, <1>3, LogNetworkInOrder
<1>4. CASE CaptureStart \/ TimePasses
  BY <1>1, <1>4, QuietInOrder
<1>5. CASE CaptureClear
  BY <1>1, <1>5, ClearInOrder
<1>6. ASSUME NEW d \in Drainer, Drains(d) PROVE OrderInv'
  <2>1. ASSUME NEW stops \in BOOLEAN, StartDrain(d, stops) PROVE OrderInv'
    BY <1>1, <2>1, StartInOrder
  <2>2. CASE ReadConsole(d) \/ ReadNetwork(d)
    BY <1>1, <2>2, ReadsInOrder
  <2>3. CASE \/ AppendConsole(d) \/ OnRuntimeConsole(d) \/ OnRequestWillBeSent(d)
             \/ OnLoadingFailed(d) \/ OnLoadingFinished(d) \/ EndFinished(d)
             \/ SkipEvent(d) \/ ReadFails(d)
    BY <1>1, <2>3, HandlesInOrder
  <2>4. CASE TakePending(d)
    BY <1>1, <2>4, TakeInOrder
  <2>5. CASE WritePending(d)
    BY <1>1, <2>5, WriteInOrder
  <2>6. CASE WriteFails(d) \/ AdvanceSink(d) \/ CloseSink(d)
    BY <1>1, <2>6, EndOfFlushInOrder
  <2> QED
    BY <1>6, <2>1, <2>2, <2>3, <2>4, <2>5, <2>6 DEF Drains
<1>7. CASE UNCHANGED captureVars
  <2>1. /\ UNCHANGED <<browser, capture, sink, drain, overlapped>>
    BY <1>7 DEF captureVars
  <2>2. DrainPlaces' /\ (Strict' => Strict) /\ (Alone' => Alone)
    BY <2>1 DEF OrderInv, DrainPlaces, Draining, Strict, Alone
  <2> QED
    BY <1>1, <2>1, <2>2, QuietStep
<1> QED
  BY <1>2, <1>3, <1>4, <1>5, <1>6, <1>7 DEF CaptureNext

LEMMA OrderInvHolds == CaptureSpec => []OrderInv
<1> QED
  BY InitInOrder, StepInOrder, PTL DEF CaptureSpec

\* The types of the capture, its sink and its drains, for any values of the
\* constants: a body is fetched only for a request that has ended.
LEMMA CaptureTypesHold == CaptureSpec => []CaptureTypeOK
<1>1. OrderInv => CaptureTypeOK
  BY DEF OrderInv, CTInv
<1> QED
  BY <1>1, OrderInvHolds, PTL

\* For any requests, entries, drainers and drains: the sink gets an entry of either
\* log and a request at most once, in the order of the log if no two drains overlap,
\* and its positions stay within the buffers, whatever fails (FlushSink, Clear,
\* drainConsole, drainNetwork).
THEOREM SinkInOrderHolds == CaptureSpec => []SinkInOrder
<1>1. OrderInv => SinkInOrder
  <2> SUFFICES ASSUME OrderInv, Alone
               PROVE  /\ sink.intact => IsInjective(sink.lines)
                      /\ sink.intact /\ Strict =>
                            \A i, j \in DOMAIN sink.lines :
                               i < j /\ sink.lines[i].type = sink.lines[j].type
                               /\ sink.lines[i].type # "network"
                               => sink.lines[i].of < sink.lines[j].of
                      /\ sink.nextConsole <= Len(capture.console)
                      /\ sink.nextNetwork <= Len(capture.completed)
    BY DEF SinkInOrder, Alone, Strict
  <2>1. SinkPositions /\ (sink.intact => InLine(Strict, sink.lines))
    BY DEF OrderInv, SinkInv, LinesInOrder
  <2>2. sink.lines \in Seq(Line)
    BY CaptureFacts DEF OrderInv
  <2>3. DOMAIN sink.lines = 1 .. Len(sink.lines) /\ Len(sink.lines) \in Nat
    BY <2>2, LenProperties
  <2>4. ASSUME sink.intact, NEW i \in 1 .. Len(sink.lines), NEW j \in 1 .. Len(sink.lines),
               sink.lines[i] = sink.lines[j]
        PROVE  i = j
    <3>1. ~(i < j) /\ ~(j < i)
      BY <2>1, <2>4 DEF InLine, Precedes
    <3> QED
      BY <2>3, <3>1
  <2>5. sink.intact => IsInjective(sink.lines)
    BY <2>3, <2>4 DEF IsInjective
  <2>6. ASSUME sink.intact, Strict, NEW i \in 1 .. Len(sink.lines), NEW j \in 1 .. Len(sink.lines),
               i < j, sink.lines[i].type = sink.lines[j].type, sink.lines[i].type # "network"
        PROVE  sink.lines[i].of < sink.lines[j].of
    BY <2>1, <2>6 DEF InLine, Precedes
  <2> QED
    BY <2>1, <2>3, <2>5, <2>6 DEF SinkPositions
<1> QED
  BY <1>1, OrderInvHolds, PTL

-----------------------------------------------------------------------------
(* InflightTrue. As long as no two drains overlap, a request that has ended *)
(* and is in flight, or is to be put there by an event on its way, has its  *)
(* end on its way as well, behind the event that it was sent.               *)

IsEnd(e) == e.event \in {"finished", "failed"}
Ends(s) == {s[i].of : i \in {j \in 1 .. Len(s) : IsEnd(s[j])}}
Sends(s) == {s[i].of : i \in {j \in 1 .. Len(s) : s[j].event = "sent"}}
SentFirst(s) == \A i, j \in 1 .. Len(s) :
                   i < j /\ IsEnd(s[i]) /\ s[j].event = "sent" => s[i].of # s[j].of

HeldEnds == UNION {Ends(drain[d].events) : d \in Drainer}
HeldSends == UNION {Sends(drain[d].events) : d \in Drainer}

Flights(requests, lost, flying, loggedEnds, loggedSends, heldEnds, heldSends) ==
    /\ \A r \in flying \cup loggedSends \cup heldSends :
          /\ requests[r] # "new"
          /\ requests[r] = "ended" => r \in loggedEnds \cup heldEnds \cup lost
    /\ \A r \in loggedEnds \cup heldEnds : requests[r] = "ended"
    /\ heldEnds \cap loggedSends = {}

FlyInv ==
    Strict => /\ SentFirst(browser.events) /\ \A d \in Drainer : SentFirst(drain[d].events)
              /\ Flights(browser.requests, untold, capture.inflight, Ends(browser.events),
                         Sends(browser.events), HeldEnds, HeldSends)

LEMMA NoneEnds == Ends(<<>>) = {} /\ Sends(<<>>) = {} /\ SentFirst(<<>>)
<1>1. 1 .. Len(<<>>) = {}
  BY EmptySeq
<1> QED
  BY <1>1 DEF Ends, Sends, SentFirst

LEMMA EndsAppend ==
    ASSUME NEW s \in Seq(NetEvent), NEW e \in NetEvent, NEW t, t = Append(s, e)
    PROVE  /\ Ends(t) = Ends(s) \cup (IF IsEnd(e) THEN {e.of} ELSE {})
           /\ Sends(t) = Sends(s) \cup (IF e.event = "sent" THEN {e.of} ELSE {})
           /\ SentFirst(s) /\ (e.event = "sent" => e.of \notin Ends(s)) => SentFirst(t)
<1>1. /\ Len(t) = Len(s) + 1 /\ t[Len(s) + 1] = e /\ \A i \in 1 .. Len(s) : t[i] = s[i]
      /\ Len(s) \in Nat
  BY AppendPlaces, EntryAt
<1>2. \A i \in 1 .. Len(t) : (i \in 1 .. Len(s) /\ t[i] = s[i]) \/ (i = Len(s) + 1 /\ t[i] = e)
  BY <1>1
<1>3. Len(s) + 1 \in 1 .. Len(t) /\ \A i \in 1 .. Len(s) : i \in 1 .. Len(t)
  BY <1>1
<1>4. Ends(t) = Ends(s) \cup (IF IsEnd(e) THEN {e.of} ELSE {})
  <2>1. Ends(t) \subseteq Ends(s) \cup (IF IsEnd(e) THEN {e.of} ELSE {})
    BY <1>2 DEF Ends
  <2>2. Ends(s) \subseteq Ends(t)
    BY <1>1, <1>3 DEF Ends
  <2>3. IsEnd(e) => e.of \in Ends(t)
    BY <1>1, <1>3 DEF Ends
  <2> QED
    BY <2>1, <2>2, <2>3
<1>5. Sends(t) = Sends(s) \cup (IF e.event = "sent" THEN {e.of} ELSE {})
  <2>1. Sends(t) \subseteq Sends(s) \cup (IF e.event = "sent" THEN {e.of} ELSE {})
    BY <1>2 DEF Sends
  <2>2. Sends(s) \subseteq Sends(t)
    BY <1>1, <1>3 DEF Sends
  <2>3. e.event = "sent" => e.of \in Sends(t)
    BY <1>1, <1>3 DEF Sends
  <2> QED
    BY <2>1, <2>2, <2>3
<1>6. ASSUME SentFirst(s), e.event = "sent" => e.of \notin Ends(s) PROVE SentFirst(t)
  <2> SUFFICES ASSUME NEW i \in 1 .. Len(t), NEW j \in 1 .. Len(t), i < j,
                      IsEnd(t[i]), t[j].event = "sent"
               PROVE  t[i].of # t[j].of
    BY DEF SentFirst
  <2>1. i \in 1 .. Len(s) /\ t[i] = s[i]
    BY <1>1
  <2>2. s[i].of \in Ends(s)
    BY <2>1 DEF Ends
  <2> QED
    BY <1>2, <1>6, <2>1, <2>2 DEF SentFirst
<1> QED
  BY <1>4, <1>5, <1>6

LEMMA EndsTail ==
    ASSUME NEW s \in Seq(NetEvent), s # <<>>, NEW t, t = Tail(s), NEW h, h = Head(s)
    PROVE  /\ Ends(s) = Ends(t) \cup (IF IsEnd(h) THEN {h.of} ELSE {})
           /\ Sends(s) = Sends(t) \cup (IF h.event = "sent" THEN {h.of} ELSE {})
           /\ SentFirst(s) => SentFirst(t) /\ (IsEnd(h) => h.of \notin Sends(t))
<1>1. /\ t \in Seq(NetEvent) /\ Len(t) = Len(s) - 1 /\ \A i \in 1 .. Len(t) : t[i] = s[i + 1]
  BY HeadTailProperties
<1>2. Len(s) \in Nat /\ Len(s) # 0 /\ s[1] = h
  BY EmptySeq, LenProperties
<1>3. 1 \in 1 .. Len(s) /\ \A i \in 1 .. Len(t) : i + 1 \in 1 .. Len(s) /\ t[i] = s[i + 1] /\ 1 < i + 1
  BY <1>1, <1>2
<1>4. \A i \in 1 .. Len(s) : i = 1 \/ (i - 1 \in 1 .. Len(t) /\ t[i - 1] = s[i])
  <2> SUFFICES ASSUME NEW i \in 1 .. Len(s), i # 1
               PROVE  i - 1 \in 1 .. Len(t) /\ t[i - 1] = s[i]
    OBVIOUS
  <2>1. i - 1 \in 1 .. Len(t) /\ (i - 1) + 1 = i
    BY <1>1, <1>2
  <2> QED
    BY <1>1, <2>1
<1>5. Ends(s) = Ends(t) \cup (IF IsEnd(h) THEN {h.of} ELSE {})
  <2>1. Ends(s) \subseteq Ends(t) \cup (IF IsEnd(h) THEN {h.of} ELSE {})
    BY <1>2, <1>4 DEF Ends
  <2>2. Ends(t) \subseteq Ends(s)
    BY <1>3 DEF Ends
  <2>3. IsEnd(h) => h.of \in Ends(s)
    BY <1>2, <1>3 DEF Ends
  <2> QED
    BY <2>1, <2>2, <2>3
<1>6. Sends(s) = Sends(t) \cup (IF h.event = "sent" THEN {h.of} ELSE {})
  <2>1. Sends(s) \subseteq Sends(t) \cup (IF h.event = "sent" THEN {h.of} ELSE {})
    BY <1>2, <1>4 DEF Sends
  <2>2. Sends(t) \subseteq Sends(s)
    BY <1>3 DEF Sends
  <2>3. h.event = "sent" => h.of \in Sends(s)
    BY <1>2, <1>3 DEF Sends
  <2> QED
    BY <2>1, <2>2, <2>3
<1>7. ASSUME SentFirst(s) PROVE SentFirst(t)
  <2> SUFFICES ASSUME NEW i \in 1 .. Len(t), NEW j \in 1 .. Len(t), i < j,
                      IsEnd(t[i]), t[j].event = "sent"
               PROVE  t[i].of # t[j].of
    BY DEF SentFirst
  <2>1. i + 1 < j + 1
    BY <1>1
  <2> QED
    BY <1>3, <1>7, <2>1 DEF SentFirst
<1>8. ASSUME SentFirst(s), IsEnd(h) PROVE h.of \notin Sends(t)
  BY <1>2, <1>3, <1>8 DEF SentFirst, Sends
<1> QED
  BY <1>5, <1>6, <1>7, <1>8

\* Only the one drain in progress holds events.
LEMMA HeldByOne ==
    ASSUME OrderInv, Strict, NEW d \in Drainer, Draining(d)
    PROVE  /\ HeldEnds = Ends(drain[d].events) /\ HeldSends = Sends(drain[d].events)
           /\ (\A e \in Drainer : e # d => drain'[e] = drain[e]) =>
                 HeldEnds' = Ends(drain'[d].events) /\ HeldSends' = Sends(drain'[d].events)
<1>1. \A e \in Drainer : e # d => drain[e].events = <<>>
  <2> SUFFICES ASSUME NEW e \in Drainer, e # d PROVE drain[e].events = <<>>
    OBVIOUS
  <2>1. drain[e].step \notin {"handle", "body"}
    BY DEF OrderInv, DrainPlaces, Draining
  <2> QED
    BY <2>1 DEF OrderInv, DrainPlaces
<1>2. HeldEnds = Ends(drain[d].events) /\ HeldSends = Sends(drain[d].events)
  BY <1>1, NoneEnds DEF HeldEnds, HeldSends
<1>3. ASSUME \A e \in Drainer : e # d => drain'[e] = drain[e]
      PROVE  HeldEnds' = Ends(drain'[d].events) /\ HeldSends' = Sends(drain'[d].events)
  <2>1. \A e \in Drainer : e # d => drain'[e].events = <<>>
    BY <1>1, <1>3
  <2> QED
    BY <2>1, NoneEnds DEF HeldEnds, HeldSends
<1> QED
  BY <1>2, <1>3

\* The logs are as they were, and nothing new is in flight.
LEMMA FliesOn ==
    ASSUME FlyInv, Strict' => Strict, browser'.requests = browser.requests, untold' = untold,
           capture'.inflight \subseteq capture.inflight,
           Ends(browser'.events) = Ends(browser.events), Sends(browser'.events) = Sends(browser.events),
           SentFirst(browser.events) => SentFirst(browser'.events),
           \A d \in Drainer : drain'[d].events = drain[d].events
    PROVE  FlyInv'
<1>1. HeldEnds' = HeldEnds /\ HeldSends' = HeldSends
  BY DEF HeldEnds, HeldSends
<1> QED
  BY <1>1 DEF FlyInv, Flights

LEMMA RequestFlies ==
    ASSUME OrderInv, FlyInv, NEW r \in NetRequest, SendRequest(r) \/ EndRequest(r)
    PROVE  FlyInv'
<1>1. browser \in Browsers /\ browser.events \in Seq(NetEvent)
  BY CaptureFacts DEF OrderInv
<1>2. PICK event, from, to :
         /\ LogNetwork(r, event, from, to)
         /\ \/ event = "sent" /\ from = "new" /\ to = "open"
            \/ event \in {"finished", "failed"} /\ from = "open" /\ to = "ended"
  BY DEF SendRequest, EndRequest
<1>3. PICK e : e = [event |-> event, of |-> r]
  OBVIOUS
<1>4. e \in NetEvent /\ e.event = event /\ e.of = r
  BY <1>2, <1>3 DEF NetEvent
<1>5. /\ UNCHANGED <<capture, drain, overlapped>> /\ browser.requests[r] = from
      /\ browser'.requests = [browser.requests EXCEPT ![r] = to]
      /\ browser'.events = IF Enabled("Network") THEN Append(browser.events, e) ELSE browser.events
      /\ untold' = IF to = "ended" /\ ~Enabled("Network") THEN untold \cup {r} ELSE untold
  BY <1>1, <1>2, <1>3 DEF LogNetwork, Browsers
<1> SUFFICES ASSUME Strict'
             PROVE  /\ SentFirst(browser'.events) /\ \A d \in Drainer : SentFirst(drain'[d].events)
                    /\ Flights(browser'.requests, untold', capture'.inflight, Ends(browser'.events),
                               Sends(browser'.events), HeldEnds', HeldSends')
  BY DEF FlyInv
<1>6. /\ Strict /\ SentFirst(browser.events) /\ \A d \in Drainer : SentFirst(drain[d].events)
      /\ Flights(browser.requests, untold, capture.inflight, Ends(browser.events),
                 Sends(browser.events), HeldEnds, HeldSends)
  BY <1>5 DEF FlyInv, Strict
<1>7. HeldEnds' = HeldEnds /\ HeldSends' = HeldSends
  BY <1>5 DEF HeldEnds, HeldSends
<1>8. \A q \in NetRequest : browser'.requests[q] = IF q = r THEN to ELSE browser.requests[q]
  BY <1>1, <1>5 DEF Browsers
<1>9. /\ capture.inflight \subseteq NetRequest
      /\ Ends(browser.events) \cup HeldEnds \subseteq NetRequest
      /\ Sends(browser.events) \cup HeldSends \subseteq NetRequest
  <2>1. ASSUME NEW s \in Seq(NetEvent) PROVE Ends(s) \subseteq NetRequest /\ Sends(s) \subseteq NetRequest
    <3>1. \A i \in 1 .. Len(s) : s[i] \in NetEvent
      BY EntryAt
    <3> QED
      BY <3>1 DEF Ends, Sends, IsEnd, NetEvent
  <2>2. \A d \in Drainer : drain[d].events \in Seq(NetEvent)
    BY CaptureFacts DEF OrderInv
  <2>3. capture.inflight \subseteq NetRequest
    BY CaptureFacts DEF OrderInv, Captures
  <2> QED
    BY <1>1, <2>1, <2>2, <2>3 DEF HeldEnds, HeldSends
<1>10. r \notin Ends(browser.events) \cup HeldEnds
  BY <1>2, <1>5, <1>6 DEF Flights
<1>11. CASE Enabled("Network")
  <2>1. PICK s, t : s = browser.events /\ t = Append(s, e)
    OBVIOUS
  <2>2. /\ Ends(t) = Ends(s) \cup (IF IsEnd(e) THEN {e.of} ELSE {})
        /\ Sends(t) = Sends(s) \cup (IF e.event = "sent" THEN {e.of} ELSE {})
        /\ SentFirst(s) /\ (e.event = "sent" => e.of \notin Ends(s)) => SentFirst(t)
    BY <1>1, <1>4, <2>1, EndsAppend
  <2>3. browser'.events = t /\ untold' = untold
    BY <1>5, <1>11, <2>1
  <2>4. CASE event = "sent" /\ to = "open" /\ from = "new"
    <3>1. Ends(t) = Ends(s) /\ Sends(t) = Sends(s) \cup {r} /\ SentFirst(t)
      BY <1>4, <1>6, <1>10, <2>1, <2>2, <2>4 DEF IsEnd
    <3>2. Flights(browser'.requests, untold', capture'.inflight, Ends(t), Sends(t), HeldEnds', HeldSends')
      BY <1>5, <1>6, <1>7, <1>8, <1>9, <1>10, <2>1, <2>3, <2>4, <3>1 DEF Flights
    <3> QED
      BY <1>5, <1>6, <2>3, <3>1, <3>2
  <2>5. CASE event \in {"finished", "failed"} /\ to = "ended" /\ from = "open"
    <3>1. Ends(t) = Ends(s) \cup {r} /\ Sends(t) = Sends(s) /\ SentFirst(t)
      BY <1>4, <1>6, <2>1, <2>2, <2>5 DEF IsEnd
    <3>2. Flights(browser'.requests, untold', capture'.inflight, Ends(t), Sends(t), HeldEnds', HeldSends')
      BY <1>5, <1>6, <1>7, <1>8, <1>9, <2>1, <2>3, <2>5, <3>1 DEF Flights
    <3> QED
      BY <1>5, <1>6, <2>3, <3>1, <3>2
  <2> QED
    BY <1>2, <2>4, <2>5
<1>12. CASE ~Enabled("Network")
  <2>1. browser'.events = browser.events /\ untold' = IF to = "ended" THEN untold \cup {r} ELSE untold
    BY <1>5, <1>12
  <2>2. Flights(browser'.requests, untold', capture'.inflight, Ends(browser'.events),
                Sends(browser'.events), HeldEnds', HeldSends')
    BY <1>2, <1>5, <1>6, <1>7, <1>8, <1>9, <1>10, <2>1 DEF Flights
  <2> QED
    BY <1>5, <1>6, <2>1, <2>2
<1> QED
  BY <1>11, <1>12

LEMMA ReadFlies == ASSUME OrderInv, FlyInv, NEW d \in Drainer, ReadNetwork(d) PROVE FlyInv'
<1>1. browser \in Browsers /\ drain \in [Drainer -> DrainRecord] /\ drain[d] \in DrainRecord
  BY CaptureFacts DEF OrderInv
<1>2. /\ UNCHANGED <<capture, overlapped, untold>> /\ drain[d].step = "network"
      /\ browser'.requests = browser.requests /\ browser'.events = <<>>
      /\ drain'[d].events = browser.events /\ \A e \in Drainer : e # d => drain'[e] = drain[e]
  BY <1>1 DEF ReadNetwork, DrainAt, Browsers, DrainRecord
<1> SUFFICES ASSUME Strict'
             PROVE  /\ SentFirst(browser'.events) /\ \A e \in Drainer : SentFirst(drain'[e].events)
                    /\ Flights(browser'.requests, untold', capture'.inflight, Ends(browser'.events),
                               Sends(browser'.events), HeldEnds', HeldSends')
  BY DEF FlyInv
<1>3. /\ Strict /\ SentFirst(browser.events) /\ \A e \in Drainer : SentFirst(drain[e].events)
      /\ Flights(browser.requests, untold, capture.inflight, Ends(browser.events),
                 Sends(browser.events), HeldEnds, HeldSends)
  BY <1>2 DEF FlyInv, Strict
<1>4. Draining(d) /\ drain[d].events = <<>>
  BY <1>2 DEF Draining, OrderInv, DrainPlaces
<1>5. /\ HeldEnds = {} /\ HeldSends = {}
      /\ HeldEnds' = Ends(browser.events) /\ HeldSends' = Sends(browser.events)
  BY <1>2, <1>3, <1>4, HeldByOne, NoneEnds
<1>6. Ends(browser'.events) = {} /\ Sends(browser'.events) = {} /\ SentFirst(browser'.events)
  BY <1>2, NoneEnds
<1>7. Flights(browser'.requests, untold', capture'.inflight, Ends(browser'.events),
              Sends(browser'.events), HeldEnds', HeldSends')
  BY <1>2, <1>3, <1>5, <1>6 DEF Flights
<1> QED
  BY <1>2, <1>3, <1>6, <1>7

LEMMA HandleFlies ==
    ASSUME OrderInv, FlyInv, NEW d \in Drainer,
           \/ OnRuntimeConsole(d) \/ OnRequestWillBeSent(d) \/ OnLoadingFailed(d) \/ EndFinished(d)
           \/ SkipEvent(d)
    PROVE  FlyInv'
<1>1. /\ browser \in Browsers /\ capture \in Captures /\ drain \in [Drainer -> DrainRecord]
      /\ drain[d] \in DrainRecord /\ drain[d].events \in Seq(NetEvent)
  BY CaptureFacts DEF OrderInv
<1>2. PICK s, t, h : s = drain[d].events /\ t = Tail(s) /\ h = Head(s)
  OBVIOUS
<1>3. /\ UNCHANGED <<browser, overlapped>> /\ Draining(d) /\ s # <<>>
      /\ drain'[d].events = t /\ \A e \in Drainer : e # d => drain'[e] = drain[e]
  <2>1. s # <<>>
    BY <1>2 DEF OnRuntimeConsole, OnRequestWillBeSent, OnLoadingFailed, EndFinished, SkipEvent,
       OrderInv, CTInv, BodyInv
  <2>2. \/ drain' = [drain EXCEPT ![d].events = Tail(@)]
        \/ drain' = [drain EXCEPT ![d].step = "handle", ![d].events = Tail(@)]
    BY DEF OnRuntimeConsole, OnRequestWillBeSent, OnLoadingFailed, EndFinished, SkipEvent
  <2>3. drain'[d].events = t /\ \A e \in Drainer : e # d => drain'[e] = drain[e]
    BY <1>1, <1>2, <2>2 DEF DrainRecord
  <2>4. UNCHANGED <<browser, overlapped>> /\ Draining(d)
    BY DEF OnRuntimeConsole, OnRequestWillBeSent, OnLoadingFailed, EndFinished, SkipEvent,
       DrainAt, Draining
  <2> QED
    BY <2>1, <2>3, <2>4
<1>4. \/ h.event = "runtime" /\ capture'.inflight = capture.inflight /\ untold' = untold
      \/ h.event = "sent" /\ capture'.inflight = capture.inflight \cup {h.of} /\ untold' = untold
      \/ IsEnd(h) /\ capture'.inflight = capture.inflight \ {h.of} /\ untold' = untold
      \/ /\ capture'.inflight = capture.inflight
         /\ untold' = IF IsEnd(h) THEN untold \cup {h.of} ELSE untold
  <2>1. CASE OnRuntimeConsole(d)
    <3>1. /\ Head(drain[d].events).event = "runtime" /\ UNCHANGED untold
          /\ \E c : capture' = [capture EXCEPT !.console = c]
      BY <2>1 DEF OnRuntimeConsole
    <3> QED
      BY <1>1, <1>2, <3>1 DEF Captures
  <2>2. CASE OnRequestWillBeSent(d)
    BY <1>1, <1>2, <2>2 DEF OnRequestWillBeSent, Captures
  <2>3. CASE OnLoadingFailed(d)
    BY <1>1, <1>2, <2>3 DEF OnLoadingFailed, Captures, IsEnd
  <2>4. CASE EndFinished(d)
    <3>1. IsEnd(h)
      BY <1>2, <2>4 DEF EndFinished, OrderInv, CTInv, BodyInv, IsEnd
    <3> QED
      BY <1>1, <1>2, <2>4, <3>1 DEF EndFinished, Captures
  <2>5. CASE SkipEvent(d)
    BY <1>1, <1>2, <2>5 DEF SkipEvent, Loses, Captures, IsEnd
  <2> QED
    BY <2>1, <2>2, <2>3, <2>4, <2>5
<1> SUFFICES ASSUME Strict'
             PROVE  /\ SentFirst(browser'.events) /\ \A e \in Drainer : SentFirst(drain'[e].events)
                    /\ Flights(browser'.requests, untold', capture'.inflight, Ends(browser'.events),
                               Sends(browser'.events), HeldEnds', HeldSends')
  BY DEF FlyInv
<1>5. /\ Strict /\ SentFirst(browser.events) /\ \A e \in Drainer : SentFirst(drain[e].events)
      /\ Flights(browser.requests, untold, capture.inflight, Ends(browser.events),
                 Sends(browser.events), HeldEnds, HeldSends)
  BY <1>3 DEF FlyInv, Strict
<1>6. HeldEnds = Ends(s) /\ HeldSends = Sends(s) /\ HeldEnds' = Ends(t) /\ HeldSends' = Sends(t)
  BY <1>2, <1>3, <1>5, HeldByOne
<1>7. /\ Ends(s) = Ends(t) \cup (IF IsEnd(h) THEN {h.of} ELSE {})
      /\ Sends(s) = Sends(t) \cup (IF h.event = "sent" THEN {h.of} ELSE {})
      /\ SentFirst(t) /\ (IsEnd(h) => h.of \notin Sends(t))
  <2>1. s \in Seq(NetEvent) /\ SentFirst(s) /\ s # <<>> /\ t = Tail(s) /\ h = Head(s)
    BY <1>1, <1>2, <1>3, <1>5
  <2>2. /\ Ends(s) = Ends(t) \cup (IF IsEnd(h) THEN {h.of} ELSE {})
        /\ Sends(s) = Sends(t) \cup (IF h.event = "sent" THEN {h.of} ELSE {})
        /\ SentFirst(s) => SentFirst(t) /\ (IsEnd(h) => h.of \notin Sends(t))
    BY <2>1, EndsTail, Zenon
  <2> QED
    BY <2>1, <2>2
<1>8. Flights(browser.requests, untold', capture'.inflight, Ends(browser.events),
              Sends(browser.events), Ends(t), Sends(t))
  <2>1. CASE IsEnd(h)
    <3>1. h.event # "sent" /\ h.of \notin Sends(browser.events) /\ h.of \notin Sends(t)
      BY <1>5, <1>6, <1>7, <2>1 DEF IsEnd, Flights
    <3> QED
      BY <1>4, <1>5, <1>6, <1>7, <2>1, <3>1 DEF Flights, IsEnd
  <2>2. CASE ~IsEnd(h)
    BY <1>4, <1>5, <1>6, <1>7, <2>2 DEF Flights
  <2> QED
    BY <2>1, <2>2
<1> QED
  BY <1>3, <1>5, <1>6, <1>7, <1>8

\* A request that is finished is in flight until its body is had.
LEMMA FinishedFlies == ASSUME OrderInv, FlyInv, NEW d \in Drainer, OnLoadingFinished(d) PROVE FlyInv'
<1>1. /\ capture \in Captures /\ drain \in [Drainer -> DrainRecord] /\ drain[d] \in DrainRecord
      /\ drain[d].events \in Seq(NetEvent)
  BY CaptureFacts DEF OrderInv
<1>2. /\ UNCHANGED <<browser, overlapped, untold>> /\ Draining(d) /\ drain[d].events # <<>>
      /\ \A e \in Drainer : drain'[e].events = drain[e].events
      /\ capture'.inflight = capture.inflight \cup {Head(drain[d].events).of}
      /\ IsEnd(Head(drain[d].events))
  BY <1>1 DEF OnLoadingFinished, DrainGoes, DrainAt, Draining, DrainRecord, Captures, IsEnd
<1>3. PICK s, t, h : s = drain[d].events /\ t = Tail(s) /\ h = Head(s)
  OBVIOUS
<1>4. Ends(s) = Ends(t) \cup {h.of}
  <2>1. s \in Seq(NetEvent) /\ s # <<>> /\ t = Tail(s) /\ h = Head(s) /\ IsEnd(h)
    BY <1>1, <1>2, <1>3
  <2>2. Ends(s) = Ends(t) \cup (IF IsEnd(h) THEN {h.of} ELSE {})
    BY <2>1, EndsTail, Zenon
  <2> QED
    BY <2>1, <2>2
<1>5. HeldEnds' = HeldEnds /\ HeldSends' = HeldSends
  BY <1>2 DEF HeldEnds, HeldSends
<1>6. Strict => h.of \in HeldEnds
  BY <1>2, <1>3, <1>4, HeldByOne
<1> QED
  <2> SUFFICES ASSUME Strict'
               PROVE  /\ SentFirst(browser'.events) /\ \A e \in Drainer : SentFirst(drain'[e].events)
                      /\ Flights(browser'.requests, untold', capture'.inflight, Ends(browser'.events),
                                 Sends(browser'.events), HeldEnds', HeldSends')
    BY DEF FlyInv
  <2>1. /\ Strict /\ SentFirst(browser.events) /\ \A e \in Drainer : SentFirst(drain[e].events)
        /\ Flights(browser.requests, untold, capture.inflight, Ends(browser.events),
                   Sends(browser.events), HeldEnds, HeldSends)
    BY <1>2 DEF FlyInv, Strict
  <2>2. capture'.inflight = capture.inflight \cup {h.of} /\ h.of \in HeldEnds
    BY <1>2, <1>3, <1>6, <2>1
  <2>3. Flights(browser.requests, untold, capture.inflight \cup {h.of}, Ends(browser.events),
                Sends(browser.events), HeldEnds, HeldSends)
    BY <2>1, <2>2 DEF Flights
  <2> QED
    BY <1>2, <1>5, <2>1, <2>2, <2>3

LEMMA FlyStep == OrderInv /\ FlyInv /\ [CaptureNext]_captureVars => FlyInv'
<1> SUFFICES ASSUME OrderInv, FlyInv, [CaptureNext]_captureVars PROVE FlyInv'
  OBVIOUS
<1>1. /\ browser \in Browsers /\ capture \in Captures /\ drain \in [Drainer -> DrainRecord]
      /\ browser.events \in Seq(NetEvent) /\ browser.entries \in Nat
  BY CaptureFacts DEF OrderInv
<1>2. CASE LogConsole
  <2>1. PICK e, s, t : e = [event |-> "runtime", of |-> browser.entries + 1]
                       /\ s = browser.events /\ t = Append(s, e)
    OBVIOUS
  <2>2. /\ UNCHANGED <<capture, drain, overlapped, untold>>
        /\ browser'.requests = browser.requests /\ browser'.events \in {s, t}
        /\ browser.entries < MaxConsole
    BY <1>1, <1>2, <2>1 DEF LogConsole, Browsers
  <2>3. e \in NetEvent /\ e.event = "runtime"
    <3>1. MaxConsole \in Nat
      BY CaptureAssumption
    <3> QED
      BY <1>1, <2>1, <2>2, <3>1 DEF NetEvent
  <2>4. Ends(t) = Ends(s) /\ Sends(t) = Sends(s) /\ (SentFirst(s) => SentFirst(t))
    BY <1>1, <2>1, <2>3, EndsAppend DEF IsEnd
  <2> QED
    BY <2>1, <2>2, <2>4, FliesOn DEF Strict
<1>3. ASSUME NEW r \in NetRequest, SendRequest(r) \/ EndRequest(r) PROVE FlyInv'
  BY <1>3, RequestFlies
\* What leaves the events and the requests as they are.
<1>4. ASSUME Strict' => Strict, browser'.requests = browser.requests,
             browser'.events = browser.events, untold' = untold,
             capture'.inflight \subseteq capture.inflight,
             \A d \in Drainer : drain'[d].events = drain[d].events
      PROVE  FlyInv'
  BY <1>4, FliesOn
<1>5. CASE CaptureStart
  <2>1. PICK domains : /\ browser' = [browser EXCEPT !.enabled = domains]
                       /\ \/ capture' = [capture EXCEPT !.on = TRUE]
                          \/ Loses([capture EXCEPT !.on = TRUE])
    BY <1>5 DEF CaptureStart
  <2>2. UNCHANGED <<drain, overlapped, untold>>
    BY <1>5 DEF CaptureStart
  <2>3. browser'.requests = browser.requests /\ browser'.events = browser.events
    BY <1>1, <2>1 DEF Browsers
  <2>4. capture'.inflight = capture.inflight
    BY <1>1, <2>1 DEF Loses, Captures
  <2> QED
    BY <1>4, <2>2, <2>3, <2>4 DEF Strict
<1>6. CASE CaptureClear \/ TimePasses
  <2>1. /\ UNCHANGED <<browser, drain, untold>> /\ (Strict' => Strict)
        /\ capture'.inflight \in {{}, capture.inflight}
    BY <1>1, <1>6 DEF CaptureClear, TimePasses, Captures, Strict
  <2> QED
    BY <1>4, <2>1
<1>7. ASSUME NEW d \in Drainer, Drains(d) PROVE FlyInv'
  <2>1. drain[d] \in DrainRecord
    BY <1>1
  <2>2. ASSUME NEW stops \in BOOLEAN, StartDrain(d, stops) PROVE FlyInv'
    <3>1. /\ UNCHANGED <<browser, untold>> /\ (Strict' => Strict)
          /\ capture'.inflight = capture.inflight
          /\ \A e \in Drainer : drain'[e].events = drain[e].events
      BY <1>1, <2>1, <2>2 DEF StartDrain, Captures, DrainRecord, Strict
    <3> QED
      BY <1>4, <3>1
  <2>3. CASE ReadConsole(d) \/ AppendConsole(d) \/ ReadFails(d)
    <3>1. /\ UNCHANGED <<overlapped, untold>>
          /\ browser'.requests = browser.requests /\ browser'.events = browser.events
          /\ capture'.inflight = capture.inflight
      BY <1>1, <2>3 DEF ReadConsole, AppendConsole, ReadFails, Loses, Browsers, Captures
    <3>2. \E step, c : \/ drain' = [drain EXCEPT ![d].step = step, ![d].console = c]
                      \/ drain' = [drain EXCEPT ![d].step = step]
      BY <2>3 DEF ReadConsole, AppendConsole, ReadFails, DrainGoes
    <3>3. \A e \in Drainer : drain'[e].events = drain[e].events
      BY <1>1, <2>1, <3>2 DEF DrainRecord
    <3> QED
      BY <1>4, <3>1, <3>3 DEF Strict
  <2>4. CASE ReadNetwork(d)
    BY <2>4, ReadFlies
  <2>5. CASE \/ OnRuntimeConsole(d) \/ OnRequestWillBeSent(d) \/ OnLoadingFailed(d)
             \/ EndFinished(d) \/ SkipEvent(d)
    BY <2>5, HandleFlies
  <2>6. CASE OnLoadingFinished(d)
    BY <2>6, FinishedFlies
  <2>7. CASE TakePending(d) \/ WritePending(d) \/ WriteFails(d) \/ AdvanceSink(d) \/ CloseSink(d)
    <3>1. CTInv'
      BY CaptureNextTyped DEF OrderInv
    <3>2. /\ browser'.requests = browser.requests /\ browser'.events = browser.events
          /\ Strict' = Strict /\ drain[d].events = <<>> /\ drain'[d].events = <<>>
          /\ \A e \in Drainer : e # d => drain'[e] = drain[e]
      BY <2>7, <3>1, FlushSteps
    <3>3. capture' = capture \/ Loses(capture)
      BY <2>7 DEF TakePending, WritePending, WriteFails, AdvanceSink, CloseSink
    <3>4. capture'.inflight = capture.inflight
      BY <1>1, <3>3 DEF Loses, Captures
    <3>5. UNCHANGED untold
      BY <2>7 DEF TakePending, WritePending, WriteFails, AdvanceSink, CloseSink
    <3> QED
      BY <1>4, <3>2, <3>4, <3>5
  <2> QED
    BY <1>7, <2>2, <2>3, <2>4, <2>5, <2>6, <2>7 DEF Drains
<1>8. CASE UNCHANGED captureVars
  BY <1>4, <1>8 DEF captureVars, Strict
<1> QED
  BY <1>2, <1>3, <1>5, <1>6, <1>7, <1>8 DEF CaptureNext

\* For any requests, drainers and events: once the log is drained, and if no two
\* drains overlapped, a request in flight is open, or its end was not logged or does
\* not parse, across clears, stops, failures and bodies that cannot be had
\* (onRequestWillBeSent, onLoadingFinished, onLoadingFailed, captureStop).
THEOREM InflightTrueHolds == CaptureSpec => []InflightTrue
<1>1. CaptureInit => FlyInv
  <2> SUFFICES ASSUME CaptureInit PROVE FlyInv
    OBVIOUS
  <2>1. /\ browser.events = <<>> /\ capture.inflight = {}
        /\ \A d \in Drainer : drain[d].events = <<>>
    BY DEF CaptureInit, NoDrain
  <2>2. HeldEnds = {} /\ HeldSends = {}
    BY <2>1, NoneEnds DEF HeldEnds, HeldSends
  <2> QED
    BY <2>1, <2>2, NoneEnds DEF FlyInv, Flights
<1>2. OrderInv /\ FlyInv => InflightTrue
  <2> SUFFICES ASSUME OrderInv, FlyInv, Strict, Quiet, browser.events = <<>>,
                      NEW r \in capture.inflight, r \notin untold
               PROVE  browser.requests[r] = "open"
    BY DEF InflightTrue, Strict
  <2>1. \A d \in Drainer : drain[d].events = <<>>
    BY DEF OrderInv, DrainPlaces, Quiet, Draining
  <2>2. HeldEnds = {} /\ Ends(browser.events) = {}
    BY <2>1, NoneEnds DEF HeldEnds
  <2>3. browser.requests[r] \notin {"new", "ended"}
    BY <2>2 DEF FlyInv, Flights
  <2>4. browser.requests[r] \in {"new", "open", "ended"}
    BY CaptureFacts DEF OrderInv, Browsers, Captures
  <2> QED
    BY <2>3, <2>4
<1> QED
  BY <1>1, <1>2, FlyStep, OrderInvHolds, PTL DEF CaptureSpec

=============================================================================
