----------------------------- MODULE StressTest ------------------------------
(***************************************************************************)
(* The load test of the HTTP runner (service/testing/runner/http):         *)
(* stressTest builds the trips, collects them in a buffer and flushes the  *)
(* buffer into a channel; a goroutine for each client takes trips from it, *)
(* and gives up when it saw none for 15 seconds; the end waits for a wait  *)
(* group.  Another goroutine reports the metrics.                          *)
(*                                                                         *)
(* What a request is answered does not matter: a trip is sent and its      *)
(* handling ends.                                                          *)
(***************************************************************************)
EXTENDS Integers, Sequences, FiniteSets

CONSTANTS
    Client,    \* the goroutines of initClients
    Capacity,  \* 1024 * ThreadCount in the code
    MaxTrips   \* the largest number of requests, repetitions included

ASSUME StressAssumption ==
    /\ IsFiniteSet(Client)
    /\ Capacity \in Nat \ {0}
    /\ MaxTrips \in Nat \ {0}

VARIABLES
    total,     \* trips that this load test has
    loader,    \* where stressTest is
    built,     \* trips built so far
    partial,   \* partialStressTrips: trips and index
    flushing,  \* flush: i, count, and whether it is the last
    channel,   \* sendChannel
    waitGroup, \* the counter of the wait group
    loadDone,  \* done
    client,    \* what every client does, and with which trip
    emitter,   \* emitMetrics runs
    handled,   \* history: trips whose handling ended
    early      \* history: clients that left before all trips were in the channel

buffers == <<partial, flushing, channel, waitGroup>>
stressVars == <<total, loader, built, buffers, loadDone, client, emitter, handled, early>>

None == 0
Trip == 1 .. MaxTrips
Slot == 0 .. Capacity - 1

StressTypeOK ==
    /\ total \in 0 .. MaxTrips /\ built \in 0 .. total
    /\ loader \in {"idle", "build", "append", "flush", "send", "wait", "collect", "done",
                  "failed", "panic"}
    /\ partial \in [trips : [Slot -> 0 .. MaxTrips], index : 0 .. Capacity]
    /\ flushing \in [i : 0 .. Capacity, count : 0 .. Capacity + 1, last : BOOLEAN]
    /\ channel \in Seq(Trip) /\ Len(channel) <= Capacity
    /\ waitGroup \in 0 .. Capacity + Cardinality(Client) + 1
    /\ loadDone \in BOOLEAN /\ emitter \in BOOLEAN
    /\ client \in [Client -> [does : {"select", "handle", "check", "left"}, trip : 0 .. MaxTrips]]
    /\ handled \subseteq Trip /\ early \subseteq Client

NotFlushing == [i |-> 0, count |-> 0, last |-> FALSE]

StressInit ==
    /\ total = 0 /\ built = 0
    /\ loader = "idle"
    /\ partial = [trips |-> [s \in Slot |-> None], index |-> 0]
    /\ flushing = NotFlushing
    /\ channel = <<>> /\ waitGroup = 0
    /\ loadDone = FALSE /\ emitter = FALSE
    /\ client = [c \in Client |-> [does |-> "left", trip |-> None]]
    /\ handled = {} /\ early = {}

-----------------------------------------------------------------------------
(* stressTest.                                                             *)

\* The emitter and the clients start before the first trip is built; a client
\* that cannot be made ends the test.
StartLoad ==
    /\ loader = "idle"
    /\ total' \in Trip
    /\ emitter' = TRUE
    /\ \E made \in SUBSET Client :
          /\ client' = [c \in Client |-> [does |-> IF c \in made THEN "select" ELSE "left",
                                         trip |-> None]]
          /\ loader' = IF made = Client THEN "build" ELSE "failed"
    /\ UNCHANGED <<built, buffers, loadDone, handled, early>>

\* buildStressTestTrip: the next request, if it can be built.
BuildTrip ==
    /\ loader = "build" /\ built < total
    /\ \/ built' = built + 1 /\ loader' = "append"
       \/ loader' = "failed" /\ UNCHANGED built
    /\ UNCHANGED <<total, buffers, loadDone, client, emitter, handled, early>>

\* partialStressTrips.append flushes a full buffer first.
AppendTrip ==
    /\ loader = "append"
    /\ IF partial.index >= Capacity
       THEN /\ flushing' = [i |-> 0, count |-> Capacity, last |-> FALSE]
            /\ loader' = "flush"
            /\ UNCHANGED partial
       ELSE /\ partial' = [trips |-> [partial.trips EXCEPT ![partial.index] = built],
                           index |-> partial.index + 1]
            /\ loader' = "build"
            /\ UNCHANGED flushing
    /\ UNCHANGED <<total, built, channel, waitGroup, loadDone, client, emitter, handled,
                   early>>

LastFlush ==
    /\ loader = "build" /\ built = total /\ partial.index > 0
    /\ flushing' = [i |-> 0, count |-> partial.index + 1, last |-> TRUE]
    /\ loader' = "flush"
    /\ UNCHANGED <<total, built, partial, channel, waitGroup, loadDone, client, emitter, handled, early>>

\* flush: the next trip is added to the group.  Past the buffer it panics.
FlushTrip ==
    /\ loader = "flush" /\ flushing.i < flushing.count
    /\ IF flushing.i \notin Slot
       THEN loader' = "panic" /\ UNCHANGED <<flushing, waitGroup>>
       ELSE IF partial.trips[flushing.i] = None
       THEN flushing' = [flushing EXCEPT !.i = @ + 1] /\ UNCHANGED <<loader, waitGroup>>
       ELSE loader' = "send" /\ waitGroup' = waitGroup + 1 /\ UNCHANGED flushing
    /\ UNCHANGED <<total, built, partial, channel, loadDone, client, emitter, handled, early>>

\* The send blocks while the channel is full.
SendTrip ==
    /\ loader = "send" /\ Len(channel) < Capacity
    /\ channel' = Append(channel, partial.trips[flushing.i])
    /\ flushing' = [flushing EXCEPT !.i = @ + 1]
    /\ loader' = "flush"
    /\ UNCHANGED <<total, built, partial, waitGroup, loadDone, client, emitter, handled,
                   early>>

EndFlush ==
    /\ loader = "flush" /\ flushing.i = flushing.count
    /\ partial' = IF flushing.last THEN partial ELSE [partial EXCEPT !.index = 0]
    /\ loader' = IF flushing.last THEN "wait" ELSE "append"
    /\ flushing' = NotFlushing
    /\ UNCHANGED <<total, built, channel, waitGroup, loadDone, client, emitter, handled,
                   early>>

\* Mutant: waits for the channel, not for the trips.
WaitChannel ==
    /\ loader = "wait" /\ channel = <<>>
    /\ loader' = "collect"
    /\ UNCHANGED <<total, built, buffers, loadDone, client, emitter, handled, early>>

WaitGroup ==
    /\ loader = "wait" /\ waitGroup = 0
    /\ loader' = "collect"
    /\ UNCHANGED <<total, built, buffers, loadDone, client, emitter, handled, early>>

CollectResponses ==
    /\ loader = "collect"
    /\ loadDone' = TRUE
    /\ loader' = "done"
    /\ UNCHANGED <<total, built, buffers, client, emitter, handled, early>>

-----------------------------------------------------------------------------
(* handleRequests and handleRequest of a client, and emitMetrics.          *)

Does(c, what, trip) == client' = [client EXCEPT ![c] = [does |-> what, trip |-> trip]]

TakeTrip(c) ==
    /\ client[c].does = "select" /\ channel # <<>>
    /\ channel' = Tail(channel)
    /\ Does(c, "handle", Head(channel))
    /\ UNCHANGED <<total, loader, built, partial, flushing, waitGroup, loadDone, emitter,
                   handled, early>>

\* Mutant: tells the group again after an error.
EndTripTwice(c) ==
    /\ client[c].does = "handle"
    /\ handled' = handled \cup {client[c].trip}
    /\ waitGroup' \in {waitGroup - 1, waitGroup - 2}
    /\ Does(c, "check", None)
    /\ UNCHANGED <<total, loader, built, partial, flushing, channel, loadDone, emitter, early>>

\* Mutant: tells the group only of trips that got an answer.
EndTripAnswered(c) ==
    /\ client[c].does = "handle"
    /\ handled' = handled \cup {client[c].trip}
    /\ waitGroup' \in {waitGroup, waitGroup - 1}
    /\ Does(c, "check", None)
    /\ UNCHANGED <<total, loader, built, partial, flushing, channel, loadDone, emitter, early>>

\* Whatever the answer, the group is told.
EndTrip(c) ==
    /\ client[c].does = "handle"
    /\ handled' = handled \cup {client[c].trip}
    /\ waitGroup' = waitGroup - 1
    /\ Does(c, "check", None)
    /\ UNCHANGED <<total, loader, built, partial, flushing, channel, loadDone, emitter, early>>

CheckDone(c) ==
    /\ client[c].does = "check"
    /\ Does(c, IF loadDone THEN "left" ELSE "select", None)
    /\ UNCHANGED <<total, loader, built, buffers, loadDone, emitter, handled, early>>

\* 15 seconds without a trip, however long the next one takes to build.
LeaveIdle(c) ==
    /\ client[c].does = "select" /\ channel = <<>>
    /\ Does(c, "left", None)
    /\ early' = IF loader \in {"build", "append", "flush", "send"} THEN early \cup {c} ELSE early
    /\ UNCHANGED <<total, loader, built, buffers, loadDone, emitter, handled>>

EndEmitter ==
    /\ emitter /\ loadDone
    /\ emitter' = FALSE
    /\ UNCHANGED <<total, loader, built, buffers, loadDone, client, handled, early>>

Load == BuildTrip \/ AppendTrip \/ LastFlush \/ FlushTrip \/ SendTrip \/ EndFlush
           \/ WaitGroup \/ CollectResponses

Serves(c) == TakeTrip(c) \/ EndTrip(c) \/ CheckDone(c) \/ LeaveIdle(c)

StressNext == StartLoad \/ Load \/ EndEmitter \/ \E c \in Client : Serves(c)

\* Go runs every goroutine, requests time out and so do 15 idle seconds.
StressFairness ==
    /\ WF_stressVars(Load)
    /\ WF_stressVars(EndEmitter)
    /\ \A c \in Client : WF_stressVars(Serves(c))

StressSpec == StressInit /\ [][StressNext]_stressVars /\ StressFairness

-----------------------------------------------------------------------------
(* Properties.                                                             *)

\* The responses are collected after every trip is over: stressTest waits for
\* the group, that flush adds to and the clients take from.
AllHandled == loader \in {"collect", "done"} => handled = 1 .. total

\* The load test ends, in success or error, unless all clients gave up while its
\* requests were still being built or sent (handleRequests, waitGroup.Wait).
LoadEnds == loader # "idle" ~> loader \in {"done", "failed", "panic"} \/ early = Client

=============================================================================
