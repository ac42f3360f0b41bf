---------------------------- MODULE BrowserCapture ----------------------------
(***************************************************************************)
(* The capture of console and network events of a browser session          *)
(* (service/testing/runner/webdriver, capture.go).  After every call of    *)
(* the driver, and at stop and export, a drain empties the logs of the     *)
(* browser, files what they hold and appends it to the sink; asynchronous  *)
(* actions drain the same session.  The lock of the state is held only for *)
(* one step of a drain at a time.  What a page writes to its console is in *)
(* the log of the browser and, as an event of the Runtime domain, in its   *)
(* performance log, together with the events of the Network domain.        *)
(***************************************************************************)
EXTENDS Integers, Sequences, FiniteSets, SequencesExt

CONSTANTS
    Drainer,    \* goroutines that use the session
    MaxConsole, \* console entries
    MaxLogged,  \* console entries and begins and ends of requests together
    MaxDrains,  \* drains and clears in all
    MaxLosses,  \* commands, reads, writes and entries that fail
    NetRequest  \* network requests

ASSUME CaptureAssumption == {MaxConsole, MaxLogged, MaxDrains, MaxLosses} \subseteq Nat

VARIABLES
    browser,    \* its logs, domains, console entries so far, requests new, open and ended
    capture,    \* CaptureState
    sink,       \* captureSink, the lines of its file, and whether all writes succeeded
    drain,      \* the drains in progress
    overlapped, \* history: a drain overlapped another, a flush another or a clear
    untold      \* history: requests whose end was not logged, or cannot be parsed

captureVars == <<browser, capture, sink, drain, overlapped, untold>>

Domain == {"Network", "Runtime"}
\* An entry of the console comes from the browser log or from a Runtime event.
Console == [type : {"console", "runtime"}, of : 1 .. MaxConsole]
Network == [type : {"network"}, of : NetRequest]
NetEvent == [event : {"sent", "finished", "failed"}, of : NetRequest]
              \cup [event : {"runtime"}, of : 1 .. MaxConsole]
DrainStep == {"idle", "console", "append", "network", "handle", "body", "write", "advance",
              "close", "panic"}

CaptureTypeOK ==
    /\ browser \in [console : Seq(Console), events : Seq(NetEvent), enabled : SUBSET Domain,
                    entries : 0 .. MaxConsole,
                    requests : [NetRequest -> {"new", "open", "ended"}]]
    /\ capture \in [on : BOOLEAN, left : 0 .. MaxDrains, losses : 0 .. MaxLosses, recent : BOOLEAN,
                    console : Seq(Console), inflight : SUBSET NetRequest, completed : Seq(Network)]
    /\ sink \in [open : BOOLEAN, lines : Seq(Console \cup Network),
                 nextConsole : Nat, nextNetwork : Nat, intact : BOOLEAN]
    /\ drain \in [Drainer -> [step : DrainStep, stops : BOOLEAN, console : Seq(Console),
                              events : Seq(NetEvent), network : Seq(Network)]]
    /\ overlapped \subseteq {"drain", "flush"}
    /\ untold \subseteq NetRequest

NoDrain == [step |-> "idle", stops |-> FALSE, console |-> <<>>, events |-> <<>>, network |-> <<>>]
NoSink == [open |-> FALSE, lines |-> <<>>, nextConsole |-> 0, nextNetwork |-> 0,
           intact |-> TRUE]

CaptureInit ==
    /\ browser = [console |-> <<>>, events |-> <<>>, enabled |-> {}, entries |-> 0,
                  requests |-> [r \in NetRequest |-> "new"]]
    /\ capture = [on |-> FALSE, left |-> MaxDrains, losses |-> 0, recent |-> FALSE,
                  console |-> <<>>, inflight |-> {}, completed |-> <<>>]
    /\ sink = NoSink
    /\ drain = [d \in Drainer |-> NoDrain]
    /\ overlapped = {} /\ untold = {}

Draining(d) == drain[d].step \notin {"idle", "panic"}
Quiet == \A d \in Drainer : ~Draining(d)
Flushing == \E d \in Drainer : drain[d].step \in {"write", "advance"}

\* Something fails, which only the errors of the capture tell, if anything.
Loses(was) ==
    /\ was.losses < MaxLosses
    /\ capture' = [was EXCEPT !.losses = @ + 1]

-----------------------------------------------------------------------------
(* The browser.                                                            *)

Enabled(domain) == domain \in browser.enabled

Begun == {r \in NetRequest : browser.requests[r] # "new"}
Over == {r \in Begun : browser.requests[r] = "ended"}
HasMore == browser.entries + Cardinality(Begun) + Cardinality(Over) < MaxLogged

LogConsole ==
    /\ HasMore /\ browser.entries < MaxConsole
    /\ LET n == browser.entries + 1
       IN  browser' = [browser EXCEPT
             !.entries = n,
             !.console = Append(@, [type |-> "console", of |-> n]),
             !.events = IF Enabled("Runtime") THEN Append(@, [event |-> "runtime", of |-> n])
                        ELSE @]
    /\ UNCHANGED <<capture, sink, drain, overlapped, untold>>

LogNetwork(r, event, from, to) ==
    /\ HasMore /\ browser.requests[r] = from
    /\ browser' = [browser EXCEPT
         !.requests[r] = to,
         !.events = IF Enabled("Network") THEN Append(@, [event |-> event, of |-> r]) ELSE @]
    /\ untold' = IF to = "ended" /\ ~Enabled("Network") THEN untold \cup {r} ELSE untold
    /\ UNCHANGED <<capture, sink, drain, overlapped>>

SendRequest(r) == LogNetwork(r, "sent", "new", "open")
EndRequest(r) == \E event \in {"finished", "failed"} : LogNetwork(r, event, "open", "ended")

-----------------------------------------------------------------------------
(* capture-start, capture-clear and capture-stop.                          *)

\* One capture for a session; what the browser answers to its commands is not
\* looked at, and browsers other than Chrome get none.
CaptureStart ==
    /\ ~capture.on
    /\ LET started == [capture EXCEPT !.on = TRUE]
       IN  \E domains \in SUBSET Domain :
              /\ browser' = [browser EXCEPT !.enabled = domains]
              /\ IF domains \in {{}, Domain} THEN capture' = started ELSE Loses(started)
    /\ \E open \in BOOLEAN : sink' = [sink EXCEPT !.open = open]
    /\ UNCHANGED <<drain, overlapped, untold>>

\* Mutant: leaves the positions in the sink.
ClearBuffers ==
    /\ capture.on /\ capture.left > 0
    /\ capture' = [capture EXCEPT !.console = <<>>, !.inflight = {}, !.completed = <<>>,
                                  !.recent = FALSE, !.left = @ - 1]
    /\ overlapped' = IF Flushing THEN overlapped \cup {"flush"} ELSE overlapped
    /\ UNCHANGED <<browser, sink, drain, untold>>

\* Clear: the buffers, and the positions of the sink in them.
CaptureClear ==
    /\ capture.on /\ capture.left > 0
    /\ capture' = [capture EXCEPT !.console = <<>>, !.inflight = {}, !.completed = <<>>,
                                  !.recent = FALSE, !.left = @ - 1]
    /\ sink' = [sink EXCEPT !.nextConsole = 0, !.nextNetwork = 0]
    /\ overlapped' = IF Flushing THEN overlapped \cup {"flush"} ELSE overlapped
    /\ UNCHANGED <<browser, drain, untold>>

\* Within 100 ms of the last one a drain does nothing: a stop closes the sink all
\* the same, and what the browser logged meanwhile is not in it.
StartDrain(d, stops) ==
    /\ capture.on /\ capture.left > 0 /\ drain[d].step = "idle"
    /\ stops \/ ~capture.recent
    /\ drain' = [drain EXCEPT ![d].step = IF capture.recent THEN "close" ELSE "console",
                              ![d].stops = stops]
    /\ capture' = [capture EXCEPT !.recent = TRUE, !.left = @ - 1]
    /\ overlapped' = IF Quiet THEN overlapped ELSE overlapped \cup {"drain"}
    /\ UNCHANGED <<browser, sink, untold>>

TimePasses ==
    /\ capture.recent
    /\ capture' = [capture EXCEPT !.recent = FALSE]
    /\ UNCHANGED <<browser, sink, drain, overlapped, untold>>

-----------------------------------------------------------------------------
(* A drain.                                                                *)

After(d) == IF drain[d].stops THEN "close" ELSE "idle"
DrainAt(d, step) == drain[d].step = step
DrainGoes(d, step) == drain' = [drain EXCEPT ![d].step = step]

\* drainConsole: the logs forget what is read.
ReadConsole(d) ==
    /\ DrainAt(d, "console")
    /\ drain' = [drain EXCEPT ![d].step = IF browser.console = <<>> THEN "network" ELSE "append",
                              ![d].console = browser.console]
    /\ browser' = [browser EXCEPT !.console = <<>>]
    /\ UNCHANGED <<capture, sink, overlapped, untold>>

AppendConsole(d) ==
    /\ DrainAt(d, "append")
    /\ capture' = [capture EXCEPT !.console = @ \o drain[d].console]
    /\ drain' = [drain EXCEPT ![d].step = "network", ![d].console = <<>>]
    /\ UNCHANGED <<browser, sink, overlapped, untold>>

ReadNetwork(d) ==
    /\ DrainAt(d, "network")
    /\ drain' = [drain EXCEPT ![d].step = "handle", ![d].events = browser.events]
    /\ browser' = [browser EXCEPT !.events = <<>>]
    /\ UNCHANGED <<capture, sink, overlapped, untold>>

\* A log that cannot be read is an error of the capture, and is read next time.
ReadFails(d) ==
    /\ drain[d].step \in {"console", "network"}
    /\ Loses(capture)
    /\ DrainGoes(d, IF DrainAt(d, "console") THEN "network" ELSE "handle")
    /\ UNCHANGED <<browser, sink, overlapped, untold>>

\* What does not parse is an error of the capture, and is skipped.
SkipEvent(d) ==
    /\ DrainAt(d, "handle") /\ drain[d].events # <<>> /\ Loses(capture)
    /\ LET e == Head(drain[d].events)
       IN  untold' = IF e.event \in {"finished", "failed"} THEN untold \cup {e.of} ELSE untold
    /\ drain' = [drain EXCEPT ![d].events = Tail(@)]
    /\ UNCHANGED <<browser, sink, overlapped>>

\* onRuntimeConsole and onRuntimeException: the browser log may have it too.
OnRuntimeConsole(d) ==
    /\ DrainAt(d, "handle") /\ drain[d].events # <<>> /\ Head(drain[d].events).event = "runtime"
    /\ capture' = [capture EXCEPT !.console =
                     Append(@, [type |-> "runtime", of |-> Head(drain[d].events).of])]
    /\ drain' = [drain EXCEPT ![d].events = Tail(@)]
    /\ UNCHANGED <<browser, sink, overlapped, untold>>

FinishedEvent(d) == [type |-> "network", of |-> Head(drain[d].events).of]

OnRequestWillBeSent(d) ==
    /\ DrainAt(d, "handle") /\ drain[d].events # <<>> /\ Head(drain[d].events).event = "sent"
    /\ capture' = [capture EXCEPT !.inflight = @ \cup {Head(drain[d].events).of}]
    /\ drain' = [drain EXCEPT ![d].events = Tail(@)]
    /\ UNCHANGED <<browser, sink, overlapped, untold>>

OnLoadingFailed(d) ==
    /\ DrainAt(d, "handle") /\ drain[d].events # <<>> /\ Head(drain[d].events).event = "failed"
    /\ capture' = [capture EXCEPT !.completed = Append(@, FinishedEvent(d)),
                                  !.inflight = @ \ {Head(drain[d].events).of}]
    /\ drain' = [drain EXCEPT ![d].events = Tail(@)]
    /\ UNCHANGED <<browser, sink, overlapped, untold>>

\* The body of a response is fetched without the lock.
OnLoadingFinished(d) ==
    /\ DrainAt(d, "handle") /\ drain[d].events # <<>> /\ Head(drain[d].events).event = "finished"
    /\ capture' = [capture EXCEPT !.inflight = @ \cup {Head(drain[d].events).of}]
    /\ DrainGoes(d, "body")
    /\ UNCHANGED <<browser, sink, overlapped, untold>>

\* Mutant: a body that cannot be had ends the handler.
EndFinishedWithBody(d) ==
    /\ DrainAt(d, "body")
    /\ capture' \in {capture, [capture EXCEPT !.completed = Append(@, FinishedEvent(d)),
                                              !.inflight = @ \ {Head(drain[d].events).of}]}
    /\ drain' = [drain EXCEPT ![d].step = "handle", ![d].events = Tail(@)]
    /\ UNCHANGED <<browser, sink, overlapped, untold>>

\* finishLocked, with a body or with an error.
EndFinished(d) ==
    /\ DrainAt(d, "body")
    /\ capture' = [capture EXCEPT !.completed = Append(@, FinishedEvent(d)),
                                  !.inflight = @ \ {Head(drain[d].events).of}]
    /\ drain' = [drain EXCEPT ![d].step = "handle", ![d].events = Tail(@)]
    /\ UNCHANGED <<browser, sink, overlapped, untold>>

\* FlushSink, once the events are handled: what is past the positions; past the
\* end of a buffer it panics.
TakePending(d) ==
    /\ DrainAt(d, "handle") /\ drain[d].events = <<>>
    /\ LET console == SubSeq(capture.console, sink.nextConsole + 1, Len(capture.console))
           network == SubSeq(capture.completed, sink.nextNetwork + 1, Len(capture.completed))
           beyond == sink.nextConsole > Len(capture.console)
                       \/ sink.nextNetwork > Len(capture.completed)
           step == IF ~sink.open THEN After(d) ELSE IF beyond THEN "panic"
                   ELSE IF console \o network = <<>> THEN After(d) ELSE "write"
       IN  /\ drain' = IF step # "write" THEN [drain EXCEPT ![d].step = step]
                       ELSE [drain EXCEPT ![d].step = step, ![d].console = console,
                                          ![d].network = network]
           /\ overlapped' = IF step = "write" /\ Flushing THEN overlapped \cup {"flush"}
                            ELSE overlapped
    /\ UNCHANGED <<browser, capture, sink, untold>>

\* Without the lock; the writer of a sink that was closed meanwhile is nil.
WritePending(d) ==
    /\ DrainAt(d, "write")
    /\ IF sink.open
       THEN /\ sink' = [sink EXCEPT !.lines = @ \o drain[d].console \o drain[d].network]
            /\ DrainGoes(d, "advance")
       ELSE DrainGoes(d, "panic") /\ UNCHANGED sink
    /\ UNCHANGED <<browser, capture, overlapped, untold>>

\* A write that fails leaves the positions: what it wrote is written again.
WriteFails(d) ==
    /\ DrainAt(d, "write") /\ sink.open /\ Loses(capture)
    /\ LET pending == drain[d].console \o drain[d].network
       IN  \E n \in 0 .. Len(pending) - 1 :
              sink' = [sink EXCEPT !.lines = @ \o SubSeq(pending, 1, n), !.intact = FALSE]
    /\ drain' = [drain EXCEPT ![d].step = After(d), ![d].console = <<>>, ![d].network = <<>>]
    /\ UNCHANGED <<browser, overlapped, untold>>

AdvanceSink(d) ==
    /\ DrainAt(d, "advance")
    /\ sink' = [sink EXCEPT !.nextConsole = @ + Len(drain[d].console),
                            !.nextNetwork = @ + Len(drain[d].network)]
    /\ drain' = [drain EXCEPT ![d].step = After(d), ![d].console = <<>>, ![d].network = <<>>]
    /\ UNCHANGED <<browser, capture, overlapped, untold>>

\* captureStop: the session keeps its capture, and goes on draining into it; the
\* browser is asked for no more events, and may go on.
CloseSink(d) ==
    /\ DrainAt(d, "close")
    /\ sink' = [sink EXCEPT !.open = FALSE]
    /\ \E left \in SUBSET browser.enabled :
          /\ browser' = [browser EXCEPT !.enabled = left]
          /\ IF left = {} THEN UNCHANGED capture ELSE Loses(capture)
    /\ drain' = [drain EXCEPT ![d] = NoDrain]
    /\ UNCHANGED <<overlapped, untold>>

Drains(d) ==
    \/ \E stops \in BOOLEAN : StartDrain(d, stops)
    \/ ReadConsole(d) \/ AppendConsole(d) \/ ReadNetwork(d) \/ ReadFails(d)
    \/ OnRequestWillBeSent(d) \/ OnLoadingFailed(d) \/ OnLoadingFinished(d) \/ EndFinished(d)
    \/ OnRuntimeConsole(d) \/ SkipEvent(d)
    \/ TakePending(d) \/ WritePending(d) \/ WriteFails(d) \/ AdvanceSink(d) \/ CloseSink(d)

CaptureNext ==
    \/ LogConsole \/ CaptureStart \/ CaptureClear \/ TimePasses
    \/ \E r \in NetRequest : SendRequest(r) \/ EndRequest(r)
    \/ \E d \in Drainer : Drains(d)

CaptureSpec == CaptureInit /\ [][CaptureNext]_captureVars

-----------------------------------------------------------------------------
(* Properties.                                                             *)

\* As long as no flush overlaps another or a clear, the sink gets every request
\* and every entry of either log at most once, unless a write fails, and no position
\* points past its buffer, although drains overlap elsewhere; as long as no two
\* drains overlap at all, the entries of each log are in order.  What one call of
\* the console left in both logs is two lines (FlushSink, Clear, drainConsole).
SinkInOrder ==
    "flush" \notin overlapped =>
       /\ sink.intact => IsInjective(sink.lines)
       /\ sink.intact /\ "drain" \notin overlapped =>
             \A i, j \in DOMAIN sink.lines :
                i < j /\ sink.lines[i].type = sink.lines[j].type /\ sink.lines[i].type # "network"
                => sink.lines[i].of < sink.lines[j].of
       /\ sink.nextConsole <= Len(capture.console) /\ sink.nextNetwork <= Len(capture.completed)

\* As long as no two drains overlap, no request that has ended is left in flight
\* once the log is drained, which the wait for an idle network counts on, across
\* clears, stops and bodies that cannot be had; but a request whose end the browser
\* was not to log any more, or that cannot be parsed, stays (onLoadingFinished,
\* captureStop, isNetworkIdle).
InflightTrue ==
    "drain" \notin overlapped /\ Quiet /\ browser.events = <<>> =>
       \A r \in capture.inflight \ untold : browser.requests[r] = "open"

=============================================================================
