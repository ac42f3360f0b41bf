----------------------------- MODULE SessionPool -----------------------------
(***************************************************************************)
(* Contexts of a run (context.go) and the terminal sessions they keep      *)
(* (service/system/exec).  A context is cloned for a workflow, whose       *)
(* caller waits, and for every asynchronous action, whose caller goes on.  *)
(* A clone copies the entries of its origin: the map of sessions, unless   *)
(* MakeAsyncSafe removes it, and the list of deferred functions, are       *)
(* shared by reference.  Closing the first context runs what was deferred. *)
(***************************************************************************)
EXTENDS Integers, Sequences, FiniteSets, Functions, SequencesExt

CONSTANTS
    MaxContexts,     \* contexts of a run
    Host,            \* ids of sessions: user and host
    MaxConnections,  \* connections of a run
    MaxLoad          \* contexts and connections together

ASSUME PoolAssumption ==
    /\ MaxContexts \in Nat \ {0}
    /\ IsFiniteSet(Host)
    /\ {MaxConnections, MaxLoad} \subseteq Nat

VARIABLES
    contexts,     \* every context: what it does and the entries it holds
    sessionMaps,  \* the maps of sessions: a connection for an id, or none
    deferLists,   \* the lists of deferred functions
    connections,  \* every connection: open, and not of a transient session
    overwritten   \* history: functions that an append of another goroutine dropped

poolVars == <<contexts, sessionMaps, deferLists, connections, overwritten>>

ContextId == 1 .. MaxContexts
Root == 1
NoEntry == 0  \* no such entry, no session, no connection

\* A deferred function closes a connection, or the session of an id.
Function == [closes : {"connection"}, connection : 1 .. MaxConnections]
   \cup [closes : {"session"}, map : 1 .. MaxContexts, host : Host]

\* The request that a context handles, and what Deffer read for it.
NoRequest == [host |-> NoEntry, connection |-> NoEntry, transient |-> FALSE, copy |-> <<>>]

NoContext == [does |-> "none", parent |-> NoEntry, async |-> FALSE, sessions |-> NoEntry,
              unsafe |-> FALSE, list |-> NoEntry, request |-> NoRequest]

ContextState ==
    [does : {"none", "unsafe", "runs", "waits", "connect", "deferConnection", "putConnection",
             "deferSession", "putSession", "init", "ended", "closed"},
     parent : 0 .. MaxContexts, async : BOOLEAN, sessions : 0 .. MaxContexts, unsafe : BOOLEAN,
     list : 0 .. MaxContexts,
     request : [host : Host \cup {NoEntry}, connection : 0 .. MaxConnections,
                transient : BOOLEAN, copy : Seq(Function)]]

PoolTypeOK ==
    /\ contexts \in [ContextId -> ContextState]
    /\ sessionMaps \in Seq([Host -> 0 .. MaxConnections])
    /\ deferLists \in Seq(Seq(Function))
    /\ connections \in Seq([open : BOOLEAN, kept : BOOLEAN])
    /\ overwritten \subseteq Function

PoolInit ==
    /\ contexts = [c \in ContextId |-> NoContext]
    /\ sessionMaps = <<>> /\ deferLists = <<>> /\ connections = <<>>
    /\ overwritten = {}

Is(c, what) == contexts[c].does = what
Becomes(c, what) == contexts' = [contexts EXCEPT ![c].does = what]
Answers(c) == contexts' = [contexts EXCEPT ![c].does = "runs", ![c].request = NoRequest]
Asked(c) == contexts[c].request
PoolLoad == Cardinality({c \in ContextId : ~Is(c, "none")}) + Len(connections)

\* manager.NewContext.
NewContext ==
    /\ Is(Root, "none")
    /\ Becomes(Root, "runs")
    /\ UNCHANGED <<sessionMaps, deferLists, connections, overwritten>>

-----------------------------------------------------------------------------
(* Clones.                                                                 *)

\* Clone copies the entries, the set of unsafe keys among them.
CloneOf(c, async) ==
    [NoContext EXCEPT !.does = IF async THEN "unsafe" ELSE "runs", !.parent = c,
                      !.async = async, !.sessions = contexts[c].sessions,
                      !.unsafe = contexts[c].unsafe, !.list = contexts[c].list]

\* runWorkflow waits for its clone; runAsyncActions clones and goes on.
CloneContext(c, async) ==
    /\ Is(c, "runs") /\ PoolLoad < MaxLoad
    /\ \E new \in ContextId :
          /\ Is(new, "none") /\ \A d \in 1 .. new - 1 : ~Is(d, "none")
          /\ contexts' = [contexts EXCEPT ![new] = CloneOf(c, async),
                                          ![c].does = IF async THEN "runs" ELSE "waits"]
    /\ UNCHANGED <<sessionMaps, deferLists, connections, overwritten>>

\* Mutant: a clone keeps the sessions of its origin.
KeepUnsafe(c) ==
    /\ Is(c, "unsafe")
    /\ Becomes(c, "runs")
    /\ UNCHANGED <<sessionMaps, deferLists, connections, overwritten>>

MakeAsyncSafe(c) ==
    /\ Is(c, "unsafe")
    /\ contexts' = [contexts EXCEPT ![c].does = "runs",
                                    ![c].sessions = IF contexts[c].unsafe THEN NoEntry ELSE @]
    /\ UNCHANGED <<sessionMaps, deferLists, connections, overwritten>>

\* A context ends after the asynchronous actions it started.
EndContext(c) ==
    /\ c # Root /\ Is(c, "runs")
    /\ \A d \in ContextId : contexts[d].parent = c => Is(d, "ended")
    /\ LET p == contexts[c].parent
       IN  contexts' = [contexts EXCEPT ![c].does = "ended",
                                        ![p].does = IF contexts[c].async THEN @ ELSE "runs"]
    /\ UNCHANGED <<sessionMaps, deferLists, connections, overwritten>>

-----------------------------------------------------------------------------
(* openSession and closeSession.                                           *)

\* TerminalSessions: the map of the context, a new one if it has none.
MapOf(c) == IF contexts[c].sessions = NoEntry THEN Len(sessionMaps) + 1 ELSE contexts[c].sessions
WithMap(c) == IF contexts[c].sessions = NoEntry
              THEN Append(sessionMaps, [h \in Host |-> NoEntry]) ELSE sessionMaps

\* A session that the map has is initialised again, otherwise one is connected.
LookupSession(c, h, kept) ==
    LET known == WithMap(c)[MapOf(c)][h] # NoEntry
        held == [contexts[c] EXCEPT !.sessions = MapOf(c),
                                    !.unsafe = @ \/ contexts[c].sessions = NoEntry]
    IN
    /\ Is(c, "runs")
    /\ sessionMaps' = WithMap(c)
    /\ contexts' = [contexts EXCEPT ![c] =
         IF known THEN held
         ELSE [held EXCEPT !.does = "connect", !.request.host = h, !.request.transient = ~kept]]
    /\ UNCHANGED <<deferLists, connections, overwritten>>

ConnectFails(c) ==
    /\ Is(c, "connect")
    /\ Answers(c)
    /\ UNCHANGED <<sessionMaps, deferLists, connections, overwritten>>

Connect(c) ==
    /\ Is(c, "connect") /\ Len(connections) < MaxConnections /\ PoolLoad < MaxLoad
    /\ connections' = Append(connections, [open |-> TRUE, kept |-> ~Asked(c).transient])
    /\ contexts' = [contexts EXCEPT ![c].request.connection = Len(connections) + 1,
                                    ![c].does = IF Asked(c).transient THEN "init"
                                                ELSE "deferConnection"]
    /\ UNCHANGED <<sessionMaps, deferLists, overwritten>>

\* Deffer finds the list of the context, or makes one, and reads it ...
DefferRead(c) ==
    /\ contexts[c].does \in {"deferConnection", "deferSession"}
    /\ LET next == IF Is(c, "deferConnection") THEN "putConnection" ELSE "putSession"
       IN  IF contexts[c].list = NoEntry
           THEN /\ deferLists' = Append(deferLists, <<>>)
                /\ contexts' = [contexts EXCEPT ![c].list = Len(deferLists) + 1,
                                                ![c].does = next]
           ELSE /\ contexts' = [contexts EXCEPT ![c].request.copy = deferLists[contexts[c].list],
                                                ![c].does = next]
                /\ UNCHANGED deferLists
    /\ UNCHANGED <<sessionMaps, connections, overwritten>>

Deferred(c) == IF Is(c, "putConnection")
               THEN [closes |-> "connection", connection |-> Asked(c).connection]
               ELSE [closes |-> "session", map |-> contexts[c].sessions, host |-> Asked(c).host]

\* ... and stores what it read with the function at its end: no lock is held.
DefferWrite(c) ==
    /\ contexts[c].does \in {"putConnection", "putSession"}
    /\ LET list == contexts[c].list
           new == Append(Asked(c).copy, Deferred(c))
       IN  /\ deferLists' = [deferLists EXCEPT ![list] = new]
           /\ overwritten' = overwritten \cup (ToSet(deferLists[list]) \ ToSet(new))
    /\ contexts' = [contexts EXCEPT ![c].request.copy = <<>>,
                                    ![c].does = IF Is(c, "putConnection") THEN "deferSession"
                                                ELSE "init"]
    /\ UNCHANGED <<sessionMaps, connections>>

\* initSession sets the environment; a session that fails is not stored.
InitFails(c) ==
    /\ Is(c, "init")
    /\ Answers(c)
    /\ UNCHANGED <<sessionMaps, deferLists, connections, overwritten>>

StoreSession(c) ==
    /\ Is(c, "init")
    /\ sessionMaps' = [sessionMaps EXCEPT ![contexts[c].sessions][Asked(c).host] =
                          Asked(c).connection]
    /\ Answers(c)
    /\ UNCHANGED <<deferLists, connections, overwritten>>

CloseSession(c, h) ==
    /\ Is(c, "runs") /\ contexts[c].sessions # NoEntry
    /\ LET n == sessionMaps[contexts[c].sessions][h]
       IN  /\ n # NoEntry
           /\ connections' = [connections EXCEPT ![n].open = FALSE]
    /\ sessionMaps' = [sessionMaps EXCEPT ![contexts[c].sessions][h] = NoEntry]
    /\ UNCHANGED <<contexts, deferLists, overwritten>>

-----------------------------------------------------------------------------
(* Close.                                                                  *)

DeferredIn(S) == UNION {ToSet(deferLists[i]) : i \in S}

Closing(S) ==
    {f.connection : f \in {g \in DeferredIn(S) : g.closes = "connection"}}
      \cup {sessionMaps[f.map][f.host] : f \in {g \in DeferredIn(S) : g.closes = "session"}}

CloseAll(S) ==
    /\ connections' = [n \in DOMAIN connections |->
                         [connections[n] EXCEPT !.open = @ /\ n \notin Closing(S)]]
    /\ sessionMaps' = [m \in DOMAIN sessionMaps |-> [h \in Host |->
                         IF \E f \in DeferredIn(S) : f.closes = "session" /\ f.map = m /\ f.host = h
                         THEN NoEntry ELSE sessionMaps[m][h]]]
    /\ contexts' = [c \in ContextId |-> IF Is(c, "none") THEN contexts[c]
                                        ELSE [contexts[c] EXCEPT !.does = "closed"]]
    /\ UNCHANGED <<deferLists, overwritten>>

Closable ==
    /\ Is(Root, "runs")
    /\ \A c \in ContextId \ {Root} : contexts[c].does \in {"none", "ended"}

\* Mutant: forgets what clones deferred.
CloseRootOnly == Closable /\ CloseAll({contexts[Root].list} \ {NoEntry})

\* Close runs the functions of the clones, then its own: all there are.
CloseContext == Closable /\ CloseAll(DOMAIN deferLists)

PoolStep(c) ==
    \/ \E async \in BOOLEAN : CloneContext(c, async)
    \/ MakeAsyncSafe(c) \/ EndContext(c)
    \/ \E h \in Host : CloseSession(c, h) \/ \E kept \in BOOLEAN : LookupSession(c, h, kept)
    \/ Connect(c) \/ ConnectFails(c) \/ DefferRead(c) \/ DefferWrite(c)
    \/ InitFails(c) \/ StoreSession(c)

PoolNext == NewContext \/ CloseContext \/ \E c \in ContextId : PoolStep(c)

PoolSpec == PoolInit /\ [][PoolNext]_poolVars

-----------------------------------------------------------------------------
(* Properties.                                                             *)

\* Contexts whose goroutines run at the same time: neither waits for the other.
Concurrent(c, d) ==
    /\ c # d
    /\ contexts[c].does \notin {"none", "unsafe", "waits", "ended", "closed"}
    /\ contexts[d].does \notin {"none", "unsafe", "waits", "ended", "closed"}

\* Two goroutines never share a terminal, in which their commands would mix:
\* a key is unsafe wherever its entry is, however contexts were cloned
\* (Clone, MakeAsyncSafe, TerminalSessions).
OwnTerminals ==
    \A c, d \in ContextId :
       Concurrent(c, d) /\ contexts[c].sessions = contexts[d].sessions
          => contexts[c].sessions = NoEntry

\* The end of the run closes every connection that it opened to keep, those of
\* failed requests and of clones too, but for functions lost where two
\* goroutines deferred at once (Deffer, openSession, Close).
AllClosed ==
    Is(Root, "closed") =>
       \A n \in DOMAIN connections :
          connections[n].open /\ connections[n].kept =>
             [closes |-> "connection", connection |-> n] \in overwritten

=============================================================================
