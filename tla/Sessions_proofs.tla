--------------------------- MODULE Sessions_proofs ---------------------------
(***************************************************************************)
(* Proofs about terminal sessions and what they remember: SessionPool,     *)
(* ShellCache and AppDeploy.                                               *)
(***************************************************************************)
EXTENDS SessionPool, ShellCache, AppDeploy, FiniteSetTheorems, SequenceTheorems, TLAPS

-----------------------------------------------------------------------------
(* SessionPool, for any number of contexts, hosts and connections. The     *)
(* argument: a map of sessions is shared only along a chain of callers     *)
(* that wait, since an asynchronous clone gives its map up before it runs, *)
(* and a caller runs again only when the clone that it waits for has       *)
(* ended.                                                                  *)

Entries == {"does", "parent", "async", "sessions", "unsafe", "list", "request"}

\* A context that is under way: a clone that is not safe yet has no turn.
Live(c) == contexts[c].does \notin {"none", "unsafe", "ended", "closed"}

\* A context that another one waits for.
Called(c) == Live(c) /\ ~contexts[c].async /\ contexts[c].parent # NoEntry

Shape ==
    /\ DOMAIN contexts = ContextId
    /\ \A c \in ContextId :
          /\ DOMAIN contexts[c] = Entries
          /\ contexts[c].async \in BOOLEAN /\ contexts[c].sessions \in Nat

\* Maps are numbered in the order in which they were made.
MapsNumbered ==
    /\ Len(sessionMaps) \in Nat /\ DOMAIN sessionMaps = 1 .. Len(sessionMaps)
    /\ \A c \in ContextId : contexts[c].sessions <= Len(sessionMaps)

\* Whoever has a map has its key among the unsafe ones.
MarkedUnsafe == \A c \in ContextId : contexts[c].sessions # NoEntry => contexts[c].unsafe

Beginnings ==
    \A c \in ContextId :
       /\ Is(c, "none") => contexts[c].sessions = NoEntry /\ contexts[c].parent = NoEntry
       /\ Is(c, "unsafe") => contexts[c].async

\* Of two that are under way with one map, one waits.
SharedByWaiting ==
    \A c, d \in ContextId :
       c # d /\ Live(c) /\ Live(d) /\ contexts[c].sessions = contexts[d].sessions
         /\ contexts[c].sessions # NoEntry
       => Is(c, "waits") \/ Is(d, "waits")

\* A caller waits for one clone, which has its map if it has one.
CallersWait ==
    \A c \in ContextId : Called(c) =>
       LET p == contexts[c].parent
       IN  /\ p \in ContextId /\ Is(p, "waits")
           /\ contexts[p].sessions \in {NoEntry, contexts[c].sessions}
           /\ \A d \in ContextId : Called(d) /\ contexts[d].parent = p => d = c

PoolIInv ==
    /\ Shape /\ MapsNumbered /\ MarkedUnsafe /\ Beginnings /\ SharedByWaiting /\ CallersWait

LEMMA PoolInitIInv == PoolInit => PoolIInv
<1> SUFFICES ASSUME PoolInit PROVE PoolIInv
  OBVIOUS
<1>1. \A c \in ContextId : contexts[c] = NoContext
  BY DEF PoolInit
<1>2. /\ DOMAIN NoContext = Entries
      /\ NoContext.does = "none" /\ NoContext.parent = NoEntry /\ NoContext.async = FALSE
      /\ NoContext.sessions = NoEntry
  BY DEF NoContext, Entries
<1>3. Shape
  <2>1. DOMAIN contexts = ContextId
    BY DEF PoolInit
  <2>2. NoContext.async \in BOOLEAN /\ NoContext.sessions \in Nat
    BY DEF NoContext, NoEntry
  <2>3. ASSUME NEW c \in ContextId
        PROVE  /\ DOMAIN contexts[c] = Entries
               /\ contexts[c].async \in BOOLEAN /\ contexts[c].sessions \in Nat
    <3>1. contexts[c] = NoContext
      BY <1>1
    <3> QED
      BY <1>2, <2>2, <3>1
  <2> QED
    BY <2>1, <2>3 DEF Shape
<1>4. MapsNumbered
  BY <1>1, <1>2 DEF MapsNumbered, PoolInit, NoEntry
<1>5. MarkedUnsafe /\ Beginnings /\ SharedByWaiting /\ CallersWait
  BY <1>1, <1>2 DEF MarkedUnsafe, Beginnings, SharedByWaiting, CallersWait, Is, Live, Called
<1> QED
  BY <1>3, <1>4, <1>5 DEF PoolIInv

\* The steps of a request, which change nothing that the argument is about.
Busy == {"runs", "connect", "deferConnection", "putConnection", "deferSession",
         "putSession", "init"}

Steady ==
    /\ DOMAIN contexts' = ContextId
    /\ \A c \in ContextId :
          /\ DOMAIN contexts'[c] = Entries
          /\ contexts'[c].async = contexts[c].async
          /\ contexts'[c].parent = contexts[c].parent
          /\ contexts'[c].sessions = contexts[c].sessions
          /\ contexts'[c].unsafe = contexts[c].unsafe
          /\ contexts'[c].does = contexts[c].does
               \/ (contexts[c].does \in Busy /\ contexts'[c].does \in Busy)

SameMaps == Len(sessionMaps') = Len(sessionMaps) /\ DOMAIN sessionMaps' = DOMAIN sessionMaps

LEMMA SteadyIInv == PoolIInv /\ Steady /\ SameMaps => PoolIInv'
<1> SUFFICES ASSUME PoolIInv, Steady, SameMaps PROVE PoolIInv'
  OBVIOUS
<1> USE DEF PoolIInv
<1>1. \A c \in ContextId :
        /\ Live(c)' <=> Live(c)
        /\ Called(c)' <=> Called(c)
        /\ Is(c, "none")' <=> Is(c, "none")
        /\ Is(c, "unsafe")' <=> Is(c, "unsafe")
        /\ Is(c, "waits")' <=> Is(c, "waits")
  BY DEF Steady, Live, Called, Is, Busy
<1>2. Shape'
  BY DEF Steady, Shape
<1>3. MapsNumbered'
  BY DEF Steady, MapsNumbered, SameMaps
<1>4. MarkedUnsafe' /\ Beginnings'
  BY <1>1 DEF Steady, MarkedUnsafe, Beginnings
<1>5. SharedByWaiting'
  BY <1>1 DEF Steady, SharedByWaiting
<1>6. CallersWait'
  BY <1>1 DEF Steady, CallersWait
<1> QED
  BY <1>2, <1>3, <1>4, <1>5, <1>6

LEMMA NewContextIInv == PoolIInv /\ NewContext => PoolIInv'
<1> SUFFICES ASSUME PoolIInv, NewContext PROVE PoolIInv'
  OBVIOUS
<1> USE DEF PoolIInv
<1>0. Root \in ContextId
  BY PoolAssumption DEF Root, ContextId
<1>1. /\ contexts[Root].sessions = NoEntry /\ contexts[Root].parent = NoEntry
      /\ Is(Root, "none")
  BY <1>0 DEF NewContext, Beginnings, Is
<1>2. \A c \in ContextId :
        /\ DOMAIN contexts'[c] = Entries
        /\ contexts'[c].async = contexts[c].async /\ contexts'[c].parent = contexts[c].parent
        /\ contexts'[c].sessions = contexts[c].sessions
        /\ contexts'[c].unsafe = contexts[c].unsafe
        /\ contexts'[c].does = IF c = Root THEN "runs" ELSE contexts[c].does
  BY <1>0 DEF NewContext, Becomes, Shape, Entries
<1>3. DOMAIN contexts' = ContextId
  BY DEF NewContext, Becomes, Shape
<1>4. Shape' /\ MapsNumbered' /\ MarkedUnsafe' /\ Beginnings'
  BY <1>2, <1>3 DEF Shape, MapsNumbered, MarkedUnsafe, Beginnings, Is, NewContext
<1>5. \A c \in ContextId \ {Root} : (Live(c)' <=> Live(c)) /\ (Called(c)' <=> Called(c))
                                    /\ (Is(c, "waits")' <=> Is(c, "waits"))
  BY <1>2 DEF Live, Called, Is
<1>6. ~Called(Root)'
  BY <1>0, <1>1, <1>2 DEF Called
<1>7. SharedByWaiting'
  BY <1>0, <1>1, <1>2, <1>5 DEF SharedByWaiting
<1>8. CallersWait'
  BY <1>0, <1>1, <1>2, <1>5, <1>6 DEF CallersWait, Is
<1> QED
  BY <1>4, <1>7, <1>8

\* A clone has the entries of its origin and, when it is waited for, the turn.
LEMMA CloneIInv ==
    ASSUME PoolIInv, NEW c \in ContextId, NEW async \in BOOLEAN, CloneContext(c, async)
    PROVE  PoolIInv'
<1> USE DEF PoolIInv
<1>1. PICK new \in ContextId :
        /\ Is(new, "none")
        /\ contexts' = [contexts EXCEPT ![new] = CloneOf(c, async),
                                        ![c].does = IF async THEN "runs" ELSE "waits"]
  BY DEF CloneContext
<1>2. Is(c, "runs") /\ new # c
  BY <1>1 DEF CloneContext, Is
<1> DEFINE k == CloneOf(c, async)
<1>3. /\ DOMAIN k = Entries
      /\ k.does = (IF async THEN "unsafe" ELSE "runs")
      /\ k.parent = c /\ k.async = async
      /\ k.sessions = contexts[c].sessions /\ k.unsafe = contexts[c].unsafe
  BY DEF CloneOf, NoContext, Entries
<1> HIDE DEF k
<1>4. /\ DOMAIN contexts' = ContextId /\ contexts'[new] = k
      /\ \A d \in ContextId \ {new} :
           /\ DOMAIN contexts'[d] = Entries
           /\ contexts'[d].async = contexts[d].async
           /\ contexts'[d].parent = contexts[d].parent
           /\ contexts'[d].sessions = contexts[d].sessions
           /\ contexts'[d].unsafe = contexts[d].unsafe
           /\ contexts'[d].does = IF d = c /\ ~async THEN "waits" ELSE contexts[d].does
  BY <1>1, <1>2 DEF k, Shape, Entries, Is
<1>5. \A d \in ContextId \ {new} :
        /\ Live(d)' <=> Live(d)
        /\ Called(d)' <=> Called(d)
        /\ Is(d, "none")' <=> Is(d, "none")
        /\ Is(d, "unsafe")' <=> Is(d, "unsafe")
        /\ Is(d, "waits") => Is(d, "waits")'
  BY <1>2, <1>4 DEF Live, Called, Is
<1>6. Live(c) /\ ~Is(c, "waits") /\ (~async => Is(c, "waits")')
  BY <1>2, <1>4 DEF Live, Is
<1>7. Shape' /\ MapsNumbered' /\ MarkedUnsafe'
  <2>1. \A d \in ContextId :
          /\ DOMAIN contexts'[d] = Entries
          /\ contexts'[d].async \in BOOLEAN /\ contexts'[d].sessions \in Nat
    BY <1>3, <1>4 DEF Shape
  <2>2. Shape'
    BY <1>4, <2>1 DEF Shape
  <2>3. MapsNumbered' /\ MarkedUnsafe'
    BY <1>3, <1>4 DEF MapsNumbered, MarkedUnsafe, CloneContext
  <2> QED
    BY <2>2, <2>3
<1>8. Beginnings'
  BY <1>3, <1>4, <1>5 DEF Beginnings, Is
<1>9. Live(new)' <=> ~async
  BY <1>3, <1>4 DEF Live
<1>10. SharedByWaiting'
  <2>1. ASSUME NEW d \in ContextId \ {new}, Live(new)', Live(d)',
               contexts'[new].sessions = contexts'[d].sessions,
               contexts'[new].sessions # NoEntry
        PROVE  Is(d, "waits")'
    BY <1>2, <1>3, <1>4, <1>5, <1>6, <1>9, <2>1 DEF SharedByWaiting
  <2> QED
    BY <1>4, <1>5, <2>1 DEF SharedByWaiting
<1>11. CallersWait'
  <2>1. ASSUME NEW d \in ContextId \ {new}, Called(d) PROVE contexts[d].parent # c
    BY <1>6, <2>1 DEF CallersWait
  <2>2. ASSUME NEW d \in ContextId \ {new}, Called(d) PROVE contexts[d].parent # new
    BY <1>1, <2>2 DEF CallersWait, Is
  <2>3. contexts'[new].parent = c /\ contexts'[new].sessions = contexts'[c].sessions
    BY <1>2, <1>3, <1>4
  <2>4. Called(new)' => Is(c, "waits")'
    BY <1>6, <1>9 DEF Called
  <2>5. ASSUME NEW d \in ContextId, Called(d)'
        PROVE  LET p == contexts'[d].parent
               IN  /\ p \in ContextId /\ contexts'[p].does = "waits"
                   /\ contexts'[p].sessions \in {NoEntry, contexts'[d].sessions}
                   /\ \A e \in ContextId : Called(e)' /\ contexts'[e].parent = p => e = d
    <3>1. CASE d = new
      <4>1. contexts'[d].parent = c /\ contexts'[c].does = "waits"
        BY <2>3, <2>4, <2>5, <3>1 DEF Is
      <4>2. \A e \in ContextId : Called(e)' /\ contexts'[e].parent = c => e = d
        BY <1>4, <1>5, <2>1, <3>1
      <4> QED
        BY <2>3, <3>1, <4>1, <4>2
    <3>2. CASE d # new
      <4> DEFINE p == contexts[d].parent
      <4>1. Called(d) /\ contexts'[d].parent = p
        BY <1>4, <1>5, <2>5, <3>2
      <4>2. p # c /\ p # new
        BY <2>1, <2>2, <3>2, <4>1
      <4>3. /\ p \in ContextId /\ Is(p, "waits")
            /\ contexts[p].sessions \in {NoEntry, contexts[d].sessions}
        BY <4>1 DEF CallersWait
      <4>4. /\ contexts'[p].does = "waits"
            /\ contexts'[p].sessions \in {NoEntry, contexts'[d].sessions}
        BY <1>4, <3>2, <4>2, <4>3 DEF Is
      <4>5. \A e \in ContextId : Called(e)' /\ contexts'[e].parent = p => e = d
        BY <1>4, <1>5, <2>3, <4>1, <4>2 DEF CallersWait
      <4> HIDE DEF p
      <4> QED
        BY <4>1, <4>3, <4>4, <4>5
    <3> QED
      BY <3>1, <3>2
  <2> QED
    BY <2>5 DEF CallersWait, Is
<1> QED
  BY <1>7, <1>8, <1>10, <1>11

\* An asynchronous clone gives the map of its origin up before it runs.
LEMMA AsyncSafeIInv ==
    ASSUME PoolIInv, NEW c \in ContextId, MakeAsyncSafe(c) PROVE PoolIInv'
<1> USE DEF PoolIInv
<1>1. Is(c, "unsafe") /\ contexts[c].async
  BY DEF MakeAsyncSafe, Beginnings
<1>2. DOMAIN contexts' = ContextId /\ \A d \in ContextId :
        /\ DOMAIN contexts'[d] = Entries
        /\ contexts'[d].async = contexts[d].async
        /\ contexts'[d].parent = contexts[d].parent
        /\ contexts'[d].unsafe = contexts[d].unsafe
        /\ d # c => contexts'[d].sessions = contexts[d].sessions
                    /\ contexts'[d].does = contexts[d].does
        /\ d = c => contexts'[d].does = "runs"
                    /\ contexts'[d].sessions = IF contexts[d].unsafe THEN NoEntry
                                               ELSE contexts[d].sessions
  BY DEF MakeAsyncSafe, Shape, Entries
<1>3. contexts'[c].sessions = NoEntry
  BY <1>2 DEF MarkedUnsafe
<1>4. \A d \in ContextId \ {c} :
        (Live(d)' <=> Live(d)) /\ (Called(d)' <=> Called(d)) /\ (Is(d, "waits")' <=> Is(d, "waits"))
  BY <1>2 DEF Live, Called, Is
<1>5. ~Called(c)'
  BY <1>1, <1>2 DEF Called
<1>6. Shape' /\ MapsNumbered' /\ MarkedUnsafe' /\ Beginnings'
  BY <1>2, <1>3 DEF Shape, MapsNumbered, MarkedUnsafe, Beginnings, Is, NoEntry, MakeAsyncSafe
<1>7. SharedByWaiting'
  BY <1>2, <1>3, <1>4 DEF SharedByWaiting
<1>8. CallersWait'
  BY <1>1, <1>2, <1>4, <1>5 DEF CallersWait, Is
<1> QED
  BY <1>6, <1>7, <1>8

\* The caller of a clone that ends was the last to wait for it.
LEMMA EndIInv ==
    ASSUME PoolIInv, NEW c \in ContextId, EndContext(c) PROVE PoolIInv'
<1> USE DEF PoolIInv
<1> DEFINE p == contexts[c].parent
           resumes == ~contexts[c].async /\ p \in ContextId
<1>1. Is(c, "runs") /\ Live(c)
  BY DEF EndContext, Is, Live
<1>2. resumes => Called(c) /\ Is(p, "waits") /\ p # c
  BY <1>1 DEF Called, CallersWait, Is, NoEntry, ContextId
<1>3. DOMAIN contexts' = ContextId /\ \A d \in ContextId :
        /\ DOMAIN contexts'[d] = Entries
        /\ contexts'[d].async = contexts[d].async
        /\ contexts'[d].parent = contexts[d].parent
        /\ contexts'[d].unsafe = contexts[d].unsafe
        /\ contexts'[d].sessions = contexts[d].sessions
        /\ contexts'[d].does = IF d = c THEN "ended"
                               ELSE IF resumes /\ d = p THEN "runs" ELSE contexts[d].does
  BY <1>2 DEF EndContext, Shape, Entries
<1> HIDE DEF resumes
<1>4. \A d \in ContextId \ {c} :
        /\ Live(d)' <=> Live(d)
        /\ Called(d)' <=> Called(d)
        /\ Is(d, "waits") /\ ~(resumes /\ d = p) => Is(d, "waits")'
  BY <1>2, <1>3 DEF Live, Called, Is
<1>5. ~Live(c)' /\ ~Called(c)'
  BY <1>3 DEF Live, Called
<1>6. Shape' /\ MapsNumbered' /\ MarkedUnsafe' /\ Beginnings'
  BY <1>1, <1>2, <1>3 DEF Shape, MapsNumbered, MarkedUnsafe, Beginnings, Is, EndContext
<1>7. ASSUME resumes, NEW d \in ContextId \ {c, p}, Live(d),
             contexts[d].sessions = contexts[p].sessions, contexts[p].sessions # NoEntry
      PROVE  Is(d, "waits")
  <2>1. contexts[c].sessions = contexts[p].sessions
    BY <1>2, <1>7 DEF CallersWait
  <2> QED
    BY <1>1, <1>7, <2>1 DEF SharedByWaiting, Is
<1>8. SharedByWaiting'
  BY <1>3, <1>4, <1>5, <1>7 DEF SharedByWaiting
<1>9. ASSUME NEW d \in ContextId \ {c}, Called(d)
      PROVE  contexts[d].parent # c /\ ~(resumes /\ contexts[d].parent = p)
  BY <1>1, <1>2, <1>9 DEF CallersWait, Is
<1>10. CallersWait'
  BY <1>3, <1>4, <1>5, <1>9 DEF CallersWait
<1> QED
  BY <1>6, <1>8, <1>10

\* A map that is made is nobody else's.
LEMMA LookupIInv ==
    ASSUME PoolIInv, NEW c \in ContextId, NEW h \in Host, NEW kept \in BOOLEAN,
           LookupSession(c, h, kept)
    PROVE  PoolIInv'
<1> USE DEF PoolIInv
<1>1. Is(c, "runs")
  BY DEF LookupSession
<1>2. DOMAIN contexts' = ContextId /\ \A d \in ContextId :
        /\ DOMAIN contexts'[d] = Entries
        /\ contexts'[d].async = contexts[d].async
        /\ contexts'[d].parent = contexts[d].parent
        /\ d # c => contexts'[d].sessions = contexts[d].sessions
                    /\ contexts'[d].unsafe = contexts[d].unsafe
                    /\ contexts'[d].does = contexts[d].does
        /\ d = c => contexts'[d].does \in {"runs", "connect"}
                    /\ contexts'[d].sessions = MapOf(c)
                    /\ contexts'[d].unsafe = (contexts[c].unsafe \/ contexts[c].sessions = NoEntry)
  BY <1>1 DEF LookupSession, Shape, Entries, Is
<1>3. \A d \in ContextId :
        /\ Live(d)' <=> Live(d)
        /\ Called(d)' <=> Called(d)
        /\ Is(d, "none")' <=> Is(d, "none")
        /\ Is(d, "unsafe")' <=> Is(d, "unsafe")
        /\ Is(d, "waits")' <=> Is(d, "waits")
  BY <1>1, <1>2 DEF Live, Called, Is
<1>4. CASE contexts[c].sessions # NoEntry
  <2>1. SameMaps /\ contexts'[c].sessions = contexts[c].sessions
    BY <1>2, <1>4 DEF MapOf, WithMap, LookupSession, SameMaps
  <2>2. contexts[c].unsafe
    BY <1>4 DEF MarkedUnsafe
  <2>3. \A d \in ContextId : contexts'[d].sessions = contexts[d].sessions
    BY <1>2, <2>1
  <2>4. Shape' /\ MapsNumbered'
    BY <1>2, <2>1, <2>3 DEF Shape, MapsNumbered, SameMaps
  <2>5. MarkedUnsafe'
    BY <1>2, <2>2 DEF MarkedUnsafe
  <2>6. Beginnings'
    BY <1>2, <1>3, <2>3 DEF Beginnings
  <2>7. SharedByWaiting'
    BY <1>3, <2>3 DEF SharedByWaiting
  <2>8. CallersWait'
    BY <1>2, <1>3, <2>3 DEF CallersWait
  <2> QED
    BY <2>4, <2>5, <2>6, <2>7, <2>8
<1>5. CASE contexts[c].sessions = NoEntry
  <2> DEFINE m == Len(sessionMaps) + 1
  <2>1. contexts'[c].sessions = m /\ contexts'[c].unsafe
    BY <1>2, <1>5 DEF MapOf
  <2>2. sessionMaps' = Append(sessionMaps, [x \in Host |-> NoEntry])
    BY <1>5 DEF WithMap, LookupSession
  <2>3. m \in Nat /\ DOMAIN sessionMaps' = 1 .. m /\ Len(sessionMaps') = m
    BY <2>2 DEF MapsNumbered
  <2>4. \A d \in ContextId : contexts[d].sessions \in Nat /\ contexts[d].sessions < m
    BY DEF MapsNumbered, Shape
  <2> HIDE DEF m
  <2>5. Shape'
    BY <1>2, <2>1, <2>3 DEF Shape
  <2>6. MapsNumbered'
    BY <1>2, <2>1, <2>3, <2>4 DEF MapsNumbered
  <2>7. MarkedUnsafe'
    BY <1>2, <2>1 DEF MarkedUnsafe
  <2>8. Beginnings'
    BY <1>1, <1>2, <1>3 DEF Beginnings, Is
  <2>9. SharedByWaiting'
    BY <1>2, <1>3, <2>1, <2>4 DEF SharedByWaiting
  <2>10. ASSUME NEW d \in ContextId, Called(d)
         PROVE  /\ contexts[d].parent # c
                /\ d = c => contexts[contexts[d].parent].sessions = NoEntry
    BY <1>1, <1>5, <2>10 DEF CallersWait, Is
  <2>11. CallersWait'
    BY <1>2, <1>3, <2>10 DEF CallersWait
  <2> QED
    BY <2>5, <2>6, <2>7, <2>8, <2>9, <2>11
<1> QED
  BY <1>4, <1>5

\* The steps of a request that only move it on, and the ends of sessions.
LEMMA RequestSteady ==
    ASSUME PoolIInv, NEW c \in ContextId,
           \/ Connect(c) \/ ConnectFails(c) \/ DefferRead(c) \/ DefferWrite(c)
           \/ InitFails(c) \/ StoreSession(c) \/ \E h \in Host : CloseSession(c, h)
    PROVE  Steady /\ SameMaps
<1> USE DEF PoolIInv, Shape, Entries, Steady, Busy, SameMaps, Is
<1>1. CASE Connect(c)
  BY <1>1 DEF Connect
<1>2. CASE ConnectFails(c)
  BY <1>2 DEF ConnectFails, Answers
<1>3. CASE DefferRead(c)
  BY <1>3 DEF DefferRead
<1>4. CASE DefferWrite(c)
  BY <1>4 DEF DefferWrite
<1>5. CASE InitFails(c)
  BY <1>5 DEF InitFails, Answers
<1>6. CASE StoreSession(c)
  <2>1. SameMaps
    BY <1>6 DEF StoreSession, MapsNumbered
  <2> QED
    BY <1>6, <2>1 DEF StoreSession, Answers
<1>7. ASSUME NEW h \in Host, CloseSession(c, h) PROVE Steady /\ SameMaps
  <2>2. PICK k, m : sessionMaps' = [sessionMaps EXCEPT ![k] = m]
    BY <1>7 DEF CloseSession
  <2>3. DOMAIN sessionMaps' = DOMAIN sessionMaps
    BY <2>2
  <2>1. SameMaps
    BY <2>2, <2>3 DEF MapsNumbered
  <2> QED
    BY <1>7, <2>1 DEF CloseSession
<1> QED
  BY <1>1, <1>2, <1>3, <1>4, <1>5, <1>6, <1>7

LEMMA CloseIInv == PoolIInv /\ CloseContext => PoolIInv'
<1> SUFFICES ASSUME PoolIInv, CloseContext PROVE PoolIInv'
  OBVIOUS
<1> USE DEF PoolIInv
<1>1. DOMAIN contexts' = ContextId /\ \A c \in ContextId :
        /\ DOMAIN contexts'[c] = Entries
        /\ contexts'[c].async = contexts[c].async
        /\ contexts'[c].parent = contexts[c].parent
        /\ contexts'[c].sessions = contexts[c].sessions
        /\ contexts'[c].unsafe = contexts[c].unsafe
        /\ contexts'[c].does = IF contexts[c].does = "none" THEN "none" ELSE "closed"
  BY DEF CloseContext, CloseAll, Shape, Entries, Is
<1>2. SameMaps
  BY DEF CloseContext, CloseAll, SameMaps, MapsNumbered
<1>3. \A c \in ContextId : ~Live(c)' /\ ~Called(c)'
  BY <1>1 DEF Live, Called
<1>4. Shape' /\ MapsNumbered' /\ MarkedUnsafe' /\ Beginnings'
  BY <1>1, <1>2 DEF Shape, MapsNumbered, MarkedUnsafe, Beginnings, SameMaps, Is
<1>5. SharedByWaiting' /\ CallersWait'
  BY <1>3 DEF SharedByWaiting, CallersWait
<1> QED
  BY <1>4, <1>5

LEMMA PoolStepIInv == PoolIInv /\ [PoolNext]_poolVars => PoolIInv'
<1> SUFFICES ASSUME PoolIInv, [PoolNext]_poolVars PROVE PoolIInv'
  OBVIOUS
<1>1. ASSUME NEW c \in ContextId, PoolStep(c) PROVE PoolIInv'
  <2>1. ASSUME NEW async \in BOOLEAN, CloneContext(c, async) PROVE PoolIInv'
    BY <2>1, CloneIInv
  <2>2. ASSUME NEW h \in Host, NEW kept \in BOOLEAN, LookupSession(c, h, kept) PROVE PoolIInv'
    BY <2>2, LookupIInv
  <2>3. CASE MakeAsyncSafe(c)
    BY <2>3, AsyncSafeIInv
  <2>4. CASE EndContext(c)
    BY <2>4, EndIInv
  <2>5. CASE \/ Connect(c) \/ ConnectFails(c) \/ DefferRead(c) \/ DefferWrite(c)
             \/ InitFails(c) \/ StoreSession(c) \/ \E h \in Host : CloseSession(c, h)
    BY <2>5, RequestSteady, SteadyIInv
  <2> QED
    BY <1>1, <2>1, <2>2, <2>3, <2>4, <2>5 DEF PoolStep
<1>2. CASE UNCHANGED poolVars
  <2>1. Steady /\ SameMaps
    BY <1>2 DEF poolVars, Steady, SameMaps, PoolIInv, Shape
  <2> QED
    BY <2>1, SteadyIInv
<1> QED
  BY <1>1, <1>2, NewContextIInv, CloseIInv DEF PoolNext

\* The inductive invariant: a map of sessions is shared only with callers that
\* wait, each of them for one clone.
THEOREM PoolInductive == PoolSpec => []PoolIInv
BY PoolInitIInv, PoolStepIInv, PTL DEF PoolSpec

\* Two goroutines never share a terminal, however deep contexts are cloned, for
\* any number of contexts and hosts, and whatever fails
\* (Clone, MakeAsyncSafe, TerminalSessions).
THEOREM TerminalsAreOwn == PoolSpec => []OwnTerminals
<1>1. PoolIInv => OwnTerminals
  BY DEF PoolIInv, SharedByWaiting, OwnTerminals, Concurrent, Live, Is
<1> QED
  BY <1>1, PoolInductive, PTL

-----------------------------------------------------------------------------
(* AllClosed. The argument: a connection that is open and kept is deferred *)
(* by a context that has not closed, or about to be, or its function was   *)
(* overwritten.                                                            *)

\* Deferred functions, requests and contexts, whatever their numbers.
Deferrable ==
    [closes : {"connection"}, connection : Nat]
       \cup [closes : {"session"}, map : Nat, host : Host \cup {NoEntry}]
RequestState ==
    [host : Host \cup {NoEntry}, connection : Nat, transient : BOOLEAN, copy : Seq(Deferrable)]
PoolContext ==
    [does : {"none", "unsafe", "runs", "waits", "connect", "deferConnection", "putConnection",
             "deferSession", "putSession", "init", "ended", "closed"},
     parent : Nat, async : BOOLEAN, sessions : Nat, unsafe : BOOLEAN, list : Nat,
     request : RequestState]

Closer(n) == [closes |-> "connection", connection |-> n]

PoolTyped ==
    /\ contexts \in [ContextId -> PoolContext]
    /\ connections \in Seq([open : BOOLEAN, kept : BOOLEAN])
    /\ deferLists \in Seq(Seq(Deferrable))

\* Whoever is about to store a list has one.
ListsKnown ==
    \A c \in ContextId :
       /\ contexts[c].list <= Len(deferLists)
       /\ contexts[c].does \in {"putConnection", "putSession"} => contexts[c].list # NoEntry

\* Whoever is about to defer the close of a connection.
Deferring(c, n) ==
    /\ contexts[c].does \in {"deferConnection", "putConnection"}
    /\ contexts[c].request.connection = n

InLists(f) == \E i \in DOMAIN deferLists : f \in ToSet(deferLists[i])

\* A connection that is kept will be closed.
WillClose ==
    \A n \in DOMAIN connections :
       connections[n].open /\ connections[n].kept =>
          \/ Closer(n) \in overwritten
          \/ ~Is(Root, "closed") /\ InLists(Closer(n))
          \/ \E c \in ContextId : Deferring(c, n)

ClosedTogether ==
    Is(Root, "closed") => \A c \in ContextId : contexts[c].does \in {"none", "closed"}

KeptIInv == PoolTyped /\ ListsKnown /\ WillClose /\ ClosedTogether

LEMMA NoContextTyped == NoContext \in PoolContext
<1>1. <<>> \in Seq(Deferrable)
  BY EmptySeq
<1>2. NoRequest \in RequestState
  BY <1>1 DEF NoRequest, RequestState, NoEntry
<1> QED
  BY <1>2 DEF NoContext, PoolContext, NoEntry

LEMMA InitKept == PoolInit => KeptIInv
<1> SUFFICES ASSUME PoolInit PROVE KeptIInv
  OBVIOUS
<1>0. Root \in ContextId
  BY PoolAssumption DEF Root, ContextId
<1>1. PoolTyped
  BY NoContextTyped, EmptySeq DEF PoolInit, PoolTyped
<1>2. \A c \in ContextId : contexts[c].does = "none" /\ contexts[c].list = 0
  BY DEF PoolInit, NoContext, NoEntry
<1>3. Len(deferLists) = 0 /\ DOMAIN connections = {}
  BY EmptySeq DEF PoolInit
<1> QED
  BY <1>0, <1>1, <1>2, <1>3 DEF KeptIInv, ListsKnown, WillClose, ClosedTogether, Is

\* Steps that neither connect nor defer nor close all.
Minor ==
    /\ PoolTyped' /\ UNCHANGED <<deferLists, overwritten>>
    /\ DOMAIN connections' = DOMAIN connections
    /\ \A n \in DOMAIN connections :
          connections'[n].open /\ connections'[n].kept => connections[n].open /\ connections[n].kept
    /\ \A c \in ContextId :
          /\ contexts'[c].list \in {contexts[d].list : d \in ContextId}
          /\ contexts'[c].does # contexts[c].does =>
                /\ contexts[c].does \notin {"deferConnection", "putConnection"}
                /\ contexts'[c].does \notin {"putConnection", "putSession"}
          /\ contexts'[c].does = contexts[c].does =>
                /\ contexts'[c].list = contexts[c].list
                /\ contexts'[c].request.connection = contexts[c].request.connection
    /\ Root \in ContextId /\ ~Is(Root, "closed") /\ ~Is(Root, "closed")'

LEMMA MinorKept == KeptIInv /\ Minor => KeptIInv'
<1> SUFFICES ASSUME KeptIInv, Minor PROVE KeptIInv'
  OBVIOUS
<1>1. PoolTyped' /\ ClosedTogether'
  BY DEF Minor, ClosedTogether
<1>2. ListsKnown'
  BY DEF Minor, KeptIInv, ListsKnown
<1>3. \A c \in ContextId, n \in DOMAIN connections : Deferring(c, n) => Deferring(c, n)'
  BY DEF Minor, Deferring
<1>4. \A f : InLists(f)' <=> InLists(f)
  BY DEF Minor, InLists
<1>5. WillClose'
  BY <1>3, <1>4 DEF Minor, KeptIInv, WillClose
<1> QED
  BY <1>1, <1>2, <1>5 DEF KeptIInv

\* A context that acts is neither new nor closed, and so nothing is closed.
LEMMA RootOpen ==
    ASSUME KeptIInv, NEW c \in ContextId, contexts[c].does \notin {"none", "closed"}
    PROVE  Root \in ContextId /\ ~Is(Root, "closed")
<1>1. Root \in ContextId
  BY PoolAssumption DEF Root, ContextId
<1> QED
  BY <1>1 DEF KeptIInv, ClosedTogether

\* A step that changes one context only.
LEMMA OneChanges ==
    ASSUME KeptIInv, NEW c \in ContextId, NEW r \in PoolContext,
           contexts' = [contexts EXCEPT ![c] = r],
           UNCHANGED <<deferLists, overwritten>>,
           connections' \in Seq([open : BOOLEAN, kept : BOOLEAN]),
           DOMAIN connections' = DOMAIN connections,
           \A n \in DOMAIN connections :
              connections'[n].open /\ connections'[n].kept
                 => connections[n].open /\ connections[n].kept,
           contexts[c].does \notin {"closed", "deferConnection", "putConnection"},
           r.does \notin {"closed", "putConnection", "putSession"},
           r.list = contexts[c].list,
           r.request.connection = contexts[c].request.connection \/ r.does # contexts[c].does,
           ~Is(Root, "closed")
    PROVE  KeptIInv'
<1>0. Root \in ContextId
  BY PoolAssumption DEF Root, ContextId
<1>1. /\ contexts' \in [ContextId -> PoolContext]
      /\ contexts'[c] = r /\ \A d \in ContextId \ {c} : contexts'[d] = contexts[d]
  BY DEF KeptIInv, PoolTyped
<1>2. PoolTyped'
  BY <1>1 DEF KeptIInv, PoolTyped
<1>3. ~Is(Root, "closed")'
  BY <1>0, <1>1 DEF Is
<1>4. \A d \in ContextId :
        /\ contexts'[d].list = contexts[d].list
        /\ contexts'[d].does # contexts[d].does => d = c
        /\ contexts'[d].does = contexts[d].does =>
              contexts'[d].request.connection = contexts[d].request.connection
  BY <1>1
<1>5. Minor
  <2>1. \A d \in ContextId : contexts'[d].list \in {contexts[e].list : e \in ContextId}
    BY <1>4
  <2> QED
    BY <1>0, <1>1, <1>2, <1>3, <1>4, <2>1 DEF Minor
<1> QED
  BY <1>5, MinorKept

LEMMA NewContextKept == KeptIInv /\ NewContext => KeptIInv'
<1> SUFFICES ASSUME KeptIInv, NewContext PROVE KeptIInv'
  OBVIOUS
<1>1. Root \in ContextId
  BY PoolAssumption DEF Root, ContextId
<1> DEFINE r == [contexts[Root] EXCEPT !.does = "runs"]
<1>2. contexts[Root] \in PoolContext /\ contexts[Root].does = "none"
  BY <1>1 DEF KeptIInv, PoolTyped, NewContext, Is
<1>3. /\ r \in PoolContext /\ r.does = "runs" /\ r.list = contexts[Root].list
  BY <1>2 DEF PoolContext
<1>4. contexts' = [contexts EXCEPT ![Root] = r]
  BY <1>1 DEF NewContext, Becomes, KeptIInv, PoolTyped
<1>5. /\ UNCHANGED <<deferLists, overwritten, connections>>
      /\ connections \in Seq([open : BOOLEAN, kept : BOOLEAN])
  BY DEF NewContext, KeptIInv, PoolTyped
<1>6. ~Is(Root, "closed")
  BY <1>2 DEF Is
<1> HIDE DEF r
<1> QED
  BY <1>1, <1>2, <1>3, <1>4, <1>5, <1>6, OneChanges

LEMMA AnswersKept ==
    ASSUME KeptIInv, NEW c \in ContextId, contexts[c].does \in {"connect", "init"}, Answers(c),
           UNCHANGED <<deferLists, overwritten, connections>>
    PROVE  KeptIInv'
<1> DEFINE r == [contexts[c] EXCEPT !.does = "runs", !.request = NoRequest]
<1>1. contexts[c] \in PoolContext
  BY DEF KeptIInv, PoolTyped
<1>2. NoRequest \in RequestState
  BY EmptySeq DEF NoRequest, RequestState, NoEntry
<1>3. r \in PoolContext /\ r.does = "runs" /\ r.list = contexts[c].list
  BY <1>1, <1>2 DEF PoolContext
<1>4. contexts' = [contexts EXCEPT ![c] = r]
  BY DEF Answers, KeptIInv, PoolTyped
<1>5. ~Is(Root, "closed")
  BY RootOpen
<1>6. connections \in Seq([open : BOOLEAN, kept : BOOLEAN])
  BY DEF KeptIInv, PoolTyped
<1> HIDE DEF r
<1> QED
  BY <1>3, <1>4, <1>5, <1>6, OneChanges

LEMMA AsyncSafeKept ==
    ASSUME KeptIInv, NEW c \in ContextId, MakeAsyncSafe(c) PROVE KeptIInv'
<1> DEFINE r == [contexts[c] EXCEPT !.does = "runs",
                                    !.sessions = IF contexts[c].unsafe THEN NoEntry ELSE @]
<1>1. contexts[c] \in PoolContext /\ contexts[c].does = "unsafe"
  BY DEF KeptIInv, PoolTyped, MakeAsyncSafe, Is
<1>3. r \in PoolContext /\ r.does = "runs" /\ r.list = contexts[c].list
  BY <1>1 DEF PoolContext, NoEntry
<1>4. contexts' = [contexts EXCEPT ![c] = r]
  BY DEF MakeAsyncSafe, KeptIInv, PoolTyped
<1>5. ~Is(Root, "closed")
  BY <1>1, RootOpen
<1>6. /\ UNCHANGED <<deferLists, overwritten, connections>>
      /\ connections \in Seq([open : BOOLEAN, kept : BOOLEAN])
  BY DEF MakeAsyncSafe, KeptIInv, PoolTyped
<1> HIDE DEF r
<1> QED
  BY <1>1, <1>3, <1>4, <1>5, <1>6, OneChanges

LEMMA LookupKept ==
    ASSUME KeptIInv, Len(sessionMaps) \in Nat, NEW c \in ContextId, NEW h \in Host, NEW kept \in BOOLEAN,
           LookupSession(c, h, kept)
    PROVE  KeptIInv'
<1> DEFINE held == [contexts[c] EXCEPT !.sessions = MapOf(c),
                                       !.unsafe = @ \/ contexts[c].sessions = NoEntry]
           asks == [held EXCEPT !.does = "connect", !.request.host = h,
                                !.request.transient = ~kept]
<1>1. contexts[c] \in PoolContext /\ contexts[c].does = "runs"
  BY DEF KeptIInv, PoolTyped, LookupSession, Is
<1>2. MapOf(c) \in Nat
  BY <1>1 DEF MapOf, PoolContext
<1>3. /\ held \in PoolContext /\ held.does = "runs" /\ held.list = contexts[c].list
      /\ held.request = contexts[c].request
  BY <1>1, <1>2 DEF PoolContext
<1>4. asks \in PoolContext /\ asks.does = "connect" /\ asks.list = contexts[c].list
  <2> HIDE DEF held
  <2> QED
    BY <1>3 DEF PoolContext, RequestState
<1>5. ~Is(Root, "closed")
  BY <1>1, RootOpen
<1>6. /\ UNCHANGED <<deferLists, overwritten, connections>>
      /\ connections \in Seq([open : BOOLEAN, kept : BOOLEAN])
  BY DEF LookupSession, KeptIInv, PoolTyped
<1>7. contexts' = [contexts EXCEPT ![c] = held] \/ contexts' = [contexts EXCEPT ![c] = asks]
  BY DEF LookupSession
<1> HIDE DEF held, asks
<1> QED
  BY <1>1, <1>3, <1>4, <1>5, <1>6, <1>7, OneChanges

LEMMA CloneKept ==
    ASSUME KeptIInv, NEW c \in ContextId, NEW async \in BOOLEAN, CloneContext(c, async)
    PROVE  KeptIInv'
<1> DEFINE k == CloneOf(c, async)
           r == [contexts[c] EXCEPT !.does = IF async THEN "runs" ELSE "waits"]
<1>1. PICK new \in ContextId :
        /\ Is(new, "none")
        /\ contexts' = [contexts EXCEPT ![new] = k,
                                        ![c].does = IF async THEN "runs" ELSE "waits"]
  BY DEF CloneContext
<1>2. contexts[c] \in PoolContext /\ contexts[c].does = "runs" /\ new # c
  BY <1>1 DEF CloneContext, Is, KeptIInv, PoolTyped
<1>3. k \in PoolContext /\ k.does \in {"unsafe", "runs"} /\ k.list = contexts[c].list
  <2>1. c \in Nat /\ contexts[c].sessions \in Nat /\ contexts[c].unsafe \in BOOLEAN
        /\ contexts[c].list \in Nat
    BY <1>2 DEF PoolContext, ContextId
  <2>2. k = [NoContext EXCEPT !.does = IF async THEN "unsafe" ELSE "runs", !.parent = c,
                              !.async = async, !.sessions = contexts[c].sessions,
                              !.unsafe = contexts[c].unsafe, !.list = contexts[c].list]
    BY DEF CloneOf
  <2> HIDE DEF k
  <2> QED
    BY <2>1, <2>2, NoContextTyped DEF PoolContext
<1>4. r \in PoolContext /\ r.does \in {"waits", "runs"} /\ r.list = contexts[c].list
      /\ r.request = contexts[c].request
  BY <1>2 DEF PoolContext
<1>5. contexts' = [contexts EXCEPT ![new] = k, ![c] = r]
  BY <1>1, <1>2 DEF KeptIInv, PoolTyped
<1>6. Root \in ContextId /\ ~Is(Root, "closed")
  BY <1>2, RootOpen
<1> HIDE DEF k, r
<1>7. /\ contexts' \in [ContextId -> PoolContext]
      /\ contexts'[new] = k /\ contexts'[c] = r
      /\ \A d \in ContextId \ {c, new} : contexts'[d] = contexts[d]
  BY <1>2, <1>3, <1>4, <1>5 DEF KeptIInv, PoolTyped
<1>8. PoolTyped' /\ UNCHANGED <<deferLists, overwritten, connections>>
  BY <1>7 DEF KeptIInv, PoolTyped, CloneContext
<1>9. \A d \in ContextId : contexts'[d].list \in {contexts[e].list : e \in ContextId}
  BY <1>3, <1>4, <1>7
<1>10. \A d \in ContextId :
          /\ contexts'[d].does # contexts[d].does =>
                /\ contexts[d].does \notin {"deferConnection", "putConnection"}
                /\ contexts'[d].does \notin {"putConnection", "putSession"}
          /\ contexts'[d].does = contexts[d].does =>
                /\ contexts'[d].list = contexts[d].list
                /\ contexts'[d].request.connection = contexts[d].request.connection
  BY <1>1, <1>2, <1>3, <1>4, <1>7 DEF Is
<1>11. ~Is(Root, "closed")'
  BY <1>3, <1>4, <1>6, <1>7 DEF Is
<1>12. Minor
  BY <1>6, <1>8, <1>9, <1>10, <1>11 DEF Minor
<1> QED
  BY <1>12, MinorKept

LEMMA EndKept ==
    ASSUME PoolIInv, KeptIInv, NEW c \in ContextId, EndContext(c) PROVE KeptIInv'
<1> DEFINE p == contexts[c].parent
           resumes == ~contexts[c].async /\ p \in ContextId
<1>1. contexts[c] \in PoolContext /\ contexts[c].does = "runs"
  BY DEF KeptIInv, PoolTyped, EndContext, Is
<1>2. resumes => contexts[p].does = "waits" /\ p # c
  BY <1>1 DEF PoolIInv, Called, Live, CallersWait, Is, NoEntry, ContextId
<1>3. contexts' \in [ContextId -> PoolContext] /\ \A d \in ContextId :
        /\ contexts'[d].list = contexts[d].list
        /\ contexts'[d].request = contexts[d].request
        /\ contexts'[d].does = IF d = c THEN "ended"
                               ELSE IF resumes /\ d = p THEN "runs" ELSE contexts[d].does
  <2> DEFINE r == [contexts[c] EXCEPT !.does = "ended"]
             q == [contexts[p] EXCEPT !.does = "runs"]
  <2>1. r \in PoolContext /\ r.does = "ended" /\ r.list = contexts[c].list
        /\ r.request = contexts[c].request
    BY <1>1 DEF PoolContext
  <2>2. CASE resumes
    <3>1. contexts[p] \in PoolContext
      BY <2>2 DEF KeptIInv, PoolTyped
    <3>2. q \in PoolContext /\ q.does = "runs" /\ q.list = contexts[p].list
          /\ q.request = contexts[p].request
      BY <3>1 DEF PoolContext
    <3>3. contexts' = [contexts EXCEPT ![c] = r, ![p] = q]
      BY <1>2, <2>2 DEF EndContext, KeptIInv, PoolTyped
    <3> HIDE DEF r, q
    <3> QED
      BY <1>2, <2>1, <2>2, <3>2, <3>3 DEF KeptIInv, PoolTyped
  <2>3. CASE ~resumes
    <3>1. contexts' = [contexts EXCEPT ![c] = r]
      <4>0. contexts' = [contexts EXCEPT ![c].does = "ended",
                                         ![p].does = IF contexts[c].async THEN @ ELSE "runs"]
        BY DEF EndContext
      <4>1. CASE contexts[c].async
        <5>1. contexts' = [contexts EXCEPT ![c].does = "ended", ![p].does = @]
          BY <4>0, <4>1
        <5>2. CASE p \notin ContextId
          BY <4>0, <5>2 DEF KeptIInv, PoolTyped
        <5>3. CASE p = c
          BY <1>1, <5>1, <5>3 DEF KeptIInv, PoolTyped, PoolContext
        <5>4. CASE p \in ContextId /\ p # c
          <6> DEFINE s == [contexts[p] EXCEPT !.does = @]
          <6>1. contexts[p] \in PoolContext
            BY <5>4 DEF KeptIInv, PoolTyped
          <6>2. s = contexts[p]
            BY <6>1 DEF PoolContext
          <6>3. contexts' = [contexts EXCEPT ![c] = r, ![p] = s]
            BY <5>1, <5>4 DEF KeptIInv, PoolTyped
          <6> HIDE DEF s, r
          <6> QED
            BY <5>4, <6>1, <6>2, <6>3 DEF KeptIInv, PoolTyped
        <5> QED
          BY <5>2, <5>3, <5>4
      <4>2. CASE p \notin ContextId
        BY <4>0, <4>2 DEF KeptIInv, PoolTyped
      <4> QED
        BY <2>3, <4>1, <4>2
    <3> HIDE DEF r
    <3> QED
      BY <2>1, <2>3, <3>1 DEF KeptIInv, PoolTyped
  <2> QED
    BY <2>2, <2>3
<1>4. PoolTyped' /\ UNCHANGED <<deferLists, overwritten, connections>>
  BY <1>3 DEF KeptIInv, PoolTyped, EndContext
<1>5. Root \in ContextId /\ ~Is(Root, "closed")
  BY <1>1, RootOpen
<1> HIDE DEF resumes
<1>6. ~Is(Root, "closed")'
  BY <1>3, <1>5 DEF Is
<1>7. Minor
  <2>1. \A d \in ContextId : contexts'[d].list \in {contexts[e].list : e \in ContextId}
    BY <1>3
  <2> QED
    BY <1>1, <1>2, <1>3, <1>4, <1>5, <1>6, <2>1 DEF Minor
<1> QED
  BY <1>7, MinorKept

LEMMA CloseSessionKept ==
    ASSUME KeptIInv, NEW c \in ContextId, NEW h \in Host, CloseSession(c, h) PROVE KeptIInv'
<1> DEFINE n == sessionMaps[contexts[c].sessions][h]
<1>1. contexts[c] \in PoolContext /\ contexts[c].does = "runs"
  BY DEF KeptIInv, PoolTyped, CloseSession, Is
<1>2. connections \in Seq([open : BOOLEAN, kept : BOOLEAN])
  BY DEF KeptIInv, PoolTyped
<1>3. connections' = [connections EXCEPT ![n].open = FALSE]
  BY DEF CloseSession
<1> HIDE DEF n
<1>4. /\ DOMAIN connections' = DOMAIN connections
      /\ \A k \in DOMAIN connections :
            /\ connections'[k] \in [open : BOOLEAN, kept : BOOLEAN]
            /\ connections'[k].open => connections[k].open
            /\ connections'[k].kept = connections[k].kept
  <2>1. ASSUME NEW k \in DOMAIN connections
        PROVE  /\ connections'[k] \in [open : BOOLEAN, kept : BOOLEAN]
               /\ connections'[k].open => connections[k].open
               /\ connections'[k].kept = connections[k].kept
    <3>1. connections[k] \in [open : BOOLEAN, kept : BOOLEAN]
      BY <1>2, LenProperties, ElementOfSeq
    <3>2. CASE k = n
      <4>1. connections'[k] = [connections[k] EXCEPT !.open = FALSE]
        BY <1>3, <3>2
      <4> QED
        BY <3>1, <4>1
    <3>3. CASE k # n
      BY <1>3, <3>1, <3>3
    <3> QED
      BY <3>2, <3>3
  <2> QED
    BY <1>3, <2>1
<1>5. connections' \in Seq([open : BOOLEAN, kept : BOOLEAN])
  <2>1. Len(connections) \in Nat /\ DOMAIN connections = 1 .. Len(connections)
    BY <1>2, LenProperties
  <2>2. connections' = [k \in 1 .. Len(connections) |-> connections'[k]]
    BY <1>3, <1>4, <2>1
  <2>3. connections' \in [1 .. Len(connections) -> [open : BOOLEAN, kept : BOOLEAN]]
    BY <1>4, <2>1, <2>2
  <2> QED
    BY <2>1, <2>3, SeqDef
<1>6. contexts' = [contexts EXCEPT ![c] = contexts[c]]
  BY DEF CloseSession, KeptIInv, PoolTyped
<1>7. UNCHANGED <<deferLists, overwritten>> /\ ~Is(Root, "closed")
  BY <1>1, RootOpen DEF CloseSession
<1> QED
  BY <1>1, <1>4, <1>5, <1>6, <1>7, OneChanges

LEMMA ConnectKept ==
    ASSUME KeptIInv, NEW c \in ContextId, Connect(c) PROVE KeptIInv'
<1> DEFINE n == Len(connections) + 1
           kept == ~contexts[c].request.transient
           r == [contexts[c] EXCEPT !.request.connection = n,
                                    !.does = IF contexts[c].request.transient THEN "init"
                                             ELSE "deferConnection"]
<1>1. contexts[c] \in PoolContext /\ contexts[c].does = "connect"
  BY DEF KeptIInv, PoolTyped, Connect, Is
<1>2. /\ connections \in Seq([open : BOOLEAN, kept : BOOLEAN])
      /\ Len(connections) \in Nat /\ DOMAIN connections = 1 .. Len(connections)
  BY LenProperties DEF KeptIInv, PoolTyped
<1>3. [open |-> TRUE, kept |-> kept] \in [open : BOOLEAN, kept : BOOLEAN]
  BY <1>1 DEF PoolContext, RequestState
<1>4. /\ connections' \in Seq([open : BOOLEAN, kept : BOOLEAN])
      /\ DOMAIN connections' = 1 .. n
      /\ \A m \in DOMAIN connections : connections'[m] = connections[m]
      /\ connections'[n] = [open |-> TRUE, kept |-> kept]
  <2>1. connections' = Append(connections, [open |-> TRUE, kept |-> kept])
    BY DEF Connect, Asked
  <2> HIDE DEF kept
  <2> QED
    BY <1>2, <1>3, <2>1, AppendProperties
<1>5. /\ r \in PoolContext /\ r.list = contexts[c].list /\ r.request.connection = n
      /\ r.does = IF kept THEN "deferConnection" ELSE "init"
  <2> DEFINE request == [contexts[c].request EXCEPT !.connection = n]
             does == IF contexts[c].request.transient THEN "init" ELSE "deferConnection"
  <2>1. contexts[c].request \in RequestState
    BY <1>1 DEF PoolContext
  <2>2. request \in RequestState /\ request.connection = n
    BY <1>2, <2>1 DEF RequestState
  <2>3. r = [contexts[c] EXCEPT !.request = request, !.does = does]
    BY <1>1 DEF PoolContext
  <2>4. does = (IF kept THEN "deferConnection" ELSE "init")
    OBVIOUS
  <2> HIDE DEF r, request, does, kept
  <2>5. does \in {"init", "deferConnection"}
    BY <2>4
  <2> QED
    BY <1>1, <2>2, <2>3, <2>4, <2>5 DEF PoolContext
<1>6. contexts' = [contexts EXCEPT ![c] = r]
  BY DEF Connect, Asked, KeptIInv, PoolTyped
<1> HIDE DEF r
<1>7. /\ contexts' \in [ContextId -> PoolContext]
      /\ contexts'[c] = r /\ \A d \in ContextId \ {c} : contexts'[d] = contexts[d]
  BY <1>5, <1>6 DEF KeptIInv, PoolTyped
<1>8. UNCHANGED <<deferLists, overwritten>>
  BY DEF Connect
<1>9. PoolTyped'
  BY <1>4, <1>7, <1>8 DEF KeptIInv, PoolTyped
<1>10. Root \in ContextId /\ ~Is(Root, "closed") /\ ~Is(Root, "closed")'
  BY <1>1, <1>5, <1>7, RootOpen DEF Is
<1>11. ListsKnown'
  BY <1>5, <1>7, <1>8 DEF KeptIInv, ListsKnown
<1>12. ASSUME NEW m \in DOMAIN connections', connections'[m].open, connections'[m].kept
       PROVE  \/ Closer(m) \in overwritten'
              \/ InLists(Closer(m))'
              \/ \E d \in ContextId : Deferring(d, m)'
  <2>1. CASE m = n
    <3>1. kept
      BY <1>4, <1>12, <2>1
    <3> QED
      BY <1>5, <1>7, <2>1, <3>1 DEF Deferring
  <2>2. CASE m # n
    <3>1. m \in DOMAIN connections /\ connections'[m] = connections[m]
      BY <1>2, <1>4, <2>2
    <3>2. \/ Closer(m) \in overwritten
          \/ InLists(Closer(m))
          \/ \E d \in ContextId : Deferring(d, m)
      BY <1>12, <3>1 DEF KeptIInv, WillClose
    <3>3. \A d \in ContextId : Deferring(d, m) => Deferring(d, m)'
      BY <1>1, <1>7 DEF Deferring
    <3>4. InLists(Closer(m)) => InLists(Closer(m))'
      BY <1>8 DEF InLists, Closer
    <3> QED
      BY <1>8, <3>2, <3>3, <3>4 DEF Closer
  <2> QED
    BY <2>1, <2>2
<1>13. WillClose'
  BY <1>10, <1>12 DEF WillClose, Closer
<1> QED
  BY <1>9, <1>10, <1>11, <1>13 DEF KeptIInv, ClosedTogether

LEMMA DefferReadKept ==
    ASSUME KeptIInv, NEW c \in ContextId, DefferRead(c) PROVE KeptIInv'
<1> DEFINE next == IF contexts[c].does = "deferConnection" THEN "putConnection" ELSE "putSession"
           made == [contexts[c] EXCEPT !.list = Len(deferLists) + 1, !.does = next]
           read == [contexts[c] EXCEPT !.request.copy = deferLists[contexts[c].list],
                                       !.does = next]
<1>1. contexts[c] \in PoolContext /\ contexts[c].does \in {"deferConnection", "deferSession"}
  BY DEF KeptIInv, PoolTyped, DefferRead
<1>2. deferLists \in Seq(Seq(Deferrable)) /\ Len(deferLists) \in Nat
      /\ DOMAIN deferLists = 1 .. Len(deferLists)
  BY LenProperties DEF KeptIInv, PoolTyped
<1>3. Root \in ContextId /\ ~Is(Root, "closed")
  BY <1>1, RootOpen
<1>4. UNCHANGED <<connections, overwritten>>
  BY DEF DefferRead
<1> DEFINE Good(r) ==
             /\ contexts' = [contexts EXCEPT ![c] = r]
             /\ r.does = next /\ r.request.connection = contexts[c].request.connection
             /\ deferLists' \in Seq(Seq(Deferrable)) /\ Len(deferLists') \in Nat
             /\ Len(deferLists) <= Len(deferLists') /\ r.list # NoEntry
             /\ r.list <= Len(deferLists')
             /\ \A i \in DOMAIN deferLists :
                   i \in DOMAIN deferLists' /\ deferLists'[i] = deferLists[i]
<1>5. \E r \in PoolContext : Good(r)
  <2>1. CASE contexts[c].list = NoEntry
    <3>1. deferLists' = Append(deferLists, <<>>)
      BY <2>1 DEF DefferRead
    <3>2. /\ deferLists' \in Seq(Seq(Deferrable)) /\ Len(deferLists') = Len(deferLists) + 1
          /\ \A i \in DOMAIN deferLists :
                i \in DOMAIN deferLists' /\ deferLists'[i] = deferLists[i]
      BY <1>2, <3>1, EmptySeq, AppendProperties
    <3>3. made \in PoolContext /\ made.does = next /\ made.list = Len(deferLists) + 1
          /\ made.request = contexts[c].request
      <4>1. next \in {"putConnection", "putSession"}
        OBVIOUS
      <4> DEFINE number == Len(deferLists) + 1
      <4>2. number \in Nat
        BY <1>2
      <4>3. made = [contexts[c] EXCEPT !.list = number, !.does = next]
        OBVIOUS
      <4> HIDE DEF next, number, made
      <4>4. made \in PoolContext /\ made.does = next /\ made.list = number
            /\ made.request = contexts[c].request
        BY <1>1, <4>1, <4>2, <4>3 DEF PoolContext
      <4> QED
        BY <4>4 DEF number
    <3>4. contexts' = [contexts EXCEPT ![c] = made]
      BY <2>1 DEF DefferRead, Is, KeptIInv, PoolTyped
    <3> HIDE DEF made, next
    <3>5. Good(made)
      BY <1>2, <3>2, <3>3, <3>4 DEF NoEntry
    <3> HIDE DEF Good
    <3> QED
      BY <3>3, <3>5
  <2>2. CASE contexts[c].list # NoEntry
    <3>1. contexts[c].list \in DOMAIN deferLists
      BY <1>1, <1>2, <2>2 DEF PoolContext, KeptIInv, ListsKnown, NoEntry
    <3>2. deferLists[contexts[c].list] \in Seq(Deferrable)
      BY <1>2, <3>1, ElementOfSeq
    <3> DEFINE request == [contexts[c].request EXCEPT !.copy = deferLists[contexts[c].list]]
    <3>3. request \in RequestState /\ request.connection = contexts[c].request.connection
      BY <1>1, <3>2 DEF PoolContext, RequestState
    <3>4. read = [contexts[c] EXCEPT !.request = request, !.does = next]
      BY <1>1 DEF PoolContext
    <3>5. contexts' = [contexts EXCEPT ![c] = read] /\ deferLists' = deferLists
      BY <2>2 DEF DefferRead, Is, KeptIInv, PoolTyped
    <3> HIDE DEF read, request
    <3>6. read \in PoolContext /\ read.does = next /\ read.list = contexts[c].list
          /\ read.request = request
      BY <1>1, <3>3, <3>4 DEF PoolContext
    <3> HIDE DEF next
    <3>7. Good(read)
      BY <1>2, <2>2, <3>1, <3>3, <3>5, <3>6
    <3> HIDE DEF Good
    <3> QED
      BY <3>6, <3>7
  <2> QED
    BY <2>1, <2>2
<1>6. PICK r \in PoolContext : Good(r)
  BY <1>5
<1>7. /\ contexts' \in [ContextId -> PoolContext]
      /\ contexts'[c] = r /\ \A d \in ContextId \ {c} : contexts'[d] = contexts[d]
  BY <1>6 DEF KeptIInv, PoolTyped
<1>8. PoolTyped'
  BY <1>4, <1>6, <1>7 DEF KeptIInv, PoolTyped
<1>9. ListsKnown'
  <2>1. \A d \in ContextId : contexts[d].list \in Nat
    BY DEF KeptIInv, PoolTyped, PoolContext
  <2> QED
    BY <1>2, <1>6, <1>7, <2>1 DEF KeptIInv, ListsKnown
<1>10. ~Is(Root, "closed")'
  BY <1>3, <1>6, <1>7 DEF Is
<1>11. WillClose'
  <2>2. \A d \in ContextId, n \in DOMAIN connections : Deferring(d, n) => Deferring(d, n)'
    BY <1>1, <1>6, <1>7 DEF Deferring
  <2>3. \A f : InLists(f) => InLists(f)'
    BY <1>6 DEF InLists
  <2> QED
    BY <1>4, <1>10, <2>2, <2>3 DEF KeptIInv, WillClose
<1> QED
  BY <1>8, <1>9, <1>10, <1>11 DEF KeptIInv, ClosedTogether

LEMMA DefferWriteKept ==
    ASSUME KeptIInv, NEW c \in ContextId, DefferWrite(c) PROVE KeptIInv'
<1> DEFINE list == contexts[c].list
           new == Append(contexts[c].request.copy, Deferred(c))
           next == IF contexts[c].does = "putConnection" THEN "deferSession" ELSE "init"
           r == [contexts[c] EXCEPT !.request.copy = <<>>, !.does = next]
<1>1. contexts[c] \in PoolContext /\ contexts[c].does \in {"putConnection", "putSession"}
      /\ contexts[c].request \in RequestState
  BY DEF KeptIInv, PoolTyped, DefferWrite, PoolContext
<1>2. deferLists \in Seq(Seq(Deferrable)) /\ Len(deferLists) \in Nat
      /\ DOMAIN deferLists = 1 .. Len(deferLists)
  BY LenProperties DEF KeptIInv, PoolTyped
<1>3. Root \in ContextId /\ ~Is(Root, "closed")
  BY <1>1, RootOpen
<1>4. list \in DOMAIN deferLists
  BY <1>1, <1>2 DEF PoolContext, KeptIInv, ListsKnown, NoEntry
<1>5. /\ Deferred(c) \in Deferrable
      /\ contexts[c].does = "putConnection" => Deferred(c) = Closer(contexts[c].request.connection)
  BY <1>1 DEF Deferred, Deferrable, Closer, Is, Asked, PoolContext, RequestState
<1>6. contexts[c].request.copy \in Seq(Deferrable)
  BY <1>1 DEF RequestState
<1>7. new \in Seq(Deferrable) /\ Deferred(c) \in ToSet(new)
  <2>1. /\ new \in Seq(Deferrable) /\ Len(new) = Len(contexts[c].request.copy) + 1
        /\ new[Len(contexts[c].request.copy) + 1] = Deferred(c)
    BY <1>5, <1>6, AppendProperties
  <2>2. Len(contexts[c].request.copy) \in Nat /\ DOMAIN new = 1 .. Len(new)
    BY <1>6, <2>1, LenProperties
  <2> HIDE DEF new
  <2> QED
    BY <2>1, <2>2 DEF ToSet
<1>8. /\ deferLists' = [deferLists EXCEPT ![list] = new]
      /\ overwritten' = overwritten \cup (ToSet(deferLists[list]) \ ToSet(new))
      /\ connections' = connections
  BY DEF DefferWrite, Asked
<1>9. /\ r \in PoolContext /\ r.does = next /\ r.list = list
  <2> DEFINE request == [contexts[c].request EXCEPT !.copy = <<>>]
  <2>1. request \in RequestState
    BY <1>1, EmptySeq DEF RequestState
  <2>2. r = [contexts[c] EXCEPT !.request = request, !.does = next]
    BY <1>1 DEF PoolContext
  <2> HIDE DEF r, request
  <2> QED
    BY <1>1, <2>1, <2>2 DEF PoolContext
<1>10. contexts' = [contexts EXCEPT ![c] = r]
  BY DEF DefferWrite, Is, KeptIInv, PoolTyped
<1> HIDE DEF r, new, list
<1>11. /\ contexts' \in [ContextId -> PoolContext]
       /\ contexts'[c] = r /\ \A d \in ContextId \ {c} : contexts'[d] = contexts[d]
  BY <1>9, <1>10 DEF KeptIInv, PoolTyped
<1>12. /\ deferLists' \in Seq(Seq(Deferrable)) /\ Len(deferLists') = Len(deferLists)
       /\ DOMAIN deferLists' = DOMAIN deferLists /\ deferLists'[list] = new
       /\ \A i \in DOMAIN deferLists \ {list} : deferLists'[i] = deferLists[i]
  BY <1>2, <1>4, <1>7, <1>8, ExceptSeq
<1>13. PoolTyped'
  BY <1>8, <1>11, <1>12 DEF KeptIInv, PoolTyped
<1>14. ListsKnown'
  <2>1. contexts'[c].does \notin {"putConnection", "putSession"}
    BY <1>9, <1>11
  <2>2. contexts'[c].list = contexts[c].list
    BY <1>9, <1>11 DEF list
  <2> QED
    BY <1>11, <1>12, <2>1, <2>2 DEF KeptIInv, ListsKnown
<1>15. ~Is(Root, "closed")'
  BY <1>3, <1>9, <1>11 DEF Is
<1>16. \A f : InLists(f) => InLists(f)' \/ f \in overwritten'
  BY <1>8, <1>12 DEF InLists
<1>17. ASSUME NEW n, NEW d \in ContextId, Deferring(d, n)
       PROVE  Deferring(d, n)' \/ InLists(Closer(n))'
  <2>1. CASE d = c
    BY <1>1, <1>4, <1>5, <1>7, <1>12, <1>17, <2>1 DEF Deferring, InLists, Closer
  <2>2. CASE d # c
    BY <1>11, <1>17, <2>2 DEF Deferring
  <2> QED
    BY <2>1, <2>2
<1>18. WillClose'
  <2>1. overwritten \subseteq overwritten'
    BY <1>8
  <2> QED
    BY <1>8, <1>15, <1>16, <1>17, <2>1 DEF KeptIInv, WillClose, Closer
<1> QED
  BY <1>13, <1>14, <1>15, <1>18 DEF KeptIInv, ClosedTogether

LEMMA CloseKept == KeptIInv /\ CloseContext => KeptIInv'
<1> SUFFICES ASSUME KeptIInv, CloseContext PROVE KeptIInv'
  OBVIOUS
<1>1. /\ contexts \in [ContextId -> PoolContext] /\ connections \in Seq([open : BOOLEAN, kept : BOOLEAN])
      /\ Len(connections) \in Nat /\ DOMAIN connections = 1 .. Len(connections)
  BY LenProperties DEF KeptIInv, PoolTyped
<1>2. contexts' \in [ContextId -> PoolContext] /\ \A c \in ContextId :
        /\ contexts'[c].list = contexts[c].list
        /\ contexts'[c].does \in {"none", "closed"}
  <2>1. ASSUME NEW c \in ContextId
        PROVE  LET r == IF Is(c, "none") THEN contexts[c]
                        ELSE [contexts[c] EXCEPT !.does = "closed"]
               IN  r \in PoolContext /\ r.list = contexts[c].list /\ r.does \in {"none", "closed"}
    <3>1. contexts[c] \in PoolContext
      BY <1>1
    <3> QED
      BY <3>1 DEF PoolContext, Is
  <2>2. contexts' = [c \in ContextId |-> IF Is(c, "none") THEN contexts[c]
                                         ELSE [contexts[c] EXCEPT !.does = "closed"]]
    BY DEF CloseContext, CloseAll
  <2> QED
    BY <2>1, <2>2
<1>3. connections' \in Seq([open : BOOLEAN, kept : BOOLEAN]) /\ \A n \in DOMAIN connections :
        /\ connections'[n].open => connections[n].open /\ n \notin Closing(DOMAIN deferLists)
        /\ connections'[n].kept = connections[n].kept
  <2> DEFINE closed(n) == [connections[n] EXCEPT !.open = @ /\ n \notin Closing(DOMAIN deferLists)]
  <2>1. connections' = [n \in DOMAIN connections |-> closed(n)]
    BY DEF CloseContext, CloseAll
  <2>2. ASSUME NEW n \in DOMAIN connections
        PROVE  /\ closed(n) \in [open : BOOLEAN, kept : BOOLEAN]
               /\ closed(n).open => connections[n].open /\ n \notin Closing(DOMAIN deferLists)
               /\ closed(n).kept = connections[n].kept
    <3>1. connections[n] \in [open : BOOLEAN, kept : BOOLEAN]
      BY <1>1, ElementOfSeq
    <3> QED
      BY <3>1
  <2> HIDE DEF closed
  <2>3. connections' \in Seq([open : BOOLEAN, kept : BOOLEAN])
    BY <1>1, <2>1, <2>2, IsASeq
  <2> QED
    BY <2>1, <2>2, <2>3
<1>4. DOMAIN connections' = DOMAIN connections /\ UNCHANGED <<deferLists, overwritten>>
  BY DEF CloseContext, CloseAll
<1>5. PoolTyped' /\ ListsKnown'
  BY <1>2, <1>3, <1>4 DEF KeptIInv, PoolTyped, ListsKnown
<1>6. \A c \in ContextId : \A n : ~Deferring(c, n)
  <2>1. \A c \in ContextId : contexts[c].does \in {"runs", "none", "ended"}
    BY DEF CloseContext, Closable, Is
  <2> QED
    BY <2>1 DEF Deferring
<1>7. \A n : InLists(Closer(n)) => n \in Closing(DOMAIN deferLists)
  BY DEF InLists, Closing, DeferredIn, Closer
<1>8. WillClose'
  BY <1>3, <1>4, <1>6, <1>7 DEF KeptIInv, WillClose, Closer
<1> QED
  BY <1>2, <1>5, <1>8 DEF KeptIInv, ClosedTogether

LEMMA NextKept == PoolIInv /\ KeptIInv /\ [PoolNext]_poolVars => KeptIInv'
<1> SUFFICES ASSUME PoolIInv, KeptIInv, [PoolNext]_poolVars PROVE KeptIInv'
  OBVIOUS
<1>1. ASSUME NEW c \in ContextId, PoolStep(c) PROVE KeptIInv'
  <2>1. ASSUME NEW async \in BOOLEAN, CloneContext(c, async) PROVE KeptIInv'
    BY <2>1, CloneKept
  <2>2. ASSUME NEW h \in Host, NEW kept \in BOOLEAN, LookupSession(c, h, kept) PROVE KeptIInv'
    BY <2>2, LookupKept DEF PoolIInv, MapsNumbered
  <2>3. ASSUME NEW h \in Host, CloseSession(c, h) PROVE KeptIInv'
    BY <2>3, CloseSessionKept
  <2>4. CASE ConnectFails(c) \/ InitFails(c) \/ StoreSession(c)
    BY <2>4, AnswersKept DEF ConnectFails, InitFails, StoreSession, Is
  <2> QED
    BY <1>1, <2>1, <2>2, <2>3, <2>4, AsyncSafeKept, EndKept, ConnectKept, DefferReadKept,
       DefferWriteKept DEF PoolStep
<1>2. CASE UNCHANGED poolVars
  BY <1>2 DEF poolVars, KeptIInv, PoolTyped, ListsKnown, WillClose, ClosedTogether, Is, InLists,
              Deferring
<1> QED
  BY <1>1, <1>2, NewContextKept, CloseKept DEF PoolNext

\* The end of the run closes every connection that it opened to keep, for any
\* number of contexts, hosts and requests, but for functions that two goroutines
\* deferred at once (Deffer, openSession, Close).
THEOREM AllClosedHolds == PoolSpec => []AllClosed
<1>1. KeptIInv => AllClosed
  <2> SUFFICES ASSUME KeptIInv, Is(Root, "closed") PROVE AllClosed
    BY DEF AllClosed
  <2>1. \A c \in ContextId : \A n : ~Deferring(c, n)
    BY DEF KeptIInv, ClosedTogether, Deferring
  <2> QED
    BY <2>1 DEF KeptIInv, WillClose, AllClosed, Closer
<1>2. PoolSpec => []KeptIInv
  BY PoolInductive, InitKept, NextKept, PTL DEF PoolSpec
<1> QED
  BY <1>1, <1>2, PTL

-----------------------------------------------------------------------------
(* The types of SessionPool: its contexts make one map of sessions and one *)
(* list of deferred functions each, at most.                               *)

\* A context in its bounds: one that asks for a session has a map and a host.
Asking == {"connect", "deferConnection", "putConnection", "deferSession", "putSession", "init"}

Bounded(r) ==
    /\ r.parent \in 0 .. MaxContexts
    /\ r.request.connection \in 0 .. MaxConnections
    /\ r.request.copy \in Seq(Function)
    /\ r.does \in Asking => r.sessions # NoEntry /\ r.request.host \in Host
    /\ r.does \in {"deferConnection", "putConnection"} => r.request.connection # NoEntry
    /\ r.does = "none" => r.sessions = NoEntry /\ r.list = NoEntry

\* Whoever has a map of sessions or a list of deferred functions: a context makes
\* one of each at most.
Mapped == {c \in ContextId : contexts[c].sessions # NoEntry /\ contexts[c].does # "unsafe"}
Deferrers == {c \in ContextId : contexts[c].list # NoEntry}

ContextsBounded == \A c \in ContextId : Bounded(contexts[c])

DataBounded ==
    /\ sessionMaps \in Seq([Host -> 0 .. MaxConnections])
    /\ Len(sessionMaps) <= Cardinality(Mapped)
    /\ deferLists \in Seq(Seq(Function))
    /\ Len(deferLists) <= Cardinality(Deferrers)
    /\ Len(connections) <= MaxConnections
    /\ overwritten \subseteq Function

PoolBounded == ContextsBounded /\ DataBounded

\* No map and no list is given up.
HoldersKept == Mapped \subseteq Mapped' /\ Deferrers \subseteq Deferrers'

LEMMA HoldersCounted ==
    ASSUME NEW S \in SUBSET ContextId, NEW T \in SUBSET ContextId, S \subseteq T
    PROVE  /\ Cardinality(S) \in Nat /\ Cardinality(T) \in Nat
           /\ Cardinality(S) <= Cardinality(T)
           /\ S # T => Cardinality(S) + 1 <= Cardinality(T)
           /\ Cardinality(T) <= MaxContexts
<1>0. MaxContexts \in Nat \ {0}
  BY PoolAssumption
<1>1. IsFiniteSet(ContextId) /\ Cardinality(ContextId) = MaxContexts
  BY <1>0, FS_Interval DEF ContextId
<1>2. IsFiniteSet(T) /\ Cardinality(T) <= MaxContexts
  BY <1>1, FS_Subset
<1>3. IsFiniteSet(S) /\ Cardinality(S) <= Cardinality(T) /\ (Cardinality(T) = Cardinality(S) => T = S)
  BY <1>2, FS_Subset
<1>4. Cardinality(S) \in Nat /\ Cardinality(T) \in Nat
  BY <1>2, <1>3, FS_CardinalityType
<1> QED
  BY <1>2, <1>3, <1>4

LEMMA InitBounded == PoolInit => PoolBounded
<1> SUFFICES ASSUME PoolInit PROVE PoolBounded
  OBVIOUS
<1>1. Bounded(NoContext)
  <2>1. <<>> \in Seq(Function)
    BY EmptySeq
  <2>2. /\ NoContext.parent = 0 /\ NoContext.request.connection = 0
        /\ NoContext.request.copy = <<>> /\ NoContext.does = "none"
        /\ NoContext.sessions = NoEntry /\ NoContext.list = NoEntry
    BY DEF NoContext, NoRequest, NoEntry
  <2>3. "none" \notin Asking /\ "none" \notin {"deferConnection", "putConnection"}
    BY DEF Asking
  <2> QED
    BY <2>1, <2>2, <2>3, PoolAssumption DEF Bounded
<1>2. ContextsBounded
  <2>1. \A c \in ContextId : contexts[c] = NoContext
    BY DEF PoolInit
  <2> QED
    BY <1>1, <2>1 DEF ContextsBounded
<1>3. sessionMaps = <<>> /\ deferLists = <<>> /\ connections = <<>> /\ overwritten = {}
  BY DEF PoolInit
<1>4. /\ <<>> \in Seq([Host -> 0 .. MaxConnections]) /\ <<>> \in Seq(Seq(Function))
      /\ Len(<<>>) = 0
  BY EmptySeq
<1>5. Cardinality(Mapped) \in Nat /\ Cardinality(Deferrers) \in Nat
  BY HoldersCounted DEF Mapped, Deferrers
<1>6. DataBounded
  BY <1>3, <1>4, <1>5, PoolAssumption DEF DataBounded
<1> QED
  BY <1>2, <1>6 DEF PoolBounded

LEMMA HoldersGrow ==
    ASSUME HoldersKept
    PROVE  /\ Cardinality(Mapped) \in Nat /\ Cardinality(Mapped') \in Nat
           /\ Cardinality(Mapped) <= Cardinality(Mapped')
           /\ Mapped # Mapped' => Cardinality(Mapped) + 1 <= Cardinality(Mapped')
           /\ Cardinality(Deferrers) \in Nat /\ Cardinality(Deferrers') \in Nat
           /\ Cardinality(Deferrers) <= Cardinality(Deferrers')
           /\ Deferrers # Deferrers' => Cardinality(Deferrers) + 1 <= Cardinality(Deferrers')
<1>1. /\ Mapped \in SUBSET ContextId /\ Mapped' \in SUBSET ContextId
      /\ Deferrers \in SUBSET ContextId /\ Deferrers' \in SUBSET ContextId
  BY DEF Mapped, Deferrers
<1> QED
  BY <1>1, HoldersCounted DEF HoldersKept

\* Steps that change contexts only, or nothing that is counted.
LEMMA DataKept ==
    ASSUME DataBounded, HoldersKept, UNCHANGED <<sessionMaps, deferLists, overwritten>>,
           Len(connections') = Len(connections)
    PROVE  DataBounded'
<1>1. Len(sessionMaps) \in Nat /\ Len(deferLists) \in Nat
  BY LenProperties DEF DataBounded
<1> QED
  BY <1>1, HoldersGrow DEF DataBounded

\* A step of one context, whose fields are known.
LEMMA OneBounded ==
    ASSUME ContextsBounded, KeptIInv, NEW c \in ContextId, NEW r, Bounded(r),
           contexts' = [contexts EXCEPT ![c] = r],
           c \in Mapped => r.sessions # NoEntry /\ r.does # "unsafe",
           c \in Deferrers => r.list # NoEntry
    PROVE  ContextsBounded' /\ HoldersKept
<1>1. contexts'[c] = r /\ \A d \in ContextId \ {c} : contexts'[d] = contexts[d]
  BY DEF KeptIInv, PoolTyped
<1>2. ContextsBounded'
  BY <1>1 DEF ContextsBounded, Bounded
<1>3. HoldersKept
  BY <1>1 DEF HoldersKept, Mapped, Deferrers
<1> QED
  BY <1>2, <1>3

LEMMA SubsetsOfContexts ==
    /\ Cardinality(Mapped) \in Nat /\ Cardinality(Deferrers) \in Nat
    /\ Cardinality(Mapped) <= MaxContexts /\ Cardinality(Deferrers) <= MaxContexts
BY HoldersCounted DEF Mapped, Deferrers

LEMMA NewContextBounded == KeptIInv /\ PoolBounded /\ NewContext => PoolBounded'
<1> SUFFICES ASSUME KeptIInv, PoolBounded, NewContext PROVE PoolBounded'
  OBVIOUS
<1>1. Root \in ContextId
  BY PoolAssumption DEF Root, ContextId
<1>2. PICK s \in PoolContext : s = contexts[Root]
  BY <1>1 DEF KeptIInv, PoolTyped
<1>3. PICK r : r = [s EXCEPT !.does = "runs"]
  OBVIOUS
<1>4. /\ r.parent = s.parent /\ r.request = s.request /\ r.sessions = s.sessions
      /\ r.list = s.list /\ r.does = "runs"
  BY <1>3 DEF PoolContext
<1>5. contexts' = [contexts EXCEPT ![Root] = r]
  BY <1>1, <1>2, <1>3 DEF NewContext, Becomes, KeptIInv, PoolTyped
<1>6. Bounded(s)
  BY <1>1, <1>2 DEF PoolBounded, ContextsBounded
<1>7. Bounded(r)
  BY <1>4, <1>6 DEF Bounded, Asking
<1>8. /\ Root \in Mapped => r.sessions # NoEntry
      /\ Root \in Deferrers => r.list # NoEntry
  BY <1>2, <1>4 DEF Mapped, Deferrers
<1>9. ContextsBounded' /\ HoldersKept
  BY <1>1, <1>4, <1>5, <1>7, <1>8, OneBounded DEF PoolBounded
<1>10. DataBounded'
  BY <1>9, DataKept DEF PoolBounded, NewContext
<1> QED
  BY <1>9, <1>10 DEF PoolBounded

LEMMA AnswersBounded ==
    ASSUME KeptIInv, ContextsBounded, NEW c \in ContextId, contexts[c].does \in {"connect", "init"},
           Answers(c)
    PROVE  ContextsBounded' /\ HoldersKept
<1>2. PICK s \in PoolContext : s = contexts[c]
  BY DEF KeptIInv, PoolTyped
<1>3. PICK r : r = [s EXCEPT !.does = "runs", !.request = NoRequest]
  OBVIOUS
<1>4. /\ r.parent = s.parent /\ r.request = NoRequest /\ r.sessions = s.sessions
      /\ r.list = s.list /\ r.does = "runs"
  BY <1>3 DEF PoolContext
<1>5. contexts' = [contexts EXCEPT ![c] = r]
  BY <1>2, <1>3 DEF Answers, KeptIInv, PoolTyped
<1>6. Bounded(s)
  BY <1>2 DEF ContextsBounded
<1>7. Bounded(r)
  <2>1. NoRequest.connection = 0 /\ NoRequest.copy = <<>> /\ <<>> \in Seq(Function)
    BY EmptySeq DEF NoRequest, NoEntry
  <2> QED
    BY <1>4, <1>6, <2>1, PoolAssumption DEF Bounded, Asking
<1>8. /\ c \in Mapped => r.sessions # NoEntry
      /\ c \in Deferrers => r.list # NoEntry
  BY <1>2, <1>4 DEF Mapped, Deferrers
<1> QED
  BY <1>4, <1>5, <1>7, <1>8, OneBounded

LEMMA AsyncSafeBounded ==
    ASSUME KeptIInv, PoolBounded, NEW c \in ContextId, MakeAsyncSafe(c) PROVE PoolBounded'
<1>2. PICK s \in PoolContext : s = contexts[c]
  BY DEF KeptIInv, PoolTyped
<1>3. PICK r : r = [s EXCEPT !.does = "runs", !.sessions = IF s.unsafe THEN NoEntry ELSE @]
  OBVIOUS
<1>4. /\ r.parent = s.parent /\ r.request = s.request
      /\ r.list = s.list /\ r.does = "runs"
  BY <1>3 DEF PoolContext
<1>5. contexts' = [contexts EXCEPT ![c] = r]
  BY <1>2, <1>3 DEF MakeAsyncSafe, KeptIInv, PoolTyped
<1>6. Bounded(s)
  BY <1>2 DEF PoolBounded, ContextsBounded
<1>7. Bounded(r)
  BY <1>4, <1>6 DEF Bounded, Asking
<1>8. /\ c \notin Mapped
      /\ c \in Deferrers => r.list # NoEntry
  BY <1>2, <1>4 DEF Mapped, Deferrers, MakeAsyncSafe, Is
<1>9. ContextsBounded' /\ HoldersKept
  BY <1>4, <1>5, <1>7, <1>8, OneBounded DEF PoolBounded
<1>10. DataBounded'
  BY <1>9, DataKept DEF PoolBounded, MakeAsyncSafe
<1> QED
  BY <1>9, <1>10 DEF PoolBounded

LEMMA CloneBounded ==
    ASSUME KeptIInv, PoolBounded, NEW c \in ContextId, NEW async \in BOOLEAN,
           CloneContext(c, async)
    PROVE  PoolBounded'
<1>1. PICK new \in ContextId :
        /\ Is(new, "none")
        /\ contexts' = [contexts EXCEPT ![new] = CloneOf(c, async),
                                        ![c].does = IF async THEN "runs" ELSE "waits"]
  BY DEF CloneContext
<1>2. PICK s \in PoolContext : s = contexts[c]
  BY DEF KeptIInv, PoolTyped
<1>3. PICK r : r = [s EXCEPT !.does = IF async THEN "runs" ELSE "waits"]
  OBVIOUS
<1>4. PICK k : k = CloneOf(c, async)
  OBVIOUS
<1>5. s.does = "runs" /\ new # c /\ contexts[new].does = "none"
  BY <1>1, <1>2 DEF CloneContext, Is
<1>6. /\ r.parent = s.parent /\ r.request = s.request /\ r.sessions = s.sessions
      /\ r.list = s.list /\ r.does \in {"runs", "waits"}
  BY <1>3 DEF PoolContext
<1>7. /\ k.parent = c /\ k.request = NoRequest /\ k.does \in {"unsafe", "runs"}
      /\ k.list = s.list /\ k.sessions = s.sessions
  BY <1>2, <1>4 DEF CloneOf, NoContext
<1>8. contexts' = [contexts EXCEPT ![new] = k, ![c] = r]
  BY <1>1, <1>2, <1>3, <1>4, <1>5 DEF KeptIInv, PoolTyped
<1>9. /\ contexts'[new] = k /\ contexts'[c] = r
      /\ \A d \in ContextId \ {c, new} : contexts'[d] = contexts[d]
  BY <1>5, <1>8 DEF KeptIInv, PoolTyped
<1>10. Bounded(s)
  BY <1>2 DEF PoolBounded, ContextsBounded
<1>11. Bounded(r)
  BY <1>6, <1>10 DEF Bounded, Asking
<1>12. Bounded(k)
  <2>1. NoRequest.connection = 0 /\ NoRequest.copy = <<>> /\ <<>> \in Seq(Function)
    BY EmptySeq DEF NoRequest, NoEntry
  <2>2. c \in 0 .. MaxContexts
    BY PoolAssumption DEF ContextId
  <2> QED
    BY <1>7, <2>1, <2>2, PoolAssumption DEF Bounded, Asking
<1>13. ContextsBounded'
  <2>1. \A d \in ContextId : Bounded(contexts'[d])
    BY <1>9, <1>11, <1>12 DEF PoolBounded, ContextsBounded
  <2> QED
    BY <2>1 DEF ContextsBounded, Bounded
<1>14. new \notin Mapped /\ new \notin Deferrers
  BY <1>5 DEF PoolBounded, ContextsBounded, Bounded, Mapped, Deferrers
<1>16. HoldersKept
  BY <1>2, <1>6, <1>7, <1>9, <1>14 DEF HoldersKept, Mapped, Deferrers
<1>17. DataBounded'
  BY <1>16, DataKept DEF PoolBounded, CloneContext
<1> QED
  BY <1>13, <1>17 DEF PoolBounded

LEMMA EndBounded ==
    ASSUME PoolIInv, KeptIInv, PoolBounded, NEW c \in ContextId, EndContext(c) PROVE PoolBounded'
<1> DEFINE p == contexts[c].parent
           resumes == ~contexts[c].async /\ p \in ContextId
<1>1. Is(c, "runs")
  BY DEF EndContext
<1>2. resumes => Is(p, "waits") /\ p # c
  BY <1>1 DEF PoolIInv, Called, Live, CallersWait, Is, NoEntry, ContextId
<1>3. \A d \in ContextId :
        /\ contexts'[d].parent = contexts[d].parent
        /\ contexts'[d].sessions = contexts[d].sessions
        /\ contexts'[d].list = contexts[d].list
        /\ contexts'[d].request = contexts[d].request
        /\ contexts'[d].does = IF d = c THEN "ended"
                               ELSE IF resumes /\ d = p THEN "runs" ELSE contexts[d].does
  BY <1>2 DEF EndContext, PoolIInv, Shape, Entries
<1> HIDE DEF resumes
<1>4. ContextsBounded'
  BY <1>3 DEF PoolBounded, ContextsBounded, Bounded, Asking
<1>5. HoldersKept
  BY <1>3 DEF HoldersKept, Mapped, Deferrers
<1>6. DataBounded'
  BY <1>5, DataKept DEF PoolBounded, EndContext
<1> QED
  BY <1>4, <1>6 DEF PoolBounded

\* The numbers of maps and lists are those of entries.
LEMMA NumbersBounded ==
    ASSUME PoolIInv, KeptIInv, DataBounded
    PROVE  /\ Len(sessionMaps) \in 0 .. MaxContexts /\ Len(deferLists) \in 0 .. MaxContexts
           /\ DOMAIN sessionMaps = 1 .. Len(sessionMaps)
           /\ Len(connections) \in 0 .. MaxConnections
           /\ \A c \in ContextId :
                 /\ contexts[c].sessions \in 0 .. Len(sessionMaps)
                 /\ contexts[c].list \in 0 .. Len(deferLists)
<1>1. /\ Len(sessionMaps) \in Nat /\ Len(deferLists) \in Nat /\ Len(connections) \in Nat
      /\ DOMAIN sessionMaps = 1 .. Len(sessionMaps)
  BY LenProperties DEF DataBounded, KeptIInv, PoolTyped
<1>2. \A c \in ContextId : contexts[c].list \in Nat /\ contexts[c].sessions \in Nat
  BY DEF KeptIInv, PoolTyped, PoolContext
<1>3. PICK m \in Nat, n \in Nat : m = Len(sessionMaps) /\ n = Len(deferLists)
  BY <1>1
<1>4. PICK i \in Nat, j \in Nat : i = Cardinality(Mapped) /\ j = Cardinality(Deferrers)
  BY SubsetsOfContexts
<1>5. i <= MaxContexts /\ j <= MaxContexts /\ m <= i /\ n <= j
  BY <1>3, <1>4, SubsetsOfContexts DEF DataBounded
<1>6. m \in 0 .. MaxContexts /\ n \in 0 .. MaxContexts
  BY <1>5, PoolAssumption
<1>7. Len(connections) \in 0 .. MaxConnections
  BY <1>1, PoolAssumption DEF DataBounded
<1>8. \A c \in ContextId : contexts[c].sessions \in 0 .. m /\ contexts[c].list \in 0 .. n
  BY <1>2, <1>3 DEF PoolIInv, MapsNumbered, KeptIInv, ListsKnown
<1> QED
  BY <1>1, <1>3, <1>6, <1>7, <1>8

LEMMA LookupBounded ==
    ASSUME PoolIInv, KeptIInv, PoolBounded, NEW c \in ContextId, NEW h \in Host,
           NEW kept \in BOOLEAN, LookupSession(c, h, kept)
    PROVE  PoolBounded'
<1>1. PICK s \in PoolContext : s = contexts[c]
  BY DEF KeptIInv, PoolTyped
<1>2. s.does = "runs"
  BY <1>1 DEF LookupSession, Is
<1>3. Len(sessionMaps) \in Nat
  BY LenProperties DEF PoolBounded, DataBounded
<1>4. PICK m \in Nat : m = MapOf(c) /\ m # NoEntry
  BY <1>1, <1>3 DEF MapOf, NoEntry, PoolContext
<1>5. PICK held : held = [s EXCEPT !.sessions = m, !.unsafe = @ \/ s.sessions = NoEntry]
  OBVIOUS
<1>6. PICK asks : asks = [held EXCEPT !.does = "connect", !.request.host = h,
                                      !.request.transient = ~kept]
  OBVIOUS
<1>7. contexts' = [contexts EXCEPT ![c] = held] \/ contexts' = [contexts EXCEPT ![c] = asks]
  BY <1>1, <1>4, <1>5, <1>6 DEF LookupSession
<1>8. /\ held.parent = s.parent /\ held.request = s.request /\ held.sessions = m
      /\ held.list = s.list /\ held.does = "runs" /\ DOMAIN held = Entries
  BY <1>2, <1>5 DEF PoolContext, Entries
<1>9. s.request \in RequestState
  BY DEF PoolContext
<1>10. /\ asks.parent = s.parent /\ asks.sessions = m /\ asks.list = s.list
       /\ asks.does = "connect" /\ asks.request.host = h
       /\ asks.request.connection = s.request.connection
       /\ asks.request.copy = s.request.copy
  BY <1>6, <1>8, <1>9 DEF RequestState, Entries
<1>11. Bounded(s)
  BY <1>1 DEF PoolBounded, ContextsBounded
<1>12. Bounded(held) /\ Bounded(asks)
  BY <1>4, <1>8, <1>10, <1>11 DEF Bounded, Asking
<1>13. ContextsBounded' /\ HoldersKept /\ contexts'[c].sessions = m /\ contexts'[c].does # "unsafe"
  <2>1. CASE contexts' = [contexts EXCEPT ![c] = held]
    <3>1. c \in Deferrers => held.list # NoEntry
      BY <1>1, <1>8 DEF Deferrers
    <3>2. contexts'[c] = held
      BY <2>1 DEF KeptIInv, PoolTyped
    <3> QED
      BY <1>4, <1>8, <1>12, <2>1, <3>1, <3>2, OneBounded DEF PoolBounded
  <2>2. CASE contexts' = [contexts EXCEPT ![c] = asks]
    <3>1. c \in Deferrers => asks.list # NoEntry
      BY <1>1, <1>10 DEF Deferrers
    <3>2. contexts'[c] = asks
      BY <2>2 DEF KeptIInv, PoolTyped
    <3> QED
      BY <1>4, <1>10, <1>12, <2>2, <3>1, <3>2, OneBounded DEF PoolBounded
  <2> QED
    BY <1>7, <2>1, <2>2
<1>14. CASE s.sessions # NoEntry
  <2>1. UNCHANGED <<sessionMaps, deferLists, overwritten, connections>>
    BY <1>1, <1>14 DEF LookupSession, WithMap
  <2> QED
    BY <1>13, <2>1, DataKept DEF PoolBounded
<1>15. CASE s.sessions = NoEntry
  <2>1. sessionMaps' = Append(sessionMaps, [x \in Host |-> NoEntry])
    BY <1>1, <1>15 DEF LookupSession, WithMap
  <2>2. [x \in Host |-> NoEntry] \in [Host -> 0 .. MaxConnections]
    BY PoolAssumption DEF NoEntry
  <2>3. /\ sessionMaps' \in Seq([Host -> 0 .. MaxConnections])
        /\ Len(sessionMaps') = Len(sessionMaps) + 1
    BY <2>1, <2>2, AppendProperties DEF PoolBounded, DataBounded
  <2>4. c \in Mapped' /\ c \notin Mapped
    BY <1>1, <1>4, <1>13, <1>15 DEF Mapped
  <2>5. /\ Cardinality(Mapped) \in Nat /\ Cardinality(Mapped') \in Nat
        /\ Cardinality(Mapped) + 1 <= Cardinality(Mapped')
        /\ Cardinality(Deferrers) \in Nat /\ Cardinality(Deferrers') \in Nat
        /\ Cardinality(Deferrers) <= Cardinality(Deferrers')
    BY <1>13, <2>4, HoldersGrow
  <2>6. UNCHANGED <<deferLists, overwritten, connections>>
    BY DEF LookupSession
  <2>7. Len(deferLists) \in Nat
    BY LenProperties DEF PoolBounded, DataBounded
  <2>8. DataBounded'
    BY <1>3, <2>3, <2>5, <2>6, <2>7 DEF PoolBounded, DataBounded
  <2> QED
    BY <1>13, <2>8 DEF PoolBounded
<1> QED
  BY <1>14, <1>15

\* An entry of a map that is written, and what is written keeps its type.
LEMMA EntryWritten ==
    ASSUME NEW S, NEW maps \in Seq([Host -> S]), NEW i \in 1 .. Len(maps), NEW h \in Host,
           NEW x \in S, NEW new, new = [maps EXCEPT ![i][h] = x]
    PROVE  new \in Seq([Host -> S]) /\ Len(new) = Len(maps)
<1>1. maps[i] \in [Host -> S]
  BY ElementOfSeq
<1>2. PICK e : e = [maps[i] EXCEPT ![h] = x]
  OBVIOUS
<1>3. e \in [Host -> S]
  BY <1>1, <1>2
<1>4. new = [maps EXCEPT ![i] = e]
  BY <1>2
<1> QED
  BY <1>3, <1>4, ExceptSeq

LEMMA StoreBounded ==
    ASSUME PoolIInv, KeptIInv, PoolBounded, NEW c \in ContextId, StoreSession(c)
    PROVE  PoolBounded'
<1>1. contexts[c].does = "init"
  BY DEF StoreSession, Is
<1>2. ContextsBounded' /\ HoldersKept
  BY <1>1, AnswersBounded DEF PoolBounded, StoreSession
<1>3. Bounded(contexts[c])
  BY DEF PoolBounded, ContextsBounded
<1>4. PICK i, h, n : i = contexts[c].sessions /\ h = contexts[c].request.host
                     /\ n = contexts[c].request.connection
  OBVIOUS
<1>5. i \in 1 .. Len(sessionMaps) /\ h \in Host /\ n \in 0 .. MaxConnections
  <2>1. i \in 0 .. Len(sessionMaps) /\ i # 0
    BY <1>1, <1>3, <1>4, NumbersBounded DEF PoolBounded, Bounded, Asking, NoEntry
  <2> QED
    BY <1>1, <1>3, <1>4, <2>1 DEF Bounded, Asking
<1>6. sessionMaps' = [sessionMaps EXCEPT ![i][h] = n]
  BY <1>4 DEF StoreSession, Asked
<1>7. /\ sessionMaps' \in Seq([Host -> 0 .. MaxConnections]) /\ Len(sessionMaps') = Len(sessionMaps)
  BY <1>5, <1>6, EntryWritten DEF PoolBounded, DataBounded
<1>8. DataBounded'
  <2>2. Len(sessionMaps) \in Nat /\ Len(deferLists) \in Nat
    BY LenProperties DEF PoolBounded, DataBounded
  <2> QED
    BY <1>7, <1>2, HoldersGrow, <2>2 DEF PoolBounded, DataBounded, StoreSession
<1> QED
  BY <1>2, <1>8 DEF PoolBounded

LEMMA CloseSessionBounded ==
    ASSUME PoolIInv, KeptIInv, KeptIInv', PoolBounded, NEW c \in ContextId, NEW h \in Host,
           CloseSession(c, h)
    PROVE  PoolBounded'
<1>1. UNCHANGED <<contexts, deferLists, overwritten>>
  BY DEF CloseSession
<1>2. PICK i : i = contexts[c].sessions
  OBVIOUS
<1>3. i \in 1 .. Len(sessionMaps)
  <2>1. i \in 0 .. Len(sessionMaps) /\ i # 0
    BY <1>2, NumbersBounded DEF PoolBounded, CloseSession, NoEntry
  <2> QED
    BY <2>1
<1>4. sessionMaps' = [sessionMaps EXCEPT ![i][h] = 0] /\ 0 \in 0 .. MaxConnections
  BY <1>2, PoolAssumption DEF CloseSession, NoEntry
<1>5. /\ sessionMaps' \in Seq([Host -> 0 .. MaxConnections]) /\ Len(sessionMaps') = Len(sessionMaps)
  BY <1>3, <1>4, EntryWritten DEF PoolBounded, DataBounded
<1>6. Len(connections') = Len(connections)
  <2>1. PICK n, r : connections' = [connections EXCEPT ![n] = r]
    BY DEF CloseSession
  <2>2. DOMAIN connections' = DOMAIN connections
    BY <2>1
  <2>3. /\ DOMAIN connections = 1 .. Len(connections) /\ DOMAIN connections' = 1 .. Len(connections')
        /\ Len(connections) \in Nat /\ Len(connections') \in Nat
    BY LenProperties DEF KeptIInv, PoolTyped
  <2> QED
    BY <2>2, <2>3
<1>7. Mapped' = Mapped /\ Deferrers' = Deferrers
  BY <1>1 DEF Mapped, Deferrers
<1>8. ContextsBounded'
  BY <1>1 DEF PoolBounded, ContextsBounded, Bounded
<1> QED
  BY <1>1, <1>5, <1>6, <1>7, <1>8 DEF PoolBounded, DataBounded

LEMMA ConnectBounded ==
    ASSUME PoolIInv, KeptIInv, KeptIInv', PoolBounded, NEW c \in ContextId, Connect(c)
    PROVE  PoolBounded'
<1>1. PICK s \in PoolContext : s = contexts[c]
  BY DEF KeptIInv, PoolTyped
<1>2. PICK n \in Nat : n = Len(connections)
  BY LenProperties DEF KeptIInv, PoolTyped
<1>3. n < MaxConnections
  BY <1>2 DEF Connect
<1>4. PICK k \in 1 .. MaxConnections : k = n + 1
  BY <1>3, PoolAssumption
<1>5. PICK does : does = IF s.request.transient THEN "init" ELSE "deferConnection"
  OBVIOUS
<1>6. PICK r : r = [s EXCEPT !.request.connection = k, !.does = does]
  OBVIOUS
<1>7. contexts' = [contexts EXCEPT ![c] = r]
  BY <1>1, <1>2, <1>4, <1>5, <1>6 DEF Connect, Asked
<1>8. s.request \in RequestState /\ s.does = "connect"
  BY <1>1 DEF PoolContext, Connect, Is
<1>9. /\ r.parent = s.parent /\ r.sessions = s.sessions /\ r.list = s.list /\ r.does = does
      /\ r.request.host = s.request.host /\ r.request.connection = k
      /\ r.request.copy = s.request.copy
  BY <1>6, <1>8 DEF PoolContext, RequestState
<1>10. does \in {"init", "deferConnection"}
  BY <1>5
<1>11. Bounded(s)
  BY <1>1 DEF PoolBounded, ContextsBounded
<1>12. Bounded(r)
  <2>1. k # NoEntry /\ k \in 0 .. MaxConnections
    BY PoolAssumption DEF NoEntry
  <2> QED
    BY <1>8, <1>9, <1>10, <1>11, <2>1 DEF Bounded, Asking
<1>13. /\ c \in Mapped => r.sessions # NoEntry
       /\ c \in Deferrers => r.list # NoEntry /\ r.does # "unsafe"
       /\ r.does # "unsafe"
  BY <1>1, <1>9, <1>10 DEF Mapped, Deferrers
<1>14. ContextsBounded' /\ HoldersKept
  BY <1>7, <1>12, <1>13, OneBounded DEF PoolBounded
<1>15. Len(connections') = n + 1
  <2>1. connections' = Append(connections, [open |-> TRUE, kept |-> ~s.request.transient])
    BY <1>1 DEF Connect, Asked
  <2>2. [open |-> TRUE, kept |-> ~s.request.transient] \in [open : BOOLEAN, kept : BOOLEAN]
    BY <1>8 DEF RequestState
  <2>3. PICK e \in [open : BOOLEAN, kept : BOOLEAN] : connections' = Append(connections, e)
    BY <2>1, <2>2
  <2> QED
    BY <1>2, <2>3, AppendProperties DEF KeptIInv, PoolTyped
<1>16. Len(connections') <= MaxConnections
  BY <1>3, <1>15, PoolAssumption
<1>17. DataBounded'
  <2>2. Len(sessionMaps) \in Nat /\ Len(deferLists) \in Nat
    BY LenProperties DEF PoolBounded, DataBounded
  <2>3. UNCHANGED <<sessionMaps, deferLists, overwritten>>
    BY DEF Connect
  <2> QED
    BY <1>16, <1>14, HoldersGrow, <2>2, <2>3 DEF PoolBounded, DataBounded
<1> QED
  BY <1>14, <1>17 DEF PoolBounded

LEMMA DefferReadBounded ==
    ASSUME PoolIInv, KeptIInv, PoolBounded, NEW c \in ContextId, DefferRead(c)
    PROVE  PoolBounded'
<1>1. PICK s \in PoolContext : s = contexts[c]
  BY DEF KeptIInv, PoolTyped
<1>2. s.request \in RequestState /\ s.does \in {"deferConnection", "deferSession"}
  BY <1>1 DEF PoolContext, DefferRead
<1>3. PICK next : next = IF s.does = "deferConnection" THEN "putConnection" ELSE "putSession"
  OBVIOUS
<1>4. next \in {"putConnection", "putSession"} /\ (next = "putConnection" => s.does = "deferConnection")
  BY <1>3
<1>5. Bounded(s)
  BY <1>1 DEF PoolBounded, ContextsBounded
<1>6. UNCHANGED <<sessionMaps, connections, overwritten>>
  BY DEF DefferRead
<1>7. Len(sessionMaps) \in Nat /\ Len(deferLists) \in Nat /\ Len(connections) \in Nat
  BY LenProperties DEF PoolBounded, DataBounded, KeptIInv, PoolTyped
<1>8. CASE s.list = NoEntry
  <2>1. PICK n \in Nat : n = Len(deferLists) + 1 /\ n # NoEntry
    BY <1>7 DEF NoEntry
  <2>2. PICK r : r = [s EXCEPT !.list = n, !.does = next]
    OBVIOUS
  <2>3. contexts' = [contexts EXCEPT ![c] = r] /\ deferLists' = Append(deferLists, <<>>)
    BY <1>1, <1>3, <1>8, <2>1, <2>2 DEF DefferRead, Is
  <2>4. /\ r.parent = s.parent /\ r.sessions = s.sessions /\ r.list = n /\ r.does = next
        /\ r.request = s.request
    BY <2>2 DEF PoolContext
  <2>5. Bounded(r)
    BY <1>2, <1>4, <1>5, <2>4 DEF Bounded, Asking
  <2>6. c \in Mapped => r.sessions # NoEntry
    BY <1>1, <2>4 DEF Mapped
  <2>7. ContextsBounded' /\ HoldersKept
    BY <1>4, <2>1, <2>3, <2>4, <2>5, <2>6, OneBounded DEF PoolBounded
  <2>8. contexts'[c] = r
    BY <2>3 DEF KeptIInv, PoolTyped
  <2>9. c \in Deferrers' /\ c \notin Deferrers
    BY <1>1, <1>8, <2>1, <2>4, <2>8 DEF Deferrers
  <2>10. deferLists' \in Seq(Seq(Function)) /\ Len(deferLists') = Len(deferLists) + 1
    <3>1. <<>> \in Seq(Function)
      BY EmptySeq
    <3> QED
      BY <2>3, <3>1, AppendProperties DEF PoolBounded, DataBounded
  <2>11. DataBounded'
    BY <1>6, <1>7, <2>7, <2>9, <2>10, HoldersGrow DEF PoolBounded, DataBounded
  <2> QED
    BY <2>7, <2>11 DEF PoolBounded
<1>9. CASE s.list # NoEntry
  <2>1. PICK copy : copy = deferLists[s.list]
    OBVIOUS
  <2>2. copy \in Seq(Function)
    <3>1. s.list \in 0 .. Len(deferLists)
      BY <1>1, NumbersBounded DEF PoolBounded
    <3>2. s.list \in 1 .. Len(deferLists)
      BY <1>9, <3>1 DEF NoEntry
    <3> QED
      BY <2>1, <3>2, ElementOfSeq DEF PoolBounded, DataBounded
  <2>3. PICK r : r = [s EXCEPT !.request.copy = copy, !.does = next]
    OBVIOUS
  <2>4. contexts' = [contexts EXCEPT ![c] = r] /\ deferLists' = deferLists
    BY <1>1, <1>3, <1>9, <2>1, <2>3 DEF DefferRead, Is
  <2>5. /\ r.parent = s.parent /\ r.sessions = s.sessions /\ r.list = s.list /\ r.does = next
        /\ r.request.host = s.request.host /\ r.request.connection = s.request.connection
        /\ r.request.copy = copy
    BY <1>2, <2>3 DEF PoolContext, RequestState
  <2>6. Bounded(r)
    BY <1>2, <1>4, <1>5, <2>2, <2>5 DEF Bounded, Asking
  <2>7. c \in Mapped => r.sessions # NoEntry
    BY <1>1, <2>5 DEF Mapped
  <2>8. ContextsBounded' /\ HoldersKept
    BY <1>4, <1>9, <2>4, <2>5, <2>6, <2>7, OneBounded DEF PoolBounded
  <2>9. DataBounded'
    BY <1>6, <2>4, <2>8, DataKept DEF PoolBounded
  <2> QED
    BY <2>8, <2>9 DEF PoolBounded
<1> QED
  BY <1>8, <1>9

LEMMA DefferWriteBounded ==
    ASSUME PoolIInv, KeptIInv, PoolBounded, NEW c \in ContextId, DefferWrite(c)
    PROVE  PoolBounded'
<1>1. PICK s \in PoolContext : s = contexts[c]
  BY DEF KeptIInv, PoolTyped
<1>2. s.request \in RequestState /\ s.does \in {"putConnection", "putSession"}
  BY <1>1 DEF PoolContext, DefferWrite
<1>3. PICK next : next = IF s.does = "putConnection" THEN "deferSession" ELSE "init"
  OBVIOUS
<1>4. next \in {"deferSession", "init"}
  BY <1>3
<1>5. Bounded(s)
  BY <1>1 DEF PoolBounded, ContextsBounded
<1>6. PICK r : r = [s EXCEPT !.request.copy = <<>>, !.does = next]
  OBVIOUS
<1>7. contexts' = [contexts EXCEPT ![c] = r]
  BY <1>1, <1>3, <1>6 DEF DefferWrite, Is
<1>8. /\ r.parent = s.parent /\ r.sessions = s.sessions /\ r.list = s.list /\ r.does = next
      /\ r.request.host = s.request.host /\ r.request.connection = s.request.connection
      /\ r.request.copy = <<>>
  BY <1>2, <1>6 DEF PoolContext, RequestState
<1>9. Bounded(r)
  <2>1. <<>> \in Seq(Function)
    BY EmptySeq
  <2> QED
    BY <1>2, <1>4, <1>5, <1>8, <2>1 DEF Bounded, Asking
<1>10. /\ c \in Mapped => r.sessions # NoEntry
       /\ c \in Deferrers => r.list # NoEntry
  BY <1>1, <1>8 DEF Mapped, Deferrers
<1>11. ContextsBounded' /\ HoldersKept
  BY <1>4, <1>7, <1>8, <1>9, <1>10, OneBounded DEF PoolBounded
<1>12. PICK f : f = Deferred(c)
  OBVIOUS
<1>13. f \in Function
  <2>1. CASE s.does = "putConnection"
    <3>1. f = [closes |-> "connection", connection |-> s.request.connection]
      BY <1>1, <1>12, <2>1 DEF Deferred, Is, Asked
    <3>2. s.request.connection \in 1 .. MaxConnections
      BY <1>5, <2>1, PoolAssumption DEF Bounded, NoEntry
    <3> QED
      BY <3>1, <3>2 DEF Function
  <2>2. CASE s.does = "putSession"
    <3>1. f = [closes |-> "session", map |-> s.sessions, host |-> s.request.host]
      BY <1>1, <1>12, <2>2 DEF Deferred, Is, Asked
    <3>2. s.sessions # NoEntry /\ s.request.host \in Host
      BY <1>5, <2>2 DEF Bounded, Asking
    <3>3. s.sessions \in 0 .. Len(sessionMaps) /\ Len(sessionMaps) \in 0 .. MaxContexts
      BY <1>1, NumbersBounded DEF PoolBounded
    <3>4. s.sessions \in 1 .. MaxContexts
      BY <3>2, <3>3, PoolAssumption DEF NoEntry
    <3> QED
      BY <3>1, <3>2, <3>4 DEF Function
  <2> QED
    BY <1>2, <2>1, <2>2
<1>14. PICK new : new = Append(s.request.copy, f)
  OBVIOUS
<1>15. new \in Seq(Function)
  BY <1>5, <1>13, <1>14, AppendProperties DEF Bounded
<1>16. s.list \in 1 .. Len(deferLists)
  BY <1>1, <1>2, NumbersBounded DEF PoolBounded, KeptIInv, ListsKnown, NoEntry
<1>17. /\ deferLists' = [deferLists EXCEPT ![s.list] = new]
       /\ overwritten' = overwritten \cup (ToSet(deferLists[s.list]) \ ToSet(new))
       /\ UNCHANGED <<sessionMaps, connections>>
  BY <1>1, <1>12, <1>14 DEF DefferWrite, Asked
<1>18. deferLists' \in Seq(Seq(Function)) /\ Len(deferLists') = Len(deferLists)
  BY <1>15, <1>16, <1>17, ExceptSeq DEF PoolBounded, DataBounded
<1>19. overwritten' \subseteq Function
  <2>1. PICK old \in Seq(Function) : old = deferLists[s.list]
    BY <1>16, ElementOfSeq DEF PoolBounded, DataBounded
  <2>2. DOMAIN old = 1 .. Len(old)
    BY LenProperties
  <2>3. ToSet(old) \subseteq Function
    BY <2>2, ElementOfSeq DEF ToSet
  <2> QED
    BY <1>17, <2>1, <2>3 DEF PoolBounded, DataBounded
<1>20. Len(sessionMaps) \in Nat /\ Len(deferLists) \in Nat
  BY LenProperties DEF PoolBounded, DataBounded
<1>21. DataBounded'
  BY <1>11, <1>17, <1>18, <1>19, <1>20, HoldersGrow DEF PoolBounded, DataBounded
<1> QED
  BY <1>11, <1>21 DEF PoolBounded

LEMMA CloseBounded ==
    ASSUME PoolIInv, KeptIInv, KeptIInv', PoolBounded, CloseContext PROVE PoolBounded'
<1>1. \A c \in ContextId :
        /\ contexts'[c].parent = contexts[c].parent
        /\ contexts'[c].sessions = contexts[c].sessions
        /\ contexts'[c].list = contexts[c].list
        /\ contexts'[c].request = contexts[c].request
        /\ contexts'[c].does = IF contexts[c].does = "none" THEN "none" ELSE "closed"
  BY DEF CloseContext, CloseAll, PoolIInv, Shape, Entries, Is
<1>2. ContextsBounded' /\ HoldersKept
  BY <1>1 DEF PoolBounded, ContextsBounded, Bounded, Asking, HoldersKept, Mapped, Deferrers
<1>3. PICK n \in Nat : n = Len(sessionMaps) /\ DOMAIN sessionMaps = 1 .. n
  <2>1. Len(sessionMaps) \in Nat /\ DOMAIN sessionMaps = 1 .. Len(sessionMaps)
    BY LenProperties DEF PoolBounded, DataBounded
  <2> QED
    BY <2>1
<1> DEFINE maps(m) == [h \in Host |->
                         IF \E f \in DeferredIn(DOMAIN deferLists) :
                               f.closes = "session" /\ f.map = m /\ f.host = h
                         THEN NoEntry ELSE sessionMaps[m][h]]
<1>4. sessionMaps' = [m \in 1 .. n |-> maps(m)]
  BY <1>3 DEF CloseContext, CloseAll
<1>5. ASSUME NEW m \in 1 .. n PROVE maps(m) \in [Host -> 0 .. MaxConnections]
  <2>1. sessionMaps[m] \in [Host -> 0 .. MaxConnections]
    BY <1>3, ElementOfSeq DEF PoolBounded, DataBounded
  <2>2. NoEntry \in 0 .. MaxConnections
    BY PoolAssumption DEF NoEntry
  <2> QED
    BY <2>1, <2>2
<1> HIDE DEF maps
<1>6. sessionMaps' \in Seq([Host -> 0 .. MaxConnections]) /\ Len(sessionMaps') = n
  <2>1. sessionMaps' \in [1 .. n -> [Host -> 0 .. MaxConnections]]
    BY <1>4, <1>5
  <2>2. sessionMaps' \in Seq([Host -> 0 .. MaxConnections])
    BY <2>1, SeqDef
  <2>3. DOMAIN sessionMaps' = 1 .. Len(sessionMaps') /\ Len(sessionMaps') \in Nat
    BY <2>2, LenProperties
  <2>4. DOMAIN sessionMaps' = 1 .. n
    BY <1>4
  <2>5. PICK k \in Nat : k = Len(sessionMaps')
    BY <2>3
  <2>6. 1 .. k = 1 .. n
    BY <2>3, <2>4, <2>5
  <2>7. k = n
    BY <2>6
  <2> QED
    BY <2>2, <2>5, <2>7
<1>7. Len(connections') = Len(connections)
  <2>1. DOMAIN connections' = DOMAIN connections
    BY DEF CloseContext, CloseAll
  <2>2. /\ DOMAIN connections = 1 .. Len(connections) /\ DOMAIN connections' = 1 .. Len(connections')
        /\ Len(connections) \in Nat /\ Len(connections') \in Nat
    BY LenProperties DEF KeptIInv, PoolTyped
  <2> QED
    BY <2>1, <2>2
<1>8. UNCHANGED <<deferLists, overwritten>> /\ Len(deferLists) \in Nat
  BY LenProperties DEF CloseContext, CloseAll, PoolBounded, DataBounded
<1>9. DataBounded'
  BY <1>2, <1>3, <1>6, <1>7, <1>8, HoldersGrow DEF PoolBounded, DataBounded
<1> QED
  BY <1>2, <1>9 DEF PoolBounded

LEMMA NextBounded ==
    PoolIInv /\ KeptIInv /\ PoolBounded /\ [PoolNext]_poolVars => PoolBounded'
<1> SUFFICES ASSUME PoolIInv, KeptIInv, PoolBounded, [PoolNext]_poolVars PROVE PoolBounded'
  OBVIOUS
<1>0. KeptIInv'
  BY NextKept
<1>1. ASSUME NEW c \in ContextId, PoolStep(c) PROVE PoolBounded'
  <2>1. ASSUME NEW async \in BOOLEAN, CloneContext(c, async) PROVE PoolBounded'
    BY <2>1, CloneBounded
  <2>2. ASSUME NEW h \in Host, NEW kept \in BOOLEAN, LookupSession(c, h, kept) PROVE PoolBounded'
    BY <2>2, LookupBounded
  <2>3. ASSUME NEW h \in Host, CloseSession(c, h) PROVE PoolBounded'
    BY <1>0, <2>3, CloseSessionBounded
  <2>4. CASE ConnectFails(c) \/ InitFails(c)
    <3>1. /\ contexts[c].does \in {"connect", "init"} /\ Answers(c)
          /\ UNCHANGED <<sessionMaps, deferLists, connections, overwritten>>
      BY <2>4 DEF ConnectFails, InitFails, Is
    <3>2. ContextsBounded' /\ HoldersKept
      BY <3>1, AnswersBounded DEF PoolBounded
    <3> QED
      BY <3>1, <3>2, DataKept DEF PoolBounded
  <2> QED
    BY <1>0, <1>1, <2>1, <2>2, <2>3, <2>4, AsyncSafeBounded, EndBounded, ConnectBounded,
       DefferReadBounded, DefferWriteBounded, StoreBounded DEF PoolStep
<1>2. CASE UNCHANGED poolVars
  BY <1>2 DEF poolVars, PoolBounded, ContextsBounded, DataBounded, Bounded, Mapped, Deferrers
<1> QED
  BY <1>0, <1>1, <1>2, NewContextBounded, CloseBounded DEF PoolNext

\* Contexts, maps, lists and connections have their types, for any number of
\* contexts, hosts and connections: a context makes one map and one list at most
\* (Clone, MakeAsyncSafe, TerminalSessions, Deffer, openSession).
THEOREM PoolTypesHold == PoolSpec => []PoolTypeOK
<1>1. PoolIInv /\ KeptIInv /\ PoolBounded => PoolTypeOK
  <2> SUFFICES ASSUME PoolIInv, KeptIInv, PoolBounded PROVE PoolTypeOK
    OBVIOUS
  <2>1. ASSUME NEW c \in ContextId PROVE contexts[c] \in ContextState
    <3>1. PICK s \in PoolContext : s = contexts[c]
      BY DEF KeptIInv, PoolTyped
    <3>2. Bounded(s)
      BY <3>1 DEF PoolBounded, ContextsBounded
    <3>3. s.sessions \in 0 .. MaxContexts /\ s.list \in 0 .. MaxContexts
      BY <3>1, NumbersBounded, PoolAssumption DEF PoolBounded
    <3>4. s.request \in [host : Host \cup {NoEntry}, connection : 0 .. MaxConnections,
                         transient : BOOLEAN, copy : Seq(Function)]
      <4>1. s.request \in RequestState
        BY DEF PoolContext
      <4> QED
        BY <3>2, <4>1 DEF Bounded, RequestState
    <3>5. s.parent \in 0 .. MaxContexts
      BY <3>2 DEF Bounded
    <3> QED
      BY <3>1, <3>3, <3>4, <3>5 DEF PoolContext, ContextState
  <2>2. contexts \in [ContextId -> ContextState]
    BY <2>1 DEF KeptIInv, PoolTyped
  <2> QED
    BY <2>2 DEF PoolTypeOK, PoolBounded, DataBounded, KeptIInv, PoolTyped
<1>2. PoolSpec => [](KeptIInv /\ PoolIInv /\ PoolBounded)
  BY PoolInductive, InitKept, NextKept, InitBounded, NextBounded, PTL DEF PoolSpec
<1> QED
  BY <1>1, <1>2, PTL

-----------------------------------------------------------------------------
(* ShellCache, for any directories, variables and values.                  *)

Environment == [Variable -> Value \cup {Unset}]
KeptDirectory == [kind : {"absolute", "relative", "up", "none"}, path : Seq(Name)]
ShellState == [directory : Directory, env : Environment]
SessionState == [directory : KeptDirectory, env : Environment]

DirectoryKnown ==
    session.directory.kind = "absolute" /\ ~strayed => shell.directory = session.directory.path
VariablesKnown == \A v \in Variable \ lost : session.env[v] \in {Unset, shell.env[v]}

ShellIInv ==
    /\ shell \in ShellState
    /\ session \in SessionState
    /\ strayed \in BOOLEAN
    /\ DirectoryKnown /\ VariablesKnown

LEMMA ArgumentRemembered == ASSUME NEW argument \in Argument PROVE argument \in KeptDirectory
<1>1. \A n \in Name : <<n>> \in Seq(Name)
  OBVIOUS
<1>2. Path \subseteq Seq(Name)
  BY <1>1, ShellAssumption DEF Path
<1>3. <<>> \in Seq(Name)
  BY EmptySeq
<1>4. CASE argument \in [kind : {"absolute", "relative"}, path : Path \ {<<>>}]
  BY <1>2, <1>4 DEF KeptDirectory
<1>5. CASE argument \in {[kind |-> k, path |-> <<>>] : k \in {"absolute", "up", "none"}}
  <2>1. PICK k \in {"absolute", "up", "none"} : argument = [kind |-> k, path |-> <<>>]
    BY <1>5
  <2> QED
    BY <1>3, <2>1 DEF KeptDirectory
<1> QED
  BY <1>4, <1>5 DEF Argument

LEMMA NothingRemembered == Nothing \in KeptDirectory
  BY EmptySeq DEF Nothing, KeptDirectory

LEMMA SentRemembered == ASSUME NEW argument \in Argument PROVE Sent(argument) \in KeptDirectory
<1>1. argument \in KeptDirectory
  BY ArgumentRemembered
<1>2. CASE argument.path = <<>>
  BY <1>1, <1>2, NothingRemembered DEF Sent
<1>3. CASE argument.path # <<>>
  <2>1. Front(argument.path) \in Seq(Name)
    BY <1>1, <1>3 DEF Front, KeptDirectory
  <2>2. [argument EXCEPT !.path = Front(@)] \in KeptDirectory
    BY <1>1, <2>1 DEF KeptDirectory
  <2> QED
    BY <1>1, <2>2, NothingRemembered DEF Sent
<1> QED
  BY <1>2, <1>3

LEMMA InitShell == ShellInit => ShellIInv
<1> SUFFICES ASSUME ShellInit PROVE ShellIInv
  OBVIOUS
<1>1. NoVariables \in Environment
  BY DEF NoVariables, Environment
<1>2. shell.directory = Home /\ shell.env = NoVariables /\ shell \in ShellState
  BY <1>1, ShellAssumption DEF ShellInit, ShellState
<1>3. session.directory = Nothing /\ session.env = NoVariables /\ session \in SessionState
  BY <1>1, NothingRemembered DEF ShellInit, SessionState
<1>4. DirectoryKnown
  BY <1>3 DEF DirectoryKnown, Nothing
<1>5. VariablesKnown
  BY <1>2, <1>3 DEF VariablesKnown, NoVariables
<1> QED
  BY <1>2, <1>3, <1>4, <1>5 DEF ShellIInv, ShellInit

LEMMA MoveKeeps ==
    ASSUME ShellIInv, NEW typed \in KeptDirectory, Move(typed), lost' = lost
    PROVE  ShellIInv'
<1> USE DEF ShellIInv, ShellState, SessionState
<1>1. typed.kind = "absolute" => Target(typed) = typed.path
  BY DEF Target
<1> HIDE DEF ShellIInv, ShellState, SessionState
<1>2. CASE /\ Target(typed) \in Directory
           /\ shell' = [shell EXCEPT !.directory = Target(typed)]
           /\ session' = [session EXCEPT !.directory = typed]
           /\ strayed' = FALSE
  <2>1. shell' \in ShellState /\ shell'.directory = Target(typed) /\ shell'.env = shell.env
    BY <1>2 DEF ShellIInv, ShellState
  <2>2. session' \in SessionState /\ session'.directory = typed /\ session'.env = session.env
    BY <1>2 DEF ShellIInv, SessionState
  <2> QED
    BY <1>1, <1>2, <2>1, <2>2 DEF ShellIInv, DirectoryKnown, VariablesKnown
<1>3. CASE UNCHANGED <<shell, session, strayed>>
  BY <1>3 DEF ShellIInv, DirectoryKnown, VariablesKnown
<1>4. CASE /\ Target(typed) \in Directory
           /\ session' = [session EXCEPT !.directory = typed]
           /\ strayed' = TRUE
           /\ UNCHANGED shell
  <2>1. session' \in SessionState /\ session'.env = session.env
    BY <1>4 DEF ShellIInv, SessionState
  <2> QED
    BY <1>4, <2>1 DEF ShellIInv, DirectoryKnown, VariablesKnown
<1>5. CASE /\ Target(typed) \in Directory
           /\ shell' = [shell EXCEPT !.directory = Target(typed)]
           /\ strayed' = TRUE
           /\ UNCHANGED session
  <2>1. shell' \in ShellState /\ shell'.env = shell.env
    BY <1>5 DEF ShellIInv, ShellState
  <2> QED
    BY <1>5, <2>1 DEF ShellIInv, DirectoryKnown, VariablesKnown
<1> QED
  BY <1>2, <1>3, <1>4, <1>5 DEF Move

LEMMA NextShell == ShellIInv /\ [ShellNext]_shellVars => ShellIInv'
<1> SUFFICES ASSUME ShellIInv, [ShellNext]_shellVars PROVE ShellIInv'
  OBVIOUS
<1>1. ASSUME NEW argument \in Argument, ChangeDirectory(argument) PROVE ShellIInv'
  <2>1. CASE session.directory = Sent(argument)
    BY <1>1, <2>1 DEF ChangeDirectory, ShellIInv, DirectoryKnown, VariablesKnown
  <2>2. CASE session.directory # Sent(argument)
    BY <1>1, <2>2, MoveKeeps, SentRemembered DEF ChangeDirectory
  <2> QED
    BY <2>1, <2>2
<1>2. ASSUME NEW argument \in Argument, RunCd(argument) PROVE ShellIInv'
  <2>1. shell' \in ShellState /\ shell'.env = shell.env
    BY <1>2 DEF RunCd, ShellIInv, ShellState
  <2>2. /\ session' \in SessionState /\ session'.env = session.env
        /\ session'.directory.kind # "absolute"
    BY <1>2, NothingRemembered DEF RunCd, ShellIInv, SessionState, Nothing
  <2> QED
    BY <1>2, <2>1, <2>2 DEF RunCd, ShellIInv, DirectoryKnown, VariablesKnown
<1>3. ASSUME NEW argument \in Argument, RunOther(argument) PROVE ShellIInv'
  <2>1. shell' \in ShellState /\ shell'.env = shell.env
    BY <1>3 DEF RunOther, ShellIInv, ShellState
  <2> QED
    BY <1>3, <2>1 DEF RunOther, ShellIInv, DirectoryKnown, VariablesKnown
<1>4. CASE RunRemove
  <2>1. /\ session' \in SessionState /\ session'.env = session.env
        /\ session'.directory.kind # "absolute"
    BY <1>4, NothingRemembered DEF RunRemove, ShellIInv, SessionState, Nothing
  <2> QED
    BY <1>4, <2>1 DEF RunRemove, ShellIInv, DirectoryKnown, VariablesKnown
<1>5. ASSUME NEW v \in Variable, NEW value \in Value, Export(v, value) PROVE ShellIInv'
  <2>1. session.env \in Environment /\ shell.env \in Environment
    BY DEF ShellIInv, SessionState, ShellState
  <2>2. /\ session' \in SessionState /\ session'.directory = session.directory
        /\ session'.env = [session.env EXCEPT ![v] = value]
    BY <1>5 DEF Export, ShellIInv, SessionState, Environment
  <2>3. CASE shell' = [shell EXCEPT !.env[v] = value] /\ lost' = lost \ {v}
    <3>1. /\ shell' \in ShellState /\ shell'.directory = shell.directory
          /\ shell'.env = [shell.env EXCEPT ![v] = value]
      BY <2>3 DEF ShellIInv, ShellState, Environment
    <3>2. VariablesKnown'
      BY <2>1, <2>2, <2>3, <3>1 DEF ShellIInv, VariablesKnown, Environment
    <3> QED
      BY <1>5, <2>2, <3>1, <3>2 DEF Export, ShellIInv, DirectoryKnown
  <2>4. CASE shell' = shell /\ lost' = lost \cup {v}
    <3>1. VariablesKnown'
      BY <2>1, <2>2, <2>4 DEF ShellIInv, VariablesKnown, Environment
    <3> QED
      BY <1>5, <2>2, <2>4, <3>1 DEF Export, ShellIInv, DirectoryKnown
  <2> QED
    BY <1>5, <2>3, <2>4 DEF Export
<1>6. ASSUME NEW v \in Variable, NEW value \in Value, RunExport(v, value) PROVE ShellIInv'
  <2>1. NoVariables \in Environment
    BY DEF NoVariables, Environment
  <2>2. /\ session' \in SessionState /\ session'.directory = session.directory
        /\ session'.env = NoVariables
    BY <1>6, <2>1 DEF RunExport, ShellIInv, SessionState
  <2>3. shell' \in ShellState /\ shell'.directory = shell.directory
    BY <1>6 DEF RunExport, ShellIInv, ShellState, Environment
  <2>4. VariablesKnown'
    BY <2>2 DEF VariablesKnown, NoVariables
  <2> QED
    BY <1>6, <2>2, <2>3, <2>4 DEF RunExport, ShellIInv, DirectoryKnown
<1>7. CASE UNCHANGED shellVars
  BY <1>7 DEF shellVars, ShellIInv, DirectoryKnown, VariablesKnown
<1> QED
  BY <1>1, <1>2, <1>3, <1>4, <1>5, <1>6, <1>7 DEF ShellNext

\* What the session remembers of the directory and of variables is what the shell
\* has, for any names and values, until a cd goes wrong unnoticed or an export
\* fails (changeDirectory, setEnvVariable, runExtractCommands).
THEOREM SessionKnowsHolds == ShellSpec => []SessionKnows
<1>1. ShellIInv => SessionKnows
  BY DEF ShellIInv, DirectoryKnown, VariablesKnown, SessionKnows
<1> QED
  BY <1>1, InitShell, NextShell, PTL DEF ShellSpec

\* The session remembers an argument that a cd may have had, or forgot it.
SessionTyped == session.directory \in Argument /\ lost \subseteq Variable

LEMMA NothingArgument == Nothing \in Argument
  BY DEF Nothing, Argument

\* The parent of a name with an extension is a directory, if it is a name at all.
LEMMA SentArgument == ASSUME NEW argument \in Argument PROVE Sent(argument) \in Argument
<1>1. CASE argument \in {[kind |-> k, path |-> <<>>] : k \in {"absolute", "up", "none"}}
  <2>1. argument.path = <<>>
    BY <1>1
  <2> QED
    BY <2>1, NothingArgument DEF Sent
<1>2. CASE argument \in [kind : {"absolute", "relative"}, path : Path \ {<<>>}]
  <2>1. PICK k \in {"absolute", "relative"}, p \in Path \ {<<>>} : argument = [kind |-> k, path |-> p]
    BY <1>2
  <2>a. \A n \in Name : <<n>> \in Seq(Name)
    OBVIOUS
  <2>2. p \in Seq(Name)
    BY <2>a, ShellAssumption DEF Path
  <2>b. Len(p) \in Nat \ {0}
    BY <2>2, EmptySeq
  <2>3. Len(p) \in Nat \ {0} /\ Front(p) \in Seq(Name) /\ Len(Front(p)) = Len(p) - 1
    <3>1. PICK n \in Nat \ {0} : n = Len(p)
      BY <2>b
    <3>2. PICK m \in Nat : m = n - 1
      BY <3>1
    <3>3. m <= Len(p) /\ Front(p) = SubSeq(p, 1, m)
      BY <3>1, <3>2 DEF Front
    <3>4. SubSeq(p, 1, m) \in Seq(Name) /\ Len(SubSeq(p, 1, m)) = m
      BY <2>2, <3>3
    <3> QED
      BY <3>1, <3>2, <3>3, <3>4
  <2>4. CASE Sent(argument) \in {Nothing, argument}
    BY <2>4, NothingArgument
  <2>5. CASE Sent(argument) \notin {Nothing, argument}
    <3>1. Sent(argument) = [kind |-> k, path |-> Front(p)] /\ (k = "relative" => Len(p) # 1)
      BY <2>1, <2>5 DEF Sent
    <3>2. CASE Len(p) = 1
      <4>1. Front(p) = <<>> /\ k = "absolute"
        BY <2>1, <2>3, <3>1, <3>2, EmptySeq
      <4> QED
        BY <3>1, <4>1 DEF Argument
    <3>3. CASE Len(p) # 1
      <4>1. p \notin {<<n>> : n \in Name}
        BY <3>3
      <4>2. p \in Directory \ {<<>>}
        BY <2>1, <4>1 DEF Path
      <4>3. Front(p) \in Directory /\ Front(p) # <<>>
        BY <2>3, <3>3, <4>2, ShellAssumption, EmptySeq
      <4> QED
        BY <2>1, <3>1, <4>3 DEF Argument, Path
    <3> QED
      BY <3>2, <3>3
  <2> QED
    BY <2>4, <2>5
<1> QED
  BY <1>1, <1>2 DEF Argument

LEMMA SessionTypedKept == ShellIInv /\ SessionTyped /\ [ShellNext]_shellVars => SessionTyped'
<1> SUFFICES ASSUME ShellIInv, SessionTyped, [ShellNext]_shellVars PROVE SessionTyped'
  OBVIOUS
<1>1. session \in SessionState
  BY DEF ShellIInv
<1>2. ASSUME NEW argument \in Argument, Move(argument), UNCHANGED lost PROVE SessionTyped'
  BY <1>1, <1>2 DEF Move, SessionTyped, SessionState
<1>3. ASSUME NEW argument \in Argument, ChangeDirectory(argument) PROVE SessionTyped'
  <2>1. CASE UNCHANGED <<session, lost>>
    BY <2>1 DEF SessionTyped
  <2>2. CASE Move(Sent(argument)) /\ UNCHANGED lost
    BY <1>2, <2>2, SentArgument
  <2> QED
    BY <1>3, <2>1, <2>2 DEF ChangeDirectory
<1>4. ASSUME session' = [session EXCEPT !.directory = Nothing], UNCHANGED lost PROVE SessionTyped'
  BY <1>1, <1>4, NothingArgument DEF SessionTyped, SessionState
<1>5. ASSUME NEW v \in Variable, NEW value \in Value, Export(v, value) \/ RunExport(v, value)
      PROVE  SessionTyped'
  <2>1. session'.directory = session.directory
    BY <1>1, <1>5 DEF Export, RunExport, SessionState
  <2>2. lost' \subseteq Variable
    BY <1>5 DEF Export, RunExport, SessionTyped
  <2> QED
    BY <2>1, <2>2 DEF SessionTyped
<1> QED
  BY <1>3, <1>4, <1>5 DEF ShellNext, RunCd, RunOther, RunRemove, shellVars, SessionTyped

\* The types of the shell and the session: what the session remembers of the
\* directory is an argument of a cd, a parent taken for a name with an extension
\* included (changeDirectory).
THEOREM ShellTypesHold == ShellSpec => []ShellTypeOK
<1>1. ShellInit => SessionTyped
  BY NothingArgument DEF ShellInit, SessionTyped
<1>2. ShellIInv /\ SessionTyped => ShellTypeOK
  BY DEF ShellIInv, SessionTyped, ShellTypeOK, ShellState, SessionState, Environment
<1> QED
  BY <1>1, <1>2, InitShell, NextShell, SessionTypedKept, PTL DEF ShellSpec

-----------------------------------------------------------------------------
(* AppDeploy, for any applications, versions and dependencies, however     *)
(* deep the requests are.  The invariant: what was verified, found or      *)
(* remembered, and not touched since, is on the target; so is what a       *)
(* recorded application depends on; and every request in progress has the  *)
(* dependencies before its next one behind it.                             *)

Requested == [app : App, version : Version, force : BOOLEAN, step : DeployStep, next : Nat \ {0}]

LEMMA DeployInitTyped == DeployInit => DeployTypeOK
<1> SUFFICES ASSUME DeployInit PROVE DeployTypeOK
  OBVIOUS
<1>1. requests \in Seq(Requested) /\ MaxChanges \in Nat
  BY EmptySeq, DeployAssumption DEF DeployInit
<1> QED
  BY <1>1 DEF DeployInit, DeployTypeOK, Requested

\* The request in progress, and those that it is a dependency of.
LEMMA RequestsInProgress ==
    ASSUME DeployTypeOK, requests # <<>>
    PROVE  /\ Len(requests) \in Nat \ {0}
           /\ Current \in Requested
           /\ Front(requests) \in Seq(Requested)
           /\ Len(Front(requests)) = Len(requests) - 1
<1>1. requests \in Seq(Requested)
  BY DEF DeployTypeOK, Requested
<1>2. Len(requests) \in Nat \ {0}
  BY <1>1, EmptySeq
<1>3. Current \in Requested
  BY <1>1, <1>2 DEF Current, Last
<1>4. \A i \in 1 .. Len(requests) - 1 : requests[i] \in Requested
  BY <1>1, <1>2
<1> DEFINE n == Len(requests) - 1
<1>5. n \in Nat
  BY <1>2
<1>6. 1 \in Int /\ n \in Int /\ \A i \in 1 .. n : requests[i] \in Requested
  BY <1>2, <1>4
<1>7. /\ SubSeq(requests, 1, n) \in Seq(Requested)
      /\ Len(SubSeq(requests, 1, n)) = IF 1 <= n THEN n - 1 + 1 ELSE 0
  <2> HIDE DEF n
  <2> QED
    BY <1>6, SubSeqProperties
<1>8. SubSeq(requests, 1, n) \in Seq(Requested) /\ Len(SubSeq(requests, 1, n)) = n
  <2> HIDE DEF n
  <2> QED
    BY <1>5, <1>7
<1> QED
  BY <1>2, <1>3, <1>8 DEF Front

LEMMA ReplacedTyped ==
    ASSUME DeployTypeOK, requests # <<>>, NEW r \in Requested
    PROVE  Replaced(r) \in Seq(Requested)
BY RequestsInProgress DEF Replaced

LEMMA GoesOnTyped ==
    ASSUME DeployTypeOK, requests # <<>>, NEW step \in DeployStep, GoesOn(step)
    PROVE  requests' \in Seq(Requested)
<1>1. [Current EXCEPT !.step = step] \in Requested
  BY RequestsInProgress DEF Requested
<1> QED
  BY <1>1, ReplacedTyped DEF GoesOn

\* A request returns to one that goes on to its next dependency.
LEMMA ReturnsTyped ==
    ASSUME DeployTypeOK, requests # <<>>, Returns
    PROVE  requests' \in Seq(Requested) /\ outcome' \in {"none", "ok", "error"}
<1>1. outcome' \in {"none", "ok", "error"}
  BY DEF Returns, DeployTypeOK
<1>2. CASE Len(requests) = 1
  BY <1>1, <1>2, EmptySeq DEF Returns
<1>3. CASE Len(requests) # 1
  <2> DEFINE i == Len(requests) - 1
             caller == [Front(requests)[i] EXCEPT !.next = @ + 1]
  <2>1. i \in 1 .. Len(Front(requests)) /\ Front(requests) \in Seq(Requested)
    BY <1>3, RequestsInProgress
  <2>2. Front(requests)[i] \in Requested
    BY <2>1
  <2>3. caller \in Requested
    BY <2>2 DEF Requested
  <2>4. requests' = [Front(requests) EXCEPT ![i] = caller]
    BY <1>3 DEF Returns
  <2> HIDE DEF caller, i
  <2>5. [Front(requests) EXCEPT ![i] = caller] \in Seq(Requested)
    BY <2>1, <2>3, ExceptSeq
  <2> QED
    BY <1>1, <2>4, <2>5
<1> QED
  BY <1>2, <1>3

\* What a copy may install, and the version it is recorded under.
LEMMA CopiedTyped ==
    ASSUME NEW a \in App, NEW version \in Version
    PROVE  /\ Discovered(a, version) \subseteq Version
           /\ Copied(a, version) \subseteq Version \ {<<>>}
BY DeployAssumption DEF Discovered, Copied

LEMMA DeployTyped == DeployTypeOK /\ [DeployNext]_deployVars => DeployTypeOK'
<1> SUFFICES ASSUME DeployTypeOK, [DeployNext]_deployVars PROVE DeployTypeOK'
  OBVIOUS
<1> USE DEF DeployTypeOK
<1>1. ASSUME NEW a \in App, OthersChange(a) PROVE DeployTypeOK'
  BY <1>1, DeployAssumption DEF OthersChange
<1>2. ASSUME NEW a \in App, NEW version \in Version, NEW force \in BOOLEAN,
             AskApp(a, version, force)
      PROVE  DeployTypeOK'
  <2>1. Deployment(a, version, force) \in Requested
    BY DEF Deployment, Requested, DeployStep
  <2>2. <<Deployment(a, version, force)>> \in Seq(Requested)
    BY <2>1
  <2> QED
    BY <1>2, <2>2 DEF AskApp, Requested
<1>3. CASE CheckSession
  <2>1. requests # <<>> /\ (Returns \/ (GoesOn("dependencies") /\ UNCHANGED outcome))
    BY <1>3 DEF CheckSession, At
  <2>2. requests' \in Seq(Requested) /\ outcome' \in {"none", "ok", "error"}
    BY <2>1, ReturnsTyped, GoesOnTyped DEF DeployStep
  <2> QED
    BY <1>3, <2>2 DEF CheckSession, Requested
<1>4. CASE DeployDependency
  <2> DEFINE d == Dependencies[Current.app][Current.next]
  <2>1. requests \in Seq(Requested) /\ Current.app \in App /\ Current.next \in Nat \ {0}
    BY <1>4, RequestsInProgress DEF DeployDependency, At, Requested
  <2>2. Dependencies[Current.app] \in Seq([app : App, version : Version])
    BY <2>1, DeployAssumption
  <2>3. Current.next \in 1 .. Len(Dependencies[Current.app])
    BY <1>4, <2>1, <2>2 DEF DeployDependency
  <2>4. d \in [app : App, version : Version]
    BY <2>2, <2>3, ElementOfSeq
  <2>5. Deployment(d.app, d.version, FALSE) \in Requested
    BY <2>4 DEF Deployment, Requested, DeployStep
  <2>6. requests' = Append(requests, Deployment(d.app, d.version, FALSE))
    BY <1>4 DEF DeployDependency
  <2> DEFINE r == Deployment(d.app, d.version, FALSE)
  <2>8. requests' = Append(requests, r) /\ r \in Requested
    BY <2>5, <2>6
  <2> HIDE DEF r
  <2>7. requests' \in Seq(Requested)
    BY <2>1, <2>8
  <2> QED
    BY <1>4, <2>7 DEF DeployDependency, Requested
<1>5. CASE CheckSystem
  <2>1. requests # <<>> /\ (Returns \/ (GoesOn("pre") /\ UNCHANGED outcome))
    BY <1>5 DEF CheckSystem, At
  <2>2. requests' \in Seq(Requested) /\ outcome' \in {"none", "ok", "error"}
    BY <2>1, ReturnsTyped, GoesOnTyped DEF DeployStep
  <2> QED
    BY <1>5, <2>2 DEF CheckSystem, Requested
<1>6. CASE RunPre
  <2>1. requests # <<>> /\ Current \in Requested /\ Current.app \in App
    BY <1>6, RequestsInProgress DEF RunPre, At, Requested
  <2>2. PICK version \in Discovered(Current.app, Current.version) :
           requests' = Replaced([Current EXCEPT !.version = version, !.step = "copy"])
    BY <1>6 DEF RunPre
  <2>3. version \in Version
    BY <2>1, CopiedTyped DEF Requested
  <2>4. [Current EXCEPT !.version = version, !.step = "copy"] \in Requested
    BY <2>1, <2>3 DEF Requested, DeployStep
  <2>5. requests' \in Seq(Requested)
    BY <2>1, <2>2, <2>4, ReplacedTyped
  <2>6. installed' \in [App -> (Version \ {<<>>}) \cup {NotThere}]
    BY <1>6, <2>1 DEF RunPre
  <2> QED
    BY <1>6, <2>1, <2>5, <2>6 DEF RunPre, Requested
<1>11. CASE CopyApp
  <2>1. requests # <<>> /\ Current \in Requested /\ Current.app \in App
        /\ Current.version \in Version
    BY <1>11, RequestsInProgress DEF CopyApp, At, Requested
  <2>2. PICK copied \in Copied(Current.app, Current.version) :
           installed' = [installed EXCEPT ![Current.app] = copied]
    BY <1>11 DEF CopyApp
  <2>3. requests' \in Seq(Requested)
    BY <1>11, GoesOnTyped DEF CopyApp, At, DeployStep
  <2>4. installed' \in [App -> (Version \ {<<>>}) \cup {NotThere}]
    BY <2>1, <2>2, CopiedTyped
  <2> QED
    BY <1>11, <2>3, <2>4 DEF CopyApp, Requested
<1>7. CASE RunCommands
  <2>1. requests' \in Seq(Requested)
    BY <1>7, GoesOnTyped DEF RunCommands, At, DeployStep
  <2> QED
    BY <1>7, <2>1 DEF RunCommands, Requested
<1>8. CASE Verify
  <2>1. requests # <<>> /\ Current.app \in App /\ Current.version \in Version
    BY <1>8, RequestsInProgress DEF Verify, At, Requested
  <2>2. requests' \in Seq(Requested) /\ outcome' \in {"none", "ok", "error"}
    BY <1>8, <2>1, ReturnsTyped DEF Verify
  <2> QED
    BY <1>8, <2>1, <2>2 DEF Verify, Requested
<1>9. CASE DeployFails
  BY <1>9, EmptySeq DEF DeployFails, NowSpoiled
<1>10. CASE UNCHANGED deployVars
  BY <1>10 DEF deployVars
<1> QED
  BY <1>1, <1>2, <1>3, <1>4, <1>5, <1>6, <1>7, <1>8, <1>9, <1>10, <1>11 DEF DeployNext


-----------------------------------------------------------------------------
(* Prefixes, for MatchVersion.                                             *)

LEMMA PrefixElements ==
    ASSUME NEW S, NEW s \in Seq(S), NEW t \in Seq(S)
    PROVE  IsPrefix(s, t) <=> Len(s) <= Len(t) /\ \A i \in 1 .. Len(s) : s[i] = t[i]
<1>1. PICK m \in Nat : m = Len(s)
  OBVIOUS
<1>2. SubSeq(s, 1, m) = s
  BY <1>1
<1>3. ASSUME m <= Len(t)
      PROVE  SubSeq(t, 1, m) = s <=> \A i \in 1 .. m : s[i] = t[i]
  <2>1. /\ SubSeq(t, 1, m) \in Seq(S) /\ Len(SubSeq(t, 1, m)) = m
        /\ \A i \in 1 .. m : SubSeq(t, 1, m)[i] = t[i]
    BY <1>1, <1>3
  <2> QED
    BY <1>1, <2>1
<1> QED
  BY <1>1, <1>2, <1>3 DEF IsPrefix

LEMMA PrefixItself == ASSUME NEW S, NEW s \in Seq(S) PROVE IsPrefix(s, s)
  BY PrefixElements

LEMMA PrefixOfPrefix ==
    ASSUME NEW S, NEW s \in Seq(S), NEW t \in Seq(S), NEW u \in Seq(S),
           IsPrefix(s, t), IsPrefix(t, u)
    PROVE  IsPrefix(s, u)
<1>1. PICK l \in Nat, m \in Nat, n \in Nat : l = Len(s) /\ m = Len(t) /\ n = Len(u)
  OBVIOUS
<1>2. l <= m /\ m <= n /\ \A i \in 1 .. l : s[i] = t[i]
  BY <1>1, PrefixElements
<1>3. \A i \in 1 .. m : t[i] = u[i]
  BY <1>1, PrefixElements
<1>4. l <= n /\ \A i \in 1 .. l : s[i] = u[i]
  BY <1>2, <1>3
<1> QED
  BY <1>1, <1>4, PrefixElements

LEMMA PrefixesMatch ==
    ASSUME NEW S, NEW s \in Seq(S), NEW t \in Seq(S), NEW u \in Seq(S),
           IsPrefix(s, u), IsPrefix(t, u)
    PROVE  MatchVersion(s, t)
<1>1. PICK l \in Nat, m \in Nat : l = Len(s) /\ m = Len(t)
  OBVIOUS
<1>2. (\A i \in 1 .. l : s[i] = u[i]) /\ (\A i \in 1 .. m : t[i] = u[i])
  BY <1>1, PrefixElements
<1>3. CASE l <= m
  BY <1>1, <1>2, <1>3, PrefixElements DEF MatchVersion
<1>4. CASE m <= l
  BY <1>1, <1>2, <1>4, PrefixElements DEF MatchVersion
<1> QED
  BY <1>3, <1>4

\* What a prefix of a version asks for, the same target answers.
LEMMA MatchThrough ==
    ASSUME NEW S, NEW s \in Seq(S), NEW t \in Seq(S), NEW u \in Seq(S),
           IsPrefix(s, t), MatchVersion(t, u)
    PROVE  MatchVersion(s, u)
<1>1. CASE IsPrefix(t, u)
  BY <1>1, PrefixOfPrefix DEF MatchVersion
<1>2. CASE IsPrefix(u, t)
  BY <1>2, PrefixesMatch
<1> QED
  BY <1>1, <1>2 DEF MatchVersion

\* By way of a record, unless that says less than what is asked for.
LEMMA MatchRecorded ==
    ASSUME NEW S, NEW s \in Seq(S), NEW t \in Seq(S), NEW u \in Seq(S), NEW v \in Seq(S),
           IsPrefix(s, t), MatchVersion(t, u), MatchVersion(u, v)
    PROVE  MatchVersion(s, v) \/ IsStrictPrefix(u, s)
<1>1. MatchVersion(s, u)
  BY MatchThrough
<1>2. CASE IsPrefix(s, u)
  BY <1>2, MatchThrough
<1>3. CASE IsPrefix(u, s) /\ ~IsPrefix(s, u)
  BY <1>3, PrefixItself DEF IsStrictPrefix
<1> QED
  BY <1>1, <1>2, <1>3 DEF MatchVersion

LEMMA VersionsAre ==
    /\ Version \subseteq Seq(STRING) /\ VersionChecked \subseteq App
    /\ \A a \in App : Dependencies[a] \in Seq([app : App, version : Version])
  BY DeployAssumption

LEMMA DependenciesAre ==
    ASSUME NEW a \in App
    PROVE  /\ Len(Dependencies[a]) \in Nat /\ DOMAIN Dependencies[a] = 1 .. Len(Dependencies[a])
           /\ \A i \in DOMAIN Dependencies[a] :
                 Dependencies[a][i] \in [app : App, version : Version]
<1>1. PICK s \in Seq([app : App, version : Version]) : s = Dependencies[a]
  BY VersionsAre
<1>2. Len(s) \in Nat /\ DOMAIN s = 1 .. Len(s)
  BY <1>1
<1>3. \A i \in 1 .. Len(s) : s[i] \in [app : App, version : Version]
  BY <1>1, ElementOfSeq
<1> QED
  BY <1>1, <1>2, <1>3

-----------------------------------------------------------------------------
(* What is there stays there.                                              *)

Sure(a) == a \notin spoiled /\ ~Changing(a)
OnTarget(a) == Sure(a) => installed[a] # NotThere
DependencyOf(a, i) == Dependencies[a][i].app
DependenciesThere(a) == \A i \in DOMAIN Dependencies[a] : OnTarget(DependencyOf(a, i))

\* The record of an application that nobody has touched since.
RecordTrue(a) ==
    recorded[a] # NotThere =>
       /\ DependenciesThere(a)
       /\ Sure(a) => /\ installed[a] # NotThere
                     /\ a \in VersionChecked => MatchVersion(recorded[a], installed[a])

\* A request has deployed its first dependencies, or all of them.
DoneBefore(r) ==
    /\ r.step \in {"pre", "copy", "run", "verify"} => r.next > Len(Dependencies[r.app])
    /\ \A i \in DOMAIN Dependencies[r.app] : i < r.next => OnTarget(DependencyOf(r.app, i))

\* It waits for a dependency.
WaitsFor(r, a) ==
    /\ r.step = "dependencies" /\ r.next \in DOMAIN Dependencies[r.app]
    /\ DependencyOf(r.app, r.next) = a

InOrder ==
    /\ \A j \in 1 .. Len(requests) : DoneBefore(requests[j])
    /\ \A j \in 1 .. Len(requests) : j < Len(requests) => WaitsFor(requests[j], requests[j + 1].app)

AskedFirst ==
    requests # <<>> => requests[1].app = asked.app /\ IsPrefix(asked.version, requests[1].version)

EndedWell == outcome = "ok" => requests = <<>> /\ asked.app \in App /\ OkIsThere

DeployIInv ==
    DeployTypeOK /\ (\A a \in App : RecordTrue(a)) /\ InOrder /\ AskedFirst /\ EndedWell

ThereStays == \A a \in App : OnTarget(a) => OnTarget(a)'

LEMMA InitDeployIInv == DeployInit => DeployIInv
<1> SUFFICES ASSUME DeployInit PROVE DeployIInv
  OBVIOUS
<1>1. requests = <<>> /\ Len(requests) = 0 /\ outcome = "none"
  BY DEF DeployInit
<1>2. \A a \in App : RecordTrue(a)
  BY DEF DeployInit, RecordTrue
<1>3. InOrder
  BY <1>1 DEF InOrder
<1> QED
  BY <1>1, <1>2, <1>3, DeployInitTyped DEF DeployIInv, AskedFirst, EndedWell

LEMMA AllThere ==
    ASSUME ThereStays, NEW a \in App, DependenciesThere(a) PROVE DependenciesThere(a)'
<1> SUFFICES ASSUME NEW i \in DOMAIN Dependencies[a] PROVE OnTarget(DependencyOf(a, i))'
  BY DEF DependenciesThere, DependencyOf
<1>1. Dependencies[a][i] \in [app : App, version : Version]
  BY DependenciesAre
<1>2. OnTarget(DependencyOf(a, i))
  BY DEF DependenciesThere
<1> QED
  BY <1>1, <1>2 DEF ThereStays, DependencyOf

\* Steps that change neither the target nor what is remembered.
LEMMA SteadyRecords ==
    ASSUME \A a \in App : RecordTrue(a), UNCHANGED <<installed, recorded>>,
           \A a \in App : Sure(a)' => Sure(a)
    PROVE  ThereStays /\ \A a \in App : RecordTrue(a)'
<1>1. ThereStays
  BY DEF ThereStays, OnTarget
<1>2. ASSUME NEW a \in App PROVE RecordTrue(a)'
  BY <1>1, AllThere DEF RecordTrue
<1> QED
  BY <1>1, <1>2

\* Steps that change the target, of an application that is not sure after them.
LEMMA ChangingRecords ==
    ASSUME DeployTypeOK, \A a \in App : RecordTrue(a), recorded' = recorded,
           NEW b, \A a \in App : a # b => installed'[a] = installed[a],
           ~Sure(b)', \A a \in App : Sure(a)' => Sure(a) \/ a = b
    PROVE  ThereStays /\ \A a \in App : RecordTrue(a)'
<1>1. ThereStays
  BY DEF ThereStays, OnTarget
<1>2. ASSUME NEW a \in App PROVE RecordTrue(a)'
  BY <1>1, AllThere DEF RecordTrue
<1> QED
  BY <1>1, <1>2

-----------------------------------------------------------------------------
(* The requests in progress.                                               *)

LEMMA CurrentIs ==
    ASSUME DeployTypeOK, requests # <<>>
    PROVE  /\ Len(requests) \in Nat \ {0} /\ Current = requests[Len(requests)]
           /\ Current \in Requested /\ Current.app \in App /\ Current.next \in Nat \ {0}
           /\ Current.version \in Version
           /\ \A j \in 1 .. Len(requests) : requests[j] \in Requested /\ requests[j].app \in App
<1>1. requests \in Seq(Requested)
  BY DEF DeployTypeOK, Requested
<1>2. \A j \in 1 .. Len(requests) : requests[j] \in Requested
  BY <1>1, ElementOfSeq
<1> QED
  BY <1>2, RequestsInProgress DEF Current, Last, Requested

LEMMA FrontIs ==
    ASSUME DeployTypeOK, requests # <<>>
    PROVE  /\ Front(requests) \in Seq(Requested) /\ Len(Front(requests)) = Len(requests) - 1
           /\ \A j \in 1 .. Len(requests) : j < Len(requests) => Front(requests)[j] = requests[j]
<1>1. requests \in Seq(Requested)
  BY DEF DeployTypeOK, Requested
<1>2. PICK n \in Nat : n = Len(requests) - 1
  BY RequestsInProgress
<1>3. \A j \in 1 .. n : SubSeq(requests, 1, n)[j] = requests[j]
  BY <1>1, <1>2, RequestsInProgress
<1> QED
  BY <1>2, <1>3, RequestsInProgress DEF Front

LEMMA ReplacedIs ==
    ASSUME DeployTypeOK, requests # <<>>, NEW r \in Requested, requests' = Replaced(r)
    PROVE  /\ requests' # <<>> /\ Len(requests') = Len(requests) /\ requests'[Len(requests)] = r
           /\ Current' = r
           /\ \A j \in 1 .. Len(requests) : j < Len(requests) => requests'[j] = requests[j]
<1>1. PICK f \in Seq(Requested), n \in Nat :
         /\ f = Front(requests) /\ n = Len(f) /\ Len(requests) = n + 1
         /\ \A j \in 1 .. n : f[j] = requests[j]
  <2>1. Len(requests) \in Nat \ {0}
    BY CurrentIs
  <2> QED
    BY <2>1, FrontIs
<1>2. requests' = Append(f, r)
  BY <1>1 DEF Replaced
<1>3. /\ Len(requests') = n + 1 /\ requests'[n + 1] = r
      /\ \A j \in 1 .. n : requests'[j] = f[j]
  BY <1>1, <1>2
<1>4. requests' # <<>>
  BY <1>1, <1>3
<1> QED
  BY <1>1, <1>3, <1>4 DEF Current, Last

LEMMA ReturnedTo ==
    ASSUME DeployTypeOK, requests # <<>>, Returns
    PROVE  \/ Len(requests) = 1 /\ requests' = <<>> /\ outcome' = "ok"
           \/ \E m \in Nat \ {0} :
                 /\ Len(requests) = m + 1 /\ Len(requests') = m /\ requests' # <<>>
                 /\ requests'[m] = [requests[m] EXCEPT !.next = @ + 1]
                 /\ \A j \in 1 .. m : j < m => requests'[j] = requests[j]
                 /\ Current' = requests'[m] /\ outcome' = outcome
<1>1. CASE Len(requests) = 1
  BY <1>1 DEF Returns
<1>2. CASE Len(requests) # 1
  <2>1. PICK f \in Seq(Requested), m \in Nat \ {0} :
           /\ f = Front(requests) /\ m = Len(f) /\ Len(requests) = m + 1
           /\ \A j \in 1 .. m : f[j] = requests[j]
    <3>1. Len(requests) \in Nat \ {0}
      BY CurrentIs
    <3>2. Len(requests) - 1 \in Nat \ {0}
      BY <1>2, <3>1
    <3> QED
      BY <3>1, <3>2, FrontIs
  <2>2. m = Len(requests) - 1
    BY <2>1
  <2>3. PICK caller : caller = [f[m] EXCEPT !.next = @ + 1]
    OBVIOUS
  <2>4. requests' = [f EXCEPT ![m] = caller] /\ outcome' = outcome
    BY <1>2, <2>1, <2>2, <2>3 DEF Returns
  <2>5. /\ Len(requests') = m /\ requests'[m] = caller
        /\ \A j \in 1 .. m : j < m => requests'[j] = f[j]
    <3>1. f \in [1 .. m -> Requested] /\ m \in 1 .. m
      BY <2>1
    <3>2. /\ DOMAIN requests' = 1 .. m /\ requests'[m] = caller
          /\ \A j \in 1 .. m : j < m => requests'[j] = f[j]
      BY <2>4, <3>1
    <3>3. caller \in Requested
      <4>1. f[m] \in Requested
        BY <3>1
      <4> QED
        BY <2>3, <4>1 DEF Requested
    <3>4. requests' \in Seq(Requested)
      BY <2>1, <2>4, <3>1, <3>3, ExceptSeq
    <3>5. Len(requests') = m
      BY <2>1, <3>2, <3>4
    <3> QED
      BY <3>2, <3>5
  <2>6. requests' # <<>>
    BY <2>1, <2>5
  <2>7. Current' = requests'[m]
    BY <2>5 DEF Current, Last
  <2>8. f[m] = requests[m] /\ \A j \in 1 .. m : j < m => requests'[j] = requests[j]
    BY <2>1, <2>5
  <2> QED
    BY <2>1, <2>3, <2>4, <2>5, <2>6, <2>7, <2>8
<1> QED
  BY <1>1, <1>2

\* A request goes on with its own application.
LEMMA GoesOnInOrder ==
    ASSUME DeployTypeOK, InOrder, AskedFirst, ThereStays, asked' = asked,
           requests # <<>>, NEW r \in Requested, requests' = Replaced(r),
           r.app = Current.app, r.next = Current.next,
           IsPrefix(Current.version, r.version),
           r.step \in {"pre", "copy", "run", "verify"} => r.next > Len(Dependencies[r.app])
    PROVE  InOrder' /\ AskedFirst'
<1>1. PICK n \in Nat \ {0} :
         /\ n = Len(requests) /\ requests' # <<>> /\ Len(requests') = n /\ requests'[n] = r
         /\ \A j \in 1 .. n : j < n => requests'[j] = requests[j]
         /\ Current = requests[n]
  BY CurrentIs, ReplacedIs
<1>2. ASSUME NEW q \in Requested, DoneBefore(q)
      PROVE  \A i \in DOMAIN Dependencies[q.app] : i < q.next => OnTarget(DependencyOf(q.app, i))'
  <2>1. q.app \in App
    BY DEF Requested
  <2> QED
    BY <1>2, <2>1, DependenciesAre DEF DoneBefore, ThereStays, DependencyOf
<1>3. ASSUME NEW j \in 1 .. n PROVE DoneBefore(requests[j])'
  <2>1. requests[j] \in Requested /\ DoneBefore(requests[j])
    BY <1>1, CurrentIs DEF InOrder
  <2>2. CASE j < n
    BY <1>1, <1>2, <2>1, <2>2 DEF DoneBefore, DependencyOf
  <2>3. CASE j = n
    BY <1>1, <1>2, <2>1, <2>3 DEF DoneBefore, DependencyOf
  <2> QED
    BY <1>1, <2>2, <2>3
<1>4. ASSUME NEW j \in 1 .. n, j < n PROVE WaitsFor(requests[j], requests[j + 1].app)'
  <2>1. WaitsFor(requests[j], requests[j + 1].app)
    BY <1>1, <1>4 DEF InOrder
  <2>2. requests'[j] = requests[j] /\ requests'[j + 1].app = requests[j + 1].app
    <3>1. CASE j + 1 = n
      BY <1>1, <1>4, <3>1
    <3>2. CASE j + 1 < n
      BY <1>1, <1>4, <3>2
    <3> QED
      BY <1>1, <1>4, <3>1, <3>2
  <2> QED
    BY <2>1, <2>2 DEF WaitsFor, DependencyOf
<1>5. InOrder'
  BY <1>1, <1>3, <1>4 DEF InOrder
<1>6. AskedFirst'
  <2>1. CASE n = 1
    <3>1. Current.version \in Seq(STRING) /\ r.version \in Seq(STRING)
          /\ asked.version \in Seq(STRING)
      <4>1. asked.version \in Version
        BY DeployAssumption DEF DeployTypeOK, NothingAsked
      <4>2. Current.version \in Version /\ r.version \in Version
        BY CurrentIs DEF Requested
      <4> QED
        BY <4>1, <4>2, VersionsAre
    <3>2. Current.app = asked.app /\ IsPrefix(asked.version, Current.version)
      BY <1>1, <2>1 DEF AskedFirst
    <3>3. IsPrefix(asked.version, r.version)
      BY <3>1, <3>2, PrefixOfPrefix
    <3> QED
      BY <1>1, <2>1, <3>2, <3>3 DEF AskedFirst
  <2>2. CASE n # 1
    BY <1>1, <2>2 DEF AskedFirst
  <2> QED
    BY <2>1, <2>2
<1> QED
  BY <1>5, <1>6

\* A request whose application is there returns to the one that waits for it.
LEMMA ReturnsInOrder ==
    ASSUME DeployTypeOK, InOrder, AskedFirst, ThereStays, asked' = asked,
           requests # <<>>, Returns, NEW a \in App, a = Current.app, OnTarget(a)'
    PROVE  InOrder' /\ AskedFirst'
<1>1. CASE requests' = <<>>
  BY <1>1 DEF InOrder, AskedFirst
<1>2. CASE \E m \in Nat \ {0} :
              /\ Len(requests) = m + 1 /\ Len(requests') = m /\ requests' # <<>>
              /\ requests'[m] = [requests[m] EXCEPT !.next = @ + 1]
              /\ \A j \in 1 .. m : j < m => requests'[j] = requests[j]
  <2>1. PICK m \in Nat \ {0} :
           /\ Len(requests) = m + 1 /\ Len(requests') = m /\ requests' # <<>>
           /\ requests'[m] = [requests[m] EXCEPT !.next = @ + 1]
           /\ \A j \in 1 .. m : j < m => requests'[j] = requests[j]
    BY <1>2
  <2>2. /\ Current = requests[m + 1] /\ a = Current.app
        /\ \A j \in 1 .. m + 1 : requests[j] \in Requested /\ requests[j].app \in App
    BY <2>1, CurrentIs
  <2>3. PICK caller \in Requested : caller = requests[m] /\ caller.app \in App
                                    /\ caller.next \in Nat
    BY <2>2 DEF Requested
  <2>4. /\ requests'[m].app = caller.app /\ requests'[m].step = caller.step
        /\ requests'[m].version = caller.version /\ requests'[m].next = caller.next + 1
    BY <2>1, <2>3 DEF Requested
  <2>5. WaitsFor(caller, Current.app) /\ DoneBefore(caller)
    BY <2>1, <2>2, <2>3 DEF InOrder
  <2>6. DoneBefore(requests[m])'
    <3> SUFFICES ASSUME NEW i \in DOMAIN Dependencies[caller.app], i < caller.next + 1
                 PROVE  OnTarget(DependencyOf(caller.app, i))'
      BY <2>4, <2>5 DEF DoneBefore, WaitsFor, DependencyOf
    <3>1. i \in Nat /\ Dependencies[caller.app][i] \in [app : App, version : Version]
      BY <2>3, DependenciesAre
    <3>2. CASE i < caller.next
      BY <2>5, <3>1, <3>2 DEF DoneBefore, ThereStays, DependencyOf
    <3>3. CASE i = caller.next
      BY <2>2, <2>5, <3>3 DEF WaitsFor, DependencyOf
    <3> QED
      BY <2>3, <3>1, <3>2, <3>3
  <2>7. ASSUME NEW j \in 1 .. m PROVE DoneBefore(requests[j])'
    <3>1. CASE j = m
      BY <2>6, <3>1
    <3>2. CASE j < m
      <4>1. requests'[j] = requests[j] /\ DoneBefore(requests[j]) /\ requests[j].app \in App
        BY <2>1, <2>2, <3>2 DEF InOrder
      <4>2. PICK q : q = requests[j]
        OBVIOUS
      <4>3. \A i \in DOMAIN Dependencies[q.app] : i < q.next => OnTarget(DependencyOf(q.app, i))'
        BY <4>1, <4>2, DependenciesAre DEF DoneBefore, ThereStays, DependencyOf
      <4> QED
        BY <4>1, <4>2, <4>3 DEF DoneBefore, DependencyOf
    <3> QED
      BY <2>1, <3>1, <3>2
  <2>8. ASSUME NEW j \in 1 .. m, j < m PROVE WaitsFor(requests[j], requests[j + 1].app)'
    <3>1. WaitsFor(requests[j], requests[j + 1].app)
      BY <2>1, <2>8 DEF InOrder
    <3>2. requests'[j] = requests[j]
      BY <2>1, <2>8
    <3>3. requests'[j + 1].app = requests[j + 1].app
      <4>1. CASE j + 1 = m
        BY <2>3, <2>4, <4>1
      <4>2. CASE j + 1 < m
        BY <2>1, <2>8, <4>2
      <4> QED
        BY <2>1, <2>8, <4>1, <4>2
    <3> QED
      BY <3>1, <3>2, <3>3 DEF WaitsFor, DependencyOf
  <2>9. AskedFirst'
    <3>1. requests'[1].app = requests[1].app /\ requests'[1].version = requests[1].version
      <4>1. CASE m = 1
        BY <2>3, <2>4, <4>1
      <4>2. CASE m # 1
        BY <2>1, <4>2
      <4> QED
        BY <4>1, <4>2
    <3> QED
      BY <3>1 DEF AskedFirst
  <2> QED
    BY <2>1, <2>7, <2>8, <2>9 DEF InOrder
<1> QED
  BY <1>1, <1>2, ReturnedTo

\* The first request returns: the end of what was asked for.
LEMMA ReturnsEnded ==
    ASSUME DeployTypeOK, AskedFirst, EndedWell, asked' = asked, requests # <<>>, Returns,
           NEW a \in App, a = Current.app, OnTarget(a)', DependenciesThere(a)',
           a \in VersionChecked \ spoiled' =>
              \A s \in Version : IsPrefix(s, Current.version) =>
                 MatchVersion(s, installed'[a]) \/ IsStrictPrefix(recorded'[a], s)
    PROVE  EndedWell'
<1>1. CASE Len(requests) = 1 /\ requests' = <<>> /\ outcome' = "ok"
  <2>1. Current = requests[1] /\ Current.app \in App /\ Current.app = asked.app
        /\ IsPrefix(asked.version, Current.version) /\ asked.version \in Version
        /\ a = asked.app
    BY <1>1, CurrentIs, DeployAssumption DEF AskedFirst, DeployTypeOK, NothingAsked
  <2>2. \A c : Sure(c)' <=> c \notin spoiled'
    BY <1>1 DEF Sure, Changing
  <2>3. \A c \in Needed(asked.app) \ spoiled' : installed'[c] # NotThere
    BY <2>1, <2>2, DependenciesAre DEF Needed, OnTarget, DependenciesThere, DependencyOf
  <2> QED
    BY <1>1, <2>1, <2>3 DEF EndedWell, OkIsThere, Needed
<1>2. CASE outcome' = outcome
  BY <1>2 DEF EndedWell, Returns
<1>3. CASE \E m \in Nat \ {0} : Len(requests) = m + 1 /\ outcome' = outcome
  BY <1>2, <1>3
<1> QED
  BY <1>1, <1>3, <1>2, ReturnedTo

LEMMA RequestedBy ==
    ASSUME DeployTypeOK, DeployIInv, requests # <<>>
    PROVE  /\ DoneBefore(Current) /\ RecordTrue(Current.app) /\ Current.app \in App
           /\ outcome # "ok"
  BY CurrentIs DEF DeployIInv, InOrder, EndedWell

\* The target has the version: what is asked for, as a prefix of it, is there.
LEMMA FoundThere ==
    ASSUME DeployTypeOK, requests # <<>>, NEW a \in App, a = Current.app,
           DeployedOnSystem(a, Current.version)
    PROVE  /\ installed[a] # NotThere
           /\ a \in VersionChecked =>
                 \A s \in Version : IsPrefix(s, Current.version) => MatchVersion(s, installed[a])
<1>1. installed[a] # NotThere
  BY DEF DeployedOnSystem
<1>2. installed[a] \in Version
  BY <1>1 DEF DeployTypeOK
<1>3. Current.version \in Seq(STRING) /\ installed[a] \in Seq(STRING) /\ Version \subseteq Seq(STRING)
  BY <1>2, CurrentIs, VersionsAre
<1>4. ASSUME a \in VersionChecked, NEW s \in Version, IsPrefix(s, Current.version)
      PROVE  MatchVersion(s, installed[a])
  <2>1. MatchVersion(Current.version, installed[a]) /\ s \in Seq(STRING)
    BY <1>3, <1>4 DEF DeployedOnSystem
  <2> QED
    BY <1>3, <1>4, <2>1, MatchThrough
<1> QED
  BY <1>1, <1>4

\* A record that is true, and that the request matches.
LEMMA RememberedThere ==
    ASSUME DeployTypeOK, requests # <<>>, NEW a \in App, a = Current.app, RecordTrue(a),
           Remembered(Current), Sure(a)
    PROVE  /\ installed[a] # NotThere
           /\ a \in VersionChecked =>
                 \A s \in Version : IsPrefix(s, Current.version) =>
                    MatchVersion(s, installed[a]) \/ IsStrictPrefix(recorded[a], s)
<1>1. recorded[a] # NotThere /\ MatchVersion(Current.version, recorded[a]) /\ installed[a] # NotThere
  BY DEF Remembered, RecordTrue
<1>2. installed[a] \in Version /\ recorded[a] \in Version
  BY <1>1 DEF DeployTypeOK
<1>3. /\ Current.version \in Seq(STRING) /\ installed[a] \in Seq(STRING)
      /\ recorded[a] \in Seq(STRING) /\ Version \subseteq Seq(STRING)
  BY <1>2, CurrentIs, VersionsAre
<1>4. ASSUME a \in VersionChecked, NEW s \in Version, IsPrefix(s, Current.version)
      PROVE  MatchVersion(s, installed[a]) \/ IsStrictPrefix(recorded[a], s)
  <2>1. MatchVersion(recorded[a], installed[a]) /\ s \in Seq(STRING)
    BY <1>1, <1>3, <1>4 DEF RecordTrue
  <2> QED
    BY <1>1, <1>3, <1>4, <2>1, MatchRecorded
<1> QED
  BY <1>1, <1>4

LEMMA AskedKept ==
    ASSUME DeployIInv, NEW b \in App, NEW version \in Version, NEW force \in BOOLEAN,
           AskApp(b, version, force)
    PROVE  DeployIInv'
<1> DEFINE r == Deployment(b, version, force)
<1>1. requests = <<>> /\ requests' = <<r>> /\ outcome' = "none"
      /\ asked' = [app |-> b, version |-> version] /\ UNCHANGED <<installed, recorded, spoiled>>
  BY DEF AskApp
<1>2. r.step = "session" /\ r.next = 1 /\ r.app = b /\ r.version = version
  BY DEF Deployment
<1>3. \A a : Sure(a)' => Sure(a)
  BY <1>1 DEF Sure, Changing
<1>4. \A a \in App : RecordTrue(a)'
  BY <1>1, <1>3, SteadyRecords DEF DeployIInv
<1>5. Len(<<r>>) = 1 /\ <<r>>[1] = r
  OBVIOUS
<1>6. DoneBefore(r)'
  <2>1. \A i \in DOMAIN Dependencies[b] : ~(i < 1)
    BY DependenciesAre
  <2> HIDE DEF r
  <2> QED
    BY <1>2, <2>1 DEF DoneBefore
<1>7. InOrder'
  <2> HIDE DEF r
  <2> QED
    BY <1>1, <1>5, <1>6 DEF InOrder
<1>8. AskedFirst'
  <2>1. IsPrefix(version, version)
    BY PrefixItself, VersionsAre
  <2> HIDE DEF r
  <2> QED
    BY <1>1, <1>2, <1>5, <2>1 DEF AskedFirst
<1>9. DeployTypeOK'
  BY DeployTyped DEF DeployIInv, DeployNext
<1> QED
  BY <1>1, <1>4, <1>7, <1>8, <1>9 DEF DeployIInv, EndedWell

LEMMA SessionKept == DeployIInv /\ CheckSession => DeployIInv'
<1> SUFFICES ASSUME DeployIInv, CheckSession PROVE DeployIInv'
  OBVIOUS
<1>1. DeployTypeOK /\ requests # <<>> /\ InOrder /\ AskedFirst /\ EndedWell
      /\ Current.step = "session" /\ Current \in Requested
  BY CurrentIs DEF DeployIInv, CheckSession, At
<1>2. PICK a \in App : a = Current.app /\ RecordTrue(a)
  BY <1>1, RequestedBy
<1>3. UNCHANGED <<installed, recorded, spoiled, asked>>
  BY DEF CheckSession
<1>4. \A c : Sure(c) <=> c \notin spoiled
  BY <1>1 DEF Sure, Changing
<1>5. ThereStays /\ \A c \in App : RecordTrue(c)'
  BY <1>3, <1>4, SteadyRecords DEF DeployIInv, Sure
<1>6. DeployTypeOK'
  BY <1>1, DeployTyped DEF DeployNext
<1>7. CASE Remembered(Current) /\ Returns
  <2>1. DependenciesThere(a)'
    BY <1>2, <1>5, <1>7, AllThere DEF RecordTrue, Remembered
  <2>2. Sure(a) => /\ installed[a] # NotThere
                   /\ a \in VersionChecked =>
                        \A s \in Version : IsPrefix(s, Current.version) =>
                           MatchVersion(s, installed[a]) \/ IsStrictPrefix(recorded[a], s)
    BY <1>1, <1>2, <1>7, RememberedThere
  <2>3. OnTarget(a)'
    BY <1>2, <1>5, <2>2 DEF ThereStays, OnTarget
  <2>4. InOrder' /\ AskedFirst'
    BY <1>1, <1>2, <1>3, <1>5, <1>7, <2>3, ReturnsInOrder
  <2>5. EndedWell'
    BY <1>1, <1>2, <1>3, <1>4, <1>7, <2>1, <2>2, <2>3, ReturnsEnded
  <2> QED
    BY <1>5, <1>6, <2>4, <2>5 DEF DeployIInv
<1>8. CASE GoesOn("dependencies") /\ UNCHANGED outcome
  <2>1. PICK r : r = [Current EXCEPT !.step = "dependencies"]
    OBVIOUS
  <2>2. /\ requests' = Replaced(r) /\ r \in Requested /\ r.app = Current.app
        /\ r.next = Current.next /\ r.version = Current.version /\ r.step = "dependencies"
    BY <1>1, <1>8, <2>1 DEF GoesOn, Requested, DeployStep
  <2>3. IsPrefix(Current.version, r.version)
    BY <1>1, <2>2, CurrentIs, VersionsAre, PrefixItself
  <2>4. InOrder' /\ AskedFirst'
    BY <1>1, <1>3, <1>5, <2>2, <2>3, GoesOnInOrder
  <2> QED
    BY <1>1, <1>5, <1>6, <1>8, <2>4, RequestedBy DEF DeployIInv, EndedWell
<1> QED
  BY <1>7, <1>8 DEF CheckSession

LEMMA DependencyKept == DeployIInv /\ DeployDependency => DeployIInv'
<1> SUFFICES ASSUME DeployIInv, DeployDependency PROVE DeployIInv'
  OBVIOUS
<1>1. DeployTypeOK /\ requests # <<>> /\ InOrder /\ AskedFirst /\ EndedWell
      /\ Current.step = "dependencies"
  BY DEF DeployIInv, DeployDependency, At
<1>2. PICK n \in Nat \ {0} :
         n = Len(requests) /\ Current = requests[n] /\ requests \in Seq(Requested)
  BY <1>1, CurrentIs DEF DeployTypeOK, Requested
<1>3. Current.app \in App /\ Current.next \in Nat \ {0}
      /\ Current.next <= Len(Dependencies[Current.app])
  BY <1>1, CurrentIs DEF DeployDependency
<1>4. Current.next \in DOMAIN Dependencies[Current.app]
  BY <1>3, DependenciesAre
<1>5. PICK d : d = Dependencies[Current.app][Current.next]
  OBVIOUS
<1>6. d.app \in App /\ d.version \in Version
  BY <1>3, <1>4, <1>5, DependenciesAre
<1>7. PICK r : r = Deployment(d.app, d.version, FALSE)
  OBVIOUS
<1>8. r.step = "session" /\ r.next = 1 /\ r.app = d.app /\ r \in Requested
  BY <1>6, <1>7 DEF Deployment, Requested, DeployStep
<1>9. requests' = Append(requests, r) /\ UNCHANGED <<installed, recorded, outcome, spoiled, asked>>
  BY <1>5, <1>7 DEF DeployDependency
<1>10. /\ Len(requests') = n + 1 /\ requests'[n + 1] = r
       /\ \A j \in 1 .. n : requests'[j] = requests[j]
  BY <1>2, <1>8, <1>9
<1>11. requests' # <<>> /\ Current' = r
  BY <1>2, <1>10 DEF Current, Last
<1>12. \A c : Sure(c)' => Sure(c)
  BY <1>1, <1>9 DEF Sure, Changing
<1>13. ThereStays /\ \A c \in App : RecordTrue(c)'
  BY <1>9, <1>12, SteadyRecords DEF DeployIInv
<1>14. ASSUME NEW j \in 1 .. n + 1 PROVE DoneBefore(requests[j])'
  <2>1. CASE j = n + 1
    <3>1. \A i \in DOMAIN Dependencies[r.app] : ~(i < 1)
      BY <1>6, <1>8, DependenciesAre
    <3> QED
      BY <1>8, <1>10, <2>1, <3>1 DEF DoneBefore
  <2>2. CASE j \in 1 .. n
    <3>1. PICK q \in Requested : q = requests[j] /\ DoneBefore(q) /\ q.app \in App
      BY <1>1, <1>2, <2>2, CurrentIs DEF InOrder
    <3>2. \A i \in DOMAIN Dependencies[q.app] : i < q.next => OnTarget(DependencyOf(q.app, i))'
      BY <1>13, <3>1, DependenciesAre DEF DoneBefore, ThereStays, DependencyOf
    <3> QED
      BY <1>10, <2>2, <3>1, <3>2 DEF DoneBefore, DependencyOf
  <2> QED
    BY <1>2, <2>1, <2>2
<1>15. ASSUME NEW j \in 1 .. n + 1, j < n + 1 PROVE WaitsFor(requests[j], requests[j + 1].app)'
  <2>1. CASE j = n
    BY <1>1, <1>2, <1>4, <1>5, <1>8, <1>10, <2>1 DEF WaitsFor, DependencyOf
  <2>2. CASE j < n
    <3>1. WaitsFor(requests[j], requests[j + 1].app)
      BY <1>1, <1>2, <2>2 DEF InOrder
    <3>2. requests'[j] = requests[j] /\ requests'[j + 1] = requests[j + 1]
      BY <1>2, <1>10, <2>2
    <3> QED
      BY <3>1, <3>2 DEF WaitsFor, DependencyOf
  <2> QED
    BY <1>2, <1>15, <2>1, <2>2
<1>16. InOrder'
  BY <1>10, <1>14, <1>15 DEF InOrder
<1>17. AskedFirst'
  BY <1>1, <1>2, <1>9, <1>10 DEF AskedFirst
<1>18. DeployTypeOK'
  BY <1>1, DeployTyped DEF DeployNext
<1> QED
  BY <1>1, <1>9, <1>13, <1>16, <1>17, <1>18, RequestedBy DEF DeployIInv, EndedWell

LEMMA SystemKept == DeployIInv /\ CheckSystem => DeployIInv'
<1> SUFFICES ASSUME DeployIInv, CheckSystem PROVE DeployIInv'
  OBVIOUS
<1>1. DeployTypeOK /\ requests # <<>> /\ InOrder /\ AskedFirst /\ EndedWell
      /\ Current.step = "dependencies" /\ Current \in Requested
  BY CurrentIs DEF DeployIInv, CheckSystem, At
<1>2. PICK a \in App : a = Current.app /\ DoneBefore(Current)
  BY <1>1, RequestedBy
<1>3. /\ UNCHANGED <<installed, recorded, spoiled, asked>>
      /\ Current.next > Len(Dependencies[Current.app])
  BY DEF CheckSystem
<1>4. \A c : Sure(c) <=> c \notin spoiled
  BY <1>1 DEF Sure, Changing
<1>5. ThereStays /\ \A c \in App : RecordTrue(c)'
  BY <1>3, <1>4, SteadyRecords DEF DeployIInv, Sure
<1>6. DeployTypeOK'
  BY <1>1, DeployTyped DEF DeployNext
<1>7. CASE DeployedOnSystem(Current.app, Current.version) /\ Returns
  <2>1. DependenciesThere(a)
    <3>1. Current.next \in Nat \ {0}
      BY <1>1, CurrentIs
    <3>2. \A i \in DOMAIN Dependencies[a] : i < Current.next
      BY <1>2, <1>3, <3>1, DependenciesAre
    <3> QED
      BY <1>2, <3>2 DEF DoneBefore, DependenciesThere
  <2>2. DependenciesThere(a)'
    BY <1>5, <2>1, AllThere
  <2>3. /\ installed[a] # NotThere
        /\ a \in VersionChecked =>
              \A s \in Version : IsPrefix(s, Current.version) => MatchVersion(s, installed[a])
    BY <1>1, <1>2, <1>7, FoundThere
  <2>4. OnTarget(a)'
    BY <1>3, <2>3 DEF OnTarget
  <2>5. InOrder' /\ AskedFirst'
    BY <1>1, <1>2, <1>3, <1>5, <1>7, <2>4, ReturnsInOrder
  <2>6. EndedWell'
    BY <1>1, <1>2, <1>3, <1>7, <2>2, <2>3, <2>4, ReturnsEnded
  <2> QED
    BY <1>5, <1>6, <2>5, <2>6 DEF DeployIInv
<1>8. CASE GoesOn("pre") /\ UNCHANGED outcome
  <2>1. PICK r : r = [Current EXCEPT !.step = "pre"]
    OBVIOUS
  <2>2. /\ requests' = Replaced(r) /\ r \in Requested /\ r.app = Current.app
        /\ r.next = Current.next /\ r.version = Current.version
    BY <1>1, <1>8, <2>1 DEF GoesOn, Requested, DeployStep
  <2>3. IsPrefix(Current.version, r.version)
    BY <1>1, <2>2, CurrentIs, VersionsAre, PrefixItself
  <2>4. InOrder' /\ AskedFirst'
    BY <1>1, <1>3, <1>5, <2>2, <2>3, GoesOnInOrder
  <2> QED
    BY <1>1, <1>5, <1>6, <1>8, <2>4, RequestedBy DEF DeployIInv, EndedWell
<1> QED
  BY <1>7, <1>8 DEF CheckSystem

\* A step that changes the target, and goes on with the same request.
LEMMA ChangingKept ==
    ASSUME DeployIInv, RunPre \/ CopyApp \/ RunCommands PROVE DeployIInv'
<1>1. DeployTypeOK /\ requests # <<>> /\ InOrder /\ AskedFirst /\ EndedWell
      /\ Current.step \in {"pre", "copy", "run"} /\ Current \in Requested
  BY CurrentIs DEF DeployIInv, RunPre, CopyApp, RunCommands, At
<1>2. PICK a \in App : a = Current.app /\ DoneBefore(Current)
  BY <1>1, RequestedBy
<1>3. /\ UNCHANGED <<recorded, outcome, spoiled, asked>>
      /\ \A c \in App : c # a => installed'[c] = installed[c]
  BY <1>1, <1>2 DEF RunPre, CopyApp, RunCommands, DeployTypeOK
<1>4. PICK r \in Requested :
         /\ requests' = Replaced(r) /\ r.app = a /\ r.next = Current.next
         /\ r.step \in {"copy", "run", "verify"} /\ IsPrefix(Current.version, r.version)
  <2>1. /\ Current.version \in Version /\ IsPrefix(Current.version, Current.version)
    BY <1>1, CurrentIs, VersionsAre, PrefixItself
  <2>2. CASE RunPre
    <3>1. PICK version \in Discovered(Current.app, Current.version) :
             requests' = Replaced([Current EXCEPT !.version = version, !.step = "copy"])
      BY <2>2 DEF RunPre
    <3>2. version \in Version /\ IsPrefix(Current.version, version)
      BY <1>2, <2>1, <3>1, CopiedTyped DEF Discovered
    <3>3. PICK r : r = [Current EXCEPT !.version = version, !.step = "copy"]
      OBVIOUS
    <3>4. /\ r \in Requested /\ r.app = a /\ r.next = Current.next /\ r.step = "copy"
          /\ r.version = version
      BY <1>1, <1>2, <3>2, <3>3 DEF Requested, DeployStep
    <3> QED
      BY <3>1, <3>2, <3>3, <3>4
  <2>3. CASE CopyApp \/ RunCommands
    <3>1. PICK step \in {"run", "verify"} : GoesOn(step)
      BY <2>3 DEF CopyApp, RunCommands
    <3>2. PICK r : r = [Current EXCEPT !.step = step]
      OBVIOUS
    <3>3. /\ r \in Requested /\ r.app = a /\ r.next = Current.next /\ r.step = step
          /\ r.version = Current.version
      BY <1>1, <1>2, <3>1, <3>2 DEF Requested, DeployStep
    <3> QED
      BY <2>1, <3>1, <3>2, <3>3 DEF GoesOn
  <2> QED
    BY <2>2, <2>3
<1>5. requests' # <<>> /\ Current' = r
  BY <1>1, <1>4, ReplacedIs
<1>6. ~Sure(a)'
  BY <1>4, <1>5 DEF Sure, Changing
<1>7. \A c \in App : Sure(c)' => Sure(c) \/ c = a
  BY <1>2, <1>3 DEF Sure, Changing
<1>8. ThereStays /\ \A c \in App : RecordTrue(c)'
  BY <1>1, <1>3, <1>6, <1>7, ChangingRecords DEF DeployIInv
<1>9. r.next > Len(Dependencies[r.app])
  BY <1>1, <1>2, <1>4 DEF DoneBefore
<1>10. InOrder' /\ AskedFirst'
  BY <1>1, <1>2, <1>3, <1>4, <1>8, <1>9, GoesOnInOrder
<1>11. DeployTypeOK'
  BY <1>1, DeployTyped DEF DeployNext
<1> QED
  BY <1>1, <1>3, <1>8, <1>10, <1>11, RequestedBy DEF DeployIInv, EndedWell

LEMMA VerifyKept == DeployIInv /\ Verify => DeployIInv'
<1> SUFFICES ASSUME DeployIInv, Verify PROVE DeployIInv'
  OBVIOUS
<1>1. DeployTypeOK /\ requests # <<>> /\ InOrder /\ AskedFirst /\ EndedWell
      /\ Current.step = "verify" /\ Current \in Requested
  BY CurrentIs DEF DeployIInv, Verify, At
<1>2. PICK a \in App : a = Current.app /\ DoneBefore(Current)
  BY <1>1, RequestedBy
<1>3. /\ installed' = installed /\ asked' = asked /\ spoiled' = spoiled \ {a} /\ Returns
      /\ recorded' = [recorded EXCEPT ![a] = Current.version]
      /\ DeployedOnSystem(a, Current.version)
  BY <1>2 DEF Verify
<1>4. /\ installed[a] # NotThere
      /\ a \in VersionChecked =>
            \A s \in Version : IsPrefix(s, Current.version) => MatchVersion(s, installed[a])
  BY <1>1, <1>2, <1>3, FoundThere
<1>5. \A c \in App : c # a /\ Sure(c)' => Sure(c)
  BY <1>2, <1>3 DEF Sure, Changing
<1>6. ThereStays
  BY <1>3, <1>4, <1>5 DEF ThereStays, OnTarget
<1>7. DependenciesThere(a)'
  <2>1. Current.next > Len(Dependencies[a]) /\ Current.next \in Nat
    BY <1>1, <1>2, CurrentIs DEF DoneBefore
  <2>2. DependenciesThere(a)
    BY <1>2, <2>1, DependenciesAre DEF DoneBefore, DependenciesThere
  <2> QED
    BY <1>6, <2>2, AllThere
<1>8. ASSUME NEW c \in App PROVE RecordTrue(c)'
  <2>1. CASE c = a
    <3>1. recorded'[a] = Current.version /\ installed'[a] = installed[a]
      BY <1>1, <1>3 DEF DeployTypeOK
    <3>2. a \in VersionChecked => MatchVersion(Current.version, installed[a])
      BY <1>3 DEF DeployedOnSystem
    <3> QED
      BY <1>4, <1>7, <2>1, <3>1, <3>2 DEF RecordTrue
  <2>2. CASE c # a
    <3>1. recorded'[c] = recorded[c] /\ installed'[c] = installed[c] /\ RecordTrue(c)
      BY <1>1, <1>3, <2>2 DEF DeployTypeOK, DeployIInv
    <3> QED
      BY <1>5, <1>6, <2>2, <3>1, AllThere DEF RecordTrue
  <2> QED
    BY <2>1, <2>2
<1>9. OnTarget(a)'
  BY <1>3, <1>4 DEF OnTarget
<1>10. InOrder' /\ AskedFirst'
  BY <1>1, <1>2, <1>3, <1>6, <1>9, ReturnsInOrder
<1>11. EndedWell'
  BY <1>1, <1>2, <1>3, <1>4, <1>7, <1>9, ReturnsEnded
<1>12. DeployTypeOK'
  BY <1>1, DeployTyped DEF DeployNext
<1> QED
  BY <1>8, <1>10, <1>11, <1>12 DEF DeployIInv

LEMMA FailureKept == DeployIInv /\ DeployFails => DeployIInv'
<1> SUFFICES ASSUME DeployIInv, DeployFails PROVE DeployIInv'
  OBVIOUS
<1>1. /\ requests' = <<>> /\ outcome' = "error" /\ UNCHANGED <<installed, recorded>>
      /\ spoiled' = NowSpoiled
  BY DEF DeployFails
<1>2. \A c \in App : Sure(c)' => Sure(c)
  BY <1>1 DEF Sure, NowSpoiled, Changing
<1>3. \A c \in App : RecordTrue(c)'
  BY <1>1, <1>2, SteadyRecords DEF DeployIInv
<1>4. Len(<<>>) = 0
  OBVIOUS
<1>5. InOrder' /\ AskedFirst' /\ EndedWell'
  BY <1>1, <1>4 DEF InOrder, AskedFirst, EndedWell
<1>6. DeployTypeOK'
  BY DeployTyped DEF DeployNext, DeployIInv
<1> QED
  BY <1>3, <1>5, <1>6 DEF DeployIInv

LEMMA OthersKept ==
    ASSUME DeployIInv, NEW b \in App, OthersChange(b) PROVE DeployIInv'
<1>1. /\ UNCHANGED <<recorded, requests, outcome, asked>> /\ spoiled' = spoiled \cup {b}
      /\ \A c \in App : c # b => installed'[c] = installed[c]
  BY DEF OthersChange, DeployIInv, DeployTypeOK
<1>2. Current' = Current
  BY <1>1 DEF Current
<1>3. ~Sure(b)' /\ \A c \in App : Sure(c)' => Sure(c) \/ c = b
  BY <1>1, <1>2 DEF Sure, Changing
<1>4. ThereStays /\ \A c \in App : RecordTrue(c)'
  BY <1>1, <1>3, ChangingRecords DEF DeployIInv
<1>5. InOrder'
  <2>1. ASSUME NEW j \in 1 .. Len(requests) PROVE DoneBefore(requests[j])'
    <3>1. requests # <<>> /\ DeployTypeOK /\ InOrder
      BY <2>1, EmptySeq DEF DeployIInv
    <3>2. PICK q \in Requested : q = requests[j] /\ DoneBefore(q) /\ q.app \in App
      BY <3>1, CurrentIs DEF InOrder
    <3>3. \A i \in DOMAIN Dependencies[q.app] : i < q.next => OnTarget(DependencyOf(q.app, i))'
      BY <1>4, <3>2, DependenciesAre DEF DoneBefore, ThereStays, DependencyOf
    <3> QED
      BY <1>1, <3>2, <3>3 DEF DoneBefore, DependencyOf
  <2>2. \A j \in 1 .. Len(requests) :
           j < Len(requests) => WaitsFor(requests[j], requests[j + 1].app)'
    BY <1>1 DEF DeployIInv, InOrder, WaitsFor, DependencyOf
  <2> QED
    BY <1>1, <2>1, <2>2 DEF InOrder
<1>6. AskedFirst'
  BY <1>1 DEF DeployIInv, AskedFirst
<1>7. EndedWell'
  <2> SUFFICES ASSUME outcome = "ok" PROVE EndedWell'
    BY <1>1 DEF EndedWell
  <2>1. requests = <<>> /\ asked.app \in App /\ OkIsThere
    BY DEF DeployIInv, EndedWell
  <2>2. Needed(asked.app) \subseteq App
    BY <2>1, DependenciesAre DEF Needed
  <2>3. OkIsThere'
    BY <1>1, <2>1, <2>2 DEF OkIsThere, Needed
  <2> QED
    BY <1>1, <2>1, <2>3 DEF EndedWell
<1>8. DeployTypeOK'
  BY DeployTyped DEF DeployNext, DeployIInv
<1> QED
  BY <1>4, <1>5, <1>6, <1>7, <1>8 DEF DeployIInv

LEMMA DeployStepKept == DeployIInv /\ [DeployNext]_deployVars => DeployIInv'
<1> SUFFICES ASSUME DeployIInv, [DeployNext]_deployVars PROVE DeployIInv'
  OBVIOUS
<1>1. CASE UNCHANGED deployVars
  <2>1. Current' = Current /\ UNCHANGED <<installed, recorded, requests, outcome, changes, asked, spoiled>>
    BY <1>1 DEF deployVars, Current
  <2>2. \A c \in App : Sure(c)' => Sure(c)
    BY <2>1 DEF Sure, Changing
  <2>3. \A c \in App : RecordTrue(c)'
    BY <2>1, <2>2, SteadyRecords DEF DeployIInv
  <2>4. InOrder'
    BY <2>1 DEF DeployIInv, InOrder, DoneBefore, WaitsFor, OnTarget, Sure, Changing, DependencyOf
  <2>5. DeployTypeOK' /\ AskedFirst' /\ EndedWell'
    BY <1>1, <2>1, DeployTyped DEF DeployIInv, AskedFirst, EndedWell, OkIsThere
  <2> QED
    BY <2>3, <2>4, <2>5 DEF DeployIInv
<1> QED
  BY <1>1, AskedKept, SessionKept, DependencyKept, SystemKept, ChangingKept, VerifyKept,
     FailureKept, OthersKept DEF DeployNext

\* The inductive invariant: what was verified, found or remembered and not
\* touched since is there, and so are the dependencies of what is recorded and
\* those that the requests in progress have behind them.
THEOREM DeployInductive == DeploySpec => []DeployIInv
  BY InitDeployIInv, DeployStepKept, PTL DEF DeploySpec

\* A deployment that ended well has left what it asked for on the target, in a
\* version that matches, and what that depends on, for any applications,
\* versions and dependencies, however many deployments failed before and where,
\* Pre commands that remove an application included
\* (checkIfDeployedOnSession, deployDependenciesIfNeeded, deploy).
THEOREM OkIsThereHolds == DeploySpec => []OkIsThere
<1>1. DeployIInv => OkIsThere
  BY DEF DeployIInv, EndedWell, OkIsThere
<1> QED
  BY DeployInductive, <1>1, PTL

\* The types of the records, the target and the requests in progress, of which
\* the next dependency is counted from one (deployDependenciesIfNeeded).
THEOREM DeployTypesHold == DeploySpec => []DeployTypeOK
<1>1. DeployIInv => DeployTypeOK
  BY DEF DeployIInv
<1> QED
  BY DeployInductive, <1>1, PTL

=============================================================================
