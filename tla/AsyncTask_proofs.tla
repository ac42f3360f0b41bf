-------------------------- MODULE AsyncTask_proofs --------------------------
(***************************************************************************)
(* Proofs about AsyncTask, for any number of actions and repetitions. The  *)
(* argument: the counter of the group is the number of goroutines that are *)
(* not done, and a goroutine that is done has replayed its events.         *)
(***************************************************************************)
EXTENDS AsyncTask, FiniteSetTheorems, SequenceTheorems, TLAPS

\* A goroutine runs its action, or has not replayed all of its events.
Busy == {"check", "begin", "service", "end", "over", "returned"}

Over == {"done", "gone"}

Pending == {a \in Async : step[a] \notin Over}

\* The task ran: its group counts the goroutines that are not done, those that
\* were not spawned yet included.
Forked ==
    /\ group = Cardinality(Pending)
    /\ pc = "spawn" => \A a \in Async : a < next <=> step[a] # "idle"
    /\ pc # "spawn" => \A a \in Async : step[a] # "idle"

\* The task did not run, or not yet.
NotForked ==
    /\ group = 0
    /\ pc \in {"node", "wait", "end"}
    /\ \A a \in Async : step[a] = "idle"

JInv ==
    /\ step \in [Thread -> {"idle"} \cup Busy \cup Over]
    /\ buffer \in [Async -> Seq(Events)]
    /\ next \in Nat \ {0}
    /\ pc = "node" => next = 1
    /\ \A a \in Async : step[a] \notin Busy => buffer[a] = <<>>
    /\ NotForked \/ (Forked /\ pc \in {"spawn", "acts", "wait", "end"})
    /\ pc = "end" => group = 0

LEMMA ThreadFacts ==
    /\ Main \notin Async
    /\ Async \subseteq Nat \ {0}
    /\ DOMAIN Actions = 1 .. Len(Actions) /\ Len(Actions) \in Nat
    /\ \A i \in Async : i \in DOMAIN Actions
<1>1. DOMAIN Actions = 1 .. Len(Actions) /\ Len(Actions) \in Nat
  BY AsyncAssumption
<1> QED
  BY <1>1 DEF Main, Async

LEMMA PendingFacts ==
    /\ IsFiniteSet(Async)
    /\ IsFiniteSet(Pending)
    /\ Cardinality(Pending) \in Nat
    /\ Cardinality(Pending) = 0 <=> Pending = {}
<1>1. DOMAIN Actions = 1 .. Len(Actions) /\ Len(Actions) \in Nat
  BY AsyncAssumption
<1>2. IsFiniteSet(1 .. Len(Actions))
  BY <1>1, FS_Interval
<1>3. IsFiniteSet(Async)
  BY <1>1, <1>2, FS_Subset DEF Async
<1>4. IsFiniteSet(Pending)
  BY <1>3, FS_Subset DEF Pending
<1> QED
  BY <1>3, <1>4, FS_CardinalityType, FS_EmptySet

-----------------------------------------------------------------------------
(* The steps *)

\* Goroutine t goes on, and only its own buffer changes.
Works(t) ==
    /\ step[t] \in Busy
    /\ \E s \in Busy : step' = [step EXCEPT ![t] = s]
    /\ buffer' \in [Async -> Seq(Events)]
    /\ \A b \in Async \ {t} : buffer'[b] = buffer[b]
    /\ UNCHANGED <<pc, next, group>>

LEMMA WorksInv ==
    ASSUME JInv, NEW t \in Thread, Works(t)
    PROVE  JInv'
<1>1. PICK s \in Busy : step' = [step EXCEPT ![t] = s]
  BY DEF Works
<1>2. step' \in [Thread -> {"idle"} \cup Busy \cup Over]
  BY <1>1 DEF JInv
<1>3. \A a \in Async : a # t => step'[a] = step[a]
  BY <1>1 DEF JInv, Thread
<1>4. step'[t] \in Busy /\ step[t] \in Busy
  BY <1>1 DEF JInv, Works
<1>5. \A x \in Busy : x # "idle" /\ x \notin Over
  BY DEF Busy, Over
<1>6. Pending' = Pending
  BY <1>3, <1>4, <1>5 DEF Pending
<1>7. \A a \in Async : step'[a] \notin Busy => buffer'[a] = <<>>
  BY <1>3, <1>4 DEF JInv, Works
<1>8. NotForked => NotForked'
  <2> SUFFICES ASSUME NotForked PROVE NotForked'
    OBVIOUS
  <2>1. t \notin Async
    BY <1>4, <1>5 DEF NotForked
  <2> QED
    BY <1>3, <2>1 DEF NotForked, Works
<1>9. Forked => Forked'
  BY <1>3, <1>4, <1>5, <1>6 DEF Forked, Works
<1> QED
  BY <1>2, <1>7, <1>8, <1>9 DEF JInv, Works

LEMMA PublishFacts ==
    ASSUME JInv, NEW t \in Thread, NEW type \in {"start", "error", "end"}, Publish(t, type)
    PROVE  /\ buffer' \in [Async -> Seq(Events)]
           /\ \A b \in Async \ {t} : buffer'[b] = buffer[b]
<1>1. CASE t = Main
  BY <1>1 DEF Publish, JInv
<1>2. CASE t # Main
  <2>1. t \in Async
    BY <1>2 DEF Thread
  <2>2. Event(type, t) \in Events
    BY <2>1, ThreadFacts DEF Event, Events
  <2>3. buffer[t] \in Seq(Events)
    BY <2>1 DEF JInv
  <2>4. Append(buffer[t], Event(type, t)) \in Seq(Events)
    BY <2>2, <2>3
  <2>5. buffer' = [buffer EXCEPT ![t] = Append(buffer[t], Event(type, t))]
    BY <1>2 DEF Publish
  <2> QED
    BY <2>1, <2>4, <2>5 DEF JInv
<1> QED
  BY <1>1, <1>2

LEMMA ActionWorks ==
    ASSUME JInv, NEW t \in Thread, RunAction(t)
    PROVE  Works(t)
<1>1. CASE Check(t)
  BY <1>1 DEF Check, At, Goto, Works, Busy, JInv
<1>2. CASE Begin(t)
  BY <1>2, PublishFacts DEF Begin, At, Goto, Works, Busy
<1>3. CASE Serve(t)
  <2>1. /\ buffer' \in [Async -> Seq(Events)]
        /\ \A b \in Async \ {t} : buffer'[b] = buffer[b]
    BY <1>3, PublishFacts DEF Serve, JInv
  <2> QED
    BY <1>3, <2>1 DEF Serve, At, Goto, Works, Busy
<1>4. CASE End(t)
  BY <1>4, PublishFacts DEF End, At, Goto, Works, Busy
<1>5. CASE Repeat(t)
  BY <1>5 DEF Repeat, At, Goto, Works, Busy, JInv
<1>6. CASE Return(t)
  BY <1>6 DEF Return, At, Goto, Works, Busy, JInv
<1> QED
  BY <1>1, <1>2, <1>3, <1>4, <1>5, <1>6 DEF RunAction

LEMMA GoroutineInv ==
    ASSUME JInv, NEW a \in Async, Goroutine(a)
    PROVE  JInv'
<1>0. a \in Thread /\ \A b \in Async : b \in Thread
  BY DEF Thread
<1>1. CASE RunAction(a)
  BY <1>0, <1>1, ActionWorks, WorksInv
<1>2. CASE Replay(a)
  <2>1. buffer[a] \in Seq(Events) /\ buffer[a] # <<>>
    BY <1>2 DEF Replay, JInv
  <2>2. Tail(buffer[a]) \in Seq(Events)
    BY <2>1
  <2>3. step[a] = "returned" /\ step' = [step EXCEPT ![a] = "returned"]
    BY <1>0, <1>2 DEF Replay, At, JInv
  <2>4. buffer' = [buffer EXCEPT ![a] = Tail(buffer[a])]
    BY <1>2 DEF Replay
  <2>5. Works(a)
    BY <1>2, <2>2, <2>3, <2>4 DEF Replay, Works, Busy, JInv
  <2> QED
    BY <1>0, <2>5, WorksInv
<1>3. CASE Done(a)
  <2>1. step[a] = "returned" /\ buffer[a] = <<>> /\ group' = group - 1
        /\ step' = [step EXCEPT ![a] = "done"] /\ UNCHANGED <<pc, next, buffer>>
    BY <1>3 DEF Done, At, Goto
  <2>2. a \in Pending /\ Pending' = Pending \ {a}
    BY <1>0, <2>1 DEF Pending, Over, JInv
  <2>3. Forked /\ pc \in {"spawn", "acts", "wait", "end"}
    BY <2>1 DEF JInv, NotForked
  <2>4. Cardinality(Pending') = Cardinality(Pending) - 1
    BY <2>2, PendingFacts, FS_RemoveElement
  <2>5. group # 0
    BY <2>2, <2>3, PendingFacts DEF Forked
  <2>6. Forked'
    BY <1>0, <2>1, <2>3, <2>4 DEF Forked, JInv
  <2>7. step' \in [Thread -> {"idle"} \cup Busy \cup Over]
    BY <2>1 DEF JInv, Over
  <2>8. \A b \in Async : step'[b] \notin Busy => buffer'[b] = <<>>
    BY <1>0, <2>1 DEF JInv
  <2> QED
    BY <2>1, <2>3, <2>5, <2>6, <2>7, <2>8 DEF JInv
<1>4. CASE SetGroupErr(a)
  <2>1. step[a] = "done" /\ step' = [step EXCEPT ![a] = "gone"] /\ UNCHANGED <<pc, next, buffer, group>>
    BY <1>4 DEF SetGroupErr, At, Goto
  <2>2. Pending' = Pending
    BY <1>0, <2>1 DEF Pending, Over, JInv
  <2>3. Forked /\ pc \in {"spawn", "acts", "wait", "end"}
    BY <2>1 DEF JInv, NotForked
  <2>4. Forked'
    BY <1>0, <2>1, <2>2, <2>3 DEF Forked, JInv
  <2>5. step' \in [Thread -> {"idle"} \cup Busy \cup Over]
    BY <2>1 DEF JInv, Over
  <2>6. \A b \in Async : step'[b] \notin Busy => buffer'[b] = <<>>
    BY <1>0, <2>1 DEF JInv, Busy
  <2> QED
    BY <2>1, <2>3, <2>4, <2>5, <2>6 DEF JInv
<1> QED
  BY <1>1, <1>2, <1>3, <1>4 DEF Goroutine

\* The goroutine of the task between its actions: its own step may change.
LEMMA MainStepInv ==
    ASSUME JInv, pc = "acts", pc' \in {"acts", "wait"},
           step' \in [Thread -> {"idle"} \cup Busy \cup Over],
           \A a \in Async : step'[a] = step[a],
           next' \in Nat \ {0}, UNCHANGED <<buffer, group>>
    PROVE  JInv'
<1>1. Forked /\ Pending' = Pending
  BY DEF JInv, NotForked, Pending
<1> QED
  BY <1>1 DEF JInv, Forked

LEMMA TaskInv ==
    ASSUME JInv, TaskGoroutine
    PROVE  JInv'
<1>0. Main \in Thread /\ Main \notin Async /\ \A a \in Async : a \in Thread
  BY ThreadFacts DEF Thread
<1>1. CASE EnterTask
  <2>1. NotForked /\ UNCHANGED <<step, buffer, next>>
    BY <1>1 DEF EnterTask, JInv
  <2>2. CASE pc' = "wait" /\ UNCHANGED group
    BY <2>1, <2>2 DEF JInv, NotForked
  <2>3. CASE pc' = "spawn" /\ group' = Cardinality(Async)
    <3>1. Pending' = Async
      BY <2>1 DEF Pending, NotForked, Over
    <3>0. pc = "node" /\ next = 1
      BY <1>1 DEF EnterTask, JInv
    <3>2. Forked'
      BY <2>1, <2>3, <3>0, <3>1, ThreadFacts DEF Forked, NotForked, JInv
    <3> QED
      BY <2>1, <2>3, <3>2 DEF JInv
  <2> QED
    BY <1>1, <2>2, <2>3 DEF EnterTask
<1>2. CASE Spawn
  <2>1. /\ pc = "spawn" /\ next' = next + 1 /\ next \in DOMAIN Actions
        /\ UNCHANGED <<pc, buffer, group>>
    BY <1>2 DEF Spawn
  <2>2. Forked /\ next' \in Nat \ {0}
    BY <2>1 DEF JInv, NotForked
  <2>3. CASE next \in Async
    <3>1. step' = [step EXCEPT ![next] = "check"]
      BY <1>2, <2>3 DEF Spawn, Goto
    <3>2. step[next] = "idle"
      BY <2>1, <2>2, <2>3, ThreadFacts DEF Forked
    <3>3. Pending' = Pending
      BY <1>0, <2>3, <3>1, <3>2 DEF Pending, Over, JInv
    <3>4. Forked'
      <4>1. ASSUME NEW a \in Async
            PROVE  a < next' <=> step'[a] # "idle"
        <5>1. CASE a = next
          BY <1>0, <2>1, <2>3, <3>1, <5>1, ThreadFacts DEF JInv
        <5>2. CASE a # next
          <6>1. step'[a] = step[a]
            BY <1>0, <3>1, <5>2 DEF JInv
          <6>2. a < next + 1 <=> a < next
            BY <2>3, <5>2, ThreadFacts
          <6> QED
            BY <2>1, <2>2, <6>1, <6>2 DEF Forked
        <5> QED
          BY <5>1, <5>2
      <4> QED
        BY <2>1, <2>2, <3>3, <4>1 DEF Forked
    <3>5. step' \in [Thread -> {"idle"} \cup Busy \cup Over]
      BY <3>1 DEF JInv, Busy
    <3>6. \A a \in Async : step'[a] \notin Busy => buffer'[a] = <<>>
      BY <1>0, <2>1, <3>1 DEF JInv, Busy
    <3> QED
      BY <2>1, <2>2, <3>4, <3>5, <3>6 DEF JInv
  <2>4. CASE next \notin Async
    <3>1. UNCHANGED step
      BY <1>2, <2>4 DEF Spawn
    <3>2. \A a \in Async : a < next + 1 <=> a < next
      BY <2>1, <2>4, ThreadFacts
    <3>3. Forked'
      BY <2>1, <2>2, <3>1, <3>2 DEF Forked, Pending
    <3> QED
      BY <2>1, <2>2, <3>1, <3>3 DEF JInv
  <2> QED
    BY <2>3, <2>4
<1>3. CASE ReadGroupErr
  <2>1. /\ pc = "spawn" /\ pc' = "acts" /\ next' = 1 /\ next \notin DOMAIN Actions
        /\ UNCHANGED <<step, buffer, group>>
    BY <1>3 DEF ReadGroupErr
  <2>2. Forked
    BY <2>1 DEF JInv, NotForked
  <2>3. \A a \in Async : a < next
    BY <2>1, ThreadFacts DEF JInv
  <2>4. Forked'
    BY <2>1, <2>2, <2>3 DEF Forked, Pending
  <2> QED
    BY <2>1, <2>4 DEF JInv
<1>4. CASE PassAction
  BY <1>4, MainStepInv DEF PassAction, JInv
<1>5. CASE StartAction
  <2>1. step' \in [Thread -> {"idle"} \cup Busy \cup Over] /\ \A a \in Async : step'[a] = step[a]
    BY <1>0, <1>5 DEF StartAction, Goto, JInv, Busy
  <2> QED
    BY <1>5, <2>1, MainStepInv DEF StartAction, JInv
<1>6. CASE ActionReturned
  <2>1. step' \in [Thread -> {"idle"} \cup Busy \cup Over] /\ \A a \in Async : step'[a] = step[a]
    BY <1>0, <1>6 DEF ActionReturned, Goto, JInv, Busy
  <2> QED
    BY <1>6, <2>1, MainStepInv DEF ActionReturned, JInv
<1>7. CASE LeaveNode
  BY <1>7, MainStepInv DEF LeaveNode, JInv
<1>8. CASE Join
  <2>1. pc = "wait" /\ group = 0 /\ pc' = "end" /\ UNCHANGED <<next, step, buffer, group>>
    BY <1>8 DEF Join
  <2>2. (NotForked => NotForked') /\ (Forked => Forked')
    BY <2>1 DEF NotForked, Forked, Pending
  <2> QED
    BY <2>1, <2>2 DEF JInv
<1>9. CASE RunAction(Main)
  BY <1>0, <1>9, ActionWorks, WorksInv
<1> QED
  BY <1>1, <1>2, <1>3, <1>4, <1>5, <1>6, <1>7, <1>8, <1>9 DEF TaskGoroutine

LEMMA InitJ == Init => JInv
<1> SUFFICES ASSUME Init PROVE JInv
  OBVIOUS
<1>1. \A a \in Async : a \in Thread
  BY DEF Thread
<1>2. buffer \in [Async -> Seq(Events)] /\ \A a \in Async : buffer[a] = <<>>
  BY DEF Init
<1>3. NotForked
  BY <1>1 DEF Init, NotForked
<1> QED
  BY <1>1, <1>2, <1>3 DEF Init, JInv

LEMMA NextJ == JInv /\ [Next]_vars => JInv'
<1> SUFFICES ASSUME JInv, [Next]_vars PROVE JInv'
  OBVIOUS
<1>1. CASE TaskGoroutine
  BY <1>1, TaskInv
<1>2. ASSUME NEW a \in Async, Goroutine(a) PROVE JInv'
  BY <1>2, GoroutineInv
<1>3. CASE UNCHANGED vars
  BY <1>3 DEF vars, JInv, Forked, NotForked, Pending
<1> QED
  BY <1>1, <1>2, <1>3 DEF Next, Finished

\* runTask ends after every asynchronous action is over and its events were
\* replayed: asyncGroup.Wait is passed only when the counter is 0, and the
\* counter is the number of goroutines that are not done.
THEOREM JoinsBeforeEnd == Spec => []JoinedBeforeEnd
<1>1. JInv => JoinedBeforeEnd
  <2> SUFFICES ASSUME JInv, pc = "end", NEW a \in Async
               PROVE  step[a] \in {"idle", "done", "gone"} /\ buffer[a] = <<>>
    BY DEF JoinedBeforeEnd
  <2>1. step[a] \in {"idle"} \cup Over
    <3>1. CASE NotForked
      BY <3>1 DEF NotForked
    <3>2. CASE Forked
      BY <3>2, PendingFacts DEF Forked, JInv, Pending
    <3> QED
      BY <3>1, <3>2 DEF JInv
  <2>2. step[a] \notin Busy
    BY <2>1 DEF Over, Busy
  <2> QED
    BY <2>1, <2>2 DEF JInv, Over
<1> QED
  BY <1>1, InitJ, NextJ, PTL DEF Spec

-----------------------------------------------------------------------------
(* Exit and goto are never taken back while the task runs, and a goroutine *)
(* that begins an activity after one of them looks at the process again    *)
(* before it begins another.                                               *)

LateInv ==
    /\ late \in [Thread -> Nat]
    /\ terminated \in BOOLEAN /\ scheduled \in BOOLEAN
    /\ \A t \in Thread : late[t] <= 1
    /\ \A t \in Thread : late[t] = 1 => ~CanRun /\ step[t] # "begin"

\* A step that begins no activity and allows none to begin.
Keeps ==
    /\ UNCHANGED late
    /\ terminated' \in BOOLEAN /\ scheduled' \in BOOLEAN
    /\ CanRun' => CanRun
    /\ \A t \in Thread : step'[t] = "begin" => step[t] = "begin" \/ CanRun

LEMMA KeepsLate == ASSUME LateInv, Keeps PROVE LateInv'
BY DEF LateInv, Keeps

LEMMA ActionLate ==
    ASSUME JInv, LateInv, NEW t \in Thread, RunAction(t)
    PROVE  LateInv'
<1>0. step \in [Thread -> {"idle"} \cup Busy \cup Over]
  BY DEF JInv
<1>1. CASE Check(t)
  <2>1. Keeps
    BY <1>0, <1>1 DEF Check, Goto, Keeps, LateInv, process, CanRun
  <2> QED
    BY <2>1, KeepsLate
<1>2. CASE Begin(t)
  <2>1. /\ step[t] = "begin" /\ step' = [step EXCEPT ![t] = "service"]
        /\ late' = [late EXCEPT ![t] = late[t] + (IF CanRun THEN 0 ELSE 1)]
        /\ UNCHANGED <<terminated, scheduled>>
    BY <1>2 DEF Begin, At, Goto
  <2>2. late[t] = 0
    BY <2>1 DEF LateInv
  <2>3. late'[t] = (IF CanRun THEN 0 ELSE 1) /\ step'[t] = "service"
    BY <1>0, <2>1, <2>2 DEF LateInv
  <2>4. \A u \in Thread : u # t => late'[u] = late[u] /\ step'[u] = step[u]
    BY <1>0, <2>1 DEF LateInv
  <2>5. late' \in [Thread -> Nat]
    BY <2>1, <2>2 DEF LateInv
  <2>6. CanRun' <=> CanRun
    BY <2>1 DEF CanRun
  <2> QED
    BY <2>1, <2>3, <2>4, <2>5, <2>6 DEF LateInv
<1>3. CASE Serve(t)
  <2>1. /\ step' = [step EXCEPT ![t] = "end"] /\ UNCHANGED late
        /\ \/ UNCHANGED <<terminated, scheduled>>
           \/ /\ terminated' = (terminated \/ This(t).service = "exit")
              /\ scheduled' = (scheduled \/ This(t).service = "goto")
    BY <1>3 DEF Serve, Goto
  <2>2. Keeps
    BY <1>0, <2>1 DEF Keeps, LateInv, CanRun
  <2> QED
    BY <2>2, KeepsLate
<1>4. CASE End(t)
  <2>1. Keeps
    BY <1>0, <1>4 DEF End, Goto, Keeps, LateInv, CanRun
  <2> QED
    BY <2>1, KeepsLate
<1>5. CASE Repeat(t)
  <2>1. Keeps
    BY <1>0, <1>5 DEF Repeat, Goto, Keeps, LateInv, process, CanRun
  <2> QED
    BY <2>1, KeepsLate
<1>6. CASE Return(t)
  <2>1. Keeps
    BY <1>0, <1>6 DEF Return, Goto, Keeps, LateInv, process, CanRun
  <2> QED
    BY <2>1, KeepsLate
<1> QED
  BY <1>1, <1>2, <1>3, <1>4, <1>5, <1>6 DEF RunAction

LEMMA OtherLate ==
    ASSUME JInv, LateInv,
           UNCHANGED <<process, late>>,
           step' = step \/ \E t \in Thread, s \in {"idle", "check", "done", "gone"} : Goto(t, s)
    PROVE  LateInv'
<1>1. step \in [Thread -> {"idle"} \cup Busy \cup Over]
  BY DEF JInv
<1>2. \A t \in Thread : step'[t] = "begin" => step[t] = "begin"
  BY <1>1 DEF Goto
<1>3. Keeps
  BY <1>2 DEF Keeps, LateInv, process, CanRun
<1> QED
  BY <1>3, KeepsLate

LEMMA GoroutineLate ==
    ASSUME JInv, LateInv, NEW a \in Async, Goroutine(a)
    PROVE  LateInv'
<1>0. a \in Thread
  BY DEF Thread
<1>1. CASE RunAction(a)
  BY <1>0, <1>1, ActionLate
<1>2. CASE Replay(a)
  BY <1>2, OtherLate DEF Replay
<1>3. CASE Done(a)
  BY <1>0, <1>3, OtherLate DEF Done
<1>4. CASE SetGroupErr(a)
  BY <1>0, <1>4, OtherLate DEF SetGroupErr
<1> QED
  BY <1>1, <1>2, <1>3, <1>4 DEF Goroutine

LEMMA TaskLate ==
    ASSUME JInv, LateInv, TaskGoroutine
    PROVE  LateInv'
<1>0. Main \in Thread /\ \A a \in Async : a \in Thread
  BY DEF Thread
<1>1. CASE EnterTask
  BY <1>1, OtherLate DEF EnterTask
<1>2. CASE Spawn
  <2>1. UNCHANGED <<process, late>>
    BY <1>2 DEF Spawn
  <2>2. step' = step \/ (next \in Thread /\ Goto(next, "check"))
    BY <1>0, <1>2 DEF Spawn
  <2> QED
    BY <2>1, <2>2, OtherLate
<1>3. CASE ReadGroupErr
  BY <1>3, OtherLate DEF ReadGroupErr
<1>4. CASE PassAction
  BY <1>4, OtherLate DEF PassAction
<1>5. CASE StartAction
  BY <1>0, <1>5, OtherLate DEF StartAction
<1>6. CASE ActionReturned
  BY <1>0, <1>6, OtherLate DEF ActionReturned
<1>7. CASE LeaveNode
  BY <1>7, OtherLate DEF LeaveNode
<1>8. CASE Join
  BY <1>8, OtherLate DEF Join
<1>9. CASE RunAction(Main)
  BY <1>0, <1>9, ActionLate
<1> QED
  BY <1>1, <1>2, <1>3, <1>4, <1>5, <1>6, <1>7, <1>8, <1>9 DEF TaskGoroutine

LEMMA InitLate == Init => LateInv
<1> SUFFICES ASSUME Init PROVE LateInv
  OBVIOUS
<1>1. late = [t \in Thread |-> 0] /\ terminated = FALSE /\ scheduled = FALSE
  BY DEF Init
<1>2. late \in [Thread -> Nat] /\ \A t \in Thread : late[t] = 0
  BY <1>1
<1>3. \A t \in Thread : late[t] <= 1 /\ late[t] # 1
  BY <1>2
<1>4. terminated \in BOOLEAN /\ scheduled \in BOOLEAN
  BY <1>1
<1> QED
  BY <1>2, <1>3, <1>4 DEF LateInv

LEMMA NextLate == JInv /\ LateInv /\ [Next]_vars => LateInv'
<1> SUFFICES ASSUME JInv, LateInv, [Next]_vars PROVE LateInv'
  OBVIOUS
<1>1. CASE TaskGoroutine
  BY <1>1, TaskLate
<1>2. ASSUME NEW a \in Async, Goroutine(a) PROVE LateInv'
  BY <1>2, GoroutineLate
<1>3. CASE UNCHANGED vars
  BY <1>3, OtherLate DEF vars
<1> QED
  BY <1>1, <1>2, <1>3 DEF Next, Finished

\* runNode checks CanRun at the start of every repetition, so that after an
\* exit or a goto every goroutine begins at most the one activity it was about
\* to begin.
THEOREM StopsAfterOne == Spec => []StopsSoon
<1>1. LateInv => StopsSoon
  BY DEF LateInv, StopsSoon
<1> QED
  BY <1>1, InitLate, NextLate, InitJ, NextJ, PTL DEF Spec

-----------------------------------------------------------------------------
(* Types, the stack of activities, and the events of activities. The       *)
(* argument: what a goroutine published and the listener has not heard is  *)
(* in its buffer, from which it is replayed in order.                      *)

Steps == {"idle", "check", "begin", "service", "end", "over", "returned", "done", "gone"}

\* Goroutines inside of an activity.
Inside == {t \in Thread : step[t] \in {"service", "end"}}

\* The goroutine of the task acts between its actions only when it has one.
MainActs ==
    step[Main] # "idle" =>
       pc = "acts" /\ next \in DOMAIN Actions \ Async /\ step[Main] \in Busy

Scalars ==
    /\ pc \in {"node", "spawn", "acts", "wait", "end"}
    /\ next \in 1 .. Len(Actions) + 1
    /\ rep \in [Thread -> 1 .. MaxRepeat + 1]
    /\ failed \in [Thread -> BOOLEAN]
    /\ groupErr \in BOOLEAN /\ asyncError \in BOOLEAN /\ err \in BOOLEAN

Balanced ==
    /\ activities \in Seq(DOMAIN Actions)
    /\ Len(activities) = Cardinality(Inside)

TInv ==
    /\ Scalars /\ MainActs /\ Balanced
    /\ heard \in [Events -> Nat]

LEMMA StepTyped == JInv => step \in [Thread -> Steps]
<1>1. {"idle"} \cup Busy \cup Over \subseteq Steps
  BY DEF Steps, Busy, Over
<1> QED
  BY <1>1 DEF JInv

LEMMA InsideFinite == IsFiniteSet(Thread) /\ IsFiniteSet(Inside) /\ Cardinality(Inside) \in Nat
<1>1. IsFiniteSet(Thread)
  BY PendingFacts, FS_AddElement DEF Thread
<1> QED
  BY <1>1, FS_Subset, FS_CardinalityType DEF Inside

LEMMA ActsOn ==
    ASSUME JInv, TInv, NEW t \in Thread, step[t] # "idle"
    PROVE  ActionOf(t) \in DOMAIN Actions /\ This(t) \in Action
<1>1. ActionOf(t) \in DOMAIN Actions
  BY ThreadFacts DEF TInv, MainActs, ActionOf, Thread
<1> QED
  BY <1>1, AsyncAssumption DEF This

LEMMA HearTyped ==
    ASSUME heard \in [Events -> Nat], NEW e \in Events, Hear(e)
    PROVE  heard' \in [Events -> Nat]
BY DEF Hear

\* A step of runAction.
LEMMA ActionTyped ==
    ASSUME JInv, TInv, NEW t \in Thread, RunAction(t) PROVE TInv'
<1> DEFINE Ordinary ==
             /\ UNCHANGED <<activities, heard, pc, next, errors>>
             /\ \E s \in Busy : step' = [step EXCEPT ![t] = s]
             /\ step[t] \in Busy
             /\ step[t] \in {"service", "end"} <=> step'[t] \in {"service", "end"}
<1>0. step \in [Thread -> Steps]
  BY StepTyped
<1>1. step[t] \in Busy /\ (\E s \in Busy : step' = [step EXCEPT ![t] = s]) /\ UNCHANGED <<pc, next>>
  BY ActionWorks DEF Works
<1>2. /\ step[t] # "idle" /\ ActionOf(t) \in DOMAIN Actions /\ This(t) \in Action
  BY <1>1, ActsOn DEF Busy
<1>3. \A u \in Thread : step'[u] = step[u] \/ (u = t /\ step'[u] \in Busy)
  BY <1>0, <1>1
<1>4. MainActs'
  <2>1. Main \in Thread
    BY DEF Thread
  <2> QED
    BY <1>1, <1>3, <2>1 DEF TInv, MainActs, Busy
<1>5. Scalars'
  <2>1. UNCHANGED <<groupErr, asyncError, err>>
    BY DEF RunAction, Check, Begin, Serve, End, Repeat, Return, errors
  <2>2. failed' = failed \/ failed' = [failed EXCEPT ![t] = TRUE]
    BY DEF RunAction, Check, Begin, Serve, End, Repeat, Return
  <2>3. failed' \in [Thread -> BOOLEAN]
    BY <2>2 DEF TInv, Scalars
  <2>4. rep' \in [Thread -> 1 .. MaxRepeat + 1]
    <3>1. CASE Repeat(t)
      <4>1. This(t).repeat \in 1 .. MaxRepeat /\ MaxRepeat \in Nat
        BY <1>2, AsyncAssumption DEF Action
      <4>2. rep' = [rep EXCEPT ![t] = rep[t] + 1] /\ rep[t] < This(t).repeat
        BY <3>1 DEF Repeat
      <4>3. rep[t] \in 1 .. MaxRepeat + 1
        BY DEF TInv, Scalars
      <4>4. rep[t] + 1 \in 1 .. MaxRepeat + 1
        BY <4>1, <4>2, <4>3
      <4> QED
        BY <4>2, <4>4 DEF TInv, Scalars
    <3>2. CASE ~Repeat(t)
      <4>1. rep' = rep
        BY <3>2 DEF RunAction, Check, Begin, Serve, End, Return
      <4> QED
        BY <4>1 DEF TInv, Scalars
    <3> QED
      BY <3>1, <3>2
  <2> QED
    BY <1>1, <2>1, <2>3, <2>4 DEF TInv, Scalars
<1>6. heard' \in [Events -> Nat]
  <2>1. heard \in [Events -> Nat]
    BY DEF TInv
  <2>2. ASSUME NEW type \in {"start", "error", "end"}, Publish(t, type)
        PROVE  heard' \in [Events -> Nat]
    <3>1. Event(type, ActionOf(t)) \in Events
      BY <1>2 DEF Event, Events
    <3> QED
      BY <2>1, <2>2, <3>1, HearTyped DEF Publish
  <2>3. heard' = heard \/ \E type \in {"start", "error", "end"} : Publish(t, type)
    BY DEF RunAction, Check, Begin, Serve, End, Repeat, Return
  <2> QED
    BY <2>1, <2>2, <2>3
<1>7. Balanced'
  <2>1. CASE Begin(t)
    <3>1. step[t] = "begin" /\ step' = [step EXCEPT ![t] = "service"]
          /\ activities' = Append(activities, ActionOf(t))
      BY <2>1 DEF Begin, At, Goto
    <3>2. Inside' = Inside \cup {t} /\ t \notin Inside
      BY <1>0, <3>1 DEF Inside
    <3>3. Cardinality(Inside') = Cardinality(Inside) + 1
      BY <3>2, InsideFinite, FS_AddElement
    <3> QED
      BY <1>2, <3>1, <3>3, AppendProperties DEF TInv, Balanced
  <2>2. CASE End(t)
    <3>1. step[t] = "end" /\ step' = [step EXCEPT ![t] = "over"]
          /\ activities' = SubSeq(activities, 1, Len(activities) - 1)
      BY <2>2 DEF End, At, Goto
    <3>2. Inside' = Inside \ {t} /\ t \in Inside
      BY <1>0, <3>1 DEF Inside
    <3>3. Cardinality(Inside') = Cardinality(Inside) - 1 /\ Cardinality(Inside') \in Nat
      BY <3>2, InsideFinite, FS_RemoveElement, FS_CardinalityType
    <3>4. activities \in Seq(DOMAIN Actions) /\ Len(activities) \in Nat \ {0}
      BY <3>3, InsideFinite DEF TInv, Balanced
    <3>5. activities' \in Seq(DOMAIN Actions) /\ Len(activities') = Len(activities) - 1
      <4>1. \A i \in 1 .. Len(activities) - 1 : activities[i] \in DOMAIN Actions
        BY <3>4, ElementOfSeq
      <4>2. /\ 1 \in Int /\ Len(activities) - 1 \in Int
            /\ Len(activities) - 1 - 1 + 1 = Len(activities) - 1
        BY <3>4
      <4> QED
        BY <3>1, <3>4, <4>1, <4>2, SubSeqProperties
    <3> QED
      BY <3>3, <3>5 DEF TInv, Balanced
  <2>3. CASE ~Begin(t) /\ ~End(t)
    <3>1. activities' = activities
      BY <2>3 DEF RunAction, Check, Serve, Repeat, Return, process
    <3>2. step[t] \in {"service", "end"} <=> step'[t] \in {"service", "end"}
      BY <1>0, <2>3 DEF RunAction, Check, Serve, Repeat, Return, At, Goto
    <3>3. Inside' = Inside
      BY <1>3, <3>2 DEF Inside
    <3> QED
      BY <3>1, <3>3 DEF TInv, Balanced
  <2> QED
    BY <2>1, <2>2, <2>3
<1> QED
  BY <1>4, <1>5, <1>6, <1>7 DEF TInv

\* Another step of a goroutine begins and ends no activity.
LEMMA OutsideTyped ==
    ASSUME JInv, TInv, JInv', Scalars', MainActs', heard' \in [Events -> Nat],
           UNCHANGED activities,
           step' = step \/
             \E t \in Thread, s \in {"idle", "check", "done", "gone"} :
                step[t] \notin {"service", "end"} /\ Goto(t, s)
    PROVE  TInv'
<1>1. step \in [Thread -> Steps]
  BY StepTyped
<1>2. Inside' = Inside
  BY <1>1 DEF Inside, Goto
<1> QED
  BY <1>2 DEF TInv, Balanced

LEMMA GoroutineTyped ==
    ASSUME JInv, TInv, NEW a \in Async, Goroutine(a) PROVE TInv'
<1>0. /\ a \in Thread /\ Main \in Thread /\ a # Main /\ step \in [Thread -> Steps]
  BY StepTyped, ThreadFacts DEF Thread
<1>1. JInv'
  BY GoroutineInv
<1>2. CASE RunAction(a)
  BY <1>0, <1>2, ActionTyped
<1>3. CASE Replay(a)
  <2>1. buffer[a] \in Seq(Events) /\ buffer[a] # <<>>
    BY <1>3 DEF Replay, JInv
  <2>2. Head(buffer[a]) \in Events
    BY <2>1
  <2>3. heard' \in [Events -> Nat]
    BY <1>3, <2>2, HearTyped DEF Replay, TInv
  <2>4. UNCHANGED <<pc, next, step, rep, failed, groupErr, asyncError, err, activities>>
    BY <1>3 DEF Replay, errors, process
  <2> QED
    BY <1>1, <2>3, <2>4, OutsideTyped DEF TInv, Scalars, MainActs
<1>4. CASE Done(a)
  <2>1. /\ UNCHANGED <<pc, next, rep, failed, groupErr, asyncError, err, activities, heard>>
        /\ step[a] \notin {"service", "end"} /\ Goto(a, "done")
    BY <1>4 DEF Done, At, errors, process
  <2>2. step'[Main] = step[Main]
    BY <1>0, <2>1 DEF Goto
  <2> QED
    BY <1>0, <1>1, <2>1, <2>2, OutsideTyped DEF TInv, Scalars, MainActs
<1>5. CASE SetGroupErr(a)
  <2>1. /\ UNCHANGED <<pc, next, rep, failed, asyncError, err, activities, heard>>
        /\ step[a] \notin {"service", "end"} /\ Goto(a, "gone")
        /\ groupErr' = (groupErr \/ failed[a])
    BY <1>5 DEF SetGroupErr, At, process
  <2>2. step'[Main] = step[Main]
    BY <1>0, <2>1 DEF Goto
  <2>3. groupErr' \in BOOLEAN
    BY <2>1
  <2> QED
    BY <1>0, <1>1, <2>1, <2>2, <2>3, OutsideTyped DEF TInv, Scalars, MainActs
<1> QED
  BY <1>2, <1>3, <1>4, <1>5 DEF Goroutine

LEMMA TaskTyped ==
    ASSUME JInv, TInv, TaskGoroutine PROVE TInv'
<1>0. /\ Main \in Thread /\ Main \notin Async /\ step \in [Thread -> Steps]
      /\ DOMAIN Actions = 1 .. Len(Actions) /\ Len(Actions) \in Nat
  BY StepTyped, ThreadFacts DEF Thread
<1>1. JInv'
  BY TaskInv
<1>2. CASE EnterTask
  <2>1. /\ UNCHANGED <<next, step, rep, failed, groupErr, asyncError, activities, heard>>
        /\ pc = "node" /\ pc' \in {"wait", "spawn"} /\ err' \in {err, TRUE}
    BY <1>2 DEF EnterTask, process
  <2> QED
    BY <1>1, <2>1, OutsideTyped DEF TInv, Scalars, MainActs
<1>3. CASE Spawn
  <2>1. /\ UNCHANGED <<pc, rep, failed, groupErr, asyncError, err, activities, heard>>
        /\ pc = "spawn" /\ next \in DOMAIN Actions /\ next' = next + 1
    BY <1>3 DEF Spawn, errors, process
  <2>2. next' \in 1 .. Len(Actions) + 1
    BY <1>0, <2>1
  <2>3. step[Main] = "idle"
    BY <2>1 DEF TInv, MainActs
  <2>4. CASE next \in Async
    <3>1. Goto(next, "check") /\ next \in Thread /\ next # Main
      BY <1>0, <1>3, <2>4 DEF Spawn, Thread
    <3>2. step[next] = "idle"
      <4>1. Forked
        BY <2>1 DEF JInv, NotForked
      <4> QED
        BY <2>1, <2>4, <4>1, ThreadFacts DEF Forked
    <3>3. step'[Main] = "idle"
      BY <1>0, <2>3, <3>1 DEF Goto
    <3> QED
      BY <1>1, <2>1, <2>2, <3>1, <3>2, <3>3, OutsideTyped DEF TInv, Scalars, MainActs
  <2>5. CASE next \notin Async
    BY <1>1, <1>3, <2>1, <2>2, <2>3, <2>5, OutsideTyped DEF Spawn, TInv, Scalars, MainActs
  <2> QED
    BY <2>4, <2>5
<1>4. CASE ReadGroupErr
  <2>1. /\ UNCHANGED <<step, rep, failed, groupErr, err, activities, heard>>
        /\ pc = "spawn" /\ next' = 1 /\ pc' = "acts" /\ asyncError' = groupErr
    BY <1>4 DEF ReadGroupErr, process
  <2>2. next' \in 1 .. Len(Actions) + 1
    BY <1>0, <2>1
  <2> QED
    BY <1>1, <2>1, <2>2, OutsideTyped DEF TInv, Scalars, MainActs
<1>5. CASE PassAction
  <2>1. /\ UNCHANGED <<pc, step, rep, failed, groupErr, asyncError, err, activities, heard>>
        /\ step[Main] = "idle" /\ next \in DOMAIN Actions /\ next' = next + 1
    BY <1>5 DEF PassAction, At, errors, process
  <2>2. next' \in 1 .. Len(Actions) + 1
    BY <1>0, <2>1
  <2> QED
    BY <1>1, <2>1, <2>2, OutsideTyped DEF TInv, Scalars, MainActs
<1>6. CASE StartAction
  <2>1. /\ UNCHANGED <<pc, next, failed, groupErr, asyncError, err, activities, heard>>
        /\ step[Main] = "idle" /\ next \in DOMAIN Actions \ Async /\ pc = "acts"
        /\ Goto(Main, "check") /\ rep' = [rep EXCEPT ![Main] = 1]
    BY <1>6 DEF StartAction, At, errors, process
  <2>2. step'[Main] = "check"
    BY <1>0, <2>1 DEF Goto
  <2>3. rep' \in [Thread -> 1 .. MaxRepeat + 1]
    <3>1. 1 \in 1 .. MaxRepeat + 1
      BY AsyncAssumption
    <3> QED
      BY <2>1, <3>1 DEF TInv, Scalars
  <2> QED
    BY <1>0, <1>1, <2>1, <2>2, <2>3, OutsideTyped DEF TInv, Scalars, MainActs, Busy
<1>7. CASE ActionReturned
  <2>1. /\ UNCHANGED <<rep, failed, groupErr, asyncError, activities, heard>>
        /\ step[Main] = "returned" /\ Goto(Main, "idle") /\ next' = next + 1
        /\ err' = failed[Main] /\ pc' \in {"wait", "acts"}
    BY <1>7 DEF ActionReturned, At, process
  <2>2. next \in DOMAIN Actions
    BY <2>1 DEF TInv, MainActs
  <2>3. next' \in 1 .. Len(Actions) + 1
    BY <1>0, <2>1, <2>2
  <2>4. step'[Main] = "idle" /\ err' \in BOOLEAN
    BY <1>0, <2>1 DEF Goto, TInv, Scalars
  <2> QED
    BY <1>0, <1>1, <2>1, <2>3, <2>4, OutsideTyped DEF TInv, Scalars, MainActs
<1>8. CASE LeaveNode
  <2>1. /\ UNCHANGED <<next, step, rep, failed, groupErr, asyncError, activities, heard>>
        /\ step[Main] = "idle" /\ pc' = "wait" /\ err' \in BOOLEAN
    BY <1>8 DEF LeaveNode, At, process
  <2> QED
    BY <1>1, <2>1, OutsideTyped DEF TInv, Scalars, MainActs
<1>9. CASE Join
  <2>1. /\ UNCHANGED <<next, step, rep, failed, groupErr, asyncError, activities, heard>>
        /\ pc = "wait" /\ pc' = "end" /\ err' = (err \/ asyncError)
    BY <1>9 DEF Join, process
  <2> QED
    BY <1>1, <2>1, OutsideTyped DEF TInv, Scalars, MainActs
<1>10. CASE RunAction(Main)
  BY <1>0, <1>10, ActionTyped
<1> QED
  BY <1>2, <1>3, <1>4, <1>5, <1>6, <1>7, <1>8, <1>9, <1>10 DEF TaskGoroutine

LEMMA InitTyped == Init => TInv
<1> SUFFICES ASSUME Init PROVE TInv
  OBVIOUS
<1>1. Main \in Thread /\ step[Main] = "idle" /\ Inside = {}
  BY DEF Init, Thread, Inside
<1>2. Scalars
  <2>1. 1 \in 1 .. MaxRepeat + 1 /\ 1 \in 1 .. Len(Actions) + 1
    BY AsyncAssumption, ThreadFacts
  <2> QED
    BY <2>1 DEF Init, Scalars
<1>3. Balanced
  BY <1>1, EmptySeq, FS_EmptySet DEF Init, Balanced
<1> QED
  BY <1>1, <1>2, <1>3 DEF Init, TInv, MainActs

LEMMA NextTyped == JInv /\ TInv /\ [Next]_vars => TInv'
<1> SUFFICES ASSUME JInv, TInv, [Next]_vars PROVE TInv'
  OBVIOUS
<1>1. CASE TaskGoroutine
  BY <1>1, TaskTyped
<1>2. ASSUME NEW a \in Async, Goroutine(a) PROVE TInv'
  BY <1>2, GoroutineTyped
<1>3. CASE UNCHANGED vars
  BY <1>3 DEF vars, errors, process, TInv, Scalars, MainActs, Balanced, Inside
<1> QED
  BY <1>1, <1>2, <1>3 DEF Next, Finished

\* Every variable keeps its type, for any number of actions and repetitions: the
\* counter of the group is never negative (runTask).
THEOREM TypeCorrect == Spec => []TypeOK
<1>1. JInv /\ TInv /\ LateInv => TypeOK
  <2> SUFFICES ASSUME JInv, TInv, LateInv PROVE TypeOK
    OBVIOUS
  <2>1. step \in [Thread -> Steps]
    BY StepTyped
  <2>2. group \in 0 .. Cardinality(Async)
    <3>1. Cardinality(Async) \in Nat
      BY PendingFacts, FS_CardinalityType
    <3>2. CASE NotForked
      BY <3>1, <3>2 DEF NotForked
    <3>3. CASE Forked
      <4>1. Cardinality(Pending) <= Cardinality(Async)
        BY PendingFacts, FS_Subset DEF Pending
      <4> QED
        BY <3>1, <3>3, <4>1, PendingFacts DEF Forked
    <3> QED
      BY <3>2, <3>3 DEF JInv
  <2> QED
    BY <2>1, <2>2 DEF TypeOK, JInv, TInv, Scalars, Balanced, LateInv, Steps
<1>2. Spec => []JInv
  BY InitJ, NextJ, PTL DEF Spec
<1>3. Spec => []TInv
  BY <1>2, InitTyped, NextTyped, PTL DEF Spec
<1>4. Spec => []LateInv
  BY <1>2, InitLate, NextLate, PTL DEF Spec
<1> QED
  BY <1>1, <1>2, <1>3, <1>4, PTL

\* As many activities are on the stack as goroutines are inside of one: none pops
\* from an empty stack, whatever the order (startActivity, endActivity).
THEOREM BalancedHolds == Spec => []ActivitiesBalanced
<1>1. TInv => ActivitiesBalanced
  BY DEF TInv, Balanced, ActivitiesBalanced, Inside
<1> QED
  BY <1>1, InitJ, NextJ, InitTyped, NextTyped, PTL DEF Spec

-----------------------------------------------------------------------------
Eq(i) == heard[Event("start", i)] = heard[Event("end", i)]
Ahead(i) == heard[Event("start", i)] = heard[Event("end", i)] + 1

\* What an asynchronous action has published and not yet replayed.
AsyncPaired(a) ==
    LET S == Event("start", a)
        R == Event("error", a)
        E == Event("end", a)
    IN  \/ step[a] \in {"idle", "check", "begin", "done", "gone"} /\ buffer[a] = <<>> /\ Eq(a)
        \/ step[a] = "service" /\ buffer[a] = <<S>> /\ Eq(a)
        \/ step[a] = "end" /\ buffer[a] \in {<<S>>, <<S, R>>} /\ Eq(a)
        \/ step[a] \in {"over", "returned"} /\ buffer[a] \in {<<>>, <<S, E>>, <<S, R, E>>} /\ Eq(a)
        \/ step[a] = "returned" /\ buffer[a] \in {<<R, E>>, <<E>>} /\ Ahead(a)

MainPaired(i) == IF next = i /\ step[Main] \in {"service", "end"} THEN Ahead(i) ELSE Eq(i)

PInv ==
    /\ \A a \in Async : AsyncPaired(a)
    /\ \A i \in DOMAIN Actions \ Async : MainPaired(i)

LEMMA HearFacts ==
    ASSUME heard \in [Events -> Nat], NEW type \in {"start", "error", "end"},
           NEW j \in DOMAIN Actions, Hear(Event(type, j))
    PROVE  /\ \A i \in DOMAIN Actions : i # j => (Eq(i)' <=> Eq(i)) /\ (Ahead(i)' <=> Ahead(i))
           /\ type = "start" /\ Eq(j) => Ahead(j)'
           /\ type = "error" => (Eq(j)' <=> Eq(j)) /\ (Ahead(j)' <=> Ahead(j))
           /\ type = "end" /\ Ahead(j) => Eq(j)'
<1>1. \A u \in {"start", "error", "end"}, i \in DOMAIN Actions :
        /\ Event(u, i) \in Events
        /\ Event(u, i) = Event(type, j) <=> u = type /\ i = j
  BY DEF Event, Events
<1>2. \A u \in {"start", "error", "end"}, i \in DOMAIN Actions :
        heard'[Event(u, i)] = IF u = type /\ i = j THEN heard[Event(u, i)] + 1
                              ELSE heard[Event(u, i)]
  BY <1>1 DEF Hear
<1>3. \A u \in {"start", "error", "end"}, i \in DOMAIN Actions : heard[Event(u, i)] \in Nat
  BY <1>1
<1> QED
  BY <1>2, <1>3 DEF Eq, Ahead

\* A step that is heard by nobody and published by nobody.
Silent ==
    /\ UNCHANGED <<buffer, heard>>
    /\ \A a \in Async :
          \/ step'[a] = step[a]
          \/ step[a] \in {"idle", "check", "begin"} /\ step'[a] \in {"check", "begin"}
          \/ step[a] = "check" /\ step'[a] = "over"
          \/ step[a] = "service" /\ step'[a] = "end"
          \/ step[a] = "over" /\ step'[a] = "returned"
          \/ step[a] = "returned" /\ buffer[a] = <<>> /\ step'[a] = "done"
          \/ step[a] = "done" /\ step'[a] = "gone"
    /\ \/ next' = next /\ (step'[Main] \in {"service", "end"} <=> step[Main] \in {"service", "end"})
       \/ step[Main] \notin {"service", "end"} /\ step'[Main] \notin {"service", "end"}

LEMMA SilentPaired == ASSUME PInv, Silent PROVE PInv'
<1>1. \A i : (Eq(i)' <=> Eq(i)) /\ (Ahead(i)' <=> Ahead(i))
  BY DEF Silent, Eq, Ahead
<1>2. ASSUME NEW a \in Async PROVE AsyncPaired(a)'
  <2>1. /\ AsyncPaired(a) /\ buffer'[a] = buffer[a]
        /\ (Eq(a)' <=> Eq(a)) /\ (Ahead(a)' <=> Ahead(a))
    BY <1>1 DEF Silent, PInv
  <2>2. CASE step'[a] = step[a]
    BY <2>1, <2>2 DEF AsyncPaired
  <2>3. CASE step'[a] # step[a]
    <3>1. CASE step[a] \in {"idle", "check", "begin"} /\ step'[a] \in {"check", "begin", "over"}
      BY <2>1, <3>1 DEF AsyncPaired
    <3>2. CASE step[a] = "service" /\ step'[a] = "end"
      BY <2>1, <3>2 DEF AsyncPaired
    <3>3. CASE step[a] = "over" /\ step'[a] = "returned"
      BY <2>1, <3>3 DEF AsyncPaired
    <3>4. CASE step[a] = "returned" /\ buffer[a] = <<>> /\ step'[a] = "done"
      BY <2>1, <3>4 DEF AsyncPaired
    <3>5. CASE step[a] = "done" /\ step'[a] = "gone"
      BY <2>1, <3>5 DEF AsyncPaired
    <3> QED
      BY <2>3, <3>1, <3>2, <3>3, <3>4, <3>5 DEF Silent
  <2> QED
    BY <2>2, <2>3
<1>3. ASSUME NEW i \in DOMAIN Actions \ Async PROVE MainPaired(i)'
  BY <1>1 DEF Silent, PInv, MainPaired
<1> QED
  BY <1>2, <1>3 DEF PInv

\* What its goroutine makes of the events of an asynchronous action.
LEMMA AsyncChanges ==
    ASSUME JInv, TInv, PInv, NEW a \in Async, step' = [step EXCEPT ![a] = step'[a]],
           \A b \in Async \ {a} : buffer'[b] = buffer[b],
           AsyncPaired(a)', UNCHANGED next,
           \A i \in DOMAIN Actions \ {a} : (Eq(i)' <=> Eq(i)) /\ (Ahead(i)' <=> Ahead(i))
    PROVE  PInv'
<1>0. a \in Thread /\ a # Main /\ Main \in Thread /\ \A b \in Async : b \in Thread /\ b \in DOMAIN Actions
  BY ThreadFacts DEF Thread
<1>1. step'[Main] = step[Main] /\ \A b \in Async \ {a} : step'[b] = step[b]
  BY <1>0 DEF JInv
<1>2. ASSUME NEW b \in Async \ {a} PROVE AsyncPaired(b)'
  BY <1>0, <1>1 DEF PInv, AsyncPaired
<1>3. ASSUME NEW i \in DOMAIN Actions \ Async PROVE MainPaired(i)'
  BY <1>1 DEF PInv, MainPaired
<1> QED
  BY <1>2, <1>3 DEF PInv

LEMMA Appended ==
    ASSUME NEW S, NEW R, NEW E
    PROVE  /\ Append(<<>>, S) = <<S>> /\ Append(<<S>>, R) = <<S, R>>
           /\ Append(<<S>>, E) = <<S, E>> /\ Append(<<S, R>>, E) = <<S, R, E>>
<1>1. ASSUME NEW T, NEW x \in T PROVE Append(<<>>, x) = <<x>>
  OBVIOUS
<1>2. ASSUME NEW T, NEW x \in T, NEW y \in T PROVE Append(<<x>>, y) = <<x, y>>
  <2>1. <<x>> \in Seq(T) /\ <<x, y>> \in Seq(T) /\ Len(<<x>>) = 1 /\ Len(<<x, y>>) = 2
    OBVIOUS
  <2>2. /\ Append(<<x>>, y) \in Seq(T) /\ Len(Append(<<x>>, y)) = 2
        /\ Append(<<x>>, y)[1] = x /\ Append(<<x>>, y)[2] = y
    BY <2>1, AppendProperties
  <2>3. \A i \in 1 .. 2 : Append(<<x>>, y)[i] = <<x, y>>[i]
    BY <2>2
  <2> QED
    BY <2>1, <2>2, <2>3, SeqEqual
<1>3. ASSUME NEW T, NEW x \in T, NEW y \in T, NEW z \in T PROVE Append(<<x, y>>, z) = <<x, y, z>>
  <2>1. <<x, y>> \in Seq(T) /\ <<x, y, z>> \in Seq(T) /\ Len(<<x, y>>) = 2 /\ Len(<<x, y, z>>) = 3
    OBVIOUS
  <2>2. /\ Append(<<x, y>>, z) \in Seq(T) /\ Len(Append(<<x, y>>, z)) = 3
        /\ Append(<<x, y>>, z)[1] = x /\ Append(<<x, y>>, z)[2] = y /\ Append(<<x, y>>, z)[3] = z
    BY <2>1, AppendProperties
  <2>3. \A i \in 1 .. 3 : Append(<<x, y>>, z)[i] = <<x, y, z>>[i]
    BY <2>2
  <2> QED
    BY <2>1, <2>2, <2>3, SeqEqual
<1> DEFINE T == {S, R, E}
<1>4. S \in T /\ R \in T /\ E \in T
  OBVIOUS
<1> HIDE DEF T
<1> QED
  BY <1>1, <1>2, <1>3, <1>4

LEMMA AsyncSteps ==
    ASSUME JInv, TInv, PInv, NEW a \in Async, Goroutine(a) PROVE PInv'
<1> DEFINE S == Event("start", a)
           R == Event("error", a)
           E == Event("end", a)
<1>0. /\ a \in Thread /\ a # Main /\ Main \in Thread /\ step \in [Thread -> Steps]
      /\ \A b \in Async : b \in Thread
      /\ a \in DOMAIN Actions /\ buffer \in [Async -> Seq(Events)] /\ AsyncPaired(a)
  BY StepTyped, ThreadFacts DEF Thread, JInv, PInv
<1>1. ASSUME UNCHANGED <<buffer, heard, next>>, NEW s, Goto(a, s),
             \/ step[a] \in {"idle", "check", "begin"} /\ s \in {"check", "begin"}
             \/ step[a] = "check" /\ s = "over"
             \/ step[a] = "service" /\ s = "end"
             \/ step[a] = "over" /\ s = "returned"
             \/ step[a] = "returned" /\ buffer[a] = <<>> /\ s = "done"
             \/ step[a] = "done" /\ s = "gone"
      PROVE PInv'
  <2>1. step'[a] = s /\ \A t \in Thread \ {a} : step'[t] = step[t]
    BY <1>0, <1>1 DEF Goto
  <2> QED
    BY <1>0, <1>1, <2>1, SilentPaired DEF Silent
<1>2. ASSUME NEW type \in {"start", "error", "end"}, Publish(a, type), NEW s \in Steps, Goto(a, s),
             UNCHANGED next,
             \/ type = "start" /\ step[a] = "begin" /\ s = "service"
             \/ type = "error" /\ step[a] = "service" /\ s = "end"
             \/ type = "end" /\ step[a] = "end" /\ s = "over"
      PROVE PInv'
  <2>1. buffer' = [buffer EXCEPT ![a] = Append(buffer[a], Event(type, a))] /\ heard' = heard
    BY <1>0, <1>2 DEF Publish
  <2>2. /\ step' = [step EXCEPT ![a] = step'[a]] /\ step'[a] = s
        /\ buffer'[a] = Append(buffer[a], Event(type, a))
        /\ \A b \in Async \ {a} : buffer'[b] = buffer[b]
    BY <1>0, <1>2, <2>1 DEF Goto
  <2>3. \A i : (Eq(i)' <=> Eq(i)) /\ (Ahead(i)' <=> Ahead(i))
    BY <2>1 DEF Eq, Ahead
  <2>4. /\ Append(<<>>, S) = <<S>> /\ Append(<<S>>, R) = <<S, R>>
        /\ Append(<<S>>, E) = <<S, E>> /\ Append(<<S, R>>, E) = <<S, R, E>>
    BY Appended
  <2> HIDE DEF S, R, E
  <2>5. AsyncPaired(a)'
    <3>1. CASE type = "start" /\ step[a] = "begin" /\ s = "service"
      <4>1. buffer[a] = <<>> /\ Eq(a)
        BY <1>0, <3>1 DEF AsyncPaired
      <4>2. buffer'[a] = <<S>>
        BY <2>2, <2>4, <3>1, <4>1 DEF S
      <4> QED
        BY <2>2, <2>3, <3>1, <4>1, <4>2 DEF AsyncPaired, S
    <3>2. CASE type = "error" /\ step[a] = "service" /\ s = "end"
      <4>1. buffer[a] = <<S>> /\ Eq(a)
        BY <1>0, <3>2 DEF AsyncPaired, S
      <4>2. buffer'[a] = <<S, R>>
        BY <2>2, <2>4, <3>2, <4>1 DEF R
      <4> QED
        BY <2>2, <2>3, <3>2, <4>1, <4>2 DEF AsyncPaired, S, R
    <3>3. CASE type = "end" /\ step[a] = "end" /\ s = "over"
      <4>1. buffer[a] \in {<<S>>, <<S, R>>} /\ Eq(a)
        BY <1>0, <3>3 DEF AsyncPaired, S, R
      <4>2. buffer'[a] \in {<<S, E>>, <<S, R, E>>}
        BY <2>2, <2>4, <3>3, <4>1 DEF E
      <4> QED
        BY <2>2, <2>3, <3>3, <4>1, <4>2 DEF AsyncPaired, S, R, E
    <3> QED
      BY <1>2, <3>1, <3>2, <3>3
  <2> QED
    BY <1>2, <2>2, <2>3, <2>5, AsyncChanges
<1>3. CASE Check(a)
  BY <1>1, <1>3 DEF Check, At
<1>4. CASE Begin(a)
  BY <1>2, <1>4 DEF Begin, At, Steps
<1>5. CASE Serve(a)
  BY <1>1, <1>2, <1>5 DEF Serve, At, Steps
<1>6. CASE End(a)
  BY <1>2, <1>6 DEF End, At, Steps
<1>7. ~Repeat(a)
  <2>1. Actions[a].async
    BY DEF Async
  <2>2. This(a).repeat = 1
    BY <1>0, <2>1, AsyncAssumption DEF This, ActionOf
  <2>3. rep[a] \in 1 .. MaxRepeat + 1
    BY <1>0 DEF TInv, Scalars
  <2> QED
    BY <2>2, <2>3, AsyncAssumption DEF Repeat
<1>8. CASE Return(a)
  BY <1>1, <1>8 DEF Return, At
<1>9. CASE Done(a)
  BY <1>1, <1>9 DEF Done, At
<1>10. CASE SetGroupErr(a)
  BY <1>1, <1>10 DEF SetGroupErr, At
<1>11. CASE Replay(a)
  <2>1. /\ step[a] = "returned" /\ buffer[a] # <<>> /\ Hear(Head(buffer[a]))
        /\ buffer' = [buffer EXCEPT ![a] = Tail(buffer[a])] /\ UNCHANGED <<step, next>>
    BY <1>11 DEF Replay, At
  <2>2. buffer'[a] = Tail(buffer[a]) /\ \A b \in Async \ {a} : buffer'[b] = buffer[b]
    BY <1>0, <2>1
  <2>3. step' = [step EXCEPT ![a] = step'[a]] /\ step'[a] = "returned"
    BY <1>0, <2>1
  <2>4. /\ Head(<<S, E>>) = S /\ Tail(<<S, E>>) = <<E>>
        /\ Head(<<S, R, E>>) = S /\ Tail(<<S, R, E>>) = <<R, E>>
        /\ Head(<<R, E>>) = R /\ Tail(<<R, E>>) = <<E>>
        /\ Head(<<E>>) = E /\ Tail(<<E>>) = <<>>
    OBVIOUS
  <2>5. \/ buffer[a] \in {<<S, E>>, <<S, R, E>>} /\ Eq(a)
        \/ buffer[a] \in {<<R, E>>, <<E>>} /\ Ahead(a)
    BY <1>0, <2>1 DEF AsyncPaired
  <2> HIDE DEF S, R, E
  <2>6. ASSUME NEW type \in {"start", "error", "end"}, Head(buffer[a]) = Event(type, a)
        PROVE  /\ \A i \in DOMAIN Actions \ {a} : (Eq(i)' <=> Eq(i)) /\ (Ahead(i)' <=> Ahead(i))
               /\ type = "start" /\ Eq(a) => Ahead(a)'
               /\ type = "error" => (Ahead(a)' <=> Ahead(a))
               /\ type = "end" /\ Ahead(a) => Eq(a)'
    <3>1. heard \in [Events -> Nat] /\ Hear(Event(type, a))
      BY <2>1, <2>6 DEF TInv
    <3> QED
      BY <1>0, <3>1, HearFacts
  <2>7. CASE buffer[a] \in {<<S, E>>, <<S, R, E>>} /\ Eq(a)
    <3>1. Head(buffer[a]) = Event("start", a) /\ buffer'[a] \in {<<R, E>>, <<E>>}
      BY <2>2, <2>4, <2>7 DEF S
    <3>2. AsyncPaired(a)'
      BY <2>3, <2>6, <2>7, <3>1 DEF AsyncPaired, R, E
    <3> QED
      BY <2>1, <2>2, <2>3, <2>6, <3>1, <3>2, AsyncChanges
  <2>8. CASE buffer[a] = <<R, E>> /\ Ahead(a)
    <3>1. Head(buffer[a]) = Event("error", a) /\ buffer'[a] = <<E>>
      BY <2>2, <2>4, <2>8 DEF R
    <3>2. AsyncPaired(a)'
      BY <2>3, <2>6, <2>8, <3>1 DEF AsyncPaired, E
    <3> QED
      BY <2>1, <2>2, <2>3, <2>6, <3>1, <3>2, AsyncChanges
  <2>9. CASE buffer[a] = <<E>> /\ Ahead(a)
    <3>1. Head(buffer[a]) = Event("end", a) /\ buffer'[a] = <<>>
      BY <2>2, <2>4, <2>9 DEF E
    <3>2. AsyncPaired(a)'
      BY <2>3, <2>6, <2>9, <3>1 DEF AsyncPaired
    <3> QED
      BY <2>1, <2>2, <2>3, <2>6, <3>1, <3>2, AsyncChanges
  <2> QED
    BY <2>5, <2>7, <2>8, <2>9
<1> QED
  BY <1>3, <1>4, <1>5, <1>6, <1>7, <1>8, <1>9, <1>10, <1>11 DEF Goroutine, RunAction

\* The goroutine of the task publishes for the action it runs.
LEMMA MainSteps ==
    ASSUME JInv, TInv, PInv, RunAction(Main) PROVE PInv'
<1>0. /\ Main \in Thread /\ Main \notin Async /\ step \in [Thread -> Steps]
      /\ \A b \in Async : b \in Thread /\ b \in DOMAIN Actions
  BY StepTyped, ThreadFacts DEF Thread
<1>1. /\ step[Main] \in Busy /\ step[Main] # "idle" /\ UNCHANGED next
  BY <1>0, ActionWorks DEF Works, Busy
<1>2. next \in DOMAIN Actions \ Async
  BY <1>1 DEF TInv, MainActs
<1>3. ASSUME UNCHANGED <<buffer, heard>>, NEW s, Goto(Main, s),
             s \in {"service", "end"} <=> step[Main] \in {"service", "end"}
      PROVE PInv'
  <2>1. step'[Main] = s /\ \A a \in Async : step'[a] = step[a]
    BY <1>0, <1>3 DEF Goto
  <2> QED
    BY <1>1, <1>3, <2>1, SilentPaired DEF Silent
<1>4. ASSUME NEW type \in {"start", "error", "end"}, Publish(Main, type), NEW s, Goto(Main, s),
             \/ type = "start" /\ step[Main] = "begin" /\ s = "service"
             \/ type = "error" /\ step[Main] = "service" /\ s = "end"
             \/ type = "end" /\ step[Main] = "end" /\ s = "over"
      PROVE PInv'
  <2>1. step'[Main] = s /\ \A a \in Async : step'[a] = step[a]
    BY <1>0, <1>4 DEF Goto
  <2>0. PICK j \in DOMAIN Actions \ Async : j = next
    BY <1>2
  <2>2. UNCHANGED buffer /\ Hear(Event(type, j)) /\ heard \in [Events -> Nat]
    BY <1>4, <2>0 DEF Publish, ActionOf, TInv
  <2>3. /\ \A i \in DOMAIN Actions : i # j => (Eq(i)' <=> Eq(i)) /\ (Ahead(i)' <=> Ahead(i))
        /\ type = "start" /\ Eq(j) => Ahead(j)'
        /\ type = "error" => (Ahead(j)' <=> Ahead(j))
        /\ type = "end" /\ Ahead(j) => Eq(j)'
    BY <2>0, <2>2, HearFacts
  <2>4. ASSUME NEW a \in Async PROVE AsyncPaired(a)'
    BY <1>0, <2>0, <2>1, <2>2, <2>3 DEF PInv, AsyncPaired
  <2>5. ASSUME NEW i \in DOMAIN Actions \ Async PROVE MainPaired(i)'
    <3>1. CASE i = j
      <4>1. MainPaired(j)
        BY <2>0 DEF PInv
      <4> QED
        BY <1>1, <1>4, <2>0, <2>1, <2>3, <3>1, <4>1 DEF MainPaired
    <3>2. CASE i # j
      BY <1>1, <2>0, <2>3, <3>2 DEF PInv, MainPaired
    <3> QED
      BY <3>1, <3>2
  <2> QED
    BY <2>4, <2>5 DEF PInv
<1>5. CASE Check(Main)
  BY <1>3, <1>5 DEF Check, At
<1>6. CASE Begin(Main)
  BY <1>4, <1>6 DEF Begin, At
<1>7. CASE Serve(Main)
  BY <1>3, <1>4, <1>7 DEF Serve, At
<1>8. CASE End(Main)
  BY <1>4, <1>8 DEF End, At
<1>9. CASE Repeat(Main)
  BY <1>3, <1>9 DEF Repeat, At
<1>10. CASE Return(Main)
  BY <1>3, <1>10 DEF Return, At
<1> QED
  BY <1>5, <1>6, <1>7, <1>8, <1>9, <1>10 DEF RunAction

LEMMA NextPaired == JInv /\ TInv /\ PInv /\ [Next]_vars => PInv'
<1> SUFFICES ASSUME JInv, TInv, PInv, [Next]_vars PROVE PInv'
  OBVIOUS
<1>0. /\ Main \in Thread /\ Main \notin Async /\ step \in [Thread -> Steps]
      /\ \A b \in Async : b \in Thread
  BY StepTyped, ThreadFacts DEF Thread
<1>1. ASSUME NEW a \in Async, Goroutine(a) PROVE PInv'
  BY <1>1, AsyncSteps
<1>2. CASE RunAction(Main)
  BY <1>2, MainSteps
<1>3. CASE Spawn
  <2>1. pc = "spawn" /\ UNCHANGED <<buffer, heard>>
    BY <1>3 DEF Spawn
  <2>2. step[Main] = "idle" /\ Forked
    BY <2>1 DEF TInv, MainActs, JInv, NotForked
  <2>3. CASE next \in Async
    <3>1. step' = [step EXCEPT ![next] = "check"] /\ step[next] = "idle"
      BY <1>3, <2>1, <2>2, <2>3, ThreadFacts DEF Spawn, Goto, Forked
    <3>2. \A a \in Async : step'[a] = step[a] \/ (step[a] = "idle" /\ step'[a] = "check")
      BY <1>0, <2>3, <3>1
    <3>3. step'[Main] = "idle"
      BY <1>0, <2>2, <2>3, <3>1
    <3> QED
      BY <2>1, <2>2, <3>2, <3>3, SilentPaired DEF Silent
  <2>4. CASE next \notin Async
    BY <1>3, <2>1, <2>2, <2>4, SilentPaired DEF Spawn, Silent
  <2> QED
    BY <2>3, <2>4
<1>4. CASE StartAction \/ ActionReturned
  <2>1. /\ UNCHANGED <<buffer, heard>> /\ \E s \in {"check", "idle"} : Goto(Main, s)
        /\ step[Main] \notin {"service", "end"}
    BY <1>4 DEF StartAction, ActionReturned, At
  <2>2. step'[Main] \notin {"service", "end"} /\ \A a \in Async : step'[a] = step[a]
    BY <1>0, <2>1 DEF Goto
  <2> QED
    BY <2>1, <2>2, SilentPaired DEF Silent
<1>5. CASE EnterTask \/ ReadGroupErr \/ PassAction \/ LeaveNode \/ Join \/ UNCHANGED vars
  <2>1. UNCHANGED <<buffer, heard, step>>
    BY <1>5 DEF EnterTask, ReadGroupErr, PassAction, LeaveNode, Join, vars
  <2>2. next' = next \/ step[Main] \notin {"service", "end"}
    <3>1. pc = "spawn" => step[Main] = "idle"
      BY DEF TInv, MainActs
    <3> QED
      BY <1>5, <3>1 DEF EnterTask, ReadGroupErr, PassAction, LeaveNode, Join, vars, At
  <2> QED
    BY <2>1, <2>2, SilentPaired DEF Silent
<1> QED
  BY <1>1, <1>2, <1>3, <1>4, <1>5 DEF Next, TaskGoroutine, Finished

\* The listener hears the start of an activity and then its end, one at a time, and
\* of all that began when the task ends, although an asynchronous action publishes
\* into a buffer that is replayed when it is over (runNode, asyncTask).
THEOREM PairedHolds == Spec => []ActivitiesPaired
<1>1. Init => PInv
  <2> SUFFICES ASSUME Init PROVE PInv
    OBVIOUS
  <2>1. \A u \in {"start", "error", "end"}, i \in DOMAIN Actions : Event(u, i) \in Events
    BY DEF Event, Events
  <2>2. \A i \in DOMAIN Actions : Eq(i)
    BY <2>1 DEF Init, Eq
  <2>3. Main \in Thread /\ \A a \in Async : a \in Thread /\ a \in DOMAIN Actions
    BY ThreadFacts DEF Thread
  <2>4. \A a \in Async : step[a] = "idle" /\ buffer[a] = <<>>
    BY <2>3 DEF Init
  <2>5. step[Main] = "idle"
    BY <2>3 DEF Init
  <2> QED
    BY <2>2, <2>3, <2>4, <2>5 DEF PInv, AsyncPaired, MainPaired
<1>2. JInv /\ TInv /\ PInv => ActivitiesPaired
  <2> SUFFICES ASSUME JInv, TInv, PInv, NEW i \in DOMAIN Actions
               PROVE  /\ heard[Event("start", i)] - heard[Event("end", i)] \in {0, 1}
                      /\ pc = "end" => heard[Event("start", i)] = heard[Event("end", i)]
    BY DEF ActivitiesPaired
  <2>1. heard[Event("start", i)] \in Nat /\ heard[Event("end", i)] \in Nat
    BY DEF TInv, Event, Events
  <2>2. (Eq(i) \/ Ahead(i)) /\ (pc = "end" => Eq(i))
    <3>1. CASE i \in Async
      <4>1. pc = "end" => step[i] # "returned"
        <5>1. NotForked => step[i] # "returned"
          BY <3>1 DEF NotForked
        <5>2. Forked /\ pc = "end" => step[i] # "returned"
          BY <3>1, PendingFacts DEF Forked, JInv, Pending, Over
        <5> QED
          BY <5>1, <5>2 DEF JInv
      <4> QED
        BY <3>1, <4>1 DEF PInv, AsyncPaired
    <3>2. CASE i \notin Async
      BY <3>2 DEF PInv, MainPaired, TInv, MainActs
    <3> QED
      BY <3>1, <3>2
  <2> QED
    BY <2>1, <2>2 DEF Eq, Ahead
<1>3. Spec => []JInv
  BY InitJ, NextJ, PTL DEF Spec
<1>4. Spec => []TInv
  BY <1>3, InitTyped, NextTyped, PTL DEF Spec
<1> QED
  BY <1>1, <1>2, <1>3, <1>4, NextPaired, PTL DEF Spec

=============================================================================
