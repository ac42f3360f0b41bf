------------------------------ MODULE AsyncTask ------------------------------
(***************************************************************************)
(* One task with asynchronous actions: runTask starts a goroutine for each *)
(* of them, runs the other actions itself and waits                        *)
(* (service/workflow/service.go: runTask, runAsyncActions, runAsyncAction, *)
(* runAction).  An asynchronous action publishes into a buffer of its own  *)
(* (Context.MakeAsyncSafe) that its goroutine hands to the listener of the *)
(* task when the action is over.  All goroutines share the process: its    *)
(* stack of activities, Terminated and Scheduled.                          *)
(*                                                                         *)
(* WorkflowTasks has the walk between tasks; here a task is alone and its  *)
(* steps interleave.  Sub tasks, tags and switch are left out, they are    *)
(* run by the goroutine of the task alone.                                 *)
(***************************************************************************)
EXTENDS Integers, Sequences, FiniteSets

CONSTANTS
    Actions,    \* Task.Actions, see AsyncAssumption
    MaxRepeat   \* the largest Repeat of an action

\* outcome: what the action may end in besides running well: "skip" is When
\* being false, "init" a failure of When or Init, "handler" one of the service
\* and "post" one of Post, Extract or the exit criteria.
Action == [async   : BOOLEAN,
           service : {"call", "exit", "goto"},
           repeat  : 1 .. MaxRepeat,
           outcome : SUBSET {"skip", "init", "handler", "post"}]

\* Task.AsyncActions makes an asynchronous action of Repeat n into n actions
\* that run once, so that Actions has it n times.
ASSUME AsyncAssumption ==
    /\ MaxRepeat \in Nat
    /\ Actions \in Seq(Action)
    /\ \A i \in DOMAIN Actions : Actions[i].async => Actions[i].repeat = 1

\* The asynchronous actions, each in a goroutine of its own, and the goroutine
\* of the task, which runs the other actions.
Async == {i \in DOMAIN Actions : Actions[i].async}
Main == 0
Thread == Async \cup {Main}

VARIABLES
    pc,          \* where the goroutine of the task is in runTask
    next,        \* the action it spawns or runs next
    step,        \* where every goroutine is in runAsyncAction and runAction
    rep,         \* Repeater.Run: which repetition it is in
    failed,      \* the error that runAction of the goroutine returns # nil
    group,       \* asyncGroup's counter
    groupErr,    \* groupErr # nil in runAsyncActions
    asyncError,  \* asyncError # nil in runTask
    err,         \* err # nil in runTask
    activities,  \* Process.Activities, the innermost last
    terminated,  \* Process.Terminated
    scheduled,   \* Process.Scheduled # nil
    buffer,      \* events an asynchronous action published, not yet replayed
    heard,       \* how often the listener of the task received every event
    late         \* history: activities begun by a goroutine after exit or goto

process == <<activities, terminated, scheduled>>
errors == <<groupErr, asyncError, err>>
vars == <<pc, next, step, rep, failed, group, errors, process, buffer, heard, late>>

CanRun == ~terminated /\ ~scheduled

\* The action a goroutine runs.
ActionOf(t) == IF t = Main THEN next ELSE t
This(t) == Actions[ActionOf(t)]

At(t, s) == step[t] = s
Goto(t, s) == step' = [step EXCEPT ![t] = s]

Event(type, i) == [type |-> type, action |-> i]

Events == [type : {"start", "error", "end"}, action : DOMAIN Actions]

Hear(e) == heard' = [heard EXCEPT ![e] = @ + 1]

\* context.Publish: the goroutine of the task calls the listener, the others
\* append to their buffer.
Publish(t, type) ==
    IF t = Main
      THEN Hear(Event(type, ActionOf(t))) /\ UNCHANGED buffer
      ELSE /\ buffer' = [buffer EXCEPT ![t] = Append(@, Event(type, t))]
           /\ UNCHANGED heard

Init ==
    /\ pc = "node"
    /\ next = 1
    /\ step = [t \in Thread |-> "idle"]
    /\ rep = [t \in Thread |-> 1]
    /\ failed = [t \in Thread |-> FALSE]
    /\ group = 0
    /\ groupErr = FALSE
    /\ asyncError = FALSE
    /\ err = FALSE
    /\ activities = <<>>
    /\ terminated = FALSE
    /\ scheduled = FALSE
    /\ buffer = [a \in Async |-> <<>>]
    /\ heard = [e \in Events |-> 0]
    /\ late = [t \in Thread |-> 0]

-----------------------------------------------------------------------------
(* runAction, by goroutine t *)

\* runNode of the action: nothing to do once the process ended or jumps, or
\* if When is false.
Check(t) ==
    /\ At(t, "check")
    /\ \/ CanRun /\ Goto(t, "begin") /\ UNCHANGED failed
       \/ CanRun /\ "init" \in This(t).outcome /\ Goto(t, "over") /\ failed' = [failed EXCEPT ![t] = TRUE]
       \/ CanRun /\ "skip" \in This(t).outcome /\ Goto(t, "over") /\ UNCHANGED failed
       \/ ~CanRun /\ Goto(t, "over") /\ UNCHANGED failed
    /\ UNCHANGED <<pc, next, rep, group, errors, process, buffer, heard, late>>

Begin(t) ==
    /\ At(t, "begin")
    /\ activities' = Append(activities, ActionOf(t))
    /\ Publish(t, "start")
    /\ late' = [late EXCEPT ![t] = @ + (IF CanRun THEN 0 ELSE 1)]
    /\ Goto(t, "service")
    /\ UNCHANGED <<pc, next, rep, failed, group, errors, terminated, scheduled>>

\* AbstractService.Run reports the error of a service before it returns.
Serve(t) ==
    /\ At(t, "service")
    /\ Goto(t, "end")
    /\ \/ /\ This(t).service = "call" /\ "handler" \in This(t).outcome
          /\ Publish(t, "error")
          /\ failed' = [failed EXCEPT ![t] = TRUE]
          /\ UNCHANGED <<terminated, scheduled>>
       \/ /\ terminated' = (terminated \/ This(t).service = "exit")
          /\ scheduled' = (scheduled \/ This(t).service = "goto")
          /\ UNCHANGED <<failed, buffer, heard>>
    /\ UNCHANGED <<pc, next, rep, group, errors, activities, late>>

\* Mutant: an activity is popped by the goroutine that finds its own on top.
EndOwn(t) ==
    /\ At(t, "end")
    /\ activities' = IF activities[Len(activities)] = ActionOf(t)
                       THEN SubSeq(activities, 1, Len(activities) - 1)
                       ELSE activities
    /\ Publish(t, "end")
    /\ Goto(t, "over")
    /\ UNCHANGED <<pc, next, rep, failed, group, errors, terminated, scheduled, late>>

\* The deferred calls pop the last activity, whoever pushed it, and publish.
End(t) ==
    /\ At(t, "end")
    /\ activities' = SubSeq(activities, 1, Len(activities) - 1)
    /\ Publish(t, "end")
    /\ Goto(t, "over")
    /\ \/ UNCHANGED failed
       \/ "post" \in This(t).outcome /\ failed' = [failed EXCEPT ![t] = TRUE]
    /\ UNCHANGED <<pc, next, rep, group, errors, terminated, scheduled, late>>

\* Mutant: whether the process can run is looked at before the first repetition.
RepeatUnchecked(t) ==
    /\ At(t, "over")
    /\ ~failed[t]
    /\ rep[t] < This(t).repeat
    /\ rep' = [rep EXCEPT ![t] = @ + 1]
    /\ Goto(t, "begin")
    /\ UNCHANGED <<pc, next, failed, group, errors, process, buffer, heard, late>>

\* Repeater.Run repeats an action that did not fail.
Repeat(t) ==
    /\ At(t, "over")
    /\ ~failed[t]
    /\ rep[t] < This(t).repeat
    /\ rep' = [rep EXCEPT ![t] = @ + 1]
    /\ Goto(t, "check")
    /\ UNCHANGED <<pc, next, failed, group, errors, process, buffer, heard, late>>

\* The action failed, the exit criteria hold or Repeat is reached.
Return(t) ==
    /\ At(t, "over")
    /\ Goto(t, "returned")
    /\ UNCHANGED <<pc, next, rep, failed, group, errors, process, buffer, heard, late>>

RunAction(t) == Check(t) \/ Begin(t) \/ Serve(t) \/ End(t) \/ Repeat(t) \/ Return(t)

-----------------------------------------------------------------------------
(* runAsyncAction, by goroutine a *)

\* Mutant: the last event is replayed first.
ReplayLast(a) ==
    /\ At(a, "returned")
    /\ buffer[a] # <<>>
    /\ Hear(buffer[a][Len(buffer[a])])
    /\ buffer' = [buffer EXCEPT ![a] = SubSeq(@, 1, Len(@) - 1)]
    /\ UNCHANGED <<pc, next, step, rep, failed, group, errors, process, late>>

\* The deferred calls of runAsyncAction run in this order: the events are
\* replayed, then the group is told.
Replay(a) ==
    /\ At(a, "returned")
    /\ buffer[a] # <<>>
    /\ Hear(Head(buffer[a]))
    /\ buffer' = [buffer EXCEPT ![a] = Tail(@)]
    /\ UNCHANGED <<pc, next, step, rep, failed, group, errors, process, late>>

\* Mutant: the group is told before the events are replayed.
DoneFirst(a) ==
    /\ At(a, "returned")
    /\ group' = group - 1
    /\ Goto(a, "done")
    /\ UNCHANGED <<pc, next, rep, failed, errors, process, buffer, heard, late>>

\* Mutant: the group is told of the actions that succeed.
DoneUnlessFailed(a) ==
    /\ At(a, "returned")
    /\ buffer[a] = <<>>
    /\ ~failed[a]
    /\ group' = group - 1
    /\ Goto(a, "done")
    /\ UNCHANGED <<pc, next, rep, failed, errors, process, buffer, heard, late>>

Done(a) ==
    /\ At(a, "returned")
    /\ buffer[a] = <<>>
    /\ group' = group - 1
    /\ Goto(a, "done")
    /\ UNCHANGED <<pc, next, rep, failed, errors, process, buffer, heard, late>>

\* Back in the goroutine of runAsyncActions.
SetGroupErr(a) ==
    /\ At(a, "done")
    /\ groupErr' = (groupErr \/ failed[a])
    /\ Goto(a, "gone")
    /\ UNCHANGED <<pc, next, rep, failed, group, asyncError, err, process, buffer, heard, late>>

Goroutine(a) == RunAction(a) \/ Replay(a) \/ Done(a) \/ SetGroupErr(a)

-----------------------------------------------------------------------------
(* runTask, by the goroutine of the task *)

\* Mutant: the group counts every action.
EnterTaskAll ==
    /\ pc = "node"
    /\ pc' = "spawn"
    /\ group' = Len(Actions)
    /\ UNCHANGED <<next, step, rep, failed, errors, process, buffer, heard, late>>

\* When of the task is false, or it fails in When or Init, or it runs.
EnterTask ==
    /\ pc = "node"
    /\ \/ pc' = "wait" /\ UNCHANGED <<err, group>>
       \/ pc' = "wait" /\ err' = TRUE /\ UNCHANGED group
       \/ pc' = "spawn" /\ group' = Cardinality(Async) /\ UNCHANGED err
    /\ UNCHANGED <<next, step, rep, failed, groupErr, asyncError, process, buffer, heard, late>>

Spawn ==
    /\ pc = "spawn"
    /\ next \in DOMAIN Actions
    /\ next' = next + 1
    /\ IF next \in Async
         THEN Goto(next, "check")
         ELSE UNCHANGED step
    /\ UNCHANGED <<pc, rep, failed, group, errors, process, buffer, heard, late>>

\* groupErr is read here, once, while the goroutines run.
ReadGroupErr ==
    /\ pc = "spawn"
    /\ next \notin DOMAIN Actions
    /\ asyncError' = groupErr
    /\ next' = 1
    /\ pc' = "acts"
    /\ UNCHANGED <<step, rep, failed, group, groupErr, err, process, buffer, heard, late>>

\* Tags and Skip may leave out an action that is not asynchronous.
PassAction ==
    /\ pc = "acts"
    /\ At(Main, "idle")
    /\ next \in DOMAIN Actions
    /\ next' = next + 1
    /\ UNCHANGED <<pc, step, rep, failed, group, errors, process, buffer, heard, late>>

StartAction ==
    /\ pc = "acts"
    /\ At(Main, "idle")
    /\ next \in DOMAIN Actions \ Async
    /\ Goto(Main, "check")
    /\ rep' = [rep EXCEPT ![Main] = 1]
    /\ UNCHANGED <<pc, next, failed, group, errors, process, buffer, heard, late>>

ActionReturned ==
    /\ pc = "acts"
    /\ At(Main, "returned")
    /\ Goto(Main, "idle")
    /\ next' = next + 1
    /\ err' = failed[Main]
    /\ pc' = IF failed[Main] THEN "wait" ELSE "acts"
    /\ UNCHANGED <<rep, failed, group, groupErr, asyncError, process, buffer, heard, late>>

\* After the last action Post of the task applies.
LeaveNode ==
    /\ pc = "acts"
    /\ At(Main, "idle")
    /\ next \notin DOMAIN Actions
    /\ pc' = "wait"
    /\ err' \in BOOLEAN
    /\ UNCHANGED <<next, step, rep, failed, group, groupErr, asyncError, process, buffer, heard, late>>

\* asyncGroup.Wait, then the task ends with its own error or asyncError.
Join ==
    /\ pc = "wait"
    /\ group = 0
    /\ pc' = "end"
    /\ err' = (err \/ asyncError)
    /\ UNCHANGED <<next, step, rep, failed, group, groupErr, asyncError, process, buffer, heard, late>>

TaskGoroutine ==
    \/ EnterTask \/ Spawn \/ ReadGroupErr \/ PassAction \/ StartAction
    \/ ActionReturned \/ LeaveNode \/ Join
    \/ RunAction(Main)

-----------------------------------------------------------------------------
Ended == pc = "end" /\ \A a \in Async : step[a] \in {"idle", "gone"}

Finished == Ended /\ UNCHANGED vars

Next ==
    \/ TaskGoroutine
    \/ \E a \in Async : Goroutine(a)
    \/ Finished

\* Go's scheduler lets every goroutine that can run, run.
Spec ==
    /\ Init
    /\ [][Next]_vars
    /\ WF_vars(TaskGoroutine)
    /\ \A a \in Async : WF_vars(Goroutine(a))

-----------------------------------------------------------------------------
(* Properties *)

\* Types of the variables.
TypeOK ==
    /\ pc \in {"node", "spawn", "acts", "wait", "end"}
    /\ next \in 1 .. Len(Actions) + 1
    /\ step \in [Thread -> {"idle", "check", "begin", "service", "end", "over", "returned",
                           "done", "gone"}]
    /\ rep \in [Thread -> 1 .. MaxRepeat + 1]
    /\ failed \in [Thread -> BOOLEAN]
    /\ group \in 0 .. Cardinality(Async)
    /\ groupErr \in BOOLEAN /\ asyncError \in BOOLEAN /\ err \in BOOLEAN
    /\ activities \in Seq(DOMAIN Actions)
    /\ terminated \in BOOLEAN /\ scheduled \in BOOLEAN
    /\ buffer \in [Async -> Seq(Events)]
    /\ heard \in [Events -> Nat]
    /\ late \in [Thread -> Nat]

\* "Task completes when all actions execution is completed": the task ends,
\* with an error of its own or not, after every asynchronous action is over
\* and its events were replayed.
JoinedBeforeEnd ==
    pc = "end" => \A a \in Async : step[a] \in {"idle", "done", "gone"} /\ buffer[a] = <<>>

\* The listener is told of an activity's end after its start, one at a time,
\* although it receives the events of asynchronous actions long after the
\* fact; and of all that began when the task ends.
ActivitiesPaired ==
    \A i \in DOMAIN Actions :
        /\ heard[Event("start", i)] - heard[Event("end", i)] \in {0, 1}
        /\ pc = "end" => heard[Event("start", i)] = heard[Event("end", i)]

\* Goroutines push and pop the one stack of activities in any order, none
\* pops from an empty stack and none is left on it.
ActivitiesBalanced ==
    Len(activities) = Cardinality({t \in Thread : step[t] \in {"service", "end"}})

\* An action looks at the process before it begins, so that after an exit or a
\* goto a goroutine begins one activity at most, however often it repeats.
StopsSoon == \A t \in Thread : late[t] <= 1

\* A failing action fails the task: without a catch task an error ends the
\* workflow "immediately", and with one it is handled there.
AsyncErrorFails == pc = "end" /\ (\E a \in Async : failed[a]) => err

\* Whatever fails, exits or jumps, the task ends and leaves no goroutine behind.
TaskEnds == <>Ended
=============================================================================
