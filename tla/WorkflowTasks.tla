---------------------------- MODULE WorkflowTasks ----------------------------
(***************************************************************************)
(* The sequential control of the workflow service: how one goroutine walks *)
(* the tree of tasks of a workflow (service/workflow/service.go:           *)
(* runWorkflow, runTasks, runTask, runNode, runAction, runOnErrorTask,     *)
(* runDeferredTask) and what the actions exit, goto, switch and run of the *)
(* service do to that walk.                                                *)
(*                                                                         *)
(* The Go call stack is the variable stack: one frame for every running    *)
(* call of runWorkflow, runTasks and runTask.  A call in progress has      *)
(* control = "run"; when a call returns, its frame is gone, control =     *)
(* "return" and err is the error it returned.  Errors are numbered in the  *)
(* order in which they are raised, 0 is nil.  Asynchronous actions are not *)
(* here: see AsyncTask.                                                    *)
(***************************************************************************)
EXTENDS Integers, Sequences

CONSTANTS
    Workflow,      \* the workflows that may run
    Main,          \* the one the caller asks for
    Task,          \* the tasks of all of them
    NoTask,        \* no task: an empty name, a nil pointer
    Tag,           \* tag ids
    Tasks,         \* TasksNode.Tasks of every workflow and task
    OnErrorTask,   \* TasksNode.OnErrorTask (catch), or NoTask
    DeferredTask,  \* TasksNode.DeferredTask (defer), or NoTask
    Actions,       \* Task.Actions
    Fail,          \* the tasks that carry the Fail flag
    TagIDs,        \* RunRequest.TagIDs of a run of the workflow, split
    Outcome,       \* what runNode of a workflow or task may end in, besides running
    MaxRepeat,     \* the largest Repeat of an action
    MaxErrors,     \* bound: errors raised in one behaviour
    MaxGoto        \* bound: goto actions run in one behaviour

Node == Workflow \cup Task

\* An action of a task.  target is the task or the workflow that goto, switch
\* and run name; "call" stands for any action of another service, for a switch
\* that matches no task and for a goto or a switch that names none, which fails.
\* outcome: what the action may end in besides running well: "skip" is When
\* being false, "init" a failure of Skip, When or Init, "handler" one of the
\* service, and "post" one of Post, Extract, the exit criteria or the request.
Action == [service : {"call", "exit", "goto", "switch", "run"},
           target  : Node \cup {NoTask},
           tag     : Tag,
           skip    : BOOLEAN,
           repeat  : 1 .. MaxRepeat,
           outcome : SUBSET {"skip", "init", "handler", "post"}]

\* What the loader of workflows guarantees: catch and defer name tasks of the
\* node, goto and switch name tasks, run names a workflow.
ASSUME TreeAssumption ==
    /\ NoTask \notin Node
    /\ Workflow \cap Task = {}
    /\ Main \in Workflow
    /\ Tasks \in [Node -> Seq(Task)]
    /\ OnErrorTask \in [Node -> Task \cup {NoTask}]
    /\ DeferredTask \in [Node -> Task \cup {NoTask}]
    /\ TagIDs \in [Workflow -> SUBSET Tag]
    /\ Outcome \in [Node -> SUBSET {"skip", "init", "post"}]
    /\ Fail \subseteq Task

ASSUME ActionAssumption ==
    /\ Actions \in [Task -> Seq(Action)]
    /\ \A t \in Task : \A i \in 1 .. Len(Actions[t]) :
          LET action == Actions[t][i]
          IN  /\ action.service \in {"goto", "switch"} => action.target \in Task
              /\ action.service = "run" => action.target \in Workflow

ASSUME BoundAssumption ==
    /\ MaxRepeat \in Nat
    /\ MaxErrors \in Nat
    /\ MaxGoto \in Nat

VARIABLES
    stack,      \* frames of the running calls, the innermost last
    processes,  \* model.Processes of the context, the innermost last
    control,    \* "run", "return" or "done"
    err,        \* the error of the call that just returned
    published,  \* events the last step handed to the listener, in order
    raised,     \* history: how many errors were raised
    caught,     \* history: errors handed to a catch task
    masked,     \* history: errors of a deferred task dropped for an earlier one
    gotos       \* history: goto actions that ran

vars == <<stack, processes, control, err, published, raised, caught, masked, gotos>>

-----------------------------------------------------------------------------
(* Frames and processes *)

\* proc is the process the call was given: its position in processes.
Frame == [kind : {"workflow", "tasks", "task"},
          proc : Nat,
          node : Node \cup {NoTask},
          list : Seq(Task),
          pc   : {"node", "body", "loop", "task", "catch", "scheduled",
                  "defer", "deferred", "subs", "acts", "call"},
          idx  : Nat,
          rep  : Nat,
          err  : Nat]

WorkflowFrame(p, w) == [kind |-> "workflow", proc |-> p, node |-> w, list |-> <<>>,
                        pc |-> "node", idx |-> 0, rep |-> 0, err |-> 0]

TasksFrame(p, n, l) == [kind |-> "tasks", proc |-> p, node |-> n, list |-> l,
                        pc |-> "loop", idx |-> 1, rep |-> 0, err |-> 0]

TaskFrame(p, t) == [kind |-> "task", proc |-> p, node |-> t, list |-> <<>>,
                    pc |-> "node", idx |-> 1, rep |-> 1, err |-> 0]

\* The node a goto is run under has neither catch nor defer.
CatchOf(f) == IF f.node = NoTask THEN NoTask ELSE OnErrorTask[f.node]
DeferOf(f) == IF f.node = NoTask THEN NoTask ELSE DeferredTask[f.node]

Process == [workflow   : Workflow,
            tagIDs     : SUBSET Tag,
            hasTagID   : BOOLEAN,
            terminated : BOOLEAN,
            scheduled  : Task \cup {NoTask}]

\* Mutant: the jump of a new process is not empty.
NewProcessWithJump(w, inherited) ==
    [workflow |-> w, tagIDs |-> inherited \cup TagIDs[w], hasTagID |-> FALSE,
     terminated |-> FALSE, scheduled |-> w]

NewProcess(w, inherited) ==
    [workflow |-> w, tagIDs |-> inherited \cup TagIDs[w], hasTagID |-> FALSE,
     terminated |-> FALSE, scheduled |-> NoTask]

Top == stack[Len(stack)]
Caller == stack[Len(stack) - 1]
Below == SubSeq(stack, 1, Len(stack) - 1)

\* The process of the running call, and the one Last(context) returns.
This == processes[Top.proc]
Last == processes[Len(processes)]

\* Mutant: a pending jump does not stop the actions that follow it.
CanRunDespiteJump == ~This.terminated

CanRun == ~This.terminated /\ This.scheduled = NoTask

HasTagID(t) == \E i \in DOMAIN Actions[t] : Actions[t][i].tag \in This.tagIDs

\* Process.SetTask remembers whether the task has an action with one of the
\* tags of the run.
SetTask(t) == processes' = [processes EXCEPT ![Top.proc].hasTagID = HasTagID(t)]

Event(type, n) == [type |-> type, node |-> n]

-----------------------------------------------------------------------------
(* Ways to move between frames.  Each fixes stack, control and err.  *)

Continue(f) ==
    /\ stack' = Append(Below, f)
    /\ control' = "run"
    /\ err' = 0

Call(f, callee) ==
    /\ stack' = Append(Append(Below, f), callee)
    /\ control' = "run"
    /\ err' = 0

Return(e) ==
    /\ stack' = Below
    /\ control' = IF Len(stack) = 1 THEN "done" ELSE "return"
    /\ err' = e

Raise == raised < MaxErrors /\ raised' = raised + 1

\* Every task is started the same way, by whichever frame runs it.
StartTask(f, t) ==
    /\ Call(f, TaskFrame(Top.proc, t))
    /\ SetTask(t)

\* TaskEndEvent is published whatever the task ends in.
EndTask(e, events) ==
    /\ Return(e)
    /\ published' = events \o <<Event("TaskEnd", Top.node)>>

Quiet == published' = <<>>

Running(kind, pc) == control = "run" /\ Top.kind = kind /\ Top.pc = pc
Returned(kind, pc) == control = "return" /\ Top.kind = kind /\ Top.pc = pc

-----------------------------------------------------------------------------
(* runWorkflow *)

Init ==
    /\ processes = <<NewProcess(Main, {})>>
    /\ stack = <<WorkflowFrame(1, Main)>>
    /\ control = "run"
    /\ err = 0
    /\ published = <<Event("WorkflowStart", Main)>>
    /\ raised = 0
    /\ caught = {}
    /\ masked = {}
    /\ gotos = 0

\* Mutant: a workflow that fails leaves its process on top.
EndWorkflowKeeping(e) ==
    /\ Return(e)
    /\ processes' = IF e # 0 THEN processes ELSE SubSeq(processes, 1, Len(processes) - 1)
    /\ published' = <<Event("WorkflowEnd", Top.node)>>
                    \o IF Len(stack) = 1 /\ e # 0 THEN <<Event("Error", Top.node)>> ELSE <<>>

\* The deferred calls of runWorkflow pop the process and publish the end; the
\* goroutine of the first run reports the error, AbstractService.Run that of
\* the others, once back in the action.
EndWorkflow(e) ==
    /\ Return(e)
    /\ processes' = SubSeq(processes, 1, Len(processes) - 1)
    /\ published' = <<Event("WorkflowEnd", Top.node)>>
                    \o IF Len(stack) = 1 /\ e # 0 THEN <<Event("Error", Top.node)>> ELSE <<>>

\* runNode of the workflow: When is false, When or Init fails, or its tasks run.
EnterWorkflow ==
    /\ Running("workflow", "node")
    /\ \/ /\ "skip" \in Outcome[Top.node]
          /\ EndWorkflow(0)
          /\ UNCHANGED raised
       \/ /\ "init" \in Outcome[Top.node]
          /\ Raise
          /\ EndWorkflow(raised + 1)
       \/ /\ Call([Top EXCEPT !.pc = "body"], TasksFrame(Top.proc, Top.node, Tasks[Top.node]))
          /\ Quiet
          /\ UNCHANGED <<processes, raised>>
    /\ UNCHANGED <<caught, masked, gotos>>

LeaveWorkflow ==
    /\ Returned("workflow", "body")
    /\ \/ /\ EndWorkflow(err)
          /\ UNCHANGED raised
       \/ /\ err = 0
          /\ "post" \in Outcome[Top.node]
          /\ Raise
          /\ EndWorkflow(raised + 1)
    /\ UNCHANGED <<caught, masked, gotos>>

-----------------------------------------------------------------------------
(* runTasks *)

\* Mutant: the loop does not look at terminated.
LoopRunsOut == Top.idx > Len(Top.list)

\* The loop visits the tasks in order; it leaves out catch and defer, and it
\* stops once the process is terminated.
LoopEnds == Top.idx > Len(Top.list) \/ This.terminated

Passed(t) == t \in {CatchOf(Top), DeferOf(Top)}

PassTask ==
    /\ Running("tasks", "loop")
    /\ ~LoopEnds
    /\ Passed(Top.list[Top.idx])
    /\ Continue([Top EXCEPT !.idx = @ + 1])
    /\ Quiet
    /\ UNCHANGED <<processes, raised, caught, masked, gotos>>

RunTask ==
    /\ Running("tasks", "loop")
    /\ ~LoopEnds
    /\ ~Passed(Top.list[Top.idx])
    /\ StartTask([Top EXCEPT !.pc = "task"], Top.list[Top.idx])
    /\ published' = <<Event("TaskStart", Top.list[Top.idx])>>
    /\ UNCHANGED <<raised, caught, masked, gotos>>

\* Mutant: the loop stays on the task that ended.
TaskSucceededInPlace ==
    /\ Returned("tasks", "task") \/ Returned("tasks", "catch")
    /\ err = 0
    /\ Continue([Top EXCEPT !.pc = "loop"])
    /\ Quiet
    /\ UNCHANGED <<processes, raised, caught, masked, gotos>>

TaskSucceeded ==
    /\ Returned("tasks", "task") \/ Returned("tasks", "catch")
    /\ err = 0
    /\ Continue([Top EXCEPT !.pc = "loop", !.idx = @ + 1])
    /\ Quiet
    /\ UNCHANGED <<processes, raised, caught, masked, gotos>>

\* runOnErrorTask: the error goes to the catch task, and the loop will go on.
CatchError ==
    /\ Returned("tasks", "task")
    /\ err # 0
    /\ CatchOf(Top) # NoTask
    /\ StartTask([Top EXCEPT !.pc = "catch"], CatchOf(Top))
    /\ caught' = caught \cup {err}
    /\ published' = (IF CatchOf(Top) \in Fail THEN <<>> ELSE <<Event("ResetError", CatchOf(Top))>>)
                    \o <<Event("TaskStart", CatchOf(Top))>>
    /\ UNCHANGED <<raised, masked, gotos>>

\* An error nobody catches, or the error of the catch task, ends the loop.
TaskFailed ==
    /\ \/ Returned("tasks", "task") /\ CatchOf(Top) = NoTask
       \/ Returned("tasks", "catch")
    /\ err # 0
    /\ Continue([Top EXCEPT !.pc = "defer", !.err = err])
    /\ Quiet
    /\ UNCHANGED <<processes, raised, caught, masked, gotos>>

RunScheduled ==
    /\ Running("tasks", "loop")
    /\ LoopEnds
    /\ This.scheduled # NoTask
    /\ Call([Top EXCEPT !.pc = "scheduled"], TasksFrame(Top.proc, NoTask, <<This.scheduled>>))
    /\ processes' = [processes EXCEPT ![Top.proc].scheduled = NoTask]
    /\ Quiet
    /\ UNCHANGED <<raised, caught, masked, gotos>>

\* Mutant: the loop ends without taking the task that was scheduled.
EndLoopEarly ==
    /\ \/ Running("tasks", "loop") /\ LoopEnds
       \/ Returned("tasks", "scheduled")
    /\ Continue([Top EXCEPT !.pc = "defer", !.err = err])
    /\ Quiet
    /\ UNCHANGED <<processes, raised, caught, masked, gotos>>

EndLoop ==
    /\ \/ Running("tasks", "loop") /\ LoopEnds /\ This.scheduled = NoTask
       \/ Returned("tasks", "scheduled")
    /\ Continue([Top EXCEPT !.pc = "defer", !.err = err])
    /\ Quiet
    /\ UNCHANGED <<processes, raised, caught, masked, gotos>>

RunDeferred ==
    /\ Running("tasks", "defer")
    /\ DeferOf(Top) # NoTask
    /\ StartTask([Top EXCEPT !.pc = "deferred"], DeferOf(Top))
    /\ published' = <<Event("TaskStart", DeferOf(Top))>>
    /\ UNCHANGED <<raised, caught, masked, gotos>>

\* Mutant: the result of the deferred task replaces that of the tasks.
EndTasksOverwriting ==
    /\ \/ Running("tasks", "defer") /\ DeferOf(Top) = NoTask
       \/ Returned("tasks", "deferred")
    /\ Return(IF DeferOf(Top) = NoTask THEN Top.err ELSE err)
    /\ masked' = masked \cup (IF DeferOf(Top) = NoTask THEN {} ELSE {Top.err} \ {0})
    /\ Quiet
    /\ UNCHANGED <<processes, raised, caught, gotos>>

\* The error of the deferred task counts only if there was none before it.
EndTasks ==
    /\ \/ Running("tasks", "defer") /\ DeferOf(Top) = NoTask
       \/ Returned("tasks", "deferred")
    /\ Return(IF Top.err # 0 THEN Top.err ELSE err)
    /\ masked' = masked \cup (IF Top.err # 0 THEN {err} \ {0} ELSE {})
    /\ Quiet
    /\ UNCHANGED <<processes, raised, caught, gotos>>

-----------------------------------------------------------------------------
(* runTask *)

\* runNode of the task: nothing runs in a process that ended or jumps, When is
\* false, When or Init fails, or the sub tasks and the actions run.
SkipTask ==
    /\ Running("task", "node")
    /\ ~CanRun \/ "skip" \in Outcome[Top.node]
    /\ EndTask(0, <<>>)
    /\ UNCHANGED <<processes, raised, caught, masked, gotos>>

FailTaskInit ==
    /\ Running("task", "node")
    /\ CanRun
    /\ "init" \in Outcome[Top.node]
    /\ Raise
    /\ EndTask(raised + 1, <<>>)
    /\ UNCHANGED <<processes, caught, masked, gotos>>

EnterTask ==
    /\ Running("task", "node")
    /\ CanRun
    /\ IF Tasks[Top.node] # <<>>
         THEN Call([Top EXCEPT !.pc = "subs"], TasksFrame(Top.proc, Top.node, Tasks[Top.node]))
         ELSE Continue([Top EXCEPT !.pc = "acts"])
    /\ Quiet
    /\ UNCHANGED <<processes, raised, caught, masked, gotos>>

SubTasksReturned ==
    /\ Returned("task", "subs")
    /\ IF err = 0
         THEN Continue([Top EXCEPT !.pc = "acts"]) /\ Quiet
         ELSE EndTask(err, <<>>)
    /\ UNCHANGED <<processes, raised, caught, masked, gotos>>

\* After the last action Post of the task applies.
LeaveTask ==
    /\ Running("task", "acts")
    /\ Top.idx > Len(Actions[Top.node])
    /\ \/ /\ EndTask(0, <<>>)
          /\ UNCHANGED raised
       \/ /\ "post" \in Outcome[Top.node]
          /\ Raise
          /\ EndTask(raised + 1, <<>>)
    /\ UNCHANGED <<processes, caught, masked, gotos>>

-----------------------------------------------------------------------------
(* The actions of a task *)

AtAction == Running("task", "acts") /\ Top.idx <= Len(Actions[Top.node])
ThisAction == Actions[Top.node][Top.idx]

\* Process.HasTagID is that of the task started last.
Filtered == This.hasTagID /\ ThisAction.tag \notin This.tagIDs

NextAction == [Top EXCEPT !.pc = "acts", !.idx = @ + 1, !.rep = 1]

\* Repeater.Run: once more, or the exit criteria hold or Repeat is reached.
AfterAction ==
    {NextAction} \cup
    (IF Top.rep < ThisAction.repeat THEN {[Top EXCEPT !.pc = "acts", !.rep = @ + 1]} ELSE {})

\* Skip leaves out the action and those of the same tag that follow it.
SkipsTo(j) ==
    /\ \A i \in Top.idx .. j - 1 : Actions[Top.node][i].tag = ThisAction.tag
    /\ j <= Len(Actions[Top.node]) => Actions[Top.node][j].tag # ThisAction.tag

PassAction ==
    /\ AtAction
    /\ Top.rep = 1
    /\ \/ Filtered /\ Continue(NextAction)
       \/ /\ ~Filtered
          /\ ThisAction.skip
          /\ \E j \in Top.idx + 1 .. Len(Actions[Top.node]) + 1 :
                SkipsTo(j) /\ Continue([NextAction EXCEPT !.idx = j])
    /\ Quiet
    /\ UNCHANGED <<processes, raised, caught, masked, gotos>>

Started == <<Event("ActivityStart", Top.node)>>
Ended == <<Event("ActivityEnd", Top.node)>>

\* The service ran well; the action ends, or what follows it fails.
ActionOK(events) ==
    \/ /\ \E f \in AfterAction : Continue(f)
       /\ published' = events
       /\ UNCHANGED raised
    \/ /\ "post" \in ThisAction.outcome
       /\ Raise
       /\ EndTask(raised + 1, events)

\* runAction whose runNode finds that the process cannot run or that When is
\* false: there is no activity, Extract and the exit criteria still apply.
IdleAction ==
    /\ AtAction
    /\ Top.rep = 1 => ~Filtered
    /\ ~CanRun \/ "skip" \in ThisAction.outcome
    /\ ActionOK(<<>>)
    /\ UNCHANGED <<processes, caught, masked, gotos>>

\* Skip, evaluated whether the process can run or not, When or Init fails.
FailActionInit ==
    /\ AtAction
    /\ Top.rep = 1 => ~Filtered
    /\ Top.rep = 1 \/ CanRun
    /\ "init" \in ThisAction.outcome
    /\ Raise
    /\ EndTask(raised + 1, <<>>)
    /\ UNCHANGED <<processes, caught, masked, gotos>>

RunsAction(services) ==
    /\ AtAction
    /\ Top.rep = 1 => ~Filtered
    /\ CanRun
    /\ ThisAction.service \in services

CallService ==
    /\ RunsAction({"call"})
    /\ \/ ActionOK(Started \o Ended)
       \/ /\ "handler" \in ThisAction.outcome
          /\ Raise
          /\ EndTask(raised + 1, Started \o <<Event("Error", Top.node)>> \o Ended)
    /\ UNCHANGED <<processes, caught, masked, gotos>>

\* exitWorkflow: the process is over, the calls on the stack still return.
ExitWorkflow ==
    /\ RunsAction({"exit"})
    /\ processes' = [processes EXCEPT ![Len(processes)].terminated = TRUE]
    /\ ActionOK(Started \o Ended)
    /\ UNCHANGED <<caught, masked, gotos>>

\* runGoto: the task is only scheduled, a frame of runTasks will run it.
Goto ==
    /\ RunsAction({"goto"})
    /\ gotos < MaxGoto
    /\ gotos' = gotos + 1
    /\ processes' = [processes EXCEPT ![Len(processes)].scheduled = ThisAction.target]
    /\ ActionOK(Started \o Ended)
    /\ UNCHANGED <<caught, masked>>

\* runSwitch: the matched task runs inside the action.
Switch ==
    /\ RunsAction({"switch"})
    /\ StartTask([Top EXCEPT !.pc = "call"], ThisAction.target)
    /\ published' = Started \o <<Event("TaskStart", ThisAction.target)>>
    /\ UNCHANGED <<raised, caught, masked, gotos>>

\* workflow:run in the same goroutine: a process of its own on top of this one.
RunWorkflow ==
    /\ RunsAction({"run"})
    /\ Call([Top EXCEPT !.pc = "call"], WorkflowFrame(Len(processes) + 1, ThisAction.target))
    /\ processes' = Append(processes, NewProcess(ThisAction.target, Last.tagIDs))
    /\ published' = Started \o <<Event("WorkflowStart", ThisAction.target)>>
    /\ UNCHANGED <<raised, caught, masked, gotos>>

ActionReturned ==
    /\ Returned("task", "call")
    /\ IF err = 0
         THEN ActionOK(Ended)
         ELSE /\ EndTask(err, <<Event("Error", Top.node)>> \o Ended)
              /\ UNCHANGED raised
    /\ UNCHANGED <<processes, caught, masked, gotos>>

-----------------------------------------------------------------------------
Finished == control = "done" /\ UNCHANGED vars

Next ==
    \/ EnterWorkflow \/ LeaveWorkflow
    \/ PassTask \/ RunTask \/ TaskSucceeded \/ CatchError \/ TaskFailed
    \/ RunScheduled \/ EndLoop \/ RunDeferred \/ EndTasks
    \/ SkipTask \/ FailTaskInit \/ EnterTask \/ SubTasksReturned \/ LeaveTask
    \/ PassAction \/ IdleAction \/ FailActionInit \/ CallService \/ ExitWorkflow \/ Goto
    \/ Switch \/ RunWorkflow \/ ActionReturned
    \/ Finished

\* The goroutine that runs the workflow keeps running.
Spec == Init /\ [][Next]_vars /\ WF_vars(Next)

-----------------------------------------------------------------------------
(* Properties *)

PublishedEvent == [type : {"WorkflowStart", "WorkflowEnd", "TaskStart", "TaskEnd",
                   "ActivityStart", "ActivityEnd", "Error", "ResetError"},
           node : Node]

\* Types of the variables.
TypeOK ==
    /\ stack \in Seq(Frame)
    /\ processes \in Seq(Process)
    /\ control \in {"run", "return", "done"}
    /\ err \in Nat
    /\ published \in Seq(PublishedEvent)
    /\ raised \in 0 .. MaxErrors
    /\ caught \subseteq 1 .. raised
    /\ masked \subseteq 1 .. raised
    /\ gotos \in 0 .. MaxGoto

\* The errors on their way: the one being returned and those that frames of
\* runTasks keep while their deferred task runs.
Live == ({err} \cup {stack[i].err : i \in DOMAIN stack}) \ {0}

\* An error raised is on its way up until it is handed to a catch task, or it
\* is that of a deferred task and gives way to the error under which the task
\* ran; the run ends with the one error it returns: runTasks, runOnErrorTask and
\* runDeferredTask overwrite and lose none.
Ledger == INSTANCE ErrorLedger WITH live <- Live, ended <- control = "done"
ErrorsAccounted == Ledger!Spec

\* A workflow that ends well after an error has run a catch task for one: an
\* error is not swallowed by the deferred tasks alone.
SuccessMeansCaught == control = "done" /\ err = 0 /\ raised > 0 => caught # {}

\* A process that is terminated has no jump pending, so that no task is run
\* by a goto after an exit: neither may follow the other in one process.
ExitExcludesGoto ==
    \A i \in DOMAIN processes : processes[i].terminated => processes[i].scheduled = NoTask

\* Whatever runs, the last process is that of the innermost call: Last(context)
\* is the process that runTasks and runTask check, so that exit, goto and switch
\* act on the workflow they are an action of.
ProcessOfFrame ==
    stack # <<>> => /\ Top.proc = Len(processes)
                    /\ \A i \in DOMAIN stack : stack[i].proc \in DOMAIN processes

\* After exit the process starts no task but catch and deferred ones, and no
\* action: runTasks breaks off and runNode returns at once, at every level.
ExitStops ==
    [][processes # <<>> /\ Last.terminated /\ Len(processes') = Len(processes)
       => \A i \in DOMAIN published' :
             /\ published'[i].type # "ActivityStart"
             /\ published'[i].type = "TaskStart" =>
                   Top.kind = "tasks" /\ published'[i].node \in {CatchOf(Top), DeferOf(Top)}]_vars

\* Goto schedules a task, and a workflow does not end well before that task was
\* run: the frame of runTasks that ends its loop takes it.
GotoHonoured ==
    [][Len(processes') < Len(processes) /\ err' = 0 => Last.scheduled = NoTask]_vars

\* A catch or deferred task that was started runs its body, unless its own When
\* forbids it: a deferred task "will always run if there has been previous error
\* or not", and no error is taken for handled by a task that did nothing.
HandlersRun ==
    [][SkipTask /\ Caller.pc \in {"catch", "deferred"} => "skip" \in Outcome[Top.node]]_vars

\* The tags of the request select the actions of a task that has one of them
\* and leave any other task alone, whatever ran before the action.
TagsSelect ==
    AtAction => Last.hasTagID = HasTagID(Top.node)

\* The run ends: every frame returns, whatever is caught, skipped or scheduled.
Termination == <>(control = "done")
=============================================================================
