# endly in TLA+

Specifications, model checks and proofs of endly: the part that runs workflows
(the walk of `service/workflow` over a tree of tasks, the asynchronous actions
of a task, the command line runner and the event logger that listen), and the
services that have a protocol of their own: the log validator, the HTTP stress
runner, terminal sessions, docker, AWS lambda and roles, deployment, and the
capture of a browser session.

## The system

endly runs *workflows*: trees of tasks, each with a list of actions, each action
a call of a service. Everything goes through one `Context`, which carries the
state maps, the listener of events and the stack of running workflows.

| part | state | operations | interacts with |
| --- | --- | --- | --- |
| workflow service (`service/workflow/service.go`) | the Go call stack, `Processes` in the context | runWorkflow, runTasks, runTask, runNode, runAction, catch, defer, exit, goto, switch, run | calls every service, publishes events |
| process (`model/process.go`, `model/activities.go`) | Terminated, Scheduled, HasTagID, stack of activities, error | Push, Pop, Terminate, SetTask | shared by the goroutines of a task |
| asynchronous actions (`runAsyncActions`) | wait group, groupErr, event buffers | spawn, replay, done | clone of the context, the listener of the task |
| service base (`service.go`) | routes, state map | Run, RunInBackground | publishes ErrorEvent |
| runner (`cli/runner.go`) | error, report, stack of activities | AsListener, processErrorEvent, Run | called by every Publish |
| event logger (`workflow/logger.go`) | stacks of workflows and tasks, counters | processEvent | called by every Publish, wraps the listener |
| context (`context.go`) | clones, deferred functions, closed | Clone, Deffer, Close, MakeAsyncSafe | all services |
| log validator (`service/testing/log`) | files, positions, queues of records | listen, reset, assert | a reader goroutine per listener |
| HTTP stress runner (`testing/runner/http`) | channel, wait group, metrics | stressTest | worker goroutines |
| HTTP and SMTP endpoints (`testing/endpoint`) | recorded trips, mailboxes | serve, push, shift | goroutines of the servers |
| message bus (`testing/msg`) | counter of a pull | PullN, Push | SDKs of the buses |
| terminal sessions (`system/exec`) | sessions of a context, the directory and environment of each | openSession, run, closeSession | ssh and shells; every service that runs commands |
| deployment (`deployment/deploy`) | what a session has deployed | deploy | sessions, storage |
| docker (`system/docker`) | none: the engine has it | run, pull, start, stop, remove | the engine, which others use too |
| AWS lambda, rules, roles, API gateway (`system/cloud/aws`) | none: the cloud has it | deploy, recreate, setupRole, deployRule, deployAPI | each other, the cloud |
| browser runner (`testing/runner/webdriver`) | console, requests in flight, completed, the sink | capture start, stop, clear, drain | Chrome; asynchronous actions drain one session |
| loading, criteria, variables (`model`) | none that changes in a run | build the tree, evaluate | workflow service |

What is hard in it:

- *control that is data*: exit and goto only mark the process, and the calls on
  the stack have to notice at every level; catch and deferred tasks run in the
  middle of returning; a switch runs a task inside an action;
- *errors*: up to four of them (task, catch, scheduled task, deferred task) meet
  in one result of `runTasks`, and the runner sees another set of them as events;
- *goroutines*: asynchronous actions share the process, the listener and, when
  they run workflows, the stack of processes;
- *time*: polling of log files, idle workers, a pull with a timeout;
- *what is remembered*: a session remembers its directory, its environment and
  what was deployed, a file its position; all of them can be stale;
- *partial failure*: a deploy or a set-up is a dozen calls of a cloud, any of
  which may fail, and is made again.

The properties that make each part correct are those of the hazards in
`PROJECT.json`; a hazard without one says why.

## Modules

| module | models |
| --- | --- |
| `WorkflowTasks` | the walk of one goroutine over the tree |
| `ErrorLedger` | what the walk promises about errors; `WorkflowTasks` implements it |
| `WorkflowReport` | the walk with the runner as its listener |
| `AsyncTask` | one task and the goroutines of its asynchronous actions |
| `RunStack` | the stack of processes when asynchronous actions run workflows |
| `EventLogger` | the logger that rebuilds the open workflows and tasks from events |
| `SessionPool` | contexts and their clones, terminal sessions, deferred functions, closing |
| `ShellCache` | what a session remembers of its shell |
| `LogTail` | the log validator: reader, files that grow and rotate, reset, assert |
| `StressTest` | the load test of the HTTP runner |
| `DockerRun` | docker:run and the engine |
| `LambdaDeploy` | deploying and recreating a lambda function, with its schedule |
| `RoleSetup` | setting up a role and its policies |
| `ApiDeploy` | deploying an API: its gateway response, authorizers, methods and stage |
| `AppDeploy` | deploying an application and its dependencies |
| `BrowserCapture` | draining the logs of a browser into buffers and a sink |
| `MCWorkflowTasks`, `MCWorkflowReport`, `MCAsyncTask`, `MCProgress`, `MCServices` | instances for TLC |
| `WorkflowTasks_proofs` | theorems about `WorkflowTasks`, `ErrorLedger` and `WorkflowReport` |
| `AsyncTask_proofs` | theorems about `AsyncTask` |
| `WorkflowStacks_proofs` | theorems about `RunStack` and `EventLogger` |
| `Sessions_proofs` | theorems about `SessionPool`, `ShellCache` and `AppDeploy` |
| `SystemSetup_proofs` | theorems about `DockerRun`, `LambdaDeploy`, `RoleSetup` and `ApiDeploy` |
| `TestRunners_proofs` | theorems about `StressTest` and `BrowserCapture` |
| `LogTail_proofs` | theorems about `LogTail` |
| `Services_proofs` | theorems about `MCServices` and `MCProgress`: the services together |

An operator whose comment starts with `Mutant:` is a plausible bug of the
definition that follows it. No specification uses it; the runs are repeated with
it in place of that definition to see that they notice.

### WorkflowTasks

`stack` is the Go call stack: one frame for each running call of `runWorkflow`,
`runTasks` and `runTask` (with `runNode`, `runAction`, `runOnErrorTask` and
`runDeferredTask` as places, `pc`, inside them). `processes` is the stack of
`model.Process` in the context. While a call runs, `control` is "run"; when it
returns its frame goes, `control` is "return" and `err` is what it returned.

| action | code |
| --- | --- |
| `EnterWorkflow`, `LeaveWorkflow` | `runWorkflow`: runNode of the workflow, the deferred Pop and end event |
| `PassTask`, `RunTask`, `TaskSucceeded`, `TaskFailed`, `EndLoop` | the loop of `runTasks` |
| `CatchError` | `runOnErrorTask` |
| `RunScheduled` | the end of `runTasks`: the task a goto scheduled |
| `RunDeferred`, `EndTasks` | the deferred function of `runTasks` |
| `SkipTask`, `FailTaskInit`, `EnterTask`, `SubTasksReturned`, `LeaveTask` | `runTask` and `runNode` of the task |
| `PassAction` | tags and Skip |
| `IdleAction`, `FailActionInit`, `CallService`, `ActionReturned` | `runAction`, `Repeater.Run`, `AbstractService.Run` |
| `ExitWorkflow`, `Goto`, `Switch`, `RunWorkflow` | the actions of the workflow service itself |

The tree is given by constants (`Tasks`, `OnErrorTask`, `DeferredTask`,
`Actions`, ...), whatever the loader made of a file. Values are abstracted:
what When, Init, Post, Skip, Extract and the exit criteria evaluate to is a
choice, limited for every node and action by the constant `Outcome` and the
field `outcome`. Errors are numbered in the order in which they are raised. The
state maps, sleeping, templates and the text of events are left out; an event
is its type and the node it is about. A catch or deferred task is any task: the
code finds it by name in the node or below it.

`published` holds the events of the last step, in order, for `WorkflowReport`.
`raised`, `caught`, `masked` and `gotos` are history variables.

### WorkflowReport

`Context.Publish` calls the listener before it returns, so the runner moves in
the step that publishes. Of the runner there is `runnerErr`: set by ErrorEvent
and cleared by ResetError; `Runner.Run` exits with 1 when it is set at the end.

### AsyncTask

`step[t]` is where goroutine `t` is in `runAsyncAction` and `runAction`, `pc`
and `next` are where the goroutine of the task is in `runTask`. The steps are as
small as the shared state demands: reading CanRun and beginning the activity are
two, the replay of each event is one, `group.Done` and setting `groupErr` are
two. `Task.AsyncActions` repeats an asynchronous action as several that run
once, so that the constant `Actions` lists them like that. The data race on
`groupErr` (read by the task, written by goroutines without a lock) is the
choice of the old or the new value that the order of steps makes.

### RunStack and EventLogger

A clone of a context holds the stack of processes of its origin, so that the
workflows of several asynchronous actions lie on one stack in the order in which
they were pushed. `PushProcess`, `PopProcess` and `StopLast` are
`runWorkflow`'s Push and deferred Pop, and `exitWorkflow` and `runGoto`, which
act on the top one, whoever's it is. `Acts` is CanRun of the process that the
goroutine was given.

The logger has nothing but events: `StartEvent` pushes, `EndEvent` pops what is
on top, and the file goes to the directory of the stacks at that moment. A
replay (`StartReplay` to `EndReplay`) publishes the events of an asynchronous
action in between those of the task that waits for it. A directory is its number
and its group, a file its number and what it is named for; four digits are the
constant `FileLimit`.

### SessionPool and ShellCache

`SessionPool` has every context of a run. `CloneContext`, `MakeAsyncSafe` and
`EndContext` are the life of a clone: that of a workflow, whose caller waits, or
of an asynchronous action, whose caller goes on. Entries of a context that are
shared by reference are ids of maps and lists. `openSession` is five steps,
since another goroutine may come between them: look up, connect, defer two
functions, each of which is a read and a write of the list, initialise and
store. `CloseContext` runs what was deferred by all of them.

`ShellCache` has one shell and its session. A cd or an export that the code
recognises goes through `ChangeDirectory` or `Export`, which send nothing when
the session believes it to be done; those joined by && are sent and forgotten
(`RunCd`, `RunExport`); others go unnoticed (`RunOther`). An argument is an
absolute or relative path, as the text that is compared.

### LogTail

Three processes: the program that writes (`WriteLine`, `FinishLine`, `Rotate`),
the reader (`ListFiles` to `EndRecords`: `readLogFiles`, `readLogFile`,
`tryReadSnapshot`, `readLogRecords`), and the workflow (`Listen`, `Reset`,
`StartAssert`, `HasNext`, `ShiftRecord`, `ShiftIndexed`). Each call of the storage
is a step, so that a file may change between the listing, the content and the
size that is asked after it; each record, and each move of the position, is one,
so that a reset may come in the middle. A line is two units of text: a file may
end in the middle of it. After three attempts in which the file changed
(`StatSnapshot`) or could not be asked for again (`StatFails`) `tryReadSnapshot`
returns nothing and no error, and a new file is by then registered with the size
and time of its listing.

### StressTest and DockerRun

`StressTest` has the goroutine of the request (`Load`: build, append, flush,
wait, collect), the clients, the channel and the wait group. The buffer keeps
its trips from flush to flush, as the code does. A client may find the channel
empty for 15 seconds whenever it is empty.

`DockerRun` has several requests and an engine whose containers also exit by
themselves. status, start, stop and remove are a listing followed by a call, and
what was listed may have changed by then; any call may fail (`EngineFails`).

### LambdaDeploy, RoleSetup and ApiDeploy

One action per call of the cloud. `Answered` is a call that has its effect,
whose answer may be an error; `CallFails` and `SetupFails` are the errors without
effect. A request that failed is made again, changed or not. The errors that the
code ignores (listings, GetRole, GetPolicy, the URL that is dropped) go on.

In `ApiDeploy`, `known` is `authorizedByName`, filled once: a new authorizer is
stored in it by its id, so a method that uses it ends the request. `gateway` is
what the cloud has; `gateway.stage` holds the methods the API had when the stage
was last deployed, which is what it serves. The API has one resource; a cloud
that refuses to patch a method is a choice of `UpdateMethod`.

### AppDeploy and BrowserCapture

`requests` of `AppDeploy` is the stack of calls of `deploy`: an application under
those it is a dependency of. Versions are sequences of characters, since they
are matched by common prefix. `RunPre` is what Pre holds: the metas that are shipped
for tomcat, go and node remove there what is installed (`Clears`), before the copy.
`OthersChange` stands for whoever else works on the target. `spoiled` is history:
applications that others changed, or that a failed deployment had begun to change,
since they were verified.

A drain of `BrowserCapture` takes the steps between which its lock is released:
reading each log, appending, each event, fetching a body, taking what is
pending, writing it, advancing. A call of the console is in the log of the browser
and, when the Runtime domain is enabled, an event of the performance log as well,
which the same drain appends later (`OnRuntimeConsole`). An entry that does not parse
is skipped (`SkipEvent`); start and stop enable and disable the domains, and any of
these commands may fail. `overlapped` notes that a second drain came in the middle
of one, or a second flush or a clear in the middle of a flush; `untold` has the
requests whose end was not logged or did not parse. A second capture-start on a
session, which replaces the state of the first, is left out.

## Runs

| run | instance | states | what it shows |
| --- | --- | --- | --- |
| `MCTaskErrors` | `Error*`: a group with catch and defer in a workflow with catch and defer | 529 | types; no error is lost; the exit code tells how the run ended |
| `MCTaskJumps` | `Jump*`: switch, gotos forwards, backwards, out of a switch and out of catch, a nested workflow, exits | 2,637 | exit, goto, nesting and termination |
| `MCAsyncTask` | four actions, two asynchronous | 171,265 | waiting, replay, shared stack, stopping, liveness |
| `MCLogTail` | one file | 1,505,174 | records in order, none lost, each handed out once, all read |
| `MCProgress` | two clients, two docker:run requests | 88,240 | waiting ends, and rightly |
| `MCServices` | nine services | 2,122,025 | the services that share no state |
| `MCHandlersRun`, `MCTagsSelect`, `MCGotoInDefer`, `MCFailFlag`, `MCAsyncError`, `MCLogIndex` | | | the six disagreements below |

`MCServices` and `MCProgress` put several specifications in one run. They have no
variable in common, and `active` is the one that takes steps, so that the state
space is the sum of theirs, every behaviour of each is there, and a property of
one sees nothing of the others.

Properties:

- `ErrorsAccounted`: the walk implements `ErrorLedger`. An error stays on its way
  until a catch task is given it or it yields to the error a deferred task ran
  under; the run returns the last one on its way. `MCTaskErrors` checks it, and
  `Implements` proves it for every tree, jumps included.
- `SuccessMeansCaught`: a run that ends well after an error ran a catch task.
- `ExitCodeTells`: the exit code is 1 when the run ends with an error, and 0 when
  it ends well and no catch task has the Fail flag.
- `ExitStops`, `ExitExcludesGoto`: after exit only catch and deferred tasks are
  started, no action is, and no goto is pending.
- `GotoHonoured`: a process that ends well has run the task that was scheduled.
- `ProcessOfFrame`: `Last(context)`, on which exit, goto and switch act, is the
  process of the call they are made from.
- `Termination`, `TaskEnds`: the run ends; the task ends with its goroutines.
- `JoinedBeforeEnd`: the task ends after its goroutines and their replays.
- `ActivitiesPaired`, `ActivitiesBalanced`: the listener sees begin and end of
  each activity in turn; the shared stack never underflows and ends empty.
- `StopsSoon`: after an exit or goto a goroutine begins at most one activity.
- `ReadInOrder`, `NothingLost`, `TakenOnceByPosition`, `LinesAreRead`: no line
  becomes a record twice or out of order, whatever rotations and resets do to the
  position; a file that only grows loses none, torn by a reset aside; assert by
  position hands each record out once; every ended line is read in the end. One
  case is named and not more: a new file whose first reading was given up, as long
  as it keeps the size and the time of its listing.
- `AllHandled`, `LoadEnds`: the wait group ends the load test after every trip,
  and does end it.
- `StartedWhenDone`, `BlockEnds`: a docker:run that ends well names a container
  that was started, and one that blocks goes on when it stops.
- `OwnTerminals`, `AllClosed`: goroutines that run at the same time have no
  terminal in common; the end of a run closes every connection.
- `SessionKnows`: the directory and the variables a session remembers are those
  of its shell.
- `DeployedAsAsked`, `PermissionsStay`, `RoleAsAsked`, `OneLostEach`: what a deploy
  or a set-up that succeeds leaves is what was asked for, whatever failed before;
  permissions do not pile up; of the policies a role had and that are asked for ever
  since, each set-up that failed, and the one in progress, has cost one at most. A
  retry may well lose a second one: a policy is deleted before it is put.
- `ApiAsAsked`: an API that deploys has the methods that were asked for and no
  others, whatever failed before, and a redeployed stage serves them; a deploy
  that fails though no call did succeeds when it is made again.
- `FiledRight`, `FilesKept`: outside of replays events are filed under the
  workflows and tasks they belong to; no file is written over.
- `BaseSpared`: an exit or goto in the workflow of an action does not stop the
  workflow whose task started the action.
- `OkIsThere`: after a deployment that ends well what it asked for is on the target
  in a version that matches, and so is what that depends on, deployed now, found or
  remembered, unless it was changed since.
- `SinkInOrder`, `InflightTrue`: the sink has every entry of either log of the
  console and every request once, and each log in order; a request in flight once
  the log is drained is open in the browser, or its end could not be told.

### Where the code and its documentation disagree

1. `MCHandlersRun`: after an exit, or with a goto pending, catch and deferred
   tasks are started and skipped by `runNode`; the error given to such a catch
   task is swallowed. The comments on `TasksNode` say a deferred task always runs.
2. `MCTagsSelect`: `Process.HasTagID` is that of the last task started; a switch to
   a task without the tag that was asked for clears it, and the actions that follow
   in the task with that tag run unasked. (Asynchronous actions also ignore
   tags and Skip altogether, `PassAction` of `AsyncTask` is for the others.)
3. `MCGotoInDefer`: a goto in the deferred task of the workflow is forgotten.
4. `MCFailFlag`: the Fail flag only keeps the error that a service reported; an
   error of When, Init or Post was never reported, and an outer catch task clears.
5. `MCAsyncError`: the error of an asynchronous action does not reach its task.
6. `MCLogIndex`: with several files, looking for a record by index takes the first
   record off every file that does not know the index, and hands it to nobody.

Some conditions in the properties name what the code does against what one might
wish, where no document says otherwise:

- `LoadEnds`: when all clients gave up while trips were built, the test hangs. The
  last flush of `buildStressTestTrip` takes one trip more than there are (one of
  the batch before is sent again) or, with a full buffer, panics.
- `NothingLost`: a reset between a record and its position loses or cuts a line;
  a rotation to content of the same length and second goes unseen. A file that
  keeps changing while listen reads it leaves an entry on which the reader fails.
- `LinesAreRead`: a new file that is given up in three attempts, because it changes
  or cannot be asked for, is registered as it was listed: as long as it stays so, no
  poll reads it.
- `AllClosed`: two goroutines in `Deffer` may drop a function of one another.
- `SessionKnows`: relative directories are compared as text; directories changed
  behind the session stay unnoticed.
- `DeployedAsAsked`: a zip file that is there already ends the deploy before
  triggers, URL and schedule; creating a function leaves a schedule that is there.
- `ApiAsAsked`: the deploy that creates an authorizer fails if a method uses it. An
  authorizer that is there ends the loop, so that one listed after it is never
  created or updated, and a method that uses it fails for ever.
- `OkIsThere`: a deployment that fails after Pre or the copy leaves the record as it
  was, and a record is believed even when the deployment is forced. One that says
  less than what is asked for matches every version that begins with it.
- `OneLostEach`: a policy that was deleted and not put stays away until a set-up
  defines it again.
- `SinkInOrder`: overlapping flushes write entries twice, and may read past the
  buffers; a clear in the middle of one too; a write that fails is repeated from the
  start. Drains that overlap before they flush mix the order. What one call of the
  console left in both logs is two lines.
- `InflightTrue`: a request open at a stop, whose end the browser does not log any
  more, or whose end does not parse, stays in flight.
- `DockerRun`: a container that removed itself makes `run` panic while it reports
  that there is none (`LastStatus`).

### Bounds

- `MaxErrors` (4 and 2): errors raised in one behaviour. Two are enough for one
  error to meet another in every pair of places; four let a task, its catch, the
  deferred tasks of both levels and an outer catch fail in one run.
- `MaxGoto` (3, and 1 where a single goto is asked about): gotos of a behaviour.
  A goto backwards can repeat for ever in the code; three let one goto follow
  another that followed a switch, and are the reason that `Termination` holds at
  all: it says that nothing *else* keeps the walk from ending.
- `MaxRepeat` (2): one repetition is enough to begin an action a second time.
- `MCAsyncTask`: two goroutines beside that of the task, so that a goroutine may
  pop the activity of another while a third replays.
- `MCLogTail`: one file with two lines, one second that passes or not, one
  rotation, one reset, two records asserted, one failure of the storage that
  ends a reading: the reader stops, or a file is given up that could not be asked for
  the third time. Two lines
  in units let a file end in one, a reset cut one and a rotation bring fewer, as
  many or more of them; several files only matter to the order of assert, which
  `MCLogIndex` has.
- `MCProgress`: a buffer and a channel of two, five trips: the buffer is flushed
  twice, and the last flush finds it full or not. Two requests for one name, three
  containers: one may remove, reuse or collide with that of the other.
- `MCServices`: three contexts (two actions beside the first, or an action of an
  action) and three connections, of both together five (`MaxLoad`), so that two
  contexts defer into one list at once and drop a function; a directory with two levels and a dotted name; three
  deploys with one fault, two set-ups with two errors and three policies, so that a
  set-up fails, is made again and fails at another policy; six events, two replays, numbers that run out after two files; two
  actions with two workflows each; two applications, one under the other, whose Pre
  clears the lower one (`Clears`), and one change by others; two drainers, two
  drains, stops or clears, two calls of the console and one request, of whose calls,
  begin and end three happen (`MaxLogged`), one thing that fails (`MaxLosses`), the drainers interchangeable (`MCSymmetry`: no definition tells
  one from the other, and the run checks invariants only); three requests
  for an API, with one fault: an authorizer is created, and the deploy fails, is
  made again, and meets a second authorizer.

A goto that is not possible under `MaxGoto` leaves the other outcomes of the
walk; a behaviour cannot get stuck on it, since the tree gives those actions a
Skip, and TLC checks for deadlock in every passing run.

### Fairness

`WorkflowTasks` has `WF_vars(Next)`: one goroutine that Go keeps running, and
every service that is called returns. `AsyncTask` has weak fairness for the
goroutine of the task and for each of the others: Go's scheduler runs every
goroutine that can run, and the only wait is `asyncGroup.Wait`.

`LogFairness` is weak fairness of the reader, which nothing but its own sleep
keeps from going on, and of ending a line that was begun; nothing is asked of
workflows, rotations or failures. `StressFairness` is weak fairness of the load
test and of each client, `DockerFairness` of each request once it is made; nothing
is asked of the containers. `MCServices` checks safety only.

## Proofs

Theorems hold for every tree, every number of actions and all bounds, from the
assumptions the modules name: `TreeAssumption`, `ActionAssumption` and
`BoundAssumption` (the shape the loader guarantees), `AsyncAssumption`,
`StackAssumption`, `LoggerAssumption`, `PoolAssumption`, `ShellAssumption`,
`DeployAssumption`, `LogAssumption`, `StressAssumption`, `CaptureAssumption`, `DockerAssumption`,
`LambdaAssumption`, `RoleAssumption` and `ApiAssumption`. Those of the clouds also say
that there is a zip file, a document, a method and an API request to deploy:
without one there would be no request to speak of, and the initial state would
have no type. `ShellAssumption` says that the home directory and the parents of
directories are directories. TLC evaluates the assumptions on every run of their modules.

All safety properties of the passing runs are theorems, `GotoHonoured` under a
hypothesis on the tree. In each module one lemma shows that the initial states have
the inductive invariant, one per action (or group of actions that move the same
state) that it keeps it, and the theorems follow from it.

### The walk

- `WorkflowTasks_proofs`, stack: `IInv` is `TypeOK` with `StackInv`: a frame of kind
  "workflow" stands under one of kind "tasks", the positions of processes do not
  decrease towards the top and count the workflows on the stack, the error of
  every frame was raised. `TypeOK` alone is not inductive: popping a frame or a
  process has to leave one for the caller. The lemmas `ContinueMove`, `CallMove`
  and `ReturnMove` show it for the three ways in which the stack moves, and one
  step per action reduces each action to one of them. `TypeCorrect` and
  `ActsOnOwnProcess` follow at once; `ExitOrGoto` needs that exit and goto are run
  only in a process that can run, and that they act on that process.
  `ExitStopsAll` is an action property: which actions are enabled in a terminated
  process, and what each publishes, given that the process of the innermost call
  is the last one.
  `GotoNotForgotten` has a hypothesis on the tree, `DeferredStill`: the deferred task
  of a workflow leaves no jump behind. `Still` is the largest set of tasks without a
  goto that is closed under what they switch to and defer; a goto of a sub task
  does not count, the loop of the sub tasks takes it. The hypothesis is needed
  (`MCGotoInDefer`), and it is weak: gotos may stand anywhere else, in deferred
  tasks of tasks too. `GotoInv` follows the jumps. A frame of runTasks that is past
  its loop with no error is `Settled`, and while one is the last frame of runTasks in
  its process and no error is on its way up there, no jump is pending (`QuietInv`).
  A process that calls another waits, so that this has to be kept for settled frames
  deep in the stack; it is because what they run is still (`StillInv`), which in
  turn needs what every frame may have called (`CalledInv`). `BackInv` says the same
  of the moments at which it is used: a workflow that begins or got its result, and
  runTasks back from a jump.
- `WorkflowTasks_proofs`, errors: `EInv` adds that a frame keeps an error only while its
  deferred task runs (`PlaceInv`). Every action has one of six shapes (it goes on,
  calls, returns, raises, catches or masks), and each shape is a step, or a
  stutter, of `ErrorLedger`: `Implements`. `SuccessCaught` follows from an
  invariant about the errors on their way. `ExitCodeRight` is about the runner,
  which sees events only. `RInv` says that a run that ends with an error
  published an ErrorEvent last, that a step that publishes one leaves an error,
  and that the runner holds an error only while one is on its way, as long as no
  catch task has the Fail flag. It rests on the fact that the frame at the bottom
  of the stack stays a workflow (`Bottom`): the event of the outermost workflow
  is published after all others.

### Goroutines

- `AsyncTask_proofs`: `JInv` says that the counter of the group is the number of
  goroutines that are not done, those not yet spawned included, and that a
  goroutine that is done has an empty buffer: `JoinsBeforeEnd`. `LateInv` says that
  a goroutine that began an activity late is not about to begin another:
  `StopsAfterOne`. `TInv` adds types and that the shared stack holds as many
  activities as goroutines are inside of one, whoever's are popped:
  `BalancedHolds`, and `TypeCorrect`, which needs it for the pop. `PInv` gives for
  each place of a goroutine the events it has in its buffer and whether the
  listener of the task has heard one start more than ends: `PairedHolds`.
- `WorkflowStacks_proofs`, stack: the process of the task is the bottom of the
  stack, and above it are as many processes as workflows the goroutines are inside
  of, counted over all of them (`StackShape`). Who pops whose does not matter to
  the count, and a goroutine that is inside a workflow therefore never finds the
  process of the task on top: `BaseIsSpared`.
- `WorkflowStacks_proofs`, logger: a stack of the logger is as long as there are
  workflows (or tasks) open, those of replays included, and up to the place where
  the first replay began it lists those of the task itself, whatever the replays
  took off above (`Filed`). When no replay is open that is all of them:
  `FiledRightHolds`. The property compares places by rank, the number of open
  entries of a kind up to one, which needs no recursion. `FilesKeptHolds`: each
  file has a number that its directory has counted to, modulo the digits.
  `LoggerTypesHold`: groups are numbered by how many there are.
- `Sessions_proofs`, pool: `OwnTerminals` alone is not inductive, since the caller
  of a clone has the map of the clone and runs again when the clone ends.
  `PoolIInv` says that of two contexts under way with one map one waits
  (`SharedByWaiting`), that a clone somebody waits for is the only one its caller
  waits for and has its map, if there is one (`CallersWait`), that whoever has a
  map has the key among the unsafe ones, and that maps are numbered as they are
  made: `TerminalsAreOwn`. `KeptIInv`: a connection that is kept has its close in
  some list, or was overwritten there, or is about to be deferred, and whoever is
  about to store a list has one: `AllClosedHolds`. `PoolBounded` is for the numbers
  of the types: who has a map, but is not a clone about to give it up, keeps one
  (`Mapped`), who has a list keeps it (`Deferrers`), and there are no more maps and
  lists than such contexts; a context that asks for a session has a map and a host,
  so that what it defers names them: `PoolTypesHold`.
- `TestRunners_proofs`, load: `StressIInv` says that the wait group is the number
  of trips in the channel, with clients and about to be sent (`Counted`), and that
  a trip that was built is handled, in the channel, with a client, or in the part
  of the buffer that a flush still has to send (`Covered`). A group at zero at the
  end of the last flush leaves the first: `EveryTripIsHandled`. That trips of an
  earlier batch may be sent again does no harm to it. With the bounds of the buffer
  and the channel (`LoadBounded`) it is what keeps the group between zero and what
  the channel and the clients hold and one trip: `StressTypesHold`.
- `TestRunners_proofs`, browser: an entry is in the logs of the browser (`Logged`),
  read by a drain (`Reads`), kept in a buffer (`Kept`), or none of them, and the lines
  of the sink (`Written`) are further on than all but what the buffers hold before its
  positions. `Flow` says that whatever is further on precedes what is behind: it is
  another entry, whatever the drains do, and, as long as no two of them overlap
  (`Strict`), an older one of its log. So one invariant, `OrderInv`, holds the
  repetitions among overlapping drains and the order among others; what it says of
  the sink is under `Alone`, no flush in the middle of another: `SinkInOrderHolds`.
  `FlyInv` follows the requests: one that has ended and is in flight, or is to be put
  there by an event on its way, has its end on its way as well, behind the event
  that it was sent, unless nobody could tell its end: `InflightTrueHolds`.

### What is remembered, and what others have

- `Sessions_proofs`, shell and deployment: `SessionKnows` is inductive with the
  types of shell and session. `ShellTypesHold` adds that the session remembers an
  argument that a cd may have had. `OkIsThere` alone is not
  inductive, since what is there may have been deployed, found or remembered long
  before. `DeployIInv` says that a record nobody has touched since is true and that
  the dependencies of a recorded application are there (`RecordTrue`), that every
  request in progress has its first dependencies behind it and all of them once it
  goes on (`InOrder`), and what the first request was asked for (`AskedFirst`). An
  application that the request on top of the stack is changing, or that is spoiled, is
  what `Sure` excepts: `OkIsThereHolds`.
- `SystemSetup_proofs`: `DockerIInv` adds that a container is up only if it was
  started, and that a request past its start has a started container:
  `StartedIsNamed`; `DockerTypesHold` adds that a request works on a container there
  was when it chose it. For the clouds the invariants say, for every call that a
  request may have come to, what the calls before it left behind: `BranchInv`,
  `FunctionInv` and `ScheduleInv` for a function, `AttachedInv`, `DefinedInv` and
  `MissingInv` for a role (what is still to do accounts for every difference from
  what was asked for, and what is missing for the set-ups that failed), `MethodsInv`, `KnownInv`, `ServedInv` and `AgainInv` for an
  API. A request that fails leaves the cloud anywhere, and the invariants claim
  nothing of it until the next one has passed the same calls, so that
  `DeployedAsAskedHolds`, `RoleAsAskedHolds` and `ApiAsAskedHolds` hold whatever failed
  before and however often. `AgainInv` carries over one failure: a deploy that
  failed though no call did has created the first authorizer it lists.

### The log validator

`LogTail_proofs` is about any number of files, lines, polls, rotations, resets and
failures of the storage. The bounds of `LogAssumption` need not be small.

- `LogTyped` is `LogTypeOK` with what the steps take for granted: a reader that
  has a file to read has it first in its list, a file that is being read is in the
  map, and an iterator that said there is a next record stands at a file with one.
  The order of a listing and the first file with records are chosen by position;
  that a first one exists, and what `RemoveAt` leaves of a queue, are lemmas
  (`FirstOfSet` by the pigeonhole principle, `SetOfSeq`, `OneMore`).
- `OrderInv` relates four things that move one at a time: what is on the disk, what
  the file was last read as, the text the reader has under way, and the position.
  What is on the disk continues what was read, or the file was rotated and all of
  it is newer (`Follows`); and no position, be it that of the file or the one the
  reader goes on from, is before the line of a record (`Passed`). A reset that comes
  between two records moves the position under the reader, and the reader moves it
  again: what holds after both is that it is never too small. `ReadsListened` is
  what keeps a second reader from starting. `RecordsInOrder` follows: `ReadInOrder`
  is a conjunct.
- `KeptInv` is the other direction, for a file that only grows and was not reset
  while its records were read: what was read starts what is on the disk, the
  lines up to where the reader is have records, but for those a reset skipped
  (`Got`), and until the first reset positions are even, so that every record
  begins where a line does (`WholeFile`): `NothingLostHolds`.
- `TakenInv` says that the records of a file are among its lines, that no two have
  the same line, that what was handed out is not pending, and that every line that
  became a record is pending, handed out or discarded. It needs that a new record
  is new to all files (`Apart`): within a file that is `OrderInv`, and between two
  files, that each line was written to one of them. `TakenOnceHolds` follows. It is
  stated where records are taken by position; by an index the code does lose some
  (`MCLogIndex`).

### The services together

`Services_proofs` is about the two composed runs. Every step of `MCServices` or
`MCProgress` is a step of one service and leaves the others as they are, so that each
implements all of its services, with their fairness (`ServicesImplementEach`,
`ProgressImplementsEach`). What is proved of a service alone therefore holds of it
among the others, the properties of the runs among it, and the types of all
(`ServicesTypesHold`, `ProgressTypesHold`) are put together from those of each.

### What stays with TLC

- Liveness (`Termination`, `TaskEnds`, `LinesAreRead`, `LoadEnds`, `BlockEnds`),
  which the prover does not do under fairness.
- `GotoHonoured` where a deferred task of a workflow has a goto: there it is false
  (`MCGotoInDefer`).
- The six disagreements, which are counterexamples.

## What could follow

1. `WorkflowReport` with `AsyncTask`: a catch task that clears the error of a
   goroutine, and a runner that several goroutines call.
2. The data of activities in `WorkflowTasks`, for `$error`.
3. The counter of a pull (`testing/msg/gcp.go`), the trips of the HTTP endpoint and
   the mailbox of the SMTP endpoint.

## Not modelled

- The other services of systems and clouds (storage, secrets, daemons, processes,
  Slack, GCP and most of AWS): each operation is one call of an SDK or a sequence
  of shell commands; no state is kept and nothing interleaves.
- `contract_gen.go` of docker and the other generated contracts: types only.
- build, sdk, version control, migration, postman: sequences of commands.
- REST runner, validator, dsunit: thin calls of other libraries.
- The loader, templates, the criteria language, variables and extraction, and the
  selection of tasks by name: pure functions over data that are applied before or
  between steps. The walk takes their outcome as a choice.
- The HTTP and SMTP endpoints and the message buses: see above.
- Driving a browser, and the second counter of requests in flight in
  `net_idle.go`, which a page's events feed.
- Interactive mode, printing and the registry.

`PROJECT.json` lists each with its reason.
