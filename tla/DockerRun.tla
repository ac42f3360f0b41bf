------------------------------ MODULE DockerRun ------------------------------
(***************************************************************************)
(* docker:run (service/system/docker/service.go) against the containers of *)
(* an engine that other requests use too.  Every step is a call to the     *)
(* engine; what a call listed may have changed at the next.                *)
(***************************************************************************)
EXTENDS Integers, Sequences

CONSTANTS
    Runner,        \* requests
    ContainerName,
    MaxContainers

ASSUME DockerAssumption == MaxContainers \in Nat /\ "" \notin ContainerName

VARIABLES
    containers, \* of the engine, by ID
    run         \* what each request does

dockerVars == <<containers, run>>

RunRequest == [name : ContainerName \cup {""}, reuse : BOOLEAN, block : BOOLEAN,
               autoRemove : BOOLEAN]
NoContainer == 0
RunStep == {"idle", "find", "removeFound", "removeNamed", "listStop", "stop", "remove", "pull",
            "create", "listStart", "start", "poll", "last", "reused", "done", "failed", "panic"}

\* back is where a removal goes on; id is the container the request works on.
RunState == [step : RunStep, back : RunStep, id : 0 .. MaxContainers, created : BOOLEAN,
             request : RunRequest]

DockerTypeOK ==
    /\ containers \in Seq([name : ContainerName \cup {""}, autoRemove : BOOLEAN,
                           state : {"created", "up", "exited", "gone"}, started : BOOLEAN])
    /\ Len(containers) <= MaxContainers
    /\ run \in [Runner -> RunState]

DockerInit ==
    /\ containers = <<>>
    /\ run = [r \in Runner |->
                [step |-> "idle", back |-> "idle", id |-> NoContainer, created |-> FALSE,
                 request |-> [name |-> "", reuse |-> FALSE, block |-> FALSE, autoRemove |-> FALSE]]]

-----------------------------------------------------------------------------
(* The engine.                                                             *)

Listed(i) == i \in DOMAIN containers /\ containers[i].state # "gone"
Up(i) == Listed(i) /\ containers[i].state = "up"
Named(n) == {i \in DOMAIN containers : Listed(i) /\ n # "" /\ containers[i].name = n}

StateAfterExit(i) == IF containers[i].autoRemove THEN "gone" ELSE "exited"
ContainerBecomes(i, state) == containers' = [containers EXCEPT ![i].state = state]

\* The program in a container ends.
ContainerExits(i) ==
    /\ Up(i) /\ ContainerBecomes(i, StateAfterExit(i))
    /\ UNCHANGED run

-----------------------------------------------------------------------------
(* The request.                                                            *)

RunIs(r, step) == run[r].step = step
RunGoes(r, step) == run' = [run EXCEPT ![r].step = step]

AskRun(r) ==
    /\ RunIs(r, "idle")
    /\ \E request \in RunRequest :
          run' = [run EXCEPT ![r].request = request,
                             ![r].step = IF request.name = "" THEN "pull" ELSE "find"]
    /\ UNCHANGED containers

\* The status by name; a container that is up is reused at once.
FindContainer(r) ==
    /\ RunIs(r, "find")
    /\ \/ /\ Named(run[r].request.name) = {} /\ RunGoes(r, "pull")
       \/ \E i \in Named(run[r].request.name) :
             run' = [run EXCEPT ![r].id = i,
                                ![r].step = IF ~run[r].request.reuse THEN "removeFound"
                                            ELSE IF Up(i) THEN "reused" ELSE "listStart"]
    /\ UNCHANGED containers

\* remove, by ID and after the pull by name: lists, stops what is up, and removes.
ListRemoved(r, from, back, found) ==
    /\ RunIs(r, from)
    /\ \/ /\ found = {} /\ RunGoes(r, back)
       \/ \E i \in found :
             run' = [run EXCEPT ![r].id = i, ![r].back = back,
                                ![r].step = IF Up(i) THEN "listStop" ELSE "remove"]
    /\ UNCHANGED containers

RemoveFound(r) == ListRemoved(r, "removeFound", "pull", {i \in {run[r].id} : Listed(i)})
RemoveNamed(r) == ListRemoved(r, "removeNamed", "create", Named(run[r].request.name))

ListStop(r) ==
    /\ RunIs(r, "listStop")
    /\ RunGoes(r, IF Up(run[r].id) THEN "stop" ELSE "remove")
    /\ UNCHANGED containers

\* A call that names a container that is gone fails, and so does the request.
StopContainer(r) ==
    /\ RunIs(r, "stop")
    /\ IF Listed(run[r].id)
       THEN /\ RunGoes(r, "remove")
            /\ IF Up(run[r].id) THEN ContainerBecomes(run[r].id, StateAfterExit(run[r].id))
               ELSE UNCHANGED containers
       ELSE RunGoes(r, "failed") /\ UNCHANGED containers

RemoveContainer(r) ==
    /\ RunIs(r, "remove")
    /\ IF Listed(run[r].id)
       THEN RunGoes(r, run[r].back) /\ ContainerBecomes(run[r].id, "gone")
       ELSE RunGoes(r, "failed") /\ UNCHANGED containers

\* pull: the image is there, or is pulled.
PullImage(r) ==
    /\ RunIs(r, "pull")
    /\ RunGoes(r, IF run[r].request.name = "" THEN "create" ELSE "removeNamed")
    /\ UNCHANGED containers

\* The engine refuses a name that is taken again by now.
CreateContainer(r) ==
    /\ RunIs(r, "create")
    /\ IF Named(run[r].request.name) # {}
       THEN RunGoes(r, "failed") /\ UNCHANGED containers
       ELSE /\ Len(containers) < MaxContainers
            /\ containers' = Append(containers,
                   [name |-> run[r].request.name, autoRemove |-> run[r].request.autoRemove,
                    state |-> "created", started |-> FALSE])
            /\ run' = [run EXCEPT ![r].id = Len(containers) + 1, ![r].created = TRUE,
                                  ![r].step = "listStart"]

AfterStart(r) == IF ~run[r].created THEN "reused"
                 ELSE IF run[r].request.block THEN "poll" ELSE "last"

\* Mutant: starts only what has exited.
ListStartExited(r) ==
    /\ RunIs(r, "listStart")
    /\ RunGoes(r, IF ~Listed(run[r].id) THEN "failed"
                  ELSE IF containers[run[r].id].state # "exited" THEN AfterStart(r) ELSE "start")
    /\ UNCHANGED containers

\* start: lists, and starts what is not up.
ListStart(r) ==
    /\ RunIs(r, "listStart")
    /\ RunGoes(r, IF ~Listed(run[r].id) THEN "failed"
                  ELSE IF Up(run[r].id) THEN AfterStart(r) ELSE "start")
    /\ UNCHANGED containers

\* The container may fail to start, and stays as it is.
StartContainer(r) ==
    /\ RunIs(r, "start")
    /\ \/ /\ Listed(run[r].id)
          /\ containers' = [containers EXCEPT ![run[r].id].state = "up",
                                              ![run[r].id].started = TRUE]
          /\ RunGoes(r, AfterStart(r))
       \/ RunGoes(r, "failed") /\ UNCHANGED containers

\* Mutant: waits for a container that has exited.
PollExited(r) ==
    /\ RunIs(r, "poll") /\ Listed(run[r].id) /\ ~Up(run[r].id)
    /\ RunGoes(r, "last")
    /\ UNCHANGED containers

\* Block: until the container is no longer up, or no longer there.
Poll(r) ==
    /\ RunIs(r, "poll") /\ ~Up(run[r].id)
    /\ RunGoes(r, "last")
    /\ UNCHANGED containers

\* The last status of a container that is gone is an index out of range.
LastStatus(r) ==
    /\ RunIs(r, "last")
    /\ RunGoes(r, IF Listed(run[r].id) THEN "done" ELSE "panic")
    /\ UNCHANGED containers

\* Any call may fail, and the request with it.
EngineFails(r) ==
    /\ run[r].step \notin {"idle", "reused", "done", "failed", "panic"}
    /\ RunGoes(r, "failed")
    /\ UNCHANGED containers

RunnerStep(r) ==
    \/ FindContainer(r) \/ RemoveFound(r) \/ RemoveNamed(r) \/ ListStop(r) \/ StopContainer(r)
    \/ RemoveContainer(r) \/ PullImage(r) \/ CreateContainer(r) \/ ListStart(r)
    \/ StartContainer(r) \/ Poll(r) \/ LastStatus(r)

DockerNext ==
    \/ \E r \in Runner : AskRun(r) \/ RunnerStep(r) \/ EngineFails(r)
    \/ \E i \in 1 .. MaxContainers : ContainerExits(i)

\* The engine answers; a program in a container need not end.
DockerFairness == \A r \in Runner : WF_dockerVars(RunnerStep(r))

DockerSpec == DockerInit /\ [][DockerNext]_dockerVars /\ DockerFairness

-----------------------------------------------------------------------------
(* Properties.                                                             *)

\* A request that ends without an error names a container that was started,
\* whichever request created it, found it or started it (run, start).
StartedWhenDone ==
    \A r \in Runner : run[r].step \in {"reused", "done"} => containers[run[r].id].started

\* A request that blocks goes on when its container stops or is removed, by
\* whomever, unless another request starts it again before the next look
\* ("block until the container exits", run).
BlockEnds ==
    \A r \in Runner :
       run[r].step = "poll" /\ ~Up(run[r].id) ~> run[r].step # "poll" \/ Up(run[r].id)

=============================================================================
