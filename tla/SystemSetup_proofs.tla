------------------------- MODULE SystemSetup_proofs -------------------------
(***************************************************************************)
(* Proofs about the services that set up what others use at the same time: *)
(* DockerRun, LambdaDeploy, RoleSetup and ApiDeploy. What each needs is    *)
(* that the program counter tells which calls have succeeded, and that     *)
(* what they made is kept until the end of the request.                    *)
(***************************************************************************)
EXTENDS DockerRun, LambdaDeploy, RoleSetup, ApiDeploy, SequenceTheorems, FiniteSetTheorems, TLAPS

-----------------------------------------------------------------------------
(* DockerRun, for any number of requests and containers. The argument:     *)
(* nothing is up that was not started, nothing is forgotten to have been   *)
(* started, and a request past its start has a container that was.         *)

Container == [name : ContainerName \cup {""}, autoRemove : BOOLEAN,
              state : {"created", "up", "exited", "gone"}, started : BOOLEAN]

Request == [step : RunStep, back : RunStep, id : Nat, created : BOOLEAN, request : RunRequest]

\* The steps of a request whose container was started.
AfterStarting == {"poll", "last", "reused", "done"}

ContainersInv ==
    /\ containers \in Seq(Container)
    /\ \A i \in DOMAIN containers : containers[i].state = "up" => containers[i].started

RunsInv ==
    /\ run \in [Runner -> Request]
    /\ \A r \in Runner : run[r].back \in {"idle", "pull", "create"}
    /\ \A r \in Runner : run[r].step \in AfterStarting =>
          run[r].id \in DOMAIN containers /\ containers[run[r].id].started

DockerIInv == ContainersInv /\ RunsInv

\* What was started is remembered, and containers keep their IDs.
Remembers ==
    \A i \in DOMAIN containers :
       i \in DOMAIN containers' /\ (containers[i].started => containers'[i].started)

LEMMA DockerInitIInv == DockerInit => DockerIInv
<1> SUFFICES ASSUME DockerInit PROVE DockerIInv
  OBVIOUS
<1>1. ContainersInv
  <2>1. containers = <<>> /\ <<>> \in Seq(Container) /\ Len(<<>>) = 0
    BY EmptySeq DEF DockerInit
  <2>2. DOMAIN containers = {}
    BY <2>1
  <2> QED
    BY <2>1, <2>2 DEF ContainersInv
<1> DEFINE q == [name |-> "", reuse |-> FALSE, block |-> FALSE, autoRemove |-> FALSE]
           s == [step |-> "idle", back |-> "idle", id |-> NoContainer, created |-> FALSE,
                 request |-> q]
<1>2. q \in RunRequest
  BY DEF RunRequest
<1>4. run = [r \in Runner |-> s]
  BY DEF DockerInit
<1> HIDE DEF q
<1>3. /\ s \in Request
      /\ s.step = "idle" /\ s.back = "idle"
  BY <1>2 DEF NoContainer, Request, RunStep
<1> HIDE DEF s
<1>5. RunsInv
  BY <1>3, <1>4 DEF RunsInv, AfterStarting
<1> QED
  BY <1>1, <1>5 DEF DockerIInv

LEMMA SameContainers ==
    ASSUME ContainersInv, UNCHANGED containers PROVE ContainersInv' /\ Remembers
BY DEF ContainersInv, Remembers

\* A container stops, or is gone.
LEMMA ContainerStops ==
    ASSUME ContainersInv, NEW i \in DOMAIN containers, NEW s \in {"exited", "gone"},
           ContainerBecomes(i, s)
    PROVE  ContainersInv' /\ Remembers
<1>1. containers \in Seq(Container) /\ containers' = [containers EXCEPT ![i].state = s]
  BY DEF ContainersInv, ContainerBecomes
<1>2. containers[i] \in Container
  BY <1>1
<1>3. [containers[i] EXCEPT !.state = s] \in Container
  BY <1>2 DEF Container
<1>4. containers' \in Seq(Container) /\ DOMAIN containers' = DOMAIN containers
  BY <1>1, <1>3
<1>5. \A j \in DOMAIN containers :
         containers'[j] = IF j = i THEN [containers[i] EXCEPT !.state = s] ELSE containers[j]
  BY <1>1
<1>6. /\ [containers[i] EXCEPT !.state = s].state = s
      /\ [containers[i] EXCEPT !.state = s].started = containers[i].started
  BY <1>2 DEF Container
<1> QED
  BY <1>4, <1>5, <1>6 DEF ContainersInv, Remembers

LEMMA ContainerStarts ==
    ASSUME ContainersInv, NEW i \in DOMAIN containers,
           containers' = [containers EXCEPT ![i].state = "up", ![i].started = TRUE]
    PROVE  ContainersInv' /\ Remembers /\ i \in DOMAIN containers' /\ containers'[i].started
<1> DEFINE c == [[containers[i] EXCEPT !.state = "up"] EXCEPT !.started = TRUE]
<1>1. containers \in Seq(Container)
  BY DEF ContainersInv
<1>2. containers[i] \in Container
  BY <1>1
<1>3. c \in Container /\ c.started
  BY <1>2 DEF Container
<1>4. DOMAIN containers' = DOMAIN containers
  BY <1>1
<1>5. \A j \in DOMAIN containers : containers'[j] = IF j = i THEN c ELSE containers[j]
  BY <1>1, <1>2 DEF Container
<1> HIDE DEF c
<1>6. [containers EXCEPT ![i] = c] \in Seq(Container)
  BY <1>1, <1>3, ExceptSeq
<1>7. containers' = [containers EXCEPT ![i] = c]
  BY <1>1 DEF c
<1> QED
  BY <1>3, <1>4, <1>5, <1>6, <1>7 DEF ContainersInv, Remembers

LEMMA ContainerCreated ==
    ASSUME ContainersInv, NEW c \in Container, c.state = "created",
           containers' = Append(containers, c)
    PROVE  ContainersInv' /\ Remembers
<1>1. containers \in Seq(Container) /\ Len(containers) \in Nat
  BY DEF ContainersInv
<1>2. containers' \in Seq(Container) /\ Len(containers') = Len(containers) + 1
  BY <1>1
<1>3. /\ \A i \in DOMAIN containers : i \in DOMAIN containers' /\ containers'[i] = containers[i]
      /\ \A i \in DOMAIN containers' : i \in DOMAIN containers \/ containers'[i] = c
  BY <1>1, <1>2
<1> QED
  BY <1>2, <1>3 DEF ContainersInv, Remembers

\* A request takes a step; that of a request past its start has a container that
\* was started.
LEMMA RunnerMoves ==
    ASSUME RunsInv, Remembers, NEW r \in Runner, NEW s,
           s \in Request,
           s.back \in {"idle", "pull", "create"},
           s.step \in AfterStarting => s.id \in DOMAIN containers' /\ containers'[s.id].started,
           run' = [run EXCEPT ![r] = s]
    PROVE  RunsInv'
<1>1. run \in [Runner -> Request]
  BY DEF RunsInv
<1>2. \A q \in Runner : run'[q] = IF q = r THEN s ELSE run[q]
  BY <1>1
<1>3. run' \in [Runner -> Request]
  BY <1>1
<1> QED
  BY <1>2, <1>3 DEF RunsInv, Remembers

LEMMA RunnersStay ==
    ASSUME RunsInv, Remembers, UNCHANGED run PROVE RunsInv'
BY DEF RunsInv, Remembers

\* The same for a request that only goes to another step.
LEMMA RunnerGoes ==
    ASSUME RunsInv, Remembers, NEW r \in Runner, NEW step \in RunStep,
           step \in AfterStarting => run[r].id \in DOMAIN containers'
                                     /\ containers'[run[r].id].started,
           RunGoes(r, step)
    PROVE  RunsInv'
<1> DEFINE s == [run[r] EXCEPT !.step = step]
<1>1. run[r] \in Request
  BY DEF RunsInv
<1>2. /\ s \in Request
      /\ s.step = step /\ s.back = run[r].back /\ s.id = run[r].id
  BY <1>1 DEF Request
<1>3. s.back \in {"idle", "pull", "create"}
  BY <1>2 DEF RunsInv
<1>4. run' = [run EXCEPT ![r] = s]
  BY DEF RunGoes, RunsInv
<1> QED
  BY <1>2, <1>3, <1>4, RunnerMoves

\* A request that chose a container and went on to a step.
LEMMA RunnerChooses ==
    ASSUME RunsInv, Remembers, NEW r \in Runner, NEW i \in Nat, NEW step \in RunStep,
           NEW back \in {"idle", "pull", "create"},
           step \in AfterStarting => i \in DOMAIN containers' /\ containers'[i].started,
           run' = [run EXCEPT ![r] = [run[r] EXCEPT !.id = i, !.back = back, !.step = step]]
    PROVE  RunsInv'
<1> DEFINE s == [run[r] EXCEPT !.id = i, !.back = back, !.step = step]
<1>1. run[r] \in Request
  BY DEF RunsInv
<1>2. s \in Request /\ s.step = step /\ s.back = back /\ s.id = i
  BY <1>1 DEF Request, RunStep
<1> HIDE DEF s
<1> QED
  BY <1>2, RunnerMoves DEF s

LEMMA AskRunIInv ==
    ASSUME DockerIInv, NEW r \in Runner, AskRun(r) PROVE DockerIInv'
<1>1. ContainersInv' /\ Remembers
  BY SameContainers DEF DockerIInv, AskRun
<1>2. PICK q \in RunRequest :
         run' = [run EXCEPT ![r].request = q, ![r].step = IF q.name = "" THEN "pull" ELSE "find"]
  BY DEF AskRun
<1> DEFINE step == IF q.name = "" THEN "pull" ELSE "find"
           s == [run[r] EXCEPT !.request = q, !.step = step]
<1>3. run[r] \in Request /\ run \in [Runner -> Request]
  BY DEF RunsInv, DockerIInv
<1>4. step \in RunStep /\ step \notin AfterStarting
  BY DEF RunStep, AfterStarting
<1>5. run' = [run EXCEPT ![r] = s]
  BY <1>2, <1>3
<1> HIDE DEF step
<1>6. s \in Request /\ s.step = step /\ s.back = run[r].back
  BY <1>3, <1>4 DEF Request
<1>7. s.back \in {"idle", "pull", "create"}
  BY <1>6 DEF DockerIInv, RunsInv
<1> HIDE DEF s
<1> QED
  BY <1>1, <1>4, <1>5, <1>6, <1>7, RunnerMoves DEF DockerIInv

LEMMA FindContainerIInv ==
    ASSUME DockerIInv, NEW r \in Runner, FindContainer(r) PROVE DockerIInv'
<1>1. ContainersInv' /\ Remembers /\ UNCHANGED containers
  BY SameContainers DEF DockerIInv, FindContainer
<1>2. CASE RunGoes(r, "pull")
  BY <1>1, <1>2, RunnerGoes DEF DockerIInv, AfterStarting, RunStep
<1>3. CASE \E i \in Named(run[r].request.name) :
             run' = [run EXCEPT ![r].id = i,
                                ![r].step = IF ~run[r].request.reuse THEN "removeFound"
                                            ELSE IF Up(i) THEN "reused" ELSE "listStart"]
  <2> DEFINE step(i) == IF ~run[r].request.reuse THEN "removeFound"
                        ELSE IF Up(i) THEN "reused" ELSE "listStart"
  <2>1. PICK i \in Named(run[r].request.name) :
           run' = [run EXCEPT ![r].id = i, ![r].step = step(i)]
    BY <1>3
  <2>2. i \in DOMAIN containers /\ i \in Nat
    <3>1. i \in DOMAIN containers
      BY <2>1 DEF Named
    <3>2. containers \in Seq(Container)
      BY DEF DockerIInv, ContainersInv
    <3> QED
      BY <3>1, <3>2
  <2>3. step(i) \in RunStep
    BY DEF RunStep
  <2>4. step(i) \in AfterStarting => containers[i].started
    BY <2>2 DEF AfterStarting, Up, DockerIInv, ContainersInv
  <2> HIDE DEF step
  <2>5. run[r] \in Request /\ run[r].back \in {"idle", "pull", "create"} /\ run \in [Runner -> Request]
    BY DEF DockerIInv, RunsInv
  <2>6. [run[r] EXCEPT !.id = i, !.step = step(i)]
          = [run[r] EXCEPT !.id = i, !.back = run[r].back, !.step = step(i)]
    BY <2>5 DEF Request
  <2>7. run' = [run EXCEPT ![r] = [run[r] EXCEPT !.id = i, !.back = run[r].back, !.step = step(i)]]
    BY <2>1, <2>5, <2>6
  <2>8. step(i) \in AfterStarting => i \in DOMAIN containers' /\ containers'[i].started
    BY <1>1, <2>2, <2>4
  <2> QED
    BY <1>1, <2>2, <2>3, <2>5, <2>7, <2>8, RunnerChooses DEF DockerIInv
<1> QED
  BY <1>2, <1>3 DEF FindContainer

LEMMA ListRemovedIInv ==
    ASSUME DockerIInv, NEW r \in Runner, NEW from, NEW back \in {"pull", "create"},
           NEW found, found \subseteq DOMAIN containers, ListRemoved(r, from, back, found)
    PROVE  DockerIInv'
<1>1. ContainersInv' /\ Remembers
  BY SameContainers DEF DockerIInv, ListRemoved
<1>2. CASE RunGoes(r, back)
  BY <1>1, <1>2, RunnerGoes DEF DockerIInv, AfterStarting, RunStep
<1>3. CASE \E i \in found :
             run' = [run EXCEPT ![r].id = i, ![r].back = back,
                                ![r].step = IF Up(i) THEN "listStop" ELSE "remove"]
  <2> DEFINE step(i) == IF Up(i) THEN "listStop" ELSE "remove"
  <2>1. PICK i \in found : run' = [run EXCEPT ![r].id = i, ![r].back = back, ![r].step = step(i)]
    BY <1>3
  <2>2. i \in Nat
    BY DEF DockerIInv, ContainersInv
  <2>3. step(i) \in RunStep /\ step(i) \notin AfterStarting
    BY DEF RunStep, AfterStarting
  <2> HIDE DEF step
  <2>4. run \in [Runner -> Request]
    BY DEF DockerIInv, RunsInv
  <2>5. run' = [run EXCEPT ![r] = [run[r] EXCEPT !.id = i, !.back = back, !.step = step(i)]]
    BY <2>1, <2>4
  <2> QED
    BY <1>1, <2>2, <2>3, <2>5, RunnerChooses DEF DockerIInv
<1> QED
  BY <1>2, <1>3 DEF ListRemoved

\* A request that goes to a step before its start, whatever the containers do.
LEMMA GoesBeforeStart ==
    ASSUME RunsInv, ContainersInv' /\ Remembers, NEW r \in Runner,
           NEW step \in RunStep \ AfterStarting, RunGoes(r, step)
    PROVE  DockerIInv'
BY RunnerGoes DEF DockerIInv

\* A request that has seen its start goes on, or to a step before.
LEMMA GoesAfterStart ==
    ASSUME DockerIInv, UNCHANGED containers, NEW r \in Runner, run[r].step \in AfterStarting,
           NEW step \in RunStep, RunGoes(r, step)
    PROVE  DockerIInv'
<1>1. ContainersInv' /\ Remembers
  BY SameContainers DEF DockerIInv
<1>2. run[r].id \in DOMAIN containers' /\ containers'[run[r].id].started
  BY DEF DockerIInv, RunsInv
<1> QED
  BY <1>1, <1>2, RunnerGoes DEF DockerIInv

LEMMA StopContainerIInv ==
    ASSUME DockerIInv, NEW r \in Runner, StopContainer(r) PROVE DockerIInv'
<1>1. "remove" \in RunStep \ AfterStarting /\ "failed" \in RunStep \ AfterStarting
  BY DEF RunStep, AfterStarting
<1>2. CASE UNCHANGED containers
  <2>1. ContainersInv' /\ Remembers
    BY <1>2, SameContainers DEF DockerIInv
  <2>2. RunGoes(r, "remove") \/ RunGoes(r, "failed")
    BY DEF StopContainer
  <2> QED
    BY <1>1, <2>1, <2>2, GoesBeforeStart DEF DockerIInv
<1>3. CASE /\ Listed(run[r].id) /\ RunGoes(r, "remove")
           /\ ContainerBecomes(run[r].id, StateAfterExit(run[r].id))
  <2>1. run[r].id \in DOMAIN containers /\ StateAfterExit(run[r].id) \in {"exited", "gone"}
    BY <1>3 DEF Listed, StateAfterExit
  <2>2. ContainersInv' /\ Remembers
    BY <1>3, <2>1, ContainerStops DEF DockerIInv
  <2> QED
    BY <1>1, <1>3, <2>2, GoesBeforeStart DEF DockerIInv
<1> QED
  BY <1>2, <1>3 DEF StopContainer

LEMMA RemoveContainerIInv ==
    ASSUME DockerIInv, NEW r \in Runner, RemoveContainer(r) PROVE DockerIInv'
<1>1. CASE Listed(run[r].id)
  <2>1. ContainersInv' /\ Remembers
    BY <1>1, ContainerStops DEF RemoveContainer, DockerIInv, Listed
  <2>2. run[r].back \in RunStep \ AfterStarting
    BY DEF DockerIInv, RunsInv, RunStep, AfterStarting
  <2> QED
    BY <1>1, <2>1, <2>2, GoesBeforeStart DEF RemoveContainer, DockerIInv
<1>2. CASE ~Listed(run[r].id)
  <2>1. ContainersInv' /\ Remembers
    BY <1>2, SameContainers DEF RemoveContainer, DockerIInv
  <2>2. "failed" \in RunStep \ AfterStarting
    BY DEF RunStep, AfterStarting
  <2> QED
    BY <1>2, <2>1, <2>2, GoesBeforeStart DEF RemoveContainer, DockerIInv
<1> QED
  BY <1>1, <1>2

LEMMA CreateContainerIInv ==
    ASSUME DockerIInv, NEW r \in Runner, CreateContainer(r) PROVE DockerIInv'
<1>1. CASE RunGoes(r, "failed") /\ UNCHANGED containers
  <2>1. ContainersInv' /\ Remembers
    BY <1>1, SameContainers DEF DockerIInv
  <2>2. "failed" \in RunStep \ AfterStarting
    BY DEF RunStep, AfterStarting
  <2> QED
    BY <1>1, <2>1, <2>2, GoesBeforeStart DEF DockerIInv
<1>2. CASE Named(run[r].request.name) = {}
  <2> DEFINE c == [name |-> run[r].request.name, autoRemove |-> run[r].request.autoRemove,
                   state |-> "created", started |-> FALSE]
             s == [run[r] EXCEPT !.id = Len(containers) + 1, !.created = TRUE,
                                 !.step = "listStart"]
  <2>1. run[r] \in Request /\ run \in [Runner -> Request]
    BY DEF DockerIInv, RunsInv
  <2>2. c \in Container /\ c.state = "created"
    BY <2>1 DEF Container, Request, RunRequest
  <2>3. containers' = Append(containers, c)
    BY <1>2 DEF CreateContainer
  <2> HIDE DEF c
  <2>4. ContainersInv' /\ Remembers
    BY <2>2, <2>3, ContainerCreated DEF DockerIInv
  <2>5. Len(containers) + 1 \in Nat
    <3>1. containers \in Seq(Container)
      BY DEF DockerIInv, ContainersInv
    <3> QED
      BY <3>1
  <2>6. s \in Request /\ s.step = "listStart" /\ s.back = run[r].back
    BY <2>1, <2>5 DEF Request, RunStep
  <2>7. run' = [run EXCEPT ![r] = s]
    BY <1>2, <2>1 DEF CreateContainer
  <2> HIDE DEF s
  <2>8. s.back \in {"idle", "pull", "create"} /\ s.step \notin AfterStarting
    BY <2>6 DEF DockerIInv, RunsInv, AfterStarting
  <2> QED
    BY <2>4, <2>6, <2>7, <2>8, RunnerMoves DEF DockerIInv
<1> QED
  BY <1>1, <1>2 DEF CreateContainer

LEMMA ListStartIInv ==
    ASSUME DockerIInv, NEW r \in Runner, ListStart(r) PROVE DockerIInv'
<1> DEFINE step == IF ~Listed(run[r].id) THEN "failed"
                   ELSE IF Up(run[r].id) THEN AfterStart(r) ELSE "start"
<1>1. ContainersInv' /\ Remembers /\ UNCHANGED containers /\ RunGoes(r, step)
  BY SameContainers DEF DockerIInv, ListStart
<1>2. step \in RunStep
  BY DEF RunStep, AfterStart
<1>3. step \in AfterStarting => run[r].id \in DOMAIN containers /\ containers[run[r].id].started
  BY DEF AfterStarting, Listed, Up, DockerIInv, ContainersInv
<1> HIDE DEF step
<1>4. step \in AfterStarting => run[r].id \in DOMAIN containers' /\ containers'[run[r].id].started
  BY <1>1, <1>3
<1> QED
  BY <1>1, <1>2, <1>4, RunnerGoes DEF DockerIInv

LEMMA StartContainerIInv ==
    ASSUME DockerIInv, NEW r \in Runner, StartContainer(r) PROVE DockerIInv'
<1>1. CASE RunGoes(r, "failed") /\ UNCHANGED containers
  <2>1. ContainersInv' /\ Remembers
    BY <1>1, SameContainers DEF DockerIInv
  <2>2. "failed" \in RunStep \ AfterStarting
    BY DEF RunStep, AfterStarting
  <2> QED
    BY <1>1, <2>1, <2>2, GoesBeforeStart DEF DockerIInv
<1>2. CASE /\ Listed(run[r].id) /\ RunGoes(r, AfterStart(r))
           /\ containers' = [containers EXCEPT ![run[r].id].state = "up",
                                               ![run[r].id].started = TRUE]
  <2>1. run[r].id \in DOMAIN containers
    BY <1>2 DEF Listed
  <2>2. /\ ContainersInv' /\ Remembers
        /\ run[r].id \in DOMAIN containers' /\ containers'[run[r].id].started
    BY <1>2, <2>1, ContainerStarts DEF DockerIInv
  <2>3. AfterStart(r) \in RunStep
    BY DEF AfterStart, RunStep
  <2> QED
    BY <1>2, <2>2, <2>3, RunnerGoes DEF DockerIInv
<1> QED
  BY <1>1, <1>2 DEF StartContainer

LEMMA RunnerStepIInv ==
    ASSUME DockerIInv, NEW r \in Runner, RunnerStep(r) PROVE DockerIInv'
<1>1. CASE FindContainer(r)
  BY <1>1, FindContainerIInv
<1>2. CASE RemoveFound(r)
  <2>1. {i \in {run[r].id} : Listed(i)} \subseteq DOMAIN containers
    BY DEF Listed
  <2> QED
    BY <1>2, <2>1, ListRemovedIInv DEF RemoveFound
<1>3. CASE RemoveNamed(r)
  <2>1. Named(run[r].request.name) \subseteq DOMAIN containers
    BY DEF Named
  <2> QED
    BY <1>3, <2>1, ListRemovedIInv DEF RemoveNamed
<1>4. CASE ListStop(r) \/ PullImage(r)
  <2>1. ContainersInv' /\ Remembers
    BY <1>4, SameContainers DEF ListStop, PullImage, DockerIInv
  <2>2. \E step \in RunStep \ AfterStarting : RunGoes(r, step)
    BY <1>4 DEF ListStop, PullImage, RunStep, AfterStarting
  <2> QED
    BY <2>1, <2>2, GoesBeforeStart DEF DockerIInv
<1>5. CASE StopContainer(r)
  BY <1>5, StopContainerIInv
<1>6. CASE RemoveContainer(r)
  BY <1>6, RemoveContainerIInv
<1>7. CASE CreateContainer(r)
  BY <1>7, CreateContainerIInv
<1>8. CASE ListStart(r)
  BY <1>8, ListStartIInv
<1>9. CASE StartContainer(r)
  BY <1>9, StartContainerIInv
<1>10. CASE Poll(r) \/ LastStatus(r)
  <2>1. run[r].step \in AfterStarting /\ UNCHANGED containers
    BY <1>10 DEF Poll, LastStatus, RunIs, AfterStarting
  <2>2. \E step \in RunStep : RunGoes(r, step)
    BY <1>10 DEF Poll, LastStatus, RunStep
  <2> QED
    BY <2>1, <2>2, GoesAfterStart
<1> QED
  BY <1>1, <1>2, <1>3, <1>4, <1>5, <1>6, <1>7, <1>8, <1>9, <1>10 DEF RunnerStep

LEMMA DockerNextIInv == DockerIInv /\ [DockerNext]_dockerVars => DockerIInv'
<1> SUFFICES ASSUME DockerIInv, [DockerNext]_dockerVars PROVE DockerIInv'
  OBVIOUS
<1>1. ASSUME NEW r \in Runner, AskRun(r) PROVE DockerIInv'
  BY <1>1, AskRunIInv
<1>2. ASSUME NEW r \in Runner, RunnerStep(r) PROVE DockerIInv'
  BY <1>2, RunnerStepIInv
<1>3. ASSUME NEW i \in 1 .. MaxContainers, ContainerExits(i) PROVE DockerIInv'
  <2>1. i \in DOMAIN containers /\ StateAfterExit(i) \in {"exited", "gone"}
    BY <1>3 DEF ContainerExits, Up, Listed, StateAfterExit
  <2>2. ContainersInv' /\ Remembers
    BY <1>3, <2>1, ContainerStops DEF ContainerExits, DockerIInv
  <2> QED
    BY <1>3, <2>2, RunnersStay DEF ContainerExits, DockerIInv
<1>4. ASSUME NEW r \in Runner, EngineFails(r) PROVE DockerIInv'
  <2>1. ContainersInv' /\ Remembers
    BY <1>4, SameContainers DEF EngineFails, DockerIInv
  <2>2. "failed" \in RunStep \ AfterStarting
    BY DEF RunStep, AfterStarting
  <2> QED
    BY <1>4, <2>1, <2>2, GoesBeforeStart DEF EngineFails, DockerIInv
<1>5. CASE UNCHANGED dockerVars
  BY <1>5, SameContainers, RunnersStay DEF dockerVars, DockerIInv
<1> QED
  BY <1>1, <1>2, <1>3, <1>4, <1>5 DEF DockerNext

\* The invariant holds for any number of requests and containers.
THEOREM RunInductive == DockerSpec => []DockerIInv
<1> QED
  BY DockerInitIInv, DockerNextIInv, PTL DEF DockerSpec

\* A request that ends without an error names a container that was started
\* (run and start of service/system/docker/service.go), whoever else creates,
\* starts, stops and removes containers between its calls.
THEOREM StartedIsNamed == DockerSpec => []StartedWhenDone
<1>1. DockerIInv => StartedWhenDone
  BY DEF DockerIInv, RunsInv, StartedWhenDone, AfterStarting
<1> QED
  BY <1>1, RunInductive, PTL

\* Containers are as many as the engine takes, and requests work on one of them.
ContainersBounded ==
    /\ Len(containers) <= MaxContainers
    /\ \A r \in Runner : run[r].id \in 0 .. MaxContainers

\* A request works on the container it did, or on one that there is.
Chooses(r) ==
    \A q \in Runner : \/ run'[q].id = run[q].id
                      \/ q = r /\ run'[q].id \in DOMAIN containers'

LEMMA BoundKept ==
    ASSUME ContainersBounded, ContainersInv', NEW r, Chooses(r), Len(containers') <= MaxContainers
    PROVE  ContainersBounded'
<1>1. PICK n \in Nat : n = Len(containers') /\ DOMAIN containers' = 1 .. n
  BY DEF ContainersInv
<1>2. MaxContainers \in Nat
  BY DockerAssumption
<1>3. \A i \in 1 .. n : i \in 0 .. MaxContainers
  BY <1>1, <1>2
<1> QED
  BY <1>1, <1>3 DEF ContainersBounded, Chooses

LEMMA StaysWithIt ==
    ASSUME DockerIInv, NEW r \in Runner, NEW step, RunGoes(r, step)
    PROVE  Chooses(r)
<1>1. run \in [Runner -> Request]
  BY DEF DockerIInv, RunsInv
<1>2. \A q \in Runner : run'[q].id = run[q].id
  BY <1>1 DEF RunGoes, Request
<1> QED
  BY <1>2 DEF Chooses

LEMMA BoundStep ==
    ASSUME DockerIInv, ContainersBounded, DockerNext
    PROVE  ContainersBounded'
<1>a. ContainersInv'
  BY DockerNextIInv DEF DockerIInv
<1>0. /\ ContainersInv' /\ containers \in Seq(Container) /\ run \in [Runner -> Request]
      /\ Len(containers) <= MaxContainers /\ Len(containers) \in Nat /\ MaxContainers \in Nat
  BY <1>a, DockerAssumption, LenProperties DEF DockerIInv, ContainersInv, RunsInv, ContainersBounded
<1>1. ASSUME NEW r \in Runner, Chooses(r), Len(containers') = Len(containers)
      PROVE  ContainersBounded'
  BY <1>0, <1>1, BoundKept
<1>2. ASSUME NEW r \in Runner, NEW step, RunGoes(r, step), Len(containers') = Len(containers)
      PROVE  ContainersBounded'
  BY <1>1, <1>2, StaysWithIt
<1>3. ASSUME NEW r \in Runner, UNCHANGED containers, NEW found, found \subseteq DOMAIN containers,
             NEW i \in found, run'[r].id = i, \A q \in Runner \ {r} : run'[q] = run[q]
      PROVE  ContainersBounded'
  BY <1>1, <1>3 DEF Chooses
<1>4. ASSUME NEW i, NEW state, ContainerBecomes(i, state)
      PROVE  Len(containers') = Len(containers)
  BY <1>0, <1>4 DEF ContainerBecomes
<1>5. ASSUME NEW r \in Runner, AskRun(r) PROVE ContainersBounded'
  <2>0. PICK request, step : run' = [run EXCEPT ![r].request = request, ![r].step = step]
    BY <1>5 DEF AskRun
  <2>1. \A q \in Runner : run'[q].id = run[q].id
    BY <1>0, <2>0 DEF Request
  <2> QED
    BY <1>1, <1>5, <2>1 DEF Chooses, AskRun
<1>6. ASSUME NEW r \in Runner, RunnerStep(r) PROVE ContainersBounded'
  <2>1. ASSUME NEW from, NEW back, NEW found, found \subseteq DOMAIN containers,
               ListRemoved(r, from, back, found)
        PROVE  ContainersBounded'
    <3>1. UNCHANGED containers
      BY <2>1 DEF ListRemoved
    <3>2. CASE RunGoes(r, back)
      BY <1>2, <3>1, <3>2
    <3>3. ASSUME NEW i \in found, NEW step, run' = [run EXCEPT ![r].id = i, ![r].back = back, ![r].step = step]
          PROVE  ContainersBounded'
      <4>1. run'[r].id = i /\ \A q \in Runner \ {r} : run'[q] = run[q]
        BY <1>0, <3>3 DEF Request
      <4> QED
        BY <1>3, <2>1, <3>1, <4>1
    <3> QED
      BY <2>1, <3>2, <3>3 DEF ListRemoved
  <2>2. CASE FindContainer(r)
    <3>1. UNCHANGED containers
      BY <2>2 DEF FindContainer
    <3>2. CASE RunGoes(r, "pull")
      BY <1>2, <3>1, <3>2
    <3>3. ASSUME NEW i \in Named(run[r].request.name), NEW step, run' = [run EXCEPT ![r].id = i, ![r].step = step]
          PROVE  ContainersBounded'
      <4>1. run'[r].id = i /\ \A q \in Runner \ {r} : run'[q] = run[q]
        BY <1>0, <3>3 DEF Request
      <4>2. i \in DOMAIN containers
        BY DEF Named
      <4> QED
        BY <1>3, <3>1, <4>1, <4>2
    <3> QED
      BY <2>2, <3>2, <3>3 DEF FindContainer
  <2>3. CASE RemoveFound(r) \/ RemoveNamed(r)
    BY <2>1, <2>3 DEF RemoveFound, RemoveNamed, Named, Listed
  <2>4. CASE \/ ListStop(r) \/ StopContainer(r) \/ RemoveContainer(r) \/ PullImage(r)
             \/ ListStart(r) \/ Poll(r) \/ LastStatus(r)
    BY <1>2, <1>4, <2>4 DEF ListStop, StopContainer, RemoveContainer, PullImage, ListStart, Poll, LastStatus
  <2>5. CASE StartContainer(r)
    <3>1. Len(containers') = Len(containers)
      BY <1>0, <2>5 DEF StartContainer
    <3> QED
      BY <1>2, <2>5, <3>1 DEF StartContainer
  <2>6. CASE CreateContainer(r)
    <3>1. CASE RunGoes(r, "failed") /\ UNCHANGED containers
      BY <1>2, <3>1
    <3>2. ASSUME NEW c, containers' = Append(containers, c), Len(containers) < MaxContainers,
                 run' = [run EXCEPT ![r].id = Len(containers) + 1, ![r].created = TRUE, ![r].step = "listStart"]
          PROVE  ContainersBounded'
      <4>1. PICK n \in Nat : n = Len(containers)
        BY <1>0
      <4>2. Len(containers') = n + 1 /\ n + 1 <= MaxContainers /\ DOMAIN containers' = 1 .. n + 1
        BY <1>0, <3>2, <4>1
      <4>3. run'[r].id = n + 1 /\ \A q \in Runner \ {r} : run'[q] = run[q]
        BY <1>0, <3>2, <4>1 DEF Request
      <4>4. run'[r].id \in DOMAIN containers' /\ Len(containers') <= MaxContainers
        BY <4>2, <4>3
      <4> QED
        BY <1>0, <4>3, <4>4, BoundKept DEF Chooses
    <3> QED
      BY <2>6, <3>1, <3>2 DEF CreateContainer
  <2> QED
    BY <1>6, <2>2, <2>3, <2>4, <2>5, <2>6 DEF RunnerStep
<1>7. ASSUME NEW r \in Runner, EngineFails(r) PROVE ContainersBounded'
  BY <1>2, <1>7 DEF EngineFails
<1>8. ASSUME NEW i, ContainerExits(i) PROVE ContainersBounded'
  BY <1>4, <1>8 DEF ContainerExits, ContainersBounded
<1> QED
  BY <1>5, <1>6, <1>7, <1>8 DEF DockerNext

\* The types of the containers and of the requests: a request works on a
\* container by its ID in every step past the first (run of docker/service.go).
THEOREM DockerTypesHold == DockerSpec => []DockerTypeOK
<1>1. DockerInit => ContainersBounded
  <2> SUFFICES ASSUME DockerInit PROVE ContainersBounded
    OBVIOUS
  <2>1. \A r \in Runner : run[r].id = 0
    BY DEF DockerInit, NoContainer
  <2>2. Len(containers) = 0
    BY EmptySeq DEF DockerInit
  <2>3. MaxContainers \in Nat
    BY DockerAssumption
  <2>4. 0 \in 0 .. MaxContainers /\ 0 <= MaxContainers
    BY <2>3
  <2> QED
    BY <2>1, <2>2, <2>4 DEF ContainersBounded
<1>2. DockerIInv /\ ContainersBounded /\ [DockerNext]_dockerVars => ContainersBounded'
  BY BoundStep DEF dockerVars, ContainersBounded
<1>3. DockerIInv /\ ContainersBounded => DockerTypeOK
  <2> SUFFICES ASSUME DockerIInv, ContainersBounded PROVE DockerTypeOK
    OBVIOUS
  <2>1. \A r \in Runner : run[r] \in Request /\ run[r].id \in 0 .. MaxContainers
    BY DEF DockerIInv, RunsInv, ContainersBounded
  <2>2. run \in [Runner -> RunState]
    BY <2>1 DEF DockerIInv, RunsInv, Request, RunState
  <2> QED
    BY <2>2 DEF DockerIInv, ContainersInv, Container, ContainersBounded, DockerTypeOK
<1> QED
  BY <1>1, <1>2, <1>3, RunInductive, PTL DEF DockerSpec

-----------------------------------------------------------------------------
(* LambdaDeploy, for any code, triggers and number of deploys.             *)

FunctionState == [code : Code \cup {NoCode}, config : 0 .. MaxDeploys, url : BOOLEAN,
                  policy : Seq({"url", "schedule", "other"}), mappings : SUBSET Trigger]
ScheduleState == [rule : BOOLEAN, targets : SUBSET (1 .. MaxDeploys)]
DeploysState == [made : 0 .. MaxDeploys, faults : 0 .. MaxFaults, others : 0 .. MaxStatements]

\* Requests are numbered from 1 on.
LambdaTypeInv == LambdaTypeOK /\ (nextCall # "idle" => deployment.number # 0)

\* The calls of the schedule, those that follow the branches of the deploy, and
\* those of the branches.
OfSchedule == {"rule", "targets", "clear", "target", "permission", "event"}
OfUpdate == {"code", "dropUrl", "url"}
OfCreation == {"newUrl", "urlPermission"}
BeforeBranch == {"role", "get", "untarget", "unschedule", "configure", "create"}

\* The deploy has gone through its branch, and did not find the same code.
Went == nextCall \in OfSchedule \/ (nextCall = "deployed" /\ branch # "same")
Joined == Went \/ nextCall = "triggers"

\* Which branch the deploy takes.
BranchInv ==
    /\ nextCall \in BeforeBranch => branch = "none"
    /\ nextCall \in OfUpdate => branch = "update"
    /\ nextCall \in OfCreation => branch = "create"
    /\ nextCall \in {"triggers"} \cup OfSchedule => branch \in {"create", "update"}
    /\ nextCall \in OfSchedule => deployment.scheduled

\* What the calls made so far have left of the function ...
FunctionInv ==
    /\ Joined \/ nextCall \in OfUpdate \cup OfCreation \cup {"deployed"}
          => function.config = deployment.number
    /\ Joined \/ nextCall \in {"dropUrl", "url", "deployed"} \cup OfCreation
          => function.code = deployment.code
    /\ Joined \/ nextCall = "urlPermission" => (deployment.http => function.url)
    /\ Went => deployment.triggers \subseteq function.mappings

\* ... and of its schedule.
ScheduleInv ==
    /\ nextCall \in {"unschedule", "configure", "triggers", "deployed"} \cup OfUpdate
          => (~deployment.scheduled /\ branch # "create" => schedule.targets = {})
    /\ Went /\ nextCall # "rule" /\ deployment.scheduled => schedule.rule
    /\ nextCall = "target" => unread \/ schedule.targets = {}
    /\ Went /\ nextCall \in {"permission", "event", "deployed"} /\ deployment.scheduled =>
          unread \/ Cardinality(schedule.targets) = 1
    /\ Went /\ nextCall \in {"event", "deployed"} /\ deployment.scheduled =>
          \E i \in DOMAIN function.policy : function.policy[i] = "schedule"

LambdaIInv == LambdaTypeInv /\ PermissionsStay /\ BranchInv /\ FunctionInv /\ ScheduleInv

-----------------------------------------------------------------------------
(* Types.                                                                  *)

LEMMA LambdaTypes ==
    /\ LambdaTypeOK <=>
          /\ deployment \in DeployRequest /\ function \in FunctionState
          /\ schedule \in ScheduleState /\ deploys \in DeploysState
          /\ nextCall \in {"idle", "role", "get", "untarget", "unschedule", "configure", "code",
                "dropUrl", "url", "create", "newUrl", "urlPermission", "triggers", "rule",
                "targets", "clear", "target", "permission", "event", "deployed", "failed",
                "delete", "recreate", "recreated"}
          /\ unread \in BOOLEAN /\ branch \in {"none", "create", "update", "same"}
    /\ (LambdaTypeOK <=>
          /\ deployment \in DeployRequest /\ function \in FunctionState
          /\ schedule \in ScheduleState /\ deploys \in DeploysState
          /\ nextCall \in {"idle", "role", "get", "untarget", "unschedule", "configure", "code",
                "dropUrl", "url", "create", "newUrl", "urlPermission", "triggers", "rule",
                "targets", "clear", "target", "permission", "event", "deployed", "failed",
                "delete", "recreate", "recreated"}
          /\ unread \in BOOLEAN /\ branch \in {"none", "create", "update", "same"})'
  BY DEF LambdaTypeOK, FunctionState, ScheduleState, DeploysState

LEMMA RequestFields ==
    ASSUME NEW r \in DeployRequest
    PROVE  r.triggers \subseteq Trigger /\ r.code \in Code /\ r.number \in 0 .. MaxDeploys
  BY DEF DeployRequest

LEMMA RequestRenewed ==
    ASSUME NEW r \in DeployRequest, NEW n \in 0 .. MaxDeploys, NEW c \in Code
    PROVE  /\ [r EXCEPT !.number = n, !.code = c] \in DeployRequest
           /\ [r EXCEPT !.number = n, !.code = c].number = n
  BY DEF DeployRequest

LEMMA FunctionCodeFields ==
    ASSUME NEW f \in FunctionState, NEW c \in Code, NEW n \in 0 .. MaxDeploys
    PROVE  LET g == [f EXCEPT !.code = c, !.config = n]
           IN  /\ g \in FunctionState /\ g.code = c /\ g.config = n
               /\ g.url = f.url /\ g.policy = f.policy /\ g.mappings = f.mappings
  BY DEF FunctionState

LEMMA FunctionConfigFields ==
    ASSUME NEW f \in FunctionState, NEW n \in 0 .. MaxDeploys
    PROVE  LET g == [f EXCEPT !.config = n]
           IN  /\ g \in FunctionState /\ g.code = f.code /\ g.config = n
               /\ g.url = f.url /\ g.policy = f.policy /\ g.mappings = f.mappings
  BY DEF FunctionState

LEMMA FunctionSourceFields ==
    ASSUME NEW f \in FunctionState, NEW c \in Code
    PROVE  LET g == [f EXCEPT !.code = c]
           IN  /\ g \in FunctionState /\ g.code = c /\ g.config = f.config
               /\ g.url = f.url /\ g.policy = f.policy /\ g.mappings = f.mappings
  BY DEF FunctionState

LEMMA FunctionUrlFields ==
    ASSUME NEW f \in FunctionState, NEW u \in BOOLEAN
    PROVE  LET g == [f EXCEPT !.url = u]
           IN  /\ g \in FunctionState /\ g.code = f.code /\ g.config = f.config
               /\ g.url = u /\ g.policy = f.policy /\ g.mappings = f.mappings
  BY DEF FunctionState

LEMMA FunctionPolicyFields ==
    ASSUME NEW f \in FunctionState, NEW p \in {"url", "schedule", "other"}
    PROVE  LET g == [f EXCEPT !.policy = Append(@, p)]
           IN  /\ g \in FunctionState /\ g.code = f.code /\ g.config = f.config
               /\ g.url = f.url /\ g.policy = Append(f.policy, p) /\ g.mappings = f.mappings
<1> DEFINE q == Append(f.policy, p)
<1>1. f.policy \in Seq({"url", "schedule", "other"})
  BY DEF FunctionState
<1>2. q \in Seq({"url", "schedule", "other"})
  BY <1>1, AppendProperties
<1> HIDE DEF q
<1>3. LET g == [f EXCEPT !.policy = q]
      IN  /\ g \in FunctionState /\ g.code = f.code /\ g.config = f.config
          /\ g.url = f.url /\ g.policy = q /\ g.mappings = f.mappings
  BY <1>2 DEF FunctionState
<1> QED
  BY <1>3 DEF q

LEMMA FunctionMappingsFields ==
    ASSUME NEW f \in FunctionState, NEW t \in Trigger
    PROVE  LET g == [f EXCEPT !.mappings = @ \cup {t}]
           IN  /\ g \in FunctionState /\ g.code = f.code /\ g.config = f.config
               /\ g.url = f.url /\ g.policy = f.policy /\ g.mappings = f.mappings \cup {t}
  BY DEF FunctionState

LEMMA FunctionDeleted ==
    ASSUME NEW f \in FunctionState
    PROVE  LET g == [f EXCEPT !.code = NoCode, !.url = FALSE, !.policy = <<>>]
           IN  g \in FunctionState /\ g.policy = <<>>
  BY EmptySeq DEF FunctionState, NoCode

LEMMA ScheduleRuleFields ==
    ASSUME NEW s \in ScheduleState, NEW b \in BOOLEAN
    PROVE  LET t == [s EXCEPT !.rule = b]
           IN  t \in ScheduleState /\ t.rule = b /\ t.targets = s.targets
  BY DEF ScheduleState

LEMMA ScheduleTargetsFields ==
    ASSUME NEW s \in ScheduleState, NEW T \in SUBSET (1 .. MaxDeploys)
    PROVE  LET t == [s EXCEPT !.targets = T]
           IN  /\ t \in ScheduleState /\ t.rule = s.rule /\ t.targets = T
               /\ s.targets \subseteq 1 .. MaxDeploys
  BY DEF ScheduleState

LEMMA DeploysFields ==
    ASSUME NEW d \in DeploysState
    PROVE  /\ d.made \in 0 .. MaxDeploys
           /\ d.made < MaxDeploys =>
                 [d EXCEPT !.made = @ + 1] \in DeploysState /\ d.made + 1 \in 1 .. MaxDeploys
           /\ d.others > 0 => [d EXCEPT !.others = @ - 1] \in DeploysState
           /\ d.faults > 0 => [d EXCEPT !.faults = @ - 1] \in DeploysState
  BY LambdaAssumption DEF DeploysState

\* A call is answered, or fails with its effect.
LEMMA AnsweredTypes ==
    ASSUME LambdaTypeOK, NEW from, NEW to, Answered(from, to)
    PROVE  nextCall = from /\ nextCall' \in {to, "failed"} /\ deploys' \in DeploysState
  BY LambdaTypes, DeploysFields DEF Answered, Call, Fault

LEMMA LambdaInitIInv == LambdaInit => LambdaIInv
<1> SUFFICES ASSUME LambdaInit PROVE LambdaIInv
  OBVIOUS
<1>1. (CHOOSE c \in Code : TRUE) \in Code
  BY LambdaAssumption
<1>2. deployment \in DeployRequest
  BY <1>1, LambdaAssumption DEF LambdaInit, DeployRequest
<1>3. function \in FunctionState /\ function.policy = <<>>
  BY EmptySeq, LambdaAssumption DEF LambdaInit, FunctionState, NoCode
<1>4. schedule \in ScheduleState /\ deploys \in DeploysState
  BY LambdaAssumption DEF LambdaInit, ScheduleState, DeploysState
<1>5. LambdaTypeInv
  BY <1>2, <1>3, <1>4, LambdaTypes DEF LambdaInit, LambdaTypeInv
<1>6. PermissionsStay
  BY <1>3, EmptySeq DEF PermissionsStay
<1>7. BranchInv /\ FunctionInv /\ ScheduleInv
  BY DEF LambdaInit, BranchInv, FunctionInv, ScheduleInv, Went, Joined, BeforeBranch, OfUpdate,
         OfCreation, OfSchedule
<1> QED
  BY <1>5, <1>6, <1>7 DEF LambdaIInv

LEMMA LambdaNextType == LambdaTypeInv /\ LambdaNext => LambdaTypeInv'
<1> SUFFICES ASSUME LambdaTypeInv, LambdaNext PROVE LambdaTypeInv'
  OBVIOUS
<1>t. /\ LambdaTypeOK /\ (nextCall # "idle" => deployment.number # 0)
      /\ deployment \in DeployRequest /\ function \in FunctionState
      /\ schedule \in ScheduleState /\ deploys \in DeploysState
  BY LambdaTypes DEF LambdaTypeInv
<1> SUFFICES LambdaTypeOK' /\ (nextCall' # "idle" => deployment'.number # 0)
  BY DEF LambdaTypeInv
<1>1. CASE AskDeploy
  <2>1. deploys' \in DeploysState /\ deploys.made + 1 \in 1 .. MaxDeploys
    BY <1>t, <1>1, DeploysFields DEF AskDeploy
  <2>2. deployment' \in DeployRequest /\ deployment'.number = deploys.made + 1
    BY <1>1 DEF AskDeploy
  <2> QED
    BY <1>t, <1>1, <2>1, <2>2, LambdaTypes DEF AskDeploy
<1>2. CASE AskRecreate
  <2>1. deploys' \in DeploysState /\ deploys.made + 1 \in 1 .. MaxDeploys
    BY <1>t, <1>2, DeploysFields DEF AskRecreate
  <2>2. deployment' \in DeployRequest /\ deployment'.number = deploys.made + 1
    <3>1. PICK c \in Code : deployment' = [deployment EXCEPT !.number = deploys.made + 1, !.code = c]
      BY <1>2 DEF AskRecreate
    <3>2. deploys.made + 1 \in 0 .. MaxDeploys
      BY <2>1
    <3> QED
      BY <1>t, <3>1, <3>2, RequestRenewed
  <2> QED
    BY <1>t, <1>2, <2>1, <2>2, LambdaTypes DEF AskRecreate
<1>3. CASE AddStatement
  BY <1>t, <1>3, LambdaTypes, DeploysFields, FunctionPolicyFields DEF AddStatement
<1>4. CASE CallFails
  BY <1>t, <1>4, LambdaTypes, DeploysFields DEF CallFails, Fault, Rests
<1>5. CASE DeleteFunction
  <2>1. nextCall = "delete" /\ nextCall' \in {"recreate", "failed"} /\ deploys' \in DeploysState
    BY <1>t, <1>5, AnsweredTypes DEF DeleteFunction
  <2>2. function' \in FunctionState
    BY <1>t, <1>5, FunctionDeleted DEF DeleteFunction
  <2> QED
    BY <1>t, <1>5, <2>1, <2>2, LambdaTypes DEF DeleteFunction
<1>6. CASE Recreate
  <2>1. nextCall = "recreate" /\ nextCall' \in {"recreated", "failed"} /\ deploys' \in DeploysState
    BY <1>t, <1>6, AnsweredTypes DEF Recreate
  <2>2. function' \in FunctionState
    BY <1>t, <1>6, RequestFields, FunctionCodeFields DEF Recreate
  <2> QED
    BY <1>t, <1>6, <2>1, <2>2, LambdaTypes DEF Recreate
<1>7. CASE NameTaken
  BY <1>t, <1>7, LambdaTypes DEF NameTaken
<1>8. CASE SetupRole
  BY <1>t, <1>8, LambdaTypes DEF SetupRole, Call
<1>9. CASE GetFunction
  BY <1>t, <1>9, LambdaTypes, DeploysFields DEF GetFunction, Fault
<1>10. CASE RemoveTargets
  <2>1. nextCall = "untarget" /\ nextCall' \in {"unschedule", "failed"} /\ deploys' \in DeploysState
    BY <1>t, <1>10, AnsweredTypes DEF RemoveTargets
  <2>2. schedule' \in ScheduleState
    BY <1>t, <1>10 DEF RemoveTargets, ScheduleState
  <2> QED
    BY <1>t, <1>10, <2>1, <2>2, LambdaTypes DEF RemoveTargets
<1>11. CASE RemoveRule
  <2>1. nextCall = "unschedule" /\ nextCall' \in {"configure", "failed"} /\ deploys' \in DeploysState
    BY <1>t, <1>11, AnsweredTypes DEF RemoveRule
  <2>2. schedule' \in ScheduleState
    BY <1>t, <1>11 DEF RemoveRule, ScheduleState
  <2> QED
    BY <1>t, <1>11, <2>1, <2>2, LambdaTypes DEF RemoveRule
<1>12. CASE UpdateConfiguration
  BY <1>t, <1>12, LambdaTypes, AnsweredTypes, RequestFields, FunctionConfigFields
     DEF UpdateConfiguration
<1>13. CASE UpdateCode
  BY <1>t, <1>13, LambdaTypes, AnsweredTypes, RequestFields, FunctionSourceFields DEF UpdateCode
<1>14. CASE DropUrl
  BY <1>t, <1>14, LambdaTypes, DeploysFields, FunctionUrlFields DEF DropUrl, Fault
<1>15. CASE CreateUrl("url", "triggers") \/ CreateUrl("newUrl", "urlPermission")
  <2>1. /\ nextCall \in {"url", "newUrl"} /\ deploys' \in DeploysState
        /\ nextCall' \in {"triggers", "urlPermission", "failed"}
    BY <1>t, <1>15, AnsweredTypes DEF CreateUrl
  <2>2. function' \in FunctionState
    BY <1>t, <1>15 DEF CreateUrl, FunctionState
  <2> QED
    BY <1>t, <1>15, <2>1, <2>2, LambdaTypes DEF CreateUrl
<1>16. CASE CreateFunction
  BY <1>t, <1>16, LambdaTypes, AnsweredTypes, RequestFields, FunctionCodeFields
     DEF CreateFunction
<1>17. CASE \/ SetupPermission("urlPermission", "url", "triggers")
            \/ SetupPermission("permission", "schedule", "event")
  <2>1. /\ nextCall \in {"urlPermission", "permission"} /\ deploys' \in DeploysState
        /\ nextCall' \in {"triggers", "event", "failed"}
    BY <1>t, <1>17, AnsweredTypes DEF SetupPermission
  <2>2. function' \in FunctionState
    BY <1>t, <1>17, FunctionPolicyFields DEF SetupPermission
  <2> QED
    BY <1>t, <1>17, <2>1, <2>2, LambdaTypes DEF SetupPermission
<1>18. CASE SetupPermissionUnread
  BY <1>t, <1>18, LambdaTypes, DeploysFields, FunctionPolicyFields
     DEF SetupPermissionUnread, Fault
<1>19. CASE SetupTrigger
  BY <1>t, <1>19, LambdaTypes, AnsweredTypes, RequestFields, FunctionMappingsFields
     DEF SetupTrigger
<1>20. CASE EndTriggers
  BY <1>t, <1>20, LambdaTypes DEF EndTriggers, Call, AfterTriggers
<1>21. CASE PutRule
  <2>1. nextCall = "rule" /\ nextCall' \in {"targets", "failed"} /\ deploys' \in DeploysState
    BY <1>t, <1>21, AnsweredTypes DEF PutRule
  <2>2. schedule' \in ScheduleState
    BY <1>t, <1>21 DEF PutRule, ScheduleState
  <2> QED
    BY <1>t, <1>21, <2>1, <2>2, LambdaTypes DEF PutRule
<1>22. CASE ListTargets
  BY <1>t, <1>22, LambdaTypes, DeploysFields DEF ListTargets, Call, Fault
<1>23. CASE ClearTargets
  <2>1. nextCall = "clear" /\ nextCall' \in {"target", "failed"} /\ deploys' \in DeploysState
    BY <1>t, <1>23, DeploysFields, AnsweredTypes DEF ClearTargets, Fault
  <2>2. schedule' \in ScheduleState /\ unread' \in BOOLEAN
    BY <1>t, <1>23, LambdaTypes DEF ClearTargets, ScheduleState
  <2> QED
    BY <1>t, <1>23, <2>1, <2>2, LambdaTypes DEF ClearTargets
<1>24. CASE PutTargets
  <2>1. nextCall = "target" /\ nextCall' \in {"permission", "failed"} /\ deploys' \in DeploysState
    BY <1>t, <1>24, AnsweredTypes DEF PutTargets
  <2>2. schedule' \in ScheduleState
    <3>1. deployment.number \in 1 .. MaxDeploys /\ schedule.targets \subseteq 1 .. MaxDeploys
      BY <1>t, <1>24, <2>1, RequestFields, LambdaAssumption DEF PutTargets, Answered, Call, ScheduleState
    <3> QED
      BY <1>t, <1>24, <3>1 DEF PutTargets, ScheduleState
  <2> QED
    BY <1>t, <1>24, <2>1, <2>2, LambdaTypes DEF PutTargets
<1>25. CASE PutEvent
  BY <1>t, <1>25, LambdaTypes DEF PutEvent, Call
<1> QED
  BY <1>1, <1>2, <1>3, <1>4, <1>5, <1>6, <1>7, <1>8, <1>9, <1>10, <1>11, <1>12, <1>13, <1>14,
     <1>15, <1>16, <1>17, <1>18, <1>19, <1>20, <1>21, <1>22, <1>23, <1>24, <1>25 DEF LambdaNext

-----------------------------------------------------------------------------
(* The policy.                                                             *)

Spaced(policy) ==
    \A i \in 1 .. Len(policy) - 1 : policy[i] = "schedule" => policy[i + 1] # "schedule"

LEMMA AppendSpaced ==
    ASSUME NEW S, NEW p \in Seq(S), NEW x \in S, Spaced(p),
           p # <<>> /\ Last(p) = "schedule" => x # "schedule"
    PROVE  Spaced(Append(p, x))
<1>1. Len(Append(p, x)) = Len(p) + 1 /\ Append(p, x)[Len(p) + 1] = x /\ Len(p) \in Nat
  BY AppendProperties, LenProperties
<1>2. \A i \in 1 .. Len(p) : Append(p, x)[i] = p[i]
  BY AppendProperties
<1>3. Len(p) # 0 => p # <<>>
  BY EmptySeq
<1> SUFFICES ASSUME NEW i \in 1 .. Len(p), Append(p, x)[i] = "schedule"
             PROVE  Append(p, x)[i + 1] # "schedule"
  BY <1>1 DEF Spaced
<1>4. CASE i = Len(p)
  BY <1>1, <1>2, <1>3, <1>4 DEF Last
<1>5. CASE i # Len(p)
  BY <1>1, <1>2, <1>5 DEF Spaced
<1> QED
  BY <1>4, <1>5

LEMMA LambdaNextPermissions ==
    ASSUME LambdaTypeOK, PermissionsStay, LambdaNext
    PROVE  PermissionsStay'
<1>t. /\ deployment \in DeployRequest /\ function \in FunctionState
      /\ function.policy \in Seq({"url", "schedule", "other"})
  BY LambdaTypes DEF FunctionState
<1>s. /\ PermissionsStay <=> unread \/ Spaced(function.policy)
      /\ PermissionsStay' <=> unread' \/ Spaced(function'.policy)
  BY DEF PermissionsStay, Spaced
<1>0. ASSUME function'.policy = function.policy, unread => unread' PROVE PermissionsStay'
  BY <1>s, <1>0
<1>1. CASE AskDeploy \/ AskRecreate \/ CallFails \/ NameTaken \/ SetupRole \/ GetFunction
           \/ RemoveTargets \/ RemoveRule \/ EndTriggers \/ PutRule \/ ListTargets
           \/ ClearTargets \/ PutTargets \/ PutEvent
  BY <1>0, <1>1 DEF AskDeploy, AskRecreate, CallFails, NameTaken, SetupRole, GetFunction,
     RemoveTargets, RemoveRule, EndTriggers, PutRule, ListTargets, ClearTargets, PutTargets,
     PutEvent
<1>2. CASE Recreate \/ CreateFunction \/ UpdateConfiguration \/ UpdateCode
  <2>1. function'.policy = function.policy
    BY <1>2, <1>t DEF Recreate, CreateFunction, UpdateConfiguration, UpdateCode, FunctionState
  <2> QED
    BY <1>0, <1>2, <2>1 DEF Recreate, CreateFunction, UpdateConfiguration, UpdateCode
<1>3. CASE DropUrl \/ CreateUrl("url", "triggers") \/ CreateUrl("newUrl", "urlPermission")
  BY <1>0, <1>3, <1>t DEF DropUrl, CreateUrl, FunctionState
<1>4. CASE SetupTrigger
  BY <1>0, <1>4, <1>t DEF SetupTrigger, FunctionState
<1>5. CASE DeleteFunction
  <2>1. function'.policy = <<>>
    BY <1>5, <1>t, FunctionDeleted DEF DeleteFunction
  <2>2. Spaced(<<>>)
    BY EmptySeq DEF Spaced
  <2> QED
    BY <1>s, <2>1, <2>2
<1>6. CASE AddStatement
  BY <1>6, <1>s, <1>t, FunctionPolicyFields, AppendSpaced DEF AddStatement
<1>7. ASSUME NEW from, NEW to, NEW source \in {"url", "schedule"},
             SetupPermission(from, source, to)
      PROVE  PermissionsStay'
  BY <1>7, <1>s, <1>t, FunctionPolicyFields, AppendSpaced DEF SetupPermission
<1>8. CASE SetupPermissionUnread
  BY <1>8, <1>s DEF SetupPermissionUnread
<1> QED
  BY <1>1, <1>2, <1>3, <1>4, <1>5, <1>6, <1>7, <1>8 DEF LambdaNext

-----------------------------------------------------------------------------
(* The phases of a deploy.                                                 *)

LEMMA LambdaNextPhases ==
    ASSUME LambdaTypeOK, BranchInv, FunctionInv, ScheduleInv, LambdaNext
    PROVE  BranchInv' /\ FunctionInv' /\ ScheduleInv'
<1>t. /\ deployment \in DeployRequest /\ function \in FunctionState
      /\ function.policy \in Seq({"url", "schedule", "other"})
      /\ schedule \in ScheduleState
      /\ nextCall \in {"idle", "role", "get", "untarget", "unschedule", "configure", "code",
                "dropUrl", "url", "create", "newUrl", "urlPermission", "triggers", "rule",
                "targets", "clear", "target", "permission", "event", "deployed", "failed",
                "delete", "recreate", "recreated"}
  BY LambdaTypes DEF FunctionState
<1> USE DEF BranchInv, FunctionInv, ScheduleInv, Went, Joined, BeforeBranch, OfUpdate, OfCreation,
        OfSchedule
\* Nothing is said of a request that failed, or of the calls of a recreation.
<1>0. ASSUME nextCall' \in {"failed", "delete", "recreate", "recreated"}
      PROVE  BranchInv' /\ FunctionInv' /\ ScheduleInv'
  BY <1>0
<1>1. CASE AskDeploy
  BY <1>1 DEF AskDeploy
<1>2. CASE AskRecreate \/ CallFails \/ DeleteFunction \/ Recreate \/ NameTaken
  BY <1>0, <1>2 DEF AskRecreate, CallFails, DeleteFunction, Recreate, NameTaken, Answered, Call
<1>3. CASE AddStatement
  <2>1. /\ function'.policy = Append(function.policy, "other")
        /\ function'.code = function.code /\ function'.config = function.config
        /\ function'.url = function.url /\ function'.mappings = function.mappings
    BY <1>3, <1>t, FunctionPolicyFields DEF AddStatement
  <2>2. \A i \in DOMAIN function.policy :
           i \in DOMAIN function'.policy /\ function'.policy[i] = function.policy[i]
    BY <2>1, <1>t, AppendProperties
  <2> QED
    BY <1>3, <2>1, <2>2 DEF AddStatement, Rests
<1>4. CASE SetupRole
  BY <1>4 DEF SetupRole, Call
<1>5. CASE GetFunction
  BY <1>5 DEF GetFunction
<1>6. CASE RemoveTargets
  BY <1>0, <1>6, <1>t, ScheduleTargetsFields DEF RemoveTargets, Answered, Call
<1>7. CASE RemoveRule
  BY <1>0, <1>7, <1>t DEF RemoveRule, Answered, Call, ScheduleState
<1>8. CASE UpdateConfiguration
  BY <1>0, <1>8, <1>t, RequestFields, FunctionConfigFields DEF UpdateConfiguration, Answered, Call
<1>9. CASE UpdateCode
  BY <1>0, <1>9, <1>t, RequestFields, FunctionSourceFields DEF UpdateCode, Answered, Call
<1>10. CASE DropUrl
  BY <1>0, <1>10, <1>t, FunctionUrlFields DEF DropUrl
<1>11. CASE CreateUrl("url", "triggers") \/ CreateUrl("newUrl", "urlPermission")
  BY <1>0, <1>11, <1>t, FunctionUrlFields DEF CreateUrl, Answered, Call
<1>12. CASE CreateFunction
  <2>1. function'.code = deployment.code /\ function'.config = deployment.number
    BY <1>12, <1>t DEF CreateFunction, FunctionState
  <2> QED
    BY <1>0, <1>12, <2>1 DEF CreateFunction, Answered, Call
<1>13. CASE SetupPermission("urlPermission", "url", "triggers")
  BY <1>0, <1>13, <1>t, FunctionPolicyFields DEF SetupPermission, Answered, Call
<1>14. CASE SetupTrigger
  BY <1>0, <1>14, <1>t, RequestFields, FunctionMappingsFields DEF SetupTrigger, Answered, Call
<1>15. CASE EndTriggers
  BY <1>15 DEF EndTriggers, Call, AfterTriggers
<1>16. CASE PutRule
  BY <1>0, <1>16, <1>t DEF PutRule, Answered, Call, ScheduleState
<1>17. CASE ListTargets
  BY <1>17 DEF ListTargets, Call
<1>18. CASE ClearTargets
  BY <1>0, <1>18, <1>t DEF ClearTargets, Answered, Call, ScheduleState
<1>19. CASE PutTargets
  <2>1. /\ nextCall = "target" /\ nextCall' \in {"permission", "failed"}
        /\ UNCHANGED <<deployment, function, unread, branch>>
    BY <1>19 DEF PutTargets, Answered, Call
  <2>2. schedule'.rule = schedule.rule
    BY <1>19, <1>t DEF PutTargets, ScheduleState
  <2>3. schedule'.targets = schedule.targets \cup {deployment.number}
    BY <1>19, <1>t DEF PutTargets, ScheduleState
  <2>4. unread \/ schedule'.targets = {deployment.number}
    BY <2>1, <2>3
  <2>5. Cardinality({deployment.number}) = 1
    BY FS_Singleton
  <2> QED
    BY <1>0, <2>1, <2>2, <2>4, <2>5
<1>20. CASE SetupPermission("permission", "schedule", "event") \/ SetupPermissionUnread
  <2>1. /\ nextCall = "permission" /\ nextCall' \in {"event", "failed"}
        /\ UNCHANGED <<deployment, schedule, branch>> /\ (unread => unread')
    BY <1>20, <1>t, LambdaTypes DEF SetupPermission, SetupPermissionUnread, Answered, Call
  <2>2. \/ /\ function' = function /\ function.policy # <<>>
           /\ Last(function.policy) = "schedule"
        \/ function' = [function EXCEPT !.policy = Append(@, "schedule")]
    BY <1>20 DEF SetupPermission, SetupPermissionUnread
  <2>3. /\ function'.code = function.code /\ function'.config = function.config
        /\ function'.url = function.url /\ function'.mappings = function.mappings
        /\ function' = function \/ function'.policy = Append(function.policy, "schedule")
    BY <1>t, <2>2, FunctionPolicyFields
  <2>4. \E i \in DOMAIN function'.policy : function'.policy[i] = "schedule"
    <3>1. CASE function'.policy = Append(function.policy, "schedule")
      BY <1>t, <3>1, AppendProperties
    <3>2. CASE function' = function /\ function.policy # <<>> /\ Last(function.policy) = "schedule"
      <4>1. Len(function.policy) \in DOMAIN function.policy
        BY <1>t, <3>2, EmptySeq, LenProperties
      <4> QED
        BY <3>2, <4>1 DEF Last
    <3> QED
      BY <1>t, <2>2, FunctionPolicyFields, <3>1, <3>2
  <2> QED
    BY <1>0, <2>1, <2>3, <2>4
<1>21. CASE PutEvent
  BY <1>21 DEF PutEvent, Call
<1> QED
  BY <1>1, <1>2, <1>3, <1>4, <1>5, <1>6, <1>7, <1>8, <1>9, <1>10, <1>11, <1>12, <1>13, <1>14,
     <1>15, <1>16, <1>17, <1>18, <1>19, <1>20, <1>21 DEF LambdaNext

LEMMA LambdaInductive == LambdaIInv /\ [LambdaNext]_lambdaVars => LambdaIInv'
<1> SUFFICES ASSUME LambdaIInv, [LambdaNext]_lambdaVars PROVE LambdaIInv'
  OBVIOUS
<1>1. CASE LambdaNext
  BY <1>1, LambdaNextType, LambdaNextPermissions, LambdaNextPhases
     DEF LambdaIInv, LambdaTypeInv
<1>2. CASE UNCHANGED lambdaVars
  BY <1>2 DEF lambdaVars, LambdaIInv, LambdaTypeInv, LambdaTypeOK, PermissionsStay, BranchInv,
     FunctionInv, ScheduleInv, Went, Joined
<1> QED
  BY <1>1, <1>2

LEMMA LambdaIInvHolds == LambdaSpec => []LambdaIInv
  BY LambdaInitIInv, LambdaInductive, PTL DEF LambdaSpec

\* Every variable of a deploy keeps its type, for any code, triggers and faults.
THEOREM LambdaTypeCorrect == LambdaSpec => []LambdaTypeOK
<1>1. LambdaIInv => LambdaTypeOK
  BY DEF LambdaIInv, LambdaTypeInv
<1> QED
  BY <1>1, LambdaIInvHolds, PTL

\* A deploy that succeeds leaves the code, the triggers, the URL and the schedule it
\* was asked for, whatever failed in it and in those before it
\* (deployFunctionInBackground, deployRule).
THEOREM DeployedAsAskedHolds == LambdaSpec => []DeployedAsAsked
<1>1. LambdaIInv => DeployedAsAsked
  <2> SUFFICES ASSUME LambdaIInv, nextCall = "deployed" PROVE DeployedAsAsked
    BY DEF DeployedAsAsked
  <2>1. BranchInv /\ FunctionInv /\ ScheduleInv
    BY DEF LambdaIInv
  <2> QED
    BY <2>1 DEF DeployedAsAsked, BranchInv, FunctionInv, ScheduleInv, Went, Joined, ToSet
<1> QED
  BY <1>1, LambdaIInvHolds, PTL

\* No deploy adds a second permission for the schedule after the first, unless one
\* for something else came between or the policy was not read (setupPermission).
THEOREM PermissionsStayHolds == LambdaSpec => []PermissionsStay
<1>1. LambdaIInv => PermissionsStay
  BY DEF LambdaIInv
<1> QED
  BY <1>1, LambdaIInvHolds, PTL

-----------------------------------------------------------------------------
(* RoleSetup, for any policies and documents.                              *)

RoleStep == {"rest", "get", "create", "again", "trust", "attached", "attach", "detach",
             "defined", "define", "read", "delete", "put", "remove", "ready", "failed"}
RoleState == [exists : BOOLEAN, attached : SUBSET Managed, defined : Policies]
WantedState == [attach : SUBSET Managed, define : Policies]
SetupState == [next : RoleStep, known : BOOLEAN, todo : SUBSET (Managed \cup Inline),
               listed : SUBSET (Managed \cup Inline), policy : Inline \cup {NoDocument},
               guessed : BOOLEAN]
SetupsState == [made : 0 .. MaxSetups, errors : 0 .. MaxErrors, failed : 0 .. MaxSetups]

\* A request is made before anything else is done, and a policy is in hand.
RoleTypeInv ==
    /\ RoleTypeOK
    /\ setups.made = 0 => setup.next = "rest" /\ hadInline = {}
    /\ IF setups.made = 0 THEN setups.failed = 0 ELSE setups.failed < setups.made
    /\ setup.next \in {"read", "delete", "put"} => setup.policy \in Inline

Names == NamesOf(wanted.define)
Present == NamesOf(role.defined)

\* The policies that are attached.
AttachedInv ==
    /\ setup.next = "attach" =>
          /\ setup.todo \subseteq wanted.attach /\ setup.listed \subseteq role.attached
          /\ wanted.attach \subseteq role.attached \cup setup.todo
          /\ ~setup.guessed => role.attached \subseteq setup.listed \cup wanted.attach
    /\ setup.next = "detach" =>
          /\ setup.todo \cap wanted.attach = {} /\ wanted.attach \subseteq role.attached
          /\ ~setup.guessed => role.attached \subseteq setup.todo \cup wanted.attach
    /\ setup.next \in {"defined", "define", "read", "delete", "put", "remove", "ready"} =>
          /\ wanted.attach \subseteq role.attached
          /\ ~setup.guessed /\ wanted.attach # {} => role.attached = wanted.attach

\* Those that are defined.
DefinedInv ==
    /\ setup.next \in {"define", "read", "delete", "put"} =>
          /\ setup.todo \subseteq Names
          /\ \A p \in Names \ setup.todo :
                \/ role.defined[p] = wanted.define[p]
                \/ setup.next # "define" /\ p = setup.policy
          /\ ~setup.guessed => Present \subseteq setup.listed \cup Names
    /\ setup.next \in {"read", "delete", "put"} => setup.policy \in Names
    /\ setup.next = "remove" =>
          /\ setup.todo \cap Names = {}
          /\ \A p \in Names : role.defined[p] = wanted.define[p]
          /\ ~setup.guessed => Present \subseteq setup.todo \cup Names
    /\ setup.next = "ready" =>
          /\ \A p \in Names : role.defined[p] = wanted.define[p]
          /\ ~setup.guessed /\ wanted.define # Undefined => Present \subseteq Names

\* Those that are missing: one for each set-up that failed, and the one in hand
\* between its deletion and its return.
Missing == hadInline \ Present
Defining == {"defined", "define", "read", "delete", "put", "remove"}
MissingInv ==
    /\ Names # {} => hadInline \subseteq Names
    /\ setup.next \in Defining => Names # {}
    /\ setup.next \notin {"put", "failed"} => Cardinality(Missing) <= setups.failed
    /\ setup.next = "put" => Cardinality(Missing \ {setup.policy}) <= setups.failed
    /\ setup.next = "failed" => Cardinality(Missing) <= setups.failed + 1

RoleIInv == RoleTypeInv /\ AttachedInv /\ DefinedInv /\ MissingInv

-----------------------------------------------------------------------------
(* Types.                                                                  *)

LEMMA RoleTypes ==
    /\ RoleTypeOK <=> /\ wanted \in WantedState /\ role \in RoleState /\ setup \in SetupState
                      /\ setups \in SetupsState /\ hadInline \subseteq Inline
    /\ RoleTypeOK' <=> /\ wanted' \in WantedState /\ role' \in RoleState /\ setup' \in SetupState
                       /\ setups' \in SetupsState /\ hadInline' \subseteq Inline
  BY DEF RoleTypeOK, RoleStep, RoleState, WantedState, SetupState, SetupsState

LEMMA PolicyNames ==
    ASSUME NEW d \in Policies
    PROVE  NamesOf(d) \subseteq Inline /\ (d = Undefined <=> NamesOf(d) = {})
  BY DEF Policies, NamesOf, Undefined

LEMMA WantedFields ==
    ASSUME wanted \in WantedState
    PROVE  /\ wanted.attach \subseteq Managed /\ wanted.define \in Policies /\ Names \subseteq Inline
           /\ wanted.define = Undefined <=> Names = {}
           /\ \A p \in Inline : p \in Names <=> wanted.define[p] # NoDocument
  BY PolicyNames DEF WantedState, Names, NamesOf

LEMMA StepFields ==
    ASSUME NEW s \in SetupState, NEW n \in RoleStep
    PROVE  LET t == ToStep(s, n)
           IN  /\ t \in SetupState /\ t.next = n /\ t.todo = s.todo /\ t.listed = s.listed
               /\ t.policy = s.policy /\ t.guessed = s.guessed
  BY DEF ToStep, SetupState

LEMMA TodoFields ==
    ASSUME NEW s \in SetupState, NEW T \in SUBSET (Managed \cup Inline)
    PROVE  LET t == [s EXCEPT !.todo = T]
           IN  /\ t \in SetupState /\ t.next = s.next /\ t.todo = T /\ t.listed = s.listed
               /\ t.policy = s.policy /\ t.guessed = s.guessed
  BY DEF SetupState

LEMMA NextTodoFields ==
    ASSUME NEW s \in SetupState, NEW T \in SUBSET (Managed \cup Inline), NEW n \in RoleStep
    PROVE  LET t == [s EXCEPT !.next = n, !.todo = T]
           IN  /\ t \in SetupState /\ t.next = n /\ t.todo = T /\ t.listed = s.listed
               /\ t.policy = s.policy /\ t.guessed = s.guessed
  BY DEF SetupState

LEMMA SetupFields ==
    ASSUME NEW s \in SetupState
    PROVE  /\ s.next \in RoleStep /\ s.todo \subseteq Managed \cup Inline
           /\ s.listed \subseteq Managed \cup Inline
  BY DEF SetupState

LEMMA RoleFields ==
    ASSUME NEW r \in RoleState
    PROVE  r.attached \subseteq Managed /\ r.defined \in Policies /\ NamesOf(r.defined) \subseteq Inline
  BY PolicyNames DEF RoleState

LEMMA AttachedFields ==
    ASSUME NEW r \in RoleState, NEW A \in SUBSET Managed
    PROVE  LET t == [r EXCEPT !.attached = A]
           IN  t \in RoleState /\ t.attached = A /\ t.defined = r.defined
  BY DEF RoleState

LEMMA DefinedFields ==
    ASSUME NEW r \in RoleState, NEW p \in Inline, NEW d \in Document \cup {NoDocument}
    PROVE  LET t == [r EXCEPT !.defined[p] = d]
           IN  /\ t \in RoleState /\ t.attached = r.attached
               /\ \A q \in Inline : t.defined[q] = IF q = p THEN d ELSE r.defined[q]
               /\ NamesOf(t.defined) = IF d = NoDocument THEN NamesOf(r.defined) \ {p}
                                       ELSE NamesOf(r.defined) \cup {p}
<1> DEFINE e == [r.defined EXCEPT ![p] = d]
<1>1. r.defined \in Policies
  BY RoleFields
<1>2. e \in Policies /\ \A q \in Inline : e[q] = IF q = p THEN d ELSE r.defined[q]
  BY <1>1 DEF Policies
<1>3. NamesOf(e) = IF d = NoDocument THEN NamesOf(r.defined) \ {p}
                   ELSE NamesOf(r.defined) \cup {p}
  BY <1>2 DEF NamesOf
<1>4. [r EXCEPT !.defined[p] = d] = [r EXCEPT !.defined = e]
  BY DEF RoleState
<1> HIDE DEF e
<1>5. LET t == [r EXCEPT !.defined = e]
      IN  t \in RoleState /\ t.attached = r.attached /\ t.defined = e
  BY <1>2 DEF RoleState
<1> QED
  BY <1>2, <1>3, <1>4, <1>5

LEMMA RoleErrors ==
    ASSUME setups \in SetupsState, RoleError
    PROVE  setups' \in SetupsState /\ setups'.made = setups.made /\ setups'.failed = setups.failed
  BY RoleAssumption DEF SetupsState, RoleError

\* A call is answered, and to is what comes next, or the setup failed.
LEMMA CallTypes ==
    ASSUME setups \in SetupsState, NEW from, NEW to, RoleCalls(from, to)
    PROVE  /\ setup.next = from /\ (setup' = to \/ setup' = ToStep(setup, "failed"))
           /\ setups' \in SetupsState /\ setups'.made = setups.made
  BY RoleErrors DEF RoleCalls, SetupGoes

LEMMA RoleInitIInv == RoleInit => RoleIInv
<1> SUFFICES ASSUME RoleInit PROVE RoleIInv
  OBVIOUS
<1>1. Undefined \in Policies /\ NamesOf(Undefined) = {}
  BY DEF Undefined, Policies, NamesOf
<1>2. /\ wanted \in WantedState /\ role \in RoleState
      /\ wanted.define = Undefined /\ role.defined = Undefined
  BY <1>1 DEF RoleInit, WantedState, RoleState
<1>3. setup \in SetupState /\ setup.next = "rest"
  BY DEF RoleInit, SetupState, NoSetup, RoleStep
<1>4. setups \in SetupsState
  BY RoleAssumption DEF RoleInit, SetupsState
<1>5. RoleTypeInv /\ AttachedInv /\ DefinedInv
  BY <1>1, <1>2, <1>3, <1>4, RoleTypes DEF RoleInit, RoleTypeInv, AttachedInv, DefinedInv, Names, Present
<1>6. MissingInv
  BY <1>1, <1>2, <1>3, FS_EmptySet DEF RoleInit, MissingInv, Missing, Defining, Names
<1> QED
  BY <1>5, <1>6 DEF RoleIInv

LEMMA RoleNextType == RoleTypeInv /\ RoleNext => RoleTypeInv'
<1> SUFFICES ASSUME RoleTypeInv, RoleNext PROVE RoleTypeInv'
  OBVIOUS
<1>t. /\ wanted \in WantedState /\ role \in RoleState /\ setup \in SetupState
      /\ setups \in SetupsState /\ hadInline \subseteq Inline
      /\ setups.made = 0 => setup.next = "rest" /\ hadInline = {}
      /\ IF setups.made = 0 THEN setups.failed = 0 ELSE setups.failed < setups.made
      /\ setup.next \in {"read", "delete", "put"} => setup.policy \in Inline
  BY RoleTypes DEF RoleTypeInv
<1> DEFINE Typed ==
      /\ wanted' \in WantedState /\ role' \in RoleState /\ setup' \in SetupState
      /\ setups' \in SetupsState /\ hadInline' \subseteq Inline
      /\ setups'.made = 0 => setup'.next = "rest" /\ hadInline' = {}
      /\ IF setups'.made = 0 THEN setups'.failed = 0 ELSE setups'.failed < setups'.made
      /\ setup'.next \in {"read", "delete", "put"} => setup'.policy \in Inline
<1> SUFFICES Typed
  BY RoleTypes DEF RoleTypeInv
<1> USE DEF RoleStep
<1>1. CASE OthersMakeRole
  <2>1. (CHOOSE d \in Document : TRUE) \in Document
    BY RoleAssumption
  <2> QED
    BY <1>t, <1>1, <2>1 DEF OthersMakeRole, RoleState, Policies
<1>2. CASE AskSetup
  <2>1. wanted' \in WantedState /\ role' \in RoleState /\ hadInline' \subseteq Inline
    BY <1>t, <1>2, RoleFields DEF AskSetup, WantedState
  <2>2. setup' \in SetupState /\ setup'.next = "get"
    BY <1>2 DEF AskSetup, NoSetup, SetupState
  <2>3. setups' \in SetupsState /\ setups'.failed < setups'.made /\ setups'.made # 0
    <3>1. /\ setups.made \in Nat /\ setups.failed \in Nat /\ setups.made < MaxSetups
          /\ setups' = [setups EXCEPT !.made = @ + 1, !.failed = FailedSoFar]
      BY <1>t, <1>2, RoleAssumption DEF AskSetup, SetupsState
    <3>2. /\ setups.made + 1 \in 0 .. MaxSetups /\ setups.made + 1 # 0
      BY <3>1, RoleAssumption
    <3>3. FailedSoFar \in 0 .. MaxSetups /\ FailedSoFar < setups.made + 1
      BY <1>t, <3>1, RoleAssumption DEF FailedSoFar
    <3>4. PICK f : f = FailedSoFar
      OBVIOUS
    <3> QED
      BY <1>t, <3>1, <3>2, <3>3, <3>4 DEF SetupsState
  <2> QED
    BY <2>1, <2>2, <2>3
\* Every other step is one of a request.
<1>m. ASSUME setups' = setups \/ RoleError, setup.next # "rest", UNCHANGED <<wanted, hadInline>>
      PROVE  /\ wanted' \in WantedState /\ setups' \in SetupsState /\ hadInline' \subseteq Inline
             /\ setups'.made # 0 /\ setups'.failed < setups'.made
  BY <1>t, <1>m, RoleErrors
<1>3. CASE SetupFails
  BY <1>t, <1>m, <1>3, StepFields DEF SetupFails, SetupGoes
<1>4. CASE GetRole
  <2>1. setup' \in SetupState /\ setup'.next \in {"trust", "create"}
    BY <1>t, <1>4 DEF GetRole, SetupGoes, ToStep, SetupState, RoleState
  <2> QED
    BY <1>t, <1>m, <1>4, <2>1 DEF GetRole
<1>5. CASE CreateRole
  <2>1. role' \in RoleState
    BY <1>t, <1>5 DEF CreateRole, RoleState
  <2> QED
    BY <1>t, <1>m, <1>5, <2>1, StepFields DEF CreateRole, RoleCalls, SetupGoes
<1>6. CASE RoleTaken
  BY <1>t, <1>m, <1>6, StepFields DEF RoleTaken, SetupGoes
<1>7. CASE GetRoleAgain
  <2>1. setup' \in SetupState /\ setup'.next = "trust"
    BY <1>t, <1>7 DEF GetRoleAgain, SetupGoes, ToStep, SetupState
  <2> QED
    BY <1>t, <1>m, <1>7, <2>1 DEF GetRoleAgain
<1>8. CASE UpdateTrust
  BY <1>t, <1>m, <1>8, StepFields DEF UpdateTrust, RoleCalls, SetupGoes, AfterAttach
<1>9. ASSUME NEW next \in {"attach", "define"}, NEW from \in RoleStep \ {"rest"},
             NEW asked \in SUBSET (Managed \cup Inline), NEW present \in SUBSET (Managed \cup Inline),
             RoleLists(from, next, asked, present)
      PROVE  Typed
  <2>1. setup' \in SetupState /\ setup'.next = next
    BY <1>t, <1>9 DEF RoleLists, SetupState
  <2> QED
    BY <1>t, <1>m, <1>9, <2>1 DEF RoleLists
<1>10. CASE ListAttached
  BY <1>t, <1>9, <1>10, WantedFields, RoleFields DEF ListAttached
<1>11. CASE ListDefined
  BY <1>t, <1>9, <1>11, WantedFields, RoleFields DEF ListDefined, Names
<1>12. CASE EndAttach \/ EndDefine
  <2>1. ASSUME NEW n \in {"detach", "remove"}, NEW T \in SUBSET (Managed \cup Inline),
               setup' = [setup EXCEPT !.next = n, !.todo = T]
        PROVE  setup' \in SetupState /\ setup'.next = n
    BY <1>t, <2>1 DEF SetupState
  <2>2. setup' \in SetupState /\ setup'.next \in {"detach", "remove"}
    <3>1. /\ setup.listed \ wanted.attach \in SUBSET (Managed \cup Inline)
          /\ setup.listed \ NamesOf(wanted.define) \in SUBSET (Managed \cup Inline)
      BY <1>t, SetupFields
    <3>2. CASE EndAttach
      BY <3>1, <3>2, <2>1 DEF EndAttach
    <3>3. CASE EndDefine
      BY <3>1, <3>3, <2>1 DEF EndDefine
    <3> QED
      BY <1>12, <3>2, <3>3
  <2> QED
    BY <1>t, <1>m, <1>12, <2>2 DEF EndAttach, EndDefine
<1>13. CASE EndDetach \/ EndRemove
  BY <1>t, <1>m, <1>13, StepFields DEF EndDetach, EndRemove, SetupGoes, AfterAttach
<1>14. ASSUME NEW p \in Managed, AttachPolicy(p) \/ DetachPolicy(p) PROVE Typed
  <2>1. setup' \in SetupState /\ setup'.next \in {"attach", "detach", "failed"}
    <3> DEFINE T == setup.todo \ {p}
    <3>1. T \in SUBSET (Managed \cup Inline)
      BY <1>t, SetupFields
    <3>2. ASSUME setup' = [setup EXCEPT !.todo = T]
          PROVE  setup' \in SetupState /\ setup'.next = setup.next
      BY <1>t, <3>1, <3>2 DEF SetupState
    <3> QED
      BY <1>t, <1>14, <3>2, StepFields
         DEF AttachPolicy, DetachPolicy, RoleCalls, SetupGoes
  <2>2. role' \in RoleState
    BY <1>t, <1>14, AttachedFields, RoleFields DEF AttachPolicy, DetachPolicy
  <2> QED
    BY <1>t, <1>m, <1>14, <2>1, <2>2 DEF AttachPolicy, DetachPolicy, RoleCalls
<1>15. CASE ReadPolicy
  BY <1>t, <1>m, <1>15, StepFields DEF ReadPolicy, SetupGoes
<1>16. CASE DeletePolicy \/ PutPolicy
  <2>1. /\ setup' \in SetupState /\ setup.next \in {"delete", "put"} /\ setup'.policy = setup.policy
        /\ setup'.next # "rest"
    BY <1>t, <1>16, StepFields DEF DeletePolicy, PutPolicy, RoleCalls, SetupGoes
  <2>2. setup.policy \in Inline /\ wanted.define[setup.policy] \in Document \cup {NoDocument}
    BY <1>t, <2>1, WantedFields DEF Policies
  <2>3. role' \in RoleState
    <3>1. CASE DeletePolicy
      BY <1>t, <2>2, <3>1, DefinedFields DEF DeletePolicy
    <3>2. CASE PutPolicy
      BY <1>t, <2>2, <3>2, DefinedFields DEF PutPolicy
    <3> QED
      BY <1>16, <3>1, <3>2
  <2> QED
    BY <1>t, <1>m, <1>16, <2>1, <2>2, <2>3 DEF DeletePolicy, PutPolicy, RoleCalls
<1>17. ASSUME NEW p \in Inline, DefinePolicy(p) PROVE Typed
  <2>1. setup' \in SetupState /\ setup'.next \in {"read", "put"} /\ setup'.policy = p
    BY <1>t, <1>17 DEF DefinePolicy, SetupState
  <2> QED
    BY <1>t, <1>m, <1>17, <2>1 DEF DefinePolicy
<1>18. ASSUME NEW p \in Inline, RemovePolicy(p) PROVE Typed
  <2>1. setup' \in SetupState /\ setup'.next \in {"remove", "failed"}
    <3> DEFINE T == setup.todo \ {p}
    <3>1. T \in SUBSET (Managed \cup Inline)
      BY <1>t, SetupFields
    <3>2. ASSUME setup' = [setup EXCEPT !.todo = T]
          PROVE  setup' \in SetupState /\ setup'.next = setup.next
      BY <1>t, <3>1, <3>2 DEF SetupState
    <3> QED
      BY <1>t, <1>18, <3>2, StepFields DEF RemovePolicy, RoleCalls, SetupGoes
  <2>2. role' \in RoleState
    BY <1>t, <1>18, DefinedFields DEF RemovePolicy
  <2> QED
    BY <1>t, <1>m, <1>18, <2>1, <2>2 DEF RemovePolicy, RoleCalls
<1> QED
  BY <1>1, <1>2, <1>3, <1>4, <1>5, <1>6, <1>7, <1>8, <1>10, <1>11, <1>12, <1>13, <1>14,
     <1>15, <1>16, <1>17, <1>18 DEF RoleNext

-----------------------------------------------------------------------------
(* What every step does, of the fields of the setup and of the role.       *)

SetupKeeps == setup'.listed = setup.listed /\ setup'.policy = setup.policy /\ setup'.guessed = setup.guessed
Asks == UNCHANGED <<wanted, hadInline>>
RoleKeeps == role'.attached = role.attached /\ role'.defined = role.defined

\* The setup goes on with what is left to do, or it failed.
Continues(from, to, left) ==
    /\ Asks /\ setup.next = from /\ SetupKeeps
    /\ setup'.next = "failed" \/ (setup'.next = to /\ setup'.todo = left)

LEMMA CallGoesOn ==
    ASSUME setup \in SetupState, Asks, NEW from, NEW to \in RoleStep, RoleCalls(from, ToStep(setup, to))
    PROVE  Continues(from, to, setup.todo)
  BY DEF RoleStep, Continues, RoleCalls, SetupGoes, ToStep, SetupState, SetupKeeps

LEMMA CallDoes ==
    ASSUME setup \in SetupState, Asks, NEW from, NEW p \in setup.todo,
           RoleCalls(from, [setup EXCEPT !.todo = @ \ {p}])
    PROVE  Continues(from, from, setup.todo \ {p})
<1>1. setup.next = from
  BY DEF RoleCalls
<1>2. CASE setup' = [setup EXCEPT !.todo = @ \ {p}]
  BY <1>1, <1>2 DEF Continues, SetupState, SetupKeeps
<1>3. CASE setup' = ToStep(setup, "failed")
  BY <1>1, <1>3 DEF Continues, SetupState, SetupKeeps, ToStep
<1> QED
  BY <1>2, <1>3 DEF RoleCalls, SetupGoes

LEMMA ListingDoes ==
    ASSUME setup \in SetupState, NEW from, NEW next, NEW asked, NEW present,
           RoleLists(from, next, asked, present)
    PROVE  /\ Asks /\ UNCHANGED role /\ setup.next = from /\ setup'.next = next /\ setup'.todo = asked
           /\ setup'.policy = setup.policy
           /\ \/ setup'.listed = present /\ setup'.guessed = setup.guessed
              \/ setup'.guessed
  BY DEF RoleLists, SetupState, Asks

\* The policy in hand changes.
LEMMA PolicyBecomes ==
    ASSUME role \in RoleState, NEW p \in Inline, NEW d \in Document \cup {NoDocument},
           role' = [role EXCEPT !.defined[p] = d]
    PROVE  /\ role'.attached = role.attached
           /\ \A q \in Inline : role'.defined[q] = IF q = p THEN d ELSE role.defined[q]
           /\ Present' = IF d = NoDocument THEN Present \ {p} ELSE Present \cup {p}
<1> DEFINE e == [role.defined EXCEPT ![p] = d]
<1>1. role.defined \in Policies
  BY RoleFields
<1>2. e \in Policies /\ \A q \in Inline : e[q] = IF q = p THEN d ELSE role.defined[q]
  BY <1>1 DEF Policies
<1>3. NamesOf(e) = IF d = NoDocument THEN NamesOf(role.defined) \ {p}
                   ELSE NamesOf(role.defined) \cup {p}
  BY <1>2 DEF NamesOf
<1>4. role' = [role EXCEPT !.defined = e]
  BY DEF RoleState
<1> HIDE DEF e
<1>5. role'.attached = role.attached /\ role'.defined = e
  BY <1>2, <1>4 DEF RoleState
<1> QED
  BY <1>2, <1>3, <1>5 DEF Present

-----------------------------------------------------------------------------
(* The phases of a setup.                                                  *)

LEMMA RoleNextPhases ==
    ASSUME RoleTypeInv, AttachedInv, DefinedInv, RoleNext
    PROVE  AttachedInv' /\ DefinedInv'
<1>t. /\ wanted \in WantedState /\ role \in RoleState /\ setup \in SetupState
      /\ setups.made = 0 => setup.next = "rest" /\ hadInline = {}
      /\ setup.next \in {"read", "delete", "put"} => setup.policy \in Inline
      /\ role.attached \subseteq Managed /\ Names \subseteq Inline
      /\ \A p \in Inline : p \in Names <=> wanted.define[p] # NoDocument
      /\ wanted.define = Undefined <=> Names = {}
      /\ wanted.define \in Policies
  BY RoleTypes, RoleFields, WantedFields DEF RoleTypeInv
<1>n. Asks => Names' = Names
  BY DEF Asks, Names
<1>k. RoleKeeps => Present' = Present
  BY DEF RoleKeeps, Present
<1> DEFINE Goal == AttachedInv' /\ DefinedInv'
<1> SUFFICES Goal
  OBVIOUS
\* A step that leaves the role as it is, and goes to another call of its kind.
<1>0. ASSUME RoleKeeps, Asks, SetupKeeps,
             setup'.next \in {"failed", "get", "create", "again", "trust", "attached"}
      PROVE  Goal
  BY <1>0, <1>n, <1>k DEF AttachedInv, DefinedInv, SetupKeeps, Asks
<1>1. CASE OthersMakeRole
  <2>1. setup.next = "rest" /\ hadInline = {} /\ UNCHANGED <<wanted, setup, hadInline>>
    BY <1>t, <1>1 DEF OthersMakeRole
  <2> QED
    BY <2>1 DEF AttachedInv, DefinedInv
<1>2. CASE AskSetup
  <2>1. setup'.next = "get"
    BY <1>2 DEF AskSetup, NoSetup
  <2> QED
    BY <2>1 DEF AttachedInv, DefinedInv
<1>3. CASE SetupFails \/ RoleTaken
  <2>1. RoleKeeps /\ Asks /\ SetupKeeps /\ setup'.next = "failed"
    BY <1>t, <1>3 DEF SetupFails, RoleTaken, SetupGoes, ToStep, SetupState, RoleKeeps, Asks, SetupKeeps
  <2> QED
    BY <1>0, <2>1
<1>4. CASE GetRole
  <2>1. /\ RoleKeeps /\ Asks /\ SetupKeeps /\ setup.next = "get"
        /\ setup'.next \in {"trust", "create"}
    BY <1>t, <1>4 DEF GetRole, SetupGoes, ToStep, SetupState, RoleKeeps, Asks, SetupKeeps
  <2> QED
    BY <1>0, <2>1
<1>5. CASE CreateRole
  <2>1. Asks /\ SetupKeeps /\ setup.next = "create" /\ setup'.next \in {"again", "failed"}
    BY <1>t, <1>5 DEF CreateRole, RoleCalls, SetupGoes, ToStep, SetupState, Asks, SetupKeeps
  <2>2. RoleKeeps
    BY <1>t, <1>5 DEF CreateRole, RoleState, RoleKeeps
  <2> QED
    BY <1>0, <2>1, <2>2
<1>6. CASE GetRoleAgain
  <2>1. /\ RoleKeeps /\ Asks /\ SetupKeeps /\ setup.next = "again" /\ setup'.next = "trust"
    BY <1>t, <1>6 DEF GetRoleAgain, SetupGoes, ToStep, SetupState, RoleKeeps, Asks, SetupKeeps
  <2> QED
    BY <1>0, <2>1
\* What is asked of the first kind is done, and that of the other comes next.
<1>7. ASSUME RoleKeeps, Asks, SetupKeeps, setup'.next = AfterAttach,
             wanted.attach \subseteq role.attached,
             ~setup.guessed /\ wanted.attach # {} => role.attached = wanted.attach,
             setup.next \in {"trust", "detach"}
      PROVE  Goal
  BY <1>t, <1>7, <1>n, <1>k DEF AfterAttach, AttachedInv, DefinedInv, SetupKeeps, RoleKeeps, Asks
<1>8. CASE UpdateTrust
  <2>1. RoleKeeps /\ Asks /\ SetupKeeps /\ setup.next = "trust"
    BY <1>t, <1>8 DEF UpdateTrust, RoleCalls, SetupGoes, ToStep, SetupState, RoleKeeps, Asks, SetupKeeps
  <2>2. \/ setup'.next \in {"attached", "failed"}
        \/ setup'.next = AfterAttach /\ wanted.attach = {}
    BY <1>t, <1>8 DEF UpdateTrust, RoleCalls, SetupGoes, ToStep, SetupState
  <2> QED
    BY <1>0, <1>7, <2>1, <2>2
<1>9. CASE ListAttached
  <2>1. /\ Asks /\ UNCHANGED role /\ setup.next = "attached" /\ setup'.next = "attach"
        /\ setup'.todo = wanted.attach /\ setup'.policy = setup.policy
        /\ (setup'.listed = role.attached /\ setup'.guessed = setup.guessed)
              \/ (setup'.guessed /\ setup'.listed = {})
    BY <1>t, <1>9 DEF ListAttached, RoleLists, Asks, SetupState
  <2> QED
    BY <1>n, <2>1 DEF AttachedInv, DefinedInv, Asks, Present
<1>10. ASSUME NEW p \in Managed, AttachPolicy(p) PROVE Goal
  <2>1. Asks
    BY <1>10 DEF AttachPolicy, Asks
  <2>2. Continues("attach", "attach", setup.todo \ {p})
    BY <1>t, <1>10, <2>1, CallDoes DEF AttachPolicy
  <2>3. role'.attached = role.attached \cup {p} /\ role'.defined = role.defined
    BY <1>t, <1>10 DEF AttachPolicy, RoleState
  <2>4. p \in wanted.attach
    BY <1>10, <2>2 DEF AttachPolicy, AttachedInv, Continues
  <2> QED
    BY <1>n, <2>2, <2>3, <2>4 DEF AttachedInv, DefinedInv, Asks, Present, Continues, SetupKeeps
<1>11. CASE EndAttach
  <2>1. /\ Asks /\ RoleKeeps /\ SetupKeeps /\ setup.next = "attach" /\ setup'.next = "detach"
        /\ setup'.todo = setup.listed \ wanted.attach /\ setup.todo \subseteq setup.listed
    BY <1>t, <1>11 DEF EndAttach, Asks, RoleKeeps, SetupKeeps, SetupState
  <2> QED
    BY <1>n, <1>k, <2>1 DEF AttachedInv, DefinedInv, Asks, RoleKeeps, SetupKeeps
<1>12. ASSUME NEW p \in Managed, DetachPolicy(p) PROVE Goal
  <2>1. Asks
    BY <1>12 DEF DetachPolicy, Asks
  <2>2. Continues("detach", "detach", setup.todo \ {p}) /\ p \in setup.todo
    BY <1>t, <1>12, <2>1, CallDoes DEF DetachPolicy
  <2>3. role'.attached = role.attached \ {p} /\ role'.defined = role.defined
    BY <1>t, <1>12 DEF DetachPolicy, RoleState
  <2> QED
    BY <1>n, <2>2, <2>3 DEF AttachedInv, DefinedInv, Asks, Present, Continues, SetupKeeps
<1>13. CASE EndDetach
  <2>1. /\ Asks /\ RoleKeeps /\ SetupKeeps /\ setup.next = "detach" /\ setup'.next = AfterAttach
        /\ setup.todo = {}
    BY <1>t, <1>13 DEF EndDetach, SetupGoes, ToStep, Asks, RoleKeeps, SetupKeeps, SetupState
  <2> QED
    BY <1>7, <2>1 DEF AttachedInv
<1>14. CASE ListDefined
  <2>1. /\ Asks /\ UNCHANGED role /\ setup.next = "defined" /\ setup'.next = "define"
        /\ setup'.todo = Names /\ setup'.policy = setup.policy
        /\ (setup'.listed = Present /\ setup'.guessed = setup.guessed) \/ setup'.guessed
    BY <1>t, <1>14 DEF ListDefined, RoleLists, Asks, SetupState, Names, Present
  <2> QED
    BY <1>n, <2>1 DEF AttachedInv, DefinedInv, Asks, Present
<1>15. ASSUME NEW p \in Inline, DefinePolicy(p) PROVE Goal
  <2>1. /\ Asks /\ RoleKeeps /\ setup.next = "define" /\ setup'.next \in {"read", "put"}
        /\ p \in setup.todo /\ setup'.todo = setup.todo \ {p} /\ setup'.policy = p
        /\ setup'.listed = setup.listed /\ setup'.guessed = setup.guessed
    BY <1>t, <1>15 DEF DefinePolicy, Asks, RoleKeeps, SetupState
  <2> QED
    BY <1>n, <1>k, <2>1 DEF AttachedInv, DefinedInv, Asks, RoleKeeps
<1>16. CASE ReadPolicy
  <2>1. /\ Asks /\ RoleKeeps /\ SetupKeeps /\ setup.next = "read" /\ setup'.todo = setup.todo
        /\ \/ setup'.next = "delete"
           \/ setup'.next = "define" /\ role.defined[setup.policy] = wanted.define[setup.policy]
    BY <1>t, <1>16 DEF ReadPolicy, SetupGoes, ToStep, Asks, RoleKeeps, SetupKeeps, SetupState
  <2> QED
    BY <1>n, <1>k, <2>1 DEF AttachedInv, DefinedInv, Asks, RoleKeeps, SetupKeeps
<1>17. CASE DeletePolicy
  <2>1. Asks
    BY <1>17 DEF DeletePolicy, Asks
  <2>2. Continues("delete", "put", setup.todo)
    BY <1>t, <1>17, <2>1, CallGoesOn DEF DeletePolicy, RoleStep
  <2>3. setup.policy \in Inline
    BY <1>t, <2>2 DEF Continues
  <2>4. /\ role'.attached = role.attached /\ Present' = Present \ {setup.policy}
        /\ \A q \in Inline : q # setup.policy => role'.defined[q] = role.defined[q]
    BY <1>t, <1>17, <2>3, PolicyBecomes DEF DeletePolicy
  <2> QED
    BY <1>t, <1>n, <2>2, <2>3, <2>4 DEF AttachedInv, DefinedInv, Asks, Continues, SetupKeeps
<1>18. CASE PutPolicy
  <2>1. Asks
    BY <1>18 DEF PutPolicy, Asks
  <2>2. Continues("put", "define", setup.todo)
    BY <1>t, <1>18, <2>1, CallGoesOn DEF PutPolicy, RoleStep
  <2>3. /\ setup.policy \in Inline /\ setup.policy \in Names
        /\ wanted.define[setup.policy] \in Document \cup {NoDocument}
        /\ wanted.define[setup.policy] # NoDocument
    BY <1>t, <2>2 DEF Continues, DefinedInv, Policies
  <2>4. /\ role'.attached = role.attached /\ Present' = Present \cup {setup.policy}
        /\ \A q \in Inline : role'.defined[q] = IF q = setup.policy THEN wanted.define[q]
                                                 ELSE role.defined[q]
    BY <1>t, <1>18, <2>3, PolicyBecomes DEF PutPolicy
  <2> QED
    BY <1>t, <1>n, <2>2, <2>3, <2>4 DEF AttachedInv, DefinedInv, Asks, Continues, SetupKeeps
<1>19. CASE EndDefine
  <2>1. /\ Asks /\ RoleKeeps /\ SetupKeeps /\ setup.next = "define" /\ setup'.next = "remove"
        /\ setup'.todo = setup.listed \ Names /\ setup.todo = {}
    BY <1>t, <1>19 DEF EndDefine, Asks, RoleKeeps, SetupKeeps, SetupState, Names
  <2> QED
    BY <1>n, <1>k, <2>1 DEF AttachedInv, DefinedInv, Asks, RoleKeeps, SetupKeeps
<1>20. ASSUME NEW p \in Inline, RemovePolicy(p) PROVE Goal
  <2>1. Asks
    BY <1>20 DEF RemovePolicy, Asks
  <2>2. Continues("remove", "remove", setup.todo \ {p}) /\ p \in setup.todo
    BY <1>t, <1>20, <2>1, CallDoes DEF RemovePolicy
  <2>3. /\ role'.attached = role.attached /\ Present' = Present \ {p}
        /\ \A q \in Inline : q # p => role'.defined[q] = role.defined[q]
    BY <1>t, <1>20, PolicyBecomes DEF RemovePolicy
  <2>4. p \notin Names
    BY <2>2 DEF Continues, DefinedInv
  <2> QED
    BY <1>t, <1>n, <2>2, <2>3, <2>4 DEF AttachedInv, DefinedInv, Asks, Continues, SetupKeeps
<1>21. CASE EndRemove
  <2>1. /\ Asks /\ RoleKeeps /\ SetupKeeps /\ setup.next = "remove" /\ setup'.next = "ready"
        /\ setup.todo = {}
    BY <1>t, <1>21 DEF EndRemove, SetupGoes, ToStep, Asks, RoleKeeps, SetupKeeps, SetupState
  <2> QED
    BY <1>n, <1>k, <2>1 DEF AttachedInv, DefinedInv, Asks, RoleKeeps, SetupKeeps
<1> QED
  BY <1>1, <1>2, <1>3, <1>4, <1>5, <1>6, <1>8, <1>9, <1>10, <1>11, <1>12, <1>13, <1>14, <1>15,
     <1>16, <1>17, <1>18, <1>19, <1>20, <1>21 DEF RoleNext

-----------------------------------------------------------------------------
(* What is missing, over all the set-ups so far.                           *)

LEMMA MissingCounts ==
    ASSUME RoleTypeInv, NEW S, S \subseteq hadInline
    PROVE  /\ IsFiniteSet(S) /\ Cardinality(S) \in Nat
           /\ \A T : T \subseteq S => Cardinality(T) <= Cardinality(S)
           /\ \A p : Cardinality(S) <= Cardinality(S \ {p}) + 1
<1>1. IsFiniteSet(S)
  BY RoleAssumption, FS_Subset DEF RoleTypeInv, RoleTypeOK
<1>2. Cardinality(S) \in Nat
  BY <1>1, FS_CardinalityType
<1>3. \A T : T \subseteq S => Cardinality(T) <= Cardinality(S)
  BY <1>1, FS_Subset
<1>4. ASSUME NEW p PROVE Cardinality(S) <= Cardinality(S \ {p}) + 1
  <2>1. Cardinality(S \ {p}) = IF p \in S THEN Cardinality(S) - 1 ELSE Cardinality(S)
    BY <1>1, FS_RemoveElement
  <2> QED
    BY <1>2, <2>1
<1> QED
  BY <1>1, <1>2, <1>3, <1>4

\* A step of a set-up that has nothing in hand, and deletes nothing of what was there.
LEMMA MissingStays ==
    ASSUME RoleTypeInv, MissingInv, Asks, setups'.failed = setups.failed,
           setup.next \notin {"put", "failed"}, Missing' \subseteq Missing,
           setup'.next \in Defining => setup.next \in Defining \/ Names # {}
    PROVE  MissingInv'
<1>1. Names' = Names /\ hadInline' = hadInline /\ Missing \subseteq hadInline
  BY DEF Asks, Names, Missing
<1>2. setups.failed \in Nat /\ Cardinality(Missing) <= setups.failed
  BY RoleAssumption DEF RoleTypeInv, RoleTypeOK, MissingInv
<1>3. PICK M, N, P : M = Missing /\ N = Missing' /\ P = Missing' \ {setup'.policy}
  OBVIOUS
<1>4. N \subseteq M /\ P \subseteq M
  BY <1>3
<1>5. Cardinality(M) \in Nat /\ Cardinality(N) <= Cardinality(M) /\ Cardinality(P) <= Cardinality(M)
  BY <1>1, <1>3, <1>4, MissingCounts
<1>6. Cardinality(N) \in Nat /\ Cardinality(P) \in Nat
  <2>1. N \subseteq hadInline /\ P \subseteq hadInline
    BY <1>1, <1>3, <1>4
  <2> QED
    BY <2>1, MissingCounts
<1>7. Cardinality(N) <= setups.failed /\ Cardinality(P) <= setups.failed
  BY <1>2, <1>3, <1>5, <1>6
<1> QED
  BY <1>1, <1>2, <1>3, <1>6, <1>7 DEF MissingInv

LEMMA RoleNextMissing ==
    ASSUME RoleTypeInv, RoleTypeInv', DefinedInv, MissingInv, RoleNext
    PROVE  MissingInv'
<1>t. /\ wanted \in WantedState /\ role \in RoleState /\ setup \in SetupState /\ setups \in SetupsState
      /\ setups.made = 0 => setup.next = "rest" /\ hadInline = {}
      /\ setup.next \in {"read", "delete", "put"} => setup.policy \in Inline
      /\ wanted.define = Undefined <=> Names = {}
      /\ wanted.define \in Policies /\ setups.failed \in Nat
  BY RoleTypes, WantedFields, RoleAssumption DEF RoleTypeInv, SetupsState
<1>m. /\ IsFiniteSet(Missing) /\ Cardinality(Missing) \in Nat
      /\ \A T : T \subseteq Missing => Cardinality(T) <= Cardinality(Missing)
      /\ \A p : Cardinality(Missing) <= Cardinality(Missing \ {p}) + 1
      /\ \A T : T \subseteq hadInline => Cardinality(T) \in Nat
  <2>1. Missing \subseteq hadInline
    BY DEF Missing
  <2> QED
    BY <2>1, MissingCounts
<1>n. Asks => Names' = Names /\ hadInline' = hadInline
  BY DEF Asks, Names
<1>e. setups' = setups \/ RoleError => setups'.failed = setups.failed
  BY <1>t, RoleErrors
\* What leaves the inline policies as they are.
<1>q. ASSUME Asks, setups' = setups \/ RoleError, setup.next \notin {"put", "failed"},
             role'.defined = role.defined,
             setup'.next \in Defining => setup.next \in Defining \/ Names # {}
      PROVE  MissingInv'
  <2>1. Missing' = Missing
    BY <1>q DEF Missing, Present, Asks
  <2> QED
    BY <1>e, <1>q, <2>1, MissingStays
<1>1. CASE OthersMakeRole
  <2>1. setup.next = "rest" /\ hadInline = {} /\ UNCHANGED <<wanted, setup, setups, hadInline>>
    BY <1>t, <1>1 DEF OthersMakeRole
  <2>2. Missing' = {} /\ Missing = {} /\ Asks /\ setup'.next \notin Defining
    BY <2>1 DEF Missing, Asks, Defining
  <2> QED
    BY <2>1, <2>2, MissingStays
<1>2. CASE AskSetup
  <2>1. /\ setup'.next = "get" /\ UNCHANGED role /\ Present' = Present
        /\ setups'.failed = FailedSoFar
        /\ hadInline' = IF Names' = {} THEN hadInline ELSE (hadInline \cup Present) \cap Names'
        /\ setup.next \in {"rest", "ready", "failed"}
    <3>1. wanted' \in WantedState
      BY RoleTypes DEF RoleTypeInv
    <3>2. wanted'.define = Undefined <=> Names' = {}
      BY <3>1, PolicyNames DEF WantedState, Names
    <3> QED
      BY <1>t, <1>2, <3>2 DEF AskSetup, NoSetup, Present, Names, SetupsState
  <2>2. Missing' \subseteq Missing /\ (Names' # {} => hadInline' \subseteq Names')
    BY <2>1 DEF Missing
  <2>3. Cardinality(Missing) <= FailedSoFar
    <3>1. CASE setup.next = "ready" /\ wanted.define # Undefined
      <4>1. hadInline \subseteq Names /\ Names \subseteq Present
        BY <1>t, <3>1 DEF MissingInv, DefinedInv, Names, Present, NamesOf
      <4>2. Missing = {} /\ FailedSoFar = 0
        BY <3>1, <4>1 DEF Missing, FailedSoFar
      <4> QED
        BY <4>2, FS_EmptySet
    <3>2. CASE setup.next = "failed"
      BY <3>2 DEF MissingInv, FailedSoFar
    <3>3. CASE setup.next # "failed" /\ ~(setup.next = "ready" /\ wanted.define # Undefined)
      BY <2>1, <3>3 DEF MissingInv, FailedSoFar
    <3> QED
      BY <3>1, <3>2, <3>3
  <2>4. PICK N : N = Missing'
    OBVIOUS
  <2>5. N \subseteq Missing /\ N \subseteq hadInline
    BY <2>2, <2>4 DEF Missing
  <2>6. Cardinality(N) <= FailedSoFar
    <3>1. FailedSoFar \in Nat
      BY <1>t DEF FailedSoFar
    <3> QED
      BY <1>m, <2>3, <2>5, <3>1
  <2> QED
    BY <2>1, <2>2, <2>4, <2>6 DEF MissingInv, Defining
<1>3. CASE SetupFails
  <2>1. Asks /\ UNCHANGED role /\ RoleError /\ setup'.next = "failed" /\ setup.next # "failed"
    BY <1>t, <1>3 DEF SetupFails, SetupGoes, ToStep, SetupState, Asks
  <2>2. CASE setup.next # "put"
    BY <1>q, <2>1, <2>2 DEF Defining
  <2>3. CASE setup.next = "put"
    <3>1. Missing' = Missing /\ setups'.failed = setups.failed
      BY <1>e, <2>1 DEF Missing, Present, Asks
    <3>2. PICK P : P = Missing \ {setup.policy}
      OBVIOUS
    <3>3. Cardinality(P) <= setups.failed /\ Cardinality(P) \in Nat
          /\ Cardinality(Missing) <= Cardinality(P) + 1
      BY <1>m, <2>3, <3>2 DEF MissingInv, Missing
    <3>4. Cardinality(Missing) <= setups.failed + 1
      BY <1>t, <1>m, <3>3
    <3> QED
      BY <1>n, <2>1, <3>1, <3>4 DEF MissingInv, Defining
  <2> QED
    BY <2>2, <2>3
<1>4. CASE GetRole \/ RoleTaken \/ GetRoleAgain
  <2>1. /\ Asks /\ UNCHANGED role /\ (setups' = setups \/ RoleError)
        /\ setup.next \notin {"put", "failed"} /\ setup'.next \in {"failed", "trust", "create"}
    BY <1>t, <1>4 DEF GetRole, RoleTaken, GetRoleAgain, SetupGoes, ToStep, SetupState, Asks
  <2> QED
    BY <1>q, <2>1 DEF Defining
<1>5. CASE CreateRole
  <2>1. /\ Asks /\ role'.defined = role.defined /\ (setups' = setups \/ RoleError)
        /\ setup.next = "create" /\ setup'.next \in {"failed", "again"}
    BY <1>t, <1>5 DEF CreateRole, RoleCalls, SetupGoes, ToStep, SetupState, RoleState, Asks
  <2> QED
    BY <1>q, <2>1 DEF Defining
<1>6. CASE UpdateTrust \/ EndDetach
  <2>1. /\ Asks /\ UNCHANGED role /\ (setups' = setups \/ RoleError)
        /\ setup.next \in {"trust", "detach"}
        /\ setup'.next \in {"failed", "attached", AfterAttach}
    BY <1>t, <1>6 DEF UpdateTrust, EndDetach, RoleCalls, SetupGoes, ToStep, SetupState, Asks
  <2>2. setup'.next \in Defining => Names # {}
    BY <1>t, <2>1 DEF AfterAttach, Defining
  <2> QED
    BY <1>q, <2>1, <2>2
<1>7. CASE ListAttached \/ EndAttach
  <2>1. /\ Asks /\ UNCHANGED role /\ (setups' = setups \/ RoleError)
        /\ setup.next \in {"attached", "attach"} /\ setup'.next \in {"attach", "detach"}
    BY <1>t, <1>7 DEF ListAttached, RoleLists, EndAttach, SetupState, Asks
  <2> QED
    BY <1>q, <2>1 DEF Defining
<1>8. ASSUME NEW p \in Managed, AttachPolicy(p) \/ DetachPolicy(p) PROVE MissingInv'
  <2>1. Asks /\ (setups' = setups \/ RoleError)
    BY <1>8 DEF AttachPolicy, DetachPolicy, RoleCalls, Asks
  <2>2. \E next \in {"attach", "detach"} : Continues(next, next, setup.todo \ {p})
    <3>1. CASE AttachPolicy(p)
      <4>1. Continues("attach", "attach", setup.todo \ {p})
        BY <1>t, <2>1, <3>1, CallDoes DEF AttachPolicy
      <4> QED
        BY <4>1
    <3>2. CASE DetachPolicy(p)
      <4>1. Continues("detach", "detach", setup.todo \ {p})
        BY <1>t, <2>1, <3>2, CallDoes DEF DetachPolicy
      <4> QED
        BY <4>1
    <3> QED
      BY <1>8, <3>1, <3>2
  <2>3. role'.defined = role.defined
    BY <1>t, <1>8 DEF AttachPolicy, DetachPolicy, RoleState
  <2>4. setup.next \in {"attach", "detach"} /\ setup'.next \in {"attach", "detach", "failed"}
    BY <2>2 DEF Continues
  <2> QED
    BY <1>q, <2>1, <2>3, <2>4 DEF Defining
<1>9. CASE ListDefined \/ EndDefine \/ EndRemove \/ ReadPolicy
  <2>1. /\ Asks /\ UNCHANGED role /\ (setups' = setups \/ RoleError)
        /\ setup.next \in {"defined", "define", "remove", "read"}
    BY <1>t, <1>9 DEF ListDefined, RoleLists, EndDefine, EndRemove, ReadPolicy, Asks
  <2> QED
    BY <1>q, <2>1 DEF Defining
<1>10. ASSUME NEW p \in Inline, DefinePolicy(p) PROVE MissingInv'
  <2>1. Asks /\ UNCHANGED role /\ setups' = setups /\ setup.next = "define"
    BY <1>10 DEF DefinePolicy, Asks
  <2> QED
    BY <1>q, <2>1 DEF Defining
<1>11. CASE DeletePolicy
  <2>1. Asks /\ (setups' = setups \/ RoleError)
    BY <1>11 DEF DeletePolicy, RoleCalls, Asks
  <2>2. Continues("delete", "put", setup.todo)
    BY <1>t, <1>11, <2>1, CallGoesOn DEF DeletePolicy, RoleStep
  <2>3. setup.next = "delete" /\ setup'.next \in {"put", "failed"} /\ setup'.policy = setup.policy
    BY <2>2 DEF Continues, SetupKeeps
  <2>4. Present' = Present \ {setup.policy}
    BY <1>t, <1>11, <2>3, PolicyBecomes DEF DeletePolicy
  <2>5. PICK N, P : N = Missing' /\ P = N \ {setup.policy}
    OBVIOUS
  <2>6. P \subseteq Missing /\ N \subseteq hadInline
    BY <1>n, <2>1, <2>4, <2>5 DEF Missing
  <2>7. Cardinality(N) <= Cardinality(P) + 1 /\ Cardinality(P) <= Cardinality(Missing)
        /\ Cardinality(N) \in Nat /\ Cardinality(P) \in Nat
    <3>1. Cardinality(N) <= Cardinality(P) + 1
      BY <2>5, <2>6, MissingCounts
    <3> QED
      BY <1>m, <2>5, <2>6, <3>1
  <2>8. Cardinality(Missing) <= setups.failed /\ setups'.failed = setups.failed
    BY <1>e, <2>1, <2>3 DEF MissingInv
  <2>9. Cardinality(P) <= setups.failed /\ Cardinality(N) <= setups.failed + 1
    BY <1>t, <1>m, <2>7, <2>8
  <2> QED
    BY <1>n, <2>1, <2>3, <2>5, <2>8, <2>9 DEF MissingInv, Defining
<1>12. CASE PutPolicy
  <2>1. Asks /\ (setups' = setups \/ RoleError)
    BY <1>12 DEF PutPolicy, RoleCalls, Asks
  <2>2. Continues("put", "define", setup.todo)
    BY <1>t, <1>12, <2>1, CallGoesOn DEF PutPolicy, RoleStep
  <2>3. setup.next = "put" /\ setup'.next \in {"define", "failed"} /\ setup.policy \in Inline
    BY <1>t, <2>2 DEF Continues
  <2>4. /\ wanted.define[setup.policy] \in Document \cup {NoDocument}
        /\ wanted.define[setup.policy] # NoDocument
    BY <1>t, <2>3 DEF DefinedInv, Policies, Names, NamesOf
  <2>5. Present' = Present \cup {setup.policy}
    BY <1>t, <1>12, <2>3, <2>4, PolicyBecomes DEF PutPolicy
  <2>6. PICK P : P = Missing \ {setup.policy}
    OBVIOUS
  <2>7. Missing' = P /\ P \subseteq hadInline
    BY <1>n, <2>1, <2>5, <2>6 DEF Missing
  <2>8. Cardinality(P) <= setups.failed /\ Cardinality(P) \in Nat /\ setups'.failed = setups.failed
    BY <1>e, <1>m, <2>1, <2>3, <2>6, <2>7 DEF MissingInv
  <2>9. Cardinality(Missing') <= setups'.failed /\ Cardinality(Missing') <= setups'.failed + 1
    BY <1>t, <2>7, <2>8
  <2> QED
    BY <1>n, <2>1, <2>3, <2>9 DEF MissingInv, Defining
<1>13. ASSUME NEW p \in Inline, RemovePolicy(p) PROVE MissingInv'
  <2>1. Asks /\ (setups' = setups \/ RoleError)
    BY <1>13 DEF RemovePolicy, RoleCalls, Asks
  <2>2. Continues("remove", "remove", setup.todo \ {p}) /\ p \in setup.todo
    BY <1>t, <1>13, <2>1, CallDoes DEF RemovePolicy
  <2>3. setup.next = "remove" /\ p \notin Names /\ hadInline \subseteq Names
    BY <2>2 DEF Continues, DefinedInv, MissingInv, Defining
  <2>4. Present' = Present \ {p}
    BY <1>t, <1>13, PolicyBecomes DEF RemovePolicy
  <2>5. Missing' \subseteq Missing
    BY <1>n, <2>1, <2>3, <2>4 DEF Missing
  <2> QED
    BY <1>e, <2>1, <2>3, <2>5, MissingStays DEF Defining
<1> QED
  BY <1>1, <1>2, <1>3, <1>4, <1>5, <1>6, <1>7, <1>8, <1>9, <1>10, <1>11, <1>12, <1>13 DEF RoleNext

LEMMA RoleInductive == RoleIInv /\ [RoleNext]_roleVars => RoleIInv'
<1> SUFFICES ASSUME RoleIInv, [RoleNext]_roleVars PROVE RoleIInv'
  OBVIOUS
<1>1. CASE RoleNext
  <2>1. RoleTypeInv' /\ AttachedInv' /\ DefinedInv'
    BY <1>1, RoleNextType, RoleNextPhases DEF RoleIInv
  <2>2. MissingInv'
    BY <1>1, <2>1, RoleNextMissing DEF RoleIInv
  <2> QED
    BY <2>1, <2>2 DEF RoleIInv
<1>2. CASE UNCHANGED roleVars
  BY <1>2 DEF roleVars, RoleIInv, RoleTypeInv, RoleTypeOK, AttachedInv, DefinedInv, MissingInv,
     Missing, Names, Present
<1> QED
  BY <1>1, <1>2

LEMMA RoleIInvHolds == RoleSpec => []RoleIInv
  BY RoleInitIInv, RoleInductive, PTL DEF RoleSpec

\* Every variable of a setup keeps its type, for any policies and documents.
THEOREM RoleTypeCorrect == RoleSpec => []RoleTypeOK
<1>1. RoleIInv => RoleTypeOK
  BY DEF RoleIInv, RoleTypeInv
<1> QED
  BY <1>1, RoleIInvHolds, PTL

\* A setup that succeeds leaves the role with the policies it was asked for and no
\* others, whatever failed in those before it (setupRole, setupRolePolicy).
THEOREM RoleAsAskedHolds == RoleSpec => []RoleAsAsked
<1>1. RoleIInv => RoleAsAsked
  <2> SUFFICES ASSUME RoleIInv, setup.next = "ready" PROVE RoleAsAsked
    BY DEF RoleAsAsked
  <2>1. /\ wanted \in WantedState /\ role.defined \in Policies /\ wanted.define \in Policies
    BY RoleTypes, RoleFields, WantedFields DEF RoleIInv, RoleTypeInv
  <2>2. AttachedInv /\ DefinedInv
    BY DEF RoleIInv
  <2>3. /\ wanted.attach \subseteq role.attached
        /\ \A p \in Names : role.defined[p] = wanted.define[p]
        /\ ~setup.guessed /\ wanted.attach # {} => role.attached = wanted.attach
    BY <2>2 DEF AttachedInv, DefinedInv
  <2>4. ASSUME ~setup.guessed, wanted.define # Undefined
        PROVE  role.defined = wanted.define
    <3>1. \A p \in Inline : role.defined[p] = wanted.define[p]
      BY <2>1, <2>2, <2>4 DEF DefinedInv, Names, Present, NamesOf
    <3> QED
      BY <2>1, <3>1 DEF Policies
  <2> QED
    BY <2>3, <2>4 DEF RoleAsAsked, Names
<1> QED
  BY <1>1, RoleIInvHolds, PTL

\* At no time does the role lack more of the policies that it had and is asked for
\* ever since than the set-ups that failed, and one more while a set-up has deleted
\* a policy that it is to put: for any number of policies, set-ups and failures, and
\* however often a set-up is made again (setupRolePolicy, iam/service.go).
THEOREM OneLostEachHolds == RoleSpec => []OneLostEach
<1>1. RoleIInv => OneLostEach
  <2> SUFFICES ASSUME RoleIInv PROVE OneLostEach
    OBVIOUS
  <2>1. RoleTypeInv /\ MissingInv /\ Missing \subseteq hadInline
    BY DEF RoleIInv, Missing
  <2>2. /\ Cardinality(Missing) \in Nat
        /\ Cardinality(Missing) <= Cardinality(Missing \ {setup.policy}) + 1
        /\ Cardinality(Missing \ {setup.policy}) \in Nat
    <3>1. Missing \ {setup.policy} \subseteq hadInline
      BY <2>1
    <3> QED
      BY <2>1, <3>1, MissingCounts
  <2>3. setups.failed \in Nat
    BY RoleAssumption DEF RoleIInv, RoleTypeInv, RoleTypeOK
  <2>4. Cardinality(Missing)
           <= setups.failed + (IF setup.next \in {"put", "failed"} THEN 1 ELSE 0)
    BY <2>1, <2>2, <2>3 DEF MissingInv
  <2> QED
    BY <2>4 DEF OneLostEach, Missing, Present
<1> QED
  BY <1>1, RoleIInvHolds, PTL

-----------------------------------------------------------------------------
(* ApiDeploy, for any methods and authorizers.                             *)

ApiCalls == {"idle", "create", "resources", "authorizers", "responses", "dropResponse",
             "putResponse", "authorizer", "resource", "unlisted", "methods", "method",
             "drop", "put", "integration", "permission", "stage", "dropStage",
             "deployment", "stages", "deployed", "failed", "remove", "removed"}
TodoState == [authorizers : Seq(Authorizer), methods : SUBSET HttpMethod, method : HttpMethod]
GatewayState ==
    [api : BOOLEAN, resource : BOOLEAN, authorizers : [Authorizer -> ApiVersion \cup {0}],
     methods : [HttpMethod -> MethodState], response : ApiVersion \cup {0},
     stage : Seq([HttpMethod -> MethodState])]
LeftState == [requests : 0 .. MaxApiRequests, faults : 0 .. MaxApiFaults]

\* The gateway is a record of these fields.
ApiTypeInv == ApiTypeOK /\ gateway \in GatewayState

\* The calls of a deploy: those before its methods, those of the method in hand,
\* those of the stage.
BeforeMethods == {"create", "resources", "authorizers", "responses", "dropResponse",
                  "putResponse", "authorizer", "resource", "unlisted"}
OfMethod == {"method", "drop", "put", "integration"}
OfStage == {"stage", "dropStage", "deployment", "stages", "deployed"}
FromMethods == {"methods", "permission"} \cup OfMethod \cup OfStage
FromAuthorizers == {"authorizer", "resource", "unlisted"} \cup FromMethods

MethodAsked == [authorizer |-> apiRequest.authorizer, backend |-> apiRequest.version]
There == {a \in Authorizer : gateway.authorizers[a] # 0}

MethodsInv ==
    /\ apiCall \in BeforeMethods => todo.methods = apiRequest.methods
    /\ apiCall \in FromMethods =>
          /\ todo.methods \subseteq apiRequest.methods
          /\ \A m \in HttpMethod \ apiRequest.methods : gateway.methods[m] = NoHttpMethod
          /\ \A m \in apiRequest.methods \ todo.methods :
                \/ gateway.methods[m] = MethodAsked
                \/ apiCall \in OfMethod /\ m = todo.method
    /\ apiCall \in OfMethod => todo.method \in apiRequest.methods
    /\ apiCall = "integration" => InHand.authorizer = apiRequest.authorizer
    /\ apiCall \in OfStage => todo.methods = {}

\* An authorizer that is known is there, and that of the methods is known once
\* one of them was taken in hand.
KnownInv ==
    /\ apiCall \in BeforeMethods \cup FromMethods => known \subseteq There
    /\ apiCall \in FromMethods =>
          \/ todo.methods = apiRequest.methods
          \/ apiRequest.authorizer \in known \cup {NoAuthorizer}

ServedInv ==
    /\ apiCall \in FromAuthorizers => (apiRequest.response => gateway.response = apiRequest.version)
    /\ apiCall = "stages" => gateway.stage = <<gateway.methods>>
    /\ apiCall = "deployed" =>
          /\ gateway.stage # <<>>
          /\ apiRequest.redeploy => gateway.stage = <<gateway.methods>>

\* The first authorizer of the request is there, if it lists one.
FirstThere == apiRequest.authorizers # <<>> => Head(apiRequest.authorizers) \in There

\* A request that fails though no call did has put its first authorizer; made
\* again, it knows that one.
AgainInv ==
    /\ apiCall \in {"create", "resources", "authorizers", "responses", "dropResponse", "putResponse"}
          => todo.authorizers = apiRequest.authorizers
    /\ apiCall = "authorizer" =>
          \/ todo.authorizers = apiRequest.authorizers
          \/ Len(todo.authorizers) < Len(apiRequest.authorizers) /\ FirstThere
    /\ apiCall \in {"resource", "unlisted"} \cup FromMethods => FirstThere
    /\ apiCall = "failed" /\ apiPast.clean => FirstThere
    /\ apiPast.again => FirstThere /\ apiCall \notin {"remove", "removed"}
    /\ apiPast.clean /\ \/ apiCall \in {"responses", "dropResponse", "putResponse"}
                        \/ apiCall = "authorizer" /\ todo.authorizers = apiRequest.authorizers
          => known = There
    /\ apiPast.clean /\ apiPast.again =>
          /\ apiCall = "authorizer" => todo.authorizers = apiRequest.authorizers
          /\ apiCall \in FromAuthorizers \ {"deployed"} /\ apiRequest.authorizers # <<>> =>
                Head(apiRequest.authorizers) \in known
    /\ apiPast.clean /\ apiCall = "put" => InHand = NoHttpMethod
    /\ apiCall = "failed" /\ apiPast.clean /\ apiPast.again =>
          \/ apiRequest.authorizer \notin ToSet(apiRequest.authorizers)
          \/ ListedAfter(apiRequest.authorizer)

ApiIInv == ApiTypeInv /\ MethodsInv /\ KnownInv /\ ServedInv /\ AgainInv

-----------------------------------------------------------------------------
(* Types.                                                                  *)

PastState == [clean : BOOLEAN, again : BOOLEAN]

\* The parts of the type invariant, in this state and the next.
ApiTyped ==
    /\ apiRequest \in RestAPIInput /\ apiCall \in ApiCalls /\ todo \in TodoState
    /\ known \subseteq Authorizer /\ gateway \in GatewayState /\ Len(gateway.stage) \in {0, 1}
    /\ apiLeft \in LeftState /\ apiPast \in PastState

LEMMA ApiTypes == (ApiTypeInv <=> ApiTyped) /\ (ApiTypeInv' <=> ApiTyped')
  BY DEF ApiTypeInv, ApiTypeOK, ApiTyped, ApiCalls, TodoState, GatewayState, LeftState, PastState

LEMMA InputFields ==
    ASSUME NEW r \in RestAPIInput
    PROVE  /\ r.version \in ApiVersion /\ r.version \in Nat \ {0} /\ r.methods \subseteq HttpMethod
           /\ r.authorizer \in Authorizer \cup {NoAuthorizer}
           /\ r.authorizers \in Seq(Authorizer)
  BY ApiAssumption DEF SetupRestAPI

LEMMA TodoParts ==
    ASSUME todo \in TodoState
    PROVE  /\ todo.methods \subseteq HttpMethod /\ todo.method \in HttpMethod
           /\ todo.authorizers \in Seq(Authorizer)
           /\ todo.authorizers # <<>> =>
                 /\ Head(todo.authorizers) \in Authorizer
                 /\ Tail(todo.authorizers) \in Seq(Authorizer)
  BY HeadTailProperties DEF TodoState

LEMMA GatewayParts ==
    ASSUME gateway \in GatewayState
    PROVE  /\ gateway.authorizers \in [Authorizer -> ApiVersion \cup {0}]
           /\ gateway.methods \in [HttpMethod -> MethodState]
           /\ gateway.stage \in Seq([HttpMethod -> MethodState])
  BY DEF GatewayState

LEMMA FaultDoes ==
    ASSUME ApiTyped, ApiFault
    PROVE  apiLeft' \in LeftState /\ apiPast' \in PastState
           /\ ~apiPast'.clean /\ apiPast'.again = apiPast.again
<1>1. apiLeft' \in LeftState
  BY ApiAssumption DEF ApiTyped, ApiFault, LeftState
<1>2. apiPast \in PastState /\ apiPast' = [apiPast EXCEPT !.clean = FALSE]
  BY DEF ApiTyped, ApiFault
<1>3. apiPast' \in PastState /\ apiPast'.again = apiPast.again
  BY <1>2 DEF PastState
<1>4. apiPast'.clean = FALSE
  BY <1>2 DEF PastState
<1> QED
  BY <1>1, <1>3, <1>4

\* A call is answered, or it had its effect and failed.
LEMMA AnsweredDoes ==
    ASSUME ApiTyped, NEW from, NEW to, ApiAnswered(from, to)
    PROVE  /\ apiCall = from /\ apiLeft' \in LeftState /\ apiPast' \in PastState
           /\ apiPast'.again = apiPast.again
           /\ \/ apiCall' = to /\ apiPast' = apiPast
              \/ apiCall' = "failed" /\ ~apiPast'.clean
  BY FaultDoes DEF ApiAnswered, ApiAnswers, ApiTyped

\* What is asked of a method, and what a method is made of.
LEMMA MethodParts ==
    /\ NoHttpMethod \in MethodState
    /\ apiRequest \in RestAPIInput => MethodAsked \in MethodState /\ NewMethod \in MethodState
    /\ \A v \in ApiVersion : v \in Nat \ {0}
  BY InputFields, ApiAssumption DEF NoHttpMethod, MethodState, MethodAsked, NewMethod

\* A method changes.
MethodBecomes(m, method) ==
    /\ gateway'.methods[m] = method
    /\ \A n \in HttpMethod \ {m} : gateway'.methods[n] = gateway.methods[n]
    /\ gateway'.authorizers = gateway.authorizers /\ gateway'.response = gateway.response
    /\ gateway'.stage = gateway.stage

LEMMA MethodChanges ==
    ASSUME gateway \in GatewayState, NEW m \in HttpMethod, NEW method \in MethodState,
           gateway' = [gateway EXCEPT !.methods = [gateway.methods EXCEPT ![m] = method]]
    PROVE  gateway' \in GatewayState /\ MethodBecomes(m, method)
<1> DEFINE M == [gateway.methods EXCEPT ![m] = method]
<1>1. /\ M \in [HttpMethod -> MethodState] /\ M[m] = method
      /\ \A n \in HttpMethod \ {m} : M[n] = gateway.methods[n]
  BY GatewayParts
<1> HIDE DEF M
<1>2. gateway' = [gateway EXCEPT !.methods = M]
  BY DEF M
<1>3. gateway' \in GatewayState
  BY <1>1, <1>2 DEF GatewayState
<1>4. /\ gateway'.methods = M /\ gateway'.authorizers = gateway.authorizers
      /\ gateway'.response = gateway.response /\ gateway'.stage = gateway.stage
  BY <1>1, <1>2 DEF GatewayState
<1> QED
  BY <1>1, <1>3, <1>4 DEF MethodBecomes

LEMMA MethodReplaced ==
    ASSUME gateway \in GatewayState, NEW m \in HttpMethod, NEW method \in MethodState,
           gateway' = [gateway EXCEPT !.methods[m] = method]
    PROVE  gateway' \in GatewayState /\ MethodBecomes(m, method)
<1>1. gateway' = [gateway EXCEPT !.methods = [gateway.methods EXCEPT ![m] = method]]
  BY DEF GatewayState
<1> QED
  BY <1>1, MethodChanges

LEMMA MethodAuthorized ==
    ASSUME gateway \in GatewayState, NEW m \in HttpMethod, gateway.methods[m] # NoHttpMethod,
           NEW a \in Authorizer \cup {NoAuthorizer},
           gateway' = [gateway EXCEPT !.methods[m].authorizer = a]
    PROVE  /\ gateway' \in GatewayState
           /\ \E method \in MethodState : method.authorizer = a /\ MethodBecomes(m, method)
<1> DEFINE method == [gateway.methods[m] EXCEPT !.authorizer = a]
<1>1. gateway.methods[m] \in [authorizer : Authorizer \cup {NoAuthorizer}, backend : ApiVersion \cup {0}]
  BY GatewayParts DEF MethodState
<1>2. method \in MethodState /\ method.authorizer = a
  BY <1>1 DEF MethodState
<1>3. gateway' = [gateway EXCEPT !.methods = [gateway.methods EXCEPT ![m] = method]]
  BY DEF GatewayState
<1> HIDE DEF method
<1> QED
  BY <1>2, <1>3, MethodChanges

LEMMA MethodIntegrated ==
    ASSUME gateway \in GatewayState, NEW m \in HttpMethod, NEW v \in ApiVersion,
           gateway' = [gateway EXCEPT !.methods[m].backend = v]
    PROVE  /\ gateway' \in GatewayState
           /\ MethodBecomes(m, [authorizer |-> gateway.methods[m].authorizer, backend |-> v])
<1> DEFINE method == [authorizer |-> gateway.methods[m].authorizer, backend |-> v]
<1>1. gateway.methods[m] \in MethodState
  BY GatewayParts
<1>2. /\ method \in MethodState
      /\ [gateway.methods[m] EXCEPT !.backend = v] = method
  BY <1>1 DEF MethodState, NoHttpMethod
<1>3. gateway' = [gateway EXCEPT !.methods = [gateway.methods EXCEPT ![m] = method]]
  BY <1>2 DEF GatewayState
<1> HIDE DEF method
<1>4. gateway' \in GatewayState /\ MethodBecomes(m, method)
  BY <1>2, <1>3, MethodChanges
<1> QED
  BY <1>4 DEF method

\* An authorizer is put.
AuthorizerPut(a) ==
    /\ There' = There \cup {a} /\ gateway'.methods = gateway.methods
    /\ gateway'.response = gateway.response /\ gateway'.stage = gateway.stage

LEMMA AuthorizerChanges ==
    ASSUME gateway \in GatewayState, apiRequest \in RestAPIInput, NEW a \in Authorizer, PutAuthorizer(a)
    PROVE  gateway' \in GatewayState /\ AuthorizerPut(a)
<1> DEFINE A == [gateway.authorizers EXCEPT ![a] = apiRequest.version]
<1>1. /\ A \in [Authorizer -> ApiVersion \cup {0}] /\ A[a] # 0
      /\ \A b \in Authorizer \ {a} : A[b] = gateway.authorizers[b]
  BY GatewayParts, InputFields
<1>2. gateway' = [gateway EXCEPT !.authorizers = A]
  BY DEF PutAuthorizer, GatewayState
<1> HIDE DEF A
<1>3. gateway' \in GatewayState
  BY <1>1, <1>2 DEF GatewayState
<1>4. /\ gateway'.methods = gateway.methods /\ gateway'.authorizers = A
      /\ gateway'.response = gateway.response /\ gateway'.stage = gateway.stage
  BY <1>1, <1>2 DEF GatewayState
<1>5. There' = There \cup {a}
  BY <1>1, <1>4 DEF There
<1> QED
  BY <1>3, <1>4, <1>5 DEF AuthorizerPut

\* Another field of the gateway changes.
LEMMA GatewayChanges ==
    ASSUME gateway \in GatewayState
    PROVE  /\ \A b \in BOOLEAN : gateway' = [gateway EXCEPT !.api = b] =>
                 /\ gateway' \in GatewayState /\ gateway'.authorizers = gateway.authorizers
                 /\ gateway'.methods = gateway.methods /\ gateway'.response = gateway.response
                 /\ gateway'.stage = gateway.stage
           /\ \A b \in BOOLEAN : gateway' = [gateway EXCEPT !.resource = b] =>
                 /\ gateway' \in GatewayState /\ gateway'.authorizers = gateway.authorizers
                 /\ gateway'.methods = gateway.methods /\ gateway'.response = gateway.response
                 /\ gateway'.stage = gateway.stage
           /\ \A v \in ApiVersion \cup {0} : gateway' = [gateway EXCEPT !.response = v] =>
                 /\ gateway' \in GatewayState /\ gateway'.authorizers = gateway.authorizers
                 /\ gateway'.methods = gateway.methods /\ gateway'.response = v
                 /\ gateway'.stage = gateway.stage
           /\ \A s \in Seq([HttpMethod -> MethodState]) : gateway' = [gateway EXCEPT !.stage = s] =>
                 /\ gateway' \in GatewayState /\ gateway'.authorizers = gateway.authorizers
                 /\ gateway'.methods = gateway.methods /\ gateway'.response = gateway.response
                 /\ gateway'.stage = s
<1>1. ASSUME NEW b \in BOOLEAN, gateway' = [gateway EXCEPT !.api = b]
      PROVE  /\ gateway' \in GatewayState /\ gateway'.authorizers = gateway.authorizers
             /\ gateway'.methods = gateway.methods /\ gateway'.response = gateway.response
             /\ gateway'.stage = gateway.stage
  BY <1>1 DEF GatewayState
<1>2. ASSUME NEW b \in BOOLEAN, gateway' = [gateway EXCEPT !.resource = b]
      PROVE  /\ gateway' \in GatewayState /\ gateway'.authorizers = gateway.authorizers
             /\ gateway'.methods = gateway.methods /\ gateway'.response = gateway.response
             /\ gateway'.stage = gateway.stage
  BY <1>2 DEF GatewayState
<1>3. ASSUME NEW v \in ApiVersion \cup {0}, gateway' = [gateway EXCEPT !.response = v]
      PROVE  /\ gateway' \in GatewayState /\ gateway'.authorizers = gateway.authorizers
             /\ gateway'.methods = gateway.methods /\ gateway'.response = v
             /\ gateway'.stage = gateway.stage
  BY <1>3 DEF GatewayState
<1>4. ASSUME NEW s \in Seq([HttpMethod -> MethodState]), gateway' = [gateway EXCEPT !.stage = s]
      PROVE  /\ gateway' \in GatewayState /\ gateway'.authorizers = gateway.authorizers
             /\ gateway'.methods = gateway.methods /\ gateway'.response = gateway.response
             /\ gateway'.stage = s
  BY <1>4 DEF GatewayState
<1> QED
  BY <1>1, <1>2, <1>3, <1>4

LEMMA NoApiParts ==
    NoApi \in GatewayState /\ Len(NoApi.stage) = 0
  BY EmptySeq DEF NoApi, GatewayState, MethodState

LEMMA ApiInitIInv == ApiInit => ApiIInv
<1> SUFFICES ASSUME ApiInit PROVE ApiIInv
  OBVIOUS
<1>1. apiRequest \in RestAPIInput /\ (CHOOSE m \in HttpMethod : TRUE) \in HttpMethod
  BY ApiAssumption DEF ApiInit
<1>2. todo \in TodoState /\ apiLeft \in LeftState /\ apiPast \in PastState
  BY <1>1, ApiAssumption, EmptySeq DEF ApiInit, TodoState, LeftState, PastState
<1>3. ApiTyped
  BY <1>1, <1>2, NoApiParts DEF ApiInit, ApiTyped, ApiCalls
<1> QED
  BY <1>3, ApiTypes DEF ApiInit, ApiIInv, MethodsInv, KnownInv, ServedInv, AgainInv, BeforeMethods,
     OfMethod, OfStage, FromMethods, FromAuthorizers

\* What a step does, apart from the gateway: nothing to the request.
LEMMA ApiNextType == ApiTyped /\ ApiNext => ApiTyped'
<1> SUFFICES ASSUME ApiTyped, ApiNext PROVE ApiTyped'
  OBVIOUS
<1>t. /\ apiRequest \in RestAPIInput /\ apiCall \in ApiCalls /\ todo \in TodoState
      /\ known \subseteq Authorizer /\ gateway \in GatewayState /\ Len(gateway.stage) \in {0, 1}
      /\ apiLeft \in LeftState /\ apiPast \in PastState
  BY DEF ApiTyped
<1> USE DEF ApiCalls
\* A step of a request keeps it.
<1>0. ASSUME apiRequest' = apiRequest, apiCall' \in ApiCalls, todo' \in TodoState, known' \subseteq Authorizer,
             gateway' \in GatewayState, gateway'.stage = gateway.stage \/ Len(gateway'.stage) \in {0, 1},
             ApiFault \/ UNCHANGED <<apiLeft, apiPast>>
      PROVE  ApiTyped'
  BY <1>t, <1>0, FaultDoes DEF ApiTyped
<1> USE DEF ApiAnswered, ApiAnswers
<1>1. CASE AskApi
  <2>1. apiRequest' \in RestAPIInput /\ known' = {} /\ gateway' = gateway /\ apiCall' \in ApiCalls
    BY <1>1 DEF AskApi
  <2>2. todo' \in TodoState
    BY <1>t, <1>1, <2>1, InputFields DEF AskApi, TodoState
  <2>3. apiLeft' \in LeftState
    BY <1>t, <1>1, ApiAssumption DEF AskApi, LeftState
  <2>4. apiPast' \in PastState
    BY <1>1 DEF AskApi, PastState
  <2> QED
    BY <1>t, <2>1, <2>2, <2>3, <2>4 DEF ApiTyped
<1>2. CASE AskRemoveApi
  <2>1. apiLeft' \in LeftState
    BY <1>t, <1>2, ApiAssumption DEF AskRemoveApi, LeftState
  <2>2. apiPast' \in PastState
    BY <1>2 DEF AskRemoveApi, PastState
  <2> QED
    BY <1>t, <1>2, <2>1, <2>2 DEF AskRemoveApi, ApiTyped
<1>3. CASE RemoveRestAPI
  BY <1>t, <1>0, <1>3, NoApiParts DEF RemoveRestAPI
<1>4. CASE ApiCallFails
  BY <1>t, <1>0, <1>4 DEF ApiCallFails
<1>5. CASE CreateRestAPI
  BY <1>t, <1>0, <1>5, GatewayChanges DEF CreateRestAPI
<1>6. CASE GetResources \/ GetAuthorizers \/ GetGatewayResponses \/ GetStages \/ GetNewStage \/ SetupApiPermission
           \/ EndAuthorizers
  BY <1>t, <1>0, <1>6 DEF GetResources, GetAuthorizers, GetGatewayResponses, GetStages, GetNewStage,
     SetupApiPermission, EndAuthorizers
<1>7. CASE DeleteGatewayResponse
  BY <1>t, <1>0, <1>7, GatewayChanges DEF DeleteGatewayResponse
<1>8. CASE PutGatewayResponse
  BY <1>t, <1>0, <1>8, InputFields, GatewayChanges DEF PutGatewayResponse
<1>9. CASE UpdateAuthorizer
  <2>1. gateway' \in GatewayState /\ gateway'.stage = gateway.stage
    BY <1>t, <1>9, TodoParts, AuthorizerChanges DEF UpdateAuthorizer, AuthorizerNext, AuthorizerPut
  <2> QED
    BY <1>t, <1>0, <1>9, <2>1 DEF UpdateAuthorizer
<1>10. CASE CreateAuthorizer
  <2>1. gateway' \in GatewayState /\ gateway'.stage = gateway.stage
    BY <1>t, <1>10, TodoParts, AuthorizerChanges DEF CreateAuthorizer, AuthorizerNext, AuthorizerPut
  <2>2. todo' \in TodoState
    BY <1>t, <1>10, TodoParts DEF CreateAuthorizer, AuthorizerNext, TodoState
  <2> QED
    BY <1>t, <1>0, <1>10, <2>1, <2>2 DEF CreateAuthorizer
<1>11. CASE CreateResource
  BY <1>t, <1>0, <1>11, GatewayChanges DEF CreateResource
<1>12. CASE RemoveUnlistedMethods
  <2>1. gateway' \in GatewayState /\ gateway'.stage = gateway.stage
    BY <1>t, <1>12, MethodReplaced, MethodParts DEF RemoveUnlistedMethods, MethodBecomes
  <2> QED
    BY <1>t, <1>0, <1>12, <2>1 DEF RemoveUnlistedMethods
<1>13. CASE NextMethod
  <2>1. todo' \in TodoState
    BY <1>t, <1>13, TodoParts DEF NextMethod, TodoState
  <2> QED
    BY <1>t, <1>0, <1>13, <2>1 DEF NextMethod
<1>14. CASE UpdateMethod
  <2>1. gateway' \in GatewayState /\ gateway'.stage = gateway.stage
    BY <1>t, <1>14, MethodAuthorized, TodoParts, InputFields DEF UpdateMethod, MethodBecomes, InHand
  <2> QED
    BY <1>t, <1>0, <1>14, <2>1 DEF UpdateMethod
<1>15. CASE DeleteMethod
  <2>1. gateway' \in GatewayState /\ gateway'.stage = gateway.stage
    BY <1>t, <1>15, MethodReplaced, MethodParts, TodoParts DEF DeleteMethod, MethodBecomes
  <2> QED
    BY <1>t, <1>0, <1>15, <2>1 DEF DeleteMethod
<1>16. CASE PutMethod("method") \/ PutMethod("put")
  <2>1. gateway' \in GatewayState /\ gateway'.stage = gateway.stage
    BY <1>t, <1>16, MethodReplaced, MethodParts, TodoParts DEF PutMethod, MethodBecomes
  <2> QED
    BY <1>t, <1>0, <1>16, <2>1 DEF PutMethod
<1>17. CASE SetupIntegration
  <2>1. gateway' \in GatewayState /\ gateway'.stage = gateway.stage
    BY <1>t, <1>17, MethodIntegrated, InputFields, TodoParts DEF SetupIntegration, MethodBecomes
  <2> QED
    BY <1>t, <1>0, <1>17, <2>1 DEF SetupIntegration
<1>18. CASE DeleteStage
  <2>1. gateway' \in GatewayState /\ Len(gateway'.stage) \in {0, 1}
    BY <1>t, <1>18, GatewayChanges, EmptySeq DEF DeleteStage
  <2> QED
    BY <1>t, <1>0, <1>18, <2>1 DEF DeleteStage
<1>19. CASE CreateDeployment
  <2>1. <<gateway.methods>> \in Seq([HttpMethod -> MethodState]) /\ Len(<<gateway.methods>>) = 1
    BY <1>t, GatewayParts
  <2>2. gateway' \in GatewayState /\ Len(gateway'.stage) \in {0, 1}
    BY <1>t, <1>19, <2>1, GatewayChanges DEF CreateDeployment
  <2> QED
    BY <1>t, <1>0, <1>19, <2>2 DEF CreateDeployment
<1> QED
  BY <1>1, <1>2, <1>3, <1>4, <1>5, <1>6, <1>7, <1>8, <1>9, <1>10, <1>11, <1>12, <1>13, <1>14, <1>15,
     <1>16, <1>17, <1>18, <1>19 DEF ApiNext

-----------------------------------------------------------------------------
(* The phases of a deploy.                                                 *)

LEMMA ApiNextPhases ==
    ASSUME ApiTyped, MethodsInv, KnownInv, ServedInv, AgainInv, ApiNext
    PROVE  MethodsInv' /\ KnownInv' /\ ServedInv' /\ AgainInv'
<1>t. /\ apiRequest \in RestAPIInput /\ apiCall \in ApiCalls /\ todo \in TodoState
      /\ known \subseteq Authorizer /\ gateway \in GatewayState /\ apiPast \in PastState
      /\ apiRequest.authorizers \in Seq(Authorizer)
  BY InputFields DEF ApiTyped
<1> DEFINE Goal == MethodsInv' /\ KnownInv' /\ ServedInv' /\ AgainInv'
           Phases == MethodsInv /\ KnownInv /\ ServedInv /\ AgainInv
<1> USE DEF BeforeMethods, OfMethod, OfStage, FromMethods, FromAuthorizers
<1>p. Phases
  OBVIOUS
<1> SUFFICES Goal
  OBVIOUS
\* A call that fails leaves the first authorizer where it is.
<1>0. ASSUME apiCall' = "failed", ~apiPast'.clean, apiPast'.again = apiPast.again,
             apiRequest' = apiRequest, FirstThere => FirstThere'
      PROVE  Goal
  BY <1>0 DEF MethodsInv, KnownInv, ServedInv, AgainInv
\* One that is answered, and changes neither the gateway nor what is done.
<1>u. UNCHANGED <<apiRequest, gateway>> =>
         (FirstThere' <=> FirstThere) /\ There' = There /\ MethodAsked' = MethodAsked
  BY DEF FirstThere, There, MethodAsked
<1>1. CASE AskApi
  <2>1. /\ apiCall' \in {"create", "resources"} /\ known' = {} /\ There' = There
        /\ todo'.authorizers = apiRequest'.authorizers /\ todo'.methods = apiRequest'.methods
        /\ apiPast'.again => apiCall = "failed" /\ apiPast.clean /\ apiRequest' = apiRequest
    BY <1>1, <1>t DEF AskApi, TodoState, There
  <2>2. apiPast'.again => FirstThere'
    BY <2>1, <1>p DEF AgainInv, FirstThere
  <2> QED
    BY <2>1, <2>2 DEF MethodsInv, KnownInv, ServedInv, AgainInv
<1>2. CASE AskRemoveApi
  <2>1. apiCall' = "remove" /\ ~apiPast'.again
    BY <1>2 DEF AskRemoveApi
  <2> QED
    BY <2>1 DEF MethodsInv, KnownInv, ServedInv, AgainInv
<1>3. CASE RemoveRestAPI
  <2>1. /\ apiCall = "remove" /\ apiPast'.again = apiPast.again /\ apiRequest' = apiRequest
        /\ (apiCall' = "removed" \/ (apiCall' = "failed" /\ ~apiPast'.clean))
    BY <1>3, AnsweredDoes DEF RemoveRestAPI
  <2>2. ~apiPast.again
    BY <1>p, <2>1 DEF AgainInv
  <2> QED
    BY <2>1, <2>2 DEF MethodsInv, KnownInv, ServedInv, AgainInv
<1>4. CASE ApiCallFails
  <2>1. apiCall' = "failed" /\ ~apiPast'.clean /\ apiPast'.again = apiPast.again /\ UNCHANGED <<apiRequest, gateway>>
    BY <1>4, FaultDoes DEF ApiCallFails
  <2> QED
    BY <1>0, <1>u, <2>1
<1>5. CASE CreateRestAPI
  <2>1. /\ apiCall = "create" /\ apiPast'.again = apiPast.again /\ UNCHANGED <<apiRequest, todo, known>>
        /\ \/ apiCall' = "resources" /\ apiPast' = apiPast
           \/ apiCall' = "failed" /\ ~apiPast'.clean
    BY <1>5, AnsweredDoes DEF CreateRestAPI
  <2>2. There' = There /\ (FirstThere' <=> FirstThere)
    BY <1>t, <1>5, GatewayChanges DEF CreateRestAPI, There, FirstThere
  <2> QED
    BY <1>0, <1>p, <2>1, <2>2 DEF MethodsInv, KnownInv, ServedInv, AgainInv
<1>6. CASE GetResources
  <2>1. apiCall = "resources" /\ apiCall' = "authorizers" /\ UNCHANGED <<apiRequest, todo, known, gateway, apiPast>>
    BY <1>6 DEF GetResources, ApiAnswers
  <2> QED
    BY <1>p, <1>u, <2>1 DEF MethodsInv, KnownInv, ServedInv, AgainInv
<1>7. CASE GetAuthorizers
  <2>1. /\ apiCall = "authorizers" /\ UNCHANGED <<apiRequest, todo, gateway>>
        /\ apiPast'.again = apiPast.again
        /\ apiCall' = IF apiRequest.response THEN "responses" ELSE "authorizer"
        /\ \/ known' = There /\ apiPast' = apiPast
           \/ known' = {} /\ ~apiPast'.clean
    BY <1>7, FaultDoes DEF GetAuthorizers, ApiAnswers, There
  <2>2. There' = There /\ (FirstThere' <=> FirstThere)
    BY <1>u, <2>1
  <2> QED
    BY <1>p, <2>1, <2>2 DEF MethodsInv, KnownInv, ServedInv, AgainInv, FirstThere
<1>8. CASE GetGatewayResponses
  <2>1. /\ apiCall = "responses" /\ UNCHANGED <<apiRequest, todo, known, gateway, apiPast>>
        /\ apiCall' \in {"putResponse", "dropResponse"}
    BY <1>8 DEF GetGatewayResponses, ApiAnswers
  <2> QED
    BY <1>p, <1>u, <2>1 DEF MethodsInv, KnownInv, ServedInv, AgainInv
<1>9. CASE DeleteGatewayResponse
  <2>1. /\ apiCall = "dropResponse" /\ apiPast'.again = apiPast.again /\ UNCHANGED <<apiRequest, todo, known>>
        /\ \/ apiCall' = "putResponse" /\ apiPast' = apiPast
           \/ apiCall' = "failed" /\ ~apiPast'.clean
    BY <1>9, AnsweredDoes DEF DeleteGatewayResponse
  <2>2. There' = There /\ (FirstThere' <=> FirstThere)
    BY <1>t, <1>9, GatewayChanges DEF DeleteGatewayResponse, There, FirstThere
  <2> QED
    BY <1>0, <1>p, <2>1, <2>2 DEF MethodsInv, KnownInv, ServedInv, AgainInv
<1>10. CASE PutGatewayResponse
  <2>1. /\ apiCall = "putResponse" /\ apiPast'.again = apiPast.again /\ UNCHANGED <<apiRequest, todo, known>>
        /\ \/ apiCall' = "authorizer" /\ apiPast' = apiPast
           \/ apiCall' = "failed" /\ ~apiPast'.clean
    BY <1>10, AnsweredDoes DEF PutGatewayResponse
  <2>2. There' = There /\ (FirstThere' <=> FirstThere) /\ gateway'.response = apiRequest.version
    BY <1>t, <1>10, InputFields, GatewayChanges DEF PutGatewayResponse, There, FirstThere
  <2> QED
    BY <1>0, <1>p, <2>1, <2>2 DEF MethodsInv, KnownInv, ServedInv, AgainInv, FirstThere
<1>11. CASE UpdateAuthorizer
  <2>1. /\ apiCall = "authorizer" /\ apiPast'.again = apiPast.again /\ UNCHANGED <<apiRequest, todo, known>>
        /\ \/ apiCall' = "resource" /\ apiPast' = apiPast
           \/ apiCall' = "failed" /\ ~apiPast'.clean
        /\ todo.authorizers # <<>> /\ Head(todo.authorizers) \in known
    BY <1>11, AnsweredDoes DEF UpdateAuthorizer, AuthorizerNext
  <2>2. AuthorizerPut(Head(todo.authorizers))
    BY <1>t, <1>11, <2>1, TodoParts, AuthorizerChanges DEF UpdateAuthorizer
  <2>3. There \subseteq There' /\ Head(todo.authorizers) \in There'
    BY <2>2 DEF AuthorizerPut
  <2>4. FirstThere'
    BY <1>p, <2>1, <2>3 DEF AgainInv, FirstThere
  <2> QED
    BY <1>0, <1>p, <2>1, <2>2, <2>3, <2>4 DEF MethodsInv, KnownInv, ServedInv, AgainInv, FirstThere, AuthorizerPut
<1>12. CASE CreateAuthorizer
  <2>0. apiCall = "authorizer" /\ todo.authorizers # <<>> /\ Head(todo.authorizers) \in Authorizer \ known
    BY <1>t, <1>12, TodoParts DEF CreateAuthorizer, AuthorizerNext
  \* With all of its calls answered it is not one made again.
  <2>1. ~(apiPast.clean /\ apiPast.again)
    BY <1>p, <2>0 DEF AgainInv
  <2>2. CASE gateway.authorizers[Head(todo.authorizers)] # 0
    <3>1. apiCall' = "failed" /\ apiPast' = apiPast /\ UNCHANGED <<apiRequest, gateway>>
      BY <1>12, <2>2 DEF CreateAuthorizer, ApiAnswers
    <3>2. apiPast.clean => FirstThere
      BY <1>p, <2>0, <2>2 DEF AgainInv, There
    <3> QED
      BY <1>p, <1>u, <2>1, <3>1, <3>2 DEF MethodsInv, KnownInv, ServedInv, AgainInv
  <2>3. CASE gateway.authorizers[Head(todo.authorizers)] = 0
    <3>1. /\ apiPast'.again = apiPast.again /\ UNCHANGED <<apiRequest, known>>
          /\ \/ apiCall' = "authorizer" /\ apiPast' = apiPast
             \/ apiCall' = "failed" /\ ~apiPast'.clean
      BY <1>12, <2>3, AnsweredDoes DEF CreateAuthorizer
    <3>2. AuthorizerPut(Head(todo.authorizers))
      BY <1>t, <1>12, <2>0, <2>3, AuthorizerChanges DEF CreateAuthorizer
    <3>3. /\ todo'.authorizers = Tail(todo.authorizers) /\ todo'.methods = todo.methods
      BY <1>t, <1>12, <2>3 DEF CreateAuthorizer, TodoState
    <3>4. There \subseteq There' /\ Head(todo.authorizers) \in There'
      BY <3>2 DEF AuthorizerPut
    <3>5. FirstThere'
      BY <1>p, <2>0, <3>1, <3>4 DEF AgainInv, FirstThere
    <3>6. Len(todo'.authorizers) < Len(apiRequest.authorizers)
      <4>1. todo.authorizers \in Seq(Authorizer)
        BY <1>t, TodoParts
      <4>2. Len(Tail(todo.authorizers)) = Len(todo.authorizers) - 1 /\ Len(todo.authorizers) \in Nat
        BY <2>0, <4>1, HeadTailProperties, LenProperties
      <4> QED
        BY <1>p, <1>t, <2>0, <3>3, <4>2, LenProperties DEF AgainInv
    <3>7. todo'.authorizers # apiRequest.authorizers
      BY <1>t, <3>6, LenProperties
    <3> QED
      BY <1>0, <1>p, <2>0, <2>1, <3>1, <3>2, <3>3, <3>4, <3>5, <3>6, <3>7 DEF MethodsInv, KnownInv, ServedInv, AgainInv,
         AuthorizerPut
  <2> QED
    BY <2>2, <2>3
<1>13. CASE EndAuthorizers
  <2>1. /\ apiCall = "authorizer" /\ apiCall' = "resource" /\ todo.authorizers = <<>>
        /\ UNCHANGED <<apiRequest, todo, known, gateway, apiPast>>
    BY <1>13 DEF EndAuthorizers, ApiAnswers
  <2>2. FirstThere
    BY <1>p, <2>1 DEF AgainInv, FirstThere
  <2> QED
    BY <1>p, <1>u, <2>1, <2>2 DEF MethodsInv, KnownInv, ServedInv, AgainInv
<1>14. CASE CreateResource
  <2>1. /\ apiCall = "resource" /\ apiPast'.again = apiPast.again /\ UNCHANGED <<apiRequest, todo, known>>
        /\ \/ apiCall' = "unlisted" /\ apiPast' = apiPast
           \/ apiCall' = "failed" /\ ~apiPast'.clean
    BY <1>14, AnsweredDoes DEF CreateResource
  <2>2. There' = There /\ (FirstThere' <=> FirstThere) /\ gateway'.response = gateway.response
    BY <1>t, <1>14, GatewayChanges DEF CreateResource, There, FirstThere
  <2> QED
    BY <1>0, <1>p, <2>1, <2>2 DEF MethodsInv, KnownInv, ServedInv, AgainInv
\* The method in hand changes, or one that is not asked for, and nothing else of
\* the gateway.
<1>m. ASSUME NEW m \in HttpMethod, NEW method, MethodBecomes(m, method), apiRequest' = apiRequest
      PROVE  There' = There /\ (FirstThere' <=> FirstThere) /\ MethodAsked' = MethodAsked
             /\ gateway'.response = gateway.response
  BY <1>m DEF MethodBecomes, There, FirstThere, MethodAsked
<1>15. CASE RemoveUnlistedMethods
  <2>0. apiCall = "unlisted" /\ apiPast'.again = apiPast.again /\ UNCHANGED <<apiRequest, todo, known>>
    BY <1>15, AnsweredDoes DEF RemoveUnlistedMethods, ApiAnswers
  <2>1. ASSUME NEW m \in HttpMethod \ apiRequest.methods,
               ApiAnswered("unlisted", "unlisted"),
               gateway' = [gateway EXCEPT !.methods[m] = NoHttpMethod]
        PROVE  Goal
    <3>1. MethodBecomes(m, NoHttpMethod)
      BY <1>t, <2>1, MethodReplaced, MethodParts
    <3>2. \/ apiCall' = "unlisted" /\ apiPast' = apiPast
          \/ apiCall' = "failed" /\ ~apiPast'.clean
      BY <2>1, AnsweredDoes
    <3>3. There' = There /\ (FirstThere' <=> FirstThere) /\ gateway'.response = gateway.response
      BY <1>m, <2>0, <3>1
    <3> QED
      BY <1>0, <1>p, <2>0, <3>2, <3>3 DEF MethodsInv, KnownInv, ServedInv, AgainInv
  <2>2. CASE /\ {m \in HttpMethod \ apiRequest.methods : gateway.methods[m] # NoHttpMethod} = {}
             /\ ApiAnswers("unlisted", "methods") /\ UNCHANGED gateway
    <3>1. apiCall' = "methods" /\ UNCHANGED <<gateway, apiPast>>
      BY <2>2 DEF ApiAnswers
    <3> QED
      BY <1>p, <1>u, <2>0, <2>2, <3>1 DEF MethodsInv, KnownInv, ServedInv, AgainInv
  <2> QED
    BY <1>15, <2>1, <2>2 DEF RemoveUnlistedMethods
<1>16. CASE NextMethod
  <2>0. apiCall = "methods" /\ UNCHANGED <<apiRequest, known, gateway, apiPast>>
    BY <1>16 DEF NextMethod, ApiAnswers
  <2>1. CASE todo.methods = {} /\ apiCall' = "stage" /\ UNCHANGED todo
    BY <1>p, <1>u, <2>0, <2>1 DEF MethodsInv, KnownInv, ServedInv, AgainInv
  <2>2. ASSUME NEW m \in todo.methods,
               apiCall' = IF apiRequest.authorizer \in known \cup {NoAuthorizer} THEN "method" ELSE "failed",
               todo' = [todo EXCEPT !.methods = @ \ {m}, !.method = m]
        PROVE  Goal
    <3>1. /\ todo'.methods = todo.methods \ {m} /\ todo'.method = m
          /\ todo'.authorizers = todo.authorizers
      BY <1>t, <2>2 DEF TodoState
    <3>2. CASE apiRequest.authorizer \in known \cup {NoAuthorizer}
      BY <1>p, <1>u, <2>0, <2>2, <3>1, <3>2 DEF MethodsInv, KnownInv, ServedInv, AgainInv
    <3>3. CASE apiRequest.authorizer \notin known
      <4>1. apiPast.clean /\ apiPast.again =>
               \/ apiRequest.authorizer \notin ToSet(apiRequest.authorizers)
               \/ ListedAfter(apiRequest.authorizer)
        <5> SUFFICES ASSUME apiPast.clean, apiPast.again,
                            NEW i \in DOMAIN apiRequest.authorizers,
                            apiRequest.authorizer = apiRequest.authorizers[i]
                     PROVE  ListedAfter(apiRequest.authorizer)
          BY DEF ToSet
        <5> DEFINE s == apiRequest.authorizers
        <5>1. s # <<>> /\ i \in 1 .. Len(s) /\ Len(s) \in Nat
          BY <1>t, EmptySeq, LenProperties
        <5>2. Head(s) = s[1] /\ Head(s) \in known
          BY <1>p, <1>t, <2>0, <5>1, HeadTailProperties DEF AgainInv
        <5>3. i - 1 \in DOMAIN Tail(s) /\ Tail(s)[i - 1] = s[i]
          BY <1>t, <3>3, <5>1, <5>2, HeadTailProperties
        <5> QED
          BY <5>3 DEF ListedAfter, ToSet
      <4>2. CASE apiCall' = "failed"
        BY <1>p, <1>u, <2>0, <4>1, <4>2 DEF MethodsInv, KnownInv, ServedInv, AgainInv, ListedAfter
      <4> QED
        BY <2>2, <3>2, <4>2
    <3> QED
      BY <3>2, <3>3
  <2> QED
    BY <1>16, <2>1, <2>2 DEF NextMethod, ApiAnswers
<1>17. CASE UpdateMethod
  <2>0. apiCall = "method" /\ UNCHANGED <<apiRequest, todo, known, apiPast>> /\ todo.method \in HttpMethod
    BY <1>17, <1>t, TodoParts DEF UpdateMethod, ApiAnswers
  <2>1. CASE /\ UNCHANGED gateway
             /\ \/ apiCall' = "integration" /\ InHand.authorizer = apiRequest.authorizer
                \/ apiCall' = "drop"
    BY <1>p, <1>u, <2>0, <2>1 DEF MethodsInv, KnownInv, ServedInv, AgainInv, InHand
  <2>2. CASE /\ apiCall' = "integration" /\ InHand # NoHttpMethod
             /\ gateway' = [gateway EXCEPT !.methods[todo.method].authorizer = apiRequest.authorizer]
    <3>1. PICK method \in MethodState :
             method.authorizer = apiRequest.authorizer /\ MethodBecomes(todo.method, method)
      BY <1>t, <2>0, <2>2, InputFields, MethodAuthorized DEF InHand
    <3>2. There' = There /\ (FirstThere' <=> FirstThere) /\ gateway'.response = gateway.response
          /\ MethodAsked' = MethodAsked
      BY <1>m, <2>0, <3>1
    <3> QED
      BY <1>p, <1>t, <2>0, <2>2, <3>1, <3>2, InputFields
         DEF MethodsInv, KnownInv, ServedInv, AgainInv, InHand, MethodBecomes
  <2> QED
    BY <1>17, <2>1, <2>2 DEF UpdateMethod, ApiAnswers
<1>18. CASE DeleteMethod
  <2>0. /\ apiCall = "drop" /\ apiCall' = "put" /\ UNCHANGED <<apiRequest, todo, known>>
        /\ todo.method \in HttpMethod
    BY <1>18, <1>t, TodoParts DEF DeleteMethod
  <2>1. CASE UNCHANGED <<apiLeft, apiPast>> /\ gateway' = [gateway EXCEPT !.methods[todo.method] = NoHttpMethod]
    <3>1. MethodBecomes(todo.method, NoHttpMethod)
      BY <1>t, <2>0, <2>1, MethodReplaced, MethodParts
    <3>2. There' = There /\ (FirstThere' <=> FirstThere) /\ gateway'.response = gateway.response
          /\ MethodAsked' = MethodAsked
      BY <1>m, <2>0, <3>1
    <3> QED
      BY <1>p, <1>t, <2>0, <2>1, <3>1, <3>2, InputFields
         DEF MethodsInv, KnownInv, ServedInv, AgainInv, InHand, MethodBecomes
  <2>2. CASE ApiFault /\ UNCHANGED gateway
    <3>1. ~apiPast'.clean /\ apiPast'.again = apiPast.again
      BY <2>2, FaultDoes
    <3> QED
      BY <1>p, <1>u, <2>0, <2>2, <3>1 DEF MethodsInv, KnownInv, ServedInv, AgainInv
  <2> QED
    BY <1>18, <2>1, <2>2 DEF DeleteMethod
<1>19. ASSUME NEW from \in {"method", "put"}, PutMethod(from) PROVE Goal
  <2>0. /\ apiCall = from /\ apiPast'.again = apiPast.again /\ UNCHANGED <<apiRequest, todo, known>>
        /\ todo.method \in HttpMethod
    BY <1>19, <1>t, TodoParts, AnsweredDoes DEF PutMethod, ApiAnswers
  <2>1. CASE InHand = NoHttpMethod
    <3>0. /\ gateway' = [gateway EXCEPT !.methods[todo.method] = NewMethod]
          /\ \/ apiCall' = "integration" /\ apiPast' = apiPast
             \/ apiCall' = "failed" /\ ~apiPast'.clean
      BY <1>19, <2>1, AnsweredDoes DEF PutMethod
    <3>1. MethodBecomes(todo.method, NewMethod)
      BY <1>t, <2>0, <3>0, MethodReplaced, MethodParts
    <3>2. There' = There /\ (FirstThere' <=> FirstThere) /\ gateway'.response = gateway.response
          /\ MethodAsked' = MethodAsked
      BY <1>m, <2>0, <3>1
    <3> QED
      BY <1>0, <1>p, <1>t, <2>0, <3>0, <3>1, <3>2, InputFields
         DEF MethodsInv, KnownInv, ServedInv, AgainInv, InHand, MethodBecomes, NewMethod
  \* A method that is there was not deleted, because a call failed.
  <2>2. CASE InHand # NoHttpMethod
    <3>1. from = "put" /\ apiCall' = "failed" /\ UNCHANGED <<gateway, apiPast>>
      BY <1>19, <2>2 DEF PutMethod, ApiAnswers
    <3>2. ~apiPast.clean
      BY <1>p, <2>0, <2>2, <3>1 DEF AgainInv
    <3> QED
      BY <1>0, <1>u, <2>0, <3>1, <3>2
  <2> QED
    BY <2>1, <2>2
<1>20. CASE SetupIntegration
  <2>0. /\ apiCall = "integration" /\ apiPast'.again = apiPast.again /\ UNCHANGED <<apiRequest, todo, known>>
        /\ todo.method \in HttpMethod
        /\ \/ apiCall' = "permission" /\ apiPast' = apiPast
           \/ apiCall' = "failed" /\ ~apiPast'.clean
    BY <1>20, <1>t, TodoParts, AnsweredDoes DEF SetupIntegration
  <2>1. InHand.authorizer = apiRequest.authorizer
    BY <1>p, <2>0 DEF MethodsInv
  <2>2. MethodBecomes(todo.method, MethodAsked)
    BY <1>20, <1>t, <2>0, <2>1, MethodIntegrated, InputFields DEF SetupIntegration, InHand, MethodAsked
  <2>3. There' = There /\ (FirstThere' <=> FirstThere) /\ gateway'.response = gateway.response
        /\ MethodAsked' = MethodAsked
    BY <1>m, <2>0, <2>2
  <2> QED
    BY <1>0, <1>p, <1>t, <2>0, <2>2, <2>3, InputFields
       DEF MethodsInv, KnownInv, ServedInv, AgainInv, MethodBecomes
<1>21. CASE SetupApiPermission
  <2>1. /\ apiCall = "permission" /\ apiCall' = "methods"
        /\ UNCHANGED <<apiRequest, todo, known, gateway, apiPast>>
    BY <1>21 DEF SetupApiPermission, ApiAnswers
  <2> QED
    BY <1>p, <1>u, <2>1 DEF MethodsInv, KnownInv, ServedInv, AgainInv
<1>22. CASE GetStages
  <2>1. /\ apiCall = "stage" /\ UNCHANGED <<apiRequest, todo, known, gateway>>
        /\ apiPast'.again = apiPast.again /\ (apiPast'.clean => apiPast' = apiPast)
        /\ \/ apiCall' \in {"deployment", "dropStage"}
           \/ apiCall' = "deployed" /\ gateway.stage # <<>> /\ ~apiRequest.redeploy
    BY <1>22, FaultDoes DEF GetStages, ApiAnswers
  <2> QED
    BY <1>p, <1>u, <2>1 DEF MethodsInv, KnownInv, ServedInv, AgainInv
<1>23. CASE DeleteStage
  <2>1. /\ apiCall = "dropStage" /\ apiCall' = "deployment" /\ UNCHANGED <<apiRequest, todo, known>>
        /\ apiPast'.again = apiPast.again /\ (apiPast'.clean => apiPast' = apiPast)
    BY <1>23, FaultDoes DEF DeleteStage
  <2>2. /\ gateway'.methods = gateway.methods /\ gateway'.authorizers = gateway.authorizers
        /\ gateway'.response = gateway.response
    BY <1>t, <1>23, GatewayChanges, EmptySeq DEF DeleteStage
  <2>3. There' = There /\ (FirstThere' <=> FirstThere) /\ MethodAsked' = MethodAsked
    BY <2>1, <2>2 DEF There, FirstThere, MethodAsked
  <2> QED
    BY <1>p, <2>1, <2>2, <2>3 DEF MethodsInv, KnownInv, ServedInv, AgainInv
<1>24. CASE CreateDeployment
  <2>1. /\ apiCall = "deployment" /\ apiPast'.again = apiPast.again
        /\ UNCHANGED <<apiRequest, todo, known>>
        /\ \/ apiCall' = "stages" /\ apiPast' = apiPast
           \/ apiCall' = "failed" /\ ~apiPast'.clean
    BY <1>24, AnsweredDoes DEF CreateDeployment
  <2>2. <<gateway.methods>> \in Seq([HttpMethod -> MethodState])
    BY <1>t, GatewayParts
  <2>3. /\ gateway'.methods = gateway.methods /\ gateway'.authorizers = gateway.authorizers
        /\ gateway'.response = gateway.response /\ gateway'.stage = <<gateway.methods>>
    BY <1>t, <1>24, <2>2, GatewayChanges DEF CreateDeployment
  <2>4. There' = There /\ (FirstThere' <=> FirstThere) /\ MethodAsked' = MethodAsked
    BY <2>1, <2>3 DEF There, FirstThere, MethodAsked
  <2> QED
    BY <1>0, <1>p, <2>1, <2>3, <2>4 DEF MethodsInv, KnownInv, ServedInv, AgainInv
<1>25. CASE GetNewStage
  <2>1. /\ apiCall = "stages" /\ apiCall' = "deployed"
        /\ UNCHANGED <<apiRequest, todo, known, gateway, apiPast>>
    BY <1>25 DEF GetNewStage, ApiAnswers
  <2>2. gateway.stage # <<>>
    BY <1>p, <2>1 DEF ServedInv
  <2> QED
    BY <1>p, <1>u, <2>1, <2>2 DEF MethodsInv, KnownInv, ServedInv, AgainInv
<1> QED
  BY <1>1, <1>2, <1>3, <1>4, <1>5, <1>6, <1>7, <1>8, <1>9, <1>10, <1>11, <1>12, <1>13, <1>14, <1>15,
     <1>16, <1>17, <1>18, <1>19, <1>20, <1>21, <1>22, <1>23, <1>24, <1>25 DEF ApiNext

LEMMA ApiInductive == ApiIInv /\ [ApiNext]_apiVars => ApiIInv'
<1> SUFFICES ASSUME ApiIInv, [ApiNext]_apiVars PROVE ApiIInv'
  OBVIOUS
<1>1. CASE ApiNext
  BY <1>1, ApiTypes, ApiNextType, ApiNextPhases DEF ApiIInv
<1>2. CASE UNCHANGED apiVars
  BY <1>2 DEF apiVars, ApiIInv, ApiTypeInv, ApiTypeOK, MethodsInv, KnownInv, ServedInv, AgainInv,
     MethodAsked, There, FirstThere, InHand, ListedAfter
<1> QED
  BY <1>1, <1>2

LEMMA ApiIInvHolds == ApiSpec => []ApiIInv
  BY ApiInitIInv, ApiInductive, PTL DEF ApiSpec

\* Every variable of a deploy keeps its type, for any methods and authorizers.
THEOREM ApiTypeCorrect == ApiSpec => []ApiTypeOK
<1>1. ApiIInv => ApiTypeOK
  BY DEF ApiIInv, ApiTypeInv
<1> QED
  BY <1>1, ApiIInvHolds, PTL

\* A deploy that succeeds leaves the methods, authorizer, response and stage it was
\* asked for; one that keeps failing without a fault misses an authorizer, for any
\* methods and authorizers (deployAuthorizers, setupResource, setupDeployment).
THEOREM ApiAsAskedHolds == ApiSpec => []ApiAsAsked
<1>1. ApiIInv => ApiAsAsked
  <2> SUFFICES ASSUME ApiIInv PROVE ApiAsAsked
    OBVIOUS
  <2> USE DEF FromMethods, FromAuthorizers, OfStage, OfMethod
  <2>1. ApiTyped /\ MethodsInv /\ KnownInv /\ ServedInv /\ AgainInv
    BY ApiTypes DEF ApiIInv
  <2>2. ASSUME apiCall = "deployed"
        PROVE  /\ \A m \in HttpMethod :
                     gateway.methods[m] = IF m \in apiRequest.methods THEN MethodAsked ELSE NoHttpMethod
               /\ apiRequest.methods # {} /\ apiRequest.authorizer # NoAuthorizer =>
                     gateway.authorizers[apiRequest.authorizer] # 0
               /\ apiRequest.response => gateway.response = apiRequest.version
               /\ gateway.stage # <<>>
               /\ apiRequest.redeploy => gateway.stage = <<gateway.methods>>
    BY <2>1, <2>2 DEF MethodsInv, KnownInv, ServedInv, There
  <2> QED
    BY <2>1, <2>2 DEF ApiAsAsked, AgainInv, MethodAsked
<1> QED
  BY <1>1, ApiIInvHolds, PTL

=============================================================================
