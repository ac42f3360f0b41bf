--------------------------- MODULE Services_proofs ---------------------------
(***************************************************************************)
(* Proofs about the services together, for any values of their constants:  *)
(* MCServices and MCProgress take the steps of one service at a time, and  *)
(* what is proved of a service alone holds of it among the others.         *)
(***************************************************************************)
EXTENDS MCServices, MCProgress, Sessions_proofs, SystemSetup_proofs, TestRunners_proofs,
        WorkflowStacks_proofs

-----------------------------------------------------------------------------
(* A step of all services is a step of each or leaves it as it is.         *)

LEMMA SessionSteps ==
    [MCNext]_mcVars => /\ [PoolNext]_poolVars /\ [ShellNext]_shellVars
                       /\ [DeployNext]_deployVars
BY DEF MCNext, AllBut, mcVars

LEMMA SetupSteps ==
    [MCNext]_mcVars => /\ [LambdaNext]_lambdaVars /\ [RoleNext]_roleVars
                       /\ [ApiNext]_apiVars
BY DEF MCNext, AllBut, mcVars

LEMMA RunSteps ==
    [MCNext]_mcVars => /\ [LoggerNext]_loggerVars /\ [StackNext]_stackVars
                       /\ [CaptureNext]_captureVars
BY DEF MCNext, AllBut, mcVars

LEMMA ProgressSteps ==
    [ProgressNext]_progressVars => [StressNext]_stressVars /\ [DockerNext]_dockerVars
BY DEF ProgressNext, OtherIdle, progressVars

\* The services together are each of them: a behaviour of all is one of the
\* terminal sessions, of what a shell remembers, of a deployment, of a function, of
\* its role, of its gateway, of the event logger, of the stack of a run and of the
\* capture of a browser.
THEOREM ServicesImplementEach ==
    MCSpec => /\ PoolSpec /\ ShellSpec /\ DeploySpec
              /\ LambdaSpec /\ RoleSpec /\ ApiSpec
              /\ LoggerSpec /\ StackSpec /\ CaptureSpec
<1>1. MCInit => /\ PoolInit /\ ShellInit /\ DeployInit
                /\ LambdaInit /\ RoleInit /\ ApiInit
                /\ LoggerInit /\ StackInit /\ CaptureInit
  BY DEF MCInit
<1> QED
  BY <1>1, SessionSteps, SetupSteps, RunSteps, PTL
  DEF MCSpec, PoolSpec, ShellSpec, DeploySpec, LambdaSpec, RoleSpec, ApiSpec, LoggerSpec,
      StackSpec, CaptureSpec

\* A load test and docker:run together are each of them, with its fairness.
THEOREM ProgressImplementsEach == ProgressSpec => StressSpec /\ DockerSpec
<1>1. ProgressInit => StressInit /\ DockerInit
  BY DEF ProgressInit
<1> QED
  BY <1>1, ProgressSteps, PTL DEF ProgressSpec, StressSpec, DockerSpec

-----------------------------------------------------------------------------
(* What every state of the services has.                                   *)

\* The types of all services together: no request of one, however it fails, leaves
\* a context, a list, a number or a record of any service that the code could not
\* have (exec, deployment, lambda, iam, apigateway, the logger, the stack of
\* processes, webdriver).
THEOREM ServicesTypesHold == MCSpec => []MCTypeOK
<1>1. StackIInv => StackTypeOK
  BY DEF StackIInv
<1>2. StackSpec => []StackTypeOK
  BY <1>1, StackInductive, PTL
<1>3. /\ PoolTypeOK /\ ShellTypeOK /\ LambdaTypeOK /\ RoleTypeOK
      /\ LoggerTypeOK /\ StackTypeOK /\ DeployTypeOK /\ CaptureTypeOK
      /\ ApiTypeOK
      => MCTypeOK
  BY DEF MCTypeOK
<1> QED
  BY <1>2, <1>3, ServicesImplementEach, PoolTypesHold, ShellTypesHold, DeployTypesHold,
     LambdaTypeCorrect, RoleTypeCorrect, ApiTypeCorrect, LoggerTypesHold, CaptureTypesHold, PTL

\* The types of a load test and of docker:run: the wait group and the indices of the
\* buffer stay in their bounds, and a request works on a container there was
\* (partialStressTrips, handleRequests, run of service/system/docker).
THEOREM ProgressTypesHold == ProgressSpec => []ProgressTypeOK
<1>1. StressTypeOK /\ DockerTypeOK => ProgressTypeOK
  BY DEF ProgressTypeOK
<1> QED
  BY <1>1, ProgressImplementsEach, StressTypesHold, DockerTypesHold, PTL

=============================================================================
