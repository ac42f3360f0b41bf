----------------------------- MODULE MCServices ------------------------------
(***************************************************************************)
(* Instances of the services that a workflow calls, which share no state:  *)
(* a behaviour takes the steps of one of them.                             *)
(***************************************************************************)
EXTENDS SessionPool, ShellCache, LambdaDeploy, RoleSetup, EventLogger, RunStack,
        AppDeploy, BrowserCapture, ApiDeploy, TLC

\* ShellCache: /a is the home directory.
MCDirectory == {<<>>, <<"a">>, <<"a", "a">>, <<"a", "b.c">>}
MCHome == <<"a">>

\* AppDeploy: app depends on sdk, whose versions are numbered.
MCVersion == {<<>>, <<"1">>, <<"1", "0">>, <<"2">>}
MCDependencies == [a \in App |-> IF a = "app" THEN <<[app |-> "sdk", version |-> <<"1">>]>>
                                 ELSE <<>>]
MCArtifacts == [a \in App |-> {<<"1", "0">>, <<"2">>}]
MCDefault == [a \in App |-> <<"1">>]
MCMinRelease == [a \in App |-> {<<"1", "0">>}]

\* ApiDeploy: one method, with and without a redeploy, and both of them or the
\* other, with a gateway response.  B is listed after A.
MCRestAPIInput ==
    [version : ApiVersion, methods : {{"m"}}, authorizer : {NoAuthorizer, "A", "B"},
     authorizers : {<<"A">>, <<"A", "B">>}, response : {FALSE}, redeploy : BOOLEAN]
    \cup
    [version : {2}, methods : {{"n"}, {"m", "n"}}, authorizer : {NoAuthorizer, "B"},
     authorizers : {<<>>, <<"A", "B">>}, response : {TRUE}, redeploy : {TRUE}]

\* BrowserCapture: the goroutines that drain are alike.
MCSymmetry == Permutations(Drainer)

VARIABLE active \* the service that takes steps

MCTypeOK ==
    /\ PoolTypeOK /\ ShellTypeOK /\ LambdaTypeOK /\ RoleTypeOK
    /\ LoggerTypeOK /\ StackTypeOK /\ DeployTypeOK /\ CaptureTypeOK
    /\ ApiTypeOK

MCInit ==
    /\ PoolInit /\ ShellInit /\ LambdaInit /\ RoleInit
    /\ LoggerInit /\ StackInit /\ DeployInit /\ CaptureInit
    /\ ApiInit
    /\ active = "none"

\* What every service but one keeps as it is.
AllBut(service) ==
    /\ active \in {"none", service} /\ active' = service
    /\ service = "pool" \/ UNCHANGED poolVars
    /\ service = "shell" \/ UNCHANGED shellVars
    /\ service = "lambda" \/ UNCHANGED lambdaVars
    /\ service = "role" \/ UNCHANGED roleVars
    /\ service = "logger" \/ UNCHANGED loggerVars
    /\ service = "stack" \/ UNCHANGED stackVars
    /\ service = "deploy" \/ UNCHANGED deployVars
    /\ service = "capture" \/ UNCHANGED captureVars
    /\ service = "api" \/ UNCHANGED apiVars

MCNext ==
    \/ AllBut("pool") /\ PoolNext
    \/ AllBut("shell") /\ ShellNext
    \/ AllBut("lambda") /\ LambdaNext
    \/ AllBut("role") /\ RoleNext
    \/ AllBut("logger") /\ LoggerNext
    \/ AllBut("stack") /\ StackNext
    \/ AllBut("deploy") /\ DeployNext
    \/ AllBut("capture") /\ CaptureNext
    \/ AllBut("api") /\ ApiNext

mcVars == <<poolVars, shellVars, lambdaVars, roleVars, loggerVars, stackVars,
            deployVars, captureVars, apiVars, active>>

MCSpec == MCInit /\ [][MCNext]_mcVars

=============================================================================
