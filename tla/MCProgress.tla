----------------------------- MODULE MCProgress ------------------------------
(***************************************************************************)
(* Instances of the services that wait for something: a load test for its  *)
(* clients, and docker:run for a container.  They share no state: a        *)
(* behaviour takes the steps of one of them.                               *)
(***************************************************************************)
EXTENDS StressTest, DockerRun

VARIABLE busy \* the service that takes steps

ProgressTypeOK == StressTypeOK /\ DockerTypeOK

ProgressInit == StressInit /\ DockerInit /\ busy = "none"

\* What the other service keeps as it is.
OtherIdle(service) ==
    /\ busy \in {"none", service} /\ busy' = service
    /\ service = "stress" \/ UNCHANGED stressVars
    /\ service = "docker" \/ UNCHANGED dockerVars

ProgressNext ==
    \/ OtherIdle("stress") /\ StressNext
    \/ OtherIdle("docker") /\ DockerNext

progressVars == <<stressVars, dockerVars, busy>>

ProgressSpec ==
    /\ ProgressInit /\ [][ProgressNext]_progressVars
    /\ StressFairness /\ DockerFairness

=============================================================================
