---------------------------- MODULE WorkflowReport ----------------------------
(***************************************************************************)
(* WorkflowTasks with the command line runner as its listener.  Publish    *)
(* calls the listener in the goroutine that publishes (cli/runner.go:      *)
(* processErrorEvent), so every step of the walk also moves the runner.    *)
(* When the run is over Runner.Run exits the program with code 1 if an     *)
(* error is left in the runner.                                            *)
(***************************************************************************)
EXTENDS WorkflowTasks

VARIABLES
    runnerErr,  \* Runner.err # nil
    failed      \* history: a catch task with the Fail flag was run

reportVars == <<vars, runnerErr, failed>>

Reports(events) == {i \in DOMAIN events : events[i].type \in {"Error", "ResetError"}}

\* Mutant: ResetError does not clear the error.
ProcessErrorEventsSticky(events) ==
    runnerErr \/ \E i \in Reports(events) : events[i].type = "Error"

\* ErrorEvent sets the error and ResetError clears it: the last one decides.
ProcessErrorEvents(events) ==
    IF Reports(events) = {}
      THEN runnerErr
      ELSE \E i \in Reports(events) : /\ events[i].type = "Error"
                                      /\ \A j \in Reports(events) : j <= i

ReportInit ==
    /\ Init
    /\ runnerErr = FALSE
    /\ failed = FALSE

ReportNext ==
    /\ Next
    /\ runnerErr' = ProcessErrorEvents(published')
    /\ failed' = (failed \/ (caught' # caught /\ Top.node' \in Fail))

ReportSpec == ReportInit /\ [][ReportNext]_reportVars

\* The exit code tells how the workflow ended: 1 whenever it returns an error,
\* and 0 when it returns none, unless a catch task is there to fail the run.
ExitCodeTells ==
    control = "done" => /\ err # 0 => runnerErr
                        /\ err = 0 /\ ~failed => ~runnerErr

\* A catch task with the Fail flag makes the program fail.
FailFlagFails == control = "done" /\ failed => runnerErr
=============================================================================
