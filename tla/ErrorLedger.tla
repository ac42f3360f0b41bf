----------------------------- MODULE ErrorLedger -----------------------------
(***************************************************************************)
(* What a workflow run promises about errors, without saying how tasks are *)
(* walked: an error that was raised stays live until it is handed to a     *)
(* catch task or gives way to another live error, and the run ends with at *)
(* most one live error, the one it returns.  WorkflowTasks implements it.  *)
(***************************************************************************)
EXTENDS Integers

CONSTANT MaxErrors

VARIABLES
    raised,  \* errors are numbered 1 .. raised
    live,    \* errors on their way to the caller
    caught,  \* errors handed to a catch task
    masked,  \* errors dropped in favour of another live error
    ended    \* the run has returned

vars == <<raised, live, caught, masked, ended>>

Init ==
    /\ raised = 0
    /\ live = {}
    /\ caught = {}
    /\ masked = {}
    /\ ended = FALSE

Raise ==
    /\ ~ended
    /\ raised < MaxErrors
    /\ raised' = raised + 1
    /\ live' = live \cup {raised + 1}
    /\ UNCHANGED <<caught, masked>>

Catch(e) ==
    /\ ~ended
    /\ live' = live \ {e}
    /\ caught' = caught \cup {e}
    /\ UNCHANGED <<raised, masked>>

Mask(e) ==
    /\ ~ended
    /\ live \ {e} # {}
    /\ live' = live \ {e}
    /\ masked' = masked \cup {e}
    /\ UNCHANGED <<raised, caught>>

\* The last step of a run may raise or mask an error and end the run at once.
Step == Raise \/ \E e \in live : Catch(e) \/ Mask(e)

End ==
    /\ ~ended
    /\ ended' = TRUE
    /\ \A e, f \in live' : e = f
    /\ Step \/ UNCHANGED <<raised, live, caught, masked>>

Next == (Step /\ UNCHANGED ended) \/ End

Spec == Init /\ [][Next]_vars

\* Every error is accounted for.
Conservation == 1 .. raised = live \cup caught \cup masked

\* A run that raised errors and returns none handed one to a catch task.
NotSwallowed == ended /\ live = {} /\ raised > 0 => caught # {}
=============================================================================
