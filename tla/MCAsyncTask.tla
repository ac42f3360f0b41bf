----------------------------- MODULE MCAsyncTask -----------------------------
(***************************************************************************)
(* Two asynchronous actions, one of them an exit, and two others, one of   *)
(* which jumps and repeats.                                                *)
(***************************************************************************)
EXTENDS AsyncTask

Act(async, service, repeat, outcome) ==
    [async |-> async, service |-> service, repeat |-> repeat, outcome |-> outcome]

MixedActions ==
    <<Act(TRUE, "call", 1, {"init", "handler"}),
      Act(FALSE, "call", 1, {"init", "handler"}),
      Act(TRUE, "exit", 1, {"skip", "post"}),
      Act(FALSE, "goto", 2, {"post"})>>
=============================================================================
