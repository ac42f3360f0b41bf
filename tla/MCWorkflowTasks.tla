--------------------------- MODULE MCWorkflowTasks ---------------------------
(***************************************************************************)
(* Trees of tasks for model checking WorkflowTasks and what is built on it.*)
(* Every tree is a function of the node; a task without an entry is a leaf *)
(* that calls a service.                                                   *)
(***************************************************************************)
EXTENDS WorkflowTasks, TLC

CONSTANTS main, sub, g, a, b, c, d, h, rc, rd, x, none, t1, t2

Over(nodes, given, default) ==
    [n \in nodes |-> IF n \in DOMAIN given THEN given[n] ELSE default]

Act(service, target, outcome) ==
    [service |-> service, target |-> target, tag |-> t1, skip |-> FALSE,
     repeat |-> 1, outcome |-> outcome]

Faults == {"handler", "post"}

(* Errors at every level: a group g with catch c and defer d inside a workflow
   with catch rc and defer rd; the last task exits.  *)
ErrorTask == {g, a, b, c, d, h, rc, rd}
ErrorTasks == Over({main} \cup ErrorTask, (main :> <<g, h, rc, rd>>) @@ (g :> <<a, c, b, d>>), <<>>)
ErrorCatch == Over({main} \cup ErrorTask, (main :> rc) @@ (g :> c), none)
ErrorDefer == Over({main} \cup ErrorTask, (main :> rd) @@ (g :> d), none)
ErrorActions ==
    [t \in ErrorTask |->
        CASE t = g -> <<Act("call", none, {"post"})>>
          [] t = a -> <<[Act("call", none, Faults \cup {"skip", "init"}) EXCEPT !.repeat = 2, !.skip = TRUE],
                        Act("call", none, {"post"})>>
          [] t = b -> <<[Act("exit", none, {"post"}) EXCEPT !.skip = TRUE, !.tag = t2],
                        Act("call", none, {})>>
          [] t = c -> <<Act("call", none, {"handler"})>>
          [] OTHER -> <<Act("call", none, {"handler"})>>]
ErrorOutcome ==
    Over({main} \cup ErrorTask,
         (a :> {"skip", "init", "post"}) @@ (g :> {"post"}) @@ (b :> {"skip", "post"})
         @@ (rd :> {"skip", "post"}) @@ (main :> {"skip", "init", "post"}), {})
ErrorTags == [w \in {main} |-> {}]

(* Jumps: a switch that runs a task in place, gotos forwards, backwards and out
   of a switch, a workflow run by a task of another, an exit in either.  *)
JumpTask == {g, a, b, c, d, h, x, rc}
JumpTasks ==
    Over({main, sub} \cup JumpTask,
         (main :> <<a, g, h, rc>>) @@ (g :> <<b, d>>) @@ (sub :> <<c, d>>), <<>>)
JumpCatch == Over({main, sub} \cup JumpTask, (main :> rc), none)
JumpDefer == Over({main, sub} \cup JumpTask, (sub :> d), none)
JumpActions ==
    [t \in JumpTask |->
        CASE t = a -> <<[Act("switch", x, {}) EXCEPT !.skip = TRUE, !.tag = t2],
                        Act("call", none, {"handler"})>>
          [] t = b -> <<[Act("goto", h, {"post"}) EXCEPT !.skip = TRUE],
                        [Act("exit", none, {}) EXCEPT !.skip = TRUE, !.tag = t2],
                        Act("call", none, {"post"})>>
          [] t = c -> <<[Act("exit", none, {"post"}) EXCEPT !.skip = TRUE],
                        [Act("goto", d, {"post"}) EXCEPT !.skip = TRUE, !.tag = t2],
                        Act("call", none, Faults)>>
          [] t = h -> <<[Act("run", sub, {"post"}) EXCEPT !.skip = TRUE],
                        [Act("exit", none, {}) EXCEPT !.skip = TRUE, !.tag = t2],
                        [Act("call", none, {"skip", "init", "handler"}) EXCEPT !.repeat = 2]>>
          [] t = x -> <<[Act("goto", a, {"post"}) EXCEPT !.skip = TRUE, !.tag = t2],
                        Act("call", none, {"post"})>>
          [] t = rc -> <<[Act("goto", g, {}) EXCEPT !.skip = TRUE, !.tag = t2],
                         Act("call", none, {"post"})>>
          [] t = d -> <<Act("call", none, {}), [Act("call", none, {"handler"}) EXCEPT !.tag = t2]>>
          [] OTHER -> <<Act("call", none, {})>>]
JumpOutcome ==
    Over({main, sub} \cup JumpTask,
         (sub :> {"skip", "init", "post"}) @@ (g :> {"skip", "init"}) @@ (b :> {"skip", "post"})
         @@ (x :> {"init"}) @@ (d :> {"skip"}), {})
JumpTags == (main :> {}) @@ (sub :> {t2})

(* A tag is asked for: task a has it, and runs task x, which does not, in the
   middle of its own actions.  *)
SelectTask == {a, x}
SelectTasks == Over({main} \cup SelectTask, main :> <<a, x>>, <<>>)
SelectNoTask == Over({main} \cup SelectTask, <<>>, none)
SelectActions ==
    (a :> <<Act("switch", x, {}), Act("call", none, {}), [Act("call", none, {}) EXCEPT !.tag = t2]>>)
    @@ (x :> <<[Act("call", none, {}) EXCEPT !.tag = t2]>>)
SelectOutcome == Over({main} \cup SelectTask, <<>>, {})
SelectTags == main :> {t1}

(* A goto in the deferred task of the workflow.  *)
RetryTask == {a, d}
RetryTasks == Over({main} \cup RetryTask, main :> <<a, d>>, <<>>)
RetryCatch == Over({main} \cup RetryTask, main :> none, none)
RetryDefer == Over({main} \cup RetryTask, main :> d, none)
RetryActions == (a :> <<Act("call", none, {})>>) @@ (d :> <<Act("goto", a, {})>>)
RetryOutcome == Over({main} \cup RetryTask, main :> {}, {})
RetryTags == [w \in {main} |-> {}]
=============================================================================
