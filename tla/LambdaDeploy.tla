----------------------------- MODULE LambdaDeploy -----------------------------
(***************************************************************************)
(* The deploy action of the AWS lambda service with the schedule rule it   *)
(* has the cloudwatchevents service deploy, and recreateFunction.  Every   *)
(* call of the cloud is a step.  A call may fail, with or without its      *)
(* effect; then the request fails, and may be made again, changed or not.  *)
(*                                                                         *)
(* The role of the function is one step (RoleSetup has its detail).        *)
(***************************************************************************)
EXTENDS Integers, Sequences, FiniteSets, SequencesExt

CONSTANTS
    Code,           \* contents of the function
    Trigger,        \* sources of events
    MaxDeploys,     \* requests
    MaxFaults,      \* calls that fail
    MaxStatements   \* statements that others add to the policy of the function

ASSUME LambdaAssumption == Code # {} /\ {MaxDeploys, MaxFaults, MaxStatements} \subseteq Nat

VARIABLES
    deployment, \* the request that runs, or ran last
    nextCall,  \* the call that is next
    function,  \* the function, its URL, policy and event source mappings
    schedule,  \* the rule of the schedule, and the ids of its targets
    deploys,   \* requests made, and faults and statements left
    unread,    \* history: a listing failed, and the deploy went on
    branch     \* history: the deploy created or updated, or found the same code

lambdaVars == <<deployment, nextCall, function, schedule, deploys, unread, branch>>

NoCode == "none"

DeployRequest == [number : 0 .. MaxDeploys, code : Code, zip : BOOLEAN, http : BOOLEAN,
                  triggers : SUBSET Trigger, scheduled : BOOLEAN]

LambdaTypeOK ==
    /\ deployment \in DeployRequest
    /\ nextCall \in {"idle", "role", "get", "untarget", "unschedule", "configure", "code", "dropUrl",
                 "url", "create", "newUrl", "urlPermission", "triggers", "rule", "targets",
                 "clear", "target", "permission", "event", "deployed", "failed",
                 "delete", "recreate", "recreated"}
    /\ function \in [code : Code \cup {NoCode}, config : 0 .. MaxDeploys, url : BOOLEAN,
                     policy : Seq({"url", "schedule", "other"}), mappings : SUBSET Trigger]
    /\ schedule \in [rule : BOOLEAN, targets : SUBSET (1 .. MaxDeploys)]
    /\ deploys \in [made : 0 .. MaxDeploys, faults : 0 .. MaxFaults, others : 0 .. MaxStatements]
    /\ unread \in BOOLEAN /\ branch \in {"none", "create", "update", "same"}

LambdaInit ==
    /\ deployment = [number |-> 0, code |-> CHOOSE c \in Code : TRUE, zip |-> FALSE, http |-> FALSE,
                  triggers |-> {}, scheduled |-> FALSE]
    /\ nextCall = "idle"
    /\ function = [code |-> NoCode, config |-> 0, url |-> FALSE, policy |-> <<>>, mappings |-> {}]
    /\ schedule = [rule |-> FALSE, targets |-> {}]
    /\ deploys = [made |-> 0, faults |-> MaxFaults, others |-> MaxStatements]
    /\ unread = FALSE /\ branch = "none"

Exists == function.code # NoCode
Rests == nextCall \in {"idle", "deployed", "recreated", "failed"}

Fault == deploys.faults > 0 /\ deploys' = [deploys EXCEPT !.faults = @ - 1]

\* The call that is next is answered, and the step after it is taken.
Call(from, to) == nextCall = from /\ nextCall' = to /\ UNCHANGED deploys

\* Or its answer is an error, that ends the request.  The effect may be there.
CallFails ==
    /\ ~Rests
    /\ Fault
    /\ nextCall' = "failed"
    /\ UNCHANGED <<deployment, function, schedule, unread, branch>>

Answered(from, to) == Call(from, to) \/ (nextCall = from /\ nextCall' = "failed" /\ Fault)

-----------------------------------------------------------------------------
(* Requests.                                                               *)

\* A workflow asks for a deploy, or for the deploy that failed once more.
AskDeploy ==
    /\ Rests /\ deploys.made < MaxDeploys
    /\ deploys' = [deploys EXCEPT !.made = @ + 1]
    /\ deployment' \in {r \in DeployRequest : r.number = deploys.made + 1}
    /\ nextCall' = "role" /\ branch' = "none"
    /\ UNCHANGED <<function, schedule, unread>>

AskRecreate ==
    /\ Rests /\ deploys.made < MaxDeploys
    /\ deploys' = [deploys EXCEPT !.made = @ + 1]
    /\ \E c \in Code : deployment' = [deployment EXCEPT !.number = deploys.made + 1, !.code = c]
    /\ nextCall' \in {"recreate"} \cup (IF Exists THEN {"delete"} ELSE {})
    /\ UNCHANGED <<function, schedule, unread, branch>>

\* Permissions that other actions add, for a bucket or a topic.
AddStatement ==
    /\ Rests /\ Exists /\ deploys.others > 0
    /\ deploys' = [deploys EXCEPT !.others = @ - 1]
    /\ function' = [function EXCEPT !.policy = Append(@, "other")]
    /\ UNCHANGED <<deployment, nextCall, schedule, unread, branch>>

DeleteFunction ==
    /\ Answered("delete", "recreate")
    /\ function' = [function EXCEPT !.code = NoCode, !.url = FALSE, !.policy = <<>>]
    /\ UNCHANGED <<deployment, schedule, unread, branch>>

\* What there was may not have been found: the name is taken then.
Recreate ==
    /\ ~Exists
    /\ Answered("recreate", "recreated")
    /\ function' = [function EXCEPT !.code = deployment.code, !.config = deployment.number]
    /\ UNCHANGED <<deployment, schedule, unread, branch>>

NameTaken ==
    /\ nextCall \in {"create", "recreate"} /\ Exists
    /\ nextCall' = "failed"
    /\ UNCHANGED <<deployment, function, schedule, deploys, unread, branch>>

-----------------------------------------------------------------------------
(* deployFunctionInBackground.                                             *)

SetupRole ==
    /\ Call("role", "get")
    /\ UNCHANGED <<deployment, function, schedule, unread, branch>>

\* Mutant: leaves the schedule of a function that has none any more.
GetFunctionOnly ==
    /\ nextCall = "get"
    /\ \/ nextCall' = (IF Exists THEN "configure" ELSE "create") /\ UNCHANGED deploys
       \/ Exists /\ Fault /\ nextCall' = "create"
    /\ UNCHANGED <<deployment, function, schedule, unread, branch>>

\* Any error is taken for a function that is not there.
GetFunction ==
    /\ nextCall = "get"
    /\ \/ /\ nextCall' = IF ~Exists THEN "create" ELSE IF deployment.scheduled THEN "configure"
                     ELSE IF schedule.targets = {} THEN "configure" ELSE "untarget"
          /\ UNCHANGED deploys
       \/ Exists /\ Fault /\ nextCall' = "create"
    /\ UNCHANGED <<deployment, function, schedule, unread, branch>>

\* DeleteRule, for the rules that have the function as target.
RemoveTargets ==
    /\ Answered("untarget", "unschedule")
    /\ schedule' = [schedule EXCEPT !.targets = {}]
    /\ UNCHANGED <<deployment, function, unread, branch>>

RemoveRule ==
    /\ Answered("unschedule", "configure")
    /\ schedule' = [schedule EXCEPT !.rule = FALSE]
    /\ UNCHANGED <<deployment, function, unread, branch>>

\* A zip file that is what the function has ends the deploy; the check may miss it.
UpdateConfiguration ==
    /\ \E same \in {TRUE, FALSE} :
          /\ same => deployment.zip /\ function.code = deployment.code
          /\ Answered("configure", IF same THEN "deployed" ELSE "code")
          /\ branch' = IF same THEN "same" ELSE "update"
    /\ function' = [function EXCEPT !.config = deployment.number]
    /\ UNCHANGED <<deployment, schedule, unread>>

UpdateCode ==
    /\ Answered("code", IF deployment.http THEN "dropUrl" ELSE "triggers")
    /\ function' = [function EXCEPT !.code = deployment.code]
    /\ UNCHANGED <<deployment, schedule, unread, branch>>

\* Its error is ignored; the URL that is still there fails the next call.
DropUrl ==
    /\ nextCall = "dropUrl" /\ nextCall' = "url"
    /\ \/ function' = [function EXCEPT !.url = FALSE] /\ UNCHANGED deploys
       \/ Fault /\ UNCHANGED function
    /\ UNCHANGED <<deployment, schedule, unread, branch>>

CreateUrl(from, to) ==
    /\ IF function.url THEN nextCall = from /\ nextCall' = "failed" /\ UNCHANGED deploys
       ELSE Answered(from, to)
    /\ function' = [function EXCEPT !.url = TRUE]
    /\ UNCHANGED <<deployment, schedule, unread, branch>>

CreateFunction ==
    /\ ~Exists
    /\ Answered("create", IF deployment.http THEN "newUrl" ELSE "triggers")
    /\ function' = [function EXCEPT !.code = deployment.code, !.config = deployment.number]
    /\ branch' = "create"
    /\ UNCHANGED <<deployment, schedule, unread>>

\* Mutant: the statement is the same when it has the same id, that is new.
SetupPermissionById(from, source, to) ==
    /\ Answered(from, to)
    /\ function' = [function EXCEPT !.policy = Append(@, source)]
    /\ UNCHANGED <<deployment, schedule, unread, branch>>

\* setupPermission: a statement of another id is the same when it is the last.
SetupPermission(from, source, to) ==
    /\ Answered(from, to)
    /\ function' = IF function.policy # <<>> /\ Last(function.policy) = source THEN function
                   ELSE [function EXCEPT !.policy = Append(@, source)]
    /\ UNCHANGED <<deployment, schedule, unread, branch>>

\* A policy that cannot be read is taken for none.
SetupPermissionUnread ==
    /\ nextCall = "permission" /\ Fault /\ nextCall' = "event"
    /\ function' = [function EXCEPT !.policy = Append(@, "schedule")]
    /\ unread' = TRUE
    /\ UNCHANGED <<deployment, schedule, branch>>

AfterTriggers == IF deployment.scheduled THEN "rule" ELSE "deployed"

\* setupTriggerSource creates the mappings that are missing, one by one.
SetupTrigger ==
    /\ \E t \in deployment.triggers \ function.mappings :
          /\ Answered("triggers", "triggers")
          /\ function' = [function EXCEPT !.mappings = @ \cup {t}]
    /\ UNCHANGED <<deployment, schedule, unread, branch>>

EndTriggers ==
    /\ deployment.triggers \subseteq function.mappings
    /\ Call("triggers", AfterTriggers)
    /\ UNCHANGED <<deployment, function, schedule, unread, branch>>

PutRule ==
    /\ Answered("rule", "targets")
    /\ schedule' = [schedule EXCEPT !.rule = TRUE]
    /\ UNCHANGED <<deployment, function, unread, branch>>

\* deployRule: targets that cannot be listed have changed.
ListTargets ==
    /\ \/ /\ Call("targets", IF Cardinality(schedule.targets) = 1 THEN "permission" ELSE "clear")
          /\ UNCHANGED unread
       \/ nextCall = "targets" /\ Fault /\ nextCall' = "clear" /\ unread' = TRUE
    /\ UNCHANGED <<deployment, function, schedule, branch>>

\* deleteRuleTargets: targets that cannot be listed are none.
ClearTargets ==
    /\ \/ /\ Answered("clear", "target")
          /\ schedule' = [schedule EXCEPT !.targets = {}]
          /\ UNCHANGED unread
       \/ /\ nextCall = "clear" /\ Fault /\ nextCall' = "target"
          /\ unread' = TRUE /\ UNCHANGED schedule
    /\ UNCHANGED <<deployment, function, branch>>

PutTargets ==
    /\ Answered("target", "permission")
    /\ schedule' = [schedule EXCEPT !.targets = @ \cup {deployment.number}]
    /\ UNCHANGED <<deployment, function, unread, branch>>

PutEvent ==
    /\ Call("event", "deployed")
    /\ UNCHANGED <<deployment, function, schedule, unread, branch>>

LambdaNext ==
    \/ AskDeploy \/ AskRecreate \/ AddStatement \/ CallFails
    \/ DeleteFunction \/ Recreate \/ NameTaken
    \/ SetupRole \/ GetFunction \/ RemoveTargets \/ RemoveRule
    \/ UpdateConfiguration \/ UpdateCode \/ DropUrl
    \/ CreateUrl("url", "triggers") \/ CreateFunction \/ CreateUrl("newUrl", "urlPermission")
    \/ SetupPermission("urlPermission", "url", "triggers")
    \/ SetupTrigger \/ EndTriggers
    \/ PutRule \/ ListTargets \/ ClearTargets \/ PutTargets
    \/ SetupPermission("permission", "schedule", "event") \/ SetupPermissionUnread
    \/ PutEvent

LambdaSpec == LambdaInit /\ [][LambdaNext]_lambdaVars

-----------------------------------------------------------------------------
(* Properties.                                                             *)

\* Whatever failed before, a deploy that succeeds leaves what it was asked for:
\* code and configuration; no schedule if it has none, unless it created the
\* function; the triggers, the URL, one target of the schedule and its permission
\* too, but for a zip file that was there already, after which the deploy goes
\* no further, and listings that failed (deployFunctionInBackground, deployRule).
DeployedAsAsked ==
    nextCall = "deployed" =>
       /\ function.code = deployment.code /\ function.config = deployment.number
       /\ ~deployment.scheduled /\ branch # "create" => schedule.targets = {}
       /\ branch # "same" =>
             /\ deployment.triggers \subseteq function.mappings
             /\ deployment.http => function.url
             /\ deployment.scheduled =>
                   /\ schedule.rule /\ "schedule" \in ToSet(function.policy)
                   /\ unread \/ Cardinality(schedule.targets) = 1

\* Deploying again adds no second permission for the schedule, unless one for
\* something else came after the first, or the policy was not read
\* (setupPermission).
PermissionsStay ==
    ~unread => \A i \in 1 .. Len(function.policy) - 1 :
                  function.policy[i] = "schedule" => function.policy[i + 1] # "schedule"

=============================================================================
