------------------------------ MODULE AppDeploy ------------------------------
(***************************************************************************)
(* The deployment service (service/deployment/deploy): an application and, *)
(* before it, what it depends on are copied to a target unless the session *)
(* remembers them or the target has them.  A version is the sequence of    *)
(* its characters, as versions are matched by common prefix.               *)
(***************************************************************************)
EXTENDS Integers, Sequences, SequencesExt

CONSTANTS
    App,
    Version,        \* <<>> asks for no version in particular
    Dependencies,   \* of every application: the requests deployed before it
    Versioned,      \* applications whose meta has Versioning
    VersionChecked, \* applications whose meta has a VersionCheck
    Artifacts,      \* the versions of an application that exist
    Default,        \* the version that an unversioned transfer copies
    MinRelease,     \* the keys of MinReleaseVersion
    Clears,         \* applications whose Pre commands remove what is there
    MaxChanges      \* changes of the target by others

ASSUME DeployAssumption ==
    /\ Versioned \cup VersionChecked \cup Clears \subseteq App
    /\ \A a \in App : Dependencies[a] \in Seq([app : App, version : Version])
    /\ \A a \in App : Artifacts[a] \cup MinRelease[a] \cup {Default[a]} \subseteq Version \ {<<>>}
    /\ <<>> \in Version /\ Version \subseteq Seq(STRING) /\ MaxChanges \in Nat

VARIABLES
    installed, \* versions on the target
    recorded,  \* session.Deployed
    requests,  \* the requests in progress: each one but the first is a dependency
    outcome,   \* of the last request
    changes,   \* changes by others still to come
    asked,     \* history: what the last request asked for
    spoiled    \* history: applications that others changed, or whose deployment
               \* failed when it had begun to change them, since they were verified

deployVars == <<installed, recorded, requests, outcome, changes, asked, spoiled>>

NotThere == <<"none">>
NothingAsked == [app |-> "none", version |-> <<>>]
DeployStep == {"session", "dependencies", "pre", "copy", "run", "verify"}

DeployTypeOK ==
    /\ installed \in [App -> (Version \ {<<>>}) \cup {NotThere}]
    /\ recorded \in [App -> Version \cup {NotThere}]
    /\ requests \in Seq([app : App, version : Version, force : BOOLEAN, step : DeployStep,
                         next : Nat \ {0}])
    /\ outcome \in {"none", "ok", "error"}
    /\ changes \in 0 .. MaxChanges /\ spoiled \subseteq App
    /\ asked \in [app : App, version : Version] \cup {NothingAsked}

DeployInit ==
    /\ installed = [a \in App |-> NotThere]
    /\ recorded = [a \in App |-> NotThere]
    /\ requests = <<>> /\ outcome = "none"
    /\ changes = MaxChanges /\ spoiled = {} /\ asked = NothingAsked

-----------------------------------------------------------------------------
\* MatchVersion: the shorter one is a prefix of the other, or one is not given.
MatchVersion(expected, actual) == IsPrefix(expected, actual) \/ IsPrefix(actual, expected)

\* checkIfDeployedOnSystem: without a version check, that the destination exists.
DeployedOnSystem(a, version) ==
    /\ installed[a] # NotThere
    /\ a \in VersionChecked => MatchVersion(version, installed[a])

\* checkIfDeployedOnSession.
Remembered(r) == recorded[r.app] # NotThere /\ MatchVersion(r.version, recorded[r.app])

Deployment(a, version, force) ==
    [app |-> a, version |-> version, force |-> force, step |-> "session", next |-> 1]

Current == Last(requests)
At(step) == requests # <<>> /\ Current.step = step
Replaced(r) == Append(Front(requests), r)
GoesOn(step) == requests' = Replaced([Current EXCEPT !.step = step])

\* A request returns to the one that it is a dependency of.
Returns ==
    /\ requests' = IF Len(requests) = 1 THEN <<>>
                   ELSE [Front(requests) EXCEPT ![Len(requests) - 1].next = @ + 1]
    /\ outcome' = IF Len(requests) = 1 THEN "ok" ELSE outcome

-----------------------------------------------------------------------------
AskApp(a, version, force) ==
    /\ requests = <<>>
    /\ requests' = <<Deployment(a, version, force)>>
    /\ outcome' = "none" /\ asked' = [app |-> a, version |-> version]
    /\ UNCHANGED <<installed, recorded, changes, spoiled>>

\* What the session remembers is not deployed again, forced or not.
CheckSession ==
    /\ At("session")
    /\ IF Remembered(Current) THEN Returns
       ELSE GoesOn("dependencies") /\ UNCHANGED outcome
    /\ UNCHANGED <<installed, recorded, changes, asked, spoiled>>

\* deployDependenciesIfNeeded: the next one, unforced.
DeployDependency ==
    /\ At("dependencies") /\ Current.next <= Len(Dependencies[Current.app])
    /\ LET d == Dependencies[Current.app][Current.next]
       IN  requests' = Append(requests, Deployment(d.app, d.version, FALSE))
    /\ UNCHANGED <<installed, recorded, outcome, changes, asked, spoiled>>

\* What is on the target is not recorded; a check that fails finds nothing.
CheckSystem ==
    /\ At("dependencies") /\ Current.next > Len(Dependencies[Current.app])
    /\ \/ ~Current.force /\ DeployedOnSystem(Current.app, Current.version) /\ Returns
       \/ GoesOn("pre") /\ UNCHANGED outcome
    /\ UNCHANGED <<installed, recorded, changes, asked, spoiled>>

\* discoverTransfer: a major version alone may become a key of MinReleaseVersion.
Discovered(a, version) ==
    {version} \cup (IF a \in Versioned /\ Len(version) = 1
                    THEN {k \in MinRelease[a] : IsPrefix(version, k)} ELSE {})
Copied(a, version) == IF a \notin Versioned \/ version = <<>> THEN {Default[a]}
                      ELSE {v \in Artifacts[a] : IsPrefix(version, v)}

\* The transfer is discovered before the commands and transfers of Pre run.
RunPre ==
    /\ At("pre")
    /\ \E version \in Discovered(Current.app, Current.version) :
          requests' = Replaced([Current EXCEPT !.version = version, !.step = "copy"])
    /\ installed' = IF Current.app \in Clears THEN [installed EXCEPT ![Current.app] = NotThere]
                    ELSE installed
    /\ UNCHANGED <<recorded, outcome, changes, asked, spoiled>>

CopyApp ==
    /\ At("copy") /\ GoesOn("run")
    /\ \E copied \in Copied(Current.app, Current.version) :
          installed' = [installed EXCEPT ![Current.app] = copied]
    /\ UNCHANGED <<recorded, outcome, changes, asked, spoiled>>

\* The commands and transfers after the copy.
RunCommands ==
    /\ At("run") /\ GoesOn("verify")
    /\ UNCHANGED <<installed, recorded, outcome, changes, asked, spoiled>>

\* updateSessionDeployment, when the target has the version.
Verify ==
    /\ At("verify") /\ DeployedOnSystem(Current.app, Current.version)
    /\ recorded' = [recorded EXCEPT ![Current.app] = Current.version]
    /\ spoiled' = spoiled \ {Current.app}
    /\ Returns
    /\ UNCHANGED <<installed, changes, asked>>

\* The target may be changed, and not yet verified.
Changing(a) == requests # <<>> /\ Current.app = a /\ Current.step \in {"copy", "run", "verify"}
NowSpoiled == spoiled \cup {a \in App : Changing(a)}

\* Mutant: a dependency that fails only ends the loop over the dependencies.
DependencyFails ==
    /\ requests # <<>> /\ spoiled' = NowSpoiled
    /\ IF Len(requests) = 1 THEN requests' = <<>> /\ outcome' = "error" ELSE Returns
    /\ UNCHANGED <<installed, recorded, changes, asked>>

\* Any step may fail, and with it every request in progress.
DeployFails ==
    /\ requests # <<>> /\ spoiled' = NowSpoiled
    /\ requests' = <<>> /\ outcome' = "error"
    /\ UNCHANGED <<installed, recorded, changes, asked>>

\* Others install or remove an application.
OthersChange(a) ==
    /\ changes > 0 /\ changes' = changes - 1
    /\ \E v \in (Version \ {<<>>}) \cup {NotThere} : installed' = [installed EXCEPT ![a] = v]
    /\ spoiled' = spoiled \cup {a}
    /\ UNCHANGED <<recorded, requests, outcome, asked>>

DeployNext ==
    \/ \E a \in App : OthersChange(a)
    \/ \E a \in App, version \in Version, force \in BOOLEAN : AskApp(a, version, force)
    \/ CheckSession \/ DeployDependency \/ CheckSystem \/ RunPre \/ CopyApp \/ RunCommands
    \/ Verify \/ DeployFails

DeploySpec == DeployInit /\ [][DeployNext]_deployVars

-----------------------------------------------------------------------------
(* Properties.                                                             *)

Needed(a) == {a} \cup {Dependencies[a][i].app : i \in DOMAIN Dependencies[a]}

\* After a request that ended well what it asked for is on the target, in a
\* matching version, and so is what it depends on, whether they were deployed now,
\* found there or remembered from any request before, some of which failed when
\* they had begun to change the target.  A record that says less than what is
\* asked for matches every version that begins with it (checkIfDeployedOnSession,
\* deployDependenciesIfNeeded, deploy).
OkIsThere ==
    outcome = "ok" =>
       /\ \A a \in Needed(asked.app) \ spoiled : installed[a] # NotThere
       /\ asked.app \in VersionChecked \ spoiled =>
             \/ MatchVersion(asked.version, installed[asked.app])
             \/ IsStrictPrefix(recorded[asked.app], asked.version)

=============================================================================
