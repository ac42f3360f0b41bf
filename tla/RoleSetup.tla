------------------------------ MODULE RoleSetup -------------------------------
(***************************************************************************)
(* setupRole of the AWS iam service: it creates a role that is not there,  *)
(* attaches managed policies, puts the inline ones and removes the rest.   *)
(* Every call of the cloud is a step, that may fail; the request fails     *)
(* then, and may be made again, changed or not.                            *)
(***************************************************************************)
EXTENDS Integers, FiniteSets

CONSTANTS
    Managed,      \* managed policies, to attach
    Inline,       \* names of inline policies
    Document,     \* their documents
    MaxSetups,    \* requests
    MaxErrors     \* calls that fail

ASSUME RoleAssumption ==
    IsFiniteSet(Inline) /\ Document # {} /\ {MaxSetups, MaxErrors} \subseteq Nat

VARIABLES
    wanted,    \* the request: Attach and Define
    role,      \* the role of the cloud: attached and defined
    setup,     \* the call that is next, what is known of the role, and what is left
    setups,    \* requests made and failed so far, and errors left
    hadInline  \* history: what was defined, and is asked for, since the first of them

roleVars == <<wanted, role, setup, setups, hadInline>>

NoDocument == "none"
Policies == [Inline -> Document \cup {NoDocument}]
Undefined == [p \in Inline |-> NoDocument]
NamesOf(defined) == {p \in Inline : defined[p] # NoDocument}

RoleTypeOK ==
    /\ wanted \in [attach : SUBSET Managed, define : Policies]
    /\ role \in [exists : BOOLEAN, attached : SUBSET Managed, defined : Policies]
    /\ setup \in [next : {"rest", "get", "create", "again", "trust", "attached", "attach", "detach",
                          "defined", "define", "read", "delete", "put", "remove", "ready", "failed"},
                  known : BOOLEAN, todo : SUBSET (Managed \cup Inline),
                  listed : SUBSET (Managed \cup Inline), policy : Inline \cup {NoDocument},
                  guessed : BOOLEAN]
    /\ setups \in [made : 0 .. MaxSetups, errors : 0 .. MaxErrors, failed : 0 .. MaxSetups]
    /\ hadInline \subseteq Inline

\* guessed: a listing failed, and nothing was taken for it.
NoSetup == [next |-> "rest", known |-> FALSE, todo |-> {}, listed |-> {}, policy |-> NoDocument,
            guessed |-> FALSE]

RoleInit ==
    /\ wanted = [attach |-> {}, define |-> Undefined]
    /\ role = [exists |-> FALSE, attached |-> {}, defined |-> Undefined]
    /\ setup = NoSetup
    /\ setups = [made |-> 0, errors |-> MaxErrors, failed |-> 0]
    /\ hadInline = {}

\* Others may have made the role, with policies of their own.
OthersMakeRole ==
    /\ setups.made = 0 /\ ~role.exists
    /\ role' = [exists |-> TRUE, attached |-> Managed,
                defined |-> [p \in Inline |-> CHOOSE d \in Document : TRUE]]
    /\ UNCHANGED <<wanted, setup, setups, hadInline>>

\* Set-ups that failed count until one that defines something succeeds.
FailedSoFar ==
    IF setup.next = "failed" THEN setups.failed + 1
    ELSE IF setup.next = "ready" /\ wanted.define # Undefined THEN 0 ELSE setups.failed

\* A request that failed may be made again; one that defines nothing leaves the
\* inline policies as they are.
AskSetup ==
    /\ setup.next \in {"rest", "ready", "failed"} /\ setups.made < MaxSetups
    /\ wanted' \in [attach : SUBSET Managed, define : Policies]
    /\ setup' = [NoSetup EXCEPT !.next = "get"]
    /\ setups' = [setups EXCEPT !.made = @ + 1, !.failed = FailedSoFar]
    /\ hadInline' = IF wanted'.define = Undefined THEN hadInline
                    ELSE (hadInline \cup NamesOf(role.defined)) \cap NamesOf(wanted'.define)
    /\ UNCHANGED role

RoleError == setups.errors > 0 /\ setups' = [setups EXCEPT !.errors = @ - 1]
ToStep(s, next) == [s EXCEPT !.next = next]
SetupGoes(next) == setup' = ToStep(setup, next)

\* The next call is answered, or its answer is an error, with the effect there.
RoleCalls(from, to) ==
    /\ setup.next = from
    /\ \/ setup' = to /\ UNCHANGED setups
       \/ SetupGoes("failed") /\ RoleError

\* Or it has no effect; the answers of listings and of GetRole are not looked at.
SetupFails ==
    /\ setup.next \in {"create", "trust", "attach", "detach", "read", "delete", "put", "remove"}
    /\ SetupGoes("failed") /\ RoleError
    /\ UNCHANGED <<wanted, role, hadInline>>

GetRole ==
    /\ setup.next = "get"
    /\ \/ /\ setup' = [setup EXCEPT !.next = IF role.exists THEN "trust" ELSE "create",
                                    !.known = role.exists]
          /\ UNCHANGED setups
       \/ SetupGoes("create") /\ RoleError
    /\ UNCHANGED <<wanted, role, hadInline>>

CreateRole ==
    /\ ~role.exists
    /\ RoleCalls("create", ToStep(setup, "again"))
    /\ role' = [role EXCEPT !.exists = TRUE]
    /\ UNCHANGED <<wanted, hadInline>>

RoleTaken ==
    /\ setup.next = "create" /\ role.exists
    /\ SetupGoes("failed")
    /\ UNCHANGED <<wanted, role, setups, hadInline>>

GetRoleAgain ==
    /\ setup.next = "again"
    /\ \/ setup' = [setup EXCEPT !.next = "trust", !.known = TRUE] /\ UNCHANGED setups
       \/ SetupGoes("trust") /\ RoleError
    /\ UNCHANGED <<wanted, role, hadInline>>

\* UpdateAssumeRolePolicy, and whether there is something to attach or define.
AfterAttach == IF wanted.define = Undefined THEN "ready"
               ELSE IF setup.known THEN "defined" ELSE "failed"
UpdateTrust ==
    /\ RoleCalls("trust", ToStep(setup, IF wanted.attach = {} THEN AfterAttach
                                  ELSE IF setup.known THEN "attached" ELSE "failed"))
    /\ UNCHANGED <<wanted, role, hadInline>>

-----------------------------------------------------------------------------
(* setupAttachedRolePolicy.                                                *)

\* What is listed and not asked for is left for the end.
RoleLists(from, next, asked, present) ==
    /\ setup.next = from
    /\ \/ /\ setup' = [setup EXCEPT !.next = next, !.todo = asked, !.listed = present]
          /\ UNCHANGED setups
       \/ /\ setup' = [setup EXCEPT !.next = next, !.todo = asked, !.listed = {}, !.guessed = TRUE]
          /\ RoleError
    /\ UNCHANGED <<wanted, role, hadInline>>

ListAttached == RoleLists("attached", "attach", wanted.attach, role.attached)

AttachPolicy(p) ==
    /\ p \in setup.todo \ setup.listed
    /\ RoleCalls("attach", [setup EXCEPT !.todo = @ \ {p}])
    /\ role' = [role EXCEPT !.attached = @ \cup {p}]
    /\ UNCHANGED <<wanted, hadInline>>

EndAttach ==
    /\ setup.next = "attach" /\ setup.todo \subseteq setup.listed
    /\ setup' = [setup EXCEPT !.next = "detach", !.todo = setup.listed \ wanted.attach]
    /\ UNCHANGED <<wanted, role, setups, hadInline>>

DetachPolicy(p) ==
    /\ p \in setup.todo
    /\ RoleCalls("detach", [setup EXCEPT !.todo = @ \ {p}])
    /\ role' = [role EXCEPT !.attached = @ \ {p}]
    /\ UNCHANGED <<wanted, hadInline>>

EndDetach ==
    /\ setup.next = "detach" /\ setup.todo = {}
    /\ SetupGoes(AfterAttach)
    /\ UNCHANGED <<wanted, role, setups, hadInline>>

-----------------------------------------------------------------------------
(* setupRolePolicy.                                                        *)

ListDefined == RoleLists("defined", "define", NamesOf(wanted.define), NamesOf(role.defined))

DefinePolicy(p) ==
    /\ setup.next = "define" /\ p \in setup.todo
    /\ setup' = [setup EXCEPT !.next = IF p \in setup.listed THEN "read" ELSE "put",
                              !.todo = @ \ {p}, !.policy = p]
    /\ UNCHANGED <<wanted, role, setups, hadInline>>

\* Mutant: keeps a policy that has the name.
ReadPolicyName ==
    /\ setup.next = "read"
    /\ SetupGoes("define")
    /\ UNCHANGED <<wanted, role, setups, hadInline>>

\* The document that is read is encoded, so that the same one may look changed.
ReadPolicy ==
    /\ setup.next = "read"
    /\ \/ SetupGoes("delete")
       \/ role.defined[setup.policy] = wanted.define[setup.policy] /\ SetupGoes("define")
    /\ UNCHANGED <<wanted, role, setups, hadInline>>

\* Mutant: deletes the policies first, and puts the new ones then.
DeletePolicyFirst ==
    /\ RoleCalls("delete", ToStep(setup, "put"))
    /\ role' = [role EXCEPT !.defined = Undefined]
    /\ UNCHANGED <<wanted, hadInline>>

DeletePolicy ==
    /\ RoleCalls("delete", ToStep(setup, "put"))
    /\ role' = [role EXCEPT !.defined[setup.policy] = NoDocument]
    /\ UNCHANGED <<wanted, hadInline>>

PutPolicy ==
    /\ RoleCalls("put", ToStep(setup, "define"))
    /\ role' = [role EXCEPT !.defined[setup.policy] = wanted.define[setup.policy]]
    /\ UNCHANGED <<wanted, hadInline>>

EndDefine ==
    /\ setup.next = "define" /\ setup.todo = {}
    /\ setup' = [setup EXCEPT !.next = "remove", !.todo = setup.listed \ NamesOf(wanted.define)]
    /\ UNCHANGED <<wanted, role, setups, hadInline>>

RemovePolicy(p) ==
    /\ p \in setup.todo
    /\ RoleCalls("remove", [setup EXCEPT !.todo = @ \ {p}])
    /\ role' = [role EXCEPT !.defined[p] = NoDocument]
    /\ UNCHANGED <<wanted, hadInline>>

EndRemove ==
    /\ setup.next = "remove" /\ setup.todo = {}
    /\ SetupGoes("ready")
    /\ UNCHANGED <<wanted, role, setups, hadInline>>

RoleNext ==
    \/ OthersMakeRole \/ AskSetup \/ SetupFails \/ GetRole \/ CreateRole \/ RoleTaken
    \/ GetRoleAgain \/ UpdateTrust \/ ListAttached \/ EndAttach \/ EndDetach
    \/ \E p \in Managed : AttachPolicy(p) \/ DetachPolicy(p)
    \/ ListDefined \/ ReadPolicy \/ DeletePolicy \/ PutPolicy \/ EndDefine \/ EndRemove
    \/ \E p \in Inline : DefinePolicy(p) \/ RemovePolicy(p)

RoleSpec == RoleInit /\ [][RoleNext]_roleVars

-----------------------------------------------------------------------------
(* Properties.                                                             *)

\* Whatever failed before, a setup that succeeds leaves the role with the
\* policies that were asked for and no others, unless a listing failed; of a kind
\* that none was asked for it leaves what there is (setupRole).
RoleAsAsked ==
    setup.next = "ready" =>
       /\ wanted.attach \subseteq role.attached
       /\ \A p \in NamesOf(wanted.define) : role.defined[p] = wanted.define[p]
       /\ ~setup.guessed =>
             /\ wanted.attach # {} => role.attached = wanted.attach
             /\ wanted.define # Undefined => role.defined = wanted.define

\* A function may use the role meanwhile: of the policies that it had and that
\* are asked for ever since, a set-up that fails costs one at most, and so does
\* the one in progress, however often it is made again and whatever failed before
\* (setupRolePolicy deletes a policy just before it puts it).
OneLostEach ==
    Cardinality(hadInline \ NamesOf(role.defined))
       <= setups.failed + (IF setup.next \in {"put", "failed"} THEN 1 ELSE 0)

=============================================================================
