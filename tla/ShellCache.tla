------------------------------ MODULE ShellCache ------------------------------
(***************************************************************************)
(* What a terminal session remembers of its shell (service/system/exec):   *)
(* the current directory and the environment, so that a cd or an export    *)
(* that changes nothing is not sent.  The shell behind it follows the      *)
(* commands that are sent; one that fails may have been run or not.        *)
(***************************************************************************)
EXTENDS Integers, Sequences, SequencesExt

CONSTANTS
    Name,       \* names of directories
    Dotted,     \* those with a dot, an extension for path.Ext
    Directory,  \* directories there are, as sequences of names
    Home,       \* where cd goes without an argument
    Variable, Value

ASSUME ShellAssumption ==
    /\ Dotted \subseteq Name
    /\ Directory \subseteq Seq(Name)
    /\ Home \in Directory /\ <<>> \in Directory
    /\ \A directory \in Directory \ {<<>>} : Front(directory) \in Directory

VARIABLES
    shell,    \* the shell: its directory and environment
    session,  \* Session.CurrentDirectory and EnvVariables
    strayed,  \* history: the directory changed behind the session
    lost      \* history: variables whose export failed

shellVars == <<shell, session, strayed, lost>>

\* The argument of a cd: an absolute or relative path, two dots, or nothing.
Path == Directory \cup {<<n>> : n \in Name}
Argument == [kind : {"absolute", "relative"}, path : Path \ {<<>>}]
             \cup {[kind |-> k, path |-> <<>>] : k \in {"absolute", "up", "none"}}
Nothing == [kind |-> "none", path |-> <<>>]
Unset == "unset"

ShellTypeOK ==
    /\ shell \in [directory : Directory, env : [Variable -> Value \cup {Unset}]]
    /\ session \in [directory : Argument, env : [Variable -> Value \cup {Unset}]]
    /\ strayed \in BOOLEAN /\ lost \subseteq Variable

NoVariables == [v \in Variable |-> Unset]

\* NewSession: a new shell, about which nothing is known.
ShellInit ==
    /\ shell = [directory |-> Home, env |-> NoVariables]
    /\ session = [directory |-> Nothing, env |-> NoVariables]
    /\ strayed = FALSE /\ lost = {}

\* Where the shell goes.
Target(argument) ==
    CASE argument.kind = "absolute" -> argument.path
      [] argument.kind = "relative" -> shell.directory \o argument.path
      [] argument.kind = "up" -> IF shell.directory = <<>> THEN <<>> ELSE Front(shell.directory)
      [] argument.kind = "none" -> Home

\* Mutant: the parent of a relative name is the empty path.
SentParent(argument) ==
    IF argument.kind = "up" THEN Nothing
    ELSE IF argument.path = <<>> \/ Last(argument.path) \notin Dotted THEN argument
    ELSE [argument EXCEPT !.path = Front(@)]

\* A last name with an extension is taken for a file, whose parent is meant.
Sent(argument) ==
    IF argument.kind = "up" THEN Nothing
    ELSE IF argument.path = <<>> \/ Last(argument.path) \notin Dotted THEN argument
    ELSE IF argument.kind = "relative" /\ Len(argument.path) = 1 THEN Nothing
    ELSE [argument EXCEPT !.path = Front(@)]

\* The result of a cd that was sent: the shell moved; there is no such
\* directory; it is refused for another reason, that goes unnoticed; it failed.
Move(typed) ==
    \/ /\ Target(typed) \in Directory
       /\ shell' = [shell EXCEPT !.directory = Target(typed)]
       /\ session' = [session EXCEPT !.directory = typed]
       /\ strayed' = FALSE
    \/ UNCHANGED <<shell, session, strayed>>
    \/ /\ Target(typed) \in Directory
       /\ session' = [session EXCEPT !.directory = typed]
       /\ strayed' = TRUE
       /\ UNCHANGED shell
    \/ /\ Target(typed) \in Directory
       /\ shell' = [shell EXCEPT !.directory = Target(typed)]
       /\ strayed' = TRUE
       /\ UNCHANGED session

\* A cd to what the session remembers is not sent, wherever it would lead.
ChangeDirectory(argument) ==
    /\ argument # Nothing
    /\ IF session.directory = Sent(argument) THEN UNCHANGED <<shell, session, strayed>>
       ELSE Move(Sent(argument))
    /\ UNCHANGED lost

\* Mutant: remembers the directory over a cd among other commands.
RunCdKeeping(argument) ==
    /\ shell' = IF Target(argument) \in Directory
                THEN [shell EXCEPT !.directory = Target(argument)] ELSE shell
    /\ UNCHANGED <<session, strayed, lost>>

\* A cd that && joins with other commands goes to the shell as it is.
RunCd(argument) ==
    /\ shell' = IF Target(argument) \in Directory
                THEN [shell EXCEPT !.directory = Target(argument)] ELSE shell
    /\ session' = [session EXCEPT !.directory = Nothing]
    /\ strayed' = FALSE
    /\ UNCHANGED lost

\* A command that starts otherwise and ends in a cd is not recognised.
RunOther(argument) ==
    /\ Target(argument) \in Directory
    /\ shell' = [shell EXCEPT !.directory = Target(argument)]
    /\ strayed' = TRUE
    /\ UNCHANGED <<session, lost>>

\* An rm that names the directory.
RunRemove ==
    /\ session' = [session EXCEPT !.directory = Nothing]
    /\ strayed' = FALSE
    /\ UNCHANGED <<shell, lost>>

\* setEnvVariable remembers the value first; the shell has it, or an error.
Export(v, value) ==
    /\ session.env[v] # value
    /\ session' = [session EXCEPT !.env[v] = value]
    /\ \/ shell' = [shell EXCEPT !.env[v] = value] /\ lost' = lost \ {v}
       \/ UNCHANGED shell /\ lost' = lost \cup {v}
    /\ UNCHANGED <<strayed>>

\* An export that && joins with other commands.
RunExport(v, value) ==
    /\ shell' = [shell EXCEPT !.env[v] = value]
    /\ session' = [session EXCEPT !.env = NoVariables]
    /\ UNCHANGED <<strayed, lost>>

ShellNext ==
    \/ \E argument \in Argument :
          ChangeDirectory(argument) \/ RunCd(argument) \/ RunOther(argument)
    \/ RunRemove
    \/ \E v \in Variable, value \in Value : Export(v, value) \/ RunExport(v, value)

ShellSpec == ShellInit /\ [][ShellNext]_shellVars

-----------------------------------------------------------------------------
(* Properties.                                                             *)

\* An absolute directory that the session remembers is that of the shell, and so
\* is a variable, until a cd goes wrong unnoticed, the directory changes behind
\* the session, or an export fails (changeDirectory, setEnvVariable,
\* runExtractCommands).
SessionKnows ==
    /\ session.directory.kind = "absolute" /\ ~strayed => shell.directory = session.directory.path
    /\ \A v \in Variable \ lost : session.env[v] \in {Unset, shell.env[v]}

=============================================================================
