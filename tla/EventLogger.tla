----------------------------- MODULE EventLogger -----------------------------
(***************************************************************************)
(* The event logger (service/workflow/logger.go) writes every event to a   *)
(* file, in the directory of the workflows and tasks it believes to be     *)
(* open.  It rebuilds them from the events alone: a start pushes, an end   *)
(* pops whatever is on top.  The events of an asynchronous action come in  *)
(* one go, between those of the task that waits for it.                    *)
(***************************************************************************)
EXTENDS Integers, Sequences, FiniteSets, SequencesExt

CONSTANTS
    Replay,      \* asynchronous actions, whose events are replayed
    Label,       \* names of workflows, tasks and activities
    FileLimit,   \* 10000 in the code: numbers keep four digits
    MaxEvents, MaxOpen

ASSUME LoggerAssumption ==
    /\ Replay \subseteq Nat \ {0}
    /\ FileLimit \in Nat \ {0} /\ {MaxEvents, MaxOpen} \subseteq Nat

VARIABLES
    open,      \* what every publisher has started and not ended
    replays,   \* replays: new, on or over; the depth of the task they belong to
    logger,    \* the stacks of the logger
    groups,    \* groupSeq: the number of every group
    counts,    \* fileSeq: the number of the last file in a directory
    files,     \* files written
    events,    \* events so far
    mixed,     \* history: replays since the task started the first
    rewritten  \* history: a file was written again

loggerVars == <<open, replays, logger, groups, counts, files, events, mixed, rewritten>>

Main == 0
Publisher == Replay \cup {Main}
Bracket == [kind : {"workflow", "task", "activity"}, label : Label]
NoLabel == "none"

LoggerTypeOK ==
    /\ open \in [Publisher -> Seq(Bracket)]
    /\ replays \in [state : [Replay -> {"new", "on", "over"}], floor : Nat]
    /\ logger \in [workflows : Seq(Label), tasks : Seq(Label), activities : Seq(Label),
                   ended : BOOLEAN]
    /\ \A g \in DOMAIN groups : groups[g] \in 1 .. Cardinality(DOMAIN groups)
    /\ \A d \in DOMAIN counts : counts[d] \in 1 .. MaxEvents
    /\ events \in 0 .. MaxEvents /\ mixed \in BOOLEAN /\ rewritten \in BOOLEAN

LoggerInit ==
    /\ open = [p \in Publisher |-> <<>>]
    /\ replays = [state |-> [r \in Replay |-> "new"], floor |-> 0]
    /\ logger = [workflows |-> <<>>, tasks |-> <<>>, activities |-> <<>>, ended |-> FALSE]
    /\ groups = <<>> /\ counts = <<>> /\ files = {}
    /\ events = 0 /\ mixed = FALSE /\ rewritten = FALSE

-----------------------------------------------------------------------------
(* OnEvent: under its mutex it processes the event and writes the file.    *)

Popped(s) == IF s = <<>> THEN s ELSE Front(s)

Started(b) ==
    CASE b.kind = "workflow" -> [logger EXCEPT !.workflows = Append(@, b.label)]
      [] b.kind = "task" -> [logger EXCEPT !.tasks = Append(@, b.label)]
      [] b.kind = "activity" ->
           IF logger.ended /\ logger.activities # <<>>
           THEN [logger EXCEPT !.activities = Append(Front(@), b.label), !.ended = FALSE]
           ELSE [logger EXCEPT !.activities = Append(@, b.label)]

\* Mutant: a task that is not the top one is not taken off.
EndedIfTop(b) ==
    CASE b.kind = "workflow" -> [logger EXCEPT !.workflows = Popped(@)]
      [] b.kind = "task" -> IF logger.tasks # <<>> /\ Last(logger.tasks) = b.label
                            THEN [logger EXCEPT !.tasks = Popped(@)] ELSE logger
      [] b.kind = "activity" -> [logger EXCEPT !.ended = TRUE]

Ended(b) ==
    CASE b.kind = "workflow" -> [logger EXCEPT !.workflows = Popped(@)]
      [] b.kind = "task" -> [logger EXCEPT !.tasks = Popped(@)]
      [] b.kind = "activity" -> [logger EXCEPT !.ended = TRUE]

GroupOf(l) == <<l.workflows, l.tasks>>

\* groupDir: the directory has the number of the group, and its names.
Numbered(group) == IF group \in DOMAIN groups THEN groups
                   ELSE [g \in DOMAIN groups \cup {group} |->
                           IF g = group THEN Cardinality(DOMAIN groups) + 1 ELSE groups[g]]
DirectoryOf(group) == [number |-> Numbered(group)[group] % FileLimit, path |-> group]

\* Mutant: counts the files of the directory that was written last.
NextFileOfLast(directory) ==
    [d \in {directory} |-> IF d \in DOMAIN counts THEN counts[d] + 1 ELSE 1]

\* nextFileSeq.
NextFile(directory) ==
    [d \in DOMAIN counts \cup {directory} |->
       IF d # directory THEN counts[d] ELSE IF d \in DOMAIN counts THEN counts[d] + 1 ELSE 1]

\* A request or a response is named for the last activity, another event for its type.
Leaf(type, l) == [type |-> type,
                  of |-> IF type # "response" \/ l.activities = <<>> THEN NoLabel
                         ELSE Last(l.activities)]

WriteFile(type, l) ==
    LET directory == DirectoryOf(GroupOf(l))
        file == [directory |-> directory, number |-> NextFile(directory)[directory] % FileLimit,
                 leaf |-> Leaf(type, l)]
    IN  /\ groups' = Numbered(GroupOf(l))
        /\ counts' = NextFile(directory)
        /\ files' = files \cup {file}
        /\ rewritten' = (rewritten \/ file \in files)

\* The start and the end of a task have no file.
OnEvent(type, l) ==
    /\ events < MaxEvents /\ events' = events + 1
    /\ logger' = l
    /\ IF type = "task" THEN UNCHANGED <<groups, counts, files, rewritten>>
       ELSE WriteFile(type, l)

-----------------------------------------------------------------------------
(* Publishers.                                                             *)

Publishes(p) == p \in {Main} \cup {r \in Replay : replays.state[r] = "on"}
Waits == \A r \in Replay : replays.state[r] # "on"

\* The task that started asynchronous actions ends after their events.
StartEvent(p) ==
    /\ Publishes(p) /\ Len(open[p]) < MaxOpen
    /\ \E b \in Bracket :
          /\ p = Main /\ open[p] = <<>> => b.kind = "workflow"
          /\ OnEvent(b.kind, Started(b))
          /\ open' = [open EXCEPT ![p] = Append(@, b)]
    /\ UNCHANGED <<replays, mixed>>

\* The end comes with the start event, as a response.
EndEvent(p) ==
    /\ Publishes(p) /\ open[p] # <<>>
    /\ p = Main => ~mixed \/ Len(open[p]) > replays.floor
    /\ LET b == Last(open[p])
       IN  OnEvent(IF b.kind = "task" THEN "task" ELSE "response", Ended(b))
    /\ open' = [open EXCEPT ![p] = Front(@)]
    /\ UNCHANGED <<replays, mixed>>

OtherEvent(p) ==
    /\ Publishes(p) /\ open[p] # <<>>
    /\ OnEvent("response", logger)
    /\ UNCHANGED <<open, replays, mixed>>

\* An action of the task is over, and replays what it heard.
StartReplay(r) ==
    /\ replays.state[r] = "new"
    /\ open[Main] # <<>>
    /\ mixed \/ Last(open[Main]).kind = "task"
    /\ replays' = [state |-> [replays.state EXCEPT ![r] = "on"],
                   floor |-> IF mixed THEN replays.floor ELSE Len(open[Main])]
    /\ mixed' = TRUE
    /\ UNCHANGED <<open, logger, groups, counts, files, events, rewritten>>

EndReplay(r) ==
    /\ replays.state[r] = "on" /\ open[r] = <<>>
    /\ replays' = [replays EXCEPT !.state[r] = "over"]
    /\ UNCHANGED <<open, logger, groups, counts, files, events, mixed, rewritten>>

\* group.Wait: the task goes on alone.
JoinReplays ==
    /\ mixed /\ Waits /\ Len(open[Main]) = replays.floor
    /\ mixed' = FALSE
    /\ UNCHANGED <<open, replays, logger, groups, counts, files, events, rewritten>>

LoggerNext ==
    \/ \E p \in Publisher : StartEvent(p) \/ EndEvent(p) \/ OtherEvent(p)
    \/ \E r \in Replay : StartReplay(r) \/ EndReplay(r)
    \/ JoinReplays

LoggerSpec == LoggerInit /\ [][LoggerNext]_loggerVars

-----------------------------------------------------------------------------
(* Properties.                                                             *)

\* What Main has open of a kind, and whether a stack has its labels, in order.
Positions(kind) == {i \in DOMAIN open[Main] : open[Main][i].kind = kind}
Lists(stack, kind) ==
    /\ Len(stack) = Cardinality(Positions(kind))
    /\ \A i \in Positions(kind) :
          stack[Cardinality({j \in Positions(kind) : j <= i})] = open[Main][i].label

\* Outside of replays, and after them again, an event is filed under the
\* workflows and tasks it belongs to, though each replay took others' names off
\* (processEvent).
FiledRight == ~mixed => Lists(logger.workflows, "workflow") /\ Lists(logger.tasks, "task")

\* No file is written over another before the numbers of its directory have run
\* out of digits, whatever directories share theirs (nextFileSeq, sprintf4).
FilesKept == (\A d \in DOMAIN counts : counts[d] <= FileLimit) => ~rewritten

=============================================================================
