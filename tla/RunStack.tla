------------------------------ MODULE RunStack -------------------------------
(***************************************************************************)
(* The stack of processes that the goroutines of a task share when         *)
(* asynchronous actions run workflows of their own (model/process.go,      *)
(* service/workflow).  Clones of a context hold the same stack.  A         *)
(* workflow pushes its process and pops whatever is on top at its end;     *)
(* exit and goto act on the process on top.                                *)
(***************************************************************************)
EXTENDS Integers, Sequences, FiniteSets

CONSTANTS
    Branch,    \* asynchronous actions
    MaxNested, \* workflows that a goroutine is inside of
    MaxRuns    \* workflows that a goroutine runs in all

ASSUME StackAssumption ==
    /\ IsFiniteSet(Branch) /\ 0 \notin Branch
    /\ {MaxNested, MaxRuns} \subseteq Nat

VARIABLES
    processes,  \* the stack
    running,    \* goroutines that run: the task's own, and its branches
    nested,     \* the processes a goroutine is inside of, innermost last
    runs,       \* workflows a goroutine has begun
    stopped,    \* processes that are terminated or have a task scheduled
    baseHit     \* history: an exit or goto in another workflow stopped that of the task

stackVars == <<processes, running, nested, runs, stopped, baseHit>>

Task == 0
Goroutine == Branch \cup {Task}
ProcessId == [of : Goroutine, run : 0 .. MaxRuns]
Base == [of |-> Task, run |-> 0]

StackTypeOK ==
    /\ processes \in Seq(ProcessId)
    /\ running \subseteq Goroutine
    /\ nested \in [Goroutine -> Seq(ProcessId)]
    /\ runs \in [Goroutine -> 0 .. MaxRuns]
    /\ stopped \subseteq ProcessId
    /\ baseHit \in BOOLEAN

\* The task of a workflow has begun, and starts its asynchronous actions.
StackInit ==
    /\ processes = <<Base>>
    /\ running = Goroutine
    /\ nested = [g \in Goroutine |-> <<>>]
    /\ runs = [g \in Goroutine |-> 0]
    /\ stopped = {} /\ baseHit = FALSE

Top(s) == s[Len(s)]
WithoutTop(s) == SubSeq(s, 1, Len(s) - 1)

\* The process a goroutine was given, and checks before an action.
Own(g) == IF nested[g] = <<>> THEN Base ELSE Top(nested[g])
Acts(g) == g \in running /\ Own(g) \notin stopped

\* runWorkflow: Last is the upstream process, the new one is pushed.
PushProcess(g) ==
    /\ Acts(g) /\ runs[g] < MaxRuns /\ Len(nested[g]) < MaxNested
    /\ LET process == [of |-> g, run |-> runs[g] + 1]
       IN  /\ processes' = Append(processes, process)
           /\ nested' = [nested EXCEPT ![g] = Append(@, process)]
    /\ runs' = [runs EXCEPT ![g] = @ + 1]
    /\ UNCHANGED <<running, stopped, baseHit>>

\* Mutant: takes off its own process, and what is above it.
PopOwnProcess(g) ==
    /\ g \in running /\ nested[g] # <<>>
    /\ processes' = SelectSeq(processes, LAMBDA p :
          \E i, j \in DOMAIN processes : i < j /\ processes[i] = p /\ processes[j] = Own(g))
    /\ nested' = [nested EXCEPT ![g] = WithoutTop(@)]
    /\ UNCHANGED <<running, runs, stopped, baseHit>>

\* The deferred Pop of runWorkflow.
PopProcess(g) ==
    /\ g \in running /\ nested[g] # <<>>
    /\ processes' = WithoutTop(processes)
    /\ nested' = [nested EXCEPT ![g] = WithoutTop(@)]
    /\ UNCHANGED <<running, runs, stopped, baseHit>>

\* exitWorkflow terminates the last process, runGoto schedules a task in it.
StopLast(g) ==
    /\ Acts(g)
    /\ stopped' = stopped \cup {Top(processes)}
    /\ baseHit' = (baseHit \/ (Own(g) # Base /\ Top(processes) = Base))
    /\ UNCHANGED <<processes, running, nested, runs>>

\* An action ends; the task waits for all of them.
EndGoroutine(g) ==
    /\ g \in running /\ nested[g] = <<>>
    /\ g = Task => running = {Task}
    /\ running' = running \ {g}
    /\ UNCHANGED <<processes, nested, runs, stopped, baseHit>>

StackNext ==
    \E g \in Goroutine : PushProcess(g) \/ PopProcess(g) \/ StopLast(g) \/ EndGoroutine(g)

StackSpec == StackInit /\ [][StackNext]_stackVars

-----------------------------------------------------------------------------
(* Properties.                                                             *)

\* An exit or goto in a workflow that an action runs may stop a workflow of
\* another goroutine, but never the one whose task started them all
\* (exitWorkflow, runGoto, Push, Pop).
BaseSpared == ~baseHit

=============================================================================
