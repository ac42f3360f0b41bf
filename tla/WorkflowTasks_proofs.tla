------------------------ MODULE WorkflowTasks_proofs ------------------------
(***************************************************************************)
(* Proofs about WorkflowTasks, for every tree of tasks and every bound,    *)
(* and then about ErrorLedger, which it implements, and WorkflowReport.    *)
(* The argument: the stack of calls is always one that the program can     *)
(* have, callers below callees, each with the process that it was given.   *)
(* What a step publishes after an exit follows from the control state      *)
(* before it.                                                              *)
(***************************************************************************)
EXTENDS WorkflowTasks, WorkflowReport, SequenceTheorems, TLAPS

\* What every frame of the stack is.
FrameInv(s, n, r) ==
    \A i \in 1 .. Len(s) :
        /\ s[i].kind = "workflow" => s[i].node \in Workflow
        /\ s[i].kind = "task" => s[i].node \in Task
        /\ s[i].kind # "workflow" => s[i].idx >= 1
        /\ s[i].proc \in 1 .. n
        /\ s[i].err \in 0 .. r

\* A frame works for the process of its caller, a workflow for the next one.
ChainInv(s) ==
    /\ \A i \in 1 .. Len(s) - 1 :
          s[i + 1].proc = IF s[i + 1].kind = "workflow" THEN s[i].proc + 1 ELSE s[i].proc
    /\ \A i, j \in 1 .. Len(s) :
          i < j => /\ s[i].proc <= s[j].proc
                   /\ s[j].kind = "workflow" => s[i].proc < s[j].proc

StackInv ==
    /\ (stack = <<>>) <=> (control = "done")
    /\ FrameInv(stack, Len(processes), raised)
    /\ ChainInv(stack)
    /\ stack # <<>> => Top.proc = Len(processes)
    /\ err \in 0 .. raised

IInv == TypeOK /\ StackInv

-----------------------------------------------------------------------------
(* The three ways in which the stack moves *)

\* Sequences without their last element, and with a new last one.
LEMMA FrontFacts ==
    ASSUME NEW s \in Seq(Frame), s # <<>>
    PROVE  /\ Len(s) \in Nat \ {0}
           /\ SubSeq(s, 1, Len(s) - 1) \in Seq(Frame)
           /\ Len(SubSeq(s, 1, Len(s) - 1)) = Len(s) - 1
           /\ \A i \in 1 .. Len(s) - 1 : SubSeq(s, 1, Len(s) - 1)[i] = s[i]
<1>1. Len(s) \in Nat \ {0}
  BY EmptySeq
<1>2. \A i \in 1 .. Len(s) - 1 : s[i] \in Frame
  BY <1>1, ElementOfSeq
<1>3. /\ SubSeq(s, 1, Len(s) - 1) \in Seq(Frame)
      /\ Len(SubSeq(s, 1, Len(s) - 1)) = IF 1 <= Len(s) - 1 THEN Len(s) - 1 - 1 + 1 ELSE 0
      /\ \A i \in 1 .. Len(s) - 1 - 1 + 1 : SubSeq(s, 1, Len(s) - 1)[i] = s[1 + i - 1]
  BY <1>1, <1>2, SubSeqProperties
<1>4. ASSUME NEW i \in 1 .. Len(s) - 1
      PROVE  SubSeq(s, 1, Len(s) - 1)[i] = s[i]
  <2>1. i \in 1 .. Len(s) - 1 - 1 + 1 /\ 1 + i - 1 = i
    BY <1>1, SMT
  <2>2. SubSeq(s, 1, Len(s) - 1)[i] = s[1 + i - 1]
    BY <1>3, <2>1, Zenon
  <2> QED
    BY <2>1, <2>2, Zenon
<1>5. Len(SubSeq(s, 1, Len(s) - 1)) = Len(s) - 1
  <2>1. CASE Len(s) = 1
    BY <1>3, <2>1
  <2>2. CASE Len(s) > 1
    <3>1. 1 <= Len(s) - 1 /\ Len(s) - 1 - 1 + 1 = Len(s) - 1
      BY <1>1, <2>2, SMT
    <3> QED
      BY <1>3, <3>1, Zenon
  <2>3. Len(s) = 1 \/ Len(s) > 1
    BY <1>1, SMT
  <2> QED
    BY <2>1, <2>2, <2>3, Zenon
<1> QED
  BY <1>1, <1>3, <1>4, <1>5

LEMMA AppendFacts ==
    ASSUME NEW s \in Seq(Frame), NEW f \in Frame
    PROVE  /\ Append(s, f) \in Seq(Frame)
           /\ Len(Append(s, f)) = Len(s) + 1
           /\ \A i \in 1 .. Len(s) : Append(s, f)[i] = s[i]
           /\ Append(s, f)[Len(s) + 1] = f
           /\ Append(s, f) # <<>>
  BY AppendProperties

LEMMA ReplaceFacts ==
    ASSUME NEW s \in Seq(Frame), s # <<>>, NEW f \in Frame
    PROVE  LET t == Append(SubSeq(s, 1, Len(s) - 1), f)
           IN  /\ t \in Seq(Frame)
               /\ Len(t) = Len(s)
               /\ \A i \in 1 .. Len(s) - 1 : t[i] = s[i]
               /\ t[Len(s)] = f
               /\ t # <<>>
<1> DEFINE u == SubSeq(s, 1, Len(s) - 1)
<1>1. /\ Len(s) \in Nat \ {0}
      /\ u \in Seq(Frame)
      /\ Len(u) = Len(s) - 1
      /\ \A i \in 1 .. Len(s) - 1 : u[i] = s[i]
  BY FrontFacts
<1> HIDE DEF u
<1>2. /\ Append(u, f) \in Seq(Frame)
      /\ Len(Append(u, f)) = Len(u) + 1
      /\ \A i \in 1 .. Len(u) : Append(u, f)[i] = u[i]
      /\ Append(u, f)[Len(u) + 1] = f
      /\ Append(u, f) # <<>>
  BY <1>1, AppendFacts
<1>3. Len(u) + 1 = Len(s)
  BY <1>1
<1>4. /\ Append(u, f) \in Seq(Frame)
      /\ Len(Append(u, f)) = Len(s)
      /\ \A i \in 1 .. Len(s) - 1 : Append(u, f)[i] = s[i]
      /\ Append(u, f)[Len(s)] = f
      /\ Append(u, f) # <<>>
  BY <1>1, <1>2, <1>3
<1> QED
  BY <1>4 DEF u

\* A call returns: its frame goes, and with a workflow its process.
LEMMA ReturnMove ==
    ASSUME IInv, stack # <<>>, NEW e \in 0 .. raised', Return(e),
           raised' \in Nat, raised <= raised',
           Len(processes') = IF Top.kind = "workflow" THEN Len(processes) - 1 ELSE Len(processes)
    PROVE  stack' \in Seq(Frame) /\ control' \in {"run", "return", "done"} /\ StackInv'
<1>1. /\ stack \in Seq(Frame) /\ raised \in Nat /\ Len(processes) \in Nat
  BY DEF IInv, TypeOK
<1>2. /\ Len(stack) \in Nat \ {0}
      /\ stack' \in Seq(Frame)
      /\ Len(stack') = Len(stack) - 1
      /\ \A i \in 1 .. Len(stack) - 1 : stack'[i] = stack[i]
  BY <1>1, FrontFacts DEF Return, Below
<1>3. ((stack' = <<>>) <=> (control' = "done")) /\ control' \in {"return", "done"}
  BY <1>1, <1>2 DEF Return
<1>4. FrameInv(stack', Len(processes'), raised')
  <2> SUFFICES ASSUME NEW i \in 1 .. Len(stack) - 1
               PROVE  /\ stack[i].kind = "workflow" => stack[i].node \in Workflow
                      /\ stack[i].kind = "task" => stack[i].node \in Task
                      /\ stack[i].kind # "workflow" => stack[i].idx >= 1
                      /\ stack[i].proc \in 1 .. Len(processes')
                      /\ stack[i].err \in 0 .. raised'
    BY <1>1, <1>2 DEF FrameInv
  <2>1. /\ stack[i].proc <= Top.proc /\ (Top.kind = "workflow" => stack[i].proc < Top.proc)
        /\ Top.proc = Len(processes)
    BY <1>1, <1>2 DEF IInv, StackInv, ChainInv, Top
  <2> QED
    BY <1>1, <1>2, <2>1 DEF IInv, StackInv, FrameInv
<1>5. ChainInv(stack')
  <2>1. ASSUME NEW i \in 1 .. Len(stack') - 1
        PROVE  stack'[i] = stack[i] /\ stack'[i + 1] = stack[i + 1] /\ i \in 1 .. Len(stack) - 1
    BY <1>1, <1>2
  <2>2. ASSUME NEW i \in 1 .. Len(stack')
        PROVE  stack'[i] = stack[i] /\ i \in 1 .. Len(stack)
    BY <1>1, <1>2
  <2> QED
    BY <2>1, <2>2 DEF IInv, StackInv, ChainInv
<1>6. stack' # <<>> => Top'.proc = Len(processes')
  <2> SUFFICES ASSUME stack' # <<>>
               PROVE  Top'.proc = Len(processes')
    OBVIOUS
  <2>1. Len(stack) - 1 \in 1 .. Len(stack) - 1
    BY <1>1, <1>2
  <2>2. Top' = stack[Len(stack) - 1]
    BY <1>1, <1>2, <2>1 DEF Top
  <2>3. stack[Len(stack)].proc = IF stack[Len(stack)].kind = "workflow"
                                   THEN stack[Len(stack) - 1].proc + 1 ELSE stack[Len(stack) - 1].proc
    BY <1>2, <2>1 DEF IInv, StackInv, ChainInv
  <2>4. stack[Len(stack) - 1].proc \in Nat /\ Top.proc = Len(processes)
    BY <1>1, <1>2, <2>1 DEF IInv, StackInv, FrameInv
  <2> QED
    BY <1>1, <2>2, <2>3, <2>4 DEF Top
<1> QED
  BY <1>2, <1>3, <1>4, <1>5, <1>6 DEF StackInv, Return

\* The running call goes on, in a frame of the same kind and process.
LEMMA ContinueMove ==
    ASSUME IInv, stack # <<>>, NEW f \in Frame, Continue(f),
           f.kind = Top.kind, f.node = Top.node, f.proc = Top.proc,
           f.idx >= Top.idx, f.err \in 0 .. raised,
           raised' = raised, Len(processes') = Len(processes)
    PROVE  stack' \in Seq(Frame) /\ control' \in {"run", "return", "done"} /\ StackInv'
<1>1. /\ stack \in Seq(Frame) /\ raised \in Nat /\ Len(processes) \in Nat
      /\ Len(stack) \in Nat \ {0}
  BY EmptySeq DEF IInv, TypeOK
<1>2. /\ stack' \in Seq(Frame)
      /\ Len(stack') = Len(stack)
      /\ \A i \in 1 .. Len(stack) - 1 : stack'[i] = stack[i]
      /\ stack'[Len(stack)] = f
      /\ stack' # <<>>
  BY <1>1, ReplaceFacts DEF Continue, Below
<1>3. ASSUME NEW i \in 1 .. Len(stack)
      PROVE  /\ stack[i] \in Frame
             /\ stack'[i].kind = stack[i].kind
             /\ stack'[i].node = stack[i].node
             /\ stack'[i].proc = stack[i].proc
             /\ stack[i].kind # "workflow" => stack'[i].idx >= 1
             /\ stack'[i].err \in 0 .. raised
  <2>1. stack[i] \in Frame
    BY <1>1, ElementOfSeq
  <2>0. /\ stack[i].idx \in Nat /\ f.idx \in Nat
        /\ stack[i].kind # "workflow" => stack[i].idx >= 1
        /\ stack[i].proc \in 1 .. Len(processes)
        /\ stack[i].err \in 0 .. raised
    BY <1>1, <2>1 DEF IInv, StackInv, FrameInv, Frame
  <2>2. CASE i = Len(stack)
    BY <1>1, <1>2, <2>0, <2>1, <2>2 DEF Top
  <2>3. CASE i \in 1 .. Len(stack) - 1
    BY <1>1, <1>2, <2>0, <2>1, <2>3
  <2> QED
    BY <1>1, <2>2, <2>3
<1>4. FrameInv(stack', Len(processes'), raised')
  BY <1>1, <1>2, <1>3 DEF IInv, StackInv, FrameInv
<1>5. ChainInv(stack')
  <2>1. ASSUME NEW i \in 1 .. Len(stack') - 1
        PROVE  /\ i \in 1 .. Len(stack) - 1 /\ i \in 1 .. Len(stack) /\ i + 1 \in 1 .. Len(stack)
    BY <1>1, <1>2
  <2> QED
    BY <1>1, <1>2, <1>3, <2>1 DEF IInv, StackInv, ChainInv
<1> QED
  BY <1>1, <1>2, <1>3, <1>4, <1>5 DEF IInv, StackInv, Top, Continue

\* A call is made: the caller's frame goes on below that of the callee.
LEMMA CallMove ==
    ASSUME IInv, stack # <<>>, NEW f \in Frame, NEW g \in Frame, Call(f, g),
           f.kind = Top.kind, f.node = Top.node, f.proc = Top.proc,
           f.idx >= Top.idx, f.err \in 0 .. raised,
           g.kind = "workflow" => g.node \in Workflow,
           g.kind = "task" => g.node \in Task,
           g.kind # "workflow" => g.idx >= 1,
           g.err = 0,
           g.proc = Len(processes'),
           Len(processes') = IF g.kind = "workflow" THEN Len(processes) + 1 ELSE Len(processes),
           raised' = raised
    PROVE  stack' \in Seq(Frame) /\ control' \in {"run", "return", "done"} /\ StackInv'
<1> DEFINE t == Append(Below, f)
<1>1. /\ stack \in Seq(Frame) /\ raised \in Nat /\ Len(processes) \in Nat
      /\ Len(stack) \in Nat \ {0}
  BY EmptySeq DEF IInv, TypeOK
<1>2. /\ t \in Seq(Frame)
      /\ Len(t) = Len(stack)
      /\ \A i \in 1 .. Len(stack) - 1 : t[i] = stack[i]
      /\ t[Len(stack)] = f
  BY <1>1, ReplaceFacts DEF Below
<1>3. stack' = Append(t, g)
  BY DEF Call
<1> HIDE DEF t
<1>4. /\ stack' \in Seq(Frame)
      /\ Len(stack') = Len(stack) + 1
      /\ \A i \in 1 .. Len(stack) : stack'[i] = t[i]
      /\ stack'[Len(stack) + 1] = g
      /\ stack' # <<>>
  BY <1>1, <1>2, <1>3, AppendFacts
<1>5. ASSUME NEW i \in 1 .. Len(stack)
      PROVE  /\ stack[i] \in Frame
             /\ stack'[i].kind = stack[i].kind
             /\ stack'[i].node = stack[i].node
             /\ stack'[i].proc = stack[i].proc
             /\ stack[i].proc \in 1 .. Len(processes)
             /\ stack[i].kind # "workflow" => stack'[i].idx >= 1
             /\ stack'[i].err \in 0 .. raised
  <2>1. stack[i] \in Frame
    BY <1>1, ElementOfSeq
  <2>0. /\ stack[i].idx \in Nat /\ f.idx \in Nat
        /\ stack[i].kind # "workflow" => stack[i].idx >= 1
        /\ stack[i].proc \in 1 .. Len(processes)
        /\ stack[i].err \in 0 .. raised
    BY <1>1, <2>1 DEF IInv, StackInv, FrameInv, Frame
  <2>2. CASE i = Len(stack)
    BY <1>1, <1>2, <1>4, <2>0, <2>1, <2>2 DEF Top
  <2>3. CASE i \in 1 .. Len(stack) - 1
    BY <1>1, <1>2, <1>4, <2>0, <2>1, <2>3
  <2> QED
    BY <1>1, <2>2, <2>3
<1>6. Len(processes') \in Nat /\ Len(processes') >= Len(processes) /\ g.proc \in 1 .. Len(processes')
  <2>1. Len(stack) \in 1 .. Len(stack)
    BY <1>1
  <2> QED
    BY <1>1, <1>5, <2>1
<1>7. FrameInv(stack', Len(processes'), raised')
  <2> SUFFICES ASSUME NEW i \in 1 .. Len(stack) + 1
               PROVE  /\ stack'[i].kind = "workflow" => stack'[i].node \in Workflow
                      /\ stack'[i].kind = "task" => stack'[i].node \in Task
                      /\ stack'[i].kind # "workflow" => stack'[i].idx >= 1
                      /\ stack'[i].proc \in 1 .. Len(processes')
                      /\ stack'[i].err \in 0 .. raised'
    BY <1>1, <1>4 DEF FrameInv
  <2>1. CASE i = Len(stack) + 1
    BY <1>1, <1>4, <1>6, <2>1
  <2>2. CASE i \in 1 .. Len(stack)
    BY <1>1, <1>5, <1>6, <2>2 DEF IInv, StackInv, FrameInv
  <2> QED
    BY <1>1, <2>1, <2>2
<1>8. Top.proc = Len(processes) /\ Top = stack[Len(stack)]
  BY DEF IInv, StackInv, Top
<1>9. ChainInv(stack')
  <2>1. ASSUME NEW i \in 1 .. Len(stack') - 1
        PROVE  stack'[i + 1].proc = IF stack'[i + 1].kind = "workflow"
                                      THEN stack'[i].proc + 1 ELSE stack'[i].proc
    <3>1. CASE i = Len(stack)
      BY <1>1, <1>4, <1>5, <1>8, <3>1
    <3>2. CASE i \in 1 .. Len(stack) - 1
      <4>1. i \in 1 .. Len(stack) /\ i + 1 \in 1 .. Len(stack)
        BY <1>1, <3>2
      <4> QED
        BY <1>1, <1>5, <3>2, <4>1 DEF IInv, StackInv, ChainInv
    <3> QED
      BY <1>1, <1>4, <3>1, <3>2
  <2>2. ASSUME NEW i \in 1 .. Len(stack'), NEW j \in 1 .. Len(stack'), i < j
        PROVE  /\ stack'[i].proc <= stack'[j].proc
               /\ stack'[j].kind = "workflow" => stack'[i].proc < stack'[j].proc
    <3>1. i \in 1 .. Len(stack)
      BY <1>1, <1>4, <2>2
    <3>2. CASE j = Len(stack) + 1
      BY <1>1, <1>4, <1>5, <3>1, <3>2
    <3>3. CASE j \in 1 .. Len(stack)
      BY <1>1, <1>5, <2>2, <3>1, <3>3 DEF IInv, StackInv, ChainInv
    <3> QED
      BY <1>1, <1>4, <3>2, <3>3
  <2> QED
    BY <2>1, <2>2 DEF ChainInv
<1> QED
  BY <1>1, <1>4, <1>7, <1>9 DEF StackInv, Top, Call

-----------------------------------------------------------------------------
(* The running call and its process *)

LEMMA TopFacts ==
    ASSUME IInv, control \in {"run", "return"}
    PROVE  /\ stack # <<>>
           /\ Top \in Frame
           /\ Top.kind = "workflow" => Top.node \in Workflow
           /\ Top.kind = "task" => Top.node \in Task
           /\ Top.kind # "workflow" => Top.idx \in Nat \ {0}
           /\ Top.proc = Len(processes)
           /\ Top.proc \in 1 .. Len(processes)
           /\ Top.err \in 0 .. raised
           /\ This \in Process /\ Last \in Process /\ This = Last
           /\ err \in 0 .. raised /\ raised \in Nat
<1>1. stack # <<>> /\ stack \in Seq(Frame) /\ processes \in Seq(Process)
  BY DEF IInv, TypeOK, StackInv
<1>2. Len(stack) \in 1 .. Len(stack)
  BY <1>1, EmptySeq
<1>3. Top \in Frame
  BY <1>1, <1>2, ElementOfSeq DEF Top
<1>4. /\ Top.kind = "workflow" => Top.node \in Workflow
      /\ Top.kind = "task" => Top.node \in Task
      /\ Top.kind # "workflow" => Top.idx >= 1
      /\ Top.proc \in 1 .. Len(processes)
      /\ Top.err \in 0 .. raised
      /\ Top.proc = Len(processes)
  BY <1>1, <1>2 DEF IInv, StackInv, FrameInv, Top
<1>5. Top.idx \in Nat
  BY <1>3 DEF Frame
<1>6. This \in Process /\ Last \in Process /\ This = Last
  BY <1>1, <1>4, ElementOfSeq DEF This, Last
<1>7. err \in 0 .. raised /\ raised \in Nat
  BY DEF IInv, StackInv, TypeOK
<1> QED
  BY <1>1, <1>3, <1>4, <1>5, <1>6, <1>7

\* Process.SetTask, Terminate and Scheduled keep the number of processes.
LEMMA SetTaskFacts ==
    ASSUME NEW ps \in Seq(Process), NEW k \in 1 .. Len(ps), NEW x \in BOOLEAN
    PROVE  /\ [ps EXCEPT ![k].hasTagID = x] \in Seq(Process)
           /\ Len([ps EXCEPT ![k].hasTagID = x]) = Len(ps)
<1>1. ps[k] \in Process
  BY ElementOfSeq
<1>2. [ps[k] EXCEPT !.hasTagID = x] \in Process
  BY <1>1 DEF Process
<1> QED
  BY <1>2, ExceptSeq

LEMMA TerminateFacts ==
    ASSUME NEW ps \in Seq(Process), NEW k \in 1 .. Len(ps)
    PROVE  /\ [ps EXCEPT ![k].terminated = TRUE] \in Seq(Process)
           /\ Len([ps EXCEPT ![k].terminated = TRUE]) = Len(ps)
<1>1. ps[k] \in Process
  BY ElementOfSeq
<1>2. [ps[k] EXCEPT !.terminated = TRUE] \in Process
  BY <1>1 DEF Process
<1> QED
  BY <1>2, ExceptSeq

LEMMA ScheduleFacts ==
    ASSUME NEW ps \in Seq(Process), NEW k \in 1 .. Len(ps), NEW t \in Task \cup {NoTask}
    PROVE  /\ [ps EXCEPT ![k].scheduled = t] \in Seq(Process)
           /\ Len([ps EXCEPT ![k].scheduled = t]) = Len(ps)
<1>1. ps[k] \in Process
  BY ElementOfSeq
<1>2. [ps[k] EXCEPT !.scheduled = t] \in Process
  BY <1>1 DEF Process
<1> QED
  BY <1>2, ExceptSeq

\* A process goes with its workflow.
LEMMA PopFacts ==
    ASSUME NEW ps \in Seq(Process), ps # <<>>
    PROVE  /\ SubSeq(ps, 1, Len(ps) - 1) \in Seq(Process)
           /\ Len(SubSeq(ps, 1, Len(ps) - 1)) = Len(ps) - 1
<1>1. Len(ps) \in Nat \ {0}
  BY EmptySeq
<1>2. \A i \in 1 .. Len(ps) - 1 : ps[i] \in Process
  BY <1>1, ElementOfSeq
<1>3. /\ SubSeq(ps, 1, Len(ps) - 1) \in Seq(Process)
      /\ Len(SubSeq(ps, 1, Len(ps) - 1)) = IF 1 <= Len(ps) - 1 THEN Len(ps) - 1 - 1 + 1 ELSE 0
  BY <1>1, <1>2, SubSeqProperties
<1>4. CASE Len(ps) = 1
  BY <1>3, <1>4
<1>5. CASE Len(ps) > 1
  <2>1. 1 <= Len(ps) - 1 /\ Len(ps) - 1 - 1 + 1 = Len(ps) - 1
    BY <1>1, <1>5, SMT
  <2> QED
    BY <1>3, <2>1, Zenon
<1>6. Len(ps) = 1 \/ Len(ps) > 1
  BY <1>1, SMT
<1> QED
  BY <1>4, <1>5, <1>6, Zenon

\* Events are published about tasks and workflows.
LEMMA EventFacts ==
    ASSUME NEW n \in Node,
           NEW type \in {"WorkflowStart", "WorkflowEnd", "TaskStart", "TaskEnd",
                         "ActivityStart", "ActivityEnd", "Error", "ResetError"}
    PROVE  Event(type, n) \in PublishedEvent
  BY DEF Event, PublishedEvent

-----------------------------------------------------------------------------
(* The moves preserve the invariant *)

LEMMA ContinueInv ==
    ASSUME IInv, control \in {"run", "return"}, NEW f \in Frame, Continue(f),
           f.kind = Top.kind, f.node = Top.node, f.proc = Top.proc,
           f.idx >= Top.idx, f.err \in 0 .. raised,
           processes' \in Seq(Process), Len(processes') = Len(processes),
           published' \in Seq(PublishedEvent),
           gotos' \in 0 .. MaxGoto,
           UNCHANGED <<raised, caught, masked>>
    PROVE  IInv'
<1>1. stack # <<>>
  BY TopFacts
<1>2. stack' \in Seq(Frame) /\ control' \in {"run", "return", "done"} /\ StackInv'
  BY <1>1, ContinueMove
<1> QED
  BY <1>2 DEF IInv, TypeOK, Continue

LEMMA CallInv ==
    ASSUME IInv, control \in {"run", "return"}, NEW f \in Frame, NEW g \in Frame, Call(f, g),
           f.kind = Top.kind, f.node = Top.node, f.proc = Top.proc,
           f.idx >= Top.idx, f.err \in 0 .. raised,
           g.kind = "workflow" => g.node \in Workflow,
           g.kind = "task" => g.node \in Task,
           g.kind # "workflow" => g.idx >= 1,
           g.err = 0,
           g.proc = Len(processes'),
           Len(processes') = IF g.kind = "workflow" THEN Len(processes) + 1 ELSE Len(processes),
           processes' \in Seq(Process),
           published' \in Seq(PublishedEvent),
           caught' \subseteq 1 .. raised,
           UNCHANGED <<raised, masked, gotos>>
    PROVE  IInv'
<1>1. stack # <<>>
  BY TopFacts
<1>2. stack' \in Seq(Frame) /\ control' \in {"run", "return", "done"} /\ StackInv'
  BY <1>1, CallMove
<1> QED
  BY <1>2 DEF IInv, TypeOK, Call

LEMMA ReturnInv ==
    ASSUME IInv, control \in {"run", "return"}, NEW e \in 0 .. raised', Return(e),
           raised' \in {raised, raised + 1}, raised' \in 0 .. MaxErrors,
           processes' \in Seq(Process),
           Len(processes') = IF Top.kind = "workflow" THEN Len(processes) - 1 ELSE Len(processes),
           published' \in Seq(PublishedEvent),
           masked' \subseteq 1 .. raised,
           gotos' \in 0 .. MaxGoto,
           UNCHANGED caught
    PROVE  IInv'
<1>1. stack # <<>> /\ raised \in Nat
  BY TopFacts
<1>2. stack' \in Seq(Frame) /\ control' \in {"run", "return", "done"} /\ StackInv'
  BY <1>1, ReturnMove
<1>3. 1 .. raised \subseteq 1 .. raised'
  BY <1>1
<1> QED
  BY <1>1, <1>2, <1>3 DEF IInv, TypeOK, Return

LEMMA EndTaskInv ==
    ASSUME IInv, control \in {"run", "return"}, Top.kind = "task",
           NEW e \in 0 .. raised', NEW events \in Seq(PublishedEvent), EndTask(e, events),
           raised' \in {raised, raised + 1}, raised' \in 0 .. MaxErrors,
           processes' \in Seq(Process), Len(processes') = Len(processes),
           gotos' \in 0 .. MaxGoto,
           UNCHANGED <<caught, masked>>
    PROVE  IInv'
<1>1. Event("TaskEnd", Top.node) \in PublishedEvent
  BY TopFacts, EventFacts DEF Node
<1>2. published' \in Seq(PublishedEvent)
  BY <1>1, ConcatProperties DEF EndTask
<1>3. masked' \subseteq 1 .. raised
  BY DEF IInv, TypeOK
<1> QED
  BY <1>2, <1>3, ReturnInv DEF EndTask

LEMMA EndWorkflowInv ==
    ASSUME IInv, control \in {"run", "return"}, Top.kind = "workflow",
           NEW e \in 0 .. raised', EndWorkflow(e),
           raised' \in {raised, raised + 1}, raised' \in 0 .. MaxErrors,
           UNCHANGED <<caught, masked, gotos>>
    PROVE  IInv'
<1>1. /\ Event("WorkflowEnd", Top.node) \in PublishedEvent
      /\ Event("Error", Top.node) \in PublishedEvent
  BY TopFacts, EventFacts DEF Node
<1>2. /\ <<Event("WorkflowEnd", Top.node)>> \in Seq(PublishedEvent)
      /\ <<Event("Error", Top.node)>> \in Seq(PublishedEvent)
      /\ <<>> \in Seq(PublishedEvent)
  BY <1>1, EmptySeq
<1>3. published' \in Seq(PublishedEvent)
  BY <1>2, ConcatProperties DEF EndWorkflow
<1>4. processes \in Seq(Process) /\ processes # <<>>
  BY TopFacts, EmptySeq DEF IInv, TypeOK
<1>5. processes' \in Seq(Process) /\ Len(processes') = Len(processes) - 1
  BY <1>4, PopFacts DEF EndWorkflow
<1>6. masked' \subseteq 1 .. raised /\ gotos' \in 0 .. MaxGoto
  BY DEF IInv, TypeOK
<1> QED
  BY <1>3, <1>5, <1>6, ReturnInv DEF EndWorkflow

\* A task is started by the frame that runs it.
LEMMA StartTaskInv ==
    ASSUME IInv, control \in {"run", "return"}, NEW f \in Frame, NEW t \in Task, StartTask(f, t),
           f.kind = Top.kind, f.node = Top.node, f.proc = Top.proc,
           f.idx >= Top.idx, f.err \in 0 .. raised,
           published' \in Seq(PublishedEvent),
           caught' \subseteq 1 .. raised,
           UNCHANGED <<raised, masked, gotos>>
    PROVE  IInv'
<1>1. Top.proc \in 1 .. Len(processes) /\ Top.proc = Len(processes) /\ processes \in Seq(Process)
  BY TopFacts DEF IInv, TypeOK
<1>2. HasTagID(t) \in BOOLEAN
  BY DEF HasTagID
<1>3. processes' \in Seq(Process) /\ Len(processes') = Len(processes)
  <2>1. processes' = [processes EXCEPT ![Top.proc].hasTagID = HasTagID(t)]
    BY DEF StartTask, SetTask
  <2>2. /\ [processes EXCEPT ![Top.proc].hasTagID = HasTagID(t)] \in Seq(Process)
        /\ Len([processes EXCEPT ![Top.proc].hasTagID = HasTagID(t)]) = Len(processes)
    BY <1>1, <1>2, SetTaskFacts, Zenon
  <2> QED
    BY <2>1, <2>2, Zenon
<1>4. /\ TaskFrame(Top.proc, t) \in Frame
      /\ TaskFrame(Top.proc, t).kind = "task"
      /\ TaskFrame(Top.proc, t).node = t
      /\ TaskFrame(Top.proc, t).idx = 1
      /\ TaskFrame(Top.proc, t).err = 0
      /\ TaskFrame(Top.proc, t).proc = Top.proc
  BY <1>1, EmptySeq DEF TaskFrame, Frame, Node
<1> QED
  BY <1>1, <1>3, <1>4, CallInv DEF StartTask

-----------------------------------------------------------------------------
(* The steps of runWorkflow and runTasks *)

\* The parts of the types that most steps leave alone.
LEMMA Unmoved ==
    ASSUME IInv
    PROVE  /\ processes \in Seq(Process)
           /\ raised \in 0 .. MaxErrors /\ raised \in 0 .. raised
           /\ caught \subseteq 1 .. raised /\ masked \subseteq 1 .. raised
           /\ gotos \in 0 .. MaxGoto
           /\ <<>> \in Seq(PublishedEvent)
  BY EmptySeq, BoundAssumption DEF IInv, TypeOK

LEMMA RaiseFacts ==
    ASSUME IInv, Raise
    PROVE  raised + 1 \in 0 .. raised' /\ raised' = raised + 1 /\ raised' \in 0 .. MaxErrors
  BY BoundAssumption DEF Raise, IInv, TypeOK

\* The frame with another program counter, index or repetition.
LEMMA FrameFacts ==
    ASSUME NEW f \in Frame, NEW n \in Nat, NEW e \in Nat,
           NEW p \in {"node", "body", "loop", "task", "catch", "scheduled",
                      "defer", "deferred", "subs", "acts", "call"}
    PROVE  /\ [f EXCEPT !.pc = p] \in Frame
           /\ [f EXCEPT !.idx = n] \in Frame
           /\ [f EXCEPT !.pc = p, !.idx = n] \in Frame
           /\ [f EXCEPT !.pc = p, !.err = e] \in Frame
           /\ [f EXCEPT !.pc = p, !.rep = n] \in Frame
           /\ [f EXCEPT !.pc = p, !.idx = n, !.rep = 1] \in Frame
  BY DEF Frame

LEMMA WorkflowSteps ==
    ASSUME IInv, EnterWorkflow \/ LeaveWorkflow
    PROVE  IInv'
<1>1. CASE EnterWorkflow
  <2>0. control \in {"run", "return"} /\ Top.kind = "workflow"
    BY <1>1 DEF EnterWorkflow, Running
  <2>1. CASE EndWorkflow(0) /\ UNCHANGED <<raised, caught, masked, gotos>>
    BY <2>0, <2>1, Unmoved, TopFacts, EndWorkflowInv
  <2>2. CASE Raise /\ EndWorkflow(raised + 1) /\ UNCHANGED <<caught, masked, gotos>>
    BY <2>0, <2>2, RaiseFacts, EndWorkflowInv
  <2>3. CASE /\ Call([Top EXCEPT !.pc = "body"], TasksFrame(Top.proc, Top.node, Tasks[Top.node]))
             /\ Quiet
             /\ UNCHANGED <<processes, raised, caught, masked, gotos>>
    <3> DEFINE f == [Top EXCEPT !.pc = "body"]
               g == TasksFrame(Top.proc, Top.node, Tasks[Top.node])
    <3>1. /\ Top \in Frame /\ Top.node \in Workflow /\ Top.proc = Len(processes)
          /\ Top.proc \in 1 .. Len(processes) /\ Top.err \in 0 .. raised /\ Top.idx \in Nat
      BY <2>0, TopFacts DEF Frame
    <3>2. /\ f \in Frame /\ f.kind = Top.kind /\ f.node = Top.node /\ f.proc = Top.proc
          /\ f.idx >= Top.idx /\ f.err = Top.err
      BY <3>1 DEF Frame
    <3>3. /\ g \in Frame /\ g.kind = "tasks" /\ g.idx = 1 /\ g.err = 0 /\ g.proc = Top.proc
      BY <3>1, TreeAssumption DEF TasksFrame, Frame, Node
    <3>4. Call(f, g) /\ published' \in Seq(PublishedEvent) /\ processes' = processes
      BY <2>3, Unmoved DEF Quiet
    <3> HIDE DEF f, g
    <3> QED
      BY <2>0, <2>3, <3>1, <3>2, <3>3, <3>4, Unmoved, CallInv
  <2> QED
    BY <1>1, <2>1, <2>2, <2>3 DEF EnterWorkflow
<1>2. CASE LeaveWorkflow
  <2>0. control \in {"run", "return"} /\ Top.kind = "workflow"
    BY <1>2 DEF LeaveWorkflow, Returned
  <2>1. CASE EndWorkflow(err) /\ UNCHANGED <<raised, caught, masked, gotos>>
    BY <2>0, <2>1, Unmoved, TopFacts, EndWorkflowInv
  <2>2. CASE Raise /\ EndWorkflow(raised + 1) /\ UNCHANGED <<caught, masked, gotos>>
    BY <2>0, <2>2, RaiseFacts, EndWorkflowInv
  <2> QED
    BY <1>2, <2>1, <2>2 DEF LeaveWorkflow
<1> QED
  BY <1>1, <1>2

TasksNext ==
    \/ PassTask \/ RunTask \/ TaskSucceeded \/ CatchError \/ TaskFailed
    \/ RunScheduled \/ EndLoop \/ RunDeferred \/ EndTasks

LEMMA TasksSteps ==
    ASSUME IInv, TasksNext
    PROVE  IInv'
<1>0. control \in {"run", "return"} /\ Top.kind = "tasks"
  BY DEF TasksNext, PassTask, RunTask, TaskSucceeded, CatchError, TaskFailed, RunScheduled,
         EndLoop, RunDeferred, EndTasks, Running, Returned
<1>1. /\ Top \in Frame /\ Top.proc = Len(processes) /\ Top.proc \in 1 .. Len(processes)
      /\ Top.err \in 0 .. raised /\ Top.idx \in Nat \ {0} /\ Top.list \in Seq(Task)
      /\ Top.idx + 1 \in Nat /\ Top.idx + 1 >= Top.idx
      /\ This \in Process
      /\ err \in 0 .. raised /\ raised \in Nat /\ err \in Nat
  BY <1>0, TopFacts DEF Frame
<1>2. CatchOf(Top) \in Task \cup {NoTask} /\ DeferOf(Top) \in Task \cup {NoTask}
  BY <1>1, TreeAssumption DEF CatchOf, DeferOf, Frame
<1>3. \A n \in Task : /\ <<Event("TaskStart", n)>> \in Seq(PublishedEvent)
                      /\ <<Event("ResetError", n)>> \in Seq(PublishedEvent)
  BY EventFacts DEF Node
\* The frame as it is left by a step that starts a task or goes on.
<1>4. ASSUME NEW p \in {"loop", "task", "catch", "scheduled", "defer", "deferred"}
      PROVE  LET f == [Top EXCEPT !.pc = p]
             IN  /\ f \in Frame /\ f.kind = Top.kind /\ f.node = Top.node /\ f.proc = Top.proc
                 /\ f.idx >= Top.idx /\ f.err \in 0 .. raised
  BY <1>1 DEF Frame
<1>5. LET f == [Top EXCEPT !.idx = @ + 1]
      IN  /\ f \in Frame /\ f.kind = Top.kind /\ f.node = Top.node /\ f.proc = Top.proc
          /\ f.idx >= Top.idx /\ f.err \in 0 .. raised
  BY <1>1 DEF Frame
<1>6. LET f == [Top EXCEPT !.pc = "loop", !.idx = @ + 1]
      IN  /\ f \in Frame /\ f.kind = Top.kind /\ f.node = Top.node /\ f.proc = Top.proc
          /\ f.idx >= Top.idx /\ f.err \in 0 .. raised
  BY <1>1 DEF Frame
<1>7. LET f == [Top EXCEPT !.pc = "defer", !.err = err]
      IN  /\ f \in Frame /\ f.kind = Top.kind /\ f.node = Top.node /\ f.proc = Top.proc
          /\ f.idx >= Top.idx /\ f.err \in 0 .. raised
  <2> DEFINE f == [Top EXCEPT !.pc = "defer", !.err = err]
  <2>1. f \in Frame
    BY <1>1, FrameFacts
  <2>2. f.kind = Top.kind /\ f.node = Top.node /\ f.proc = Top.proc /\ f.idx = Top.idx
    BY <1>1 DEF Frame
  <2>3. f.err = err
    BY <1>1 DEF Frame
  <2> HIDE DEF f
  <2>4. f.idx >= Top.idx /\ f.err \in 0 .. raised
    BY <1>1, <2>2, <2>3
  <2> QED
    BY <2>1, <2>2, <2>4 DEF f
<1>a. CASE PassTask
  BY <1>0, <1>5, <1>a, Unmoved, ContinueInv DEF PassTask, Quiet
<1>b. CASE RunTask
  <2>1. Top.list[Top.idx] \in Task
    BY <1>1, <1>b, ElementOfSeq DEF RunTask, LoopEnds
  <2> QED
    BY <1>0, <1>3, <1>4, <1>b, <2>1, Unmoved, StartTaskInv DEF RunTask
<1>c. CASE TaskSucceeded
  BY <1>0, <1>6, <1>c, Unmoved, ContinueInv DEF TaskSucceeded, Quiet
<1>d. CASE CatchError
  <2>1. CatchOf(Top) \in Task /\ err \in 1 .. raised
    BY <1>1, <1>2, <1>d DEF CatchError
  <2>2. published' \in Seq(PublishedEvent)
    BY <1>3, <1>d, <2>1, Unmoved, ConcatProperties DEF CatchError
  <2>3. caught' \subseteq 1 .. raised
    BY <1>d, <2>1, Unmoved DEF CatchError
  <2> QED
    BY <1>0, <1>4, <1>d, <2>1, <2>2, <2>3, StartTaskInv DEF CatchError
<1>e. CASE TaskFailed
  BY <1>0, <1>7, <1>e, Unmoved, ContinueInv DEF TaskFailed, Quiet
<1>f. CASE RunScheduled
  <2> DEFINE g == TasksFrame(Top.proc, NoTask, <<This.scheduled>>)
  <2>1. This.scheduled \in Task
    BY <1>1, <1>f DEF RunScheduled, Process
  <2>2. /\ g \in Frame /\ g.kind = "tasks" /\ g.idx = 1 /\ g.err = 0 /\ g.proc = Top.proc
    BY <1>1, <2>1 DEF TasksFrame, Frame
  <2>3. processes' \in Seq(Process) /\ Len(processes') = Len(processes)
    BY <1>1, <1>f, Unmoved, ScheduleFacts DEF RunScheduled
  <2>4. Call([Top EXCEPT !.pc = "scheduled"], g) /\ published' = <<>>
    BY <1>f DEF RunScheduled, Quiet
  <2> DEFINE f == [Top EXCEPT !.pc = "scheduled"]
  <2>5. /\ f \in Frame /\ f.kind = Top.kind /\ f.node = Top.node /\ f.proc = Top.proc
        /\ f.idx >= Top.idx /\ f.err \in 0 .. raised /\ Call(f, g)
    BY <1>4, <2>4
  <2>6. published' \in Seq(PublishedEvent) /\ UNCHANGED <<raised, caught, masked, gotos>>
    BY <1>f, <2>4, Unmoved DEF RunScheduled
  <2> HIDE DEF f, g
  <2> QED
    BY <1>0, <1>1, <2>2, <2>3, <2>5, <2>6, Unmoved, CallInv
<1>g. CASE EndLoop
  BY <1>0, <1>7, <1>g, Unmoved, ContinueInv DEF EndLoop, Quiet
<1>h. CASE RunDeferred
  <2>1. DeferOf(Top) \in Task
    BY <1>2, <1>h DEF RunDeferred
  <2> QED
    BY <1>0, <1>3, <1>4, <1>h, <2>1, Unmoved, StartTaskInv DEF RunDeferred
<1>i. CASE EndTasks
  <2> DEFINE e == IF Top.err # 0 THEN Top.err ELSE err
  <2>1. e \in 0 .. raised /\ masked' \subseteq 1 .. raised
    BY <1>1, <1>i, Unmoved DEF EndTasks
  <2>2. Return(e)
    BY <1>i DEF EndTasks
  <2> HIDE DEF e
  <2> QED
    BY <1>0, <1>i, <2>1, <2>2, Unmoved, ReturnInv DEF EndTasks, Quiet
<1> QED
  BY <1>a, <1>b, <1>c, <1>d, <1>e, <1>f, <1>g, <1>h, <1>i DEF TasksNext

-----------------------------------------------------------------------------
(* The steps of runTask and of its actions *)

TaskNext == SkipTask \/ FailTaskInit \/ EnterTask \/ SubTasksReturned \/ LeaveTask

LEMMA TaskSteps ==
    ASSUME IInv, TaskNext
    PROVE  IInv'
<1>0. control \in {"run", "return"} /\ Top.kind = "task"
  BY DEF TaskNext, SkipTask, FailTaskInit, EnterTask, SubTasksReturned, LeaveTask, Running, Returned
<1>1. /\ Top \in Frame /\ Top.node \in Task /\ Top.proc = Len(processes)
      /\ Top.proc \in 1 .. Len(processes)
      /\ Top.err \in 0 .. raised /\ Top.idx \in Nat \ {0}
      /\ err \in 0 .. raised /\ raised \in Nat
  BY <1>0, TopFacts
<1>2. ASSUME NEW p \in {"subs", "acts"}
      PROVE  LET f == [Top EXCEPT !.pc = p]
             IN  /\ f \in Frame /\ f.kind = Top.kind /\ f.node = Top.node /\ f.proc = Top.proc
                 /\ f.idx >= Top.idx /\ f.err \in 0 .. raised
  BY <1>1 DEF Frame
<1>3. ASSUME Raise, EndTask(raised + 1, <<>>), UNCHANGED <<processes, caught, masked, gotos>>
      PROVE  IInv'
  BY <1>0, <1>3, RaiseFacts, Unmoved, EndTaskInv
<1>4. ASSUME NEW e \in {0, err}, EndTask(e, <<>>),
             UNCHANGED <<processes, raised, caught, masked, gotos>>
      PROVE  IInv'
  <2>1. /\ e \in 0 .. raised' /\ raised' = raised /\ raised' \in 0 .. MaxErrors
        /\ <<>> \in Seq(PublishedEvent)
    BY <1>1, <1>4, Unmoved
  <2> QED
    BY <1>0, <1>4, <2>1, Unmoved, EndTaskInv
<1>a. CASE SkipTask
  BY <1>4, <1>a DEF SkipTask
<1>b. CASE FailTaskInit
  BY <1>3, <1>b DEF FailTaskInit
<1>c. CASE EnterTask
  <2>1. CASE Call([Top EXCEPT !.pc = "subs"], TasksFrame(Top.proc, Top.node, Tasks[Top.node]))
    <3> DEFINE f == [Top EXCEPT !.pc = "subs"]
               g == TasksFrame(Top.proc, Top.node, Tasks[Top.node])
    <3>1. /\ g \in Frame /\ g.kind = "tasks" /\ g.idx = 1 /\ g.err = 0 /\ g.proc = Top.proc
      BY <1>1, TreeAssumption DEF TasksFrame, Frame, Node
    <3>2. /\ f \in Frame /\ f.kind = Top.kind /\ f.node = Top.node /\ f.proc = Top.proc
          /\ f.idx >= Top.idx /\ f.err \in 0 .. raised /\ Call(f, g)
      BY <1>2, <2>1
    <3>3. published' \in Seq(PublishedEvent) /\ UNCHANGED <<processes, raised, caught, masked, gotos>>
      BY <1>c, Unmoved DEF EnterTask, Quiet
    <3> HIDE DEF f, g
    <3> QED
      BY <1>0, <1>1, <3>1, <3>2, <3>3, Unmoved, CallInv
  <2>2. CASE Continue([Top EXCEPT !.pc = "acts"])
    BY <1>0, <1>2, <1>c, <2>2, Unmoved, ContinueInv DEF EnterTask, Quiet
  <2> QED
    BY <1>c, <2>1, <2>2 DEF EnterTask
<1>d. CASE SubTasksReturned
  <2>1. CASE Continue([Top EXCEPT !.pc = "acts"]) /\ Quiet
    BY <1>0, <1>2, <1>d, <2>1, Unmoved, ContinueInv DEF SubTasksReturned, Quiet
  <2>2. CASE EndTask(err, <<>>)
    BY <1>4, <1>d, <2>2 DEF SubTasksReturned
  <2> QED
    BY <1>d, <2>1, <2>2 DEF SubTasksReturned
<1>e. CASE LeaveTask
  BY <1>3, <1>4, <1>e DEF LeaveTask
<1> QED
  BY <1>a, <1>b, <1>c, <1>d, <1>e DEF TaskNext

\* The frame of a task after one of its actions.
LEMMA ActionFrameFacts ==
    ASSUME Top \in Frame, NEW f \in {NextAction, [Top EXCEPT !.pc = "acts", !.rep = @ + 1]}
    PROVE  /\ f \in Frame /\ f.kind = Top.kind /\ f.node = Top.node /\ f.proc = Top.proc
           /\ f.idx >= Top.idx /\ f.err = Top.err
<1>1. Top.idx \in Nat /\ Top.idx + 1 \in Nat /\ Top.rep + 1 \in Nat
  BY DEF Frame
<1>2. CASE f = NextAction
  <2>1. f \in Frame
    BY <1>1, <1>2, FrameFacts DEF NextAction
  <2>2. /\ f.kind = Top.kind /\ f.node = Top.node /\ f.proc = Top.proc
        /\ f.idx = Top.idx + 1 /\ f.err = Top.err
    BY <1>2 DEF NextAction, Frame
  <2> QED
    BY <1>1, <2>1, <2>2
<1>3. CASE f = [Top EXCEPT !.pc = "acts", !.rep = @ + 1]
  <2>1. f \in Frame
    BY <1>1, <1>3, FrameFacts
  <2>2. /\ f.kind = Top.kind /\ f.node = Top.node /\ f.proc = Top.proc
        /\ f.idx = Top.idx /\ f.err = Top.err
    BY <1>3 DEF Frame
  <2> QED
    BY <1>1, <2>1, <2>2
<1> QED
  BY <1>2, <1>3

\* An action that ends well continues the task or fails it quietly.
LEMMA ActionOKInv ==
    ASSUME IInv, control \in {"run", "return"}, Top.kind = "task",
           NEW events \in Seq(PublishedEvent), ActionOK(events),
           processes' \in Seq(Process), Len(processes') = Len(processes),
           gotos' \in 0 .. MaxGoto,
           UNCHANGED <<caught, masked>>
    PROVE  IInv'
<1>1. /\ Top \in Frame /\ Top.node \in Task /\ Top.err \in 0 .. raised /\ Top.idx \in Nat
      /\ Top.rep \in Nat
  BY TopFacts DEF Frame
<1>2. ASSUME NEW f \in AfterAction
      PROVE  /\ f \in Frame /\ f.kind = Top.kind /\ f.node = Top.node /\ f.proc = Top.proc
             /\ f.idx >= Top.idx /\ f.err \in 0 .. raised
  BY <1>1, ActionFrameFacts DEF AfterAction
<1>3. CASE (\E f \in AfterAction : Continue(f)) /\ published' = events /\ UNCHANGED raised
  BY <1>2, <1>3, ContinueInv
<1>4. CASE Raise /\ EndTask(raised + 1, events)
  BY <1>4, RaiseFacts, EndTaskInv
<1> QED
  BY <1>3, <1>4 DEF ActionOK

\* The loader gives goto and switch a task, run a workflow.
LEMMA ThisActionFacts ==
    ASSUME Top.node \in Task, Top.idx \in Nat \ {0}, AtAction
    PROVE  /\ ThisAction \in Action
           /\ ThisAction.service \in {"goto", "switch"} => ThisAction.target \in Task
           /\ ThisAction.service = "run" => ThisAction.target \in Workflow
<1>1. Actions[Top.node] \in Seq(Action)
  BY ActionAssumption
<1>2. Top.idx \in 1 .. Len(Actions[Top.node])
  BY <1>1, LenProperties DEF AtAction
<1>3. ThisAction \in Action
  BY <1>1, <1>2, ElementOfSeq DEF ThisAction
<1> QED
  BY <1>2, <1>3, ActionAssumption DEF ThisAction

ActionNext ==
    \/ PassAction \/ IdleAction \/ FailActionInit \/ CallService \/ ExitWorkflow \/ Goto
    \/ Switch \/ RunWorkflow \/ ActionReturned

LEMMA ActionSteps ==
    ASSUME IInv, ActionNext
    PROVE  IInv'
<1>0. /\ control \in {"run", "return"} /\ Top.kind = "task"
      /\ ~ActionReturned => AtAction
  BY DEF ActionNext, PassAction, IdleAction, FailActionInit, CallService, ExitWorkflow, Goto, Switch, RunWorkflow,
         ActionReturned, RunsAction, AtAction, Running, Returned
<1>1. /\ Top \in Frame /\ Top.node \in Task /\ Top.proc = Len(processes)
      /\ Top.proc \in 1 .. Len(processes) /\ Len(processes) \in 1 .. Len(processes)
      /\ Top.err \in 0 .. raised /\ Top.idx \in Nat \ {0}
      /\ err \in 0 .. raised /\ raised \in Nat /\ Last \in Process
  BY <1>0, TopFacts
<1>2. AtAction => /\ ThisAction \in Action
                  /\ ThisAction.service \in {"goto", "switch"} => ThisAction.target \in Task
                  /\ ThisAction.service = "run" => ThisAction.target \in Workflow
  BY <1>1, ThisActionFacts
<1>3. LET f == NextAction
      IN  /\ f \in Frame /\ f.kind = Top.kind /\ f.node = Top.node /\ f.proc = Top.proc
          /\ f.idx >= Top.idx /\ f.err \in 0 .. raised
  BY <1>1, ActionFrameFacts
<1>4. LET f == [Top EXCEPT !.pc = "call"]
      IN  /\ f \in Frame /\ f.kind = Top.kind /\ f.node = Top.node /\ f.proc = Top.proc
          /\ f.idx >= Top.idx /\ f.err \in 0 .. raised
  BY <1>1 DEF Frame
<1>5. /\ Started \in Seq(PublishedEvent)
      /\ Ended \in Seq(PublishedEvent)
      /\ <<Event("Error", Top.node)>> \in Seq(PublishedEvent)
  BY <1>1, EventFacts DEF Started, Ended, Node
<1>6. /\ Started \o Ended \in Seq(PublishedEvent)
      /\ Started \o <<Event("Error", Top.node)>> \o Ended \in Seq(PublishedEvent)
      /\ <<Event("Error", Top.node)>> \o Ended \in Seq(PublishedEvent)
  BY <1>5, ConcatProperties
<1>a. CASE PassAction
  <2>1. CASE Continue(NextAction)
    BY <1>0, <1>3, <1>a, <2>1, Unmoved, ContinueInv DEF PassAction, Quiet
  <2>2. ASSUME NEW j \in Top.idx + 1 .. Len(Actions[Top.node]) + 1,
               Continue([NextAction EXCEPT !.idx = j])
        PROVE  IInv'
    <3> DEFINE f == [NextAction EXCEPT !.idx = j]
    <3>0. Len(Actions[Top.node]) \in Nat
      BY <1>1, ActionAssumption, LenProperties
    <3>1. j \in Nat /\ j >= Top.idx
      BY <1>1, <3>0
    <3>2. /\ f \in Frame /\ f.kind = Top.kind /\ f.node = Top.node /\ f.proc = Top.proc
          /\ f.idx >= Top.idx /\ f.err \in 0 .. raised
      BY <1>1, <1>3, <3>1 DEF NextAction, Frame
    <3> HIDE DEF f
    <3>3. Continue(f)
      BY <2>2 DEF f
    <3> QED
      BY <1>0, <1>a, <3>2, <3>3, Unmoved, ContinueInv DEF PassAction, Quiet
  <2> QED
    BY <1>a, <2>1, <2>2 DEF PassAction
<1>b. CASE IdleAction
  <2>1. <<>> \in Seq(PublishedEvent)
    OBVIOUS
  <2>2. ActionOK(<<>>) /\ UNCHANGED <<processes, caught, masked, gotos>>
    BY <1>b DEF IdleAction
  <2> QED
    BY <1>0, <2>1, <2>2, Unmoved, ActionOKInv
<1>i. CASE FailActionInit
  <2>1. <<>> \in Seq(PublishedEvent)
    OBVIOUS
  <2>2. Raise /\ EndTask(raised + 1, <<>>) /\ UNCHANGED <<processes, caught, masked, gotos>>
    BY <1>i DEF FailActionInit
  <2> QED
    BY <1>0, <2>1, <2>2, RaiseFacts, Unmoved, EndTaskInv
<1>c. CASE CallService
  <2>1. UNCHANGED <<processes, caught, masked, gotos>>
    BY <1>c DEF CallService
  <2>2. CASE ActionOK(Started \o Ended)
    BY <1>0, <1>6, <2>1, <2>2, Unmoved, ActionOKInv
  <2>3. CASE /\ Raise
             /\ EndTask(raised + 1, Started \o <<Event("Error", Top.node)>> \o Ended)
    BY <1>0, <1>6, <2>1, <2>3, RaiseFacts, Unmoved, EndTaskInv
  <2> QED
    BY <1>c, <2>2, <2>3 DEF CallService
<1>d. CASE ExitWorkflow
  <2>1. processes' \in Seq(Process) /\ Len(processes') = Len(processes)
    BY <1>1, <1>d, Unmoved, TerminateFacts DEF ExitWorkflow
  <2>2. ActionOK(Started \o Ended) /\ UNCHANGED <<caught, masked, gotos>>
    BY <1>d DEF ExitWorkflow
  <2> QED
    BY <1>0, <1>6, <2>1, <2>2, Unmoved, ActionOKInv
<1>e. CASE Goto
  <2>1. ThisAction.target \in Task
    BY <1>0, <1>2, <1>e DEF Goto, RunsAction, ActionReturned
  <2>2. processes' \in Seq(Process) /\ Len(processes') = Len(processes)
    BY <1>1, <1>e, <2>1, Unmoved, ScheduleFacts DEF Goto
  <2>3. ActionOK(Started \o Ended) /\ UNCHANGED <<caught, masked>> /\ gotos' \in 0 .. MaxGoto
    BY <1>e, BoundAssumption, Unmoved DEF Goto
  <2> QED
    BY <1>0, <1>6, <2>2, <2>3, ActionOKInv
<1>f. CASE Switch
  <2>1. ThisAction.target \in Task
    BY <1>2, <1>f DEF Switch, RunsAction
  <2>2. published' \in Seq(PublishedEvent)
    BY <1>5, <1>f, <2>1, EventFacts, ConcatProperties DEF Switch, Node
  <2>3. StartTask([Top EXCEPT !.pc = "call"], ThisAction.target)
    BY <1>f DEF Switch
  <2>4. UNCHANGED <<raised, caught, masked, gotos>>
    BY <1>f DEF Switch
  <2> QED
    BY <1>0, <1>4, <2>1, <2>2, <2>3, <2>4, Unmoved, StartTaskInv
<1>g. CASE RunWorkflow
  <2> DEFINE f == [Top EXCEPT !.pc = "call"]
             g == WorkflowFrame(Len(processes) + 1, ThisAction.target)
             p == NewProcess(ThisAction.target, Last.tagIDs)
  <2>1. ThisAction.target \in Workflow
    BY <1>2, <1>g DEF RunWorkflow, RunsAction
  <2>2. published' \in Seq(PublishedEvent)
    BY <1>5, <1>g, <2>1, EventFacts, ConcatProperties DEF RunWorkflow, Node
  <2>3. p \in Process
    BY <1>1, <2>1, TreeAssumption DEF NewProcess, Process
  <2>4. processes' = Append(processes, p) /\ Call(f, g) /\ UNCHANGED <<raised, caught, masked, gotos>>
    BY <1>g DEF RunWorkflow
  <2>5. /\ g \in Frame /\ g.kind = "workflow" /\ g.node \in Workflow /\ g.err = 0
        /\ g.proc = Len(processes) + 1
    BY <1>1, <2>1 DEF WorkflowFrame, Frame, Node
  <2>6. /\ f \in Frame /\ f.kind = Top.kind /\ f.node = Top.node /\ f.proc = Top.proc
        /\ f.idx >= Top.idx /\ f.err \in 0 .. raised
    BY <1>4
  <2> HIDE DEF f, g, p
  <2>7. processes' \in Seq(Process) /\ Len(processes') = Len(processes) + 1
    BY <2>3, <2>4, Unmoved, AppendProperties
  <2> QED
    BY <1>0, <2>2, <2>4, <2>5, <2>6, <2>7, Unmoved, CallInv
<1>h. CASE ActionReturned
  <2>1. UNCHANGED <<processes, caught, masked, gotos>>
    BY <1>h DEF ActionReturned
  <2>2. CASE ActionOK(Ended)
    BY <1>0, <1>5, <2>1, <2>2, Unmoved, ActionOKInv
  <2>3. CASE EndTask(err, <<Event("Error", Top.node)>> \o Ended) /\ UNCHANGED raised
    BY <1>0, <1>1, <1>6, <2>1, <2>3, Unmoved, EndTaskInv
  <2> QED
    BY <1>h, <2>2, <2>3 DEF ActionReturned
<1> QED
  BY <1>a, <1>b, <1>c, <1>d, <1>e, <1>f, <1>g, <1>h, <1>i DEF ActionNext

-----------------------------------------------------------------------------
LEMMA InitInv == Init => IInv
<1> SUFFICES ASSUME Init PROVE IInv
  OBVIOUS
<1> DEFINE f == WorkflowFrame(1, Main)
           p == NewProcess(Main, {})
<1>1. /\ f \in Frame /\ f.kind = "workflow" /\ f.node \in Workflow /\ f.proc = 1 /\ f.err = 0
  BY TreeAssumption DEF WorkflowFrame, Frame, Node
<1>2. p \in Process
  BY TreeAssumption DEF NewProcess, Process
<1>3. Event("WorkflowStart", Main) \in PublishedEvent
  BY TreeAssumption, EventFacts DEF Node
<1>4. stack = <<f>> /\ processes = <<p>>
  BY DEF Init
<1> HIDE DEF f, p
<1>5. /\ stack \in Seq(Frame) /\ Len(stack) = 1 /\ stack[1] = f /\ stack # <<>>
      /\ processes \in Seq(Process) /\ Len(processes) = 1
  BY <1>1, <1>2, <1>4
<1>6. TypeOK
  BY <1>3, <1>5, BoundAssumption DEF Init, TypeOK
<1>7. FrameInv(stack, Len(processes), raised) /\ ChainInv(stack)
  BY <1>1, <1>5 DEF Init, FrameInv, ChainInv
<1> QED
  BY <1>1, <1>5, <1>6, <1>7 DEF Init, IInv, StackInv, Top

LEMMA NextInv == IInv /\ [Next]_vars => IInv'
<1> SUFFICES ASSUME IInv, [Next]_vars
             PROVE  IInv'
  OBVIOUS
<1>1. CASE UNCHANGED vars
  BY <1>1 DEF vars, IInv, TypeOK, StackInv, FrameInv, ChainInv, Top
<1>2. CASE EnterWorkflow \/ LeaveWorkflow
  BY <1>2, WorkflowSteps
<1>3. CASE TasksNext
  BY <1>3, TasksSteps
<1>4. CASE TaskNext
  BY <1>4, TaskSteps
<1>5. CASE ActionNext
  BY <1>5, ActionSteps
<1> QED
  BY <1>1, <1>2, <1>3, <1>4, <1>5 DEF Next, Finished, TasksNext, TaskNext, ActionNext

\* The stack of calls is always one that the program can have.
THEOREM InvariantHolds == Spec => []IInv
  BY InitInv, NextInv, PTL DEF Spec

\* Every variable keeps its type, whatever tree of tasks is walked.
THEOREM TypeCorrect == Spec => []TypeOK
<1>1. IInv => TypeOK
  BY DEF IInv
<1> QED
  BY <1>1, InvariantHolds, PTL

\* Last(context), which exit, goto and switch act on, is the process that the
\* innermost call of runTasks and runTask was given.
THEOREM ActsOnOwnProcess == Spec => []ProcessOfFrame
<1>1. IInv => ProcessOfFrame
  <2> SUFFICES ASSUME IInv, stack # <<>>
               PROVE  Top.proc = Len(processes) /\ \A i \in DOMAIN stack : stack[i].proc \in DOMAIN processes
    BY DEF ProcessOfFrame
  <2>1. DOMAIN stack = 1 .. Len(stack) /\ DOMAIN processes = 1 .. Len(processes)
    BY LenProperties DEF IInv, TypeOK
  <2> QED
    BY <2>1 DEF IInv, StackInv, FrameInv
<1> QED
  BY <1>1, InvariantHolds, PTL

-----------------------------------------------------------------------------
(* What a step does to the processes *)

Sound(ps) == \A i \in 1 .. Len(ps) : ps[i].terminated => ps[i].scheduled = NoTask

\* Only a process that can still run is terminated or given a jump.
LEMMA UpdateSound ==
    ASSUME NEW ps \in Seq(Process), NEW k \in 1 .. Len(ps), Sound(ps), NEW p \in Process,
           p.terminated => p.scheduled = NoTask
    PROVE  Sound([ps EXCEPT ![k] = p])
  BY LenProperties DEF Sound

LEMMA SetTaskSound ==
    ASSUME IInv, control \in {"run", "return"}, NEW t \in Task, Sound(processes), SetTask(t)
    PROVE  Sound(processes')
<1> DEFINE x == HasTagID(t)
           p == [This EXCEPT !.hasTagID = x]
<1>1. Top.proc \in 1 .. Len(processes) /\ This \in Process /\ processes \in Seq(Process)
  BY TopFacts DEF IInv, TypeOK
<1>2. x \in BOOLEAN
  BY DEF HasTagID
<1>3. processes' = [processes EXCEPT ![Top.proc] = p]
  BY DEF SetTask, This
<1>4. This.terminated => This.scheduled = NoTask
  BY <1>1 DEF Sound, This
<1> HIDE DEF x
<1>5. p \in Process /\ (p.terminated => p.scheduled = NoTask)
  BY <1>1, <1>2, <1>4 DEF Process
<1> HIDE DEF p
<1> QED
  BY <1>1, <1>3, <1>5, UpdateSound

LEMMA SoundStep ==
    ASSUME IInv, Sound(processes), [Next]_vars
    PROVE  Sound(processes')
<1>0. processes \in Seq(Process)
  BY DEF IInv, TypeOK
<1>1. CASE UNCHANGED processes
  BY <1>1
<1>2. ASSUME EnterWorkflow \/ LeaveWorkflow, processes' = SubSeq(processes, 1, Len(processes) - 1)
      PROVE  Sound(processes')
  <2>1. processes # <<>>
    BY <1>2, TopFacts, EmptySeq DEF EnterWorkflow, LeaveWorkflow, Running, Returned
  <2>2. /\ Len(processes') = Len(processes) - 1 /\ Len(processes) \in Nat
        /\ \A i \in 1 .. Len(processes) - 1 : processes'[i] = processes[i]
    BY <1>0, <1>2, <2>1, PopFacts, SubSeqProperties
  <2> QED
    BY <2>2 DEF Sound
<1>3. ASSUME RunScheduled
      PROVE  Sound(processes')
  <2> DEFINE p == [This EXCEPT !.scheduled = NoTask]
  <2>1. Top.proc \in 1 .. Len(processes) /\ This \in Process
    BY <1>3, TopFacts DEF RunScheduled, Running
  <2>2. processes' = [processes EXCEPT ![Top.proc] = p]
    BY <1>3 DEF RunScheduled, This
  <2>3. p \in Process /\ p.scheduled = NoTask
    BY <2>1 DEF Process
  <2> HIDE DEF p
  <2> QED
    BY <1>0, <2>1, <2>2, <2>3, UpdateSound
<1>4. ASSUME ExitWorkflow
      PROVE  Sound(processes')
  <2> DEFINE p == [Last EXCEPT !.terminated = TRUE]
  <2>1. Len(processes) \in 1 .. Len(processes) /\ Last \in Process /\ This = Last
    BY <1>4, TopFacts DEF ExitWorkflow, RunsAction, AtAction, Running
  <2>2. processes' = [processes EXCEPT ![Len(processes)] = p]
    BY <1>4 DEF ExitWorkflow, Last
  <2>3. p \in Process /\ p.scheduled = NoTask
    BY <1>4, <2>1 DEF Process, ExitWorkflow, RunsAction, CanRun
  <2> HIDE DEF p
  <2> QED
    BY <1>0, <2>1, <2>2, <2>3, UpdateSound
<1>5. ASSUME Goto
      PROVE  Sound(processes')
  <2> DEFINE p == [Last EXCEPT !.scheduled = ThisAction.target]
  <2>1. /\ Len(processes) \in 1 .. Len(processes) /\ Last \in Process /\ This = Last
        /\ Top.node \in Task /\ Top.idx \in Nat \ {0}
    BY <1>5, TopFacts DEF Goto, RunsAction, AtAction, Running
  <2>2. ThisAction.target \in Task
    BY <1>5, <2>1, ThisActionFacts DEF Goto, RunsAction
  <2>3. processes' = [processes EXCEPT ![Len(processes)] = p]
    BY <1>5 DEF Goto, Last
  <2>4. p \in Process /\ ~p.terminated
    BY <1>5, <2>1, <2>2 DEF Process, Goto, RunsAction, CanRun
  <2> HIDE DEF p
  <2> QED
    BY <1>0, <2>1, <2>3, <2>4, UpdateSound
<1>6. ASSUME RunWorkflow
      PROVE  Sound(processes')
  <2> DEFINE p == NewProcess(ThisAction.target, Last.tagIDs)
  <2>1. /\ Last \in Process /\ Top.node \in Task /\ Top.idx \in Nat \ {0}
    BY <1>6, TopFacts DEF RunWorkflow, RunsAction, AtAction, Running
  <2>2. ThisAction.target \in Workflow
    BY <1>6, <2>1, ThisActionFacts DEF RunWorkflow, RunsAction
  <2>3. p \in Process /\ p.scheduled = NoTask
    BY <2>1, <2>2, TreeAssumption DEF NewProcess, Process
  <2>4. processes' = Append(processes, p)
    BY <1>6 DEF RunWorkflow
  <2> HIDE DEF p
  <2> QED
    BY <1>0, <2>3, <2>4, AppendProperties, LenProperties DEF Sound
<1>7. ASSUME RunTask \/ CatchError \/ RunDeferred \/ Switch
      PROVE  Sound(processes')
  <2>1. control \in {"run", "return"}
    BY <1>7 DEF RunTask, CatchError, RunDeferred, Switch, RunsAction, AtAction, Running, Returned
  <2>2. Top \in Frame /\ Top.list \in Seq(Task) /\ (Top.kind # "workflow" => Top.idx \in Nat \ {0})
    BY <2>1, TopFacts DEF Frame
  <2>3. CASE RunTask
    <3>1. Top.list[Top.idx] \in Task
      BY <2>2, <2>3, ElementOfSeq DEF RunTask, LoopEnds, Running
    <3> QED
      BY <2>1, <2>3, <3>1, SetTaskSound DEF RunTask, StartTask
  <2>4. CASE CatchError
    <3>1. CatchOf(Top) \in Task
      BY <2>2, <2>4, TreeAssumption DEF CatchError, CatchOf, Frame
    <3> QED
      BY <2>1, <2>4, <3>1, SetTaskSound DEF CatchError, StartTask
  <2>5. CASE RunDeferred
    <3>1. DeferOf(Top) \in Task
      BY <2>2, <2>5, TreeAssumption DEF RunDeferred, DeferOf, Frame
    <3> QED
      BY <2>1, <2>5, <3>1, SetTaskSound DEF RunDeferred, StartTask
  <2>6. CASE Switch
    <3>1. ThisAction.target \in Task
      BY <2>1, <2>6, TopFacts, ThisActionFacts DEF Switch, RunsAction, AtAction, Running
    <3> QED
      BY <2>1, <2>6, <3>1, SetTaskSound DEF Switch, StartTask
  <2> QED
    BY <1>7, <2>3, <2>4, <2>5, <2>6
<1>8. CASE EnterWorkflow \/ LeaveWorkflow
  BY <1>1, <1>2, <1>8 DEF EnterWorkflow, LeaveWorkflow, EndWorkflow
<1>9. CASE TasksNext
  BY <1>1, <1>3, <1>7, <1>9 DEF TasksNext, PassTask, TaskSucceeded, TaskFailed, EndLoop, EndTasks
<1>10. CASE TaskNext
  BY <1>1, <1>10 DEF TaskNext, SkipTask, FailTaskInit, EnterTask, SubTasksReturned, LeaveTask
<1>11. CASE ActionNext
  BY <1>1, <1>4, <1>5, <1>6, <1>7, <1>11
    DEF ActionNext, PassAction, IdleAction, FailActionInit, CallService, ActionReturned
<1>12. CASE UNCHANGED vars
  BY <1>1, <1>12 DEF vars
<1> QED
  BY <1>1, <1>8, <1>9, <1>10, <1>11, <1>12 DEF Next, Finished, TasksNext, TaskNext, ActionNext, vars

\* Exit and goto exclude each other in a process: neither is run once the other
\* was, until the frame of runTasks has taken the scheduled task.
THEOREM ExitOrGoto == Spec => []ExitExcludesGoto
<1>1. Init => IInv /\ Sound(processes)
  BY InitInv DEF Init, NewProcess, Sound
<1>2. IInv /\ Sound(processes) /\ [Next]_vars => IInv' /\ Sound(processes)'
  BY NextInv, SoundStep
<1>3. IInv /\ Sound(processes) => ExitExcludesGoto
  BY LenProperties DEF IInv, TypeOK, Sound, ExitExcludesGoto
<1> QED
  BY <1>1, <1>2, <1>3, PTL DEF Spec

-----------------------------------------------------------------------------
(* ExitStops, an action property: no step publishes the start of a task or *)
(* of an action in a process that has run exit.                            *)

\* No event of these types is among those published.
Without(s, types) == \A i \in DOMAIN s : s[i].type \notin types

LEMMA WithoutConcat ==
    ASSUME NEW s \in Seq(PublishedEvent), NEW t \in Seq(PublishedEvent), NEW types,
           Without(s, types), Without(t, types)
    PROVE  s \o t \in Seq(PublishedEvent) /\ Without(s \o t, types)
<1>1. /\ s \o t \in Seq(PublishedEvent) /\ Len(s \o t) = Len(s) + Len(t)
      /\ \A i \in 1 .. Len(s) + Len(t) :
            (s \o t)[i] = IF i <= Len(s) THEN s[i] ELSE t[i - Len(s)]
  BY ConcatProperties, Zenon
<1>2. /\ Len(s) \in Nat /\ DOMAIN s = 1 .. Len(s)
      /\ Len(t) \in Nat /\ DOMAIN t = 1 .. Len(t)
      /\ DOMAIN (s \o t) = 1 .. Len(s \o t)
  BY <1>1, LenProperties
<1>3. ASSUME NEW i \in DOMAIN (s \o t)
      PROVE  (s \o t)[i].type \notin types
  <2>1. i \in 1 .. Len(s) + Len(t) /\ i \in Nat
    BY <1>1, <1>2
  <2>2. CASE i <= Len(s)
    <3>1. i \in DOMAIN s /\ (s \o t)[i] = s[i]
      BY <1>1, <1>2, <2>1, <2>2
    <3> QED
      BY <3>1 DEF Without
  <2>3. CASE ~(i <= Len(s))
    <3>1. i - Len(s) \in DOMAIN t /\ (s \o t)[i] = t[i - Len(s)]
      BY <1>1, <1>2, <2>1, <2>3
    <3> QED
      BY <3>1 DEF Without
  <2> QED
    BY <2>2, <2>3
<1> QED
  BY <1>1, <1>3 DEF Without

LEMMA WithoutOne ==
    ASSUME NEW n \in Node, NEW types,
           NEW type \in {"WorkflowStart", "WorkflowEnd", "TaskStart", "TaskEnd",
                         "ActivityStart", "ActivityEnd", "Error", "ResetError"},
           type \notin types
    PROVE  <<Event(type, n)>> \in Seq(PublishedEvent) /\ Without(<<Event(type, n)>>, types)
<1>1. Event(type, n) \in PublishedEvent /\ Event(type, n).type = type
  BY DEF Event, PublishedEvent
<1>2. /\ <<Event(type, n)>> \in Seq(PublishedEvent)
      /\ DOMAIN <<Event(type, n)>> = {1}
      /\ <<Event(type, n)>>[1] = Event(type, n)
  BY <1>1
<1> QED
  BY <1>1, <1>2 DEF Without

LEMMA WithoutNone == <<>> \in Seq(PublishedEvent) /\ \A types : Without(<<>>, types)
BY EmptySeq DEF Without

\* What the end of a task publishes.
LEMMA EndTaskWithout ==
    ASSUME Top.node \in Node, NEW e, NEW s \in Seq(PublishedEvent), NEW types,
           "TaskEnd" \notin types, Without(s, types), EndTask(e, s)
    PROVE  Without(published', types)
BY WithoutOne, WithoutConcat DEF EndTask

LEMMA ActionOKWithout ==
    ASSUME Top.node \in Node, NEW s \in Seq(PublishedEvent), NEW types,
           "TaskEnd" \notin types, Without(s, types), ActionOK(s)
    PROVE  Without(published', types)
BY EndTaskWithout DEF ActionOK

Starts == {"ActivityStart", "TaskStart"}

\* The events of a step after an exit.
AfterExit(s) ==
    \A i \in DOMAIN s :
       /\ s[i].type # "ActivityStart"
       /\ s[i].type = "TaskStart" => Top.kind = "tasks" /\ s[i].node \in {CatchOf(Top), DeferOf(Top)}

LEMMA ExitStep ==
    ASSUME IInv, Next, Last.terminated, control \in {"run", "return"}
    PROVE  AfterExit(published')
<1>1. /\ This = Last /\ Top \in Frame
      /\ Top.kind = "workflow" => Top.node \in Workflow
      /\ Top.kind = "task" => Top.node \in Task
  BY TopFacts
<1>2. Without(published', Starts) => AfterExit(published')
  BY DEF Without, AfterExit, Starts
<1>3. ~CanRun /\ LoopEnds
  BY <1>1 DEF CanRun, LoopEnds
\* Neither the loop of runTasks nor an action starts anything.
<1>4. ~RunTask /\ \A services : ~RunsAction(services)
  BY <1>3 DEF RunTask, RunsAction
<1>5. ~CallService /\ ~ExitWorkflow /\ ~Goto /\ ~Switch /\ ~RunWorkflow
  BY <1>4 DEF CallService, ExitWorkflow, Goto, Switch, RunWorkflow
<1>6. ASSUME Quiet
      PROVE  Without(published', Starts)
  BY <1>6, WithoutNone DEF Quiet
<1>7. CASE EnterWorkflow \/ LeaveWorkflow
  <2>1. Top.node \in Node
    BY <1>1, <1>7 DEF EnterWorkflow, LeaveWorkflow, Running, Returned, Node
  <2>2. ASSUME NEW e, EndWorkflow(e)
        PROVE  Without(published', Starts)
    <3>1. CASE Len(stack) = 1 /\ e # 0
      BY <2>1, <2>2, <3>1, WithoutOne, WithoutConcat DEF EndWorkflow, Starts
    <3>2. CASE ~(Len(stack) = 1 /\ e # 0)
      BY <2>1, <2>2, <3>2, WithoutOne, WithoutNone, WithoutConcat DEF EndWorkflow, Starts
    <3> QED
      BY <3>1, <3>2
  <2> QED
    BY <1>2, <1>6, <1>7, <2>2 DEF EnterWorkflow, LeaveWorkflow
<1>8. CASE TasksNext
  <2>1. CASE PassTask \/ TaskSucceeded \/ TaskFailed \/ RunScheduled \/ EndLoop \/ EndTasks
    BY <1>2, <1>6, <2>1 DEF PassTask, TaskSucceeded, TaskFailed, RunScheduled, EndLoop, EndTasks
  <2>2. CASE CatchError
    <3> DEFINE c == CatchOf(Top)
               reset == IF c \in Fail THEN <<>> ELSE <<Event("ResetError", c)>>
               start == <<Event("TaskStart", c)>>
    <3>1. c \in Node /\ Top.kind = "tasks"
      BY <1>1, <2>2, TreeAssumption DEF CatchError, CatchOf, Returned, Node, Frame
    <3>2. published' = reset \o start
      BY <2>2 DEF CatchError
    <3>3. reset \in Seq(PublishedEvent) /\ Without(reset, Starts)
      BY <3>1, WithoutOne, WithoutNone DEF Starts
    <3>4. start \in Seq(PublishedEvent) /\ Len(start) = 1 /\ start[1].type = "TaskStart" /\ start[1].node = c
      <4>1. Event("TaskStart", c) \in PublishedEvent
        BY <3>1, EventFacts
      <4>2. Event("TaskStart", c).type = "TaskStart" /\ Event("TaskStart", c).node = c
        BY DEF Event
      <4> QED
        BY <4>1, <4>2
    <3> HIDE DEF reset, start, c
    <3>5. PICK r, t : r = reset /\ t = start
      OBVIOUS
    <3>a. /\ Len(r \o t) = Len(r) + Len(t)
          /\ r \o t \in Seq(PublishedEvent)
          /\ \A i \in 1 .. Len(r) + Len(t) :
                (r \o t)[i] = IF i <= Len(r) THEN r[i] ELSE t[i - Len(r)]
      BY <3>3, <3>4, <3>5, ConcatProperties
    <3>b. /\ Len(reset \o start) = Len(reset) + Len(start)
          /\ reset \o start \in Seq(PublishedEvent)
          /\ \A i \in 1 .. Len(reset) + Len(start) :
                (reset \o start)[i] = IF i <= Len(reset) THEN reset[i] ELSE start[i - Len(reset)]
      BY <3>5, <3>a
    <3>6. DOMAIN published' = 1 .. Len(reset) + 1 /\ Len(reset) \in Nat /\ DOMAIN reset = 1 .. Len(reset)
      BY <3>2, <3>3, <3>4, <3>b, LenProperties
    <3>7. ASSUME NEW i \in DOMAIN published'
          PROVE  /\ published'[i].type # "ActivityStart"
                 /\ published'[i].type = "TaskStart" => published'[i].node = c
      <4>1. CASE i <= Len(reset)
        <5>1. published'[i] = reset[i] /\ i \in DOMAIN reset
          BY <3>2, <3>4, <3>b, <3>6, <4>1
        <5> QED
          BY <3>3, <5>1 DEF Without, Starts
      <4>2. CASE ~(i <= Len(reset))
        <5>1. i = Len(reset) + 1 /\ i - Len(reset) = 1
          BY <3>6, <4>2
        <5>2. published'[i] = start[1]
          BY <3>2, <3>4, <3>b, <3>6, <4>2, <5>1
        <5> QED
          BY <3>4, <5>2
      <4> QED
        BY <4>1, <4>2
    <3> QED
      BY <3>1, <3>7 DEF AfterExit, c
  <2>3. CASE RunDeferred
    <3>1. published' = <<Event("TaskStart", DeferOf(Top))>> /\ Top.kind = "tasks"
      BY <2>3 DEF RunDeferred, Running
    <3>2. DOMAIN published' = {1} /\ published'[1] = Event("TaskStart", DeferOf(Top))
      BY <3>1
    <3> QED
      BY <3>1, <3>2 DEF AfterExit, Event
  <2> QED
    BY <1>4, <1>8, <2>1, <2>2, <2>3 DEF TasksNext
<1>9. CASE TaskNext
  <2>1. Top.node \in Node
    BY <1>1, <1>9 DEF TaskNext, SkipTask, FailTaskInit, EnterTask, SubTasksReturned, LeaveTask,
          Running, Returned, Node
  <2>2. ASSUME NEW e, EndTask(e, <<>>)
        PROVE  Without(published', Starts)
    BY <2>1, <2>2, WithoutNone, EndTaskWithout DEF Starts
  <2> QED
    BY <1>2, <1>6, <1>9, <2>2 DEF TaskNext, SkipTask, FailTaskInit, EnterTask, SubTasksReturned, LeaveTask
<1>10. CASE PassAction
  BY <1>2, <1>6, <1>10 DEF PassAction
<1>11. CASE IdleAction
  <2>1. Top.node \in Node
    BY <1>1, <1>11 DEF IdleAction, AtAction, Running, Node
  <2> QED
    BY <1>2, <1>11, <2>1, WithoutNone, ActionOKWithout DEF IdleAction, Starts
<1>12. CASE FailActionInit
  <2>1. Top.node \in Node
    BY <1>1, <1>12 DEF FailActionInit, AtAction, Running, Node
  <2> QED
    BY <1>2, <1>12, <2>1, WithoutNone, EndTaskWithout DEF FailActionInit, Starts
<1>13. CASE ActionReturned
  <2>1. Top.node \in Node
    BY <1>1, <1>13 DEF ActionReturned, Returned, Node
  <2>2. Ended \in Seq(PublishedEvent) /\ Without(Ended, Starts)
    BY <2>1, WithoutOne DEF Ended, Starts
  <2>3. /\ <<Event("Error", Top.node)>> \o Ended \in Seq(PublishedEvent)
        /\ Without(<<Event("Error", Top.node)>> \o Ended, Starts)
    BY <2>1, <2>2, WithoutOne, WithoutConcat DEF Starts
  <2>4. PICK e, s, r : e = err /\ s = Ended /\ r = <<Event("Error", Top.node)>> \o Ended
    OBVIOUS
  <2>5. CASE ActionOK(Ended)
    <3>1. ActionOK(s)
      BY <2>4, <2>5
    <3>2. s \in Seq(PublishedEvent) /\ Without(s, Starts)
      BY <2>2, <2>4
    <3> QED
      BY <1>2, <2>1, <3>1, <3>2, ActionOKWithout DEF Starts
  <2>6. CASE EndTask(err, <<Event("Error", Top.node)>> \o Ended)
    <3>1. EndTask(e, r)
      BY <2>4, <2>6
    <3>2. r \in Seq(PublishedEvent) /\ Without(r, Starts)
      BY <2>3, <2>4
    <3> QED
      BY <1>2, <2>1, <3>1, <3>2, EndTaskWithout DEF Starts
  <2> QED
    BY <1>2, <1>13, <2>5, <2>6 DEF ActionReturned
<1> QED
  BY <1>5, <1>7, <1>8, <1>9, <1>10, <1>11, <1>12, <1>13 DEF Next, Finished, TasksNext, TaskNext

\* In a process that has run exit, runTasks starts no further task and runNode no
\* action, at any depth of calls: only catch and deferred tasks are started.
THEOREM ExitStopsAll == Spec => ExitStops
<1>1. Init => IInv
  BY InitInv
<1>2. IInv /\ [Next]_vars => IInv'
  BY NextInv
<1>3. IInv /\ [Next]_vars =>
        [processes # <<>> /\ Last.terminated /\ Len(processes') = Len(processes)
           => \A i \in DOMAIN published' :
                 /\ published'[i].type # "ActivityStart"
                 /\ published'[i].type = "TaskStart" =>
                       Top.kind = "tasks" /\ published'[i].node \in {CatchOf(Top), DeferOf(Top)}]_vars
  <2> SUFFICES ASSUME IInv, Next, ~UNCHANGED vars, Last.terminated
               PROVE  AfterExit(published')
    BY DEF AfterExit
  <2>1. control # "done"
    BY DEF Next, Finished, EnterWorkflow, LeaveWorkflow,
          PassTask, RunTask, TaskSucceeded, CatchError, TaskFailed, RunScheduled, EndLoop,
          RunDeferred, EndTasks, SkipTask, FailTaskInit, EnterTask, SubTasksReturned, LeaveTask,
          PassAction, IdleAction, FailActionInit, CallService, ExitWorkflow, Goto, Switch, RunWorkflow,
          ActionReturned, RunsAction, AtAction, Running, Returned
  <2>2. control \in {"run", "return"}
    BY <2>1 DEF IInv, TypeOK
  <2> QED
    BY <2>2, ExitStep
<1> QED
  BY <1>1, <1>2, <1>3, PTL DEF Spec, ExitStops

-----------------------------------------------------------------------------
(* A goto is honoured where the deferred task of a workflow can leave no    *)
(* jump behind.  It comes after the loop that would take one, and nothing   *)
(* else does: deferred tasks of tasks are inside the loop of a caller.      *)

\* Tasks that schedule nothing that outlives them: they have no goto, nor has
\* what they switch to or defer.  A goto of a sub task is taken by their loop.
LeavesNoJump(S) ==
    \A t \in S : /\ \A i \in 1 .. Len(Actions[t]) :
                       /\ Actions[t][i].service # "goto"
                       /\ Actions[t][i].service = "switch" => Actions[t][i].target \in S
                 /\ DeferredTask[t] \in S \cup {NoTask}

Still == UNION {S \in SUBSET Task : LeavesNoJump(S)}

DeferredStill == \A w \in Workflow : DeferredTask[w] \in Still \cup {NoTask}

\* A frame of runTasks that will take no jump any more, and should find none.
Settled(f) ==
    f.kind = "tasks" /\ f.pc \in {"defer", "deferred"} /\ f.err = 0 /\ DeferOf(f) \in Still \cup {NoTask}

\* What a frame has called.
MayCall(f, callee) ==
    \/ f.kind = "workflow" /\ callee.kind = "tasks" /\ callee.node = f.node
    \/ f.kind = "tasks" /\ f.pc = "scheduled" /\ callee.kind = "tasks" /\ callee.node = NoTask
    \/ f.kind = "tasks" /\ f.pc \in {"task", "catch"} /\ callee.kind = "task"
    \/ f.kind = "tasks" /\ f.pc = "deferred" /\ callee.kind = "task" /\ callee.node = DeferOf(f)
    \/ f.kind = "task" /\ callee.kind = "tasks" /\ callee.node = f.node
    \/ f.kind = "task" /\ callee.kind = "workflow"
    \/ f.kind = "task" /\ callee.kind = "task" /\ (f.node \in Still => callee.node \in Still)

CalledInv(s) == \A i \in 1 .. Len(s) - 1 : MayCall(s[i], s[i + 1])

\* What a settled frame runs directly is still.
StillInv(s) ==
    \A i, k \in 1 .. Len(s) :
       i < k /\ Settled(s[i]) /\ (\A m \in i + 1 .. k : s[m].kind = "task") => s[k].node \in Still

\* The last frame of runTasks in its process.
Highest(s, i) == \A m \in i + 1 .. Len(s) : s[m].proc = s[i].proc => s[m].kind = "task"

\* An error is on its way up in the process.
Failing(s, ctl, e, p) == ctl = "return" /\ e # 0 /\ s[Len(s)].proc = p

\* Under a settled frame no jump is pending.
QuietInv(s, ps, ctl, e) ==
    \A i \in 1 .. Len(s) :
       Settled(s[i]) /\ Highest(s, i) /\ ~Failing(s, ctl, e, s[i].proc)
          => ps[s[i].proc].scheduled = NoTask

\* Nor when a workflow begins or its tasks ended well, nor after a jump.
BackInv(s, ps, ctl, e) ==
    s # <<>> /\ e = 0 /\ (\/ s[Len(s)].kind = "workflow"
                          \/ ctl = "return" /\ s[Len(s)].kind = "tasks" /\ s[Len(s)].pc = "scheduled")
       => ps[s[Len(s)].proc].scheduled = NoTask

GotoInv ==
    /\ control = "run" => err = 0
    /\ CalledInv(stack)
    /\ StillInv(stack)
    /\ QuietInv(stack, processes, control, err)
    /\ BackInv(stack, processes, control, err)

LEMMA StillLeaves == LeavesNoJump(Still)
<1> SUFFICES ASSUME NEW t \in Still
             PROVE  /\ \A i \in 1 .. Len(Actions[t]) :
                          /\ Actions[t][i].service # "goto"
                          /\ Actions[t][i].service = "switch" => Actions[t][i].target \in Still
                    /\ DeferredTask[t] \in Still \cup {NoTask}
  BY DEF LeavesNoJump
<1>1. PICK S \in SUBSET Task : LeavesNoJump(S) /\ t \in S
  BY DEF Still
<1>2. S \subseteq Still
  BY <1>1 DEF Still
<1> QED
  BY <1>1, <1>2 DEF LeavesNoJump

LEMMA StillTasks == Still \subseteq Task /\ NoTask \notin Still
  BY TreeAssumption DEF Still, Node

LEMMA StackFacts ==
    ASSUME IInv, control \in {"run", "return"}
    PROVE  /\ stack \in Seq(Frame) /\ Len(stack) \in Nat \ {0} /\ Top = stack[Len(stack)]
           /\ \A i \in 1 .. Len(stack) : /\ stack[i] \in Frame /\ stack[i].proc \in 1 .. Len(processes)
                                         /\ stack[i].proc \in Nat
           /\ Top.proc = Len(processes) /\ Len(processes) \in Nat
           /\ \A i, j \in 1 .. Len(stack) :
                 i < j => /\ stack[i].proc <= stack[j].proc
                          /\ stack[j].kind = "workflow" => stack[i].proc < stack[j].proc
<1>1. stack # <<>> /\ stack \in Seq(Frame) /\ processes \in Seq(Process)
  BY TopFacts DEF IInv, TypeOK
<1>2. Len(stack) \in Nat \ {0} /\ Len(processes) \in Nat
  BY <1>1, EmptySeq
<1>3. \A i \in 1 .. Len(stack) : stack[i] \in Frame
  BY <1>1, ElementOfSeq
<1>4. \A i \in 1 .. Len(stack) : stack[i].proc \in 1 .. Len(processes)
  BY DEF IInv, StackInv, FrameInv
<1>5. \A i, j \in 1 .. Len(stack) :
         i < j => /\ stack[i].proc <= stack[j].proc
                  /\ stack[j].kind = "workflow" => stack[i].proc < stack[j].proc
  BY DEF IInv, StackInv, ChainInv
<1>6. \A f \in Frame : f.proc \in Nat
  BY DEF Frame
<1> QED
  BY <1>1, <1>2, <1>3, <1>4, <1>5, <1>6, TopFacts DEF Top

\* What a step may do to the jumps of processes: a goto is not in a still task.
JumpsStay ==
    \A p \in 1 .. Len(processes) :
       p \in 1 .. Len(processes') =>
          \/ processes'[p].scheduled \in {processes[p].scheduled, NoTask}
          \/ p = Len(processes) /\ Top.kind = "task" /\ Top.node \notin Still

\* Under a settled frame that waits, a step schedules nothing in its process.
LEMMA UnderSettled ==
    ASSUME IInv, GotoInv, control \in {"run", "return"}, JumpsStay,
           NEW i \in 1 .. Len(stack) - 1, Settled(stack[i]), Highest(stack, i),
           stack[i].proc \in 1 .. Len(processes'),
           err = 0 \/ Top.kind = "tasks" \/ stack[i].proc # Top.proc
    PROVE  processes'[stack[i].proc].scheduled = NoTask
<1>1. PICK n \in Nat \ {0} : n = Len(stack)
  BY StackFacts
<1>2. i \in 1 .. n /\ n \in 1 .. n /\ i < n /\ n \in i + 1 .. n
  BY <1>1
<1>3. stack[i].proc = Top.proc => Top.kind = "task"
  BY <1>1, <1>2, StackFacts DEF Highest
<1>4. processes[stack[i].proc].scheduled = NoTask
  <2>1. ~Failing(stack, control, err, stack[i].proc)
    BY <1>3, StackFacts DEF Failing
  <2> QED
    BY <1>1, <1>2, <2>1 DEF GotoInv, QuietInv
<1>5. stack[i].proc = Len(processes) => Top.node \in Still
  <2> SUFFICES ASSUME stack[i].proc = Len(processes) PROVE Top.node \in Still
    OBVIOUS
  <2>1. ASSUME NEW m \in i + 1 .. n PROVE stack[m].kind = "task"
    <3>1. m \in 1 .. n /\ i < m /\ m <= n
      BY <1>1, <1>2
    <3>2. stack[i].proc <= stack[m].proc /\ stack[m].proc \in 1 .. Len(processes)
      BY <1>1, <1>2, <3>1, StackFacts
    <3>3. stack[m].proc = stack[i].proc
      BY <3>2, StackFacts
    <3> QED
      BY <1>1, <2>1, <3>3 DEF Highest
  <2> QED
    BY <1>1, <1>2, <2>1, StackFacts DEF GotoInv, StillInv
<1>6. stack[i].proc \in 1 .. Len(processes)
  BY <1>1, <1>2, StackFacts
<1> QED
  BY <1>4, <1>5, <1>6 DEF JumpsStay

\* The running call goes on.
LEMMA ContinueQuiet ==
    ASSUME IInv, GotoInv, control \in {"run", "return"}, JumpsStay,
           NEW f \in Frame, Continue(f),
           f.kind = Top.kind, f.node = Top.node, f.proc = Top.proc, Top.kind # "workflow",
           Len(processes') = Len(processes),
           err = 0 \/ Top.kind = "tasks",
           Settled(f) => processes'[Len(processes)].scheduled = NoTask
    PROVE  GotoInv'
<1>1. PICK n \in Nat \ {0}, s \in Seq(Frame) : s = stack /\ n = Len(s)
  BY StackFacts
<1>2. PICK t \in Seq(Frame) : /\ t = stack' /\ Len(t) = n /\ t[n] = f /\ t # <<>>
                              /\ \A i \in 1 .. n - 1 : t[i] = s[i]
  <2>1. s # <<>>
    BY <1>1, EmptySeq
  <2>2. PICK t : t = Append(SubSeq(s, 1, Len(s) - 1), f)
    OBVIOUS
  <2>3. /\ t \in Seq(Frame) /\ Len(t) = Len(s) /\ t[Len(s)] = f /\ t # <<>>
        /\ \A i \in 1 .. Len(s) - 1 : t[i] = s[i]
    BY <2>1, <2>2, ReplaceFacts
  <2>4. t = stack'
    BY <1>1, <2>2 DEF Continue, Below
  <2> QED
    BY <1>1, <2>3, <2>4
<1>3. Top = s[n] /\ s[n].proc = Len(processes)
  BY <1>1, StackFacts
<1>4. \A i \in 1 .. n : t[i].kind = s[i].kind /\ t[i].node = s[i].node /\ t[i].proc = s[i].proc
  <2> SUFFICES ASSUME NEW i \in 1 .. n
               PROVE  t[i].kind = s[i].kind /\ t[i].node = s[i].node /\ t[i].proc = s[i].proc
    OBVIOUS
  <2>1. CASE i = n
    BY <1>2, <1>3, <2>1
  <2>2. CASE i # n
    <3>1. i \in 1 .. n - 1
      BY <2>2
    <3> QED
      BY <1>2, <3>1
  <2> QED
    BY <2>1, <2>2
<1>5. CalledInv(t)
  <2> SUFFICES ASSUME NEW i \in 1 .. n - 1 PROVE MayCall(t[i], t[i + 1])
    BY <1>2 DEF CalledInv
  <2>1. i + 1 \in 1 .. n /\ t[i] = s[i]
    BY <1>2
  <2>2. MayCall(s[i], s[i + 1])
    BY <1>1 DEF GotoInv, CalledInv
  <2> QED
    BY <1>4, <2>1, <2>2 DEF MayCall
<1>6. StillInv(t)
  <2> SUFFICES ASSUME NEW i \in 1 .. n, NEW k \in 1 .. n, i < k, Settled(t[i]),
                      \A m \in i + 1 .. k : t[m].kind = "task"
               PROVE  t[k].node \in Still
    BY <1>2 DEF StillInv
  <2>1. i \in 1 .. n - 1
    OBVIOUS
  <2>2. ASSUME NEW m \in i + 1 .. k PROVE s[m].kind = "task"
    <3>1. m \in 1 .. n
      OBVIOUS
    <3> QED
      BY <1>4, <2>2, <3>1
  <2>3. s[k].node \in Still
    BY <1>1, <1>2, <2>1, <2>2 DEF GotoInv, StillInv
  <2> QED
    BY <1>4, <2>3
<1>7. QuietInv(t, processes', control', err')
  <2> SUFFICES ASSUME NEW i \in 1 .. n, Settled(t[i]), Highest(t, i)
               PROVE  processes'[t[i].proc].scheduled = NoTask
    BY <1>2 DEF QuietInv
  <2>1. CASE i = n
    BY <1>2, <1>3, <2>1
  <2>2. CASE i # n
    <3>1. i \in 1 .. n - 1 /\ i \in 1 .. n
      BY <2>2
    <3>2. t[i] = s[i] /\ s[i].proc \in 1 .. Len(processes)
      BY <1>1, <1>2, <3>1, StackFacts
    <3>3. ASSUME NEW m \in i + 1 .. n, s[m].proc = s[i].proc PROVE s[m].kind = "task"
      <4>1. m \in 1 .. n
        OBVIOUS
      <4> QED
        BY <1>2, <1>4, <3>2, <3>3, <4>1 DEF Highest
    <3>4. Settled(stack[i]) /\ Highest(stack, i) /\ i \in 1 .. Len(stack) - 1
      BY <1>1, <3>1, <3>2, <3>3 DEF Highest
    <3> QED
      BY <1>1, <3>2, <3>4, UnderSettled
  <2> QED
    BY <2>1, <2>2
<1>8. BackInv(t, processes', control', err')
  BY <1>2 DEF BackInv, Continue
<1> QED
  BY <1>2, <1>5, <1>6, <1>7, <1>8 DEF GotoInv, Continue

\* The running call makes another.
LEMMA CallQuiet ==
    ASSUME IInv, GotoInv, control \in {"run", "return"}, JumpsStay,
           NEW f \in Frame, NEW callee \in Frame, Call(f, callee), MayCall(f, callee),
           f.kind = Top.kind, f.node = Top.node, f.proc = Top.proc,
           callee.pc \in {"node", "loop"}, callee.kind = "task" => callee.node \in Task,
           Len(processes') >= Len(processes), callee.proc = Len(processes'),
           err = 0 \/ Top.kind = "tasks",
           callee.kind = "workflow" => processes'[Len(processes')].scheduled = NoTask,
           Settled(f) => processes'[Len(processes)].scheduled = NoTask
    PROVE  GotoInv'
<1>1. PICK n \in Nat \ {0}, s \in Seq(Frame) : s = stack /\ n = Len(s)
  BY StackFacts
<1>2. PICK u \in Seq(Frame) : /\ u = Append(Below, f) /\ Len(u) = n /\ u[n] = f
                              /\ \A i \in 1 .. n - 1 : u[i] = s[i]
  <2>1. s # <<>>
    BY <1>1, EmptySeq
  <2> QED
    BY <1>1, <2>1, ReplaceFacts DEF Below
<1>3. PICK t \in Seq(Frame) : /\ t = stack' /\ Len(t) = n + 1 /\ t[n] = f /\ t[n + 1] = callee
                              /\ \A i \in 1 .. n - 1 : t[i] = s[i]
  <2>1. PICK t : t = Append(u, callee)
    OBVIOUS
  <2>2. /\ t \in Seq(Frame) /\ Len(t) = n + 1 /\ t[n + 1] = callee
        /\ \A i \in 1 .. n : t[i] = u[i]
    BY <1>2, <2>1, AppendFacts
  <2>3. stack' = t
    BY <1>2, <2>1 DEF Call
  <2> QED
    BY <1>2, <2>2, <2>3
<1>4. Top = s[n] /\ s[n].proc = Len(processes) /\ n + 1 \in Nat
  BY <1>1, StackFacts
<1>5. ASSUME NEW i \in 1 .. n
      PROVE  t[i].kind = s[i].kind /\ t[i].node = s[i].node /\ t[i].proc = s[i].proc
  <2>1. CASE i = n
    BY <1>3, <1>4, <2>1
  <2>2. CASE i # n
    <3>1. i \in 1 .. n - 1
      BY <2>2
    <3> QED
      BY <1>3, <3>1
  <2> QED
    BY <2>1, <2>2
<1>6. ASSUME NEW i \in 1 .. n, NEW k \in 1 .. n, i < k, Settled(t[i]),
             \A m \in i + 1 .. k : t[m].kind = "task"
      PROVE  t[k].node \in Still
  <2>1. i \in 1 .. n - 1
    BY <1>6
  <2>2. ASSUME NEW m \in i + 1 .. k PROVE s[m].kind = "task"
    <3>1. m \in 1 .. n
      OBVIOUS
    <3> QED
      BY <1>5, <1>6, <2>2, <3>1
  <2>3. s[k].node \in Still
    BY <1>1, <1>3, <1>6, <2>1, <2>2 DEF GotoInv, StillInv
  <2> QED
    BY <1>5, <2>3
<1>7. CalledInv(t)
  <2> SUFFICES ASSUME NEW i \in 1 .. n PROVE MayCall(t[i], t[i + 1])
    BY <1>3 DEF CalledInv
  <2>1. CASE i = n
    BY <1>3, <2>1
  <2>2. CASE i # n
    <3>1. i \in 1 .. n - 1 /\ i + 1 \in 1 .. n /\ t[i] = s[i]
      BY <1>3, <2>2
    <3>2. MayCall(s[i], s[i + 1])
      BY <1>1, <3>1 DEF GotoInv, CalledInv
    <3> QED
      BY <1>5, <3>1, <3>2 DEF MayCall
  <2> QED
    BY <2>1, <2>2
<1>8. StillInv(t)
  <2> SUFFICES ASSUME NEW i \in 1 .. n + 1, NEW k \in 1 .. n + 1, i < k, Settled(t[i]),
                      \A m \in i + 1 .. k : t[m].kind = "task"
               PROVE  t[k].node \in Still
    BY <1>3 DEF StillInv
  <2>1. CASE k # n + 1
    <3>1. i \in 1 .. n /\ k \in 1 .. n
      BY <2>1
    <3> QED
      BY <1>6, <3>1
  <2>2. CASE k = n + 1
    <3>1. i \in 1 .. n /\ n + 1 \in i + 1 .. k
      BY <2>2
    <3>2. callee.kind = "task"
      BY <1>3, <2>2, <3>1
    <3>3. CASE i = n
      <4>1. Settled(f)
        BY <1>3, <3>3
      <4>2. callee.node = DeferOf(f) /\ callee.node \in Still \cup {NoTask}
        BY <3>2, <4>1 DEF MayCall, Settled
      <4>3. callee.node # NoTask
        BY <3>2, TreeAssumption DEF Node
      <4> QED
        BY <1>3, <2>2, <4>2, <4>3
    <3>4. CASE i # n
      <4>1. n \in 1 .. n /\ i < n /\ n \in i + 1 .. k
        BY <2>2, <3>1, <3>4
      <4>2. \A m \in i + 1 .. n : t[m].kind = "task"
        <5>1. \A m \in i + 1 .. n : m \in i + 1 .. k
          BY <2>2, <3>1
        <5> QED
          BY <5>1
      <4>3. t[n].node \in Still
        BY <1>6, <3>1, <4>1, <4>2
      <4>4. f.kind = "task"
        BY <1>3, <4>1
      <4> QED
        BY <1>3, <2>2, <3>2, <4>3, <4>4 DEF MayCall
    <3> QED
      BY <3>3, <3>4
  <2> QED
    BY <2>1, <2>2
<1>9. QuietInv(t, processes', control', err')
  <2> SUFFICES ASSUME NEW i \in 1 .. n + 1, Settled(t[i]), Highest(t, i)
               PROVE  processes'[t[i].proc].scheduled = NoTask
    BY <1>3 DEF QuietInv
  <2>1. CASE i = n + 1
    BY <1>3, <2>1 DEF Settled
  <2>2. CASE i = n
    BY <1>3, <1>4, <2>2
  <2>3. CASE i # n /\ i # n + 1
    <3>1. i \in 1 .. n - 1 /\ i \in 1 .. n
      BY <2>3
    <3>2. t[i] = s[i] /\ s[i].proc \in 1 .. Len(processes)
      BY <1>1, <1>3, <3>1, StackFacts
    <3>3. ASSUME NEW m \in i + 1 .. n, s[m].proc = s[i].proc PROVE s[m].kind = "task"
      <4>1. m \in 1 .. n /\ m \in i + 1 .. n + 1
        BY <3>1
      <4> QED
        BY <1>3, <1>5, <3>2, <3>3, <4>1 DEF Highest
    <3>4. Settled(stack[i]) /\ Highest(stack, i) /\ i \in 1 .. Len(stack) - 1
      BY <1>1, <3>1, <3>2, <3>3 DEF Highest
    <3>5. s[i].proc \in 1 .. Len(processes')
      <4>1. PICK a, b : a = Len(processes) /\ b = Len(processes')
        OBVIOUS
      <4>2. a \in Nat /\ b \in Nat /\ b >= a /\ s[i].proc \in 1 .. a
        BY <3>2, <4>1, StackFacts DEF Frame
      <4> QED
        BY <4>1, <4>2
    <3> QED
      BY <1>1, <3>2, <3>4, <3>5, UnderSettled
  <2> QED
    BY <2>1, <2>2, <2>3
<1>10. BackInv(t, processes', control', err')
  BY <1>3 DEF BackInv, Call
<1> QED
  BY <1>3, <1>7, <1>8, <1>9, <1>10 DEF GotoInv, Call

\* A call returns.
LEMMA ReturnQuiet ==
    ASSUME IInv, GotoInv, DeferredStill, control \in {"run", "return"}, JumpsStay,
           NEW e, Return(e), e = 0 => err = 0,
           Top.kind = "tasks" /\ e = 0 => Top.pc \in {"defer", "deferred"} /\ Top.err = 0,
           Len(processes') = IF Top.kind = "workflow" THEN Len(processes) - 1 ELSE Len(processes)
    PROVE  GotoInv'
<1>1. PICK n \in Nat \ {0}, s \in Seq(Frame) : s = stack /\ n = Len(s)
  BY StackFacts
<1>2. PICK t \in Seq(Frame) : t = stack' /\ Len(t) = n - 1 /\ \A i \in 1 .. n - 1 : t[i] = s[i]
  <2>1. s # <<>>
    BY <1>1, EmptySeq
  <2> QED
    BY <1>1, <2>1, FrontFacts DEF Return, Below
<1>3. Top = s[n] /\ s[n].proc = Len(processes) /\ Top.kind \in {"workflow", "tasks", "task"}
      /\ n - 1 \in Nat
  BY <1>1, StackFacts DEF Frame
<1>4. ASSUME NEW i \in 1 .. n - 1
      PROVE  /\ t[i] = s[i] /\ i \in 1 .. n
             /\ s[i].proc \in 1 .. Len(processes) /\ s[i].proc <= s[n].proc
             /\ Top.kind = "workflow" => s[i].proc # s[n].proc
             /\ s[i].proc \in 1 .. Len(processes')
  <2>1. i \in 1 .. n /\ n \in 1 .. n /\ i < n
    OBVIOUS
  <2>2. /\ s[i].proc \in Nat /\ s[n].proc \in Nat /\ s[i].proc <= s[n].proc
        /\ s[i].proc \in 1 .. Len(processes)
        /\ Top.kind = "workflow" => s[i].proc < s[n].proc
    BY <1>1, <1>3, <2>1, StackFacts
  <2>3. PICK a, b, p, q : a = Len(processes) /\ b = Len(processes') /\ p = s[i].proc /\ q = s[n].proc
    OBVIOUS
  <2>4. /\ a \in Nat /\ p \in Nat /\ q \in Nat /\ p <= q /\ p \in 1 .. a /\ q = a
        /\ Top.kind = "workflow" => p < q /\ b = a - 1
        /\ Top.kind # "workflow" => b = a
    BY <1>3, <2>2, <2>3, StackFacts
  <2>5. p \in 1 .. b /\ (Top.kind = "workflow" => p # q)
    BY <2>4
  <2> QED
    BY <1>2, <2>1, <2>2, <2>3, <2>5
<1>5. CalledInv(t)
  <2> SUFFICES ASSUME NEW i \in 1 .. n - 1 - 1 PROVE MayCall(t[i], t[i + 1])
    BY <1>2 DEF CalledInv
  <2>1. i \in 1 .. n - 1 /\ i + 1 \in 1 .. n - 1
    OBVIOUS
  <2> QED
    BY <1>1, <1>2, <2>1 DEF GotoInv, CalledInv
<1>6. StillInv(t)
  <2> SUFFICES ASSUME NEW i \in 1 .. n - 1, NEW k \in 1 .. n - 1, i < k, Settled(t[i]),
                      \A m \in i + 1 .. k : t[m].kind = "task"
               PROVE  t[k].node \in Still
    BY <1>2 DEF StillInv
  <2>1. /\ i \in 1 .. n /\ k \in 1 .. n
        /\ \A m \in i + 1 .. k : m \in 1 .. n - 1
    OBVIOUS
  <2>2. /\ t[i] = s[i] /\ t[k] = s[k]
        /\ \A m \in i + 1 .. k : s[m].kind = "task"
    BY <1>2, <2>1
  <2>3. StillInv(s)
    BY <1>1 DEF GotoInv
  <2> QED
    BY <1>1, <2>1, <2>2, <2>3 DEF StillInv
\* The last frame of runTasks leaves no jump.
<1>7. ASSUME Settled(Top), e = 0 PROVE processes'[Top.proc].scheduled = NoTask
  <2>1. Top.kind = "tasks" /\ err = 0
    BY <1>7 DEF Settled
  <2>2. n \in 1 .. n /\ n + 1 .. n = {}
    OBVIOUS
  <2>3. Highest(s, n) /\ ~Failing(s, control, err, s[n].proc)
    BY <1>1, <2>1, <2>2 DEF Highest, Failing
  <2>4. processes[Top.proc].scheduled = NoTask
    BY <1>1, <1>3, <1>7, <2>2, <2>3 DEF GotoInv, QuietInv
  <2>5. Top.proc \in 1 .. Len(processes) /\ Top.proc \in 1 .. Len(processes')
    BY <1>1, <1>3, <2>1, TopFacts
  <2> QED
    BY <2>1, <2>4, <2>5 DEF JumpsStay
\* Who called it.
<1>8. ASSUME n # 1
      PROVE  n - 1 \in 1 .. n - 1 /\ n - 1 \in 1 .. n /\ n - 1 < n /\ MayCall(s[n - 1], Top)
  <2>1. n - 1 \in 1 .. n - 1 /\ n - 1 \in 1 .. n /\ n - 1 + 1 = n
    BY <1>8
  <2> QED
    BY <1>1, <1>3, <2>1 DEF GotoInv, CalledInv
<1>9. QuietInv(t, processes', control', err')
  <2> SUFFICES ASSUME NEW i \in 1 .. n - 1, Settled(t[i]), Highest(t, i),
                      ~Failing(t, control', err', t[i].proc)
               PROVE  processes'[t[i].proc].scheduled = NoTask
    BY <1>2 DEF QuietInv
  <2>1. t[i] = s[i] /\ n # 1
    BY <1>4
  <2>2. ASSUME Highest(s, i), err = 0 \/ Top.kind = "tasks" \/ s[i].proc # Top.proc
        PROVE  processes'[t[i].proc].scheduled = NoTask
    BY <1>1, <1>4, <2>1, <2>2, UnderSettled
  <2>3. CASE s[i].proc # Top.proc \/ (Top.kind = "task" /\ e = 0)
    <3>1. ASSUME NEW m \in i + 1 .. n, s[m].proc = s[i].proc PROVE s[m].kind = "task"
      <4>1. CASE m = n
        BY <1>3, <2>3, <3>1, <4>1
      <4>2. CASE m # n
        <5>1. m \in 1 .. n - 1 /\ m \in i + 1 .. n - 1
          BY <4>2
        <5> QED
          BY <1>2, <1>4, <2>1, <3>1, <5>1 DEF Highest
      <4> QED
        BY <4>1, <4>2
    <3>2. Highest(s, i)
      BY <1>1, <3>1 DEF Highest
    <3> QED
      BY <2>2, <2>3, <3>2
  <2>4. ASSUME s[i].proc = Top.proc, NEW m \in i .. n - 1 PROVE s[m].proc = Top.proc
    <3>1. m \in 1 .. n - 1 /\ m \in 1 .. n /\ i \in 1 .. n
      OBVIOUS
    <3>2. i = m \/ i < m
      OBVIOUS
    <3>3. s[i].proc <= s[m].proc
      BY <1>1, <3>1, <3>2, StackFacts
    <3>4. s[m].proc <= s[n].proc /\ s[m].proc \in Nat /\ s[n].proc \in Nat
      BY <1>1, <1>4, <3>1, StackFacts
    <3>5. PICK a, b : a = s[m].proc /\ b = s[n].proc
      OBVIOUS
    <3>6. a \in Nat /\ b \in Nat /\ a <= b /\ b <= a
      BY <1>3, <2>4, <3>3, <3>4, <3>5
    <3> QED
      BY <1>3, <3>5, <3>6
  <2>5. CASE s[i].proc = Top.proc /\ e # 0
    <3>1. n - 1 \in i .. n - 1 /\ n - 1 \in 1 .. n - 1 /\ control' = "return" /\ err' = e
      BY <1>1, <2>1, <1>8 DEF Return
    <3>2. t[n - 1].proc = t[i].proc
      BY <1>4, <2>1, <2>4, <2>5, <3>1
    <3> QED
      BY <1>2, <2>5, <3>1, <3>2 DEF Failing
  <2>6. CASE s[i].proc = Top.proc /\ e = 0 /\ Top.kind = "tasks"
    <3>1. /\ n - 1 \in i .. n - 1 /\ n - 1 \in 1 .. n - 1 /\ n - 1 \in 1 .. n
          /\ MayCall(s[n - 1], Top) /\ s[n - 1].proc = Top.proc
      BY <1>8, <2>1, <2>4, <2>6
    <3>2. i # n - 1
      BY <2>1, <2>6, <3>1 DEF MayCall, Settled
    <3>3. i < n - 1 /\ n - 1 \in i + 1 .. n - 1
      BY <3>2
    <3>4. ASSUME NEW m \in i + 1 .. n - 1 PROVE s[m].kind = "task"
      <4>1. m \in i .. n - 1 /\ m \in 1 .. n - 1
        OBVIOUS
      <4>2. s[m].proc = s[i].proc /\ t[m] = s[m]
        BY <1>4, <2>4, <2>6, <4>1
      <4> QED
        BY <1>2, <2>1, <4>2 DEF Highest
    <3>5. s[n - 1].kind = "task" /\ s[n - 1].node \in Still
      BY <1>1, <1>4, <2>1, <3>1, <3>3, <3>4 DEF GotoInv, StillInv
    <3>6. Top.node \in Still
      BY <2>6, <3>1, <3>5 DEF MayCall
    <3>7. Top.node # NoTask /\ DeferOf(Top) \in Still \cup {NoTask}
      BY <3>6, StillTasks, StillLeaves DEF DeferOf, LeavesNoJump
    <3>8. Settled(Top)
      BY <2>6, <3>7 DEF Settled
    <3> QED
      BY <1>7, <2>1, <2>6, <3>8
  <2>7. Top.kind = "workflow" => s[i].proc # Top.proc
    BY <1>3, <1>4
  <2> QED
    BY <1>3, <2>3, <2>5, <2>6, <2>7
<1>10. BackInv(t, processes', control', err')
  <2> SUFFICES ASSUME t # <<>>, e = 0,
                      \/ t[n - 1].kind = "workflow"
                      \/ t[n - 1].kind = "tasks" /\ t[n - 1].pc = "scheduled"
               PROVE  processes'[t[n - 1].proc].scheduled = NoTask
    BY <1>2 DEF BackInv, Return
  <2>1. n # 1
    BY <1>2, EmptySeq
  <2>2. /\ n - 1 \in 1 .. n - 1 /\ n - 1 \in 1 .. n /\ MayCall(s[n - 1], Top) /\ t[n - 1] = s[n - 1]
        /\ s[n - 1] \in Frame
    BY <1>1, <1>4, <1>8, <2>1, StackFacts
  <2>9. PICK f : f = s[n - 1] /\ (f.kind = "workflow" \/ (f.kind = "tasks" /\ f.pc = "scheduled"))
    BY <2>2
  <2>8. MayCall(f, Top)
    BY <2>2, <2>9
  <2>3. Top.kind = "tasks" /\ (Top.node = NoTask \/ (s[n - 1].kind = "workflow" /\ Top.node = s[n - 1].node))
    BY <2>8, <2>9 DEF MayCall
  <2>4. s[n - 1].kind = "workflow" => s[n - 1].node \in Workflow
    BY <1>1, <2>2 DEF IInv, StackInv, FrameInv
  <2>5. DeferOf(Top) \in Still \cup {NoTask}
    BY <2>3, <2>4 DEF DeferOf, DeferredStill
  <2>6. Settled(Top)
    BY <2>3, <2>5 DEF Settled
  <2>7. s[n - 1].proc = Top.proc
    <3>1. Top.proc = IF Top.kind = "workflow" THEN s[n - 1].proc + 1 ELSE s[n - 1].proc
      <4>1. n - 1 \in 1 .. Len(stack) - 1 /\ n - 1 + 1 = n
        BY <1>1, <2>2
      <4> QED
        BY <1>1, <1>3, <4>1 DEF IInv, StackInv, ChainInv
    <3> QED
      BY <2>3, <3>1
  <2> QED
    BY <1>7, <2>2, <2>6, <2>7
<1>11. control' # "run"
  BY DEF Return
<1> QED
  BY <1>2, <1>5, <1>6, <1>9, <1>10, <1>11 DEF GotoInv

-----------------------------------------------------------------------------
(* The steps that move jumps and frames.                                   *)

\* Processes that keep their jumps.
LEMMA SameJumps == UNCHANGED processes => JumpsStay /\ Len(processes') = Len(processes)
  BY DEF JumpsStay

LEMMA SetTaskJumps ==
    ASSUME IInv, control \in {"run", "return"}, NEW t, SetTask(t)
    PROVE  JumpsStay /\ Len(processes') = Len(processes)
<1>1. PICK h : h = HasTagID(t)
  OBVIOUS
<1>2. PICK ps \in Seq(Process), k \in Nat : ps = processes /\ k = Top.proc /\ k \in 1 .. Len(ps)
  BY TopFacts DEF IInv, TypeOK
<1>3. processes' = [ps EXCEPT ![k].hasTagID = h]
  BY <1>1, <1>2 DEF SetTask
<1>4. Len(processes') = Len(ps)
  BY <1>1, <1>2, <1>3, SetTaskFacts DEF HasTagID
<1>5. ASSUME NEW p \in 1 .. Len(ps) PROVE processes'[p].scheduled = ps[p].scheduled
  <2>1. ps[p] \in Process
    BY <1>2, ElementOfSeq
  <2>2. processes'[p] = IF p = k THEN [ps[p] EXCEPT !.hasTagID = h] ELSE ps[p]
    BY <1>2, <1>3
  <2> QED
    BY <2>1, <2>2 DEF Process
<1> QED
  BY <1>2, <1>4, <1>5 DEF JumpsStay

LEMMA TerminatedAt ==
    ASSUME NEW ps \in Seq(Process), NEW k \in 1 .. Len(ps), NEW h, NEW p \in 1 .. Len(ps)
    PROVE  [ps EXCEPT ![k].terminated = h][p].scheduled = ps[p].scheduled
<1>1. ps[p] \in Process
  BY ElementOfSeq
<1>2. [ps EXCEPT ![k].terminated = h][p] = IF p = k THEN [ps[p] EXCEPT !.terminated = h] ELSE ps[p]
  OBVIOUS
<1> QED
  BY <1>1, <1>2 DEF Process

LEMMA TerminateJumps ==
    ASSUME IInv, control \in {"run", "return"},
           processes' = [processes EXCEPT ![Len(processes)].terminated = TRUE]
    PROVE  JumpsStay /\ Len(processes') = Len(processes)
<1>1. processes \in Seq(Process) /\ Len(processes) \in 1 .. Len(processes)
  BY TopFacts DEF IInv, TypeOK
<1>2. Len(processes') = Len(processes)
  BY <1>1, TerminateFacts
<1>3. \A p \in 1 .. Len(processes) : processes'[p].scheduled = processes[p].scheduled
  BY <1>1, TerminatedAt
<1> QED
  BY <1>2, <1>3 DEF JumpsStay

LEMMA ScheduleJumps ==
    ASSUME IInv, control \in {"run", "return"}, NEW t \in Task \cup {NoTask},
           processes' = [processes EXCEPT ![Len(processes)].scheduled = t],
           t = NoTask \/ (Top.kind = "task" /\ Top.node \notin Still)
    PROVE  JumpsStay /\ Len(processes') = Len(processes)
<1>1. PICK ps \in Seq(Process), k \in Nat : ps = processes /\ k = Len(processes) /\ k \in 1 .. Len(ps)
  BY TopFacts DEF IInv, TypeOK
<1>2. processes' = [ps EXCEPT ![k].scheduled = t]
  BY <1>1
<1>3. Len(processes') = Len(ps)
  BY <1>1, <1>2, ScheduleFacts
<1>4. ASSUME NEW p \in 1 .. Len(ps)
      PROVE  processes'[p].scheduled = IF p = k THEN t ELSE ps[p].scheduled
  <2>1. ps[p] \in Process
    BY <1>1, ElementOfSeq
  <2>2. processes'[p] = IF p = k THEN [ps[p] EXCEPT !.scheduled = t] ELSE ps[p]
    BY <1>1, <1>2
  <2> QED
    BY <2>1, <2>2 DEF Process
<1> QED
  BY <1>1, <1>3, <1>4 DEF JumpsStay

LEMMA PushJumps ==
    ASSUME IInv, NEW p \in Process, processes' = Append(processes, p)
    PROVE  JumpsStay /\ Len(processes') = Len(processes) + 1 /\ processes'[Len(processes')] = p
<1>1. PICK ps \in Seq(Process) : ps = processes
  BY DEF IInv, TypeOK
<1>2. /\ Len(processes') = Len(ps) + 1 /\ processes'[Len(ps) + 1] = p
      /\ \A q \in 1 .. Len(ps) : processes'[q] = ps[q]
  BY <1>1, AppendProperties
<1> QED
  BY <1>1, <1>2 DEF JumpsStay

LEMMA PopJumps ==
    ASSUME IInv, control \in {"run", "return"},
           processes' = SubSeq(processes, 1, Len(processes) - 1)
    PROVE  JumpsStay /\ Len(processes') = Len(processes) - 1
<1>1. PICK ps \in Seq(Process), n \in Nat \ {0} : ps = processes /\ n = Len(ps)
  BY TopFacts, EmptySeq DEF IInv, TypeOK
<1>2. ps # <<>>
  BY <1>1, EmptySeq
<1>3. PICK k \in Nat : k = n - 1
  BY <1>1
<1>4. processes' = SubSeq(ps, 1, k)
  BY <1>1, <1>3
<1>5. Len(processes') = k
  BY <1>1, <1>2, <1>3, PopFacts
<1>6. ASSUME NEW p \in 1 .. k PROVE processes'[p] = ps[p]
  BY <1>1, <1>3, <1>4, <1>6
<1> QED
  BY <1>1, <1>3, <1>5, <1>6 DEF JumpsStay

\* The running call is one of a frame of runTasks that left no jump.
LEMMA TopSettled ==
    ASSUME IInv, GotoInv, control \in {"run", "return"}, Settled(Top), err = 0
    PROVE  processes[Len(processes)].scheduled = NoTask
<1>1. PICK n \in Nat \ {0} : n = Len(stack)
  BY StackFacts
<1>2. n \in 1 .. n /\ n + 1 .. n = {}
  OBVIOUS
<1>3. Highest(stack, n) /\ ~Failing(stack, control, err, stack[n].proc)
  BY <1>1, <1>2 DEF Highest, Failing
<1> QED
  BY <1>1, <1>2, <1>3, StackFacts DEF GotoInv, QuietInv

LEMMA EndTaskQuiet ==
    ASSUME IInv, GotoInv, DeferredStill, control \in {"run", "return"}, Top.kind = "task",
           NEW e, NEW events, EndTask(e, events), e = 0 => err = 0,
           JumpsStay, Len(processes') = Len(processes)
    PROVE  GotoInv'
  BY ReturnQuiet DEF EndTask

LEMMA EndWorkflowQuiet ==
    ASSUME IInv, GotoInv, DeferredStill, control \in {"run", "return"}, Top.kind = "workflow",
           NEW e, EndWorkflow(e), e = 0 => err = 0
    PROVE  GotoInv'
<1>1. JumpsStay /\ Len(processes') = Len(processes) - 1
  BY PopJumps DEF EndWorkflow
<1> QED
  BY <1>1, ReturnQuiet DEF EndWorkflow

LEMMA StartTaskQuiet ==
    ASSUME IInv, GotoInv, control \in {"run", "return"}, NEW f \in Frame, NEW t \in Task,
           StartTask(f, t), f.kind = Top.kind, f.node = Top.node, f.proc = Top.proc,
           MayCall(f, TaskFrame(Top.proc, t)),
           err = 0 \/ Top.kind = "tasks", Settled(f) => Settled(Top) /\ err = 0
    PROVE  GotoInv'
<1>1. JumpsStay /\ Len(processes') = Len(processes)
  BY SetTaskJumps DEF StartTask
<1>2. Top.proc = Len(processes) /\ Top.proc \in 1 .. Len(processes)
  BY TopFacts
<1>3. PICK callee : callee = TaskFrame(Top.proc, t)
  OBVIOUS
<1>4. /\ callee \in Frame /\ callee.kind = "task" /\ callee.node = t
      /\ callee.proc = Top.proc /\ callee.pc = "node"
  BY <1>2, <1>3, EmptySeq DEF TaskFrame, Frame, Node
<1>5. Settled(f) => processes'[Len(processes)].scheduled = NoTask
  <2> SUFFICES ASSUME Settled(f) PROVE processes'[Len(processes)].scheduled = NoTask
    OBVIOUS
  <2>1. Top.kind = "tasks" /\ processes[Len(processes)].scheduled = NoTask
    BY TopSettled DEF Settled
  <2> QED
    BY <1>1, <1>2, <2>1 DEF JumpsStay
<1>6. Len(processes') >= Len(processes)
  BY <1>1, <1>2
<1> QED
  BY <1>1, <1>2, <1>3, <1>4, <1>5, <1>6, CallQuiet DEF StartTask

LEMMA ActionOKQuiet ==
    ASSUME IInv, GotoInv, DeferredStill, control \in {"run", "return"}, Top.kind = "task", err = 0,
           NEW events, ActionOK(events), JumpsStay, Len(processes') = Len(processes)
    PROVE  GotoInv'
<1>1. ASSUME NEW f \in AfterAction, Continue(f) PROVE GotoInv'
  <2>1. f \in Frame /\ f.kind = Top.kind /\ f.node = Top.node /\ f.proc = Top.proc
    BY TopFacts, ActionFrameFacts DEF AfterAction
  <2>2. ~Settled(f)
    BY <2>1 DEF Settled
  <2> QED
    BY <1>1, <2>1, <2>2, ContinueQuiet
<1>2. CASE Raise /\ EndTask(raised + 1, events)
  <2>1. raised + 1 # 0
    BY TopFacts
  <2> QED
    BY <1>2, <2>1, EndTaskQuiet
<1> QED
  BY <1>1, <1>2 DEF ActionOK

-----------------------------------------------------------------------------
(* Every step keeps the places of the jumps. *)

LEMMA WorkflowQuiet ==
    ASSUME IInv, GotoInv, DeferredStill, EnterWorkflow \/ LeaveWorkflow
    PROVE  GotoInv'
<1>0. control \in {"run", "return"} /\ Top.kind = "workflow" /\ raised + 1 # 0
  BY TopFacts DEF EnterWorkflow, LeaveWorkflow, Running, Returned
<1>1. CASE EnterWorkflow
  <2>0. err = 0
    BY <1>1 DEF EnterWorkflow, Running, GotoInv
  <2>1. CASE EndWorkflow(0)
    BY <1>0, <2>0, <2>1, EndWorkflowQuiet
  <2>2. CASE EndWorkflow(raised + 1)
    BY <1>0, <2>2, EndWorkflowQuiet
  <2>3. CASE /\ Call([Top EXCEPT !.pc = "body"], TasksFrame(Top.proc, Top.node, Tasks[Top.node]))
             /\ UNCHANGED processes
    <3> DEFINE f == [Top EXCEPT !.pc = "body"]
               g == TasksFrame(Top.proc, Top.node, Tasks[Top.node])
    <3>1. /\ Top \in Frame /\ Top.node \in Workflow /\ Top.proc = Len(processes)
          /\ Top.proc \in 1 .. Len(processes)
      BY <1>0, TopFacts
    <3>2. f \in Frame /\ f.kind = Top.kind /\ f.node = Top.node /\ f.proc = Top.proc
      BY <3>1 DEF Frame
    <3>3. /\ g \in Frame /\ g.kind = "tasks" /\ g.pc = "loop" /\ g.node = Top.node
          /\ g.proc = Top.proc
      BY <3>1, TreeAssumption DEF TasksFrame, Frame, Node
    <3>4. Call(f, g) /\ JumpsStay /\ Len(processes') = Len(processes)
      BY <2>3, SameJumps
    <3> HIDE DEF f, g
    <3>5. MayCall(f, g) /\ ~Settled(f)
      BY <1>0, <3>2, <3>3 DEF MayCall, Settled
    <3>6. Len(processes') >= Len(processes)
      BY <3>1, <3>4
    <3> QED
      BY <1>0, <2>0, <3>1, <3>2, <3>3, <3>4, <3>5, <3>6, CallQuiet
  <2> QED
    BY <1>1, <2>1, <2>2, <2>3 DEF EnterWorkflow
<1>2. CASE LeaveWorkflow
  BY <1>0, <1>2, EndWorkflowQuiet DEF LeaveWorkflow
<1> QED
  BY <1>1, <1>2

LEMMA TasksQuiet ==
    ASSUME IInv, GotoInv, DeferredStill, TasksNext
    PROVE  GotoInv'
<1>0. control \in {"run", "return"} /\ Top.kind = "tasks"
  BY DEF TasksNext, PassTask, RunTask, TaskSucceeded, CatchError, TaskFailed, RunScheduled,
         EndLoop, RunDeferred, EndTasks, Running, Returned
<1>1. /\ Top \in Frame /\ Top.proc = Len(processes) /\ Top.proc \in 1 .. Len(processes)
      /\ Top.idx \in Nat \ {0} /\ Top.list \in Seq(Task) /\ Top.idx + 1 \in Nat
      /\ This \in Process /\ This = Last /\ err \in Nat /\ Top.err \in Nat
  BY <1>0, TopFacts DEF Frame
<1>2. CatchOf(Top) \in Task \cup {NoTask} /\ DeferOf(Top) \in Task \cup {NoTask}
  BY <1>1, TreeAssumption DEF CatchOf, DeferOf, Frame
<1>3. control = "run" => err = 0
  BY DEF GotoInv
\* Going on in the loop, or failing.
<1>4. ASSUME NEW f \in Frame, Continue(f), UNCHANGED processes,
             f.kind = Top.kind, f.node = Top.node, f.proc = Top.proc,
             Settled(f) => Last.scheduled = NoTask
      PROVE  GotoInv'
  <2>1. JumpsStay /\ Len(processes') = Len(processes)
    BY <1>4, SameJumps
  <2>2. Settled(f) => processes'[Len(processes)].scheduled = NoTask
    BY <1>4 DEF Last
  <2> QED
    BY <1>0, <1>4, <2>1, <2>2, ContinueQuiet
\* Starting a task.
<1>5. ASSUME NEW p \in {"task", "catch", "deferred"}, NEW t \in Task, StartTask([Top EXCEPT !.pc = p], t),
             p = "deferred" => t = DeferOf(Top) /\ err = 0 /\ Top.pc = "defer"
      PROVE  GotoInv'
  <2> DEFINE f == [Top EXCEPT !.pc = p]
  <2>1. /\ f \in Frame /\ f.kind = Top.kind /\ f.node = Top.node /\ f.proc = Top.proc
        /\ f.pc = p /\ f.err = Top.err
    BY <1>1 DEF Frame
  <2>2. StartTask(f, t)
    BY <1>5
  <2> HIDE DEF f
  <2>3. PICK callee : callee = TaskFrame(Top.proc, t)
    OBVIOUS
  <2>4. callee.kind = "task" /\ callee.node = t
    BY <2>3 DEF TaskFrame
  <2>5. DeferOf(f) = DeferOf(Top)
    BY <2>1 DEF DeferOf
  <2>6. MayCall(f, callee)
    BY <1>0, <1>5, <2>1, <2>4, <2>5 DEF MayCall
  <2>7. Settled(f) => Settled(Top) /\ err = 0
    BY <1>0, <1>5, <2>1, <2>5 DEF Settled
  <2> QED
    BY <1>0, <2>1, <2>2, <2>3, <2>6, <2>7, StartTaskQuiet
<1>a. CASE PassTask
  <2> DEFINE f == [Top EXCEPT !.idx = @ + 1]
  <2>1. f \in Frame /\ f.kind = Top.kind /\ f.node = Top.node /\ f.proc = Top.proc /\ f.pc = Top.pc
    BY <1>1 DEF Frame
  <2>2. Continue(f) /\ UNCHANGED processes /\ Top.pc = "loop"
    BY <1>a DEF PassTask, Running
  <2> HIDE DEF f
  <2> QED
    BY <1>4, <2>1, <2>2 DEF Settled
<1>b. CASE RunTask
  <2>1. Top.list[Top.idx] \in Task
    BY <1>1, <1>b, ElementOfSeq DEF RunTask, LoopEnds
  <2> QED
    BY <1>5, <1>b, <2>1 DEF RunTask
<1>c. CASE TaskSucceeded
  <2> DEFINE f == [Top EXCEPT !.pc = "loop", !.idx = @ + 1]
  <2>1. f \in Frame /\ f.kind = Top.kind /\ f.node = Top.node /\ f.proc = Top.proc /\ f.pc = "loop"
    BY <1>1 DEF Frame
  <2>2. Continue(f) /\ UNCHANGED processes
    BY <1>c DEF TaskSucceeded
  <2> HIDE DEF f
  <2> QED
    BY <1>4, <2>1, <2>2 DEF Settled
<1>d. CASE CatchError
  BY <1>2, <1>5, <1>d DEF CatchError
<1>6. ASSUME Continue([Top EXCEPT !.pc = "defer", !.err = err]), UNCHANGED processes,
             err = 0 => Last.scheduled = NoTask
      PROVE  GotoInv'
  <2>0. PICK e \in Nat : e = err
    BY <1>1
  <2> DEFINE f == [Top EXCEPT !.pc = "defer", !.err = e]
  <2>1. f \in Frame
    BY <1>1, FrameFacts
  <2>2. f.kind = Top.kind /\ f.node = Top.node /\ f.proc = Top.proc /\ f.err = e
    BY <1>1 DEF Frame
  <2>3. Continue(f)
    BY <1>6, <2>0
  <2> HIDE DEF f
  <2> QED
    BY <1>4, <1>6, <2>0, <2>1, <2>2, <2>3 DEF Settled
<1>e. CASE TaskFailed
  BY <1>6, <1>e DEF TaskFailed
<1>f. CASE RunScheduled
  <2> DEFINE f == [Top EXCEPT !.pc = "scheduled"]
             g == TasksFrame(Top.proc, NoTask, <<This.scheduled>>)
  <2>1. This.scheduled \in Task
    BY <1>1, <1>f DEF RunScheduled, Process
  <2>2. /\ g \in Frame /\ g.kind = "tasks" /\ g.pc = "loop" /\ g.node = NoTask
        /\ g.proc = Top.proc
    BY <1>1, <2>1 DEF TasksFrame, Frame
  <2>3. f \in Frame /\ f.kind = Top.kind /\ f.node = Top.node /\ f.proc = Top.proc /\ f.pc = "scheduled"
    BY <1>1 DEF Frame
  <2>4. Call(f, g) /\ err = 0
    BY <1>3, <1>f DEF RunScheduled, Running
  <2>5. PICK t \in Task \cup {NoTask} : t = NoTask
    OBVIOUS
  <2>6. processes' = [processes EXCEPT ![Len(processes)].scheduled = t]
    BY <1>1, <1>f, <2>5 DEF RunScheduled
  <2>7. JumpsStay /\ Len(processes') = Len(processes)
    BY <1>0, <2>5, <2>6, ScheduleJumps
  <2> HIDE DEF f, g
  <2>8. MayCall(f, g) /\ ~Settled(f)
    BY <1>0, <2>2, <2>3 DEF MayCall, Settled
  <2>9. Len(processes') >= Len(processes)
    BY <1>1, <2>7
  <2> QED
    BY <1>0, <1>1, <2>2, <2>3, <2>4, <2>7, <2>8, <2>9, CallQuiet
<1>g. CASE EndLoop
  <2>1. err = 0 => Last.scheduled = NoTask
    <3>1. CASE This.scheduled = NoTask
      BY <1>1, <3>1
    <3>2. CASE Returned("tasks", "scheduled")
      BY <1>1, <3>2, TopFacts DEF Returned, GotoInv, BackInv, Top, Last
    <3> QED
      BY <1>g, <3>1, <3>2 DEF EndLoop
  <2> QED
    BY <1>6, <1>g, <2>1 DEF EndLoop
<1>h. CASE RunDeferred
  BY <1>2, <1>3, <1>5, <1>h DEF RunDeferred, Running
<1>i. CASE EndTasks
  <2>0. PICK e : e = IF Top.err # 0 THEN Top.err ELSE err
    OBVIOUS
  <2>1. Return(e) /\ UNCHANGED processes /\ Top.pc \in {"defer", "deferred"}
    BY <1>i, <2>0 DEF EndTasks, Running, Returned
  <2>2. e = 0 => err = 0 /\ Top.err = 0
    BY <1>i, <1>3, <2>0 DEF EndTasks, Running, Returned
  <2> QED
    BY <1>0, <2>1, <2>2, SameJumps, ReturnQuiet
<1> QED
  BY <1>a, <1>b, <1>c, <1>d, <1>e, <1>f, <1>g, <1>h, <1>i DEF TasksNext

LEMMA TaskQuiet ==
    ASSUME IInv, GotoInv, DeferredStill, TaskNext
    PROVE  GotoInv'
<1>0. control \in {"run", "return"} /\ Top.kind = "task"
  BY DEF TaskNext, SkipTask, FailTaskInit, EnterTask, SubTasksReturned, LeaveTask, Running, Returned
<1>1. /\ Top \in Frame /\ Top.node \in Task /\ Top.proc = Len(processes)
      /\ Top.proc \in 1 .. Len(processes) /\ raised + 1 # 0
  BY <1>0, TopFacts
<1>2. control = "run" => err = 0
  BY DEF GotoInv
<1>3. JumpsStay /\ Len(processes') = Len(processes) /\ Len(processes') >= Len(processes)
  BY <1>1, SameJumps DEF TaskNext, SkipTask, FailTaskInit, EnterTask, SubTasksReturned, LeaveTask
<1>4. ASSUME NEW e, NEW events, EndTask(e, events), e = 0 => err = 0
      PROVE  GotoInv'
  BY <1>0, <1>3, <1>4, EndTaskQuiet
<1>5. ASSUME NEW p \in {"subs", "acts"}
      PROVE  LET f == [Top EXCEPT !.pc = p]
             IN  /\ f \in Frame /\ f.kind = Top.kind /\ f.node = Top.node /\ f.proc = Top.proc
                 /\ ~Settled(f)
  <2>1. LET f == [Top EXCEPT !.pc = p]
        IN  f \in Frame /\ f.kind = Top.kind /\ f.node = Top.node /\ f.proc = Top.proc
    BY <1>1 DEF Frame
  <2> QED
    BY <1>0, <2>1 DEF Settled
<1>6. ASSUME Continue([Top EXCEPT !.pc = "acts"]), err = 0
      PROVE  GotoInv'
  <2> DEFINE f == [Top EXCEPT !.pc = "acts"]
  <2>1. /\ f \in Frame /\ f.kind = Top.kind /\ f.node = Top.node /\ f.proc = Top.proc
        /\ ~Settled(f) /\ Continue(f)
    BY <1>5, <1>6
  <2> HIDE DEF f
  <2> QED
    BY <1>0, <1>3, <1>6, <2>1, ContinueQuiet
<1>7. ASSUME Call([Top EXCEPT !.pc = "subs"], TasksFrame(Top.proc, Top.node, Tasks[Top.node])), err = 0
      PROVE  GotoInv'
  <2> DEFINE f == [Top EXCEPT !.pc = "subs"]
             g == TasksFrame(Top.proc, Top.node, Tasks[Top.node])
  <2>1. /\ g \in Frame /\ g.kind = "tasks" /\ g.pc = "loop" /\ g.node = Top.node /\ g.proc = Top.proc
    BY <1>1, TreeAssumption DEF TasksFrame, Frame, Node
  <2>2. /\ f \in Frame /\ f.kind = Top.kind /\ f.node = Top.node /\ f.proc = Top.proc
        /\ ~Settled(f) /\ Call(f, g)
    BY <1>5, <1>7
  <2> HIDE DEF f, g
  <2>3. MayCall(f, g)
    BY <1>0, <2>1, <2>2 DEF MayCall
  <2> QED
    BY <1>0, <1>1, <1>3, <1>7, <2>1, <2>2, <2>3, CallQuiet
<1>a. CASE SkipTask
  BY <1>2, <1>4, <1>a DEF SkipTask, Running
<1>b. CASE FailTaskInit
  BY <1>1, <1>4, <1>b DEF FailTaskInit
<1>c. CASE EnterTask
  BY <1>2, <1>6, <1>7, <1>c DEF EnterTask, Running
<1>d. CASE SubTasksReturned
  BY <1>4, <1>6, <1>d DEF SubTasksReturned
<1>e. CASE LeaveTask
  BY <1>1, <1>2, <1>4, <1>e DEF LeaveTask, Running
<1> QED
  BY <1>a, <1>b, <1>c, <1>d, <1>e DEF TaskNext

LEMMA ActionQuiet ==
    ASSUME IInv, GotoInv, DeferredStill, ActionNext
    PROVE  GotoInv'
<1>0. /\ control \in {"run", "return"} /\ Top.kind = "task"
      /\ ~ActionReturned => AtAction /\ err = 0
  BY DEF ActionNext, PassAction, IdleAction, FailActionInit, CallService, ExitWorkflow, Goto, Switch, RunWorkflow,
         ActionReturned, RunsAction, AtAction, Running, Returned, GotoInv
<1>1. /\ Top \in Frame /\ Top.node \in Task /\ Top.proc = Len(processes)
      /\ Top.proc \in 1 .. Len(processes) /\ Len(processes) \in Nat
      /\ Top.idx \in Nat \ {0} /\ raised + 1 # 0 /\ Last \in Process
  BY <1>0, TopFacts
<1>2. AtAction => /\ ThisAction.service \in {"goto", "switch"} => ThisAction.target \in Task
                  /\ ThisAction.service = "run" => ThisAction.target \in Workflow
                  /\ Top.idx \in 1 .. Len(Actions[Top.node])
  <2>1. Actions[Top.node] \in Seq(Action)
    BY <1>1, ActionAssumption
  <2>2. AtAction => Top.idx \in 1 .. Len(Actions[Top.node])
    BY <1>1, <2>1, LenProperties DEF AtAction
  <2> QED
    BY <1>1, <2>2, ThisActionFacts
\* What a task whose jumps do not matter may not do.
<1>3. AtAction /\ Top.node \in Still =>
         /\ ThisAction.service # "goto"
         /\ ThisAction.service = "switch" => ThisAction.target \in Still
  BY <1>2, StillLeaves DEF LeavesNoJump, ThisAction
<1>4. ASSUME NEW e, NEW events, EndTask(e, events), e = 0 => err = 0, UNCHANGED processes
      PROVE  GotoInv'
  BY <1>0, <1>4, SameJumps, EndTaskQuiet
<1>5. ASSUME NEW events, ActionOK(events), err = 0, UNCHANGED processes
      PROVE  GotoInv'
  BY <1>0, <1>5, SameJumps, ActionOKQuiet
<1>6. ASSUME NEW f \in Frame, Continue(f), err = 0, UNCHANGED processes,
             f.kind = Top.kind, f.node = Top.node, f.proc = Top.proc
      PROVE  GotoInv'
  <2>1. ~Settled(f)
    BY <1>0, <1>6 DEF Settled
  <2> QED
    BY <1>0, <1>6, <2>1, SameJumps, ContinueQuiet
<1>7. LET f == [Top EXCEPT !.pc = "call"]
      IN  f \in Frame /\ f.kind = Top.kind /\ f.node = Top.node /\ f.proc = Top.proc
  BY <1>1 DEF Frame
<1>a. CASE PassAction
  <2>1. CASE Continue(NextAction)
    BY <1>0, <1>1, <1>6, <1>a, <2>1, ActionFrameFacts DEF PassAction, ActionReturned, Returned, AtAction, Running
  <2>2. ASSUME NEW j \in Top.idx + 1 .. Len(Actions[Top.node]) + 1,
               Continue([NextAction EXCEPT !.idx = j])
        PROVE  GotoInv'
    <3> DEFINE f == [NextAction EXCEPT !.idx = j]
    <3>0. Len(Actions[Top.node]) \in Nat
      BY <1>1, ActionAssumption, LenProperties
    <3>1. j \in Nat
      BY <1>1, <3>0
    <3>2. NextAction \in Frame /\ NextAction.kind = Top.kind /\ NextAction.node = Top.node /\ NextAction.proc = Top.proc
      BY <1>1, ActionFrameFacts
    <3>3. f \in Frame /\ f.kind = Top.kind /\ f.node = Top.node /\ f.proc = Top.proc
      BY <3>1, <3>2 DEF Frame
    <3>4. Continue(f) /\ UNCHANGED processes /\ err = 0
      BY <1>0, <1>a, <2>2 DEF PassAction, ActionReturned, Returned, AtAction, Running
    <3> HIDE DEF f
    <3> QED
      BY <1>6, <3>3, <3>4
  <2> QED
    BY <1>a, <2>1, <2>2 DEF PassAction
<1>b. CASE IdleAction
  BY <1>0, <1>5, <1>b DEF IdleAction, ActionReturned, Returned, AtAction, Running
<1>c. CASE FailActionInit
  BY <1>1, <1>4, <1>c DEF FailActionInit
<1>d. CASE CallService
  BY <1>0, <1>1, <1>4, <1>5, <1>d DEF CallService, RunsAction, ActionReturned, Returned, AtAction, Running
<1>e. CASE ExitWorkflow
  <2>1. /\ err = 0 /\ ActionOK(Started \o Ended)
        /\ processes' = [processes EXCEPT ![Len(processes)].terminated = TRUE]
    BY <1>0, <1>e DEF ExitWorkflow, RunsAction, ActionReturned, Returned, AtAction, Running
  <2>2. JumpsStay /\ Len(processes') = Len(processes)
    BY <1>0, <2>1, TerminateJumps
  <2> QED
    BY <1>0, <2>1, <2>2, ActionOKQuiet
<1>f. CASE Goto
  <2>0. AtAction /\ ThisAction.service = "goto"
    BY <1>f DEF Goto, RunsAction
  <2>1. /\ err = 0 /\ ActionOK(Started \o Ended)
        /\ processes' = [processes EXCEPT ![Len(processes)].scheduled = ThisAction.target]
    BY <1>0, <1>f DEF Goto, RunsAction, ActionReturned, Returned, AtAction, Running
  <2>2. ThisAction.target \in Task /\ Top.node \notin Still
    BY <1>2, <1>3, <2>0
  <2>3. JumpsStay /\ Len(processes') = Len(processes)
    BY <1>0, <2>1, <2>2, ScheduleJumps
  <2> QED
    BY <1>0, <2>1, <2>3, ActionOKQuiet
<1>g. CASE Switch
  <2> DEFINE f == [Top EXCEPT !.pc = "call"]
  <2>0. AtAction /\ ThisAction.service = "switch" /\ err = 0
    BY <1>0, <1>g DEF Switch, RunsAction, ActionReturned, Returned, AtAction, Running
  <2>1. PICK t \in Task : t = ThisAction.target
    BY <1>2, <2>0
  <2>2. StartTask(f, t)
    BY <1>g, <2>1 DEF Switch
  <2>3. PICK callee : callee = TaskFrame(Top.proc, t)
    OBVIOUS
  <2>4. callee.kind = "task" /\ callee.node = t
    BY <2>3 DEF TaskFrame
  <2>5. f \in Frame /\ f.kind = Top.kind /\ f.node = Top.node /\ f.proc = Top.proc
    BY <1>7
  <2> HIDE DEF f
  <2>6. MayCall(f, callee) /\ ~Settled(f)
    BY <1>0, <1>3, <2>0, <2>1, <2>4, <2>5 DEF MayCall, Settled
  <2> QED
    BY <1>0, <2>0, <2>2, <2>3, <2>5, <2>6, StartTaskQuiet
<1>h. CASE RunWorkflow
  <2> DEFINE f == [Top EXCEPT !.pc = "call"]
             g == WorkflowFrame(Len(processes) + 1, ThisAction.target)
             p == NewProcess(ThisAction.target, Last.tagIDs)
  <2>0. AtAction /\ ThisAction.service = "run" /\ err = 0
    BY <1>0, <1>h DEF RunWorkflow, RunsAction, ActionReturned, Returned, AtAction, Running
  <2>1. ThisAction.target \in Workflow
    BY <1>2, <2>0
  <2>2. p \in Process /\ p.scheduled = NoTask
    BY <1>1, <2>1, TreeAssumption DEF NewProcess, Process
  <2>3. processes' = Append(processes, p) /\ Call(f, g)
    BY <1>h DEF RunWorkflow
  <2>4. /\ g \in Frame /\ g.kind = "workflow" /\ g.pc = "node"
        /\ g.proc = Len(processes) + 1
    BY <1>1, <2>1 DEF WorkflowFrame, Frame, Node
  <2>5. f \in Frame /\ f.kind = Top.kind /\ f.node = Top.node /\ f.proc = Top.proc
    BY <1>7
  <2> HIDE DEF f, g, p
  <2>6. MayCall(f, g) /\ ~Settled(f)
    BY <1>0, <2>4, <2>5 DEF MayCall, Settled
  <2>7. JumpsStay /\ Len(processes') = Len(processes) + 1 /\ processes'[Len(processes')] = p
    BY <2>2, <2>3, PushJumps
  <2>8. Len(processes') >= Len(processes) /\ g.proc = Len(processes')
    BY <1>1, <2>4, <2>7
  <2>9. processes'[Len(processes')].scheduled = NoTask
    BY <2>2, <2>7
  <2> QED
    BY <1>0, <2>0, <2>3, <2>4, <2>5, <2>6, <2>7, <2>8, <2>9, CallQuiet
<1>i. CASE ActionReturned
  BY <1>4, <1>5, <1>i DEF ActionReturned
<1> QED
  BY <1>a, <1>b, <1>c, <1>d, <1>e, <1>f, <1>g, <1>h, <1>i DEF ActionNext

LEMMA GotoInit == Init => GotoInv
<1> SUFFICES ASSUME Init PROVE GotoInv
  OBVIOUS
<1>1. PICK f : f = WorkflowFrame(1, Main)
  OBVIOUS
<1>2. PICK p : p = NewProcess(Main, {})
  OBVIOUS
<1>3. /\ stack = <<f>> /\ f.kind = "workflow" /\ f.proc = 1
      /\ processes = <<p>> /\ p.scheduled = NoTask
      /\ control = "run" /\ err = 0
  BY <1>1, <1>2 DEF Init, WorkflowFrame, NewProcess
<1>4. Len(stack) = 1 /\ stack[1] = f /\ processes[1] = p
  BY <1>3
<1>5. \A i \in 1 .. Len(stack) : ~Settled(stack[i])
  BY <1>3, <1>4 DEF Settled
<1> QED
  BY <1>3, <1>4, <1>5 DEF GotoInv, CalledInv, StillInv, QuietInv, BackInv

LEMMA GotoStep == IInv /\ GotoInv /\ DeferredStill /\ [Next]_vars => GotoInv'
<1> SUFFICES ASSUME IInv, GotoInv, DeferredStill, [Next]_vars PROVE GotoInv'
  OBVIOUS
<1>1. CASE UNCHANGED vars
  BY <1>1 DEF vars, GotoInv, CalledInv, StillInv, QuietInv, BackInv, Failing, Highest, Settled, MayCall, DeferOf
<1>2. CASE EnterWorkflow \/ LeaveWorkflow
  BY <1>2, WorkflowQuiet
<1>3. CASE TasksNext
  BY <1>3, TasksQuiet
<1>4. CASE TaskNext
  BY <1>4, TaskQuiet
<1>5. CASE ActionNext
  BY <1>5, ActionQuiet
<1> QED
  BY <1>1, <1>2, <1>3, <1>4, <1>5 DEF Next, Finished, TasksNext, TaskNext, ActionNext

\* Only the end of a workflow takes a process away.
LEMMA ProcessesKept ==
    ASSUME IInv, control \in {"run", "return"}, TasksNext \/ TaskNext \/ ActionNext
    PROVE  Len(processes') >= Len(processes)
<1>1. /\ Top.proc = Len(processes) /\ Len(processes) \in Nat /\ Len(processes) \in 1 .. Len(processes)
      /\ processes \in Seq(Process) /\ Len(processes) >= Len(processes)
  BY TopFacts DEF IInv, TypeOK
<1>2. ASSUME NEW t, SetTask(t) PROVE Len(processes') = Len(processes)
  BY <1>2, SetTaskJumps
<1>3. CASE UNCHANGED processes
  BY <1>1, <1>3
<1>4. CASE RunTask \/ CatchError \/ RunDeferred \/ Switch
  BY <1>1, <1>2, <1>4 DEF RunTask, CatchError, RunDeferred, Switch, StartTask
<1>5. CASE RunScheduled
  <2>1. This.scheduled # NoTask /\ This \in Process
    BY <1>5, TopFacts DEF RunScheduled
  <2>2. Len(processes') = Len(processes)
    BY <1>1, <1>5, ScheduleFacts DEF RunScheduled
  <2> QED
    BY <1>1, <2>2
<1>6. CASE ExitWorkflow
  <2>1. processes' = [processes EXCEPT ![Len(processes)].terminated = TRUE]
    BY <1>6 DEF ExitWorkflow
  <2>2. Len(processes') = Len(processes)
    BY <1>1, <2>1, TerminateFacts
  <2> QED
    BY <1>1, <2>2
<1>7. CASE Goto
  <2>1. processes' = [processes EXCEPT ![Len(processes)].scheduled = ThisAction.target]
    BY <1>7 DEF Goto
  <2>2. Len(processes') = Len(processes)
    BY <1>1, <2>1
  <2> QED
    BY <1>1, <2>2
<1>8. CASE RunWorkflow
  <2>1. PICK p : processes' = Append(processes, p)
    BY <1>8 DEF RunWorkflow
  <2>2. Len(processes') = Len(processes) + 1
    BY <1>1, <2>1
  <2> QED
    BY <1>1, <2>2
<1> QED
  BY <1>3, <1>4, <1>5, <1>6, <1>7, <1>8
  DEF TasksNext, PassTask, TaskSucceeded, TaskFailed, EndLoop, EndTasks,
      TaskNext, SkipTask, FailTaskInit, EnterTask, SubTasksReturned, LeaveTask,
      ActionNext, PassAction, IdleAction, FailActionInit, CallService, ActionReturned

\* A goto is not forgotten: where the deferred task of no workflow can leave a
\* jump behind, a workflow that ends well has run every task that a goto of it
\* scheduled.  runTasks looks at the scheduled task before its deferred one, so
\* that the hypothesis is needed: a goto under the deferred task of a workflow
\* is lost.
THEOREM GotoNotForgotten ==
    ASSUME DeferredStill
    PROVE  Spec => GotoHonoured
<1>1. Init => IInv /\ GotoInv
  BY InitInv, GotoInit
<1>2. IInv /\ GotoInv /\ [Next]_vars => (IInv /\ GotoInv)'
  BY NextInv, GotoStep
<1>3. IInv /\ GotoInv /\ [Next]_vars =>
        [Len(processes') < Len(processes) /\ err' = 0 => Last.scheduled = NoTask]_vars
  <2> SUFFICES ASSUME IInv, GotoInv, Next, ~UNCHANGED vars,
                      Len(processes') < Len(processes), err' = 0
               PROVE  Last.scheduled = NoTask
    OBVIOUS
  <2>1. control \in {"run", "return"}
    BY DEF Next, Finished, EnterWorkflow, LeaveWorkflow,
          PassTask, RunTask, TaskSucceeded, CatchError, TaskFailed, RunScheduled, EndLoop,
          RunDeferred, EndTasks, SkipTask, FailTaskInit, EnterTask, SubTasksReturned, LeaveTask,
          PassAction, IdleAction, FailActionInit, CallService, ExitWorkflow, Goto, Switch, RunWorkflow,
          ActionReturned, RunsAction, AtAction, Running, Returned
  <2>2. raised + 1 # 0 /\ Len(processes) \in Nat /\ Top.proc = Len(processes) /\ stack # <<>>
    BY <2>1, TopFacts
  <2>3. CASE EnterWorkflow \/ LeaveWorkflow
    <3>1. Top.kind = "workflow"
      BY <2>3 DEF EnterWorkflow, LeaveWorkflow, Running, Returned
    <3>2. err = 0
      <4>1. CASE EnterWorkflow
        BY <4>1 DEF EnterWorkflow, Running, GotoInv
      <4>2. CASE LeaveWorkflow
        BY <2>2, <4>2 DEF LeaveWorkflow, EndWorkflow, Return
      <4> QED
        BY <2>3, <4>1, <4>2
    <3> QED
      BY <2>2, <3>1, <3>2 DEF GotoInv, BackInv, Top, Last
  <2>4. CASE TasksNext \/ TaskNext \/ ActionNext
    <3>1. PICK n \in Nat : n = Len(processes)
      BY <2>2
    <3>2. Len(processes') >= Len(processes)
      BY <2>1, <2>4, ProcessesKept
    <3>3. Len(processes') \in Nat
      <4>1. processes' \in Seq(Process)
        BY NextInv DEF IInv, TypeOK
      <4> QED
        BY <4>1, LenProperties
    <3>4. PICK m \in Nat : m = Len(processes')
      BY <3>3
    <3> QED
      BY <3>1, <3>2, <3>4
  <2> QED
    BY <2>3, <2>4 DEF Next, Finished, TasksNext, TaskNext, ActionNext
<1> QED
  BY <1>1, <1>2, <1>3, PTL DEF Spec, GotoHonoured

-----------------------------------------------------------------------------
(* WorkflowTasks implements ErrorLedger: no walk of any tree of tasks      *)
(* loses an error. The argument: an error is in one place at a time, in    *)
(* err while it is returned or in the one frame of runTasks that keeps it  *)
(* while its deferred task runs. With WorkflowReport it is the exit code   *)
(* of the runner that follows from what was published.                     *)

\* The errors kept by the frames below the running one.
BelowErrs == {stack[i].err : i \in 1 .. Len(stack) - 1} \ {0}

\* Frames keep an error only while their deferred task is due or runs, and no
\* error is in two places.
PlaceInv ==
    /\ control = "run" => err = 0
    /\ \A i \in 1 .. Len(stack) :
          stack[i].err # 0 => /\ stack[i].kind = "tasks"
                              /\ stack[i].pc \in {"defer", "deferred"}
                              /\ stack[i].err # err
    /\ \A i, j \in 1 .. Len(stack) :
          i < j /\ stack[i].err # 0 => stack[i].err # stack[j].err

EInv == IInv /\ PlaceInv

-----------------------------------------------------------------------------
(* Every step of the walk moves errors in one of six ways *)

Same == UNCHANGED <<raised, caught, masked>>

\* f stands for the running frame and holds what err and the frame held.
Keeps(f) ==
    /\ f \in Frame
    /\ {f.err} \ {0} = {err, Top.err} \ {0}
    /\ f.err # 0 => f.kind = "tasks" /\ f.pc \in {"defer", "deferred"}

Goes == \E f \in Frame : Keeps(f) /\ Continue(f) /\ Same

Calls == \E f, g \in Frame : Keeps(f) /\ g.err = 0 /\ Call(f, g) /\ Same

Catches ==
    /\ \E f, g \in Frame : f.err = 0 /\ g.err = 0 /\ Call(f, g)
    /\ err # 0 /\ Top.err = 0
    /\ caught' = caught \cup {err}
    /\ UNCHANGED <<raised, masked>>

Returns == \E e \in 0 .. raised : {e} \ {0} = {err, Top.err} \ {0} /\ Return(e) /\ Same

Raises ==
    /\ err = 0 /\ Top.err = 0
    /\ Raise
    /\ Return(raised + 1)
    /\ UNCHANGED <<caught, masked>>

Masks ==
    /\ err # 0 /\ Top.err # 0
    /\ Return(Top.err)
    /\ masked' = masked \cup {err}
    /\ UNCHANGED <<raised, caught>>

Shape == Goes \/ Calls \/ Catches \/ Returns \/ Raises \/ Masks

\* Only frames of runTasks keep errors, and only for their deferred task.
LEMMA KeptFacts ==
    ASSUME EInv, control \in {"run", "return"}
    PROVE  /\ Top \in Frame /\ Top.err \in 0 .. raised /\ err \in 0 .. raised /\ raised \in Nat
           /\ control = "run" => err = 0
           /\ Top.err # 0 => Top.kind = "tasks" /\ Top.pc \in {"defer", "deferred"} /\ Top.err # err
<1>1. stack # <<>> /\ stack \in Seq(Frame)
  BY TopFacts DEF EInv, IInv, TypeOK
<1>2. Len(stack) \in 1 .. Len(stack)
  BY <1>1, EmptySeq
<1> QED
  BY <1>2, TopFacts DEF EInv, PlaceInv, Top

LEMMA WorkflowShape ==
    ASSUME EInv, EnterWorkflow \/ LeaveWorkflow
    PROVE  Shape
<1>0. control \in {"run", "return"} /\ Top.kind = "workflow" /\ (EnterWorkflow => control = "run")
  BY DEF EnterWorkflow, LeaveWorkflow, Running, Returned
<1>1. /\ Top \in Frame /\ Top.err = 0 /\ err \in 0 .. raised /\ raised \in Nat
      /\ EnterWorkflow => err = 0
      /\ Top.node \in Workflow /\ Top.proc \in Nat
  BY <1>0, KeptFacts, TopFacts DEF EInv, Frame
<1>2. ASSUME EndWorkflow(err), Same
      PROVE  Returns
  BY <1>1, <1>2 DEF Returns, EndWorkflow
<1>3. ASSUME err = 0, Raise, EndWorkflow(raised + 1), UNCHANGED <<caught, masked>>
      PROVE  Raises
  BY <1>1, <1>3 DEF Raises, EndWorkflow
<1>4. CASE EnterWorkflow
  <2>1. ASSUME Call([Top EXCEPT !.pc = "body"], TasksFrame(Top.proc, Top.node, Tasks[Top.node])), Same
        PROVE  Calls
    <3> DEFINE f == [Top EXCEPT !.pc = "body"]
               g == TasksFrame(Top.proc, Top.node, Tasks[Top.node])
    <3>1. f \in Frame /\ f.err = 0
      BY <1>1 DEF Frame
    <3>2. g \in Frame /\ g.err = 0
      BY <1>1, TreeAssumption DEF TasksFrame, Frame, Node
    <3>3. Call(f, g)
      BY <2>1
    <3> HIDE DEF f, g
    <3> QED
      BY <1>1, <1>4, <2>1, <3>1, <3>2, <3>3 DEF Calls, Keeps
  <2> QED
    BY <1>1, <1>2, <1>3, <1>4, <2>1 DEF EnterWorkflow, Same, Shape
<1>5. CASE LeaveWorkflow
  BY <1>2, <1>3, <1>5 DEF LeaveWorkflow, Same, Shape
<1> QED
  BY <1>4, <1>5

LEMMA TasksShape ==
    ASSUME EInv, TasksNext
    PROVE  Shape
<1>0. control \in {"run", "return"} /\ Top.kind = "tasks"
  BY DEF TasksNext, PassTask, RunTask, TaskSucceeded, CatchError, TaskFailed, RunScheduled,
         EndLoop, RunDeferred, EndTasks, Running, Returned
<1>1. /\ Top \in Frame /\ Top.err \in 0 .. raised /\ Top.idx + 1 \in Nat /\ Top.proc \in Nat
      /\ Top.list \in Seq(Task) /\ Top.idx \in Nat \ {0}
      /\ err \in 0 .. raised /\ raised \in Nat /\ err \in Nat
      /\ control = "run" => err = 0
      /\ Top.err # 0 => Top.pc \in {"defer", "deferred"} /\ Top.err # err
      /\ This \in Process
  BY <1>0, KeptFacts, TopFacts DEF EInv, Frame
\* A frame that keeps its own error, and one that takes over that in err.
<1>2. ASSUME NEW p \in {"loop", "task", "catch", "scheduled", "defer", "deferred"},
             Top.err # 0 => p = "deferred", err = 0
      PROVE  Keeps([Top EXCEPT !.pc = p])
  BY <1>0, <1>1, <1>2 DEF Keeps, Frame
<1>3. ASSUME NEW f \in {[Top EXCEPT !.idx = @ + 1], [Top EXCEPT !.pc = "loop", !.idx = @ + 1]},
             Top.err = 0, err = 0
      PROVE  Keeps(f)
  BY <1>0, <1>1, <1>3 DEF Keeps, Frame
<1>4. ASSUME Top.err = 0
      PROVE  Keeps([Top EXCEPT !.pc = "defer", !.err = err])
  <2> DEFINE f == [Top EXCEPT !.pc = "defer", !.err = err]
  <2>1. f \in Frame
    BY <1>1, FrameFacts
  <2>2. f.kind = "tasks" /\ f.pc = "defer" /\ f.err = err
    BY <1>0, <1>1 DEF Frame
  <2> HIDE DEF f
  <2>3. Keeps(f)
    BY <1>4, <2>1, <2>2 DEF Keeps
  <2> QED
    BY <2>3 DEF f
<1>5. ASSUME NEW t \in Task
      PROVE  TaskFrame(Top.proc, t) \in Frame /\ TaskFrame(Top.proc, t).err = 0
  BY <1>1, <1>5, EmptySeq DEF TaskFrame, Frame, Node
<1>a. CASE PassTask
  BY <1>0, <1>1, <1>3, <1>a DEF PassTask, Running, Goes, Keeps, Same, Shape
<1>b. CASE RunTask
  <2>1. Top.list[Top.idx] \in Task
    BY <1>1, <1>b, ElementOfSeq DEF RunTask, LoopEnds
  <2>2. Keeps([Top EXCEPT !.pc = "task"])
    BY <1>1, <1>2, <1>b DEF RunTask, Running
  <2> QED
    BY <1>5, <1>b, <2>1, <2>2 DEF RunTask, StartTask, Calls, Keeps, Same, Shape
<1>c. CASE TaskSucceeded
  BY <1>0, <1>1, <1>3, <1>c DEF TaskSucceeded, Returned, Goes, Keeps, Same, Shape
<1>d. CASE CatchError
  <2> DEFINE f == [Top EXCEPT !.pc = "catch"]
             g == TaskFrame(Top.proc, CatchOf(Top))
  <2>1. CatchOf(Top) \in Task
    BY <1>1, <1>d, TreeAssumption DEF CatchError, CatchOf, Frame
  <2>2. Top.err = 0 /\ err # 0
    BY <1>1, <1>d DEF CatchError, Returned
  <2>3. f \in Frame /\ f.err = 0
    BY <1>1, <2>2 DEF Frame
  <2>4. g \in Frame /\ g.err = 0 /\ Call(f, g)
    BY <1>5, <1>d, <2>1 DEF CatchError, StartTask
  <2> HIDE DEF f, g
  <2> QED
    BY <1>d, <2>2, <2>3, <2>4 DEF CatchError, Catches, Shape
<1>e. CASE TaskFailed
  BY <1>0, <1>1, <1>4, <1>e DEF TaskFailed, Returned, Goes, Keeps, Same, Shape
<1>f. CASE RunScheduled
  <2> DEFINE f == [Top EXCEPT !.pc = "scheduled"]
             g == TasksFrame(Top.proc, NoTask, <<This.scheduled>>)
  <2>1. This.scheduled \in Task
    BY <1>1, <1>f DEF RunScheduled, Process
  <2>2. g \in Frame /\ g.err = 0
    BY <1>1, <2>1 DEF TasksFrame, Frame
  <2>3. Keeps(f)
    BY <1>1, <1>2, <1>f DEF RunScheduled, Running
  <2>4. Call(f, g) /\ Same
    BY <1>f DEF RunScheduled, Same
  <2> HIDE DEF f, g
  <2> QED
    BY <2>2, <2>3, <2>4 DEF Calls, Keeps, Shape
<1>g. CASE EndLoop
  BY <1>0, <1>1, <1>4, <1>g DEF EndLoop, Running, Returned, Goes, Keeps, Same, Shape
<1>h. CASE RunDeferred
  <2>1. DeferOf(Top) \in Task
    BY <1>1, <1>h, TreeAssumption DEF RunDeferred, DeferOf, Frame
  <2>2. Keeps([Top EXCEPT !.pc = "deferred"])
    BY <1>1, <1>2, <1>h DEF RunDeferred, Running
  <2> QED
    BY <1>5, <1>h, <2>1, <2>2 DEF RunDeferred, StartTask, Calls, Keeps, Same, Shape
<1>i. CASE EndTasks
  <2>1. CASE Top.err = 0
    BY <1>1, <1>i, <2>1 DEF EndTasks, Returns, Same, Shape
  <2>2. CASE Top.err # 0 /\ err = 0
    BY <1>1, <1>i, <2>2 DEF EndTasks, Returns, Same, Shape
  <2>3. CASE Top.err # 0 /\ err # 0
    BY <1>1, <1>i, <2>3 DEF EndTasks, Masks, Shape
  <2> QED
    BY <2>1, <2>2, <2>3
<1> QED
  BY <1>a, <1>b, <1>c, <1>d, <1>e, <1>f, <1>g, <1>h, <1>i DEF TasksNext

LEMMA TaskShape ==
    ASSUME EInv, TaskNext
    PROVE  Shape
<1>0. control \in {"run", "return"} /\ Top.kind = "task"
  BY DEF TaskNext, SkipTask, FailTaskInit, EnterTask, SubTasksReturned, LeaveTask, Running, Returned
<1>1. /\ Top \in Frame /\ Top.err = 0 /\ Top.node \in Task /\ Top.proc \in Nat
      /\ err \in 0 .. raised /\ raised \in Nat
      /\ control = "run" => err = 0
  BY <1>0, KeptFacts, TopFacts DEF EInv, Frame
<1>2. ASSUME NEW p \in {"subs", "acts"}, err = 0
      PROVE  Keeps([Top EXCEPT !.pc = p])
  BY <1>0, <1>1, <1>2 DEF Keeps, Frame
<1>3. ASSUME EndTask(err, <<>>), Same
      PROVE  Returns
  BY <1>1, <1>3 DEF Returns, EndTask
<1>4. ASSUME err = 0, Raise, EndTask(raised + 1, <<>>), UNCHANGED <<caught, masked>>
      PROVE  Raises
  BY <1>1, <1>4 DEF Raises, EndTask
<1>a. CASE SkipTask
  BY <1>1, <1>3, <1>a DEF SkipTask, Running, Same, Shape
<1>b. CASE FailTaskInit
  BY <1>1, <1>4, <1>b DEF FailTaskInit, Running, Shape
<1>c. CASE EnterTask
  <2>1. err = 0 /\ Same
    BY <1>1, <1>c DEF EnterTask, Running, Same
  <2>2. ASSUME Call([Top EXCEPT !.pc = "subs"], TasksFrame(Top.proc, Top.node, Tasks[Top.node]))
        PROVE  Calls
    <3> DEFINE f == [Top EXCEPT !.pc = "subs"]
               g == TasksFrame(Top.proc, Top.node, Tasks[Top.node])
    <3>1. g \in Frame /\ g.err = 0
      BY <1>1, TreeAssumption DEF TasksFrame, Frame, Node
    <3>2. Keeps(f) /\ Call(f, g)
      BY <1>2, <2>1, <2>2
    <3> HIDE DEF f, g
    <3> QED
      BY <2>1, <3>1, <3>2 DEF Calls, Keeps
  <2>3. ASSUME Continue([Top EXCEPT !.pc = "acts"])
        PROVE  Goes
    BY <1>2, <2>1, <2>3 DEF Goes, Keeps
  <2> QED
    BY <1>c, <2>2, <2>3 DEF EnterTask, Shape
<1>d. CASE SubTasksReturned
  <2>1. CASE err = 0
    BY <1>2, <1>d, <2>1 DEF SubTasksReturned, Goes, Keeps, Same, Shape
  <2>2. CASE err # 0
    BY <1>3, <1>d, <2>2 DEF SubTasksReturned, Same, Shape
  <2> QED
    BY <2>1, <2>2
<1>e. CASE LeaveTask
  BY <1>1, <1>3, <1>4, <1>e DEF LeaveTask, Running, Same, Shape
<1> QED
  BY <1>a, <1>b, <1>c, <1>d, <1>e DEF TaskNext

LEMMA ActionShape ==
    ASSUME EInv, ActionNext
    PROVE  Shape
<1>0. /\ control \in {"run", "return"} /\ Top.kind = "task"
      /\ ~ActionReturned => AtAction /\ control = "run"
  BY DEF ActionNext, PassAction, IdleAction, FailActionInit, CallService, ExitWorkflow, Goto, Switch, RunWorkflow,
         ActionReturned, RunsAction, AtAction, Running, Returned
<1>1. /\ Top \in Frame /\ Top.err = 0 /\ Top.node \in Task /\ Top.proc \in Nat
      /\ Top.idx \in Nat \ {0} /\ Len(processes) + 1 \in Nat
      /\ err \in 0 .. raised /\ raised \in Nat
      /\ ~ActionReturned => err = 0
  BY <1>0, KeptFacts, TopFacts DEF EInv, Frame
<1>2. ASSUME NEW f \in Frame, f.err = 0, err = 0
      PROVE  Keeps(f)
  BY <1>1, <1>2 DEF Keeps
<1>3. NextAction \in Frame /\ NextAction.err = 0
  BY <1>1, ActionFrameFacts
<1>4. LET f == [Top EXCEPT !.pc = "call"] IN f \in Frame /\ f.err = 0
  BY <1>1 DEF Frame
<1>5. ASSUME NEW events, EndTask(err, events), Same
      PROVE  Returns
  BY <1>1, <1>5 DEF Returns, EndTask
<1>6. ASSUME NEW events, err = 0, Raise, EndTask(raised + 1, events), UNCHANGED <<caught, masked>>
      PROVE  Raises
  BY <1>1, <1>6 DEF Raises, EndTask
<1>7. ASSUME NEW events, err = 0, ActionOK(events), UNCHANGED <<caught, masked>>
      PROVE  Shape
  <2>1. ASSUME NEW f \in AfterAction, Continue(f), UNCHANGED raised
        PROVE  Goes
    <3>1. f \in Frame /\ f.err = 0
      BY <1>1, ActionFrameFacts DEF AfterAction
    <3> QED
      BY <1>2, <1>7, <2>1, <3>1 DEF Goes, Same
  <2>2. CASE \E f \in AfterAction : Continue(f) /\ UNCHANGED raised
    BY <2>1, <2>2 DEF Shape
  <2>3. CASE Raise /\ EndTask(raised + 1, events)
    BY <1>6, <1>7, <2>3 DEF Shape
  <2> QED
    BY <1>7, <2>2, <2>3 DEF ActionOK
<1>a. CASE PassAction
  <2>0. err = 0 /\ Same
    BY <1>0, <1>1, <1>a DEF PassAction, AtAction, ActionReturned, Running, Returned, Same
  <2>1. CASE Continue(NextAction)
    BY <1>2, <1>3, <2>0, <2>1 DEF Goes, Shape
  <2>2. ASSUME NEW j \in Top.idx + 1 .. Len(Actions[Top.node]) + 1,
               Continue([NextAction EXCEPT !.idx = j])
        PROVE  Shape
    <3> DEFINE f == [NextAction EXCEPT !.idx = j]
    <3>1. j \in Nat
      BY <1>1, ActionAssumption, LenProperties
    <3>2. f \in Frame /\ f.err = 0
      BY <1>3, <3>1 DEF Frame
    <3> HIDE DEF f
    <3>3. Continue(f)
      BY <2>2 DEF f
    <3> QED
      BY <1>2, <2>0, <3>2, <3>3 DEF Goes, Shape
  <2> QED
    BY <1>a, <2>1, <2>2 DEF PassAction
<1>b. CASE IdleAction
  <2>1. UNCHANGED <<caught, masked>> /\ err = 0
    BY <1>1, <1>b DEF IdleAction, AtAction, ActionReturned, Running, Returned
  <2> QED
    BY <1>7, <1>b, <2>1 DEF IdleAction
<1>i. CASE FailActionInit
  <2>1. UNCHANGED <<caught, masked>> /\ err = 0
    BY <1>1, <1>i DEF FailActionInit, AtAction, ActionReturned, Running, Returned
  <2> QED
    BY <1>6, <1>i, <2>1 DEF FailActionInit, Shape
<1>8. ASSUME ~ActionReturned
      PROVE  err = 0
  BY <1>1, <1>8
<1>c. CASE CallService
  <2>1. UNCHANGED <<caught, masked>> /\ err = 0
    BY <1>1, <1>c DEF CallService, RunsAction, AtAction, ActionReturned, Running, Returned
  <2> QED
    BY <1>6, <1>7, <1>c, <2>1 DEF CallService, Shape
<1>d. CASE ExitWorkflow
  <2>1. UNCHANGED <<caught, masked>> /\ err = 0
    BY <1>1, <1>d DEF ExitWorkflow, RunsAction, AtAction, ActionReturned, Running, Returned
  <2> QED
    BY <1>7, <1>d, <2>1 DEF ExitWorkflow
<1>e. CASE Goto
  <2>1. UNCHANGED <<caught, masked>> /\ err = 0
    BY <1>1, <1>e DEF Goto, RunsAction, AtAction, ActionReturned, Running, Returned
  <2> QED
    BY <1>7, <1>e, <2>1 DEF Goto
<1>f. CASE Switch
  <2> DEFINE f == [Top EXCEPT !.pc = "call"]
             g == TaskFrame(Top.proc, ThisAction.target)
  <2>1. AtAction /\ err = 0 /\ Same /\ ThisAction.service = "switch" /\ Call(f, g)
    BY <1>1, <1>f DEF Switch, StartTask, RunsAction, AtAction, ActionReturned, Running, Returned, Same
  <2>2. ThisAction.target \in Task
    BY <1>1, <2>1, ThisActionFacts
  <2>3. g \in Frame /\ g.err = 0
    BY <1>1, <2>2, EmptySeq DEF TaskFrame, Frame, Node
  <2>4. f \in Frame /\ f.err = 0
    BY <1>4
  <2> HIDE DEF f, g
  <2> QED
    BY <1>2, <2>1, <2>3, <2>4 DEF Calls, Shape
<1>g. CASE RunWorkflow
  <2> DEFINE f == [Top EXCEPT !.pc = "call"]
             g == WorkflowFrame(Len(processes) + 1, ThisAction.target)
  <2>1. AtAction /\ err = 0 /\ Same /\ ThisAction.service = "run" /\ Call(f, g)
    BY <1>1, <1>g DEF RunWorkflow, RunsAction, AtAction, ActionReturned, Running, Returned, Same
  <2>2. ThisAction.target \in Workflow
    BY <1>1, <2>1, ThisActionFacts
  <2>3. g \in Frame /\ g.err = 0
    BY <1>1, <2>2, EmptySeq DEF WorkflowFrame, Frame, Node
  <2>4. f \in Frame /\ f.err = 0
    BY <1>4
  <2> HIDE DEF f, g
  <2> QED
    BY <1>2, <2>1, <2>3, <2>4 DEF Calls, Shape
<1>h. CASE ActionReturned
  <2>1. CASE err = 0
    BY <1>7, <1>h, <2>1 DEF ActionReturned
  <2>2. CASE err # 0
    BY <1>5, <1>h, <2>2 DEF ActionReturned, Same, Shape
  <2> QED
    BY <2>1, <2>2
<1> QED
  BY <1>a, <1>b, <1>c, <1>d, <1>e, <1>f, <1>g, <1>h, <1>i DEF ActionNext

-----------------------------------------------------------------------------
(* What the moves do to the errors on their way *)

LEMMA LiveNow ==
    ASSUME EInv, control \in {"run", "return"}
    PROVE  /\ Live = ({err, Top.err} \ {0}) \cup BelowErrs
           /\ BelowErrs \subseteq 1 .. raised
           /\ err # 0 => err \notin BelowErrs
           /\ Top.err # 0 => Top.err \notin BelowErrs
           /\ raised + 1 \notin BelowErrs
           /\ Len(stack) = 1 => BelowErrs = {}
<1>1. /\ stack # <<>> /\ stack \in Seq(Frame) /\ raised \in Nat
      /\ Len(stack) \in Nat \ {0}
      /\ \A i \in 1 .. Len(stack) : stack[i].err \in 0 .. raised
  BY TopFacts, EmptySeq DEF EInv, IInv, TypeOK, StackInv, FrameInv
<1>2. DOMAIN stack = 1 .. Len(stack)
  BY <1>1, LenProperties
<1>3. 1 .. Len(stack) = (1 .. Len(stack) - 1) \cup {Len(stack)}
  BY <1>1
<1>4. {stack[i].err : i \in DOMAIN stack} = {stack[i].err : i \in 1 .. Len(stack) - 1} \cup {Top.err}
  BY <1>2, <1>3 DEF Top
<1>5. Live = ({err, Top.err} \ {0}) \cup BelowErrs
  BY <1>4 DEF Live, BelowErrs
<1>6. BelowErrs \subseteq 1 .. raised
  BY <1>1, <1>3 DEF BelowErrs
<1>7. err # 0 => err \notin BelowErrs
  BY <1>3 DEF BelowErrs, EInv, PlaceInv
<1>8. Top.err # 0 => Top.err \notin BelowErrs
  BY <1>1, <1>3 DEF BelowErrs, EInv, PlaceInv, Top
<1>9. raised + 1 \notin BelowErrs
  BY <1>1, <1>6
<1>10. Len(stack) = 1 => BelowErrs = {}
  BY DEF BelowErrs
<1> QED
  BY <1>5, <1>6, <1>7, <1>8, <1>9, <1>10

\* The stack t holds the frames below the running one, and d above them.
Rests(t, d) ==
    /\ t \in Seq(Frame)
    /\ Len(t) = Len(stack) - 1 + d
    /\ \A i \in 1 .. Len(stack) - 1 : t[i] = stack[i]

LEMMA ReturnLive ==
    ASSUME EInv, control \in {"run", "return"}, NEW e \in Nat, Return(e),
           e # 0 => e \notin BelowErrs
    PROVE  /\ PlaceInv'
           /\ Live' = ({e} \ {0}) \cup BelowErrs
           /\ control' = "done" => Len(stack) = 1
<1>1. /\ stack # <<>> /\ stack \in Seq(Frame) /\ Len(stack) \in Nat \ {0}
  BY TopFacts, EmptySeq DEF EInv, IInv, TypeOK
<1>2. Rests(stack', 0)
  BY <1>1, FrontFacts DEF Rests, Return, Below
<1>3. DOMAIN stack' = 1 .. Len(stack) - 1
  BY <1>1, <1>2, LenProperties DEF Rests
<1>4. {stack'[i].err : i \in DOMAIN stack'} = {stack[i].err : i \in 1 .. Len(stack) - 1}
  BY <1>2, <1>3 DEF Rests
<1>5. Live' = ({e} \ {0}) \cup BelowErrs
  BY <1>4 DEF Live, BelowErrs, Return
<1>6. control' \in {"return", "done"} /\ err' = e
  BY DEF Return
<1>7. \A i \in 1 .. Len(stack) - 1 : stack[i].err # 0 => stack[i].err # e
  BY DEF BelowErrs
<1>8. Len(stack') = Len(stack) - 1 /\ \A i \in 1 .. Len(stack) - 1 : i \in 1 .. Len(stack)
  BY <1>1, <1>2 DEF Rests
<1>9. PlaceInv'
  <2>1. \A i \in 1 .. Len(stack') : i \in 1 .. Len(stack) - 1 /\ i \in 1 .. Len(stack) /\ stack'[i] = stack[i]
    BY <1>2, <1>8 DEF Rests
  <2>2. control' # "run"
    BY <1>6
  <2>3. ASSUME NEW i \in 1 .. Len(stack'), stack'[i].err # 0
        PROVE  /\ stack'[i].kind = "tasks" /\ stack'[i].pc \in {"defer", "deferred"}
               /\ stack'[i].err # err'
    BY <1>6, <1>7, <2>1, <2>3 DEF PlaceInv, EInv
  <2>4. ASSUME NEW i \in 1 .. Len(stack'), NEW j \in 1 .. Len(stack'), i < j, stack'[i].err # 0
        PROVE  stack'[i].err # stack'[j].err
    BY <2>1, <2>4 DEF PlaceInv, EInv
  <2> QED
    BY <2>2, <2>3, <2>4 DEF PlaceInv
<1> QED
  BY <1>5, <1>9 DEF Return

LEMMA PushLive ==
    ASSUME EInv, control \in {"run", "return"},
           control' = "run", err' = 0,
           NEW d \in {1, 2}, Rests(stack', d),
           LET f == stack'[Len(stack)]
           IN  /\ f.err # 0 => f.kind = "tasks" /\ f.pc \in {"defer", "deferred"}
               /\ f.err # 0 => f.err \notin BelowErrs,
           d = 2 => stack'[Len(stack) + 1].err = 0
    PROVE  /\ PlaceInv'
           /\ Live' = ({stack'[Len(stack)].err} \ {0}) \cup BelowErrs
<1>1. Len(stack) \in Nat \ {0}
  BY TopFacts, EmptySeq DEF EInv, IInv, TypeOK
<1>2. DOMAIN stack' = 1 .. Len(stack) - 1 + d /\ Len(stack') = Len(stack) - 1 + d
  BY <1>1, LenProperties DEF Rests
<1>3. /\ d = 1 => DOMAIN stack' = (1 .. Len(stack) - 1) \cup {Len(stack)}
      /\ d = 2 => DOMAIN stack' = (1 .. Len(stack) - 1) \cup {Len(stack), Len(stack) + 1}
  BY <1>1, <1>2
<1>4. {stack'[i].err : i \in DOMAIN stack'} \ {0}
        = ({stack[i].err : i \in 1 .. Len(stack) - 1} \cup {stack'[Len(stack)].err}) \ {0}
  BY <1>3 DEF Rests
<1>5. Live' = ({stack'[Len(stack)].err} \ {0}) \cup BelowErrs
  BY <1>4 DEF Live, BelowErrs
<1>6. \A i \in 1 .. Len(stack') : i \in 1 .. Len(stack) - 1 \/ i = Len(stack) \/ stack'[i].err = 0
  BY <1>1, <1>2
<1>7. \A i \in 1 .. Len(stack) - 1 : i \in 1 .. Len(stack) /\ stack'[i] = stack[i]
  BY <1>1 DEF Rests
<1>8. ASSUME NEW i \in 1 .. Len(stack'), stack'[i].err # 0
      PROVE  stack'[i].kind = "tasks" /\ stack'[i].pc \in {"defer", "deferred"}
  BY <1>6, <1>7, <1>8 DEF EInv, PlaceInv
<1>9. ASSUME NEW i \in 1 .. Len(stack'), NEW j \in 1 .. Len(stack'), i < j, stack'[i].err # 0
      PROVE  stack'[i].err # stack'[j].err
  <2>1. CASE stack'[j].err = 0
    BY <1>9, <2>1
  <2>2. CASE j \in 1 .. Len(stack) - 1
    <3>1. i \in 1 .. Len(stack) - 1
      BY <1>1, <1>9, <2>2
    <3> QED
      BY <1>7, <1>9, <2>2, <3>1 DEF EInv, PlaceInv
  <2>3. CASE j = Len(stack)
    <3>1. i \in 1 .. Len(stack) - 1
      BY <1>1, <1>9, <2>3
    <3>2. stack'[i].err \in BelowErrs
      BY <1>7, <1>9, <3>1 DEF BelowErrs
    <3> QED
      BY <1>9, <2>3, <3>2
  <2> QED
    BY <1>6, <2>1, <2>2, <2>3
<1>10. PlaceInv'
  BY <1>8, <1>9 DEF PlaceInv
<1> QED
  BY <1>5, <1>10

LEMMA ContinueLive ==
    ASSUME EInv, control \in {"run", "return"}, NEW f \in Frame, Continue(f),
           f.err # 0 => /\ f.kind = "tasks" /\ f.pc \in {"defer", "deferred"}
                        /\ f.err \notin BelowErrs
    PROVE  /\ PlaceInv'
           /\ Live' = ({f.err} \ {0}) \cup BelowErrs
           /\ control' # "done"
<1>1. stack # <<>> /\ stack \in Seq(Frame) /\ Len(stack) \in Nat \ {0}
  BY TopFacts, EmptySeq DEF EInv, IInv, TypeOK
<1>2. Rests(stack', 1) /\ stack'[Len(stack)] = f
  BY <1>1, ReplaceFacts DEF Continue, Below, Rests
<1>3. control' = "run" /\ err' = 0
  BY DEF Continue
<1> QED
  BY <1>2, <1>3, PushLive

LEMMA CallLive ==
    ASSUME EInv, control \in {"run", "return"}, NEW f \in Frame, NEW g \in Frame, Call(f, g),
           g.err = 0,
           f.err # 0 => /\ f.kind = "tasks" /\ f.pc \in {"defer", "deferred"}
                        /\ f.err \notin BelowErrs
    PROVE  /\ PlaceInv'
           /\ Live' = ({f.err} \ {0}) \cup BelowErrs
           /\ control' # "done"
<1> DEFINE t == Append(Below, f)
<1>1. stack # <<>> /\ stack \in Seq(Frame) /\ Len(stack) \in Nat \ {0}
  BY TopFacts, EmptySeq DEF EInv, IInv, TypeOK
<1>2. /\ t \in Seq(Frame) /\ Len(t) = Len(stack) /\ t[Len(stack)] = f
      /\ \A i \in 1 .. Len(stack) - 1 : t[i] = stack[i]
  BY <1>1, ReplaceFacts DEF Below
<1>3. stack' = Append(t, g)
  BY DEF Call
<1> HIDE DEF t
<1>4. /\ stack' \in Seq(Frame) /\ Len(stack') = Len(stack) + 1
      /\ \A i \in 1 .. Len(stack) : stack'[i] = t[i]
      /\ stack'[Len(stack) + 1] = g
  BY <1>2, <1>3, AppendFacts
<1>5. Len(stack) \in 1 .. Len(stack) /\ \A i \in 1 .. Len(stack) - 1 : i \in 1 .. Len(stack)
  BY <1>1
<1>6. Rests(stack', 2) /\ stack'[Len(stack)] = f
  BY <1>1, <1>2, <1>4, <1>5 DEF Rests
<1>7. control' = "run" /\ err' = 0
  BY DEF Call
<1> QED
  BY <1>4, <1>6, <1>7, PushLive

-----------------------------------------------------------------------------
(* Every shape of a step is a step of the ledger *)

LEMMA ShapeLedger ==
    ASSUME EInv, control \in {"run", "return"}, Shape
    PROVE  PlaceInv' /\ [Ledger!Next]_(Ledger!vars)
<1>1. /\ Top \in Frame /\ Top.err \in 0 .. raised /\ err \in 0 .. raised /\ raised \in Nat
      /\ Top.err # 0 => Top.err # err
  BY KeptFacts
<1>2. /\ Live = ({err, Top.err} \ {0}) \cup BelowErrs
      /\ BelowErrs \subseteq 1 .. raised
      /\ err # 0 => err \notin BelowErrs
      /\ Top.err # 0 => Top.err \notin BelowErrs
      /\ raised + 1 \notin BelowErrs
      /\ Len(stack) = 1 => BelowErrs = {}
  BY LiveNow
<1>3. control # "done"
  OBVIOUS
\* A frame that keeps what there was leaves the ledger as it is.
<1>4. ASSUME NEW f \in Frame, Keeps(f)
      PROVE  /\ f.err # 0 => /\ f.kind = "tasks" /\ f.pc \in {"defer", "deferred"}
                              /\ f.err \notin BelowErrs
             /\ ({f.err} \ {0}) \cup BelowErrs = Live
  BY <1>1, <1>2, <1>4 DEF Keeps
<1>5. ASSUME Same, Live' = Live, control' # "done"
      PROVE  UNCHANGED Ledger!vars
  BY <1>3, <1>5 DEF Same, Ledger!vars
<1>a. CASE Goes
  <2>1. PICK f \in Frame : Keeps(f) /\ Continue(f) /\ Same
    BY <1>a DEF Goes
  <2>2. PlaceInv' /\ Live' = Live /\ control' # "done"
    BY <1>4, <2>1, ContinueLive
  <2> QED
    BY <1>5, <2>1, <2>2
<1>b. CASE Calls
  <2>1. PICK f \in Frame, g \in Frame : Keeps(f) /\ g.err = 0 /\ Call(f, g) /\ Same
    BY <1>b DEF Calls
  <2>2. PlaceInv' /\ Live' = Live /\ control' # "done"
    BY <1>4, <2>1, CallLive
  <2> QED
    BY <1>5, <2>1, <2>2
<1>c. CASE Catches
  <2>1. PICK f \in Frame, g \in Frame : f.err = 0 /\ g.err = 0 /\ Call(f, g)
    BY <1>c DEF Catches
  <2>2. PlaceInv' /\ Live' = ({0} \ {0}) \cup BelowErrs /\ control' # "done"
    BY <2>1, CallLive
  <2>3. err \in Live /\ Live' = Live \ {err}
    BY <1>2, <1>c, <2>2 DEF Catches
  <2>4. Ledger!Catch(err) /\ UNCHANGED (control = "done")
    BY <1>3, <1>c, <2>2, <2>3 DEF Catches, Ledger!Catch
  <2> QED
    BY <2>2, <2>3, <2>4 DEF Ledger!Next, Ledger!Step
\* A return may be the end of the run: then there is no frame below.
<1>6. ASSUME NEW e \in Nat, Return(e), e # 0 => e \notin BelowErrs,
             Ledger!Step \/ UNCHANGED <<raised, Live, caught, masked>>
      PROVE  PlaceInv' /\ [Ledger!Next]_(Ledger!vars)
  <2>1. /\ PlaceInv'
        /\ Live' = ({e} \ {0}) \cup BelowErrs
        /\ control' = "done" => Len(stack) = 1
    BY <1>6, ReturnLive
  <2>2. CASE control' = "done"
    <3>1. \A x, y \in Live' : x = y
      BY <1>2, <2>1, <2>2
    <3>2. Ledger!End
      BY <1>3, <1>6, <2>2, <3>1 DEF Ledger!End
    <3> QED
      BY <2>1, <3>2 DEF Ledger!Next
  <2>3. CASE control' # "done"
    <3>1. UNCHANGED (control = "done")
      BY <1>3, <2>3
    <3> QED
      BY <1>6, <2>1, <3>1 DEF Ledger!Next, Ledger!vars
  <2> QED
    BY <2>2, <2>3
<1>d. CASE Returns
  <2>1. PICK e \in 0 .. raised : {e} \ {0} = {err, Top.err} \ {0} /\ Return(e) /\ Same
    BY <1>d DEF Returns
  <2>2. e \in Nat /\ (e # 0 => e \notin BelowErrs)
    BY <1>1, <1>2, <2>1
  <2>3. Live' = Live
    BY <1>2, <2>1, <2>2, ReturnLive
  <2> QED
    BY <1>6, <2>1, <2>2, <2>3 DEF Same
<1>e. CASE Raises
  <2>1. raised + 1 \in Nat /\ raised + 1 # 0 /\ Return(raised + 1) /\ Live = BelowErrs
    BY <1>1, <1>2, <1>e DEF Raises
  <2>2. Live' = Live \cup {raised + 1}
    BY <1>2, <2>1, ReturnLive
  <2>3. Ledger!Raise
    BY <1>3, <1>e, <2>2 DEF Raises, Raise, Ledger!Raise
  <2> QED
    BY <1>2, <1>6, <2>1, <2>3 DEF Ledger!Step
<1>f. CASE Masks
  <2>1. /\ Top.err \in Nat /\ Return(Top.err) /\ Top.err # 0 /\ err # 0 /\ Top.err # err
        /\ masked' = masked \cup {err} /\ UNCHANGED <<raised, caught>>
    BY <1>1, <1>f DEF Masks
  <2>2. Live' = {Top.err} \cup BelowErrs
    BY <1>2, <2>1, ReturnLive
  <2>3. err \in Live /\ Live' = Live \ {err} /\ Live \ {err} # {}
    BY <1>2, <2>1, <2>2
  <2>4. Ledger!Mask(err)
    BY <1>3, <2>1, <2>3 DEF Ledger!Mask
  <2> QED
    BY <1>2, <1>6, <2>1, <2>3, <2>4 DEF Ledger!Step
<1> QED
  BY <1>a, <1>b, <1>c, <1>d, <1>e, <1>f DEF Shape

LEMMA EInit ==
    ASSUME Init
    PROVE  EInv /\ Ledger!Init
<1>1. IInv
  BY InitInv
<1>2. Len(stack) = 1 /\ stack[1].err = 0 /\ DOMAIN stack = {1} /\ err = 0 /\ control = "run"
  BY DEF Init, WorkflowFrame
<1>3. PlaceInv
  BY <1>2 DEF PlaceInv
<1>4. Live = {}
  BY <1>2 DEF Live
<1> QED
  BY <1>1, <1>2, <1>3, <1>4 DEF EInv, Init, Ledger!Init

LEMMA EStep ==
    ASSUME EInv, [Next]_vars
    PROVE  EInv' /\ [Ledger!Next]_(Ledger!vars)
<1>1. IInv'
  BY NextInv DEF EInv
<1>2. CASE UNCHANGED vars
  BY <1>1, <1>2 DEF vars, EInv, PlaceInv, Live, Ledger!vars
<1>3. CASE EnterWorkflow \/ LeaveWorkflow \/ TasksNext \/ TaskNext \/ ActionNext
  <2>1. control \in {"run", "return"}
    BY <1>3 DEF EnterWorkflow, LeaveWorkflow, TasksNext, TaskNext, ActionNext,
          PassTask, RunTask, TaskSucceeded, CatchError, TaskFailed, RunScheduled, EndLoop,
          RunDeferred, EndTasks, SkipTask, FailTaskInit, EnterTask, SubTasksReturned, LeaveTask,
          PassAction, IdleAction, FailActionInit, CallService, ExitWorkflow, Goto, Switch, RunWorkflow,
          ActionReturned, RunsAction, AtAction, Running, Returned
  <2>2. Shape
    BY <1>3, WorkflowShape, TasksShape, TaskShape, ActionShape
  <2> QED
    BY <1>1, <2>1, <2>2, ShapeLedger DEF EInv
<1> QED
  BY <1>2, <1>3 DEF Next, Finished, TasksNext, TaskNext, ActionNext

\* No walk of any tree of tasks loses an error: what runTasks, runOnErrorTask and
\* runDeferredTask do with errors is what ErrorLedger allows.
THEOREM Implements == Spec => ErrorsAccounted
<1>1. Init => EInv /\ Ledger!Init
  BY EInit
<1>2. EInv /\ [Next]_vars => EInv' /\ [Ledger!Next]_(Ledger!vars)
  BY EStep
<1> QED
  BY <1>1, <1>2, PTL DEF Spec, ErrorsAccounted, Ledger!Spec

\* As long as no error was caught, one of those raised is on its way.
HeldInv == raised > 0 /\ Live = {} => caught # {}

LEMMA HeldStep ==
    ASSUME EInv, HeldInv, [Next]_vars
    PROVE  HeldInv'
<1>1. [Ledger!Next]_(Ledger!vars)
  BY EStep
<1>2. CASE UNCHANGED <<raised, Live, caught, masked>>
  BY <1>2 DEF HeldInv
<1>3. CASE Ledger!Raise
  BY <1>3 DEF Ledger!Raise, HeldInv
<1>4. ASSUME NEW e \in Live, Ledger!Catch(e)
      PROVE  HeldInv'
  BY <1>4 DEF Ledger!Catch, HeldInv
<1>5. ASSUME NEW e \in Live, Ledger!Mask(e)
      PROVE  HeldInv'
  BY <1>5 DEF Ledger!Mask, HeldInv
<1> QED
  BY <1>1, <1>2, <1>3, <1>4, <1>5 DEF Ledger!Next, Ledger!End, Ledger!Step, Ledger!vars

\* A workflow that ends without an error after one was raised has handed an
\* error to a catch task: deferred tasks and returns alone swallow none.
THEOREM SuccessCaught == Spec => []SuccessMeansCaught
<1>1. Init => EInv /\ HeldInv
  BY EInit DEF Init, HeldInv
<1>2. EInv /\ HeldInv /\ [Next]_vars => EInv' /\ HeldInv'
  BY EStep, HeldStep
<1>3. EInv /\ HeldInv => SuccessMeansCaught
  <2> SUFFICES ASSUME EInv, HeldInv, control = "done", err = 0, raised > 0
               PROVE  caught # {}
    BY DEF SuccessMeansCaught
  <2>1. stack = <<>>
    BY DEF EInv, IInv, StackInv
  <2>2. DOMAIN stack = {}
    BY <2>1
  <2> QED
    BY <2>2 DEF Live, HeldInv
<1> QED
  BY <1>1, <1>2, <1>3, PTL DEF Spec

-----------------------------------------------------------------------------
(* ExitCodeTells. The argument: the report is what the events published so *)
(* far say; an error is published last when the call at the bottom of the  *)
(* stack returns it, and a reset only after an error was handed to a catch *)
(* task.                                                                   *)

\* The first call is that of a workflow.
Bottom == stack # <<>> => stack[1].kind = "workflow"

LEMMA BottomMoves ==
    ASSUME IInv, control \in {"run", "return"}, Bottom
    PROVE  /\ \A f \in Frame : Continue(f) /\ f.kind = Top.kind => Bottom'
           /\ \A f, g \in Frame : Call(f, g) /\ f.kind = Top.kind => Bottom'
           /\ \A e : Return(e) => Bottom'
<1>1. stack # <<>> /\ stack \in Seq(Frame) /\ Len(stack) \in Nat \ {0} /\ Top = stack[Len(stack)]
  BY TopFacts, EmptySeq DEF IInv, TypeOK, Top
<1>0. Len(stack) \in Nat \ {0}
  BY <1>1
<1>b. \A n \in Nat \ {0} : n = 1 \/ (n > 1 /\ 1 \in 1 .. n - 1)
  BY SMT
<1>a. Len(stack) = 1 \/ (Len(stack) > 1 /\ 1 \in 1 .. Len(stack) - 1)
  BY <1>0, <1>b, Zenon
<1>2. stack[1].kind = "workflow"
  BY <1>1 DEF Bottom
<1>3. /\ Below \in Seq(Frame) /\ Len(Below) = Len(stack) - 1
      /\ \A i \in 1 .. Len(stack) - 1 : Below[i] = stack[i]
  BY <1>1, FrontFacts DEF Below
<1>4. ASSUME NEW e, Return(e)
      PROVE  Bottom'
  <2>1. CASE Len(stack) = 1
    <3>1. stack' = <<>>
      BY <1>3, <1>4, <2>1, EmptySeq DEF Return
    <3> QED
      BY <3>1 DEF Bottom
  <2>2. CASE Len(stack) > 1
    <3>1. 1 \in 1 .. Len(stack) - 1
      BY <1>a, <2>2
    <3> QED
      BY <1>2, <1>3, <1>4, <3>1 DEF Bottom, Return
  <2> QED
    BY <1>a, <2>1, <2>2
<1>5. ASSUME NEW f \in Frame, f.kind = Top.kind
      PROVE  /\ Append(Below, f) \in Seq(Frame) /\ Len(Append(Below, f)) = Len(stack)
             /\ Append(Below, f)[1].kind = "workflow"
  <2>1. /\ Append(Below, f) \in Seq(Frame) /\ Len(Append(Below, f)) = Len(stack)
        /\ \A i \in 1 .. Len(stack) - 1 : Append(Below, f)[i] = stack[i]
        /\ Append(Below, f)[Len(stack)] = f
    BY <1>1, ReplaceFacts DEF Below
  <2>2. CASE Len(stack) = 1
    BY <1>1, <1>2, <1>5, <2>1, <2>2
  <2>3. CASE Len(stack) > 1
    <3>1. 1 \in 1 .. Len(stack) - 1
      BY <1>a, <2>3
    <3> QED
      BY <1>2, <2>1, <3>1
  <2> QED
    BY <1>a, <2>1, <2>2, <2>3
<1>6. ASSUME NEW f \in Frame, f.kind = Top.kind, Continue(f)
      PROVE  Bottom'
  BY <1>5, <1>6 DEF Bottom, Continue
<1>7. ASSUME NEW f \in Frame, NEW g \in Frame, f.kind = Top.kind, Call(f, g)
      PROVE  Bottom'
  <2> DEFINE t == Append(Below, f)
  <2>1. t \in Seq(Frame) /\ Len(t) = Len(stack) /\ t[1].kind = "workflow" /\ stack' = Append(t, g)
    BY <1>5, <1>7 DEF Call
  <2> HIDE DEF t
  <2>2. stack'[1] = t[1]
    BY <1>1, <2>1, AppendFacts
  <2> QED
    BY <2>1, <2>2 DEF Bottom
<1> QED
  BY <1>4, <1>6, <1>7

LEMMA BottomStep ==
    ASSUME IInv, Bottom, Next, control \in {"run", "return"}
    PROVE  Bottom'
<1>1. /\ \A f \in Frame : Continue(f) /\ f.kind = Top.kind => Bottom'
      /\ \A f, g \in Frame : Call(f, g) /\ f.kind = Top.kind => Bottom'
      /\ \A e : Return(e) => Bottom'
  BY BottomMoves
<1>2. /\ Top \in Frame /\ Top.proc \in Nat /\ Top.idx \in Nat /\ Top.rep \in Nat /\ err \in Nat
      /\ Top.kind = "workflow" => Top.node \in Workflow
      /\ Top.kind = "task" => Top.node \in Task
      /\ Top.kind # "workflow" => Top.idx \in Nat \ {0}
      /\ This \in Process /\ Len(processes) + 1 \in Nat
  BY TopFacts DEF Frame
\* Frames that go on keep their kind, and so do those that call.
<1>3. ASSUME NEW p \in {"body", "loop", "task", "catch", "scheduled", "defer", "deferred",
                        "subs", "acts", "call"}
      PROVE  [Top EXCEPT !.pc = p] \in Frame /\ [Top EXCEPT !.pc = p].kind = Top.kind
  BY <1>2 DEF Frame
<1>4. ASSUME NEW t \in Task
      PROVE  TaskFrame(Top.proc, t) \in Frame
  BY <1>2, EmptySeq DEF TaskFrame, Frame, Node
<1>5. ASSUME NEW n \in Node
      PROVE  TasksFrame(Top.proc, n, Tasks[n]) \in Frame
  BY <1>2, TreeAssumption DEF TasksFrame, Frame
<1>6. ASSUME NEW e, NEW events, EndTask(e, events)
      PROVE  Bottom'
  BY <1>1, <1>6 DEF EndTask
<1>a. CASE EnterWorkflow \/ LeaveWorkflow
  <2>1. CASE \E e : EndWorkflow(e)
    BY <1>1, <2>1 DEF EndWorkflow
  <2>2. CASE EnterWorkflow /\ Call([Top EXCEPT !.pc = "body"], TasksFrame(Top.proc, Top.node, Tasks[Top.node]))
    <3>1. Top.node \in Node
      BY <1>2, <2>2 DEF EnterWorkflow, Running, Node
    <3> QED
      BY <1>1, <1>3, <1>5, <2>2, <3>1
  <2> QED
    BY <1>a, <2>1, <2>2 DEF EnterWorkflow, LeaveWorkflow
<1>b. CASE PassTask \/ TaskSucceeded \/ TaskFailed \/ EndLoop
  <2>0. Top.idx + 1 \in Nat
    BY <1>2
  <2>1. /\ [Top EXCEPT !.idx = @ + 1] \in Frame /\ [Top EXCEPT !.idx = @ + 1].kind = Top.kind
        /\ [Top EXCEPT !.pc = "loop", !.idx = @ + 1] \in Frame
        /\ [Top EXCEPT !.pc = "loop", !.idx = @ + 1].kind = Top.kind
    BY <1>2, <2>0 DEF Frame
  <2>2. /\ [Top EXCEPT !.pc = "defer", !.err = err] \in Frame
        /\ [Top EXCEPT !.pc = "defer", !.err = err].kind = Top.kind
    BY <1>2 DEF Frame
  <2> QED
    BY <1>1, <1>b, <2>1, <2>2 DEF PassTask, TaskSucceeded, TaskFailed, EndLoop
<1>c. CASE RunTask
  <2>1. Top.list[Top.idx] \in Task
    BY <1>2, <1>c, ElementOfSeq DEF RunTask, LoopEnds, Running, Frame
  <2> QED
    BY <1>1, <1>3, <1>4, <1>c, <2>1 DEF RunTask, StartTask
<1>d. CASE CatchError
  <2>1. CatchOf(Top) \in Task
    BY <1>2, <1>d, TreeAssumption DEF CatchError, CatchOf, Frame
  <2> QED
    BY <1>1, <1>3, <1>4, <1>d, <2>1 DEF CatchError, StartTask
<1>e. CASE RunDeferred
  <2>1. DeferOf(Top) \in Task
    BY <1>2, <1>e, TreeAssumption DEF RunDeferred, DeferOf, Frame
  <2> QED
    BY <1>1, <1>3, <1>4, <1>e, <2>1 DEF RunDeferred, StartTask
<1>f. CASE RunScheduled
  <2>1. This.scheduled \in Task
    BY <1>2, <1>f DEF RunScheduled, Process
  <2>2. TasksFrame(Top.proc, NoTask, <<This.scheduled>>) \in Frame
    BY <1>2, <2>1 DEF TasksFrame, Frame
  <2> QED
    BY <1>1, <1>3, <1>f, <2>2 DEF RunScheduled
<1>g. CASE EndTasks
  BY <1>1, <1>g DEF EndTasks
<1>h. CASE SkipTask \/ FailTaskInit \/ LeaveTask
  BY <1>6, <1>h DEF SkipTask, FailTaskInit, LeaveTask
<1>i. CASE EnterTask
  <2>1. Top.node \in Node
    BY <1>2, <1>i DEF EnterTask, Running, Node
  <2> QED
    BY <1>1, <1>3, <1>5, <1>i, <2>1 DEF EnterTask
<1>j. CASE SubTasksReturned
  <2>1. CASE \E e : EndTask(e, <<>>)
    BY <1>6, <2>1
  <2>2. CASE Continue([Top EXCEPT !.pc = "acts"])
    BY <1>1, <1>3, <2>2
  <2> QED
    BY <1>j, <2>1, <2>2 DEF SubTasksReturned
<1>k. CASE ActionNext
  <2>0. Top.kind = "task" /\ Top.node \in Task
    BY <1>2, <1>k DEF ActionNext, PassAction, IdleAction, FailActionInit, CallService, ExitWorkflow, Goto,
          Switch, RunWorkflow, ActionReturned, RunsAction, AtAction, Running, Returned
  <2>1. NextAction \in Frame /\ NextAction.kind = Top.kind
    BY <1>2, <2>0, ActionFrameFacts
  <2>2. ASSUME NEW f \in AfterAction
        PROVE  f \in Frame /\ f.kind = Top.kind
    BY <1>2, <2>0, <2>2, ActionFrameFacts DEF AfterAction
  <2>3. (\E events : ActionOK(events)) => Bottom'
    BY <1>1, <1>6, <2>2 DEF ActionOK
  <2>4. ASSUME PassAction
        PROVE  Bottom'
    <3>1. CASE Continue(NextAction)
      BY <1>1, <2>1, <3>1
    <3>2. ASSUME NEW j \in Top.idx + 1 .. Len(Actions[Top.node]) + 1,
                 Continue([NextAction EXCEPT !.idx = j])
          PROVE  Bottom'
      <4>1. j \in Nat
        BY <1>2, <2>0, ActionAssumption, LenProperties
      <4>2. [NextAction EXCEPT !.idx = j] \in Frame /\ [NextAction EXCEPT !.idx = j].kind = Top.kind
        BY <2>1, <4>1 DEF Frame
      <4> QED
        BY <1>1, <3>2, <4>2
    <3> QED
      BY <2>4, <3>1, <3>2 DEF PassAction
  <2>5. ASSUME Switch
        PROVE  Bottom'
    <3>1. ThisAction.target \in Task
      BY <1>2, <2>0, <2>5, ThisActionFacts DEF Switch, RunsAction
    <3> QED
      BY <1>1, <1>3, <1>4, <2>5, <3>1 DEF Switch, StartTask
  <2>6. ASSUME RunWorkflow
        PROVE  Bottom'
    <3>1. ThisAction.target \in Workflow
      BY <1>2, <2>0, <2>6, ThisActionFacts DEF RunWorkflow, RunsAction
    <3>2. WorkflowFrame(Len(processes) + 1, ThisAction.target) \in Frame
      BY <1>2, <3>1, EmptySeq DEF WorkflowFrame, Frame, Node
    <3> QED
      BY <1>1, <1>3, <2>6, <3>2 DEF RunWorkflow
  <2> QED
    BY <1>6, <1>k, <2>3, <2>4, <2>5, <2>6
      DEF ActionNext, IdleAction, FailActionInit, CallService, ExitWorkflow, Goto, ActionReturned
<1>l. ~Finished
  BY DEF Finished
<1> QED
  BY <1>a, <1>b, <1>c, <1>d, <1>e, <1>f, <1>g, <1>h, <1>i, <1>j, <1>k, <1>l DEF Next, ActionNext

-----------------------------------------------------------------------------
(* What is published of an error *)

ErrorOnly == {"Error"}

\* The last event is an error.
ErrorLast(s) == s # <<>> /\ s[Len(s)].type = "Error"

\* The end of a workflow is that of the run or publishes no error.
LEMMA EndWorkflowTold ==
    ASSUME EInv, control \in {"run", "return"}, Top.kind = "workflow", NEW e \in Nat, EndWorkflow(e)
    PROVE  /\ err' = e
           /\ control' = "done" /\ e # 0 => ErrorLast(published')
           /\ e = 0 => Without(published', ErrorOnly)
<1>1. Top.node \in Node
  BY TopFacts DEF EInv, Node
<1>2. err' = e /\ (control' = "done" => Len(stack) = 1)
  BY DEF EndWorkflow, Return
<1> DEFINE a == Event("WorkflowEnd", Top.node)
           b == Event("Error", Top.node)
<1>3. a \in PublishedEvent /\ b \in PublishedEvent /\ b.type = "Error"
  BY <1>1, EventFacts DEF Event
<1>4. published' = <<a>> \o (IF Len(stack) = 1 /\ e # 0 THEN <<b>> ELSE <<>>)
  BY DEF EndWorkflow
<1>5. CASE Len(stack) = 1 /\ e # 0
  <2>1. published' = <<a>> \o <<b>>
    BY <1>4, <1>5
  <2> HIDE DEF a, b
  <2>2. PICK x, y : x = a /\ y = b
    OBVIOUS
  <2>a. /\ <<x>> \in Seq(PublishedEvent) /\ <<y>> \in Seq(PublishedEvent)
        /\ Len(<<x>>) = 1 /\ Len(<<y>>) = 1 /\ <<y>>[1] = y
    BY <1>3, <2>2
  <2>b. /\ Len(<<x>> \o <<y>>) = Len(<<x>>) + Len(<<y>>)
        /\ \A i \in 1 .. Len(<<x>>) + Len(<<y>>) :
              (<<x>> \o <<y>>)[i] = IF i <= Len(<<x>>) THEN <<x>>[i] ELSE <<y>>[i - Len(<<x>>)]
    BY <2>a, ConcatProperties
  <2>c. Len(<<x>> \o <<y>>) = 2 /\ (<<x>> \o <<y>>)[2] = y
    BY <2>a, <2>b
  <2>d. published' = <<x>> \o <<y>>
    BY <2>1, <2>2
  <2>e. Len(published') = 2 /\ published'[2] = b
    BY <2>2, <2>c, <2>d
  <2>f. published' # <<>>
    BY <2>e
  <2>3. ErrorLast(published')
    BY <1>3, <2>e, <2>f DEF ErrorLast
  <2> QED
    BY <1>2, <1>5, <2>3
<1>6. CASE e = 0
  <2>1. published' = <<a>> \o <<>>
    BY <1>4, <1>6
  <2>2. <<a>> \in Seq(PublishedEvent) /\ Without(<<a>>, ErrorOnly)
    BY <1>1, WithoutOne DEF ErrorOnly
  <2>3. Without(<<a>> \o <<>>, ErrorOnly)
    BY <2>2, WithoutNone, WithoutConcat
  <2> QED
    BY <1>2, <1>6, <2>1, <2>3
<1> QED
  BY <1>2, <1>5, <1>6

\* A task that ends well publishes what its last action did.
LEMMA ToldStep ==
    ASSUME EInv, Bottom, Next, control \in {"run", "return"}
    PROVE  /\ Without(published', ErrorOnly) \/ err' # 0
           /\ control' = "done" /\ err' # 0 => ErrorLast(published')
<1>1. /\ Top \in Frame /\ err \in Nat /\ raised \in Nat
      /\ Top.kind = "workflow" => Top.node \in Workflow
      /\ Top.kind = "task" => Top.node \in Task
      /\ stack # <<>>
  BY TopFacts DEF EInv
<1>2. Len(stack) = 1 => Top.kind = "workflow"
  BY <1>1 DEF Bottom, Top
\* Calls of runTasks and runTask are never the last.
<1>3. Top.kind # "workflow" => control' # "done"
  <2> SUFFICES ASSUME Top.kind # "workflow", control' = "done" PROVE FALSE
    OBVIOUS
  <2>1. ASSUME NEW e, Return(e) PROVE FALSE
    BY <1>2, <2>1 DEF Return
  <2>2. \A f : ~Continue(f)
    BY DEF Continue
  <2>3. \A f, g : ~Call(f, g)
    BY DEF Call
  <2>4. (\A f, t : ~StartTask(f, t)) /\ (\A e, s : ~EndTask(e, s)) /\ (\A s : ~ActionOK(s))
    BY <2>1, <2>2, <2>3 DEF StartTask, EndTask, ActionOK
  <2>5. ~TasksNext
    BY <2>1, <2>2, <2>3, <2>4 DEF TasksNext, PassTask, RunTask, TaskSucceeded, CatchError, TaskFailed,
          RunScheduled, EndLoop, RunDeferred, EndTasks
  <2>6. ~TaskNext
    BY <2>2, <2>3, <2>4 DEF TaskNext, SkipTask, FailTaskInit, EnterTask, SubTasksReturned, LeaveTask
  <2>7. ~ActionNext
    BY <2>2, <2>3, <2>4 DEF ActionNext, PassAction, IdleAction, FailActionInit, CallService, ExitWorkflow, Goto,
          Switch, RunWorkflow, ActionReturned
  <2>8. ~EnterWorkflow /\ ~LeaveWorkflow /\ ~Finished
    BY DEF EnterWorkflow, LeaveWorkflow, Running, Returned, Finished
  <2> QED
    BY <2>5, <2>6, <2>7, <2>8 DEF Next, TasksNext, TaskNext, ActionNext
<1>4. ASSUME Quiet
      PROVE  Without(published', ErrorOnly)
  BY <1>4, WithoutNone DEF Quiet
<1>a. CASE EnterWorkflow \/ LeaveWorkflow
  <2>1. Top.kind = "workflow"
    BY <1>a DEF EnterWorkflow, LeaveWorkflow, Running, Returned
  <2>2. ASSUME NEW e \in Nat, EndWorkflow(e)
        PROVE  /\ Without(published', ErrorOnly) \/ err' # 0
               /\ control' = "done" /\ err' # 0 => ErrorLast(published')
    BY <2>1, <2>2, EndWorkflowTold
  <2>3. raised + 1 \in Nat
    BY <1>1
  <2>4. PICK e, f : e = err /\ f = raised + 1
    OBVIOUS
  <2>5. CASE EnterWorkflow
    <3>1. CASE EndWorkflow(0)
      BY <2>2, <3>1
    <3>2. CASE EndWorkflow(raised + 1)
      <4>1. EndWorkflow(f) /\ f \in Nat
        BY <2>3, <2>4, <3>2
      <4> QED
        BY <2>2, <4>1
    <3>3. CASE Quiet /\ Call([Top EXCEPT !.pc = "body"], TasksFrame(Top.proc, Top.node, Tasks[Top.node]))
      BY <1>4, <3>3 DEF Call
    <3> QED
      BY <2>5, <3>1, <3>2, <3>3 DEF EnterWorkflow
  <2>6. CASE LeaveWorkflow
    <3>1. CASE EndWorkflow(err)
      <4>1. EndWorkflow(e) /\ e \in Nat
        BY <1>1, <2>4, <3>1
      <4> QED
        BY <2>2, <4>1
    <3>2. CASE EndWorkflow(raised + 1)
      <4>1. EndWorkflow(f) /\ f \in Nat
        BY <2>3, <2>4, <3>2
      <4> QED
        BY <2>2, <4>1
    <3> QED
      BY <2>6, <3>1, <3>2 DEF LeaveWorkflow
  <2> QED
    BY <1>a, <2>5, <2>6
<1>b. CASE TasksNext
  <2>0. Top.kind = "tasks"
    BY <1>b DEF TasksNext, PassTask, RunTask, TaskSucceeded, CatchError, TaskFailed, RunScheduled,
          EndLoop, RunDeferred, EndTasks, Running, Returned
  <2>1. ASSUME PassTask \/ TaskSucceeded \/ TaskFailed \/ RunScheduled \/ EndLoop \/ EndTasks
        PROVE  Without(published', ErrorOnly) \/ err' # 0
    BY <1>4, <2>1 DEF PassTask, TaskSucceeded, TaskFailed, RunScheduled, EndLoop, EndTasks
  <2>2. ASSUME RunTask
        PROVE  Without(published', ErrorOnly) \/ err' # 0
    <3>1. Top.list[Top.idx] \in Node
      BY <1>1, <2>0, <2>2, TopFacts, ElementOfSeq DEF RunTask, LoopEnds, EInv, Frame, Node
    <3> QED
      BY <2>2, <3>1, WithoutOne DEF RunTask, ErrorOnly
  <2>3. ASSUME CatchError
        PROVE  Without(published', ErrorOnly) \/ err' # 0
    <3>1. CatchOf(Top) \in Node
      BY <1>1, <2>3, TreeAssumption DEF CatchError, CatchOf, Node, Frame
    <3> DEFINE reset == IF CatchOf(Top) \in Fail THEN <<>> ELSE <<Event("ResetError", CatchOf(Top))>>
               start == <<Event("TaskStart", CatchOf(Top))>>
    <3>2. reset \in Seq(PublishedEvent) /\ Without(reset, ErrorOnly)
      BY <3>1, WithoutOne, WithoutNone DEF ErrorOnly
    <3>3. start \in Seq(PublishedEvent) /\ Without(start, ErrorOnly)
      BY <3>1, WithoutOne DEF ErrorOnly
    <3>4. published' = reset \o start
      BY <2>3 DEF CatchError
    <3> HIDE DEF reset, start
    <3> QED
      BY <3>2, <3>3, <3>4, WithoutConcat
  <2>4. ASSUME RunDeferred
        PROVE  Without(published', ErrorOnly) \/ err' # 0
    <3>1. DeferOf(Top) \in Node
      BY <1>1, <2>4, TreeAssumption DEF RunDeferred, DeferOf, Node, Frame
    <3> QED
      BY <2>4, <3>1, WithoutOne DEF RunDeferred, ErrorOnly
  <2>5. Without(published', ErrorOnly) \/ err' # 0
    BY <1>b, <2>1, <2>2, <2>3, <2>4 DEF TasksNext
  <2> QED
    BY <1>3, <2>0, <2>5
<1>5. ASSUME NEW e, EndTask(e, <<>>), Top.kind = "task"
      PROVE  Without(published', ErrorOnly)
  BY <1>1, <1>5, WithoutNone, EndTaskWithout DEF ErrorOnly, Node
<1>6. ASSUME NEW s \in Seq(PublishedEvent), Without(s, ErrorOnly), ActionOK(s), Top.kind = "task"
      PROVE  Without(published', ErrorOnly)
  BY <1>1, <1>6, ActionOKWithout DEF ErrorOnly, Node
<1>c. CASE TaskNext
  <2>1. Top.kind = "task"
    BY <1>c DEF TaskNext, SkipTask, FailTaskInit, EnterTask, SubTasksReturned, LeaveTask,
          Running, Returned
  <2> QED
    BY <1>3, <1>4, <1>5, <1>c, <2>1 DEF TaskNext, SkipTask, FailTaskInit, EnterTask, SubTasksReturned, LeaveTask
<1>d. CASE ActionNext
  <2>0. Top.kind = "task" /\ Top.node \in Task /\ Top.node \in Node
    BY <1>1, <1>d DEF ActionNext, PassAction, IdleAction, FailActionInit, CallService, ExitWorkflow, Goto,
          Switch, RunWorkflow, ActionReturned, RunsAction, AtAction, Running, Returned, Node
  <2>1. Started \in Seq(PublishedEvent) /\ Without(Started, ErrorOnly)
    BY <2>0, WithoutOne DEF Started, ErrorOnly
  <2>2. Ended \in Seq(PublishedEvent) /\ Without(Ended, ErrorOnly)
    BY <2>0, WithoutOne DEF Ended, ErrorOnly
  <2>3. Started \o Ended \in Seq(PublishedEvent) /\ Without(Started \o Ended, ErrorOnly)
    BY <2>1, <2>2, WithoutConcat
  <2>4. PICK s, r : s = Ended /\ r = Started \o Ended
    OBVIOUS
  <2>5. ASSUME PassAction
        PROVE  Without(published', ErrorOnly) \/ err' # 0
    BY <1>4, <2>5 DEF PassAction
  <2>6. ASSUME IdleAction
        PROVE  Without(published', ErrorOnly) \/ err' # 0
    BY <1>6, <2>0, <2>6, WithoutNone DEF IdleAction
  <2>7. ASSUME FailActionInit
        PROVE  Without(published', ErrorOnly) \/ err' # 0
    BY <1>5, <2>0, <2>7 DEF FailActionInit
  <2>8. ASSUME ActionOK(Started \o Ended)
        PROVE  Without(published', ErrorOnly)
    <3>1. ActionOK(r) /\ r \in Seq(PublishedEvent) /\ Without(r, ErrorOnly)
      BY <2>3, <2>4, <2>8
    <3> QED
      BY <1>6, <2>0, <3>1
  <2>9. ASSUME CallService
        PROVE  Without(published', ErrorOnly) \/ err' # 0
    <3>1. ASSUME NEW t, EndTask(raised + 1, t)
          PROVE  err' # 0
      BY <1>1, <3>1 DEF EndTask, Return
    <3> QED
      BY <2>8, <2>9, <3>1 DEF CallService
  <2>10. ASSUME ExitWorkflow \/ Goto
        PROVE  Without(published', ErrorOnly) \/ err' # 0
    BY <2>8, <2>10 DEF ExitWorkflow, Goto
  <2>11. ASSUME Switch
        PROVE  Without(published', ErrorOnly) \/ err' # 0
    <3>1. ThisAction.target \in Node
      BY <1>1, <2>0, <2>11, TopFacts, ThisActionFacts DEF Switch, RunsAction, EInv, Node
    <3> QED
      BY <2>1, <2>11, <3>1, WithoutOne, WithoutConcat DEF Switch, ErrorOnly
  <2>12. ASSUME RunWorkflow
        PROVE  Without(published', ErrorOnly) \/ err' # 0
    <3>1. ThisAction.target \in Node
      BY <1>1, <2>0, <2>12, TopFacts, ThisActionFacts DEF RunWorkflow, RunsAction, EInv, Node
    <3> QED
      BY <2>1, <2>12, <3>1, WithoutOne, WithoutConcat DEF RunWorkflow, ErrorOnly
  <2>13. ASSUME ActionReturned
        PROVE  Without(published', ErrorOnly) \/ err' # 0
    <3>1. CASE err = 0
      <4>1. ActionOK(s) /\ s \in Seq(PublishedEvent) /\ Without(s, ErrorOnly)
        BY <2>2, <2>4, <2>13, <3>1 DEF ActionReturned
      <4> QED
        BY <1>6, <2>0, <4>1
    <3>2. CASE err # 0
      BY <2>13, <3>2 DEF ActionReturned, EndTask, Return
    <3> QED
      BY <3>1, <3>2
  <2>14. Without(published', ErrorOnly) \/ err' # 0
    BY <1>d, <2>5, <2>6, <2>7, <2>9, <2>10, <2>11, <2>12, <2>13 DEF ActionNext
  <2> QED
    BY <1>3, <2>0, <2>14
<1>e. ~Finished
  BY DEF Finished
<1> QED
  BY <1>a, <1>b, <1>c, <1>d, <1>e DEF Next, TasksNext, TaskNext, ActionNext

-----------------------------------------------------------------------------
(* The error of the runner *)

RInv ==
    /\ EInv /\ Bottom
    /\ Live \cap caught = {}
    /\ Without(published, ErrorOnly) \/ err # 0
    /\ control = "done" /\ err # 0 => ErrorLast(published) /\ runnerErr
    /\ runnerErr /\ ~failed => Live # {}

LEMMA CaughtStep ==
    ASSUME EInv, Live \cap caught = {}, [Next]_vars
    PROVE  /\ Live' \cap caught' = {}
           /\ Live' # {} \/ Live = {} \/ caught' # caught
<1>1. [Ledger!Next]_(Ledger!vars)
  BY EStep
<1>2. caught \subseteq 1 .. raised /\ raised \in Nat
  BY DEF EInv, IInv, TypeOK
<1>3. CASE UNCHANGED <<raised, Live, caught, masked>>
  BY <1>3
<1>4. CASE Ledger!Raise
  BY <1>2, <1>4 DEF Ledger!Raise
<1>5. ASSUME NEW e \in Live, Ledger!Catch(e)
      PROVE  /\ Live' \cap caught' = {}
             /\ Live' # {} \/ Live = {} \/ caught' # caught
  BY <1>5 DEF Ledger!Catch
<1>6. ASSUME NEW e \in Live, Ledger!Mask(e)
      PROVE  /\ Live' \cap caught' = {}
             /\ Live' # {} \/ Live = {} \/ caught' # caught
  BY <1>6 DEF Ledger!Mask
<1> QED
  BY <1>1, <1>3, <1>4, <1>5, <1>6 DEF Ledger!Next, Ledger!End, Ledger!Step, Ledger!vars

\* An error is caught by a catch task that fails the run, or the runner is told
\* to forget it.
LEMMA CatchTold ==
    ASSUME IInv, Next, caught' # caught
    PROVE  /\ ~(Top.node' \in Fail) => \E i \in DOMAIN published' : published'[i].type = "ResetError"
           /\ control \in {"run", "return"}
<1>1. CatchError
  BY DEF Next, Finished, vars, EnterWorkflow, LeaveWorkflow,
          PassTask, RunTask, TaskSucceeded, TaskFailed, RunScheduled, EndLoop,
          RunDeferred, EndTasks, SkipTask, FailTaskInit, EnterTask, SubTasksReturned, LeaveTask,
          PassAction, IdleAction, FailActionInit, CallService, ExitWorkflow, Goto, Switch, RunWorkflow,
          ActionReturned
<1>2. control \in {"run", "return"}
  BY <1>1 DEF CatchError, Returned
<1>3. /\ Top \in Frame /\ Top.proc \in Nat /\ CatchOf(Top) \in Task /\ CatchOf(Top) \in Node
      /\ stack \in Seq(Frame) /\ stack # <<>> /\ Len(stack) \in Nat
  BY <1>1, <1>2, TopFacts, TreeAssumption, LenProperties DEF CatchError, CatchOf, Frame, Node, IInv, TypeOK
<1> DEFINE f == [Top EXCEPT !.pc = "catch"]
           g == TaskFrame(Top.proc, CatchOf(Top))
           t == Append(Below, f)
<1>4. f \in Frame /\ g \in Frame /\ g.node = CatchOf(Top)
  BY <1>3, EmptySeq DEF TaskFrame, Frame, Node
<1>5. stack' = Append(t, g)
  BY <1>1 DEF CatchError, StartTask, Call
<1> HIDE DEF f, g
<1>6. t \in Seq(Frame) /\ Len(t) = Len(stack)
  BY <1>3, <1>4, ReplaceFacts DEF Below
<1> HIDE DEF t
<1>7. Len(stack') = Len(t) + 1 /\ stack'[Len(t) + 1] = g
  BY <1>4, <1>5, <1>6, AppendFacts
<1>8. Top.node' = CatchOf(Top)
  BY <1>4, <1>7 DEF Top
<1>9. ASSUME CatchOf(Top) \notin Fail
      PROVE  \E i \in DOMAIN published' : published'[i].type = "ResetError"
  <2>1. PICK a, b : a = Event("ResetError", CatchOf(Top)) /\ b = Event("TaskStart", CatchOf(Top))
    OBVIOUS
  <2>2. a \in PublishedEvent /\ b \in PublishedEvent /\ a.type = "ResetError"
    <3>1. a \in PublishedEvent /\ b \in PublishedEvent
      BY <1>3, <2>1, EventFacts
    <3>2. a.type = "ResetError"
      BY <2>1 DEF Event
    <3> QED
      BY <3>1, <3>2
  <2>3. published' = <<a>> \o <<b>>
    BY <1>1, <1>9, <2>1 DEF CatchError
  <2>4. /\ <<a>> \in Seq(PublishedEvent) /\ <<b>> \in Seq(PublishedEvent)
        /\ Len(<<a>>) = 1 /\ Len(<<b>>) = 1 /\ <<a>>[1] = a
    BY <2>2
  <2>5. /\ <<a>> \o <<b>> \in Seq(PublishedEvent)
        /\ Len(<<a>> \o <<b>>) = Len(<<a>>) + Len(<<b>>)
        /\ \A i \in 1 .. Len(<<a>>) + Len(<<b>>) :
              (<<a>> \o <<b>>)[i] = IF i <= Len(<<a>>) THEN <<a>>[i] ELSE <<b>>[i - Len(<<a>>)]
    BY <2>4, ConcatProperties
  <2>6. Len(<<a>> \o <<b>>) = 2 /\ (<<a>> \o <<b>>)[1] = a
    BY <2>4, <2>5
  <2>7. DOMAIN (<<a>> \o <<b>>) = 1 .. 2
    BY <2>5, <2>6, LenProperties
  <2>8. 1 \in DOMAIN published' /\ published'[1] = a
    BY <2>3, <2>6, <2>7
  <2> QED
    BY <2>2, <2>8
<1> QED
  BY <1>2, <1>8, <1>9

\* The runner after events without an error: what it was, or none.
LEMMA HeardFacts ==
    ASSUME NEW s \in Seq(PublishedEvent), runnerErr \in BOOLEAN
    PROVE  /\ ProcessErrorEvents(s) \in BOOLEAN
           /\ Without(s, ErrorOnly) /\ ProcessErrorEvents(s) =>
                 runnerErr /\ ~\E i \in DOMAIN s : s[i].type = "ResetError"
           /\ ErrorLast(s) => ProcessErrorEvents(s)
<1>1. ASSUME Without(s, ErrorOnly), ProcessErrorEvents(s)
      PROVE  runnerErr /\ ~\E i \in DOMAIN s : s[i].type = "ResetError"
  <2>1. \A i \in Reports(s) : s[i].type # "Error"
    BY <1>1 DEF Without, ErrorOnly, Reports
  <2>2. Reports(s) = {}
    BY <1>1, <2>1 DEF ProcessErrorEvents
  <2> QED
    BY <1>1, <2>2 DEF ProcessErrorEvents, Reports
<1>2. ASSUME ErrorLast(s)
      PROVE  ProcessErrorEvents(s)
  <2>1. Len(s) \in Nat /\ DOMAIN s = 1 .. Len(s) /\ Len(s) # 0
    BY <1>2, LenProperties, EmptySeq DEF ErrorLast
  <2>2. Len(s) \in DOMAIN s /\ s[Len(s)].type = "Error" /\ \A i \in DOMAIN s : i <= Len(s)
    BY <1>2, <2>1 DEF ErrorLast
  <2>3. Len(s) \in Reports(s) /\ \A j \in Reports(s) : j <= Len(s)
    BY <2>2 DEF Reports
  <2> QED
    BY <2>2, <2>3 DEF ProcessErrorEvents
<1> QED
  BY <1>1, <1>2 DEF ProcessErrorEvents

LEMMA RInit == ReportInit => RInv /\ runnerErr \in BOOLEAN
<1> SUFFICES ASSUME ReportInit PROVE RInv /\ runnerErr \in BOOLEAN
  OBVIOUS
<1>1. Init /\ runnerErr = FALSE
  BY DEF ReportInit
<1>2. EInv /\ Ledger!Init
  BY <1>1, EInit
<1>3. caught = {} /\ control = "run"
  BY <1>1 DEF Init
<1>4. Bottom
  BY <1>1 DEF Init, Bottom, WorkflowFrame
<1>5. Main \in Node /\ published = <<Event("WorkflowStart", Main)>>
  BY <1>1, TreeAssumption DEF Init, Node
<1>6. Without(published, ErrorOnly)
  BY <1>5, WithoutOne DEF ErrorOnly
<1> QED
  BY <1>1, <1>2, <1>3, <1>4, <1>6 DEF RInv

LEMMA RStep ==
    ASSUME RInv, runnerErr \in BOOLEAN, [ReportNext]_reportVars
    PROVE  RInv' /\ runnerErr' \in BOOLEAN
<1>1. CASE UNCHANGED reportVars
  <2>1. UNCHANGED <<stack, processes, control, err, published, raised, caught, masked, gotos, runnerErr, failed>>
    BY <1>1 DEF reportVars, vars
  <2>2. EInv' /\ Live' = Live /\ Bottom'
    BY <2>1, EStep DEF RInv, vars, Live, Bottom
  <2> QED
    BY <2>1, <2>2 DEF RInv
<1>2. CASE ReportNext
  <2>1. Next /\ runnerErr' = ProcessErrorEvents(published')
        /\ failed' = (failed \/ (caught' # caught /\ Top.node' \in Fail))
    BY <1>2 DEF ReportNext
  <2>2. EInv' /\ Live' \cap caught' = {} /\ (Live' # {} \/ Live = {} \/ caught' # caught)
    BY <2>1, EStep, CaughtStep DEF RInv
  <2>3. published' \in Seq(PublishedEvent) /\ DOMAIN stack' = 1 .. Len(stack')
    BY <2>2, LenProperties DEF EInv, IInv, TypeOK
  <2>4. PICK s : s = published'
    OBVIOUS
  <2>5. /\ runnerErr' \in BOOLEAN
        /\ Without(published', ErrorOnly) /\ runnerErr' =>
              runnerErr /\ ~\E i \in DOMAIN published' : published'[i].type = "ResetError"
        /\ ErrorLast(published') => runnerErr'
    BY <2>1, <2>3, <2>4, HeardFacts
  <2>6. err' # 0 => Live' # {}
    BY DEF Live
  <2>7. /\ Bottom'
        /\ Without(published', ErrorOnly) \/ err' # 0
        /\ control' = "done" /\ err' # 0 => ErrorLast(published')
    <3>1. CASE control \in {"run", "return"}
      BY <2>1, <3>1, BottomStep, ToldStep DEF RInv, EInv
    <3>2. CASE control = "done"
      <4>1. Finished
        BY <2>1, <3>2 DEF Next, EnterWorkflow, LeaveWorkflow,
          PassTask, RunTask, TaskSucceeded, CatchError, TaskFailed, RunScheduled, EndLoop,
          RunDeferred, EndTasks, SkipTask, FailTaskInit, EnterTask, SubTasksReturned, LeaveTask,
          PassAction, IdleAction, FailActionInit, CallService, ExitWorkflow, Goto, Switch, RunWorkflow,
          ActionReturned, RunsAction, AtAction, Running, Returned
      <4>2. UNCHANGED <<stack, control, err, published>>
        BY <4>1 DEF Finished, vars
      <4> QED
        BY <4>2 DEF RInv, Bottom
    <3> QED
      BY <3>1, <3>2 DEF RInv, EInv, IInv, TypeOK
  <2>8. ASSUME runnerErr', ~failed'
        PROVE  Live' # {}
    <3>1. CASE err' # 0
      BY <2>6, <3>1
    <3>2. CASE Without(published', ErrorOnly)
      <4>1. runnerErr /\ ~failed /\ ~\E i \in DOMAIN published' : published'[i].type = "ResetError"
        BY <2>1, <2>5, <2>8, <3>2
      <4>2. Live # {}
        BY <4>1 DEF RInv
      <4>3. caught' = caught
        <5>1. SUFFICES ASSUME caught' # caught PROVE FALSE
          OBVIOUS
        <5>2. Top.node' \in Fail
          BY <2>1, <4>1, <5>1, CatchTold DEF RInv, EInv
        <5> QED
          BY <2>1, <2>8, <5>1, <5>2
      <4> QED
        BY <2>2, <4>2, <4>3
    <3> QED
      BY <2>7, <3>1, <3>2
  <2> QED
    BY <2>2, <2>5, <2>7, <2>8 DEF RInv
<1> QED
  BY <1>1, <1>2

\* The runner exits with code 1 whenever the workflow returns an error, and with 0
\* when it returns none, unless a catch task with the Fail flag was run: Error
\* and ResetError reach the listener in an order that leaves the right one last.
THEOREM ExitCodeRight == ReportSpec => []ExitCodeTells
<1>1. ReportInit => RInv /\ runnerErr \in BOOLEAN
  BY RInit
<1>2. RInv /\ runnerErr \in BOOLEAN /\ [ReportNext]_reportVars => RInv' /\ (runnerErr \in BOOLEAN)'
  BY RStep
<1>3. RInv => ExitCodeTells
  <2> SUFFICES ASSUME RInv, control = "done"
               PROVE  (err # 0 => runnerErr) /\ (err = 0 /\ ~failed => ~runnerErr)
    BY Zenon DEF ExitCodeTells
  <2>1. stack = <<>>
    BY DEF RInv, EInv, IInv, StackInv
  <2>2. DOMAIN stack = {}
    BY <2>1
  <2>3. err = 0 => Live = {}
    BY <2>2 DEF Live
  <2> QED
    BY <2>3 DEF RInv
<1> QED
  BY <1>1, <1>2, <1>3, PTL DEF ReportSpec

=============================================================================
