------------------------ MODULE WorkflowStacks_proofs ------------------------
(***************************************************************************)
(* Proofs about the stacks that goroutines of a run share: RunStack, for   *)
(* any number of branches and of workflows one inside the other, and       *)
(* EventLogger, for any events and any number of replays.                  *)
(***************************************************************************)
EXTENDS RunStack, EventLogger, FiniteSetTheorems, SequenceTheorems, TLAPS

-----------------------------------------------------------------------------
(* RunStack. The argument: the stack has the process of the task and one   *)
(* process for each workflow that some goroutine is inside of, whoever     *)
(* popped whose, so that a goroutine inside a workflow never finds the     *)
(* process of the task on top.                                             *)

\* A workflow that a goroutine is inside of, by its depth there.
Inside == {x \in Goroutine \X (1 .. MaxNested) : x[2] <= Len(nested[x[1]])}

StackShape ==
    /\ \A g \in Goroutine : Len(nested[g]) <= MaxNested
    /\ Len(processes) = 1 + Cardinality(Inside)
    /\ \A i \in 1 .. Len(processes) : processes[i] = Base <=> i = 1

StackIInv == StackTypeOK /\ StackShape /\ BaseSpared

LEMMA InsideFinite == IsFiniteSet(Inside) /\ Cardinality(Inside) \in Nat
<1>1. MaxNested \in Int /\ IsFiniteSet(Branch)
  BY StackAssumption
<1>2. IsFiniteSet(1 .. MaxNested)
  BY <1>1, FS_Interval
<1>3. IsFiniteSet(Goroutine)
  BY <1>1, FS_AddElement DEF Goroutine
<1>4. IsFiniteSet(Goroutine \X (1 .. MaxNested))
  BY <1>2, <1>3, FS_Product
<1>5. IsFiniteSet(Inside)
  BY <1>4, FS_Subset DEF Inside
<1> QED
  BY <1>5, FS_CardinalityType

\* A goroutine that enters a workflow, or leaves one, changes what is inside by one.
LEMMA InsideGrows ==
    ASSUME StackTypeOK, StackShape, NEW g \in Goroutine, NEW p,
           Len(nested[g]) < MaxNested, nested' = [nested EXCEPT ![g] = Append(@, p)]
    PROVE  Cardinality(Inside') = Cardinality(Inside) + 1
<1> DEFINE x == <<g, Len(nested[g]) + 1>>
<1>1. nested \in [Goroutine -> Seq(ProcessId)] /\ MaxNested \in Nat
  BY StackAssumption DEF StackTypeOK
<1>2. nested[g] \in Seq(ProcessId) /\ Len(nested[g]) \in Nat
  BY <1>1
<1>3. \A h \in Goroutine : Len(nested[h]) \in Nat
  BY <1>1
<1>4. \A h \in Goroutine :
        Len(nested'[h]) = IF h = g THEN Len(nested[g]) + 1 ELSE Len(nested[h])
  BY <1>1, <1>2
<1>5. x \in Goroutine \X (1 .. MaxNested)
  BY <1>1, <1>2
<1>6. x \notin Inside
  BY <1>2 DEF Inside
<1>7. Inside' = Inside \cup {x}
  <2>1. ASSUME NEW y \in Goroutine \X (1 .. MaxNested)
        PROVE  y[2] <= Len(nested'[y[1]]) <=> (y[2] <= Len(nested[y[1]]) \/ y = x)
    <3>1. y = <<y[1], y[2]>> /\ y[1] \in Goroutine /\ y[2] \in 1 .. MaxNested
      OBVIOUS
    <3>2. Len(nested[y[1]]) \in Nat /\ y[2] \in Nat
      BY <1>3, <3>1
    <3>3. CASE y[1] = g
      <4>1. y = x <=> y[2] = Len(nested[g]) + 1
        BY <3>1, <3>3
      <4> QED
        BY <4>1, <3>1, <3>2, <3>3, <1>4
    <3>4. CASE y[1] # g
      BY <3>1, <3>4, <1>4
    <3> QED
      BY <3>3, <3>4
  <2> QED
    BY <2>1, <1>5 DEF Inside
<1> QED
  BY <1>6, <1>7, InsideFinite, FS_AddElement

LEMMA InsideShrinks ==
    ASSUME StackTypeOK, StackShape, NEW g \in Goroutine,
           nested[g] # <<>>, nested' = [nested EXCEPT ![g] = WithoutTop(@)]
    PROVE  Cardinality(Inside') = Cardinality(Inside) - 1
<1> DEFINE x == <<g, Len(nested[g])>>
<1>1. nested \in [Goroutine -> Seq(ProcessId)] /\ MaxNested \in Nat
  BY StackAssumption DEF StackTypeOK
<1>2. nested[g] \in Seq(ProcessId) /\ Len(nested[g]) \in Nat \ {0}
  BY <1>1
<1>3. \A h \in Goroutine : Len(nested[h]) \in Nat
  BY <1>1
<1>4. Len(SubSeq(nested[g], 1, Len(nested[g]) - 1)) = Len(nested[g]) - 1
  BY <1>2
<1>5. \A h \in Goroutine :
        Len(nested'[h]) = IF h = g THEN Len(nested[g]) - 1 ELSE Len(nested[h])
  BY <1>1, <1>4 DEF WithoutTop
<1>6. x \in Inside
  <2>1. Len(nested[g]) \in 1 .. MaxNested
    BY <1>1, <1>2 DEF StackShape
  <2> QED
    BY <2>1, <1>2 DEF Inside
<1>7. Inside' = Inside \ {x}
  <2>1. ASSUME NEW y \in Goroutine \X (1 .. MaxNested)
        PROVE  y[2] <= Len(nested'[y[1]]) <=> (y[2] <= Len(nested[y[1]]) /\ y # x)
    <3>1. y = <<y[1], y[2]>> /\ y[1] \in Goroutine /\ y[2] \in 1 .. MaxNested
      OBVIOUS
    <3>2. Len(nested[y[1]]) \in Nat /\ y[2] \in Nat
      BY <1>3, <3>1
    <3>3. CASE y[1] = g
      <4>1. y = x <=> y[2] = Len(nested[g])
        BY <3>1, <3>3
      <4> QED
        BY <4>1, <3>1, <3>2, <3>3, <1>2, <1>5
    <3>4. CASE y[1] # g
      BY <3>1, <3>4, <1>5
    <3> QED
      BY <3>3, <3>4
  <2> QED
    BY <2>1 DEF Inside
<1> QED
  BY <1>6, <1>7, InsideFinite, FS_RemoveElement

\* Inside a workflow, the stack has more than the process of the task.
LEMMA InsideIsAbove ==
    ASSUME StackTypeOK, StackShape, NEW g \in Goroutine, nested[g] # <<>>
    PROVE  Len(processes) >= 2
<1>1. nested[g] \in Seq(ProcessId) /\ Len(nested[g]) \in Nat \ {0} /\ MaxNested \in Nat
  BY StackAssumption DEF StackTypeOK
<1>2. 1 \in 1 .. MaxNested
  BY <1>1 DEF StackShape
<1>3. <<g, 1>> \in Inside
  BY <1>1, <1>2 DEF Inside
<1>4. Cardinality(Inside) # 0
  BY <1>3, InsideFinite, FS_EmptySet
<1> QED
  BY <1>4, InsideFinite DEF StackShape

LEMMA StackInitIInv == StackInit => StackIInv
<1> SUFFICES ASSUME StackInit PROVE StackIInv
  OBVIOUS
<1>1. Base \in ProcessId /\ MaxRuns \in Nat /\ MaxNested \in Nat
  BY StackAssumption DEF Base, ProcessId, Goroutine, Task
<1>2. StackTypeOK
  <2>1. processes \in Seq(ProcessId)
    BY <1>1 DEF StackInit
  <2>2. nested \in [Goroutine -> Seq(ProcessId)]
    <3>1. <<>> \in Seq(ProcessId)
      OBVIOUS
    <3> QED
      BY <3>1 DEF StackInit
  <2>3. 0 \in 0 .. MaxRuns
    BY <1>1
  <2>4. runs \in [Goroutine -> 0 .. MaxRuns]
    BY <2>3 DEF StackInit
  <2>5. running \subseteq Goroutine /\ stopped \subseteq ProcessId /\ baseHit \in BOOLEAN
    BY DEF StackInit
  <2> QED
    BY <2>1, <2>2, <2>4, <2>5 DEF StackTypeOK
<1>3. \A g \in Goroutine : Len(nested[g]) = 0
  BY DEF StackInit
<1>4. Inside = {}
  BY <1>3 DEF Inside
<1>5. Cardinality(Inside) = 0
  BY <1>4, FS_EmptySet
<1>6. Len(processes) = 1 /\ processes[1] = Base
  BY DEF StackInit
<1>7. StackShape
  BY <1>1, <1>3, <1>5, <1>6 DEF StackShape
<1> QED
  BY <1>2, <1>7 DEF StackIInv, BaseSpared, StackInit

\* A step that leaves the stack and the nesting alone.
LEMMA ShapeStays ==
    ASSUME StackShape, UNCHANGED <<processes, nested>> PROVE StackShape'
BY DEF StackShape, Inside

LEMMA PushKeeps ==
    ASSUME StackIInv, NEW g \in Goroutine, PushProcess(g) PROVE StackIInv'
<1> DEFINE p == [of |-> g, run |-> runs[g] + 1]
<1>1. /\ processes \in Seq(ProcessId) /\ nested \in [Goroutine -> Seq(ProcessId)]
      /\ runs \in [Goroutine -> 0 .. MaxRuns] /\ MaxRuns \in Nat /\ MaxNested \in Nat
  BY StackAssumption DEF StackIInv, StackTypeOK
<1>2. /\ runs[g] < MaxRuns /\ Len(nested[g]) < MaxNested
      /\ processes' = Append(processes, p) /\ nested' = [nested EXCEPT ![g] = Append(@, p)]
      /\ runs' = [runs EXCEPT ![g] = @ + 1] /\ UNCHANGED <<running, stopped, baseHit>>
  BY DEF PushProcess
<1>3. p \in ProcessId /\ p # Base /\ runs[g] + 1 \in 0 .. MaxRuns
  <2>1. runs[g] \in Nat /\ runs[g] + 1 \in 0 .. MaxRuns
    BY <1>1, <1>2
  <2>2. p.run # 0 /\ Base.run = 0
    BY <2>1 DEF Base
  <2> QED
    BY <2>1, <2>2 DEF ProcessId
<1>4. nested[g] \in Seq(ProcessId) /\ Append(nested[g], p) \in Seq(ProcessId)
  BY <1>1, <1>3
<1>5. StackTypeOK'
  <2>1. processes' \in Seq(ProcessId)
    BY <1>1, <1>2, <1>3
  <2>2. nested' \in [Goroutine -> Seq(ProcessId)]
    BY <1>1, <1>2, <1>4
  <2>3. runs' \in [Goroutine -> 0 .. MaxRuns]
    BY <1>1, <1>2, <1>3
  <2> QED
    BY <1>2, <2>1, <2>2, <2>3 DEF StackIInv, StackTypeOK
<1>6. Cardinality(Inside') = Cardinality(Inside) + 1
  BY <1>2, InsideGrows DEF StackIInv
<1>7. \A h \in Goroutine : Len(nested'[h]) <= MaxNested
  <2>1. Len(Append(nested[g], p)) = Len(nested[g]) + 1 /\ Len(nested[g]) \in Nat
    BY <1>4
  <2>2. Len(nested[g]) + 1 <= MaxNested
    BY <1>1, <1>2, <2>1
  <2> QED
    BY <1>1, <1>2, <2>1, <2>2 DEF StackIInv, StackShape
<1>8. \A i \in 1 .. Len(processes') : processes'[i] = Base <=> i = 1
  <2>1. Len(processes') = Len(processes) + 1 /\ Len(processes) \in Nat \ {0}
    BY <1>1, <1>2, InsideFinite DEF StackIInv, StackShape
  <2>2. processes'[Len(processes) + 1] = p
    BY <1>1, <1>2
  <2>3. \A i \in 1 .. Len(processes) : processes'[i] = processes[i]
    BY <1>1, <1>2
  <2> QED
    BY <1>3, <2>1, <2>2, <2>3 DEF StackIInv, StackShape
<1>9. Len(processes') = 1 + Cardinality(Inside')
  BY <1>1, <1>2, <1>6, InsideFinite DEF StackIInv, StackShape
<1> QED
  BY <1>2, <1>5, <1>7, <1>8, <1>9 DEF StackIInv, StackShape, BaseSpared

LEMMA PopKeeps ==
    ASSUME StackIInv, NEW g \in Goroutine, PopProcess(g) PROVE StackIInv'
<1>1. /\ processes \in Seq(ProcessId) /\ nested \in [Goroutine -> Seq(ProcessId)]
      /\ MaxNested \in Nat
  BY StackAssumption DEF StackIInv, StackTypeOK
<1>2. /\ nested[g] # <<>> /\ processes' = WithoutTop(processes)
      /\ nested' = [nested EXCEPT ![g] = WithoutTop(@)]
      /\ UNCHANGED <<running, runs, stopped, baseHit>>
  BY DEF PopProcess
<1>3. Len(processes) >= 2 /\ Len(processes) \in Nat
  BY <1>1, <1>2, InsideIsAbove DEF StackIInv
<1>4. nested[g] \in Seq(ProcessId) /\ Len(nested[g]) \in Nat \ {0}
  BY <1>1, <1>2
<1>5. /\ WithoutTop(nested[g]) \in Seq(ProcessId)
      /\ Len(WithoutTop(nested[g])) = Len(nested[g]) - 1
  BY <1>4 DEF WithoutTop
<1>6. /\ processes' \in Seq(ProcessId) /\ Len(processes') = Len(processes) - 1
      /\ \A i \in 1 .. Len(processes') : processes'[i] = processes[i]
  BY <1>1, <1>2, <1>3 DEF WithoutTop
<1>7. StackTypeOK'
  <2>1. nested' \in [Goroutine -> Seq(ProcessId)]
    BY <1>1, <1>2, <1>5
  <2> QED
    BY <1>2, <1>6, <2>1 DEF StackIInv, StackTypeOK
<1>8. Cardinality(Inside') = Cardinality(Inside) - 1
  BY <1>2, InsideShrinks DEF StackIInv
<1>9. \A h \in Goroutine : Len(nested'[h]) <= MaxNested
  <2>1. \A h \in Goroutine : Len(nested[h]) <= MaxNested
    BY DEF StackIInv, StackShape
  <2>2. Len(nested[g]) - 1 <= MaxNested
    BY <1>1, <1>4, <2>1
  <2> QED
    BY <1>1, <1>2, <1>5, <2>1, <2>2
<1>10. StackShape'
  <2>1. Len(processes') = 1 + Cardinality(Inside')
    BY <1>3, <1>6, <1>8, InsideFinite DEF StackIInv, StackShape
  <2>2. \A i \in 1 .. Len(processes') : processes'[i] = Base <=> i = 1
    BY <1>3, <1>6 DEF StackIInv, StackShape
  <2> QED
    BY <1>9, <2>1, <2>2 DEF StackShape
<1> QED
  BY <1>2, <1>7, <1>10 DEF StackIInv, BaseSpared

LEMMA StopKeeps ==
    ASSUME StackIInv, NEW g \in Goroutine, StopLast(g) PROVE StackIInv'
<1>1. /\ stopped' = stopped \cup {Top(processes)}
      /\ baseHit' = (baseHit \/ (Own(g) # Base /\ Top(processes) = Base))
      /\ UNCHANGED <<processes, running, nested, runs>>
  BY DEF StopLast
<1>2. processes \in Seq(ProcessId) /\ Len(processes) \in Nat \ {0}
  BY InsideFinite DEF StackIInv, StackTypeOK, StackShape
<1>3. Top(processes) \in ProcessId
  BY <1>2 DEF Top
<1>4. Own(g) # Base => Top(processes) # Base
  <2> SUFFICES ASSUME Own(g) # Base PROVE Top(processes) # Base
    OBVIOUS
  <2>1. nested[g] # <<>>
    BY DEF Own
  <2>2. Len(processes) >= 2
    BY <2>1, InsideIsAbove DEF StackIInv
  <2> QED
    BY <1>2, <2>2 DEF StackIInv, StackShape, Top
<1>5. ~baseHit'
  BY <1>1, <1>4 DEF StackIInv, BaseSpared
<1>6. StackTypeOK'
  BY <1>1, <1>3, <1>5 DEF StackIInv, StackTypeOK
<1>7. StackShape'
  BY <1>1, ShapeStays DEF StackIInv
<1> QED
  BY <1>5, <1>6, <1>7 DEF StackIInv, BaseSpared

LEMMA StackNextIInv == StackIInv /\ [StackNext]_stackVars => StackIInv'
<1> SUFFICES ASSUME StackIInv, [StackNext]_stackVars PROVE StackIInv'
  OBVIOUS
<1>1. ASSUME NEW g \in Goroutine, PushProcess(g) PROVE StackIInv'
  BY <1>1, PushKeeps
<1>2. ASSUME NEW g \in Goroutine, PopProcess(g) PROVE StackIInv'
  BY <1>2, PopKeeps
<1>3. ASSUME NEW g \in Goroutine, StopLast(g) PROVE StackIInv'
  BY <1>3, StopKeeps
<1>4. ASSUME NEW g \in Goroutine, EndGoroutine(g) PROVE StackIInv'
  BY <1>4, ShapeStays DEF EndGoroutine, StackIInv, StackTypeOK, BaseSpared
<1>5. CASE UNCHANGED stackVars
  BY <1>5, ShapeStays DEF stackVars, StackIInv, StackTypeOK, BaseSpared
<1> QED
  BY <1>1, <1>2, <1>3, <1>4, <1>5 DEF StackNext

\* The stack keeps the process of the task at its bottom, under one process for
\* each workflow that is running (Push, Pop).
THEOREM StackInductive == StackSpec => []StackIInv
BY StackInitIInv, StackNextIInv, PTL DEF StackSpec

\* exit and goto in a workflow that an asynchronous action runs never act on the
\* process of the task that started the action (exitWorkflow, runGoto).
THEOREM BaseIsSpared == StackSpec => []BaseSpared
<1>1. StackIInv => BaseSpared
  BY DEF StackIInv
<1> QED
  BY <1>1, StackInductive, PTL

-----------------------------------------------------------------------------
(* EventLogger. The argument for the files: a directory that has used      *)
(* fewer numbers than there are has files with other names only. That for  *)
(* the labels: outside of a replay the lists of the logger are the open    *)
(* calls of the goroutine of the task, of which a replay takes off as many *)
(* as it puts on.                                                          *)

LEMMA SmallMod == ASSUME NEW n \in Nat \ {0}, NEW k \in Nat, k < n PROVE k % n = k
  OBVIOUS
LEMMA WholeMod == ASSUME NEW n \in Nat \ {0} PROVE n % n = 0
  OBVIOUS

LEMMA NumbersDiffer ==
    ASSUME NEW n \in Nat \ {0}, NEW k \in Nat, NEW m \in Nat, 0 < k, k < m, m <= n
    PROVE  k % n # m % n
<1>1. k % n = k
  BY SmallMod
<1>2. m % n = m \/ m % n = 0
  BY SmallMod, WholeMod
<1> QED
  BY <1>1, <1>2

\* Files.
CountsTyped == counts = [d \in DOMAIN counts |-> counts[d]] /\ \A d \in DOMAIN counts : counts[d] \in Nat
FilesNumbered ==
    \A f \in files : 
       /\ f.directory \in DOMAIN counts
       /\ \E k \in 1 .. counts[f.directory] : f.number = k % FileLimit
RewrittenLate == rewritten => \E d \in DOMAIN counts : counts[d] > FileLimit

FilesIInv == CountsTyped /\ FilesNumbered /\ RewrittenLate /\ rewritten \in BOOLEAN

LEMMA InitFiles == LoggerInit => FilesIInv
<1> SUFFICES ASSUME LoggerInit PROVE FilesIInv
  OBVIOUS
<1>1. DOMAIN counts = {} /\ counts = [d \in {} |-> counts[d]]
  BY EmptySeq DEF LoggerInit
<1> QED
  BY <1>1 DEF LoggerInit, FilesIInv, CountsTyped, FilesNumbered, RewrittenLate

LEMMA WriteFiles ==
    ASSUME FilesIInv, NEW type, NEW l, WriteFile(type, l) PROVE FilesIInv'
<1> DEFINE dir == DirectoryOf(GroupOf(l))
           next == IF dir \in DOMAIN counts THEN counts[dir] + 1 ELSE 1
           file == [directory |-> dir, number |-> next % FileLimit, leaf |-> Leaf(type, l)]
<1>1. /\ counts' = [d \in DOMAIN counts \cup {dir} |-> IF d # dir THEN counts[d] ELSE next]
      /\ files' = files \cup {file}
      /\ rewritten' = (rewritten \/ file \in files)
  BY DEF WriteFile, NextFile
<1>2. next \in Nat /\ next > 0 /\ (dir \in DOMAIN counts => next > counts[dir])
  BY DEF FilesIInv, CountsTyped
<1>3. file.directory = dir /\ file.number = next % FileLimit
  OBVIOUS
<1> HIDE DEF dir, next, file
<1>4. CountsTyped'
  BY <1>1, <1>2 DEF FilesIInv, CountsTyped
<1>5. \A d \in DOMAIN counts : d \in DOMAIN counts' /\ counts'[d] >= counts[d]
  BY <1>1, <1>2 DEF FilesIInv, CountsTyped
<1>6. dir \in DOMAIN counts' /\ counts'[dir] = next
  BY <1>1
<1>7. FilesNumbered'
  <2>1. ASSUME NEW f \in files'
        PROVE  /\ f.directory \in DOMAIN counts'
               /\ \E k \in 1 .. counts'[f.directory] : f.number = k % FileLimit
    <3>1. CASE f \in files
      <4>1. PICK k \in 1 .. counts[f.directory] : f.number = k % FileLimit
        BY <3>1 DEF FilesIInv, FilesNumbered
      <4>2. f.directory \in DOMAIN counts
        BY <3>1 DEF FilesIInv, FilesNumbered
      <4>3. k \in 1 .. counts'[f.directory]
        BY <1>4, <1>5, <4>2 DEF FilesIInv, CountsTyped
      <4> QED
        BY <1>5, <4>1, <4>2, <4>3
    <3>2. CASE f = file
      <4>1. next \in 1 .. counts'[dir]
        BY <1>2, <1>6
      <4> QED
        BY <1>3, <1>6, <3>2, <4>1
    <3> QED
      BY <1>1, <2>1, <3>1, <3>2
  <2> QED
    BY <2>1 DEF FilesNumbered
<1>8. RewrittenLate'
  <2> SUFFICES ASSUME rewritten' PROVE \E d \in DOMAIN counts' : counts'[d] > FileLimit
    BY DEF RewrittenLate
  <2>1. FileLimit \in Nat \ {0}
    BY LoggerAssumption
  <2>2. CASE rewritten
    <3>1. PICK d \in DOMAIN counts : counts[d] > FileLimit
      BY <2>2 DEF FilesIInv, RewrittenLate
    <3>2. counts'[d] > FileLimit
      BY <1>4, <1>5, <2>1, <3>1 DEF FilesIInv, CountsTyped
    <3> QED
      BY <1>5, <3>2
  <2>3. CASE file \in files
    <3>1. PICK k \in 1 .. counts[dir] : next % FileLimit = k % FileLimit
      BY <1>3, <2>3 DEF FilesIInv, FilesNumbered
    <3>2. dir \in DOMAIN counts
      BY <1>3, <2>3 DEF FilesIInv, FilesNumbered
    <3>3. k \in Nat /\ 0 < k /\ k < next
      BY <1>2, <3>2 DEF FilesIInv, CountsTyped
    <3>4. next > FileLimit
      <4>1. CASE next <= FileLimit
        <5>1. k % FileLimit # next % FileLimit
          BY <1>2, <2>1, <3>3, <4>1, NumbersDiffer
        <5> QED
          BY <3>1, <5>1
      <4> QED
        BY <1>2, <2>1, <4>1
    <3> QED
      BY <1>6, <3>4
  <2> QED
    BY <1>1, <2>2, <2>3
<1> QED
  BY <1>1, <1>4, <1>7, <1>8 DEF FilesIInv

LEMMA NextFiles == FilesIInv /\ [LoggerNext]_loggerVars => FilesIInv'
<1> SUFFICES ASSUME FilesIInv, [LoggerNext]_loggerVars PROVE FilesIInv'
  OBVIOUS
<1> DEFINE Same == UNCHANGED <<counts, files, rewritten>>
<1>1. CASE Same
  BY <1>1 DEF FilesIInv, CountsTyped, FilesNumbered, RewrittenLate
<1>2. CASE \E type, l : WriteFile(type, l)
  BY <1>2, WriteFiles
<1>3. \A type, l : OnEvent(type, l) => Same \/ WriteFile(type, l)
  BY DEF OnEvent
<1>4. ASSUME NEW p \in Publisher, StartEvent(p) \/ EndEvent(p) \/ OtherEvent(p) 
      PROVE Same \/ \E type, l : WriteFile(type, l)
  BY <1>3, <1>4 DEF StartEvent, EndEvent, OtherEvent
<1>5. ASSUME NEW r \in Replay, StartReplay(r) \/ EndReplay(r) PROVE Same
  BY <1>5 DEF StartReplay, EndReplay
<1>6. JoinReplays \/ UNCHANGED loggerVars => Same
  BY DEF JoinReplays, loggerVars
<1> QED
  BY <1>1, <1>2, <1>4, <1>5, <1>6 DEF LoggerNext

\* No file of the log is written over another while no directory has more files
\* than numbers of four digits, whatever directories share theirs (nextFileSeq,
\* sprintf4).
THEOREM FilesKeptHolds == LoggerSpec => []FilesKept
<1>1. FilesIInv => FilesKept
  <2> SUFFICES ASSUME FilesIInv, rewritten PROVE \E d \in DOMAIN counts : ~(counts[d] <= FileLimit)
    BY DEF FilesKept
  <2>1. PICK d \in DOMAIN counts : counts[d] > FileLimit
    BY DEF FilesIInv, RewrittenLate
  <2>2. counts[d] \in Nat /\ FileLimit \in Nat
    BY LoggerAssumption DEF FilesIInv, CountsTyped
  <2> QED
    BY <2>1, <2>2
<1> QED
  BY <1>1, InitFiles, NextFiles, PTL DEF LoggerSpec

\* The stacks.
LoggerStacks ==
    [workflows : Seq(Label), tasks : Seq(Label), activities : Seq(Label), ended : BOOLEAN]

LoggerTyped ==
    /\ open \in [Publisher -> Seq(Bracket)]
    /\ replays \in [state : [Replay -> {"new", "on", "over"}], floor : Nat]
    /\ logger \in LoggerStacks

\* What replays have open of a kind.
Others(kind) ==
    {o \in Replay \X Nat : o[2] \in DOMAIN open[o[1]] /\ open[o[1]][o[2]].kind = kind}

Rank(i, kind) == Cardinality({j \in Positions(kind) : j <= i})

\* A stack has as many names as are open; those below the replays are in place.
Filed(stack, kind) ==
    /\ IsFiniteSet(Positions(kind)) /\ IsFiniteSet(Others(kind))
    /\ Len(stack) = Cardinality(Positions(kind)) + Cardinality(Others(kind))
    /\ \A i \in Positions(kind) :
          (mixed => i <= replays.floor) => stack[Rank(i, kind)] = open[Main][i].label

ReplaysOpen ==
    /\ \A r \in Replay : open[r] # <<>> => replays.state[r] = "on"
    /\ \A r \in Replay : replays.state[r] = "on" => mixed
    /\ mixed => replays.floor <= Len(open[Main])

StacksIInv ==
    /\ LoggerTyped /\ ReplaysOpen
    /\ Filed(logger.workflows, "workflow") /\ Filed(logger.tasks, "task")

LEMMA OpenTyped ==
    ASSUME LoggerTyped, NEW p \in Publisher
    PROVE  /\ open[p] \in Seq(Bracket) /\ Len(open[p]) \in Nat
           /\ DOMAIN open[p] = 1 .. Len(open[p])
           /\ \A i \in DOMAIN open[p] : open[p][i] \in Bracket
<1>1. open[p] \in Seq(Bracket)
  BY DEF LoggerTyped
<1> QED
  BY <1>1, LenProperties, ElementOfSeq

LEMMA Publishers == /\ Main \in Publisher /\ Replay \subseteq Publisher /\ Main \notin Replay
                    /\ \A p \in Publisher : p # Main => p \in Replay
  BY LoggerAssumption DEF Main, Publisher

LEMMA InitStacks == LoggerInit => StacksIInv
<1> SUFFICES ASSUME LoggerInit PROVE StacksIInv
  OBVIOUS
<1>1. LoggerTyped
  <2>1. /\ open = [p \in Publisher |-> <<>>]
        /\ replays = [state |-> [r \in Replay |-> "new"], floor |-> 0]
        /\ logger = [workflows |-> <<>>, tasks |-> <<>>, activities |-> <<>>, ended |-> FALSE]
    BY DEF LoggerInit
  <2>2. <<>> \in Seq(Bracket) /\ <<>> \in Seq(Label)
    BY EmptySeq
  <2> QED
    BY <2>1, <2>2 DEF LoggerTyped, LoggerStacks
<1>2. /\ \A p \in Publisher : open[p] = <<>>
      /\ \A r \in Replay : replays.state[r] = "new"
      /\ mixed = FALSE /\ logger.workflows = <<>> /\ logger.tasks = <<>>
  BY DEF LoggerInit
<1>3. ReplaysOpen
  BY <1>2, Publishers DEF ReplaysOpen
<1>4. \A kind : Positions(kind) = {} /\ Others(kind) = {}
  BY <1>2, Publishers, EmptySeq DEF Positions, Others
<1>5. Len(<<>>) = 0
  OBVIOUS
<1>6. Filed(logger.workflows, "workflow") /\ Filed(logger.tasks, "task")
  <2>1. \A kind : Filed(<<>>, kind)
    <3> SUFFICES ASSUME NEW kind PROVE Filed(<<>>, kind)
      OBVIOUS
    <3>1. Positions(kind) = {} /\ Others(kind) = {}
      BY <1>4
    <3>2. IsFiniteSet({}) /\ Cardinality({}) = 0
      BY FS_EmptySet
    <3> QED
      BY <1>5, <3>1, <3>2 DEF Filed
  <2> QED
    BY <1>2, <2>1
<1> QED
  BY <1>1, <1>3, <1>6 DEF StacksIInv

\* What a start and an end make of a stack that lists the kind of the bracket.
LEMMA Pushes ==
    ASSUME StacksIInv, NEW p \in Publisher, NEW b \in Bracket, NEW stack \in Seq(Label),
           Filed(stack, b.kind), p = Main \/ mixed,
           open' = [open EXCEPT ![p] = Append(@, b)], UNCHANGED <<mixed, replays>>
    PROVE  Filed(Append(stack, b.label), b.kind)'
<1> DEFINE n == Len(open[p]) + 1
           kind == b.kind
<1>1. /\ open[p] \in Seq(Bracket) /\ Len(open[p]) \in Nat
      /\ DOMAIN open[p] = 1 .. Len(open[p])
  BY OpenTyped DEF StacksIInv
<1>2. /\ DOMAIN open'[p] = DOMAIN open[p] \cup {n} /\ n \notin DOMAIN open[p]
      /\ \A i \in DOMAIN open[p] : open'[p][i] = open[p][i]
      /\ open'[p][n] = b
      /\ \A q \in Publisher \ {p} : open'[q] = open[q]
  <2>1. open'[p] = Append(open[p], b) /\ \A q \in Publisher \ {p} : open'[q] = open[q]
    BY DEF StacksIInv, LoggerTyped
  <2>2. /\ Len(Append(open[p], b)) = n /\ Append(open[p], b) \in Seq(Bracket)
        /\ \A i \in 1 .. Len(open[p]) : Append(open[p], b)[i] = open[p][i]
        /\ Append(open[p], b)[n] = b
    BY <1>1, AppendProperties
  <2>3. DOMAIN Append(open[p], b) = 1 .. n
    BY <2>2, LenProperties
  <2> QED
    BY <1>1, <2>1, <2>2, <2>3
<1>3. /\ Len(stack) \in Nat /\ Len(Append(stack, b.label)) = Len(stack) + 1
      /\ \A i \in 1 .. Len(stack) : Append(stack, b.label)[i] = stack[i]
      /\ Append(stack, b.label)[Len(stack) + 1] = b.label
  BY AppendProperties, LenProperties DEF Bracket
<1>4. /\ IsFiniteSet(Positions(kind)) /\ IsFiniteSet(Others(kind))
      /\ Cardinality(Positions(kind)) \in Nat /\ Cardinality(Others(kind)) \in Nat
      /\ Len(stack) = Cardinality(Positions(kind)) + Cardinality(Others(kind))
  BY FS_CardinalityType DEF Filed
<1> HIDE DEF n, kind
<1>5. ASSUME NEW i \in Positions(kind)
      PROVE  /\ {j \in Positions(kind) : j <= i} \in SUBSET Positions(kind)
             /\ Rank(i, kind) \in 1 .. Len(stack)
  <2> DEFINE below == {j \in Positions(kind) : j <= i}
  <2>1. i \in Nat
    BY Publishers, OpenTyped DEF Positions, StacksIInv
  <2>2. below \in SUBSET Positions(kind) /\ below # {}
    BY <2>1
  <2>3. IsFiniteSet(below) /\ Cardinality(below) <= Cardinality(Positions(kind))
    BY <1>4, <2>2, FS_Subset
  <2>4. Cardinality(below) \in Nat /\ Cardinality(below) # 0
    BY <2>2, <2>3, FS_CardinalityType, FS_EmptySet
  <2> HIDE DEF below
  <2>5. Cardinality(below) \in 1 .. Len(stack)
    BY <1>3, <1>4, <2>3, <2>4
  <2> QED
    BY <2>2, <2>5 DEF below, Rank
<1>6. CASE p = Main
  <2>1. Positions(kind)' = Positions(kind) \cup {n} /\ n \notin Positions(kind)
    BY <1>2, <1>6 DEF Positions, kind
  <2>2. Others(kind)' = Others(kind)
    BY <1>2, <1>6, Publishers DEF Others
  <2>3. /\ IsFiniteSet(Positions(kind) \cup {n})
        /\ Cardinality(Positions(kind) \cup {n}) = Cardinality(Positions(kind)) + 1
    BY <1>4, <2>1, FS_AddElement
  <2>4. \A j \in Positions(kind) : j \in Nat /\ j < n
    BY <1>1, <1>6 DEF Positions, n
  <2>5. n \in Nat
    BY <1>1 DEF n
  <2>6. ASSUME NEW i \in Positions(kind)', (mixed => i <= replays.floor)'
        PROVE  Append(stack, b.label)[Rank(i, kind)'] = open'[Main][i].label
    <3>1. CASE i \in Positions(kind)
      <4>1. {j \in Positions(kind)' : j <= i} = {j \in Positions(kind) : j <= i}
        BY <2>1, <2>4, <2>5, <3>1
      <4>2. Rank(i, kind)' = Rank(i, kind)
        BY <4>1 DEF Rank
      <4>3. stack[Rank(i, kind)] = open[Main][i].label
        BY <2>6, <3>1 DEF Filed, kind
      <4>4. open'[Main][i] = open[Main][i]
        BY <1>2, <1>6, <3>1 DEF Positions
      <4> QED
        BY <1>3, <1>5, <3>1, <4>2, <4>3, <4>4
    <3>2. CASE i = n
      <4>1. ~mixed
        BY <1>1, <1>6, <2>5, <2>6, <3>2 DEF StacksIInv, ReplaysOpen, LoggerTyped, n
      <4>2. Others(kind) = {}
        BY <4>1, EmptySeq DEF StacksIInv, ReplaysOpen, Others
      <4>3. {j \in Positions(kind)' : j <= i} = Positions(kind) \cup {n}
        BY <2>1, <2>4, <2>5, <3>2
      <4>4. Rank(i, kind)' = Len(stack) + 1
        <5>1. Cardinality({j \in Positions(kind)' : j <= i}) = Cardinality(Positions(kind)) + 1
          BY <2>3, <4>3
        <5>2. Len(stack) = Cardinality(Positions(kind))
          BY <1>4, <4>2, FS_EmptySet
        <5> QED
          BY <5>1, <5>2 DEF Rank
      <4> QED
        BY <1>2, <1>3, <1>6, <3>2, <4>4
    <3> QED
      BY <2>1, <3>1, <3>2
  <2>7. Len(Append(stack, b.label)) = Cardinality(Positions(kind)') + Cardinality(Others(kind)')
    BY <1>3, <1>4, <2>1, <2>2, <2>3
  <2> QED
    BY <1>4, <2>1, <2>2, <2>3, <2>6, <2>7 DEF Filed, kind
<1>7. CASE p # Main
  <2>1. Positions(kind)' = Positions(kind) /\ open'[Main] = open[Main]
    BY <1>2, <1>7, Publishers DEF Positions
  <2>2. Others(kind)' = Others(kind) \cup {<<p, n>>} /\ <<p, n>> \notin Others(kind)
    BY <1>1, <1>2, <1>7, Publishers DEF Others, kind, n
  <2>3. /\ IsFiniteSet(Others(kind) \cup {<<p, n>>})
        /\ Cardinality(Others(kind) \cup {<<p, n>>}) = Cardinality(Others(kind)) + 1
    BY <1>4, <2>2, FS_AddElement
  <2>4. ASSUME NEW i \in Positions(kind), (mixed => i <= replays.floor)'
        PROVE  Append(stack, b.label)[Rank(i, kind)'] = open'[Main][i].label
    <3>1. Rank(i, kind)' = Rank(i, kind)
      BY <2>1 DEF Rank
    <3>2. stack[Rank(i, kind)] = open[Main][i].label
      BY <2>4 DEF Filed, kind
    <3> QED
      BY <1>3, <1>5, <2>1, <3>1, <3>2
  <2>5. Len(Append(stack, b.label)) = Cardinality(Positions(kind)') + Cardinality(Others(kind)')
    BY <1>3, <1>4, <2>1, <2>2, <2>3
  <2> QED
    BY <1>4, <2>1, <2>2, <2>3, <2>4, <2>5 DEF Filed, kind
<1> QED
  BY <1>6, <1>7

LEMMA Pops ==
    ASSUME StacksIInv, NEW p \in Publisher, NEW b \in Bracket, NEW stack \in Seq(Label),
           Filed(stack, b.kind), open[p] # <<>>, b = Last(open[p]),
           p = Main => ~mixed \/ Len(open[p]) > replays.floor,
           open' = [open EXCEPT ![p] = Front(@)], UNCHANGED <<mixed, replays>>
    PROVE  stack # <<>> /\ Filed(Front(stack), b.kind)'
<1> DEFINE n == Len(open[p])
           kind == b.kind
<1>1. /\ open[p] \in Seq(Bracket) /\ n \in Nat \ {0} /\ DOMAIN open[p] = 1 .. n
  BY OpenTyped, EmptySeq DEF StacksIInv
<1>2. /\ DOMAIN open'[p] = DOMAIN open[p] \ {n} /\ n \in DOMAIN open[p]
      /\ \A i \in DOMAIN open[p] \ {n} : open'[p][i] = open[p][i]
      /\ open[p][n] = b
      /\ \A q \in Publisher \ {p} : open'[q] = open[q]
  <2>1. open'[p] = Front(open[p]) /\ \A q \in Publisher \ {p} : open'[q] = open[q]
    BY DEF StacksIInv, LoggerTyped
  <2>2. /\ Len(Front(open[p])) = n - 1 /\ Front(open[p]) \in Seq(Bracket)
        /\ \A i \in 1 .. n - 1 : Front(open[p])[i] = open[p][i]
    BY <1>1 DEF Front
  <2>3. DOMAIN Front(open[p]) = 1 .. n - 1
    BY <2>2, LenProperties
  <2>4. open[p][n] = b
    BY DEF Last
  <2>5. 1 .. n - 1 = (1 .. n) \ {n} /\ n \in 1 .. n
    BY <1>1
  <2> HIDE DEF n
  <2> QED
    BY <1>1, <2>1, <2>2, <2>3, <2>4, <2>5
<1>3. /\ IsFiniteSet(Positions(kind)) /\ IsFiniteSet(Others(kind))
      /\ Cardinality(Positions(kind)) \in Nat /\ Cardinality(Others(kind)) \in Nat
      /\ Len(stack) = Cardinality(Positions(kind)) + Cardinality(Others(kind))
  BY FS_CardinalityType DEF Filed
<1> HIDE DEF n, kind
<1>4. ASSUME NEW S, IsFiniteSet(S), NEW T \in SUBSET S
      PROVE  Cardinality(T) \in Nat /\ Cardinality(T) <= Cardinality(S)
  BY <1>4, FS_Subset, FS_CardinalityType
<1>5. CASE p = Main
  <2>1. Positions(kind)' = Positions(kind) \ {n} /\ n \in Positions(kind)
    BY <1>2, <1>5 DEF Positions, kind
  <2>2. Others(kind)' = Others(kind)
    BY <1>2, <1>5, Publishers DEF Others
  <2>3. /\ IsFiniteSet(Positions(kind) \ {n})
        /\ Cardinality(Positions(kind) \ {n}) = Cardinality(Positions(kind)) - 1
        /\ Cardinality(Positions(kind) \ {n}) \in Nat
    BY <1>3, <2>1, FS_RemoveElement, FS_CardinalityType
  <2>4. \A j \in Positions(kind) : j \in Nat /\ j <= n
    BY <1>1, <1>5 DEF Positions
  <2>5. stack # <<>>
    BY <1>3, <2>3, EmptySeq
  <2>6. Len(Front(stack)) = Len(stack) - 1 /\ \A i \in 1 .. Len(stack) - 1 : Front(stack)[i] = stack[i]
    BY <1>3, <2>5 DEF Front
  <2>7. ASSUME NEW i \in Positions(kind)', (mixed => i <= replays.floor)'
        PROVE  Front(stack)[Rank(i, kind)'] = open'[Main][i].label
    <3> DEFINE below == {j \in Positions(kind) : j <= i}
    <3>1. i \in Positions(kind) /\ i # n /\ i < n
      <4>1. i \in Positions(kind) /\ i # n
        BY <2>1, <2>7
      <4>2. i \in Nat /\ i <= n /\ n \in Nat
        BY <1>1, <2>4, <4>1
      <4> QED
        BY <4>1, <4>2
    <3>2. {j \in Positions(kind)' : j <= i} = below
      BY <1>1, <2>1, <2>4, <3>1
    <3>3. below \in SUBSET (Positions(kind) \ {n}) /\ i \in below
      BY <1>1, <2>4, <3>1
    <3>4. Cardinality(below) \in Nat /\ Cardinality(below) <= Cardinality(Positions(kind) \ {n})
      BY <1>4, <2>3, <3>3
    <3>5. Cardinality(below) # 0
      BY <2>3, <3>3, FS_Subset, FS_EmptySet
    <3>6. stack[Cardinality(below)] = open[Main][i].label
      BY <2>7, <3>1 DEF Filed, kind, Rank
    <3> HIDE DEF below
    <3>7. Cardinality(below) \in 1 .. Len(stack) - 1
      BY <1>3, <2>3, <3>4, <3>5
    <3>8. open'[Main][i] = open[Main][i]
      BY <1>2, <1>5, <3>1 DEF Positions
    <3>9. Rank(i, kind)' = Cardinality(below)
      BY <3>2 DEF Rank
    <3> QED
      BY <2>6, <3>6, <3>7, <3>8, <3>9
  <2>8. Len(Front(stack)) = Cardinality(Positions(kind)') + Cardinality(Others(kind)')
    BY <1>3, <2>1, <2>2, <2>3, <2>6
  <2> QED
    BY <1>3, <2>1, <2>2, <2>3, <2>5, <2>7, <2>8 DEF Filed, kind
<1>6. CASE p # Main
  <2>1. Positions(kind)' = Positions(kind) /\ open'[Main] = open[Main]
    BY <1>2, <1>6, Publishers DEF Positions
  <2>2. Others(kind)' = Others(kind) \ {<<p, n>>} /\ <<p, n>> \in Others(kind)
    BY <1>1, <1>2, <1>6, Publishers DEF Others, kind, n
  <2>3. /\ IsFiniteSet(Others(kind) \ {<<p, n>>})
        /\ Cardinality(Others(kind) \ {<<p, n>>}) = Cardinality(Others(kind)) - 1
        /\ Cardinality(Others(kind) \ {<<p, n>>}) \in Nat
    BY <1>3, <2>2, FS_RemoveElement, FS_CardinalityType
  <2>4. stack # <<>>
    BY <1>3, <2>3, EmptySeq
  <2>5. Len(Front(stack)) = Len(stack) - 1 /\ \A i \in 1 .. Len(stack) - 1 : Front(stack)[i] = stack[i]
    BY <1>3, <2>4 DEF Front
  <2>6. ASSUME NEW i \in Positions(kind), (mixed => i <= replays.floor)'
        PROVE  Front(stack)[Rank(i, kind)'] = open'[Main][i].label
    <3> DEFINE below == {j \in Positions(kind) : j <= i}
    <3>1. i \in Nat
      BY Publishers, OpenTyped DEF Positions, StacksIInv
    <3>2. below \in SUBSET Positions(kind) /\ i \in below
      BY <3>1
    <3>3. Cardinality(below) \in Nat /\ Cardinality(below) <= Cardinality(Positions(kind))
      BY <1>3, <1>4, <3>2
    <3>4. Cardinality(below) # 0
      BY <1>3, <3>2, FS_Subset, FS_EmptySet
    <3>5. stack[Cardinality(below)] = open[Main][i].label
      BY <2>6 DEF Filed, kind, Rank
    <3>6. Rank(i, kind)' = Cardinality(below)
      BY <2>1 DEF Rank
    <3> HIDE DEF below
    <3>7. Cardinality(below) \in 1 .. Len(stack) - 1
      BY <1>3, <2>3, <3>3, <3>4
    <3> QED
      BY <2>1, <2>5, <3>5, <3>6, <3>7
  <2>7. Len(Front(stack)) = Cardinality(Positions(kind)') + Cardinality(Others(kind)')
    BY <1>3, <2>1, <2>2, <2>3, <2>5
  <2> QED
    BY <1>3, <2>1, <2>2, <2>3, <2>4, <2>6, <2>7 DEF Filed, kind
<1> QED
  BY <1>5, <1>6

\* A stack whose kind is not concerned.
LEMMA Stays ==
    ASSUME NEW kind, NEW stack, Filed(stack, kind),
           Positions(kind)' = Positions(kind), Others(kind)' = Others(kind),
           \A i \in Positions(kind) : open'[Main][i] = open[Main][i],
           \A i \in Positions(kind) :
              (mixed => i <= replays.floor)' => (mixed => i <= replays.floor)
    PROVE  Filed(stack, kind)'
<1>1. \A i : Rank(i, kind)' = Rank(i, kind)
  BY DEF Rank
<1> QED
  BY <1>1 DEF Filed

LEMMA StartsOther ==
    ASSUME StacksIInv, NEW p \in Publisher, NEW b \in Bracket, NEW kind, kind # b.kind,
           open' = [open EXCEPT ![p] = Append(@, b)], UNCHANGED <<mixed, replays>>,
           NEW stack, Filed(stack, kind)
    PROVE  Filed(stack, kind)'
<1> DEFINE n == Len(open[p]) + 1
<1>1. /\ open[p] \in Seq(Bracket) /\ Len(open[p]) \in Nat
      /\ DOMAIN open[p] = 1 .. Len(open[p])
  BY OpenTyped DEF StacksIInv
<1>2. open'[p] = Append(open[p], b) /\ \A q \in Publisher \ {p} : open'[q] = open[q]
  BY DEF StacksIInv, LoggerTyped
<1>3. /\ DOMAIN open'[p] = DOMAIN open[p] \cup {n} /\ n \notin DOMAIN open[p]
      /\ \A i \in DOMAIN open[p] : open'[p][i] = open[p][i]
      /\ open'[p][n] = b
  <2>1. /\ Len(Append(open[p], b)) = n /\ Append(open[p], b) \in Seq(Bracket)
        /\ \A i \in 1 .. Len(open[p]) : Append(open[p], b)[i] = open[p][i]
        /\ Append(open[p], b)[n] = b
    BY <1>1, AppendProperties
  <2>2. DOMAIN Append(open[p], b) = 1 .. n
    BY <2>1, LenProperties
  <2> QED
    BY <1>1, <1>2, <2>1, <2>2
<1> HIDE DEF n
<1>4. Positions(kind)' = Positions(kind)
  BY <1>2, <1>3, Publishers DEF Positions
<1>5. Others(kind)' = Others(kind)
  BY <1>2, <1>3, Publishers DEF Others
<1>6. \A i \in Positions(kind) : open'[Main][i] = open[Main][i]
  BY <1>2, <1>3, Publishers DEF Positions
<1> QED
  BY <1>4, <1>5, <1>6, Stays

LEMMA EndsOther ==
    ASSUME StacksIInv, NEW p \in Publisher, NEW kind, open[p] # <<>>,
           kind # Last(open[p]).kind,
           open' = [open EXCEPT ![p] = Front(@)], UNCHANGED <<mixed, replays>>,
           NEW stack, Filed(stack, kind)
    PROVE  Filed(stack, kind)'
<1> DEFINE n == Len(open[p])
<1>1. /\ open[p] \in Seq(Bracket) /\ n \in Nat \ {0} /\ DOMAIN open[p] = 1 .. n
  BY OpenTyped, EmptySeq DEF StacksIInv
<1>2. open'[p] = Front(open[p]) /\ \A q \in Publisher \ {p} : open'[q] = open[q]
  BY DEF StacksIInv, LoggerTyped
<1>3. /\ DOMAIN open'[p] = DOMAIN open[p] \ {n} /\ n \in DOMAIN open[p]
      /\ \A i \in DOMAIN open[p] \ {n} : open'[p][i] = open[p][i]
      /\ open[p][n].kind # kind
  <2>1. /\ Len(Front(open[p])) = n - 1 /\ Front(open[p]) \in Seq(Bracket)
        /\ \A i \in 1 .. n - 1 : Front(open[p])[i] = open[p][i]
    BY <1>1 DEF Front
  <2>2. DOMAIN Front(open[p]) = 1 .. n - 1
    BY <2>1, LenProperties
  <2>3. open[p][n].kind # kind
    BY DEF Last
  <2>4. 1 .. n - 1 = (1 .. n) \ {n} /\ n \in 1 .. n
    BY <1>1
  <2> HIDE DEF n
  <2> QED
    BY <1>1, <1>2, <2>1, <2>2, <2>3, <2>4
<1> HIDE DEF n
<1>4. Positions(kind)' = Positions(kind)
  BY <1>2, <1>3, Publishers DEF Positions
<1>5. Others(kind)' = Others(kind)
  BY <1>2, <1>3, Publishers DEF Others
<1>6. \A i \in Positions(kind) : open'[Main][i] = open[Main][i]
  BY <1>2, <1>3, Publishers DEF Positions
<1> QED
  BY <1>4, <1>5, <1>6, Stays

LEMMA StartStacks ==
    ASSUME StacksIInv, NEW p \in Publisher, StartEvent(p) PROVE StacksIInv'
<1>1. PICK b \in Bracket :
        logger' = Started(b) /\ open' = [open EXCEPT ![p] = Append(@, b)]
  BY DEF StartEvent, OnEvent
<1>2. UNCHANGED <<mixed, replays>> /\ (p = Main \/ mixed) /\ (p \in Replay => replays.state[p] = "on")
  <2>1. UNCHANGED <<mixed, replays>>
    BY DEF StartEvent
  <2>2. p = Main \/ (p \in Replay /\ replays.state[p] = "on")
    BY DEF StartEvent, Publishes
  <2>3. \A r \in Replay : replays.state[r] = "on" => mixed
    BY DEF StacksIInv, ReplaysOpen
  <2> QED
    BY <2>1, <2>2, <2>3, Publishers
<1>3. PICK w, t : w = logger.workflows /\ t = logger.tasks
  OBVIOUS
<1>4. /\ logger \in LoggerStacks /\ w \in Seq(Label) /\ t \in Seq(Label)
      /\ Filed(w, "workflow") /\ Filed(t, "task")
  BY <1>3 DEF StacksIInv, LoggerTyped, LoggerStacks
<1>5. b.label \in Label /\ b.kind \in {"workflow", "task", "activity"}
  BY DEF Bracket
<1>6. /\ logger' \in LoggerStacks
      /\ logger'.workflows = IF b.kind = "workflow" THEN Append(w, b.label) ELSE w
      /\ logger'.tasks = IF b.kind = "task" THEN Append(t, b.label) ELSE t
  <2>1. CASE b.kind = "workflow"
    BY <1>1, <1>3, <1>4, <1>5, <2>1, AppendProperties DEF Started, LoggerStacks
  <2>2. CASE b.kind = "task"
    BY <1>1, <1>3, <1>4, <1>5, <2>2, AppendProperties DEF Started, LoggerStacks
  <2>3. CASE b.kind = "activity"
    <3>1. logger.activities \in Seq(Label)
      BY <1>4 DEF LoggerStacks
    <3>2. logger.activities # <<>> => Front(logger.activities) \in Seq(Label)
      BY <3>1 DEF Front
    <3>3. /\ Append(logger.activities, b.label) \in Seq(Label)
          /\ logger.activities # <<>> => Append(Front(logger.activities), b.label) \in Seq(Label)
      BY <1>5, <3>1, <3>2, AppendProperties
    <3> QED
      BY <1>1, <1>3, <1>4, <2>3, <3>3 DEF Started, LoggerStacks
  <2> QED
    BY <1>5, <2>1, <2>2, <2>3
<1>7. open[p] \in Seq(Bracket) /\ Append(open[p], b) \in Seq(Bracket)
      /\ Len(Append(open[p], b)) = Len(open[p]) + 1 /\ Len(open[p]) \in Nat
  BY OpenTyped, AppendProperties DEF StacksIInv
<1>8. /\ open' \in [Publisher -> Seq(Bracket)] /\ open'[p] = Append(open[p], b)
      /\ \A q \in Publisher \ {p} : open'[q] = open[q]
  BY <1>1, <1>7 DEF StacksIInv, LoggerTyped
<1>9. LoggerTyped'
  BY <1>2, <1>6, <1>8 DEF StacksIInv, LoggerTyped
<1>10. ReplaysOpen'
  <2>1. replays.floor \in Nat
    BY DEF StacksIInv, LoggerTyped
  <2>2. \A r \in Replay : open'[r] # <<>> => replays'.state[r] = "on"
    BY <1>2, <1>8, Publishers DEF StacksIInv, ReplaysOpen
  <2>3. \A r \in Replay : replays'.state[r] = "on" => mixed'
    BY <1>2 DEF StacksIInv, ReplaysOpen
  <2>4. mixed => replays.floor <= Len(open[Main])
    BY DEF StacksIInv, ReplaysOpen
  <2>5. Len(open[Main]) \in Nat /\ Len(open'[Main]) \in {Len(open[Main]), Len(open[Main]) + 1}
    BY <1>7, <1>8, OpenTyped, Publishers DEF StacksIInv
  <2>6. mixed' => replays'.floor <= Len(open'[Main])
    BY <1>2, <2>1, <2>4, <2>5
  <2> QED
    BY <2>2, <2>3, <2>6 DEF ReplaysOpen
<1>11. Filed(logger.workflows, "workflow")'
  <2>1. CASE b.kind = "workflow"
    <3>1. Filed(Append(w, b.label), "workflow")'
      BY <1>1, <1>2, <1>4, <2>1, Pushes
    <3> QED
      BY <1>6, <2>1, <3>1 DEF Filed
  <2>2. CASE b.kind # "workflow"
    <3>1. Filed(w, "workflow")'
      BY <1>1, <1>2, <1>4, <2>2, StartsOther
    <3> QED
      BY <1>6, <2>2, <3>1 DEF Filed
  <2> QED
    BY <2>1, <2>2
<1>12. Filed(logger.tasks, "task")'
  <2>1. CASE b.kind = "task"
    <3>1. Filed(Append(t, b.label), "task")'
      BY <1>1, <1>2, <1>4, <2>1, Pushes
    <3> QED
      BY <1>6, <2>1, <3>1 DEF Filed
  <2>2. CASE b.kind # "task"
    <3>1. Filed(t, "task")'
      BY <1>1, <1>2, <1>4, <2>2, StartsOther
    <3> QED
      BY <1>6, <2>2, <3>1 DEF Filed
  <2> QED
    BY <2>1, <2>2
<1> QED
  BY <1>9, <1>10, <1>11, <1>12 DEF StacksIInv

LEMMA EndStacks ==
    ASSUME StacksIInv, NEW p \in Publisher, EndEvent(p) PROVE StacksIInv'
<1>1. PICK b : b = Last(open[p])
  OBVIOUS
<1>2. /\ logger' = Ended(b) /\ open' = [open EXCEPT ![p] = Front(@)] /\ open[p] # <<>>
      /\ p = Main => ~mixed \/ Len(open[p]) > replays.floor
      /\ UNCHANGED <<mixed, replays>>
  BY <1>1 DEF EndEvent, OnEvent
<1>3. PICK w, t : w = logger.workflows /\ t = logger.tasks
  OBVIOUS
<1>4. /\ logger \in LoggerStacks /\ w \in Seq(Label) /\ t \in Seq(Label)
      /\ Filed(w, "workflow") /\ Filed(t, "task")
  BY <1>3 DEF StacksIInv, LoggerTyped, LoggerStacks
<1>5. /\ open[p] \in Seq(Bracket) /\ Len(open[p]) \in Nat \ {0}
      /\ DOMAIN open[p] = 1 .. Len(open[p])
  BY <1>2, OpenTyped, EmptySeq DEF StacksIInv
<1>6. b \in Bracket
  BY <1>1, <1>5, OpenTyped DEF StacksIInv, Last
<1>7. b.kind = "workflow" => w # <<>> /\ Filed(Front(w), "workflow")'
  BY <1>1, <1>2, <1>4, <1>6, Pops
<1>8. b.kind = "task" => t # <<>> /\ Filed(Front(t), "task")'
  BY <1>1, <1>2, <1>4, <1>6, Pops
<1>9. /\ b.kind # "workflow" => Filed(w, "workflow")'
      /\ b.kind # "task" => Filed(t, "task")'
  BY <1>1, <1>2, <1>4, EndsOther
<1>10. /\ logger' \in LoggerStacks
       /\ logger'.workflows = IF b.kind = "workflow" THEN Front(w) ELSE w
       /\ logger'.tasks = IF b.kind = "task" THEN Front(t) ELSE t
  <2>1. b.kind \in {"workflow", "task", "activity"}
    BY <1>6 DEF Bracket
  <2>2. CASE b.kind = "workflow"
    <3>1. Front(w) \in Seq(Label) /\ Popped(w) = Front(w)
      BY <1>4, <1>7, <2>2 DEF Front, Popped
    <3> QED
      BY <1>2, <1>3, <1>4, <2>2, <3>1 DEF Ended, LoggerStacks
  <2>3. CASE b.kind = "task"
    <3>1. Front(t) \in Seq(Label) /\ Popped(t) = Front(t)
      BY <1>4, <1>8, <2>3 DEF Front, Popped
    <3> QED
      BY <1>2, <1>3, <1>4, <2>3, <3>1 DEF Ended, LoggerStacks
  <2>4. CASE b.kind = "activity"
    BY <1>2, <1>3, <1>4, <2>4 DEF Ended, LoggerStacks
  <2> QED
    BY <2>1, <2>2, <2>3, <2>4
<1>11. Filed(logger.workflows, "workflow")' /\ Filed(logger.tasks, "task")'
  BY <1>7, <1>8, <1>9, <1>10 DEF Filed
<1>12. Front(open[p]) \in Seq(Bracket) /\ Len(Front(open[p])) = Len(open[p]) - 1
  BY <1>5 DEF Front
<1>13. /\ open' \in [Publisher -> Seq(Bracket)] /\ open'[p] = Front(open[p])
       /\ \A q \in Publisher \ {p} : open'[q] = open[q]
  BY <1>2, <1>12 DEF StacksIInv, LoggerTyped
<1>14. LoggerTyped'
  BY <1>2, <1>10, <1>13 DEF StacksIInv, LoggerTyped
<1>15. ReplaysOpen'
  <2>1. replays.floor \in Nat
    BY DEF StacksIInv, LoggerTyped
  <2> QED
    BY <1>2, <1>5, <1>12, <1>13, <2>1, Publishers DEF StacksIInv, ReplaysOpen
<1> QED
  BY <1>11, <1>14, <1>15 DEF StacksIInv

LEMMA NextStacks == StacksIInv /\ [LoggerNext]_loggerVars => StacksIInv'
<1> SUFFICES ASSUME StacksIInv, [LoggerNext]_loggerVars PROVE StacksIInv'
  OBVIOUS
<1>1. ASSUME UNCHANGED <<open, logger>>, LoggerTyped', ReplaysOpen',
             \A kind : \A i \in Positions(kind) :
                (mixed => i <= replays.floor)' => (mixed => i <= replays.floor)
      PROVE  StacksIInv'
  <2>1. \A kind : Positions(kind)' = Positions(kind) /\ Others(kind)' = Others(kind)
    BY <1>1 DEF Positions, Others
  <2>2. PICK w, t : w = logger.workflows /\ t = logger.tasks
    OBVIOUS
  <2>3. Filed(w, "workflow") /\ Filed(t, "task")
    BY <2>2 DEF StacksIInv
  <2>4. Filed(w, "workflow")' /\ Filed(t, "task")'
    BY <1>1, <2>1, <2>3, Stays
  <2>5. Filed(logger.workflows, "workflow")' /\ Filed(logger.tasks, "task")'
    BY <1>1, <2>2, <2>4 DEF Filed
  <2> QED
    BY <1>1, <2>5 DEF StacksIInv
<1>2. CASE UNCHANGED <<open, logger, replays, mixed>>
  BY <1>1, <1>2 DEF StacksIInv, LoggerTyped, ReplaysOpen
<1>3. ASSUME NEW p \in Publisher, OtherEvent(p) PROVE UNCHANGED <<open, logger, replays, mixed>>
  BY <1>3 DEF OtherEvent, OnEvent
<1>4. ASSUME NEW r \in Replay, StartReplay(r) PROVE StacksIInv'
  <2>1. /\ UNCHANGED <<open, logger>> /\ mixed'
        /\ replays' = [state |-> [replays.state EXCEPT ![r] = "on"],
                       floor |-> IF mixed THEN replays.floor ELSE Len(open[Main])]
    BY <1>4 DEF StartReplay
  <2>2. Len(open[Main]) \in Nat /\ DOMAIN open[Main] = 1 .. Len(open[Main])
    BY OpenTyped, Publishers DEF StacksIInv
  <2>3. LoggerTyped' /\ replays'.floor = IF mixed THEN replays.floor ELSE Len(open[Main])
    BY <2>1, <2>2 DEF StacksIInv, LoggerTyped
  <2>4. \A s \in Replay : replays'.state[s] = IF s = r THEN "on" ELSE replays.state[s]
    BY <2>1 DEF StacksIInv, LoggerTyped
  <2>5. ReplaysOpen'
    BY <2>1, <2>2, <2>3, <2>4 DEF StacksIInv, ReplaysOpen
  <2>6. \A kind : \A i \in Positions(kind) :
           (mixed => i <= replays.floor)' => (mixed => i <= replays.floor)
    BY <2>1, <2>3
  <2> QED
    BY <1>1, <2>1, <2>3, <2>5, <2>6
<1>5. ASSUME NEW r \in Replay, EndReplay(r) PROVE StacksIInv'
  <2>1. /\ UNCHANGED <<open, logger, mixed>> /\ open[r] = <<>>
        /\ replays' = [replays EXCEPT !.state[r] = "over"]
    BY <1>5 DEF EndReplay
  <2>2. /\ LoggerTyped' /\ replays'.floor = replays.floor
        /\ \A s \in Replay : replays'.state[s] = IF s = r THEN "over" ELSE replays.state[s]
    BY <2>1 DEF StacksIInv, LoggerTyped
  <2>3. ReplaysOpen'
    BY <2>1, <2>2 DEF StacksIInv, ReplaysOpen
  <2> QED
    BY <1>1, <2>1, <2>2, <2>3
<1>6. CASE JoinReplays
  <2>1. /\ UNCHANGED <<open, logger, replays>> /\ ~mixed' /\ Len(open[Main]) = replays.floor
        /\ \A r \in Replay : replays.state[r] # "on"
    BY <1>6 DEF JoinReplays, Waits
  <2>2. Len(open[Main]) \in Nat /\ DOMAIN open[Main] = 1 .. Len(open[Main])
    BY OpenTyped, Publishers DEF StacksIInv
  <2>3. LoggerTyped' /\ ReplaysOpen'
    BY <2>1 DEF StacksIInv, LoggerTyped, ReplaysOpen
  <2>4. \A kind : \A i \in Positions(kind) : i <= replays.floor
    BY <2>1, <2>2 DEF Positions
  <2> QED
    BY <1>1, <2>1, <2>3, <2>4
<1>7. UNCHANGED loggerVars => UNCHANGED <<open, logger, replays, mixed>>
  BY DEF loggerVars
<1> QED
  BY <1>2, <1>3, <1>4, <1>5, <1>6, <1>7, StartStacks, EndStacks DEF LoggerNext

\* Outside of replays every event is filed under the workflows and tasks it belongs
\* to, for any nesting and any number of replays (processEvent, Push, Pop).
THEOREM FiledRightHolds == LoggerSpec => []FiledRight
<1>1. StacksIInv => FiledRight
  <2> SUFFICES ASSUME StacksIInv, ~mixed
               PROVE  Lists(logger.workflows, "workflow") /\ Lists(logger.tasks, "task")
    BY DEF FiledRight
  <2>1. \A kind : Others(kind) = {}
    BY EmptySeq DEF StacksIInv, ReplaysOpen, Others
  <2>2. ASSUME NEW stack, NEW kind, Filed(stack, kind) PROVE Lists(stack, kind)
    <3>1. IsFiniteSet(Positions(kind)) /\ Len(stack) = Cardinality(Positions(kind)) + Cardinality({})
      BY <2>1, <2>2 DEF Filed
    <3>2. Len(stack) = Cardinality(Positions(kind))
      BY <3>1, FS_EmptySet, FS_CardinalityType
    <3> QED
      BY <2>2, <3>2 DEF Filed, Lists, Rank
  <2> QED
    BY <2>2 DEF StacksIInv
<1> QED
  BY <1>1, InitStacks, NextStacks, PTL DEF LoggerSpec

\* A directory has as many files as there were events at most, and groups are
\* numbered by how many there are.
EventsCounted ==
    /\ events \in 0 .. MaxEvents /\ mixed \in BOOLEAN
    /\ \A d \in DOMAIN counts : counts[d] \in 1 .. events
GroupsNumbered ==
    /\ IsFiniteSet(DOMAIN groups)
    /\ \A g \in DOMAIN groups : groups[g] \in 1 .. Cardinality(DOMAIN groups)

LEMMA InitCounted == LoggerInit => EventsCounted /\ GroupsNumbered
<1> SUFFICES ASSUME LoggerInit PROVE EventsCounted /\ GroupsNumbered
  OBVIOUS
<1>1. DOMAIN counts = {} /\ DOMAIN groups = {} /\ events = 0 /\ mixed = FALSE
  BY EmptySeq DEF LoggerInit
<1>2. EventsCounted
  <2>1. MaxEvents \in Nat
    BY LoggerAssumption
  <2>2. 0 \in 0 .. MaxEvents
    BY <2>1
  <2> QED
    BY <1>1, <2>2 DEF EventsCounted
<1>3. IsFiniteSet({})
  BY FS_EmptySet
<1> QED
  BY <1>1, <1>2, <1>3 DEF GroupsNumbered

LEMMA EventCounted ==
    ASSUME EventsCounted, GroupsNumbered, NEW type, NEW l, OnEvent(type, l), mixed' = mixed
    PROVE  EventsCounted' /\ GroupsNumbered'
<1>1. events \in 0 .. MaxEvents /\ events < MaxEvents /\ events' = events + 1
  BY DEF OnEvent, EventsCounted
<1>2. events' \in 1 .. MaxEvents /\ \A k \in 1 .. events : k \in 1 .. events' /\ k + 1 \in 1 .. events'
  BY <1>1, LoggerAssumption
<1>3. CASE UNCHANGED <<groups, counts>>
  BY <1>2, <1>3 DEF EventsCounted, GroupsNumbered
<1>4. CASE WriteFile(type, l)
  <2>1. PICK dir, group : dir = DirectoryOf(GroupOf(l)) /\ group = GroupOf(l)
    OBVIOUS
  <2>2. /\ counts' = [d \in DOMAIN counts \cup {dir} |->
                        IF d # dir THEN counts[d] ELSE IF d \in DOMAIN counts THEN counts[d] + 1
                                                       ELSE 1]
        /\ groups' = Numbered(group)
    BY <1>4, <2>1 DEF WriteFile, NextFile
  <2>3. ASSUME NEW d \in DOMAIN counts' PROVE counts'[d] \in 1 .. events'
    <3>1. CASE d # dir
      BY <1>2, <2>2, <3>1 DEF EventsCounted
    <3>2. CASE d = dir /\ d \in DOMAIN counts
      BY <1>2, <2>2, <3>2 DEF EventsCounted
    <3>3. CASE d = dir /\ d \notin DOMAIN counts
      BY <1>2, <2>2, <3>3
    <3> QED
      BY <3>1, <3>2, <3>3
  <2>4. GroupsNumbered'
    <3>1. CASE group \in DOMAIN groups
      BY <2>2, <3>1 DEF Numbered, GroupsNumbered
    <3>2. CASE group \notin DOMAIN groups
      <4>1. PICK n \in Nat : n = Cardinality(DOMAIN groups)
        BY FS_CardinalityType DEF GroupsNumbered
      <4>2. groups' = [g \in DOMAIN groups \cup {group} |-> IF g = group THEN n + 1 ELSE groups[g]]
        BY <2>2, <3>2, <4>1 DEF Numbered
      <4>3. /\ IsFiniteSet(DOMAIN groups \cup {group})
            /\ Cardinality(DOMAIN groups \cup {group}) = n + 1
        BY <3>2, <4>1, FS_AddElement DEF GroupsNumbered
      <4>4. IsFiniteSet(DOMAIN groups') /\ Cardinality(DOMAIN groups') = n + 1
        BY <4>2, <4>3
      <4>5. \A g \in DOMAIN groups' : groups'[g] \in 1 .. n + 1
        BY <4>1, <4>2 DEF GroupsNumbered
      <4> QED
        BY <4>4, <4>5 DEF GroupsNumbered
    <3> QED
      BY <3>1, <3>2
  <2> QED
    BY <1>2, <2>3, <2>4 DEF EventsCounted
<1> QED
  BY <1>3, <1>4 DEF OnEvent

LEMMA NextCounted ==
    EventsCounted /\ GroupsNumbered /\ [LoggerNext]_loggerVars => EventsCounted' /\ GroupsNumbered'
<1> SUFFICES ASSUME EventsCounted, GroupsNumbered, [LoggerNext]_loggerVars
             PROVE  EventsCounted' /\ GroupsNumbered'
  OBVIOUS
<1>1. ASSUME UNCHANGED <<groups, counts, events>>, mixed' \in BOOLEAN
      PROVE  EventsCounted' /\ GroupsNumbered'
  BY <1>1 DEF EventsCounted, GroupsNumbered
<1>2. ASSUME NEW p \in Publisher, StartEvent(p) \/ EndEvent(p) \/ OtherEvent(p)
      PROVE  EventsCounted' /\ GroupsNumbered'
  <2>1. mixed' = mixed /\ \E type, l : OnEvent(type, l)
    BY <1>2 DEF StartEvent, EndEvent, OtherEvent
  <2> QED
    BY <2>1, EventCounted
<1>3. ASSUME NEW r \in Replay, StartReplay(r) \/ EndReplay(r)
      PROVE  UNCHANGED <<groups, counts, events>> /\ mixed' \in BOOLEAN
  BY <1>3 DEF StartReplay, EndReplay, EventsCounted
<1>4. JoinReplays \/ UNCHANGED loggerVars
        => UNCHANGED <<groups, counts, events>> /\ mixed' \in BOOLEAN
  BY DEF JoinReplays, loggerVars, EventsCounted
<1> QED
  BY <1>1, <1>2, <1>3, <1>4 DEF LoggerNext

\* The stacks, the numbers of groups and those of files have their types, for any
\* publishers and labels (OnEvent, groupDir, nextFileSeq).
THEOREM LoggerTypesHold == LoggerSpec => []LoggerTypeOK
<1>1. StacksIInv /\ FilesIInv /\ EventsCounted /\ GroupsNumbered => LoggerTypeOK
  <2> SUFFICES ASSUME StacksIInv, FilesIInv, EventsCounted, GroupsNumbered PROVE LoggerTypeOK
    OBVIOUS
  <2>1. \A d \in DOMAIN counts : counts[d] \in 1 .. MaxEvents
    BY LoggerAssumption DEF EventsCounted
  <2> QED
    BY <2>1 DEF LoggerTypeOK, StacksIInv, LoggerTyped, LoggerStacks, FilesIInv, EventsCounted,
       GroupsNumbered
<1> QED
  BY <1>1, InitStacks, NextStacks, InitFiles, NextFiles, InitCounted, NextCounted, PTL
  DEF LoggerSpec

=============================================================================
