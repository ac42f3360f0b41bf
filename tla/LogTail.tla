------------------------------- MODULE LogTail -------------------------------
(***************************************************************************)
(* The log validator (service/testing/log): listen registers a log type,   *)
(* reads its files and starts a goroutine that polls them; every new line  *)
(* becomes a pending record; reset discards what is pending and assert     *)
(* shifts records, by position or by an index value.                       *)
(*                                                                         *)
(* Three processes interleave: the program under test writes and rotates   *)
(* the files, the reader follows them, a workflow runs listen, reset and   *)
(* assert.  A line is two units of text, of which the last ends it, so     *)
(* that a file may end, and a position may lie, in the middle of a line.   *)
(***************************************************************************)
EXTENDS Integers, Sequences, FiniteSets, SequencesExt, FiniteSetsExt

CONSTANTS
    File,          \* the files that match the mask of the log type, by URL
    Excluded,      \* lines that Exclusion or Inclusion filter out
    MaxLines,      \* lines the program under test writes
    MaxTime,       \* seconds in which it writes
    MaxRotations,  \* files it rotates or truncates
    MaxResets,     \* resets of a behaviour
    MaxAsserts,    \* expected records of a behaviour
    MaxFailures    \* failures of the storage that end a reading

ASSUME LogAssumption ==
    /\ IsFiniteSet(File) /\ File \subseteq Nat
    /\ Excluded \subseteq Nat
    /\ {MaxLines, MaxTime, MaxRotations, MaxResets, MaxAsserts, MaxFailures} \subseteq Nat

VARIABLES
    disk,       \* what every file holds, and the second of its last change
    budget,     \* what is left of the bounds
    useIndex,   \* Type.UseIndex
    typeMeta,   \* the entry of the type in the state map: none, nil or a TypeMeta
    files,      \* TypeMeta.LogFiles
    reader,     \* the goroutine that reads, or the listen that reads first
    iterator,   \* of the running assert: its files and logFileIndex
    rotated,    \* history: files that were rotated
    torn,       \* history: files reset while their records were read
    resetAt,    \* history: where the last reset put the position of every file
    discarded,  \* history: lines of the records that resets discarded
    pushed,     \* history: lines that became records of every file, in order
    shifted     \* history: records handed to an assert, in order

environment == <<disk, rotated>>
queues == <<typeMeta, files, torn, resetAt, discarded, pushed>>
logVars == <<environment, budget, useIndex, queues, reader, iterator, shifted>>

\* Line n is the units 2n - 1 and 2n; the last one ends it.
LineOf(unit) == (unit + 1) \div 2
EndsLine(unit) == unit % 2 = 0
Line == 1 .. MaxLines
Text == Seq(1 .. 2 * MaxLines)
IsIncreasing(s) == \A i, j \in DOMAIN s : i < j => s[i] < s[j]

\* whole: the record has all its line, not only the end of it.
Record == [line : Line, whole : BOOLEAN]

Candidates == [name : File, size : Nat, time : 0 .. MaxTime]

\* time is LastModified, at Position, index the lines in IndexedRecords.
FileState == [content : Text, size : Nat, time : 0 .. MaxTime, at : Nat,
              records : Seq(Record), index : SUBSET Line]

ReaderState == [pc : {"off", "list", "file", "snapshot", "stat", "compare",
                      "store", "start", "push", "update", "listed", "stopped", "crashed"},
                listens : BOOLEAN, todo : Seq(Candidates), attempt : 0 .. 3,
                size : Nat, text : Text, at : Nat, chunk : Nat, unstable : BOOLEAN]

LogTypeOK ==
    /\ disk \in [File -> [text : Text, time : 0 .. MaxTime]]
    /\ budget \in [{"lines", "rotations", "resets", "asserts", "failures"} -> Nat]
    /\ useIndex \in BOOLEAN
    /\ typeMeta \in {"none", "nil", "meta"}
    /\ DOMAIN files \subseteq File
    /\ \A f \in DOMAIN files : files[f] \in FileState
    /\ reader \in ReaderState
    /\ iterator \in [on : BOOLEAN, order : Seq(File), at : Nat, ready : BOOLEAN]
    /\ rotated \subseteq File /\ torn \subseteq File
    /\ resetAt \in [File -> Nat] /\ discarded \subseteq Line
    /\ pushed \in [File -> Seq(Line)]
    /\ shifted \in Seq(Record)

NoReader == [pc |-> "off", listens |-> FALSE, todo |-> <<>>, attempt |-> 0, size |-> 0,
             text |-> <<>>, at |-> 0, chunk |-> 0, unstable |-> FALSE]
NoIterator == [on |-> FALSE, order |-> <<>>, at |-> 1, ready |-> FALSE]

LogInit ==
    /\ disk = [f \in File |-> [text |-> <<>>, time |-> 0]]
    /\ budget = [lines |-> MaxLines, rotations |-> MaxRotations, resets |-> MaxResets,
                 asserts |-> MaxAsserts, failures |-> MaxFailures]
    /\ useIndex \in BOOLEAN
    /\ typeMeta = "none"
    /\ files = [f \in {} |-> {}]
    /\ reader = NoReader
    /\ iterator = NoIterator
    /\ rotated = {} /\ torn = {} /\ discarded = {}
    /\ resetAt = [f \in File |-> 0]
    /\ pushed = [f \in File |-> <<>>]
    /\ shifted = <<>>

Spend(what) == budget[what] > 0 /\ budget' = [budget EXCEPT ![what] = @ - 1]

-----------------------------------------------------------------------------
(* The program under test.                                                 *)

Touch(f, text) ==
    \E time \in disk[f].time .. MaxTime :
       /\ time <= disk[f].time + 1
       /\ disk' = [disk EXCEPT ![f] = [text |-> text, time |-> time]]

Unended(f) == disk[f].text # <<>> /\ ~EndsLine(Last(disk[f].text))

\* It writes a line, or the start of one.
WriteLine(f) ==
    /\ Spend("lines")
    /\ ~Unended(f)
    /\ LET n == MaxLines - budget.lines + 1
       IN  \/ Touch(f, disk[f].text \o <<2 * n - 1, 2 * n>>)
           \/ Touch(f, Append(disk[f].text, 2 * n - 1))
    /\ UNCHANGED <<useIndex, queues, reader, iterator, rotated, shifted>>

FinishLine(f) ==
    /\ Unended(f)
    /\ Touch(f, Append(disk[f].text, Last(disk[f].text) + 1))
    /\ UNCHANGED <<budget, useIndex, queues, reader, iterator, rotated, shifted>>

Rotate(f) ==
    /\ disk[f].text # <<>>
    /\ Spend("rotations")
    /\ Touch(f, <<>>)
    /\ rotated' = rotated \cup {f}
    /\ UNCHANGED <<useIndex, queues, reader, iterator, shifted>>

-----------------------------------------------------------------------------
(* The reader: readLogFiles, readLogFile and File.readLogRecords.          *)

At(place) == reader.pc = place
Candidate == Head(reader.todo)
Read(place) == [reader EXCEPT !.pc = place]

\* After a file the next one, or the end of readLogFiles.  What the map of
\* readLogFiles has for the type is what the last file ended in.
NextFile(unstable) ==
    LET rest == Tail(reader.todo)
    IN  [NoReader EXCEPT !.pc = IF rest = <<>> THEN "listed" ELSE "file",
                         !.listens = reader.listens, !.todo = rest, !.unstable = unstable]

\* The error of a listing or a read ends the listen, or the goroutine.
ReaderFails ==
    /\ reader.pc \in {"list", "snapshot"}
    /\ Spend("failures")
    /\ reader' = [NoReader EXCEPT !.pc = IF reader.listens THEN "off" ELSE "stopped"]
    /\ UNCHANGED <<environment, useIndex, queues, iterator, shifted>>

\* fs.List: sizes and times of all files there are, whatever happens to them
\* later; there is one such list.
Existing == {f \in File : disk[f].text # <<>> \/ f \in rotated}
Listings == {s \in [1 .. Cardinality(Existing) -> Existing] : IsIncreasing(s)}

ListFiles ==
    /\ At("list")
    /\ \E s \in Listings :
          LET todo == [i \in DOMAIN s |-> [name |-> s[i], size |-> Len(disk[s[i]].text),
                                          time |-> disk[s[i]].time]]
          IN  reader' = [reader EXCEPT !.todo = todo,
                                       !.pc = IF todo = <<>> THEN "listed" ELSE "file"]
    /\ UNCHANGED <<environment, budget, useIndex, queues, iterator, shifted>>

\* listen registers what it read and starts the goroutine; the goroutine sleeps
\* until the next poll.
EndListing ==
    /\ At("listed")
    /\ typeMeta' = IF ~reader.listens THEN typeMeta
                   ELSE IF reader.unstable THEN "nil" ELSE "meta"
    /\ reader' = [NoReader EXCEPT !.pc = "list"]
    /\ UNCHANGED <<environment, budget, useIndex, files, torn, resetAt,
                   discarded, pushed, iterator, shifted>>

\* IsClosed is asked before every poll, so that the end of the workflow and that
\* of the goroutine are one step.
Close ==
    /\ At("list") /\ ~reader.listens /\ ~iterator.on
    /\ reader' = [NoReader EXCEPT !.pc = "stopped"]
    /\ UNCHANGED <<environment, budget, useIndex, queues, iterator, shifted>>

\* A nil entry passes the type assertion, and its LogFiles are not there.
Crash ==
    /\ typeMeta = "nil" /\ At("file")
    /\ reader' = [NoReader EXCEPT !.pc = "crashed"]
    /\ UNCHANGED <<environment, budget, useIndex, queues, iterator, shifted>>

\* Mutant: follows a new file from its end.
NewFileAtEnd(c) ==
    [content |-> <<>>, size |-> c.size, time |-> c.time, at |-> c.size,
     records |-> <<>>, index |-> {}]

NewFile(c) ==
    [content |-> <<>>, size |-> c.size, time |-> c.time, at |-> 0,
     records |-> <<>>, index |-> {}]

\* Mutant: takes a file changed in the same second for unchanged.
OpenFileByTime ==
    /\ At("file") /\ typeMeta # "nil"
    /\ typeMeta' = "meta"
    /\ LET c == Candidate
           known == c.name \in DOMAIN files
       IN  /\ files' = [f \in DOMAIN files \cup {c.name} |->
                          IF f \in DOMAIN files THEN files[f] ELSE NewFile(c)]
           /\ reader' = IF known /\ files[c.name].time = c.time THEN NextFile(FALSE)
                        ELSE [reader EXCEPT !.pc = "snapshot", !.size = c.size, !.attempt = 1]
    /\ UNCHANGED <<environment, budget, useIndex, torn, resetAt, discarded, pushed, iterator, shifted>>

\* The part of readLogFile under the lock of the service, and its first return.
OpenFile ==
    /\ At("file") /\ typeMeta # "nil"
    /\ typeMeta' = "meta"
    /\ LET c == Candidate
           known == c.name \in DOMAIN files
           same == known /\ files[c.name].size = c.size /\ files[c.name].time = c.time
       IN  /\ files' = [f \in DOMAIN files \cup {c.name} |->
                          IF f \in DOMAIN files THEN files[f] ELSE NewFile(c)]
           /\ reader' = IF same THEN NextFile(FALSE)
                        ELSE [reader EXCEPT !.pc = "snapshot", !.size = c.size, !.attempt = 1]
    /\ UNCHANGED <<environment, budget, useIndex, torn, resetAt, discarded, pushed, iterator, shifted>>

\* tryReadSnapshot: the content counts when the size is what it was before.
TakeSnapshot ==
    /\ At("snapshot")
    /\ reader' = [reader EXCEPT !.pc = "stat", !.text = disk[Candidate.name].text]
    /\ UNCHANGED <<environment, budget, useIndex, queues, iterator, shifted>>

\* Mutant: tries once too often.
StatSnapshotAgain ==
    /\ At("stat")
    /\ LET size == Len(disk[Candidate.name].text)
       IN  reader' = IF size = reader.size THEN Read("compare")
                     ELSE IF reader.attempt <= 3
                     THEN [reader EXCEPT !.pc = "snapshot", !.size = size, !.attempt = @ + 1]
                     ELSE NextFile(TRUE)
    /\ UNCHANGED <<environment, budget, useIndex, queues, iterator, shifted>>

StatSnapshot ==
    /\ At("stat")
    /\ LET size == Len(disk[Candidate.name].text)
       IN  reader' = IF size = reader.size THEN Read("compare")
                     ELSE IF reader.attempt < 3
                     THEN [reader EXCEPT !.pc = "snapshot", !.size = size, !.attempt = @ + 1]
                     ELSE NextFile(TRUE)
    /\ UNCHANGED <<environment, budget, useIndex, queues, iterator, shifted>>

\* When asking fails the attempt is lost, without an error: a new file stays
\* registered with the size and the time of the listing.
StatFails ==
    /\ At("stat")
    /\ IF reader.attempt < 3
       THEN reader' = [reader EXCEPT !.pc = "snapshot", !.attempt = @ + 1] /\ UNCHANGED budget
       ELSE reader' = NextFile(TRUE) /\ Spend("failures")
    /\ UNCHANGED <<environment, useIndex, queues, iterator, shifted>>

\* Shrunk or rolled over?  File.Reset starts it again from its first line.
CompareContent ==
    /\ At("compare")
    /\ LET c == Candidate
           shrunk == Len(files[c.name].content) > Len(reader.text)
           replaced == /\ files[c.name].size < c.size
                       /\ ~IsPrefix(files[c.name].content, reader.text)
       IN  files' = IF shrunk \/ replaced
                    THEN [files EXCEPT ![c.name].size = c.size, ![c.name].time = c.time,
                                       ![c.name].at = 0]
                    ELSE files
    /\ reader' = Read("store")
    /\ UNCHANGED <<environment, budget, useIndex, typeMeta, torn, resetAt, discarded, pushed, iterator, shifted>>

StoreContent ==
    /\ At("store")
    /\ files' = [files EXCEPT ![Candidate.name].content = reader.text,
                              ![Candidate.name].size = Len(reader.text)]
    /\ reader' = IF reader.text = <<>> THEN NextFile(FALSE) ELSE Read("start")
    /\ UNCHANGED <<environment, budget, useIndex, typeMeta, torn, resetAt, discarded, pushed, iterator, shifted>>

StartRecords ==
    /\ At("start")
    /\ LET at == files[Candidate.name].at
       IN  reader' = IF at > Len(reader.text) THEN NextFile(FALSE)
                     ELSE [reader EXCEPT !.pc = "push", !.at = at]
    /\ UNCHANGED <<environment, budget, useIndex, queues, iterator, shifted>>

\* Where the line that starts after a position ends, if it does.
EndsAfter(at) == {i \in at + 1 .. Len(reader.text) : EndsLine(reader.text[i])}
NextEnd(at) == CHOOSE i \in EndsAfter(at) : \A j \in EndsAfter(at) : i <= j

PushRecord ==
    /\ At("push") /\ EndsAfter(reader.at) # {}
    /\ LET f == Candidate.name
           end == NextEnd(reader.at)
           line == LineOf(reader.text[end])
           record == [line |-> line, whole |-> end = reader.at + 2]
       IN  /\ reader' = [reader EXCEPT !.pc = "update", !.at = end, !.chunk = end - reader.at]
           /\ IF line \in Excluded THEN UNCHANGED <<files, pushed>>
              ELSE /\ files' = [files EXCEPT ![f].records = Append(@, record),
                                             ![f].index = IF useIndex /\ record.whole
                                                          THEN @ \cup {line} ELSE @]
                   /\ pushed' = [pushed EXCEPT ![f] = Append(@, line)]
    /\ UNCHANGED <<environment, budget, useIndex, typeMeta, torn, resetAt, discarded, iterator, shifted>>

\* Mutant: counts the line but not its place.
UpdatePositionNot ==
    /\ At("update")
    /\ reader' = Read("push")
    /\ UNCHANGED <<environment, budget, useIndex, queues, iterator, shifted>>

\* ProcessingState.Update.
UpdatePosition ==
    /\ At("update")
    /\ files' = [files EXCEPT ![Candidate.name].at = @ + reader.chunk]
    /\ reader' = Read("push")
    /\ UNCHANGED <<environment, budget, useIndex, typeMeta, torn, resetAt, discarded, pushed, iterator, shifted>>

EndRecords ==
    /\ At("push") /\ EndsAfter(reader.at) = {}
    /\ reader' = NextFile(FALSE)
    /\ UNCHANGED <<environment, budget, useIndex, queues, iterator, shifted>>

-----------------------------------------------------------------------------
(* The workflow: one of listen, reset and assert at a time.                *)

Idle == ~reader.listens /\ ~iterator.on /\ reader.pc # "crashed"

\* A type that has an entry is refused.
Listen ==
    /\ Idle /\ typeMeta = "none"
    /\ reader' = [NoReader EXCEPT !.pc = "list", !.listens = TRUE]
    /\ UNCHANGED <<environment, budget, useIndex, queues, iterator, shifted>>

\* Without the lock of the file, that the reader may be in the middle of.
Reset ==
    /\ Idle /\ typeMeta = "meta"
    /\ Spend("resets")
    /\ files' = [f \in DOMAIN files |->
                   [files[f] EXCEPT !.at = files[f].size, !.records = <<>>]]
    /\ resetAt' = [f \in File |-> IF f \in DOMAIN files THEN files[f].size ELSE resetAt[f]]
    /\ discarded' = discarded \cup
          UNION {{files[f].records[i].line : i \in DOMAIN files[f].records} : f \in DOMAIN files}
    /\ torn' = IF reader.pc \in {"push", "update"} THEN torn \cup {Candidate.name} ELSE torn
    /\ UNCHANGED <<environment, useIndex, typeMeta, pushed, reader, iterator, shifted>>

\* TypeMeta.Iterator: the files, the one changed last first; there is one such order.
Newer(f, g) == \/ files[f].time > files[g].time
               \/ files[f].time = files[g].time /\ f > g
FileOrders == {s \in [1 .. Cardinality(DOMAIN files) -> DOMAIN files] :
                  \A i, j \in DOMAIN s : i < j => Newer(s[i], s[j])}

StartAssert ==
    /\ Idle /\ typeMeta = "meta" /\ budget.asserts > 0
    /\ \E s \in FileOrders : iterator' = [on |-> TRUE, order |-> s, at |-> 1, ready |-> FALSE]
    /\ UNCHANGED <<environment, budget, useIndex, queues, reader, shifted>>

\* logRecordIterator.HasNext: from the file it is at, then among all files.
Pending(order, from) == {i \in from .. Len(order) : files[order[i]].records # <<>>}

HasNext ==
    /\ iterator.on /\ ~iterator.ready
    /\ LET here == Pending(iterator.order, iterator.at)
       IN  \/ here # {} /\ iterator' = [iterator EXCEPT !.at = Min(here), !.ready = TRUE]
           \/ /\ here = {}
              /\ \E s \in FileOrders :
                    iterator' = IF Pending(s, 1) # {}
                                THEN [iterator EXCEPT !.order = s, !.at = Min(Pending(s, 1)),
                                                      !.ready = TRUE]
                                ELSE [iterator EXCEPT !.order = s,
                                                      !.at = Max({@, Len(iterator.order) + 1})]
    /\ UNCHANGED <<environment, budget, useIndex, queues, reader, shifted>>

\* waitForRecord gives up, or the last expected record was compared.
EndAssert ==
    /\ iterator.on /\ ~iterator.ready
    /\ iterator' = NoIterator
    /\ UNCHANGED <<environment, budget, useIndex, queues, reader, shifted>>

Current == iterator.order[iterator.at]

\* Mutant: hands the record out and keeps it.
ShiftRecordKeeping ==
    /\ iterator.ready
    /\ Spend("asserts")
    /\ shifted' = Append(shifted, Head(files[Current].records))
    /\ iterator' = [iterator EXCEPT !.ready = FALSE]
    /\ UNCHANGED <<environment, useIndex, queues, reader>>

\* File.ShiftLogRecord.
ShiftRecord ==
    /\ iterator.ready
    /\ Spend("asserts")
    /\ shifted' = Append(shifted, Head(files[Current].records))
    /\ files' = [files EXCEPT ![Current].records = Tail(@)]
    /\ iterator' = [iterator EXCEPT !.ready = FALSE]
    /\ UNCHANGED <<environment, useIndex, typeMeta, torn, resetAt, discarded, pushed, reader>>

\* logRecordIterator.Next with an index value: a file that does not know it
\* gives up its first record, and the next file is asked.
Knows(f, line) == files[f].records # <<>> /\ line \in files[f].index

\* Without the record of a line, if it is there: a line has one at most.
Without(records, line) ==
    LET places == {i \in DOMAIN records : records[i].line = line}
    IN  IF places = {} THEN records ELSE RemoveAt(records, CHOOSE i \in places : TRUE)

ShiftIndexed(line) ==
    LET order == iterator.order
        hits == {i \in iterator.at .. Len(order) : Knows(order[i], line)}
        stop == IF hits = {} THEN Len(order) ELSE Min(hits)
        missed == {order[i] : i \in iterator.at .. stop} \ {order[i] : i \in hits}
        end == files[order[stop]].records
    IN  /\ iterator.ready /\ useIndex
        /\ Spend("asserts")
        /\ files' = [f \in DOMAIN files |->
                       IF f \in missed /\ files[f].records # <<>>
                       THEN [files[f] EXCEPT !.records = Tail(@)]
                       ELSE IF hits # {} /\ f = order[stop]
                       THEN [files[f] EXCEPT !.records = Without(@, line)]
                       ELSE files[f]]
        /\ IF hits = {} /\ end = <<>>
           THEN iterator' = NoIterator /\ UNCHANGED shifted
           ELSE /\ iterator' = [iterator EXCEPT !.ready = FALSE]
                /\ shifted' = Append(shifted, IF hits = {} THEN Head(end)
                                              ELSE [line |-> line, whole |-> TRUE])
        /\ UNCHANGED <<environment, useIndex, typeMeta, torn, resetAt, discarded, pushed, reader>>

\* What the program writes when nobody reads any more is left out.
Write ==
    /\ reader.pc \notin {"stopped", "crashed"}
    /\ \E f \in File : WriteLine(f) \/ FinishLine(f) \/ Rotate(f)

ReaderStep ==
    \/ ListFiles \/ EndListing \/ Crash
    \/ OpenFile \/ TakeSnapshot \/ StatSnapshot
    \/ CompareContent \/ StoreContent \/ StartRecords
    \/ PushRecord \/ UpdatePosition \/ EndRecords

WorkflowStep ==
    \/ Listen \/ Reset \/ Close
    \/ StartAssert \/ HasNext \/ EndAssert \/ ShiftRecord
    \/ \E line \in Line : ShiftIndexed(line)

LogNext == Write \/ ReaderFails \/ StatFails \/ ReaderStep \/ WorkflowStep

\* Go runs the reader and the program under test ends its lines; nothing makes
\* a workflow call the service.
LogFairness == WF_logVars(ReaderStep) /\ \A f \in File : WF_logVars(FinishLine(f))

LogSpec == LogInit /\ [][LogNext]_logVars /\ LogFairness

-----------------------------------------------------------------------------
(* Properties.                                                             *)

\* No line becomes a record twice and records keep the order of their lines,
\* although polls, rotations and resets move the position back and forth
\* (readLogFile, File.Reset, ProcessingState.Update).
ReadInOrder == \A f \in File : IsIncreasing(pushed[f])

\* Where a file only grows and no reset came while its records were read,
\* every line it ends after the last reset is a record once the reader has
\* handled the text, and no record lacks the start of its line.
NothingLost ==
    \A f \in DOMAIN files \ (rotated \cup torn) :
       /\ reader.pc \in {"list", "listed"} =>
             \A i \in DOMAIN files[f].content :
                LET unit == files[f].content[i]
                IN  EndsLine(unit) /\ i > resetAt[f] /\ LineOf(unit) \notin Excluded
                      => LineOf(unit) \in ToSet(pushed[f])
       /\ resetAt[f] = 0 => \A i \in DOMAIN files[f].records : files[f].records[i].whole

RecordLines(f) == {files[f].records[i].line : i \in DOMAIN files[f].records}
PushedLines == UNION {ToSet(pushed[f]) : f \in File}
ShiftedLines == {shifted[i].line : i \in DOMAIN shifted}

\* "takes (and removes) records from pending validation queue to match": every
\* record is pending, was handed to an assert or discarded by a reset.
NoneDropped ==
    PushedLines \subseteq
       ShiftedLines \cup discarded \cup UNION {RecordLines(f) : f \in DOMAIN files}

\* The same by position, and handed out once at most.
TakenOnceByPosition ==
    ~useIndex => /\ NoneDropped
                 /\ \A i, j \in DOMAIN shifted : i # j => shifted[i].line # shifted[j].line

\* Registered but never read, while the next listing finds it unchanged.
Overlooked(f) ==
    /\ f \in DOMAIN files /\ At("list")
    /\ files[f].content = <<>>
    /\ files[f].size = Len(disk[f].text) /\ files[f].time = disk[f].time

\* A line the program ends in a file that only grows becomes a record, unless a
\* reset skips it or the reader stops, although snapshots are given up while the
\* file changes or cannot be asked for; only a new file given up is overlooked,
\* and only as long as it does not change (readLogFile, tryReadSnapshot).
LinesAreRead ==
    \A f \in File : \A line \in Line \ Excluded :
       2 * line \in ToSet(disk[f].text) ~>
          \/ line \in ToSet(pushed[f])
          \/ reader.pc \in {"off", "stopped", "crashed"}
          \/ f \in rotated \cup torn \/ resetAt[f] > 0
          \/ Overlooked(f)

=============================================================================
