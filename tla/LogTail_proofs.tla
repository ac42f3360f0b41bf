--------------------------- MODULE LogTail_proofs ---------------------------
(***************************************************************************)
(* Proofs about the log validator, for any files, lines, rotations, resets *)
(* and failures of the storage. The argument: units are written in order,  *)
(* and what is on a disk continues what a file was read as, or is all new; *)
(* a position is never before a line that is a record already, and in a    *)
(* file that only grows never after one that is not. So a line becomes a   *)
(* record once, and the record is pending, handed out or discarded.        *)
(***************************************************************************)
EXTENDS LogTail, FiniteSetTheorems, NaturalsInduction, SequenceTheorems, TLAPS

-----------------------------------------------------------------------------
(* Types. What the reader and the iterator are at is there.                *)

Following == {"snapshot", "stat", "compare", "store", "start", "push", "update"}

IteratorState == [on : BOOLEAN, order : Seq(File), at : Nat \ {0}, ready : BOOLEAN]

LogTyped ==
    /\ LogTypeOK
    /\ budget.lines <= MaxLines
    /\ reader.pc \in Following \cup {"file"} => reader.todo # <<>>
    /\ reader.pc \in Following => Candidate.name \in DOMAIN files
    /\ iterator \in IteratorState /\ iterator.order \in Seq(DOMAIN files)
    /\ iterator.ready =>
          /\ iterator.on /\ iterator.at \in DOMAIN iterator.order
          /\ files[Current].records # <<>>

-----------------------------------------------------------------------------
(* What a file is, seen from a reader at some place in it.                 *)

Growing(s) == \A i, j \in 1 .. Len(s) : i < j => s[i] < s[j]

\* Text written so far: its units in order, and whole lines but for the last.
Sound(s, top) ==
    /\ Growing(s)
    /\ \A i \in 1 .. Len(s) : s[i] <= top /\ (EndsLine(s[i]) <=> i % 2 = 0)

\* The lines of q come before the units of s after a position.
Passed(q, s, pos) == \A k \in 1 .. Len(q), i \in 1 .. Len(s) : pos < i => 2 * q[k] < s[i]

Starts(s, t) == Len(s) <= Len(t) /\ \A i \in 1 .. Len(s) : s[i] = t[i]

\* t continues s, or is all new: the file was rotated in between.
Follows(s, t, q) ==
    \/ Starts(s, t) /\ Passed(q, t, Len(s))
    \/ Passed(q, t, 0) /\ \A j \in 1 .. Len(s), i \in 1 .. Len(t) : s[j] < t[i]

Looking == {"stat", "compare", "store"}
Taking == {"start", "push", "update"}

\* d is on the disk, c was read, q are the records made, at and size the
\* position and size of the file, ra and ch those of the reader.
OrderOf(d, c, at, size, q, top, place, t, ra, ch) ==
    /\ Sound(d, top) /\ Sound(c, top) /\ Growing(q)
    /\ \A k \in 1 .. Len(q) : /\ 2 * q[k] <= top
                              /\ d # <<>> /\ ~EndsLine(d[Len(d)]) => 2 * q[k] <= d[Len(d)]
    /\ Follows(c, d, q)
    /\ place \in Looking => Sound(t, top) /\ Follows(c, t, q) /\ Follows(t, d, q)
    /\ place \in Taking => t = c /\ size = Len(c)
    /\ place = "store" => Passed(q, t, at) /\ Passed(q, t, size)
    /\ place # "store" => size = Len(c) \/ c = <<>>
    /\ place \notin {"store", "update"} => Passed(q, c, at)
    /\ place \in {"push", "update"} => Passed(q, c, ra) /\ ra <= Len(c)
    /\ place = "push" => at >= ra
    /\ place = "update" => at + ch >= ra

Under(f) == reader.pc \in Following /\ Candidate.name = f
Place(f) == IF Under(f) THEN reader.pc ELSE "away"
Content(f) == IF f \in DOMAIN files THEN files[f].content ELSE <<>>
Position(f) == IF f \in DOMAIN files THEN files[f].at ELSE 0
SizeOf(f) == IF f \in DOMAIN files THEN files[f].size ELSE 0
Top == 2 * (MaxLines - budget.lines)

FileOrderInv(f) ==
    OrderOf(disk[f].text, Content(f), Position(f), SizeOf(f), pushed[f], Top, Place(f),
            reader.text, reader.at, reader.chunk)

OrderInv == \A f \in File : FileOrderInv(f) /\ (f \notin DOMAIN files => pushed[f] = <<>>)

-----------------------------------------------------------------------------
(* Nothing is lost of a file that only grows.                              *)

Got(c, q, from, pos) ==
    \A i \in 1 .. Len(c) :
       EndsLine(c[i]) /\ from < i /\ i <= pos /\ LineOf(c[i]) \notin Excluded =>
          \E k \in 1 .. Len(q) : q[k] = LineOf(c[i])

KeptOf(d, c, at, size, q, from, place, t, ra, ch) ==
    /\ Starts(c, d)
    /\ place \in Looking => Starts(c, t) /\ Starts(t, d)
    /\ place \in Taking => t = c
    /\ size = Len(c) \/ c = <<>>
    /\ at <= Len(c) \/ at = from
    /\ place \notin Taking => Got(c, q, from, Len(c))
    /\ place = "start" => Got(c, q, from, at)
    /\ place \in {"push", "update"} => ra <= Len(c) /\ Got(c, q, from, ra)
    /\ place = "push" => at = ra
    /\ place = "update" => at + ch = ra
    /\ from = 0 => at % 2 = 0 /\ (place \in {"push", "update"} => ra % 2 = 0)

Grown == DOMAIN files \ (rotated \cup torn)

KeptFile(f) ==
    KeptOf(disk[f].text, Content(f), Position(f), SizeOf(f), pushed[f], resetAt[f],
           Place(f), reader.text, reader.at, reader.chunk)

\* No record lacks the start of its line, before the first reset.
WholeFile(f) == resetAt[f] = 0 => \A i \in DOMAIN files[f].records : files[f].records[i].whole

KeptInv == \A f \in Grown : KeptFile(f) /\ WholeFile(f)

-----------------------------------------------------------------------------
(* Records.                                                                *)

\* The lines that a file has had, as far as anybody knows.
Lines(s) == {LineOf(s[i]) : i \in 1 .. Len(s)}
Had(f) == Lines(disk[f].text) \cup Lines(Content(f)) \cup ToSet(pushed[f])
             \cup (IF Place(f) \in Looking \cup Taking THEN Lines(reader.text) ELSE {})

Apart == \A f, g \in File : f # g => Had(f) \cap Had(g) = {}

RecordsPushed ==
    \A f \in DOMAIN files :
       /\ RecordLines(f) \subseteq ToSet(pushed[f])
       /\ \A i, j \in DOMAIN files[f].records :
             i # j => files[f].records[i].line # files[f].records[j].line

ShiftedOnce ==
    /\ ShiftedLines \subseteq PushedLines
    /\ \A f \in DOMAIN files : ShiftedLines \cap RecordLines(f) = {}
    /\ \A i, j \in DOMAIN shifted : i # j => shifted[i].line # shifted[j].line

TakenInv == ~useIndex => RecordsPushed /\ ShiftedOnce /\ NoneDropped

-----------------------------------------------------------------------------
(* Types.                                                                  *)

\* A set of numbers has a least one: else x - 1 maps what is above it, up to
\* some member, into itself without that member.
LEMMA FirstOfSet ==
    ASSUME NEW S \in SUBSET Nat, S # {}
    PROVE  \E i \in S : \A j \in S : i <= j
<1> SUFFICES ASSUME \A i \in S : \E j \in S : j < i PROVE FALSE
  BY SMT
<1>1. PICK n \in S : TRUE
  OBVIOUS
<1> DEFINE above == {x \in 0 .. n : \E s \in S : s <= x}
           down == [x \in above |-> x - 1]
<1>2. IsFiniteSet(above) /\ above \subseteq 0 .. n
  <2>1. n \in Int /\ above \subseteq 0 .. n
    OBVIOUS
  <2>2. IsFiniteSet(0 .. n)
    BY <2>1, FS_Interval
  <2> QED
    BY <2>1, <2>2, FS_Subset
<1>3. n \in above
  BY <1>1
<1>4. IsFiniteSet(above \ {n}) /\ Cardinality(above \ {n}) < Cardinality(above)
  <2>1. /\ IsFiniteSet(above \ {n}) /\ Cardinality(above \ {n}) = Cardinality(above) - 1
    BY <1>2, <1>3, FS_RemoveElement
  <2>2. Cardinality(above) \in Nat
    BY <1>2, FS_CardinalityType
  <2> QED
    BY <2>1, <2>2
<1>5. down \in [above -> above \ {n}]
  <2> SUFFICES ASSUME NEW x \in above PROVE x - 1 \in above \ {n}
    OBVIOUS
  <2>1. PICK s \in S : s <= x
    OBVIOUS
  <2>2. PICK t \in S : t < s
    BY <2>1
  <2>3. x \in Nat /\ x <= n /\ s \in Nat /\ t \in Nat /\ n \in Nat
    OBVIOUS
  <2>4. x - 1 \in 0 .. n /\ t <= x - 1 /\ x - 1 # n
    BY <2>1, <2>2, <2>3
  <2> QED
    BY <2>4
<1>6. PICK x, y \in above : x # y /\ down[x] = down[y]
  <2> HIDE DEF above, down
  <2> QED
    BY <1>2, <1>4, <1>5, FS_PigeonHole, Zenon
<1> QED
  BY <1>6

LEMMA FirstIsFirst ==
    ASSUME NEW S \in SUBSET Nat, S # {}, NEW m, m = CHOOSE i \in S : \A j \in S : i <= j
    PROVE  m \in S /\ \A j \in S : m <= j
  BY FirstOfSet

LEMMA ReaderStateFacts ==
    ASSUME NEW r \in ReaderState
    PROVE  /\ r = [pc |-> r.pc, listens |-> r.listens, todo |-> r.todo, attempt |-> r.attempt,
                   size |-> r.size, text |-> r.text, at |-> r.at, chunk |-> r.chunk,
                   unstable |-> r.unstable]
           /\ r.listens \in BOOLEAN /\ r.todo \in Seq(Candidates) /\ r.attempt \in 0 .. 3
           /\ r.size \in Nat /\ r.text \in Text /\ r.at \in Nat /\ r.chunk \in Nat
           /\ r.unstable \in BOOLEAN
  BY DEF ReaderState

LEMMA NoReaderTyped == NoReader \in ReaderState
<1>1. <<>> \in Seq(Candidates) /\ <<>> \in Text
  BY EmptySeq DEF Text
<1> QED
  BY <1>1 DEF NoReader, ReaderState

\* A reader that starts over.
LEMMA NoReaderAt ==
    ASSUME NEW p, NEW b, NEW r
    PROVE  /\ r = [NoReader EXCEPT !.pc = p] =>
                 r = [pc |-> p, listens |-> FALSE, todo |-> <<>>, attempt |-> 0, size |-> 0,
                      text |-> <<>>, at |-> 0, chunk |-> 0, unstable |-> FALSE]
           /\ r = [NoReader EXCEPT !.pc = p, !.listens = b] =>
                 r = [pc |-> p, listens |-> b, todo |-> <<>>, attempt |-> 0, size |-> 0,
                      text |-> <<>>, at |-> 0, chunk |-> 0, unstable |-> FALSE]
  BY DEF NoReader

LEMMA CandidateTyped ==
    ASSUME LogTyped, reader.todo # <<>>
    PROVE  /\ Candidate \in Candidates /\ Candidate.name \in File
           /\ Candidate.size \in Nat /\ Candidate.time \in 0 .. MaxTime
           /\ Tail(reader.todo) \in Seq(Candidates)
<1>1. reader.todo \in Seq(Candidates)
  BY ReaderStateFacts DEF LogTyped, LogTypeOK
<1>2. Candidate \in Candidates /\ Tail(reader.todo) \in Seq(Candidates)
  BY <1>1, HeadTailProperties DEF Candidate
<1> QED
  BY <1>2 DEF Candidates

LEMMA NextFileTyped ==
    ASSUME LogTyped, reader.todo # <<>>, NEW b \in BOOLEAN
    PROVE  /\ NextFile(b) \in ReaderState
           /\ NextFile(b).pc \in {"listed", "file"}
           /\ NextFile(b).pc = "file" => NextFile(b).todo # <<>>
<1>1. Tail(reader.todo) \in Seq(Candidates) /\ reader.listens \in BOOLEAN
  BY CandidateTyped, ReaderStateFacts DEF LogTyped, LogTypeOK
<1>2. PICK rest : rest = Tail(reader.todo)
  OBVIOUS
<1>3. PICK p : p = IF rest = <<>> THEN "listed" ELSE "file"
  OBVIOUS
<1>4. NextFile(b) = [NoReader EXCEPT !.pc = p, !.listens = reader.listens, !.todo = rest, !.unstable = b]
  BY <1>2, <1>3, Zenon DEF NextFile
<1>5. p \in {"listed", "file"} /\ (p = "file" => rest # <<>>)
  BY <1>3
<1>6. <<>> \in Text
  BY EmptySeq DEF Text
<1>7. NextFile(b) = [pc |-> p, listens |-> reader.listens, todo |-> rest, attempt |-> 0,
                     size |-> 0, text |-> <<>>, at |-> 0, chunk |-> 0, unstable |-> b]
  BY <1>4 DEF NoReader
<1>8. NextFile(b) \in ReaderState
  BY <1>1, <1>2, <1>5, <1>6, <1>7 DEF ReaderState
<1> QED
  BY <1>5, <1>7, <1>8

\* The files and the reader, as long as nobody takes records.
LEMMA ReaderTyped ==
    ASSUME LogTyped, reader' \in ReaderState,
           reader'.pc \in Following \cup {"file"} => reader'.todo # <<>>,
           reader'.pc \in Following => Head(reader'.todo).name \in DOMAIN files',
           DOMAIN files \subseteq DOMAIN files', DOMAIN files' \subseteq File,
           \A f \in DOMAIN files' : files'[f] \in FileState,
           \A f \in DOMAIN files : files[f].records # <<>> => files'[f].records # <<>>,
           pushed' \in [File -> Seq(Line)], typeMeta' \in {"none", "nil", "meta"},
           budget' \in [{"lines", "rotations", "resets", "asserts", "failures"} -> Nat],
           budget'.lines = budget.lines,
           UNCHANGED <<disk, useIndex, iterator, rotated, torn, resetAt, discarded, shifted>>
    PROVE  LogTyped'
<1>1. iterator.order \in Seq(DOMAIN files')
  <2>1. iterator.order \in Seq(DOMAIN files)
    BY DEF LogTyped
  <2>2. \A i \in 1 .. Len(iterator.order) : iterator.order[i] \in DOMAIN files
    BY <2>1, ElementOfSeq
  <2> QED
    BY <2>1, <2>2
<1>2. iterator.ready => files'[Current].records # <<>>
  <2> SUFFICES ASSUME iterator.ready PROVE files'[Current].records # <<>>
    OBVIOUS
  <2>1. iterator.order \in Seq(DOMAIN files) /\ iterator.at \in DOMAIN iterator.order
        /\ files[Current].records # <<>>
    BY DEF LogTyped
  <2>2. Current \in DOMAIN files
    BY <2>1, ElementOfSeq DEF Current
  <2> QED
    BY <2>1, <2>2
<1>3. LogTypeOK'
  BY DEF LogTyped, LogTypeOK
<1>4. Current' = Current
  BY DEF Current
<1> QED
  BY <1>1, <1>2, <1>3, <1>4 DEF LogTyped, Candidate

\* A step that only moves the reader.
LEMMA OnlyReader ==
    ASSUME LogTyped, reader' \in ReaderState,
           reader'.pc \in Following \cup {"file"} => reader'.todo # <<>>,
           reader'.pc \in Following => Head(reader'.todo).name \in DOMAIN files,
           typeMeta' \in {"none", "nil", "meta"},
           UNCHANGED <<environment, budget, useIndex, files, torn, resetAt, discarded, pushed,
                       iterator, shifted>>
    PROVE  LogTyped'
<1>1. /\ DOMAIN files \subseteq File /\ \A f \in DOMAIN files : files[f] \in FileState
      /\ pushed \in [File -> Seq(Line)]
      /\ budget \in [{"lines", "rotations", "resets", "asserts", "failures"} -> Nat]
  BY DEF LogTyped, LogTypeOK
<1> QED
  BY <1>1, ReaderTyped DEF environment

\* The states of a reader that goes on with its file.
LEMMA GoesOnTyped ==
    ASSUME LogTyped, reader.pc \in Following, reader' \in ReaderState,
           reader'.todo = reader.todo
    PROVE  /\ reader'.pc \in Following \cup {"file"} => reader'.todo # <<>>
           /\ reader'.pc \in Following => Head(reader'.todo).name \in DOMAIN files
  BY DEF LogTyped, Candidate

LEMMA ListingTyped ==
    ASSUME LogTyped, NEW s \in Listings,
           NEW todo, todo = [i \in DOMAIN s |-> [name |-> s[i], size |-> Len(disk[s[i]].text),
                                                time |-> disk[s[i]].time]]
    PROVE  todo \in Seq(Candidates)
<1>1. /\ IsFiniteSet(Existing) /\ Existing \subseteq File
  BY LogAssumption, FS_Subset DEF Existing
<1>2. PICK n \in Nat : n = Cardinality(Existing)
  BY <1>1, FS_CardinalityType
<1>3. s \in [1 .. n -> File]
  BY <1>1, <1>2 DEF Listings
<1>4. \A i \in 1 .. n : todo[i] \in Candidates
  <2> SUFFICES ASSUME NEW i \in 1 .. n PROVE todo[i] \in Candidates
    OBVIOUS
  <2>1. s[i] \in File /\ todo[i] = [name |-> s[i], size |-> Len(disk[s[i]].text),
                                    time |-> disk[s[i]].time]
    BY <1>3
  <2>2. disk[s[i]].text \in Text /\ disk[s[i]].time \in 0 .. MaxTime
    BY <2>1 DEF LogTyped, LogTypeOK
  <2>3. Len(disk[s[i]].text) \in Nat
    BY <2>2, LenProperties DEF Text
  <2> QED
    BY <2>1, <2>2, <2>3 DEF Candidates
<1>5. todo \in [1 .. n -> Candidates]
  BY <1>3, <1>4
<1> QED
  BY <1>2, <1>5, SeqDef

LEMMA ListFilesTyped == LogTyped /\ ListFiles => LogTyped'
<1> SUFFICES ASSUME LogTyped, ListFiles PROVE LogTyped'
  OBVIOUS
<1>1. PICK s \in Listings :
         LET todo == [i \in DOMAIN s |-> [name |-> s[i], size |-> Len(disk[s[i]].text),
                                         time |-> disk[s[i]].time]]
         IN  reader' = [reader EXCEPT !.todo = todo,
                                      !.pc = IF todo = <<>> THEN "listed" ELSE "file"]
  BY DEF ListFiles
<1>2. PICK todo : todo = [i \in DOMAIN s |-> [name |-> s[i], size |-> Len(disk[s[i]].text),
                                             time |-> disk[s[i]].time]]
  OBVIOUS
<1>3. todo \in Seq(Candidates)
  BY <1>2, ListingTyped
<1>4. PICK p : p = IF todo = <<>> THEN "listed" ELSE "file"
  OBVIOUS
<1>5. reader' = [reader EXCEPT !.todo = todo, !.pc = p]
  BY <1>1, <1>2, <1>4, Zenon
<1>6. reader \in ReaderState
  BY DEF LogTyped, LogTypeOK
<1>7. reader' \in ReaderState /\ reader'.pc = p /\ reader'.todo = todo
  BY <1>3, <1>4, <1>5, <1>6 DEF ReaderState
<1>8. p \in {"listed", "file"} /\ (p = "file" => todo # <<>>)
  BY <1>4
<1>9. p \notin Following
  BY <1>8 DEF Following
<1>10. typeMeta \in {"none", "nil", "meta"}
  BY DEF LogTyped, LogTypeOK
<1> QED
  BY <1>7, <1>8, <1>9, <1>10, OnlyReader DEF ListFiles, queues

LEMMA IdlingTyped ==
    ASSUME LogTyped, NEW p \in {"off", "list", "stopped", "crashed"}, NEW b \in BOOLEAN,
           \/ reader' = [NoReader EXCEPT !.pc = p, !.listens = b]
           \/ reader' = [NoReader EXCEPT !.pc = p],
           typeMeta' \in {"none", "nil", "meta"},
           UNCHANGED <<environment, budget, useIndex, files, torn, resetAt, discarded, pushed,
                       iterator, shifted>>
    PROVE  LogTyped'
<1>1. <<>> \in Seq(Candidates) /\ <<>> \in Text
  BY EmptySeq DEF Text
<1>2. PICK d \in BOOLEAN :
         reader' = [pc |-> p, listens |-> d, todo |-> <<>>, attempt |-> 0, size |-> 0,
                    text |-> <<>>, at |-> 0, chunk |-> 0, unstable |-> FALSE]
  BY NoReaderAt
<1>3. reader' \in ReaderState /\ reader'.pc = p
  BY <1>1, <1>2 DEF ReaderState
<1>4. p \notin Following \cup {"file"}
  BY DEF Following
<1> QED
  BY <1>3, <1>4, OnlyReader

LEMMA RestTyped ==
    ASSUME LogTyped, EndListing \/ Close \/ Crash \/ Listen PROVE LogTyped'
<1>1. typeMeta \in {"none", "nil", "meta"} /\ typeMeta' \in {"none", "nil", "meta"}
  BY DEF LogTyped, LogTypeOK, EndListing, Close, Crash, Listen, queues
<1>2. CASE EndListing
  BY <1>1, <1>2, IdlingTyped DEF EndListing
<1>3. CASE Close
  BY <1>1, <1>3, IdlingTyped DEF Close, queues
<1>4. CASE Crash
  BY <1>1, <1>4, IdlingTyped DEF Crash, queues
<1>5. CASE Listen
  BY <1>1, <1>5, IdlingTyped DEF Listen, queues
<1> QED
  BY <1>2, <1>3, <1>4, <1>5


LEMMA ReaderFailsTyped == LogTyped /\ ReaderFails => LogTyped'
<1> SUFFICES ASSUME LogTyped, ReaderFails PROVE LogTyped'
  OBVIOUS
<1>1. reader' = [NoReader EXCEPT !.pc = IF reader.listens THEN "off" ELSE "stopped"]
      /\ UNCHANGED <<environment, useIndex, queues, iterator, shifted>> /\ Spend("failures")
  BY DEF ReaderFails
<1>2. PICK p : p = IF reader.listens THEN "off" ELSE "stopped"
  OBVIOUS
<1>3. reader' = [pc |-> p, listens |-> FALSE, todo |-> <<>>, attempt |-> 0, size |-> 0,
                 text |-> <<>>, at |-> 0, chunk |-> 0, unstable |-> FALSE]
  BY <1>1, <1>2, NoReaderAt
<1>4. p \in {"off", "stopped"}
  BY <1>2
<1>5. <<>> \in Seq(Candidates) /\ <<>> \in Text
  BY EmptySeq DEF Text
<1>6. reader' \in ReaderState /\ reader'.pc = p
  BY <1>3, <1>4, <1>5 DEF ReaderState
<1>7. budget \in [{"lines", "rotations", "resets", "asserts", "failures"} -> Nat]
  BY DEF LogTyped, LogTypeOK
<1>8. /\ budget' \in [{"lines", "rotations", "resets", "asserts", "failures"} -> Nat]
      /\ budget'.lines = budget.lines
  BY <1>1, <1>7 DEF Spend
<1>9. p \notin Following \cup {"file"}
  BY <1>4 DEF Following
<1>10. /\ DOMAIN files \subseteq File /\ \A f \in DOMAIN files : files[f] \in FileState
       /\ pushed \in [File -> Seq(Line)] /\ typeMeta \in {"none", "nil", "meta"}
  BY DEF LogTyped, LogTypeOK
<1> QED
  BY <1>1, <1>6, <1>8, <1>9, <1>10, ReaderTyped DEF environment, queues

LEMMA OpenFileTyped == LogTyped /\ OpenFile => LogTyped'
<1> SUFFICES ASSUME LogTyped, OpenFile PROVE LogTyped'
  OBVIOUS
<1>1. PICK c : c = Candidate
  OBVIOUS
<1>4. /\ files' = [f \in DOMAIN files \cup {c.name} |->
                      IF f \in DOMAIN files THEN files[f] ELSE NewFile(c)]
      /\ \/ reader' = NextFile(FALSE)
         \/ reader' = [reader EXCEPT !.pc = "snapshot", !.size = c.size, !.attempt = 1]
  BY <1>1 DEF OpenFile
<1>5. reader.todo # <<>> /\ reader \in ReaderState
  BY DEF OpenFile, At, LogTyped, LogTypeOK
<1>6. c.name \in File /\ c.size \in Nat /\ c.time \in 0 .. MaxTime
  BY <1>1, <1>5, CandidateTyped
<1>7. DOMAIN files \subseteq File /\ \A f \in DOMAIN files : files[f] \in FileState
  BY DEF LogTyped, LogTypeOK
<1>8. NewFile(c) \in FileState
  <2>1. <<>> \in Text /\ <<>> \in Seq(Record)
    BY EmptySeq DEF Text
  <2> QED
    BY <1>6, <2>1 DEF NewFile, FileState
<1>9. /\ DOMAIN files' = DOMAIN files \cup {c.name}
      /\ \A f \in DOMAIN files : files'[f] = files[f]
      /\ \A f \in DOMAIN files' : files'[f] \in FileState
  BY <1>4, <1>7, <1>8
<1>10. /\ reader' \in ReaderState
       /\ reader'.pc \in Following \cup {"file"} => reader'.todo # <<>>
       /\ reader'.pc \in Following => Head(reader'.todo).name \in DOMAIN files'
  <2>1. CASE reader' = NextFile(FALSE)
    <3>1. "listed" \notin Following \cup {"file"} /\ "file" \notin Following
      BY DEF Following
    <3> QED
      BY <1>4, <1>5, <2>1, <3>1, NextFileTyped
  <2>2. CASE reader' = [reader EXCEPT !.pc = "snapshot", !.size = c.size, !.attempt = 1]
    <3>1. PICK n \in Nat : n = c.size
      BY <1>6
    <3>2. PICK p \in Following, k \in 0 .. 3 : p = "snapshot" /\ k = 1
      BY DEF Following
    <3>4. reader' = [reader EXCEPT !.pc = p, !.size = n, !.attempt = k]
      BY <2>2, <3>1, <3>2
    <3>3. reader' \in ReaderState /\ reader'.todo = reader.todo
      BY <1>5, <3>4 DEF ReaderState, Following
    <3> QED
      BY <1>1, <1>5, <1>9, <3>3 DEF Candidate
  <2> QED
    BY <1>4, <2>1, <2>2
<1>11. /\ pushed \in [File -> Seq(Line)]
       /\ budget \in [{"lines", "rotations", "resets", "asserts", "failures"} -> Nat]
  BY DEF LogTyped, LogTypeOK
<1>12. typeMeta' = "meta"
       /\ UNCHANGED <<environment, budget, useIndex, torn, resetAt, discarded, pushed, iterator, shifted>>
  BY DEF OpenFile
<1> QED
  BY <1>6, <1>7, <1>9, <1>10, <1>11, <1>12, ReaderTyped DEF environment

\* The text of the file that the reader is at.
LEMMA CandidateText ==
    ASSUME LogTyped, reader.pc \in Following
    PROVE  /\ Candidate.name \in DOMAIN files /\ Candidate.name \in File
           /\ reader \in ReaderState /\ reader.todo # <<>>
           /\ disk[Candidate.name].text \in Text /\ Len(disk[Candidate.name].text) \in Nat
           /\ files[Candidate.name] \in FileState
           /\ typeMeta \in {"none", "nil", "meta"}
<1>1. reader \in ReaderState /\ reader.todo # <<>> /\ Candidate.name \in DOMAIN files
      /\ typeMeta \in {"none", "nil", "meta"}
  BY DEF LogTyped, LogTypeOK
<1>2. Candidate.name \in File /\ files[Candidate.name] \in FileState
  BY <1>1 DEF LogTyped, LogTypeOK
<1>3. disk[Candidate.name].text \in Text
  BY <1>2 DEF LogTyped, LogTypeOK
<1> QED
  BY <1>1, <1>2, <1>3, LenProperties DEF Text

\* A step after which the reader has the next file to read.
LEMMA NextOnly ==
    ASSUME LogTyped, reader.todo # <<>>, NEW b \in BOOLEAN, reader' = NextFile(b)
    PROVE  /\ reader' \in ReaderState
           /\ reader'.pc \in Following \cup {"file"} => reader'.todo # <<>>
           /\ reader'.pc \notin Following
  BY NextFileTyped DEF Following

LEMMA SnapshotTyped == LogTyped /\ TakeSnapshot => LogTyped'
<1> SUFFICES ASSUME LogTyped, TakeSnapshot PROVE LogTyped'
  OBVIOUS
<1>1. reader.pc \in Following
  BY DEF TakeSnapshot, At, Following
<1>2. PICK t \in Text : t = disk[Candidate.name].text
  BY <1>1, CandidateText
<1>3. PICK p \in Following : p = "stat"
  BY DEF Following
<1>4. reader' = [reader EXCEPT !.pc = p, !.text = t]
  BY <1>2, <1>3 DEF TakeSnapshot
<1>5. reader' \in ReaderState /\ reader'.todo = reader.todo
  BY <1>1, <1>4, CandidateText DEF ReaderState, Following
<1>6. UNCHANGED <<environment, budget, useIndex, files, torn, resetAt, discarded, pushed,
                  iterator, shifted>> /\ typeMeta' = typeMeta
  BY DEF TakeSnapshot, queues
<1> QED
  BY <1>1, <1>5, <1>6, GoesOnTyped, CandidateText, OnlyReader

LEMMA StatTyped == LogTyped /\ StatSnapshot => LogTyped'
<1> SUFFICES ASSUME LogTyped, StatSnapshot PROVE LogTyped'
  OBVIOUS
<1>1. reader.pc \in Following
  BY DEF StatSnapshot, At, Following
<1>2. PICK n \in Nat : n = Len(disk[Candidate.name].text)
  BY <1>1, CandidateText
<1>3. \/ reader' = Read("compare")
      \/ reader.attempt < 3
         /\ reader' = [reader EXCEPT !.pc = "snapshot", !.size = n, !.attempt = @ + 1]
      \/ reader' = NextFile(TRUE)
  BY <1>2 DEF StatSnapshot
<1>4. UNCHANGED <<environment, budget, useIndex, files, torn, resetAt, discarded, pushed,
                  iterator, shifted>> /\ typeMeta' = typeMeta
  BY DEF StatSnapshot, queues
<1>5. CASE reader' = Read("compare")
  <2>1. PICK p \in Following : p = "compare"
    BY DEF Following
  <2>2. reader' = [reader EXCEPT !.pc = p]
    BY <1>5, <2>1 DEF Read
  <2>3. reader' \in ReaderState /\ reader'.todo = reader.todo
    BY <1>1, <2>2, CandidateText DEF ReaderState, Following
  <2> QED
    BY <1>1, <1>4, <2>3, GoesOnTyped, CandidateText, OnlyReader
<1>6. CASE reader.attempt < 3
           /\ reader' = [reader EXCEPT !.pc = "snapshot", !.size = n, !.attempt = @ + 1]
  <2>1. PICK p \in Following, k \in 0 .. 3 : p = "snapshot" /\ k = reader.attempt + 1
    <3>1. reader.attempt \in 0 .. 3
      BY <1>1, CandidateText, ReaderStateFacts
    <3> QED
      BY <1>6, <3>1 DEF Following
  <2>2. reader' = [reader EXCEPT !.pc = p, !.size = n, !.attempt = k]
    BY <1>6, <2>1
  <2>3. reader' \in ReaderState /\ reader'.todo = reader.todo
    BY <1>1, <2>2, CandidateText DEF ReaderState, Following
  <2> QED
    BY <1>1, <1>4, <2>3, GoesOnTyped, CandidateText, OnlyReader
<1>7. CASE reader' = NextFile(TRUE)
  BY <1>1, <1>4, <1>7, NextOnly, CandidateText, OnlyReader
<1> QED
  BY <1>3, <1>5, <1>6, <1>7

LEMMA StartTyped == LogTyped /\ StartRecords => LogTyped'
<1> SUFFICES ASSUME LogTyped, StartRecords PROVE LogTyped'
  OBVIOUS
<1>1. reader.pc \in Following
  BY DEF StartRecords, At, Following
<1>2. PICK n \in Nat : n = files[Candidate.name].at
  BY <1>1, CandidateText DEF FileState
<1>3. reader' = [reader EXCEPT !.pc = "push", !.at = n] \/ reader' = NextFile(FALSE)
  BY <1>2 DEF StartRecords
<1>4. UNCHANGED <<environment, budget, useIndex, files, torn, resetAt, discarded, pushed,
                  iterator, shifted>> /\ typeMeta' = typeMeta
  BY DEF StartRecords, queues
<1>5. CASE reader' = [reader EXCEPT !.pc = "push", !.at = n]
  <2>1. PICK p \in Following : p = "push"
    BY DEF Following
  <2>2. reader' = [reader EXCEPT !.pc = p, !.at = n]
    BY <1>5, <2>1
  <2>3. reader' \in ReaderState /\ reader'.todo = reader.todo
    BY <1>1, <2>2, CandidateText DEF ReaderState, Following
  <2> QED
    BY <1>1, <1>4, <2>3, GoesOnTyped, CandidateText, OnlyReader
<1>6. CASE reader' = NextFile(FALSE)
  BY <1>1, <1>4, <1>6, NextOnly, CandidateText, OnlyReader
<1> QED
  BY <1>3, <1>5, <1>6

LEMMA EndRecordsTyped == LogTyped /\ EndRecords => LogTyped'
<1> SUFFICES ASSUME LogTyped, EndRecords PROVE LogTyped'
  OBVIOUS
<1>1. reader.pc \in Following /\ reader' = NextFile(FALSE)
  BY DEF EndRecords, At, Following
<1>2. UNCHANGED <<environment, budget, useIndex, files, torn, resetAt, discarded, pushed,
                  iterator, shifted>> /\ typeMeta' = typeMeta
  BY DEF EndRecords, queues
<1> QED
  BY <1>1, <1>2, NextOnly, CandidateText, OnlyReader

\* A step of the reader that changes the file it is at.
LEMMA OneFileTyped ==
    ASSUME LogTyped, reader.pc \in Following, reader' \in ReaderState,
           reader'.pc \in Following \cup {"file"} => reader'.todo # <<>>,
           reader'.pc \in Following => reader'.todo = reader.todo,
           NEW new \in FileState, files[Candidate.name].records # <<>> => new.records # <<>>,
           files' = [files EXCEPT ![Candidate.name] = new],
           pushed' \in [File -> Seq(Line)],
           UNCHANGED <<environment, budget, useIndex, typeMeta, torn, resetAt, discarded,
                       iterator, shifted>>
    PROVE  LogTyped'
<1>1. PICK f \in DOMAIN files : f = Candidate.name
  BY CandidateText
<1>2. /\ DOMAIN files \subseteq File /\ \A g \in DOMAIN files : files[g] \in FileState
      /\ typeMeta \in {"none", "nil", "meta"}
      /\ budget \in [{"lines", "rotations", "resets", "asserts", "failures"} -> Nat]
  BY DEF LogTyped, LogTypeOK
<1>3. DOMAIN files' = DOMAIN files /\ files'[f] = new
      /\ \A g \in DOMAIN files : g # f => files'[g] = files[g]
  BY <1>1
<1>4. \A g \in DOMAIN files' : files'[g] \in FileState
  BY <1>2, <1>3
<1>5. \A g \in DOMAIN files : files[g].records # <<>> => files'[g].records # <<>>
  BY <1>1, <1>3
<1>6. reader'.pc \in Following => Head(reader'.todo).name \in DOMAIN files'
  BY <1>1, <1>3 DEF Candidate
<1> QED
  BY <1>2, <1>3, <1>4, <1>5, <1>6, ReaderTyped DEF environment

LEMMA CompareTyped == LogTyped /\ CompareContent => LogTyped'
<1> SUFFICES ASSUME LogTyped, CompareContent PROVE LogTyped'
  OBVIOUS
<1>1. reader.pc \in Following
  BY DEF CompareContent, At, Following
<1>2. PICK f \in DOMAIN files : f = Candidate.name
  BY <1>1, CandidateText
<1>3. PICK n \in Nat, m \in 0 .. MaxTime : n = Candidate.size /\ m = Candidate.time
  BY <1>1, CandidateText, CandidateTyped
<1>4. \/ files' = [files EXCEPT ![f].size = n, ![f].time = m, ![f].at = 0]
      \/ files' = files
  BY <1>2, <1>3 DEF CompareContent
<1>5. files[f] \in FileState
  BY <1>1, <1>2, CandidateText
<1>6. PICK p \in Following : p = "store"
  BY DEF Following
<1>7. reader' = [reader EXCEPT !.pc = p]
  BY <1>6 DEF CompareContent, Read
<1>8. reader' \in ReaderState /\ reader'.todo = reader.todo /\ reader.todo # <<>>
  BY <1>1, <1>7, CandidateText DEF ReaderState, Following
<1>9. CASE files' = files
  BY <1>1, <1>8, <1>9, GoesOnTyped, CandidateText, OnlyReader DEF CompareContent
<1>10. CASE files' = [files EXCEPT ![f].size = n, ![f].time = m, ![f].at = 0]
  <2>1. PICK new : new = [files[f] EXCEPT !.size = n, !.time = m, !.at = 0]
    OBVIOUS
  <2>2. new \in FileState /\ new.records = files[f].records
    BY <1>5, <2>1 DEF FileState
  <2>3. files' = [files EXCEPT ![f] = new]
    BY <1>10, <2>1
  <2>4. pushed \in [File -> Seq(Line)]
    BY DEF LogTyped, LogTypeOK
  <2> QED
    BY <1>1, <1>2, <1>8, <2>2, <2>3, <2>4, OneFileTyped DEF CompareContent
<1> QED
  BY <1>4, <1>9, <1>10

LEMMA StoreTyped == LogTyped /\ StoreContent => LogTyped'
<1> SUFFICES ASSUME LogTyped, StoreContent PROVE LogTyped'
  OBVIOUS
<1>1. reader.pc \in Following
  BY DEF StoreContent, At, Following
<1>2. PICK f \in DOMAIN files : f = Candidate.name
  BY <1>1, CandidateText
<1>3. PICK t \in Text, n \in Nat : t = reader.text /\ n = Len(reader.text)
  BY <1>1, CandidateText, ReaderStateFacts, LenProperties DEF Text
<1>4. files' = [files EXCEPT ![f].content = t, ![f].size = n]
  BY <1>2, <1>3 DEF StoreContent
<1>5. files[f] \in FileState
  BY <1>1, <1>2, CandidateText
<1>6. PICK new : new = [files[f] EXCEPT !.content = t, !.size = n]
  OBVIOUS
<1>7. new \in FileState /\ new.records = files[f].records
  BY <1>5, <1>6 DEF FileState
<1>8. files' = [files EXCEPT ![f] = new]
  BY <1>4, <1>6
<1>9. pushed \in [File -> Seq(Line)] /\ reader.todo # <<>>
  BY <1>1 DEF LogTyped, LogTypeOK
<1>10. CASE reader' = NextFile(FALSE)
  BY <1>1, <1>2, <1>7, <1>8, <1>9, <1>10, NextOnly, OneFileTyped DEF StoreContent
<1>11. CASE reader' = Read("start")
  <2>1. PICK p \in Following : p = "start"
    BY DEF Following
  <2>2. reader' = [reader EXCEPT !.pc = p]
    BY <1>11, <2>1 DEF Read
  <2>3. reader' \in ReaderState /\ reader'.todo = reader.todo
    BY <1>1, <2>2, CandidateText DEF ReaderState, Following
  <2> QED
    BY <1>1, <1>2, <1>7, <1>8, <1>9, <2>3, OneFileTyped DEF StoreContent
<1> QED
  BY <1>10, <1>11 DEF StoreContent

LEMMA UpdateTyped == LogTyped /\ UpdatePosition => LogTyped'
<1> SUFFICES ASSUME LogTyped, UpdatePosition PROVE LogTyped'
  OBVIOUS
<1>1. reader.pc \in Following
  BY DEF UpdatePosition, At, Following
<1>2. PICK f \in DOMAIN files : f = Candidate.name
  BY <1>1, CandidateText
<1>3. files[f] \in FileState
  BY <1>1, <1>2, CandidateText
<1>4. PICK n \in Nat : n = files[f].at + reader.chunk
  <2>1. files[f].at \in Nat /\ reader.chunk \in Nat
    BY <1>1, <1>3, CandidateText, ReaderStateFacts DEF FileState
  <2> QED
    BY <2>1
<1>5. files' = [files EXCEPT ![f].at = n]
  BY <1>2, <1>4 DEF UpdatePosition
<1>6. PICK new : new = [files[f] EXCEPT !.at = n]
  OBVIOUS
<1>7. new \in FileState /\ new.records = files[f].records
  BY <1>3, <1>6 DEF FileState
<1>8. files' = [files EXCEPT ![f] = new]
  BY <1>5, <1>6
<1>9. pushed \in [File -> Seq(Line)] /\ reader.todo # <<>>
  BY <1>1 DEF LogTyped, LogTypeOK
<1>10. PICK p \in Following : p = "push"
  BY DEF Following
<1>11. reader' = [reader EXCEPT !.pc = p]
  BY <1>10 DEF UpdatePosition, Read
<1>12. reader' \in ReaderState /\ reader'.todo = reader.todo
  BY <1>1, <1>11, CandidateText DEF ReaderState, Following
<1> QED
  BY <1>1, <1>2, <1>7, <1>8, <1>9, <1>12, OneFileTyped DEF UpdatePosition

\* The end of the next line, where there is one.
LEMMA NextEndFacts ==
    ASSUME LogTyped, EndsAfter(reader.at) # {}
    PROVE  /\ NextEnd(reader.at) \in reader.at + 1 .. Len(reader.text)
           /\ NextEnd(reader.at) \in Nat /\ reader.at \in Nat /\ Len(reader.text) \in Nat
           /\ reader.text[NextEnd(reader.at)] \in 1 .. 2 * MaxLines
           /\ EndsLine(reader.text[NextEnd(reader.at)])
           /\ \A i \in reader.at + 1 .. Len(reader.text) :
                 EndsLine(reader.text[i]) => NextEnd(reader.at) <= i
<1>1. reader.at \in Nat /\ reader.text \in Text
  BY ReaderStateFacts DEF LogTyped, LogTypeOK
<1>2. Len(reader.text) \in Nat /\ \A i \in 1 .. Len(reader.text) : reader.text[i] \in 1 .. 2 * MaxLines
  BY <1>1, LenProperties, ElementOfSeq DEF Text
<1>3. PICK a \in Nat, n \in Nat : a = reader.at /\ n = Len(reader.text)
  BY <1>1, <1>2
<1>4. EndsAfter(a) \in SUBSET Nat /\ EndsAfter(a) # {} /\ EndsAfter(a) \subseteq a + 1 .. n
  BY <1>3 DEF EndsAfter
<1>5. NextEnd(a) \in EndsAfter(a) /\ \A j \in EndsAfter(a) : NextEnd(a) <= j
  BY <1>4, FirstIsFirst DEF NextEnd
<1>6. NextEnd(a) \in a + 1 .. n /\ NextEnd(a) \in Nat /\ NextEnd(a) \in 1 .. n
  BY <1>3, <1>4, <1>5
<1>7. EndsLine(reader.text[NextEnd(a)])
  BY <1>5 DEF EndsAfter
<1>8. \A i \in a + 1 .. n : EndsLine(reader.text[i]) => NextEnd(a) <= i
  BY <1>3, <1>5 DEF EndsAfter
<1> QED
  BY <1>2, <1>3, <1>6, <1>7, <1>8

LEMMA LineTyped ==
    ASSUME NEW u \in 1 .. 2 * MaxLines PROVE LineOf(u) \in Line
<1>1. MaxLines \in Nat
  BY LogAssumption
<1> QED
  BY <1>1 DEF LineOf, Line

\* A line becomes a record of a file.
BecomesRecord(f, line, w, new) ==
    /\ new \in FileState
    /\ new.records = Append(files[f].records, [line |-> line, whole |-> w])
    /\ new.content = files[f].content /\ new.size = files[f].size /\ new.at = files[f].at
    /\ files' = [files EXCEPT ![f] = new]
    /\ pushed' = [pushed EXCEPT ![f] = Append(@, line)]

\* What a step makes of a line that ends at a place.
PushesLine(f, line, end) ==
    \/ line \in Excluded /\ files' = files /\ pushed' = pushed
    \/ line \notin Excluded
       /\ \E w \in BOOLEAN : \E new : (w <=> end = reader.at + 2) /\ BecomesRecord(f, line, w, new)

LEMMA PushEffect ==
    ASSUME LogTyped, PushRecord,
           NEW f, f = Candidate.name, NEW end, end = NextEnd(reader.at),
           NEW line, line = LineOf(reader.text[end])
    PROVE  /\ reader.pc = "push" /\ EndsAfter(reader.at) # {}
           /\ f \in DOMAIN files /\ line \in Line
           /\ reader' = [reader EXCEPT !.pc = "update", !.at = end, !.chunk = end - reader.at]
           /\ PushesLine(f, line, end)
<1>1. reader.pc = "push" /\ EndsAfter(reader.at) # {} /\ reader.pc \in Following
  BY DEF PushRecord, At, Following
<1>2. f \in DOMAIN files /\ files[f] \in FileState
  BY <1>1, CandidateText
<1>3. line \in Line
  BY <1>1, NextEndFacts, LineTyped
<1>4. reader' = [reader EXCEPT !.pc = "update", !.at = end, !.chunk = end - reader.at]
  BY DEF PushRecord
<1>5. CASE line \in Excluded
  <2>1. files' = files /\ pushed' = pushed
    BY <1>5 DEF PushRecord
  <2> QED
    BY <1>1, <1>2, <1>3, <1>4, <1>5, <2>1 DEF PushesLine
<1>6. CASE line \notin Excluded
  <2>1. PICK w \in BOOLEAN : w <=> end = reader.at + 2
    OBVIOUS
  <2>2. PICK record : record = [line |-> line, whole |-> w]
    OBVIOUS
  <2>3. record \in Record
    BY <1>3, <2>2 DEF Record
  <2>4. PICK indexed : indexed = IF useIndex /\ record.whole THEN files[f].index \cup {line}
                                 ELSE files[f].index
    OBVIOUS
  <2>5. indexed \subseteq Line
    BY <1>2, <1>3, <2>4 DEF FileState
  <2>6. record.whole <=> end = reader.at + 2
    BY <2>1, <2>2
  <2>7. record = [line |-> line, whole |-> end = reader.at + 2]
    BY <2>1, <2>2
  <2>8. files' = [files EXCEPT ![f].records = Append(@, record),
                               ![f].index = IF useIndex /\ record.whole THEN @ \cup {line} ELSE @]
        /\ pushed' = [pushed EXCEPT ![f] = Append(@, line)]
    BY <1>6, <2>7, Zenon DEF PushRecord
  <2>9. PICK rs : rs = Append(files[f].records, record)
    OBVIOUS
  <2>10. rs \in Seq(Record)
    BY <1>2, <2>3, <2>9, AppendProperties DEF FileState
  <2>11. PICK new : new = [files[f] EXCEPT !.records = rs, !.index = indexed]
    OBVIOUS
  <2>12. /\ new \in FileState /\ new.records = rs /\ new.content = files[f].content
         /\ new.size = files[f].size /\ new.at = files[f].at
    BY <1>2, <2>5, <2>10, <2>11 DEF FileState
  <2>13. files' = [files EXCEPT ![f] = new]
    BY <1>2, <2>4, <2>8, <2>9, <2>11
  <2>14. BecomesRecord(f, line, w, new)
    BY <2>2, <2>8, <2>9, <2>12, <2>13 DEF BecomesRecord
  <2>15. \E x \in BOOLEAN : \E y : (x <=> end = reader.at + 2) /\ BecomesRecord(f, line, x, y)
    BY <2>1, <2>14, Zenon
  <2> QED
    BY <1>1, <1>2, <1>3, <1>4, <1>6, <2>15 DEF PushesLine
<1> QED
  BY <1>5, <1>6

LEMMA PushTyped == LogTyped /\ PushRecord => LogTyped'
<1> SUFFICES ASSUME LogTyped, PushRecord PROVE LogTyped'
  OBVIOUS
<1>1. PICK f, end, line : /\ f = Candidate.name /\ end = NextEnd(reader.at)
                          /\ line = LineOf(reader.text[end])
  OBVIOUS
<1>2. reader.pc \in Following /\ EndsAfter(reader.at) # {} /\ f \in DOMAIN files /\ line \in Line
  BY <1>1, PushEffect DEF Following
<1>3. PICK p \in Following : p = "update"
  BY DEF Following
<1>4. PICK n \in Nat, k \in Nat : n = end /\ k = end - reader.at
  BY <1>1, <1>2, NextEndFacts
<1>5. reader' = [reader EXCEPT !.pc = p, !.at = n, !.chunk = k]
  BY <1>1, <1>3, <1>4, PushEffect
<1>6. reader' \in ReaderState /\ reader'.todo = reader.todo /\ reader.todo # <<>>
  BY <1>2, <1>5, CandidateText DEF ReaderState, Following
<1>7. pushed \in [File -> Seq(Line)] /\ f \in File
  BY <1>1, <1>2, CandidateText DEF LogTyped, LogTypeOK
<1>8. CASE files' = files /\ pushed' = pushed
  BY <1>2, <1>6, <1>8, GoesOnTyped, CandidateText, OnlyReader DEF PushRecord
<1>9. CASE \E w \in BOOLEAN : \E new : BecomesRecord(f, line, w, new)
  <2>1. PICK w \in BOOLEAN, new \in FileState :
              /\ new.records = Append(files[f].records, [line |-> line, whole |-> w])
              /\ files' = [files EXCEPT ![f] = new]
              /\ pushed' = [pushed EXCEPT ![f] = Append(@, line)]
    BY <1>9 DEF BecomesRecord
  <2>2. pushed' \in [File -> Seq(Line)]
    BY <1>2, <1>7, <2>1, AppendProperties
  <2>3. new.records # <<>>
    <3>1. files[f].records \in Seq(Record)
      BY <1>1, <1>2, CandidateText DEF FileState
    <3>2. [line |-> line, whole |-> w] \in Record
      BY <1>2 DEF Record
    <3> QED
      BY <2>1, <3>1, <3>2, AppendProperties
  <2> QED
    BY <1>1, <1>2, <1>6, <2>1, <2>2, <2>3, OneFileTyped DEF PushRecord
<1>10. \/ files' = files /\ pushed' = pushed
       \/ \E w \in BOOLEAN : \E new : BecomesRecord(f, line, w, new)
  <2>1. PushesLine(f, line, end)
    BY <1>1, PushEffect, Zenon
  <2>4. \/ line \in Excluded /\ files' = files /\ pushed' = pushed
        \/ line \notin Excluded
           /\ \E w \in BOOLEAN : \E new : (w <=> end = reader.at + 2) /\ BecomesRecord(f, line, w, new)
    BY <2>1, Zenon DEF PushesLine
  <2>2. CASE line \in Excluded /\ files' = files /\ pushed' = pushed
    BY <2>2
  <2>3. ASSUME \E w \in BOOLEAN : \E new : (w <=> end = reader.at + 2) /\ BecomesRecord(f, line, w, new)
        PROVE  \E w \in BOOLEAN : \E new : BecomesRecord(f, line, w, new)
    BY <2>3, Zenon
  <2> QED
    BY <2>2, <2>3, <2>4
<1> QED
  BY <1>8, <1>9, <1>10

-----------------------------------------------------------------------------
(* The program under test.                                                 *)

\* What a file may become: longer by a line or the start of one, by the end of
\* the last line, or empty.
Written(f, t) ==
    \/ /\ budget.lines > 0 /\ budget'.lines = budget.lines - 1 /\ ~Unended(f)
       /\ \/ t = disk[f].text \o <<Top + 1, Top + 2>>
          \/ t = Append(disk[f].text, Top + 1)
       /\ rotated' = rotated
    \/ /\ budget'.lines = budget.lines /\ Unended(f)
       /\ t = Append(disk[f].text, Last(disk[f].text) + 1)
       /\ rotated' = rotated
    \/ budget'.lines = budget.lines /\ t = <<>> /\ rotated' = rotated \cup {f}

LEMMA BudgetTyped ==
    ASSUME LogTyped
    PROVE  /\ budget \in [{"lines", "rotations", "resets", "asserts", "failures"} -> Nat]
           /\ budget.lines \in Nat /\ budget.lines <= MaxLines /\ MaxLines \in Nat
           /\ Top \in Nat /\ Top <= 2 * MaxLines
<1>1. /\ budget \in [{"lines", "rotations", "resets", "asserts", "failures"} -> Nat]
      /\ budget.lines <= MaxLines
  BY DEF LogTyped, LogTypeOK
<1>2. budget.lines \in Nat /\ MaxLines \in Nat
  BY <1>1, LogAssumption
<1>3. PICK n \in Nat, m \in Nat : n = budget.lines /\ m = MaxLines
  BY <1>2
<1>4. n <= m /\ Top = 2 * (m - n)
  BY <1>1, <1>3 DEF Top
<1>5. Top \in Nat /\ Top <= 2 * m
  BY <1>4
<1> QED
  BY <1>1, <1>2, <1>3, <1>5

LEMMA SpendTyped ==
    ASSUME LogTyped, NEW w \in {"rotations", "resets", "asserts", "failures"}, Spend(w)
    PROVE  /\ budget' \in [{"lines", "rotations", "resets", "asserts", "failures"} -> Nat]
           /\ budget'.lines = budget.lines
<1>1. budget[w] \in Nat /\ budget[w] > 0 /\ budget' = [budget EXCEPT ![w] = @ - 1]
  BY BudgetTyped DEF Spend
<1>2. budget[w] - 1 \in Nat /\ w # "lines"
  BY <1>1
<1> QED
  BY <1>1, <1>2, BudgetTyped

LEMMA StatFailsTyped == LogTyped /\ StatFails => LogTyped'
<1> SUFFICES ASSUME LogTyped, StatFails PROVE LogTyped'
  OBVIOUS
<1>1. reader.pc \in Following
  BY DEF StatFails, At, Following
<1>2. \/ reader.attempt < 3 /\ reader' = [reader EXCEPT !.pc = "snapshot", !.attempt = @ + 1]
      \/ reader' = NextFile(TRUE)
  BY DEF StatFails
<1>3. UNCHANGED <<environment, useIndex, files, torn, resetAt, discarded, pushed, iterator,
                  shifted>> /\ typeMeta' = typeMeta /\ (Spend("failures") \/ budget' = budget)
  BY DEF StatFails, queues
<1>4. /\ budget' \in [{"lines", "rotations", "resets", "asserts", "failures"} -> Nat]
      /\ budget'.lines = budget.lines
  BY <1>3, SpendTyped, BudgetTyped
<1>5. /\ reader' \in ReaderState
      /\ reader'.pc \in Following \cup {"file"} => reader'.todo # <<>>
      /\ reader'.pc \in Following => Head(reader'.todo).name \in DOMAIN files
  <2>1. CASE reader.attempt < 3
             /\ reader' = [reader EXCEPT !.pc = "snapshot", !.attempt = @ + 1]
    <3>1. PICK p \in Following, k \in 0 .. 3 : p = "snapshot" /\ k = reader.attempt + 1
      <4>1. reader.attempt \in 0 .. 3
        BY <1>1, CandidateText, ReaderStateFacts
      <4> QED
        BY <2>1, <4>1 DEF Following
    <3>2. reader' = [reader EXCEPT !.pc = p, !.attempt = k]
      BY <2>1, <3>1
    <3>3. reader' \in ReaderState /\ reader'.todo = reader.todo
      BY <1>1, <3>2, CandidateText DEF ReaderState, Following
    <3> QED
      BY <1>1, <3>3, GoesOnTyped
  <2>2. CASE reader' = NextFile(TRUE)
    BY <1>1, <2>2, NextOnly, CandidateText
  <2> QED
    BY <1>2, <2>1, <2>2
<1>6. /\ DOMAIN files \subseteq File /\ \A f \in DOMAIN files : files[f] \in FileState
      /\ pushed \in [File -> Seq(Line)] /\ typeMeta \in {"none", "nil", "meta"}
  BY DEF LogTyped, LogTypeOK
<1> QED
  BY <1>3, <1>4, <1>5, <1>6, ReaderTyped DEF environment

LEMMA UnendedFacts ==
    ASSUME LogTyped, NEW f \in File, Unended(f)
    PROVE  /\ Len(disk[f].text) \in 1 .. Len(disk[f].text)
           /\ Last(disk[f].text) = disk[f].text[Len(disk[f].text)]
           /\ Last(disk[f].text) \in 1 .. 2 * MaxLines
           /\ Last(disk[f].text) + 1 \in 1 .. 2 * MaxLines
           /\ Last(disk[f].text) % 2 = 1
<1>1. disk[f].text \in Text /\ disk[f].text # <<>>
  BY DEF LogTyped, LogTypeOK, Unended
<1>2. Len(disk[f].text) \in 1 .. Len(disk[f].text)
  BY <1>1, EmptySeq, LenProperties DEF Text
<1>3. Last(disk[f].text) = disk[f].text[Len(disk[f].text)]
  BY DEF Last
<1>4. PICK u \in 1 .. 2 * MaxLines : u = Last(disk[f].text)
  BY <1>1, <1>2, <1>3, ElementOfSeq DEF Text
<1>5. u % 2 # 0
  BY <1>4 DEF Unended, EndsLine
<1>6. PICK m \in Nat : m = MaxLines
  BY LogAssumption
<1>7. u \in 1 .. 2 * m
  BY <1>6
<1>8. u % 2 = 1 /\ u + 1 \in 1 .. 2 * m
  BY <1>5, <1>7
<1> QED
  BY <1>2, <1>3, <1>4, <1>6, <1>8

LEMMA WriteEffect ==
    ASSUME LogTyped, Write
    PROVE  \E f \in File, t \in Text, s \in 0 .. MaxTime :
              /\ disk' = [disk EXCEPT ![f] = [text |-> t, time |-> s]]
              /\ Written(f, t)
              /\ budget' \in [{"lines", "rotations", "resets", "asserts", "failures"} -> Nat]
              /\ UNCHANGED <<useIndex, queues, reader, iterator, shifted>>
<1>1. PICK f \in File : WriteLine(f) \/ FinishLine(f) \/ Rotate(f)
  BY DEF Write
<1>2. disk[f].text \in Text /\ disk[f].time \in 0 .. MaxTime /\ disk[f].text \in Seq(1 .. 2 * MaxLines)
  BY DEF LogTyped, LogTypeOK, Text
<1>3. ASSUME NEW t \in Text, Touch(f, t)
      PROVE  \E s \in 0 .. MaxTime : disk' = [disk EXCEPT ![f] = [text |-> t, time |-> s]]
  <2>1. PICK s \in disk[f].time .. MaxTime : disk' = [disk EXCEPT ![f] = [text |-> t, time |-> s]]
    BY <1>3 DEF Touch
  <2>2. s \in 0 .. MaxTime
    BY <1>2, LogAssumption
  <2> QED
    BY <2>1, <2>2
<1>4. CASE WriteLine(f)
  <2>1. budget.lines > 0 /\ budget' = [budget EXCEPT !["lines"] = @ - 1]
    BY <1>4 DEF WriteLine, Spend
  <2>2. /\ budget' \in [{"lines", "rotations", "resets", "asserts", "failures"} -> Nat]
        /\ budget'.lines = budget.lines - 1
    <3>1. budget.lines - 1 \in Nat
      BY <2>1, BudgetTyped
    <3> QED
      BY <2>1, <3>1, BudgetTyped
  <2>3. PICK n \in 1 .. MaxLines : n = MaxLines - budget.lines + 1 /\ 2 * n - 1 = Top + 1 /\ 2 * n = Top + 2
    <3>1. PICK b \in Nat, m \in Nat : b = budget.lines /\ m = MaxLines /\ b <= m /\ b > 0
      BY <2>1, BudgetTyped
    <3>2. m - b + 1 \in 1 .. m /\ Top = 2 * (m - b)
      BY <3>1 DEF Top
    <3>3. 2 * (m - b + 1) - 1 = Top + 1 /\ 2 * (m - b + 1) = Top + 2
      BY <3>1, <3>2
    <3> QED
      BY <3>1, <3>2, <3>3
  <2>4. 2 * n - 1 \in 1 .. 2 * MaxLines /\ 2 * n \in 1 .. 2 * MaxLines
    <3>1. PICK m \in Nat : m = MaxLines
      BY BudgetTyped
    <3>2. n \in 1 .. m
      BY <3>1
    <3>3. 2 * n - 1 \in 1 .. 2 * m /\ 2 * n \in 1 .. 2 * m
      BY <3>2
    <3> QED
      BY <3>1, <3>3
  <2>5. PICK t \in Text : /\ Touch(f, t)
                          /\ \/ t = disk[f].text \o <<Top + 1, Top + 2>>
                             \/ t = Append(disk[f].text, Top + 1)
    <3>1. CASE Touch(f, disk[f].text \o <<2 * n - 1, 2 * n>>)
      <4>1. <<2 * n - 1, 2 * n>> \in Seq(1 .. 2 * MaxLines)
        BY <2>4
      <4>2. disk[f].text \o <<2 * n - 1, 2 * n>> \in Text
        BY <1>2, <4>1, ConcatProperties DEF Text
      <4> QED
        BY <2>3, <3>1, <4>2
    <3>2. CASE Touch(f, Append(disk[f].text, 2 * n - 1))
      <4>1. Append(disk[f].text, 2 * n - 1) \in Text
        BY <1>2, <2>4, AppendProperties DEF Text
      <4> QED
        BY <2>3, <3>2, <4>1
    <3> QED
      BY <1>4, <2>3, <3>1, <3>2 DEF WriteLine
  <2>6. PICK s \in 0 .. MaxTime : disk' = [disk EXCEPT ![f] = [text |-> t, time |-> s]]
    BY <1>3, <2>5
  <2>7. Written(f, t) /\ UNCHANGED <<useIndex, queues, reader, iterator, shifted>>
    BY <1>4, <2>1, <2>2, <2>5 DEF WriteLine, Written
  <2> QED
    BY <2>2, <2>6, <2>7
<1>5. CASE FinishLine(f)
  <2>1. PICK t : t = Append(disk[f].text, Last(disk[f].text) + 1)
    OBVIOUS
  <2>2. Unended(f) /\ Touch(f, t)
        /\ UNCHANGED <<budget, useIndex, queues, reader, iterator, rotated, shifted>>
    BY <1>5, <2>1 DEF FinishLine
  <2>3. t \in Text
    BY <1>2, <2>1, <2>2, UnendedFacts, AppendProperties DEF Text
  <2>4. PICK s \in 0 .. MaxTime : disk' = [disk EXCEPT ![f] = [text |-> t, time |-> s]]
    BY <1>3, <2>2, <2>3
  <2>5. Written(f, t)
    BY <2>1, <2>2 DEF Written
  <2> QED
    BY <2>2, <2>3, <2>4, <2>5, BudgetTyped
<1>6. CASE Rotate(f)
  <2>1. PICK t : t = <<>>
    OBVIOUS
  <2>2. /\ Spend("rotations") /\ Touch(f, t) /\ rotated' = rotated \cup {f}
        /\ UNCHANGED <<useIndex, queues, reader, iterator, shifted>>
    BY <1>6, <2>1 DEF Rotate
  <2>3. t \in Text
    BY <2>1, EmptySeq DEF Text
  <2>4. PICK s \in 0 .. MaxTime : disk' = [disk EXCEPT ![f] = [text |-> t, time |-> s]]
    BY <1>3, <2>2, <2>3
  <2>5. /\ budget' \in [{"lines", "rotations", "resets", "asserts", "failures"} -> Nat]
        /\ budget'.lines = budget.lines
    BY <2>2, SpendTyped
  <2>6. Written(f, t)
    BY <2>1, <2>2, <2>5 DEF Written
  <2> QED
    BY <2>2, <2>3, <2>4, <2>5, <2>6
<1> QED
  BY <1>1, <1>4, <1>5, <1>6

LEMMA WriteTyped == LogTyped /\ Write => LogTyped'
<1> SUFFICES ASSUME LogTyped, Write PROVE LogTyped'
  OBVIOUS
<1>1. PICK f \in File, t \in Text, s \in 0 .. MaxTime :
              /\ disk' = [disk EXCEPT ![f] = [text |-> t, time |-> s]]
              /\ Written(f, t)
              /\ budget' \in [{"lines", "rotations", "resets", "asserts", "failures"} -> Nat]
              /\ UNCHANGED <<useIndex, queues, reader, iterator, shifted>>
  BY WriteEffect
<1>2. disk' \in [File -> [text : Text, time : 0 .. MaxTime]]
  BY <1>1 DEF LogTyped, LogTypeOK
<1>3. budget'.lines <= MaxLines
  <2>1. budget'.lines = budget.lines \/ budget'.lines = budget.lines - 1
    BY <1>1 DEF Written
  <2> QED
    BY <2>1, BudgetTyped
<1>4. rotated' \subseteq File
  <2>1. rotated \subseteq File
    BY DEF LogTyped, LogTypeOK
  <2> QED
    BY <1>1, <2>1 DEF Written
<1> QED
  BY <1>1, <1>2, <1>3, <1>4 DEF LogTyped, LogTypeOK, queues, Candidate, Current

-----------------------------------------------------------------------------
(* The workflow.                                                           *)

\* A step of the workflow that does not find a record, whatever it takes away.
LEMMA WorkflowTyped ==
    ASSUME LogTyped, iterator' \in IteratorState, iterator'.ready = FALSE,
           iterator'.order \in Seq(DOMAIN files),
           DOMAIN files' = DOMAIN files, \A f \in DOMAIN files : files'[f] \in FileState,
           budget' \in [{"lines", "rotations", "resets", "asserts", "failures"} -> Nat],
           budget'.lines = budget.lines,
           torn' \subseteq File, resetAt' \in [File -> Nat], discarded' \subseteq Line,
           shifted' \in Seq(Record),
           UNCHANGED <<environment, useIndex, typeMeta, pushed, reader>>
    PROVE  LogTyped'
<1>1. LogTypeOK'
  BY DEF LogTyped, LogTypeOK, environment, IteratorState
<1> QED
  BY <1>1 DEF LogTyped, Candidate

LEMMA IteratorTyped ==
    ASSUME LogTyped
    PROVE  /\ iterator \in IteratorState /\ iterator.order \in Seq(DOMAIN files)
           /\ Len(iterator.order) \in Nat
           /\ \A i \in 1 .. Len(iterator.order) : iterator.order[i] \in DOMAIN files
           /\ DOMAIN files \subseteq File /\ IsFiniteSet(DOMAIN files)
           /\ torn \subseteq File /\ resetAt \in [File -> Nat] /\ discarded \subseteq Line
           /\ shifted \in Seq(Record) /\ pushed \in [File -> Seq(Line)]
           /\ \A f \in DOMAIN files : files[f] \in FileState
<1>1. /\ iterator \in IteratorState /\ iterator.order \in Seq(DOMAIN files)
      /\ DOMAIN files \subseteq File
      /\ torn \subseteq File /\ resetAt \in [File -> Nat] /\ discarded \subseteq Line
      /\ shifted \in Seq(Record) /\ pushed \in [File -> Seq(Line)]
      /\ \A f \in DOMAIN files : files[f] \in FileState
  BY DEF LogTyped, LogTypeOK, IteratorState
<1>2. IsFiniteSet(DOMAIN files)
  BY <1>1, LogAssumption, FS_Subset
<1>3. Len(iterator.order) \in Nat
      /\ \A i \in 1 .. Len(iterator.order) : iterator.order[i] \in DOMAIN files
  BY <1>1, LenProperties, ElementOfSeq
<1> QED
  BY <1>1, <1>2, <1>3

LEMMA FileOrderTyped ==
    ASSUME LogTyped, NEW s \in FileOrders
    PROVE  /\ s \in Seq(DOMAIN files) /\ s \in Seq(File) /\ Len(s) \in Nat
           /\ \A i \in 1 .. Len(s) : s[i] \in DOMAIN files
<1>1. PICK n \in Nat : n = Cardinality(DOMAIN files)
  BY IteratorTyped, FS_CardinalityType
<1>2. s \in [1 .. n -> DOMAIN files]
  BY <1>1 DEF FileOrders
<1>3. s \in Seq(DOMAIN files)
  BY <1>1, <1>2, SeqDef
<1>4. s \in [1 .. n -> File]
  BY <1>2, IteratorTyped
<1>5. s \in Seq(File)
  BY <1>1, <1>4, SeqDef
<1> QED
  BY <1>3, <1>5, LenProperties, ElementOfSeq

LEMMA ResetTyped == LogTyped /\ Reset => LogTyped'
<1> SUFFICES ASSUME LogTyped, Reset PROVE LogTyped'
  OBVIOUS
<1>1. /\ files' = [f \in DOMAIN files |->
                     [files[f] EXCEPT !.at = files[f].size, !.records = <<>>]]
      /\ ~iterator.on
  BY DEF Reset, Idle
<1>2. \A f \in DOMAIN files : files'[f] \in FileState
  <2> SUFFICES ASSUME NEW f \in DOMAIN files PROVE files'[f] \in FileState
    OBVIOUS
  <2>1. PICK n \in Nat : n = files[f].size
    BY IteratorTyped DEF FileState
  <2>2. PICK rs \in Seq(Record) : rs = <<>>
    BY EmptySeq
  <2>3. files'[f] = [files[f] EXCEPT !.at = n, !.records = rs]
    BY <1>1, <2>1, <2>2
  <2> QED
    BY <2>3, IteratorTyped DEF FileState
<1>3. torn' \subseteq File
  <2>1. CASE reader.pc \in {"push", "update"}
    <3>1. Candidate.name \in File
      BY <2>1, CandidateText DEF Following
    <3> QED
      BY <2>1, <3>1, IteratorTyped DEF Reset
  <2>2. CASE reader.pc \notin {"push", "update"}
    BY <2>2, IteratorTyped DEF Reset
  <2> QED
    BY <2>1, <2>2
<1>4. resetAt' \in [File -> Nat]
  <2>1. \A f \in DOMAIN files : files[f].size \in Nat
    BY IteratorTyped DEF FileState
  <2>2. \A f \in File : (IF f \in DOMAIN files THEN files[f].size ELSE resetAt[f]) \in Nat
    BY <2>1, IteratorTyped
  <2> QED
    BY <2>2 DEF Reset
<1>5. discarded' \subseteq Line
  <2>1. ASSUME NEW f \in DOMAIN files, NEW i \in DOMAIN files[f].records
        PROVE  files[f].records[i].line \in Line
    <3>1. files[f].records \in Seq(Record)
      BY IteratorTyped DEF FileState
    <3>2. files[f].records[i] \in Record
      BY <3>1, ElementOfSeq
    <3> QED
      BY <3>2 DEF Record
  <2>2. \A f \in DOMAIN files : {files[f].records[i].line : i \in DOMAIN files[f].records} \subseteq Line
    BY <2>1
  <2>3. UNION {{files[f].records[i].line : i \in DOMAIN files[f].records} : f \in DOMAIN files}
           \subseteq Line
    BY <2>2
  <2>4. discarded \subseteq Line
    BY IteratorTyped
  <2> QED
    BY <2>3, <2>4 DEF Reset
<1>6. iterator.ready = FALSE
  BY <1>1, IteratorTyped DEF LogTyped, IteratorState
<1>7. /\ budget' \in [{"lines", "rotations", "resets", "asserts", "failures"} -> Nat]
      /\ budget'.lines = budget.lines
  BY SpendTyped DEF Reset
<1> QED
  BY <1>1, <1>2, <1>3, <1>4, <1>5, <1>6, <1>7, IteratorTyped, WorkflowTyped DEF Reset

LEMMA StartAssertTyped == LogTyped /\ StartAssert => LogTyped'
<1> SUFFICES ASSUME LogTyped, StartAssert PROVE LogTyped'
  OBVIOUS
<1>1. PICK s \in FileOrders : iterator' = [on |-> TRUE, order |-> s, at |-> 1, ready |-> FALSE]
  BY DEF StartAssert
<1>2. /\ iterator' \in IteratorState /\ iterator'.ready = FALSE
      /\ iterator'.order \in Seq(DOMAIN files)
  BY <1>1, FileOrderTyped DEF IteratorState
<1> QED
  BY <1>2, IteratorTyped, BudgetTyped, WorkflowTyped DEF StartAssert, queues

LEMMA EndAssertTyped == LogTyped /\ EndAssert => LogTyped'
<1> SUFFICES ASSUME LogTyped, EndAssert PROVE LogTyped'
  OBVIOUS
<1>1. /\ iterator' \in IteratorState /\ iterator'.ready = FALSE
      /\ iterator'.order \in Seq(DOMAIN files)
  <2>1. <<>> \in Seq(File) /\ <<>> \in Seq(DOMAIN files)
    BY EmptySeq
  <2> QED
    BY <2>1 DEF EndAssert, NoIterator, IteratorState
<1> QED
  BY <1>1, IteratorTyped, BudgetTyped, WorkflowTyped DEF EndAssert, queues

\* A place in an order where a record is pending.
LEMMA PendingFacts ==
    ASSUME LogTyped, NEW s \in Seq(DOMAIN files), NEW from \in Nat \ {0}, Pending(s, from) # {}
    PROVE  /\ Min(Pending(s, from)) \in 1 .. Len(s) /\ Min(Pending(s, from)) \in Nat
           /\ files[s[Min(Pending(s, from))]].records # <<>>
<1>1. Len(s) \in Nat
  BY LenProperties
<1>2. Pending(s, from) \in SUBSET Nat /\ Pending(s, from) \subseteq 1 .. Len(s)
  BY <1>1 DEF Pending
<1>3. Min(Pending(s, from)) \in Pending(s, from)
  BY <1>2, FirstIsFirst DEF Min
<1> QED
  BY <1>2, <1>3 DEF Pending

\* Where HasNext gets to: a file with a record, or past the last file.
LEMMA HasNextEffect ==
    ASSUME LogTyped, HasNext
    PROVE  /\ iterator.on /\ iterator' \in IteratorState /\ iterator'.on
           /\ iterator'.order \in Seq(DOMAIN files)
           /\ iterator'.ready => /\ iterator'.at \in DOMAIN iterator'.order
                                 /\ files[iterator'.order[iterator'.at]].records # <<>>
<1>0. iterator.on /\ iterator.on \in BOOLEAN
  BY IteratorTyped DEF HasNext, IteratorState
<1>1. PICK a \in Nat \ {0} : a = iterator.at
  BY IteratorTyped DEF IteratorState
<1>2. ASSUME NEW s \in Seq(DOMAIN files), s \in Seq(File), NEW from \in Nat \ {0},
             Pending(s, from) # {},
             iterator' = [on |-> TRUE, order |-> s, at |-> Min(Pending(s, from)), ready |-> TRUE]
      PROVE  /\ iterator' \in IteratorState /\ iterator'.on
             /\ iterator'.order \in Seq(DOMAIN files)
             /\ iterator'.ready => /\ iterator'.at \in DOMAIN iterator'.order
                                   /\ files[iterator'.order[iterator'.at]].records # <<>>
  <2>1. PICK m : m = Min(Pending(s, from))
    OBVIOUS
  <2>2. m \in 1 .. Len(s) /\ m \in Nat /\ files[s[m]].records # <<>>
    BY <1>2, <2>1, PendingFacts
  <2>3. iterator' = [on |-> TRUE, order |-> s, at |-> m, ready |-> TRUE]
    BY <1>2, <2>1
  <2>4. m \in DOMAIN s
    BY <2>2, LenProperties
  <2> QED
    BY <1>2, <2>2, <2>3, <2>4 DEF IteratorState
<1>3. CASE /\ Pending(iterator.order, iterator.at) # {}
           /\ iterator' = [iterator EXCEPT !.at = Min(Pending(iterator.order, iterator.at)), !.ready = TRUE]
  <2>1. PICK s, m : /\ s \in Seq(DOMAIN files) /\ s = iterator.order
                    /\ m = Min(Pending(s, a))
    BY IteratorTyped
  <2>2. iterator' = [iterator EXCEPT !.at = m, !.ready = TRUE]
    BY <1>1, <1>3, <2>1
  <2>3. iterator' = [on |-> TRUE, order |-> s, at |-> m, ready |-> TRUE]
    BY <1>0, <2>1, <2>2, IteratorTyped DEF IteratorState
  <2> QED
    BY <1>0, <1>1, <1>2, <1>3, <2>1, <2>3, IteratorTyped DEF IteratorState
<1>4. CASE \E s \in FileOrders :
              iterator' = IF Pending(s, 1) # {}
                          THEN [iterator EXCEPT !.order = s, !.at = Min(Pending(s, 1)), !.ready = TRUE]
                          ELSE [iterator EXCEPT !.order = s, !.at = Max({@, Len(iterator.order) + 1})]
  <2>1. PICK s \in FileOrders :
           \/ /\ Pending(s, 1) # {}
              /\ iterator' = [iterator EXCEPT !.order = s, !.at = Min(Pending(s, 1)), !.ready = TRUE]
           \/ iterator' = [iterator EXCEPT !.order = s, !.at = Max({@, Len(iterator.order) + 1})]
    BY <1>4
  <2>2. s \in Seq(DOMAIN files) /\ s \in Seq(File)
    BY FileOrderTyped
  <2>3. CASE /\ Pending(s, 1) # {}
             /\ iterator' = [iterator EXCEPT !.order = s, !.at = Min(Pending(s, 1)), !.ready = TRUE]
    <3>1. PICK m : m = Min(Pending(s, 1))
      OBVIOUS
    <3>2. iterator' = [on |-> TRUE, order |-> s, at |-> m, ready |-> TRUE]
      BY <1>0, <2>3, <3>1, IteratorTyped DEF IteratorState
    <3>3. iterator' = [on |-> TRUE, order |-> s, at |-> Min(Pending(s, 1)), ready |-> TRUE]
      BY <3>1, <3>2
    <3>4. 1 \in Nat \ {0} /\ Pending(s, 1) # {}
      BY <2>3
    <3> QED
      BY <1>0, <1>2, <2>2, <3>3, <3>4
  <2>4. CASE iterator' = [iterator EXCEPT !.order = s, !.at = Max({@, Len(iterator.order) + 1})]
    <3>1. PICK n \in Nat \ {0} : n = Len(iterator.order) + 1
      <4>1. Len(iterator.order) \in Nat
        BY IteratorTyped
      <4> QED
        BY <4>1
    <3>2. PICK m \in Nat \ {0} : m = Max({a, n})
      <4>1. \E x \in {a, n} : \A y \in {a, n} : x >= y
        BY <3>1
      <4>2. Max({a, n}) \in {a, n}
        BY <4>1 DEF Max
      <4> QED
        BY <3>1, <4>2
    <3>3. iterator' = [iterator EXCEPT !.order = s, !.at = m]
      BY <1>1, <2>4, <3>1, <3>2
    <3>4. iterator.ready = FALSE
      BY IteratorTyped DEF HasNext, IteratorState
    <3>5. iterator' \in IteratorState /\ iterator'.on = iterator.on /\ iterator'.order = s
          /\ iterator'.ready = iterator.ready
      BY <2>2, <3>3, IteratorTyped DEF IteratorState
    <3> QED
      BY <1>0, <2>2, <3>4, <3>5
  <2> QED
    BY <2>1, <2>3, <2>4
<1> QED
  BY <1>0, <1>3, <1>4 DEF HasNext

LEMMA HasNextTyped == LogTyped /\ HasNext => LogTyped'
<1> SUFFICES ASSUME LogTyped, HasNext PROVE LogTyped'
  OBVIOUS
<1>1. UNCHANGED <<environment, budget, useIndex, queues, reader, shifted>>
  BY DEF HasNext
<1>2. LogTypeOK'
  BY <1>1, HasNextEffect DEF LogTyped, LogTypeOK, environment, queues, IteratorState
<1> QED
  BY <1>1, <1>2, HasNextEffect DEF LogTyped, Candidate, Current, queues

\* The file whose record was found, and its first record.
LEMMA CurrentFacts ==
    ASSUME LogTyped, iterator.ready
    PROVE  /\ Current \in DOMAIN files /\ Current \in File
           /\ files[Current] \in FileState /\ files[Current].records # <<>>
           /\ Head(files[Current].records) \in Record
           /\ Tail(files[Current].records) \in Seq(Record)
           /\ iterator.on /\ iterator.at \in 1 .. Len(iterator.order)
<1>1. iterator.on /\ iterator.at \in 1 .. Len(iterator.order) /\ files[Current].records # <<>>
  BY IteratorTyped, LenProperties DEF LogTyped
<1>2. Current \in DOMAIN files
  BY <1>1, IteratorTyped DEF Current
<1>3. Current \in File /\ files[Current] \in FileState
  BY <1>2, IteratorTyped
<1>4. files[Current].records \in Seq(Record)
  BY <1>3 DEF FileState
<1> QED
  BY <1>1, <1>2, <1>3, <1>4, HeadTailProperties

LEMMA ShiftTyped == LogTyped /\ ShiftRecord => LogTyped'
<1> SUFFICES ASSUME LogTyped, ShiftRecord PROVE LogTyped'
  OBVIOUS
<1>1. iterator.ready
  BY DEF ShiftRecord
<1>2. PICK f \in DOMAIN files, rs \in Seq(Record) :
         f = Current /\ rs = Tail(files[Current].records)
  BY <1>1, CurrentFacts
<1>3. files' = [files EXCEPT ![f].records = rs]
  BY <1>2 DEF ShiftRecord
<1>4. DOMAIN files' = DOMAIN files /\ \A g \in DOMAIN files : files'[g] \in FileState
  <2>1. [files[f] EXCEPT !.records = rs] \in FileState
    BY <1>1, <1>2, CurrentFacts DEF FileState
  <2> QED
    BY <1>3, <2>1, IteratorTyped
<1>5. shifted' \in Seq(Record)
  BY <1>1, CurrentFacts, IteratorTyped, AppendProperties DEF ShiftRecord
<1>6. /\ iterator' \in IteratorState /\ iterator'.ready = FALSE
      /\ iterator'.order = iterator.order
  BY IteratorTyped DEF ShiftRecord, IteratorState
<1>7. /\ budget' \in [{"lines", "rotations", "resets", "asserts", "failures"} -> Nat]
      /\ budget'.lines = budget.lines
  BY SpendTyped DEF ShiftRecord
<1> QED
  BY <1>4, <1>5, <1>6, <1>7, IteratorTyped, WorkflowTyped DEF ShiftRecord

LEMMA WithoutTyped ==
    ASSUME NEW rs \in Seq(Record), NEW line PROVE Without(rs, line) \in Seq(Record)
<1>1. CASE {i \in DOMAIN rs : rs[i].line = line} = {}
  BY <1>1 DEF Without
<1>2. CASE {i \in DOMAIN rs : rs[i].line = line} # {}
  <2>1. PICK i \in 1 .. Len(rs) : Without(rs, line) = RemoveAt(rs, i)
    <3>1. (CHOOSE i \in {i \in DOMAIN rs : rs[i].line = line} : TRUE) \in DOMAIN rs
      BY <1>2
    <3> QED
      BY <1>2, <3>1, LenProperties DEF Without
  <2>2. Len(rs) \in Nat
    BY LenProperties
  <2>3. SubSeq(rs, 1, i - 1) \in Seq(Record) /\ SubSeq(rs, i + 1, Len(rs)) \in Seq(Record)
    BY <2>1, <2>2, SubSeqProperties
  <2> QED
    BY <2>1, <2>3, ConcatProperties DEF RemoveAt
<1> QED
  BY <1>1, <1>2

LEMMA ShiftIndexedTyped ==
    ASSUME LogTyped, NEW line \in Line, ShiftIndexed(line) PROVE LogTyped'
<1>1. iterator.ready /\ Spend("asserts")
      /\ UNCHANGED <<environment, useIndex, typeMeta, torn, resetAt, discarded, pushed, reader>>
  BY DEF ShiftIndexed
<1>2. PICK order, hits, stop, missed :
         /\ order \in Seq(DOMAIN files)
         /\ order = iterator.order
         /\ hits = {i \in iterator.at .. Len(order) : Knows(order[i], line)}
         /\ stop = IF hits = {} THEN Len(order) ELSE Min(hits)
         /\ missed = {order[i] : i \in iterator.at .. stop} \ {order[i] : i \in hits}
  BY IteratorTyped
<1>3. /\ files' = [f \in DOMAIN files |->
                     IF f \in missed /\ files[f].records # <<>>
                     THEN [files[f] EXCEPT !.records = Tail(@)]
                     ELSE IF hits # {} /\ f = order[stop]
                     THEN [files[f] EXCEPT !.records = Without(@, line)]
                     ELSE files[f]]
      /\ \/ /\ hits = {} /\ files[order[stop]].records = <<>>
            /\ iterator' = NoIterator /\ shifted' = shifted
         \/ /\ ~(hits = {} /\ files[order[stop]].records = <<>>)
            /\ iterator' = [iterator EXCEPT !.ready = FALSE]
            /\ shifted' = Append(shifted, IF hits = {} THEN Head(files[order[stop]].records)
                                          ELSE [line |-> line, whole |-> TRUE])
  BY <1>2 DEF ShiftIndexed
<1>4. iterator.at \in 1 .. Len(order) /\ Len(order) \in Nat
      /\ \A i \in 1 .. Len(order) : order[i] \in DOMAIN files
  BY <1>1, <1>2, CurrentFacts, IteratorTyped
<1>5. \A f \in DOMAIN files : files'[f] \in FileState
  <2> SUFFICES ASSUME NEW f \in DOMAIN files PROVE files'[f] \in FileState
    OBVIOUS
  <2>1. PICK rs \in Seq(Record) : rs = files[f].records
    BY IteratorTyped DEF FileState
  <2>2. PICK gs \in Seq(Record) : gs = Without(rs, line)
    BY WithoutTyped
  <2>3. PICK ts : ts = Tail(rs)
    OBVIOUS
  <2>4. rs # <<>> => ts \in Seq(Record)
    BY <2>3, HeadTailProperties
  <2>5. \/ rs # <<>> /\ files'[f] = [files[f] EXCEPT !.records = ts]
        \/ files'[f] = [files[f] EXCEPT !.records = gs]
        \/ files'[f] = files[f]
    BY <1>3, <2>1, <2>2, <2>3
  <2> QED
    BY <2>4, <2>5, IteratorTyped DEF FileState
<1>6. /\ iterator' \in IteratorState /\ iterator'.ready = FALSE
      /\ iterator'.order \in Seq(DOMAIN files)
  <2>1. CASE iterator' = NoIterator
    <3>1. <<>> \in Seq(File) /\ <<>> \in Seq(DOMAIN files)
      BY EmptySeq
    <3> QED
      BY <2>1, <3>1 DEF NoIterator, IteratorState
  <2>2. CASE iterator' = [iterator EXCEPT !.ready = FALSE]
    BY <2>2, IteratorTyped DEF IteratorState
  <2> QED
    BY <1>3, <2>1, <2>2
<1>7. shifted' \in Seq(Record)
  <2>1. CASE hits = {} /\ files[order[stop]].records # <<>>
    <3>1. order[stop] \in DOMAIN files
      BY <1>2, <1>4, <2>1
    <3>2. files[order[stop]].records \in Seq(Record)
      BY <3>1, IteratorTyped DEF FileState
    <3>3. Head(files[order[stop]].records) \in Record
      BY <2>1, <3>2, HeadTailProperties
    <3>4. shifted' = Append(shifted, Head(files[order[stop]].records))
      BY <1>3, <2>1
    <3> QED
      BY <3>3, <3>4, IteratorTyped, AppendProperties
  <2>2. CASE hits # {}
    <3>1. [line |-> line, whole |-> TRUE] \in Record
      BY DEF Record
    <3>2. shifted' = Append(shifted, [line |-> line, whole |-> TRUE])
      BY <1>3, <2>2
    <3> QED
      BY <3>1, <3>2, IteratorTyped, AppendProperties
  <2>3. CASE hits = {} /\ files[order[stop]].records = <<>>
    BY <1>3, <2>3, IteratorTyped
  <2> QED
    BY <2>1, <2>2, <2>3
<1>8. /\ budget' \in [{"lines", "rotations", "resets", "asserts", "failures"} -> Nat]
      /\ budget'.lines = budget.lines
  BY <1>1, SpendTyped
<1> QED
  BY <1>1, <1>3, <1>5, <1>6, <1>7, <1>8, IteratorTyped, WorkflowTyped

LEMMA StartsTyped == LogInit => LogTyped
<1> SUFFICES ASSUME LogInit PROVE LogTyped
  OBVIOUS
<1>1. /\ disk = [f \in File |-> [text |-> <<>>, time |-> 0]]
      /\ budget = [lines |-> MaxLines, rotations |-> MaxRotations, resets |-> MaxResets,
                   asserts |-> MaxAsserts, failures |-> MaxFailures]
      /\ files = [f \in {} |-> {}] /\ pushed = [f \in File |-> <<>>] /\ shifted = <<>>
      /\ reader = NoReader /\ iterator = NoIterator
      /\ rotated = {} /\ torn = {} /\ discarded = {} /\ resetAt = [f \in File |-> 0]
      /\ useIndex \in BOOLEAN /\ typeMeta = "none"
  BY DEF LogInit
<1>2. /\ <<>> \in Text /\ <<>> \in Seq(Line) /\ <<>> \in Seq(Record) /\ <<>> \in Seq(File)
      /\ <<>> \in Seq(DOMAIN files)
  BY EmptySeq DEF Text
<1>3. 0 \in 0 .. MaxTime /\ MaxLines \in Nat /\ MaxRotations \in Nat /\ MaxResets \in Nat
      /\ MaxAsserts \in Nat /\ MaxFailures \in Nat
  BY LogAssumption
<1>4. disk \in [File -> [text : Text, time : 0 .. MaxTime]]
  BY <1>1, <1>2, <1>3
<1>5. /\ budget \in [{"lines", "rotations", "resets", "asserts", "failures"} -> Nat]
      /\ budget.lines <= MaxLines
  BY <1>1, <1>3
<1>6. reader \in ReaderState /\ reader.pc = "off"
  BY <1>1, NoReaderTyped DEF NoReader
<1>7. iterator \in IteratorState /\ ~iterator.ready /\ iterator.order = <<>>
  BY <1>1, <1>2 DEF NoIterator, IteratorState
<1>8. iterator \in [on : BOOLEAN, order : Seq(File), at : Nat, ready : BOOLEAN]
  BY <1>7 DEF IteratorState
<1>9. DOMAIN files = {}
  BY <1>1
<1>10. LogTypeOK
  BY <1>1, <1>2, <1>4, <1>5, <1>6, <1>8, <1>9 DEF LogTypeOK
<1> QED
  BY <1>2, <1>5, <1>6, <1>7, <1>10 DEF LogTyped, Following

LEMMA StepTyped == LogTyped /\ [LogNext]_logVars => LogTyped'
<1> SUFFICES ASSUME LogTyped, [LogNext]_logVars PROVE LogTyped'
  OBVIOUS
<1>1. CASE Write \/ ReaderFails \/ StatFails
  BY <1>1, WriteTyped, ReaderFailsTyped, StatFailsTyped
<1>2. CASE ReaderStep
  BY <1>2, ListFilesTyped, RestTyped, OpenFileTyped, SnapshotTyped, StatTyped, CompareTyped,
     StoreTyped, StartTyped, PushTyped, UpdateTyped, EndRecordsTyped DEF ReaderStep
<1>3. CASE WorkflowStep
  BY <1>3, RestTyped, ResetTyped, StartAssertTyped, HasNextTyped, EndAssertTyped, ShiftTyped,
     ShiftIndexedTyped DEF WorkflowStep
<1>4. CASE UNCHANGED logVars
  BY <1>4 DEF LogTyped, LogTypeOK, logVars, environment, queues, Candidate, Current
<1> QED
  BY <1>1, <1>2, <1>3, <1>4 DEF LogNext

\* Whatever the reader and the iterator are at is there: a file that is followed
\* is in the map of files, and a record about to be taken is in its file
\* (readLogFiles, logRecordIterator.HasNext).
THEOREM LogTypeCorrect == LogSpec => []LogTyped
  BY StartsTyped, StepTyped, PTL DEF LogSpec

\* The validator keeps the types of its state, whatever the program under test
\* does to the files meanwhile.
THEOREM LogTypesHold == LogSpec => []LogTypeOK
<1>1. LogTyped => LogTypeOK
  BY DEF LogTyped
<1> QED
  BY <1>1, LogTypeCorrect, PTL

-----------------------------------------------------------------------------
(* Order: what the steps do to one file, whatever its values.              *)

LEMMA Halves ==
    ASSUME NEW u \in Nat
    PROVE  /\ EndsLine(u) => u = 2 * LineOf(u) /\ LineOf(u) \in Nat
           /\ (EndsLine(u) <=> u % 2 = 0)
  BY DEF EndsLine, LineOf

LEMMA LengthNat ==
    ASSUME NEW S, NEW s \in Seq(S)
    PROVE  Len(s) \in Nat /\ \A i \in 1 .. Len(s) : s[i] \in S
  BY LenProperties, ElementOfSeq

LEMMA NothingYet == ASSUME NEW top \in Nat PROVE OrderOf(<<>>, <<>>, 0, 0, <<>>, top, "away", <<>>, 0, 0)
<1>1. Len(<<>>) = 0
  OBVIOUS
<1> QED
  BY <1>1 DEF OrderOf, Sound, Growing, Follows, Starts, Passed, Looking, Taking

LEMMA TopGrows ==
    ASSUME NEW d \in Seq(Nat), NEW c \in Seq(Nat), NEW q \in Seq(Nat), NEW t \in Seq(Nat),
           NEW at, NEW size, NEW place, NEW ra, NEW ch, NEW top \in Nat, NEW more \in Nat,
           top <= more,
           OrderOf(d, c, at, size, q, top, place, t, ra, ch)
    PROVE  OrderOf(d, c, at, size, q, more, place, t, ra, ch)
<1>1. ASSUME NEW s \in Seq(Nat), Sound(s, top) PROVE Sound(s, more)
  BY <1>1, LengthNat DEF Sound
<1>2. \A k \in 1 .. Len(q) : 2 * q[k] <= top => 2 * q[k] <= more
  <2>1. \A k \in 1 .. Len(q) : q[k] \in Nat
    BY LengthNat
  <2> QED
    BY <2>1
<1> QED
  BY <1>1, <1>2 DEF OrderOf

\* Whatever it was that the reader read, if it is not between a decision about a
\* file and the record of what it decided.
LEMMA Rests ==
    ASSUME NEW d, NEW c, NEW q, NEW t, NEW at, NEW size, NEW place, NEW ra, NEW ch, NEW top,
           OrderOf(d, c, at, size, q, top, place, t, ra, ch),
           place \notin {"store", "update"},
           NEW place2 \in {"away", "snapshot"}, NEW t2, NEW ra2, NEW ch2
    PROVE  OrderOf(d, c, at, size, q, top, place2, t2, ra2, ch2)
  BY DEF OrderOf, Looking, Taking

\* A file that nothing was read of.
LEMMA AnySize ==
    ASSUME NEW d, NEW q, NEW t, NEW at, NEW size, NEW ra, NEW ch, NEW top, NEW other,
           OrderOf(d, <<>>, at, size, q, top, "away", t, ra, ch)
    PROVE  OrderOf(d, <<>>, at, other, q, top, "away", t, ra, ch)
  BY DEF OrderOf, Looking, Taking

LEMMA OrderSnapshot ==
    ASSUME NEW d \in Seq(Nat), NEW c, NEW q, NEW t, NEW at, NEW size, NEW ra, NEW ch, NEW top,
           OrderOf(d, c, at, size, q, top, "snapshot", t, ra, ch)
    PROVE  OrderOf(d, c, at, size, q, top, "stat", d, ra, ch)
<1>1. Len(d) \in Nat
  BY LengthNat
<1>2. Follows(d, d, q)
  BY <1>1 DEF Follows, Starts, Passed
<1> QED
  BY <1>2 DEF OrderOf, Looking, Taking

LEMMA OrderStat ==
    ASSUME NEW d, NEW c, NEW q, NEW t, NEW at, NEW size, NEW ra, NEW ch, NEW top,
           OrderOf(d, c, at, size, q, top, "stat", t, ra, ch)
    PROVE  OrderOf(d, c, at, size, q, top, "compare", t, ra, ch)
  BY DEF OrderOf, Looking, Taking

LEMMA PassedLater ==
    ASSUME NEW q, NEW s \in Seq(Nat), NEW p \in Nat, NEW r \in Nat, p <= r, Passed(q, s, p)
    PROVE  Passed(q, s, r)
  BY LengthNat DEF Passed

LEMMA OrderCompare ==
    ASSUME NEW d, NEW c \in Seq(Nat), NEW q, NEW t \in Seq(Nat),
           NEW at \in Nat, NEW size \in Nat, NEW ra, NEW ch, NEW top,
           OrderOf(d, c, at, size, q, top, "compare", t, ra, ch)
    PROVE  /\ OrderOf(d, c, at, size, q, top, "store", t, ra, ch)
           /\ ~Starts(c, t) =>
                 \A other \in Nat : OrderOf(d, c, 0, other, q, top, "store", t, ra, ch)
<1>1. Follows(c, t, q) /\ Passed(q, c, at) /\ (size = Len(c) \/ c = <<>>)
  BY DEF OrderOf, Looking
<1>2. Len(c) \in Nat /\ Len(t) \in Nat
  BY LengthNat
<1>3. ASSUME Passed(q, t, 0), NEW p \in Nat PROVE Passed(q, t, p)
  BY <1>3, PassedLater
<1>4. Passed(q, t, at) /\ Passed(q, t, size)
  <2>1. CASE Passed(q, t, 0)
    BY <1>3, <2>1
  <2>2. CASE Starts(c, t) /\ Passed(q, t, Len(c))
    <3>1. Passed(q, t, at)
      <4> SUFFICES ASSUME NEW k \in 1 .. Len(q), NEW i \in 1 .. Len(t), at < i PROVE 2 * q[k] < t[i]
        BY DEF Passed
      <4>1. CASE i <= Len(c)
        BY <1>1, <1>2, <2>2, <4>1 DEF Passed, Starts
      <4>2. CASE Len(c) < i
        BY <2>2, <4>2 DEF Passed
      <4> QED
        BY <1>2, <4>1, <4>2
    <3>2. Passed(q, t, size)
      <4>1. CASE size = Len(c)
        BY <2>2, <4>1
      <4>2. CASE c = <<>>
        BY <1>3, <2>2, <4>2
      <4> QED
        BY <1>1, <4>1, <4>2
    <3> QED
      BY <3>1, <3>2
  <2> QED
    BY <1>1, <2>1, <2>2 DEF Follows
<1>5. OrderOf(d, c, at, size, q, top, "store", t, ra, ch)
  BY <1>4 DEF OrderOf, Looking, Taking
<1>6. ASSUME NEW other \in Nat, ~Starts(c, t)
      PROVE  OrderOf(d, c, 0, other, q, top, "store", t, ra, ch)
  <2>1. Passed(q, t, 0) /\ Passed(q, t, other)
    BY <1>1, <1>3, <1>6 DEF Follows
  <2> QED
    BY <2>1 DEF OrderOf, Looking, Taking
<1> QED
  BY <1>5, <1>6

LEMMA OrderStore ==
    ASSUME NEW d, NEW c, NEW q, NEW t, NEW at, NEW size, NEW ra, NEW ch, NEW top,
           OrderOf(d, c, at, size, q, top, "store", t, ra, ch),
           NEW place \in {"start", "away"}, NEW t2, place = "start" => t2 = t, NEW ra2, NEW ch2
    PROVE  OrderOf(d, t, at, Len(t), q, top, place, t2, ra2, ch2)
  BY DEF OrderOf, Looking, Taking

LEMMA OrderStart ==
    ASSUME NEW d, NEW c, NEW q, NEW t, NEW at \in Nat, NEW size, NEW ra, NEW ch, NEW top,
           OrderOf(d, c, at, size, q, top, "start", t, ra, ch), at <= Len(t)
    PROVE  OrderOf(d, c, at, size, q, top, "push", t, at, ch)
  BY DEF OrderOf, Looking, Taking

LEMMA OrderUpdate ==
    ASSUME NEW d, NEW c \in Seq(Nat), NEW q, NEW t, NEW at \in Nat, NEW size, NEW ra \in Nat,
           NEW ch \in Nat, NEW top,
           OrderOf(d, c, at, size, q, top, "update", t, ra, ch)
    PROVE  OrderOf(d, c, at + ch, size, q, top, "push", t, ra, ch)
<1>1. PICK p \in Nat : p = at + ch
  OBVIOUS
<1>2. ra <= p /\ Passed(q, c, ra)
  BY <1>1 DEF OrderOf
<1>3. Passed(q, c, p)
  BY <1>2, PassedLater
<1>4. OrderOf(d, c, p, size, q, top, "push", t, ra, ch)
  BY <1>2, <1>3 DEF OrderOf, Looking, Taking
<1> QED
  BY <1>1, <1>4

LEMMA OrderReset ==
    ASSUME NEW d, NEW c \in Seq(Nat), NEW q, NEW t, NEW at, NEW size \in Nat, NEW ra \in Nat,
           NEW ch \in Nat, NEW top, NEW place,
           OrderOf(d, c, at, size, q, top, place, t, ra, ch)
    PROVE  OrderOf(d, c, size, size, q, top, place, t, ra, ch)
<1>1. Len(c) \in Nat
  BY LengthNat
<1>2. ASSUME size = Len(c) \/ c = <<>> PROVE Passed(q, c, size)
  BY <1>1, <1>2 DEF Passed
<1>3. place = "push" => size >= ra
  BY <1>1 DEF OrderOf, Taking
<1>4. place = "update" => size + ch >= ra
  BY <1>1 DEF OrderOf, Taking
<1> QED
  BY <1>2, <1>3, <1>4 DEF OrderOf

LEMMA AppendFacts ==
    ASSUME NEW s \in Seq(Nat), NEW x \in Nat
    PROVE  /\ Append(s, x) \in Seq(Nat) /\ Len(s) \in Nat /\ Len(Append(s, x)) = Len(s) + 1
           /\ \A i \in 1 .. Len(s) : Append(s, x)[i] = s[i] /\ s[i] \in Nat
           /\ Append(s, x)[Len(s) + 1] = x
  BY AppendProperties, LengthNat

LEMMA OrderPush ==
    ASSUME NEW d \in Seq(Nat), NEW c \in Seq(Nat), NEW q \in Seq(Nat), NEW t, NEW at \in Nat,
           NEW size, NEW ra \in Nat, NEW ch, NEW top,
           OrderOf(d, c, at, size, q, top, "push", t, ra, ch),
           NEW end \in Nat, ra < end, end <= Len(c), EndsLine(c[end]),
           NEW q2, q2 = q \/ q2 = Append(q, LineOf(c[end]))
    PROVE  OrderOf(d, c, at, size, q2, top, "update", t, end, end - ra)
<1>1. /\ Sound(d, top) /\ Sound(c, top) /\ Growing(q)
      /\ \A k \in 1 .. Len(q) : /\ 2 * q[k] <= top
                                /\ d # <<>> /\ ~EndsLine(d[Len(d)]) => 2 * q[k] <= d[Len(d)]
      /\ Follows(c, d, q) /\ t = c /\ size = Len(c) /\ Passed(q, c, at) /\ Passed(q, c, ra)
      /\ at >= ra
  BY DEF OrderOf, Taking
<1>2. Len(c) \in Nat /\ Len(d) \in Nat /\ Len(q) \in Nat /\ end \in 1 .. Len(c)
  BY LengthNat
<1>3. at + (end - ra) >= end
  BY <1>1
<1>4. ASSUME NEW p, Passed(p, c, end), Growing(p), Follows(c, d, p),
             \A k \in 1 .. Len(p) : /\ 2 * p[k] <= top
                                    /\ d # <<>> /\ ~EndsLine(d[Len(d)]) => 2 * p[k] <= d[Len(d)]
      PROVE  OrderOf(d, c, at, size, p, top, "update", t, end, end - ra)
  BY <1>1, <1>2, <1>3, <1>4 DEF OrderOf, Looking, Taking
<1>5. Passed(q, c, end)
  BY <1>1, PassedLater
<1>6. CASE q2 = q
  BY <1>1, <1>4, <1>5, <1>6
<1>7. CASE q2 = Append(q, LineOf(c[end]))
  <2>1. PICK line \in Nat : line = LineOf(c[end]) /\ c[end] = 2 * line /\ c[end] \in Nat
    BY <1>2, LengthNat, Halves
  <2>2. /\ q2 = Append(q, line) /\ Len(q2) = Len(q) + 1
        /\ \A k \in 1 .. Len(q) : q2[k] = q[k] /\ q[k] \in Nat
        /\ q2[Len(q) + 1] = line
    BY <1>7, <2>1, AppendFacts
  <2>3. \A k \in 1 .. Len(q2) : \/ k \in 1 .. Len(q) /\ q2[k] = q[k]
                                \/ k = Len(q) + 1 /\ q2[k] = line
    <3>1. PICK l \in Nat : l = Len(q)
      BY <1>2
    <3>2. \A k \in 1 .. l + 1 : k \in 1 .. l \/ k = l + 1
      OBVIOUS
    <3> QED
      BY <2>2, <3>1, <3>2
  <2>4. \A i \in 1 .. Len(c) : end < i => 2 * line < c[i]
    BY <1>1, <1>2, <2>1 DEF Sound, Growing
  <2>5. Passed(q2, c, end)
    BY <1>5, <2>3, <2>4 DEF Passed
  <2>6. \A k \in 1 .. Len(q) : q[k] < line
    <3>1. \A k \in 1 .. Len(q) : 2 * q[k] < 2 * line
      BY <1>1, <1>2, <2>1 DEF Passed
    <3> QED
      BY <2>2, <3>1
  <2>7. Growing(q2)
    <3> SUFFICES ASSUME NEW i \in 1 .. Len(q2), NEW j \in 1 .. Len(q2), i < j PROVE q2[i] < q2[j]
      BY DEF Growing
    <3>0. PICK l \in Nat : l = Len(q) /\ Len(q2) = l + 1
      BY <1>2, <2>2
    <3>4. i \in 1 .. l + 1 /\ j \in 1 .. l + 1
      BY <3>0
    <3>5. \A x, y \in 1 .. l + 1 : x < y => x \in 1 .. l /\ (y \in 1 .. l \/ y = l + 1)
      OBVIOUS
    <3>1. i \in 1 .. Len(q) /\ (j \in 1 .. Len(q) \/ j = Len(q) + 1)
      BY <3>0, <3>4, <3>5
    <3>2. CASE j \in 1 .. Len(q)
      BY <1>1, <2>2, <3>1, <3>2 DEF Growing
    <3>3. CASE j = Len(q) + 1
      BY <2>2, <2>6, <3>1, <3>3
    <3> QED
      BY <3>1, <3>2, <3>3
  <2>8. \/ /\ Starts(c, d) /\ Passed(q2, d, Len(c))
           /\ \A i \in 1 .. Len(d) : end < i => 2 * line < d[i]
           /\ end \in 1 .. Len(d) /\ 2 * line = d[end]
        \/ /\ Passed(q2, d, 0) /\ \A i \in 1 .. Len(d) : 2 * line < d[i]
           /\ \A j \in 1 .. Len(c), i \in 1 .. Len(d) : c[j] < d[i]
    <3>1. CASE Starts(c, d) /\ Passed(q, d, Len(c))
      <4>0. Len(c) <= Len(d) /\ c[end] = d[end]
        BY <1>2, <3>1 DEF Starts
      <4>1. end \in 1 .. Len(d) /\ 2 * line = d[end]
        <5>1. end \in 1 .. Len(d)
          BY <1>2, <4>0
        <5>2. 2 * line = d[end]
          BY <2>1, <4>0
        <5> QED
          BY <5>1, <5>2
      <4>2. \A i \in 1 .. Len(d) : end < i => 2 * line < d[i]
        BY <1>1, <1>2, <4>1 DEF Sound, Growing
      <4>3. Passed(q2, d, Len(c))
        <5> SUFFICES ASSUME NEW k \in 1 .. Len(q2), NEW i \in 1 .. Len(d), Len(c) < i
                     PROVE  2 * q2[k] < d[i]
          BY DEF Passed
        <5>1. 2 * line < d[i]
          BY <1>2, <4>2
        <5>2. k \in 1 .. Len(q) => 2 * q[k] < d[i]
          BY <3>1 DEF Passed
        <5> QED
          BY <2>3, <5>1, <5>2
      <4> QED
        BY <3>1, <4>1, <4>2, <4>3
    <3>2. CASE Passed(q, d, 0) /\ \A j \in 1 .. Len(c), i \in 1 .. Len(d) : c[j] < d[i]
      <4>1. \A i \in 1 .. Len(d) : 2 * line < d[i]
        BY <1>2, <2>1, <3>2
      <4>2. Passed(q2, d, 0)
        BY <2>3, <3>2, <4>1 DEF Passed
      <4> QED
        BY <3>2, <4>1, <4>2
    <3> QED
      BY <1>1, <3>1, <3>2 DEF Follows
  <2>9. Follows(c, d, q2)
    BY <2>8 DEF Follows
  <2>10. 2 * line <= top
    BY <1>1, <1>2, <2>1 DEF Sound
  <2>11. d # <<>> /\ ~EndsLine(d[Len(d)]) => 2 * line <= d[Len(d)]
    <3> SUFFICES ASSUME d # <<>>, ~EndsLine(d[Len(d)]) PROVE 2 * line <= d[Len(d)]
      OBVIOUS
    <3>1. Len(d) \in 1 .. Len(d)
      BY <1>2, EmptySeq
    <3>2. d[Len(d)] \in Nat
      BY <3>1, LengthNat
    <3>3. CASE end \in 1 .. Len(d) /\ 2 * line = d[end]
                /\ \A i \in 1 .. Len(d) : end < i => 2 * line < d[i]
      <4>1. end = Len(d) \/ end < Len(d)
        BY <1>2, <3>3
      <4>2. end = Len(d) => 2 * line <= d[Len(d)]
        BY <3>2, <3>3
      <4>3. end < Len(d) => 2 * line < d[Len(d)]
        BY <3>1, <3>3
      <4> QED
        BY <2>1, <3>2, <4>1, <4>2, <4>3
    <3>4. CASE \A i \in 1 .. Len(d) : 2 * line < d[i]
      <4>1. 2 * line < d[Len(d)]
        BY <3>1, <3>4
      <4>2. 2 * line \in Nat
        BY <2>1
      <4> QED
        BY <3>2, <4>1, <4>2
    <3> QED
      BY <2>8, <3>3, <3>4
  <2>12. \A k \in 1 .. Len(q2) : /\ 2 * q2[k] <= top
                                 /\ d # <<>> /\ ~EndsLine(d[Len(d)]) => 2 * q2[k] <= d[Len(d)]
    BY <1>1, <2>3, <2>10, <2>11
  <2> QED
    BY <1>4, <2>5, <2>7, <2>9, <2>12
<1> QED
  BY <1>6, <1>7

\* Text that goes on after d.
Extends(d, e, q, top) ==
    /\ Len(d) <= Len(e) /\ \A i \in 1 .. Len(d) : e[i] = d[i]
    /\ \A i \in 1 .. Len(e) : Len(d) < i =>
          /\ \A k \in 1 .. Len(q) : 2 * q[k] < e[i]
          /\ \A j \in 1 .. Len(d) : d[j] < e[i]
          /\ d = <<>> \/ EndsLine(d[Len(d)]) => top < e[i]

LEMMA FollowsMore ==
    ASSUME NEW s \in Seq(Nat), NEW d \in Seq(Nat), NEW e \in Seq(Nat), NEW q \in Seq(Nat),
           NEW top \in Nat, Follows(s, d, q), Extends(d, e, q, top), Sound(s, top)
    PROVE  Follows(s, e, q)
<1>1. Len(s) \in Nat /\ Len(d) \in Nat /\ Len(e) \in Nat
      /\ (\A i \in 1 .. Len(s) : s[i] \in Nat) /\ (\A i \in 1 .. Len(d) : d[i] \in Nat)
      /\ (\A i \in 1 .. Len(e) : e[i] \in Nat)
  BY LengthNat
<1>2. \A i \in 1 .. Len(e) : \/ i \in 1 .. Len(d) /\ e[i] = d[i]
                             \/ Len(d) < i /\ \A k \in 1 .. Len(q) : 2 * q[k] < e[i]
  BY <1>1 DEF Extends
<1>3. CASE Starts(s, d) /\ Passed(q, d, Len(s))
  <2>1. Starts(s, e)
    BY <1>1, <1>3 DEF Starts, Extends
  <2>2. Passed(q, e, Len(s))
    BY <1>2, <1>3 DEF Passed
  <2> QED
    BY <2>1, <2>2 DEF Follows
<1>4. CASE Passed(q, d, 0) /\ \A j \in 1 .. Len(s), i \in 1 .. Len(d) : s[j] < d[i]
  <2>1. Passed(q, e, 0)
    BY <1>2, <1>4 DEF Passed
  <2>2. \A j \in 1 .. Len(s), i \in 1 .. Len(e) : s[j] < e[i]
    <3> SUFFICES ASSUME NEW j \in 1 .. Len(s), NEW i \in 1 .. Len(e) PROVE s[j] < e[i]
      OBVIOUS
    <3>1. CASE i \in 1 .. Len(d)
      BY <1>4, <3>1 DEF Extends
    <3>2. CASE Len(d) < i /\ d = <<>>
      <4>1. top < e[i]
        BY <3>2 DEF Extends
      <4> QED
        BY <1>1, <4>1 DEF Sound
    <3>3. CASE Len(d) < i /\ d # <<>>
      <4>1. 1 \in 1 .. Len(d)
        BY <1>1, <3>3, EmptySeq
      <4>2. s[j] < d[1] /\ d[1] < e[i]
        BY <1>4, <3>3, <4>1 DEF Extends
      <4> QED
        BY <1>1, <4>1, <4>2
    <3> QED
      BY <1>1, <3>1, <3>2, <3>3
  <2> QED
    BY <2>1, <2>2 DEF Follows
<1> QED
  BY <1>3, <1>4 DEF Follows

LEMMA OrderExtends ==
    ASSUME NEW d \in Seq(Nat), NEW c \in Seq(Nat), NEW q \in Seq(Nat), NEW t \in Seq(Nat),
           NEW e \in Seq(Nat), NEW at, NEW size, NEW place, NEW ra, NEW ch,
           NEW top \in Nat, NEW more \in Nat, top <= more,
           OrderOf(d, c, at, size, q, top, place, t, ra, ch),
           Extends(d, e, q, top), Sound(e, more),
           \A k \in 1 .. Len(q) : e # <<>> /\ ~EndsLine(e[Len(e)]) => 2 * q[k] <= e[Len(e)]
    PROVE  OrderOf(e, c, at, size, q, more, place, t, ra, ch)
<1>1. Follows(c, e, q)
  BY FollowsMore DEF OrderOf
<1>2. place \in Looking => Follows(t, e, q)
  BY FollowsMore DEF OrderOf
<1>3. OrderOf(d, c, at, size, q, more, place, t, ra, ch)
  BY TopGrows
<1> QED
  BY <1>1, <1>2, <1>3 DEF OrderOf

LEMMA OrderRotate ==
    ASSUME NEW d, NEW c, NEW q, NEW t, NEW at, NEW size, NEW place, NEW ra, NEW ch, NEW top,
           OrderOf(d, c, at, size, q, top, place, t, ra, ch)
    PROVE  OrderOf(<<>>, c, at, size, q, top, place, t, ra, ch)
<1>1. Sound(<<>>, top) /\ \A s : Follows(s, <<>>, q)
  <2>1. Len(<<>>) = 0
    OBVIOUS
  <2> QED
    BY <2>1 DEF Sound, Growing, Follows, Passed
<1> QED
  BY <1>1 DEF OrderOf

LEMMA Parity ==
    ASSUME NEW n \in Nat
    PROVE  /\ n % 2 = 0 => (n + 1) % 2 = 1 /\ (n + 2) % 2 = 0
           /\ n % 2 # 0 => (n + 1) % 2 = 0
  OBVIOUS

\* A sequence that grows still does when it gets one more, larger than all.
LEMMA GrowsByOne ==
    ASSUME NEW e, NEW n \in Nat, NEW x \in Nat,
           \A i \in 1 .. n : e[i] \in Nat /\ e[i] < x, e[n + 1] = x,
           \A i, j \in 1 .. n : i < j => e[i] < e[j]
    PROVE  \A i, j \in 1 .. n + 1 : i < j => e[i] < e[j]
<1> SUFFICES ASSUME NEW i \in 1 .. n + 1, NEW j \in 1 .. n + 1, i < j PROVE e[i] < e[j]
  OBVIOUS
<1>1. i \in 1 .. n /\ (j \in 1 .. n \/ j = n + 1)
  OBVIOUS
<1>2. CASE j \in 1 .. n
  BY <1>1, <1>2
<1>3. CASE j = n + 1
  BY <1>1, <1>3
<1> QED
  BY <1>1, <1>2, <1>3

\* A whole line, or the start of one, where there is no started line.
LEMMA ExtendsByLine ==
    ASSUME NEW d \in Seq(Nat), NEW q \in Seq(Nat), NEW top \in Nat, top % 2 = 0, Sound(d, top),
           d = <<>> \/ EndsLine(d[Len(d)]), \A k \in 1 .. Len(q) : 2 * q[k] <= top,
           NEW e, e = d \o <<top + 1, top + 2>> \/ e = Append(d, top + 1)
    PROVE  /\ e \in Seq(Nat) /\ Extends(d, e, q, top) /\ Sound(e, top + 2)
           /\ \A k \in 1 .. Len(q) : e # <<>> /\ ~EndsLine(e[Len(e)]) => 2 * q[k] <= e[Len(e)]
<1>1. Len(d) \in Nat /\ \A i \in 1 .. Len(d) : d[i] \in Nat
  BY LengthNat
<1>2. /\ e \in Seq(Nat) /\ Len(e) \in Len(d) + 1 .. Len(d) + 2
      /\ \A i \in 1 .. Len(d) : e[i] = d[i]
      /\ e[Len(d) + 1] = top + 1
      /\ Len(e) = Len(d) + 2 => e[Len(d) + 2] = top + 2
  <2>1. CASE e = Append(d, top + 1)
    BY <1>1, <2>1, AppendFacts
  <2>2. CASE e = d \o <<top + 1, top + 2>>
    <3>1. PICK w : w = <<top + 1, top + 2>>
      OBVIOUS
    <3>2. w \in Seq(Nat) /\ Len(w) = 2 /\ w[1] = top + 1 /\ w[2] = top + 2
      BY <3>1
    <3>3. /\ e \in Seq(Nat) /\ Len(e) = Len(d) + 2
          /\ \A i \in 1 .. Len(e) : e[i] = IF i <= Len(d) THEN d[i] ELSE w[i - Len(d)]
      BY <2>2, <3>1, <3>2, ConcatProperties
    <3> QED
      BY <1>1, <3>2, <3>3
  <2> QED
    BY <2>1, <2>2
<1>3. PICK n \in Nat, m \in Nat : n = Len(d) /\ m = Len(e) /\ m \in n + 1 .. n + 2
  BY <1>1, <1>2
<1>4. /\ \A i \in 1 .. n : e[i] = d[i] /\ e[i] \in Nat /\ e[i] <= top
      /\ e[n + 1] = top + 1 /\ (m = n + 2 => e[n + 2] = top + 2)
      /\ \A i \in 1 .. m : i \in 1 .. n \/ i = n + 1 \/ (i = n + 2 /\ m = n + 2)
  <2>1. \A i \in 1 .. n : d[i] \in Nat /\ d[i] <= top
    BY <1>1, <1>3 DEF Sound
  <2>2. \A i \in 1 .. m : i \in 1 .. n \/ i = n + 1 \/ (i = n + 2 /\ m = n + 2)
    BY <1>3
  <2> QED
    BY <1>2, <1>3, <2>1, <2>2
<1>5. n % 2 = 0 /\ \A i \in 1 .. n : EndsLine(e[i]) <=> i % 2 = 0
  <2>1. \A i \in 1 .. n : EndsLine(d[i]) <=> i % 2 = 0
    BY <1>3 DEF Sound
  <2>4. \A i \in 1 .. n : EndsLine(e[i]) <=> EndsLine(d[i])
    BY <1>4
  <2>2. CASE d = <<>>
    <3>1. n = 0
      BY <1>3, <2>2
    <3> QED
      BY <2>1, <2>4, <3>1
  <2>3. CASE d # <<>>
    <3>1. n \in 1 .. n
      BY <1>3, <2>3, EmptySeq
    <3>2. n % 2 = 0
      BY <1>3, <2>1, <2>3, <3>1
    <3> QED
      BY <2>1, <2>4, <3>2
  <2> QED
    BY <2>2, <2>3
<1>6. \A i \in 1 .. m : EndsLine(e[i]) <=> i % 2 = 0
  <2> SUFFICES ASSUME NEW i \in 1 .. m PROVE EndsLine(e[i]) <=> i % 2 = 0
    OBVIOUS
  <2>1. CASE i \in 1 .. n
    BY <1>5, <2>1
  <2>2. CASE i = n + 1
    <3>1. (top + 1) % 2 = 1 /\ (n + 1) % 2 = 1
      BY <1>5, Parity
    <3> QED
      BY <1>4, <2>2, <3>1 DEF EndsLine
  <2>3. CASE i = n + 2 /\ m = n + 2
    <3>1. (top + 2) % 2 = 0 /\ (n + 2) % 2 = 0
      BY <1>5, Parity
    <3> QED
      BY <1>4, <2>3, <3>1 DEF EndsLine
  <2> QED
    BY <1>4, <2>1, <2>2, <2>3
<1>7. \A i, j \in 1 .. m : i < j => e[i] < e[j]
  <2>1. \A i, j \in 1 .. n : i < j => e[i] < e[j]
    BY <1>2, <1>3 DEF Sound, Growing
  <2>2. \A i \in 1 .. n : e[i] < top + 1
    BY <1>4
  <2>3. \A i, j \in 1 .. n + 1 : i < j => e[i] < e[j]
    BY <1>4, <2>1, <2>2, GrowsByOne
  <2>4. CASE m = n + 1
    BY <2>3, <2>4
  <2>5. CASE m = n + 2
    <3>1. \A i \in 1 .. n + 1 : e[i] \in Nat /\ e[i] < top + 2
      <4> SUFFICES ASSUME NEW i \in 1 .. n + 1 PROVE e[i] \in Nat /\ e[i] < top + 2
        OBVIOUS
      <4>1. CASE i \in 1 .. n
        <5>1. e[i] \in Nat /\ e[i] <= top
          BY <1>4, <4>1
        <5> QED
          BY <5>1
      <4>2. CASE i = n + 1
        BY <1>4, <4>2
      <4> QED
        BY <4>1, <4>2
    <3>2. PICK l \in Nat : l = n + 1 /\ m = l + 1
      BY <2>5
    <3>3. PICK x \in Nat : x = top + 2 /\ e[l + 1] = x
      BY <1>4, <2>5, <3>2
    <3>4. \A i, j \in 1 .. l + 1 : i < j => e[i] < e[j]
      BY <2>3, <3>1, <3>2, <3>3, GrowsByOne
    <3> QED
      BY <3>2, <3>4
  <2> QED
    BY <1>3, <2>4, <2>5
<1>8. Sound(e, top + 2)
  <2>1. \A i \in 1 .. m : e[i] <= top + 2
    <3> SUFFICES ASSUME NEW i \in 1 .. m PROVE e[i] <= top + 2
      OBVIOUS
    <3>1. CASE i \in 1 .. n
      BY <1>4, <3>1
    <3>2. CASE i = n + 1 \/ (i = n + 2 /\ m = n + 2)
      BY <1>4, <3>2
    <3> QED
      BY <1>4, <3>1, <3>2
  <2> QED
    BY <1>3, <1>6, <1>7, <2>1 DEF Sound, Growing
<1>9. Extends(d, e, q, top)
  <2> SUFFICES ASSUME NEW i \in 1 .. m, n < i
               PROVE  /\ \A k \in 1 .. Len(q) : 2 * q[k] < e[i]
                      /\ \A j \in 1 .. n : d[j] < e[i]
                      /\ d = <<>> \/ EndsLine(d[Len(d)]) => top < e[i]
    BY <1>2, <1>3 DEF Extends
  <2>1. e[i] \in Nat /\ top < e[i]
    <3>1. i \notin 1 .. n
      BY <1>3
    <3>2. CASE i = n + 1
      BY <1>4, <3>2
    <3>3. CASE i = n + 2 /\ m = n + 2
      <4>1. e[n + 2] = top + 2
        BY <1>4, <3>3
      <4> QED
        BY <3>3, <4>1
    <3> QED
      BY <1>4, <3>1, <3>2, <3>3
  <2>2. \A k \in 1 .. Len(q) : 2 * q[k] \in Nat
    <3>1. \A k \in 1 .. Len(q) : q[k] \in Nat
      BY LengthNat
    <3> QED
      BY <3>1
  <2>3. ASSUME NEW k \in 1 .. Len(q) PROVE 2 * q[k] < e[i]
    <3>1. PICK a, b : a = 2 * q[k] /\ b = e[i]
      OBVIOUS
    <3>2. a \in Nat /\ a <= top /\ b \in Nat /\ top < b
      BY <2>1, <2>2, <3>1
    <3>3. a < b
      BY <3>2
    <3> QED
      BY <3>1, <3>3
  <2>4. \A j \in 1 .. n : d[j] \in Nat /\ d[j] <= top
    BY <1>1, <1>3 DEF Sound
  <2>5. \A j \in 1 .. n : d[j] < e[i]
    BY <2>1, <2>4
  <2> QED
    BY <2>1, <2>3, <2>5
<1>10. \A k \in 1 .. Len(q) : 2 * q[k] <= e[Len(e)]
  <2>1. m \in 1 .. m /\ n < m
    BY <1>3
  <2>2. \A k \in 1 .. Len(q) : 2 * q[k] < e[m]
    BY <1>3, <1>9, <2>1 DEF Extends
  <2>3. e[m] \in Nat
    BY <1>2, <1>3, <2>1, LengthNat
  <2>4. \A k \in 1 .. Len(q) : q[k] \in Nat
    BY LengthNat
  <2> QED
    BY <1>3, <2>2, <2>3, <2>4
<1> QED
  BY <1>2, <1>8, <1>9, <1>10

\* The end of the last line.
LEMMA ExtendsByEnd ==
    ASSUME NEW d \in Seq(Nat), NEW q \in Seq(Nat), NEW top \in Nat, top % 2 = 0, Sound(d, top),
           d # <<>>, ~EndsLine(d[Len(d)]), \A k \in 1 .. Len(q) : 2 * q[k] <= d[Len(d)],
           NEW e, e = Append(d, d[Len(d)] + 1)
    PROVE  /\ e \in Seq(Nat) /\ Extends(d, e, q, top) /\ Sound(e, top)
           /\ EndsLine(e[Len(e)])
<1>1. Len(d) \in Nat /\ \A i \in 1 .. Len(d) : d[i] \in Nat
  BY LengthNat
<1>2. PICK n \in Nat : n = Len(d)
  BY <1>1
<1>3. n \in 1 .. n
  BY <1>2, EmptySeq
<1>4. PICK u \in Nat : u = d[n]
  BY <1>1, <1>2, <1>3
<1>5. /\ e \in Seq(Nat) /\ Len(e) = n + 1 /\ e[n + 1] = u + 1
      /\ \A i \in 1 .. n : e[i] = d[i]
  BY <1>2, <1>4, AppendFacts
<1>6. u % 2 = 1 /\ u <= top /\ n % 2 = 1
  <2>1. u % 2 # 0 /\ u <= top /\ n % 2 # 0
    BY <1>2, <1>3, <1>4 DEF Sound, EndsLine
  <2> QED
    BY <2>1
<1>7. u + 1 <= top /\ (u + 1) % 2 = 0 /\ (n + 1) % 2 = 0
  <2>1. u # top
    BY <1>6
  <2>2. u + 1 <= top
    BY <1>6, <2>1
  <2> QED
    BY <1>6, <2>2, Parity
<1>8. \A i \in 1 .. n + 1 : \/ i \in 1 .. n /\ e[i] = d[i] /\ d[i] \in Nat /\ d[i] <= u
                            \/ i = n + 1 /\ e[i] = u + 1
  <2>1. \A i \in 1 .. n : d[i] <= u
    BY <1>1, <1>2, <1>3, <1>4 DEF Sound, Growing
  <2> QED
    BY <1>1, <1>2, <1>5, <2>1
<1>9. \A i, j \in 1 .. n : i < j => e[i] < e[j]
  BY <1>2, <1>5 DEF Sound, Growing
<1>10. \A i, j \in 1 .. n + 1 : i < j => e[i] < e[j]
  <2>1. \A i \in 1 .. n : e[i] \in Nat /\ e[i] < u + 1
    <3>1. \A i \in 1 .. n : e[i] \in Nat /\ e[i] <= u
      BY <1>1, <1>2, <1>3, <1>4, <1>5 DEF Sound, Growing
    <3>2. \A a \in Nat : a <= u => a < u + 1
      OBVIOUS
    <3> QED
      BY <3>1, <3>2
  <2>2. PICK x \in Nat : x = u + 1
    OBVIOUS
  <2> QED
    BY <1>5, <1>9, <2>1, <2>2, GrowsByOne
<1>11. \A i \in 1 .. n + 1 : e[i] <= top /\ (EndsLine(e[i]) <=> i % 2 = 0)
  <2>1. \A i \in 1 .. n : d[i] <= top /\ (EndsLine(d[i]) <=> i % 2 = 0)
    BY <1>2 DEF Sound
  <2>2. e[n + 1] <= top /\ (EndsLine(e[n + 1]) <=> (n + 1) % 2 = 0)
    BY <1>5, <1>7 DEF EndsLine
  <2> QED
    BY <1>8, <2>1, <2>2
<1>12. Sound(e, top)
  BY <1>5, <1>10, <1>11 DEF Sound, Growing
<1>13. Extends(d, e, q, top)
  <2>1. \A i \in 1 .. n + 1 : n < i => i = n + 1
    OBVIOUS
  <2>2. \A k \in 1 .. Len(q) : 2 * q[k] < u + 1
    <3>1. \A k \in 1 .. Len(q) : q[k] \in Nat /\ 2 * q[k] <= u
      BY <1>2, <1>4, LengthNat
    <3> QED
      BY <3>1
  <2>3. \A j \in 1 .. n : d[j] < u + 1
    BY <1>8
  <2> QED
    BY <1>2, <1>5, <2>1, <2>2, <2>3 DEF Extends
<1> QED
  BY <1>5, <1>7, <1>12, <1>13 DEF EndsLine

-----------------------------------------------------------------------------
(* What a step of the reader does, to its file and to the others.          *)

Kept(f) == /\ Content(f)' = Content(f) /\ Position(f)' = Position(f)
           /\ SizeOf(f)' = SizeOf(f) /\ pushed'[f] = pushed[f]

\* The reader goes from a place in a file to another, or leaves it.
Moves(f, p, p2) ==
    /\ f = Candidate.name /\ f \in DOMAIN files /\ f \in File
    /\ Place(f) = p /\ Place(f)' = p2
    /\ \A g \in File \ {f} : Place(g) = "away" /\ Place(g)' = "away" /\ Kept(g)
    /\ DOMAIN files' = DOMAIN files
    /\ disk' = disk /\ budget'.lines = budget.lines

LEMMA PlaceHere ==
    ASSUME reader.pc \in Following, NEW g
    PROVE  /\ g = Candidate.name => Place(g) = reader.pc
           /\ g # Candidate.name => Place(g) = "away"
  BY DEF Place, Under

LEMMA PlaceNext ==
    ASSUME reader'.pc \in Following, reader'.todo = reader.todo, NEW g
    PROVE  /\ g = Candidate.name => Place(g)' = reader'.pc
           /\ g # Candidate.name => Place(g)' = "away"
  BY DEF Place, Under, Candidate

LEMMA PlaceGone == ASSUME reader'.pc \notin Following, NEW g PROVE Place(g)' = "away"
  BY DEF Place, Under

LEMMA PlaceNone == ASSUME reader.pc \notin Following, NEW g PROVE Place(g) = "away"
  BY DEF Place, Under

LEMMA SeqOfNat == ASSUME NEW S \in SUBSET Nat, NEW s \in Seq(S) PROVE s \in Seq(Nat)
<1>1. \A i \in 1 .. Len(s) : s[i] \in Nat
  BY ElementOfSeq
<1> QED
  BY <1>1

LEMMA ObserversTyped ==
    ASSUME LogTyped, NEW f \in File
    PROVE  /\ disk[f].text \in Seq(Nat) /\ Content(f) \in Seq(Nat) /\ pushed[f] \in Seq(Nat)
           /\ Position(f) \in Nat /\ SizeOf(f) \in Nat
           /\ reader.text \in Seq(Nat) /\ reader.at \in Nat /\ reader.chunk \in Nat
           /\ Top \in Nat /\ Top % 2 = 0
<1>1. 1 .. 2 * MaxLines \in SUBSET Nat /\ Line \in SUBSET Nat
  BY LogAssumption DEF Line
<1>2. disk[f].text \in Text /\ reader \in ReaderState /\ pushed[f] \in Seq(Line)
  BY DEF LogTyped, LogTypeOK
<1>3. \A s \in Text : s \in Seq(Nat)
  BY <1>1, SeqOfNat DEF Text
<1>4. reader.text \in Seq(Nat) /\ reader.at \in Nat /\ reader.chunk \in Nat
  BY <1>2, <1>3, ReaderStateFacts
<1>5. /\ Content(f) \in Seq(Nat) /\ Position(f) \in Nat /\ SizeOf(f) \in Nat
  <2>1. CASE f \in DOMAIN files
    <3>1. files[f] \in FileState
      BY <2>1 DEF LogTyped, LogTypeOK
    <3> QED
      BY <1>3, <2>1, <3>1 DEF Content, Position, SizeOf, FileState
  <2>2. CASE f \notin DOMAIN files
    BY <2>2, EmptySeq DEF Content, Position, SizeOf
  <2> QED
    BY <2>1, <2>2
<1>6. Top \in Nat /\ Top % 2 = 0
  <2>1. PICK n \in Nat, m \in Nat : n = budget.lines /\ m = MaxLines /\ n <= m
    BY BudgetTyped
  <2>2. PICK k \in Nat : k = m - n
    BY <2>1
  <2>3. Top = 2 * k
    BY <2>1, <2>2 DEF Top
  <2> QED
    BY <2>3
<1> QED
  BY <1>1, <1>2, <1>3, <1>4, <1>5, <1>6, SeqOfNat

LEMMA EntriesKept ==
    ASSUME files' = files, pushed' = pushed, NEW g
    PROVE  Kept(g)
  BY DEF Kept, Content, Position, SizeOf

\* A step that changes the entry of one file.
LEMMA OneFileKept ==
    ASSUME NEW f \in DOMAIN files, NEW new, files' = [files EXCEPT ![f] = new], NEW g, g # f
    PROVE  /\ Content(g)' = Content(g) /\ Position(g)' = Position(g) /\ SizeOf(g)' = SizeOf(g)
           /\ g \in DOMAIN files => files'[g] = files[g]
  BY DEF Content, Position, SizeOf

LEMMA OneFileHere ==
    ASSUME NEW f \in DOMAIN files, NEW new, files' = [files EXCEPT ![f] = new]
    PROVE  /\ DOMAIN files' = DOMAIN files /\ files'[f] = new
           /\ Content(f)' = new.content /\ Position(f)' = new.at /\ SizeOf(f)' = new.size
           /\ Content(f) = files[f].content /\ Position(f) = files[f].at
           /\ SizeOf(f) = files[f].size
  BY DEF Content, Position, SizeOf

LEMMA SnapshotEffect ==
    ASSUME LogTyped, TakeSnapshot, NEW f, f = Candidate.name
    PROVE  /\ Moves(f, "snapshot", "stat") /\ files' = files /\ pushed' = pushed
           /\ reader'.text = disk[f].text /\ reader'.at = reader.at /\ reader'.chunk = reader.chunk
<1>1. reader.pc = "snapshot" /\ reader.pc \in Following /\ "stat" \in Following
  BY DEF TakeSnapshot, At, Following
<1>2. PICK r : r = [reader EXCEPT !.pc = "stat", !.text = disk[f].text]
  OBVIOUS
<1>3. reader' = r
  BY <1>2 DEF TakeSnapshot
<1>4. /\ r.pc = "stat" /\ r.text = disk[f].text /\ r.at = reader.at /\ r.chunk = reader.chunk
      /\ r.todo = reader.todo
  BY <1>1, <1>2, CandidateText DEF ReaderState
<1>5. \A g \in File \ {f} : Place(g) = "away" /\ Place(g)' = "away" /\ Kept(g)
  BY <1>1, <1>3, <1>4, PlaceHere, PlaceNext, EntriesKept DEF TakeSnapshot, queues
<1> QED
  BY <1>1, <1>3, <1>4, <1>5, PlaceHere, PlaceNext, CandidateText
  DEF Moves, TakeSnapshot, queues, environment

LEMMA StatEffect ==
    ASSUME LogTyped, StatSnapshot \/ StatFails, NEW f, f = Candidate.name
    PROVE  /\ files' = files /\ pushed' = pushed
           /\ \/ Moves(f, "stat", "away") \/ Moves(f, "stat", "snapshot")
              \/ /\ Moves(f, "stat", "compare") /\ reader'.text = reader.text
                 /\ reader'.at = reader.at /\ reader'.chunk = reader.chunk
<1>1. reader.pc = "stat" /\ reader.pc \in Following /\ "snapshot" \in Following
      /\ "compare" \in Following
  BY DEF StatSnapshot, StatFails, At, Following
<1>2. files' = files /\ pushed' = pushed /\ disk' = disk /\ budget'.lines = budget.lines
  BY SpendTyped DEF StatSnapshot, StatFails, queues, environment
<1>3. \/ reader' = Read("compare")
      \/ reader' = [reader EXCEPT !.pc = "snapshot", !.size = Len(disk[f].text), !.attempt = @ + 1]
      \/ reader' = [reader EXCEPT !.pc = "snapshot", !.attempt = @ + 1]
      \/ reader' = NextFile(TRUE)
  BY DEF StatSnapshot, StatFails
<1>4. \A g : g # f => Place(g) = "away" /\ Kept(g)
  BY <1>1, <1>2, PlaceHere, EntriesKept
<1>5. Place(f) = "stat" /\ f \in DOMAIN files /\ f \in File /\ reader \in ReaderState
  BY <1>1, PlaceHere, CandidateText
<1>6. CASE reader' = Read("compare")
  <2>1. /\ reader'.pc = "compare" /\ reader'.text = reader.text /\ reader'.at = reader.at
        /\ reader'.chunk = reader.chunk /\ reader'.todo = reader.todo
    BY <1>5, <1>6 DEF Read, ReaderState
  <2> QED
    BY <1>1, <1>2, <1>4, <1>5, <2>1, PlaceNext DEF Moves
<1>7. CASE \/ reader' = [reader EXCEPT !.pc = "snapshot", !.size = Len(disk[f].text), !.attempt = @ + 1]
           \/ reader' = [reader EXCEPT !.pc = "snapshot", !.attempt = @ + 1]
  <2>1. PICK n, k : n = Len(disk[f].text) /\ k = reader.attempt + 1
    OBVIOUS
  <2>2. \/ reader' = [reader EXCEPT !.pc = "snapshot", !.size = n, !.attempt = k]
        \/ reader' = [reader EXCEPT !.pc = "snapshot", !.attempt = k]
    BY <1>7, <2>1
  <2>3. reader'.pc = "snapshot" /\ reader'.todo = reader.todo
    BY <1>5, <2>2 DEF ReaderState
  <2> QED
    BY <1>1, <1>2, <1>4, <1>5, <2>3, PlaceNext DEF Moves
<1>8. CASE reader' = NextFile(TRUE)
  <2>1. reader'.pc \notin Following
    BY <1>1, <1>8, NextOnly, CandidateText
  <2> QED
    BY <1>2, <1>4, <1>5, <2>1, PlaceGone DEF Moves
<1> QED
  BY <1>2, <1>3, <1>6, <1>7, <1>8

LEMMA CompareEffect ==
    ASSUME LogTyped, CompareContent, NEW f, f = Candidate.name
    PROVE  /\ Moves(f, "compare", "store") /\ pushed' = pushed
           /\ reader'.text = reader.text /\ reader'.at = reader.at
           /\ reader'.chunk = reader.chunk
           /\ Content(f)' = Content(f)
           /\ \A g \in DOMAIN files : files'[g].records = files[g].records
           /\ \/ files' = files
              \/ /\ Position(f)' = 0 /\ SizeOf(f)' \in Nat
                 /\ ~Starts(Content(f), reader.text)
<1>1. reader.pc = "compare" /\ reader.pc \in Following /\ "store" \in Following
  BY DEF CompareContent, At, Following
<1>2. pushed' = pushed /\ UNCHANGED <<disk, budget>> /\ reader' = Read("store")
  BY DEF CompareContent, environment
<1>3. Place(f) = "compare" /\ f \in DOMAIN files /\ f \in File /\ reader \in ReaderState
      /\ files[f] \in FileState
  BY <1>1, PlaceHere, CandidateText
<1>4. /\ reader'.pc = "store" /\ reader'.text = reader.text /\ reader'.at = reader.at
      /\ reader'.chunk = reader.chunk /\ reader'.todo = reader.todo
  BY <1>2, <1>3 DEF Read, ReaderState
<1>5. \A g : g # f => Place(g) = "away" /\ Place(g)' = "away"
  BY <1>1, <1>4, PlaceHere, PlaceNext
<1>6. Place(f)' = "store"
  BY <1>1, <1>4, PlaceNext
<1>7. PICK n, m : n \in Nat /\ n = Candidate.size /\ m = Candidate.time
  BY <1>1, CandidateText, CandidateTyped
<1>8. \/ files' = files
      \/ /\ files' = [files EXCEPT ![f].size = n, ![f].time = m, ![f].at = 0]
         /\ \/ Len(files[f].content) > Len(reader.text)
            \/ ~IsPrefix(files[f].content, reader.text)
  BY <1>7 DEF CompareContent
<1>9. CASE files' = files
  <2>1. \A g : Kept(g)
    BY <1>2, <1>9, EntriesKept
  <2>2. Moves(f, "compare", "store")
    BY <1>2, <1>3, <1>5, <1>6, <1>9, <2>1 DEF Moves
  <2> QED
    BY <1>2, <1>4, <1>9, <2>1, <2>2 DEF Kept
<1>10. CASE /\ files' = [files EXCEPT ![f].size = n, ![f].time = m, ![f].at = 0]
            /\ \/ Len(files[f].content) > Len(reader.text)
               \/ ~IsPrefix(files[f].content, reader.text)
  <2>1. PICK new : new = [files[f] EXCEPT !.size = n, !.time = m, !.at = 0]
    OBVIOUS
  <2>2. new.content = files[f].content /\ new.size = n /\ new.at = 0
        /\ new.records = files[f].records
    BY <1>3, <2>1 DEF FileState
  <2>3. files' = [files EXCEPT ![f] = new]
    BY <1>10, <2>1
  <2>4. \A g : g # f => Kept(g)
    BY <1>2, <1>3, <2>3, OneFileKept DEF Kept
  <2>5. DOMAIN files' = DOMAIN files
        /\ Content(f)' = Content(f) /\ Position(f)' = 0 /\ SizeOf(f)' = n
        /\ Content(f) = files[f].content
    <3>1. /\ DOMAIN files' = DOMAIN files
          /\ Content(f)' = new.content /\ Position(f)' = new.at /\ SizeOf(f)' = new.size
          /\ Content(f) = files[f].content
      BY <1>3, <2>3, OneFileHere, Zenon
    <3> QED
      BY <2>2, <3>1
  <2>6. Moves(f, "compare", "store")
    BY <1>2, <1>3, <1>5, <1>6, <2>4, <2>5 DEF Moves
  <2>7. ~Starts(Content(f), reader.text)
    <3>1. PICK c \in Seq(Nat), t \in Seq(Nat) : c = Content(f) /\ t = reader.text
      BY <1>3, ObserversTyped
    <3>2. ASSUME Starts(c, t) PROVE Len(c) <= Len(t) /\ IsPrefix(c, t)
      <4>1. Len(c) \in Nat /\ Len(t) \in Nat /\ Len(c) <= Len(t)
            /\ \A i \in 1 .. Len(c) : c[i] = t[i]
        BY <3>2, LengthNat DEF Starts
      <4>2. PICK a \in Seq(Nat), b \in Seq(Nat) : a = SubSeq(c, 1, Len(c)) /\ b = SubSeq(t, 1, Len(c))
        BY <4>1, SubSeqProperties
      <4>3. /\ Len(a) = Len(c) /\ Len(b) = Len(c)
            /\ \A i \in 1 .. Len(c) : a[i] = c[i] /\ b[i] = t[i]
        BY <4>1, <4>2, SubSeqProperties
      <4>4. a = b
        BY <4>1, <4>3, SeqEqual
      <4> QED
        BY <4>1, <4>2, <4>4 DEF IsPrefix
    <3>3. Len(c) \in Nat /\ Len(t) \in Nat
      BY LengthNat
    <3> QED
      BY <1>10, <2>5, <3>1, <3>2, <3>3
  <2>8. \A g \in DOMAIN files : files'[g].records = files[g].records
    BY <1>3, <2>2, <2>3
  <2>9. SizeOf(f)' \in Nat
    BY <1>7, <2>5
  <2> QED
    BY <1>2, <1>4, <2>5, <2>6, <2>7, <2>8, <2>9
<1> QED
  BY <1>8, <1>9, <1>10

LEMMA StoreEffect ==
    ASSUME LogTyped, StoreContent, NEW f, f = Candidate.name
    PROVE  /\ pushed' = pushed
           /\ Content(f)' = reader.text /\ SizeOf(f)' = Len(reader.text)
           /\ Position(f)' = Position(f)
           /\ \A g \in DOMAIN files : files'[g].records = files[g].records
           /\ \/ Moves(f, "store", "away") /\ reader.text = <<>>
              \/ Moves(f, "store", "start") /\ reader'.text = reader.text
<1>1. reader.pc = "store" /\ reader.pc \in Following /\ "start" \in Following
  BY DEF StoreContent, At, Following
<1>2. pushed' = pushed /\ UNCHANGED <<disk, budget>>
  BY DEF StoreContent, environment
<1>3. Place(f) = "store" /\ f \in DOMAIN files /\ f \in File /\ reader \in ReaderState
      /\ files[f] \in FileState
  BY <1>1, PlaceHere, CandidateText
<1>4. PICK t, n : t = reader.text /\ n = Len(reader.text)
  OBVIOUS
<1>5. files' = [files EXCEPT ![f].content = t, ![f].size = n]
  BY <1>4 DEF StoreContent
<1>6. PICK new : new = [files[f] EXCEPT !.content = t, !.size = n]
  OBVIOUS
<1>7. new.content = t /\ new.size = n /\ new.at = files[f].at
      /\ new.records = files[f].records
  BY <1>3, <1>6 DEF FileState
<1>8. files' = [files EXCEPT ![f] = new]
  BY <1>5, <1>6
<1>9. \A g : g # f => Kept(g)
  BY <1>2, <1>3, <1>8, OneFileKept DEF Kept
<1>10. DOMAIN files' = DOMAIN files
       /\ Content(f)' = t /\ SizeOf(f)' = n /\ Position(f)' = Position(f)
  <2>1. /\ DOMAIN files' = DOMAIN files
        /\ Content(f)' = new.content /\ Position(f)' = new.at /\ SizeOf(f)' = new.size
        /\ Content(f) = files[f].content /\ Position(f) = files[f].at
        /\ SizeOf(f) = files[f].size
    BY <1>3, <1>8, OneFileHere, Zenon
  <2> QED
    BY <1>7, <2>1
<1>11. \A g \in DOMAIN files : files'[g].records = files[g].records
  BY <1>3, <1>7, <1>8
<1>12. \A g : g # f => Place(g) = "away"
  BY <1>1, PlaceHere
<1>13. CASE reader.text = <<>> /\ reader' = NextFile(FALSE)
  <2>1. reader'.pc \notin Following
    BY <1>1, <1>13, NextOnly, CandidateText
  <2>2. Moves(f, "store", "away")
    BY <1>2, <1>3, <1>9, <1>10, <1>12, <2>1, PlaceGone DEF Moves
  <2> QED
    BY <1>2, <1>4, <1>10, <1>11, <1>13, <2>2
<1>14. CASE reader' = Read("start")
  <2>1. reader'.pc = "start" /\ reader'.text = reader.text /\ reader'.todo = reader.todo
    BY <1>3, <1>14 DEF Read, ReaderState
  <2>2. Place(f)' = "start" /\ \A g : g # f => Place(g)' = "away"
    BY <1>1, <2>1, PlaceNext
  <2>3. Moves(f, "store", "start")
    BY <1>2, <1>3, <1>9, <1>10, <1>12, <2>2 DEF Moves
  <2> QED
    BY <1>2, <1>4, <1>10, <1>11, <2>1, <2>3
<1> QED
  BY <1>13, <1>14 DEF StoreContent

LEMMA StartEffect ==
    ASSUME LogTyped, StartRecords, NEW f, f = Candidate.name
    PROVE  /\ files' = files /\ pushed' = pushed
           /\ \/ Moves(f, "start", "away") /\ Position(f) > Len(reader.text)
              \/ /\ Moves(f, "start", "push") /\ Position(f) <= Len(reader.text)
                 /\ reader'.text = reader.text /\ reader'.at = Position(f)
<1>1. reader.pc = "start" /\ reader.pc \in Following /\ "push" \in Following
  BY DEF StartRecords, At, Following
<1>2. files' = files /\ pushed' = pushed /\ UNCHANGED <<disk, budget>>
  BY DEF StartRecords, queues, environment
<1>3. Place(f) = "start" /\ f \in DOMAIN files /\ f \in File /\ reader \in ReaderState
  BY <1>1, PlaceHere, CandidateText
<1>4. \A g : g # f => Place(g) = "away" /\ Kept(g)
  BY <1>1, <1>2, PlaceHere, EntriesKept
<1>5. PICK a \in Nat, n \in Nat : a = files[f].at /\ n = Len(reader.text) /\ a = Position(f)
  <2>1. Position(f) = files[f].at
    BY <1>3 DEF Position
  <2> QED
    BY <1>3, <2>1, ObserversTyped, LengthNat
<1>6. CASE a > n /\ reader' = NextFile(FALSE)
  <2>1. reader'.pc \notin Following
    BY <1>1, <1>6, NextOnly, CandidateText
  <2> QED
    BY <1>2, <1>3, <1>4, <1>5, <1>6, <2>1, PlaceGone DEF Moves
<1>7. CASE a <= n /\ reader' = [reader EXCEPT !.pc = "push", !.at = a]
  <2>1. /\ reader'.pc = "push" /\ reader'.text = reader.text /\ reader'.todo = reader.todo
        /\ reader'.at = a
    BY <1>3, <1>7 DEF ReaderState
  <2>2. Place(f)' = "push" /\ \A g : g # f => Place(g)' = "away"
    BY <1>1, <2>1, PlaceNext
  <2> QED
    BY <1>2, <1>3, <1>4, <1>5, <1>7, <2>1, <2>2 DEF Moves
<1>8. \/ a > n /\ reader' = NextFile(FALSE)
      \/ ~(a > n) /\ reader' = [reader EXCEPT !.pc = "push", !.at = a]
  BY <1>5 DEF StartRecords
<1>9. ~(a > n) <=> a <= n
  OBVIOUS
<1> QED
  BY <1>6, <1>7, <1>8, <1>9

LEMMA UpdateEffect ==
    ASSUME LogTyped, UpdatePosition, NEW f, f = Candidate.name
    PROVE  /\ Moves(f, "update", "push") /\ pushed' = pushed
           /\ Content(f)' = Content(f) /\ SizeOf(f)' = SizeOf(f)
           /\ Position(f)' = Position(f) + reader.chunk
           /\ \A g \in DOMAIN files : files'[g].records = files[g].records
           /\ reader'.text = reader.text /\ reader'.at = reader.at
           /\ reader'.chunk = reader.chunk
<1>1. reader.pc = "update" /\ reader.pc \in Following /\ "push" \in Following
  BY DEF UpdatePosition, At, Following
<1>2. pushed' = pushed /\ UNCHANGED <<disk, budget>> /\ reader' = Read("push")
  BY DEF UpdatePosition, environment
<1>3. Place(f) = "update" /\ f \in DOMAIN files /\ f \in File /\ reader \in ReaderState
      /\ files[f] \in FileState
  BY <1>1, PlaceHere, CandidateText
<1>4. PICK n : n = files[f].at + reader.chunk
  OBVIOUS
<1>5. files' = [files EXCEPT ![f].at = n]
  BY <1>4 DEF UpdatePosition
<1>6. PICK new : new = [files[f] EXCEPT !.at = n]
  OBVIOUS
<1>7. new.content = files[f].content /\ new.size = files[f].size /\ new.at = n
      /\ new.records = files[f].records
  BY <1>3, <1>6 DEF FileState
<1>8. files' = [files EXCEPT ![f] = new]
  BY <1>5, <1>6
<1>9. \A g : g # f => Kept(g)
  BY <1>2, <1>3, <1>8, OneFileKept DEF Kept
<1>10. DOMAIN files' = DOMAIN files /\ Content(f)' = Content(f) /\ SizeOf(f)' = SizeOf(f)
       /\ Position(f)' = n /\ Position(f) = files[f].at
  <2>1. /\ DOMAIN files' = DOMAIN files
        /\ Content(f)' = new.content /\ Position(f)' = new.at /\ SizeOf(f)' = new.size
        /\ Content(f) = files[f].content /\ Position(f) = files[f].at
        /\ SizeOf(f) = files[f].size
    BY <1>3, <1>8, OneFileHere, Zenon
  <2> QED
    BY <1>7, <2>1
<1>11. \A g \in DOMAIN files : files'[g].records = files[g].records
  BY <1>3, <1>7, <1>8
<1>12. /\ reader'.pc = "push" /\ reader'.text = reader.text /\ reader'.at = reader.at
       /\ reader'.chunk = reader.chunk /\ reader'.todo = reader.todo
  BY <1>2, <1>3 DEF Read, ReaderState
<1>13. /\ Place(f)' = "push"
       /\ \A g : g # f => Place(g) = "away" /\ Place(g)' = "away"
  BY <1>1, <1>12, PlaceHere, PlaceNext
<1> QED
  BY <1>2, <1>3, <1>4, <1>9, <1>10, <1>11, <1>12, <1>13 DEF Moves

LEMMA EndEffect ==
    ASSUME LogTyped, EndRecords, NEW f, f = Candidate.name
    PROVE  /\ Moves(f, "push", "away") /\ files' = files /\ pushed' = pushed
           /\ EndsAfter(reader.at) = {}
<1>1. reader.pc = "push" /\ reader.pc \in Following /\ EndsAfter(reader.at) = {}
  BY DEF EndRecords, At, Following
<1>2. files' = files /\ pushed' = pushed /\ UNCHANGED <<disk, budget>>
      /\ reader' = NextFile(FALSE)
  BY DEF EndRecords, queues, environment
<1>3. reader'.pc \notin Following
  BY <1>1, <1>2, NextOnly, CandidateText
<1>4. Place(f) = "push" /\ f \in DOMAIN files /\ f \in File
  BY <1>1, PlaceHere, CandidateText
<1>5. \A g : g # f => Place(g) = "away" /\ Kept(g)
  BY <1>1, <1>2, PlaceHere, EntriesKept
<1> QED
  BY <1>1, <1>2, <1>3, <1>4, <1>5, PlaceGone DEF Moves

\* The end of a line, in what was read of the file.
LEMMA PushMoves ==
    ASSUME LogTyped, PushRecord, NEW f, f = Candidate.name, NEW end, end = NextEnd(reader.at)
    PROVE  /\ Moves(f, "push", "update")
           /\ Content(f)' = Content(f) /\ Position(f)' = Position(f) /\ SizeOf(f)' = SizeOf(f)
           /\ reader'.text = reader.text /\ reader'.at = end /\ reader'.chunk = end - reader.at
           /\ end \in Nat /\ reader.at < end /\ end <= Len(reader.text)
           /\ EndsLine(reader.text[end])
           /\ \A i \in reader.at + 1 .. Len(reader.text) : EndsLine(reader.text[i]) => end <= i
           /\ PushesLine(f, LineOf(reader.text[end]), end)
           /\ LineOf(reader.text[end]) \in Line
<1>1. PICK line : line = LineOf(reader.text[end])
  OBVIOUS
<1>2. /\ reader.pc = "push" /\ EndsAfter(reader.at) # {} /\ f \in DOMAIN files /\ line \in Line
      /\ reader' = [reader EXCEPT !.pc = "update", !.at = end, !.chunk = end - reader.at]
  BY <1>1, PushEffect
<1>3. PushesLine(f, line, end)
  BY <1>1, PushEffect, Zenon
<1>4. reader.pc \in Following /\ "update" \in Following
  BY <1>2 DEF Following
<1>5. /\ end \in reader.at + 1 .. Len(reader.text) /\ end \in Nat /\ reader.at \in Nat
      /\ Len(reader.text) \in Nat /\ EndsLine(reader.text[end])
      /\ \A i \in reader.at + 1 .. Len(reader.text) : EndsLine(reader.text[i]) => end <= i
  BY <1>2, NextEndFacts
<1>6. reader.at < end /\ end <= Len(reader.text)
  BY <1>5
<1>7. PICK k : k = end - reader.at
  OBVIOUS
<1>8. reader' = [reader EXCEPT !.pc = "update", !.at = end, !.chunk = k]
  BY <1>2, <1>7
<1>9. reader \in ReaderState /\ f \in File /\ Place(f) = "push"
  BY <1>2, <1>4, CandidateText, PlaceHere
<1>10. /\ reader'.pc = "update" /\ reader'.text = reader.text /\ reader'.at = end
       /\ reader'.chunk = k /\ reader'.todo = reader.todo
  BY <1>8, <1>9 DEF ReaderState
<1>11. /\ Place(f)' = "update"
       /\ \A g : g # f => Place(g) = "away" /\ Place(g)' = "away"
  BY <1>4, <1>10, PlaceHere, PlaceNext
<1>12. UNCHANGED <<disk, budget>>
  BY DEF PushRecord, environment
<1>13. /\ \A g \in File \ {f} : Kept(g)
       /\ DOMAIN files' = DOMAIN files
       /\ Content(f)' = Content(f) /\ Position(f)' = Position(f) /\ SizeOf(f)' = SizeOf(f)
  <2>1. CASE files' = files /\ pushed' = pushed
    BY <2>1, EntriesKept DEF Kept
  <2>2. ASSUME NEW w \in BOOLEAN, NEW new, BecomesRecord(f, line, w, new)
        PROVE  /\ \A g \in File \ {f} : Kept(g)
               /\ DOMAIN files' = DOMAIN files
               /\ Content(f)' = Content(f) /\ Position(f)' = Position(f) /\ SizeOf(f)' = SizeOf(f)
    <3>1. /\ files' = [files EXCEPT ![f] = new]
          /\ new.content = files[f].content /\ new.size = files[f].size /\ new.at = files[f].at
          /\ pushed' = [pushed EXCEPT ![f] = Append(@, line)]
      BY <2>2 DEF BecomesRecord
    <3>2. /\ DOMAIN files' = DOMAIN files
          /\ Content(f)' = new.content /\ Position(f)' = new.at /\ SizeOf(f)' = new.size
          /\ Content(f) = files[f].content /\ Position(f) = files[f].at
          /\ SizeOf(f) = files[f].size
      BY <1>2, <3>1, OneFileHere, Zenon
    <3>3. \A g \in File \ {f} : pushed'[g] = pushed[g]
      <4>1. pushed \in [File -> Seq(Line)]
        BY DEF LogTyped, LogTypeOK
      <4> QED
        BY <3>1, <4>1
    <3>4. \A g \in File \ {f} : Kept(g)
      BY <1>2, <3>1, <3>3, OneFileKept DEF Kept
    <3> QED
      BY <3>1, <3>2, <3>4
  <2> QED
    BY <1>3, <2>1, <2>2 DEF PushesLine
<1>14. Moves(f, "push", "update")
  BY <1>2, <1>9, <1>11, <1>12, <1>13 DEF Moves
<1> QED
  BY <1>1, <1>2, <1>3, <1>5, <1>6, <1>7, <1>10, <1>13, <1>14

\* A reader that is at no file, or before its text.
Resting == \A g : Place(g) \in {"away", "snapshot"}

LEMMA RestingAt ==
    ASSUME reader.pc \in {"off", "list", "file", "snapshot", "listed", "stopped", "crashed"}
    PROVE  Resting
  BY DEF Resting, Place, Under, Following

\* Who did not listen, or stopped to, does not read.
ReadsListened == typeMeta = "none" /\ ~reader.listens => reader.pc = "off"

LEMMA RestEffect ==
    ASSUME LogTyped, ReadsListened,
           ListFiles \/ EndListing \/ Crash \/ Close \/ Listen \/ ReaderFails
    PROVE  /\ Resting /\ \A g : Place(g)' = "away"
           /\ UNCHANGED <<disk, rotated, files, pushed, torn, resetAt, discarded, iterator,
                          shifted, useIndex>>
           /\ budget'.lines = budget.lines
<1>1. UNCHANGED <<disk, rotated, files, pushed, torn, resetAt, discarded, iterator, shifted,
                  useIndex>>
  BY DEF ListFiles, EndListing, Crash, Close, Listen, ReaderFails, environment, queues
<1>2. budget'.lines = budget.lines
  BY SpendTyped DEF ListFiles, EndListing, Crash, Close, Listen, ReaderFails
<1>3. reader.pc \in {"off", "list", "file", "snapshot", "listed", "stopped", "crashed"}
  BY DEF ListFiles, EndListing, Crash, Close, Listen, ReaderFails, At, Idle, ReadsListened
<1>4. ASSUME NEW p \in {"off", "list", "stopped", "crashed", "listed", "file"}, reader'.pc = p
      PROVE  reader'.pc \notin Following
  BY <1>4 DEF Following
<1>5. ASSUME NEW p \in {"off", "list", "stopped", "crashed"},
             reader' = [NoReader EXCEPT !.pc = p] \/ reader' = [NoReader EXCEPT !.pc = p, !.listens = TRUE]
      PROVE  reader'.pc = p
  <2>1. PICK r : r = reader'
    OBVIOUS
  <2>2. CASE r = [NoReader EXCEPT !.pc = p]
    BY <2>1, <2>2 DEF NoReader
  <2>3. CASE r = [NoReader EXCEPT !.pc = p, !.listens = TRUE]
    BY <2>1, <2>3 DEF NoReader
  <2> QED
    BY <1>5, <2>1, <2>2, <2>3
<1>6. reader'.pc \notin Following
  <2>1. CASE ListFiles
    <3>1. PICK todo, p : /\ reader' = [reader EXCEPT !.todo = todo, !.pc = p]
                         /\ p \in {"listed", "file"}
      BY <2>1 DEF ListFiles
    <3>2. reader \in ReaderState
      BY DEF LogTyped, LogTypeOK
    <3>3. reader'.pc = p
      BY <3>1, <3>2 DEF ReaderState
    <3> QED
      BY <1>4, <3>1, <3>3
  <2>2. CASE EndListing
    BY <1>4, <1>5, <2>2 DEF EndListing
  <2>3. CASE Crash
    BY <1>4, <1>5, <2>3 DEF Crash
  <2>4. CASE Close
    BY <1>4, <1>5, <2>4 DEF Close
  <2>5. CASE Listen
    BY <1>4, <1>5, <2>5 DEF Listen
  <2>6. CASE ReaderFails
    BY <1>4, <1>5, <2>6 DEF ReaderFails
  <2> QED
    BY <2>1, <2>2, <2>3, <2>4, <2>5, <2>6
<1> QED
  BY <1>1, <1>2, <1>3, <1>6, RestingAt, PlaceGone

LEMMA OpenEffect ==
    ASSUME LogTyped, OpenFile, NEW f, f = Candidate.name
    PROVE  /\ f \in File /\ \A g : Place(g) = "away"
           /\ \A g : Place(g)' \in {"away", "snapshot"}
           /\ UNCHANGED <<disk, budget, rotated, torn, resetAt, discarded, pushed, iterator,
                          shifted, useIndex>>
           /\ DOMAIN files' = DOMAIN files \cup {f}
           /\ \A g \in DOMAIN files : files'[g] = files[g]
           /\ f \notin DOMAIN files => files'[f].records = <<>>
           /\ \A g : Content(g)' = Content(g) /\ Position(g)' = Position(g)
           /\ \A g : SizeOf(g)' = SizeOf(g) \/ Content(g) = <<>>
<1>1. reader.pc = "file" /\ reader.pc \notin Following /\ reader.todo # <<>>
      /\ "snapshot" \in Following
  BY DEF OpenFile, At, Following, LogTyped
<1>2. f \in File
  BY <1>1, CandidateTyped
<1>3. UNCHANGED <<disk, budget, rotated, torn, resetAt, discarded, pushed, iterator, shifted, useIndex>>
  BY DEF OpenFile, environment
<1>4. PICK new : new = NewFile(Candidate)
  OBVIOUS
<1>9. new.content = <<>> /\ new.at = 0 /\ new.records = <<>>
  BY <1>4 DEF NewFile
<1>5. files' = [g \in DOMAIN files \cup {f} |-> IF g \in DOMAIN files THEN files[g] ELSE new]
  BY <1>4, Zenon DEF OpenFile
<1>6. /\ DOMAIN files' = DOMAIN files \cup {f}
      /\ \A g \in DOMAIN files : files'[g] = files[g]
      /\ f \notin DOMAIN files => files'[f] = new
  BY <1>5
<1>7. \A g : /\ Content(g)' = Content(g) /\ Position(g)' = Position(g)
             /\ SizeOf(g)' = SizeOf(g) \/ Content(g) = <<>>
  <2> SUFFICES ASSUME NEW g
               PROVE  /\ Content(g)' = Content(g) /\ Position(g)' = Position(g)
                      /\ SizeOf(g)' = SizeOf(g) \/ Content(g) = <<>>
    OBVIOUS
  <2>1. CASE g \in DOMAIN files
    BY <1>6, <2>1 DEF Content, Position, SizeOf
  <2>2. CASE g \notin DOMAIN files /\ g = f
    BY <1>6, <1>9, <2>2 DEF Content, Position, SizeOf
  <2>3. CASE g \notin DOMAIN files /\ g # f
    BY <1>6, <2>3 DEF Content, Position, SizeOf
  <2> QED
    BY <2>1, <2>2, <2>3
<1>8. \A g : Place(g)' \in {"away", "snapshot"}
  <2>1. CASE reader' = NextFile(FALSE)
    BY <1>1, <2>1, NextOnly, PlaceGone
  <2>2. CASE reader' = [reader EXCEPT !.pc = "snapshot", !.size = Candidate.size, !.attempt = 1]
    <3>1. reader \in ReaderState
      BY DEF LogTyped, LogTypeOK
    <3>2. PICK n : n = Candidate.size
      OBVIOUS
    <3>3. reader' = [reader EXCEPT !.pc = "snapshot", !.size = n, !.attempt = 1]
      BY <2>2, <3>2
    <3>4. reader'.pc = "snapshot"
      BY <3>1, <3>3 DEF ReaderState
    <3> QED
      BY <3>4 DEF Place, Under
  <2> QED
    BY <2>1, <2>2 DEF OpenFile
<1> QED
  BY <1>1, <1>2, <1>3, <1>6, <1>7, <1>8, <1>9, PlaceNone

LEMMA ResetEffect ==
    ASSUME LogTyped, Reset
    PROVE  /\ reader' = reader /\ disk' = disk /\ pushed' = pushed
           /\ budget'.lines = budget.lines
           /\ DOMAIN files' = DOMAIN files
           /\ \A g : /\ Content(g)' = Content(g) /\ SizeOf(g)' = SizeOf(g)
                     /\ Place(g)' = Place(g)
                     /\ g \in DOMAIN files => Position(g)' = SizeOf(g) /\ files'[g].records = <<>>
                     /\ g \notin DOMAIN files => Position(g)' = Position(g)
<1>1. files' = [f \in DOMAIN files |->
                   [files[f] EXCEPT !.at = files[f].size, !.records = <<>>]]
      /\ UNCHANGED <<disk, pushed, reader>>
  BY DEF Reset, environment
<1>2. budget'.lines = budget.lines
  BY SpendTyped DEF Reset
<1>3. \A g \in DOMAIN files : /\ files'[g].content = files[g].content
                              /\ files'[g].size = files[g].size
                              /\ files'[g].at = files[g].size /\ files'[g].records = <<>>
  <2> SUFFICES ASSUME NEW g \in DOMAIN files
               PROVE  /\ files'[g].content = files[g].content
                      /\ files'[g].size = files[g].size
                      /\ files'[g].at = files[g].size /\ files'[g].records = <<>>
    OBVIOUS
  <2>1. files[g] \in FileState
    BY DEF LogTyped, LogTypeOK
  <2>2. PICK n : n = files[g].size
    OBVIOUS
  <2>3. files'[g] = [files[g] EXCEPT !.at = n, !.records = <<>>]
    BY <1>1, <2>2
  <2> QED
    BY <2>1, <2>2, <2>3 DEF FileState
<1>4. DOMAIN files' = DOMAIN files
  BY <1>1
<1>5. \A g : Place(g)' = Place(g)
  BY <1>1 DEF Place, Under, Candidate
<1> QED
  BY <1>1, <1>2, <1>3, <1>4, <1>5 DEF Content, Position, SizeOf

LEMMA IndexedFiles ==
    ASSUME LogTyped, NEW line \in Line, ShiftIndexed(line)
    PROVE  /\ DOMAIN files' = DOMAIN files
           /\ \A g \in DOMAIN files :
                 \/ /\ files[g].records # <<>>
                    /\ files'[g] = [files[g] EXCEPT !.records = Tail(@)]
                 \/ files'[g] = [files[g] EXCEPT !.records = Without(@, line)]
                 \/ files'[g] = files[g]
<1>1. PICK order, hits, stop, missed :
         /\ order \in Seq(DOMAIN files)
         /\ order = iterator.order
         /\ hits = {i \in iterator.at .. Len(order) : Knows(order[i], line)}
         /\ stop = IF hits = {} THEN Len(order) ELSE Min(hits)
         /\ missed = {order[i] : i \in iterator.at .. stop} \ {order[i] : i \in hits}
  BY IteratorTyped
<1>2. files' = [f \in DOMAIN files |->
                   IF f \in missed /\ files[f].records # <<>>
                   THEN [files[f] EXCEPT !.records = Tail(@)]
                   ELSE IF hits # {} /\ f = order[stop]
                   THEN [files[f] EXCEPT !.records = Without(@, line)]
                   ELSE files[f]]
  BY <1>1 DEF ShiftIndexed
<1> QED
  BY <1>2

\* What an assert leaves alone.
LEMMA AssertEffect ==
    ASSUME LogTyped,
           \/ StartAssert \/ HasNext \/ EndAssert \/ ShiftRecord
           \/ \E line \in Line : ShiftIndexed(line)
    PROVE  /\ UNCHANGED <<reader, disk, pushed, rotated, torn, resetAt, discarded, useIndex>>
           /\ budget'.lines = budget.lines /\ DOMAIN files' = DOMAIN files
           /\ \A g : Kept(g) /\ Place(g)' = Place(g)
<1>1. UNCHANGED <<reader, disk, pushed, rotated, torn, resetAt, discarded, useIndex>>
  BY DEF StartAssert, HasNext, EndAssert, ShiftRecord, ShiftIndexed, environment, queues
<1>2. budget'.lines = budget.lines
  <2>1. CASE StartAssert \/ HasNext \/ EndAssert
    BY <2>1 DEF StartAssert, HasNext, EndAssert
  <2>2. CASE ShiftRecord \/ \E line \in Line : ShiftIndexed(line)
    <3>1. Spend("asserts")
      BY <2>2 DEF ShiftRecord, ShiftIndexed
    <3> QED
      BY <3>1, SpendTyped
  <2> QED
    BY <2>1, <2>2
<1>3. DOMAIN files' = DOMAIN files
      /\ \A g \in DOMAIN files : /\ files'[g].content = files[g].content
                                 /\ files'[g].size = files[g].size
                                 /\ files'[g].at = files[g].at
  <2>1. CASE StartAssert \/ HasNext \/ EndAssert
    BY <2>1 DEF StartAssert, HasNext, EndAssert, queues
  <2>2. ASSUME NEW g \in DOMAIN files, NEW rs, NEW new, new = [files[g] EXCEPT !.records = rs]
        PROVE  /\ new.content = files[g].content /\ new.size = files[g].size
               /\ new.at = files[g].at
    <3>1. files[g] \in FileState
      BY DEF LogTyped, LogTypeOK
    <3> QED
      BY <2>2, <3>1 DEF FileState
  <2>3. CASE ShiftRecord
    <3>1. PICK f, rs : /\ f = Current /\ rs = Tail(files[Current].records)
      OBVIOUS
    <3>2. files' = [files EXCEPT ![f].records = rs]
      BY <2>3, <3>1 DEF ShiftRecord
    <3>3. PICK new : new = [files[f] EXCEPT !.records = rs]
      OBVIOUS
    <3>4. files' = [files EXCEPT ![f] = new]
      BY <3>2, <3>3
    <3> QED
      BY <2>2, <3>3, <3>4
  <2>4. CASE \E line \in Line : ShiftIndexed(line)
    <3>1. PICK line \in Line : ShiftIndexed(line)
      BY <2>4
    <3>4. DOMAIN files' = DOMAIN files
      BY <3>1, IndexedFiles
    <3>5. ASSUME NEW g \in DOMAIN files
          PROVE  /\ files'[g].content = files[g].content
                 /\ files'[g].size = files[g].size
                 /\ files'[g].at = files[g].at
      <4>1. PICK ts, ws : ts = Tail(files[g].records) /\ ws = Without(files[g].records, line)
        OBVIOUS
      <4>2. \/ files'[g] = [files[g] EXCEPT !.records = ts]
            \/ files'[g] = [files[g] EXCEPT !.records = ws]
            \/ files'[g] = files[g]
        BY <3>1, <4>1, IndexedFiles
      <4>3. PICK new : new = files'[g]
        OBVIOUS
      <4> QED
        BY <2>2, <4>2, <4>3
    <3> QED
      BY <3>4, <3>5
  <2> QED
    BY <2>1, <2>3, <2>4
<1>4. \A g : Place(g)' = Place(g)
  BY <1>1 DEF Place, Under, Candidate
<1> QED
  BY <1>1, <1>2, <1>3, <1>4 DEF Kept, Content, Position, SizeOf

-----------------------------------------------------------------------------
(* Lines become records in order.                                          *)

\* A file that a step of the reader does not go to.
LEMMA OrderElsewhere ==
    ASSUME NEW g \in File, FileOrderInv(g),
           Place(g) \notin {"store", "update"}, Place(g)' \in {"away", "snapshot"},
           UNCHANGED <<disk, pushed[g]>>, budget'.lines = budget.lines,
           Content(g)' = Content(g), Position(g)' = Position(g),
           SizeOf(g)' = SizeOf(g) \/ (Content(g) = <<>> /\ Place(g) = "away")
    PROVE  FileOrderInv(g)'
<1>1. PICK d, c, at, size, q, top, place, t, ra, ch :
         /\ d = disk[g].text /\ c = Content(g) /\ at = Position(g) /\ size = SizeOf(g)
         /\ q = pushed[g] /\ top = Top /\ place = Place(g)
         /\ t = reader.text /\ ra = reader.at /\ ch = reader.chunk
  OBVIOUS
<1>2. PICK size2, place2, t2, ra2, ch2 :
         /\ size2 = SizeOf(g)' /\ place2 = Place(g)'
         /\ t2 = reader'.text /\ ra2 = reader'.at /\ ch2 = reader'.chunk
  OBVIOUS
<1>3. OrderOf(d, c, at, size, q, top, place, t, ra, ch)
  BY <1>1 DEF FileOrderInv
<1>4. OrderOf(d, c, at, size, q, top, place2, t2, ra2, ch2)
  BY <1>1, <1>2, <1>3, Rests
<1>5. OrderOf(d, c, at, size2, q, top, place2, t2, ra2, ch2)
  <2>1. CASE size2 = size
    BY <1>4, <2>1
  <2>2. CASE c = <<>>
    <3>1. OrderOf(d, <<>>, at, size, q, top, "away", t2, ra2, ch2)
      BY <1>3, <1>1, <2>2, Rests
    <3>2. OrderOf(d, <<>>, at, size2, q, top, "away", t2, ra2, ch2)
      BY <3>1, AnySize
    <3> QED
      BY <1>2, <2>2, <3>2, Rests
  <2> QED
    BY <1>1, <1>2, <2>1, <2>2
<1>6. /\ d = disk'[g].text /\ c = Content(g)' /\ at = Position(g)'
      /\ q = pushed'[g] /\ top = Top'
  BY <1>1 DEF Top
<1> QED
  BY <1>2, <1>5, <1>6 DEF FileOrderInv

LEMMA OrderOthers ==
    ASSUME OrderInv, NEW f, NEW p, NEW p2, Moves(f, p, p2), NEW g \in File \ {f}
    PROVE  FileOrderInv(g)'
<1>1. /\ FileOrderInv(g) /\ Place(g) = "away" /\ Place(g)' = "away" /\ Kept(g)
      /\ disk' = disk /\ budget'.lines = budget.lines
  BY DEF OrderInv, Moves
<1> QED
  BY <1>1, OrderElsewhere DEF Kept

LEMMA OrderRest ==
    ASSUME LogTyped, OrderInv, ReadsListened,
           ListFiles \/ EndListing \/ Crash \/ Close \/ Listen \/ ReaderFails
    PROVE  OrderInv'
<1>1. /\ Resting /\ \A g : Place(g)' = "away"
      /\ disk' = disk /\ pushed' = pushed /\ files' = files /\ budget'.lines = budget.lines
  BY RestEffect
<1>2. ASSUME NEW g \in File PROVE FileOrderInv(g)'
  <2>1. FileOrderInv(g) /\ Place(g) \notin {"store", "update"}
    BY <1>1 DEF OrderInv, Resting
  <2>2. Kept(g)
    BY <1>1, EntriesKept
  <2> QED
    BY <1>1, <2>1, <2>2, OrderElsewhere DEF Kept
<1> QED
  BY <1>1, <1>2 DEF OrderInv

LEMMA OrderOpen ==
    ASSUME LogTyped, OrderInv, OpenFile PROVE OrderInv'
<1>1. PICK f : f = Candidate.name
  OBVIOUS
<1>2. /\ \A g : Place(g) = "away" /\ Place(g)' \in {"away", "snapshot"}
      /\ disk' = disk /\ pushed' = pushed /\ budget' = budget
      /\ DOMAIN files' = DOMAIN files \cup {f}
      /\ \A g : Content(g)' = Content(g) /\ Position(g)' = Position(g)
      /\ \A g : SizeOf(g)' = SizeOf(g) \/ Content(g) = <<>>
  BY <1>1, OpenEffect
<1>3. ASSUME NEW g \in File PROVE FileOrderInv(g)'
  <2>1. FileOrderInv(g)
    BY DEF OrderInv
  <2>2. Place(g) = "away" /\ Place(g)' \in {"away", "snapshot"}
        /\ (SizeOf(g)' = SizeOf(g) \/ Content(g) = <<>>)
    BY <1>2
  <2> QED
    BY <1>2, <2>1, <2>2, OrderElsewhere
<1> QED
  BY <1>2, <1>3 DEF OrderInv

\* Values of a file and of the reader, before and after a step.
LEMMA OrderMoves ==
    ASSUME LogTyped, OrderInv, NEW f, NEW p, NEW p2, Moves(f, p, p2), NEW q2 \in [File -> Seq(Line)],
           pushed' = q2, \A g \in File \ {f} : q2[g] = pushed[g],
           OrderOf(disk[f].text, Content(f)', Position(f)', SizeOf(f)', q2[f], Top, p2,
                   reader'.text, reader'.at, reader'.chunk)
    PROVE  OrderInv'
<1>1. f \in File /\ f \in DOMAIN files /\ DOMAIN files' = DOMAIN files /\ Place(f)' = p2
      /\ disk' = disk /\ budget'.lines = budget.lines
  BY DEF Moves
<1>2. FileOrderInv(f)'
  BY <1>1 DEF FileOrderInv, Top
<1>3. \A g \in File \ {f} : FileOrderInv(g)'
  BY OrderOthers
<1>4. \A g \in File : g \notin DOMAIN files' => pushed'[g] = <<>>
  BY <1>1 DEF OrderInv
<1> QED
  BY <1>2, <1>3, <1>4 DEF OrderInv

LEMMA OrderSnapshotStep ==
    ASSUME LogTyped, OrderInv, TakeSnapshot PROVE OrderInv'
<1>1. PICK f : f = Candidate.name
  OBVIOUS
<1>2. /\ Moves(f, "snapshot", "stat") /\ files' = files /\ pushed' = pushed
      /\ reader'.text = disk[f].text /\ reader'.at = reader.at /\ reader'.chunk = reader.chunk
  BY <1>1, SnapshotEffect
<1>3. f \in File /\ Place(f) = "snapshot" /\ FileOrderInv(f)
  BY <1>2 DEF Moves, OrderInv
<1>4. PICK d, c, at, size, q, top, t, ra, ch :
         /\ d \in Seq(Nat)
         /\ d = disk[f].text /\ c = Content(f) /\ at = Position(f) /\ size = SizeOf(f)
         /\ q = pushed[f] /\ top = Top /\ t = reader.text /\ ra = reader.at /\ ch = reader.chunk
  BY <1>3, ObserversTyped
<1>5. OrderOf(d, c, at, size, q, top, "snapshot", t, ra, ch)
  BY <1>3, <1>4 DEF FileOrderInv
<1>6. OrderOf(d, c, at, size, q, top, "stat", d, ra, ch)
  BY <1>4, <1>5, OrderSnapshot
<1>7. Kept(f)
  BY <1>2, EntriesKept
<1>8. OrderOf(disk[f].text, Content(f)', Position(f)', SizeOf(f)', pushed[f], Top, "stat",
              reader'.text, reader'.at, reader'.chunk)
  BY <1>2, <1>4, <1>6, <1>7 DEF Kept
<1>9. pushed \in [File -> Seq(Line)]
  BY DEF LogTyped, LogTypeOK
<1> QED
  BY <1>2, <1>8, <1>9, OrderMoves

\* What the reader is at, in values.
LEMMA Values ==
    ASSUME LogTyped, OrderInv, NEW f, NEW p, NEW p2, Moves(f, p, p2)
    PROVE  /\ f \in File /\ pushed \in [File -> Seq(Line)] /\ f \in DOMAIN files
           /\ disk[f].text \in Seq(Nat) /\ Content(f) \in Seq(Nat) /\ pushed[f] \in Seq(Nat)
           /\ Position(f) \in Nat /\ SizeOf(f) \in Nat /\ reader.text \in Seq(Nat)
           /\ reader.at \in Nat /\ reader.chunk \in Nat /\ Top \in Nat
           /\ OrderOf(disk[f].text, Content(f), Position(f), SizeOf(f), pushed[f], Top, p,
                      reader.text, reader.at, reader.chunk)
<1>1. f \in File /\ f \in DOMAIN files /\ Place(f) = p /\ FileOrderInv(f)
  BY DEF Moves, OrderInv
<1>2. pushed \in [File -> Seq(Line)]
  BY DEF LogTyped, LogTypeOK
<1> QED
  BY <1>1, <1>2, ObserversTyped DEF FileOrderInv

LEMMA OrderGone ==
    ASSUME LogTyped, OrderInv, NEW f, NEW p, NEW p2 \in {"away", "snapshot"}, Moves(f, p, p2),
           p \notin {"store", "update"}, files' = files, pushed' = pushed
    PROVE  OrderInv'
<1>1. Kept(f)
  BY EntriesKept
<1>2. PICK t2, ra2, ch2 : t2 = reader'.text /\ ra2 = reader'.at /\ ch2 = reader'.chunk
  OBVIOUS
<1>3. OrderOf(disk[f].text, Content(f), Position(f), SizeOf(f), pushed[f], Top, p2, t2, ra2, ch2)
  BY Values, Rests
<1>4. pushed \in [File -> Seq(Line)]
  BY Values
<1>5. OrderOf(disk[f].text, Content(f)', Position(f)', SizeOf(f)', pushed[f], Top, p2,
              reader'.text, reader'.at, reader'.chunk)
  BY <1>1, <1>2, <1>3 DEF Kept
<1> QED
  BY <1>4, <1>5, OrderMoves

LEMMA OrderStatStep ==
    ASSUME LogTyped, OrderInv, StatSnapshot \/ StatFails PROVE OrderInv'
<1>1. PICK f : f = Candidate.name
  OBVIOUS
<1>2. files' = files /\ pushed' = pushed /\ Kept(f)
  BY <1>1, StatEffect, EntriesKept
<1>3. CASE Moves(f, "stat", "away")
  BY <1>2, <1>3, OrderGone
<1>4. CASE Moves(f, "stat", "snapshot")
  BY <1>2, <1>4, OrderGone
<1>5. CASE /\ Moves(f, "stat", "compare") /\ reader'.text = reader.text
           /\ reader'.at = reader.at /\ reader'.chunk = reader.chunk
  <2>1. OrderOf(disk[f].text, Content(f), Position(f), SizeOf(f), pushed[f], Top, "compare",
                reader.text, reader.at, reader.chunk)
    BY <1>5, Values, OrderStat
  <2>2. OrderOf(disk[f].text, Content(f)', Position(f)', SizeOf(f)', pushed[f], Top, "compare",
                reader'.text, reader'.at, reader'.chunk)
    BY <1>2, <1>5, <2>1 DEF Kept
  <2> QED
    BY <1>2, <1>5, <2>2, Values, OrderMoves
<1> QED
  BY <1>1, <1>3, <1>4, <1>5, StatEffect

LEMMA OrderCompareStep ==
    ASSUME LogTyped, OrderInv, CompareContent PROVE OrderInv'
<1>1. PICK f : f = Candidate.name
  OBVIOUS
<1>2. /\ Moves(f, "compare", "store") /\ pushed' = pushed
      /\ reader'.text = reader.text /\ reader'.at = reader.at /\ reader'.chunk = reader.chunk
      /\ Content(f)' = Content(f)
      /\ \/ files' = files
         \/ Position(f)' = 0 /\ SizeOf(f)' \in Nat /\ ~Starts(Content(f), reader.text)
  BY <1>1, CompareEffect
<1>3. PICK d, c, at, size, q, top, t, ra, ch :
         /\ c \in Seq(Nat) /\ at \in Nat /\ size \in Nat /\ t \in Seq(Nat)
         /\ d = disk[f].text /\ c = Content(f) /\ at = Position(f) /\ size = SizeOf(f)
         /\ q = pushed[f] /\ top = Top /\ t = reader.text /\ ra = reader.at /\ ch = reader.chunk
  <2>1. /\ disk[f].text \in Seq(Nat) /\ Content(f) \in Seq(Nat) /\ pushed[f] \in Seq(Nat)
      /\ Position(f) \in Nat /\ SizeOf(f) \in Nat /\ reader.text \in Seq(Nat)
      /\ reader.at \in Nat /\ reader.chunk \in Nat
    BY <1>2, Values
  <2> QED
    BY <2>1
<1>4. OrderOf(d, c, at, size, q, top, "compare", t, ra, ch)
  BY <1>2, <1>3, Values
<1>5. PICK at2, size2 : at2 = Position(f)' /\ size2 = SizeOf(f)'
  OBVIOUS
<1>6. OrderOf(d, c, at2, size2, q, top, "store", t, ra, ch)
  <2>1. CASE files' = files
    <3>1. at2 = at /\ size2 = size
      BY <1>2, <1>3, <1>5, <2>1, EntriesKept DEF Kept
    <3> QED
      BY <1>3, <1>4, <3>1, OrderCompare
  <2>2. CASE Position(f)' = 0 /\ SizeOf(f)' \in Nat /\ ~Starts(Content(f), reader.text)
    <3>1. at2 = 0 /\ size2 \in Nat /\ ~Starts(c, t)
      BY <1>3, <1>5, <2>2
    <3> QED
      BY <1>3, <1>4, <3>1, OrderCompare
  <2> QED
    BY <1>2, <2>1, <2>2
<1>7. OrderOf(disk[f].text, Content(f)', Position(f)', SizeOf(f)', pushed[f], Top, "store",
              reader'.text, reader'.at, reader'.chunk)
  BY <1>2, <1>3, <1>5, <1>6
<1> QED
  BY <1>2, <1>7, Values, OrderMoves

LEMMA OrderStoreStep ==
    ASSUME LogTyped, OrderInv, StoreContent PROVE OrderInv'
<1>1. PICK f : f = Candidate.name
  OBVIOUS
<1>2. /\ pushed' = pushed /\ Content(f)' = reader.text /\ SizeOf(f)' = Len(reader.text)
      /\ Position(f)' = Position(f)
  BY <1>1, StoreEffect
<1>3. ASSUME NEW p \in {"start", "away"}, Moves(f, "store", p),
             p = "start" => reader'.text = reader.text
      PROVE  OrderInv'
  <2>1. PICK d, c, at, size, q, top, t, ra, ch, t2, ra2, ch2 :
           /\ d = disk[f].text /\ c = Content(f) /\ at = Position(f) /\ size = SizeOf(f)
           /\ q = pushed[f] /\ top = Top /\ t = reader.text /\ ra = reader.at /\ ch = reader.chunk
           /\ t2 = reader'.text /\ ra2 = reader'.at /\ ch2 = reader'.chunk
    OBVIOUS
  <2>2. OrderOf(d, c, at, size, q, top, "store", t, ra, ch)
    BY <1>3, <2>1, Values
  <2>3. OrderOf(d, t, at, Len(t), q, top, p, t2, ra2, ch2)
    BY <1>3, <2>1, <2>2, OrderStore
  <2>4. OrderOf(disk[f].text, Content(f)', Position(f)', SizeOf(f)', pushed[f], Top, p,
                reader'.text, reader'.at, reader'.chunk)
    BY <1>2, <2>1, <2>3
  <2> QED
    BY <1>2, <1>3, <2>4, Values, OrderMoves
<1>4. Moves(f, "store", "away") \/ (Moves(f, "store", "start") /\ reader'.text = reader.text)
  BY <1>1, StoreEffect
<1> QED
  BY <1>3, <1>4

LEMMA OrderStartStep ==
    ASSUME LogTyped, OrderInv, StartRecords PROVE OrderInv'
<1>1. PICK f : f = Candidate.name
  OBVIOUS
<1>2. files' = files /\ pushed' = pushed /\ Kept(f)
  BY <1>1, StartEffect, EntriesKept
<1>3. CASE Moves(f, "start", "away")
  BY <1>2, <1>3, OrderGone
<1>4. CASE /\ Moves(f, "start", "push") /\ Position(f) <= Len(reader.text)
           /\ reader'.text = reader.text /\ reader'.at = Position(f)
  <2>1. PICK d, c, at, size, q, top, t, ra, ch, ch2 :
           /\ at \in Nat
           /\ d = disk[f].text /\ c = Content(f) /\ at = Position(f) /\ size = SizeOf(f)
           /\ q = pushed[f] /\ top = Top /\ t = reader.text /\ ra = reader.at /\ ch = reader.chunk
           /\ ch2 = reader'.chunk
    <3>1. /\ disk[f].text \in Seq(Nat) /\ Content(f) \in Seq(Nat) /\ pushed[f] \in Seq(Nat)
        /\ Position(f) \in Nat /\ SizeOf(f) \in Nat /\ reader.text \in Seq(Nat)
        /\ reader.at \in Nat /\ reader.chunk \in Nat
      BY <1>4, Values
    <3> QED
      BY <3>1
  <2>2. OrderOf(d, c, at, size, q, top, "start", t, ra, ch) /\ at <= Len(t)
    BY <1>4, <2>1, Values
  <2>3. OrderOf(d, c, at, size, q, top, "push", t, at, ch2)
    <3>1. OrderOf(d, c, at, size, q, top, "push", t, at, ch)
      BY <2>1, <2>2, OrderStart
    <3> QED
      BY <3>1 DEF OrderOf
  <2>4. OrderOf(disk[f].text, Content(f)', Position(f)', SizeOf(f)', pushed[f], Top, "push",
                reader'.text, reader'.at, reader'.chunk)
    BY <1>2, <1>4, <2>1, <2>3 DEF Kept
  <2> QED
    BY <1>2, <1>4, <2>4, Values, OrderMoves
<1>5. \/ Moves(f, "start", "away")
      \/ /\ Moves(f, "start", "push") /\ Position(f) <= Len(reader.text)
         /\ reader'.text = reader.text /\ reader'.at = Position(f)
  BY <1>1, StartEffect
<1> QED
  BY <1>3, <1>4, <1>5

LEMMA OrderUpdateStep ==
    ASSUME LogTyped, OrderInv, UpdatePosition PROVE OrderInv'
<1>1. PICK f : f = Candidate.name
  OBVIOUS
<1>2. /\ Moves(f, "update", "push") /\ pushed' = pushed
      /\ Content(f)' = Content(f) /\ SizeOf(f)' = SizeOf(f)
      /\ Position(f)' = Position(f) + reader.chunk
      /\ reader'.text = reader.text /\ reader'.at = reader.at /\ reader'.chunk = reader.chunk
  BY <1>1, UpdateEffect
<1>3. PICK d, c, at, size, q, top, t, ra, ch :
         /\ c \in Seq(Nat) /\ at \in Nat /\ ra \in Nat /\ ch \in Nat
         /\ d = disk[f].text /\ c = Content(f) /\ at = Position(f) /\ size = SizeOf(f)
         /\ q = pushed[f] /\ top = Top /\ t = reader.text /\ ra = reader.at /\ ch = reader.chunk
  <2>1. /\ disk[f].text \in Seq(Nat) /\ Content(f) \in Seq(Nat) /\ pushed[f] \in Seq(Nat)
      /\ Position(f) \in Nat /\ SizeOf(f) \in Nat /\ reader.text \in Seq(Nat)
      /\ reader.at \in Nat /\ reader.chunk \in Nat
    BY <1>2, Values
  <2> QED
    BY <2>1
<1>4. OrderOf(d, c, at, size, q, top, "update", t, ra, ch)
  BY <1>2, <1>3, Values
<1>5. OrderOf(d, c, at + ch, size, q, top, "push", t, ra, ch)
  BY <1>3, <1>4, OrderUpdate
<1>6. OrderOf(disk[f].text, Content(f)', Position(f)', SizeOf(f)', pushed[f], Top, "push",
              reader'.text, reader'.at, reader'.chunk)
  BY <1>2, <1>3, <1>5
<1> QED
  BY <1>2, <1>6, Values, OrderMoves

LEMMA OrderEndStep ==
    ASSUME LogTyped, OrderInv, EndRecords PROVE OrderInv'
<1>1. PICK f : f = Candidate.name
  OBVIOUS
<1>2. Moves(f, "push", "away") /\ files' = files /\ pushed' = pushed
  BY <1>1, EndEffect
<1> QED
  BY <1>2, OrderGone

LEMMA OrderPushStep ==
    ASSUME LogTyped, OrderInv, PushRecord PROVE OrderInv'
<1>1. PICK f, end : f = Candidate.name /\ end = NextEnd(reader.at)
  OBVIOUS
<1>2. /\ Moves(f, "push", "update")
      /\ Content(f)' = Content(f) /\ Position(f)' = Position(f) /\ SizeOf(f)' = SizeOf(f)
      /\ reader'.text = reader.text /\ reader'.at = end /\ reader'.chunk = end - reader.at
      /\ end \in Nat /\ reader.at < end /\ end <= Len(reader.text)
      /\ EndsLine(reader.text[end]) /\ LineOf(reader.text[end]) \in Line
  BY <1>1, PushMoves
<1>3. PushesLine(f, LineOf(reader.text[end]), end)
  BY <1>1, PushMoves
<1>4. PICK d, c, at, size, q, top, t, ra, ch :
         /\ d \in Seq(Nat) /\ c \in Seq(Nat) /\ at \in Nat /\ q \in Seq(Nat) /\ ra \in Nat
         /\ d = disk[f].text /\ c = Content(f) /\ at = Position(f) /\ size = SizeOf(f)
         /\ q = pushed[f] /\ top = Top /\ t = reader.text /\ ra = reader.at /\ ch = reader.chunk
  <2>1. /\ disk[f].text \in Seq(Nat) /\ Content(f) \in Seq(Nat) /\ pushed[f] \in Seq(Nat)
      /\ Position(f) \in Nat /\ SizeOf(f) \in Nat /\ reader.text \in Seq(Nat)
      /\ reader.at \in Nat /\ reader.chunk \in Nat
    BY <1>2, Values
  <2> QED
    BY <2>1
<1>5. OrderOf(d, c, at, size, q, top, "push", t, ra, ch)
  BY <1>2, <1>4, Values
<1>6. t = c
  BY <1>5 DEF OrderOf, Taking
<1>7. PICK line \in Line : line = LineOf(c[end])
  BY <1>2, <1>4, <1>6
<1>8. pushed \in [File -> Seq(Line)] /\ f \in File
  BY <1>2, Values
<1>9. PICK q2 \in [File -> Seq(Line)] :
         /\ pushed' = q2 /\ \A g \in File \ {f} : q2[g] = pushed[g]
         /\ q2[f] = q \/ q2[f] = Append(q, line)
  <2>1. CASE pushed' = pushed
    BY <1>4, <1>8, <2>1
  <2>2. CASE pushed' = [pushed EXCEPT ![f] = Append(@, line)]
    <3>1. Append(pushed[f], line) \in Seq(Line)
      BY <1>8, AppendProperties
    <3>2. PICK z \in Seq(Line) : z = Append(pushed[f], line)
      BY <3>1
    <3>3. pushed' = [pushed EXCEPT ![f] = z]
      BY <2>2, <3>2
    <3>4. pushed' \in [File -> Seq(Line)] /\ pushed'[f] = z
          /\ \A g \in File \ {f} : pushed'[g] = pushed[g]
      BY <1>8, <3>3
    <3> QED
      BY <1>4, <3>2, <3>4
  <2> QED
    BY <1>3, <1>4, <1>6, <1>7, <2>1, <2>2 DEF PushesLine, BecomesRecord
<1>10. PICK r : r = q2[f] /\ (r = q \/ r = Append(q, LineOf(c[end])))
  BY <1>7, <1>9
<1>11. end <= Len(c) /\ EndsLine(c[end]) /\ ra < end
  BY <1>2, <1>4, <1>6
<1>12. OrderOf(d, c, at, size, r, top, "update", t, end, end - ra)
  BY <1>2, <1>4, <1>5, <1>10, <1>11, OrderPush
<1>13. OrderOf(disk[f].text, Content(f)', Position(f)', SizeOf(f)', q2[f], Top, "update",
              reader'.text, reader'.at, reader'.chunk)
  BY <1>2, <1>4, <1>10, <1>12
<1> QED
  BY <1>2, <1>9, <1>13, OrderMoves

LEMMA OrderResetStep ==
    ASSUME LogTyped, OrderInv, Reset PROVE OrderInv'
<1>1. /\ reader' = reader /\ disk' = disk /\ pushed' = pushed /\ budget'.lines = budget.lines
      /\ DOMAIN files' = DOMAIN files
      /\ \A g : /\ Content(g)' = Content(g) /\ SizeOf(g)' = SizeOf(g) /\ Place(g)' = Place(g)
                /\ g \in DOMAIN files => Position(g)' = SizeOf(g)
                /\ g \notin DOMAIN files => Position(g)' = Position(g)
  BY ResetEffect
<1>2. ASSUME NEW g \in File PROVE FileOrderInv(g)'
  <2>1. PICK d, c, at, size, q, top, place, t, ra, ch :
           /\ d = disk[g].text /\ c = Content(g) /\ at = Position(g) /\ size = SizeOf(g)
           /\ q = pushed[g] /\ top = Top /\ place = Place(g)
           /\ t = reader.text /\ ra = reader.at /\ ch = reader.chunk
    OBVIOUS
  <2>2. c \in Seq(Nat) /\ size \in Nat /\ ra \in Nat /\ ch \in Nat
    BY <2>1, ObserversTyped
  <2>3. OrderOf(d, c, at, size, q, top, place, t, ra, ch)
    BY <2>1 DEF OrderInv, FileOrderInv
  <2>4. OrderOf(d, c, size, size, q, top, place, t, ra, ch)
    BY <2>2, <2>3, OrderReset
  <2>5. PICK at2 : at2 = Position(g)' /\ (at2 = size \/ at2 = at)
    BY <1>1, <2>1
  <2>6. OrderOf(d, c, at2, size, q, top, place, t, ra, ch)
    BY <2>3, <2>4, <2>5
  <2>7. /\ d = disk'[g].text /\ c = Content(g)' /\ size = SizeOf(g)' /\ q = pushed'[g]
        /\ top = Top' /\ place = Place(g)'
        /\ t = reader'.text /\ ra = reader'.at /\ ch = reader'.chunk
    BY <1>1, <2>1 DEF Top
  <2> QED
    BY <2>5, <2>6, <2>7 DEF FileOrderInv
<1> QED
  BY <1>1, <1>2 DEF OrderInv

LEMMA OrderAssertStep ==
    ASSUME LogTyped, OrderInv,
           \/ StartAssert \/ HasNext \/ EndAssert \/ ShiftRecord
           \/ \E line \in Line : ShiftIndexed(line)
    PROVE  OrderInv'
<1>1. /\ UNCHANGED <<reader, disk, pushed>>
      /\ budget'.lines = budget.lines /\ DOMAIN files' = DOMAIN files
      /\ \A g : Kept(g) /\ Place(g)' = Place(g)
  BY AssertEffect
<1> QED
  BY <1>1 DEF OrderInv, FileOrderInv, Kept, Top

LEMMA OrderWriteStep ==
    ASSUME LogTyped, OrderInv, Write PROVE OrderInv'
<1>1. PICK f \in File, e \in Text, s \in 0 .. MaxTime :
         /\ disk' = [disk EXCEPT ![f] = [text |-> e, time |-> s]]
         /\ Written(f, e)
         /\ UNCHANGED <<useIndex, queues, reader, iterator, shifted>>
  BY WriteEffect
<1>2. /\ UNCHANGED <<files, pushed, reader>>
      /\ disk'[f].text = e /\ \A g \in File \ {f} : disk'[g] = disk[g]
  BY <1>1 DEF queues, LogTyped, LogTypeOK
<1>3. \A g : /\ Content(g)' = Content(g) /\ Position(g)' = Position(g) /\ SizeOf(g)' = SizeOf(g)
             /\ Place(g)' = Place(g)
  BY <1>2 DEF Content, Position, SizeOf, Place, Under, Candidate
<1>4. Top \in Nat /\ Top % 2 = 0
  BY <1>1, ObserversTyped
<1>5. budget'.lines = budget.lines => Top' = Top
  BY DEF Top
<1>6. budget'.lines = budget.lines - 1 => Top' = Top + 2
  <2>1. PICK n \in Nat, m \in Nat : n = budget.lines /\ m = MaxLines
    BY BudgetTyped
  <2>2. 2 * (m - (n - 1)) = 2 * (m - n) + 2
    OBVIOUS
  <2> QED
    BY <2>1, <2>2 DEF Top
<1>7. Top' \in Nat /\ Top <= Top'
  <2>1. Top' = Top \/ Top' = Top + 2
    BY <1>1, <1>5, <1>6 DEF Written
  <2> QED
    BY <1>4, <2>1
<1>8. ASSUME NEW g \in File \ {f} PROVE FileOrderInv(g)'
  <2>1. PICK d, c, at, size, q, top, place, t, ra, ch :
           /\ d = disk[g].text /\ c = Content(g) /\ at = Position(g) /\ size = SizeOf(g)
           /\ q = pushed[g] /\ top = Top /\ place = Place(g)
           /\ t = reader.text /\ ra = reader.at /\ ch = reader.chunk
    OBVIOUS
  <2>2. PICK more \in Nat : more = Top'
    BY <1>7
  <2>3. d \in Seq(Nat) /\ c \in Seq(Nat) /\ q \in Seq(Nat) /\ t \in Seq(Nat) /\ top \in Nat
    BY <2>1, ObserversTyped
  <2>4. OrderOf(d, c, at, size, q, top, place, t, ra, ch) /\ top <= more
    BY <1>7, <2>1, <2>2 DEF OrderInv, FileOrderInv
  <2>5. OrderOf(d, c, at, size, q, more, place, t, ra, ch)
    BY <2>3, <2>4, TopGrows
  <2> QED
    BY <1>2, <1>3, <2>1, <2>2, <2>5 DEF FileOrderInv
<1>9. FileOrderInv(f)'
  <2>1. PICK d, c, at, size, q, top, place, t, ra, ch :
           /\ d = disk[f].text /\ c = Content(f) /\ at = Position(f) /\ size = SizeOf(f)
           /\ q = pushed[f] /\ top = Top /\ place = Place(f)
           /\ t = reader.text /\ ra = reader.at /\ ch = reader.chunk
    OBVIOUS
  <2>2. PICK more \in Nat : more = Top'
    BY <1>7
  <2>3. d \in Seq(Nat) /\ c \in Seq(Nat) /\ q \in Seq(Nat) /\ t \in Seq(Nat) /\ top \in Nat
        /\ top % 2 = 0
    BY <1>4, <2>1, ObserversTyped
  <2>4. OrderOf(d, c, at, size, q, top, place, t, ra, ch) /\ top <= more
    BY <1>7, <2>1, <2>2 DEF OrderInv, FileOrderInv
  <2>5. /\ Sound(d, top)
        /\ \A k \in 1 .. Len(q) : /\ 2 * q[k] <= top
                                  /\ d # <<>> /\ ~EndsLine(d[Len(d)]) => 2 * q[k] <= d[Len(d)]
    BY <2>4 DEF OrderOf
  <2>6. Unended(f) <=> d # <<>> /\ ~EndsLine(d[Len(d)])
    BY <2>1 DEF Unended, Last
  <2>7. OrderOf(e, c, at, size, q, more, place, t, ra, ch)
    <3>1. CASE /\ budget'.lines = budget.lines - 1 /\ ~Unended(f)
               /\ e = d \o <<top + 1, top + 2>> \/ e = Append(d, top + 1)
      <4>1. more = top + 2
        BY <1>6, <2>1, <2>2, <3>1
      <4>2. d = <<>> \/ EndsLine(d[Len(d)])
        BY <2>6, <3>1
      <4>3. /\ e \in Seq(Nat) /\ Extends(d, e, q, top) /\ Sound(e, more)
            /\ \A k \in 1 .. Len(q) : e # <<>> /\ ~EndsLine(e[Len(e)]) => 2 * q[k] <= e[Len(e)]
        BY <2>3, <2>5, <3>1, <4>1, <4>2, ExtendsByLine
      <4> QED
        BY <2>3, <2>4, <4>3, OrderExtends
    <3>2. CASE /\ budget'.lines = budget.lines /\ Unended(f)
               /\ e = Append(d, d[Len(d)] + 1)
      <4>1. more = top
        BY <1>5, <2>1, <2>2, <3>2
      <4>2. d # <<>> /\ ~EndsLine(d[Len(d)])
        BY <2>6, <3>2
      <4>3. /\ e \in Seq(Nat) /\ Extends(d, e, q, top) /\ Sound(e, more)
            /\ EndsLine(e[Len(e)])
        BY <2>3, <2>5, <3>2, <4>1, <4>2, ExtendsByEnd
      <4> QED
        BY <2>3, <2>4, <4>3, OrderExtends
    <3>3. CASE budget'.lines = budget.lines /\ e = <<>>
      <4>1. more = top
        BY <1>5, <2>1, <2>2, <3>3
      <4> QED
        BY <2>4, <3>3, <4>1, OrderRotate
    <3> QED
      BY <1>1, <2>1, <3>1, <3>2, <3>3 DEF Written, Last
  <2> QED
    BY <1>2, <1>3, <2>1, <2>2, <2>7 DEF FileOrderInv
<1> QED
  BY <1>2, <1>8, <1>9 DEF OrderInv

LEMMA OrderStep ==
    ASSUME LogTyped, ReadsListened, OrderInv, [LogNext]_logVars PROVE OrderInv'
<1>1. CASE Write
  BY <1>1, OrderWriteStep
<1>2. CASE ReaderFails \/ StatFails
  BY <1>2, OrderRest, OrderStatStep
<1>3. CASE ReaderStep
  BY <1>3, OrderRest, OrderOpen, OrderSnapshotStep, OrderStatStep, OrderCompareStep,
     OrderStoreStep, OrderStartStep, OrderPushStep, OrderUpdateStep, OrderEndStep DEF ReaderStep
<1>4. CASE WorkflowStep
  BY <1>4, OrderRest, OrderResetStep, OrderAssertStep DEF WorkflowStep
<1>5. CASE UNCHANGED logVars
  BY <1>5 DEF OrderInv, FileOrderInv, logVars, environment, queues, Content, Position, SizeOf,
     Top, Place, Under, Candidate
<1> QED
  BY <1>1, <1>2, <1>3, <1>4, <1>5 DEF LogNext

LEMMA ListenedStep ==
    ASSUME LogTyped, ReadsListened, [LogNext]_logVars PROVE ReadsListened'
<1> SUFFICES ASSUME typeMeta' = "none", ~reader'.listens PROVE reader'.pc = "off"
  BY DEF ReadsListened
<1>1. CASE reader' = reader /\ typeMeta' = typeMeta
  BY <1>1 DEF ReadsListened
<1>2. CASE reader'.listens = reader.listens /\ typeMeta' = typeMeta /\ reader.pc # "off"
  BY <1>2 DEF ReadsListened
<1>3. reader \in ReaderState
  BY DEF LogTyped, LogTypeOK
<1>4. ASSUME NEW b, reader' = NextFile(b) PROVE reader'.listens = reader.listens
  <2>1. PICK p, rest : reader' = [NoReader EXCEPT !.pc = p, !.listens = reader.listens,
                                                  !.todo = rest, !.unstable = b]
    BY <1>4 DEF NextFile
  <2> QED
    BY <2>1 DEF NoReader
<1>5. CASE Write
  BY <1>1, <1>5, WriteEffect DEF queues
<1>6. CASE ReaderFails
  <2>1. reader.pc # "off" /\ typeMeta' = typeMeta
        /\ reader' = [NoReader EXCEPT !.pc = IF reader.listens THEN "off" ELSE "stopped"]
    BY <1>6 DEF ReaderFails, queues
  <2>2. reader.listens
    BY <2>1 DEF ReadsListened
  <2>3. reader' = [NoReader EXCEPT !.pc = "off"]
    BY <2>1, <2>2
  <2> QED
    BY <2>3 DEF NoReader
<1>10. CASE StatFails
  <2>1. PICK k : \/ reader' = [reader EXCEPT !.pc = "snapshot", !.attempt = k]
                 \/ reader' = NextFile(TRUE)
    BY <1>10 DEF StatFails
  <2>2. reader'.listens = reader.listens
    BY <1>3, <1>4, <2>1 DEF ReaderState
  <2> QED
    BY <1>2, <1>10, <2>2 DEF StatFails, At, queues
<1>7. CASE ReaderStep
  <2>1. CASE ListFiles
    <3>1. PICK todo, p : reader' = [reader EXCEPT !.todo = todo, !.pc = p]
      BY <2>1 DEF ListFiles
    <3> QED
      BY <1>2, <1>3, <2>1, <3>1 DEF ListFiles, At, queues, ReaderState
  <2>2. CASE EndListing
    BY <2>2 DEF EndListing, At, ReadsListened
  <2>3. CASE Crash
    BY <2>3 DEF Crash, queues
  <2>4. CASE OpenFile
    BY <2>4 DEF OpenFile
  <2>5. CASE TakeSnapshot
    <3>1. PICK t : reader' = [reader EXCEPT !.pc = "stat", !.text = t]
      BY <2>5 DEF TakeSnapshot
    <3> QED
      BY <1>2, <1>3, <2>5, <3>1 DEF TakeSnapshot, At, queues, ReaderState
  <2>6. CASE StatSnapshot
    <3>1. PICK n, k : \/ reader' = Read("compare")
                      \/ reader' = [reader EXCEPT !.pc = "snapshot", !.size = n, !.attempt = k]
                      \/ reader' = NextFile(TRUE)
      BY <2>6 DEF StatSnapshot
    <3>2. reader'.listens = reader.listens
      BY <1>3, <1>4, <3>1 DEF Read, ReaderState
    <3> QED
      BY <1>2, <2>6, <3>2 DEF StatSnapshot, At, queues
  <2>7. CASE CompareContent \/ UpdatePosition
    <3>1. PICK p : reader' = [reader EXCEPT !.pc = p]
      BY <2>7 DEF CompareContent, UpdatePosition, Read
    <3> QED
      BY <1>2, <1>3, <2>7, <3>1 DEF CompareContent, UpdatePosition, At, ReaderState
  <2>8. CASE StoreContent
    <3>1. reader' = Read("start") \/ reader' = NextFile(FALSE)
      BY <2>8 DEF StoreContent
    <3>2. reader'.listens = reader.listens
      BY <1>3, <1>4, <3>1 DEF Read, ReaderState
    <3> QED
      BY <1>2, <2>8, <3>2 DEF StoreContent, At
  <2>9. CASE StartRecords
    <3>1. PICK a : reader' = [reader EXCEPT !.pc = "push", !.at = a] \/ reader' = NextFile(FALSE)
      BY <2>9 DEF StartRecords
    <3>2. reader'.listens = reader.listens
      BY <1>3, <1>4, <3>1 DEF ReaderState
    <3> QED
      BY <1>2, <2>9, <3>2 DEF StartRecords, At, queues
  <2>10. CASE PushRecord
    <3>1. PICK a, k : reader' = [reader EXCEPT !.pc = "update", !.at = a, !.chunk = k]
      BY <2>10 DEF PushRecord
    <3> QED
      BY <1>2, <1>3, <2>10, <3>1 DEF PushRecord, At, ReaderState
  <2>11. CASE EndRecords
    BY <1>2, <1>4, <2>11 DEF EndRecords, At, queues
  <2> QED
    BY <1>7, <2>1, <2>2, <2>3, <2>4, <2>5, <2>6, <2>7, <2>8, <2>9, <2>10, <2>11 DEF ReaderStep
<1>8. CASE WorkflowStep
  <2>1. CASE Listen
    BY <2>1 DEF Listen, NoReader
  <2>2. CASE Close
    BY <2>2 DEF Close, At, ReadsListened, queues
  <2>3. CASE Reset
    BY <1>1, <2>3 DEF Reset
  <2>4. CASE \/ StartAssert \/ HasNext \/ EndAssert \/ ShiftRecord
             \/ \E line \in Line : ShiftIndexed(line)
    BY <1>1, <2>4 DEF StartAssert, HasNext, EndAssert, ShiftRecord, ShiftIndexed, queues
  <2> QED
    BY <1>8, <2>1, <2>2, <2>3, <2>4 DEF WorkflowStep
<1>9. CASE UNCHANGED logVars
  BY <1>1, <1>9 DEF logVars, queues
<1> QED
  BY <1>5, <1>6, <1>7, <1>8, <1>9, <1>10 DEF LogNext

LEMMA OrderInit == LogInit => OrderInv /\ ReadsListened
<1> SUFFICES ASSUME LogInit PROVE OrderInv /\ ReadsListened
  OBVIOUS
<1>1. /\ disk = [f \in File |-> [text |-> <<>>, time |-> 0]]
      /\ files = [f \in {} |-> {}] /\ pushed = [f \in File |-> <<>>]
      /\ reader = NoReader
  BY DEF LogInit
<1>2. /\ reader.pc = "off" /\ reader.text = <<>> /\ reader.at = 0 /\ reader.chunk = 0
      /\ DOMAIN files = {}
  BY <1>1 DEF NoReader
<1>3. Top \in Nat
  BY StartsTyped, BudgetTyped
<1>4. ASSUME NEW f \in File PROVE FileOrderInv(f)
  <2>1. disk[f].text = <<>> /\ pushed[f] = <<>>
    BY <1>1
  <2>2. Content(f) = <<>> /\ Position(f) = 0 /\ SizeOf(f) = 0 /\ Place(f) = "away"
    BY <1>2 DEF Content, Position, SizeOf, Place, Under, Following
  <2> QED
    BY <1>2, <1>3, <2>1, <2>2, NothingYet DEF FileOrderInv
<1> QED
  BY <1>1, <1>2, <1>4 DEF OrderInv, ReadsListened

\* What is on a disk continues what its file was read as, or comes after all of
\* it, and no position is before the line of a record, wherever the reader is and
\* whatever a reset did meanwhile (readLogFile, File.Reset).
THEOREM OrderCorrect == LogSpec => [](OrderInv /\ ReadsListened)
  BY OrderInit, OrderStep, ListenedStep, LogTypeCorrect, PTL DEF LogSpec

\* No line becomes a record twice and records keep the order of their lines:
\* polls, snapshots that change while they are taken, rotations and resets move
\* the position back and forth, but never before a line that was a record
\* (readLogFile, File.Reset, ProcessingState.Update).
THEOREM RecordsInOrder == LogSpec => []ReadInOrder
<1>1. LogTyped /\ OrderInv => ReadInOrder
  <2> SUFFICES ASSUME LogTyped, OrderInv, NEW f \in File PROVE IsIncreasing(pushed[f])
    BY DEF ReadInOrder
  <2>1. Growing(pushed[f])
    BY DEF OrderInv, FileOrderInv, OrderOf
  <2>2. pushed[f] \in Seq(Nat)
    BY ObserversTyped
  <2>3. DOMAIN pushed[f] = 1 .. Len(pushed[f])
    BY <2>2, LenProperties
  <2> QED
    BY <2>1, <2>3 DEF Growing, IsIncreasing
<1> QED
  BY <1>1, LogTypeCorrect, OrderCorrect, PTL

-----------------------------------------------------------------------------
(* Nothing is lost: how a file that only grows goes on, step by step.      *)

LEMMA StartsOn ==
    ASSUME NEW s \in Seq(Nat), NEW t \in Seq(Nat), NEW u \in Seq(Nat), Starts(s, t), Starts(t, u)
    PROVE  Starts(s, u)
<1>1. Len(s) \in Nat /\ Len(t) \in Nat /\ Len(u) \in Nat
  BY LengthNat
<1> QED
  BY <1>1 DEF Starts

LEMMA StartsItself == ASSUME NEW s \in Seq(Nat) PROVE Starts(s, s) /\ Starts(<<>>, s)
<1>1. Len(s) \in Nat /\ Len(<<>>) = 0
  BY LengthNat
<1> QED
  BY <1>1 DEF Starts

\* No line ends between a position and an earlier one.
LEMMA GotNothing ==
    ASSUME NEW c \in Seq(Nat), NEW q, NEW from \in Nat, NEW pos \in Nat,
           pos <= from \/ c = <<>>
    PROVE  Got(c, q, from, pos)
<1>1. Len(c) \in Nat /\ (c = <<>> => Len(c) = 0)
  BY LengthNat
<1> QED
  BY <1>1 DEF Got

LEMMA GotLonger ==
    ASSUME NEW c \in Seq(Nat), NEW t \in Seq(Nat), NEW q, NEW from \in Nat, NEW pos \in Nat,
           Starts(c, t), pos <= Len(c), Got(c, q, from, Len(c))
    PROVE  Got(t, q, from, pos)
<1>1. Len(c) \in Nat /\ Len(t) \in Nat
  BY LengthNat
<1> SUFFICES ASSUME NEW i \in 1 .. Len(t), EndsLine(t[i]), from < i, i <= pos,
                    LineOf(t[i]) \notin Excluded
             PROVE  \E k \in 1 .. Len(q) : q[k] = LineOf(t[i])
  BY DEF Got
<1>2. i \in 1 .. Len(c) /\ c[i] = t[i] /\ i <= Len(c)
  BY <1>1 DEF Starts
<1> QED
  BY <1>2 DEF Got

LEMMA KeptSnapshot ==
    ASSUME NEW d \in Seq(Nat), NEW c \in Seq(Nat), NEW at, NEW size, NEW q, NEW from, NEW t,
           NEW ra, NEW ch, KeptOf(d, c, at, size, q, from, "snapshot", t, ra, ch)
    PROVE  KeptOf(d, c, at, size, q, from, "stat", d, ra, ch)
  BY StartsItself DEF KeptOf, Looking, Taking

\* What the place of the reader asks for when it leaves.
LEMMA KeptRests ==
    ASSUME NEW d, NEW c, NEW at, NEW size, NEW q, NEW from, NEW t,
           NEW ra, NEW ch, NEW place, place \notin Taking,
           KeptOf(d, c, at, size, q, from, place, t, ra, ch),
           NEW place2 \in {"away", "snapshot"}, NEW t2, NEW ra2, NEW ch2
    PROVE  KeptOf(d, c, at, size, q, from, place2, t2, ra2, ch2)
  BY DEF KeptOf, Looking, Taking

LEMMA KeptLooks ==
    ASSUME NEW d, NEW c, NEW at, NEW size, NEW q, NEW from, NEW t,
           NEW ra, NEW ch, NEW place \in Looking, NEW place2 \in Looking,
           KeptOf(d, c, at, size, q, from, place, t, ra, ch)
    PROVE  KeptOf(d, c, at, size, q, from, place2, t, ra, ch) /\ Starts(c, t)
  BY DEF KeptOf, Looking, Taking

LEMMA KeptStore ==
    ASSUME NEW d \in Seq(Nat), NEW c \in Seq(Nat), NEW at \in Nat, NEW size, NEW q,
           NEW from \in Nat, NEW t \in Seq(Nat), NEW ra, NEW ch,
           KeptOf(d, c, at, size, q, from, "store", t, ra, ch),
           NEW place, place = "start" \/ (place = "away" /\ t = <<>>),
           NEW t2, place = "start" => t2 = t, NEW ra2, NEW ch2
    PROVE  KeptOf(d, t, at, Len(t), q, from, place, t2, ra2, ch2)
<1>1. Len(c) \in Nat /\ Len(t) \in Nat /\ Len(c) <= Len(t)
  BY LengthNat DEF KeptOf, Starts, Looking
<1>2. /\ Starts(c, t) /\ Starts(t, d) /\ Got(c, q, from, Len(c)) /\ (at <= Len(c) \/ at = from)
      /\ (from = 0 => at % 2 = 0)
  BY DEF KeptOf, Looking, Taking
<1>3. at <= Len(t) \/ at = from
  BY <1>1, <1>2
<1>4. Got(t, q, from, at)
  <2>1. CASE at <= Len(c)
    BY <1>2, <2>1, GotLonger
  <2>2. CASE at = from
    BY <2>2, GotNothing
  <2> QED
    BY <1>2, <2>1, <2>2
<1>5. place = "away" => Got(t, q, from, Len(t))
  BY <1>1, GotNothing
<1> QED
  BY <1>2, <1>3, <1>4, <1>5 DEF KeptOf, Looking, Taking

LEMMA KeptStart ==
    ASSUME NEW d, NEW c \in Seq(Nat), NEW at \in Nat, NEW size, NEW q,
           NEW from \in Nat, NEW t, NEW ra, NEW ch,
           KeptOf(d, c, at, size, q, from, "start", t, ra, ch), NEW t2, NEW ra2, NEW ch2
    PROVE  /\ at > Len(t) => KeptOf(d, c, at, size, q, from, "away", t2, ra2, ch2)
           /\ at <= Len(t) => KeptOf(d, c, at, size, q, from, "push", t, at, ch2)
<1>1. Len(c) \in Nat
  BY LengthNat
<1>2. /\ Starts(c, d) /\ t = c /\ (size = Len(c) \/ c = <<>>) /\ (at <= Len(c) \/ at = from)
      /\ Got(c, q, from, at) /\ (from = 0 => at % 2 = 0)
  BY DEF KeptOf, Looking, Taking
<1>3. ASSUME at > Len(c) PROVE Got(c, q, from, Len(c))
  <2>1. Len(c) <= from
    BY <1>1, <1>2, <1>3
  <2> QED
    BY <1>1, <2>1, GotNothing
<1> QED
  BY <1>2, <1>3 DEF KeptOf, Looking, Taking

LEMMA KeptUpdate ==
    ASSUME NEW d, NEW c, NEW at \in Nat, NEW size, NEW q, NEW from, NEW t, NEW ra \in Nat,
           NEW ch \in Nat, KeptOf(d, c, at, size, q, from, "update", t, ra, ch)
    PROVE  KeptOf(d, c, at + ch, size, q, from, "push", t, ra, ch)
  BY DEF KeptOf, Looking, Taking

LEMMA KeptEnd ==
    ASSUME NEW d, NEW c \in Seq(Nat), NEW at \in Nat, NEW size, NEW q,
           NEW from \in Nat, NEW t, NEW ra \in Nat, NEW ch,
           KeptOf(d, c, at, size, q, from, "push", t, ra, ch),
           \A i \in ra + 1 .. Len(t) : ~EndsLine(t[i]), NEW t2, NEW ra2, NEW ch2
    PROVE  KeptOf(d, c, at, size, q, from, "away", t2, ra2, ch2)
<1>1. Len(c) \in Nat
  BY LengthNat
<1>2. /\ Starts(c, d) /\ t = c /\ (size = Len(c) \/ c = <<>>) /\ (at <= Len(c) \/ at = from)
      /\ Got(c, q, from, ra) /\ (from = 0 => at % 2 = 0)
  BY DEF KeptOf, Looking, Taking
<1>3. Got(c, q, from, Len(c))
  <2> SUFFICES ASSUME NEW i \in 1 .. Len(c), EndsLine(c[i]), from < i, i <= Len(c),
                      LineOf(c[i]) \notin Excluded
               PROVE  \E k \in 1 .. Len(q) : q[k] = LineOf(c[i])
    BY DEF Got
  <2>1. ~(i \in ra + 1 .. Len(c))
    BY <1>2
  <2>2. i <= ra
    BY <1>1, <2>1
  <2> QED
    BY <1>2, <2>2 DEF Got
<1> QED
  BY <1>2, <1>3 DEF KeptOf, Looking, Taking

\* The first end of a line after a position.
NextEndIs(c, ra, end) ==
    /\ end \in Nat /\ ra < end /\ end <= Len(c) /\ EndsLine(c[end])
    /\ \A i \in ra + 1 .. Len(c) : EndsLine(c[i]) => end <= i

AWholeLine(from, ra, end) == from = 0 => end = ra + 2

Gains(q, q2, line) == (q2 = q /\ line \in Excluded) \/ q2 = Append(q, line)

\* The line that ends next becomes a record, or is excluded.
LEMMA KeptPush ==
    ASSUME NEW d, NEW c \in Seq(Nat), NEW at \in Nat, NEW size, NEW q \in Seq(Nat),
           NEW from \in Nat, NEW t, NEW ra \in Nat, NEW ch, NEW top,
           KeptOf(d, c, at, size, q, from, "push", t, ra, ch), Sound(c, top),
           NEW end, NextEndIs(c, ra, end), NEW q2, Gains(q, q2, LineOf(c[end]))
    PROVE  /\ KeptOf(d, c, at, size, q2, from, "update", t, end, end - ra)
           /\ AWholeLine(from, ra, end)
<1>0. /\ end \in Nat /\ ra < end /\ end <= Len(c) /\ EndsLine(c[end])
      /\ \A i \in ra + 1 .. Len(c) : EndsLine(c[i]) => end <= i
      /\ (q2 = q /\ LineOf(c[end]) \in Excluded) \/ q2 = Append(q, LineOf(c[end]))
  BY DEF NextEndIs, Gains
<1>1. Len(c) \in Nat /\ Len(q) \in Nat /\ \A i \in 1 .. Len(c) : c[i] \in Nat
  BY <1>0, LengthNat
<1>2. /\ Starts(c, d) /\ t = c /\ (size = Len(c) \/ c = <<>>) /\ (at <= Len(c) \/ at = from)
      /\ ra <= Len(c) /\ Got(c, q, from, ra) /\ at = ra
      /\ (from = 0 => at % 2 = 0 /\ ra % 2 = 0)
  BY <1>0 DEF KeptOf, Looking, Taking
<1>3. end \in 1 .. Len(c) /\ end % 2 = 0
  <2>1. end \in 1 .. Len(c)
    BY <1>0, <1>1
  <2> QED
    BY <1>0, <2>1 DEF Sound
<1>4. LineOf(c[end]) \in Nat
  BY <1>0, <1>1, <1>3, Halves
<1>5. \A k \in 1 .. Len(q) : \E m \in 1 .. Len(q2) : q2[m] = q[k]
  <2>1. CASE q2 = q
    BY <1>0, <2>1
  <2>2. CASE q2 = Append(q, LineOf(c[end]))
    <3>1. Len(q2) = Len(q) + 1 /\ \A k \in 1 .. Len(q) : q2[k] = q[k]
      BY <1>0, <1>4, <2>2, AppendFacts
    <3> QED
      BY <1>0, <1>1, <3>1
  <2> QED
    BY <1>0, <2>1, <2>2
<1>6. LineOf(c[end]) \notin Excluded => \E m \in 1 .. Len(q2) : q2[m] = LineOf(c[end])
  <2>1. CASE q2 = Append(q, LineOf(c[end]))
    <3>1. Len(q2) = Len(q) + 1 /\ q2[Len(q) + 1] = LineOf(c[end])
      BY <1>0, <1>4, <2>1, AppendFacts
    <3> QED
      BY <1>0, <1>1, <3>1
  <2> QED
    BY <1>0, <2>1
<1>7. Got(c, q2, from, end)
  <2> SUFFICES ASSUME NEW i \in 1 .. Len(c), EndsLine(c[i]), from < i, i <= end,
                      LineOf(c[i]) \notin Excluded
               PROVE  \E m \in 1 .. Len(q2) : q2[m] = LineOf(c[i])
    BY <1>0 DEF Got
  <2>1. CASE i <= ra
    <3>1. PICK k \in 1 .. Len(q) : q[k] = LineOf(c[i])
      BY <1>0, <1>2, <2>1 DEF Got
    <3> QED
      BY <1>0, <1>5, <3>1
  <2>2. CASE i = end
    BY <1>0, <1>6, <2>2
  <2>3. i <= ra \/ i = end
    <3>1. i > ra => i \in ra + 1 .. Len(c)
      BY <1>0, <1>1
    <3> QED
      BY <1>0, <1>1, <3>1
  <2> QED
    BY <1>0, <2>1, <2>2, <2>3
<1>8. at + (end - ra) = end
  BY <1>0, <1>2
<1>9. from = 0 => end = ra + 2
  <2> SUFFICES ASSUME from = 0 PROVE end = ra + 2
    OBVIOUS
  <2>1. ra % 2 = 0 /\ (ra + 1) % 2 = 1 /\ (ra + 2) % 2 = 0
    BY <1>0, <1>2, Parity
  <2>2. end # ra + 1
    BY <1>0, <1>3, <2>1
  <2>3. ra + 2 <= Len(c)
    BY <1>0, <1>1, <2>2
  <2>4. ra + 2 \in 1 .. Len(c) /\ ra + 2 \in ra + 1 .. Len(c)
    BY <1>0, <1>1, <2>3
  <2>5. EndsLine(c[ra + 2])
    BY <1>0, <2>1, <2>4 DEF Sound
  <2>6. end <= ra + 2
    BY <1>0, <2>4, <2>5
  <2> QED
    BY <1>0, <2>2, <2>6
<1> QED
  BY <1>0, <1>2, <1>3, <1>7, <1>8, <1>9 DEF KeptOf, Looking, Taking, AWholeLine

\* A reset puts the position at the end, wherever that is, but not while
\* records are read.
LEMMA KeptReset ==
    ASSUME NEW d, NEW c \in Seq(Nat), NEW at, NEW size \in Nat, NEW q, NEW from, NEW t,
           NEW ra, NEW ch, NEW place, place \notin {"push", "update"},
           KeptOf(d, c, at, size, q, from, place, t, ra, ch)
    PROVE  KeptOf(d, c, size, size, q, size, place, t, ra, ch)
<1>1. Len(c) \in Nat /\ (c = <<>> => Len(c) = 0)
  BY LengthNat
<1>2. size = Len(c) \/ c = <<>>
  BY DEF KeptOf
<1>3. Got(c, q, size, size)
  BY GotNothing
<1>4. Got(c, q, size, Len(c))
  BY <1>1, <1>2, GotNothing
<1> QED
  BY <1>2, <1>3, <1>4 DEF KeptOf, Looking, Taking

LEMMA KeptWrite ==
    ASSUME NEW d \in Seq(Nat), NEW c \in Seq(Nat), NEW at, NEW size, NEW q, NEW from,
           NEW t \in Seq(Nat), NEW ra, NEW ch, NEW place,
           KeptOf(d, c, at, size, q, from, place, t, ra, ch), NEW e \in Seq(Nat), Starts(d, e)
    PROVE  KeptOf(e, c, at, size, q, from, place, t, ra, ch)
  BY StartsOn DEF KeptOf

\* A file nobody has read yet.
LEMMA KeptNew ==
    ASSUME NEW d \in Seq(Nat), NEW size, NEW q, NEW from \in Nat, NEW t, NEW ra, NEW ch,
           NEW place \in {"away", "snapshot"}
    PROVE  KeptOf(d, <<>>, 0, size, q, from, place, t, ra, ch)
<1>1. Len(<<>>) = 0 /\ <<>> \in Seq(Nat)
  OBVIOUS
<1>2. Got(<<>>, q, from, 0)
  BY <1>1, GotNothing
<1> QED
  BY <1>1, <1>2, StartsItself DEF KeptOf, Looking, Taking

-----------------------------------------------------------------------------
(* Nothing is lost: the steps of the program.                              *)

LEMMA GrownTyped ==
    ASSUME LogTyped, NEW f \in Grown
    PROVE  /\ f \in File /\ f \in DOMAIN files /\ resetAt[f] \in Nat
           /\ disk[f].text \in Seq(Nat) /\ Content(f) \in Seq(Nat) /\ pushed[f] \in Seq(Nat)
           /\ Position(f) \in Nat /\ SizeOf(f) \in Nat
           /\ reader.text \in Seq(Nat) /\ reader.at \in Nat /\ reader.chunk \in Nat
<1>1. f \in File /\ f \in DOMAIN files /\ resetAt[f] \in Nat
  BY DEF Grown, LogTyped, LogTypeOK
<1> QED
  BY <1>1, ObserversTyped

\* The records of a file are still those it had, or fewer.
NoMore(f) ==
    \A i \in DOMAIN files'[f].records :
       \E j \in DOMAIN files[f].records : files'[f].records[i] = files[f].records[j]

LEMMA WholeStays ==
    ASSUME NEW f, WholeFile(f), resetAt'[f] = resetAt[f], NoMore(f)
    PROVE  WholeFile(f)'
<1> SUFFICES ASSUME resetAt'[f] = 0, NEW i \in DOMAIN files'[f].records
             PROVE  files'[f].records[i].whole
  BY DEF WholeFile
<1>1. PICK j \in DOMAIN files[f].records : files'[f].records[i] = files[f].records[j]
  BY DEF NoMore
<1> QED
  BY <1>1 DEF WholeFile

LEMMA SameRecords == ASSUME NEW f, files'[f].records = files[f].records PROVE NoMore(f)
  BY DEF NoMore

LEMMA SameGrown ==
    ASSUME DOMAIN files' = DOMAIN files, UNCHANGED <<rotated, torn>> PROVE Grown' = Grown
  BY DEF Grown

\* Where the reader is not, or goes on to or from a snapshot.
LEMMA KeptElsewhere ==
    ASSUME NEW g, KeptFile(g), Place(g) \notin Taking, Place(g)' \in {"away", "snapshot"},
           UNCHANGED <<disk, pushed[g], resetAt[g]>>,
           Content(g)' = Content(g), Position(g)' = Position(g),
           SizeOf(g)' = SizeOf(g) \/ Content(g) = <<>>
    PROVE  KeptFile(g)'
<1>1. PICK d, c, at, size, size2, q, from, place, place2, t, t2, ra, ra2, ch, ch2 :
         /\ d = disk[g].text /\ c = Content(g) /\ at = Position(g) /\ size = SizeOf(g)
         /\ q = pushed[g] /\ from = resetAt[g] /\ place = Place(g) /\ place2 = Place(g)'
         /\ t = reader.text /\ ra = reader.at /\ ch = reader.chunk
         /\ t2 = reader'.text /\ ra2 = reader'.at /\ ch2 = reader'.chunk /\ size2 = SizeOf(g)'
  OBVIOUS
<1>2. KeptOf(d, c, at, size, q, from, place, t, ra, ch)
  BY <1>1 DEF KeptFile
<1>3. KeptOf(d, c, at, size, q, from, place2, t2, ra2, ch2)
  BY <1>1, <1>2, KeptRests
<1>4. KeptOf(d, c, at, size2, q, from, place2, t2, ra2, ch2)
  BY <1>1, <1>3 DEF KeptOf
<1> QED
  BY <1>1, <1>4 DEF KeptFile

\* A step of the reader in its file.
LEMMA KeptMoves ==
    ASSUME LogTyped, KeptInv, NEW f, NEW p, NEW p2, Moves(f, p, p2),
           UNCHANGED <<rotated, torn, resetAt>>,
           \A g \in File \ {f} : g \in DOMAIN files => files'[g].records = files[g].records,
           f \in Grown => KeptFile(f)' /\ WholeFile(f)'
    PROVE  KeptInv'
<1>1. Grown' = Grown /\ UNCHANGED disk
  BY SameGrown DEF Moves
<1> SUFFICES ASSUME NEW g \in Grown, g # f PROVE KeptFile(g)' /\ WholeFile(g)'
  BY <1>1 DEF KeptInv
<1>2. g \in File \ {f} /\ g \in DOMAIN files
  BY GrownTyped
<1>3. Place(g) = "away" /\ Place(g)' = "away" /\ Kept(g)
  BY <1>2 DEF Moves
<1>4. KeptFile(g)'
  BY <1>1, <1>3, KeptElsewhere DEF KeptInv, Kept, Taking
<1>5. WholeFile(g)'
  BY <1>2, WholeStays, SameRecords DEF KeptInv
<1> QED
  BY <1>4, <1>5

LEMMA KeptSnapshotStep == ASSUME LogTyped, KeptInv, TakeSnapshot PROVE KeptInv'
<1>1. PICK f : f = Candidate.name
  OBVIOUS
<1>2. /\ Moves(f, "snapshot", "stat") /\ files' = files /\ pushed' = pushed
      /\ reader'.text = disk[f].text /\ reader'.at = reader.at /\ reader'.chunk = reader.chunk
  BY <1>1, SnapshotEffect
<1>3. UNCHANGED <<rotated, torn, resetAt>>
  BY DEF TakeSnapshot, environment, queues
<1>4. ASSUME f \in Grown PROVE KeptFile(f)' /\ WholeFile(f)'
  <2>1. PICK d, c, at, size, q, from, t, ra, ch :
           /\ d \in Seq(Nat) /\ c \in Seq(Nat)
           /\ d = disk[f].text /\ c = Content(f) /\ at = Position(f) /\ size = SizeOf(f)
           /\ q = pushed[f] /\ from = resetAt[f]
           /\ t = reader.text /\ ra = reader.at /\ ch = reader.chunk
    BY <1>4, GrownTyped
  <2>2. KeptOf(d, c, at, size, q, from, "snapshot", t, ra, ch)
    BY <1>2, <1>4, <2>1 DEF KeptInv, KeptFile, Moves
  <2>3. KeptOf(d, c, at, size, q, from, "stat", d, ra, ch)
    BY <2>1, <2>2, KeptSnapshot
  <2>4. Kept(f)
    BY <1>2, EntriesKept
  <2>5. KeptFile(f)'
    BY <1>2, <1>3, <2>1, <2>3, <2>4 DEF KeptFile, Moves, Kept
  <2> QED
    BY <1>2, <1>3, <1>4, <2>5, WholeStays, SameRecords DEF KeptInv
<1> QED
  BY <1>2, <1>3, <1>4, KeptMoves

\* What the reader and its file are, for the steps in a file that only grows.
LEMMA KeptValues ==
    ASSUME LogTyped, KeptInv, NEW f \in Grown, NEW p, NEW p2, Moves(f, p, p2)
    PROVE  \E d \in Seq(Nat), c \in Seq(Nat), at \in Nat, size \in Nat, q \in Seq(Nat),
              from \in Nat, t \in Seq(Nat), ra \in Nat, ch \in Nat :
              /\ d = disk[f].text /\ c = Content(f) /\ at = Position(f) /\ size = SizeOf(f)
              /\ q = pushed[f] /\ from = resetAt[f]
              /\ t = reader.text /\ ra = reader.at /\ ch = reader.chunk
              /\ KeptOf(d, c, at, size, q, from, p, t, ra, ch)
  BY GrownTyped DEF KeptInv, KeptFile, Moves

\* The same after the step.
LEMMA KeptNow ==
    ASSUME NEW f, NEW p, NEW p2, Moves(f, p, p2), resetAt' = resetAt,
           KeptOf(disk[f].text, Content(f)', Position(f)', SizeOf(f)', pushed'[f], resetAt[f],
                  p2, reader'.text, reader'.at, reader'.chunk)
    PROVE  KeptFile(f)'
  BY DEF KeptFile, Moves

LEMMA KeptStatStep ==
    ASSUME LogTyped, KeptInv, StatSnapshot \/ StatFails PROVE KeptInv'
<1>1. PICK f : f = Candidate.name
  OBVIOUS
<1>2. /\ files' = files /\ pushed' = pushed
      /\ \/ Moves(f, "stat", "away") \/ Moves(f, "stat", "snapshot")
         \/ /\ Moves(f, "stat", "compare") /\ reader'.text = reader.text
            /\ reader'.at = reader.at /\ reader'.chunk = reader.chunk
  BY <1>1, StatEffect
<1>3. UNCHANGED <<rotated, torn, resetAt>> /\ Kept(f)
  BY <1>2, EntriesKept DEF StatSnapshot, StatFails, environment, queues
<1>4. ASSUME f \in Grown PROVE KeptFile(f)' /\ WholeFile(f)'
  <2>1. CASE Moves(f, "stat", "away") \/ Moves(f, "stat", "snapshot")
    <3>1. Place(f) \notin Taking /\ Place(f)' \in {"away", "snapshot"} /\ disk' = disk
      BY <2>1 DEF Moves, Taking
    <3> QED
      BY <1>2, <1>3, <1>4, <3>1, KeptElsewhere, WholeStays, SameRecords DEF KeptInv, Kept
  <2>2. CASE /\ Moves(f, "stat", "compare") /\ reader'.text = reader.text
             /\ reader'.at = reader.at /\ reader'.chunk = reader.chunk
    <3>1. PICK d \in Seq(Nat), c \in Seq(Nat), at \in Nat, size \in Nat, q \in Seq(Nat),
               from \in Nat, t \in Seq(Nat), ra \in Nat, ch \in Nat :
              /\ d = disk[f].text /\ c = Content(f) /\ at = Position(f) /\ size = SizeOf(f)
              /\ q = pushed[f] /\ from = resetAt[f]
              /\ t = reader.text /\ ra = reader.at /\ ch = reader.chunk
              /\ KeptOf(d, c, at, size, q, from, "stat", t, ra, ch)
      BY <1>4, <2>2, KeptValues
    <3>2. KeptOf(d, c, at, size, q, from, "compare", t, ra, ch)
      BY <3>1, KeptLooks DEF Looking
    <3>3. KeptFile(f)'
      BY <1>3, <2>2, <3>1, <3>2, KeptNow DEF Kept
    <3> QED
      BY <1>2, <1>3, <1>4, <3>3, WholeStays, SameRecords DEF KeptInv
  <2> QED
    BY <1>2, <2>1, <2>2
<1> QED
  BY <1>2, <1>3, <1>4, KeptMoves

LEMMA KeptCompareStep == ASSUME LogTyped, KeptInv, CompareContent PROVE KeptInv'
<1>1. PICK f : f = Candidate.name
  OBVIOUS
<1>2. /\ Moves(f, "compare", "store") /\ pushed' = pushed
      /\ reader'.text = reader.text /\ reader'.at = reader.at
      /\ reader'.chunk = reader.chunk
      /\ Content(f)' = Content(f)
      /\ \A g \in DOMAIN files : files'[g].records = files[g].records
      /\ \/ files' = files
         \/ ~Starts(Content(f), reader.text)
  BY <1>1, CompareEffect
<1>3. UNCHANGED <<rotated, torn, resetAt>>
  BY DEF CompareContent, environment
<1>4. ASSUME f \in Grown PROVE KeptFile(f)' /\ WholeFile(f)'
  <2>1. PICK d \in Seq(Nat), c \in Seq(Nat), at \in Nat, size \in Nat, q \in Seq(Nat),
             from \in Nat, t \in Seq(Nat), ra \in Nat, ch \in Nat :
            /\ d = disk[f].text /\ c = Content(f) /\ at = Position(f) /\ size = SizeOf(f)
            /\ q = pushed[f] /\ from = resetAt[f]
            /\ t = reader.text /\ ra = reader.at /\ ch = reader.chunk
            /\ KeptOf(d, c, at, size, q, from, "compare", t, ra, ch)
    BY <1>2, <1>4, KeptValues
  <2>2. KeptOf(d, c, at, size, q, from, "store", t, ra, ch) /\ Starts(c, t)
    BY <2>1, KeptLooks DEF Looking
  <2>3. files' = files
    BY <1>2, <2>1, <2>2
  <2>4. Kept(f)
    BY <1>2, <2>3, EntriesKept
  <2>5. KeptFile(f)'
    BY <1>2, <1>3, <2>1, <2>2, <2>4, KeptNow DEF Kept
  <2> QED
    BY <1>3, <1>4, <2>3, <2>5, WholeStays, SameRecords DEF KeptInv
<1> QED
  BY <1>2, <1>3, <1>4, KeptMoves

LEMMA KeptStoreStep == ASSUME LogTyped, KeptInv, StoreContent PROVE KeptInv'
<1>1. PICK f : f = Candidate.name
  OBVIOUS
<1>2. /\ pushed' = pushed
      /\ Content(f)' = reader.text /\ SizeOf(f)' = Len(reader.text)
      /\ Position(f)' = Position(f)
      /\ \A g \in DOMAIN files : files'[g].records = files[g].records
  BY <1>1, StoreEffect
<1>3. PICK p \in {"away", "start"} :
         /\ Moves(f, "store", p) /\ (p = "away" => reader.text = <<>>)
         /\ p = "start" => reader'.text = reader.text
  BY <1>1, StoreEffect
<1>4. UNCHANGED <<rotated, torn, resetAt>>
  BY DEF StoreContent, environment
<1>5. ASSUME f \in Grown PROVE KeptFile(f)' /\ WholeFile(f)'
  <2>1. PICK d \in Seq(Nat), c \in Seq(Nat), at \in Nat, size \in Nat, q \in Seq(Nat),
             from \in Nat, t \in Seq(Nat), ra \in Nat, ch \in Nat :
            /\ d = disk[f].text /\ c = Content(f) /\ at = Position(f) /\ size = SizeOf(f)
            /\ q = pushed[f] /\ from = resetAt[f]
            /\ t = reader.text /\ ra = reader.at /\ ch = reader.chunk
            /\ KeptOf(d, c, at, size, q, from, "store", t, ra, ch)
    BY <1>3, <1>5, KeptValues
  <2>2. PICK t2, ra2, ch2 : t2 = reader'.text /\ ra2 = reader'.at /\ ch2 = reader'.chunk
    OBVIOUS
  <2>3. KeptOf(d, t, at, Len(t), q, from, p, t2, ra2, ch2)
    BY <1>3, <2>1, <2>2, KeptStore
  <2>4. KeptFile(f)'
    BY <1>2, <1>3, <1>4, <2>1, <2>2, <2>3, KeptNow
  <2>5. f \in DOMAIN files
    BY <1>5 DEF Grown
  <2> QED
    BY <1>2, <1>4, <1>5, <2>4, <2>5, WholeStays, SameRecords DEF KeptInv
<1> QED
  BY <1>2, <1>3, <1>4, <1>5, KeptMoves

LEMMA KeptStartStep == ASSUME LogTyped, KeptInv, StartRecords PROVE KeptInv'
<1>1. PICK f : f = Candidate.name
  OBVIOUS
<1>2. /\ files' = files /\ pushed' = pushed
      /\ \/ Moves(f, "start", "away") /\ Position(f) > Len(reader.text)
         \/ /\ Moves(f, "start", "push") /\ Position(f) <= Len(reader.text)
            /\ reader'.text = reader.text /\ reader'.at = Position(f)
  BY <1>1, StartEffect
<1>3. UNCHANGED <<rotated, torn, resetAt>> /\ Kept(f)
  BY <1>2, EntriesKept DEF StartRecords, environment, queues
<1>4. ASSUME f \in Grown PROVE KeptFile(f)' /\ WholeFile(f)'
  <2>1. PICK d \in Seq(Nat), c \in Seq(Nat), at \in Nat, size \in Nat, q \in Seq(Nat),
             from \in Nat, t \in Seq(Nat), ra \in Nat, ch \in Nat :
            /\ d = disk[f].text /\ c = Content(f) /\ at = Position(f) /\ size = SizeOf(f)
            /\ q = pushed[f] /\ from = resetAt[f]
            /\ t = reader.text /\ ra = reader.at /\ ch = reader.chunk
            /\ KeptOf(d, c, at, size, q, from, "start", t, ra, ch)
    BY <1>2, <1>4, KeptValues
  <2>2. PICK t2, ra2, ch2 : t2 = reader'.text /\ ra2 = reader'.at /\ ch2 = reader'.chunk
    OBVIOUS
  <2>3. /\ at > Len(t) => KeptOf(d, c, at, size, q, from, "away", t2, ra2, ch2)
        /\ at <= Len(t) => KeptOf(d, c, at, size, q, from, "push", t, at, ch2)
    BY <2>1, KeptStart
  <2>4. KeptFile(f)'
    <3>1. CASE Moves(f, "start", "away") /\ Position(f) > Len(reader.text)
      BY <1>2, <1>3, <2>1, <2>2, <2>3, <3>1, KeptNow DEF Kept
    <3>2. CASE /\ Moves(f, "start", "push") /\ Position(f) <= Len(reader.text)
               /\ reader'.text = reader.text /\ reader'.at = Position(f)
      BY <1>2, <1>3, <2>1, <2>2, <2>3, <3>2, KeptNow DEF Kept
    <3> QED
      BY <1>2, <3>1, <3>2
  <2> QED
    BY <1>2, <1>3, <1>4, <2>4, WholeStays, SameRecords DEF KeptInv
<1> QED
  BY <1>2, <1>3, <1>4, KeptMoves

LEMMA KeptUpdateStep == ASSUME LogTyped, KeptInv, UpdatePosition PROVE KeptInv'
<1>1. PICK f : f = Candidate.name
  OBVIOUS
<1>2. /\ Moves(f, "update", "push") /\ pushed' = pushed
      /\ Content(f)' = Content(f) /\ SizeOf(f)' = SizeOf(f)
      /\ Position(f)' = Position(f) + reader.chunk
      /\ \A g \in DOMAIN files : files'[g].records = files[g].records
      /\ reader'.text = reader.text /\ reader'.at = reader.at
      /\ reader'.chunk = reader.chunk
  BY <1>1, UpdateEffect
<1>3. UNCHANGED <<rotated, torn, resetAt>>
  BY DEF UpdatePosition, environment
<1>4. ASSUME f \in Grown PROVE KeptFile(f)' /\ WholeFile(f)'
  <2>1. PICK d \in Seq(Nat), c \in Seq(Nat), at \in Nat, size \in Nat, q \in Seq(Nat),
             from \in Nat, t \in Seq(Nat), ra \in Nat, ch \in Nat :
            /\ d = disk[f].text /\ c = Content(f) /\ at = Position(f) /\ size = SizeOf(f)
            /\ q = pushed[f] /\ from = resetAt[f]
            /\ t = reader.text /\ ra = reader.at /\ ch = reader.chunk
            /\ KeptOf(d, c, at, size, q, from, "update", t, ra, ch)
    BY <1>2, <1>4, KeptValues
  <2>2. PICK at2 : at2 = at + ch
    OBVIOUS
  <2>3. KeptOf(d, c, at2, size, q, from, "push", t, ra, ch)
    BY <2>1, <2>2, KeptUpdate
  <2>4. KeptFile(f)'
    BY <1>2, <1>3, <2>1, <2>2, <2>3, KeptNow
  <2>5. f \in DOMAIN files
    BY <1>4 DEF Grown
  <2> QED
    BY <1>2, <1>3, <1>4, <2>4, <2>5, WholeStays, SameRecords DEF KeptInv
<1> QED
  BY <1>2, <1>3, <1>4, KeptMoves

LEMMA KeptEndStep == ASSUME LogTyped, KeptInv, EndRecords PROVE KeptInv'
<1>1. PICK f : f = Candidate.name
  OBVIOUS
<1>2. /\ Moves(f, "push", "away") /\ files' = files /\ pushed' = pushed
      /\ EndsAfter(reader.at) = {}
  BY <1>1, EndEffect
<1>3. UNCHANGED <<rotated, torn, resetAt>> /\ Kept(f)
  BY <1>2, EntriesKept DEF EndRecords, environment, queues
<1>4. ASSUME f \in Grown PROVE KeptFile(f)' /\ WholeFile(f)'
  <2>1. PICK d \in Seq(Nat), c \in Seq(Nat), at \in Nat, size \in Nat, q \in Seq(Nat),
             from \in Nat, t \in Seq(Nat), ra \in Nat, ch \in Nat :
            /\ d = disk[f].text /\ c = Content(f) /\ at = Position(f) /\ size = SizeOf(f)
            /\ q = pushed[f] /\ from = resetAt[f]
            /\ t = reader.text /\ ra = reader.at /\ ch = reader.chunk
            /\ KeptOf(d, c, at, size, q, from, "push", t, ra, ch)
    BY <1>2, <1>4, KeptValues
  <2>2. PICK t2, ra2, ch2 : t2 = reader'.text /\ ra2 = reader'.at /\ ch2 = reader'.chunk
    OBVIOUS
  <2>3. \A i \in ra + 1 .. Len(t) : ~EndsLine(t[i])
    BY <1>2, <2>1 DEF EndsAfter
  <2>4. KeptOf(d, c, at, size, q, from, "away", t2, ra2, ch2)
    BY <2>1, <2>3, KeptEnd
  <2>5. KeptFile(f)'
    BY <1>2, <1>3, <2>1, <2>2, <2>4, KeptNow DEF Kept
  <2> QED
    BY <1>2, <1>3, <1>4, <2>5, WholeStays, SameRecords DEF KeptInv
<1> QED
  BY <1>2, <1>3, <1>4, KeptMoves

LEMMA KeptPushStep == ASSUME LogTyped, OrderInv, KeptInv, PushRecord PROVE KeptInv'
<1>1. PICK f, end : f = Candidate.name /\ end = NextEnd(reader.at)
  OBVIOUS
<1>2. /\ Moves(f, "push", "update")
      /\ Content(f)' = Content(f) /\ Position(f)' = Position(f) /\ SizeOf(f)' = SizeOf(f)
      /\ reader'.text = reader.text /\ reader'.at = end /\ reader'.chunk = end - reader.at
      /\ end \in Nat /\ reader.at < end /\ end <= Len(reader.text)
      /\ EndsLine(reader.text[end]) /\ LineOf(reader.text[end]) \in Line
      /\ \A i \in reader.at + 1 .. Len(reader.text) : EndsLine(reader.text[i]) => end <= i
  BY <1>1, PushMoves
<1>3. PushesLine(f, LineOf(reader.text[end]), end)
  BY <1>1, PushMoves
<1>4. UNCHANGED <<rotated, torn, resetAt>>
  BY DEF PushRecord, environment
<1>5. PICK line \in Line : line = LineOf(reader.text[end])
  BY <1>2
<1>6. f \in DOMAIN files /\ f \in File /\ files[f].records \in Seq(Record)
      /\ pushed \in [File -> Seq(Line)]
  BY <1>2, IteratorTyped DEF Moves, FileState
<1>7. \/ line \in Excluded /\ files' = files /\ pushed' = pushed
      \/ line \notin Excluded
         /\ \E w \in BOOLEAN : \E new : (w <=> end = reader.at + 2) /\ BecomesRecord(f, line, w, new)
  BY <1>3, <1>5, Zenon DEF PushesLine
<1>8. ASSUME NEW w \in BOOLEAN, NEW new, BecomesRecord(f, line, w, new)
      PROVE  /\ files' = [files EXCEPT ![f] = new] /\ pushed'[f] = Append(pushed[f], line)
             /\ new.records = Append(files[f].records, [line |-> line, whole |-> w])
  <2>1. PICK z : z = Append(pushed[f], line)
    OBVIOUS
  <2>2. pushed' = [pushed EXCEPT ![f] = z]
    BY <1>8, <2>1 DEF BecomesRecord
  <2> QED
    BY <1>6, <1>8, <2>1, <2>2 DEF BecomesRecord
<1>9. \A g \in File \ {f} : g \in DOMAIN files => files'[g].records = files[g].records
  BY <1>6, <1>7, <1>8
<1>10. ASSUME f \in Grown PROVE KeptFile(f)' /\ WholeFile(f)'
  <2>1. PICK d \in Seq(Nat), c \in Seq(Nat), at \in Nat, size \in Nat, q \in Seq(Nat),
             from \in Nat, t \in Seq(Nat), ra \in Nat, ch \in Nat :
            /\ d = disk[f].text /\ c = Content(f) /\ at = Position(f) /\ size = SizeOf(f)
            /\ q = pushed[f] /\ from = resetAt[f]
            /\ t = reader.text /\ ra = reader.at /\ ch = reader.chunk
            /\ KeptOf(d, c, at, size, q, from, "push", t, ra, ch)
    BY <1>2, <1>10, KeptValues
  <2>2. t = c
    BY <2>1 DEF KeptOf, Taking
  <2>3. PICK top : Sound(c, top)
    BY <1>6, <2>1 DEF OrderInv, FileOrderInv, OrderOf
  <2>4. PICK q2 : q2 = pushed'[f]
    OBVIOUS
  <2>5. Gains(q, q2, LineOf(c[end]))
    BY <1>5, <1>7, <1>8, <2>1, <2>2, <2>4 DEF Gains
  <2>6. NextEndIs(c, ra, end)
    BY <1>2, <2>1, <2>2 DEF NextEndIs
  <2>7. /\ KeptOf(d, c, at, size, q2, from, "update", t, end, end - ra)
        /\ from = 0 => end = ra + 2
    <3>1. /\ c \in Seq(Nat) /\ at \in Nat /\ q \in Seq(Nat) /\ from \in Nat /\ ra \in Nat
          /\ KeptOf(d, c, at, size, q, from, "push", t, ra, ch)
      BY <2>1
    <3>2. KeptOf(d, c, at, size, q2, from, "update", t, end, end - ra)
      BY <2>3, <2>5, <2>6, <3>1, KeptPush
    <3>3. AWholeLine(from, ra, end)
      BY <2>3, <2>5, <2>6, <3>1, KeptPush
    <3> QED
      BY <3>2, <3>3 DEF AWholeLine
  <2>8. KeptFile(f)'
    BY <1>2, <1>4, <2>1, <2>4, <2>7, KeptNow
  <2>9. CASE files' = files
    BY <1>4, <1>10, <2>8, <2>9, WholeStays, SameRecords DEF KeptInv
  <2>10. ASSUME NEW w \in BOOLEAN, NEW new, w <=> end = reader.at + 2, BecomesRecord(f, line, w, new)
         PROVE  WholeFile(f)'
    <3> SUFFICES ASSUME resetAt[f] = 0, NEW i \in DOMAIN files'[f].records
                 PROVE  files'[f].records[i].whole
      BY <1>4 DEF WholeFile
    <3>1. PICK rs \in Seq(Record) : rs = files[f].records
      BY <1>6
    <3>2. PICK x \in Record : x = [line |-> line, whole |-> w]
      BY DEF Record
    <3>3. w = TRUE
      BY <2>1, <2>7, <2>10
    <3>4. files'[f].records = Append(rs, x)
      BY <1>6, <1>8, <2>10, <3>1, <3>2
    <3>5. PICK ys : ys = Append(rs, x)
      OBVIOUS
    <3>6. /\ DOMAIN ys = 1 .. Len(rs) + 1 /\ ys[Len(rs) + 1] = x
          /\ \A k \in 1 .. Len(rs) : ys[k] = rs[k]
          /\ Len(rs) \in Nat /\ DOMAIN rs = 1 .. Len(rs)
      BY <3>1, <3>2, <3>5, AppendProperties, LenProperties
    <3>7. \A k \in DOMAIN rs : rs[k].whole
      BY <1>10, <3>1 DEF KeptInv, WholeFile
    <3>8. i \in DOMAIN rs \/ i = Len(rs) + 1
      BY <3>4, <3>5, <3>6
    <3>9. ys[i].whole
      BY <3>2, <3>3, <3>6, <3>7, <3>8
    <3> QED
      BY <3>4, <3>5, <3>9
  <2> QED
    BY <1>7, <2>8, <2>9, <2>10
<1> QED
  BY <1>2, <1>4, <1>9, <1>10, KeptMoves

\* Every file that grows, when the records are there as before.
LEMMA KeptEverywhere ==
    ASSUME KeptInv, Grown' = Grown, \A g \in Grown : KeptFile(g)', resetAt' = resetAt,
           \A g \in Grown : NoMore(g)
    PROVE  KeptInv'
  BY WholeStays DEF KeptInv

LEMMA KeptRest ==
    ASSUME LogTyped, KeptInv, ReadsListened,
           ListFiles \/ EndListing \/ Crash \/ Close \/ Listen \/ ReaderFails
    PROVE  KeptInv'
<1>1. /\ Resting /\ \A g : Place(g)' = "away"
      /\ UNCHANGED <<disk, rotated, files, pushed, torn, resetAt>>
  BY RestEffect
<1>2. ASSUME NEW g \in Grown PROVE KeptFile(g)'
  <2>1. Kept(g) /\ Place(g) \notin Taking
    BY <1>1, EntriesKept DEF Resting, Taking
  <2> QED
    BY <1>1, <2>1, KeptElsewhere DEF KeptInv, Kept
<1> QED
  BY <1>1, <1>2, KeptEverywhere, SameGrown, SameRecords

LEMMA KeptOpenStep ==
    ASSUME LogTyped, KeptInv, OpenFile PROVE KeptInv'
<1>1. PICK f : f = Candidate.name
  OBVIOUS
<1>2. /\ f \in File /\ \A g : Place(g) = "away"
      /\ \A g : Place(g)' \in {"away", "snapshot"}
      /\ UNCHANGED <<disk, rotated, torn, resetAt, pushed>>
      /\ DOMAIN files' = DOMAIN files \cup {f}
      /\ \A g \in DOMAIN files : files'[g] = files[g]
      /\ f \notin DOMAIN files => files'[f].records = <<>>
      /\ \A g : Content(g)' = Content(g) /\ Position(g)' = Position(g)
      /\ \A g : SizeOf(g)' = SizeOf(g) \/ Content(g) = <<>>
  BY <1>1, OpenEffect
<1>3. \A g \in Grown' : g \in Grown \/ (g = f /\ f \notin DOMAIN files)
  BY <1>2 DEF Grown
<1>4. ASSUME NEW g \in Grown PROVE KeptFile(g)' /\ WholeFile(g)'
  <2>1. KeptFile(g)'
    BY <1>2, <1>4, KeptElsewhere DEF KeptInv, Taking
  <2>2. g \in DOMAIN files
    BY DEF Grown
  <2> QED
    BY <1>2, <2>1, <2>2, WholeStays, SameRecords DEF KeptInv
<1>5. ASSUME f \notin DOMAIN files PROVE KeptFile(f)' /\ WholeFile(f)'
  <2>1. Content(f)' = <<>> /\ Position(f)' = 0
    BY <1>2, <1>5 DEF Content, Position
  <2>2. PICK d, size, q, from, t, ra, ch, place :
           /\ d = disk'[f].text /\ size = SizeOf(f)' /\ q = pushed'[f] /\ from = resetAt'[f]
           /\ t = reader'.text /\ ra = reader'.at /\ ch = reader'.chunk /\ place = Place(f)'
           /\ d \in Seq(Nat) /\ from \in Nat /\ place \in {"away", "snapshot"}
    <3>1. disk'[f].text \in Seq(Nat) /\ resetAt'[f] \in Nat
      BY <1>2, ObserversTyped, IteratorTyped
    <3>2. Place(f)' \in {"away", "snapshot"}
      BY <1>2
    <3> QED
      BY <3>1, <3>2
  <2>3. KeptOf(d, <<>>, 0, size, q, from, place, t, ra, ch)
    BY <2>2, KeptNew
  <2>4. KeptFile(f)'
    BY <2>1, <2>2, <2>3 DEF KeptFile
  <2>5. WholeFile(f)'
    BY <1>2, <1>5 DEF WholeFile
  <2> QED
    BY <2>4, <2>5
<1> QED
  BY <1>3, <1>4, <1>5 DEF KeptInv

LEMMA KeptResetStep ==
    ASSUME LogTyped, KeptInv, Reset PROVE KeptInv'
<1>1. /\ reader' = reader /\ disk' = disk /\ pushed' = pushed
      /\ DOMAIN files' = DOMAIN files
      /\ \A g : /\ Content(g)' = Content(g) /\ SizeOf(g)' = SizeOf(g)
                /\ Place(g)' = Place(g)
                /\ g \in DOMAIN files => Position(g)' = SizeOf(g) /\ files'[g].records = <<>>
  BY ResetEffect
<1>2. /\ rotated' = rotated
      /\ torn' = IF reader.pc \in {"push", "update"} THEN torn \cup {Candidate.name} ELSE torn
      /\ resetAt' = [f \in File |-> IF f \in DOMAIN files THEN files[f].size ELSE resetAt[f]]
  BY DEF Reset, environment
<1> SUFFICES ASSUME NEW g \in Grown' PROVE KeptFile(g)' /\ WholeFile(g)'
  BY DEF KeptInv
<1>3. g \in Grown /\ g \in DOMAIN files
  BY <1>1, <1>2 DEF Grown
<1>4. Place(g) \notin {"push", "update"}
  BY <1>1, <1>2, <1>3 DEF Place, Under, Grown
<1>5. resetAt'[g] = SizeOf(g)
  BY <1>2, <1>3, GrownTyped DEF SizeOf
<1>6. PICK d, c, at, size, q, from, place, t, ra, ch :
         /\ c \in Seq(Nat) /\ size \in Nat
         /\ d = disk[g].text /\ c = Content(g) /\ at = Position(g) /\ size = SizeOf(g)
         /\ q = pushed[g] /\ from = resetAt[g] /\ place = Place(g)
         /\ t = reader.text /\ ra = reader.at /\ ch = reader.chunk
  BY <1>3, GrownTyped
<1>7. KeptOf(d, c, at, size, q, from, place, t, ra, ch)
  BY <1>3, <1>6 DEF KeptInv, KeptFile
<1>8. KeptOf(d, c, size, size, q, size, place, t, ra, ch)
  BY <1>4, <1>6, <1>7, KeptReset
<1>9. KeptFile(g)'
  BY <1>1, <1>3, <1>5, <1>6, <1>8 DEF KeptFile
<1>10. WholeFile(g)'
  BY <1>1, <1>3 DEF WholeFile
<1> QED
  BY <1>9, <1>10

LEMMA WithoutNoMore ==
    ASSUME NEW rs \in Seq(Record), NEW line, NEW i \in DOMAIN Without(rs, line)
    PROVE  \E j \in DOMAIN rs : Without(rs, line)[i] = rs[j]
<1>0. PICK len \in Nat : len = Len(rs) /\ DOMAIN rs = 1 .. len
  BY LenProperties
<1>1. CASE {k \in DOMAIN rs : rs[k].line = line} = {}
  BY <1>1 DEF Without
<1>2. CASE {k \in DOMAIN rs : rs[k].line = line} # {}
  <2>1. PICK k \in 1 .. len : Without(rs, line) = RemoveAt(rs, k)
    <3>1. (CHOOSE k \in {k \in DOMAIN rs : rs[k].line = line} : TRUE) \in DOMAIN rs
      BY <1>2
    <3> QED
      BY <1>0, <1>2, <3>1 DEF Without
  <2>2. PICK a \in Seq(Record), b \in Seq(Record) :
           /\ a = SubSeq(rs, 1, k - 1) /\ Len(a) = k - 1 /\ \A n \in 1 .. k - 1 : a[n] = rs[n]
           /\ b = SubSeq(rs, k + 1, len) /\ Len(b) = len - k
           /\ \A n \in 1 .. len - k : b[n] = rs[n + k]
    <3>1. SubSeq(rs, 1, k - 1) \in Seq(Record) /\ Len(SubSeq(rs, 1, k - 1)) = k - 1
          /\ \A n \in 1 .. k - 1 : SubSeq(rs, 1, k - 1)[n] = rs[n]
      BY <1>0, SubSeqProperties
    <3>2. SubSeq(rs, k + 1, len) \in Seq(Record) /\ Len(SubSeq(rs, k + 1, len)) = len - k
          /\ \A n \in 1 .. len - k : SubSeq(rs, k + 1, len)[n] = rs[n + k]
      BY <1>0, SubSeqProperties
    <3> QED
      BY <3>1, <3>2
  <2>3. PICK w : w = a \o b /\ w = Without(rs, line)
    BY <1>0, <2>1, <2>2 DEF RemoveAt
  <2>4. /\ DOMAIN w = 1 .. len - 1
        /\ \A n \in 1 .. len - 1 : w[n] = IF n <= k - 1 THEN a[n] ELSE b[n - (k - 1)]
    <3>1. PICK m \in Nat : m = k - 1
      BY <1>0, <2>1
    <3>2. PICK l \in Nat : l = len - k
      BY <2>1
    <3>5. m + l = len - 1
      BY <1>0, <2>1, <3>1, <3>2
    <3>3. Len(a) = m /\ Len(b) = l
      BY <2>2, <3>1, <3>2
    <3>4. /\ w \in Seq(Record) /\ Len(w) = m + l
          /\ \A n \in 1 .. m + l : w[n] = IF n <= m THEN a[n] ELSE b[n - m]
      <4>1. /\ a \o b \in Seq(Record) /\ Len(a \o b) = Len(a) + Len(b)
            /\ \A n \in 1 .. Len(a) + Len(b) :
                  (a \o b)[n] = IF n <= Len(a) THEN a[n] ELSE b[n - Len(a)]
        BY <2>2, ConcatProperties
      <4> QED
        BY <2>3, <3>3, <4>1
    <3> QED
      BY <3>1, <3>4, <3>5, LenProperties
  <2>5. i \in 1 .. len - 1
    BY <2>3, <2>4
  <2>6. CASE i <= k - 1
    <3>1. w[i] = rs[i]
      BY <2>2, <2>4, <2>5, <2>6
    <3> QED
      BY <1>0, <2>3, <2>5, <3>1
  <2>7. CASE i > k - 1
    <3>1. PICK n \in 1 .. len - k : n = i - (k - 1)
      BY <1>0, <2>5, <2>7
    <3>2. w[i] = rs[n + k] /\ n + k \in 1 .. len
      <4>1. w[i] = b[n]
        BY <2>4, <2>5, <2>7, <3>1
      <4>2. n + k = i + 1
        BY <1>0, <2>1, <2>5, <3>1
      <4>3. b[n] = rs[n + k]
        BY <2>2, <3>1
      <4> QED
        BY <1>0, <2>5, <4>1, <4>2, <4>3
    <3> QED
      BY <1>0, <2>3, <3>2
  <2> QED
    BY <1>0, <2>5, <2>6, <2>7
<1> QED
  BY <1>1, <1>2

LEMMA TailNoMore ==
    ASSUME NEW rs \in Seq(Record), rs # <<>>
    PROVE  /\ Tail(rs) \in Seq(Record) /\ Len(Tail(rs)) = Len(rs) - 1
           /\ \A i \in 1 .. Len(rs) - 1 : Tail(rs)[i] = rs[i + 1]
           /\ \A i \in DOMAIN Tail(rs) : \E j \in DOMAIN rs : Tail(rs)[i] = rs[j]
<1>1. /\ Tail(rs) \in Seq(Record) /\ Len(Tail(rs)) = Len(rs) - 1
      /\ \A i \in 1 .. Len(rs) - 1 : Tail(rs)[i] = rs[i + 1]
      /\ Len(rs) \in Nat /\ DOMAIN rs = 1 .. Len(rs) /\ DOMAIN Tail(rs) = 1 .. Len(rs) - 1
  BY HeadTailProperties, LenProperties
<1>2. ASSUME NEW i \in 1 .. Len(rs) - 1 PROVE i + 1 \in 1 .. Len(rs)
  BY <1>1
<1> QED
  BY <1>1, <1>2

\* An assert only takes records.
LEMMA AssertTakes ==
    ASSUME LogTyped, NEW g \in DOMAIN files,
           \/ StartAssert \/ HasNext \/ EndAssert \/ ShiftRecord
           \/ \E line \in Line : ShiftIndexed(line)
    PROVE  NoMore(g)
<1>1. PICK rs \in Seq(Record) : rs = files[g].records
  BY IteratorTyped DEF FileState
<1>2. PICK ts : ts = Tail(rs)
  OBVIOUS
<1>3. ASSUME rs # <<>>, files'[g] = [files[g] EXCEPT !.records = ts] PROVE NoMore(g)
  <2>1. files'[g].records = ts
    BY <1>3, IteratorTyped DEF FileState
  <2>2. \A i \in DOMAIN ts : \E j \in DOMAIN rs : ts[i] = rs[j]
    BY <1>2, <1>3, TailNoMore
  <2> QED
    BY <1>1, <2>1, <2>2 DEF NoMore
<1>4. CASE StartAssert \/ HasNext \/ EndAssert
  BY <1>4, SameRecords DEF StartAssert, HasNext, EndAssert, queues
<1>5. CASE ShiftRecord
  <2>1. PICK f : f = Current /\ f \in DOMAIN files /\ files[f].records # <<>>
    BY <1>5, CurrentFacts DEF ShiftRecord
  <2>2. PICK us : us = Tail(files[f].records)
    OBVIOUS
  <2>3. files' = [files EXCEPT ![f].records = us]
    BY <1>5, <2>1, <2>2 DEF ShiftRecord
  <2>4. CASE f = g
    <3>1. files'[g] = [files[g] EXCEPT !.records = ts] /\ rs # <<>>
      BY <1>1, <1>2, <2>1, <2>2, <2>3, <2>4
    <3> QED
      BY <1>3, <3>1
  <2>5. CASE f # g
    <3>1. files'[g] = files[g]
      BY <2>1, <2>3, <2>5
    <3> QED
      BY <3>1, SameRecords
  <2> QED
    BY <2>4, <2>5
<1>6. CASE \E line \in Line : ShiftIndexed(line)
  <2>1. PICK line \in Line : ShiftIndexed(line)
    BY <1>6
  <2>2. PICK ws : ws = Without(rs, line)
    OBVIOUS
  <2>5. \/ rs # <<>> /\ files'[g] = [files[g] EXCEPT !.records = ts]
        \/ files'[g] = [files[g] EXCEPT !.records = ws]
        \/ files'[g] = files[g]
    BY <1>1, <1>2, <2>1, <2>2, IndexedFiles
  <2>6. CASE files'[g] = [files[g] EXCEPT !.records = ws]
    <3>1. files'[g].records = ws
      BY <2>6, IteratorTyped DEF FileState
    <3>2. \A i \in DOMAIN ws : \E j \in DOMAIN rs : ws[i] = rs[j]
      BY <2>2, WithoutNoMore
    <3> QED
      BY <1>1, <3>1, <3>2 DEF NoMore
  <2>7. CASE files'[g] = files[g]
    BY <2>7, SameRecords
  <2> QED
    BY <1>3, <2>5, <2>6, <2>7
<1> QED
  BY <1>4, <1>5, <1>6

LEMMA KeptAssertStep ==
    ASSUME LogTyped, KeptInv,
           \/ StartAssert \/ HasNext \/ EndAssert \/ ShiftRecord
           \/ \E line \in Line : ShiftIndexed(line)
    PROVE  KeptInv'
<1>1. /\ UNCHANGED <<reader, disk, pushed, rotated, torn, resetAt>>
      /\ DOMAIN files' = DOMAIN files
      /\ \A g : Kept(g) /\ Place(g)' = Place(g)
  BY AssertEffect
<1>2. \A g \in Grown : KeptFile(g)'
  BY <1>1 DEF KeptInv, KeptFile, Kept
<1>3. \A g \in Grown : NoMore(g)
  BY AssertTakes DEF Grown
<1> QED
  BY <1>1, <1>2, <1>3, KeptEverywhere, SameGrown

LEMMA KeptWriteStep ==
    ASSUME LogTyped, OrderInv, KeptInv, Write PROVE KeptInv'
<1>1. PICK f \in File, e \in Text, s \in 0 .. MaxTime :
         /\ disk' = [disk EXCEPT ![f] = [text |-> e, time |-> s]]
         /\ Written(f, e)
         /\ UNCHANGED <<useIndex, queues, reader, iterator, shifted>>
  BY WriteEffect
<1>2. /\ UNCHANGED <<files, pushed, reader, torn, resetAt>>
      /\ disk'[f].text = e /\ \A g \in File \ {f} : disk'[g] = disk[g]
  BY <1>1 DEF queues, LogTyped, LogTypeOK
<1>3. \A g : /\ Content(g)' = Content(g) /\ Position(g)' = Position(g) /\ SizeOf(g)' = SizeOf(g)
             /\ Place(g)' = Place(g)
  BY <1>2 DEF Content, Position, SizeOf, Place, Under, Candidate
<1> SUFFICES ASSUME NEW g \in Grown' PROVE KeptFile(g)' /\ WholeFile(g)'
  BY DEF KeptInv
<1>4. g \in Grown /\ g \in File
  <2>1. rotated \subseteq rotated'
    BY <1>1 DEF Written
  <2>2. g \in Grown
    BY <1>2, <2>1 DEF Grown
  <2> QED
    BY <2>2, GrownTyped
<1>5. PICK d, c, at, size, q, from, place, t, ra, ch :
         /\ d \in Seq(Nat) /\ c \in Seq(Nat) /\ t \in Seq(Nat)
         /\ d = disk[g].text /\ c = Content(g) /\ at = Position(g) /\ size = SizeOf(g)
         /\ q = pushed[g] /\ from = resetAt[g] /\ place = Place(g)
         /\ t = reader.text /\ ra = reader.at /\ ch = reader.chunk
  BY <1>4, GrownTyped
<1>6. KeptOf(d, c, at, size, q, from, place, t, ra, ch)
  BY <1>4, <1>5 DEF KeptInv, KeptFile
<1>7. PICK e2 \in Seq(Nat) : e2 = disk'[g].text /\ Starts(d, e2)
  <2>1. CASE g # f
    BY <1>2, <1>4, <1>5, <2>1, StartsItself
  <2>2. CASE g = f
    <3>1. e \in Seq(Nat)
      BY LogAssumption, SeqOfNat DEF Text
    <3>2. rotated' = rotated
      <4>1. f \notin rotated'
        BY <2>2 DEF Grown
      <4> QED
        BY <1>1, <4>1 DEF Written
    <3>3. Top \in Nat /\ Last(disk[f].text) = d[Len(d)]
      BY <1>5, <2>2, BudgetTyped DEF Last
    <3>4. \/ e = d \o <<Top + 1, Top + 2>> \/ e = Append(d, Top + 1)
          \/ Unended(f) /\ e = Append(d, d[Len(d)] + 1)
      <4>1. f \notin rotated'
        BY <2>2 DEF Grown
      <4> QED
        BY <1>1, <1>5, <2>2, <3>3, <4>1 DEF Written
    <3>5. d \in Seq(Nat) /\ Len(d) \in Nat /\ \A i \in 1 .. Len(d) : d[i] \in Nat
      BY <1>5, LengthNat
    <3>6. ASSUME NEW x \in Nat, e = Append(d, x) PROVE Starts(d, e)
      BY <3>5, <3>6, AppendFacts DEF Starts
    <3>7. ASSUME e = d \o <<Top + 1, Top + 2>> PROVE Starts(d, e)
      <4>1. PICK w : w = <<Top + 1, Top + 2>>
        OBVIOUS
      <4>2. w \in Seq(Nat) /\ Len(w) = 2
        BY <3>3, <4>1
      <4>3. PICK n \in Nat : n = Len(d)
        BY <3>5
      <4>4. /\ Len(e) = n + 2
            /\ \A i \in 1 .. n + 2 : e[i] = IF i <= n THEN d[i] ELSE w[i - n]
        BY <3>5, <3>7, <4>1, <4>2, <4>3, ConcatProperties
      <4> QED
        BY <4>3, <4>4 DEF Starts
    <3>8. ASSUME Unended(f), e = Append(d, d[Len(d)] + 1) PROVE Starts(d, e)
      <4>1. Last(disk[f].text) + 1 \in 1 .. 2 * MaxLines
        BY <3>8, UnendedFacts
      <4>2. PICK x \in Nat : x = d[Len(d)] + 1
        BY <3>3, <4>1
      <4> QED
        BY <3>6, <3>8, <4>2
    <3>9. ASSUME e = Append(d, Top + 1) PROVE Starts(d, e)
      <4>1. PICK x \in Nat : x = Top + 1
        BY <3>3
      <4> QED
        BY <3>6, <3>9, <4>1
    <3>10. Starts(d, e)
      BY <3>4, <3>7, <3>8, <3>9
    <3> QED
      BY <1>2, <2>2, <3>1, <3>10
  <2> QED
    BY <2>1, <2>2
<1>8. KeptOf(e2, c, at, size, q, from, place, t, ra, ch)
  BY <1>5, <1>6, <1>7, KeptWrite
<1>9. KeptFile(g)'
  BY <1>2, <1>3, <1>5, <1>7, <1>8 DEF KeptFile
<1>10. WholeFile(g)'
  BY <1>2, <1>4 DEF KeptInv, WholeFile
<1> QED
  BY <1>9, <1>10

LEMMA KeptStep ==
    ASSUME LogTyped, ReadsListened, OrderInv, KeptInv, [LogNext]_logVars PROVE KeptInv'
<1>1. CASE Write
  BY <1>1, KeptWriteStep
<1>2. CASE ReaderFails \/ StatFails
  BY <1>2, KeptRest, KeptStatStep
<1>3. CASE ReaderStep
  BY <1>3, KeptRest, KeptOpenStep, KeptSnapshotStep, KeptStatStep, KeptCompareStep,
     KeptStoreStep, KeptStartStep, KeptPushStep, KeptUpdateStep, KeptEndStep DEF ReaderStep
<1>4. CASE WorkflowStep
  BY <1>4, KeptRest, KeptResetStep, KeptAssertStep DEF WorkflowStep
<1>5. CASE UNCHANGED logVars
  BY <1>5 DEF KeptInv, KeptFile, WholeFile, Grown, logVars, environment, queues, Content,
     Position, SizeOf, Place, Under, Candidate
<1> QED
  BY <1>1, <1>2, <1>3, <1>4, <1>5 DEF LogNext

\* What was read of a file that only grows starts what is on the disk, and its
\* lines up to where the reader is are records, but for those a reset skipped.
THEOREM KeptCorrect == LogSpec => []KeptInv
<1>1. LogInit => KeptInv
  BY DEF LogInit, KeptInv, Grown
<1> QED
  BY <1>1, KeptStep, OrderCorrect, LogTypeCorrect, PTL DEF LogSpec

\* A file that only grows loses no line: polls that find it in the middle of a
\* line, snapshots that change and are taken again, resets of the position while
\* the reader looks at it; and no record lacks the start of its line before the
\* first reset (readLogFile, tryReadSnapshot, File.Reset).
THEOREM NothingLostHolds == LogSpec => []NothingLost
<1>1. LogTyped /\ KeptInv => NothingLost
  <2> SUFFICES ASSUME LogTyped, KeptInv, NEW f \in Grown, reader.pc \in {"list", "listed"},
                      NEW i \in DOMAIN files[f].content,
                      EndsLine(files[f].content[i]), i > resetAt[f],
                      LineOf(files[f].content[i]) \notin Excluded
               PROVE  LineOf(files[f].content[i]) \in ToSet(pushed[f])
    BY DEF NothingLost, Grown, KeptInv, WholeFile
  <2>1. PICK c \in Seq(Nat), q \in Seq(Nat), from \in Nat :
           /\ c = Content(f) /\ q = pushed[f] /\ from = resetAt[f] /\ c = files[f].content
    BY GrownTyped DEF Content
  <2>2. Place(f) = "away"
    BY PlaceNone DEF Following
  <2>3. Got(c, q, from, Len(c))
    BY <2>1, <2>2 DEF KeptInv, KeptFile, KeptOf, Taking
  <2>4. PICK n \in Nat : n = Len(c) /\ DOMAIN c = 1 .. n /\ DOMAIN q = 1 .. Len(q)
    BY LenProperties
  <2>5. i \in 1 .. Len(c) /\ from < i /\ i <= Len(c)
    BY <2>1, <2>4
  <2>6. \E k \in 1 .. Len(q) : q[k] = LineOf(c[i])
    BY <2>1, <2>3, <2>5 DEF Got
  <2> QED
    BY <2>1, <2>4, <2>6 DEF ToSet
<1> QED
  BY <1>1, KeptCorrect, LogTypeCorrect, PTL

-----------------------------------------------------------------------------
(* A line is of one file: what the steps make of the lines of a file.      *)

LEMMA SetOfSeq ==
    ASSUME NEW S, NEW s \in Seq(S)
    PROVE  /\ DOMAIN s = 1 .. Len(s) /\ Len(s) \in Nat
           /\ ToSet(s) = {s[i] : i \in 1 .. Len(s)}
           /\ \A x \in S : ToSet(Append(s, x)) = ToSet(s) \cup {x}
<1>1. DOMAIN s = 1 .. Len(s) /\ Len(s) \in Nat /\ ToSet(s) = {s[i] : i \in 1 .. Len(s)}
  BY LenProperties DEF ToSet
<1>2. ASSUME NEW x \in S PROVE ToSet(Append(s, x)) = ToSet(s) \cup {x}
  <2>1. PICK n, y : n \in Nat /\ n = Len(s) /\ y = Append(s, x)
    BY <1>1
  <2>2. /\ y \in Seq(S) /\ Len(y) = n + 1 /\ y[n + 1] = x /\ \A i \in 1 .. n : y[i] = s[i]
    BY <2>1, AppendProperties
  <2>3. ToSet(y) = {y[i] : i \in 1 .. n + 1}
    BY <2>2, LenProperties DEF ToSet
  <2>4. 1 .. n + 1 = (1 .. n) \cup {n + 1}
    BY <2>1
  <2>5. {y[i] : i \in 1 .. n + 1} = {s[i] : i \in 1 .. n} \cup {x}
    BY <2>2, <2>4
  <2> QED
    BY <1>1, <2>1, <2>3, <2>5
<1> QED
  BY <1>1, <1>2

HadNoMore == \A f \in File : Had(f)' \subseteq Had(f)

LEMMA ApartStays == ASSUME Apart, HadNoMore PROVE Apart'
  BY DEF Apart, HadNoMore

LEMMA HadElsewhere ==
    ASSUME NEW g, Content(g)' = Content(g), UNCHANGED <<disk, pushed[g]>>,
           Place(g)' \in {"away", "snapshot"}
    PROVE  Had(g)' \subseteq Had(g)
<1>1. Place(g)' \notin Looking \cup Taking
  BY DEF Looking, Taking
<1> QED
  BY <1>1 DEF Had, Lines, Looking, Taking

LEMMA HadMoves ==
    ASSUME NEW f, NEW p, NEW p2, Moves(f, p, p2), Had(f)' \subseteq Had(f)
    PROVE  HadNoMore
<1>1. ASSUME NEW g \in File, g # f PROVE Had(g)' \subseteq Had(g)
  BY <1>1, HadElsewhere DEF Moves, Kept
<1> QED
  BY <1>1 DEF HadNoMore

\* The text, the content and the records of a file have the lines they had.
LEMMA HadHere ==
    ASSUME NEW f, disk' = disk,
           Lines(Content(f)') \subseteq Had(f), ToSet(pushed'[f]) \subseteq Had(f),
           Place(f)' \in Looking \cup Taking => Lines(reader'.text) \subseteq Had(f)
    PROVE  Had(f)' \subseteq Had(f)
  BY DEF Had, Lines, Looking, Taking

LEMMA HadOf ==
    ASSUME NEW f
    PROVE  /\ Lines(disk[f].text) \subseteq Had(f) /\ Lines(Content(f)) \subseteq Had(f)
           /\ ToSet(pushed[f]) \subseteq Had(f)
           /\ Place(f) \in Looking \cup Taking => Lines(reader.text) \subseteq Had(f)
  BY DEF Had

LEMMA HadReading ==
    ASSUME LogTyped,
           \/ TakeSnapshot \/ StatSnapshot \/ StatFails \/ CompareContent \/ StoreContent
           \/ StartRecords \/ PushRecord \/ UpdatePosition \/ EndRecords
    PROVE  HadNoMore
<1>1. PICK f : f = Candidate.name
  OBVIOUS
<1>2. /\ Lines(disk[f].text) \subseteq Had(f) /\ Lines(Content(f)) \subseteq Had(f)
      /\ ToSet(pushed[f]) \subseteq Had(f)
      /\ Place(f) \in Looking \cup Taking => Lines(reader.text) \subseteq Had(f)
  BY HadOf
<1>3. ASSUME NEW p \in {"snapshot", "stat", "compare", "store", "start", "push", "update"}, NEW p2,
             Moves(f, p, p2),
             Content(f)' = Content(f) \/ (p = "store" /\ Content(f)' = reader.text),
             ToSet(pushed'[f]) \subseteq Had(f),
             \/ p2 \in {"away", "snapshot"}
             \/ p # "snapshot" /\ reader'.text = reader.text
             \/ reader'.text = disk[f].text
      PROVE  HadNoMore
  <2>1. p # "snapshot" => p \in Looking \cup Taking
    BY DEF Looking, Taking
  <2>2. p2 \in {"away", "snapshot"} => p2 \notin Looking \cup Taking
    BY DEF Looking, Taking
  <2>3. disk' = disk /\ Place(f) = p /\ Place(f)' = p2
    BY <1>3 DEF Moves
  <2>4. p # "snapshot" => Lines(reader.text) \subseteq Had(f)
    BY <1>2, <2>1, <2>3
  <2>5. Lines(Content(f)') \subseteq Had(f)
    <3>1. CASE Content(f)' = Content(f)
      BY <1>2, <3>1
    <3>2. CASE p = "store" /\ Content(f)' = reader.text
      BY <2>4, <3>2
    <3> QED
      BY <1>3, <3>1, <3>2
  <2>6. p2 \in Looking \cup Taking => Lines(reader'.text) \subseteq Had(f)
    BY <1>2, <1>3, <2>2, <2>4
  <2>7. Had(f)' \subseteq Had(f)
    BY <1>3, <2>3, <2>5, <2>6, HadHere
  <2> QED
    BY <1>3, <2>7, HadMoves
<1>4. CASE TakeSnapshot
  <2>1. /\ Moves(f, "snapshot", "stat") /\ files' = files /\ pushed' = pushed
        /\ reader'.text = disk[f].text
    BY <1>1, <1>4, SnapshotEffect
  <2>2. Content(f)' = Content(f)
    BY <2>1 DEF Content
  <2> QED
    BY <1>2, <1>3, <2>1, <2>2
<1>5. CASE StatSnapshot \/ StatFails
  <2>1. /\ files' = files /\ pushed' = pushed
        /\ \/ Moves(f, "stat", "away") \/ Moves(f, "stat", "snapshot")
           \/ Moves(f, "stat", "compare") /\ reader'.text = reader.text
    BY <1>1, <1>5, StatEffect
  <2>2. Content(f)' = Content(f)
    BY <2>1 DEF Content
  <2>3. CASE Moves(f, "stat", "away")
    BY <1>2, <1>3, <2>1, <2>2, <2>3
  <2>4. CASE Moves(f, "stat", "snapshot")
    BY <1>2, <1>3, <2>1, <2>2, <2>4
  <2>5. CASE Moves(f, "stat", "compare") /\ reader'.text = reader.text
    BY <1>2, <1>3, <2>1, <2>2, <2>5
  <2> QED
    BY <2>1, <2>3, <2>4, <2>5
<1>6. CASE CompareContent
  <2>1. /\ Moves(f, "compare", "store") /\ pushed' = pushed
        /\ reader'.text = reader.text /\ Content(f)' = Content(f)
    BY <1>1, <1>6, CompareEffect
  <2> QED
    BY <1>2, <1>3, <2>1
<1>7. CASE StoreContent
  <2>1. /\ pushed' = pushed /\ Content(f)' = reader.text
        /\ \/ Moves(f, "store", "away")
           \/ Moves(f, "store", "start") /\ reader'.text = reader.text
    BY <1>1, <1>7, StoreEffect
  <2>2. CASE Moves(f, "store", "away")
    BY <1>2, <1>3, <2>1, <2>2
  <2>3. CASE Moves(f, "store", "start") /\ reader'.text = reader.text
    BY <1>2, <1>3, <2>1, <2>3
  <2> QED
    BY <2>1, <2>2, <2>3
<1>8. CASE StartRecords
  <2>1. /\ files' = files /\ pushed' = pushed
        /\ \/ Moves(f, "start", "away")
           \/ Moves(f, "start", "push") /\ reader'.text = reader.text
    BY <1>1, <1>8, StartEffect
  <2>2. Content(f)' = Content(f)
    BY <2>1 DEF Content
  <2>3. CASE Moves(f, "start", "away")
    BY <1>2, <1>3, <2>1, <2>2, <2>3
  <2>4. CASE Moves(f, "start", "push") /\ reader'.text = reader.text
    BY <1>2, <1>3, <2>1, <2>2, <2>4
  <2> QED
    BY <2>1, <2>3, <2>4
<1>9. CASE PushRecord
  <2>1. PICK end : end = NextEnd(reader.at)
    OBVIOUS
  <2>2. /\ Moves(f, "push", "update") /\ Content(f)' = Content(f) /\ reader'.text = reader.text
        /\ end \in Nat /\ reader.at < end /\ end <= Len(reader.text)
    BY <1>1, <1>9, <2>1, PushMoves
  <2>3. PICK line \in Line : line = LineOf(reader.text[end])
    BY <1>1, <1>9, <2>1, PushMoves
  <2>4. PushesLine(f, line, end)
    BY <1>1, <1>9, <2>1, <2>3, PushMoves
  <2>5. f \in File /\ pushed \in [File -> Seq(Line)] /\ Place(f) \in Looking \cup Taking
    BY <2>2, IteratorTyped DEF Moves, Taking
  <2>6. line \in Had(f)
    <3>1. end \in 1 .. Len(reader.text)
      <4>1. PICK m \in Nat, n \in Nat : m = reader.at /\ n = Len(reader.text)
        BY <2>5, ObserversTyped, LengthNat
      <4> QED
        BY <2>2, <4>1
    <3>2. line \in Lines(reader.text)
      BY <2>3, <3>1 DEF Lines
    <3> QED
      BY <1>2, <2>5, <3>2
  <2>7. pushed'[f] = pushed[f] \/ pushed'[f] = Append(pushed[f], line)
    <3>1. PICK z : z = Append(pushed[f], line)
      OBVIOUS
    <3>2. pushed' = pushed \/ pushed' = [pushed EXCEPT ![f] = z]
      BY <2>4, <3>1 DEF PushesLine, BecomesRecord
    <3> QED
      BY <2>5, <3>1, <3>2
  <2>8. ToSet(pushed'[f]) \subseteq Had(f)
    <3>1. ToSet(Append(pushed[f], line)) = ToSet(pushed[f]) \cup {line}
      BY <2>3, <2>5, SetOfSeq
    <3> QED
      BY <1>2, <2>6, <2>7, <3>1
  <2> QED
    BY <1>3, <2>2, <2>8
<1>10. CASE UpdatePosition
  <2>1. /\ Moves(f, "update", "push") /\ pushed' = pushed
        /\ Content(f)' = Content(f) /\ reader'.text = reader.text
    BY <1>1, <1>10, UpdateEffect
  <2> QED
    BY <1>2, <1>3, <2>1
<1>11. CASE EndRecords
  <2>1. Moves(f, "push", "away") /\ files' = files /\ pushed' = pushed
    BY <1>1, <1>11, EndEffect
  <2>2. Content(f)' = Content(f)
    BY <2>1 DEF Content
  <2> QED
    BY <1>2, <1>3, <2>1, <2>2
<1> QED
  BY <1>4, <1>5, <1>6, <1>7, <1>8, <1>9, <1>10, <1>11

LEMMA HadRest ==
    ASSUME LogTyped, ReadsListened,
           \/ ListFiles \/ EndListing \/ Crash \/ Close \/ Listen \/ ReaderFails
           \/ OpenFile \/ Reset \/ StartAssert \/ HasNext \/ EndAssert \/ ShiftRecord
           \/ \E line \in Line : ShiftIndexed(line)
    PROVE  HadNoMore
<1>1. CASE ListFiles \/ EndListing \/ Crash \/ Close \/ Listen \/ ReaderFails
  <2>1. UNCHANGED <<disk, files, pushed>> /\ \A g : Place(g)' = "away"
    BY <1>1, RestEffect
  <2> QED
    BY <2>1, EntriesKept, HadElsewhere DEF HadNoMore, Kept
<1>2. CASE OpenFile
  <2>1. PICK f : f = Candidate.name
    OBVIOUS
  <2>2. /\ \A g : Place(g)' \in {"away", "snapshot"}
        /\ UNCHANGED <<disk, pushed>>
        /\ \A g : Content(g)' = Content(g)
    BY <1>2, <2>1, OpenEffect
  <2> QED
    BY <2>2, HadElsewhere DEF HadNoMore
<1>3. CASE Reset
  <2>1. /\ reader' = reader /\ disk' = disk /\ pushed' = pushed
        /\ \A g : Content(g)' = Content(g) /\ Place(g)' = Place(g)
    BY <1>3, ResetEffect
  <2> QED
    BY <2>1 DEF HadNoMore, Had
<1>4. CASE \/ StartAssert \/ HasNext \/ EndAssert \/ ShiftRecord
           \/ \E line \in Line : ShiftIndexed(line)
  <2>1. /\ UNCHANGED <<reader, disk, pushed>>
        /\ \A g : Content(g)' = Content(g) /\ Place(g)' = Place(g)
    BY <1>4, AssertEffect DEF Kept
  <2> QED
    BY <2>1 DEF HadNoMore, Had
<1> QED
  BY <1>1, <1>2, <1>3, <1>4

LEMMA LineBelow ==
    ASSUME NEW h \in Nat, NEW u \in Nat
    PROVE  /\ u <= 2 * h => LineOf(u) \in Nat /\ LineOf(u) <= h
           /\ u % 2 = 1 => LineOf(u + 1) = LineOf(u)
           /\ LineOf(2 * h + 1) = h + 1 /\ LineOf(2 * h + 2) = h + 1
  BY DEF LineOf

\* A file has only lines that were written.
LEMMA HadWritten ==
    ASSUME LogTyped, OrderInv, NEW g \in File, NEW h \in Nat, Top = 2 * h, NEW n \in Had(g)
    PROVE  n \in Nat /\ n <= h
<1>1. PICK d, c, at, size, q, place, t, ra, ch :
         /\ d \in Seq(Nat) /\ c \in Seq(Nat) /\ q \in Seq(Nat) /\ t \in Seq(Nat)
         /\ d = disk[g].text /\ c = Content(g) /\ at = Position(g) /\ size = SizeOf(g)
         /\ q = pushed[g] /\ place = Place(g)
         /\ t = reader.text /\ ra = reader.at /\ ch = reader.chunk
  BY ObserversTyped
<1>2. OrderOf(d, c, at, size, q, 2 * h, place, t, ra, ch)
  BY <1>1 DEF OrderInv, FileOrderInv
<1>3. /\ Sound(d, 2 * h) /\ Sound(c, 2 * h) /\ \A k \in 1 .. Len(q) : 2 * q[k] <= 2 * h
      /\ place \in Looking \cup Taking => Sound(t, 2 * h)
  BY <1>2 DEF OrderOf
<1>4. ASSUME NEW s \in Seq(Nat), Sound(s, 2 * h), n \in Lines(s) PROVE n \in Nat /\ n <= h
  <2>1. PICK i \in 1 .. Len(s) : n = LineOf(s[i])
    BY <1>4 DEF Lines
  <2>2. PICK u \in Nat : u = s[i] /\ u <= 2 * h
    BY <1>4, LengthNat DEF Sound
  <2> QED
    BY <2>1, <2>2, LineBelow
<1>5. CASE n \in ToSet(q)
  <2>1. PICK k \in 1 .. Len(q) : n = q[k]
    <3>1. ToSet(q) = {q[i] : i \in 1 .. Len(q)}
      BY <1>1, SetOfSeq
    <3> QED
      BY <1>5, <3>1
  <2>2. n \in Nat /\ 2 * n <= 2 * h
    BY <1>1, <1>3, <2>1, LengthNat
  <2> QED
    BY <2>2
<1>6. \/ n \in Lines(d) \/ n \in Lines(c) \/ n \in ToSet(q)
      \/ place \in Looking \cup Taking /\ n \in Lines(t)
  BY <1>1 DEF Had
<1> QED
  BY <1>1, <1>3, <1>4, <1>5, <1>6

LEMMA ApartWrites == ASSUME LogTyped, OrderInv, Apart, Write PROVE Apart'
<1>1. PICK f \in File, e \in Text, s \in 0 .. MaxTime :
         /\ disk' = [disk EXCEPT ![f] = [text |-> e, time |-> s]]
         /\ Written(f, e)
         /\ UNCHANGED <<useIndex, queues, reader, iterator, shifted>>
  BY WriteEffect
<1>2. /\ UNCHANGED <<files, pushed, reader>>
      /\ disk'[f].text = e /\ \A g \in File \ {f} : disk'[g] = disk[g]
  BY <1>1 DEF queues, LogTyped, LogTypeOK
<1>3. \A g : Content(g)' = Content(g) /\ Place(g)' = Place(g)
  BY <1>2 DEF Content, Place, Under, Candidate
<1>4. PICK h \in Nat : Top = 2 * h
  BY BudgetTyped DEF Top
<1>5. \A g \in File \ {f} : Had(g)' = Had(g)
  BY <1>2, <1>3 DEF Had
<1>6. Lines(e) \subseteq Lines(disk[f].text) \cup {h + 1}
  <2>1. PICK d \in Seq(Nat) : d = disk[f].text
    BY ObserversTyped
  <2>2. PICK m \in Nat : m = Len(d)
    BY LengthNat
  <2>3. \A i \in 1 .. m : LineOf(d[i]) \in Lines(d)
    BY <2>2 DEF Lines
  <2>4. ASSUME NEW x \in Nat, e = Append(d, x), LineOf(x) \in Lines(d) \cup {h + 1}
        PROVE  Lines(e) \subseteq Lines(d) \cup {h + 1}
    <3>1. /\ Len(e) = m + 1 /\ e[m + 1] = x /\ \A i \in 1 .. m : e[i] = d[i]
      BY <2>2, <2>4, AppendFacts
    <3>2. \A i \in 1 .. m + 1 : i \in 1 .. m \/ i = m + 1
      OBVIOUS
    <3> QED
      BY <2>3, <2>4, <3>1, <3>2 DEF Lines
  <2>5. CASE e = Append(d, Top + 1)
    <3>1. PICK x \in Nat : x = Top + 1
      BY <1>4
    <3>2. LineOf(x) = h + 1
      BY <1>4, <3>1, LineBelow
    <3> QED
      BY <2>1, <2>4, <2>5, <3>1, <3>2
  <2>6. CASE e = d \o <<Top + 1, Top + 2>>
    <3>0. PICK x \in Nat, y \in Nat : x = Top + 1 /\ y = Top + 2
      BY <1>4
    <3>1. PICK w : w = <<x, y>> /\ x = Top + 1 /\ y = Top + 2
      BY <3>0
    <3>2. w \in Seq(Nat) /\ Len(w) = 2 /\ w[1] = x /\ w[2] = y
      BY <3>1
    <3>3. LineOf(x) = h + 1 /\ LineOf(y) = h + 1
      BY <1>4, <3>1, LineBelow
    <3>4. /\ Len(e) = m + 2
          /\ \A i \in 1 .. m + 2 : e[i] = IF i <= m THEN d[i] ELSE w[i - m]
      BY <2>2, <2>6, <3>1, <3>2, ConcatProperties
    <3>5. e[m + 1] = x /\ e[m + 2] = y /\ \A i \in 1 .. m : e[i] = d[i]
      BY <3>2, <3>4
    <3>6. \A i \in 1 .. m + 2 : i \in 1 .. m \/ i = m + 1 \/ i = m + 2
      OBVIOUS
    <3>7. ASSUME NEW i \in 1 .. m + 2 PROVE LineOf(e[i]) \in Lines(d) \cup {h + 1}
      <4>1. CASE i \in 1 .. m
        <5>1. e[i] = d[i] /\ LineOf(d[i]) \in Lines(d)
          BY <2>3, <3>5, <4>1
        <5> QED
          BY <5>1
      <4>2. CASE i = m + 1
        BY <3>3, <3>5, <4>2
      <4>3. CASE i = m + 2
        BY <3>3, <3>5, <4>3
      <4> QED
        BY <3>6, <4>1, <4>2, <4>3
    <3>8. Lines(e) = {LineOf(e[i]) : i \in 1 .. m + 2}
      BY <3>4 DEF Lines
    <3> QED
      BY <2>1, <3>7, <3>8
  <2>7. CASE Unended(f) /\ e = Append(d, Last(disk[f].text) + 1)
    <3>1. /\ Len(d) \in 1 .. Len(d) /\ Last(disk[f].text) = d[Len(d)]
          /\ Last(disk[f].text) \in 1 .. 2 * MaxLines /\ Last(disk[f].text) % 2 = 1
      BY <2>1, <2>7, UnendedFacts
    <3>2. PICK u \in Nat : u = Last(disk[f].text) /\ u = d[m] /\ u % 2 = 1 /\ m \in 1 .. m
      BY <2>2, <3>1, LogAssumption
    <3>3. PICK x \in Nat : x = u + 1
      OBVIOUS
    <3>4. LineOf(x) \in Lines(d)
      BY <2>3, <3>2, <3>3, LineBelow
    <3> QED
      BY <2>1, <2>4, <2>7, <3>2, <3>3, <3>4
  <2>8. CASE e = <<>>
    BY <2>8 DEF Lines
  <2> QED
    BY <1>1, <2>1, <2>5, <2>6, <2>7, <2>8 DEF Written
<1>7. Had(f)' \subseteq Had(f) \cup {h + 1}
  BY <1>2, <1>3, <1>6 DEF Had
<1> SUFFICES ASSUME NEW g \in File, NEW k \in File, g # k, NEW n, n \in Had(g)', n \in Had(k)'
             PROVE  FALSE
  BY DEF Apart
<1>8. \A j \in File : h + 1 \notin Had(j)
  BY <1>4, HadWritten
<1>9. n \in Had(g) /\ n \in Had(k)
  BY <1>5, <1>7, <1>8
<1> QED
  BY <1>9 DEF Apart

LEMMA ApartStep ==
    ASSUME LogTyped, ReadsListened, OrderInv, Apart, [LogNext]_logVars PROVE Apart'
<1>1. CASE Write
  BY <1>1, ApartWrites
<1>2. CASE ReaderFails \/ StatFails \/ ReaderStep \/ WorkflowStep
  BY <1>2, HadReading, HadRest, ApartStays DEF ReaderStep, WorkflowStep
<1>3. CASE UNCHANGED logVars
  BY <1>3 DEF Apart, Had, logVars, environment, queues, Content, Place, Under, Candidate
<1> QED
  BY <1>1, <1>2, <1>3 DEF LogNext

LEMMA ApartInit == LogInit => Apart
<1> SUFFICES ASSUME LogInit, NEW f \in File PROVE Had(f) = {}
  BY DEF Apart
<1>1. /\ disk = [g \in File |-> [text |-> <<>>, time |-> 0]]
      /\ files = [g \in {} |-> {}] /\ pushed = [g \in File |-> <<>>] /\ reader = NoReader
  BY DEF LogInit
<1>2. disk[f].text = <<>> /\ pushed[f] = <<>> /\ Content(f) = <<>> /\ Place(f) = "away"
  BY <1>1 DEF Content, Place, Under, Following, NoReader
<1>3. Lines(<<>>) = {} /\ ToSet(<<>>) = {}
  BY DEF Lines, ToSet
<1> QED
  BY <1>2, <1>3 DEF Had, Looking, Taking

-----------------------------------------------------------------------------
(* Records are handed out once.                                            *)

\* A line of a file is of no other one.
LEMMA OneFile ==
    ASSUME Apart, NEW f \in File, NEW g \in File, NEW n, n \in ToSet(pushed[f]), n \in ToSet(pushed[g])
    PROVE  f = g
  BY DEF Apart, Had

\* What steps leave alone that neither read nor take a record.
LEMMA TakenSame ==
    ASSUME TakenInv, UNCHANGED <<useIndex, pushed, shifted, discarded>>,
           DOMAIN files \subseteq DOMAIN files',
           \A g \in DOMAIN files : files'[g].records = files[g].records,
           \A g \in DOMAIN files' \ DOMAIN files : files'[g].records = <<>>
    PROVE  TakenInv'
<1> SUFFICES ASSUME ~useIndex PROVE (RecordsPushed /\ ShiftedOnce /\ NoneDropped)'
  BY DEF TakenInv
<1>1. \A g \in DOMAIN files : RecordLines(g)' = RecordLines(g)
  BY DEF RecordLines
<1>2. \A g \in DOMAIN files' \ DOMAIN files : RecordLines(g)' = {}
  BY DEF RecordLines
<1>3. RecordsPushed /\ ShiftedOnce /\ NoneDropped
  BY DEF TakenInv
<1>4. PushedLines' = PushedLines /\ ShiftedLines' = ShiftedLines
  BY DEF PushedLines, ShiftedLines
<1>5. RecordsPushed'
  <2>1. ASSUME NEW g \in DOMAIN files', g \in DOMAIN files
        PROVE  /\ RecordLines(g)' \subseteq ToSet(pushed'[g])
               /\ \A i, j \in DOMAIN files'[g].records :
                     i # j => files'[g].records[i].line # files'[g].records[j].line
    BY <1>1, <1>3, <2>1 DEF RecordsPushed
  <2>2. ASSUME NEW g \in DOMAIN files', g \notin DOMAIN files
        PROVE  /\ RecordLines(g)' \subseteq ToSet(pushed'[g])
               /\ \A i, j \in DOMAIN files'[g].records :
                     i # j => files'[g].records[i].line # files'[g].records[j].line
    BY <1>2, <2>2
  <2> QED
    BY <2>1, <2>2 DEF RecordsPushed
<1>6. ShiftedOnce'
  BY <1>1, <1>2, <1>3, <1>4 DEF ShiftedOnce
<1>7. NoneDropped'
  <2>1. UNION {RecordLines(g) : g \in DOMAIN files} \subseteq
           UNION {RecordLines(g)' : g \in DOMAIN files'}
    BY <1>1
  <2> QED
    BY <1>3, <1>4, <2>1 DEF NoneDropped
<1> QED
  BY <1>5, <1>6, <1>7

LEMMA TakenReads ==
    ASSUME LogTyped, TakenInv,
           \/ TakeSnapshot \/ StatSnapshot \/ StatFails \/ CompareContent \/ StoreContent
           \/ StartRecords \/ UpdatePosition \/ EndRecords
    PROVE  TakenInv'
<1>1. PICK f : f = Candidate.name
  OBVIOUS
<1>2. UNCHANGED <<useIndex, shifted, discarded>>
  BY DEF TakeSnapshot, StatSnapshot, StatFails, CompareContent, StoreContent, StartRecords,
         UpdatePosition, EndRecords, queues
<1>3. /\ pushed' = pushed /\ DOMAIN files' = DOMAIN files
      /\ \A g \in DOMAIN files : files'[g].records = files[g].records
  <2>1. CASE TakeSnapshot \/ StatSnapshot \/ StatFails \/ StartRecords \/ EndRecords
    BY <2>1 DEF TakeSnapshot, StatSnapshot, StatFails, StartRecords, EndRecords, queues
  <2>2. CASE CompareContent \/ StoreContent \/ UpdatePosition
    BY <1>1, <2>2, CompareEffect, StoreEffect, UpdateEffect DEF Moves
  <2> QED
    BY <2>1, <2>2
<1> QED
  BY <1>2, <1>3, TakenSame

LEMMA TakenRests ==
    ASSUME LogTyped, ReadsListened, TakenInv,
           \/ ListFiles \/ EndListing \/ Crash \/ Close \/ Listen \/ ReaderFails
           \/ OpenFile \/ StartAssert \/ HasNext \/ EndAssert \/ Write \/ UNCHANGED logVars
    PROVE  TakenInv'
<1>1. CASE ListFiles \/ EndListing \/ Crash \/ Close \/ Listen \/ ReaderFails
  <2>1. UNCHANGED <<files, pushed, discarded, shifted, useIndex>>
    BY <1>1, RestEffect
  <2> QED
    BY <2>1, TakenSame
<1>2. CASE OpenFile
  <2>1. PICK f : f = Candidate.name
    OBVIOUS
  <2>2. /\ UNCHANGED <<discarded, pushed, shifted, useIndex>>
        /\ DOMAIN files' = DOMAIN files \cup {f}
        /\ \A g \in DOMAIN files : files'[g] = files[g]
        /\ f \notin DOMAIN files => files'[f].records = <<>>
    BY <1>2, <2>1, OpenEffect
  <2> QED
    BY <2>2, TakenSame
<1>3. CASE StartAssert \/ HasNext \/ EndAssert \/ UNCHANGED logVars
  <2>1. UNCHANGED <<files, pushed, discarded, shifted, useIndex>>
    BY <1>3 DEF StartAssert, HasNext, EndAssert, logVars, queues
  <2> QED
    BY <2>1, TakenSame
<1>4. CASE Write
  <2>1. UNCHANGED <<files, pushed, discarded, shifted, useIndex>>
    BY <1>4, WriteEffect DEF queues
  <2> QED
    BY <2>1, TakenSame
<1> QED
  BY <1>1, <1>2, <1>3, <1>4

LEMMA TakenResets ==
    ASSUME LogTyped, TakenInv, Reset PROVE TakenInv'
<1>1. /\ pushed' = pushed /\ DOMAIN files' = DOMAIN files
      /\ \A g \in DOMAIN files : files'[g].records = <<>>
  BY ResetEffect
<1>2. /\ UNCHANGED <<useIndex, shifted>>
      /\ discarded' = discarded \cup UNION {RecordLines(g) : g \in DOMAIN files}
  BY DEF Reset, RecordLines
<1> SUFFICES ASSUME ~useIndex PROVE (RecordsPushed /\ ShiftedOnce /\ NoneDropped)'
  BY <1>2 DEF TakenInv
<1>3. RecordsPushed /\ ShiftedOnce /\ NoneDropped
  BY DEF TakenInv
<1>4. PushedLines' = PushedLines /\ ShiftedLines' = ShiftedLines
  BY <1>1, <1>2 DEF PushedLines, ShiftedLines
<1>5. \A g \in DOMAIN files' : RecordLines(g)' = {}
  BY <1>1 DEF RecordLines
<1>6. RecordsPushed'
  BY <1>1, <1>5 DEF RecordsPushed
<1>7. ShiftedOnce'
  BY <1>2, <1>3, <1>4, <1>5 DEF ShiftedOnce
<1>8. NoneDropped'
  BY <1>2, <1>3, <1>4 DEF NoneDropped
<1> QED
  BY <1>6, <1>7, <1>8

\* The lines of records that get one more, or lose the first.
LinesOf(rs) == {rs[i].line : i \in DOMAIN rs}
Distinct(rs) == \A i, j \in DOMAIN rs : i # j => rs[i].line # rs[j].line

LEMMA OneMore ==
    ASSUME NEW rs \in Seq(Record), NEW x \in Record
    PROVE  /\ LinesOf(Append(rs, x)) = LinesOf(rs) \cup {x.line}
           /\ Distinct(rs) /\ x.line \notin LinesOf(rs) => Distinct(Append(rs, x))
<1>1. PICK n \in Nat : n = Len(rs) /\ DOMAIN rs = 1 .. n
  BY LenProperties
<1>2. PICK y : y = Append(rs, x)
  OBVIOUS
<1>3. /\ DOMAIN y = 1 .. n + 1 /\ y[n + 1] = x /\ \A i \in 1 .. n : y[i] = rs[i]
  BY <1>1, <1>2, AppendProperties, LenProperties
<1>4. \A i \in 1 .. n + 1 : i \in 1 .. n \/ i = n + 1
  BY <1>1
<1>5. LinesOf(y) = LinesOf(rs) \cup {x.line}
  <2>1. \A i \in 1 .. n : y[i].line \in LinesOf(rs) /\ rs[i].line \in LinesOf(y)
    <3>1. \A i \in 1 .. n : i \in DOMAIN rs /\ i \in DOMAIN y /\ y[i] = rs[i]
      BY <1>1, <1>3
    <3> QED
      BY <3>1 DEF LinesOf
  <2>2. x.line \in LinesOf(y)
    <3>1. n + 1 \in DOMAIN y
      BY <1>3
    <3> QED
      BY <1>3, <3>1 DEF LinesOf
  <2>3. LinesOf(y) \subseteq LinesOf(rs) \cup {x.line}
    <3> SUFFICES ASSUME NEW i \in DOMAIN y PROVE y[i].line \in LinesOf(rs) \cup {x.line}
      BY DEF LinesOf
    <3> QED
      BY <1>3, <1>4, <2>1
  <2>4. LinesOf(rs) \subseteq LinesOf(y)
    <3> SUFFICES ASSUME NEW i \in DOMAIN rs PROVE rs[i].line \in LinesOf(y)
      BY DEF LinesOf
    <3> QED
      BY <1>1, <2>1
  <2> QED
    BY <2>2, <2>3, <2>4
<1>6. ASSUME Distinct(rs), x.line \notin LinesOf(rs) PROVE Distinct(y)
  <2> SUFFICES ASSUME NEW i \in 1 .. n + 1, NEW j \in 1 .. n + 1, i # j
               PROVE  y[i].line # y[j].line
    BY <1>3 DEF Distinct
  <2>1. \A k \in 1 .. n : y[k] = rs[k] /\ rs[k].line # x.line
    BY <1>1, <1>3, <1>6 DEF LinesOf
  <2>2. CASE i \in 1 .. n /\ j \in 1 .. n
    BY <1>1, <1>6, <2>1, <2>2 DEF Distinct
  <2>3. CASE i = n + 1
    <3>1. j \in 1 .. n
      BY <1>4, <2>3
    <3> QED
      BY <1>3, <2>1, <2>3, <3>1
  <2>4. CASE j = n + 1
    <3>1. i \in 1 .. n
      BY <1>4, <2>4
    <3> QED
      BY <1>3, <2>1, <2>4, <3>1
  <2> QED
    BY <1>4, <2>2, <2>3, <2>4
<1> QED
  BY <1>2, <1>5, <1>6

LEMMA OneLess ==
    ASSUME NEW rs \in Seq(Record), rs # <<>>, Distinct(rs)
    PROVE  /\ Head(rs).line \in LinesOf(rs) /\ Head(rs).line \notin LinesOf(Tail(rs))
           /\ LinesOf(rs) = LinesOf(Tail(rs)) \cup {Head(rs).line}
           /\ Distinct(Tail(rs))
<1>1. PICK n \in Nat : n = Len(rs) /\ DOMAIN rs = 1 .. n /\ n > 0
  BY LenProperties, EmptySeq
<1>2. PICK ts, h : ts = Tail(rs) /\ h = Head(rs)
  OBVIOUS
<1>3. PICK m \in Nat : m = n - 1
  BY <1>1
<1>4. /\ DOMAIN ts = 1 .. m /\ h = rs[1] /\ \A i \in 1 .. m : ts[i] = rs[i + 1]
  BY <1>1, <1>2, <1>3, HeadTailProperties, LenProperties
<1>5. /\ 1 \in 1 .. n /\ \A i \in 1 .. m : i + 1 \in 1 .. n /\ i + 1 # 1
      /\ \A i \in 1 .. n : i = 1 \/ \E j \in 1 .. m : i = j + 1
  <2>1. \A i \in 1 .. n : i # 1 => i - 1 \in 1 .. m /\ i = (i - 1) + 1
    BY <1>1, <1>3
  <2> QED
    BY <1>1, <1>3, <2>1
<1>6. h.line \in LinesOf(rs)
  BY <1>1, <1>4, <1>5 DEF LinesOf
<1>7. h.line \notin LinesOf(ts)
  <2> SUFFICES ASSUME NEW i \in 1 .. m PROVE h.line # ts[i].line
    BY <1>4 DEF LinesOf
  <2>1. PICK k \in 1 .. n : k = i + 1 /\ k # 1
    BY <1>5
  <2>2. rs[1].line # rs[k].line
    BY <1>1, <1>5, <2>1 DEF Distinct
  <2> QED
    BY <1>4, <2>1, <2>2
<1>8. LinesOf(ts) \subseteq LinesOf(rs)
  BY <1>1, <1>4, <1>5 DEF LinesOf
<1>9. LinesOf(rs) \subseteq LinesOf(ts) \cup {h.line}
  <2> SUFFICES ASSUME NEW i \in 1 .. n PROVE rs[i].line \in LinesOf(ts) \cup {h.line}
    BY <1>1 DEF LinesOf
  <2>1. CASE i = 1
    BY <1>4, <2>1
  <2>2. ASSUME NEW j \in 1 .. m, i = j + 1 PROVE rs[i].line \in LinesOf(ts)
    BY <1>4, <2>2 DEF LinesOf
  <2> QED
    BY <1>5, <2>1, <2>2
<1>10. Distinct(ts)
  <2> SUFFICES ASSUME NEW i \in 1 .. m, NEW j \in 1 .. m, i # j PROVE ts[i].line # ts[j].line
    BY <1>4 DEF Distinct
  <2>1. PICK k \in 1 .. n, l \in 1 .. n : k = i + 1 /\ l = j + 1 /\ k # l
    BY <1>5
  <2>2. rs[k].line # rs[l].line
    BY <1>1, <2>1 DEF Distinct
  <2> QED
    BY <1>4, <2>1, <2>2
<1> QED
  BY <1>2, <1>6, <1>7, <1>8, <1>9, <1>10

\* The invariant, by the lines of records.
LEMMA TakenIs ==
    /\ RecordsPushed <=>
          \A f \in DOMAIN files : /\ RecordLines(f) \subseteq ToSet(pushed[f])
                                  /\ Distinct(files[f].records)
    /\ ShiftedOnce <=>
          /\ ShiftedLines \subseteq PushedLines
          /\ \A f \in DOMAIN files : ShiftedLines \cap RecordLines(f) = {}
          /\ Distinct(shifted)
    /\ \A f : RecordLines(f) = LinesOf(files[f].records)
    /\ ShiftedLines = LinesOf(shifted)
  BY DEF RecordsPushed, ShiftedOnce, Distinct, LinesOf, RecordLines, ShiftedLines

LEMMA TakenShifts ==
    ASSUME LogTyped, Apart, TakenInv, ShiftRecord PROVE TakenInv'
<1>1. PICK f, rs, ts, h :
         /\ f = Current /\ rs = files[f].records /\ ts = Tail(rs) /\ h = Head(rs)
  OBVIOUS
<1>2. /\ f \in DOMAIN files /\ f \in File /\ rs # <<>> /\ rs \in Seq(Record) /\ h \in Record
      /\ shifted \in Seq(Record)
  BY <1>1, CurrentFacts, IteratorTyped DEF ShiftRecord, FileState
<1>3. /\ UNCHANGED <<useIndex, pushed, discarded>> /\ shifted' = Append(shifted, h)
      /\ files' = [files EXCEPT ![f].records = ts]
  BY <1>1 DEF ShiftRecord
<1>4. /\ DOMAIN files' = DOMAIN files /\ files'[f].records = ts
      /\ \A g \in DOMAIN files : g # f => files'[g] = files[g]
  <2>1. files[f] \in FileState
    BY <1>2, IteratorTyped
  <2> QED
    BY <1>2, <1>3, <2>1 DEF FileState
<1> SUFFICES ASSUME ~useIndex PROVE (RecordsPushed /\ ShiftedOnce /\ NoneDropped)'
  BY <1>3 DEF TakenInv
<1>5. RecordsPushed /\ ShiftedOnce /\ NoneDropped
  BY DEF TakenInv
<1>6. \A g \in DOMAIN files : /\ RecordLines(g) \subseteq ToSet(pushed[g])
                              /\ Distinct(files[g].records)
                              /\ ShiftedLines \cap RecordLines(g) = {}
  BY <1>5, TakenIs
<1>7. ShiftedLines \subseteq PushedLines /\ Distinct(shifted)
  BY <1>5, TakenIs
<1>8. PICK n : n = h.line
  OBVIOUS
<1>9. /\ n \in RecordLines(f) /\ RecordLines(f) = RecordLines(f)' \cup {n}
      /\ n \notin RecordLines(f)' /\ Distinct(ts)
  <2>1. RecordLines(f) = LinesOf(rs) /\ RecordLines(f)' = LinesOf(ts)
    BY <1>1, <1>4 DEF RecordLines, LinesOf
  <2>2. Distinct(rs)
    BY <1>1, <1>2, <1>6
  <2> QED
    BY <1>1, <1>2, <1>8, <2>1, <2>2, OneLess
<1>10. \A g \in DOMAIN files : g # f => RecordLines(g)' = RecordLines(g)
  BY <1>4 DEF RecordLines
<1>11. ShiftedLines' = ShiftedLines \cup {n} /\ Distinct(shifted)'
  <2>1. n \notin LinesOf(shifted)
    BY <1>2, <1>6, <1>9, TakenIs
  <2>2. LinesOf(Append(shifted, h)) = LinesOf(shifted) \cup {n} /\ Distinct(Append(shifted, h))
    BY <1>2, <1>7, <1>8, <2>1, OneMore
  <2>3. ShiftedLines' = LinesOf(shifted')
    BY DEF ShiftedLines, LinesOf
  <2>4. Distinct(shifted)' <=> Distinct(shifted')
    BY DEF Distinct
  <2> QED
    BY <1>3, <2>2, <2>3, <2>4, TakenIs
<1>12. PushedLines' = PushedLines /\ n \in ToSet(pushed[f]) /\ n \in PushedLines
  BY <1>2, <1>3, <1>6, <1>9 DEF PushedLines
<1>13. RecordsPushed'
  <2> SUFFICES ASSUME NEW g \in DOMAIN files
               PROVE  /\ RecordLines(g)' \subseteq ToSet(pushed'[g])
                      /\ \A i, j \in DOMAIN files'[g].records :
                            i # j => files'[g].records[i].line # files'[g].records[j].line
    BY <1>4 DEF RecordsPushed
  <2>1. CASE g = f
    BY <1>3, <1>4, <1>6, <1>9, <2>1 DEF Distinct
  <2>2. CASE g # f
    BY <1>3, <1>4, <1>6, <1>10, <2>2 DEF Distinct
  <2> QED
    BY <2>1, <2>2
<1>14. ShiftedOnce'
  <2>1. ASSUME NEW g \in DOMAIN files PROVE n \notin RecordLines(g)'
    <3>1. CASE g = f
      BY <1>9, <3>1
    <3>2. CASE g # f
      <4>1. g \in File
        BY IteratorTyped
      <4>2. n \notin ToSet(pushed[g])
        BY <1>2, <1>12, <3>2, <4>1, OneFile
      <4> QED
        BY <1>6, <1>10, <3>2, <4>2
    <3> QED
      BY <3>1, <3>2
  <2>2. \A g \in DOMAIN files : RecordLines(g)' \subseteq RecordLines(g)
    BY <1>9, <1>10
  <2>3. \A g \in DOMAIN files' : ShiftedLines' \cap RecordLines(g)' = {}
    BY <1>4, <1>6, <1>11, <2>1, <2>2
  <2>4. ShiftedLines' \subseteq PushedLines'
    BY <1>7, <1>11, <1>12
  <2>5. \A i, j \in DOMAIN shifted' : i # j => shifted'[i].line # shifted'[j].line
    BY <1>11 DEF Distinct
  <2> QED
    BY <2>3, <2>4, <2>5 DEF ShiftedOnce
<1>15. NoneDropped'
  <2> SUFFICES ASSUME NEW m \in PushedLines
               PROVE  m \in ShiftedLines' \cup discarded' \cup
                              UNION {RecordLines(g)' : g \in DOMAIN files'}
    BY <1>12 DEF NoneDropped
  <2>1. m \in ShiftedLines \cup discarded \cup UNION {RecordLines(g) : g \in DOMAIN files}
    BY <1>5 DEF NoneDropped
  <2>2. CASE m \in ShiftedLines \cup discarded
    BY <1>3, <1>11, <2>2
  <2>3. CASE \E g \in DOMAIN files : m \in RecordLines(g)
    <3>1. PICK g \in DOMAIN files : m \in RecordLines(g)
      BY <2>3
    <3>2. m = n \/ m \in RecordLines(g)'
      BY <1>9, <1>10, <3>1
    <3> QED
      BY <1>4, <1>11, <3>2
  <2> QED
    BY <2>1, <2>2, <2>3
<1> QED
  BY <1>13, <1>14, <1>15

LEMMA TakenPushes ==
    ASSUME LogTyped, OrderInv, Apart, TakenInv, PushRecord PROVE TakenInv'
<1>1. PICK f, end : f = Candidate.name /\ end = NextEnd(reader.at)
  OBVIOUS
<1>2. PICK line \in Line : line = LineOf(reader.text[end])
  BY <1>1, PushMoves
<1>3. /\ Moves(f, "push", "update") /\ PushesLine(f, line, end)
      /\ UNCHANGED <<useIndex, shifted, discarded>>
  BY <1>1, <1>2, PushMoves DEF PushRecord
<1>4. CASE files' = files /\ pushed' = pushed
  BY <1>3, <1>4, TakenSame
<1>5. ASSUME NEW w \in BOOLEAN, NEW new, BecomesRecord(f, line, w, new) PROVE TakenInv'
  <2>1. /\ f \in DOMAIN files /\ f \in File /\ files[f].records \in Seq(Record)
        /\ pushed \in [File -> Seq(Line)] /\ shifted \in Seq(Record)
    BY <1>3, IteratorTyped DEF Moves, FileState
  <2>2. PICK x \in Record : x = [line |-> line, whole |-> w] /\ x.line = line
    <3>1. [line |-> line, whole |-> w] \in Record
      BY DEF Record
    <3>2. PICK x \in Record : x = [line |-> line, whole |-> w]
      BY <3>1
    <3> QED
      BY <3>2
  <2>3. PICK rs \in Seq(Record) : rs = files[f].records
    BY <2>1
  <2>4. /\ DOMAIN files' = DOMAIN files /\ files'[f].records = Append(rs, x)
        /\ \A g \in DOMAIN files : g # f => files'[g] = files[g]
    BY <1>5, <2>1, <2>2, <2>3 DEF BecomesRecord
  <2>5. pushed'[f] = Append(pushed[f], line) /\ \A g \in File : g # f => pushed'[g] = pushed[g]
    <3>1. PICK z : z = Append(pushed[f], line)
      OBVIOUS
    <3>2. pushed' = [pushed EXCEPT ![f] = z]
      BY <1>5, <3>1 DEF BecomesRecord
    <3> QED
      BY <2>1, <3>1, <3>2
  <2>6. ToSet(pushed'[f]) = ToSet(pushed[f]) \cup {line}
    BY <2>1, <2>5, SetOfSeq
  <2>7. line \notin ToSet(pushed[f])
    <3>1. Growing(pushed'[f])
      <4>1. OrderInv'
        BY OrderPushStep
      <4> QED
        BY <2>1, <4>1 DEF OrderInv, FileOrderInv, OrderOf
    <3>2. PICK q, q2 : q \in Seq(Line) /\ q = pushed[f] /\ q2 = pushed'[f] /\ q2 = Append(q, line)
      BY <2>1, <2>5
    <3>3. PICK n \in Nat : n = Len(q)
      BY <2>1, <3>2, LengthNat
    <3>4. /\ Len(q2) = n + 1 /\ q2[n + 1] = line /\ \A i \in 1 .. n : q2[i] = q[i]
      BY <3>2, <3>3, AppendProperties
    <3>5. ASSUME NEW i \in 1 .. n, q[i] = line PROVE FALSE
      <4>1. i \in 1 .. n + 1 /\ n + 1 \in 1 .. n + 1 /\ i < n + 1
        OBVIOUS
      <4>2. q2[i] < q2[n + 1]
        BY <3>1, <3>2, <3>4, <4>1 DEF Growing
      <4>3. line \in Int
        BY DEF Line
      <4> QED
        BY <3>4, <3>5, <4>2, <4>3
    <3>6. ToSet(q) = {q[i] : i \in 1 .. n}
      BY <3>2, <3>3, SetOfSeq
    <3> QED
      BY <3>2, <3>5, <3>6
  <2>8. ASSUME NEW g \in File, g # f PROVE line \notin ToSet(pushed[g])
    <3>1. Apart'
      BY HadReading, ApartStays
    <3>2. line \in Had(f)' /\ (line \in ToSet(pushed[g]) => line \in Had(g)')
      BY <2>5, <2>6, <2>8 DEF Had
    <3> QED
      BY <2>1, <2>8, <3>1, <3>2 DEF Apart
  <2> SUFFICES ASSUME ~useIndex PROVE (RecordsPushed /\ ShiftedOnce /\ NoneDropped)'
    BY <1>3 DEF TakenInv
  <2>9. RecordsPushed /\ ShiftedOnce /\ NoneDropped
    BY DEF TakenInv
  <2>10. \A g \in DOMAIN files : /\ RecordLines(g) \subseteq ToSet(pushed[g])
                                 /\ Distinct(files[g].records)
                                 /\ ShiftedLines \cap RecordLines(g) = {}
    BY <2>9, TakenIs
  <2>11. line \notin ShiftedLines /\ line \notin RecordLines(f)
    <3>1. line \notin PushedLines
      BY <2>7, <2>8 DEF PushedLines
    <3> QED
      BY <2>1, <2>7, <2>9, <2>10, <3>1, TakenIs
  <2>12. RecordLines(f)' = RecordLines(f) \cup {line} /\ Distinct(files'[f].records)
    <3>1. RecordLines(f)' = LinesOf(files'[f].records) /\ RecordLines(f) = LinesOf(rs)
      BY <2>3 DEF RecordLines, LinesOf
    <3>2. Distinct(rs) /\ x.line \notin LinesOf(rs)
      BY <2>1, <2>2, <2>3, <2>10, <2>11, <3>1
    <3>3. LinesOf(Append(rs, x)) = LinesOf(rs) \cup {line} /\ Distinct(Append(rs, x))
      BY <2>2, <3>2, OneMore
    <3> QED
      BY <2>4, <3>1, <3>3
  <2>13. \A g \in DOMAIN files : g # f => RecordLines(g)' = RecordLines(g)
    BY <2>4 DEF RecordLines
  <2>14. ShiftedLines' = ShiftedLines /\ PushedLines' = PushedLines \cup {line}
    <3>1. ShiftedLines' = ShiftedLines
      BY <1>3 DEF ShiftedLines
    <3>2. \A g \in File : ToSet(pushed'[g]) = IF g = f THEN ToSet(pushed[f]) \cup {line}
                                                   ELSE ToSet(pushed[g])
      BY <2>5, <2>6
    <3>3. ASSUME NEW m PROVE m \in PushedLines' <=> m \in PushedLines \/ m = line
      <4>1. m \in PushedLines' <=> \E g \in File : m \in ToSet(pushed'[g])
        BY DEF PushedLines
      <4>2. m \in PushedLines <=> \E g \in File : m \in ToSet(pushed[g])
        BY DEF PushedLines
      <4> QED
        BY <2>1, <3>2, <4>1, <4>2
    <3> QED
      BY <3>1, <3>3
  <2>15. RecordsPushed'
    <3> SUFFICES ASSUME NEW g \in DOMAIN files
                 PROVE  /\ RecordLines(g)' \subseteq ToSet(pushed'[g])
                        /\ \A i, j \in DOMAIN files'[g].records :
                              i # j => files'[g].records[i].line # files'[g].records[j].line
      BY <2>4 DEF RecordsPushed
    <3>1. CASE g = f
      BY <2>6, <2>10, <2>12, <3>1 DEF Distinct
    <3>2. CASE g # f
      BY <2>4, <2>5, <2>10, <2>13, <3>2, IteratorTyped DEF Distinct
    <3> QED
      BY <3>1, <3>2
  <2>16. ShiftedOnce'
    <3>1. \A g \in DOMAIN files' : ShiftedLines' \cap RecordLines(g)' = {}
      BY <2>4, <2>10, <2>11, <2>12, <2>13, <2>14
    <3>2. ShiftedLines' \subseteq PushedLines'
      BY <2>9, <2>14 DEF ShiftedOnce
    <3>3. \A i, j \in DOMAIN shifted' : i # j => shifted'[i].line # shifted'[j].line
      BY <1>3, <2>9 DEF ShiftedOnce
    <3> QED
      BY <3>1, <3>2, <3>3 DEF ShiftedOnce
  <2>17. NoneDropped'
    <3> SUFFICES ASSUME NEW m \in PushedLines \cup {line}
                 PROVE  m \in ShiftedLines' \cup discarded' \cup
                                UNION {RecordLines(g)' : g \in DOMAIN files'}
      BY <2>14 DEF NoneDropped
    <3>1. CASE m = line
      BY <2>1, <2>4, <2>12, <3>1
    <3>2. CASE m \in PushedLines
      <4>1. m \in ShiftedLines \cup discarded \cup UNION {RecordLines(g) : g \in DOMAIN files}
        BY <2>9, <3>2 DEF NoneDropped
      <4>2. \A g \in DOMAIN files : RecordLines(g) \subseteq RecordLines(g)'
        BY <2>12, <2>13
      <4> QED
        BY <1>3, <2>4, <2>14, <4>1, <4>2
    <3> QED
      BY <3>1, <3>2
  <2> QED
    BY <2>15, <2>16, <2>17
<1> QED
  BY <1>3, <1>4, <1>5 DEF PushesLine

LEMMA TakenStep ==
    ASSUME LogTyped, ReadsListened, OrderInv, Apart, TakenInv, [LogNext]_logVars PROVE TakenInv'
<1>1. CASE \E line \in Line : ShiftIndexed(line)
  BY <1>1 DEF ShiftIndexed, TakenInv
<1>2. CASE Write \/ ReaderFails \/ StatFails \/ UNCHANGED logVars
  BY <1>2, TakenRests, TakenReads
<1>3. CASE ReaderStep
  BY <1>3, TakenRests, TakenReads, TakenPushes DEF ReaderStep
<1>4. CASE WorkflowStep
  BY <1>1, <1>4, TakenRests, TakenResets, TakenShifts DEF WorkflowStep
<1> QED
  BY <1>2, <1>3, <1>4 DEF LogNext

\* A line is of one file, and its record is pending, handed out or discarded:
\* one of them, unless records are taken by an index.
THEOREM TakenCorrect == LogSpec => [](Apart /\ TakenInv)
<1>1. LogInit => TakenInv
  <2> SUFFICES ASSUME LogInit PROVE RecordsPushed /\ ShiftedOnce /\ NoneDropped
    BY DEF TakenInv
  <2>1. files = [g \in {} |-> {}] /\ pushed = [g \in File |-> <<>>] /\ shifted = <<>>
    BY DEF LogInit
  <2>2. DOMAIN files = {} /\ DOMAIN shifted = {}
    BY <2>1
  <2>3. ToSet(<<>>) = {}
    BY DEF ToSet
  <2>4. PushedLines = {} /\ ShiftedLines = {}
    BY <2>1, <2>2, <2>3 DEF PushedLines, ShiftedLines
  <2> QED
    BY <2>2, <2>4 DEF RecordsPushed, ShiftedOnce, NoneDropped
<1> QED
  BY <1>1, ApartInit, ApartStep, TakenStep, OrderCorrect, LogTypeCorrect, PTL DEF LogSpec

\* An assert that takes records by position hands out every record once and in
\* no case twice, and loses none but to a reset, with any number of files that
\* are polled, reset and rotated meanwhile (logRecordIterator, ShiftLogRecord,
\* File.Reset).
THEOREM TakenOnceHolds == LogSpec => []TakenOnceByPosition
<1>1. TakenInv => TakenOnceByPosition
  BY DEF TakenInv, TakenOnceByPosition, ShiftedOnce
<1> QED
  BY <1>1, TakenCorrect, PTL
=============================================================================
