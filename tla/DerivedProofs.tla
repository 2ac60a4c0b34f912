-------------------------- MODULE DerivedProofs -------------------------------
(***************************************************************************)
(* Theorems about what the server derives from the files of a library: the *)
(* index, titles, metadata and HLS previews, each with the inductive       *)
(* invariant it needs, and all that is checked together in MCDerived, for  *)
(* every value of the constants.                                           *)
(***************************************************************************)
EXTENDS MCDerived, FiniteSetTheorems, SequenceTheorems, WellFoundedInduction, TLAPS

\* A set of numbers has a least one: what a CHOOSE of the least finds.
LEMMA LeastNatural ==
  ASSUME NEW S \in SUBSET Nat, S # {} PROVE \E m \in S : \A n \in S : m <= n
<1> DEFINE R == {ss \in Nat \X Nat : ss[1] < ss[2]}
<1>1. IsWellFoundedOn(R, Nat)
  BY NatLessThanWellFounded DEF OpToRel
<1>2. \A x, y \in Nat : <<y, x>> \in R <=> y < x
  OBVIOUS
<1> HIDE DEF R
<1>3. PICK x \in S : \A y \in S : ~ (<<y, x>> \in R)
  BY <1>1, WFMin
<1>4. \A y \in S : y \in Nat /\ x \in Nat /\ ~ (y < x)
  BY <1>2, <1>3
<1> QED
  BY <1>4

-----------------------------------------------------------------------------
(***************************************************************************)
(* The index of a library (library/service.go, file_hash.go, watcher).     *)
(* What a scan has read of the rows is still true when it writes them, or  *)
(* the row is one that a hash has overtaken; a path it found no row for    *)
(* has none, but for one that was moved there.                             *)
(***************************************************************************)

\* Where a scan is.
ScanSteps == {"idle", "begin", "write", "index", "reconcile", "mark"}

\* The worker is a record of its job, its step and what it has read.
ScannerIsRecord ==
  scanner = [job |-> scanner.job, at |-> scanner.at, todo |-> scanner.todo, seen |-> scanner.seen,
             path |-> scanner.path, print |-> scanner.print]

\* A worker at work has a task of the queue, whose place in the queue is free.
WorkerHasTask == scanner # ScanIdle => scanner.job \in ScanTasks /\ Len(waiting) <= MaxWaiting

\* A worker about to write has read a row of the path, and a file that was there.
WriteHasRead ==
  scanner.at = "write" => scanner.job.path \in DOMAIN scanner.seen /\ scanner.print # Absent

\* A rename or move on its way is one of a row, to a path of the library.
RenameHasRow == renamer # NoRename => renamer.row \in RowIds /\ renamer.to \in Files

\* The hash of row i counts as valid, and was not stored over a scan.
Trusted(i) == i \notin hashOvertaken /\ records[i].hash # Absent /\ ~records[i].stale

\* A print that no file has any more, and that none will have again.
Gone(print) == print # Absent /\ print <= prints /\ \A p \in Files : onDisk[p] # print

\* No two files have one print, and none has one that is not handed out.
PrintsAreOwn ==
  /\ \A p \in Files : onDisk[p] <= prints
  /\ \A p, q \in Files : onDisk[p] # Absent /\ onDisk[p] = onDisk[q] => p = q

\* What a hash under way is of: the file it has the print of, or one that is no more.
HashFits ==
  /\ hasher = NoHash \/ hasher.print # Absent
  /\ hasher.content = hasher.print \/ (hasher.content = Torn /\ Gone(hasher.print))

\* A hash and the print of its row fit, now and after the step.
Tells(hash, print) == print \in {hash, Unlike} \/ (hash = Torn /\ Gone(print))
TellsThen(hash, print) ==
  \/ print \in {hash, Unlike}
  \/ /\ hash = Torn /\ print # Absent /\ print <= prints'
     /\ \A p \in Files : onDisk'[p] # print

\* The hash of row i counts as valid after the step.
TrustedThen(i) == i \notin hashOvertaken' /\ records'[i].hash # Absent /\ ~records'[i].stale

\* The hash of a row fits its print.
RowsFit == \A i \in RowIds : Trusted(i) => Tells(records[i].hash, records[i].print)

\* What a scan has read of a row with a valid hash says so, and of which print it is.
ReadingsTell ==
  \A p \in DOMAIN scanner.seen : Trusted(scanner.seen[p].id) =>
    /\ scanner.seen[p].trusted
    /\ Tells(records[scanner.seen[p].id].hash, scanner.seen[p].print)

\* Where a scan has found no row there is none, but one that was moved there.
NewPathsAreFree ==
  scanner.at = "index" => \A p \in scanner.todo \ DOMAIN scanner.seen : RowsAt(p) \subseteq moved

\* The inductive invariant of the index.
LibraryInv ==
  /\ LibraryTypeOK /\ ScannerIsRecord /\ WorkerHasTask /\ WriteHasRead /\ RenameHasRow
  /\ PrintsAreOwn /\ HashFits /\ RowsFit /\ ReadingsTell /\ NewPathsAreFree

\* It is what the theorem promises.
LEMMA LibraryInvHolds == LibraryInv => LibraryTypeOK /\ TrustedHashFits
  BY DEF LibraryInv, RowsFit, Trusted, Tells, Gone, TrustedHashFits

\* The types, by what they are about.
DiskTyped == /\ onDisk \in [Files -> 0 .. MaxChanges] /\ prints \in 0 .. MaxChanges
             /\ timers \in SUBSET Files /\ turns \in 0 .. MaxTurns
QueueTyped == /\ waiting \in Seq(ScanTasks) /\ Len(waiting) <= MaxWaiting + 1
              /\ failed \in ScanTasks \cup {NoScanTask}
ScannerTyped ==
  /\ scanner.job \in ScanTasks \cup {NoScanTask} /\ scanner.at \in ScanSteps
  /\ scanner.todo \in SUBSET Files /\ scanner.path \in Files \cup {AnyPath}
  /\ DOMAIN scanner.seen \subseteq Files /\ scanner.print \in 0 .. MaxChanges
  /\ \A p \in DOMAIN scanner.seen : scanner.seen[p] \in SeenRows
RowsTyped ==
  /\ records \in Seq(Records)
  /\ hasher \in [row : RowIds \cup {0}, print : 0 .. MaxChanges, content : 0 .. Torn]
  /\ renamer \in [row : RowIds \cup {0}, to : Files \cup {AnyPath}, done : BOOLEAN]
  /\ hashOvertaken \in SUBSET RowIds /\ moved \in SUBSET RowIds

\* Together they are the types of the module.
LEMMA TypesByPart ==
  LibraryTypeOK <=> DiskTyped /\ QueueTyped /\ ScannerTyped /\ RowsTyped /\ asked \in BOOLEAN
  BY DEF LibraryTypeOK, DiskTyped, QueueTyped, ScannerTyped, RowsTyped, ScanSteps

\* The first row of some is one of them, and so is the last.
LEMMA FirstOfIs ==
  ASSUME NEW ids \in SUBSET Nat, ids # {}
  PROVE  FirstOf(ids) \in ids
  BY LeastNatural DEF FirstOf

\* And of the tasks that wait, the last.
LEMMA LastOfIs ==
  ASSUME NEW n \in Nat, NEW ids \in SUBSET (1 .. n), ids # {}
  PROVE  LastOf(ids) \in ids
<1> DEFINE bounds == {k \in Nat : \A i \in ids : i <= k}
<1>1. bounds \in SUBSET Nat /\ n \in bounds
  OBVIOUS
<1>2. PICK k \in bounds : \A l \in bounds : k <= l
  <2> HIDE DEF bounds
  <2> QED
    BY <1>1, LeastNatural
<1>3. k \in ids
  <2> SUFFICES ASSUME k \notin ids PROVE FALSE
    OBVIOUS
  <2>1. k \in Nat /\ \A i \in ids : i <= k /\ i # k /\ i \in 1 .. n
    BY <1>2
  <2>2. k > 0
    <3>1. PICK i \in ids : TRUE
      OBVIOUS
    <3> QED
      BY <2>1, <3>1
  <2>3. k - 1 \in bounds
    BY <2>1, <2>2
  <2> QED
    BY <1>2, <2>1, <2>3
<1>4. \E i \in ids : \A j \in ids : j <= i
  BY <1>2, <1>3
<1> QED
  BY <1>4 DEF LastOf

\* A sequence of rows with another row in one place, or one row more.
LEMMA RowsChange ==
  ASSUME NEW s \in Seq(Records), NEW i, NEW row, i \in DOMAIN s => row \in Records
  PROVE  /\ [s EXCEPT ![i] = row] \in Seq(Records)
         /\ DOMAIN [s EXCEPT ![i] = row] = DOMAIN s
         /\ \A j \in DOMAIN s : [s EXCEPT ![i] = row][j] = IF j = i THEN row ELSE s[j]
<1>1. CASE i \in DOMAIN s
  <2>1. i \in 1 .. Len(s)
    BY <1>1
  <2>2. [s EXCEPT ![i] = row] \in Seq(Records)
    BY <1>1, <2>1, ExceptSeq
  <2> QED
    BY <1>1, <2>2
<1>2. CASE i \notin DOMAIN s
  <2>1. [s EXCEPT ![i] = row] = s
    BY <1>2
  <2> QED
    BY <1>2, <2>1
<1> QED
  BY <1>1, <1>2

\* A row more is one more record.
LEMMA RowsGrow ==
  ASSUME NEW s \in Seq(Records), NEW row \in Records
  PROVE  /\ Append(s, row) \in Seq(Records)
         /\ DOMAIN s = 1 .. Len(s) /\ DOMAIN Append(s, row) = 1 .. Len(s) + 1
         /\ \A j \in DOMAIN s : Append(s, row)[j] = s[j]
         /\ Append(s, row)[Len(s) + 1] = row
  OBVIOUS
\* Marking changes no more than one row, and of it what says missing.
LEMMA MarkingKeeps ==
  ASSUME records \in Seq(Records), NEW p
  PROVE  /\ MarkedMissing(p) \in Seq(Records) /\ DOMAIN MarkedMissing(p) = RowIds
         /\ \A i \in RowIds : /\ MarkedMissing(p)[i].path = records[i].path
                              /\ MarkedMissing(p)[i].print = records[i].print
                              /\ MarkedMissing(p)[i].deleted = records[i].deleted
                              /\ MarkedMissing(p)[i].hash = records[i].hash
                              /\ MarkedMissing(p)[i].stale = records[i].stale
<1> DEFINE j == FirstOf(NotDeletedAt(p))
<1>1. CASE NotDeletedAt(p) = {}
  BY <1>1 DEF MarkedMissing, RowIds
<1>2. CASE NotDeletedAt(p) # {}
  <2>1. NotDeletedAt(p) \in SUBSET Nat /\ NotDeletedAt(p) \subseteq RowIds
    BY DEF NotDeletedAt, RowsAt, RowIds
  <2>2. j \in RowIds
    BY <1>2, <2>1, FirstOfIs
  <2> DEFINE row == [records[j] EXCEPT !.missing = TRUE]
  <2>3. /\ row \in Records /\ row.path = records[j].path /\ row.print = records[j].print
        /\ row.deleted = records[j].deleted /\ row.hash = records[j].hash
        /\ row.stale = records[j].stale
    <3>1. records[j] \in Records
      BY <2>2 DEF RowIds
    <3> HIDE DEF j
    <3> QED
      BY <3>1 DEF Records
  <2>4. MarkedMissing(p) = [records EXCEPT ![j] = row]
    BY <1>2 DEF MarkedMissing
  <2> HIDE DEF row, j
  <2> QED
    BY <2>3, <2>4, RowsChange DEF RowIds
<1> QED
  BY <1>1, <1>2

\* Refreshing changes one row: its print, that it is there and, if need be, its hash's mark.
LEMMA RefreshingKeeps ==
  ASSUME records \in Seq(Records), NEW seen \in SeenRows, NEW print \in 0 .. MaxChanges
  PROVE  /\ Refreshed(seen, print) \in Seq(Records) /\ DOMAIN Refreshed(seen, print) = RowIds
         /\ \A i \in RowIds :
              /\ Refreshed(seen, print)[i].path = records[i].path
              /\ Refreshed(seen, print)[i].deleted = records[i].deleted
              /\ Refreshed(seen, print)[i].hash = records[i].hash
              /\ i # seen.id => Refreshed(seen, print)[i] = records[i]
              /\ i = seen.id => /\ Refreshed(seen, print)[i].print = print
                                /\ Refreshed(seen, print)[i].stale
                                     = (records[i].stale \/ BecomesStale(seen, print))
<1> DEFINE j == seen.id
           row == [records[j] EXCEPT !.print = print, !.missing = FALSE,
                                     !.stale = records[j].stale \/ BecomesStale(seen, print)]
<1>1. j \in RowIds
  BY DEF SeenRows
<1>2. records[j] \in Records /\ BecomesStale(seen, print) \in BOOLEAN
  BY <1>1 DEF RowIds, BecomesStale, SeenRows
<1>3. /\ row \in Records /\ row.path = records[j].path /\ row.deleted = records[j].deleted
      /\ row.hash = records[j].hash /\ row.print = print
      /\ row.stale = (records[j].stale \/ BecomesStale(seen, print))
  <2> HIDE DEF j
  <2> QED
    BY <1>2 DEF Records
<1>4. Refreshed(seen, print) = [records EXCEPT ![j] = row]
  BY DEF Refreshed
<1> HIDE DEF row
<1>5. /\ [records EXCEPT ![j] = row] \in Seq(Records)
      /\ DOMAIN [records EXCEPT ![j] = row] = DOMAIN records
      /\ \A i \in DOMAIN records : [records EXCEPT ![j] = row][i] = IF i = j THEN row ELSE records[i]
  BY <1>3, RowsChange
<1> QED
  BY <1>3, <1>4, <1>5 DEF RowIds

\* A row that is inserted is a record.
LEMMA NewRecordIs ==
  ASSUME NEW p \in Files
  PROVE  NewRecord(p) \in Records /\ NewRecord(p).hash = Absent /\ NewRecord(p).path = p
<1>1. 0 \in 0 .. MaxChanges /\ 0 \in 0 .. Torn
  BY LibraryAssumption DEF Torn
<1> QED
  BY <1>1 DEF NewRecord, Records, Absent, Unlike

\* What is read of a row is of that row.
LEMMA SeenIs ==
  ASSUME records \in Seq(Records), NEW i \in RowIds
  PROVE  /\ Seen(i) \in SeenRows /\ Seen(i).id = i /\ Seen(i).print = records[i].print
         /\ Seen(i).trusted = (records[i].hash # Absent /\ ~records[i].stale)
<1>1. records[i] \in Records
  BY DEF RowIds
<1>2. records[i].print \in 0 .. MaxChanges /\ records[i].missing \in BOOLEAN
  BY <1>1 DEF Records
<1>3. (records[i].hash # Absent /\ ~records[i].stale) \in BOOLEAN
  OBVIOUS
<1> QED
  BY <1>2, <1>3 DEF Seen, SeenRows

\* It holds at first.
LEMMA LibraryInitInv == LibraryInit => LibraryInv
<1> SUFFICES ASSUME LibraryInit PROVE LibraryInv
  OBVIOUS
<1> USE LibraryAssumption
<1>1. /\ onDisk = [p \in Files |-> 0] /\ prints = 0 /\ records = <<>> /\ timers = {}
      /\ waiting = <<>>
      /\ failed = NoScanTask /\ scanner = ScanIdle /\ hasher = NoHash /\ renamer = NoRename
      /\ turns = 0 /\ hashOvertaken = {} /\ moved = {} /\ asked = FALSE
  BY DEF LibraryInit, Absent
<1>2. 0 \in 0 .. MaxChanges /\ 0 \in 0 .. MaxTurns /\ 0 \in 0 .. Torn
  BY DEF Torn
<1>3. DiskTyped /\ QueueTyped
  BY <1>1, <1>2 DEF DiskTyped, QueueTyped
<1>8. asked \in BOOLEAN
  BY <1>1
<1>4. ScannerTyped /\ ScannerIsRecord
  BY <1>1, <1>2 DEF ScannerTyped, ScannerIsRecord, ScanIdle, ScanSteps, NothingThere, Absent
<1>5. RowsTyped
  BY <1>1, <1>2 DEF RowsTyped, RowIds, NoHash, NoRename, Absent
<1>6. RowIds = {} /\ scanner.at = "idle" /\ DOMAIN scanner.seen = {}
  BY <1>1 DEF RowIds, ScanIdle, NothingThere
<1>7. PrintsAreOwn /\ HashFits
  BY <1>1 DEF PrintsAreOwn, HashFits, NoHash, Absent
<1> QED
  BY <1>1, <1>3, <1>4, <1>5, <1>6, <1>7, <1>8, TypesByPart
  DEF LibraryInv, WorkerHasTask, WriteHasRead, RenameHasRow, RowsFit, ReadingsTell,
      NewPathsAreFree

\* Every step keeps the invariant, and a step of the worker spares what is deleted.
LEMMA LibraryStep == LibraryInv /\ [LibraryNext]_libraryVars => LibraryInv' /\ SparesDeleted
<1> SUFFICES ASSUME LibraryInv, [LibraryNext]_libraryVars PROVE LibraryInv' /\ SparesDeleted
  OBVIOUS
<1> USE LibraryAssumption
<1>i. /\ ScannerIsRecord /\ WorkerHasTask /\ WriteHasRead /\ RenameHasRow /\ PrintsAreOwn
      /\ HashFits /\ RowsFit /\ ReadingsTell /\ NewPathsAreFree
  BY DEF LibraryInv
<1>t. DiskTyped /\ QueueTyped /\ ScannerTyped /\ RowsTyped
  BY TypesByPart DEF LibraryInv
<1>d. asked' \in BOOLEAN
  <2>1. asked \in BOOLEAN
    BY TypesByPart DEF LibraryInv
  <2>2. CASE UNCHANGED libraryVars
    BY <2>1, <2>2 DEF libraryVars
  <2>3. CASE ScanWorker
    <3>1. TakeTask \/ ApplyRemoved \/ ApplyModified => asked' = asked
      BY DEF TakeTask, ApplyRemoved, ApplyModified, ScanOnly
    <3>2. WriteModified \/ ScanLibrary \/ EndOfIndex => asked' = asked
      BY DEF WriteModified, ScanLibrary, EndOfIndex, ScanOnly
    <3>3. MarkMissing \/ EndOfReconcile => asked' = asked
      BY DEF MarkMissing, EndOfReconcile, ScanOnly
    <3>4. \A p \in Files : IndexFile(p) \/ ReconcileMissing(p) => asked' = asked
      BY DEF IndexFile, ReconcileMissing, ScanOnly
    <3> QED
      BY <2>1, <2>3, <3>1, <3>2, <3>3, <3>4 DEF ScanWorker
  <2>4. CASE LibraryNext /\ ~ScanWorker
    BY <2>1, <2>4
    DEF LibraryNext, PutFile, RemoveFile, InsertRecord, RequestFullScan, TaskFails, RetryTask,
        ReadHash, DeleteMedia, RestoreMedia, SetDeleted, StartRename, StoreHash, RenameOnDisk,
        UpdateRenamed, RollBackRename, LibraryCrash, UserOnly
  <2> QED
    BY <2>2, <2>3, <2>4
<1>u. DiskTyped' /\ QueueTyped' /\ ScannerTyped' /\ RowsTyped' => LibraryTypeOK'
  BY <1>d DEF LibraryTypeOK, DiskTyped, QueueTyped, ScannerTyped, RowsTyped, ScanSteps
<1>s. /\ scanner.job \in ScanTasks \cup {NoScanTask} /\ scanner.at \in ScanSteps
      /\ scanner.todo \in SUBSET Files /\ scanner.path \in Files \cup {AnyPath}
      /\ DOMAIN scanner.seen \subseteq Files /\ scanner.print \in 0 .. MaxChanges
      /\ \A p \in DOMAIN scanner.seen : scanner.seen[p] \in SeenRows
  BY <1>t DEF ScannerTyped
<1>r. /\ records \in Seq(Records) /\ RowIds = 1 .. Len(records) /\ RowIds = DOMAIN records
      /\ \A i \in RowIds : records[i] \in Records
      /\ hashOvertaken \subseteq RowIds /\ moved \subseteq RowIds
      /\ hasher \in [row : RowIds \cup {0}, print : 0 .. MaxChanges, content : 0 .. Torn]
      /\ renamer \in [row : RowIds \cup {0}, to : Files \cup {AnyPath}, done : BOOLEAN]
  BY <1>t DEF RowsTyped, RowIds
<1>o. /\ onDisk \in [Files -> 0 .. MaxChanges] /\ prints \in 0 .. MaxChanges
      /\ timers \in SUBSET Files /\ turns \in 0 .. MaxTurns
  BY <1>t DEF DiskTyped
<1>q. /\ waiting \in Seq(ScanTasks) /\ Len(waiting) \in Nat /\ Len(waiting) <= MaxWaiting + 1
      /\ failed \in ScanTasks \cup {NoScanTask}
  BY <1>t DEF QueueTyped
<1>p. /\ 0 \in 0 .. MaxChanges /\ Absent \in 0 .. MaxChanges /\ Unlike \in 0 .. MaxChanges
      /\ Absent \in 0 .. Torn /\ Torn \in 0 .. Torn /\ 0 .. MaxChanges \subseteq 0 .. Torn
  BY DEF Absent, Unlike, Torn
\* What is said of prints holds on while files are left alone,
<1>h. ASSUME onDisk' = onDisk, prints' = prints
      PROVE  /\ PrintsAreOwn' /\ \A x \in 0 .. MaxChanges : Gone(x) => Gone(x)'
             /\ hasher' = hasher \/ hasher' = NoHash => HashFits'
  <2>1. PrintsAreOwn'
    BY <1>h, <1>i DEF PrintsAreOwn
  <2>2. \A x \in 0 .. MaxChanges : Gone(x) => Gone(x)'
    BY <1>h DEF Gone
  <2>3. hasher' = hasher => HashFits'
    BY <1>h, <1>i DEF HashFits, Gone
  <2>4. hasher' = NoHash => HashFits'
    BY DEF HashFits, NoHash
  <2> QED
    BY <2>1, <2>2, <2>3, <2>4
\* and when one takes another path.
<1>m. ASSUME NEW p \in Files, NEW q \in Files, MovedOnDisk(p, q), onDisk[p] # Absent,
             prints' = prints, hasher' = hasher
      PROVE  PrintsAreOwn' /\ HashFits' /\ \A x \in 0 .. MaxChanges : Gone(x) => Gone(x)'
  <2>1. /\ \A f \in Files : onDisk'[f] = IF f = q THEN onDisk[p]
                                        ELSE IF f = p THEN Absent ELSE onDisk[f]
        /\ \A f \in Files : onDisk[f] \in 0 .. MaxChanges
    BY <1>m, <1>o DEF MovedOnDisk
  <2>2. \A x \in 0 .. MaxChanges : Gone(x) => Gone(x)'
    BY <1>m, <2>1 DEF Gone
  <2>3. PrintsAreOwn'
    BY <1>m, <1>i, <1>o, <2>1 DEF PrintsAreOwn, Absent
  <2>4. hasher.print \in 0 .. MaxChanges
    BY <1>r
  <2>5. HashFits'
    BY <1>m, <1>i, <2>2, <2>4 DEF HashFits, Gone
  <2> QED
    BY <2>2, <2>3, <2>5
\* A worker that has nothing to do.
<1>n. /\ ScanIdle = [job |-> ScanIdle.job, at |-> ScanIdle.at, todo |-> ScanIdle.todo,
                     seen |-> ScanIdle.seen, path |-> ScanIdle.path, print |-> ScanIdle.print]
      /\ ScanIdle.job = NoScanTask /\ ScanIdle.at = "idle" /\ ScanIdle.todo = {}
      /\ DOMAIN ScanIdle.seen = {} /\ ScanIdle.path = AnyPath /\ ScanIdle.print = Absent
  BY DEF ScanIdle, NothingThere
<1>e. ASSUME scanner' = ScanIdle
      PROVE  /\ ScannerTyped' /\ ScannerIsRecord' /\ WorkerHasTask' /\ WriteHasRead' /\ NewPathsAreFree'
             /\ ReadingsTell'
  BY <1>e, <1>n, <1>p
  DEF ScannerTyped, ScannerIsRecord, WorkerHasTask, WriteHasRead, NewPathsAreFree, ReadingsTell,
      ScanSteps
<1>j. ASSUME \A x \in 0 .. MaxChanges : Gone(x) => Gone(x)', NEW h, NEW x \in 0 .. MaxChanges,
             Tells(h, x)
      PROVE  TellsThen(h, x)
  BY <1>j DEF Tells, TellsThen, Gone
\* What is said of rows and readings after the step.
<1>rf. ASSUME \A i \in RowIds' : TrustedThen(i) => TellsThen(records'[i].hash, records'[i].print)
       PROVE  RowsFit'
  BY <1>rf DEF RowsFit, Trusted, TrustedThen, Tells, TellsThen, Gone
<1>rt. ASSUME \A p \in DOMAIN scanner'.seen : TrustedThen(scanner'.seen[p].id) =>
                /\ scanner'.seen[p].trusted
                /\ TellsThen(records'[scanner'.seen[p].id].hash, scanner'.seen[p].print)
       PROVE  ReadingsTell'
  BY <1>rt DEF ReadingsTell, Trusted, TrustedThen, Tells, TellsThen, Gone
<1>sp. \A p \in DOMAIN scanner.seen : /\ scanner.seen[p].id \in RowIds
                                      /\ scanner.seen[p].print \in 0 .. MaxChanges
  BY <1>s DEF SeenRows
<1>rp. \A i \in RowIds : records[i].print \in 0 .. MaxChanges
  BY <1>r DEF Records
\* Rows that are only added to: what is said of hashes stays.
<1>k. ASSUME RowIds \subseteq RowIds', hashOvertaken' = hashOvertaken,
             \A i \in RowIds : /\ records'[i].print = records[i].print
                               /\ records'[i].hash = records[i].hash
                               /\ records'[i].stale = records[i].stale,
             \A i \in RowIds' \ RowIds : records'[i].hash = Absent,
             scanner'.seen = scanner.seen \/ DOMAIN scanner'.seen = {},
             \A x \in 0 .. MaxChanges : Gone(x) => Gone(x)'
      PROVE  RowsFit' /\ ReadingsTell'
  <2>1. RowsFit'
    <3> SUFFICES ASSUME NEW i \in RowIds', TrustedThen(i)
                 PROVE  TellsThen(records'[i].hash, records'[i].print)
      BY <1>rf
    <3>1. i \in RowIds /\ Trusted(i)
      BY <1>k DEF Trusted, TrustedThen
    <3>2. Tells(records[i].hash, records[i].print)
      BY <1>i, <3>1 DEF RowsFit
    <3>3. TellsThen(records[i].hash, records[i].print)
      BY <1>j, <1>k, <1>rp, <3>1, <3>2
    <3> QED
      BY <1>k, <3>1, <3>3
  <2>2. ReadingsTell'
    <3>1. CASE scanner'.seen = scanner.seen
      <4> SUFFICES ASSUME NEW p \in DOMAIN scanner.seen, TrustedThen(scanner.seen[p].id)
                   PROVE  /\ scanner.seen[p].trusted
                          /\ TellsThen(records'[scanner.seen[p].id].hash, scanner.seen[p].print)
        BY <1>rt, <3>1
      <4>1. /\ scanner.seen[p].id \in RowIds /\ scanner.seen[p].print \in 0 .. MaxChanges
        BY <1>sp
      <4>2. Trusted(scanner.seen[p].id)
        BY <1>k, <3>1, <4>1 DEF Trusted, TrustedThen
      <4>3. /\ scanner.seen[p].trusted
            /\ Tells(records[scanner.seen[p].id].hash, scanner.seen[p].print)
        BY <1>i, <4>2 DEF ReadingsTell
      <4>4. TellsThen(records[scanner.seen[p].id].hash, scanner.seen[p].print)
        BY <1>j, <1>k, <4>1, <4>3
      <4> QED
        BY <1>k, <4>1, <4>3, <4>4
    <3>2. CASE DOMAIN scanner'.seen = {}
      BY <3>2 DEF ReadingsTell
    <3> QED
      BY <1>k, <3>1, <3>2
  <2> QED
    BY <2>1, <2>2
\* Nor does a path get rows but where a scan has read them, or a move has brought them.
<1>l. ASSUME RowIds \subseteq RowIds', moved' = moved,
             \A i \in RowIds : records'[i].path = records[i].path,
             \A i \in RowIds' \ RowIds : records'[i].path \notin scanner'.todo,
             scanner'.at = "index" =>
               /\ scanner.at = "index" /\ scanner'.seen = scanner.seen
               /\ scanner'.todo \subseteq scanner.todo
      PROVE  NewPathsAreFree'
  <2> SUFFICES ASSUME scanner'.at = "index", NEW p \in scanner'.todo \ DOMAIN scanner'.seen,
                      NEW i \in RowIds', records'[i].path = p
               PROVE  i \in moved
    BY <1>l DEF NewPathsAreFree, RowsAt
  <2>1. p \in scanner.todo \ DOMAIN scanner.seen /\ scanner.at = "index"
    BY <1>l
  <2>2. i \in RowIds /\ records[i].path = p
    BY <1>l
  <2> QED
    BY <1>i, <2>1, <2>2 DEF NewPathsAreFree, RowsAt
\* A step that leaves rows and worker alone.
<1>a. ASSUME records' = records, scanner' = scanner, hashOvertaken' = hashOvertaken, moved' = moved,
             DiskTyped', QueueTyped', RowsTyped', RenameHasRow',
             waiting' = waiting \/ Len(waiting') <= MaxWaiting,
             PrintsAreOwn', HashFits', \A x \in 0 .. MaxChanges : Gone(x) => Gone(x)'
      PROVE  LibraryInv' /\ SparesDeleted
  <2>1. RowIds' = RowIds
    BY <1>a DEF RowIds
  <2>2. RowsFit' /\ ReadingsTell'
    BY <1>a, <1>k, <2>1
  <2>3. NewPathsAreFree'
    BY <1>a, <1>l, <2>1
  <2>4. ScannerTyped' /\ ScannerIsRecord' /\ WriteHasRead'
    BY <1>i, <1>t, <1>a, <2>1 DEF ScannerTyped, ScannerIsRecord, WriteHasRead, SeenRows
  <2>5. WorkerHasTask'
    BY <1>i, <1>a DEF WorkerHasTask
  <2>6. SparesDeleted
    BY <1>a DEF SparesDeleted
  <2> QED
    BY <1>a, <2>2, <2>3, <2>4, <2>5, <2>6, <1>u DEF LibraryInv
\* A step of the worker that leaves the rows as they are, or marks some as missing, or adds one.
<1>b. ASSUME onDisk' = onDisk, prints' = prints, timers' = timers, turns' = turns, hasher' = hasher,
             renamer' = renamer, hashOvertaken' = hashOvertaken, moved' = moved,
             QueueTyped', ScannerTyped', ScannerIsRecord', WorkerHasTask', WriteHasRead',
             records' \in Seq(Records), RowIds \subseteq RowIds', RowsFit', ReadingsTell',
             NewPathsAreFree'
      PROVE  LibraryInv'
  <2>1. DiskTyped'
    BY <1>o, <1>b DEF DiskTyped
  <2>2. RowsTyped'
    BY <1>r, <1>b DEF RowsTyped
  <2>3. RenameHasRow'
    BY <1>i, <1>b DEF RenameHasRow
  <2>4. PrintsAreOwn' /\ HashFits'
    BY <1>b, <1>h
  <2> QED
    BY <1>b, <1>u, <2>1, <2>2, <2>3, <2>4 DEF LibraryInv
\* A step of the worker that adds rows only where there are none.
<1>c. ASSUME \A i \in RowIds : records'[i].deleted = records[i].deleted,
             \A i \in RowIds' \ RowIds : RowsAt(records'[i].path) \subseteq moved
      PROVE  SparesDeleted
  BY <1>c DEF SparesDeleted, RowIds
\* A queue with another task.
<1>w. ASSUME NEW e \in ScanTasks, Len(waiting) < MaxWaiting
      PROVE  Append(waiting, e) \in Seq(ScanTasks) /\ Len(Append(waiting, e)) <= MaxWaiting
  <2>1. Append(waiting, e) \in Seq(ScanTasks) /\ Len(Append(waiting, e)) = Len(waiting) + 1
    BY <1>q
  <2> QED
    BY <1>q, <1>w, <2>1
<1>x. ASSUME NEW e \in ScanTasks
      PROVE  <<e>> \o waiting \in Seq(ScanTasks) /\ Len(<<e>> \o waiting) = Len(waiting) + 1
  <2>1. <<e>> \in Seq(ScanTasks) /\ Len(<<e>>) = 1
    OBVIOUS
  <2> QED
    BY <1>q, <2>1, ConcatProperties
<1>g. ASSUME NEW p \in Files, GoneFile(p)
      PROVE  waiting' \in Seq(ScanTasks) /\ Len(waiting') <= MaxWaiting
  <2>1. Change("removed", p) \in ScanTasks
    BY DEF Change, ScanTasks
  <2> QED
    BY <1>g, <1>w, <2>1 DEF GoneFile
\* The disk and the queue.
<1>1. ASSUME NEW p \in Files, PutFile(p) PROVE LibraryInv' /\ SparesDeleted
  <2>1. /\ prints + 1 \in 0 .. MaxChanges /\ prints' = prints + 1
        /\ onDisk' = [onDisk EXCEPT ![p] = prints + 1] /\ timers' \in SUBSET Files
        /\ \/ hasher' = hasher
           \/ /\ hasher # NoHash /\ hasher.print = onDisk[p]
              /\ hasher' = [hasher EXCEPT !.content = Torn]
        /\ waiting' = waiting /\ renamer' = renamer /\ records' = records /\ failed' = failed
        /\ scanner' = scanner /\ turns' = turns
        /\ hashOvertaken' = hashOvertaken /\ moved' = moved
    BY <1>1, <1>o DEF PutFile, Appeared, DiskOnly
  <2>2. DiskTyped'
    BY <1>o, <2>1 DEF DiskTyped
  <2>3. /\ hasher' \in [row : RowIds \cup {0}, print : 0 .. MaxChanges, content : 0 .. Torn]
        /\ hasher'.print = hasher.print /\ (hasher' = hasher \/ hasher'.content = Torn)
    BY <1>p, <1>r, <2>1
  <2>4. QueueTyped' /\ RowsTyped' /\ RenameHasRow'
    <3>1. RowIds' = RowIds
      BY <2>1 DEF RowIds
    <3> QED
      BY <1>i, <1>t, <2>1, <2>3, <3>1 DEF QueueTyped, RowsTyped, RenameHasRow
  <2>5. /\ \A f \in Files : onDisk[f] \in 0 .. MaxChanges /\ onDisk[f] <= prints
        /\ \A f \in Files : onDisk'[f] = IF f = p THEN prints + 1 ELSE onDisk[f]
    BY <1>i, <1>o, <2>1 DEF PrintsAreOwn
  <2>6. \A x \in 0 .. MaxChanges : Gone(x) => Gone(x)'
    BY <1>o, <2>1, <2>5 DEF Gone
  <2>7. PrintsAreOwn'
    BY <1>i, <1>o, <2>1, <2>5 DEF PrintsAreOwn
  <2>8. HashFits'
    <3>1. hasher.print \in 0 .. MaxChanges
      BY <1>r
    <3>2. CASE hasher' = hasher
      BY <1>i, <2>6, <3>1, <3>2 DEF HashFits, Gone
    <3>3. CASE hasher # NoHash /\ hasher.print = onDisk[p] /\ hasher' = [hasher EXCEPT !.content = Torn]
      <4>1. hasher.print # Absent
        BY <1>i, <3>3 DEF HashFits
      <4>2. \A f \in Files : onDisk'[f] # hasher.print
        BY <1>i, <1>o, <2>5, <3>1, <3>3, <4>1 DEF PrintsAreOwn
      <4>3. hasher.print <= prints'
        BY <1>o, <2>1, <2>5, <3>1, <3>3
      <4>4. hasher'.print = hasher.print /\ hasher'.content = Torn
        BY <1>r, <3>3
      <4> QED
        BY <4>1, <4>2, <4>3, <4>4 DEF HashFits, Gone
    <3> QED
      BY <2>1, <3>2, <3>3
  <2> QED
    BY <1>a, <2>1, <2>2, <2>4, <2>6, <2>7, <2>8
<1>2. ASSUME NEW p \in Files, RemoveFile(p) PROVE LibraryInv' /\ SparesDeleted
  <2>1. /\ prints + 1 \in 0 .. MaxChanges /\ prints' = prints + 1
        /\ onDisk' = [onDisk EXCEPT ![p] = Absent] /\ timers' \in SUBSET Files
        /\ GoneFile(p) \/ waiting' = waiting
        /\ renamer' = renamer /\ records' = records /\ failed' = failed
        /\ scanner' = scanner /\ hasher' = hasher /\ turns' = turns
        /\ hashOvertaken' = hashOvertaken /\ moved' = moved
    BY <1>2, <1>o DEF RemoveFile, DiskOnly
  <2>2. DiskTyped'
    BY <1>o, <1>p, <2>1 DEF DiskTyped
  <2>3. QueueTyped' /\ (waiting' = waiting \/ Len(waiting') <= MaxWaiting)
    <3>1. CASE waiting' = waiting
      BY <1>t, <2>1, <3>1 DEF QueueTyped
    <3>2. CASE GoneFile(p)
      BY <1>g, <1>q, <2>1, <3>2 DEF QueueTyped
    <3> QED
      BY <2>1, <3>1, <3>2
  <2>4. RowsTyped' /\ RenameHasRow'
    BY <1>i, <1>t, <2>1 DEF RowsTyped, RenameHasRow, RowIds
  <2>5. /\ \A f \in Files : onDisk[f] \in 0 .. MaxChanges /\ onDisk[f] <= prints
        /\ \A f \in Files : onDisk'[f] = IF f = p THEN Absent ELSE onDisk[f]
    BY <1>i, <1>o, <2>1 DEF PrintsAreOwn
  <2>6. \A x \in 0 .. MaxChanges : Gone(x) => Gone(x)'
    BY <1>o, <2>1, <2>5 DEF Gone
  <2>7. PrintsAreOwn'
    BY <1>i, <1>o, <2>1, <2>5 DEF PrintsAreOwn, Absent
  <2>8. HashFits'
    <3>1. hasher.print \in 0 .. MaxChanges
      BY <1>r
    <3> QED
      BY <1>i, <2>1, <2>6, <3>1 DEF HashFits, Gone
  <2> QED
    BY <1>a, <2>1, <2>2, <2>3, <2>4, <2>6, <2>7, <2>8
<1>3. ASSUME NEW p \in Files, InsertRecord(p) PROVE LibraryInv' /\ SparesDeleted
  <2>1. /\ timers' = timers \ {p} /\ Len(waiting) < MaxWaiting
        /\ waiting' = Append(waiting, Change("modified", p))
        /\ onDisk' = onDisk /\ prints' = prints
        /\ renamer' = renamer /\ records' = records /\ failed' = failed
        /\ scanner' = scanner /\ hasher' = hasher /\ turns' = turns
        /\ hashOvertaken' = hashOvertaken /\ moved' = moved
    BY <1>3 DEF InsertRecord, DiskOnly
  <2>2. Change("modified", p) \in ScanTasks
    BY DEF Change, ScanTasks
  <2>3. DiskTyped'
    BY <1>o, <2>1 DEF DiskTyped
  <2>4. QueueTyped' /\ Len(waiting') <= MaxWaiting
    BY <1>q, <1>w, <2>1, <2>2 DEF QueueTyped
  <2>5. RowsTyped' /\ RenameHasRow'
    BY <1>i, <1>t, <2>1 DEF RowsTyped, RenameHasRow, RowIds
  <2> QED
    BY <1>a, <1>h, <2>1, <2>3, <2>4, <2>5
<1>4. CASE RequestFullScan
  <2>1. /\ timers' = timers /\ Len(waiting) < MaxWaiting /\ waiting' = Append(waiting, FullScan)
        /\ onDisk' = onDisk /\ prints' = prints
        /\ renamer' = renamer /\ records' = records /\ failed' = failed
        /\ scanner' = scanner /\ hasher' = hasher /\ turns' = turns
        /\ hashOvertaken' = hashOvertaken /\ moved' = moved
    BY <1>4 DEF RequestFullScan, DiskOnly
  <2>2. FullScan \in ScanTasks
    BY DEF ScanTasks
  <2>3. DiskTyped'
    BY <1>o, <2>1 DEF DiskTyped
  <2>4. QueueTyped' /\ Len(waiting') <= MaxWaiting
    BY <1>q, <1>w, <2>1, <2>2 DEF QueueTyped
  <2>5. RowsTyped' /\ RenameHasRow'
    BY <1>i, <1>t, <2>1 DEF RowsTyped, RenameHasRow, RowIds
  <2> QED
    BY <1>a, <1>h, <2>1, <2>3, <2>4, <2>5
<1>5. CASE RetryTask
  <2>1. /\ failed # NoScanTask /\ Len(waiting) < MaxWaiting /\ waiting' = <<failed>> \o waiting
        /\ failed' = NoScanTask /\ records' = records /\ scanner' = scanner /\ onDisk' = onDisk
        /\ prints' = prints /\ timers' = timers /\ hasher' = hasher /\ renamer' = renamer
        /\ turns' = turns /\ hashOvertaken' = hashOvertaken /\ moved' = moved
    BY <1>5 DEF RetryTask, WorkerOnly
  <2>2. failed \in ScanTasks
    BY <1>q, <2>1
  <2>3. DiskTyped'
    BY <1>o, <2>1 DEF DiskTyped
  <2>4. QueueTyped' /\ Len(waiting') <= MaxWaiting
    BY <1>q, <1>x, <2>1, <2>2 DEF QueueTyped
  <2>5. RowsTyped' /\ RenameHasRow'
    BY <1>i, <1>t, <2>1 DEF RowsTyped, RenameHasRow, RowIds
  <2> QED
    BY <1>a, <1>h, <2>1, <2>3, <2>4, <2>5
\* The worker.
<1>6. CASE TakeTask
  <2>1. /\ scanner = ScanIdle /\ waiting # <<>>
        /\ scanner' = [ScanIdle EXCEPT !.job = Head(waiting), !.at = "begin"]
        /\ waiting' = Tail(waiting) /\ records' = records /\ failed' = failed /\ onDisk' = onDisk
        /\ prints' = prints /\ timers' = timers /\ hasher' = hasher /\ renamer' = renamer
        /\ turns' = turns /\ hashOvertaken' = hashOvertaken /\ moved' = moved
    BY <1>6 DEF TakeTask, ScanOnly, WorkerOnly
  <2>2. /\ Head(waiting) \in ScanTasks /\ Tail(waiting) \in Seq(ScanTasks)
        /\ Len(Tail(waiting)) <= MaxWaiting
    BY <1>q, <2>1
  <2>3. /\ ScannerIsRecord' /\ scanner'.job = Head(waiting) /\ scanner'.at = "begin"
        /\ scanner'.todo = {} /\ DOMAIN scanner'.seen = {} /\ scanner'.path = AnyPath
        /\ scanner'.print = Absent
    BY <1>n, <2>1 DEF ScanIdle, ScannerIsRecord, NothingThere
  <2>4. ScannerTyped' /\ WorkerHasTask' /\ WriteHasRead' /\ NewPathsAreFree'
    BY <1>p, <2>1, <2>2, <2>3
    DEF ScannerTyped, ScanSteps, WorkerHasTask, WriteHasRead, NewPathsAreFree
  <2>5. QueueTyped' /\ RowIds' = RowIds
    BY <1>q, <2>1, <2>2 DEF QueueTyped, RowIds
  <2>6. RowsFit' /\ ReadingsTell'
    BY <1>h, <1>k, <2>1, <2>3, <2>5
  <2>7. SparesDeleted
    BY <1>c, <2>1, <2>5
  <2> QED
    BY <1>b, <1>r, <2>1, <2>3, <2>4, <2>5, <2>6, <2>7
\* A task that ends, with the rows as they were or some of them marked.
<1>f. ASSUME scanner' = ScanIdle, waiting' = waiting, failed' \in ScanTasks \cup {NoScanTask},
             onDisk' = onDisk, prints' = prints, timers' = timers, hasher' = hasher,
             renamer' = renamer, turns' = turns, hashOvertaken' = hashOvertaken, moved' = moved,
             \/ records' = records
             \/ \E p : records' = MarkedMissing(p)
             \/ \E p \in Files : RowsAt(p) = {} /\ records' = Append(records, NewRecord(p))
      PROVE  LibraryInv' /\ SparesDeleted
  <2>1. /\ records' \in Seq(Records) /\ RowIds \subseteq RowIds'
        /\ \A i \in RowIds : /\ records'[i].print = records[i].print
                             /\ records'[i].hash = records[i].hash
                             /\ records'[i].stale = records[i].stale
                             /\ records'[i].deleted = records[i].deleted
        /\ \A i \in RowIds' \ RowIds : /\ records'[i].hash = Absent
                                       /\ RowsAt(records'[i].path) = {}
    <3>1. CASE records' = records
      BY <1>r, <3>1 DEF RowIds
    <3>2. CASE \E p : records' = MarkedMissing(p)
      <4>1. PICK p : records' = MarkedMissing(p)
        BY <3>2
      <4>2. RowIds' = RowIds
        BY <1>r, <4>1, MarkingKeeps DEF RowIds
      <4> QED
        BY <1>r, <4>1, <4>2, MarkingKeeps
    <3>3. CASE \E p \in Files : RowsAt(p) = {} /\ records' = Append(records, NewRecord(p))
      <4>1. PICK p \in Files : RowsAt(p) = {} /\ records' = Append(records, NewRecord(p))
        BY <3>3
      <4>2. NewRecord(p) \in Records /\ NewRecord(p).hash = Absent /\ NewRecord(p).path = p
        BY NewRecordIs
      <4> DEFINE row == NewRecord(p)
      <4> HIDE DEF row
      <4>3. /\ records' \in Seq(Records) /\ DOMAIN records = 1 .. Len(records)
            /\ DOMAIN records' = 1 .. Len(records) + 1
            /\ \A j \in DOMAIN records : records'[j] = records[j]
            /\ records'[Len(records) + 1] = row
        BY <1>r, <4>1, <4>2, RowsGrow DEF row
      <4>4. Len(records) \in Nat
        BY <1>r
      <4> QED
        BY <4>1, <4>2, <4>3, <4>4 DEF RowIds, row
    <3> QED
      BY <1>f, <3>1, <3>2, <3>3
  <2>2. RowsFit'
    BY <1>f, <1>h, <1>k, <1>n, <2>1
  <2>3. QueueTyped'
    BY <1>f, <1>q DEF QueueTyped
  <2>4. SparesDeleted
    BY <1>c, <2>1
  <2> QED
    BY <1>b, <1>e, <1>f, <2>1, <2>2, <2>3, <2>4
<1>7. CASE ApplyRemoved
  BY <1>7, <1>f, <1>q DEF ApplyRemoved, TaskEnds, ScanOnly, WorkerOnly
<1>8. CASE ApplyModified
  <2> DEFINE p == scanner.job.path
  <2>1. /\ scanner.at = "begin" /\ scanner.job.op = "modified" /\ waiting' = waiting
        /\ failed' = failed /\ onDisk' = onDisk
        /\ prints' = prints /\ timers' = timers /\ hasher' = hasher /\ renamer' = renamer
        /\ turns' = turns /\ hashOvertaken' = hashOvertaken /\ moved' = moved
        /\ \/ records' = MarkedMissing(p) /\ scanner' = ScanIdle
           \/ /\ onDisk[p] # Absent /\ KnownAt(p) # {} /\ records' = records
              /\ scanner' = [scanner EXCEPT !.at = "write", !.print = onDisk[p],
                               !.seen = [q \in {p} |-> Seen(FirstOf(KnownAt(p)))]]
           \/ KnownAt(p) = {} /\ records' = Append(records, NewRecord(p)) /\ scanner' = ScanIdle
    BY <1>8 DEF ApplyModified, TaskEnds, ScanOnly, WorkerOnly
  <2>2. p \in Files /\ scanner.job \in ScanTasks
    BY <1>s, <2>1 DEF ScanTasks, FullScan, NoScanTask
  <2>3. CASE records' = MarkedMissing(p) /\ scanner' = ScanIdle
    BY <1>f, <1>q, <2>1, <2>3
  <2>4. CASE KnownAt(p) = {} /\ records' = Append(records, NewRecord(p)) /\ scanner' = ScanIdle
    BY <1>f, <1>q, <2>1, <2>2, <2>4 DEF KnownAt
  <2>5. CASE /\ onDisk[p] # Absent /\ KnownAt(p) # {} /\ records' = records
             /\ scanner' = [scanner EXCEPT !.at = "write", !.print = onDisk[p],
                              !.seen = [q \in {p} |-> Seen(FirstOf(KnownAt(p)))]]
    <3>1. PICK j \in RowIds : j = FirstOf(KnownAt(p))
      <4>1. KnownAt(p) \in SUBSET Nat /\ KnownAt(p) \subseteq RowIds
        BY <1>r DEF KnownAt, RowsAt
      <4> QED
        BY <2>5, <4>1, FirstOfIs
    <3>2. /\ Seen(j) \in SeenRows /\ Seen(j).id = j /\ Seen(j).print = records[j].print
          /\ Seen(j).trusted = (records[j].hash # Absent /\ ~records[j].stale)
      BY <1>r, <3>1, SeenIs
    <3> DEFINE reading == [q \in {p} |-> Seen(j)]
    <3>3. /\ scanner'.job = scanner.job /\ scanner'.at = "write" /\ scanner'.todo = scanner.todo
          /\ scanner'.seen = reading /\ scanner'.path = scanner.path /\ scanner'.print = onDisk[p]
          /\ ScannerIsRecord'
      BY <1>i, <2>5, <3>1 DEF ScannerIsRecord
    <3>4. DOMAIN reading = {p} /\ reading[p] = Seen(j)
      OBVIOUS
    <3> HIDE DEF reading
    <3>5. RowIds' = RowIds
      BY <2>5 DEF RowIds
    <3>6. ScannerTyped' /\ WriteHasRead'
      BY <1>o, <1>s, <2>2, <2>5, <3>2, <3>3, <3>4, <3>5
      DEF ScannerTyped, ScanSteps, WriteHasRead, SeenRows
    <3>7. WorkerHasTask' /\ QueueTyped'
      <4>1. scanner # ScanIdle
        BY <1>n, <2>1
      <4> QED
        BY <1>i, <1>q, <2>1, <2>2, <3>3, <4>1 DEF WorkerHasTask, QueueTyped
    <3>8. \A i \in RowIds : TrustedThen(i) =>
            /\ records[i].hash # Absent /\ ~records[i].stale
            /\ TellsThen(records[i].hash, records[i].print)
      <4> SUFFICES ASSUME NEW i \in RowIds, TrustedThen(i)
                   PROVE  /\ records[i].hash # Absent /\ ~records[i].stale
                          /\ TellsThen(records[i].hash, records[i].print)
        OBVIOUS
      <4>1. Trusted(i)
        BY <2>1, <2>5 DEF Trusted, TrustedThen
      <4>2. Tells(records[i].hash, records[i].print)
        BY <1>i, <4>1 DEF RowsFit
      <4> QED
        BY <1>h, <1>j, <1>rp, <2>1, <4>1, <4>2 DEF Trusted, TrustedThen
    <3>9. RowsFit'
      BY <1>rf, <2>5, <3>5, <3>8
    <3>12. ReadingsTell'
      <4>1. TrustedThen(j) => Seen(j).trusted /\ TellsThen(records[j].hash, Seen(j).print)
        BY <3>1, <3>2, <3>8
      <4>2. DOMAIN scanner'.seen = {p} /\ scanner'.seen[p] = Seen(j)
        BY <3>3, <3>4
      <4>3. TrustedThen(Seen(j).id) => TrustedThen(j)
        BY <3>2 DEF Trusted, TrustedThen
      <4> QED
        BY <1>rt, <2>5, <3>2, <4>1, <4>2 DEF Trusted, TrustedThen
    <3>10. NewPathsAreFree'
      BY <3>3 DEF NewPathsAreFree
    <3>11. SparesDeleted
      BY <1>c, <2>5, <3>5
    <3> QED
      BY <1>b, <1>r, <2>1, <2>5, <3>3, <3>5, <3>6, <3>7, <3>9, <3>10, <3>11, <3>12
  <2> QED
    BY <2>1, <2>3, <2>4, <2>5
\* A row that is refreshed with the print of the file that is there.
<1>v. ASSUME NEW p \in DOMAIN scanner.seen, NEW print \in 0 .. MaxChanges, print # Absent,
             records' = Refreshed(scanner.seen[p], print), hashOvertaken' = hashOvertaken,
             scanner'.seen = scanner.seen \/ DOMAIN scanner'.seen = {},
             onDisk' = onDisk, prints' = prints
      PROVE  /\ records' \in Seq(Records) /\ RowIds' = RowIds
             /\ \A i \in RowIds : /\ records'[i].path = records[i].path
                                  /\ records'[i].deleted = records[i].deleted
             /\ RowsFit' /\ ReadingsTell'
  <2>1. PICK s \in SeenRows : s = scanner.seen[p]
    BY <1>s, <1>v
  <2>2. s.id \in RowIds
    BY DEF SeenRows
  <2>3. /\ records' \in Seq(Records) /\ RowIds' = RowIds
        /\ \A i \in RowIds :
             /\ records'[i].path = records[i].path /\ records'[i].deleted = records[i].deleted
             /\ records'[i].hash = records[i].hash
             /\ i # s.id => records'[i] = records[i]
             /\ i = s.id => /\ records'[i].print = print
                            /\ records'[i].stale = (records[i].stale \/ BecomesStale(s, print))
    BY <1>r, <1>v, <2>1, RefreshingKeeps DEF RowIds
  <2>4. Trusted(s.id) => s.trusted /\ TellsThen(records[s.id].hash, s.print)
    <3>1. Trusted(s.id) => s.trusted /\ Tells(records[s.id].hash, s.print)
      BY <1>i, <1>v, <2>1 DEF ReadingsTell
    <3>2. s.print \in 0 .. MaxChanges
      BY DEF SeenRows
    <3> QED
      BY <1>h, <1>j, <1>v, <3>1, <3>2
  <2>5. \A i \in RowIds : TrustedThen(i) =>
          /\ Trusted(i) /\ records'[i].hash = records[i].hash
          /\ TellsThen(records[i].hash, records'[i].print)
    <3> SUFFICES ASSUME NEW i \in RowIds, TrustedThen(i)
                 PROVE  /\ Trusted(i) /\ records'[i].hash = records[i].hash
                        /\ TellsThen(records[i].hash, records'[i].print)
      OBVIOUS
    <3>1. CASE i # s.id
      <4>1. records'[i] = records[i] /\ Trusted(i)
        BY <1>v, <2>3, <3>1 DEF Trusted, TrustedThen
      <4>2. Tells(records[i].hash, records[i].print)
        BY <1>i, <4>1 DEF RowsFit
      <4> QED
        BY <1>h, <1>j, <1>rp, <1>v, <4>1, <4>2
    <3>2. CASE i = s.id
      <4>1. /\ records'[i].hash = records[i].hash /\ records'[i].print = print
            /\ records'[i].stale = (records[i].stale \/ BecomesStale(s, print))
        BY <2>3, <3>2
      <4>2. Trusted(i) /\ ~BecomesStale(s, print)
        BY <1>v, <4>1 DEF Trusted, TrustedThen
      <4>3. s.print = print /\ TellsThen(records[i].hash, s.print)
        BY <2>4, <3>2, <4>2 DEF BecomesStale
      <4> QED
        BY <4>1, <4>2, <4>3
    <3> QED
      BY <3>1, <3>2
  <2>6. RowsFit'
    <3>1. \A i \in RowIds' : TrustedThen(i) => TellsThen(records'[i].hash, records'[i].print)
      BY <2>3, <2>5
    <3> QED
      BY <1>rf, <3>1
  <2>7. ReadingsTell'
    <3>1. CASE scanner'.seen = scanner.seen
      <4>1. ASSUME NEW q \in DOMAIN scanner.seen
            PROVE  TrustedThen(scanner.seen[q].id) =>
                     /\ scanner.seen[q].trusted
                     /\ TellsThen(records'[scanner.seen[q].id].hash, scanner.seen[q].print)
        <5>1. PICK j \in RowIds : j = scanner.seen[q].id
          BY <1>s, <4>1 DEF SeenRows
        <5>2. TrustedThen(scanner.seen[q].id) => TrustedThen(j)
          BY <3>1, <5>1 DEF Trusted, TrustedThen
        <5>3. TrustedThen(j) => Trusted(j) /\ records'[j].hash = records[j].hash
          BY <2>5
        <5>4. Trusted(j) => /\ scanner.seen[q].trusted
                            /\ Tells(records[j].hash, scanner.seen[q].print)
          BY <1>i, <4>1, <5>1 DEF ReadingsTell
        <5>5. Trusted(j) => TellsThen(records[j].hash, scanner.seen[q].print)
          BY <1>h, <1>j, <1>sp, <1>v, <4>1, <5>4
        <5> QED
          BY <5>1, <5>2, <5>3, <5>4, <5>5
      <4> QED
        BY <1>rt, <3>1, <4>1
    <3>2. CASE DOMAIN scanner'.seen = {}
      BY <3>2 DEF ReadingsTell
    <3> QED
      BY <1>v, <3>1, <3>2
  <2> QED
    BY <2>3, <2>6, <2>7
<1>9. CASE WriteModified
  <2> DEFINE p == scanner.job.path
  <2>1. /\ scanner.at = "write" /\ records' = Refreshed(scanner.seen[p], scanner.print)
        /\ scanner' = ScanIdle /\ waiting' = waiting
        /\ failed' = failed /\ onDisk' = onDisk
        /\ prints' = prints /\ timers' = timers /\ hasher' = hasher /\ renamer' = renamer
        /\ turns' = turns /\ hashOvertaken' = hashOvertaken /\ moved' = moved
    BY <1>9 DEF WriteModified, TaskEnds, ScanOnly, WorkerOnly
  <2>2. p \in DOMAIN scanner.seen /\ scanner.print # Absent
    BY <1>i, <2>1 DEF WriteHasRead
  <2>3. /\ records' \in Seq(Records) /\ RowIds' = RowIds
        /\ \A i \in RowIds : /\ records'[i].path = records[i].path
                             /\ records'[i].deleted = records[i].deleted
        /\ RowsFit' /\ ReadingsTell'
    BY <1>n, <1>s, <1>v, <2>1, <2>2
  <2>4. QueueTyped'
    BY <1>q, <2>1 DEF QueueTyped
  <2>5. SparesDeleted
    BY <1>c, <2>3
  <2> QED
    BY <1>b, <1>e, <2>1, <2>3, <2>4, <2>5
<1>10. CASE ScanLibrary
  <2> DEFINE found == {q \in FilesOnDisk : KnownAt(q) # {}}
             readings == [p \in found |-> Seen(LastOf(KnownAt(p)))]
  <2>1. /\ scanner.at = "begin" /\ scanner.job = FullScan
        /\ scanner' = [scanner EXCEPT !.at = "index", !.todo = FilesOnDisk, !.seen = readings]
        /\ records' = records /\ waiting' = waiting
        /\ failed' = failed /\ onDisk' = onDisk
        /\ prints' = prints /\ timers' = timers /\ hasher' = hasher /\ renamer' = renamer
        /\ turns' = turns /\ hashOvertaken' = hashOvertaken /\ moved' = moved
    BY <1>10 DEF ScanLibrary, ScanOnly, WorkerOnly
  <2>2. /\ scanner'.job = scanner.job /\ scanner'.at = "index" /\ scanner'.todo = FilesOnDisk
        /\ scanner'.seen = readings /\ scanner'.path = scanner.path
        /\ scanner'.print = scanner.print /\ ScannerIsRecord'
    BY <1>i, <2>1 DEF ScannerIsRecord
  <2>3. DOMAIN readings = found /\ found \subseteq FilesOnDisk /\ FilesOnDisk \subseteq Files
    BY DEF FilesOnDisk
  <2>4. \A p \in found : \E j \in RowIds : readings[p] = Seen(j)
    <3> SUFFICES ASSUME NEW p \in found PROVE \E j \in RowIds : readings[p] = Seen(j)
      OBVIOUS
    <3>1. KnownAt(p) \in SUBSET (1 .. Len(records)) /\ KnownAt(p) # {} /\ Len(records) \in Nat
      BY <1>r DEF KnownAt, RowsAt
    <3>2. LastOf(KnownAt(p)) \in RowIds
      BY <1>r, <3>1, LastOfIs
    <3> QED
      BY <3>2
  <2> HIDE DEF readings
  <2>5. \A p \in found : /\ readings[p] \in SeenRows
                         /\ Trusted(readings[p].id) => /\ readings[p].trusted
                              /\ TellsThen(records[readings[p].id].hash, readings[p].print)
    <3> SUFFICES ASSUME NEW p \in found
                 PROVE  /\ readings[p] \in SeenRows
                        /\ Trusted(readings[p].id) => /\ readings[p].trusted
                              /\ TellsThen(records[readings[p].id].hash, readings[p].print)
      OBVIOUS
    <3>1. PICK j \in RowIds : readings[p] = Seen(j)
      BY <2>4
    <3>2. /\ Seen(j) \in SeenRows /\ Seen(j).id = j /\ Seen(j).print = records[j].print
          /\ Seen(j).trusted = (records[j].hash # Absent /\ ~records[j].stale)
      BY <1>r, SeenIs
    <3>3. Trusted(j) => Tells(records[j].hash, records[j].print)
      BY <1>i DEF RowsFit
    <3>4. Trusted(j) => TellsThen(records[j].hash, records[j].print)
      BY <1>h, <1>j, <1>rp, <2>1, <3>3
    <3> QED
      BY <3>1, <3>2, <3>4 DEF Trusted, TrustedThen
  <2>6. RowIds' = RowIds /\ SeenRows' = SeenRows
    BY <2>1 DEF RowIds, SeenRows
  <2>7. ScannerTyped' /\ WriteHasRead'
    BY <1>s, <2>2, <2>3, <2>5, <2>6 DEF ScannerTyped, ScanSteps, WriteHasRead
  <2>8. WorkerHasTask' /\ QueueTyped'
    <3>1. scanner # ScanIdle
      BY <1>n, <2>1
    <3> QED
      BY <1>i, <1>q, <2>1, <2>2, <3>1 DEF WorkerHasTask, QueueTyped
  <2>9. RowsFit'
    <3> SUFFICES ASSUME NEW i \in RowIds', TrustedThen(i)
                 PROVE  TellsThen(records'[i].hash, records'[i].print)
      BY <1>rf
    <3>1. i \in RowIds /\ Trusted(i)
      BY <2>1, <2>6 DEF Trusted, TrustedThen
    <3>2. Tells(records[i].hash, records[i].print)
      BY <1>i, <3>1 DEF RowsFit
    <3> QED
      BY <1>h, <1>j, <1>rp, <2>1, <3>1, <3>2
  <2>10. ReadingsTell'
    BY <1>rt, <2>1, <2>2, <2>3, <2>5 DEF Trusted, TrustedThen
  <2>11. NewPathsAreFree'
    <3> SUFFICES ASSUME NEW p \in FilesOnDisk, p \notin found PROVE RowsAt(p)' = {}
      BY <2>2, <2>3 DEF NewPathsAreFree
    <3>1. RowsAt(p) = {}
      BY DEF KnownAt
    <3> QED
      BY <2>1, <2>6, <3>1 DEF RowsAt
  <2>12. SparesDeleted
    BY <1>c, <2>1, <2>6
  <2> QED
    BY <1>b, <1>r, <2>1, <2>2, <2>6, <2>7, <2>8, <2>9, <2>10, <2>11, <2>12
\* A scan on its way, with what it has read or without.
<1>y. ASSUME /\ scanner.at \in {"index", "reconcile", "mark"} /\ ScannerIsRecord'
             /\ scanner'.job = scanner.job /\ scanner'.at \in {"index", "reconcile", "mark"}
             /\ scanner'.todo \in SUBSET Files /\ scanner'.path \in Files \cup {AnyPath}
             /\ scanner'.print = scanner.print
             /\ scanner'.seen = scanner.seen \/ DOMAIN scanner'.seen = {}
             /\ waiting' = waiting /\ failed' = failed /\ RowIds \subseteq RowIds'
      PROVE  ScannerTyped' /\ WorkerHasTask' /\ WriteHasRead' /\ QueueTyped'
  <2>1. scanner # ScanIdle
    BY <1>n, <1>y
  <2>2. SeenRows \subseteq SeenRows'
    BY <1>y DEF SeenRows
  <2>3. \A p \in DOMAIN scanner'.seen : p \in Files /\ scanner'.seen[p] \in SeenRows'
    BY <1>s, <1>y, <2>2
  <2>4. ScannerTyped'
    BY <1>s, <1>y, <2>3 DEF ScannerTyped, ScanSteps
  <2>5. WorkerHasTask' /\ WriteHasRead'
    BY <1>i, <1>y, <2>1 DEF WorkerHasTask, WriteHasRead
  <2>6. QueueTyped'
    BY <1>q, <1>y DEF QueueTyped
  <2> QED
    BY <2>4, <2>5, <2>6
<1>11. ASSUME NEW p \in Files, IndexFile(p) PROVE LibraryInv' /\ SparesDeleted
  <2>1. /\ scanner.at = "index" /\ p \in scanner.todo
        /\ records' = IF onDisk[p] = Absent THEN records
                      ELSE IF p \notin DOMAIN scanner.seen THEN Append(records, NewRecord(p))
                      ELSE IF NeedsRefresh(scanner.seen[p], onDisk[p])
                           THEN Refreshed(scanner.seen[p], onDisk[p]) ELSE records
        /\ scanner' = [scanner EXCEPT !.todo = @ \ {p}]
        /\ waiting' = waiting /\ failed' = failed /\ onDisk' = onDisk
        /\ prints' = prints /\ timers' = timers /\ hasher' = hasher /\ renamer' = renamer
        /\ turns' = turns /\ hashOvertaken' = hashOvertaken /\ moved' = moved
    BY <1>11 DEF IndexFile, ScanOnly, WorkerOnly
  <2>2. /\ scanner'.job = scanner.job /\ scanner'.at = "index" /\ scanner'.todo = scanner.todo \ {p}
        /\ scanner'.seen = scanner.seen /\ scanner'.path = scanner.path
        /\ scanner'.print = scanner.print /\ ScannerIsRecord'
    BY <1>i, <2>1 DEF ScannerIsRecord
  <2>3. /\ records' \in Seq(Records) /\ RowIds \subseteq RowIds'
        /\ \A i \in RowIds : /\ records'[i].path = records[i].path
                             /\ records'[i].deleted = records[i].deleted
        /\ \A i \in RowIds' \ RowIds : records'[i].path = p /\ RowsAt(p) \subseteq moved
        /\ RowsFit' /\ ReadingsTell'
    <3>1. CASE records' = records
      <4>1. RowIds' = RowIds
        BY <3>1 DEF RowIds
      <4>2. RowsFit' /\ ReadingsTell'
        BY <1>h, <1>k, <2>1, <2>2, <3>1, <4>1
      <4> QED
        BY <1>r, <3>1, <4>1, <4>2
    <3>2. CASE p \notin DOMAIN scanner.seen /\ records' = Append(records, NewRecord(p))
      <4> DEFINE row == NewRecord(p)
      <4>1. row \in Records /\ row.hash = Absent /\ row.path = p
        BY NewRecordIs
      <4> HIDE DEF row
      <4>2. /\ records' \in Seq(Records) /\ DOMAIN records = 1 .. Len(records)
            /\ DOMAIN records' = 1 .. Len(records) + 1
            /\ \A j \in DOMAIN records : records'[j] = records[j]
            /\ records'[Len(records) + 1] = row
        BY <1>r, <3>2, <4>1, RowsGrow DEF row
      <4>3. Len(records) \in Nat
        BY <1>r
      <4>4. /\ RowIds \subseteq RowIds' /\ \A i \in RowIds : records'[i] = records[i]
            /\ \A i \in RowIds' \ RowIds : records'[i] = row
        BY <4>2, <4>3 DEF RowIds
      <4>5. RowsAt(p) \subseteq moved
        BY <1>i, <2>1, <3>2 DEF NewPathsAreFree
      <4>6. RowsFit' /\ ReadingsTell'
        BY <1>h, <1>k, <2>1, <2>2, <4>1, <4>4
      <4> QED
        BY <4>1, <4>2, <4>4, <4>5, <4>6
    <3>3. CASE /\ p \in DOMAIN scanner.seen /\ onDisk[p] # Absent
               /\ records' = Refreshed(scanner.seen[p], onDisk[p])
      <4>1. onDisk[p] \in 0 .. MaxChanges
        BY <1>o
      <4>2. /\ records' \in Seq(Records) /\ RowIds' = RowIds
            /\ \A i \in RowIds : /\ records'[i].path = records[i].path
                                 /\ records'[i].deleted = records[i].deleted
            /\ RowsFit' /\ ReadingsTell'
        BY <1>v, <2>1, <2>2, <3>3, <4>1
      <4> QED
        BY <4>2
    <3> QED
      BY <2>1, <3>1, <3>2, <3>3
  <2>4. NewPathsAreFree'
    BY <1>l, <2>1, <2>2, <2>3
  <2>5. ScannerTyped' /\ WorkerHasTask' /\ WriteHasRead' /\ QueueTyped'
    BY <1>s, <1>y, <2>1, <2>2, <2>3
  <2>6. SparesDeleted
    BY <1>c, <2>3
  <2> QED
    BY <1>b, <2>1, <2>2, <2>3, <2>4, <2>5, <2>6
\* A scan that goes on and leaves the rows, or marks some, and adds none.
<1>z. ASSUME scanner.at \in {"index", "reconcile", "mark"}, ScannerIsRecord',
             scanner'.job = scanner.job, scanner'.at \in {"reconcile", "mark"},
             scanner'.todo \in SUBSET Files, scanner'.path \in Files \cup {AnyPath},
             scanner'.print = scanner.print,
             scanner'.seen = scanner.seen \/ DOMAIN scanner'.seen = {},
             records' = records \/ \E p : records' = MarkedMissing(p),
             waiting' = waiting, failed' = failed,
             onDisk' = onDisk, prints' = prints, timers' = timers, hasher' = hasher,
             renamer' = renamer, turns' = turns, hashOvertaken' = hashOvertaken, moved' = moved
      PROVE  LibraryInv' /\ SparesDeleted
  <2>1. /\ records' \in Seq(Records) /\ RowIds' = RowIds
        /\ \A i \in RowIds : /\ records'[i].print = records[i].print
                             /\ records'[i].hash = records[i].hash
                             /\ records'[i].stale = records[i].stale
                             /\ records'[i].deleted = records[i].deleted
    <3>1. CASE records' = records
      BY <1>r, <3>1 DEF RowIds
    <3>2. CASE \E p : records' = MarkedMissing(p)
      <4>1. PICK p : records' = MarkedMissing(p)
        BY <3>2
      <4>2. RowIds' = RowIds
        BY <1>r, <4>1, MarkingKeeps DEF RowIds
      <4> QED
        BY <1>r, <4>1, <4>2, MarkingKeeps
    <3> QED
      BY <1>z, <3>1, <3>2
  <2>2. RowsFit' /\ ReadingsTell'
    BY <1>h, <1>k, <1>z, <2>1
  <2>3. NewPathsAreFree'
    BY <1>z DEF NewPathsAreFree
  <2>4. ScannerTyped' /\ WorkerHasTask' /\ WriteHasRead' /\ QueueTyped'
    BY <1>y, <1>z, <2>1
  <2>5. SparesDeleted
    BY <1>c, <2>1
  <2> QED
    BY <1>b, <1>z, <2>1, <2>2, <2>3, <2>4, <2>5
<1>12. CASE EndOfIndex
  <2> DEFINE paths == {records[i].path : i \in {j \in RowIds : ActiveRow(j)}}
  <2>1. /\ scanner.at = "index"
        /\ scanner' = [scanner EXCEPT !.at = "reconcile", !.seen = NothingThere, !.todo = paths]
        /\ records' = records /\ waiting' = waiting
        /\ failed' = failed /\ onDisk' = onDisk
        /\ prints' = prints /\ timers' = timers /\ hasher' = hasher /\ renamer' = renamer
        /\ turns' = turns /\ hashOvertaken' = hashOvertaken /\ moved' = moved
    BY <1>12 DEF EndOfIndex, ScanOnly, WorkerOnly
  <2>2. paths \in SUBSET Files
    BY <1>r DEF Records
  <2> HIDE DEF paths
  <2>3. /\ scanner'.job = scanner.job /\ scanner'.at = "reconcile" /\ scanner'.todo = paths
        /\ DOMAIN scanner'.seen = {} /\ scanner'.path = scanner.path
        /\ scanner'.print = scanner.print /\ ScannerIsRecord'
    BY <1>i, <2>1 DEF ScannerIsRecord, NothingThere
  <2> QED
    BY <1>s, <1>z, <2>1, <2>2, <2>3
<1>13. ASSUME NEW p \in Files, ReconcileMissing(p) PROVE LibraryInv' /\ SparesDeleted
  <2>1. /\ scanner.at = "reconcile"
        /\ scanner' = [scanner EXCEPT !.todo = @ \ {p},
                         !.at = IF onDisk[p] = Absent THEN "mark" ELSE @, !.path = p]
        /\ records' = records /\ waiting' = waiting
        /\ failed' = failed /\ onDisk' = onDisk
        /\ prints' = prints /\ timers' = timers /\ hasher' = hasher /\ renamer' = renamer
        /\ turns' = turns /\ hashOvertaken' = hashOvertaken /\ moved' = moved
    BY <1>13 DEF ReconcileMissing, ScanOnly, WorkerOnly
  <2>2. /\ scanner'.job = scanner.job /\ scanner'.at \in {"reconcile", "mark"}
        /\ scanner'.todo = scanner.todo \ {p}
        /\ scanner'.seen = scanner.seen /\ scanner'.path = p
        /\ scanner'.print = scanner.print /\ ScannerIsRecord'
    BY <1>i, <2>1 DEF ScannerIsRecord
  <2> QED
    BY <1>s, <1>z, <2>1, <2>2
<1>14. CASE MarkMissing
  <2>1. /\ scanner.at = "mark" /\ records' = MarkedMissing(scanner.path)
        /\ scanner' = [scanner EXCEPT !.at = "reconcile"] /\ waiting' = waiting
        /\ failed' = failed /\ onDisk' = onDisk
        /\ prints' = prints /\ timers' = timers /\ hasher' = hasher /\ renamer' = renamer
        /\ turns' = turns /\ hashOvertaken' = hashOvertaken /\ moved' = moved
    BY <1>14 DEF MarkMissing, ScanOnly, WorkerOnly, ScanTo
  <2>2. /\ scanner'.job = scanner.job /\ scanner'.at = "reconcile"
        /\ scanner'.todo = scanner.todo
        /\ scanner'.seen = scanner.seen /\ scanner'.path = scanner.path
        /\ scanner'.print = scanner.print /\ ScannerIsRecord'
    BY <1>i, <2>1 DEF ScannerIsRecord
  <2> QED
    BY <1>s, <1>z, <2>1, <2>2
<1>15. CASE EndOfReconcile
  BY <1>15, <1>f, <1>q DEF EndOfReconcile, TaskEnds, ScanOnly, WorkerOnly
<1>16. CASE TaskFails
  <2>1. failed' \in ScanTasks \cup {NoScanTask}
    BY <1>16, <1>q, <1>s DEF TaskFails
  <2> QED
    BY <1>16, <1>f, <2>1 DEF TaskFails, TaskEnds, WorkerOnly
\* The hash backfill.
<1>17. ASSUME NEW i \in RowIds, ReadHash(i) PROVE LibraryInv' /\ SparesDeleted
  <2>1. /\ turns' = turns + 1 /\ turns < MaxTurns
        /\ hasher' = [row |-> i, print |-> onDisk[records[i].path],
                      content |-> onDisk[records[i].path]]
        /\ records' = records /\ scanner' = scanner /\ waiting' = waiting
        /\ failed' = failed /\ onDisk' = onDisk
        /\ prints' = prints /\ timers' = timers /\ renamer' = renamer
        /\ hashOvertaken' = hashOvertaken /\ moved' = moved
    BY <1>17 DEF ReadHash, Turn
  <2>2. onDisk[records[i].path] \in 0 .. MaxChanges /\ onDisk[records[i].path] \in 0 .. Torn
    BY <1>o, <1>p, <1>r DEF Records
  <2>3. hasher' \in [row : RowIds \cup {0}, print : 0 .. MaxChanges, content : 0 .. Torn]
    BY <2>1, <2>2
  <2>4. DiskTyped' /\ QueueTyped' /\ RenameHasRow'
    BY <1>i, <1>o, <1>q, <2>1 DEF DiskTyped, QueueTyped, RenameHasRow, RowIds
  <2>5. RowsTyped'
    BY <1>r, <2>1, <2>3 DEF RowsTyped, RowIds
  <2>6. HashFits'
    BY <1>17, <2>1 DEF HashFits, ReadHash
  <2> QED
    BY <1>a, <1>h, <2>1, <2>4, <2>5, <2>6
<1>18. CASE StoreHash
  <2> DEFINE j == hasher.row
             row == [records[j] EXCEPT !.hash = hasher.content, !.stale = FALSE,
                                       !.print = hasher.print, !.missing = FALSE]
  <2>1. /\ records' = [records EXCEPT ![j] = row] /\ hasher' = NoHash
        /\ hashOvertaken' = IF j \in HeldByScan THEN hashOvertaken \cup {j} ELSE hashOvertaken
        /\ scanner' = scanner /\ waiting' = waiting /\ turns' = turns
        /\ failed' = failed /\ onDisk' = onDisk
        /\ prints' = prints /\ timers' = timers /\ renamer' = renamer /\ moved' = moved
    BY <1>18 DEF StoreHash, HashedPrint
  <2>2. hasher.print \in 0 .. MaxChanges /\ hasher.content \in 0 .. Torn
    BY <1>r
  <2>3. j \in RowIds => /\ row \in Records /\ row.path = records[j].path
                        /\ row.deleted = records[j].deleted /\ row.hash = hasher.content
                        /\ row.print = hasher.print
    <3> SUFFICES ASSUME j \in RowIds
                 PROVE  /\ row \in Records /\ row.path = records[j].path
                        /\ row.deleted = records[j].deleted /\ row.hash = hasher.content
                        /\ row.print = hasher.print
      OBVIOUS
    <3>1. records[j] \in Records
      BY <1>r
    <3> HIDE DEF j
    <3> QED
      BY <2>2, <3>1 DEF Records
  <2> HIDE DEF row
  <2>4. PICK k : k = j
    OBVIOUS
  <2> HIDE DEF j
  <2>5. /\ records' \in Seq(Records) /\ RowIds' = RowIds
        /\ \A i \in RowIds : records'[i] = IF i = k THEN row ELSE records[i]
    BY <1>r, <2>1, <2>3, <2>4, RowsChange DEF RowIds
  <2>6. HeldByScan \subseteq RowIds
    BY <1>s DEF HeldByScan, SeenRows
  <2>7. RowsTyped'
    <3>1. NoHash \in [row : RowIds \cup {0}, print : 0 .. MaxChanges, content : 0 .. Torn]
      BY <1>p DEF NoHash
    <3> QED
      BY <1>r, <2>1, <2>5, <2>6, <3>1 DEF RowsTyped
  <2>8. DiskTyped' /\ QueueTyped' /\ RenameHasRow'
    BY <1>i, <1>o, <1>q, <2>1, <2>5 DEF DiskTyped, QueueTyped, RenameHasRow
  <2>9. SeenRows' = SeenRows
    BY <2>5 DEF SeenRows
  <2>10. ScannerTyped' /\ ScannerIsRecord' /\ WorkerHasTask' /\ WriteHasRead'
    BY <1>i, <1>t, <2>1, <2>9 DEF ScannerTyped, ScannerIsRecord, WorkerHasTask, WriteHasRead
  <2>11. \A i \in RowIds : i # k /\ TrustedThen(i) => Trusted(i) /\ records'[i] = records[i]
    BY <2>1, <2>5 DEF Trusted, TrustedThen
  <2>12. RowsFit'
    <3>1. TellsThen(hasher.content, hasher.print)
      BY <1>h, <1>i, <2>1, <2>2 DEF HashFits, Gone, TellsThen
    <3>2. ASSUME NEW i \in RowIds, TrustedThen(i) PROVE TellsThen(records'[i].hash, records'[i].print)
      <4>1. CASE i = k
        BY <2>3, <2>4, <2>5, <3>1, <4>1
      <4>2. CASE i # k
        <5>1. Trusted(i) /\ records'[i] = records[i]
          BY <2>11, <3>2, <4>2
        <5>2. Tells(records[i].hash, records[i].print)
          BY <1>i, <5>1 DEF RowsFit
        <5> QED
          BY <1>h, <1>j, <1>rp, <2>1, <5>1, <5>2
      <4> QED
        BY <4>1, <4>2
    <3> QED
      BY <1>rf, <2>5, <3>2
  <2>13. ReadingsTell'
    <3>1. ASSUME NEW q \in DOMAIN scanner.seen
          PROVE  TrustedThen(scanner.seen[q].id) =>
                   /\ scanner.seen[q].trusted
                   /\ TellsThen(records'[scanner.seen[q].id].hash, scanner.seen[q].print)
      <4>1. PICK i \in RowIds : i = scanner.seen[q].id
        BY <1>s, <3>1 DEF SeenRows
      <4>2. TrustedThen(scanner.seen[q].id) => TrustedThen(i)
        BY <2>1, <4>1 DEF Trusted, TrustedThen
      <4>3. i = k => ~TrustedThen(i)
        BY <2>1, <2>4, <3>1, <4>1 DEF HeldByScan, Trusted, TrustedThen
      <4>4. Trusted(i) => /\ scanner.seen[q].trusted
                          /\ Tells(records[i].hash, scanner.seen[q].print)
        BY <1>i, <3>1, <4>1 DEF ReadingsTell
      <4>5. Trusted(i) => TellsThen(records[i].hash, scanner.seen[q].print)
        BY <1>h, <1>j, <1>sp, <2>1, <3>1, <4>4
      <4> QED
        BY <2>11, <4>1, <4>2, <4>3, <4>4, <4>5
    <3> QED
      BY <1>rt, <2>1, <3>1
  <2>14. NewPathsAreFree'
    <3>1. \A i \in RowIds : records'[i].path = records[i].path
      BY <2>3, <2>4, <2>5
    <3> QED
      BY <1>l, <2>1, <2>5, <3>1
  <2>15. SparesDeleted
    BY <2>1 DEF SparesDeleted
  <2> QED
    BY <1>h, <1>u, <2>1, <2>7, <2>8, <2>10, <2>12, <2>13, <2>14, <2>15 DEF LibraryInv
\* The users.
<1>19. ASSUME NEW i \in RowIds, NEW was \in BOOLEAN, SetDeleted(i, was)
       PROVE  LibraryInv' /\ SparesDeleted
  <2> DEFINE row == [records[i] EXCEPT !.deleted = ~was]
  <2>1. /\ turns' = turns + 1 /\ turns < MaxTurns /\ records' = [records EXCEPT ![i] = row]
        /\ hasher' = hasher /\ hashOvertaken' = hashOvertaken
        /\ scanner' = scanner /\ waiting' = waiting /\ failed' = failed /\ onDisk' = onDisk
        /\ prints' = prints /\ timers' = timers /\ renamer' = renamer /\ moved' = moved
    BY <1>19 DEF SetDeleted, Turn, UserOnly
  <2>2. /\ row \in Records /\ row.path = records[i].path /\ row.print = records[i].print
        /\ row.hash = records[i].hash /\ row.stale = records[i].stale
    <3>1. records[i] \in Records
      BY <1>r
    <3> QED
      BY <3>1 DEF Records
  <2> HIDE DEF row
  <2>3. /\ records' \in Seq(Records) /\ RowIds' = RowIds
        /\ \A j \in RowIds : /\ records'[j].path = records[j].path
                             /\ records'[j].print = records[j].print
                             /\ records'[j].hash = records[j].hash
                             /\ records'[j].stale = records[j].stale
    BY <1>r, <2>1, <2>2, RowsChange DEF RowIds
  <2>4. DiskTyped' /\ QueueTyped' /\ RenameHasRow'
    BY <1>i, <1>o, <1>q, <2>1, <2>3 DEF DiskTyped, QueueTyped, RenameHasRow
  <2>5. RowsTyped'
    BY <1>r, <2>1, <2>3 DEF RowsTyped
  <2>6. SeenRows' = SeenRows
    BY <2>3 DEF SeenRows
  <2>7. ScannerTyped' /\ ScannerIsRecord' /\ WorkerHasTask' /\ WriteHasRead'
    BY <1>i, <1>t, <2>1, <2>6 DEF ScannerTyped, ScannerIsRecord, WorkerHasTask, WriteHasRead
  <2>8. RowsFit' /\ ReadingsTell'
    BY <1>h, <1>k, <2>1, <2>3
  <2>9. NewPathsAreFree'
    BY <1>l, <2>1, <2>3
  <2>10. SparesDeleted
    BY <2>1 DEF SparesDeleted
  <2> QED
    BY <1>h, <1>u, <2>1, <2>4, <2>5, <2>7, <2>8, <2>9, <2>10 DEF LibraryInv
<1>20. ASSUME NEW i \in RowIds, NEW q \in Files, NEW move \in BOOLEAN, StartRename(i, q, move)
       PROVE  LibraryInv' /\ SparesDeleted
  <2>1. /\ turns' = turns + 1 /\ turns < MaxTurns
        /\ onDisk' = onDisk /\ timers' = timers /\ waiting' = waiting
        /\ renamer' = [row |-> i, to |-> q, done |-> FALSE]
        /\ records' = records /\ hasher' = hasher /\ hashOvertaken' = hashOvertaken
        /\ scanner' = scanner /\ failed' = failed /\ prints' = prints /\ moved' = moved
    BY <1>20 DEF StartRename, Turn, UserOnly
  <2>2. DiskTyped' /\ QueueTyped'
    BY <1>o, <1>q, <2>1 DEF DiskTyped, QueueTyped
  <2>3. RowsTyped' /\ RenameHasRow'
    BY <1>r, <2>1 DEF RowsTyped, RenameHasRow, RowIds
  <2> QED
    BY <1>a, <1>h, <2>1, <2>2, <2>3
\* A file that takes another path on the disk.
<1>mv. ASSUME NEW p \in Files, NEW q \in Files, MovedOnDisk(p, q), prints' = prints,
              failed' = failed, turns' = turns
       PROVE  DiskTyped' /\ QueueTyped' /\ Len(waiting') <= MaxWaiting
  <2>1. /\ onDisk' = [onDisk EXCEPT ![p] = Absent, ![q] = onDisk[p]]
        /\ timers' = (timers \ {p}) \cup {q} /\ GoneFile(p)
    BY <1>mv DEF MovedOnDisk
  <2>2. onDisk' \in [Files -> 0 .. MaxChanges]
    BY <1>o, <1>p, <1>mv, <2>1
  <2>3. timers' \in SUBSET Files
    BY <1>o, <1>mv, <2>1
  <2>4. DiskTyped'
    BY <1>o, <1>mv, <2>2, <2>3 DEF DiskTyped
  <2> QED
    BY <1>g, <1>q, <1>mv, <2>1, <2>4 DEF QueueTyped
<1>27. CASE RenameOnDisk
  <2> DEFINE p == records[renamer.row].path
             q == renamer.to
  <2>1. /\ renamer # NoRename /\ records' = records /\ hasher' = hasher
        /\ hashOvertaken' = hashOvertaken /\ turns' = turns
        /\ scanner' = scanner /\ failed' = failed /\ prints' = prints /\ moved' = moved
        /\ \/ onDisk[p] # Absent /\ MovedOnDisk(p, q) /\ renamer' = [renamer EXCEPT !.done = TRUE]
           \/ /\ renamer' = NoRename
              /\ onDisk' = onDisk /\ timers' = timers /\ waiting' = waiting
    BY <1>27 DEF RenameOnDisk, UserOnly
  <2>2. q \in Files /\ p \in Files /\ renamer.row \in RowIds
    BY <1>i, <1>r, <2>1 DEF RenameHasRow, Records
  <2> HIDE DEF p, q
  <2>3. RowIds' = RowIds
    BY <2>1 DEF RowIds
  <2>4. CASE onDisk[p] # Absent /\ MovedOnDisk(p, q) /\ renamer' = [renamer EXCEPT !.done = TRUE]
    <3>1. DiskTyped' /\ QueueTyped' /\ Len(waiting') <= MaxWaiting
      BY <1>mv, <2>1, <2>2, <2>4
    <3>2. /\ renamer' \in [row : RowIds \cup {0}, to : Files \cup {AnyPath}, done : BOOLEAN]
          /\ renamer'.row = renamer.row /\ renamer'.to = renamer.to
      BY <1>r, <2>4
    <3>3. RowsTyped' /\ RenameHasRow'
      BY <1>r, <2>1, <2>2, <2>3, <3>2 DEF RowsTyped, RenameHasRow, q
    <3>4. PrintsAreOwn' /\ HashFits' /\ \A x \in 0 .. MaxChanges : Gone(x) => Gone(x)'
      BY <1>m, <2>1, <2>2, <2>4
    <3> QED
      BY <1>a, <2>1, <3>1, <3>3, <3>4
  <2>5. CASE renamer' = NoRename /\ onDisk' = onDisk /\ timers' = timers /\ waiting' = waiting
    <3>1. NoRename \in [row : RowIds \cup {0}, to : Files \cup {AnyPath}, done : BOOLEAN]
      BY DEF NoRename
    <3>2. RowsTyped' /\ RenameHasRow'
      BY <1>r, <2>1, <2>3, <2>5, <3>1 DEF RowsTyped, RenameHasRow
    <3>3. DiskTyped' /\ QueueTyped'
      BY <1>o, <1>q, <2>1, <2>5 DEF DiskTyped, QueueTyped
    <3> QED
      BY <1>a, <1>h, <2>1, <2>5, <3>2, <3>3
  <2> QED
    BY <2>1, <2>4, <2>5
<1>21. CASE UpdateRenamed
  <2> DEFINE j == renamer.row
             row == [records[j] EXCEPT !.path = renamer.to, !.print = Unlike]
  <2>1. /\ records' = [records EXCEPT ![j] = row] /\ renamer' = NoRename /\ moved' = moved \cup {j}
        /\ renamer # NoRename /\ hasher' = hasher /\ hashOvertaken' = hashOvertaken
        /\ scanner' = scanner /\ waiting' = waiting /\ turns' = turns
        /\ failed' = failed /\ onDisk' = onDisk /\ prints' = prints /\ timers' = timers
    BY <1>21 DEF UpdateRenamed, UserOnly
  <2>2. j \in RowIds /\ renamer.to \in Files
    BY <1>i, <2>1 DEF RenameHasRow
  <2>3. /\ row \in Records /\ row.print = Unlike /\ row.hash = records[j].hash
        /\ row.stale = records[j].stale
    <3>1. records[j] \in Records
      BY <1>r, <2>2
    <3> HIDE DEF j
    <3> QED
      BY <1>p, <2>2, <3>1 DEF Records
  <2> HIDE DEF row
  <2>4. PICK k \in RowIds : k = j
    BY <2>2
  <2> HIDE DEF j
  <2>5. /\ records' \in Seq(Records) /\ RowIds' = RowIds
        /\ \A i \in RowIds : records'[i] = IF i = k THEN row ELSE records[i]
    BY <1>r, <2>1, <2>3, <2>4, RowsChange DEF RowIds
  <2>6. RowsTyped' /\ RenameHasRow'
    <3>1. NoRename \in [row : RowIds \cup {0}, to : Files \cup {AnyPath}, done : BOOLEAN]
      BY DEF NoRename
    <3> QED
      BY <1>r, <2>1, <2>4, <2>5, <3>1 DEF RowsTyped, RenameHasRow
  <2>7. DiskTyped' /\ QueueTyped'
    BY <1>o, <1>q, <2>1 DEF DiskTyped, QueueTyped
  <2>8. SeenRows' = SeenRows
    BY <2>5 DEF SeenRows
  <2>9. ScannerTyped' /\ ScannerIsRecord' /\ WorkerHasTask' /\ WriteHasRead'
    BY <1>i, <1>t, <2>1, <2>8 DEF ScannerTyped, ScannerIsRecord, WorkerHasTask, WriteHasRead
  <2>10. \A i \in RowIds : /\ records'[i].hash = records[i].hash /\ records'[i].stale = records[i].stale
                           /\ records'[i].print \in {records[i].print, Unlike}
    BY <2>3, <2>4, <2>5
  <2>11. \A i \in RowIds : TrustedThen(i) => Trusted(i)
    BY <2>1, <2>10 DEF Trusted, TrustedThen
  <2>12. RowsFit'
    <3> SUFFICES ASSUME NEW i \in RowIds', TrustedThen(i)
                 PROVE  TellsThen(records'[i].hash, records'[i].print)
      BY <1>rf
    <3>1. i \in RowIds /\ Trusted(i)
      BY <2>5, <2>11
    <3>2. Tells(records[i].hash, records[i].print)
      BY <1>i, <3>1 DEF RowsFit
    <3>3. TellsThen(records[i].hash, records[i].print)
      BY <1>h, <1>j, <1>rp, <2>1, <3>1, <3>2
    <3>4. CASE records'[i].print = records[i].print
      BY <2>10, <3>1, <3>3, <3>4
    <3>5. CASE records'[i].print = Unlike
      BY <3>5 DEF TellsThen
    <3> QED
      BY <2>10, <3>1, <3>4, <3>5
  <2>13. ReadingsTell'
    <3>1. ASSUME NEW q \in DOMAIN scanner.seen
          PROVE  TrustedThen(scanner.seen[q].id) =>
                   /\ scanner.seen[q].trusted
                   /\ TellsThen(records'[scanner.seen[q].id].hash, scanner.seen[q].print)
      <4>1. PICK i \in RowIds : i = scanner.seen[q].id
        BY <1>s, <3>1 DEF SeenRows
      <4>2. TrustedThen(scanner.seen[q].id) => TrustedThen(i)
        BY <2>1, <4>1 DEF Trusted, TrustedThen
      <4>4. Trusted(i) => /\ scanner.seen[q].trusted
                          /\ Tells(records[i].hash, scanner.seen[q].print)
        BY <1>i, <3>1, <4>1 DEF ReadingsTell
      <4>5. Trusted(i) => TellsThen(records[i].hash, scanner.seen[q].print)
        BY <1>h, <1>j, <1>sp, <2>1, <3>1, <4>4
      <4> QED
        BY <2>10, <2>11, <4>1, <4>2, <4>4, <4>5
    <3> QED
      BY <1>rt, <2>1, <3>1
  <2>14. NewPathsAreFree'
    <3> SUFFICES ASSUME scanner.at = "index", NEW p \in scanner.todo \ DOMAIN scanner.seen,
                        NEW i \in RowIds, records'[i].path = p
                 PROVE  i \in moved'
      BY <2>1, <2>5 DEF NewPathsAreFree, RowsAt
    <3>1. CASE i = k
      BY <2>1, <2>4, <3>1
    <3>2. CASE i # k
      BY <1>i, <2>1, <2>5, <3>2 DEF NewPathsAreFree, RowsAt
    <3> QED
      BY <3>1, <3>2
  <2>15. SparesDeleted
    BY <2>1 DEF SparesDeleted
  <2> QED
    BY <1>h, <1>u, <2>1, <2>6, <2>7, <2>9, <2>12, <2>13, <2>14, <2>15 DEF LibraryInv
<1>22. CASE RollBackRename
  <2> DEFINE p == records[renamer.row].path
             q == renamer.to
  <2>1. /\ renamer # NoRename /\ renamer' = NoRename
        /\ \/ onDisk[q] # Absent /\ MovedOnDisk(q, p)
           \/ onDisk' = onDisk /\ timers' = timers /\ waiting' = waiting
        /\ records' = records /\ hasher' = hasher /\ hashOvertaken' = hashOvertaken
        /\ turns' = turns
        /\ scanner' = scanner /\ failed' = failed /\ prints' = prints /\ moved' = moved
    BY <1>22 DEF RollBackRename, UserOnly
  <2>2. q \in Files /\ p \in Files
    BY <1>i, <1>r, <2>1 DEF RenameHasRow, Records
  <2> HIDE DEF p, q
  <2>3. RowsTyped' /\ RenameHasRow'
    <3>1. NoRename \in [row : RowIds \cup {0}, to : Files \cup {AnyPath}, done : BOOLEAN]
      BY DEF NoRename
    <3> QED
      BY <1>r, <2>1, <3>1 DEF RowsTyped, RenameHasRow, RowIds
  <2>4. CASE onDisk[q] # Absent /\ MovedOnDisk(q, p)
    <3>1. DiskTyped' /\ QueueTyped' /\ Len(waiting') <= MaxWaiting
      BY <1>mv, <2>1, <2>2, <2>4
    <3>2. PrintsAreOwn' /\ HashFits' /\ \A x \in 0 .. MaxChanges : Gone(x) => Gone(x)'
      BY <1>m, <2>1, <2>2, <2>4
    <3> QED
      BY <1>a, <2>1, <2>3, <3>1, <3>2
  <2>5. CASE onDisk' = onDisk /\ timers' = timers /\ waiting' = waiting
    <3>1. DiskTyped' /\ QueueTyped'
      BY <1>o, <1>q, <2>1, <2>5 DEF DiskTyped, QueueTyped
    <3> QED
      BY <1>a, <1>h, <2>1, <2>3, <2>5, <3>1
  <2> QED
    BY <2>1, <2>4, <2>5
<1>23. CASE LibraryCrash
  <2>1. /\ timers' = {} /\ scanner' = ScanIdle /\ hasher' = NoHash /\ renamer' = NoRename
        /\ waiting' = IF scanner = ScanIdle THEN waiting ELSE <<scanner.job>> \o waiting
        /\ records' = records /\ hashOvertaken' = hashOvertaken /\ turns' = turns
        /\ onDisk' = onDisk /\ failed' = failed /\ prints' = prints /\ moved' = moved
    BY <1>23 DEF LibraryCrash
  <2>2. QueueTyped'
    <3>1. CASE scanner = ScanIdle
      BY <1>q, <2>1, <3>1 DEF QueueTyped
    <3>2. CASE scanner # ScanIdle
      BY <1>i, <1>q, <1>x, <2>1, <3>2 DEF QueueTyped, WorkerHasTask
    <3> QED
      BY <3>1, <3>2
  <2>3. DiskTyped'
    BY <1>o, <2>1 DEF DiskTyped
  <2>4. RowIds' = RowIds
    BY <2>1 DEF RowIds
  <2>5. RowsTyped' /\ RenameHasRow'
    <3>1. /\ NoRename \in [row : RowIds \cup {0}, to : Files \cup {AnyPath}, done : BOOLEAN]
          /\ NoHash \in [row : RowIds \cup {0}, print : 0 .. MaxChanges, content : 0 .. Torn]
      BY <1>p DEF NoRename, NoHash
    <3> QED
      BY <1>r, <2>1, <2>4, <3>1 DEF RowsTyped, RenameHasRow
  <2>6. RowsFit'
    BY <1>h, <1>k, <1>n, <2>1, <2>4
  <2>7. SparesDeleted
    BY <1>c, <2>1, <2>4
  <2> QED
    BY <1>e, <1>h, <1>u, <2>1, <2>2, <2>3, <2>5, <2>6, <2>7 DEF LibraryInv
<1>24. CASE UNCHANGED libraryVars
  <2>1. /\ timers' = timers /\ scanner' = scanner /\ hasher' = hasher /\ renamer' = renamer
        /\ waiting' = waiting /\ records' = records /\ hashOvertaken' = hashOvertaken
        /\ turns' = turns /\ onDisk' = onDisk /\ failed' = failed /\ prints' = prints
        /\ moved' = moved
    BY <1>24 DEF libraryVars
  <2>2. DiskTyped' /\ QueueTyped' /\ RowsTyped' /\ RenameHasRow'
    BY <1>i, <1>t, <2>1 DEF DiskTyped, QueueTyped, RowsTyped, RenameHasRow, RowIds
  <2> QED
    BY <1>a, <1>h, <2>1, <2>2
<1>25. ASSUME ScanWorker PROVE LibraryInv' /\ SparesDeleted
  BY <1>6, <1>7, <1>8, <1>9, <1>10, <1>11, <1>12, <1>13, <1>14, <1>15, <1>25 DEF ScanWorker
<1>26. ASSUME LibraryNext PROVE LibraryInv' /\ SparesDeleted
  BY <1>1, <1>2, <1>3, <1>4, <1>5, <1>16, <1>17, <1>18, <1>19, <1>20, <1>21, <1>22, <1>23, <1>25,
     <1>26, <1>27
  DEF LibraryNext, DeleteMedia, RestoreMedia
<1> QED
  BY <1>24, <1>26

\* A hash that counts as valid is the hash of the file its row describes, unless it was
\* stored between a scan's reading and writing of the row (file_hash.go), and a scan leaves
\* deleted rows deleted (library/service.go).
THEOREM IndexHolds == LibrarySpec => [](LibraryTypeOK /\ TrustedHashFits) /\ ScanSparesDeleted
<1> QED
  BY LibraryInitInv, LibraryStep, LibraryInvHolds, PTL DEF LibrarySpec, ScanSparesDeleted

-----------------------------------------------------------------------------
(***************************************************************************)
(* Inferred titles (inference.go). A task about to store has a batch, so   *)
(* that the media it stores next is one of the library's.                  *)
(***************************************************************************)

\* What the tasks are made of.
InferSteps == {"none", "pending"} \cup InferRunning
InferTasks == [at : InferSteps, conf : Confs, cursor : Media \cup {0}, batch : SUBSET Media,
               tries : 0 .. 2]

\* A task about to store has something to store.
BatchesAreFull == \A k \in InferKeys : task[k].at \in {"listed", "storing"} => task[k].batch # {}

\* The inductive invariant of inference.
InferenceInv == InferenceTypeOK /\ BatchesAreFull

\* No task is one of them.
LEMMA NoInferTaskIs == NoInferTask \in InferTasks /\ NoInferTask.at = "none" /\ NoInferTask.batch = {}
<1>1. Default \in Confs
  <2>1. 0 \in 0 .. MaxGeneration
    BY InferenceAssumption
  <2> QED
    BY <2>1 DEF Default, Confs
<1>2. "none" \in InferSteps /\ 0 \in 0 .. 2
  BY DEF InferSteps
<1> QED
  BY <1>1, <1>2 DEF NoInferTask, InferTasks

\* The least of a batch is in it.
LEMMA MinIs ==
  ASSUME NEW ids \in SUBSET Media, ids # {}
  PROVE  Min(ids) \in ids
<1>1. ids \in SUBSET Nat
  BY InferenceAssumption
<1>2. \E m \in ids : \A l \in ids : m <= l
  BY <1>1, LeastNatural
<1> QED
  BY <1>2 DEF Min

\* The next batch has the first of what there is.
LEMMA NextBatchIs ==
  ASSUME NEW k, Candidates(k) # {}
  PROVE  NextBatch(k) # {} /\ NextBatch(k) \in SUBSET Media
<1>1. Candidates(k) \in SUBSET Media
  BY DEF Candidates
<1>2. Candidates(k) \in SUBSET Nat
  BY <1>1, InferenceAssumption
<1>3. PICK m \in Candidates(k) : \A n \in Candidates(k) : m <= n
  BY <1>2, LeastNatural
<1>4. {n \in Candidates(k) : n < m} = {}
  BY <1>2, <1>3
<1>5. Cardinality({n \in Candidates(k) : n < m}) < BatchSize
  BY <1>4, FS_EmptySet, InferenceAssumption
<1> QED
  BY <1>1, <1>3, <1>5 DEF NextBatch

\* Saving an inferred title changes one row, and none that a person wrote.
LEMMA SavedIs ==
  ASSUME title \in [Media -> {"absent", "none", "auto", "manual"}], NEW m
  PROVE  /\ Saved(m) \in [Media -> {"absent", "none", "auto", "manual"}]
         /\ \A n \in Media : title[n] = "manual" => Saved(m)[n] = "manual"
  BY DEF Saved

\* It holds at first.
LEMMA InferenceInitInv == InferenceInit => InferenceInv
<1> SUFFICES ASSUME InferenceInit PROVE InferenceInv
  OBVIOUS
<1> USE InferenceAssumption
<1>1. /\ conf \in [enabled : {TRUE}, disabled : SUBSET Libraries, generation : {0}]
      /\ title \in [Media -> {"absent", "none"}] /\ adding = [m \in Media |-> "no"]
      /\ task = [k \in InferKeys |-> NoInferTask] /\ inferOvertaken = {}
      /\ givenUp = {m \in Media : title[m] = "none"}
  BY DEF InferenceInit
<1>2. conf \in Confs
  <2>1. 0 \in 0 .. MaxGeneration
    OBVIOUS
  <2>2. conf.enabled \in BOOLEAN /\ conf.generation = 0 /\ conf.disabled \in SUBSET Libraries
    BY <1>1
  <2>3. conf = [enabled |-> conf.enabled, disabled |-> conf.disabled, generation |-> conf.generation]
    BY <1>1
  <2> QED
    BY <2>1, <2>2, <2>3 DEF Confs
<1>3. task \in [InferKeys -> InferTasks] /\ \A k \in InferKeys : task[k].at = "none"
  BY <1>1, NoInferTaskIs
<1>4. title \in [Media -> {"absent", "none", "auto", "manual"}]
  BY <1>1
<1>5. InferenceTypeOK
  BY <1>1, <1>2, <1>3, <1>4 DEF InferenceTypeOK, InferTasks, InferSteps
<1> QED
  BY <1>3, <1>5 DEF InferenceInv, BatchesAreFull

\* Every step keeps the invariant, and what a person corrected.
LEMMA InferenceStep == InferenceInv /\ [InferenceNext]_inferenceVars => InferenceInv' /\ CorrectionStays
<1> SUFFICES ASSUME InferenceInv, [InferenceNext]_inferenceVars PROVE InferenceInv' /\ CorrectionStays
  OBVIOUS
<1> USE InferenceAssumption
<1> DEFINE Titles == {"absent", "none", "auto", "manual"}
           Addings == {"no", "asking", "saving", "failed"}
<1>t. /\ conf \in Confs /\ title \in [Media -> Titles] /\ adding \in [Media -> Addings]
      /\ task \in [InferKeys -> InferTasks] /\ inferOvertaken \subseteq Media
      /\ givenUp \subseteq Media
  BY DEF InferenceInv, InferenceTypeOK, InferTasks, InferSteps
<1>b. BatchesAreFull
  BY DEF InferenceInv
<1>u. ASSUME conf' \in Confs, title' \in [Media -> Titles], adding' \in [Media -> Addings],
             task' \in [InferKeys -> InferTasks], inferOvertaken' \subseteq Media, givenUp' \subseteq Media,
             BatchesAreFull'
      PROVE  InferenceInv'
  BY <1>u DEF InferenceInv, InferenceTypeOK, InferTasks, InferSteps
<1>k. ASSUME NEW k, NEW row, k \in InferKeys => row \in InferTasks,
             row.at \in {"listed", "storing"} => row.batch # {}, task' = [task EXCEPT ![k] = row]
      PROVE  task' \in [InferKeys -> InferTasks] /\ BatchesAreFull'
  <2>1. task' \in [InferKeys -> InferTasks]
    BY <1>t, <1>k
  <2>2. \A l \in InferKeys : task'[l] = IF l = k THEN row ELSE task[l]
    BY <1>t, <1>k
  <2> QED
    BY <1>b, <1>k, <2>1, <2>2 DEF BatchesAreFull
<1>o. ASSUME NEW k, Ends(k) PROVE task' \in [InferKeys -> InferTasks] /\ BatchesAreFull'
  BY <1>k, <1>o, NoInferTaskIs DEF Ends
<1>s. ASSUME task' = task PROVE task' \in [InferKeys -> InferTasks] /\ BatchesAreFull'
  BY <1>b, <1>s, <1>t DEF BatchesAreFull
<1>c. ASSUME title' = title PROVE title' \in [Media -> Titles] /\ CorrectionStays
  BY <1>c, <1>t DEF CorrectionStays
<1>m. \A k \in InferKeys : k.mode = "media" => k.of \in Media
  BY DEF InferKeys, Full, OfMedia, MissingTitle
<1>r. \A k \in InferKeys :
        /\ task[k] \in InferTasks /\ task[k].at \in InferSteps /\ task[k].conf \in Confs
        /\ task[k].cursor \in Media \cup {0} /\ task[k].batch \in SUBSET Media
        /\ task[k].tries \in 0 .. 2
  BY <1>t DEF InferTasks
<1> HIDE DEF Titles, Addings
<1>1. CASE SaveInferenceSettings
  <2>1. PICK enabled \in BOOLEAN, disabled \in SUBSET Libraries :
          LET new == [enabled |-> enabled, disabled |-> disabled, generation |-> conf.generation + 1]
              queues == Widens(conf, new) /\ Backfills(conf, new) # {}
          IN  /\ conf.generation < MaxGeneration /\ conf' = new
              /\ task' = IF queues /\ NewTask(new.generation)
                         THEN [task EXCEPT ![MissingTitle(new.generation)] =
                                 [NoInferTask EXCEPT !.at = "pending", !.conf = new]]
                         ELSE task
              /\ IF queues
                 THEN inferOvertaken' = inferOvertaken \ Lacking(new) /\ givenUp' = givenUp \ Lacking(new)
                 ELSE inferOvertaken' = inferOvertaken \cup Lacking(new) /\ givenUp' = givenUp
              /\ title' = title /\ adding' = adding
    BY <1>1 DEF SaveInferenceSettings
  <2> DEFINE new == [enabled |-> enabled, disabled |-> disabled, generation |-> conf.generation + 1]
             row == [NoInferTask EXCEPT !.at = "pending", !.conf = new]
  <2>2. new \in Confs
    BY <1>t, <2>1 DEF Confs
  <2> HIDE DEF new
  <2>3. row \in InferTasks /\ row.at = "pending"
    BY <2>2, NoInferTaskIs DEF InferTasks, InferSteps
  <2> HIDE DEF row
  <2>4. task' = task \/ task' = [task EXCEPT ![MissingTitle(new.generation)] = row]
    BY <2>1 DEF new, row
  <2>5. task' \in [InferKeys -> InferTasks] /\ BatchesAreFull'
    BY <1>k, <1>s, <2>3, <2>4
  <2>6. Lacking(new) \subseteq Media
    BY DEF Lacking
  <2>7. inferOvertaken' \subseteq Media /\ givenUp' \subseteq Media
    BY <1>t, <2>1, <2>6 DEF new
  <2>8. conf' = new /\ adding' = adding /\ title' = title
    BY <2>1 DEF new
  <2> QED
    BY <1>c, <1>t, <1>u, <2>2, <2>5, <2>7, <2>8
<1>2. CASE RestoreSettings
  <2>1. PICK enabled \in BOOLEAN, disabled \in SUBSET Libraries :
          conf' = [conf EXCEPT !.enabled = enabled, !.disabled = disabled]
    BY <1>2 DEF RestoreSettings
  <2>2. conf' \in Confs
    BY <1>t, <2>1 DEF Confs
  <2>3. /\ givenUp' = givenUp \cup Lacking(conf') /\ title' = title /\ adding' = adding
        /\ task' = task
        /\ inferOvertaken' = inferOvertaken
    BY <1>2 DEF RestoreSettings
  <2>4. Lacking(conf') \subseteq Media
    BY DEF Lacking
  <2> QED
    BY <1>c, <1>s, <1>t, <1>u, <2>2, <2>3, <2>4
<1>3. ASSUME NEW m \in Media, CorrectTitle(m) PROVE InferenceInv' /\ CorrectionStays
  <2>1. /\ title' = [title EXCEPT ![m] = "manual"] /\ conf' = conf /\ adding' = adding
        /\ task' = task
        /\ inferOvertaken' = inferOvertaken /\ givenUp' = givenUp
    BY <1>3 DEF CorrectTitle
  <2>2. title' \in [Media -> Titles] /\ CorrectionStays
    BY <1>t, <2>1 DEF Titles, CorrectionStays
  <2> QED
    BY <1>s, <1>t, <1>u, <2>1, <2>2
<1>4. ASSUME NEW m \in Media, CreateMedia(m) PROVE InferenceInv' /\ CorrectionStays
  <2>1. /\ title' = [title EXCEPT ![m] = "none"] /\ title[m] = "absent" /\ conf' = conf
        /\ adding' = [adding EXCEPT ![m] = "asking"] /\ task' = task
        /\ inferOvertaken' = inferOvertaken /\ givenUp' = givenUp
    BY <1>4 DEF CreateMedia
  <2>2. title' \in [Media -> Titles] /\ CorrectionStays
    BY <1>t, <2>1 DEF Titles, CorrectionStays
  <2>3. adding' \in [Media -> Addings]
    BY <1>t, <2>1 DEF Addings
  <2> QED
    BY <1>s, <1>t, <1>u, <2>1, <2>2, <2>3
<1>5. ASSUME NEW m \in Media, AskNew(m) PROVE InferenceInv' /\ CorrectionStays
  <2>1. /\ \E at \in Addings : adding' = [adding EXCEPT ![m] = at]
        /\ conf' = conf /\ title' = title /\ task' = task
        /\ inferOvertaken' = inferOvertaken /\ givenUp' = givenUp
    BY <1>5 DEF AskNew, Addings
  <2>2. adding' \in [Media -> Addings]
    BY <1>t, <2>1
  <2> QED
    BY <1>c, <1>s, <1>t, <1>u, <2>1, <2>2
<1>6. ASSUME NEW m \in Media, SaveNew(m) PROVE InferenceInv' /\ CorrectionStays
  <2>1. /\ \E at \in Addings : adding' = [adding EXCEPT ![m] = at]
        /\ conf' = conf /\ task' = task /\ title' \in {title, Saved(m)}
        /\ inferOvertaken' = inferOvertaken /\ givenUp' = givenUp
    BY <1>6 DEF SaveNew, Addings
  <2>2. adding' \in [Media -> Addings]
    BY <1>t, <2>1
  <2>3. title' \in [Media -> Titles] /\ CorrectionStays
    BY <1>c, <1>t, <2>1, SavedIs DEF Titles, CorrectionStays
  <2> QED
    BY <1>s, <1>t, <1>u, <2>1, <2>2, <2>3
<1>7. ASSUME NEW m \in Media, Compensate(m) PROVE InferenceInv' /\ CorrectionStays
  <2> DEFINE row == [NoInferTask EXCEPT !.at = "pending"]
  <2>1. /\ adding' = [adding EXCEPT ![m] = "no"] /\ conf' = conf /\ title' = title
        /\ task' = task \/ task' = [task EXCEPT ![OfMedia(m)] = row]
        /\ inferOvertaken' = inferOvertaken /\ givenUp' \in {givenUp, givenUp \cup {m}}
    BY <1>7 DEF Compensate
  <2>2. row \in InferTasks /\ row.at = "pending"
    BY NoInferTaskIs DEF InferTasks, InferSteps
  <2> HIDE DEF row
  <2>3. adding' \in [Media -> Addings]
    BY <1>t, <2>1 DEF Addings
  <2>4. task' \in [InferKeys -> InferTasks] /\ BatchesAreFull'
    BY <1>k, <1>s, <2>1, <2>2
  <2> QED
    BY <1>c, <1>t, <1>u, <2>1, <2>3, <2>4
<1>8. CASE AskFullRun
  <2>1. /\ task' = [task EXCEPT ![Full] = [task[Full] EXCEPT !.at = "pending"]]
        /\ conf' = conf /\ title' = title /\ adding' = adding
        /\ inferOvertaken' = inferOvertaken /\ givenUp' = givenUp
    BY <1>8 DEF AskFullRun
  <2>2. Full \in InferKeys
    BY DEF InferKeys
  <2> DEFINE row == [task[Full] EXCEPT !.at = "pending"]
  <2>3. row \in InferTasks /\ row.at = "pending"
    BY <1>r, <2>2 DEF InferTasks, InferSteps
  <2> HIDE DEF row
  <2>4. task' \in [InferKeys -> InferTasks] /\ BatchesAreFull'
    BY <1>k, <2>1, <2>3 DEF row
  <2> QED
    BY <1>c, <1>t, <1>u, <2>1, <2>4
\* A step of a task that changes no more than it and a title.
<1>q. ASSUME task' \in [InferKeys -> InferTasks], BatchesAreFull', title' \in [Media -> Titles],
             CorrectionStays, conf' = conf, adding' = adding, inferOvertaken' = inferOvertaken,
             givenUp' \subseteq Media
      PROVE  InferenceInv' /\ CorrectionStays
  BY <1>q, <1>t, <1>u
<1>9. ASSUME NEW k \in InferKeys, TakeInferBackfill(k) PROVE InferenceInv' /\ CorrectionStays
  <2> DEFINE row == [task[k] EXCEPT !.at = IF k.mode = "media" THEN "listed" ELSE "listing",
                                    !.batch = IF k.mode = "media" THEN {k.of} ELSE {},
                                    !.conf = IF k.mode = "full" THEN conf ELSE task[k].conf,
                                    !.cursor = 0]
  <2>1. /\ task' = [task EXCEPT ![k] = row] /\ conf' = conf /\ title' = title /\ adding' = adding
        /\ inferOvertaken' = inferOvertaken /\ givenUp' = givenUp
    BY <1>9 DEF TakeInferBackfill
  <2>2. row \in InferTasks
    BY <1>m, <1>r, <1>t DEF InferTasks, InferSteps, InferRunning
  <2>3. row.at \in {"listed", "storing"} => row.batch # {}
    BY <1>r DEF InferTasks
  <2> HIDE DEF row
  <2> QED
    BY <1>c, <1>k, <1>q, <1>t, <2>1, <2>2, <2>3
<1>10. ASSUME NEW k \in InferKeys, ListBatch(k) PROVE InferenceInv' /\ CorrectionStays
  <2> DEFINE row == [task[k] EXCEPT !.at = "listed", !.batch = NextBatch(k)]
  <2>1. /\ conf' = conf /\ title' = title /\ adding' = adding
        /\ inferOvertaken' = inferOvertaken /\ givenUp' = givenUp
        /\ \/ Ends(k)
           \/ /\ Candidates(k) # {}
              /\ task' = [task EXCEPT ![k].at = "listed", ![k].batch = NextBatch(k)]
    BY <1>10 DEF ListBatch
  <2>2. CASE Ends(k)
    BY <1>c, <1>o, <1>q, <1>t, <2>1, <2>2
  <2>3. CASE Candidates(k) # {} /\ task' = [task EXCEPT ![k].at = "listed", ![k].batch = NextBatch(k)]
    <3>1. NextBatch(k) # {} /\ NextBatch(k) \in SUBSET Media
      BY <2>3, NextBatchIs
    <3>2. row \in InferTasks /\ row.batch # {}
      BY <1>r, <3>1 DEF InferTasks, InferSteps, InferRunning
    <3>3. task' = [task EXCEPT ![k] = row]
      BY <1>t, <2>3
    <3> HIDE DEF row
    <3> QED
      BY <1>c, <1>k, <1>q, <1>t, <2>1, <3>2, <3>3
  <2> QED
    BY <2>1, <2>2, <2>3
<1>11. ASSUME NEW k \in InferKeys, CheckGeneration(k) \/ AskMedia(k) PROVE InferenceInv' /\ CorrectionStays
  <2> DEFINE row == [task[k] EXCEPT !.at = "storing"]
  <2>1. /\ conf' = conf /\ title' = title /\ adding' = adding /\ task[k].at = "listed"
        /\ inferOvertaken' = inferOvertaken /\ givenUp' = givenUp
        /\ Ends(k) \/ task' = [task EXCEPT ![k] = row]
    BY <1>11 DEF CheckGeneration, AskMedia
  <2>2. row \in InferTasks /\ row.batch # {}
    BY <1>b, <1>r, <2>1 DEF InferTasks, InferSteps, InferRunning, BatchesAreFull
  <2> HIDE DEF row
  <2>3. task' \in [InferKeys -> InferTasks] /\ BatchesAreFull'
    BY <1>k, <1>o, <2>1, <2>2
  <2> QED
    BY <1>c, <1>q, <1>t, <2>1, <2>3
<1>12. ASSUME NEW k \in InferKeys, StoreItem(k) PROVE InferenceInv' /\ CorrectionStays
  <2> DEFINE m == Min(task[k].batch)
             rest == task[k].batch \ {m}
             row == [task[k] EXCEPT !.batch = rest, !.cursor = m,
                                    !.at = IF rest = {} THEN "listing" ELSE "storing"]
  <2>1. /\ conf' = conf /\ title' \in {title, Saved(m)} /\ adding' = adding
        /\ task[k].at = "storing"
        /\ inferOvertaken' = inferOvertaken /\ givenUp' = givenUp
        /\ Ends(k) \/ task' = [task EXCEPT ![k] = row]
    BY <1>12 DEF StoreItem
  <2>2. m \in Media
    BY <1>b, <1>r, <2>1, MinIs DEF BatchesAreFull
  <2> HIDE DEF m
  <2>3. row \in InferTasks /\ (row.at \in {"listed", "storing"} => row.batch # {})
    BY <1>r, <2>2 DEF InferTasks, InferSteps, InferRunning
  <2> HIDE DEF row, rest
  <2>4. task' \in [InferKeys -> InferTasks] /\ BatchesAreFull'
    BY <1>k, <1>o, <2>1, <2>3
  <2>5. title' \in [Media -> Titles] /\ CorrectionStays
    BY <1>c, <1>t, <2>1, SavedIs DEF Titles, CorrectionStays
  <2> QED
    BY <1>q, <1>t, <2>1, <2>4, <2>5
<1>13. ASSUME NEW k \in InferKeys, BackfillFails(k) PROVE InferenceInv' /\ CorrectionStays
  <2> DEFINE row == [task[k] EXCEPT !.at = "pending", !.batch = {}, !.tries = task[k].tries + 1]
  <2>1. /\ conf' = conf /\ title' = title /\ adding' = adding /\ inferOvertaken' = inferOvertaken
        /\ \/ /\ task' = [task EXCEPT ![k].at = "pending", ![k].batch = {}, ![k].tries = @ + 1]
              /\ task[k].tries + 1 < 3 /\ givenUp' = givenUp
           \/ Ends(k) /\ givenUp' = givenUp \cup {m \in Media : title[m] = "none"}
    BY <1>13 DEF BackfillFails
  <2>2. givenUp' \subseteq Media
    BY <1>t, <2>1
  <2>3. task[k].tries + 1 < 3 => row \in InferTasks /\ row.at = "pending"
    <3> SUFFICES ASSUME task[k].tries + 1 < 3 PROVE row \in InferTasks /\ row.at = "pending"
      OBVIOUS
    <3>1. task[k].tries + 1 \in 0 .. 2
      BY <1>r
    <3> QED
      BY <1>r, <3>1 DEF InferTasks, InferSteps
  <2>4. Ends(k) \/ (task' = [task EXCEPT ![k] = row] /\ task[k].tries + 1 < 3)
    BY <1>t, <2>1
  <2> HIDE DEF row
  <2>5. task' \in [InferKeys -> InferTasks] /\ BatchesAreFull'
    BY <1>k, <1>o, <2>3, <2>4
  <2> QED
    BY <1>c, <1>q, <1>t, <2>1, <2>2, <2>5
<1>14. CASE InferenceCrash
  <2>1. /\ task' = [k \in InferKeys |-> Again(k)] /\ adding' = [m \in Media |-> "no"]
        /\ givenUp' = givenUp \cup {m \in Media : adding[m] # "no"}
        /\ conf' = conf /\ title' = title /\ inferOvertaken' = inferOvertaken
    BY <1>14 DEF InferenceCrash
  <2>2. \A k \in InferKeys : Again(k) \in InferTasks /\ Again(k).at \in {"none", "pending"}
    BY <1>r DEF Again, InferTasks, InferSteps
  <2>3. task' \in [InferKeys -> InferTasks] /\ BatchesAreFull'
    BY <2>1, <2>2 DEF BatchesAreFull
  <2>4. adding' \in [Media -> Addings]
    BY <2>1 DEF Addings
  <2>5. givenUp' \subseteq Media
    BY <1>t, <2>1
  <2> QED
    BY <1>c, <1>t, <1>u, <2>1, <2>3, <2>4, <2>5
<1>15. CASE UNCHANGED inferenceVars
  <2>1. /\ conf' = conf /\ title' = title /\ adding' = adding /\ task' = task
        /\ inferOvertaken' = inferOvertaken /\ givenUp' = givenUp
    BY <1>15 DEF inferenceVars
  <2> QED
    BY <1>c, <1>s, <1>t, <1>u, <2>1
<1> QED
  BY <1>1, <1>2, <1>3, <1>4, <1>5, <1>6, <1>7, <1>8, <1>9, <1>10, <1>11, <1>12, <1>13, <1>14, <1>15
  DEF InferenceNext, NewStep, TaskStep

\* A title a person corrected stays, whatever task or media is being stored when it is
\* corrected (inference.go).
THEOREM CorrectionsStayAlways == InferenceSpec => []InferenceTypeOK /\ CorrectionsStay
<1>1. InferenceInv => InferenceTypeOK
  BY DEF InferenceInv
<1> QED
  BY <1>1, InferenceInitInv, InferenceStep, PTL DEF InferenceSpec, CorrectionsStay

-----------------------------------------------------------------------------
(***************************************************************************)
(* Metadata of the files (metadata_tasks.go). What a parser has in hand    *)
(* was read from the file and is never ahead of it; a hook on its way is   *)
(* about a media.                                                          *)
(***************************************************************************)

\* What the rows and the workers are made of.
MetaRows == [of : 0 .. MaxContentTurns + 1, stale : BOOLEAN]
ChangeHooks == [at : {"idle", "mark", "enqueue"}, media : Parsed \cup {0}]
Refreshes == [at : {"idle", "mark", "enqueue"}, media : Parsed \cup {0}, print : ContentTurns]
ParseTasks == [at : {"none", "pending", "running"}, tries : 0 .. MetaAttempts - 1]
BackfillTasks == [at : {"none", "pending", "running"}, tries : 0 .. MetaAttempts - 1,
                  last : Parsed \cup {0}]
Parsers == [at : {"idle", "next", "parse", "check", "store", "save", "fail", "end"},
            media : Parsed \cup {0}, expects : SUBSET ContentTurns, got : ContentTurns]

\* A hook on its way is about a media.
HookIsAbout == changeHook.at # "idle" => changeHook.media \in Parsed

\* What a worker has in hand is of a media and was read from its file, and is
\* never ahead of the file; the task of a fingerprint knows which.
Serves(k, p) ==
  /\ p.at \in {"parse", "check", "store", "save"} => p.media \in Parsed
  /\ p.at \in {"check", "store"} => p.got <= ondisk[p.media]
  /\ k # "backfill" /\ p.at # "idle" =>
       p.media \in Parsed /\ \E v \in ContentTurns : p.expects = {v}
ParsersServe == \A k \in MetadataWorkers : Serves(k, parser[k])

\* The inductive invariant of metadata.
MetaInv == EmbeddedMetadataTypeOK /\ HookIsAbout /\ ParsersServe /\ RowsTruthful

\* Zero is one of the turns and of the attempts.
LEMMA MetaZeros ==
  /\ 0 \in ContentTurns /\ 0 \in 0 .. MetaAttempts - 1
  /\ MaxContentTurns + 1 \in 0 .. MaxContentTurns + 1
  /\ ContentTurns \subseteq 0 .. MaxContentTurns + 1 /\ ContentTurns \subseteq Nat
  BY EmbeddedMetadataAssumption DEF ContentTurns

\* The values everything starts from.
LEMMA MetaStarts ==
  /\ NoMetaRow \in MetaRows /\ NoHook \in ChangeHooks /\ NoParseTask \in ParseTasks
  /\ NoParser \in Parsers /\ NoRefresh \in Refreshes
  /\ [at |-> "none", tries |-> 0, last |-> 0] \in BackfillTasks
  /\ NoHook.at = "idle" /\ NoParser.at = "idle" /\ NoParser.got = 0
<1>1. NoMetaRow \in MetaRows
  BY MetaZeros DEF NoMetaRow, MetaRows
<1>2. NoHook \in ChangeHooks
  BY DEF NoHook, ChangeHooks
<1>3. NoParseTask \in ParseTasks
  BY MetaZeros DEF NoParseTask, ParseTasks
<1>4. NoParser \in Parsers
  BY MetaZeros DEF NoParser, Parsers
<1>5. [at |-> "none", tries |-> 0, last |-> 0] \in BackfillTasks
  BY MetaZeros DEF BackfillTasks
<1>6. NoRefresh \in Refreshes
  BY MetaZeros DEF NoRefresh, Refreshes
<1> QED
  BY <1>1, <1>2, <1>3, <1>4, <1>5, <1>6 DEF NoHook, NoParser

\* Marking a row leaves none, or one that says it is stale.
LEMMA MarkedIs ==
  ASSUME NEW r \in MetaRows
  PROVE  Marked(r) \in MetaRows /\ (Marked(r) = NoMetaRow \/ Marked(r).stale)
  BY DEF Marked, MetaRows

\* After a run a task is over, or waits with one attempt more.
LEMMA AfterParse ==
  ASSUME NEW t \in ParseTasks, NEW succeeded
  PROVE  AfterRun(t, succeeded, NoParseTask) \in ParseTasks
<1>1. t.tries \in 0 .. MetaAttempts - 1
  BY DEF ParseTasks
<1>2. CASE succeeded \/ t.tries + 1 = MetaAttempts
  BY <1>2, MetaStarts DEF AfterRun
<1>3. CASE ~(succeeded \/ t.tries + 1 = MetaAttempts)
  <2>1. t.tries + 1 \in 0 .. MetaAttempts - 1
    BY <1>1, <1>3, EmbeddedMetadataAssumption
  <2> QED
    BY <1>3, <2>1 DEF AfterRun, ParseTasks
<1> QED
  BY <1>2, <1>3

\* And so is the backfill.
LEMMA AfterBackfill ==
  ASSUME NEW t \in BackfillTasks, NEW succeeded
  PROVE  AfterRun(t, succeeded, [at |-> "none", tries |-> 0, last |-> 0]) \in BackfillTasks
<1>1. t.tries \in 0 .. MetaAttempts - 1
  BY DEF BackfillTasks
<1>2. CASE succeeded \/ t.tries + 1 = MetaAttempts
  BY <1>2, MetaStarts DEF AfterRun
<1>3. CASE ~(succeeded \/ t.tries + 1 = MetaAttempts)
  <2>1. t.tries + 1 \in 0 .. MetaAttempts - 1
    BY <1>1, <1>3, EmbeddedMetadataAssumption
  <2> QED
    BY <1>3, <2>1 DEF AfterRun, BackfillTasks
<1> QED
  BY <1>2, <1>3

\* Enqueueing changes no more than whether a task is there.
LEMMA EnqueuedIs ==
  ASSUME parseTask \in [Parsed -> [ContentTurns -> ParseTasks]], NEW m, NEW v
  PROVE  Enqueued(m, v) \in [Parsed -> [ContentTurns -> ParseTasks]]
<1>1. CASE m \in Parsed /\ v \in ContentTurns
  <2> DEFINE t == [parseTask[m][v] EXCEPT !.at = IF parseTask[m][v].at = "none" THEN "pending"
                                                ELSE parseTask[m][v].at]
  <2>1. parseTask[m] \in [ContentTurns -> ParseTasks] /\ parseTask[m][v] \in ParseTasks
    BY <1>1
  <2>2. t \in ParseTasks
    BY <2>1 DEF ParseTasks
  <2>3. Enqueued(m, v) = [parseTask EXCEPT ![m] = [parseTask[m] EXCEPT ![v] = t]]
    BY <1>1, <2>1 DEF Enqueued
  <2> HIDE DEF t
  <2> QED
    BY <2>1, <2>2, <2>3
<1>2. CASE m \in Parsed /\ v \notin ContentTurns
  <2>1. Enqueued(m, v) = parseTask
    BY <1>2 DEF Enqueued
  <2> QED
    BY <2>1
<1>3. CASE m \notin Parsed
  <2>1. Enqueued(m, v) = parseTask
    BY <1>3 DEF Enqueued
  <2> QED
    BY <2>1
<1> QED
  BY <1>1, <1>2, <1>3

\* It holds at first.
LEMMA MetaInitInv == EmbeddedMetadataInit /\ mishaps \in 0 .. MaxMishaps => MetaInv
<1> SUFFICES ASSUME EmbeddedMetadataInit, mishaps \in 0 .. MaxMishaps PROVE MetaInv
  OBVIOUS
<1>1. /\ ondisk = [m \in Parsed |-> 0] /\ scanned = [m \in Parsed |-> 0]
      /\ metaRow = [m \in Parsed |-> NoMetaRow] /\ changeHook = NoHook
      /\ refresh = NoRefresh
      /\ parseTask = [m \in Parsed |-> [v \in ContentTurns |-> NoParseTask]]
      /\ backfill = [at |-> "none", tries |-> 0, last |-> 0]
      /\ parser = [k \in MetadataWorkers |-> NoParser] /\ overtaken = {} /\ missed = {}
  BY DEF EmbeddedMetadataInit
<1>2. EmbeddedMetadataTypeOK
  BY <1>1, MetaZeros, MetaStarts
  DEF EmbeddedMetadataTypeOK, MetaRows, ChangeHooks, Refreshes, ParseTasks, BackfillTasks, Parsers
<1>3. ParsersServe
  BY <1>1, MetaStarts DEF ParsersServe, Serves
<1> QED
  BY <1>1, <1>2, <1>3, MetaStarts DEF MetaInv, HookIsAbout, RowsTruthful

\* Every step keeps the invariant.
LEMMA MetaStep == MetaInv /\ [EmbeddedMetadataNext]_metadataVars => MetaInv'
<1> SUFFICES ASSUME MetaInv, [EmbeddedMetadataNext]_metadataVars PROVE MetaInv'
  OBVIOUS
<1>t. /\ ondisk \in [Parsed -> ContentTurns] /\ scanned \in [Parsed -> ContentTurns]
      /\ \A m \in Parsed : scanned[m] <= ondisk[m]
      /\ metaRow \in [Parsed -> MetaRows] /\ changeHook \in ChangeHooks /\ refresh \in Refreshes
      /\ parseTask \in [Parsed -> [ContentTurns -> ParseTasks]]
      /\ backfill \in BackfillTasks /\ parser \in [MetadataWorkers -> Parsers]
      /\ overtaken \subseteq Parsed /\ missed \subseteq Parsed /\ mishaps \in 0 .. MaxMishaps
  BY DEF MetaInv, EmbeddedMetadataTypeOK, MetaRows, ChangeHooks, Refreshes, ParseTasks, BackfillTasks, Parsers
<1>i. HookIsAbout /\ ParsersServe /\ RowsTruthful
  BY DEF MetaInv
<1>z. mishaps' = mishaps \/ (mishaps < MaxMishaps /\ mishaps' = mishaps + 1) => mishaps' \in 0 .. MaxMishaps
  BY <1>t, FaultsAssumption
<1>u. ASSUME ondisk' \in [Parsed -> ContentTurns], scanned' \in [Parsed -> ContentTurns],
             \A m \in Parsed : scanned'[m] <= ondisk'[m],
             metaRow' \in [Parsed -> MetaRows], changeHook' \in ChangeHooks, refresh' \in Refreshes,
             parseTask' \in [Parsed -> [ContentTurns -> ParseTasks]],
             backfill' \in BackfillTasks, parser' \in [MetadataWorkers -> Parsers],
             overtaken' \subseteq Parsed, missed' \subseteq Parsed, mishaps' \in 0 .. MaxMishaps,
             HookIsAbout', ParsersServe', RowsTruthful'
      PROVE  MetaInv'
  BY <1>u
  DEF MetaInv, EmbeddedMetadataTypeOK, MetaRows, ChangeHooks, Refreshes, ParseTasks, BackfillTasks, Parsers
<1>m. Smooth \/ Mishap => mishaps' \in 0 .. MaxMishaps
  BY <1>z DEF Smooth, Mishap
\* A worker turns to another state.
<1>k. ASSUME NEW k \in MetadataWorkers, NEW p \in Parsers, Serves(k, p), ondisk' = ondisk,
             parser' = [parser EXCEPT ![k] = p]
      PROVE  parser' \in [MetadataWorkers -> Parsers] /\ ParsersServe'
  <2>1. \A l \in MetadataWorkers : parser'[l] = IF l = k THEN p ELSE parser[l]
    BY <1>k, <1>t
  <2> QED
    BY <1>i, <1>k, <1>t, <2>1 DEF ParsersServe, Serves
<1>s. ASSUME parser' = parser, ondisk' = ondisk
      PROVE  parser' \in [MetadataWorkers -> Parsers] /\ ParsersServe'
  BY <1>i, <1>s, <1>t DEF ParsersServe, Serves
<1>h. changeHook' = changeHook => HookIsAbout'
  BY <1>i DEF HookIsAbout
<1>r. ASSUME ondisk' = ondisk, scanned' = scanned, metaRow' = metaRow, changeHook' = changeHook,
             overtaken' = overtaken, missed' = missed
      PROVE  RowsTruthful'
  BY <1>i, <1>r DEF RowsTruthful, RowFresh, BeingMarked
\* Media and row of a state of a worker.
<1>p. \A k \in MetadataWorkers :
        /\ parser[k] \in Parsers /\ parser[k].media \in Parsed \cup {0}
        /\ parser[k].expects \in SUBSET ContentTurns /\ parser[k].got \in ContentTurns
        /\ Serves(k, parser[k])
  BY <1>i, <1>t DEF Parsers, ParsersServe
\* A worker whose step is no more than to another place.
<1>a. ASSUME NEW k \in MetadataWorkers, NEW at,
             at \in {"next", "parse", "check", "store", "save", "fail", "end"},
             ParserAt(k, at), parser[k].at # "idle", ondisk' = ondisk,
             at \in {"parse", "check", "store", "save"} =>
               parser[k].media \in Parsed /\ parser[k].got <= ondisk[parser[k].media]
      PROVE  parser' \in [MetadataWorkers -> Parsers] /\ ParsersServe'
  <2>1. [parser[k] EXCEPT !.at = at] \in Parsers
    BY <1>a, <1>p DEF Parsers
  <2>2. Serves(k, [parser[k] EXCEPT !.at = at])
    BY <1>a, <1>p DEF Serves, Parsers
  <2>3. parser' = [parser EXCEPT ![k] = [parser[k] EXCEPT !.at = at]]
    BY <1>a, <1>t DEF ParserAt
  <2> QED
    BY <1>a, <1>k, <2>1, <2>2, <2>3
<1>1. ASSUME NEW m \in Parsed, ChangeFile(m) PROVE MetaInv'
  <2>1. /\ ondisk[m] < MaxContentTurns /\ ondisk' = [ondisk EXCEPT ![m] = ondisk[m] + 1]
        /\ scanned' = scanned /\ metaRow' = metaRow /\ changeHook' = changeHook
        /\ parseTask' = parseTask /\ backfill' = backfill /\ parser' = parser /\ refresh' = refresh
        /\ overtaken' = overtaken /\ missed' = missed /\ mishaps' \in 0 .. MaxMishaps
    BY <1>1, <1>m DEF ChangeFile
  <2>2. ondisk[m] + 1 \in ContentTurns
    BY <1>t, <2>1, EmbeddedMetadataAssumption DEF ContentTurns
  <2>3. ondisk' \in [Parsed -> ContentTurns] /\ ondisk'[m] = ondisk[m] + 1
        /\ \A n \in Parsed \ {m} : ondisk'[n] = ondisk[n]
    BY <1>t, <2>1, <2>2
  <2>4. \A n \in Parsed : ondisk[n] \in Nat /\ scanned[n] \in Nat
    BY <1>t, MetaZeros
  <2>5. \A n \in Parsed : scanned'[n] <= ondisk'[n] /\ ondisk[n] <= ondisk'[n]
    BY <1>t, <2>1, <2>3, <2>4
  <2>6. ParsersServe'
    <3>1. ASSUME NEW k \in MetadataWorkers PROVE Serves(k, parser[k])'
      <4>1. parser'[k] = parser[k] /\ parser[k].got \in Nat
        BY <1>p, <2>1, MetaZeros
      <4> QED
        BY <1>p, <2>4, <2>3, <2>5, <4>1, MetaZeros DEF Serves
    <3> QED
      BY <3>1 DEF ParsersServe
  <2>7. RowsTruthful'
    <3>1. scanned'[m] # ondisk'[m]
      BY <1>t, <2>1, <2>3, <2>4
    <3> QED
      BY <1>i, <2>1, <2>3, <3>1 DEF RowsTruthful, RowFresh, BeingMarked
  <2> QED
    BY <1>h, <1>t, <1>u, <2>1, <2>3, <2>5, <2>6, <2>7
<1>2. ASSUME NEW m \in Parsed, ScanFile(m) PROVE MetaInv'
  <2>1. /\ changeHook = NoHook /\ scanned' = [scanned EXCEPT ![m] = ondisk[m]]
        /\ changeHook' = [at |-> "mark", media |-> m]
        /\ ondisk' = ondisk /\ metaRow' = metaRow
        /\ parseTask' = parseTask /\ backfill' = backfill /\ parser' = parser /\ refresh' = refresh
        /\ overtaken' = overtaken /\ missed' = missed /\ mishaps' \in 0 .. MaxMishaps
    BY <1>2, <1>m DEF ScanFile
  <2>2. scanned' \in [Parsed -> ContentTurns] /\ \A n \in Parsed : scanned'[n] <= ondisk'[n]
    <3>1. ondisk[m] \in Nat
      BY <1>t, MetaZeros
    <3> QED
      BY <1>t, <2>1, <3>1
  <2>3. changeHook' \in ChangeHooks /\ HookIsAbout'
    BY <2>1 DEF ChangeHooks, HookIsAbout
  <2>4. RowsTruthful'
    BY <1>i, <1>t, <2>1 DEF RowsTruthful, RowFresh, BeingMarked, NoHook
  <2> QED
    BY <1>s, <1>t, <1>u, <2>1, <2>2, <2>3, <2>4
<1>3. ASSUME NEW m \in Parsed, RefreshMediaMetadata(m) PROVE MetaInv'
  <2>1. /\ refresh' = [at |-> "mark", media |-> m, print |-> scanned[m]]
        /\ ondisk' = ondisk /\ scanned' = scanned /\ metaRow' = metaRow /\ changeHook' = changeHook
        /\ parseTask' = parseTask /\ backfill' = backfill /\ parser' = parser
        /\ overtaken' = overtaken /\ missed' = missed /\ mishaps' \in 0 .. MaxMishaps
    BY <1>3, <1>m DEF RefreshMediaMetadata
  <2>2. refresh' \in Refreshes
    BY <1>t, <2>1 DEF Refreshes
  <2> QED
    BY <1>h, <1>r, <1>s, <1>t, <1>u, <2>1, <2>2
<1>4. CASE RefreshMarksStale
  <2> DEFINE m == refresh.media
  <2>1. /\ \/ /\ metaRow' = [metaRow EXCEPT ![m] = Marked(metaRow[m])]
              /\ refresh' = [refresh EXCEPT !.at = "enqueue"]
           \/ refresh' = NoRefresh /\ metaRow' = metaRow
        /\ ondisk' = ondisk /\ scanned' = scanned /\ changeHook' = changeHook
        /\ parseTask' = parseTask /\ backfill' = backfill /\ parser' = parser
        /\ overtaken' = overtaken /\ missed' = missed /\ mishaps' \in 0 .. MaxMishaps
    BY <1>4, <1>m DEF RefreshMarksStale
  <2>2. refresh' \in Refreshes
    BY <1>t, <2>1, MetaStarts DEF Refreshes
  <2> HIDE DEF m
  <2>3. \A n \in Parsed : /\ metaRow'[n] \in MetaRows
                          /\ metaRow'[n] = metaRow[n] \/ metaRow'[n] = NoMetaRow \/ metaRow'[n].stale
    BY <1>t, <2>1, MarkedIs
  <2>4. metaRow' \in [Parsed -> MetaRows]
    BY <1>t, <2>1, <2>3
  <2>5. RowsTruthful'
    BY <1>i, <2>1, <2>3 DEF RowsTruthful, RowFresh, BeingMarked
  <2> QED
    BY <1>h, <1>s, <1>t, <1>u, <2>1, <2>2, <2>4, <2>5
<1>5. CASE RefreshEnqueues
  <2>1. /\ refresh' = NoRefresh
        /\ parseTask' = Enqueued(refresh.media, refresh.print) \/ parseTask' = parseTask
        /\ ondisk' = ondisk /\ scanned' = scanned /\ metaRow' = metaRow /\ changeHook' = changeHook
        /\ backfill' = backfill /\ parser' = parser
        /\ overtaken' = overtaken /\ missed' = missed /\ mishaps' \in 0 .. MaxMishaps
    BY <1>5, <1>m DEF RefreshEnqueues
  <2>2. parseTask' \in [Parsed -> [ContentTurns -> ParseTasks]]
    BY <1>t, <2>1, EnqueuedIs
  <2> QED
    BY <1>h, <1>r, <1>s, <1>t, <1>u, <2>1, <2>2, MetaStarts
\* Giving up is on record.
<1>g. ASSUME HookGivesUp, metaRow' = metaRow, ondisk' = ondisk, scanned' = scanned, overtaken' = overtaken
      PROVE  /\ changeHook' \in ChangeHooks /\ HookIsAbout' /\ missed' \subseteq Parsed /\ RowsTruthful'
  <2>1. changeHook' = NoHook /\ missed' = missed \cup Unsaid
    BY <1>g DEF HookGivesUp
  <2>2. Unsaid \subseteq Parsed
    BY <1>i DEF Unsaid, HookIsAbout
  <2>3. \A m \in Parsed : BeingMarked(m) => m \in Unsaid
    BY DEF BeingMarked, Unsaid
  <2>4. RowsTruthful'
    BY <1>g, <1>i, <2>1, <2>3 DEF RowsTruthful, RowFresh
  <2> QED
    BY <1>t, <2>1, <2>2, <2>4, MetaStarts DEF HookIsAbout
<1>6. CASE HookMarksStale
  <2> DEFINE about == changeHook.media
  <2>1. /\ changeHook.at = "mark"
        /\ ondisk' = ondisk /\ scanned' = scanned /\ parseTask' = parseTask
        /\ backfill' = backfill /\ parser' = parser /\ overtaken' = overtaken
        /\ refresh' = refresh /\ mishaps' \in 0 .. MaxMishaps
        /\ \/ /\ metaRow' = [metaRow EXCEPT ![about] = Marked(metaRow[about])]
              /\ changeHook' = [changeHook EXCEPT !.at = "enqueue"] /\ missed' = missed
           \/ HookGivesUp /\ metaRow' = metaRow
    BY <1>6, <1>m DEF HookMarksStale, HookGivesUp
  <2>2. CASE HookGivesUp /\ metaRow' = metaRow
    BY <1>g, <1>s, <1>t, <1>u, <2>1, <2>2
  <2>3. CASE /\ metaRow' = [metaRow EXCEPT ![about] = Marked(metaRow[about])]
             /\ changeHook' = [changeHook EXCEPT !.at = "enqueue"] /\ missed' = missed
    <3>1. about \in Parsed
      BY <1>i, <2>1 DEF HookIsAbout
    <3>2. metaRow' \in [Parsed -> MetaRows] /\ (metaRow'[about] = NoMetaRow \/ metaRow'[about].stale)
      BY <1>t, <2>3, <3>1, MarkedIs
    <3>3. changeHook' \in ChangeHooks /\ HookIsAbout'
      BY <1>t, <2>3, <3>1 DEF ChangeHooks, HookIsAbout
    <3>4. \A m \in Parsed : BeingMarked(m) => m = about
      BY DEF BeingMarked
    <3>5. \A m \in Parsed \ {about} : metaRow'[m] = metaRow[m]
      BY <1>t, <2>3
    <3> HIDE DEF about
    <3>6. RowsTruthful'
      BY <1>i, <2>1, <2>3, <3>2, <3>4, <3>5 DEF RowsTruthful, RowFresh
    <3> QED
      BY <1>s, <1>t, <1>u, <2>1, <2>3, <3>2, <3>3, <3>6
  <2> QED
    BY <2>1, <2>2, <2>3
<1>7. CASE HookEnqueues
  <2>1. /\ changeHook.at = "enqueue"
        /\ ondisk' = ondisk /\ scanned' = scanned /\ metaRow' = metaRow
        /\ backfill' = backfill /\ parser' = parser /\ overtaken' = overtaken
        /\ refresh' = refresh /\ mishaps' \in 0 .. MaxMishaps
        /\ \/ /\ parseTask' = Enqueued(changeHook.media, scanned[changeHook.media])
              /\ changeHook' = NoHook /\ missed' = missed
           \/ HookGivesUp /\ parseTask' = parseTask
    BY <1>7, <1>m DEF HookEnqueues, HookGivesUp
  <2>2. CASE HookGivesUp /\ parseTask' = parseTask
    BY <1>g, <1>s, <1>t, <1>u, <2>1, <2>2
  <2>3. CASE /\ parseTask' = Enqueued(changeHook.media, scanned[changeHook.media])
             /\ changeHook' = NoHook /\ missed' = missed
    <3>1. parseTask' \in [Parsed -> [ContentTurns -> ParseTasks]]
      BY <1>t, <2>3, EnqueuedIs
    <3>2. changeHook' \in ChangeHooks /\ HookIsAbout'
      BY <2>3, MetaStarts DEF HookIsAbout
    <3>3. RowsTruthful'
      BY <1>i, <2>1, <2>3 DEF RowsTruthful, RowFresh, BeingMarked
    <3> QED
      BY <1>s, <1>t, <1>u, <2>1, <2>3, <3>1, <3>2, <3>3
  <2> QED
    BY <2>1, <2>2, <2>3
<1>8. CASE BackfillMediaMetadata
  <2>1. /\ backfill' = [at |-> "pending", tries |-> 0, last |-> 0]
        /\ ondisk' = ondisk /\ scanned' = scanned /\ metaRow' = metaRow /\ changeHook' = changeHook
        /\ parseTask' = parseTask /\ parser' = parser /\ refresh' = refresh
        /\ overtaken' = overtaken /\ missed' = missed /\ mishaps' \in 0 .. MaxMishaps
    BY <1>8, <1>m DEF BackfillMediaMetadata
  <2>2. backfill' \in BackfillTasks
    BY <2>1, MetaZeros DEF BackfillTasks
  <2> QED
    BY <1>h, <1>r, <1>s, <1>t, <1>u, <2>1, <2>2
\* A step of a worker that stores nothing.
<1>q. ASSUME MetadataInputs' = MetadataInputs, metaRow' = metaRow, overtaken' = overtaken, Smooth \/ Mishap,
             backfill' \in BackfillTasks, parseTask' \in [Parsed -> [ContentTurns -> ParseTasks]],
             parser' \in [MetadataWorkers -> Parsers], ParsersServe'
      PROVE  MetaInv'
  <2>1. /\ ondisk' = ondisk /\ scanned' = scanned /\ changeHook' = changeHook /\ missed' = missed
        /\ refresh' = refresh
    BY <1>q DEF MetadataInputs
  <2> QED
    BY <1>h, <1>m, <1>q, <1>r, <1>t, <1>u, <2>1
<1>9. ASSUME NEW k \in MetadataWorkers, NEW m \in Parsed, NEW v \in ContentTurns, TakeParse(k, m, v)
      PROVE  MetaInv'
  <2> DEFINE p == [NoParser EXCEPT !.at = IF MatchesFingerprint({v}, m) THEN "parse" ELSE "end",
                                   !.media = m, !.expects = {v}]
  <2>1. /\ parseTask' = [parseTask EXCEPT ![m][v].at = "running"]
        /\ parser' = [parser EXCEPT ![k] = p]
        /\ MetadataInputs' = MetadataInputs /\ metaRow' = metaRow /\ backfill' = backfill
        /\ overtaken' = overtaken /\ Smooth
    BY <1>9 DEF TakeParse
  <2>2. parseTask' \in [Parsed -> [ContentTurns -> ParseTasks]]
    <3>1. parseTask[m] \in [ContentTurns -> ParseTasks] /\ parseTask[m][v] \in ParseTasks
      BY <1>t
    <3> DEFINE t == [parseTask[m][v] EXCEPT !.at = "running"]
    <3>2. t \in ParseTasks
      BY <3>1 DEF ParseTasks
    <3>3. parseTask' = [parseTask EXCEPT ![m] = [parseTask[m] EXCEPT ![v] = t]]
      BY <1>t, <2>1
    <3> HIDE DEF t
    <3> QED
      BY <1>t, <3>1, <3>2, <3>3
  <2>3. p \in Parsers /\ p.at \in {"parse", "end"} /\ p.media = m /\ p.expects = {v}
    BY MetaStarts DEF Parsers
  <2> HIDE DEF p
  <2>4. Serves(k, p)
    BY <2>3 DEF Serves
  <2>5. ondisk' = ondisk
    BY <2>1 DEF MetadataInputs
  <2> QED
    BY <1>k, <1>q, <1>t, <2>1, <2>2, <2>3, <2>4, <2>5
<1>b. "backfill" \in MetadataWorkers
  BY DEF MetadataWorkers
<1>10. CASE TakeBackfill
  <2>1. /\ backfill' = [backfill EXCEPT !.at = "running"] /\ parser["backfill"] = NoParser
        /\ parser' = [parser EXCEPT !["backfill"].at = "next"]
        /\ MetadataInputs' = MetadataInputs /\ metaRow' = metaRow /\ parseTask' = parseTask
        /\ overtaken' = overtaken /\ Smooth
    BY <1>10 DEF TakeBackfill, ParserAt
  <2> DEFINE p == [NoParser EXCEPT !.at = "next"]
  <2>2. p \in Parsers /\ p.at = "next"
    BY MetaStarts DEF Parsers
  <2>3. parser' = [parser EXCEPT !["backfill"] = p]
    BY <1>b, <1>t, <2>1
  <2> HIDE DEF p
  <2>4. Serves("backfill", p)
    BY <2>2 DEF Serves
  <2>5. ondisk' = ondisk /\ backfill' \in BackfillTasks
    BY <1>t, <2>1 DEF MetadataInputs, BackfillTasks
  <2> QED
    BY <1>b, <1>k, <1>q, <1>t, <2>1, <2>2, <2>3, <2>4, <2>5
<1>11. CASE NextMedia
  <2> DEFINE later == {m \in Parsed : m > backfill.last}
             next == CHOOSE m \in later : \A n \in later : m <= n
  <2>1. /\ parser["backfill"].at = "next"
        /\ \/ ParserAt("backfill", "end")
           \/ /\ later # {}
              /\ parser' = [parser EXCEPT !["backfill"].at = "parse", !["backfill"].media = next]
        /\ MetadataInputs' = MetadataInputs /\ metaRow' = metaRow /\ parseTask' = parseTask
        /\ backfill' = backfill /\ overtaken' = overtaken /\ Smooth
    BY <1>11 DEF NextMedia
  <2>2. ondisk' = ondisk
    BY <2>1 DEF MetadataInputs
  <2>3. CASE ParserAt("backfill", "end")
    BY <1>a, <1>b, <1>q, <1>t, <2>1, <2>2, <2>3
  <2>4. CASE /\ later # {}
             /\ parser' = [parser EXCEPT !["backfill"].at = "parse", !["backfill"].media = next]
    <3>1. later \in SUBSET Nat
      BY EmbeddedMetadataAssumption
    <3>2. \E m \in later : \A n \in later : m <= n
      BY <2>4, <3>1, LeastNatural
    <3>3. next \in later
      BY <3>2
    <3>4. next \in Parsed
      BY <3>3
    <3> HIDE DEF next
    <3> DEFINE p == [parser["backfill"] EXCEPT !.at = "parse", !.media = next]
    <3>5. p \in Parsers /\ p.at = "parse" /\ p.media = next
      BY <1>b, <1>p, <3>4 DEF Parsers
    <3>6. parser' = [parser EXCEPT !["backfill"] = p]
      BY <1>b, <1>t, <2>4
    <3> HIDE DEF p
    <3>7. Serves("backfill", p)
      BY <3>4, <3>5 DEF Serves
    <3> QED
      BY <1>b, <1>k, <1>q, <1>t, <2>1, <2>2, <3>5, <3>6, <3>7
  <2> QED
    BY <2>1, <2>3, <2>4
<1>12. ASSUME NEW k \in MetadataWorkers, ParseFile(k) PROVE MetaInv'
  <2> DEFINE p == [parser[k] EXCEPT !.at = "check", !.got = ondisk[parser[k].media]]
  <2>1. /\ parser[k].at = "parse"
        /\ ParserAt(k, "fail") \/ parser' = [parser EXCEPT ![k].at = "check", ![k].got = ondisk[parser[k].media]]
        /\ MetadataInputs' = MetadataInputs /\ metaRow' = metaRow /\ parseTask' = parseTask
        /\ backfill' = backfill /\ overtaken' = overtaken /\ (Smooth \/ Mishap)
    BY <1>12 DEF ParseFile
  <2>2. ondisk' = ondisk
    BY <2>1 DEF MetadataInputs
  <2>3. CASE ParserAt(k, "fail")
    BY <1>a, <1>q, <1>t, <2>1, <2>2, <2>3
  <2>4. CASE parser' = [parser EXCEPT ![k].at = "check", ![k].got = ondisk[parser[k].media]]
    <3>1. parser[k].media \in Parsed
      BY <1>p, <2>1 DEF Serves
    <3>2. ondisk[parser[k].media] \in ContentTurns /\ ondisk[parser[k].media] \in Nat
      BY <1>t, <3>1, MetaZeros
    <3>3. /\ p \in Parsers /\ p.at = "check" /\ p.media = parser[k].media
          /\ p.expects = parser[k].expects
          /\ p.got = ondisk[parser[k].media]
      BY <1>p, <3>2 DEF Parsers
    <3>4. parser' = [parser EXCEPT ![k] = p]
      BY <1>t, <2>4
    <3> HIDE DEF p
    <3>5. Serves(k, p)
      BY <1>p, <2>1, <3>1, <3>2, <3>3 DEF Serves
    <3> QED
      BY <1>k, <1>q, <1>t, <2>1, <2>2, <3>3, <3>4, <3>5
  <2> QED
    BY <2>1, <2>3, <2>4
<1>13. ASSUME NEW k \in MetadataWorkers, CheckAgain(k) PROVE MetaInv'
  <2>1. /\ parser[k].at = "check" /\ \E at \in {"store", "end"} : ParserAt(k, at)
        /\ MetadataInputs' = MetadataInputs /\ metaRow' = metaRow /\ parseTask' = parseTask
        /\ backfill' = backfill /\ overtaken' = overtaken /\ Smooth
    BY <1>13 DEF CheckAgain
  <2>2. ondisk' = ondisk
    BY <2>1 DEF MetadataInputs
  <2>3. parser[k].media \in Parsed /\ parser[k].got <= ondisk[parser[k].media]
    BY <1>p, <2>1 DEF Serves
  <2> QED
    BY <1>a, <1>q, <1>t, <2>1, <2>2, <2>3
<1>14. ASSUME NEW k \in MetadataWorkers, UpsertMetadata(k) PROVE MetaInv'
  <2>1. PICK m \in Parsed : m = parser[k].media /\ parser[k].at = "store" /\ parser[k].got <= ondisk[m]
    BY <1>14, <1>p DEF UpsertMetadata, Serves
  <2>2. /\ \/ /\ metaRow' = [metaRow EXCEPT ![m] = [of |-> parser[k].got, stale |-> FALSE]]
              /\ overtaken' = IF parser[k].got < scanned[m] THEN overtaken \cup {m}
                              ELSE overtaken \ {m}
              /\ \E at \in {"save", "end"} : ParserAt(k, at)
              /\ Smooth
           \/ /\ ParserAt(k, "fail") /\ metaRow' = metaRow /\ overtaken' = overtaken /\ Mishap
        /\ MetadataInputs' = MetadataInputs /\ parseTask' = parseTask /\ backfill' = backfill
    BY <1>14, <2>1 DEF UpsertMetadata
  <2>3. ondisk' = ondisk /\ scanned' = scanned /\ changeHook' = changeHook /\ missed' = missed
        /\ refresh' = refresh
    BY <2>2 DEF MetadataInputs
  <2>4. CASE ParserAt(k, "fail") /\ metaRow' = metaRow /\ overtaken' = overtaken /\ Mishap
    BY <1>a, <1>q, <1>t, <2>1, <2>2, <2>3, <2>4
  <2>5. CASE /\ metaRow' = [metaRow EXCEPT ![m] = [of |-> parser[k].got, stale |-> FALSE]]
             /\ overtaken' = IF parser[k].got < scanned[m] THEN overtaken \cup {m}
                             ELSE overtaken \ {m}
             /\ \E at \in {"save", "end"} : ParserAt(k, at)
             /\ Smooth
    <3>1. [of |-> parser[k].got, stale |-> FALSE] \in MetaRows
      BY <1>p, MetaZeros DEF MetaRows
    <3>2. /\ metaRow' \in [Parsed -> MetaRows] /\ metaRow'[m].of = parser[k].got
          /\ \A n \in Parsed \ {m} : metaRow'[n] = metaRow[n]
      BY <1>t, <2>5, <3>1
    <3>3. overtaken' \subseteq Parsed /\ \A n \in Parsed \ {m} : n \in overtaken => n \in overtaken'
      BY <1>t, <2>5
    <3>4. m \in overtaken' \/ parser[k].got = ondisk[m] \/ scanned[m] # ondisk[m]
      <4>1. parser[k].got \in Nat /\ ondisk[m] \in Nat /\ scanned[m] \in Nat
        BY <1>p, <1>t, MetaZeros
      <4> QED
        BY <2>1, <2>5, <4>1
    <3>5. RowsTruthful'
      BY <1>i, <2>3, <3>2, <3>3, <3>4 DEF RowsTruthful, RowFresh, BeingMarked
    <3>6. parser' \in [MetadataWorkers -> Parsers] /\ ParsersServe'
      BY <1>a, <2>1, <2>3, <2>5
    <3> QED
      BY <1>h, <1>m, <1>t, <1>u, <2>2, <2>3, <2>5, <3>2, <3>3, <3>5, <3>6
  <2> QED
    BY <2>2, <2>4, <2>5
<1>15. CASE SaveCheckpoint
  <2> DEFINE p == [NoParser EXCEPT !.at = "next"]
  <2>1. /\ parser["backfill"].at = "save"
        /\ \/ /\ backfill' = [backfill EXCEPT !.last = parser["backfill"].media]
              /\ parser' = [parser EXCEPT !["backfill"] = p] /\ Smooth
           \/ ParserAt("backfill", "fail") /\ backfill' = backfill /\ Mishap
        /\ MetadataInputs' = MetadataInputs /\ metaRow' = metaRow /\ parseTask' = parseTask
        /\ overtaken' = overtaken
    BY <1>15 DEF SaveCheckpoint
  <2>2. ondisk' = ondisk
    BY <2>1 DEF MetadataInputs
  <2>3. p \in Parsers /\ p.at = "next"
    BY MetaStarts DEF Parsers
  <2> HIDE DEF p
  <2>4. Serves("backfill", p)
    BY <2>3 DEF Serves
  <2>5. CASE /\ backfill' = [backfill EXCEPT !.last = parser["backfill"].media]
             /\ parser' = [parser EXCEPT !["backfill"] = p] /\ Smooth
    <3>1. backfill' \in BackfillTasks
      BY <1>b, <1>p, <1>t, <2>5 DEF BackfillTasks
    <3> QED
      BY <1>b, <1>k, <1>q, <1>t, <2>1, <2>2, <2>3, <2>4, <2>5, <3>1
  <2>6. CASE ParserAt("backfill", "fail") /\ backfill' = backfill /\ Mishap
    BY <1>a, <1>b, <1>q, <1>t, <2>1, <2>2, <2>6
  <2> QED
    BY <2>1, <2>5, <2>6
<1>16. ASSUME NEW k \in MetadataWorkers, EndParse(k) PROVE MetaInv'
  <2> DEFINE done == parser[k].at = "end"
             over == [at |-> "none", tries |-> 0, last |-> 0]
  <2>1. /\ parser[k].at \in {"end", "fail"} /\ parser' = [parser EXCEPT ![k] = NoParser]
        /\ MetadataInputs' = MetadataInputs /\ metaRow' = metaRow /\ overtaken' = overtaken
        /\ Smooth
    BY <1>16 DEF EndParse
  <2>2. ondisk' = ondisk
    BY <2>1 DEF MetadataInputs
  <2>3. Serves(k, NoParser)
    BY MetaStarts DEF Serves
  <2>4. parser' \in [MetadataWorkers -> Parsers] /\ ParsersServe'
    BY <1>k, <2>1, <2>2, <2>3, MetaStarts
  <2>5. backfill' \in BackfillTasks
    <3>1. backfill' = backfill \/ backfill' = AfterRun(backfill, done, over)
      BY <1>16 DEF EndParse
    <3> HIDE DEF done
    <3> QED
      BY <1>t, <3>1, AfterBackfill
  <2>6. parseTask' \in [Parsed -> [ContentTurns -> ParseTasks]]
    <3>1. CASE k = "backfill"
      BY <1>16, <1>t, <3>1 DEF EndParse
    <3>2. CASE k # "backfill"
      <4>1. PICK v \in ContentTurns : parser[k].expects = {v}
        BY <1>p, <2>1, <3>2 DEF Serves
      <4>2. parser[k].media \in Parsed
        BY <1>p, <2>1, <3>2 DEF Serves
      <4>3. (CHOOSE u \in parser[k].expects : TRUE) = v
        BY <4>1
      <4>4. parseTask' = [u \in ContentTurns |-> [parseTask EXCEPT ![parser[k].media][u] =
                AfterRun(@, done, NoParseTask)]][CHOOSE u \in parser[k].expects : TRUE]
        BY <1>16, <3>2 DEF EndParse
      <4>5. parseTask' = [parseTask EXCEPT ![parser[k].media][v] =
                AfterRun(parseTask[parser[k].media][v], done, NoParseTask)]
        BY <4>3, <4>4
      <4> HIDE DEF done
      <4>6. AfterRun(parseTask[parser[k].media][v], done, NoParseTask) \in ParseTasks
        BY <1>t, <4>2, AfterParse
      <4> QED
        BY <1>t, <4>2, <4>5, <4>6
    <3> QED
      BY <3>1, <3>2
  <2> QED
    BY <1>q, <2>1, <2>4, <2>5, <2>6
<1>17. CASE MetadataCrash
  <2> DEFINE again(t) == IF t.at = "running" THEN [t EXCEPT !.at = "pending"] ELSE t
  <2>1. /\ parseTask' = [m \in Parsed |-> [v \in ContentTurns |-> again(parseTask[m][v])]]
        /\ backfill' = again(backfill) /\ parser' = [k \in MetadataWorkers |-> NoParser]
        /\ refresh' = NoRefresh /\ HookGivesUp /\ ondisk' = ondisk /\ scanned' = scanned /\ metaRow' = metaRow
        /\ overtaken' = overtaken
    BY <1>17 DEF MetadataCrash, HookGivesUp
  <2>2. \A t \in ParseTasks : again(t) \in ParseTasks
    BY DEF ParseTasks
  <2>3. backfill' \in BackfillTasks
    BY <1>t, <2>1 DEF BackfillTasks
  <2>4. parseTask' \in [Parsed -> [ContentTurns -> ParseTasks]]
    <3> HIDE DEF again
    <3> QED
      BY <1>t, <2>1, <2>2
  <2>5. parser' \in [MetadataWorkers -> Parsers] /\ ParsersServe'
    BY <2>1, MetaStarts DEF ParsersServe, Serves
  <2>6. mishaps' \in 0 .. MaxMishaps
    BY <1>m, <2>1 DEF HookGivesUp
  <2> QED
    BY <1>g, <1>t, <1>u, <2>1, <2>3, <2>4, <2>5, <2>6, MetaStarts
<1>18. CASE UNCHANGED metadataVars
  <2>1. /\ ondisk' = ondisk /\ scanned' = scanned /\ metaRow' = metaRow /\ changeHook' = changeHook
        /\ parseTask' = parseTask /\ backfill' = backfill /\ parser' = parser
        /\ overtaken' = overtaken /\ missed' = missed /\ mishaps' = mishaps
        /\ refresh' = refresh
    BY <1>18 DEF metadataVars
  <2> QED
    BY <1>h, <1>r, <1>s, <1>t, <1>u, <2>1
<1> QED
  BY <1>1, <1>2, <1>3, <1>4, <1>5, <1>6, <1>7, <1>8, <1>9, <1>10, <1>11, <1>12, <1>13,
     <1>14, <1>15, <1>16, <1>17, <1>18
  DEF EmbeddedMetadataNext, ParserStep

\* A metadata row that does not say it is stale is of what the file contains, unless one of
\* the overlaps has come between that RowsTruthful names (metadata_tasks.go).
THEOREM MetadataHolds == EmbeddedMetadataSpec => [](EmbeddedMetadataTypeOK /\ RowsTruthful)
<1>1. MetaInv => EmbeddedMetadataTypeOK /\ RowsTruthful
  BY DEF MetaInv
<1>2. mishaps = 0 => mishaps \in 0 .. MaxMishaps
  BY FaultsAssumption
<1> QED
  BY <1>1, <1>2, MetaInitInv, MetaStep, PTL DEF EmbeddedMetadataSpec

-----------------------------------------------------------------------------
(***************************************************************************)
(* HLS previews (hls_preview_service.go). Until a second writer or a clean *)
(* has met a run, the run is alone at its directory, and what it finds     *)
(* there is what it made; a clean deletes the row of the manifest's        *)
(* variants before or after all of them, never between.                    *)
(***************************************************************************)

\* What streams, runs and the directory are made of.
StreamRows == [at : {"none", "pending", "running", "succeeded", "failed", "canceled"},
               force : BOOLEAN, ladder : SUBSET Variants, tries : 0 .. StreamAttempts - 1]
RunSteps == {"idle", "look", "prepare", "forget", "reset", "encode", "verify", "master",
             "register", "succeed", "fail"}
StreamRuns == [of : Streams \cup {0}, at : RunSteps, force : BOOLEAN, ladder : SUBSET Variants]
Directories == [there : BOOLEAN, parts : SUBSET Variants, master : SUBSET Variants]
Cleans == [at : {"idle", "deleting"}, left : SUBSET AssetNames, gone : SUBSET AssetNames]

\* Who asks for a stream names a variant, and a run has what its task asked.
LaddersAreAsked ==
  /\ \A s \in Streams : stream[s].at \in Unended => stream[s].ladder # {}
  /\ \A t \in Transcoders : transcoder[t].at # "idle" =>
       transcoder[t].of \in Streams /\ transcoder[t].ladder # {}

\* Until two writers have met, a run is alone at the directory.
WriterIsAlone ==
  excuse # "met" => \A t \in Transcoders : transcoder[t].at # "idle" =>
    cleaning = NoClean /\ \A u \in Transcoders : transcoder[u].at # "idle" => u = t

\* And what it finds there is what it has made.
RunIsOnCourse ==
  excuse # "met" => \A t \in Transcoders :
    LET at == transcoder[t].at IN
    /\ at \in {"forget", "reset", "encode", "verify", "master"} =>
         excuse = "none" /\ directory.master = {}
    /\ at \in {"reset", "encode", "verify", "master"} => assets = {}
    /\ at = "master" => transcoder[t].ladder \subseteq directory.parts
    /\ at \in {"register", "succeed"} => directory.master # {}

\* A set of rows that has variants has what is deleted after, or before, them.
Closed(names) == names \cap Variants # {} => names \cap {"master", "whole"} # {}

\* The rows of variants come with that of the manifest that names them.
RowsAreClosed == excuse = "none" /\ directory.master # {} => Closed(assets)

\* A clean that has skipped nothing gets to the manifest whose variants it has deleted.
CleanIsOnCourse ==
  excuse = "none" /\ cleaning.at = "deleting" =>
    /\ directory.master # {} => Closed(cleaning.left) /\ cleaning.gone \cap {"master", "whole"} = {}
    /\ directory.master \subseteq directory.parts \/ cleaning.left \cap {"master", "whole"} # {}
    /\ assets \subseteq cleaning.left \cup cleaning.gone \cup {"whole"}

\* The inductive invariant of HLS previews.
HLSInv ==
  /\ HLSTypeOK /\ LaddersAreAsked /\ WriterIsAlone /\ RunIsOnCourse /\ RowsAreClosed
  /\ CleanIsOnCourse /\ OfferedPlays

\* What the run checks follows from it.
LEMMA HLSHolds == HLSInv => HLSTypeOK /\ OfferedPlays /\ SuccessIsOffered
  BY DEF HLSInv, RunIsOnCourse, SuccessIsOffered

\* The rows the server writes.
LEMMA NoStreamIsRow ==
  /\ NoStream \in StreamRows /\ NoStream.at = "none"
  /\ \A how \in {"succeeded", "failed", "canceled"} :
       EndedAs(how) \in StreamRows /\ EndedAs(how).at = how
<1>1. 0 \in 0 .. StreamAttempts - 1
  BY HLSAssumption
<1>2. {} \in SUBSET Variants /\ FALSE \in BOOLEAN
  OBVIOUS
<1>3. ASSUME NEW at \in {"none", "succeeded", "failed", "canceled"}
      PROVE  [at |-> at, force |-> FALSE, ladder |-> {}, tries |-> 0] \in StreamRows
  BY <1>1, <1>2 DEF StreamRows
<1>5. NoStream \in StreamRows /\ NoStream.at = "none"
  BY <1>3 DEF NoStream
<1>4. ASSUME NEW how \in {"succeeded", "failed", "canceled"}
      PROVE  EndedAs(how) \in StreamRows /\ EndedAs(how).at = how
  BY <1>5 DEF EndedAs, StreamRows
<1> QED
  BY <1>4, <1>5

\* A task that is asked for is a row.
LEMMA NewStreamIsRow ==
  ASSUME NEW force \in BOOLEAN, NEW ladder \in Ladders
  PROVE  /\ [at |-> "pending", force |-> force, ladder |-> ladder, tries |-> 0] \in StreamRows
         /\ ladder # {}
<1>1. 0 \in 0 .. StreamAttempts - 1
  BY HLSAssumption
<1>2. ladder \in SUBSET Variants /\ ladder # {}
  BY DEF Ladders
<1> QED
  BY <1>1, <1>2 DEF StreamRows

\* A task that is tried again has attempts left.
LEMMA RetriedStreamIsRow ==
  ASSUME NEW row \in StreamRows, AttemptsRemain(row.tries)
  PROVE  [row EXCEPT !.at = "pending", !.tries = @ + 1] \in StreamRows
<1>1. row.tries + 1 \in 0 .. StreamAttempts - 1
  BY HLSAssumption DEF StreamRows, AttemptsRemain
<1>2. ASSUME NEW n \in 0 .. StreamAttempts - 1
      PROVE  [row EXCEPT !.at = "pending", !.tries = n] \in StreamRows
  BY DEF StreamRows
<1> QED
  BY <1>1, <1>2

\* It holds at first.
LEMMA HLSInitInv == HLSInit /\ mishaps = 0 => HLSInv
<1> SUFFICES ASSUME HLSInit, mishaps = 0 PROVE HLSInv
  OBVIOUS
<1> USE HLSAssumption, FaultsAssumption
<1>1. /\ adaptive \in BOOLEAN /\ directory = NoDirectory /\ assets = {} /\ cleaning = NoClean
      /\ excuse = "none" /\ mishaps = 0
      /\ stream = [s \in Streams |-> NoStream] /\ transcoder = [t \in Transcoders |-> NoRun]
  BY DEF HLSInit
<1>2. NoStream \in StreamRows /\ NoRun \in StreamRuns /\ NoDirectory \in Directories /\ NoClean \in Cleans
  BY NoStreamIsRow DEF NoRun, StreamRuns, RunSteps, NoDirectory, Directories, NoClean, Cleans
<1>3. stream \in [Streams -> StreamRows] /\ transcoder \in [Transcoders -> StreamRuns]
  BY <1>1, <1>2
<1>4. HLSTypeOK
  BY <1>1, <1>2, <1>3 DEF HLSTypeOK, StreamRows, StreamRuns, RunSteps, Directories, Cleans
<1>5. /\ \A s \in Streams : stream[s].at = "none"
      /\ \A t \in Transcoders : transcoder[t].at = "idle"
      /\ directory.master = {} /\ cleaning.at = "idle"
  BY <1>1 DEF NoStream, NoRun, NoDirectory, NoClean
<1> QED
  BY <1>1, <1>4, <1>5 DEF HLSInv, LaddersAreAsked, Unended, WriterIsAlone, RunIsOnCourse,
         RowsAreClosed,
     CleanIsOnCourse, OfferedPlays

\* Every step of the requests, of a run and of the clean keeps it.
LEMMA HLSStep == HLSInv /\ [HLSNext]_hlsVars => HLSInv'
<1> SUFFICES ASSUME HLSInv, [HLSNext]_hlsVars PROVE HLSInv'
  OBVIOUS
<1> USE HLSAssumption, FaultsAssumption
<1>i. /\ LaddersAreAsked /\ WriterIsAlone /\ RunIsOnCourse /\ RowsAreClosed /\ CleanIsOnCourse
      /\ OfferedPlays
  BY DEF HLSInv
<1>t. /\ adaptive \in BOOLEAN /\ stream \in [Streams -> StreamRows] /\ directory \in Directories
      /\ assets \subseteq AssetNames /\ transcoder \in [Transcoders -> StreamRuns]
      /\ cleaning \in Cleans
      /\ excuse \in {"none", "cut", "met"} /\ mishaps \in 0 .. MaxMishaps
  BY DEF HLSInv, HLSTypeOK, StreamRows, StreamRuns, RunSteps, Directories, Cleans
<1>u. ASSUME /\ adaptive' \in BOOLEAN /\ stream' \in [Streams -> StreamRows]
             /\ directory' \in Directories
             /\ assets' \subseteq AssetNames /\ transcoder' \in [Transcoders -> StreamRuns]
             /\ cleaning' \in Cleans /\ excuse' \in {"none", "cut", "met"}
             /\ mishaps' \in 0 .. MaxMishaps
      PROVE  HLSTypeOK'
  BY <1>u DEF HLSTypeOK, StreamRows, StreamRuns, RunSteps, Directories, Cleans
<1>p. /\ \A s \in Streams : stream[s] \in StreamRows
      /\ \A t \in Transcoders : transcoder[t] \in StreamRuns
  BY <1>t
<1>m. Smooth \/ Mishap => mishaps' \in 0 .. MaxMishaps
  BY <1>t DEF Smooth, Mishap
<1>n. /\ NoStream \in StreamRows /\ NoRun \in StreamRuns /\ NoDirectory \in Directories
      /\ EmptyDirectory \in Directories /\ NoClean \in Cleans
      /\ NoRun.at = "idle" /\ NoDirectory.master = {} /\ EmptyDirectory.master = {}
      /\ NoClean.at = "idle" /\ NoStream.at = "none"
  BY NoStreamIsRow DEF NoRun, StreamRuns, RunSteps, NoDirectory, EmptyDirectory, Directories,
         NoClean,
     Cleans
<1>1. ASSUME NEW s \in Streams, NEW force \in BOOLEAN, NEW ladder \in Ladders, EnqueueStream(s, force, ladder)
      PROVE  HLSInv'
  <2> DEFINE new == [at |-> "pending", force |-> force, ladder |-> ladder, tries |-> 0]
  <2>1. stream' = [stream EXCEPT ![s] = new] /\ mishaps' = mishaps
        /\ adaptive' = adaptive /\ directory' = directory /\ assets' = assets
        /\ transcoder' = transcoder
        /\ cleaning' = cleaning /\ excuse' = excuse
    BY <1>1 DEF EnqueueStream, Smooth
  <2>2. new \in StreamRows /\ new.ladder # {}
    BY NewStreamIsRow
  <2> HIDE DEF new
  <2>3. \A r \in Streams : stream'[r] = IF r = s THEN new ELSE stream[r]
    BY <1>t, <2>1
  <2>t. HLSTypeOK'
    BY <1>t, <1>u, <2>1, <2>2
  <2>a. LaddersAreAsked'
    BY <1>i, <2>1, <2>2, <2>3 DEF LaddersAreAsked
  <2>b. WriterIsAlone'
    BY <1>i, <2>1, <2>2, <2>3 DEF WriterIsAlone
  <2>c. RunIsOnCourse'
    BY <1>i, <2>1, <2>2, <2>3 DEF RunIsOnCourse
  <2>d. RowsAreClosed'
    BY <1>i, <2>1, <2>2, <2>3 DEF RowsAreClosed
  <2>e. CleanIsOnCourse'
    BY <1>i, <2>1, <2>2, <2>3 DEF CleanIsOnCourse
  <2>f. OfferedPlays'
    BY <1>i, <2>1, <2>2, <2>3 DEF OfferedPlays
  <2> QED
    BY <2>t, <2>a, <2>b, <2>c, <2>d, <2>e, <2>f DEF HLSInv
<1>2. ASSUME NEW s \in Streams, CancelStream(s) PROVE HLSInv'
  <2>1. stream' = [stream EXCEPT ![s] = EndedAs("canceled")] /\ mishaps' = mishaps
        /\ adaptive' = adaptive /\ directory' = directory /\ assets' = assets
        /\ transcoder' = transcoder
        /\ cleaning' = cleaning /\ excuse' = excuse
    BY <1>2 DEF CancelStream, Smooth
  <2>2. EndedAs("canceled") \in StreamRows /\ EndedAs("canceled").at = "canceled"
    BY NoStreamIsRow
  <2>3. \A r \in Streams : stream'[r] = IF r = s THEN EndedAs("canceled") ELSE stream[r]
    BY <1>t, <2>1
  <2>t. HLSTypeOK'
    BY <1>t, <1>u, <2>1, <2>2
  <2>a. LaddersAreAsked'
    BY <1>i, <2>1, <2>2, <2>3 DEF LaddersAreAsked, Unended
  <2>b. WriterIsAlone'
    BY <1>i, <2>1, <2>2, <2>3 DEF WriterIsAlone
  <2>c. RunIsOnCourse'
    BY <1>i, <2>1, <2>2, <2>3 DEF RunIsOnCourse
  <2>d. RowsAreClosed'
    BY <1>i, <2>1, <2>2, <2>3 DEF RowsAreClosed
  <2>e. CleanIsOnCourse'
    BY <1>i, <2>1, <2>2, <2>3 DEF CleanIsOnCourse
  <2>f. OfferedPlays'
    BY <1>i, <2>1, <2>2, <2>3 DEF OfferedPlays
  <2> QED
    BY <2>t, <2>a, <2>b, <2>c, <2>d, <2>e, <2>f DEF HLSInv
<1>3. ASSUME NEW t \in Transcoders, NEW s \in Streams, TakeStream(t, s) PROVE HLSInv'
  <2> DEFINE run == [of |-> s, at |-> "look", force |-> stream[s].force, ladder |-> stream[s].ladder]
  <2>1. /\ transcoder[t] = NoRun /\ stream[s].at = "pending"
        /\ stream' = [stream EXCEPT ![s].at = "running"]
        /\ transcoder' = [transcoder EXCEPT ![t] = run]
        /\ excuse' = IF Writers # {} \/ cleaning # NoClean THEN "met" ELSE excuse
        /\ adaptive' = adaptive /\ directory' = directory /\ assets' = assets
        /\ cleaning' = cleaning
        /\ mishaps' = mishaps
    BY <1>3 DEF TakeStream, Smooth
  <2>2. run \in StreamRuns /\ run.at = "look" /\ run.of = s /\ run.ladder = stream[s].ladder
    BY <1>p DEF StreamRows, StreamRuns, RunSteps
  <2> HIDE DEF run
  <2>3. \A u \in Transcoders : transcoder'[u] = IF u = t THEN run ELSE transcoder[u]
    BY <1>t, <2>1
  <2>4. [stream[s] EXCEPT !.at = "running"] \in StreamRows
    BY <1>p DEF StreamRows
  <2>5. /\ \A r \in Streams : r # s => stream'[r] = stream[r]
        /\ stream'[s].at = "running" /\ stream'[s].ladder = stream[s].ladder
    BY <1>t, <1>p, <2>1 DEF StreamRows
  <2>6. stream[s].ladder # {}
    BY <1>i, <2>1 DEF LaddersAreAsked, Unended
  <2>7. excuse' # "met" => excuse' = excuse /\ excuse # "met" /\ cleaning = NoClean
                           /\ \A u \in Transcoders : transcoder[u].at = "idle"
    BY <2>1 DEF Writers
  <2>8. excuse' \in {"none", "cut", "met"} /\ (excuse' = "none" => excuse = "none")
    BY <1>t, <2>1
  <2>t. HLSTypeOK'
    BY <1>t, <1>u, <2>1, <2>2, <2>4, <2>8
  <2>a. LaddersAreAsked'
    BY <1>i, <2>1, <2>2, <2>3, <2>7, <2>8, <2>5, <2>6 DEF LaddersAreAsked, Unended
  <2>b. WriterIsAlone'
    BY <1>i, <2>1, <2>2, <2>3, <2>7, <2>8 DEF WriterIsAlone
  <2>c. RunIsOnCourse'
    BY <1>i, <2>1, <2>2, <2>3, <2>7, <2>8 DEF RunIsOnCourse
  <2>d. RowsAreClosed'
    BY <1>i, <2>1, <2>2, <2>3, <2>7, <2>8 DEF RowsAreClosed
  <2>e. CleanIsOnCourse'
    BY <1>i, <2>1, <2>2, <2>3, <2>7, <2>8 DEF CleanIsOnCourse
  <2>f. OfferedPlays'
    BY <1>i, <2>1, <2>2, <2>3, <2>7, <2>8 DEF OfferedPlays
  <2> QED
    BY <2>t, <2>a, <2>b, <2>c, <2>d, <2>e, <2>f DEF HLSInv
<1>r. ASSUME NEW t \in Transcoders, NEW to \in RunSteps, RunTo(t, to), transcoder[t].at # "idle",
             adaptive' = adaptive, stream' = stream, cleaning' = cleaning
      PROVE  /\ transcoder' \in [Transcoders -> StreamRuns]
             /\ \A u \in Transcoders : u # t => transcoder'[u] = transcoder[u]
             /\ transcoder'[t].at = to /\ transcoder'[t].of = transcoder[t].of
             /\ transcoder'[t].ladder = transcoder[t].ladder
             /\ LaddersAreAsked' /\ (excuse' # "met" /\ excuse # "met" => WriterIsAlone')
             /\ excuse # "met" => cleaning.at = "idle"
                                  /\ \A u \in Transcoders \ {t} : transcoder'[u].at = "idle"
  <2>1. transcoder' = [transcoder EXCEPT ![t].at = to] /\ transcoder[t] \in StreamRuns
    BY <1>r, <1>p DEF RunTo
  <2>2. [transcoder[t] EXCEPT !.at = to] \in StreamRuns
    BY <2>1 DEF StreamRuns
  <2>3. transcoder' \in [Transcoders -> StreamRuns]
    BY <1>t, <2>1, <2>2
  <2>4. \A u \in Transcoders : u # t => transcoder'[u] = transcoder[u]
    BY <1>t, <2>1
  <2>5. transcoder'[t] = [transcoder[t] EXCEPT !.at = to]
    BY <1>t, <2>1
  <2>6. /\ transcoder'[t].at = to /\ transcoder'[t].of = transcoder[t].of
        /\ transcoder'[t].ladder = transcoder[t].ladder
    BY <2>1, <2>5 DEF StreamRuns
  <2>7. LaddersAreAsked'
    BY <1>i, <1>r, <2>4, <2>6 DEF LaddersAreAsked
  <2>8. excuse' # "met" /\ excuse # "met" => WriterIsAlone'
    BY <1>i, <1>r, <2>4, <2>6 DEF WriterIsAlone
  <2>9. excuse # "met" => cleaning.at = "idle" /\ \A u \in Transcoders \ {t} : transcoder'[u].at = "idle"
    BY <1>i, <1>r, <1>n, <2>4 DEF WriterIsAlone
  <2> QED
    BY <2>3, <2>4, <2>6, <2>7, <2>8, <2>9
<1>4. ASSUME NEW t \in Transcoders, LookForManifest(t) PROVE HLSInv'
  <2> DEFINE to == IF IsBuilt(directory) /\ ~transcoder[t].force THEN "register" ELSE "prepare"
  <2>1. /\ transcoder[t].at = "look" /\ RunTo(t, to) /\ directory' = directory /\ assets' = assets
        /\ adaptive' = adaptive /\ stream' = stream /\ cleaning' = cleaning /\ excuse' = excuse
        /\ mishaps' = mishaps
    BY <1>4 DEF LookForManifest, Smooth, RunOnly
  <2>2. to \in {"register", "prepare"} /\ (to = "register" => directory.master # {})
    BY DEF IsBuilt
  <2> HIDE DEF to
  <2>3. to \in RunSteps
    BY <2>2 DEF RunSteps
  <2>r. /\ transcoder' \in [Transcoders -> StreamRuns] /\ LaddersAreAsked' /\ WriterIsAlone'
        /\ transcoder'[t].at = to
        /\ excuse # "met" => cleaning.at = "idle" /\ \A u \in Transcoders \ {t} : transcoder'[u].at = "idle"
    BY <1>r, <2>1, <2>3 DEF WriterIsAlone
  <2>t. HLSTypeOK'
    BY <1>t, <1>u, <2>1, <2>r
  <2>c. RunIsOnCourse'
    BY <2>1, <2>2, <2>r DEF RunIsOnCourse
  <2>d. RowsAreClosed' /\ OfferedPlays' /\ CleanIsOnCourse'
    BY <1>i, <2>1 DEF RowsAreClosed, OfferedPlays, CleanIsOnCourse, Closed
  <2> QED
    BY <2>t, <2>c, <2>d, <2>r DEF HLSInv
<1>5. ASSUME NEW t \in Transcoders, PrepareHLSRebuild(t) PROVE HLSInv'
  <2> DEFINE to == transcoder'[t].at
  <2>1. /\ transcoder[t].at = "prepare" /\ adaptive' = adaptive /\ stream' = stream
        /\ cleaning' = cleaning
        /\ assets' = assets /\ (Smooth \/ Mishap)
        /\ \/ directory' = NoDirectory /\ RunTo(t, "forget")
           \/ directory' = directory /\ RunTo(t, "fail")
        /\ excuse' = IF excuse = "cut" /\ directory' = NoDirectory THEN "none" ELSE excuse
    BY <1>5 DEF PrepareHLSRebuild
  <2>2. {"forget", "fail"} \subseteq RunSteps
    BY DEF RunSteps
  <2>3. excuse' \in {"none", "cut", "met"} /\ (excuse' = "met" <=> excuse = "met")
        /\ (excuse' = "cut" => directory' # NoDirectory) /\ directory' \in Directories
        /\ (excuse' = "none" => directory'.master = {} \/ (directory' = directory /\ excuse = "none"))
    BY <1>t, <1>n, <2>1
  <2>r. /\ transcoder' \in [Transcoders -> StreamRuns] /\ LaddersAreAsked' /\ WriterIsAlone'
        /\ excuse # "met" => cleaning.at = "idle" /\ \A u \in Transcoders \ {t} : transcoder'[u].at = "idle"
        /\ (transcoder'[t].at = "forget" /\ directory' = NoDirectory) \/ transcoder'[t].at = "fail"
    BY <1>r, <2>1, <2>2, <2>3 DEF WriterIsAlone
  <2>t. HLSTypeOK'
    BY <1>t, <1>u, <1>m, <2>1, <2>3, <2>r
  <2>c. RunIsOnCourse'
    BY <1>n, <2>3, <2>r DEF RunIsOnCourse
  <2>d. RowsAreClosed' /\ OfferedPlays'
    BY <1>i, <2>1, <2>3 DEF RowsAreClosed, OfferedPlays, Closed
  <2>e. CleanIsOnCourse'
    BY <2>1, <2>3, <2>r DEF CleanIsOnCourse
  <2> QED
    BY <2>t, <2>c, <2>d, <2>e, <2>r DEF HLSInv
<1>6. ASSUME NEW t \in Transcoders, ForgetAssets(t) PROVE HLSInv'
  <2>1. /\ transcoder[t].at = "forget" /\ adaptive' = adaptive /\ stream' = stream
        /\ cleaning' = cleaning
        /\ directory' = directory /\ excuse' = excuse /\ (Smooth \/ Mishap)
        /\ \/ assets' = {} /\ (RunTo(t, "fail") \/ RunTo(t, "reset"))
           \/ assets' = assets /\ RunTo(t, "fail")
    BY <1>6 DEF ForgetAssets, RunOnly
  <2>2. {"reset", "fail"} \subseteq RunSteps /\ assets' \subseteq AssetNames
    BY <1>t, <2>1 DEF RunSteps
  <2>3. excuse # "met" => excuse = "none" /\ directory.master = {}
    BY <1>i, <2>1 DEF RunIsOnCourse
  <2>r. /\ transcoder' \in [Transcoders -> StreamRuns] /\ LaddersAreAsked' /\ WriterIsAlone'
        /\ excuse # "met" => cleaning.at = "idle" /\ \A u \in Transcoders \ {t} : transcoder'[u].at = "idle"
        /\ (transcoder'[t].at = "reset" /\ assets' = {}) \/ transcoder'[t].at = "fail"
    BY <1>r, <2>1, <2>2 DEF WriterIsAlone
  <2>t. HLSTypeOK'
    BY <1>t, <1>u, <1>m, <2>1, <2>2, <2>r
  <2>c. RunIsOnCourse'
    BY <2>1, <2>3, <2>r DEF RunIsOnCourse
  <2>d. RowsAreClosed' /\ OfferedPlays'
    BY <1>i, <2>1 DEF RowsAreClosed, OfferedPlays, Closed
  <2>e. CleanIsOnCourse'
    BY <2>1, <2>3, <2>r DEF CleanIsOnCourse
  <2> QED
    BY <2>t, <2>c, <2>d, <2>e, <2>r DEF HLSInv
<1>7. ASSUME NEW t \in Transcoders, ResetHLSOutputDir(t) PROVE HLSInv'
  <2>1. /\ transcoder[t].at = "reset" /\ adaptive' = adaptive /\ stream' = stream
        /\ cleaning' = cleaning
        /\ directory' = EmptyDirectory /\ excuse' = excuse /\ mishaps' = mishaps /\ assets' = assets
        /\ RunTo(t, "encode")
    BY <1>7 DEF ResetHLSOutputDir, RunOnly, Smooth
  <2>2. "encode" \in RunSteps
    BY DEF RunSteps
  <2>3. excuse # "met" => excuse = "none" /\ assets = {}
    BY <1>i, <2>1 DEF RunIsOnCourse
  <2>r. /\ transcoder' \in [Transcoders -> StreamRuns] /\ LaddersAreAsked' /\ WriterIsAlone'
        /\ excuse # "met" => cleaning.at = "idle" /\ \A u \in Transcoders \ {t} : transcoder'[u].at = "idle"
        /\ transcoder'[t].at = "encode"
    BY <1>r, <2>1, <2>2 DEF WriterIsAlone
  <2>t. HLSTypeOK'
    BY <1>t, <1>u, <1>n, <2>1, <2>r
  <2>c. RunIsOnCourse'
    BY <1>n, <2>1, <2>3, <2>r DEF RunIsOnCourse
  <2>d. RowsAreClosed' /\ OfferedPlays'
    BY <1>n, <2>1 DEF RowsAreClosed, OfferedPlays
  <2>e. CleanIsOnCourse'
    BY <2>1, <2>3, <2>r DEF CleanIsOnCourse
  <2> QED
    BY <2>t, <2>c, <2>d, <2>e, <2>r DEF HLSInv
<1>8. ASSUME NEW t \in Transcoders, Encode(t) PROVE HLSInv'
  <2>1. /\ transcoder[t].at = "encode" /\ adaptive' = adaptive /\ stream' = stream
        /\ cleaning' = cleaning
        /\ excuse' = excuse /\ (Smooth \/ Mishap) /\ assets' = assets
        /\ \/ directory' = [directory EXCEPT !.parts = @ \cup transcoder[t].ladder] /\ RunTo(t, "verify")
           \/ directory' = NoDirectory /\ RunTo(t, "fail")
    BY <1>8 DEF Encode, RunOnly, GivesUp, MishapIf
  <2>2. {"verify", "fail"} \subseteq RunSteps
    BY DEF RunSteps
  <2>3. excuse # "met" => excuse = "none" /\ assets = {} /\ directory.master = {}
    BY <1>i, <2>1 DEF RunIsOnCourse
  <2>4. /\ directory' \in Directories /\ (directory.master = {} => directory'.master = {})
        /\ directory.master \subseteq directory.parts => directory'.master \subseteq directory'.parts
    BY <1>t, <1>p, <1>n, <2>1 DEF Directories, StreamRuns
  <2>r. /\ transcoder' \in [Transcoders -> StreamRuns] /\ LaddersAreAsked' /\ WriterIsAlone'
        /\ excuse # "met" => cleaning.at = "idle" /\ \A u \in Transcoders \ {t} : transcoder'[u].at = "idle"
        /\ transcoder'[t].at \in {"verify", "fail"}
    BY <1>r, <2>1, <2>2 DEF WriterIsAlone
  <2>t. HLSTypeOK'
    BY <1>t, <1>u, <1>m, <2>1, <2>4, <2>r
  <2>c. RunIsOnCourse'
    BY <2>1, <2>3, <2>4, <2>r DEF RunIsOnCourse
  <2>d. RowsAreClosed' /\ OfferedPlays'
    BY <1>i, <2>1, <2>3, <2>4 DEF RowsAreClosed, OfferedPlays
  <2>e. CleanIsOnCourse'
    BY <2>1, <2>3, <2>r DEF CleanIsOnCourse
  <2> QED
    BY <2>t, <2>c, <2>d, <2>e, <2>r DEF HLSInv
<1>9. ASSUME NEW t \in Transcoders, VerifyOutputs(t) PROVE HLSInv'
  <2>1. /\ transcoder[t].at = "verify" /\ adaptive' = adaptive /\ stream' = stream
        /\ cleaning' = cleaning
        /\ excuse' = excuse /\ mishaps' = mishaps /\ assets' = assets
        /\ \/ directory' = directory /\ RunTo(t, "master") /\ transcoder[t].ladder \subseteq directory.parts
           \/ directory' = NoDirectory /\ RunTo(t, "fail")
    BY <1>9 DEF VerifyOutputs, RunOnly, GivesUp, Smooth
  <2>2. {"master", "fail"} \subseteq RunSteps
    BY DEF RunSteps
  <2>3. excuse # "met" => excuse = "none" /\ assets = {} /\ directory.master = {}
    BY <1>i, <2>1 DEF RunIsOnCourse
  <2>4. /\ directory' \in Directories /\ (directory.master = {} => directory'.master = {})
        /\ directory.master \subseteq directory.parts => directory'.master \subseteq directory'.parts
    BY <1>t, <1>n, <2>1 DEF Directories
  <2>r. /\ transcoder' \in [Transcoders -> StreamRuns] /\ LaddersAreAsked' /\ WriterIsAlone'
        /\ excuse # "met" => cleaning.at = "idle" /\ \A u \in Transcoders \ {t} : transcoder'[u].at = "idle"
        /\ \/ transcoder'[t].at = "fail"
           \/ transcoder'[t].at = "master" /\ transcoder'[t].ladder \subseteq directory'.parts
    BY <1>r, <2>1, <2>2 DEF WriterIsAlone
  <2>t. HLSTypeOK'
    BY <1>t, <1>u, <2>1, <2>4, <2>r
  <2>c. RunIsOnCourse'
    BY <2>1, <2>3, <2>4, <2>r DEF RunIsOnCourse
  <2>d. RowsAreClosed' /\ OfferedPlays'
    BY <1>i, <2>1, <2>3, <2>4 DEF RowsAreClosed, OfferedPlays
  <2>e. CleanIsOnCourse'
    BY <2>1, <2>3, <2>r DEF CleanIsOnCourse
  <2> QED
    BY <2>t, <2>c, <2>d, <2>e, <2>r DEF HLSInv
<1>10. ASSUME NEW t \in Transcoders, WriteMaster(t) PROVE HLSInv'
  <2>1. /\ transcoder[t].at = "master" /\ adaptive' = adaptive /\ stream' = stream
        /\ cleaning' = cleaning
        /\ excuse' = excuse /\ (Smooth \/ Mishap) /\ assets' = assets
        /\ \/ /\ directory' = [directory EXCEPT !.master = transcoder[t].ladder]
              /\ RunTo(t, "fail") \/ RunTo(t, "register")
           \/ directory' = NoDirectory /\ RunTo(t, "fail")
    BY <1>10 DEF WriteMaster, RunOnly, GivesUp, MishapIf
  <2>2. {"register", "fail"} \subseteq RunSteps
    BY DEF RunSteps
  <2>3. excuse # "met" => excuse = "none" /\ assets = {} /\ transcoder[t].ladder \subseteq directory.parts
    BY <1>i, <2>1 DEF RunIsOnCourse
  <2>4. /\ directory' \in Directories
        /\ \/ directory'.master = {}
           \/ directory'.master = transcoder[t].ladder /\ directory'.parts = directory.parts
    BY <1>t, <1>p, <1>n, <2>1 DEF Directories, StreamRuns
  <2>5. transcoder[t].ladder # {}
    BY <1>i, <2>1 DEF LaddersAreAsked
  <2>6. transcoder'[t].at = "fail" \/ (transcoder'[t].at = "register" /\ directory'.master # {})
    BY <1>t, <1>p, <1>r, <2>1, <2>2, <2>5 DEF Directories, StreamRuns
  <2>r. /\ transcoder' \in [Transcoders -> StreamRuns] /\ LaddersAreAsked' /\ WriterIsAlone'
        /\ excuse # "met" => cleaning.at = "idle" /\ \A u \in Transcoders \ {t} : transcoder'[u].at = "idle"
    BY <1>r, <2>1, <2>2 DEF WriterIsAlone
  <2>t. HLSTypeOK'
    BY <1>t, <1>u, <1>m, <2>1, <2>4, <2>r
  <2>c. RunIsOnCourse'
    BY <2>1, <2>6, <2>r DEF RunIsOnCourse
  <2>d. RowsAreClosed' /\ OfferedPlays'
    BY <1>i, <2>1, <2>3, <2>4 DEF RowsAreClosed, OfferedPlays, Closed
  <2>e. CleanIsOnCourse'
    BY <2>1, <2>3, <2>r DEF CleanIsOnCourse
  <2> QED
    BY <2>t, <2>c, <2>d, <2>e, <2>r DEF HLSInv
<1>11. ASSUME NEW t \in Transcoders, RegisterAssets(t) PROVE HLSInv'
  <2>1. /\ transcoder[t].at = "register" /\ adaptive' = adaptive /\ stream' = stream
        /\ cleaning' = cleaning
        /\ excuse' = excuse /\ (Smooth \/ Mishap) /\ directory' = directory
        /\ RunTo(t, "succeed") \/ RunTo(t, "fail")
    BY <1>11 DEF RegisterAssets, RunOnly, MishapIf
  <2>2. {"succeed", "fail"} \subseteq RunSteps
    BY DEF RunSteps
  <2>3. PICK some : /\ assets' = assets \cup some /\ some \subseteq Wanted(t)
                    /\ some = {} \/ some \cap {"master", "whole"} # {}
    <3>1. CASE assets' = assets \cup Wanted(t)
      BY <3>1 DEF Wanted
    <3>2. CASE \E x \in SUBSET (Wanted(t) \cap PlaylistsOnDisk) :
                 (x = {} \/ x \cap {"master", "whole"} # {}) /\ assets' = assets \cup x
      BY <3>2
    <3> QED
      BY <1>11, <3>1, <3>2 DEF RegisterAssets
  <2>4. Wanted(t) \subseteq AssetNames
    BY <1>p DEF Wanted, AssetNames, StreamRuns
  <2>5. assets' \subseteq AssetNames /\ (Closed(assets) => Closed(assets'))
    BY <1>t, <2>3, <2>4 DEF Closed
  <2>6. excuse # "met" => directory.master # {}
    BY <1>i, <2>1 DEF RunIsOnCourse
  <2>r. /\ transcoder' \in [Transcoders -> StreamRuns] /\ LaddersAreAsked' /\ WriterIsAlone'
        /\ excuse # "met" => cleaning.at = "idle" /\ \A u \in Transcoders \ {t} : transcoder'[u].at = "idle"
        /\ transcoder'[t].at \in {"succeed", "fail"}
    BY <1>r, <2>1, <2>2 DEF WriterIsAlone
  <2>t. HLSTypeOK'
    BY <1>t, <1>u, <1>m, <2>1, <2>5, <2>r
  <2>c. RunIsOnCourse'
    BY <2>1, <2>6, <2>r DEF RunIsOnCourse
  <2>d. RowsAreClosed' /\ OfferedPlays'
    <3>1. RowsAreClosed'
      BY <1>i, <2>1, <2>5 DEF RowsAreClosed, Closed
    <3> QED
      BY <1>i, <2>1, <3>1 DEF OfferedPlays
  <2>e. CleanIsOnCourse'
    BY <2>1, <2>r DEF CleanIsOnCourse
  <2> QED
    BY <2>t, <2>c, <2>d, <2>e, <2>r DEF HLSInv
<1>12. ASSUME NEW t \in Transcoders, EndStream(t) PROVE HLSInv'
  <2> DEFINE s == transcoder[t].of
             ended == IF transcoder[t].at = "succeed" THEN EndedAs("succeeded")
                      ELSE IF ~AttemptsRemain(stream[s].tries) THEN EndedAs("failed")
                      ELSE [stream[s] EXCEPT !.at = "pending", !.tries = @ + 1]
  <2>1. /\ transcoder[t].at \in {"succeed", "fail"}
        /\ stream' = IF stream[s].at # "running" THEN stream ELSE [stream EXCEPT ![s] = ended]
        /\ transcoder' = [transcoder EXCEPT ![t] = NoRun]
        /\ adaptive' = adaptive /\ directory' = directory /\ assets' = assets
        /\ cleaning' = cleaning
        /\ excuse' = excuse /\ mishaps' = mishaps
    BY <1>12 DEF EndStream, Smooth
  <2>2. s \in Streams
    BY <1>i, <2>1 DEF LaddersAreAsked
  <2>3. ended \in StreamRows
    <3>1. EndedAs("succeeded") \in StreamRows /\ EndedAs("failed") \in StreamRows
      BY NoStreamIsRow
    <3>2. AttemptsRemain(stream[s].tries) => [stream[s] EXCEPT !.at = "pending", !.tries = @ + 1] \in StreamRows
      BY <1>p, <2>2, RetriedStreamIsRow
    <3> QED
      BY <3>1, <3>2
  <2>4. stream[s].at = "running" => (ended.at \in Unended => ended.ladder # {})
    <3>1. EndedAs("succeeded").at = "succeeded" /\ EndedAs("failed").at = "failed"
      BY DEF EndedAs, NoStream
    <3>2. [stream[s] EXCEPT !.at = "pending", !.tries = @ + 1].ladder = stream[s].ladder
      BY <1>p, <2>2 DEF StreamRows
    <3>3. stream[s].at = "running" => stream[s].ladder # {}
      BY <1>i, <2>2 DEF LaddersAreAsked, Unended
    <3> QED
      BY <3>1, <3>2, <3>3 DEF Unended
  <2> HIDE DEF ended, s
  <2>5. /\ \A r \in Streams : stream'[r] = stream[r] \/ (r = s /\ stream[s].at = "running" /\ stream'[r] = ended)
        /\ stream' \in [Streams -> StreamRows]
    BY <1>t, <2>1, <2>2, <2>3
  <2>6. /\ \A u \in Transcoders : transcoder'[u] = IF u = t THEN NoRun ELSE transcoder[u]
        /\ transcoder' \in [Transcoders -> StreamRuns]
    BY <1>t, <1>n, <2>1
  <2>t. HLSTypeOK'
    BY <1>t, <1>u, <2>1, <2>5, <2>6
  <2>a. LaddersAreAsked'
    BY <1>i, <1>n, <2>1, <2>6, <2>4, <2>5 DEF LaddersAreAsked
  <2>b. WriterIsAlone'
    BY <1>i, <1>n, <2>1, <2>6 DEF WriterIsAlone
  <2>c. RunIsOnCourse'
    BY <1>i, <1>n, <2>1, <2>6 DEF RunIsOnCourse
  <2>d. RowsAreClosed'
    BY <1>i, <1>n, <2>1, <2>6 DEF RowsAreClosed
  <2>e. CleanIsOnCourse'
    BY <1>i, <1>n, <2>1, <2>6 DEF CleanIsOnCourse
  <2>f. OfferedPlays'
    BY <1>i, <1>n, <2>1, <2>6 DEF OfferedPlays
  <2> QED
    BY <2>t, <2>a, <2>b, <2>c, <2>d, <2>e, <2>f DEF HLSInv
<1>13. CASE StartHLSClean
  <2>1. /\ cleaning = NoClean /\ cleaning' = [at |-> "deleting", left |-> assets, gone |-> {}]
        /\ excuse' = IF Writers # {} THEN "met" ELSE excuse
        /\ adaptive' = adaptive /\ stream' = stream /\ directory' = directory /\ assets' = assets
        /\ transcoder' = transcoder /\ mishaps' = mishaps
    BY <1>13 DEF StartHLSClean, Smooth
  <2>2. /\ cleaning' \in Cleans /\ cleaning'.left = assets /\ cleaning'.gone = {}
        /\ excuse' \in {"none", "cut", "met"} /\ (excuse' = "none" => excuse = "none")
        /\ excuse' # "met" => excuse' = excuse /\ \A u \in Transcoders : transcoder[u].at = "idle"
    BY <1>t, <2>1 DEF Cleans, Writers
  <2>3. cleaning' # NoClean
    BY <2>1 DEF NoClean
  <2>t. HLSTypeOK'
    BY <1>t, <1>u, <2>1, <2>2
  <2>a. LaddersAreAsked'
    BY <1>i, <2>1, <2>2 DEF LaddersAreAsked
  <2>b. WriterIsAlone'
    BY <1>i, <2>1, <2>2 DEF WriterIsAlone
  <2>c. RunIsOnCourse'
    BY <1>i, <2>1, <2>2 DEF RunIsOnCourse
  <2>d. RowsAreClosed'
    BY <1>i, <2>1, <2>2 DEF RowsAreClosed
  <2>e. CleanIsOnCourse'
    BY <1>i, <2>1, <2>2 DEF CleanIsOnCourse, OfferedPlays, RowsAreClosed, Closed
  <2>f. OfferedPlays'
    BY <1>i, <2>1, <2>2, <2>3 DEF OfferedPlays
  <2> QED
    BY <2>t, <2>a, <2>b, <2>c, <2>d, <2>e, <2>f DEF HLSInv
<1>14. ASSUME NEW a \in AssetNames, DeleteOrdinaryAsset(a) PROVE HLSInv'
  <2> DEFINE deleted == CASE a = "whole"  -> NoDirectory
                          [] a = "master" -> [directory EXCEPT !.master = {}]
                          [] OTHER        -> [directory EXCEPT !.parts = @ \ {a}]
  <2>1. /\ cleaning.at = "deleting" /\ a \in NextAsset /\ (Smooth \/ Mishap)
        /\ \/ /\ directory' = deleted /\ excuse' = excuse
              /\ cleaning' = [cleaning EXCEPT !.left = @ \ {a}, !.gone = @ \cup {a}]
           \/ /\ directory' = directory /\ excuse' = IF excuse = "none" THEN "cut" ELSE excuse
              /\ cleaning' = [cleaning EXCEPT !.left = @ \ {a}]
        /\ adaptive' = adaptive /\ stream' = stream /\ assets' = assets /\ transcoder' = transcoder
    BY <1>14 DEF DeleteOrdinaryAsset, Cut
  <2>2. /\ deleted \in Directories
        /\ a \in {"whole", "master"} => deleted.master = {}
        /\ a \notin {"whole", "master"} => deleted.master = directory.master /\ a \in Variants
    <3>1. CASE a = "whole"
      BY <1>n, <3>1
    <3>2. CASE a = "master"
      BY <1>t, <3>2 DEF Directories
    <3>3. CASE a \notin {"whole", "master"}
      BY <1>t, <3>3 DEF Directories, AssetNames
    <3> QED
      BY <3>1, <3>2, <3>3
  <2>3. a \in cleaning.left /\ (a = "master" => cleaning.left \cap Variants = {} /\ "whole" \notin cleaning.left)
    BY <2>1 DEF NextAsset
  <2> HIDE DEF deleted
  <2>4. /\ cleaning' \in Cleans /\ cleaning'.at = "deleting" /\ cleaning'.left = cleaning.left \ {a}
        /\ cleaning'.gone \subseteq cleaning.gone \cup {a}
        /\ excuse' = "none" => cleaning'.gone = cleaning.gone \cup {a} /\ directory' = deleted /\ excuse = "none"
        /\ excuse' \in {"none", "cut", "met"} /\ (excuse' = "met" <=> excuse = "met")
        /\ directory' \in Directories
    <3>1. cleaning.at \in {"idle", "deleting"} /\ cleaning.left \subseteq AssetNames /\ cleaning.gone \subseteq AssetNames
      BY <1>t DEF Cleans
    <3>2. [cleaning EXCEPT !.left = @ \ {a}, !.gone = @ \cup {a}] \in Cleans
      BY <1>t, <3>1 DEF Cleans
    <3>3. [cleaning EXCEPT !.left = @ \ {a}] \in Cleans
      BY <1>t, <3>1 DEF Cleans
    <3>4. CASE /\ directory' = deleted /\ excuse' = excuse
               /\ cleaning' = [cleaning EXCEPT !.left = @ \ {a}, !.gone = @ \cup {a}]
      <4>1. cleaning'.at = "deleting" /\ cleaning'.left = cleaning.left \ {a} /\ cleaning'.gone = cleaning.gone \cup {a}
        BY <1>t, <2>1, <3>4 DEF Cleans
      <4> QED
        BY <1>t, <2>2, <3>2, <3>4, <4>1
    <3>5. CASE /\ directory' = directory /\ excuse' = (IF excuse = "none" THEN "cut" ELSE excuse)
               /\ cleaning' = [cleaning EXCEPT !.left = @ \ {a}]
      <4>1. cleaning'.at = "deleting" /\ cleaning'.left = cleaning.left \ {a} /\ cleaning'.gone = cleaning.gone
        BY <1>t, <2>1, <3>5 DEF Cleans
      <4> QED
        BY <1>t, <3>3, <3>5, <4>1
    <3> QED
      BY <2>1, <3>4, <3>5
  <2>5. excuse # "met" => \A u \in Transcoders : transcoder[u].at = "idle"
    BY <1>i, <1>n, <2>1 DEF WriterIsAlone
  <2>6. cleaning' # NoClean
    BY <1>n, <2>4
  <2>t. HLSTypeOK'
    BY <1>t, <1>u, <1>m, <2>1, <2>4
  <2>a. LaddersAreAsked'
    BY <1>i, <2>1 DEF LaddersAreAsked
  <2>b. WriterIsAlone' /\ RunIsOnCourse'
    BY <2>1, <2>4, <2>5 DEF WriterIsAlone, RunIsOnCourse
  <2>d. RowsAreClosed'
    BY <1>i, <2>1, <2>2, <2>4 DEF RowsAreClosed
  <2>e. CleanIsOnCourse'
    <3> SUFFICES ASSUME excuse' = "none"
                 PROVE  /\ directory'.master # {} => /\ Closed(cleaning'.left)
                                                     /\ cleaning'.gone \cap {"master", "whole"} = {}
                        /\ directory'.master \subseteq directory'.parts \/ cleaning'.left \cap {"master", "whole"} # {}
                        /\ assets' \subseteq cleaning'.left \cup cleaning'.gone \cup {"whole"}
      BY DEF CleanIsOnCourse
    <3>1. /\ directory.master # {} => Closed(cleaning.left) /\ cleaning.gone \cap {"master", "whole"} = {}
          /\ directory.master \subseteq directory.parts \/ cleaning.left \cap {"master", "whole"} # {}
          /\ assets \subseteq cleaning.left \cup cleaning.gone \cup {"whole"}
      BY <1>i, <2>1, <2>4 DEF CleanIsOnCourse
    <3>2. assets' \subseteq cleaning'.left \cup cleaning'.gone \cup {"whole"}
      BY <2>1, <2>4, <3>1
    <3>3. CASE a \in {"whole", "master"}
      BY <2>2, <2>4, <3>2, <3>3
    <3>4. CASE a \notin {"whole", "master"}
      <4>1. directory'.master = directory.master /\ a \in Variants
        BY <2>2, <2>4, <3>4
      <4>2. directory.master # {} => cleaning.left \cap {"master", "whole"} # {}
        BY <2>3, <3>1, <4>1 DEF Closed
      <4>3. directory.master # {} => cleaning'.left \cap {"master", "whole"} # {}
        BY <2>4, <3>4, <4>2
      <4> QED
        BY <2>4, <3>1, <3>2, <3>4, <4>1, <4>3 DEF Closed
    <3> QED
      BY <3>3, <3>4
  <2>f. OfferedPlays'
    BY <2>6 DEF OfferedPlays
  <2> QED
    BY <2>t, <2>a, <2>b, <2>d, <2>e, <2>f DEF HLSInv
<1>15. CASE DeleteAssetRows
  <2>1. /\ cleaning.at = "deleting" /\ cleaning.left = {} /\ assets' = assets \ cleaning.gone
        /\ cleaning' = NoClean /\ adaptive' = adaptive /\ stream' = stream /\ directory' = directory
        /\ transcoder' = transcoder /\ excuse' = excuse /\ mishaps' = mishaps
    BY <1>15 DEF DeleteAssetRows, Smooth
  <2>5. excuse # "met" => \A u \in Transcoders : transcoder[u].at = "idle"
    BY <1>i, <1>n, <2>1 DEF WriterIsAlone
  <2>6. excuse = "none" => directory.master \subseteq directory.parts /\ assets' \subseteq {"whole"}
    BY <1>i, <2>1 DEF CleanIsOnCourse
  <2>t. HLSTypeOK'
    BY <1>t, <1>u, <1>n, <2>1
  <2>a. LaddersAreAsked'
    BY <1>i, <1>n, <2>1, <2>5, <2>6 DEF LaddersAreAsked
  <2>b. WriterIsAlone'
    BY <1>i, <1>n, <2>1, <2>5, <2>6 DEF WriterIsAlone
  <2>c. RunIsOnCourse'
    BY <1>i, <1>n, <2>1, <2>5, <2>6 DEF RunIsOnCourse
  <2>d. RowsAreClosed'
    BY <1>i, <1>n, <2>1, <2>5, <2>6 DEF RowsAreClosed, Closed
  <2>e. CleanIsOnCourse'
    BY <1>i, <1>n, <2>1, <2>5, <2>6 DEF CleanIsOnCourse
  <2>f. OfferedPlays'
    BY <1>i, <1>n, <2>1, <2>5, <2>6 DEF OfferedPlays
  <2> QED
    BY <2>t, <2>a, <2>b, <2>c, <2>d, <2>e, <2>f DEF HLSInv
<1>16. CASE CancelClean
  <2>1. /\ cleaning.at = "deleting" /\ Mishap /\ cleaning' = NoClean
        /\ excuse' = IF excuse = "none" THEN "cut" ELSE excuse
        /\ adaptive' = adaptive /\ stream' = stream /\ directory' = directory /\ assets' = assets
        /\ transcoder' = transcoder
    BY <1>16 DEF CancelClean, Cut
  <2>2. excuse' \in {"cut", "met"} /\ (excuse' = "met" <=> excuse = "met")
    BY <1>t, <2>1
  <2>5. excuse # "met" => \A u \in Transcoders : transcoder[u].at = "idle"
    BY <1>i, <1>n, <2>1 DEF WriterIsAlone
  <2>t. HLSTypeOK'
    BY <1>t, <1>u, <1>n, <1>m, <2>1, <2>2
  <2>a. LaddersAreAsked'
    BY <1>i, <2>1, <2>2, <2>5 DEF LaddersAreAsked
  <2>b. WriterIsAlone'
    BY <1>i, <2>1, <2>2, <2>5 DEF WriterIsAlone
  <2>c. RunIsOnCourse'
    BY <1>i, <2>1, <2>2, <2>5 DEF RunIsOnCourse
  <2>d. RowsAreClosed'
    BY <1>i, <2>1, <2>2, <2>5 DEF RowsAreClosed
  <2>e. CleanIsOnCourse'
    BY <1>i, <2>1, <2>2, <2>5 DEF CleanIsOnCourse
  <2>f. OfferedPlays'
    BY <1>i, <2>1, <2>2, <2>5 DEF OfferedPlays
  <2> QED
    BY <2>t, <2>a, <2>b, <2>c, <2>d, <2>e, <2>f DEF HLSInv
<1>17. CASE InventoryHLS
  <2>1. /\ directory.master # {} /\ assets' = assets \cup {"whole"} /\ mishaps' = mishaps
        /\ adaptive' = adaptive /\ stream' = stream /\ directory' = directory
        /\ transcoder' = transcoder /\ cleaning' = cleaning /\ excuse' = excuse
    BY <1>17 DEF InventoryHLS, Smooth
  <2>t. HLSTypeOK'
    BY <1>t, <1>u, <2>1 DEF AssetNames
  <2>a. LaddersAreAsked'
    BY <1>i, <2>1 DEF LaddersAreAsked
  <2>b. WriterIsAlone'
    BY <1>i, <2>1 DEF WriterIsAlone
  <2>c. RunIsOnCourse'
    BY <1>i, <2>1 DEF RunIsOnCourse
  <2>d. RowsAreClosed'
    BY <1>i, <2>1 DEF RowsAreClosed, Closed
  <2>e. CleanIsOnCourse'
    BY <1>i, <2>1 DEF CleanIsOnCourse
  <2>f. OfferedPlays'
    BY <1>i, <2>1 DEF OfferedPlays
  <2> QED
    BY <2>t, <2>a, <2>b, <2>c, <2>d, <2>e, <2>f DEF HLSInv
<1>18. CASE HLSCrash
  <2>1. /\ Mishap /\ stream' = [s \in Streams |-> Recovered(s)]
        /\ transcoder' = [t \in Transcoders |-> NoRun]
        /\ cleaning' = NoClean /\ adaptive' = adaptive /\ directory' = directory /\ assets' = assets
        /\ excuse' = IF cleaning # NoClean /\ excuse = "none" THEN "cut" ELSE excuse
    BY <1>18 DEF HLSCrash, Cut
  <2>2. \A s \in Streams : /\ Recovered(s) \in StreamRows /\ Recovered(s).ladder = stream[s].ladder
                           /\ Recovered(s).at \in Unended => stream[s].at \in Unended
    BY <1>p DEF Recovered, StreamRows, Unended
  <2>3. stream' \in [Streams -> StreamRows] /\ \A s \in Streams : stream'[s] = Recovered(s)
    BY <2>1, <2>2
  <2>4. transcoder' \in [Transcoders -> StreamRuns] /\ \A t \in Transcoders : transcoder'[t] = NoRun
    BY <1>n, <2>1
  <2>5. /\ excuse' \in {"none", "cut", "met"} /\ (excuse' = "none" => excuse = "none" /\ cleaning = NoClean)
    BY <1>t, <2>1
  <2>t. HLSTypeOK'
    BY <1>t, <1>u, <1>n, <1>m, <2>1, <2>3, <2>4, <2>5
  <2>a. LaddersAreAsked'
    BY <1>i, <1>n, <2>1, <2>4, <2>5, <2>2, <2>3 DEF LaddersAreAsked
  <2>b. WriterIsAlone'
    BY <1>i, <1>n, <2>1, <2>4, <2>5 DEF WriterIsAlone
  <2>c. RunIsOnCourse'
    BY <1>i, <1>n, <2>1, <2>4, <2>5 DEF RunIsOnCourse
  <2>d. RowsAreClosed'
    BY <1>i, <1>n, <2>1, <2>4, <2>5 DEF RowsAreClosed
  <2>e. CleanIsOnCourse'
    BY <1>i, <1>n, <2>1, <2>4, <2>5 DEF CleanIsOnCourse
  <2>f. OfferedPlays'
    BY <1>i, <1>n, <2>1, <2>4, <2>5 DEF OfferedPlays
  <2> QED
    BY <2>t, <2>a, <2>b, <2>c, <2>d, <2>e, <2>f DEF HLSInv
<1>19. CASE UNCHANGED hlsVars
  <2>1. /\ adaptive' = adaptive /\ stream' = stream /\ directory' = directory /\ assets' = assets
        /\ transcoder' = transcoder /\ cleaning' = cleaning /\ excuse' = excuse
        /\ mishaps' = mishaps
    BY <1>19 DEF hlsVars
  <2>t. HLSTypeOK'
    BY <1>t, <1>u, <2>1
  <2>a. LaddersAreAsked'
    BY <1>i, <2>1 DEF LaddersAreAsked
  <2>b. WriterIsAlone'
    BY <1>i, <2>1 DEF WriterIsAlone
  <2>c. RunIsOnCourse'
    BY <1>i, <2>1 DEF RunIsOnCourse
  <2>d. RowsAreClosed'
    BY <1>i, <2>1 DEF RowsAreClosed, Closed
  <2>e. CleanIsOnCourse'
    BY <1>i, <2>1 DEF CleanIsOnCourse, Closed
  <2>f. OfferedPlays'
    BY <1>i, <2>1 DEF OfferedPlays
  <2> QED
    BY <2>t, <2>a, <2>b, <2>c, <2>d, <2>e, <2>f DEF HLSInv
<1>20. ASSUME NEW t \in Transcoders, RunStep(t) PROVE HLSInv'
  BY <1>20, <1>3, <1>4, <1>5, <1>6, <1>7, <1>8, <1>9, <1>10, <1>11, <1>12 DEF RunStep
<1> QED
  BY <1>1, <1>2, <1>13, <1>14, <1>15, <1>16, <1>17, <1>18, <1>19, <1>20 DEF HLSNext

\* A manifest that is offered has all the variants it names, and a task that succeeded
\* has one to offer, unless a second writer or a clean has met the run at its directory
\* (hls_preview_service.go).
THEOREM StreamsPlayAlways == HLSSpec => [](OfferedPlays /\ SuccessIsOffered)
<1> QED
  BY HLSInitInv, HLSHolds, HLSStep, PTL DEF HLSSpec

-----------------------------------------------------------------------------
(***************************************************************************)
(* The rows that wait to be claimed (ClaimFairness): how often one of them *)
(* is passed over, and no more than the bound wait.                        *)
(***************************************************************************)

\* What each restart may have forgotten, and the streak itself, bound the claims
\* that passed a lower row over.
StreakCovers ==
  /\ streak \in 0..Limit /\ passedOver \in Nat /\ restarts \in Nat
  /\ passedOver <= streak + Limit * restarts

\* Nothing has been passed over when the server starts.
LEMMA StreakCoversInit == Init => StreakCovers
  BY ClaimFairnessAssumption DEF Init, StreakCovers

\* A claim passes a lower row over only while the streak is below Limit, and then
\* lengthens the streak; a restart forgets at most Limit.
LEMMA StreakCoversStep == StreakCovers /\ [Next]_vars => StreakCovers'
<1> SUFFICES ASSUME StreakCovers, [Next]_vars PROVE StreakCovers'
  OBVIOUS
<1> USE ClaimFairnessAssumption DEF StreakCovers
<1>1. Limit * restarts \in Nat
  OBVIOUS
<1>2. ASSUME NEW p \in Priority, Enqueue(p) PROVE StreakCovers'
  BY <1>2 DEF Enqueue
<1>3. CASE ClaimTop
  <2>1. PICK i \in DOMAIN queue :
          /\ ~(LetsLowerPass /\ HasLower(i)) /\ streak' = Longer(streak)
          /\ passedOver' = IF HasLower(i) THEN Counted(passedOver) ELSE 0
          /\ UNCHANGED restarts
    BY <1>3 DEF ClaimTop
  <2>2. CASE HasLower(i)
    <3>1. streak < Limit
      BY <2>1, <2>2 DEF LetsLowerPass
    <3>2. Limit * (MaxRestarts + 1) \in Nat
      OBVIOUS
    <3> QED  BY <1>1, <2>1, <2>2, <3>1, <3>2 DEF Longer, Counted
  <2>3. CASE ~HasLower(i)
    BY <1>1, <2>1, <2>3 DEF Longer
  <2> QED  BY <2>2, <2>3
<1>4. CASE ClaimLower
  BY <1>1, <1>4 DEF ClaimLower
<1>5. CASE Restart
  <2>1. Limit * (restarts + 1) = Limit * restarts + Limit
    OBVIOUS
  <2> QED  BY <1>1, <1>5, <2>1 DEF Restart
<1>6. CASE UNCHANGED vars
  BY <1>6 DEF vars
<1> QED  BY <1>2, <1>3, <1>4, <1>5, <1>6 DEF Next, ClaimNext

\* At most Limit claims in a row pass over a waiting row of lower priority.  With
\* more than two priorities the row that then has its turn need not be the one
\* that has waited longest, which is why this bound does not give NoStarvation.
THEOREM BypassIsBounded == Spec => []BoundedBypass
<1>1. StreakCovers => BoundedBypass
  <2> SUFFICES ASSUME StreakCovers PROVE BoundedBypass
    OBVIOUS
  <2>1. Limit * (restarts + 1) = Limit * restarts + Limit /\ Limit * restarts \in Nat
    BY ClaimFairnessAssumption DEF StreakCovers
  <2> QED  BY <2>1, ClaimFairnessAssumption DEF StreakCovers, BoundedBypass
<1> QED  BY <1>1, StreakCoversInit, StreakCoversStep, PTL DEF Spec

\* The rows that wait have a priority, and are no more than may wait.
ClaimsInv == queue \in Seq(Priority) /\ Len(queue) <= Capacity

\* Without one of its elements a sequence is shorter.
LEMMA OneLess ==
  ASSUME NEW S, NEW s \in Seq(S), NEW i \in DOMAIN s
  PROVE  RemoveAt(s, i) \in Seq(S) /\ Len(RemoveAt(s, i)) <= Len(s)
<1>1. Len(s) \in Nat /\ i \in 1 .. Len(s) /\ \A j \in 1 .. Len(s) : s[j] \in S
  OBVIOUS
<1>2. SubSeq(s, 1, i - 1) \in Seq(S) /\ Len(SubSeq(s, 1, i - 1)) = IF 1 <= i - 1 THEN i - 1 - 1 + 1 ELSE 0
  <2>1. 1 \in Int /\ i - 1 \in Int /\ \A j \in 1 .. i - 1 : s[j] \in S
    BY <1>1
  <2> QED
    BY <2>1, SubSeqProperties
<1>3. /\ SubSeq(s, i + 1, Len(s)) \in Seq(S)
      /\ Len(SubSeq(s, i + 1, Len(s))) = IF i + 1 <= Len(s) THEN Len(s) - (i + 1) + 1 ELSE 0
  <2>1. i + 1 \in Int /\ Len(s) \in Int /\ \A j \in i + 1 .. Len(s) : s[j] \in S
    BY <1>1
  <2> QED
    BY <2>1, SubSeqProperties
<1>4. /\ RemoveAt(s, i) \in Seq(S)
      /\ Len(RemoveAt(s, i)) = Len(SubSeq(s, 1, i - 1)) + Len(SubSeq(s, i + 1, Len(s)))
  BY <1>2, <1>3, ConcatProperties DEF RemoveAt
<1> QED
  BY <1>1, <1>2, <1>3, <1>4

\* Every claim, enqueueing and restart keeps it.
LEMMA ClaimsStep == ClaimsInv /\ [Next]_vars => ClaimsInv'
<1> SUFFICES ASSUME ClaimsInv, [Next]_vars PROVE ClaimsInv'
  OBVIOUS
<1> USE DEF ClaimsInv
<1>1. ASSUME NEW p \in Priority, Enqueue(p) PROVE ClaimsInv'
  BY <1>1, ClaimFairnessAssumption DEF Enqueue
<1>2. ASSUME NEW i \in DOMAIN queue, Take(i) PROVE ClaimsInv'
  <2>1. queue' = RemoveAt(queue, i) /\ Len(queue) \in Nat
    BY <1>2 DEF Take
  <2>2. queue' \in Seq(Priority) /\ Len(queue') <= Len(queue)
    BY <2>1, OneLess
  <2>3. Len(queue') \in Nat
    BY <2>2
  <2> QED
    BY <2>1, <2>2, <2>3, ClaimFairnessAssumption
<1>3. CASE Restart
  BY <1>3 DEF Restart
<1>4. CASE UNCHANGED vars
  BY <1>4 DEF vars
<1>5. CASE ClaimNext
  BY <1>2, <1>5 DEF ClaimNext, ClaimTop, ClaimLower
<1> QED
  BY <1>1, <1>3, <1>4, <1>5 DEF Next

-----------------------------------------------------------------------------
(***************************************************************************)
(* Together.  A behaviour of MCDerived runs the component it has in focus, *)
(* so the invariant asks of a component only what it does in focus.        *)
(***************************************************************************)

\* The invariant of the component in focus.
DerivedInv ==
  /\ focus \in Components
  /\ focus = "index" => LibraryInv
  /\ focus = "titles" => InferenceInv
  /\ focus = "metadata" => MetaInv
  /\ focus = "streams" => HLSInv
  /\ focus = "claims" => ClaimsInv

\* It holds at first, whichever component that is.
LEMMA DerivedInitInv == DerivedInit => DerivedInv
<1> SUFFICES ASSUME DerivedInit PROVE DerivedInv
  OBVIOUS
<1>1. /\ focus \in Components /\ mishaps = 0
      /\ LibraryInit /\ InferenceInit /\ EmbeddedMetadataInit /\ HLSInit /\ Init
  BY DEF DerivedInit
<1>2. LibraryInv /\ InferenceInv /\ HLSInv
  BY <1>1, LibraryInitInv, InferenceInitInv, HLSInitInv
<1>3. MetaInv
  BY <1>1, MetaInitInv, FaultsAssumption
<1>4. ClaimsInv
  BY <1>1, ClaimFairnessAssumption DEF Init, ClaimsInv
<1> QED
  BY <1>1, <1>2, <1>3, <1>4 DEF DerivedInv

\* What a step leaves alone when it is one of another component.
LEMMA OthersStay ==
  ASSUME NEW c \in Components, Others(c)
  PROVE  /\ focus' = focus
         /\ c # "index" => scanner' = scanner
         /\ c # "titles" => title' = title
  BY DEF Others, indexState, titleState

\* Every step keeps the invariant: it is one of the component in focus, or none.
LEMMA DerivedStep == DerivedInv /\ [DerivedNext]_derivedVars => DerivedInv'
<1> SUFFICES ASSUME DerivedInv, [DerivedNext]_derivedVars PROVE DerivedInv'
  OBVIOUS
<1>f. focus \in Components
  BY DEF DerivedInv
<1>1. CASE focus = "index" /\ [LibraryNext]_libraryVars /\ focus' = focus
  BY <1>1, <1>f, LibraryStep DEF DerivedInv
<1>2. CASE focus = "titles" /\ [InferenceNext]_inferenceVars /\ focus' = focus
  BY <1>2, <1>f, InferenceStep DEF DerivedInv
<1>3. CASE focus = "metadata" /\ [EmbeddedMetadataNext]_metadataVars /\ focus' = focus
  BY <1>3, <1>f, MetaStep DEF DerivedInv
<1>4. CASE focus = "streams" /\ [HLSNext]_hlsVars /\ focus' = focus
  BY <1>4, <1>f, HLSStep DEF DerivedInv
<1>5. CASE focus = "claims" /\ [Next]_vars /\ focus' = focus
  BY <1>5, <1>f, ClaimsStep DEF DerivedInv
<1>6. CASE UNCHANGED derivedVars
  <2>1. /\ focus' = focus /\ UNCHANGED libraryVars /\ UNCHANGED inferenceVars
        /\ UNCHANGED metadataVars /\ UNCHANGED hlsVars /\ UNCHANGED vars
    BY <1>6 DEF derivedVars, indexState, titleState, metadataState, streamState,
                libraryVars, inferenceVars, metadataVars, hlsVars
  <2> QED
    BY <1>1, <1>2, <1>3, <1>4, <1>5, <1>f, <2>1 DEF Components
<1>7. ASSUME NEW c \in Components, Others(c) PROVE focus' = focus
  BY <1>7, OthersStay
<1>8. {"index", "titles", "metadata", "streams", "claims"} \subseteq Components
  BY DEF Components
<1> QED
  BY <1>1, <1>2, <1>3, <1>4, <1>5, <1>6, <1>7, <1>8 DEF DerivedNext

\* The invariant of the component in focus always holds.
THEOREM DerivedInvAlways == DerivedSpec => []DerivedInv
<1> QED
  BY DerivedInitInv, DerivedStep, PTL DEF DerivedSpec

\* The state of the component in focus has the types its module states.
THEOREM DerivedIsTyped == DerivedSpec => []DerivedTypes
<1>1. DerivedInv => DerivedTypes
  <2> SUFFICES ASSUME DerivedInv PROVE DerivedTypes
    OBVIOUS
  <2>1. focus \in Components
    BY DEF DerivedInv
  <2>2. CASE focus = "index"
    BY <2>2 DEF DerivedInv, DerivedTypes, LibraryInv
  <2>3. CASE focus = "titles"
    BY <2>3 DEF DerivedInv, DerivedTypes, InferenceInv
  <2>4. CASE focus = "metadata"
    BY <2>4 DEF DerivedInv, DerivedTypes, MetaInv
  <2>5. CASE focus = "streams"
    BY <2>5 DEF DerivedInv, DerivedTypes, HLSInv
  <2>6. CASE focus = "claims"
    <3>1. DOMAIN queue = 1 .. Len(queue) /\ Len(queue) \in Nat /\ Len(queue) <= Capacity
      BY <2>6 DEF DerivedInv, ClaimsInv
    <3>2. DOMAIN queue \subseteq 1 .. Capacity
      BY <3>1, ClaimFairnessAssumption
    <3> QED
      BY <2>6, <3>2 DEF DerivedTypes
  <2> QED
    BY <2>1, <2>2, <2>3, <2>4, <2>5, <2>6 DEF Components
<1> QED
  BY <1>1, DerivedInvAlways, PTL

\* What is stored about a file is about that file: a hash that counts as valid
\* (file_hash.go), a metadata row that does not say it is stale (metadata_tasks.go), a
\* manifest that offers variants (hls_preview_service.go); each unless one of the overlaps
\* that its module names has come between.
THEOREM DerivedFitsAlways == DerivedSpec => []DerivedFits
<1>1. DerivedInv => DerivedFits
  <2> SUFFICES ASSUME DerivedInv PROVE DerivedFits
    OBVIOUS
  <2>1. focus = "index" => TrustedHashFits
    BY LibraryInvHolds DEF DerivedInv
  <2>2. focus = "metadata" => RowsTruthful
    BY DEF DerivedInv, MetaInv
  <2>3. focus = "streams" => OfferedPlays /\ SuccessIsOffered
    BY HLSHolds DEF DerivedInv
  <2>4. CASE focus \in {"index", "metadata", "streams"}
    BY <2>1, <2>2, <2>3, <2>4 DEF DerivedFits
  <2>5. CASE focus \notin {"index", "metadata", "streams"}
    BY <2>5 DEF DerivedFits
  <2> QED
    BY <2>4, <2>5
<1> QED
  BY <1>1, DerivedInvAlways, PTL

\* No automatic step undoes a person's: the scan leaves deleted rows deleted
\* (library/service.go), inference leaves corrected titles (inference.go).
THEOREM PersonsPrevailAlways == DerivedSpec => PersonsPrevail
<1>1. DerivedInv /\ [DerivedNext]_derivedVars => [SparesDeleted /\ CorrectionStays]_derivedVars
  <2> SUFFICES ASSUME DerivedInv, DerivedNext PROVE SparesDeleted /\ CorrectionStays
    OBVIOUS
  <2>1. scanner' = scanner => SparesDeleted
    BY DEF SparesDeleted
  <2>2. title' = title => CorrectionStays
    BY DEF CorrectionStays
  <2>3. CASE focus = "index" /\ LibraryNext /\ Others("index")
    BY <2>2, <2>3, LibraryStep, OthersStay DEF Components, DerivedInv
  <2>4. CASE focus = "titles" /\ InferenceNext /\ Others("titles")
    BY <2>1, <2>4, InferenceStep, OthersStay DEF Components, DerivedInv
  <2>5. CASE \E c \in Components \ {"index", "titles"} : Others(c)
    BY <2>1, <2>2, <2>5, OthersStay
  <2> QED
    BY <2>3, <2>4, <2>5 DEF DerivedNext, Components
<1> QED
  BY <1>1, DerivedInvAlways, PTL DEF PersonsPrevail, DerivedSpec
===============================================================================
