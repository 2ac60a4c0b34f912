---------------------------- MODULE LibraryIndex ----------------------------
(***************************************************************************)
(* The index of a media library: the files on disk, the rows of            *)
(* media_files, the file watcher, the scans, the content hashes and the    *)
(* users who rename, move, delete and restore.                             *)
(*                                                                         *)
(* A file is known by its print, its size and modification time: a new or  *)
(* rewritten file has a print of its own.  Changes that the watcher saw    *)
(* and scans wait in one queue with one worker.                            *)
(***************************************************************************)
EXTENDS Faults, FiniteSets, Sequences, Functions

CONSTANTS Files,      \* the paths of media files in the library
          MaxChanges, \* bound on the files that are written and removed
          MaxTurns,   \* bound on what users ask for
          MaxWaiting  \* bound on the tasks in the queue

ASSUME LibraryAssumption ==
  MaxChanges \in Nat \ {0} /\ MaxTurns \in Nat /\ MaxWaiting \in Nat \ {0}

VARIABLES
  onDisk,      \* onDisk[p]: the print of the file at p, or Absent
  prints,    \* changes of files so far, the last print handed out
  records,   \* the rows in the order of their ids
  timers,    \* paths with a debounce timer
  waiting,   \* the queue: tasks [op, path]
  failed,    \* a failed change task that may be retried: at most one here
  scanner,   \* the worker: [job, at, todo, seen, path, print]
  hasher,    \* the hash backfill: [row, print, content]
  renamer,   \* a rename or move between its look, the disk and the database
  turns,     \* user requests so far
  hashOvertaken, \* history: rows whose hash was stored while a scan held them
  moved,     \* history: rows that a rename or move has taken to another path
  asked      \* history: a full scan was asked for and nothing has changed since

libraryVars == <<onDisk, prints, records, timers, waiting, failed, scanner, hasher,
                 renamer, turns, hashOvertaken, moved, asked, mishaps>>

Absent == 0
Unlike == 0    \* what a row that was just made or renamed says of its file
Torn == MaxChanges + 1   \* the hash of a file that was rewritten while it was read
AnyPath == "any path"
NoScanTask  == [op |-> "none", path |-> AnyPath]
FullScan == [op |-> "full", path |-> AnyPath]
Change(op, p) == [op |-> op, path |-> p]
NothingThere  == [p \in {} |-> Absent]
ScanIdle == [job |-> NoScanTask, at |-> "idle", todo |-> {}, seen |-> NothingThere,
             path |-> AnyPath, print |-> Absent]
NoHash   == [row |-> 0, print |-> Absent, content |-> Absent]
NoRename == [row |-> 0, to |-> AnyPath, done |-> FALSE]

NewRecord(p) == [path |-> p, print |-> Unlike, missing |-> FALSE, deleted |-> FALSE,
                 hash |-> Absent, stale |-> TRUE]

RowIds == DOMAIN records
RowsAt(p) == {i \in RowIds : records[i].path = p}
ActiveRow(i) == ~records[i].deleted /\ ~records[i].missing
FilesOnDisk == {p \in Files : onDisk[p] # Absent}

\* What the rows, the tasks and what a scan has read of a row are made of.
Records == [path : Files, print : 0 .. MaxChanges, missing : BOOLEAN, deleted : BOOLEAN,
            hash : 0 .. Torn, stale : BOOLEAN]
ScanTasks == [op : {"removed", "modified"}, path : Files] \cup {FullScan}
SeenRows == [id : RowIds, print : 0 .. MaxChanges, missing : BOOLEAN, trusted : BOOLEAN]

LibraryTypeOK ==
  /\ onDisk \in [Files -> 0 .. MaxChanges]
  /\ prints \in 0 .. MaxChanges
  /\ records \in Seq(Records)
  /\ timers \in SUBSET Files
  /\ waiting \in Seq(ScanTasks) /\ Len(waiting) <= MaxWaiting + 1
  /\ failed \in ScanTasks \cup {NoScanTask}
  /\ scanner.job \in ScanTasks \cup {NoScanTask}
  /\ scanner.at \in {"idle", "begin", "write", "index", "reconcile", "mark"}
  /\ scanner.todo \in SUBSET Files /\ scanner.path \in Files \cup {AnyPath}
  /\ DOMAIN scanner.seen \subseteq Files /\ scanner.print \in 0 .. MaxChanges
  /\ \A p \in DOMAIN scanner.seen : scanner.seen[p] \in SeenRows
  /\ hasher \in [row : RowIds \cup {0}, print : 0 .. MaxChanges, content : 0 .. Torn]
  /\ renamer \in [row : RowIds \cup {0}, to : Files \cup {AnyPath}, done : BOOLEAN]
  /\ turns \in 0 .. MaxTurns
  /\ hashOvertaken \in SUBSET RowIds
  /\ moved \in SUBSET RowIds
  /\ asked \in BOOLEAN

LibraryInit ==
  /\ onDisk = [p \in Files |-> Absent]
  /\ prints = 0
  /\ records = <<>>
  /\ timers = {}
  /\ waiting = <<>>
  /\ failed = NoScanTask
  /\ scanner = ScanIdle
  /\ hasher = NoHash
  /\ renamer = NoRename
  /\ turns = 0
  /\ hashOvertaken = {}
  /\ moved = {}
  /\ asked = FALSE
  /\ mishaps = 0

-----------------------------------------------------------------------------
(* The disk and the watcher.  handleEvent runs right after the change it   *)
(* is about, or the event is lost.                                         *)

DiskOnly == UNCHANGED <<records, failed, scanner, turns, hashOvertaken, moved>>

(* A file that appears or is written starts a timer; one that goes stops   *)
(* its timer and queues a change at once.                                  *)
Appeared(paths) == timers' = timers \cup paths
GoneFile(p) == /\ Len(waiting) < MaxWaiting
           /\ waiting' = Append(waiting, Change("removed", p))

(* A file that is rewritten in place while its hash is computed is read in *)
(* parts of the old and the new; one that is put in its place is not.      *)
PutFile(p) ==
  /\ prints < MaxChanges
  /\ prints' = prints + 1
  /\ onDisk' = [onDisk EXCEPT ![p] = prints + 1]
  /\ \/ UNCHANGED hasher
     \/ /\ hasher # NoHash /\ hasher.print = onDisk[p]
        /\ hasher' = [hasher EXCEPT !.content = Torn]
  /\ \/ Appeared({p}) /\ Smooth
     \/ Mishap /\ UNCHANGED timers
  /\ asked' = FALSE
  /\ UNCHANGED <<waiting, renamer>> /\ DiskOnly

RemoveFile(p) ==
  /\ onDisk[p] # Absent
  /\ prints < MaxChanges
  /\ prints' = prints + 1
  /\ onDisk' = [onDisk EXCEPT ![p] = Absent]
  /\ \/ GoneFile(p) /\ timers' = timers \ {p} /\ Smooth
     \/ Mishap /\ UNCHANGED <<waiting, timers>>
  /\ asked' = FALSE
  /\ UNCHANGED <<hasher, renamer>> /\ DiskOnly

MovedOnDisk(p, q) ==
  /\ onDisk' = [onDisk EXCEPT ![p] = Absent, ![q] = onDisk[p]]
  /\ timers' = (timers \ {p}) \cup {q}
  /\ GoneFile(p)

InsertRecord(p) ==
  /\ p \in timers
  /\ Len(waiting) < MaxWaiting
  /\ timers' = timers \ {p}
  /\ waiting' = Append(waiting, Change("modified", p))
  /\ UNCHANGED <<onDisk, prints, hasher, renamer, asked, mishaps>> /\ DiskOnly

(* A user asks for a full scan: nothing else does, the schedule asks for   *)
(* incremental ones, which do not compare the rows with the disk.  One of  *)
(* them does what a full scan does that fails when it comes to compare.    *)
RequestFullScan ==
  /\ Len(waiting) < MaxWaiting
  /\ \A i \in DOMAIN waiting : waiting[i] # FullScan
  /\ waiting' = Append(waiting, FullScan)
  /\ asked' = TRUE
  /\ UNCHANGED <<onDisk, prints, timers, hasher, renamer, mishaps>> /\ DiskOnly

-----------------------------------------------------------------------------
(* The worker of the scan queue.                                           *)

WorkerOnly == UNCHANGED <<onDisk, prints, timers, hasher, renamer, turns, hashOvertaken,
                         moved>>
ScanOnly == WorkerOnly /\ UNCHANGED asked
ScanTo(step) == scanner' = [scanner EXCEPT !.at = step]

TakeTask ==
  /\ scanner = ScanIdle /\ waiting # <<>>
  /\ scanner' = [ScanIdle EXCEPT !.job = Head(waiting), !.at = "begin"]
  /\ waiting' = Tail(waiting)
  /\ UNCHANGED <<records, failed>> /\ Smooth /\ ScanOnly

TaskEnds == scanner' = ScanIdle

(* The row found by its path is the first that is not deleted; when it is  *)
(* already missing nothing is done.                                        *)
NotDeletedAt(p) == {i \in RowsAt(p) : ~records[i].deleted}
FirstOf(ids) == CHOOSE i \in ids : \A j \in ids : i <= j
LastOf(ids)  == CHOOSE i \in ids : \A j \in ids : j <= i

MarkedMissing(p) ==
  IF NotDeletedAt(p) = {} THEN records
  ELSE [records EXCEPT ![FirstOf(NotDeletedAt(p))].missing = TRUE]

ApplyRemoved ==
  /\ scanner.at = "begin" /\ scanner.job.op = "removed"
  /\ records' = MarkedMissing(scanner.job.path)
  /\ TaskEnds
  /\ UNCHANGED <<waiting, failed>> /\ Smooth /\ ScanOnly

(* The lookup of a changed path sees deleted rows too.                     *)
KnownAt_NotDeleted(p) == {i \in RowsAt(p) : ~records[i].deleted}
KnownAt(p) == RowsAt(p)

(* A change of a file looks at the file and the row, then writes the row:  *)
(* seen is what was read, its id and fields.                               *)
Seen(i) == [id |-> i, print |-> records[i].print, missing |-> records[i].missing,
            trusted |-> records[i].hash # Absent /\ ~records[i].stale]

ApplyModified ==
  LET p == scanner.job.path IN
  /\ scanner.at = "begin" /\ scanner.job.op = "modified"
  /\ \/ /\ onDisk[p] = Absent
        /\ records' = MarkedMissing(p)
        /\ TaskEnds
     \/ /\ onDisk[p] # Absent /\ KnownAt(p) # {}
        /\ scanner' = [scanner EXCEPT !.at = "write", !.print = onDisk[p],
                         !.seen = [q \in {p} |-> Seen(FirstOf(KnownAt(p)))]]
        /\ UNCHANGED records
     \/ /\ onDisk[p] # Absent /\ KnownAt(p) = {}
        /\ records' = Append(records, NewRecord(p))
        /\ TaskEnds
  /\ UNCHANGED <<waiting, failed>> /\ Smooth /\ ScanOnly

(* The row gets the print of the file; its hash becomes stale if, as the   *)
(* row was read, it was trusted and belongs to another print.              *)
BecomesStale_Never(seen, print) == FALSE
BecomesStale(seen, print) == seen.trusted /\ seen.print # print

Refreshed(seen, print) ==
  [records EXCEPT ![seen.id] =
     [@ EXCEPT !.print = print, !.missing = FALSE,
               !.stale = records[seen.id].stale \/ BecomesStale(seen, print)]]

WriteModified ==
  LET p == scanner.job.path IN
  /\ scanner.at = "write"
  /\ records' = Refreshed(scanner.seen[p], scanner.print)
  /\ TaskEnds
  /\ UNCHANGED <<waiting, failed>> /\ Smooth /\ ScanOnly

(* A scan walks the directory and reads the rows of what it found.         *)
ScanLibrary ==
  /\ scanner.at = "begin" /\ scanner.job = FullScan
  /\ scanner' = [scanner EXCEPT !.at = "index", !.todo = FilesOnDisk,
       !.seen = [p \in {q \in FilesOnDisk : KnownAt(q) # {}} |-> Seen(LastOf(KnownAt(p)))]]
  /\ UNCHANGED <<records, waiting, failed>> /\ Smooth /\ ScanOnly

(* A known file is refreshed if its state or print differs, an unknown one *)
(* is added, one that is gone meanwhile is left to a later scan.           *)
NeedsRefresh_PrintOnly(seen, print) == seen.print # print
NeedsRefresh(seen, print) == seen.missing \/ seen.print # print

IndexFile(p) ==
  /\ scanner.at = "index" /\ p \in scanner.todo
  /\ records' =
       IF onDisk[p] = Absent THEN records
       ELSE IF p \notin DOMAIN scanner.seen THEN Append(records, NewRecord(p))
       ELSE IF NeedsRefresh(scanner.seen[p], onDisk[p])
            THEN Refreshed(scanner.seen[p], onDisk[p]) ELSE records
  /\ scanner' = [scanner EXCEPT !.todo = @ \ {p}]
  /\ UNCHANGED <<waiting, failed>> /\ Smooth /\ ScanOnly

(* After a full scan the active rows are compared with the disk.           *)
EndOfIndex ==
  /\ scanner.at = "index" /\ scanner.todo = {}
  /\ scanner' = [scanner EXCEPT !.at = "reconcile", !.seen = NothingThere,
                   !.todo = {records[i].path : i \in {j \in RowIds : ActiveRow(j)}}]
  /\ UNCHANGED <<records, waiting, failed>> /\ Smooth /\ ScanOnly

ReconcileMissing(p) ==
  /\ scanner.at = "reconcile" /\ p \in scanner.todo
  /\ scanner' = [scanner EXCEPT !.todo = @ \ {p},
                   !.at = IF onDisk[p] = Absent THEN "mark" ELSE @, !.path = p]
  /\ UNCHANGED <<records, waiting, failed>> /\ Smooth /\ ScanOnly

MarkMissing ==
  /\ scanner.at = "mark"
  /\ records' = MarkedMissing(scanner.path)
  /\ ScanTo("reconcile")
  /\ UNCHANGED <<waiting, failed>> /\ Smooth /\ ScanOnly

EndOfReconcile ==
  /\ scanner.at = "reconcile" /\ scanner.todo = {}
  /\ TaskEnds
  /\ UNCHANGED <<records, waiting, failed>> /\ Smooth /\ ScanOnly

(* A task that fails stays failed until it is retried: then it comes       *)
(* before all that were created after it.                                  *)
TaskFails ==
  /\ scanner.at \in {"begin", "reconcile"} /\ Mishap
  /\ failed' = IF scanner.job = FullScan \/ scanner.at # "begin" THEN failed
               ELSE scanner.job
  /\ asked' = (asked /\ scanner.job # FullScan)
  /\ TaskEnds
  /\ UNCHANGED <<records, waiting>> /\ WorkerOnly

RetryTask ==
  /\ failed # NoScanTask
  /\ Len(waiting) < MaxWaiting
  /\ waiting' = <<failed>> \o waiting
  /\ failed' = NoScanTask
  /\ asked' = FALSE
  /\ UNCHANGED <<records, scanner>> /\ Smooth /\ WorkerOnly

-----------------------------------------------------------------------------
(* The hash backfill: one row at a time, the file read while the row and   *)
(* the file may change.  The print is taken from the open file before it   *)
(* is read.                                                                *)

Turn == turns < MaxTurns /\ turns' = turns + 1

NeedsHash(i) == ActiveRow(i) /\ (records[i].hash = Absent \/ records[i].stale)

ReadHash(i) ==
  /\ hasher = NoHash /\ Turn
  /\ NeedsHash(i) /\ onDisk[records[i].path] # Absent
  /\ hasher' = [row |-> i, print |-> onDisk[records[i].path],
                 content |-> onDisk[records[i].path]]
  /\ UNCHANGED <<onDisk, prints, records, timers, waiting, failed, scanner, renamer,
                 hashOvertaken, moved, asked, mishaps>>

HeldByScan == {scanner.seen[p].id : p \in DOMAIN scanner.seen}

(* The row gets the print the file had when it was opened.                 *)
HashedPrint_AtEnd == onDisk[records[hasher.row].path]
HashedPrint == hasher.print

StoreHash ==
  /\ hasher # NoHash
  /\ records' = [records EXCEPT ![hasher.row] =
       [@ EXCEPT !.hash = hasher.content, !.stale = FALSE, !.print = HashedPrint,
                 !.missing = FALSE]]
  /\ hashOvertaken' = IF hasher.row \in HeldByScan THEN hashOvertaken \cup {hasher.row}
                  ELSE hashOvertaken
  /\ hasher' = NoHash
  /\ asked' = FALSE
  /\ UNCHANGED <<onDisk, prints, timers, waiting, failed, scanner, renamer, turns, moved,
                 mishaps>>

-----------------------------------------------------------------------------
(* Users.                                                                  *)

UserOnly == asked' = FALSE /\ UNCHANGED <<prints, failed, scanner, hasher, hashOvertaken>>

SetDeleted(i, was) ==
  /\ records[i].deleted = was /\ Turn
  /\ records' = [records EXCEPT ![i].deleted = ~was]
  /\ UNCHANGED <<onDisk, timers, waiting, renamer, moved, mishaps>> /\ UserOnly

DeleteMedia(i)  == SetDeleted(i, FALSE)
RestoreMedia(i) == SetDeleted(i, TRUE)

(* A rename asks for a path where neither a file nor a row that counts as  *)
(* available is; a move does not ask about rows.                           *)
RenameTargetFree(q) == \A i \in RowsAt(q) : records[i].missing

StartRename(i, q, move) ==
  /\ renamer = NoRename /\ ActiveRow(i) /\ Turn
  /\ onDisk[q] = Absent /\ onDisk[records[i].path] # Absent
  /\ move \/ RenameTargetFree(q)
  /\ renamer' = [row |-> i, to |-> q, done |-> FALSE]
  /\ UNCHANGED <<onDisk, timers, waiting, records, moved, mishaps>> /\ UserOnly

(* The file goes over whatever has come to the new path since the look.    *)
RenameOnDisk ==
  LET p == records[renamer.row].path IN
  /\ renamer # NoRename /\ ~renamer.done
  /\ \/ /\ onDisk[p] # Absent
        /\ MovedOnDisk(p, renamer.to)
        /\ renamer' = [renamer EXCEPT !.done = TRUE]
     \/ /\ onDisk[p] = Absent
        /\ renamer' = NoRename
        /\ UNCHANGED <<onDisk, timers, waiting>>
  /\ UNCHANGED <<records, turns, moved, mishaps>> /\ UserOnly

UpdateRenamed ==
  /\ renamer # NoRename /\ renamer.done
  /\ records' = [records EXCEPT ![renamer.row] =
                   [@ EXCEPT !.path = renamer.to, !.print = Unlike]]
  /\ moved' = moved \cup {renamer.row}
  /\ renamer' = NoRename
  /\ UNCHANGED <<onDisk, timers, waiting, turns, mishaps>> /\ UserOnly

(* When the database fails the file goes back to where it was.             *)
RollBackRename ==
  LET p == records[renamer.row].path IN
  /\ renamer # NoRename /\ renamer.done /\ Mishap
  /\ IF onDisk[renamer.to] # Absent /\ renamer.to # p THEN MovedOnDisk(renamer.to, p)
     ELSE UNCHANGED <<onDisk, timers, waiting>>
  /\ renamer' = NoRename
  /\ UNCHANGED <<records, turns, moved>> /\ UserOnly

(* The queue is in the database: a running task runs again, first.         *)
LibraryCrash ==
  /\ Mishap
  /\ timers' = {}
  /\ waiting' = IF scanner = ScanIdle THEN waiting ELSE <<scanner.job>> \o waiting
  /\ scanner' = ScanIdle
  /\ hasher' = NoHash
  /\ renamer' = NoRename
  /\ UNCHANGED <<onDisk, prints, records, failed, turns, hashOvertaken, moved, asked>>

-----------------------------------------------------------------------------
ScanWorker ==
  \/ TakeTask \/ ApplyRemoved \/ ApplyModified \/ WriteModified
  \/ ScanLibrary \/ EndOfIndex \/ MarkMissing \/ EndOfReconcile
  \/ \E p \in Files : IndexFile(p) \/ ReconcileMissing(p)

LibraryNext ==
  \/ \E p \in Files : PutFile(p) \/ RemoveFile(p) \/ InsertRecord(p)
  \/ RequestFullScan \/ ScanWorker \/ TaskFails \/ RetryTask
  \/ \E i \in RowIds : ReadHash(i) \/ DeleteMedia(i) \/ RestoreMedia(i)
  \/ \E i \in RowIds, q \in Files, move \in BOOLEAN : StartRename(i, q, move)
  \/ StoreHash \/ RenameOnDisk \/ UpdateRenamed \/ RollBackRename
  \/ LibraryCrash

LibraryFairness ==
  /\ WF_libraryVars(ScanWorker)
  /\ WF_libraryVars(\E p \in Files : InsertRecord(p))
  /\ WF_libraryVars(RenameOnDisk \/ UpdateRenamed)
  /\ WF_libraryVars(StoreHash)

LibrarySpec == LibraryInit /\ [][LibraryNext]_libraryVars /\ LibraryFairness

-----------------------------------------------------------------------------
(* Two rows at one path.                                                   *)
Doubled(p) == Cardinality(RowsAt(p)) > 1

(* A row that is as it was inserted says nothing of its file yet.          *)
Describes(i, print) ==
  records[i].print = print \/ (records[i].print = Unlike /\ records[i].hash = Absent)

Agrees(p) ==
  IF onDisk[p] = Absent THEN \A i \in RowsAt(p) : ~ActiveRow(i)
  ELSE \E i \in RowsAt(p) : ~records[i].missing /\ Describes(i, onDisk[p])

(* A full scan mends the index: when a user has asked for one and nothing  *)
(* changes after that, then whatever events were lost and tasks failed     *)
(* before, and if the server crashes in its midst, every path comes to     *)
(* agree with the disk and goes on so: a file has an available row that    *)
(* describes it, a path without a file has no active row, unless a rename or  *)
(* move has put two rows at one path.  Without one nothing of the kind is  *)
(* promised.                                                               *)
FullScanMends == <>[]asked => <>[](\A p \in Files : Agrees(p) \/ Doubled(p))

(* What a user has deleted stays deleted: the worker changes no row's      *)
(* deletion and adds no row beside a deleted one; it never adds a row at a *)
(* path that has one, but for a row that a rename has brought there.       *)
SparesDeleted ==
  scanner' # scanner /\ mishaps' = mishaps =>
    /\ \A i \in RowIds : records'[i].deleted = records[i].deleted
    /\ \A i \in DOMAIN records' \ RowIds : RowsAt(records'[i].path) \subseteq moved

ScanSparesDeleted == [][SparesDeleted]_libraryVars

(* A hash that counts as valid is the hash of the file the row describes,  *)
(* unless it was stored between a scan's reading and writing of the row.   *)
(* That of a file rewritten while it was read is of no file; but then the  *)
(* row describes one that is no more, so that the next scan of its path    *)
(* finds another print and the hash becomes stale.                         *)
TrustedHashFits ==
  \A i \in RowIds \ hashOvertaken :
    records[i].hash # Absent /\ ~records[i].stale
      => \/ records[i].print \in {records[i].hash, Unlike}
         \/ records[i].hash = Torn /\ \A p \in Files : onDisk[p] # records[i].print
=============================================================================
