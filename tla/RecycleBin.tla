----------------------------- MODULE RecycleBin -----------------------------
(***************************************************************************)
(* The recycle bin: soft delete and restore of a media file, and the       *)
(* cleanup that moves the file of a deleted row into the recycle folder    *)
(* and then deletes the row.                                               *)
(*                                                                         *)
(* One row and the three paths its cleanup works on: the source in the     *)
(* library, the target in the recycle folder and the recovery copy beside  *)
(* it.  A path holds a file, that is an inode with a content; a hard link  *)
(* is the same inode at another path, a snapshot is a new inode with the   *)
(* same content.  Cleanup rounds exclude each other by a mutex, so there   *)
(* is one cleanup at a time; users, scans and other programs interleave    *)
(* with each of its steps, and the process may end anywhere.               *)
(***************************************************************************)
EXTENDS Faults, FiniteSets

CONSTANTS MaxDeletes,  \* bound on the soft deletes of the row
          MaxInodes    \* inodes of one content

(* Five inodes are ever in use at once, so that a file system always has   *)
(* another.                                                                *)
ASSUME RecycleAssumption ==
  MaxDeletes \in Nat \ {0} /\ MaxInodes \in Nat /\ MaxInodes >= 6

VARIABLES
  binRow,        \* [in, deleted, claim]: deleted is the number of the soft delete
              \* (its deleted_at) or 0, claim the recycle_cleanup: file state
  binDeletes,    \* soft deletes so far
  source, target, recovery,  \* the file at each path, or NoFile
  manifest,   \* the soft delete the manifest is about, or 0
  cleanupAt,         \* the step of the cleanup
  staging,       \* what the cleanup holds in memory
  restages,   \* recycleNeedsAtomicRestage: the build for other systems than Windows
  binScanning,   \* a scan has looked at the row and the file and will write
  cleanupHistory     \* [replaced, intruded, overrun, undermined, dropped]

binRowVars  == <<binRow, binDeletes>>
fileVars == <<source, target, recovery, manifest>>
recycleVars == <<binRowVars, fileVars, cleanupAt, staging, restages, binScanning, mishaps, cleanupHistory>>

Content == {"original", "foreign"}
File    == [content : Content, n : 1 .. MaxInodes]
NoFile  == [content |-> "none", n |-> 0]
Paths   == {source, target, recovery}

NoWork == [claim |-> 0, stable |-> NoFile, target |-> NoFile, recovery |-> NoFile,
           missing |-> FALSE, removed |-> FALSE, made |-> {}]

RecycleTypeOK ==
  /\ binRow \in [in : BOOLEAN, deleted : 0 .. MaxDeletes, claim : BOOLEAN]
  /\ binDeletes \in 0 .. MaxDeletes
  /\ {source, target, recovery} \subseteq File \cup {NoFile}
  /\ manifest \in 0 .. MaxDeletes
  /\ cleanupAt \in {"idle", "stage", "reference", "target", "recovery", "manifest",
             "remove", "unlink source", "final", "delete", "verify", "unlink", "release", "undo",
             "put back", "release put back", "unstage", "materialize", "reinsert"}
  /\ staging \in [claim : 0 .. MaxDeletes, stable : File \cup {NoFile},
               target : File \cup {NoFile}, recovery : File \cup {NoFile},
               missing : BOOLEAN, removed : BOOLEAN,
               made : SUBSET {"target", "recovery", "manifest"}]
  /\ restages \in BOOLEAN
  /\ binScanning \in BOOLEAN
  /\ mishaps \in 0 .. MaxMishaps
  /\ cleanupHistory \in [replaced : BOOLEAN, intruded : BOOLEAN, overrun : BOOLEAN,
                  undermined : BOOLEAN, dropped : BOOLEAN]

RecycleInit ==
  /\ binRow = [in |-> TRUE, deleted |-> 0, claim |-> FALSE]
  /\ binDeletes = 0
  /\ source = [content |-> "original", n |-> 1]
  /\ target = NoFile
  /\ recovery = NoFile
  /\ manifest = 0
  /\ cleanupAt = "idle"
  /\ staging = NoWork
  /\ restages \in BOOLEAN
  /\ binScanning = FALSE
  /\ mishaps = 0
  /\ cleanupHistory = [replaced |-> FALSE, intruded |-> FALSE, overrun |-> FALSE,
                undermined |-> FALSE, dropped |-> FALSE]

(* A snapshot is written to a temporary file, checked and published.       *)
Snapshot(file) ==
  LET inUse == Paths \cup {staging.stable, staging.target, staging.recovery} IN
  CHOOSE f \in File : f.content = file.content /\ f \notin inUse

-----------------------------------------------------------------------------
(* Users, scans and other programs.                                        *)

CleanupWaits == UNCHANGED <<cleanupAt, staging, restages>>

SoftDelete ==
  /\ binRow.in /\ binRow.deleted = 0
  /\ binDeletes < MaxDeletes
  /\ binDeletes' = binDeletes + 1
  /\ binRow' = [binRow EXCEPT !.deleted = binDeletes + 1]
  /\ UNCHANGED <<fileVars, binScanning, mishaps, cleanupHistory>> /\ CleanupWaits

(* A row that a cleanup has claimed is not there to be restored.           *)
Restorable_Any == binRow.in /\ binRow.deleted # 0
Restorable == binRow.in /\ binRow.deleted # 0 /\ ~binRow.claim

Restore ==
  /\ Restorable
  /\ binRow' = [binRow EXCEPT !.deleted = 0]
  /\ UNCHANGED <<binDeletes, fileVars, binScanning, mishaps, cleanupHistory>> /\ CleanupWaits

(* A scan reads the rows of the paths it walks, deleted ones included,     *)
(* and stats the files; then it writes the state of those that changed.    *)
ScanLooks ==
  /\ ~binScanning /\ binRow.in /\ source # NoFile
  /\ binScanning' = TRUE
  /\ UNCHANGED <<binRowVars, fileVars, mishaps, cleanupHistory>> /\ CleanupWaits

ScanWrites ==
  /\ binScanning
  /\ binScanning' = FALSE
  /\ binRow' = [binRow EXCEPT !.claim = FALSE]
  /\ cleanupHistory' = [cleanupHistory EXCEPT !.undermined = @ \/ binRow.claim]
  /\ UNCHANGED <<binDeletes, fileVars, mishaps>> /\ CleanupWaits

ScanFindsNoChange ==
  /\ binScanning
  /\ binScanning' = FALSE
  /\ UNCHANGED <<binRowVars, fileVars, mishaps, cleanupHistory>> /\ CleanupWaits

(* The library of the row is removed and its rows with it.                 *)
DeleteMediaRecords ==
  /\ binRow.in /\ Mishap
  /\ binRow' = [binRow EXCEPT !.in = FALSE]
  /\ cleanupHistory' = [cleanupHistory EXCEPT !.dropped = TRUE]
  /\ UNCHANGED <<binDeletes, fileVars, binScanning>> /\ CleanupWaits

Foreign == [content |-> "foreign", n |-> 1]

(* Another program puts a new file at the path of the source, where the    *)
(* cleanup has taken the old one away or while it is still there; also     *)
(* between the comparison of the source and its removal.                   *)
ForeignFile ==
  /\ Mishap
  /\ ~cleanupHistory.intruded
  /\ source' = Foreign
  /\ cleanupHistory' = [cleanupHistory EXCEPT !.intruded = TRUE, !.replaced = source # NoFile,
                                             !.overrun = cleanupAt = "unlink source"]
  /\ UNCHANGED <<binRowVars, target, recovery, manifest, binScanning>> /\ CleanupWaits

-----------------------------------------------------------------------------
(* The cleanup of one item, up to the removal of the source.               *)

CleanupOnly == UNCHANGED <<binDeletes, restages, binScanning>>
Cleanup == CleanupOnly /\ UNCHANGED cleanupHistory
CleanupTo(step) == cleanupAt' = step

(* The claim is written into the file state, or taken over as a crash has  *)
(* left it, in one transaction that compares deleted_at.                   *)
ClaimItem ==
  /\ cleanupAt = "idle"
  /\ binRow.in /\ binRow.deleted # 0
  /\ binRow' = [binRow EXCEPT !.claim = TRUE]
  /\ staging' = [NoWork EXCEPT !.claim = binRow.deleted]
  /\ CleanupTo("stage")
  /\ UNCHANGED fileVars /\ Smooth /\ Cleanup

PrepareStage ==
  /\ cleanupAt = "stage"
  /\ \/ CleanupTo("reference") /\ Smooth
     \/ CleanupTo("release") /\ Mishap
  /\ UNCHANGED <<binRow, staging, fileVars>> /\ Cleanup

(* The reference is the first of the three that is there; a target that is *)
(* there must be the same file.                                            *)
FirstReference ==
  IF source # NoFile THEN source ELSE IF target # NoFile THEN target ELSE recovery

LinksAgree == target \in {NoFile, FirstReference}

OpenReference ==
  /\ cleanupAt = "reference"
  /\ \/ /\ FirstReference # NoFile /\ LinksAgree
        /\ staging' = [staging EXCEPT !.stable = FirstReference,
                                !.missing = source = NoFile]
        /\ CleanupTo("target") /\ Smooth
     \/ /\ CleanupTo("release")
        /\ UNCHANGED staging
        /\ MishapIf(FirstReference # NoFile /\ LinksAgree)
  /\ UNCHANGED <<binRow, fileVars>> /\ Cleanup

(* A hard link of the reference, or a copy where only the recovery file is *)
(* left: a recovery file never becomes the target itself.                  *)
EnsureTarget ==
  /\ cleanupAt = "target"
  /\ \/ /\ target = NoFile
        /\ target' = IF staging.stable = recovery THEN Snapshot(staging.stable)
                     ELSE staging.stable
        /\ staging' = [staging EXCEPT !.made = @ \cup {"target"}]
        /\ CleanupTo("recovery") /\ Smooth
     \/ target # NoFile /\ CleanupTo("recovery") /\ Smooth /\ UNCHANGED <<target, staging>>
     \/ CleanupTo("release") /\ Mishap /\ UNCHANGED <<target, staging>>
  /\ UNCHANGED <<binRow, source, recovery, manifest>> /\ Cleanup

(* An independent copy.  Only now the cleanup knows target and recovery by *)
(* their inodes: a target made by an attempt that fails here stays.        *)
EnsureRecovery ==
  LET copy == IF recovery = NoFile THEN Snapshot(staging.stable) ELSE recovery IN
  /\ cleanupAt = "recovery"
  /\ \/ /\ recovery' = copy
        /\ staging' = [staging EXCEPT !.target = target, !.recovery = copy,
                      !.made = IF recovery = NoFile THEN @ \cup {"recovery"} ELSE @]
        /\ CleanupTo("manifest") /\ Smooth
     \/ CleanupTo("release") /\ Mishap /\ UNCHANGED <<recovery, staging>>
  /\ UNCHANGED <<binRow, source, target, manifest>> /\ Cleanup

CopiesAgree == staging.target.content = staging.stable.content
                 /\ staging.recovery.content = staging.stable.content

(* Without the source there must be a manifest that says whose file this   *)
(* is; with it one is made, or the one that is there must agree.           *)
ManifestAgrees == IF manifest = 0 THEN ~staging.missing ELSE manifest = staging.claim

PrepareManifest ==
  /\ cleanupAt = "manifest"
  /\ \/ /\ CopiesAgree /\ ManifestAgrees
        /\ manifest' = staging.claim
        /\ staging' = [staging EXCEPT !.removed = staging.missing,
                      !.made = IF manifest = 0 THEN @ \cup {"manifest"} ELSE @]
        /\ CleanupTo("remove") /\ Smooth
     \/ /\ CleanupTo("release")
        /\ UNCHANGED <<manifest, staging>>
        /\ MishapIf(CopiesAgree /\ ManifestAgrees)
  /\ UNCHANGED <<binRow, source, target, recovery>> /\ Cleanup

StagedLinksHold == target = staging.target /\ recovery = staging.recovery

(* The source is removed only if it was the file that was staged when it   *)
(* was compared; the removal is a call of its own, by the path alone.      *)
SourceIsStaged_NotAsked == TRUE
SourceIsStaged == source = staging.stable

CheckSource ==
  /\ cleanupAt = "remove"
  /\ \/ /\ staging.removed \/ source = NoFile
        /\ staging' = [staging EXCEPT !.removed = TRUE]
        /\ CleanupTo("final") /\ Smooth
     \/ /\ ~staging.removed /\ source # NoFile /\ StagedLinksHold /\ SourceIsStaged
        /\ CleanupTo("unlink source") /\ UNCHANGED staging /\ Smooth
     \/ /\ ~staging.removed /\ source # NoFile
        /\ CleanupTo("release") /\ UNCHANGED staging
        /\ MishapIf(StagedLinksHold /\ SourceIsStaged)
  /\ UNCHANGED <<binRow, fileVars>> /\ Cleanup

RemoveSource ==
  /\ cleanupAt = "unlink source"
  /\ \/ /\ source' = NoFile
        /\ staging' = [staging EXCEPT !.removed = TRUE]
        /\ CleanupTo("final") /\ Smooth
     \/ CleanupTo("release") /\ UNCHANGED <<source, staging>> /\ Mishap
  /\ UNCHANGED <<binRow, target, recovery, manifest>> /\ Cleanup

-----------------------------------------------------------------------------
(* The last checks, the delete of the row and the check after it.          *)

FinalHolds == StagedLinksHold /\ source = NoFile /\ manifest = staging.claim

(* Outside Windows the target is replaced by a fresh copy of the recovery  *)
(* file first.                                                             *)
RestageFinalTarget ==
  /\ cleanupAt = "final" /\ restages
  /\ target' = Snapshot(staging.recovery)
  /\ staging' = [staging EXCEPT !.target = target']
  /\ CleanupTo(IF source = NoFile /\ recovery = staging.recovery THEN "delete" ELSE "put back")
  /\ UNCHANGED <<binRow, source, recovery, manifest>> /\ Smooth /\ Cleanup

LockAndValidateFinal ==
  /\ cleanupAt = "final"
  /\ \/ FinalHolds /\ ~restages /\ CleanupTo("delete") /\ Smooth
     \/ ~FinalHolds /\ ~restages /\ CleanupTo("put back") /\ Smooth
     \/ CleanupTo("put back") /\ Mishap
  /\ UNCHANGED <<binRow, staging, fileVars>> /\ Cleanup

ClaimHolds == binRow.in /\ binRow.deleted = staging.claim /\ binRow.claim

(* One transaction: the row, compared with the claim, and its watch state, *)
(* metadata, chapters and bookmarks, which are kept in memory.             *)
DeleteClaim ==
  /\ cleanupAt = "delete"
  /\ \/ ClaimHolds /\ binRow' = [binRow EXCEPT !.in = FALSE] /\ CleanupTo("verify") /\ Smooth
     \/ /\ CleanupTo("put back") /\ UNCHANGED binRow
        /\ MishapIf(ClaimHolds)
  /\ UNCHANGED <<staging, fileVars>> /\ Cleanup

ValidateAfterDelete ==
  /\ cleanupAt = "verify"
  /\ \/ FinalHolds /\ CleanupTo("unlink") /\ Smooth
     \/ CleanupTo("materialize") /\ MishapIf(FinalHolds)
  /\ UNCHANGED <<binRow, staging, fileVars>> /\ Cleanup

CleanupEnds == cleanupAt' = "idle" /\ staging' = NoWork
Without(path, file) == IF path = file THEN NoFile ELSE path

RemoveRecoveryLink ==
  /\ cleanupAt = "unlink"
  /\ recovery' = Without(recovery, staging.recovery)
  /\ CleanupEnds
  /\ UNCHANGED <<binRow, source, target, manifest>> /\ Smooth /\ Cleanup

-----------------------------------------------------------------------------
(* Failures before the source was removed: the claim is released and what  *)
(* this attempt made is removed, unless the source is missing.             *)

Undermined(when) == cleanupHistory' = [cleanupHistory EXCEPT !.undermined = @ \/ when]

ReleaseClaim(then) ==
  \/ /\ ClaimHolds /\ binRow' = [binRow EXCEPT !.claim = FALSE]
     /\ Undermined(source = NoFile) /\ Smooth /\ then
  \/ CleanupEnds /\ UNCHANGED <<binRow, cleanupHistory>> /\ MishapIf(ClaimHolds)

FailBeforeSourceRemoval ==
  /\ cleanupAt = "release"
  /\ ReleaseClaim(IF staging.missing THEN CleanupEnds ELSE CleanupTo("undo") /\ UNCHANGED staging)
  /\ UNCHANGED fileVars /\ CleanupOnly

RemoveCreatedArtifacts ==
  /\ cleanupAt = "undo"
  /\ manifest' = IF "manifest" \in staging.made THEN 0 ELSE manifest
  /\ recovery' = IF "recovery" \in staging.made THEN Without(recovery, staging.recovery)
                 ELSE recovery
  /\ target' = IF "target" \in staging.made THEN Without(target, staging.target) ELSE target
  /\ CleanupEnds
  /\ UNCHANGED <<binRow, source>> /\ Smooth /\ Cleanup

(* Failures after it: the recovery copy is linked back to the source path, *)
(* if that is free, then the claim is released, then the rest is removed.  *)
SourceIsFree_NotAsked == TRUE
SourceIsFree == source = NoFile

RestoreSource ==
  /\ cleanupAt = "put back"
  /\ \/ /\ SourceIsFree /\ recovery = staging.recovery
        /\ source' = staging.recovery
        /\ CleanupTo("release put back") /\ UNCHANGED staging /\ Smooth
     \/ /\ CleanupEnds /\ UNCHANGED source
        /\ MishapIf(SourceIsFree)
  /\ UNCHANGED <<binRow, target, recovery, manifest>> /\ Cleanup

ReleaseAfterRestore ==
  /\ cleanupAt = "release put back"
  /\ ReleaseClaim(CleanupTo("unstage") /\ UNCHANGED staging)
  /\ UNCHANGED fileVars /\ CleanupOnly

RemoveStagedArtifacts ==
  /\ cleanupAt = "unstage"
  /\ manifest' = 0
  /\ recovery' = Without(recovery, staging.recovery)
  /\ target' = Without(target, staging.target)
  /\ CleanupEnds
  /\ UNCHANGED <<binRow, source>> /\ Smooth /\ Cleanup

(* Failures after the row was deleted: source and row come back, each if   *)
(* it can; target, recovery copy and manifest stay for a later attempt.    *)
MaterializeSource ==
  /\ cleanupAt = "materialize"
  /\ \/ SourceIsFree /\ source' = Snapshot(staging.recovery) /\ Smooth
     \/ UNCHANGED source /\ MishapIf(SourceIsFree)
  /\ CleanupTo("reinsert")
  /\ UNCHANGED <<binRow, staging, target, recovery, manifest>> /\ Cleanup

RestoreDeleteSnapshot ==
  /\ cleanupAt = "reinsert"
  /\ \/ /\ binRow' = [in |-> TRUE, deleted |-> staging.claim, claim |-> FALSE]
        /\ Undermined(source = NoFile) /\ Smooth
     \/ UNCHANGED <<binRow, cleanupHistory>> /\ Mishap
  /\ CleanupEnds
  /\ UNCHANGED fileVars /\ CleanupOnly

-----------------------------------------------------------------------------
CleanupCrash ==
  /\ cleanupAt # "idle" \/ binScanning
  /\ Mishap
  /\ CleanupEnds
  /\ binScanning' = FALSE
  /\ UNCHANGED <<binRowVars, fileVars, restages, cleanupHistory>>

CleanupStep ==
  \/ ClaimItem \/ PrepareStage \/ OpenReference \/ EnsureTarget \/ EnsureRecovery
  \/ PrepareManifest \/ CheckSource \/ RemoveSource \/ RestageFinalTarget
  \/ LockAndValidateFinal
  \/ DeleteClaim \/ ValidateAfterDelete \/ RemoveRecoveryLink
  \/ FailBeforeSourceRemoval \/ RemoveCreatedArtifacts
  \/ RestoreSource \/ ReleaseAfterRestore \/ RemoveStagedArtifacts
  \/ MaterializeSource \/ RestoreDeleteSnapshot

RecycleNext ==
  \/ SoftDelete \/ Restore
  \/ ScanLooks \/ ScanWrites \/ ScanFindsNoChange
  \/ DeleteMediaRecords \/ ForeignFile
  \/ CleanupStep \/ CleanupCrash

(* Rounds keep coming: the automatic cleanup runs from a ticker.           *)
RecycleSpec == RecycleInit /\ [][RecycleNext]_recycleVars /\ WF_recycleVars(CleanupStep)

-----------------------------------------------------------------------------
Kept(content) == \E file \in Paths : file.content = content

(* No content is ever lost, whatever fails wherever: the file of the row   *)
(* is at the source, in the recycle folder or in the recovery copy, unless *)
(* another program has replaced it itself; and so is a file that another   *)
(* program has put at the path of the source, unless it did so between the *)
(* comparison of the source with what was staged and the removal of it:    *)
(* then the cleanup removes what it has never seen.                        *)
NoContentIsLost ==
  /\ ~cleanupHistory.replaced => Kept("original")
  /\ cleanupHistory.intruded /\ ~cleanupHistory.overrun => Kept("foreign")

(* A row that the cleanup has deleted left its file in the recycle folder, *)
(* with the manifest that says whose it is.                                *)
DeletedIsStaged ==
  ~binRow.in /\ ~cleanupHistory.dropped => target # NoFile /\ manifest # 0

(* A row that is not deleted has its file in the library: a restore never  *)
(* finds a row whose file the cleanup has taken away, unless the claim was *)
(* overwritten by a scan, or released while the source was missing, which  *)
(* the code reports as a recovery error.                                   *)
ActiveHasFile ==
  binRow.in /\ binRow.deleted = 0 /\ ~cleanupHistory.undermined => source # NoFile

(* A claim is given up in the end, by the row going or by its release, so  *)
(* no crash or failure leaves a row that can never be restored.            *)
ClaimsResolve == binRow.in /\ binRow.claim ~> ~(binRow.in /\ binRow.claim)
=============================================================================
