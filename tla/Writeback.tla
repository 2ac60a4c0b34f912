----------------------------- MODULE Writeback ------------------------------
(***************************************************************************)
(* Writing edited metadata back into one image (metadata.writeback): the   *)
(* request that hashes and snapshots the original and enqueues the task,   *)
(* the handler that lets ImageMagick write a temporary file and swaps it   *)
(* in over a backup, the rollback from the snapshot, and the cleaning of   *)
(* old snapshots, with edits from outside and crashes in between.  The     *)
(* task type has limit one, which MCTaskPools shows not to hold: handlers  *)
(* may run side by side, of one task too when it was canceled and retried. *)
(* They share the names of the temporary file and of the backup.           *)
(* A content of a file is a number, a new one for every write, be it that  *)
(* of half a file.                                                         *)
(***************************************************************************)
EXTENDS Faults, FiniteSets

CONSTANTS Writebacks,    \* confirmed requests, numbered
          Swappers,      \* executions at a time, numbered
          MaxContents,   \* contents files may get after the first, 0
          MaxSeconds     \* last second of the clock snapshots are named by

ASSUME WritebackAssumption ==
  /\ Writebacks \subseteq Nat \ {0} /\ Swappers \subseteq Nat
  /\ MaxContents \in Nat /\ MaxSeconds \in Nat

VARIABLES
  image,      \* content at the path of the media, GoneContent when nothing is there
  temporary,  \* content of the .tmp file
  backup,     \* content of the .bak file
  writtenTags,    \* contents made so far
  second,     \* the clock
  snapshots,  \* snapshots[t]: content of the snapshot named by second t
  confirm,    \* confirm[w]: the task of a request
  swapper,    \* swapper[e]: an execution, found at its check, moved to the backup
  replaced,   \* replaced[w]: what its successes moved away
  owned,      \* history: the content the user made last
  outsideWrites,    \* history: it met one of the ways the code gives it up
  rewritten,  \* history: seconds whose snapshot was written over, or was not
              \* of what had been hashed
  overtaken   \* history: requests a success of which moved away something else
              \* than it had checked

contentVars == <<image, temporary, backup, writtenTags, snapshots>>
givenUpVars == <<owned, outsideWrites, rewritten, overtaken>>
writebackVars == <<image, temporary, backup, writtenTags, second, snapshots, confirm, swapper,
                   replaced, owned, outsideWrites, rewritten, overtaken, mishaps>>

GoneContent == MaxContents + 1
Contents == 0 .. GoneContent
Seconds == 0 .. MaxSeconds
NoConfirm == [at |-> "none", hash |-> GoneContent, second |-> 0]
NoSwapper == [of |-> 0, at |-> "idle", found |-> GoneContent, moved |-> GoneContent]

ConfirmRecords ==
  [at : {"none", "hashed", "refused", "reused", "pending", "running", "succeeded", "failed",
         "canceled"},
   hash : Contents, second : Seconds]
SwapperRecords ==
  [of : Writebacks \cup {0}, found : Contents, moved : Contents,
   at : {"idle", "hash", "clear", "tool", "unlink", "backup", "replace", "discard", "succeed",
         "back", "sweep", "settle", "copy", "fail"}]

WritebackTypeOK ==
  /\ {image, temporary, backup} \subseteq Contents /\ owned \in 0 .. MaxContents
  /\ writtenTags \in 0 .. MaxContents /\ second \in Seconds
  /\ snapshots \in [Seconds -> Contents]
  /\ confirm \in [Writebacks -> ConfirmRecords]
  /\ swapper \in [Swappers -> SwapperRecords]
  /\ replaced \in [Writebacks -> SUBSET Contents]
  /\ outsideWrites \in BOOLEAN /\ rewritten \subseteq Seconds /\ overtaken \subseteq Writebacks
  /\ mishaps \in 0 .. MaxMishaps

WritebackInit ==
  /\ image = 0 /\ temporary = GoneContent /\ backup = GoneContent
  /\ writtenTags = 0 /\ second = 0
  /\ snapshots = [t \in Seconds |-> GoneContent]
  /\ confirm = [w \in Writebacks |-> NoConfirm]
  /\ swapper = [e \in Swappers |-> NoSwapper]
  /\ replaced = [w \in Writebacks |-> {}]
  /\ owned = 0 /\ outsideWrites = FALSE /\ rewritten = {} /\ overtaken = {}

\* A write makes a new content.
NewContent == writtenTags + 1
MakesContent == writtenTags < MaxContents /\ writtenTags' = NewContent

Tick ==
  /\ second < MaxSeconds /\ second' = second + 1
  /\ UNCHANGED <<contentVars, confirm, swapper, replaced, givenUpVars>> /\ Smooth

-----------------------------------------------------------------------------
(* The request.                                                            *)

HashOriginal(w) ==
  /\ confirm[w].at = "none" /\ \A v \in Writebacks : v < w => confirm[v].at # "none"
  /\ image # GoneContent
  /\ confirm' = [confirm EXCEPT ![w] = [at |-> "hashed", hash |-> image, second |-> 0]]
  /\ UNCHANGED <<contentVars, second, swapper, replaced, givenUpVars>> /\ Smooth

(* The snapshot is named by the second and truncates what has that name;   *)
(* so is the key, so that an unfinished task of this second is taken for   *)
(* the new one.                                                            *)
KeyTaken(t) ==
  \E v \in Writebacks : confirm[v].at \in {"pending", "running"} /\ confirm[v].second = t

WritesSnapshot(w, at) ==
  /\ confirm[w].at = "hashed" /\ image # GoneContent
  /\ outsideWrites' = (outsideWrites \/ snapshots[second] = owned)
  /\ confirm' = [confirm EXCEPT ![w] =
                   [at |-> at, hash |-> confirm[w].hash, second |-> second]]
  /\ UNCHANGED <<image, temporary, backup, second, swapper, replaced, owned, overtaken>>

(* An edit in the middle of the copy, which is then of neither, is taken   *)
(* for one before it.                                                      *)
SnapshotAndEnqueue(w) ==
  /\ WritesSnapshot(w, IF KeyTaken(second) THEN "reused" ELSE "pending")
  /\ rewritten' = IF snapshots[second] = GoneContent /\ image = confirm[w].hash
                  THEN rewritten ELSE rewritten \cup {second}
  /\ \/ snapshots' = [snapshots EXCEPT ![second] = image] /\ UNCHANGED writtenTags
     \/ /\ image # confirm[w].hash /\ MakesContent
        /\ snapshots' = [snapshots EXCEPT ![second] = NewContent]
  /\ Smooth

(* A copy that fails removes what it was writing, one cut by a crash       *)
(* leaves it.  There is no task then.                                      *)
SnapshotFails(w) ==
  /\ WritesSnapshot(w, "refused")
  /\ rewritten' = rewritten \cup {second}
  /\ \/ snapshots' = [snapshots EXCEPT ![second] = GoneContent] /\ UNCHANGED writtenTags
     \/ MakesContent /\ snapshots' = [snapshots EXCEPT ![second] = NewContent]
  /\ Mishap

TaskBecomes(w, at) ==
  confirm' = [confirm EXCEPT ![w] =
    [at |-> at, hash |-> confirm[w].hash, second |-> confirm[w].second]]

CancelWriteback(w) ==
  /\ confirm[w].at \in {"pending", "running"} /\ TaskBecomes(w, "canceled")
  /\ UNCHANGED <<contentVars, second, swapper, replaced, givenUpVars>> /\ Smooth

\* A retry takes from the budget, to bound how often.
RetryWriteback(w) ==
  /\ confirm[w].at \in {"failed", "canceled"} /\ ~KeyTaken(confirm[w].second)
  /\ TaskBecomes(w, "pending")
  /\ UNCHANGED <<contentVars, second, swapper, replaced, givenUpVars>> /\ Mishap

-----------------------------------------------------------------------------
(* An execution.  Nothing is asked of a cancel after the tool's run.       *)
SwapTo(e, at) ==
  swapper' = [swapper EXCEPT ![e] =
    [of |-> swapper[e].of, at |-> at, found |-> swapper[e].found, moved |-> swapper[e].moved]]
SwapperOnly == UNCHANGED <<second, snapshots, confirm, replaced, givenUpVars>>

\* Bound: a free execution with the least number.
Take(e) == swapper[e] = NoSwapper /\ \A d \in Swappers : d < e => swapper[d] # NoSwapper

TakeWriteback(e, w) ==
  /\ Take(e) /\ confirm[w].at = "pending" /\ TaskBecomes(w, "running")
  /\ swapper' = [swapper EXCEPT ![e] =
       [of |-> w, at |-> "hash", found |-> GoneContent, moved |-> GoneContent]]
  /\ UNCHANGED <<contentVars, second, replaced, givenUpVars>> /\ Smooth

(* The original must still be what was snapshot, and the snapshot there.   *)
SameAsSnapshot_NotAsked(w) == image # GoneContent
SameAsSnapshot(w) == image # GoneContent /\ image = confirm[w].hash

VerifyOriginal(e) ==
  LET w == swapper[e].of IN
  /\ swapper[e].at = "hash"
  /\ IF SameAsSnapshot(w) /\ snapshots[confirm[w].second] # GoneContent
     THEN swapper' = [swapper EXCEPT ![e] =
            [of |-> w, at |-> "clear", found |-> image, moved |-> GoneContent]]
     ELSE SwapTo(e, "fail")
  /\ UNCHANGED <<image, temporary, backup, writtenTags>> /\ SwapperOnly /\ Smooth

ClearTemporary(e) ==
  /\ swapper[e].at = "clear" /\ temporary' = GoneContent /\ SwapTo(e, "tool")
  /\ UNCHANGED <<image, backup, writtenTags>> /\ SwapperOnly /\ Smooth

(* The tool writes the temporary file, or fails, or a cancel kills it.     *)
RunMagick(e) ==
  /\ swapper[e].at = "tool"
  /\ \/ /\ image # GoneContent /\ MakesContent /\ temporary' = NewContent
        /\ SwapTo(e, "unlink")
        /\ Smooth
     \/ /\ SwapTo(e, "sweep") /\ UNCHANGED <<temporary, writtenTags>>
        /\ MishapIf(image # GoneContent /\ confirm[swapper[e].of].at = "running")
  /\ UNCHANGED <<image, backup>> /\ SwapperOnly

ClearBackup(e) ==
  /\ swapper[e].at = "unlink" /\ backup' = GoneContent /\ SwapTo(e, "backup")
  /\ UNCHANGED <<image, temporary, writtenTags>> /\ SwapperOnly /\ Smooth

RenameToBackup(e) ==
  /\ swapper[e].at = "backup"
  /\ \/ /\ image # GoneContent /\ backup' = image /\ image' = GoneContent /\ Smooth
        /\ swapper' = [swapper EXCEPT ![e] =
             [of |-> swapper[e].of, at |-> "replace", found |-> swapper[e].found,
              moved |-> image]]
     \/ /\ SwapTo(e, "sweep") /\ UNCHANGED <<image, backup>>
        /\ MishapIf(image # GoneContent)
  /\ UNCHANGED <<temporary, writtenTags>> /\ SwapperOnly

(* The new file moves in, over whatever is there.                          *)
RenameIntoPlace(e) ==
  /\ swapper[e].at = "replace"
  /\ \/ /\ temporary # GoneContent /\ image' = temporary /\ temporary' = GoneContent
        /\ SwapTo(e, "discard") /\ Smooth
     \/ /\ SwapTo(e, "back") /\ UNCHANGED <<image, temporary>>
        /\ MishapIf(temporary # GoneContent)
  /\ UNCHANGED <<backup, writtenTags>> /\ SwapperOnly

DiscardBackup(e) ==
  /\ swapper[e].at = "discard" /\ backup' = GoneContent /\ SwapTo(e, "succeed")
  /\ UNCHANGED <<image, temporary, writtenTags>> /\ SwapperOnly /\ Smooth

(* Whether the backup moved back is not asked.                             *)
MoveBack(e) ==
  /\ swapper[e].at = "back" /\ SwapTo(e, "sweep")
  /\ \/ backup # GoneContent /\ image' = backup /\ backup' = GoneContent /\ Smooth
     \/ UNCHANGED <<image, backup>> /\ MishapIf(backup # GoneContent)
  /\ UNCHANGED <<temporary, writtenTags>> /\ SwapperOnly

SweepTemporary(e) ==
  /\ swapper[e].at = "sweep" /\ temporary' = GoneContent /\ SwapTo(e, "settle")
  /\ UNCHANGED <<image, backup, writtenTags>> /\ SwapperOnly /\ Smooth

(* After a failure a file that is not what was found is restored from the  *)
(* snapshot.                                                               *)
SettleFailure(e) ==
  /\ swapper[e].at = "settle"
  /\ SwapTo(e, IF image \in {GoneContent, swapper[e].found} THEN "fail" ELSE "copy")
  /\ UNCHANGED <<image, temporary, backup, writtenTags>> /\ SwapperOnly /\ Smooth

(* copyFilePreserve onto the path.  A copy that fails removes what it was  *)
(* writing, one cut by a crash leaves it.                                  *)
CopyFromSnapshot(t) ==
  IF snapshots[t] = GoneContent THEN UNCHANGED <<image, writtenTags>> /\ Smooth
  ELSE \/ image' = snapshots[t] /\ UNCHANGED writtenTags /\ Smooth
       \/ image' = GoneContent /\ UNCHANGED writtenTags /\ Mishap
       \/ MakesContent /\ image' = NewContent /\ Mishap

RestoreOriginal(e) ==
  /\ swapper[e].at = "copy" /\ SwapTo(e, "fail")
  /\ CopyFromSnapshot(confirm[swapper[e].of].second)
  /\ UNCHANGED <<temporary, backup>> /\ SwapperOnly

(* MaxAttempts is 1.  The audit event of a success, which a rollback works *)
(* from, does not ask whether the task is still running; that it may not   *)
(* get written only takes a rollback away.  The status is not written by a *)
(* canceled execution, nor where that fails.                               *)
EndWriteback(e) ==
  LET w == swapper[e].of IN
  /\ swapper[e].at \in {"succeed", "fail"}
  /\ \/ UNCHANGED confirm
     \/ /\ confirm[w].at = "running"
        /\ TaskBecomes(w, IF swapper[e].at = "succeed" THEN "succeeded" ELSE "failed")
  /\ IF swapper[e].at = "fail" THEN UNCHANGED <<replaced, overtaken>>
     ELSE /\ replaced' = [replaced EXCEPT ![w] = @ \cup {swapper[e].moved}]
          /\ overtaken' = IF swapper[e].moved = swapper[e].found THEN overtaken
                          ELSE overtaken \cup {w}
  /\ swapper' = [swapper EXCEPT ![e] = NoSwapper]
  /\ UNCHANGED <<contentVars, second, owned, outsideWrites, rewritten>> /\ Smooth

-----------------------------------------------------------------------------
(* RestoreFileFromWritebackSnapshot, for an event of success.  It asks     *)
(* nothing of the file it overwrites.                                      *)
RollBack(w) ==
  /\ replaced[w] # {} /\ snapshots[confirm[w].second] # GoneContent
  /\ CopyFromSnapshot(confirm[w].second)
  /\ outsideWrites' = (outsideWrites \/ owned \notin {snapshots[t] : t \in Seconds})
  /\ UNCHANGED <<temporary, backup, second, snapshots, confirm, swapper, replaced, owned,
                 rewritten, overtaken>>

(* Snapshots go by their age, whatever task still needs them.              *)
CleanupSnapshot(t) ==
  /\ t < second /\ snapshots[t] # GoneContent /\ Mishap
  /\ snapshots' = [snapshots EXCEPT ![t] = GoneContent]
  /\ outsideWrites' = (outsideWrites \/ snapshots[t] = owned)
  /\ UNCHANGED <<image, temporary, backup, writtenTags, second, confirm, swapper, replaced,
                 owned, rewritten, overtaken>>

(* The user edits the image with another program, or puts one there.       *)
Swapping(e) == swapper[e].at \notin {"idle", "hash", "succeed", "fail"}

EditOutside ==
  /\ MakesContent /\ image' = NewContent /\ owned' = NewContent
  /\ outsideWrites' = \E e \in Swappers : Swapping(e)
  /\ UNCHANGED <<temporary, backup, second, snapshots, confirm, swapper, replaced, rewritten,
                 overtaken>> /\ Smooth

(* A task that was running is run again.                                   *)
WritebackCrash ==
  /\ Mishap
  /\ confirm' = [w \in Writebacks |->
       [at |-> IF confirm[w].at = "running" THEN "pending"
               ELSE IF confirm[w].at = "hashed" THEN "refused" ELSE confirm[w].at,
        hash |-> confirm[w].hash, second |-> confirm[w].second]]
  /\ swapper' = [e \in Swappers |-> NoSwapper]
  /\ UNCHANGED <<contentVars, second, replaced, givenUpVars>>

SwapperStep(e) ==
  \/ \E w \in Writebacks : TakeWriteback(e, w)
  \/ VerifyOriginal(e) \/ ClearTemporary(e) \/ RunMagick(e) \/ ClearBackup(e)
  \/ RenameToBackup(e) \/ RenameIntoPlace(e) \/ DiscardBackup(e)
  \/ MoveBack(e) \/ SweepTemporary(e) \/ SettleFailure(e) \/ RestoreOriginal(e)
  \/ EndWriteback(e)

WritebackNext ==
  \/ Tick \/ EditOutside \/ WritebackCrash
  \/ \E w \in Writebacks :
       \/ HashOriginal(w) \/ SnapshotAndEnqueue(w) \/ SnapshotFails(w)
       \/ CancelWriteback(w) \/ RetryWriteback(w) \/ RollBack(w)
  \/ \E e \in Swappers : SwapperStep(e)
  \/ \E t \in Seconds : CleanupSnapshot(t)

WritebackSpec == WritebackInit /\ mishaps = 0 /\ [][WritebackNext]_writebackVars

-----------------------------------------------------------------------------
(* What the user last made of the image is never lost: it is in place or   *)
(* in a snapshot, wherever write-backs fail, crash, overlap, are repaired  *)
(* or rolled back.  Given up: an edit while an execution is between its    *)
(* check and its end, an edit no snapshot has and a rollback overwrites, a *)
(* snapshot of it cleaned by age, and one that a later request of the same *)
(* second wrote over.                                                      *)
ContentIsKept ==
  outsideWrites \/ owned \in {image} \cup {snapshots[t] : t \in Seconds}

(* What a rollback would put back is what that write-back moved away,      *)
(* unless somebody wrote the file between its check and its move: nothing  *)
(* guards that time, and what was moved away then goes with the backup.    *)
(* Not so either where a later request of the same second wrote over the   *)
(* snapshot, or the file was edited between the hash and the copy.         *)
RollbackRestores ==
  \A w \in Writebacks :
    \/ w \in overtaken
    \/ confirm[w].second \in rewritten
    \/ snapshots[confirm[w].second] = GoneContent
    \/ replaced[w] \subseteq {snapshots[confirm[w].second]}
=============================================================================
