----------------------------- MODULE Subtitles -----------------------------
(***************************************************************************)
(* Uploaded subtitles: a row and a file that no transaction holds          *)
(* together.                                                               *)
(*                                                                         *)
(* An upload moves a finished temporary file to its place and then writes  *)
(* the row.  A delete moves the file aside, deletes the row together with  *)
(* an audit event, removes the file, and takes all of it back when the     *)
(* file cannot be removed.  Requests overlap, and a restart cuts them      *)
(* wherever they are.                                                      *)
(***************************************************************************)
EXTENDS Faults

CONSTANTS TrackUploads,    \* upload requests, each with the track it makes
          Deleters,   \* delete requests
          Readers     \* content requests

ASSUME SubtitlesAssumption ==
  Deleters \cap {"none", "temp", "final", "gone"} = {}

VARIABLES
  track,    \* [TrackUploads -> [at, row, events]]: the upload's step, the row, the audit events
  place,    \* [TrackUploads -> where the track's file is]: a deleter's name is its isolated path
  delete,   \* [Deleters -> [at, of]]
  reading   \* [Readers -> [at, of]]

subtitleVars == <<track, place, delete, reading, mishaps>>

Deleting   == {"found", "isolated", "returning", "rowless", "compensating", "restoring",
               "reisolating"}
DeleteEnds == {"new", "refused", "done", "kept", "undone", "stuck", "cut"}
Uploading  == {"written", "moved", "clearing"}

SubtitlesTypeOK ==
  /\ track \in [TrackUploads -> [at : Uploading \cup {"new", "done", "failed", "leftover", "cut"},
                            row : BOOLEAN, events : 0 .. 2]]
  /\ place \in [TrackUploads -> {"none", "temp", "final", "gone"} \cup Deleters]
  /\ delete \in [Deleters -> [at : Deleting \cup DeleteEnds, of : TrackUploads]]
  /\ reading \in [Readers -> [at : {"new", "listed", "found", "served", "missing", "cut"},
                              of : TrackUploads]]

SubtitlesInit ==
  /\ track = [u \in TrackUploads |-> [at |-> "new", row |-> FALSE, events |-> 0]]
  /\ place = [u \in TrackUploads |-> "none"]
  /\ delete \in [Deleters -> [at : {"new"}, of : TrackUploads]]
  /\ reading \in [Readers -> [at : {"new"}, of : TrackUploads]]
  /\ mishaps = 0

UploadTo(u, step) == track' = [track EXCEPT ![u].at = step]
DeleteTo(d, step) == delete' = [delete EXCEPT ![d].at = step]
PutFile(u, where) == place' = [place EXCEPT ![u] = where]

-----------------------------------------------------------------------------
(* Upload and commitUpload.  A body that is too large, cut short or not a  *)
(* subtitle ends before this: its temporary file is removed at once.       *)
WriteTemp(u) ==
  /\ track[u].at = "new"
  /\ UploadTo(u, "written") /\ PutFile(u, "temp")
  /\ Smooth /\ UNCHANGED <<delete, reading>>

(* The file is in its place before the row tells of it.                    *)
MoveUpload(u) ==
  /\ track[u].at = "written"
  /\ \E fine \in BOOLEAN :
       /\ MishapIf(~fine)
       /\ UploadTo(u, IF fine THEN "moved" ELSE "failed")
       /\ PutFile(u, IF fine THEN "final" ELSE "gone")
  /\ UNCHANGED <<delete, reading>>

CreateTrackRow(u) ==
  /\ track[u].at = "moved"
  /\ \E fine \in BOOLEAN :
       /\ MishapIf(~fine)
       /\ track' = [track EXCEPT ![u].at = IF fine THEN "done" ELSE "clearing",
                                 ![u].row = fine]
  /\ UNCHANGED <<place, delete, reading>>

(* Without its row the file is removed again; it stays if that fails too.  *)
ClearUpload(u) ==
  /\ track[u].at = "clearing"
  /\ \E fine \in BOOLEAN :
       /\ MishapIf(~fine)
       /\ IF fine THEN PutFile(u, "gone") ELSE UNCHANGED place
       /\ UploadTo(u, IF fine THEN "failed" ELSE "leftover")
  /\ UNCHANGED <<delete, reading>>

-----------------------------------------------------------------------------
(* Delete reads the row of a track whose id a list or the upload gave ...  *)
FindTrack(d) ==
  LET u == delete[d].of IN
  /\ delete[d].at = "new" /\ track[u].at = "done"
  /\ DeleteTo(d, IF track[u].row THEN "found" ELSE "refused")
  /\ Smooth /\ UNCHANGED <<track, place, reading>>

(* ... moves the file aside, which another delete may have done already ... *)
Isolate(d) ==
  LET u == delete[d].of IN
  /\ delete[d].at = "found"
  /\ \E fine \in BOOLEAN :
       /\ MishapIf(~fine)
       /\ IF fine /\ place[u] = "final"
          THEN DeleteTo(d, "isolated") /\ PutFile(u, d)
          ELSE DeleteTo(d, "refused") /\ UNCHANGED place
  /\ UNCHANGED <<track, reading>>

(* ... deletes the row and writes the event, or finds the row gone ...     *)
DeleteTrackRow(d) ==
  LET u == delete[d].of IN
  /\ delete[d].at = "isolated"
  /\ \E fine \in BOOLEAN :
       /\ MishapIf(~fine)
       /\ IF fine /\ track[u].row
          THEN /\ DeleteTo(d, "rowless")
               /\ track' = [track EXCEPT ![u].row = FALSE, ![u].events = @ + 1]
          ELSE DeleteTo(d, "returning") /\ UNCHANGED track
  /\ UNCHANGED <<place, reading>>

(* ... and without a deleted row puts the file back, come what may.        *)
ReturnFile(d) ==
  /\ delete[d].at = "returning"
  /\ \E fine \in BOOLEAN :
       /\ MishapIf(~fine)
       /\ DeleteTo(d, IF fine THEN "kept" ELSE "stuck")
       /\ IF fine THEN PutFile(delete[d].of, "final") ELSE UNCHANGED place
  /\ UNCHANGED <<track, reading>>

RemoveIsolated(d) ==
  /\ delete[d].at = "rowless"
  /\ \E fine \in BOOLEAN :
       /\ MishapIf(~fine)
       /\ DeleteTo(d, IF fine THEN "done" ELSE "compensating")
       /\ IF fine THEN PutFile(delete[d].of, "gone") ELSE UNCHANGED place
  /\ UNCHANGED <<track, reading>>

(* compensateDelete: first the file, so that the row never precedes it ... *)
CompensateFile(d) ==
  /\ delete[d].at = "compensating"
  /\ \E fine \in BOOLEAN :
       /\ MishapIf(~fine)
       /\ DeleteTo(d, IF fine THEN "restoring" ELSE "stuck")
       /\ IF fine THEN PutFile(delete[d].of, "final") ELSE UNCHANGED place
  /\ UNCHANGED <<track, reading>>

(* ... then the row, together with the removal of the event ...            *)
(* Mutant: the event of the delete stays. *)
RestoredTrack_KeepsEvent(t) == [t EXCEPT !.row = TRUE]

RestoredTrack(t) == [t EXCEPT !.row = TRUE, !.events = @ - 1]

RestoreTrackRow(d) ==
  LET u == delete[d].of IN
  /\ delete[d].at = "restoring"
  /\ \E fine \in BOOLEAN :
       /\ MishapIf(~fine)
       /\ DeleteTo(d, IF fine THEN "undone" ELSE "reisolating")
       /\ track' = IF fine THEN [track EXCEPT ![u] = RestoredTrack(@)] ELSE track
  /\ UNCHANGED <<place, reading>>

(* ... and aside again if the row did not come back.                       *)
IsolateAgain(d) ==
  LET u == delete[d].of IN
  /\ delete[d].at = "reisolating"
  /\ \E fine \in BOOLEAN :
       /\ MishapIf(~fine)
       /\ IF fine /\ place[u] = "final" THEN PutFile(u, d) ELSE UNCHANGED place
  /\ DeleteTo(d, "stuck")
  /\ UNCHANGED <<track, reading>>

-----------------------------------------------------------------------------
(* Content lists the tracks, finds the row once more and reads the file.   *)
ListTracks(r) ==
  LET u == reading[r].of IN
  /\ reading[r].at = "new" /\ track[u].at = "done"
  /\ reading' = [reading EXCEPT ![r].at = IF track[u].row THEN "listed" ELSE "missing"]
  /\ Smooth /\ UNCHANGED <<track, place, delete>>

FindContent(r) ==
  /\ reading[r].at = "listed"
  /\ reading' = [reading EXCEPT ![r].at =
                   IF track[reading[r].of].row THEN "found" ELSE "missing"]
  /\ Smooth /\ UNCHANGED <<track, place, delete>>

ReadContent(r) ==
  /\ reading[r].at = "found"
  /\ reading' = [reading EXCEPT ![r].at =
                   IF place[reading[r].of] = "final" THEN "served" ELSE "missing"]
  /\ Smooth /\ UNCHANGED <<track, place, delete>>

(* A restart cuts every request; rows and files stay as they are.          *)
CutRequests ==
  /\ Mishap
  /\ track' = [u \in TrackUploads |-> IF track[u].at \in Uploading
                                 THEN [track[u] EXCEPT !.at = "cut"] ELSE track[u]]
  /\ delete' = [d \in Deleters |-> IF delete[d].at \in Deleting
                                   THEN [delete[d] EXCEPT !.at = "cut"] ELSE delete[d]]
  /\ reading' = [r \in Readers |-> IF reading[r].at \in {"listed", "found"}
                                   THEN [reading[r] EXCEPT !.at = "cut"] ELSE reading[r]]
  /\ UNCHANGED place

SubtitlesNext ==
  \/ \E u \in TrackUploads : WriteTemp(u) \/ MoveUpload(u) \/ CreateTrackRow(u) \/ ClearUpload(u)
  \/ \E d \in Deleters : \/ FindTrack(d) \/ Isolate(d) \/ DeleteTrackRow(d) \/ ReturnFile(d)
                         \/ RemoveIsolated(d) \/ CompensateFile(d) \/ RestoreTrackRow(d)
                         \/ IsolateAgain(d)
  \/ \E r \in Readers : ListTracks(r) \/ FindContent(r) \/ ReadContent(r)
  \/ CutRequests

SubtitlesSpec == SubtitlesInit /\ [][SubtitlesNext]_subtitleVars

-----------------------------------------------------------------------------
(* A row's file is in its place, or aside with a delete that is still at   *)
(* work, or that could not put it back or was cut.                         *)
RowHasFile ==
  \A u \in TrackUploads : track[u].row =>
    \/ place[u] = "final"
    \/ \E d \in Deleters : place[u] = d /\ delete[d].at \in {"isolated", "returning",
                                                             "stuck", "cut"}

(* A track is told deleted by the audit exactly when its row is gone, and  *)
(* a delete that was taken back leaves neither a lost row nor an event.    *)
AuditTellsDeletes ==
  \A u \in TrackUploads :
    IF track[u].at = "done" THEN track[u].events = (IF track[u].row THEN 0 ELSE 1)
                            ELSE track[u].events = 0 /\ ~track[u].row

(* An upload that failed leaves no file behind (but where the removal      *)
(* failed too), and a file that was removed has no row.                    *)
NothingDangles ==
  \A u \in TrackUploads : /\ track[u].at = "failed" => place[u] = "gone"
                     /\ place[u] \in {"none", "temp", "gone"} => ~track[u].row

(* A content request misses its file only where a delete or a mishap went  *)
(* before it.                                                              *)
MissedForAReason ==
  \A r \in Readers : reading[r].at = "missing" =>
    \/ mishaps > 0
    \/ \E d \in Deleters : delete[d].of = reading[r].of /\ delete[d].at \notin {"new", "refused"}

SubtitlesSafe == RowHasFile /\ AuditTellsDeletes /\ NothingDangles /\ MissedForAReason
=============================================================================
