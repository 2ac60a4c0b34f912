------------------------------ MODULE Exports ------------------------------
(***************************************************************************)
(* Image and clip exports: tasks that write a file named after the task.   *)
(*                                                                         *)
(* The name keeps two tasks apart but not two runs of one task: a cancel   *)
(* leaves the run at work, a retry of the row starts a second one on the   *)
(* same file, and a run that fails removes it.                             *)
(***************************************************************************)
EXTENDS Faults, FiniteSets

CONSTANTS Exports,          \* task rows, taken in order
          ExportRuns,       \* worker slots of the type
          ExportAttempts,
          MaxExportTurns    \* bound on requests of users

ASSUME ExportsAssumption ==
  /\ Exports = 1 .. Cardinality(Exports) /\ IsFiniteSet(Exports)
  /\ ExportAttempts \in Nat \ {0} /\ MaxExportTurns \in Nat

VARIABLES
  export,       \* [Exports -> [status, attempts, result, past]]
  artifact,     \* [Exports -> the file at the task's path]
  exportRun,    \* [ExportRuns -> [of, at, clip]]: of = 0 when idle
  exportTurns

exportVars == <<export, artifact, exportRun, exportTurns, mishaps>>

IdleExport == [of |-> 0, at |-> "idle", copies |-> FALSE]
NewExport  == [status |-> "none", attempts |-> 0, result |-> FALSE, past |-> "alone"]
Active     == {"pending", "running"}

ExportsTypeOK ==
  /\ export \in [Exports -> [status : Active \cup {"none", "succeeded", "failed", "canceled"},
                             attempts : 0 .. ExportAttempts, result : BOOLEAN,
                             past : {"alone", "cut", "shared"}]]
  /\ artifact \in [Exports -> {"none", "partial", "whole"}]
  /\ exportRun \in [ExportRuns -> [of : Exports \cup {0}, copies : BOOLEAN,
       at : {"idle", "taken", "making", "removing", "made", "reported", "failing"}]]
  /\ exportTurns \in 0 .. MaxExportTurns

ExportsInit ==
  /\ export = [t \in Exports |-> NewExport]
  /\ artifact = [t \in Exports |-> "none"]
  /\ exportRun = [r \in ExportRuns |-> IdleExport]
  /\ exportTurns = 0 /\ mishaps = 0

ExportAt(r, step) == exportRun' = [exportRun EXCEPT ![r].at = step]
RunsOf(t) == {r \in ExportRuns : exportRun[r].of = t}
ExportTurn == exportTurns < MaxExportTurns /\ exportTurns' = exportTurns + 1

-----------------------------------------------------------------------------
(* The same parameters asked for again join the task that is at work; the  *)
(* request was checked before.                                             *)
EnqueueExport(t) ==
  /\ export[t].status = "none" /\ \A u \in 1 .. t - 1 : export[u].status \notin Active \cup {"none"}
  /\ ExportTurn
  /\ export' = [export EXCEPT ![t].status = "pending"]
  /\ Smooth /\ UNCHANGED <<artifact, exportRun>>

(* Neither cancel nor retry looks whether a run is still at work.          *)
CancelExport(t) ==
  /\ export[t].status \in Active /\ ExportTurn
  /\ export' = [export EXCEPT ![t].status = "canceled"]
  /\ Smooth /\ UNCHANGED <<artifact, exportRun>>

RetryExport(t) ==
  /\ export[t].status \in {"failed", "canceled"} /\ ExportTurn
  /\ export' = [export EXCEPT ![t] = [NewExport EXCEPT !.status = "pending",
                                                  !.past = export[t].past]]
  /\ Smooth /\ UNCHANGED <<artifact, exportRun>>

-----------------------------------------------------------------------------
(* handleImageExport and handleVideoClip.                                  *)
TakeExport(t, r) ==
  /\ export[t].status = "pending" /\ exportRun[r].of = 0
  /\ export' = [export EXCEPT ![t].status = "running",
                  ![t].past = IF RunsOf(t) # {} THEN "shared" ELSE @]
  /\ exportRun' = [exportRun EXCEPT ![r] = [IdleExport EXCEPT !.of = t, !.at = "taken"]]
  /\ Smooth /\ UNCHANGED <<artifact, exportTurns>>

(* The payload, the media, its file and the tool are looked at; a clip is  *)
(* copied stream by stream first.                                          *)
StartMaking(r) ==
  /\ exportRun[r].at = "taken"
  /\ \/ /\ Smooth
        /\ \E clip \in BOOLEAN :
             exportRun' = [exportRun EXCEPT ![r].at = "making", ![r].copies = clip]
        /\ artifact' = [artifact EXCEPT ![exportRun[r].of] = "partial"]
     \/ Mishap /\ ExportAt(r, "failing") /\ UNCHANGED artifact
  /\ UNCHANGED <<export, exportTurns>>

(* The tool ends.  A copy that does not work is encoded anew, with -y over *)
(* what the copy left.                                                     *)
EndMaking(r) ==
  LET t == exportRun[r].of IN
  /\ exportRun[r].at = "making"
  /\ \/ /\ ExportAt(r, "made") /\ artifact' = [artifact EXCEPT ![t] = "whole"] /\ Smooth
     \/ /\ exportRun[r].copies /\ exportRun' = [exportRun EXCEPT ![r].copies = FALSE]
        /\ artifact' = [artifact EXCEPT ![t] = "partial"] /\ Smooth
     \/ /\ ~exportRun[r].copies /\ ExportAt(r, "removing") /\ Mishap /\ UNCHANGED artifact
  /\ UNCHANGED <<export, exportTurns>>

(* Mutant: what the tool left is kept. *)
Removed_Kept(file) == file

Removed(file) == "none"

RemoveUnfinished(r) ==
  /\ exportRun[r].at = "removing" /\ ExportAt(r, "failing")
  /\ artifact' = [artifact EXCEPT ![exportRun[r].of] = Removed(@)]
  /\ Smooth /\ UNCHANGED <<export, exportTurns>>

(* The file is looked at, then its path is stored as the task's checkpoint *)
(* with the last progress; that this fails goes unnoticed.                 *)
ReportExport(r) ==
  LET t == exportRun[r].of IN
  /\ exportRun[r].at = "made"
  /\ IF artifact[t] = "none"
     THEN ExportAt(r, "failing") /\ Smooth /\ UNCHANGED export
     ELSE \E stored \in BOOLEAN :
            /\ MishapIf(~stored /\ export[t].status = "running")
            /\ ExportAt(r, "reported")
            /\ export' = [export EXCEPT ![t].result = @ \/ (stored /\ export[t].status = "running")]
  /\ UNCHANGED <<artifact, exportTurns>>

(* The worker ends the row by its id if the row is running.                *)
(* Mutant: a run whose tool failed ends like one that made its file. *)
EndedExport_Well(e, well) ==
  IF e.status = "running" THEN [e EXCEPT !.status = "succeeded"] ELSE e

EndedExport(e, well) ==
  IF e.status # "running" THEN e
  ELSE IF well THEN [e EXCEPT !.status = "succeeded"]
  ELSE [e EXCEPT !.attempts = @ + 1,
                 !.status = IF e.attempts + 1 < ExportAttempts THEN "pending" ELSE "failed"]

EndExport(r) ==
  /\ exportRun[r].at \in {"reported", "failing"}
  /\ export' = [export EXCEPT ![exportRun[r].of] =
                  EndedExport(@, exportRun[r].at = "reported")]
  /\ exportRun' = [exportRun EXCEPT ![r] = IdleExport]
  /\ Smooth /\ UNCHANGED <<artifact, exportTurns>>

(* A restart: running rows wait again, the files stay.                     *)
ExportCrash ==
  /\ Mishap
  /\ export' = [t \in Exports |->
       [export[t] EXCEPT !.status = IF @ = "running" THEN "pending" ELSE @,
                         !.past = IF @ = "alone" /\ RunsOf(t) # {} THEN "cut" ELSE @]]
  /\ exportRun' = [r \in ExportRuns |-> IdleExport]
  /\ UNCHANGED <<artifact, exportTurns>>

ExportsNext ==
  \/ \E t \in Exports : EnqueueExport(t) \/ CancelExport(t) \/ RetryExport(t)
  \/ \E r \in ExportRuns : \/ \E t \in Exports : TakeExport(t, r)
                           \/ StartMaking(r) \/ EndMaking(r) \/ RemoveUnfinished(r)
                           \/ ReportExport(r) \/ EndExport(r)
  \/ ExportCrash

ExportsSpec == ExportsInit /\ [][ExportsNext]_exportVars

-----------------------------------------------------------------------------
(* A task that succeeded and names its file can be downloaded whole, unless
   two runs shared the row: retries after failures, re-encoded copies and
   restarts never leave the path of a half written or removed file.          *)
DeliveredIsWhole ==
  \A t \in Exports :
    export[t].status = "succeeded" /\ export[t].result /\ export[t].past # "shared"
      => artifact[t] = "whole"

(* A task that failed leaves no half written file, unless a restart cut one  *)
(* of its runs or two of them shared the row.                                *)
FailedLeavesNothing ==
  \A t \in Exports :
    export[t].status = "failed" /\ export[t].past = "alone" => artifact[t] # "partial"

(* A task without a result was never run to its end, or storing it failed.   *)
ResultIsNamed ==
  \A t \in Exports :
    export[t].status = "succeeded" /\ mishaps = 0 /\ export[t].past # "shared" => export[t].result

ExportsSafe == DeliveredIsWhole /\ FailedLeavesNothing /\ ResultIsNamed
=============================================================================
