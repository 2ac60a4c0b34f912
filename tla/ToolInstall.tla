---------------------------- MODULE ToolInstall -----------------------------
(***************************************************************************)
(* The installer of external tools (FFmpeg, FFprobe, ImageMagick): a task  *)
(* per download source, never worked on again once it has failed.  An      *)
(* execution downloads and probes a build in a temporary directory, moves  *)
(* it to the directory of its version, applies the path of the executable  *)
(* in that directory in memory and stores it in the settings.  Two builds  *)
(* of one version may have the executable at different places.  The task   *)
(* type has limit one, which MCTaskPools shows not to hold: executions of  *)
(* two tasks may run side by side.  One tool is modelled.                  *)
(***************************************************************************)
EXTENDS Faults

CONSTANTS Sources, ToolVersions, VersionOf(_),
          LayoutOf(_), \* where a build has the executable
          Installers   \* executions at a time

ASSUME ToolInstallAssumption ==
  /\ \A s \in Sources : VersionOf(s) \in ToolVersions
  /\ "none" \notin Sources /\ "none" \notin ToolVersions

VARIABLES
  downloadTask, \* downloadTask[s]: status of the task of a source
  installer,    \* installer[i]: an execution, with the build it moved aside
  toolDir,      \* toolDir[v]: source whose build is in tools/<tool>/<v>
  runtimeTool,  \* path set in the process
  storedTool,   \* path in the settings
  cut,          \* history: versions whose swap was cut or failed twice
  displaced     \* history: paths in whose version a build without them was placed

toolVars ==
  <<downloadTask, installer, toolDir, runtimeTool, storedTool, cut, displaced, mishaps>>

PathOf(s) == [version |-> VersionOf(s), layout |-> LayoutOf(s)]
ToolPaths == {PathOf(s) : s \in Sources}
NoTool == [version |-> "none", layout |-> "none"]

NoInstall == [at |-> "idle", source |-> "none", canceled |-> FALSE, backup |-> "none"]
InstallerRecords ==
  [at : {"idle", "download", "unpack", "install", "aside", "place", "put back", "apply",
         "store", "succeed", "fail"},
   source : Sources \cup {"none"}, canceled : BOOLEAN, backup : Sources \cup {"none"}]

ToolInstallTypeOK ==
  /\ downloadTask \in [Sources -> {"none", "pending", "running", "succeeded", "failed", "canceled"}]
  /\ installer \in [Installers -> InstallerRecords]
  /\ toolDir \in [ToolVersions -> Sources \cup {"none"}]
  /\ {runtimeTool, storedTool} \subseteq ToolPaths \cup {NoTool}
  /\ cut \subseteq ToolVersions /\ displaced \subseteq ToolPaths
  /\ mishaps \in 0 .. MaxMishaps

ToolInstallInit ==
  /\ downloadTask = [s \in Sources |-> "none"]
  /\ installer = [i \in Installers |-> NoInstall]
  /\ toolDir = [v \in ToolVersions |-> "none"]
  /\ runtimeTool = NoTool /\ storedTool = NoTool
  /\ cut = {} /\ displaced = {}

-----------------------------------------------------------------------------
(* The requests: a source is checked against the registry, or its sum is   *)
(* asked for, before; an unfinished task of the source answers.            *)

DirsStay == UNCHANGED <<toolDir, cut, displaced>>
PathsStay == UNCHANGED <<runtimeTool, storedTool>>

EnqueueDownload(s) ==
  /\ downloadTask[s] \notin {"pending", "running"}
  /\ downloadTask' = [downloadTask EXCEPT ![s] = "pending"]
  /\ UNCHANGED installer /\ DirsStay /\ PathsStay /\ Smooth

CancelDownload(s) ==
  /\ downloadTask[s] \in {"pending", "running"}
  /\ downloadTask' = [downloadTask EXCEPT ![s] = "canceled"]
  /\ installer' = [i \in Installers |->
       IF installer[i].source = s THEN [installer[i] EXCEPT !.canceled = TRUE] ELSE installer[i]]
  /\ DirsStay /\ PathsStay /\ Smooth

-----------------------------------------------------------------------------
(* An execution.  A report of progress asks whether its task was canceled. *)

Canceled(i) == installer[i].canceled
Target(i) == VersionOf(installer[i].source)
InstallerAt(i, at) == installer' = [installer EXCEPT ![i].at = at]
InstallOnly == UNCHANGED downloadTask /\ PathsStay

TakeDownload(i, s) ==
  /\ installer[i] = NoInstall /\ downloadTask[s] = "pending"
  /\ downloadTask' = [downloadTask EXCEPT ![s] = "running"]
  /\ installer' = [installer EXCEPT ![i] =
       [at |-> "download", source |-> s, canceled |-> FALSE, backup |-> "none"]]
  /\ DirsStay /\ PathsStay /\ Smooth

(* The sum of what was downloaded; entries that leave the directory, links *)
(* and unknown formats are refused; the tool must answer -version.         *)
PrepareBuild(i, from, to) ==
  /\ installer[i].at = from
  /\ \/ ~Canceled(i) /\ InstallerAt(i, to) /\ Smooth
     \/ InstallerAt(i, "fail") /\ MishapIf(~Canceled(i))
  /\ DirsStay /\ InstallOnly

DownloadArchive(i) == PrepareBuild(i, "download", "unpack")
ExtractAndProbe(i) == PrepareBuild(i, "unpack", "install")

(* A rename to a directory that is there fails.                            *)
Free(v) == toolDir[v] = "none"

DisplacedBy(s) ==
  (displaced \ {PathOf(s)})
    \cup {p \in ToolPaths : p.version = VersionOf(s) /\ p.layout # LayoutOf(s)}

Placed(dirs, s) ==
  toolDir' = dirs /\ cut' = cut \ {VersionOf(s)} /\ displaced' = DisplacedBy(s)

WithBuild(i, s) == [toolDir EXCEPT ![Target(i)] = s]

(* installStaged: a first install is one rename.                           *)
InstallStaged(i) ==
  /\ installer[i].at = "install"
  /\ \/ /\ Free(Target(i)) /\ InstallerAt(i, "apply") /\ Smooth
        /\ Placed(WithBuild(i, installer[i].source), installer[i].source)
     \/ ~Free(Target(i)) /\ InstallerAt(i, "aside") /\ DirsStay /\ Smooth
     \/ InstallerAt(i, "fail") /\ DirsStay /\ Mishap
  /\ InstallOnly

(* The name of the backup is of the moment, so that it is this swap's own. *)
MoveOldAside(i) ==
  /\ installer[i].at = "aside"
  /\ \/ /\ ~Free(Target(i)) /\ Smooth
        /\ installer' = [installer EXCEPT ![i].at = "place", ![i].backup = toolDir[Target(i)]]
        /\ toolDir' = WithBuild(i, "none") /\ UNCHANGED <<cut, displaced>>
     \/ InstallerAt(i, "fail") /\ DirsStay /\ MishapIf(~Free(Target(i)))
  /\ InstallOnly

SwapEnds(i, at) == installer' = [installer EXCEPT ![i].at = at, ![i].backup = "none"]

(* The backup is removed after it.                                         *)
MoveNewInPlace(i) ==
  /\ installer[i].at = "place"
  /\ \/ /\ Free(Target(i)) /\ SwapEnds(i, "apply") /\ Smooth
        /\ Placed(WithBuild(i, installer[i].source), installer[i].source)
     \/ InstallerAt(i, "put back") /\ DirsStay /\ MishapIf(Free(Target(i)))
  /\ InstallOnly

PutBack_NotDone(i) == toolDir
PutBack(i) == WithBuild(i, installer[i].backup)

MoveOldBack(i) ==
  /\ installer[i].at = "put back"
  /\ \/ Free(Target(i)) /\ Placed(PutBack(i), installer[i].backup) /\ Smooth
     \/ ~Free(Target(i)) /\ DirsStay /\ Smooth
     \/ /\ Free(Target(i)) /\ Mishap
        /\ cut' = cut \cup {Target(i)} /\ UNCHANGED <<toolDir, displaced>>
  /\ SwapEnds(i, "fail")
  /\ InstallOnly

(* The path is applied before it is stored; a cancel is seen only before.  *)
ApplyTool(i) ==
  /\ installer[i].at = "apply"
  /\ IF Canceled(i) THEN InstallerAt(i, "fail") /\ UNCHANGED runtimeTool
     ELSE InstallerAt(i, "store") /\ runtimeTool' = PathOf(installer[i].source)
  /\ UNCHANGED <<downloadTask, storedTool>> /\ DirsStay /\ Smooth

StoreTool(i) ==
  /\ installer[i].at = "store"
  /\ \/ InstallerAt(i, "succeed") /\ storedTool' = PathOf(installer[i].source) /\ Smooth
     \/ InstallerAt(i, "fail") /\ UNCHANGED storedTool /\ Mishap
  /\ UNCHANGED <<downloadTask, runtimeTool>> /\ DirsStay

EndDownload(i) ==
  LET s == installer[i].source IN
  /\ installer[i].at \in {"succeed", "fail"}
  /\ downloadTask' = [downloadTask EXCEPT ![s] =
       IF Canceled(i) THEN @ ELSE IF installer[i].at = "fail" THEN "failed" ELSE "succeeded"]
  /\ installer' = [installer EXCEPT ![i] = NoInstall]
  /\ DirsStay /\ PathsStay /\ Smooth

(* The task is pending again; the process takes its path from the settings.*)
ResumedDownload_NotAtAll(status) == status
ResumedDownload(status) == IF status = "running" THEN "pending" ELSE status

MidSwap == {i \in Installers : installer[i].at \in {"place", "put back"}}

InstallerCrash ==
  /\ Mishap
  /\ downloadTask' = [s \in Sources |-> ResumedDownload(downloadTask[s])]
  /\ installer' = [i \in Installers |-> NoInstall]
  /\ cut' = cut \cup {v \in ToolVersions : Free(v) /\ \E i \in MidSwap : Target(i) = v}
  /\ runtimeTool' = storedTool
  /\ UNCHANGED <<toolDir, storedTool, displaced>>

InstallerStep(i) ==
  \/ \E s \in Sources : TakeDownload(i, s)
  \/ DownloadArchive(i) \/ ExtractAndProbe(i) \/ InstallStaged(i) \/ MoveOldAside(i)
  \/ MoveNewInPlace(i) \/ MoveOldBack(i) \/ ApplyTool(i) \/ StoreTool(i) \/ EndDownload(i)

ToolInstallNext ==
  \/ \E s \in Sources : EnqueueDownload(s) \/ CancelDownload(s)
  \/ \E i \in Installers : InstallerStep(i)
  \/ InstallerCrash

(* Tasks are claimed in the order of their rows, so that none is passed    *)
(* over for ever.                                                          *)
ToolInstallFairness ==
  /\ \A i \in Installers : WF_toolVars(InstallerStep(i))
  /\ \A s \in Sources : SF_toolVars(\E i \in Installers : TakeDownload(i, s))

ToolInstallSpec ==
  ToolInstallInit /\ mishaps = 0 /\ [][ToolInstallNext]_toolVars /\ ToolInstallFairness

-----------------------------------------------------------------------------
There(p) ==
  \/ p = NoTool
  \/ toolDir[p.version] # "none" /\ LayoutOf(toolDir[p.version]) = p.layout
BeingSwapped(v) == \E i \in MidSwap : Target(i) = v

(* The path the process runs and the one its next start will run are on    *)
(* disk: a reinstall that fails leaves the build before it.  What a crash  *)
(* cut between two renames is missing until its task has run again; and a  *)
(* build placed in the directory of its version takes away a path of that  *)
(* version that it does not have, for good if it is then canceled, or not  *)
(* stored, or if a crash comes before.                                     *)
ToolsAreThere ==
  \A p \in {runtimeTool, storedTool} :
    There(p) \/ BeingSwapped(p.version) \/ p.version \in cut \/ p \in displaced

MissingByCut(s) == VersionOf(s) \in cut /\ downloadTask[s] \in {"pending", "running"}
MendedOrEnded(s) == toolDir[VersionOf(s)] # "none" \/ downloadTask[s] \in {"canceled", "failed"}

(* The crash of a reinstall does not leave the tool missing for good: the  *)
(* version cut by it is there again or the task was canceled or failed.    *)
CutIsMendedByRerun == \A s \in Sources : MissingByCut(s) ~> MendedOrEnded(s)
=============================================================================
