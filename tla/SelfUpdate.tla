----------------------------- MODULE SelfUpdate -----------------------------
(***************************************************************************)
(* The server's update of itself: a request downloads a release, checks    *)
(* its sum, swaps the executable with a backup (.old), starts the new      *)
(* process and lets the old one leave; a rollback swaps the backup in.     *)
(* Nothing keeps two such requests from overlapping.  Versions are numbers *)
(* in the order hasUpdate gives them: by baseline, the candidates of a     *)
(* baseline in the order of their numbers, then its formal release.        *)
(***************************************************************************)
EXTENDS Faults

CONSTANTS MaxVersion,  \* versions ever built
          Formal,      \* the formal releases among them, the others candidates
          Processes,   \* processes of the server
          Updaters     \* update and rollback requests

ASSUME SelfUpdateAssumption ==
  /\ MaxVersion \in Nat \ {0} /\ Formal \subseteq 1 .. MaxVersion /\ 1 \in Formal
  /\ Processes \subseteq Nat \ {0} /\ Processes # {}

VARIABLES
  published,    \* releases on GitHub, with assets for this platform
  newestFormal, \* the formal release published last
  disk,         \* disk.exe, disk.old, disk.failed: what the three files are
  server,       \* server[p]: [at, runs, leaving, progress], a process
  updater,      \* updater[u]: [at, in, build], a request
  disturbed     \* history: two swaps overlapped, or a process died in one

updateVars == <<published, newestFormal, disk, server, updater, disturbed, mishaps>>

Versions == 1 .. MaxVersion
Missing == 0
Damaged == MaxVersion + 1  \* part of a file
Fresh(at, build) == [at |-> at, runs |-> build, leaving |-> FALSE, progress |-> "idle"]
Off == Fresh("off", Missing)
NoUpdate == [at |-> "idle", in |-> 0, build |-> Missing]
Swapping == {"backup", "land", "restore", "start", "set aside", "bring back", "undo"}

SelfUpdateTypeOK ==
  /\ published \subseteq Versions /\ newestFormal \in {0} \cup Formal
  /\ disk \in [{"exe", "old", "failed"} -> 0 .. Damaged]
  /\ server \in [Processes -> [at : {"off", "starting", "serving"}, runs : 0 .. MaxVersion,
                   leaving : BOOLEAN, progress : {"idle", "downloading", "verifying", "done", "failed"}]]
  /\ \A p, q \in Processes : server[p].at = "serving" /\ server[q].at = "serving" => p = q
  /\ updater \in [Updaters -> [at : {"idle", "download", "verify"} \cup Swapping,
                               in : Processes \cup {0}, build : 0 .. Damaged]]
  /\ \A u \in Updaters : updater[u].in # 0 => server[updater[u].in].at = "serving"
  /\ disturbed \in BOOLEAN /\ mishaps \in 0 .. MaxMishaps

SelfUpdateInit ==
  /\ published = {1} /\ newestFormal = 1
  /\ disk = [exe |-> 1, old |-> Missing, failed |-> Missing]
  /\ server = [p \in Processes |->
       IF p = CHOOSE q \in Processes : TRUE THEN Fresh("serving", 1) ELSE Off]
  /\ updater = [u \in Updaters |-> NoUpdate]
  /\ disturbed = FALSE

-----------------------------------------------------------------------------
(* Releases.                                                               *)

PublishRelease(v) ==
  /\ v \notin published
  /\ published' = published \cup {v}
  /\ newestFormal' = IF v \in Formal THEN v ELSE newestFormal
  /\ UNCHANGED <<disk, server, updater, disturbed>> /\ Smooth

(* selectRelease: the formal release that comes first in the list, or the  *)
(* greatest candidate.                                                     *)
Selected(channel) ==
  LET candidates == published \ Formal IN
  IF channel = "stable" THEN {newestFormal} \ {0}
  ELSE {v \in candidates : \A w \in candidates : w <= v}

HasUpdate(latest, current) == latest > current

-----------------------------------------------------------------------------
(* An update.                                                              *)

UpdaterAt(u, at) == updater' = [updater EXCEPT ![u].at = at]
EndUpdate(u) == updater' = [updater EXCEPT ![u] = NoUpdate]
Progress(u, progress) == server' = [server EXCEPT ![updater[u].in].progress = progress]
UpdateOnly == UNCHANGED <<published, newestFormal>>

(* Two swaps at once, from the backup of one to the end of the other.      *)
Meets(u) == disturbed' = (disturbed \/ \E w \in Updaters \ {u} : updater[w].at \in Swapping)

ApplyUpdate(u, p, channel) ==
  /\ updater[u] = NoUpdate /\ server[p].at = "serving"
  /\ \E v \in Selected(channel) :
       /\ HasUpdate(v, server[p].runs)
       /\ updater' = [updater EXCEPT ![u] = [at |-> "download", in |-> p, build |-> v]]
  /\ server' = [server EXCEPT ![p].progress = "downloading"]
  /\ UNCHANGED <<disk, disturbed>> /\ UpdateOnly /\ Smooth

(* The download fails, or what has been written is not what was published. *)
Download(u) ==
  /\ updater[u].at = "download"
  /\ \/ UpdaterAt(u, "verify") /\ Progress(u, "verifying") /\ Smooth
     \/ /\ updater' = [updater EXCEPT ![u] = [at |-> "verify", in |-> @.in, build |-> Damaged]]
        /\ Progress(u, "verifying") /\ Mishap
     \/ EndUpdate(u) /\ Progress(u, "failed") /\ Mishap
  /\ UNCHANGED <<disk, disturbed>> /\ UpdateOnly

ChecksumFits_Unasked(build) == TRUE
ChecksumFits(build) == build # Damaged

Refused_Silently(u) == UNCHANGED server
Refused(u) == Progress(u, "failed")

VerifyChecksum(u) ==
  /\ updater[u].at = "verify"
  /\ \/ /\ ChecksumFits(updater[u].build)
        /\ UpdaterAt(u, "backup") /\ Progress(u, "done") /\ Meets(u) /\ Smooth
     \/ /\ EndUpdate(u) /\ Refused(u) /\ UNCHANGED disturbed
        /\ MishapIf(ChecksumFits(updater[u].build))
  /\ UNCHANGED disk /\ UpdateOnly

(* landBinary: the old backup is removed, the executable becomes the new   *)
(* one, the file that was downloaded becomes the executable.               *)
BackupExe_NotDone(u) ==
  /\ updater[u].at = "backup" /\ UpdaterAt(u, "land") /\ UNCHANGED <<disk, server, disturbed>>
  /\ UpdateOnly /\ Smooth

BackupExe(u) ==
  /\ updater[u].at = "backup"
  /\ \/ /\ disk.exe # Missing
        /\ disk' = [disk EXCEPT !.old = disk.exe, !.exe = Missing]
        /\ UpdaterAt(u, "land") /\ Smooth
     \/ /\ disk' = [disk EXCEPT !.old = Missing]
        /\ EndUpdate(u) /\ MishapIf(disk.exe # Missing)
  /\ UNCHANGED <<server, disturbed>> /\ UpdateOnly

(* A move to another volume copies: it may fail half-way, or when all of   *)
(* it is there but the source cannot be removed.                           *)
Land(u) ==
  /\ updater[u].at = "land"
  /\ \/ disk' = [disk EXCEPT !.exe = updater[u].build] /\ UpdaterAt(u, "start") /\ Smooth
     \/ /\ \E left \in {disk.exe, Damaged, updater[u].build} : disk' = [disk EXCEPT !.exe = left]
        /\ UpdaterAt(u, "restore") /\ Mishap
  /\ UNCHANGED <<server, disturbed>> /\ UpdateOnly

Restored_NotDone(d) == d
Restored(d) == [d EXCEPT !.exe = d.old, !.old = Missing]

RestoreExe(u) ==
  /\ updater[u].at = "restore"
  /\ \/ disk' = (IF disk.old = Missing THEN disk ELSE Restored(disk)) /\ Smooth
     \/ disk.old # Missing /\ UNCHANGED disk /\ Mishap
  /\ EndUpdate(u)
  /\ UNCHANGED <<server, disturbed>> /\ UpdateOnly

-----------------------------------------------------------------------------
(* A rollback.                                                             *)

RollBackUpdate(u, p) ==
  /\ updater[u] = NoUpdate /\ server[p].at = "serving" /\ disk.old # Missing
  /\ updater' = [updater EXCEPT ![u] = [at |-> "set aside", in |-> p, build |-> Missing]]
  /\ Meets(u)
  /\ UNCHANGED <<disk, server>> /\ UpdateOnly /\ Smooth

SetAside(u) ==
  /\ updater[u].at = "set aside"
  /\ \/ /\ disk.exe # Missing
        /\ disk' = [disk EXCEPT !.failed = disk.exe, !.exe = Missing]
        /\ UpdaterAt(u, "bring back") /\ Smooth
     \/ /\ disk' = [disk EXCEPT !.failed = Missing]
        /\ EndUpdate(u) /\ MishapIf(disk.exe # Missing)
  /\ UNCHANGED <<server, disturbed>> /\ UpdateOnly

BringBack(u) ==
  /\ updater[u].at = "bring back"
  /\ \/ disk.old # Missing /\ disk' = Restored(disk) /\ UpdaterAt(u, "start") /\ Smooth
     \/ UNCHANGED disk /\ UpdaterAt(u, "undo") /\ MishapIf(disk.old # Missing)
  /\ UNCHANGED <<server, disturbed>> /\ UpdateOnly

UndoSetAside(u) ==
  /\ updater[u].at = "undo"
  /\ \/ /\ disk' = IF disk.failed = Missing THEN disk
                   ELSE [disk EXCEPT !.exe = disk.failed, !.failed = Missing]
        /\ Smooth
     \/ disk.failed # Missing /\ UNCHANGED disk /\ Mishap
  /\ EndUpdate(u)
  /\ UNCHANGED <<server, disturbed>> /\ UpdateOnly

-----------------------------------------------------------------------------
(* The processes.  A new one works on tasks from its start and listens as  *)
(* soon as the port is free; the old one serves until it leaves.           *)

(* The least number that is free.                                         *)
FreeProcess == {q \in Processes : server[q] = Off /\ \A r \in Processes : server[r] = Off => q <= r}

SpawnAndExit(u) ==
  LET p == updater[u].in IN
  /\ updater[u].at = "start"
  /\ \/ /\ disk.exe \in Versions /\ Smooth
        /\ \E q \in FreeProcess :
             server' = [server EXCEPT ![p].leaving = TRUE, ![q] = Fresh("starting", disk.exe)]
     \/ UNCHANGED server /\ MishapIf(disk.exe \in Versions)
  /\ EndUpdate(u)
  /\ UNCHANGED <<disk, disturbed>> /\ UpdateOnly

(* Its requests end with a process.                                        *)
Ended(p) ==
  /\ server' = [server EXCEPT ![p] = Off]
  /\ updater' = [u \in Updaters |-> IF updater[u].in = p THEN NoUpdate ELSE updater[u]]
  /\ disturbed' = (disturbed \/ \E u \in Updaters : updater[u].in = p /\ updater[u].at \in Swapping)

OldExits(p) ==
  /\ server[p].leaving /\ Ended(p)
  /\ UNCHANGED disk /\ UpdateOnly /\ Smooth

Listening == {p \in Processes : server[p].at = "serving"}

ListenWithRetry(p) ==
  /\ server[p].at = "starting" /\ Listening = {}
  /\ server' = [server EXCEPT ![p].at = "serving"]
  /\ UNCHANGED <<disk, updater, disturbed>> /\ UpdateOnly /\ Smooth

(* restartDelay is far below the time a process tries to listen for.       *)
GivesUpListening_AtOnce(p) ==
  /\ server[p].at = "starting" /\ Listening # {} /\ Ended(p)
  /\ UNCHANGED disk /\ UpdateOnly /\ Smooth

GivesUpListening(p) ==
  /\ server[p].at = "starting" /\ \E q \in Listening : ~server[q].leaving
  /\ Ended(p)
  /\ UNCHANGED disk /\ UpdateOnly /\ Smooth

ServerDies(p) ==
  /\ server[p].at # "off" /\ Ended(p) /\ Mishap
  /\ UNCHANGED disk /\ UpdateOnly

StartServer(p) ==
  /\ \A q \in Processes : server[q] = Off
  /\ disk.exe \in Versions /\ p \in FreeProcess
  /\ server' = [server EXCEPT ![p] = Fresh("starting", disk.exe)]
  /\ UNCHANGED <<disk, updater, disturbed>> /\ UpdateOnly /\ Smooth

ServerStep(p) == OldExits(p) \/ ListenWithRetry(p) \/ GivesUpListening(p)

SelfUpdateNext ==
  \/ \E v \in Versions : PublishRelease(v)
  \/ \E u \in Updaters :
       \/ \E p \in Processes : \/ \E channel \in {"stable", "prerelease"} : ApplyUpdate(u, p, channel)
                               \/ RollBackUpdate(u, p)
       \/ Download(u) \/ VerifyChecksum(u) \/ BackupExe(u) \/ Land(u) \/ RestoreExe(u)
       \/ SetAside(u) \/ BringBack(u) \/ UndoSetAside(u) \/ SpawnAndExit(u)
  \/ \E p \in Processes : ServerStep(p) \/ ServerDies(p) \/ StartServer(p)

SelfUpdateFairness == \A p \in Processes : WF_updateVars(ServerStep(p))

SelfUpdateSpec ==
  SelfUpdateInit /\ mishaps = 0 /\ [][SelfUpdateNext]_updateVars /\ SelfUpdateFairness

-----------------------------------------------------------------------------
AtRest == \A u \in Updaters : updater[u].at \notin Swapping

(* An executable that can be started is there whenever no swap is under    *)
(* way, whatever one step of an update or a rollback failed.               *)
ExeIsWhole == disturbed \/ mishaps > 1 \/ ~AtRest \/ disk.exe \in Versions

(* Within a swap too one of the three files is a build that can be put     *)
(* back by hand.  (A second failure may cost it: where going back failed,  *)
(* the next update removes the backup first.)                              *)
SomeBuildRemains ==
  disturbed \/ mishaps > 1 \/ \E f \in {"exe", "old", "failed"} : disk[f] \in Versions

(* What the page shows does not stay at downloading or verifying.          *)
ProgressSettles ==
  \A p \in Processes : server[p].progress \in {"downloading", "verifying"} =>
    \E u \in Updaters : updater[u].in = p

SelfUpdateSafe == ExeIsWhole /\ SomeBuildRemains /\ ProgressSettles

SomeoneServes == \E q \in Processes : server[q].at = "serving" /\ ~server[q].leaving

(* A process that leaves has handed over: another serves in the end.       *)
HandedOver ==
  \A p \in Processes : server[p].leaving /\ mishaps = 0 ~> mishaps > 0 \/ SomeoneServes
=============================================================================
