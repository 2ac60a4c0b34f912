------------------------------- MODULE MCUpkeep -------------------------------
(***************************************************************************)
(* For TLC: how the server starts, keeps itself and its tools up to date,  *)
(* cleans up and serves its task queue.  The components have no variable   *)
(* in common but the budget of mishaps; a behaviour runs the one it has in *)
(* focus, as in MCDerived.                                                 *)
(***************************************************************************)
EXTENDS RecycleBin, Migrations, SelfUpdate, ToolInstall, Thumbnails, MCTaskPools

VARIABLE focus

Components == {"recycle", "migrations", "update", "tools", "thumbnails", "pools"}

\* Two sources of one version, with the executable at different places.
VersionOfSource(s) == "v1"
LayoutOfSource(s) == IF s = "b" THEN "bin" ELSE "root"

\* Thumbnails are asked for of one media; the backfill takes all.
AskedSizes == {<<2, {160}>>}

recycleState == <<binRowVars, fileVars, cleanupAt, staging, restages, binScanning, cleanupHistory>>
migrationState == <<db, applied, runner, pending, backups, original, drifted, settled>>
updateState == <<published, newestFormal, disk, server, updater, disturbed>>
toolState == <<downloadTask, installer, toolDir, runtimeTool, storedTool, cut, displaced>>
thumbState == <<thumbFile, thumbRow, thumbRun, thumbKeeper, swept>>
upkeepVars == <<focus, mishaps, recycleState, migrationState, updateState, toolState, thumbState,
                allVars>>

Others(c) ==
  /\ IF c = "recycle" THEN TRUE ELSE UNCHANGED recycleState
  /\ IF c = "migrations" THEN TRUE ELSE UNCHANGED migrationState
  /\ IF c = "update" THEN TRUE ELSE UNCHANGED updateState
  /\ IF c = "tools" THEN TRUE ELSE UNCHANGED toolState
  /\ IF c = "thumbnails" THEN TRUE ELSE UNCHANGED thumbState
  /\ IF c = "pools" THEN TRUE ELSE UNCHANGED allVars
  /\ UNCHANGED focus

UpkeepInit ==
  /\ focus \in Components
  /\ RecycleInit /\ MigrationInit /\ SelfUpdateInit /\ ToolInstallInit /\ ThumbnailsInit /\ PoolInit
  /\ mishaps = 0
  /\ focus = "recycle" \/ ~restages
  /\ focus = "migrations" \/ db = {}

\* Bound: one mishap where two leave too many states.
AtMostOne == mishaps' <= 1

\* Bound: thumbnails are swept away, or something goes wrong, but not both.
SweptOrCut == mishaps' = 0 \/ swept' = {}

\* Bound: two executions, or two requests, are at work, or something goes wrong,
\* but not both.
AloneOrWell(workers, idle) ==
  mishaps' = 0 \/ Cardinality({w \in DOMAIN workers : workers[w] # idle}) <= 1

UpkeepNext ==
  \/ focus = "recycle" /\ RecycleNext /\ Others("recycle")
  \/ focus = "migrations" /\ MigrationNext /\ Others("migrations")
  \/ focus = "update" /\ SelfUpdateNext /\ AtMostOne /\ Others("update")
     /\ AloneOrWell(updater', NoUpdate)
  \/ focus = "tools" /\ ToolInstallNext /\ AtMostOne /\ Others("tools")
     /\ AloneOrWell(installer', NoInstall)
  \/ focus = "thumbnails" /\ ThumbnailsNext /\ AtMostOne /\ SweptOrCut /\ Others("thumbnails")
  \/ focus = "pools" /\ PoolNext /\ UNCHANGED mishaps /\ Others("pools")

-----------------------------------------------------------------------------

ThumbKey(i) == IF i = 1 THEN BackfillKey ELSE <<2, {160}>>

\* The actions the components are fair to, numbered as in MCDerived.  The pools
\* are fair to everything but the polling loop.
FairStep(i) ==
  /\ UNCHANGED focus
  /\ \/ focus = "recycle" /\ i = 1 /\ CleanupStep
     \/ focus = "migrations" /\ i = 1 /\ MigrationStep
     \/ focus = "update" /\ i \in Processes /\ ServerStep(i)
     \/ focus = "tools" /\ i \in Installers /\ InstallerStep(i)
     \/ focus = "thumbnails" /\ i \in 1 .. 2 /\ ThumbStep(ThumbKey(i))
     \/ /\ focus = "pools" /\ UNCHANGED mishaps
        /\ \/ i \in 1 .. Cardinality(Worker) /\ Goroutine(Nth(Worker, i))
           \/ i = 3 /\ WakeRound
           \/ i = 4 /\ CancelStep /\ UNCHANGED poolVars
           \/ i = 5 /\ Wake(Nth(Task, 1))
           \/ i = 6 /\ Wake(Nth(Task, 2))

\* Downloads are claimed in the order of their rows.  (A thumbnail task always
\* finds a free slot here.)
FairClaim(s) ==
  focus = "tools" /\ UNCHANGED focus /\ \E i \in Installers : TakeDownload(i, s)

\* The variables of the component in focus.
focused == CASE focus = "recycle" -> recycleVars
             [] focus = "migrations" -> migrationVars
             [] focus = "update" -> updateVars
             [] focus = "tools" -> toolVars
             [] focus = "thumbnails" -> thumbVars
             [] focus = "pools" -> <<mishaps, allVars>>

UpkeepSpec ==
  /\ UpkeepInit /\ [][UpkeepNext]_upkeepVars
  /\ \A i \in 1 .. 6 : WF_focused(FairStep(i))
  /\ \A s \in {"a", "b"} : SF_focused(FairClaim(s))

-----------------------------------------------------------------------------

\* The state of every component has the types its module states.
UpkeepTypes ==
  CASE focus = "recycle" -> RecycleTypeOK
    [] focus = "migrations" -> MigrationTypeOK
    [] focus = "update" -> SelfUpdateTypeOK
    [] focus = "tools" -> ToolInstallTypeOK
    [] focus = "thumbnails" -> ThumbnailsTypeOK
    [] focus = "pools" -> launch \subseteq Worker /\ owed \subseteq Task

\* Whatever fails or stops half way, nothing is lost that cannot be made again:
\* a file of the library is at one of its three places (recycle_cleanup.go), a
\* changed database has the backup of what it was (migration/runner.go), a build
\* that starts is on disk (update/apply.go) and so is the tool in use
\* (tools/installer.go).
NothingIsLost ==
  CASE focus = "recycle" -> NoContentIsLost
    [] focus = "migrations" -> OriginalIsKept
    [] focus = "update" -> SelfUpdateSafe
    [] focus = "tools" -> ToolsAreThere
    [] OTHER -> TRUE

\* Rows say what is true on disk: of files deleted, restored or cleaned up
\* (recycle_cleanup.go), of migrations (migration/runner.go), of thumbnails that
\* are made (thumbnail/service.go).
RowsHold ==
  CASE focus = "recycle" -> DeletedIsStaged /\ ActiveHasFile
    [] focus = "migrations" -> SucceededHolds
    [] focus = "thumbnails" -> ThumbnailsSafe
    [] OTHER -> TRUE

Owed(i) ==
  CASE focus = "recycle" -> i = 1 /\ binRow.in /\ binRow.claim
    [] focus = "migrations" -> i = 1
    [] focus = "update" -> i = 1 /\ mishaps = 0 /\ \E p \in Processes : server[p].leaving
    [] focus = "tools" -> MissingByCut(IF i = 1 THEN "a" ELSE "b")
    [] focus = "thumbnails" -> ThumbsAsked(ThumbKey(i))
    [] focus = "pools" -> status[Nth(Task, i)] = "pending" /\ Nth(Task, i) \notin owed

Given(i) ==
  CASE focus = "recycle" -> ~(binRow.in /\ binRow.claim)
    [] focus = "migrations" -> Serving \/ Stuck
    [] focus = "update" -> mishaps > 0 \/ SomeoneServes
    [] focus = "tools" -> MendedOrEnded(IF i = 1 THEN "a" ELSE "b")
    [] focus = "thumbnails" -> ThumbsEnded(ThumbKey(i))
    [] focus = "pools" -> status[Nth(Task, i)] # "pending"

\* Nothing is left waiting: ClaimsResolve, StartsServing, HandedOver,
\* CutIsMendedByRerun, ThumbnailsEnd and WokenRowIsClaimed of the modules, as
\* one formula for what is in focus.
UpkeepIsServed == \A i \in 1 .. 2 : Owed(i) ~> Given(i)
=============================================================================
