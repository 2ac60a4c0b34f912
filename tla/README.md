# JianVideo: TLA+ verification

JianVideo is a self-hosted media server: a Go program (`apps/server`) over one
SQLite database in WAL mode, a tree of media files that other programs change as
well, external FFmpeg processes, and a React client. Three things make it hard to
get right. Nearly everything slow runs in the background, and its queues meet
requests, cancellations, retries and restarts. Rows and files belong together and no
transaction holds both. And much of what is stored is derived from files, rows or
settings that change meanwhile. The modules here are about these three.

Paths below are relative to `apps/server/internal` unless they start with `apps/`,
`packages/` or `docs/`.

## 1. Inventory

### The parts that carry state and concurrency

Queues and events:

| component | state | operations | hard behaviour | what makes it correct |
|---|---|---|---|---|
| task center (`tasks/service.go`) | rows of `tasks`; `runningCancels`; `priorityStreak` | Enqueue, EnqueueTx, ClaimNext, UpdateProgress, MarkSucceeded, MarkFailed, Cancel, Retry, RecoverRunning, SyncLegacy | reads outside the writing transaction; cancel against bind; old executions that return late; crash at any point | one execution of a row at a time, cancels delivered, outcomes of the current run, attempts within the limit, one unfinished row per key |
| task workers (`tasks/worker.go`) | a pool per type and pass; `wakeRunning`, `wakePending` | Register, Wake, wakeLoop, RunPending, runType, workerLoop, finishTask | overlapping passes, coalesced wake-ups, a barrier over all types | no row waits for ever; a wake-up is never lost; the limit of a type |
| claim policy (`ClaimNext`) | `priorityStreak` | choice of the next row | a stream of high priority work; memory lost at a restart | bounded bypass; no starvation |
| scan queue (`library/task_queue.go`, `task_target.go`) | rows of `scan_tasks`; their mirror in `tasks`; `targetStore`; a channel of capacity one | Enqueue, EnqueueChange, EnqueueScheduled, cancel, retry, the worker loop, RecoverRunning | unsynchronised mirror writes, check-then-act, lost wake-ups, failed final writes | every pending scan is executed; one at a time; the mirror agrees |
| watch state (`library/watch_state_*.go`, `packages/player-core/src/watch-state-reporter.ts`) | one revisioned row per media file; the reporter of each playing session | apply event, legacy position and watched, compare-and-swap, retry when busy; report, retry, close | duplicated, late and lost requests and answers of several devices; transactions that overlap | no accepted write is lost, reports take effect at most once and in order |

What is derived from the files:

| component | state | operations | hard behaviour | what makes it correct |
|---|---|---|---|---|
| library index and watcher (`library/service.go`, `file_hash.go`, `watcher/watcher.go`) | rows of `media_files`, debounce timers, the queue of changes | full scan, change scan, insert, update, mark missing, hash, rename, move, delete, restore | events lost or late; files that change while they are hashed; users who rename under a scan | a full scan mends what events missed; a deletion stays; a valid hash is the file's |
| title inference (`library/inference.go`) | inferred and corrected titles, settings with a generation, one task per generation | infer at once, backfill in batches, correct, run again | a correction or a change of the settings between question and save | corrections stay; what is missing is inferred |
| embedded metadata (`library/metadata_service.go`, `metadata_tasks.go`) | rows with a stale mark, parse tasks by fingerprint, the backfill with its checkpoint | mark stale, enqueue, parse, backfill | the file changes while it is parsed | a row that is not stale fits the file |
| HLS profile directory (`transcoder/hls_*.go`) | segments, playlists and the master on disk, cache rows, tasks | enqueue, transcode, publish, cancel, clean, inventory | two handlers, or a handler and the clean, in one directory | a manifest that is offered plays |
| timeline previews and cache registry (`transcoder/timeline_preview_service.go`, `storage/cache.go`) | pointer row, cache rows, generations on disk | request, generate, register and activate, compensate, clean, inventory | two generations of one media, two executions of one generation; rows and files changed in separate steps | the pointer has its asset; the newest request wins |
| thumbnails, covers (`thumbnail/`, `library/thumbnail*.go`, `library/cover_*.go`) | files, cache rows, shared flights; candidates and the chosen one | ensure, backfill, clean; generate, refresh, choose | followers of a generation another task makes; refresh against choice by hand | a task that succeeded has made its pictures; the choice by hand stays |
| encoder selection (`transcoder/capability_service.go`, `fallback.go`) | snapshot of probe results, `codec_probe_cache` | probe, read, publish, change the path, fall back | the path changes under a probe | the snapshot is of the FFmpeg in use |

Files that must not get lost, and the server's own upkeep:

| component | state | operations | hard behaviour | what makes it correct |
|---|---|---|---|---|
| recycle bin (`library/recycle_cleanup.go`) | row state and claim, three paths, a manifest | delete, restore, claim, stage by rename, link or copy, confirm, compensate, delete the row | a crash between any two steps; scans, users and other programs meanwhile | no file without row, no row without file, nothing lost |
| metadata writeback (`library/metadata_writeback.go`) | image, snapshot, backup, confirmation | confirm, write, swap, roll back, clean snapshots | the source changes meanwhile; two executions that share `.tmp` and `.bak`; a crash between two renames | the original is never lost |
| uploads, subtitles, exports (`library/upload.go`, `subtitle/`, `library/media_export.go`) | a row and a file each | upload; list, read, delete with compensation; enqueue, run, cancel, retry | requests of one name; steps that fail one by one; two runs of one row | a row that offers a file has it, whole |
| migrations (`migration/`) | `schema_migrations` rows, backup files, the schema | plan, back up, run, validate, resume | a crash between marking and executing; a migration that undoes an earlier one's work | what succeeded is valid; what was is in a backup |
| self-update (`update/`) | executable, backup, two processes | choose, download, check, swap, start, leave, roll back | both processes run; any step fails | a build that starts is on disk; someone serves |
| tools (`tools/`) | tasks, version directories, path in memory and in the settings | download, probe, install, apply, store | a crash between two renames or before the store; two builds of one version with the executable at different places | the tool in use is on disk |

What users decide:

| component | state | operations | hard behaviour | what makes it correct |
|---|---|---|---|---|
| settings and rollback (`settings/`, `rollback/`) | stored values, applied values, audit events | save, apply, roll back | saves and roll-backs that overlap | the process runs as stored; an undo is whole |
| authentication (`auth/`) | account, sessions, limiter | log in, change the password, disable | statements without a transaction that overlap | sessions end with what they were made from |
| spaces, shares (`space/`, `share/`) | owner and roles; a link with its uses | member changes, transfer; visit, revoke | check-then-act across requests | one owner; uses are counted |
| media type rules (`library/media_type_rules.go`) | rows per scope, type and suffix | upsert, delete, fold into a policy | two generations of endpoints over the same rows, two ways to read them | the rules decide, for the scan and for the listing; one row per key |
| bookmarks (`library/bookmark_*.go`) | revisioned rows | update and delete with compare-and-swap | a retry after a busy database | a confirmed change is stored once |

The other parts (HTTP handlers, player manifests, playback sessions, AI review,
metrics, network and SMB adapters, the web client, the wiki and the packages) are
request parsing, queries, single transactions, external processes or user
interface; `PROJECT.json` lists each with the reason it is not modelled.

### How they interact

- Request goroutines enqueue a task and call `WorkerRegistry.Wake`; `main.go`
  also runs a polling loop that calls `RunPending` every two seconds. Both start a
  pool of goroutines per registered type over the same rows.
- A worker goroutine claims a row, binds a cancel function under the id of the
  row, calls the handler, and writes the outcome. `Cancel` writes the row and then
  calls the bound function. The handlers of the other components are these
  handlers: previews, thumbnails, covers, HLS, exports, metadata, write-back,
  inference, tools and the recycle cleanup.
- The scan queue is older than the task center: it executes rows of `scan_tasks`
  by itself and copies every status into `tasks` (`SyncLegacy`), where the user
  interface reads it. The watcher and uploads enqueue into it; a
  scan calls a hook that marks metadata stale, and asks for the title of a new media.
- Generated files are registered in `cache_assets`; the inventory and the clean of
  the cache service go over the directories of all of them.
- Settings are stored in one transaction and then applied by calls into the
  components (FFmpeg paths, scan schedule, limits).
- A player fetches the watch state of its film and its reporter sends events that
  name the revision it knows; the server answers each with the state that results or
  with the one the event conflicts with. Two older endpoints write the same row
  without session or revision.
- At start-up the migrations come first; then `tasks.RecoverRunning`, then
  `TaskQueue.RecoverRunning`, then the scan worker, then the task workers.

## 2. Modules

| module | models | run |
|---|---|---|
| `TaskLedger` | abstract: what the task center promises of its rows | refined by `TaskCenter`, and so by `TaskPools` |
| `TaskCenter`, `MCTaskCenter` | `Service` and one worker goroutine | `task_center` |
| `TaskPools`, `MCTaskPools` | `WorkerRegistry` composed with `TaskCenter` | `pools_live`, `upkeep` |
| `ClaimFairness` | which row `ClaimNext` prefers | `derived` |
| `ScanQueue` | the scan queue and its mirror | `scan` |
| `WatchRegister` | abstract: what the watch state promises its writers | refined by `WatchState` |
| `WatchState`, `MCWatchState` | reporters, network and server handlers of one film | `watch_state` |
| `LibraryIndex` | files, rows, watcher, scans, hashes, renames | `derived` |
| `Inference` | inferred titles of one space | `derived` |
| `EmbeddedMetadata` | metadata read out of media files | `derived` |
| `HLSProfile` | the directory of one HLS profile | `derived` |
| `RecycleBin` | soft delete, restore and the cleanup of one file | `upkeep` |
| `Migrations` | the runner and the catalogue of migrations | `upkeep` |
| `SelfUpdate` | two processes and the executable | `upkeep` |
| `ToolInstall` | download tasks and installer of one tool | `upkeep` |
| `Thumbnails` | tasks, flights, files and rows of thumbnails | `upkeep` |
| `Spaces`, `Shares`, `Sessions` | who may do what | `requests` |
| `Settings`, `MediaRules`, `Encoders` | what the server goes by | `requests` |
| `BookmarkRegister` | abstract: what a bookmark promises the clients that change it | refined by `Bookmarks` |
| `Bookmarks`, `Writeback` | what users have written | `requests` |
| `Uploads`, `Subtitles`, `Exports`, `Covers`, `PreviewCache` | rows with a file | `requests` |
| `Faults` | the budget of things that go wrong | all three groups |
| `MCDerived`, `MCUpkeep`, `MCRequests` | the groups that are checked in one run | |
| `TaskCenterProofs`, `ScanQueueProofs`, `WatchStateProofs` | theorems about the queues and the watch state | tlapm |
| `TaskRefinementProofs` | `TaskPools` implements `TaskCenter`, `TaskCenter` implements `TaskLedger` | tlapm |
| `DecisionsProofs` | theorems about the parts of `requests` that decide: spaces, shares, sessions, settings, rules, encoders, bookmarks, write-backs | tlapm |
| `RequestsProofs` | theorems about its parts with files, and about `MCRequests` as a whole | tlapm |
| `DerivedProofs` | theorems about index, titles, metadata, streams and claims, and about `MCDerived` as a whole | tlapm |
| `UpkeepProofs` | theorems about the recycle bin, migrations, self-update, tools and thumbnails, and about `MCUpkeep` as a whole | tlapm |

### TaskCenter

State: the columns `status`, `attempts`, `max_attempts` (`limit`), `next_run_at`
(`due`: NULL or in the past), `idempotency_key` and `checkpoint` of each row;
`runningCancels` (`bind`); the critical section of `Service.mu` (`cx`); and for each
worker goroutine its place in `workerLoop` / `finishTask` (`pc`), its row (`job`),
whether its context is cancelled, and the attempts it read (`seen`). History
variables: `gen` numbers the runs of a row (its creation and its manual retries),
`wgen` is the run a worker claimed, `fin` the run whose execution wrote the
outcome, `overlap` says that a row was retried while an execution of it could
still write.

Granularity. A SQLite transaction is one step: a deferred transaction that reads
and then writes fails when its snapshot is stale, so its reads and its write
are atomic. What is read *outside* the writing transaction is a step of its own:
`Cancel` (`CancelRead`, `CancelCommit`, `CancelSignal`) and `MarkFailed`
(`MarkFailedRead`, `MarkFailedWrite`). `Service.mu` excludes Enqueue, ClaimNext,
Retry and other cancels while a cancel is in progress; the Mark functions do not
take it. `finishTask` is one step per database access, because each may meet
another status: `Bind`, `CheckCanceled`, `HandlerReturns`, `MarkSucceeded` or
`CheckBeforeFail` and the two halves of `MarkFailed`, `Recheck`, `Unbind`.
`DatabaseFails` is the error path of each of them. `Restart` loses the memory
and runs `RecoverRunning`; `RestartUnrecovered` is the start whose recovery fails
and is only logged (`main.go:488`).

Abstractions. The checkpoint is the run that wrote it; progress, priorities,
payloads, scopes and audit texts are left out. `ClaimNext` may take any due
pending row: its preference is the subject of `ClaimFairness`, and every choice
it makes is one `TaskCenter` allows.

### TaskLedger

What is left of the task center for those who submit, watch, cancel and retry: a row, its
owner, and the stop that was asked for. The owner of a row is the execution that can write
it (`Owner`; nobody once a manual retry has come under an execution, which is `overtaken`).
Only the owner settles a row, once, for the run it took it for, and a failure is exactly one
more attempt; a running row loses its owner without being settled only by a failed operation
or a restart. A stop is asked for while the row is unfinished (`AskStop`, the read of
`Cancel`) and takes effect later on whatever the row has become (`Stop`): that is the code's
order of read and write (`service.go:463`), stated where a reader can see it. `TaskCenter`
states the refinement as `IsLedger`.

### TaskPools

EXTENDS `TaskCenter` and replaces the free start of workers by passes. A pass
(`active`) starts every goroutine of its pools (`launch`) and ends when all have
returned (`Drained`, the `wg.Wait` of `RunPending`). A goroutine claims rows of its
type and leaves only when there is none. `Create` marks a row whose creator has
still to call `Wake`; `Wake` and `WakeRound` are `wakeRunning` and `wakePending`. The
steps of `TaskCenter` are taken over as they are (`Common`), and `TaskRefinementProofs`
proves that every behaviour of `TaskPools` is one of `TaskCenter`.

### ClaimFairness

Pending rows of one type in creation order, the streak, and two history variables.
`ClaimNext` builds both of its queries from one gorm handle, so the second keeps the
`ORDER BY priority DESC` of the first: `Lower` is the first row *by priority* among
those below the top, not the oldest of them.

### ScanQueue

`scan` and `mirror` are the two status columns of one task. A request commits its
row, mirrors it and then wakes the worker, in separate steps (`enq`, `can`, `ret`
are the progress of the requests in flight); `read` is the status the worker holds
between its commit and its mirror write. `Unpayloaded` rows come from a version
that stored no payload: they run only when their target is in memory, and end in
error otherwise. Every mirror write may fail (`SyncTask`), which the code logs and
forgets. Recovery may fail in either of its halves, in the rows it cannot mark
and in the mirror writes it loses; `main.go` logs that and starts the worker anyway. `rememberTarget` and `wake` are one step: both touch memory only, and no
step of the worker tells them apart.

### WatchState and WatchRegister

State: the row of `watch_states` (`row`: revision, completed, position, session and
number of the last event) and `view_count` (`views`); for each session the fields of
its `WatchStateReporter` (`known` is `state`, `nextSeq`, `flight` is `inFlight` with its
report, `pending`, `status` stands for `closed` and `disposed`); the requests on their
way (`net`) and the answers (`answer`); for each handler goroutine the transaction it
is in (`job`). `stored` is history: the number of the last event of each session that
was stored.

Actions: `Report`, `Close`, `Dispose`, `Receive` (`acceptResult`, `shouldRetry` and the
`finally` of `send`) and `Fail` for the reporter; `Deliver` takes a request from the
network, leaving a copy there when it is duplicated, and a request may stay there for
ever. `Examine` is `applyWatchEventOnce` up to its first write (repetition, conflict, or
go on), `Persist` its writes with the compare-and-swap, `Busy` the `database is locked`
that `ApplyWatchEventInSpace` retries. `CallLegacy`, `LoadLegacy` and `LegacyDone` are the
endpoints without sessions, which load the state, number an event after it and start
again after a conflict.

Granularity. The reads of a transaction are one step and its writes another, because
the code relies on the compare-and-swap and not on the isolation of the database
alone. Both outcomes of a transaction whose reads are out of date are in the model:
the swap finds another revision (a conflict), or SQLite refuses the write (`Busy`).

Abstractions: one media file (sessions of different films share nothing); positions
and durations in seconds; `Activity` is what foreground and playing may each be when a
conflict arrives: it is retried when the player is in the foreground and plays or the
report was a seek of the user. Left out: validation of input,
soft-deleted files, and the lists of recent films. An answer reaches a reporter only
while it waits for it.

`WatchRegister` has no network, no sessions' memory and no transactions: a write takes
effect at the current revision, a session's reports take effect in the order of
their numbers and each at most once, and `views` counts the changes to completed.

### LibraryIndex

State: what is on disk, the rows of `media_files` in the order of their ids, the
debounce timers of the watcher, the queue of scan tasks with its one worker, and what
the hash backfill and a rename hold between disk and database. A file is known by its
print (size and modification time); a rewritten file has a new one. Actions: the disk
changes (`PutFile`, `RemoveFile`, `MovedOnDisk`), the watcher inserts after its timer or
removes at once, `RequestFullScan`, the steps of `ScanLibrary` and of the two kinds of
changes, `ReadHash` and `StoreHash`, `DeleteMedia` and `RestoreMedia`, `StartRename` (the look
at the target), `RenameOnDisk`, and `UpdateRenamed` or `RollBackRename`, failure and retry of a
task, a crash. The worker reads a row and writes it later; users write in between.

A hash takes the print of the opened file (`file_hash.go:78`) and then reads it. A file that is
put in place of another stays the one that was opened; one that is rewritten in place while
it is read gives a hash of no file (`Torn`), stored with the print of before. `TrustedHashFits`:
a hash that counts as valid is that of the file the row describes, or a torn one whose row has
a print that no file has any more, so that the next scan of the path makes it stale. Two
exceptions are history: a hash stored while a scan held the row (`hashOvertaken`), two rows at
one path after overlapping renames (`moved`).

`FullScanMends`: when a user has asked for a full scan and nothing changes after that
(`asked`), every path comes to agree with the disk, whatever events were lost before. Only a
full scan compares the rows with the disk. The scheduler asks for incremental ones
(`main.go:529`) and is off unless it is switched on (`settings/registry.go:79`); such a scan does
what a full scan does that fails when it comes to compare (`TaskFails` at `reconcile`), so it
has no action of its own and no property promises anything of it. `SparesDeleted`: the worker
changes no row's deletion and adds no row beside a deleted one.

### Inference

State: the settings with their generation, the title of each media and whose it is,
the inference of a new media under way, the task of each generation with its batch. A
task lists a batch, asks for the generation of the settings, asks for each media whether
it is corrected, and stores. A correction, a full run and a roll-back of the settings
share the budget of mishaps. `CorrectionStays` and `MissingIsInferred`; exceptions: a media whose
inference failed for good (`givenUp`), and one whose task was ended by a change that
queued no other (`inferOvertaken`).

### EmbeddedMetadata

A fingerprint stands for the content of a file. The hook of a scan marks the row stale
and enqueues a task under the new fingerprint; a parse compares the fingerprint it expects
before and after it reads the file and stores; a backfill goes through the media by
number from its checkpoint, stores, then moves the checkpoint, and expects none. A refresh by hand
loads the media, marks the row, and enqueues under the fingerprint it has loaded, in three steps. `RowsTruthful`: a row that does not say it is
stale fits the file, unless the scan has not seen the change, its hook is just about to mark
the row, an older content was stored over a newer scan (`overtaken`), or the hook failed (`missed`).
`MetadataRefreshes`: a scanned change is parsed in the end.

### HLSProfile

The directory of one profile: its variants that are complete, the master playlist and
the variants it names, its cache rows; the tasks for it, whose keys differ with their
ladder while the directory is the same; the clean, which deletes asset by asset and then
the rows; the inventory, one step. A task canceled while its handler works makes room
for a second one. `OfferedPlays`: whatever a manifest names is complete, except after two
writers met or while a clean is at work. `RebuildSucceeds`: a forced rebuild succeeds, as long
as the failures it can meet are fewer than its attempts.

### PreviewCache

One media and one profile: its pointer row, a task per generation, published
directories, cache rows, and the worker of the cache registry that inventories or
cleans. Any number of executions (`Workers`) may be at work, of several generations or of
one: the type has limit one (`timeline_preview_service.go:103`), which the run `type_limit` shows
not to hold, and a canceled execution works on while its task is retried. `Generate` publishes
the directory, `Prepare` measures it; `Commit` writes asset and pointer in one transaction or is
refused; a failed attempt looks at the pointer (`CleanUnregistered`), then removes rows
(`CompensateRows`), then files (`CompensateFiles`). `PointerHasAsset`; `NoUnknownDirectory` while
no crash or failed removal intervened; as action properties `MovesForward` (the newest request
wins, however late an older one ends) and `SparesCurrent`: only the clean takes a current
generation away, or a compensation whose generation became current after it had looked at the
pointer (`late`), which the code does not exclude.

### Thumbnails and Covers

`Thumbnails`: a task per request of sizes and one backfill with its checkpoint; tasks that
need one picture share a generation (`thumbnailFlights`), the followers wait for its
leader. `OneGenerator`, `SucceededDelivers` (nothing skipped over crash and retry, unless the
registry deleted since) and `ThumbnailsEnd`.

`Covers`: candidates known by the state of the file and a position; the task that makes
what is missing and the one that makes all anew; choice by hand; change of the file;
clean. `ManualStays`, `OfferedIsCandidate`, `RefreshDelivers` (for a refresh that met nothing).

### Encoders

A build of FFmpeg is the set of hardware families that work with it. A request asks for the
path, enters the service, reads the rows of `codec_probe_cache` or probes, and
publishes only when the generation of the path is still the one it saw. `SnapshotFits`: the
snapshot never claims a family that the FFmpeg in use lacks (unless its file was replaced
under a request). `RowsFit`: neither does a row for its build. `FallbackSaves`: a transcode
that may fall back does not fail because the path changed.

### RecycleBin

One row, and the three paths of its cleanup: source, target in the recycle folder, and
recovery copy. A path holds an inode with a content; a hard link is the same inode, a copy
a new one. The steps of the cleanup are those of the code: claim, choose link or copy, manifest,
comparison of the source (`CheckSource`), its removal by path alone (`RemoveSource`), transaction,
verification after it, or the compensation of each. Users, scans and other programs interleave with every step,
every file operation may fail, the process may end anywhere; a later round finds
the claim and goes on or back. `restages` is the build for other systems than Windows.
`NoContentIsLost`, `DeletedIsStaged`, `ActiveHasFile`, `ClaimsResolve`.

### Writeback

A request hashes and snapshots the original and enqueues; an execution verifies the hash, lets
the tool write aside, clears the backup, renames the original to it and the new file into place,
one step each; a crash may come between any two. Several executions (`Swappers`) may be at work
on one image, of two tasks or of one that was canceled and retried, because the limit of the
type does not hold; they share the names of the temporary file and of the backup. A snapshot is
named by the second of the request. Edits from outside, roll-backs and the clean of snapshots
come in between. `ContentIsKept`: what the user made last is in place or in a snapshot; the backup
does not count, as the next execution clears it. `RollbackRestores`: the snapshot of a success
holds what its rename to the backup moved away (`moved`, not what the check found), unless
somebody wrote the file between the two (`overtaken`). The module's comments name the ways the
code gives this up.

### Uploads, Subtitles, Exports

`Uploads`: look for a free name, write `name.part`, close, rename; nothing reserves the name, and
each may fail, which removes `name.part`.
`UploadsSafe` is about uploads that shared no name; the model follows the others too, with
mixed bodies.

`Subtitles`: an upload moves a finished file to its place and writes the row; a delete moves the
file aside, deletes the row with its audit event, removes the file, and takes all of it
back when that fails. `RowHasFile`, `AuditTellsDeletes`, `NothingDangles`, `MissedForAReason`.

`Exports`: the file is named after the task; two runs of one row (cancel, then retry) share
it. `DeliveredIsWhole`, `FailedLeavesNothing`, `ResultIsNamed`, for rows that no two runs shared.

### Migrations

The database is the set of the items it holds: a group of tables, columns and indexes
that the same migrations make, drop and ask for, or a defect of the rows that one repairs or
refuses. The catalogue has each of the 31 migrations as what it needs, makes, drops, wants and
refuses, read off its `Up` and `Validate`. The runner plans, backs up, marks a migration
running outside the transaction that executes it, validates, records. The database
starts empty or as version 0.20 left it, and may drift between starts.
`SucceededHolds`: no migration undoes what an earlier one asks for, and two starts mend a drift. `OriginalIsKept`: there
is a backup of what was. `StartsServing`: a start tried again and again serves in the end, or
is stuck at one of five things that no migration repairs.

### SelfUpdate and ToolInstall

`SelfUpdate`: three files (executable, backup, the one set aside), up to three processes,
two requests that nothing keeps apart. Download, checksum, swap, going back when a step of it fails, start of
the new process, departure of the old one after `restartDelay`, the new one's attempts to listen.
`SelfUpdateSafe` says a build that starts is on disk; `HandedOver` that a process that
leaves is succeeded by one that serves.

`ToolInstall`: one tool, a task per download source, two of which have the same version and the
executable at different places (`LayoutOf`). Download and probe aside, two renames, path in
memory, path in the settings: what is applied and stored is the path of the executable inside
the directory of its version (`installer.go:82`). Two executions may be at work.
`ToolsAreThere`: the path in use and the one of the next start are on disk, unless a swap of
their version is in hand, or a crash cut one (`cut`), or a build of that version that does not
have them was put there (`displaced`). `CutIsMendedByRerun`.

### Settings and MediaRules

`Settings`: a save is one transaction and then calls that apply the values one by one; a
roll-back reads an event and writes the old values in a transaction of its own, without
those calls. Three keys stand for the registry: a tool path, applied unless it is empty; the
proxy, a secret that is always applied; a worker limit, which nothing applies to the
process. `RunsAsStored` with its exceptions as history (`stale`);
`UndoesWhole`.

`MediaRules`: rows per scope, type and suffix through two sets of endpoints that check
and write in separate steps, and two ways to read them. `Policy`, which scans, uploads, thumbnails
and the summary go by, gives a suffix one type: a fold of the listed rows over the built-in map
(`Resolved`), then one of the sorted rules that are switched on. The filter of a listing asks for
the suffixes that are on for a type (`EnabledExtensions`), so a suffix on for two types is listed
under both, though the scan takes it as one. `PolicyFits` compares both with the rules: `PolicyIsLast`,
the scan takes the enabled type that comes last in the alphabet, where a row of the library decides
before one of the space and this before the code; `ListingFits`, what the scan takes as a type
is listed under it, and nothing is listed under a type that no rule decides to be of it, unless
nothing at all is on for the type and the filter falls back on what the code says of images.
`OneRowPerKey`; `BuiltinKeepsType`.

### Sessions, Spaces, Shares

`Sessions`: a login asks the limiter, verifies, tells the limiter, and inserts a session; a
change of password or status and the revocation of the sessions are two statements. None is in a
transaction. `ChangeEndsSessions` and `LimiterLocks`. `Setup` is one step, the question for
a user and its creation: two first set-ups at once are left out.

`Spaces`: a request is authorised by its caller's role, reads a member's row and writes
it; only a transfer is one transaction. `OneOwner` and, as an action property,
`GivesOwnership`. A restart runs migration 0024, which serves only when owner
and role agree.

`Shares`: a visit reads the share once and goes by that; the use is taken in a transaction;
accesses are sampled into the audit. `UsesAreCounted` and `RevokedLinkIsDead`.

### Bookmarks

Clients change or delete one bookmark under the revision they have read. A request fails
where the row cannot be read, looked at or written (`BookmarkFails`). SQLite
refuses a write as busy when another connection has written since the read; the service
looks again and tries a second time. `BookmarksSafe`: a confirmed change is stored exactly
once and on top of what its client had read, a refused one not at all, and a conflict is
still true when the client hears of it.

`BookmarkRegister` knows no transactions, no busy database and no second attempt: between its
call and its answer a request compares the revision and changes the row in one step, or is
told of a conflict with the revision that is there, or fails and has changed nothing.
`BookmarkIsRegister` is this refinement, with `CallOf` for what a client knows of its request:
requests on a bookmark are linearizable.

### Faults and the groups

`Faults` holds one counter, `mishaps`. A component's action either takes one from the budget
(`Mishap`: a call fails, the process dies, another program interferes) or leaves it alone (`Smooth`).

The modules above share no variable but this one, so a run checks several of them at
once: `MCDerived` (index, titles, metadata, streams, claims), `MCUpkeep` (recycle bin,
migrations, update, tools, thumbnails, pools) and `MCRequests` (the thirteen others).
The initial state chooses the component in `focus`; its next-state relation is
taken and the variables of the others stay. Since components have nothing in common, a
behaviour of all of them together is, projected, one behaviour of each, and this is what
the run explores, without the product of their states. The invariants of a group say for
each component what it owes (`DerivedFits`, `NothingIsLost`, `FilesFitRows`, ...). Liveness is one
formula `\A i : Owed(i) ~> Given(i)`, which by the component in focus is the leads-to
property of its module; `[]<>P` is `TRUE ~> P`. `FairStep(i)` is the union over the components of their
fair actions numbered i: as the focus stays, fairness to the union is fairness to each.
What really interacts is composed in full: `TaskPools` with `TaskCenter`, watcher, scan queue
and index in `LibraryIndex`, previews and the registry in `PreviewCache`, reporters, network and
handlers in `WatchState`.

## 3. Runs

| run | question | bounds |
|---|---|---|
| `task_center` | do executions of a row exclude each other, are cancels delivered, are outcomes current, does a stopped row stay stopped, can two unfinished rows share a key, is it the ledger it should be | two workers; one row with two attempts, two manual retries, a restart, a database failure; or two rows, one key and one retry (`FewWhenBoth`) |
| `pools_live` | does every pending row end | one row, polling and wake passes, a retry, a restart |
| `scan` | no lost wake-up, serial scans, cancels final, mirror not ahead, every pending scan executed | two rows, one without payload, a retry, a restart, a failure |
| `watch_state` | is the row the register it should be, what do reporters know, how often is a report sent, does a legacy call lose its event, does a device that is alone catch up | two sessions, two handlers; any two reports or legacy calls, with a duplicate and two failures, or a report among two legacy calls (`FewCalls`) |
| `derived` | does what is derived fit its file, does it catch up, does a full scan mend the index, do persons prevail, is the bypass of low priorities bounded | one mishap; two paths with two changes, one user request, two queued tasks; two media in two libraries, two generations; one parsed file with one change, two parse workers and the backfill (`RefreshOrBackfill`); two streams of one profile, two variants, two attempts; two priorities, five rows, limit three, a restart |
| `upkeep` | is anything lost, do rows hold, is everyone served | two mishaps, one for update, tools and thumbnails; two deletes, six inodes; all 31 migrations, from an empty database and from that of version 0.20; two versions, one formal, three processes, two requests; two sources of one version with two layouts, two executions (`AloneOrWell` for both); two media, one size, two slots, two attempts; two rows of two types woken without polling |
| `requests` | do rights, files, edits and decisions hold, does the right rule decide, do late steps yield, is a bookmark a register | two mishaps, one for sessions, covers, encoders and previews; three users, two requests; two visits, no limit or one; three logins, lock after two failures, two changes; two savers, two changes; three rules; two clients, four requests; three uploads; two tracks, two deleters, a reader; two exports, two runs, four requests; two positions, two states of the file (`PicksTheSecond`); two probers, two paths, one change; two write-backs, two executions, three contents, two seconds, one mishap, a retry being one; two generations, two versions, two executions, a retry being the mishap (`NotAllAtOnce`) |

Why the bounds are enough. The properties of `TaskCenter` relate one row to the
executions of that row, rows interact only through keys, so one row (two for the
keys) suffices; an execution and the one that follows it are the two workers, and
the third run of a row (two retries) is where an execution of the first run meets
the bookkeeping of the second. One restart and one failure can be placed between
any two steps. The theorems of section 5 remove these bounds for the safety
properties, and so they do for the components of the groups. In `TaskPools` a wake pass and a polling pass are all the callers
`main.go` has. In `ClaimFairness`, with limit three and five rows, the streak reaches
the limit, is consumed and is forgotten by a restart while rows of both priorities
wait. In `ScanQueue` two rows are a row being executed and a row being enqueued
or cancelled meanwhile. In `WatchState` two handlers are a transaction and the one that
overtakes it; a report that is retried is two requests, so two reports are up to four,
enough for a late one to meet the effects of a later one; two legacy calls around one
report make it conflict on its retry as well. The three kinds of report are one that
completes nothing, one near the end that a user asked for, and an end inside an A-B
loop, which does not complete; the legacy endpoints complete and reset the film.

In the groups a component has as many participants as its hazard: one that has read and
not written, one that writes meanwhile, and a third where the order of two others matters
to it (uploads, users of a space, logins around a change). The mishap can be placed
at any step; a second one, where it is allowed, is the failure of a compensation. The
contents, versions, generations and rows are as many as the participants can
make. `RebuildAfterwards` asks for a rebuild of a stream when the first task of it has ended;
`SweptOrCut` has thumbnails swept or something going wrong but not both; `AloneOrWell` has two
installations, or two requests for an update, at work or something going wrong but not both (the
theorems about both components have no such bound); `NotAllAtOnce` has a media
file change once, and two generations, two executions and the inventory or the clean in pairs
(with the keeper beside two generations the file stays and one execution works); `PicksTheSecond`
has only covers chosen by hand that the server would not choose; `RefreshOrBackfill` has no refresh by
hand beside a backfill, which meets the marks of the scan's hook all the same; two executions
of previews or write-backs are the one that has looked and the one that comes in between, and the
retry that lets them be of one task is the mishap; inference starts with a media
without title, one not yet there and one library switched off, because every other setting
is one change away.

`Cancel` decides from a row it read before and writes by id, so a row that succeeds in
between becomes canceled. `docs/specs/fr2-037-task-queue-center.md:22` lists both as end
states and does not say which one stands; `IsLedger` says what the code guarantees, that a
cancel hits only a row that was unfinished when it was asked for.

Deadlock checking is off in every run: with the bounds used up and all work ended the
system rests.

### Runs that find the code at odds with what the repository says

| run | what is said | what happens |
|---|---|---|
| `old_run_ends_new_run` | an old execution must not write the final status of a new one (`worker_test.go:299`) | cancel and retry between claim and bind: the first execution keeps a live context and ends the run of the second |
| `type_limit` | executes up to the concurrency limit of each type (`worker.go:27`) | the polling loop and `wakeLoop` each start a full pool |
| `claim_starvation` | low priority tasks do not starve (`fr2-037:95`) | with three priorities the middle one takes every turn of the lowest |
| `scan_mirror` | the life cycle of the old queue is synchronised into `tasks` (`task_queue.go:52`) | the late copy of `pending` by the enqueuer overwrites `canceled` or `succeeded` and stays |
| `watch_position` | the position endpoint does not touch `watched` (`library/watch_state.go:14`) | a position far from the end makes a watched film unwatched |

`overlap` marks rows to which the first of these has happened; the properties
that depend on exclusive executions are stated for the others, so that they say
what the code does guarantee.

### Where the properties stop

The following were met while modelling. The modules contain them; the properties
name them as exceptions, by a history variable or a condition.

- `Inference`: a change of the settings ends a running task even when it queues no other
  (`library/inference.go:361`); what the task had still to do waits for the next one.
- `EmbeddedMetadata`: a backfill expects no fingerprint, so it may store the parse of an old
  content after the scan of a newer one; likewise a change between the second look at the
  fingerprint and the transaction.
- `LibraryIndex`: a scan that holds a row writes it over a hash that was stored meanwhile; the hash
  of a file rewritten in place while it is read is of no file, and counts as valid until the path is
  scanned again (`library/file_hash.go:78`); two renames may both find a target free, and a
  rename goes over a file that has come to the target since the look (`library/service.go:855`); what
  the watcher missed stays missed until somebody asks for a full scan.
- `HLSProfile`: two tasks of different ladders, or one beside a canceled one, work in the same
  directory.
- `RecycleBin`: a scan that overlaps a claim may overwrite it. A round that finds files of
  different inodes where it expects links refuses for good and leaves them to a person. The source
  is compared with what was staged and then removed by its path (`recycle_cleanup.go:729`, `:740`): a file that
  another program has put there in between is deleted and is in no copy (`overrun`). Other
  programs are taken to leave the recycle folder alone.
- `Writeback`: two requests of one second share a snapshot; an edit between the check of an
  execution and its end, or one that a roll-back replaces, is not kept: the execution moves it to
  the backup and then discards it (`metadata_writeback.go:531`), and rolling that execution back gives
  the content of the snapshot instead. Two executions on one image clear each other's `.tmp` and
  `.bak`; the user's content is then in the snapshot only.
- `PreviewCache`: an execution that was canceled between its look at the pointer (`storage/cache.go:711`)
  and its removal of the files (`:718`) may delete what a retried execution of the same generation
  has made current in between (`late`). In the model any call of an execution may fail at any
  time, which includes that its context is canceled there.
- `Uploads`: two uploads of one name share `name.part`.
- `Exports`: two runs of one row share its file, and the first to fail removes it.
- `Subtitles`: a crash between moving the file aside and deleting the row leaves a listed
  track without file.
- `Covers`: a generation that overlaps a refresh may leave candidates whose file is gone. A task asked
  for after a cancel starts when the canceled handler is idle; the code may run both. `RefreshDelivers`
  speaks only of a refresh that met nothing.
- Other types with limit one: `HLSProfile` is for any number of executions and its properties are given
  up as soon as two are in one directory, so that the run has one; the backfill of `Thumbnails`
  (`thumbnail/service.go:103`) has one execution, and so has each task of `Covers`.
- `Thumbnails`: their path does not depend on the state of the file; one unreadable media
  makes a backfill fail.
- `SelfUpdate`: nothing excludes two updates or an update and a roll-back; after a failed start of
  the new process the swapped executable stays (`update/apply.go:93`).
- `ToolInstall`: the path is applied in memory before it is stored; a crash in between goes
  back to the stored one. A build replaces the directory of its version, so that the path in use is gone
  when the new build has its executable elsewhere in it; if the task is then canceled, not stored
  or cut by a crash, the settings keep a path that is not there (`displaced`, `manager.go:127`). With two
  executions at once, one may displace what the other has just stored.
- `Settings`: a roll-back writes the stored values and leaves the running ones until the
  next start.
- `Spaces`: `AddMember` writes the role over an existing row by a separate statement
  (`space/service.go:141`), which may take the owner's role during a transfer; `OneOwner` says only
  that nobody else has it, and migration 0024 mends or refuses the rest at the next start.
- `MediaRules`: a row of a library overrides that of the space for the same type only, and the
  rules of a deleted library remain. A suffix that is on for two types is listed under both, and the
  scan takes it as one; where nothing is on for a type the listing falls back on the built-in images. A
  listing over all libraries goes by the rows of the space only, which is the case of a
  library without rows.
- `Migrations`: a rerun of the first migrations makes broad indexes again that a later one
  refuses until the start after; a lost library index, a demoted owner, a watch state without
  media, an old task status and a refused setting are not repaired.
- `Bookmarks`: a busy database at the commit itself is answered as an error and not tried
  again.

## 4. Fairness

- `Goroutine(w)`, `WakeRound`, `EndPass`, `Wake`, the end of a cancel: the Go
  scheduler runs every runnable goroutine, `sync.Mutex` does not starve a waiter, and
  **handlers return**. This last one is an assumption about the registered
  handlers, which get a context they can observe.
- `StartPass(Poll)`: the ticker of `startTaskWorkers` fires again after each pass. In
  `upkeep` the pools have no polling loop: a wake-up alone must be enough.
- `BackoffElapses`: clocks advance. `WF(ClaimNext)`: workers ask again, which
  `TaskPools` shows.
- `WorkerStep`, `Boot` and the continuation of a begun request in `ScanQueue`: scans
  return, the program comes up again after a crash.
- `LibraryIndex`: the worker goes on, timers fire, a rename that has moved its file updates its row,
  a hash that was read is stored. No scan is assumed to be asked for: `FullScanMends` begins
  with one that was (`<>[]asked`).
- `Inference`, `EmbeddedMetadata`, `HLSProfile`, `Thumbnails`: the task workers take up tasks and
  their handlers return; as `pools_live` shows of the pools, in weak form over all
  tasks of a component where one is enough.
- `RecycleBin`, `Migrations`: rounds of the cleanup are started again; a start that failed is
  tried again by the person who operates the server.
- `SelfUpdate`: a process goes on with what it does. `ToolInstall`: so does the installer, and a
  download is taken infinitely often when it is pending infinitely often
  (`SF` of `TakeDownload`), because tasks of one priority are claimed in the order of their
  rows.
- Nothing is assumed of users: no fairness on Enqueue, Cancel, Retry, requests for a scan, crashes
  or failures. Retries and restarts are finite by their bounds; `PendingEnds` and
  `PendingIsScanned` would not hold of a row retried for ever between its runs, nor
  do they need to: they are claims about each pending period.

Liveness of the task center is stated up to a database failure (`faults > 0`), after which a row may
stay `running` until the next restart: nothing in the code looks for it before.
`ChangeParsed` and `HandedOver` are stated up to a mishap for the same reason. `RebuildSucceeds` needs
fewer mishaps than attempts (one and two in the run, three attempts in the code): a task that has used
up its attempts ends failed. A row of one type and no failing statement is what `PendingEnds` has; that
a row of one type also waits for the handlers of others (`worker.go:116`) ends by the assumption that
handlers return.

## 5. Proofs

`TaskCenterProofs` proves, for every number of rows, workers, keys, retries,
restarts and failures, and from the assumption on the constants alone
(`TaskCenterAssumption`), all safety properties of `TaskCenter`. None of them is
inductive; the inductive invariant `IInv` adds

- `Shape`: a goroutine past its claim has a row that exists; a cancel in progress
  holds such a row and after its commit the row is canceled; a bound cancel function
  belongs to an execution of that row that has passed its claim. Without it, a step
  of a goroutine could be about a row it does not have.
- `Budget`: the attempts `MarkFailed` has read leave room for one more, because the
  write does not check them again.
- `Exclusive`: also an *ended* row has no execution that can write it. Otherwise a
  retry of a failed row could start a second one.
- `CurrentRun`: an execution that can write belongs to the current run, which is
  why the result it writes does too.
- `Signalable`: an execution whose context is live is the one that `bind` names; this
  is the fact that makes `CancelSignal` reach it, and that an old execution's unbind
  checks its token for.

Each part has a lemma with one step per kind of action; `Invariance` puts them
together and each property is a consequence (`ExecutionsAreExclusive`,
`AttemptsAreBounded`, `KeysAreUnique`, `CancelIsDelivered`, `NoOrphanWithoutFault`,
`ResultsAreCurrent`). `StoppedStay` is an action property: in a state of the
invariant no step but `Retry` touches the status of a stopped row.

`TaskRefinementProofs` proves two refinements, step by step. `PoolsImplementQueue`
(`PoolSpec => Spec`): every theorem above holds of the registry. `KeepsLedger`
(`Spec => IsLedger`): every step of the queue is one of the ledger or none, whichever
goroutine, statement or failure it is of; with the first, `PoolsKeepLedger`. The ledger speaks
of runs and attempts, so the argument needs `LedgerFits` beside `IInv`: a row has a run, an
execution is of a run of its row, and unless a retry overtook it `MarkFailed` writes on top
of the attempts it has read, although its write does not compare them. `OwnersStay` and
`OwnerEnds` say how `Owner` follows the executions; the steps of a worker then fall into those
that change nothing the ledger sees (`WorkerQuiet`, `UnbindQuiet`) and those that settle
(`SucceedSettles`, `FailSettles`). An unbind without a settled row happens only to a row that was
stopped, or after a failed operation: this is where `LetGo` gets its two disjuncts.

`ScanQueueProofs` proves the safety properties of `ScanQueue` for any number of rows,
retries, restarts and failed writes. Its `IInv` says what the participants rely on:
`Held` (a row the worker executes is running, and nobody else writes such a row, which
is why final writes by id alone are safe), `Serial` (no row is running while the
worker looks for one), `Noticed` (`NoLostWakeup` already from the query that found
nothing, not only while asleep) and `Truthful` (a completion about to be mirrored is
in `scan_tasks`). `NoLostWakeup` is stated row by row and leaves out the rows without
payload: the retry of such a row may return an error without a signal.

`WatchStateProofs` proves, for any number of sessions, handlers, reports, duplicates
and failures and any reports, that `WatchState` implements `WatchRegister` (`Refines`)
and the invariants of the run. The argument is about revisions. `Copies`: whatever
reporters know, answers carry or transactions have read is an older revision or
exactly the current state. `Ordered`: a later request of a session never expects an
earlier revision, and once an event is stored the revisions expected by all events of
the session up to it are behind; so an event that passes the check against the
current revision is later than all that were stored. `Budget` accounts for the one
retry of each report; `Honest` says that a legacy event looks like a repetition only
after the state it was numbered from has been overwritten. `Waits` ties answers to
reporters that wait for one. `LoneReportIsStored` is only model-checked.

`DecisionsProofs` and `RequestsProofs` prove every safety property of the run `requests`,
for any number of users, clients, files, generations and mishaps: first
each of the thirteen components by itself (`OneOwnerAlways`, `SharesHoldAlways`, ...,
`PreviewsFitAlways`, each `Spec => []Safe` of its module), then `MCRequests`, whose invariant
`RequestsInv` asks of each component its own invariant while it is in focus
(`AccessHoldsAlways`, `FilesFitRowsAlways`, `EditsAreKeptAlways`, `DecisionsHoldAlways`,
`RulesDecideAlways`,
`RequestsAreTyped`); `LateStepsYieldAlways` is its action property, `BookmarkIsRegisterAlways` its
refinement. Every component
is laid out alike: the parts of the invariant, `InitInv`, what follows from it, `Step`
with one step per action. Its invariant `XInv` consists of the types, the safety
properties and what they lean on:

| component | what makes it inductive |
|---|---|
| `Spaces` | `GrantsNoOwner`: no request to add a member carries the owner's role |
| `Shares` | `EventsAreVisits`: a sampled event is one of a visit that was served; `UnlimitedCountsNothing` |
| `Sessions` | `VerifiedFits`: a login past the check of its password fits the account as it is, or a change has met it there; `AccountFits`, `FailuresAreRefusals`; `KeepsTheExcused`: the second statement of a change spares only the session that asked for it |
| `Settings` | `SavesPlain`: a request writes no masked value; `AppliesStored`: what a save has still to apply is stored, unless something overtook it; `MasksSensitive`: the audit masks secrets and no other key |
| `MediaRules` | `IdsWereGiven`, `AsksKeepType`: also what a request has checked and not yet written fits |
| `Encoders` | `CapturesThePath`: what a request has captured is of the path of its generation; `CapturesTheBuild`: and of the build that is there, unless that was replaced under it |
| `Bookmarks` | `RequestsFit`, `WrittenOnce`, `NothingIsAhead`: no request is written twice, and no revision a client knows or asks about is ahead of the row |
| `Writeback` | `KeptInPlace`: the user's content is in place or in a snapshot, wherever the backup went; `HashedIsSnapped`, `SwappersAreCovered`: each execution touches the file once a snapshot holds it, so that none needs to know of the others; `SnapshotsAreOfHashes`: also that a success moved away what was hashed, unless it was overtaken; `ContentsWereMade` |
| `Uploads` | `FilesStay`, `WritersStay`, `Unused`, `TheyMet`, `AloneInHand`, `AloneLanded`, `LandedByOne`: of uploads that met nobody, the name, the `.part` file and what is in it are theirs alone |
| `Subtitles` | `DeletesFollow`, `PlacesFit`, `RestoresFindFile`, `RowsGoByDeletes`, `DonePlaces`: at most one delete has the row of a track, and a restore of the row finds the file |
| `Exports` | `Attempted`, `OneRunUnlessShared`, `EndedHasNoRun`, `FinishedIsWhole`, `PartialIsAtWork`, `ReportedIsNamed`: an export that was not shared has one run, which alone explains a part of a file |
| `Covers` | `RunsAreOfStates`, `LeftIsOfState`, `PeaceIsAlone`, `RefreshIsOnCourse`, `AssetIffCandidate`: in a refresh nothing has met, what is no longer left to do is done |
| `PreviewCache` | `TasksAreAsked`, `PendingIsNewer`, `WorkerHasTask`, `CompensatesOther`, `DirectoriesInHand` with `InHand`: what waits was asked for after all that was ever current, no compensation is at the current generation unless it is `late`, and a directory without row is in the hands of some execution or the clean |

`DerivedProofs` does the same for the run `derived`: the four components that derive
something from files (`IndexHolds`, `CorrectionsStayAlways`, `MetadataHolds`,
`StreamsPlayAlways`), the rows that wait for a claim (`BypassIsBounded`, for any set of
priorities, from `passedOver <= streak + Limit * restarts`), and `MCDerived` as a whole with
`DerivedInv` (`DerivedIsTyped`, `DerivedFitsAlways`, and the action property
`PersonsPrevailAlways`), for any number of files, rows, scans, tasks, workers and mishaps.

| component | what makes it inductive |
|---|---|
| `LibraryIndex` | `PrintsAreOwn`, `HashFits`: no two files have one print, and a hash under way is of the file it has the print of, or torn and then nobody has that print any more (`Gone`); `RowsFit`; `ReadingsTell`: of a row whose hash counts as valid the worker has read so, and the print the hash is of; `NewPathsAreFree`: where a scan has found no row there is none, but one that was moved there; `WriteHasRead`, `WorkerHasTask`, `RenameHasRow`, `ScannerIsRecord`: what worker and renames have in hand exists |
| `Inference` | `BatchesAreFull`: a task about to store has something to store, so that the media it stores next is one |
| `EmbeddedMetadata` | `ParsersServe`: what a parser has in hand is of a media, and is never ahead of the file; `HookIsAbout`: a hook on its way is about a media |
| `HLSProfile` | `WriterIsAlone`, `RunIsOnCourse`: until two writers have met, a run is alone at the directory and finds there what it made; `RowsAreClosed`, `CleanIsOnCourse`: a clean that has skipped nothing gets to the manifest whose variants it deletes; `LaddersAreAsked` |

The index takes its rows as they come, so its proof is about sequences that grow
(`RowsChange`, `RowsGrow`); a `CHOOSE` of the least (the next file of a backfill, the next
title of a batch, the next migration of a run, the next picture of a task) is met with
`LeastNatural`: the order of the numbers is well founded, and a set of them that is not empty
has a least one. So no theorem of induction is needed there.

`UpkeepProofs` does it for the run `upkeep`: `ToolsAreThereAlways`, `UpdateIsSafeAlways`,
`NothingIsLostAlways` (the recycle bin), `MigrationsHoldAlways`, `ThumbnailsAreSafeAlways`,
then `MCUpkeep` as a whole with `UpkeepInv` (`UpkeepIsTyped`, `NothingIsLostEver`,
`RowsHoldAlways`), for any number of deletions, versions, processes, requests, sources, media,
sizes, attempts and mishaps.

| component | what makes it inductive |
|---|---|
| `ToolInstall` | `ExecutionsFit`: between its renames a swap holds a build of the version it moved aside; `DirsFit`; `InUseIsHeld`: a version that is in use, stored or about to be is there, in hand or cut; `AbsentIsDisplaced`: a path that is not there although its version is has been displaced |
| `SelfUpdate` | `FilesFit`: where no two swaps have met and at most one step has failed, the three files hold what the step of the swap says (`Held`), and going back is under way only after that failure; `AloneSwapping`, `RequestsFit`, `ProgressIsOfRequest` |
| `RecycleBin` | `StagingFits`: what a cleanup has in memory is what it took, made and found to agree; `SourceFits`: the source stands as it left it, or another program has put a file there, which the removal meets only if it was put there after the comparison (`overrun`); `ClaimFits`: the row is claimed as long as its file may be away; `OnlyOriginal`: a file of other content is remembered as an intruder |
| `Migrations` | `KeptByRuns`: a run past its backup has the original, and so has a database with a row of status; `RunsInOrder`: without a drift what succeeded comes before all the rest; `RunsMend`: what a run has passed is valid, but for the late migrations in a first run |
| `Thumbnails` | `RunsDeliver`: the pictures of a task are those it has left and those made and registered, and its checkpoint is behind what is made; `OneMakes`: handlers in the same generation have different pictures; `RunsFit` |

The proof about migrations reads the catalogue once (`RegistryIsSound`, one case for each
entry): which defects a migration makes, drops and refuses, and which of its columns it wants
only where their table exists. From there `UpKeeps` says that a migration leaves another
valid, with three exceptions (`Late`): 16, which refuses the broad indexes that 2 and 5 make; 18,
which refuses the old preview tasks that 7 makes of legacy transcodes; 28, which wants a column
of the table that 26 makes. When a drift has 2, 5, 7 or 26 run again after these, they are
invalid once more, and the next start repeats them: this is why `SucceededHolds` speaks of two
starts, and why two are enough.

`PolicyFits` is about two folds, and an induction over the rows is out of the prover's reach. The
proof goes by smallest counterexamples instead. `Settled` says outright what a set of rows makes
of the map: the last row of a key decides, else the built-in map. Putting the last row over what
the others make gives what all make (`SettledStep`). If the fold differed from `Settled` for some
set of rows, there would be a smallest such set (`SmallestSet`, from `LeastNatural` over
cardinalities), and without its last row it would be smaller still (`ResolvedIs`). `Highest`,
`HighestStep` and `PolicyIs` do the same for the fold over the sorted rules. `RanksList` turns the
code's order of listing into numbers, and `OneRowPerKey` makes the last row of a key the one row
of its library (`OnIsDecided`). The filter of the listing asks `Resolved` directly, so `OnIsDecided` settles
it as well, and what the scan takes is on, so it is listed (`PolicyDecides`).

`BookmarkIsRegister` needs of `BookmarksInv` only that a request has an answer just when it
is answered (`RequestsFit`). `RegisterStep` has one step per action: reading, waiting for the
database and the second attempt are none of the register (`CallStays`), every answer is
the one moment at which the request takes effect (`CallIsTold`).

The assumptions are those of the modules: finite sets where the model counts or takes a
minimum (`UploadIds`), and names that are not marks of the model (`"none"` is no login, `"whole"`
and `"master"` are no variants). The one about logins was missing before the proof of
`Sessions`: `KeepsTheExcused` is false of a login of that name. The proof of `Exports` met
two branches of a `CASE` that could both be true; TLC takes the first, TLA+ does not say, and
the definition is an `IF` now, in the order of the code. The proof of `Inference` met a type that no step kept: the model counted
an attempt when a task was claimed, so that a crash used one up; the code counts it in
`MarkFailed` (`tasks/service.go:587`), and so does the model now. `RowsTruthful` was weaker
than it could be, excused by any hook or task still to come; proving it showed that the step
between the scan and the mark is excuse enough. Rows of the index had a bound in their type,
which is gone: nothing but the budget of what may happen bounds their number. The recycle
bin has to find a free inode for a copy; the proof counts those that can be in use, five at most
while a copy is made, so `RecycleAssumption` asks for six (`SnapshotIs`): with fewer a copy
could meet an inode in use, which no file system gives out. The pending migrations of a run
were a sequence, which the order of the catalogue determines; they are a set now, with the first
of them as the next.

Only model-checked: liveness (`PendingEnds`, `NoStarvation` with two priorities,
`PendingIsScanned`, `LoneReportIsStored` and the leads-to properties of the groups), which
is out of reach of the prover. Every safety property of a passing run has its theorem.

## 6. Not modelled

- Two processes over one task table during a self-update: `SelfUpdate` has both processes and
  the files, `TaskCenter` has an atomic `Restart`.
- The lock order between `Service.mu` and SQLite's writer lock in `EnqueueTx`: SQLite gives
  up after its busy timeout, the request fails, nobody waits for ever.
- The creation of a row inside a caller's transaction that is rolled back: no other
  connection sees the row, so it is the same as no step.
- The liveness of reporters: a report is given up after one failure or a second
  conflict, by design, so nothing says that the last position is stored in the end;
  `LoneReportIsStored` says when it is.
- A scheduled scan enqueued beside one that arrived between its check and its
  insertion is in the model (`ScheduledCheck`, `ScheduledEnqueue`) and no property
  excludes it: it is redundant work. So are a retry without payload that reports an error
  after its commit, and the `forgetTarget` of a cancel after the `rememberTarget` of a retry.
- Opening a preview resource (`transcoder/timeline_preview_service.go:624`) checks pointer and asset and
  then reads the file; a file that goes meanwhile is an error answer.
- The pre-generation queue (`main.go` constructs none), player manifests and playback
  sessions (maps under one lock), AI and vectors (no endpoint registers a model or
  a node), the audit and the database log (append only), metrics, HTTP parsing,
  configuration, network and SMB adapters, the web client and the other packages.
- Inside modelled components: what `PROJECT.json` names under "left out" for each, mostly
  reads, text, and values that no other step depends on.

## 7. Plan

Done: the queues and the watch state, the requests, the derived data and the upkeep, each
with model checking and proofs.

Next, in this order:

1. More abstract specifications: a preview as a current generation that is replaced
   atomically, a share as a counter; with the refinements proved.
2. `TaskCenter` with two processes, for the time a self-update runs both.
3. Sessions of the HLS server and of playback.
