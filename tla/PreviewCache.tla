---------------------------- MODULE PreviewCache ----------------------------
(***************************************************************************)
(* Timeline previews and the registry of cache assets.                     *)
(*                                                                         *)
(* One media file and one preview profile: its pointer row (the current    *)
(* generation and the pending one), the tasks that build generations and   *)
(* their executions, the directories they publish, the rows of             *)
(* cache_assets, and the two workers of the cache service, the inventory   *)
(* and the clean, which share a gate. A generation stands for its task     *)
(* too: each task has a fresh generation and each generation one task.     *)
(* Several executions may be at work, of several generations or of one:    *)
(* the limit of the type does not keep, and a canceled execution works on  *)
(* while its task is retried.                                              *)
(***************************************************************************)
EXTENDS Faults, FiniteSets

CONSTANTS MaxGen,      \* bound on the requests that create a generation
          MaxVersion,  \* bound on the contents the source file takes
          MaxAttempts, \* attempts of a task (3 in the code)
          Workers      \* executions of preview tasks that may be at work at once

ASSUME PreviewAssumption ==
  /\ MaxGen \in Nat \ {0}
  /\ MaxVersion \in Nat \ {0}
  /\ MaxAttempts \in Nat \ {0}

Gens == 1 .. MaxGen
NoGen == 0

VARIABLES
  source,    \* the content of the media file, a content nobody asks a preview
             \* for standing for a missing file too
  created,   \* how many generations were asked for so far
  made,      \* made[g]: the source version generation g was asked for
  pointer,   \* media_timeline_previews: [current, pending], generations or NoGen
  status,    \* status[g]: the task of g
  attempts,  \* attempts[g]: the failed attempts of its task
  worker,    \* worker[e]: an execution, [gen, at, fails, late]; late is history: its
             \* generation became current after it had looked at the pointer
  files,     \* the generations whose directory is published
  rows,      \* the generations with a row in cache_assets
  keeper,    \* the inventory or clean worker: [job, at]
  newest,    \* history: the highest generation that was ever current
  disturbed  \* history: a crash happened, or a removal of files was given up

previewVars == <<source, created, made, pointer, status, attempts, worker, files,
          rows, keeper, mishaps, newest, disturbed>>

WorkerIdle == [gen |-> NoGen, at |-> "idle", fails |-> FALSE, late |-> FALSE]
KeeperOff  == [job |-> "off", at |-> NoGen]

PreviewTypeOK ==
  /\ source \in 1 .. MaxVersion
  /\ created \in 0 .. MaxGen
  /\ made \in [Gens -> 0 .. MaxVersion]
  /\ pointer \in [current : 0 .. MaxGen, pending : 0 .. MaxGen]
  /\ status \in [Gens -> {"none", "pending", "running", "succeeded", "stopped"}]
  /\ attempts \in [Gens -> 0 .. MaxAttempts]
  /\ worker \in [Workers -> [gen : 0 .. MaxGen, fails : BOOLEAN, late : BOOLEAN,
                             at : {"idle", "verify", "generate", "latest", "prepare",
                                   "commit", "refuse", "rows", "files", "end"}]]
  /\ files \in SUBSET Gens
  /\ rows \in SUBSET Gens
  /\ keeper \in [job : {"off", "inventory", "clean"}, at : 0 .. MaxGen]
  /\ mishaps \in 0 .. MaxMishaps
  /\ newest \in 0 .. MaxGen
  /\ disturbed \in BOOLEAN

PreviewInit ==
  /\ source = 1
  /\ created = 0
  /\ made = [g \in Gens |-> NoGen]
  /\ pointer = [current |-> NoGen, pending |-> NoGen]
  /\ status = [g \in Gens |-> "none"]
  /\ attempts = [g \in Gens |-> 0]
  /\ worker = [e \in Workers |-> WorkerIdle]
  /\ files = {}
  /\ rows = {}
  /\ keeper = KeeperOff
  /\ mishaps = 0
  /\ newest = NoGen
  /\ disturbed = FALSE

-----------------------------------------------------------------------------
(* The media file changes its content, or gets an old one back.            *)

SourceChanges(v) ==
  /\ v # source
  /\ source' = v
  /\ UNCHANGED <<created, made, pointer, status, attempts, worker, files, rows,
                 keeper, mishaps, newest, disturbed>>

(* A pending pointer is reused while its task is active and it is about    *)
(* the same content.                                                       *)
Reusable ==
  /\ pointer.pending # NoGen
  /\ made[pointer.pending] = source
  /\ status[pointer.pending] \in {"pending", "running"}

(* Enqueue and Rebuild (force). The fingerprint is read right before the   *)
(* transaction; a change of the file in between is one right after it.     *)
Request(force) ==
  LET g == created + 1 IN
  /\ g \in Gens
  /\ force \/ ~Reusable
  /\ created' = g
  /\ made' = [made EXCEPT ![g] = source]
  /\ status' = [status EXCEPT ![g] = "pending"]
  /\ pointer' = [pointer EXCEPT !.pending = g]
  /\ UNCHANGED <<source, attempts, worker, files, rows, keeper, mishaps, newest,
                 disturbed>>

Cancel(g) ==
  /\ status[g] \in {"pending", "running"}
  /\ status' = [status EXCEPT ![g] = "stopped"]
  /\ UNCHANGED <<source, created, made, pointer, attempts, worker, files, rows,
                 keeper, mishaps, newest, disturbed>>

(* A manual retry of a canceled or failed task.                            *)
Retry(g) ==
  /\ status[g] = "stopped"
  /\ Mishap
  /\ status' = [status EXCEPT ![g] = "pending"]
  /\ attempts' = [attempts EXCEPT ![g] = 0]
  /\ UNCHANGED <<source, created, made, pointer, worker, files, rows, keeper,
                 newest, disturbed>>

-----------------------------------------------------------------------------
(* The executions. A call of one may fail at any time, which includes that *)
(* its context is canceled.                                                *)

Claim(e, g) ==
  /\ worker[e] = WorkerIdle
  /\ status[g] = "pending"
  /\ status' = [status EXCEPT ![g] = "running"]
  /\ worker' = [worker EXCEPT ![e] = [gen |-> g, at |-> "verify", fails |-> FALSE, late |-> FALSE]]
  /\ UNCHANGED <<source, created, made, pointer, attempts, files, rows, keeper,
                 mishaps, newest, disturbed>>

Moved(e, at, fails) ==
  worker' = [worker EXCEPT ![e] = [gen |-> worker[e].gen, at |-> at, fails |-> fails,
                                   late |-> worker[e].late]]
Goto(e, at) == Moved(e, at, worker[e].fails)
Fail(e, at) == Moved(e, at, TRUE)

WorkerOnly == UNCHANGED <<source, created, made, pointer, status, attempts, rows,
                          keeper, mishaps, newest>>

(* The source of the task must still be the one it was asked for.          *)
VerifyTaskSource(e) ==
  /\ worker[e].at = "verify"
  /\ \/ source = made[worker[e].gen] /\ Goto(e, "generate")
     \/ Fail(e, "end")
  /\ UNCHANGED <<files, disturbed>> /\ WorkerOnly

(* Generate builds in a temporary directory and publishes it by a rename;  *)
(* a directory published by another attempt is used as it is.              *)
Generate(e) ==
  /\ worker[e].at = "generate"
  /\ \/ Goto(e, "latest") /\ files' = files \cup {worker[e].gen}
     \/ Fail(e, "end") /\ UNCHANGED files
  /\ UNCHANGED disturbed /\ WorkerOnly

EnsureLatestPending_JustEnds(e) ==
  /\ worker[e].at = "latest"
  /\ IF pointer.pending = worker[e].gen THEN Goto(e, "prepare") ELSE Goto(e, "end")
  /\ UNCHANGED <<files, disturbed>> /\ WorkerOnly

EnsureLatestPending(e) ==
  /\ worker[e].at = "latest"
  /\ \/ pointer.pending = worker[e].gen /\ Goto(e, "prepare")
     \/ pointer.pending # worker[e].gen /\ Goto(e, "refuse")
     \/ Fail(e, "refuse")
  /\ UNCHANGED <<files, disturbed>> /\ WorkerOnly

(* PrepareDirectoryAsset measures the directory; then the progress is      *)
(* written, which a task that is not running any more refuses.             *)
Prepare(e) ==
  /\ worker[e].at = "prepare"
  /\ \/ /\ worker[e].gen \in files /\ status[worker[e].gen] = "running"
        /\ Goto(e, "commit")
     \/ Fail(e, "refuse")
  /\ UNCHANGED <<files, disturbed>> /\ WorkerOnly

(* The generation becomes current. An execution of it that is already past *)
(* its look at the pointer does not notice.                                *)
MakeCurrent(e) ==
  LET g == worker[e].gen IN
  /\ rows' = rows \cup {g}
  /\ pointer' = [current |-> g, pending |-> NoGen]
  /\ newest' = IF g > newest THEN g ELSE newest
  /\ worker' = [x \in Workers |->
       [gen |-> worker[x].gen, at |-> IF x = e THEN "end" ELSE worker[x].at,
        fails |-> worker[x].fails,
        late |-> worker[x].late \/ (worker[x].gen = g /\ worker[x].at \in {"rows", "files"})]]
  /\ UNCHANGED <<source, created, made, status, attempts, files, keeper, mishaps,
                 disturbed>>

Commit_AnyRequest(e) ==
  /\ worker[e].at = "commit"
  /\ source = made[worker[e].gen]
  /\ MakeCurrent(e)

(* One transaction: the pointer still waits for this task, the source is   *)
(* still the same, the asset is registered and the pointer moves.          *)
Commit(e) ==
  /\ worker[e].at = "commit"
  /\ pointer.pending = worker[e].gen
  /\ source = made[worker[e].gen]
  /\ MakeCurrent(e)

CommitRefused(e) ==
  /\ worker[e].at = "commit"
  /\ \/ pointer.pending # worker[e].gen /\ Goto(e, "refuse")
     \/ Fail(e, "refuse")
  /\ UNCHANGED <<files, disturbed>> /\ WorkerOnly

-----------------------------------------------------------------------------
(* What an attempt that did not register leaves behind is removed again,   *)
(* unless the generation is the current one when it looks.                 *)

RejectCurrent_Never(g) == FALSE
RejectCurrent(g) == pointer.current = g

CleanUnregistered(e) ==
  LET g == worker[e].gen IN
  /\ worker[e].at = "refuse"
  /\ \/ ~RejectCurrent(g) /\ Goto(e, IF g \in rows THEN "rows" ELSE "files")
          /\ UNCHANGED disturbed
     \/ Fail(e, "end") /\ disturbed' = (disturbed \/ ~RejectCurrent(g))
  /\ UNCHANGED files /\ WorkerOnly

DeleteRows_KeepsPointer(g) ==
  /\ rows' = rows \ {g}
  /\ UNCHANGED pointer

(* The rows of a generation go in one transaction with the pointer to it.  *)
DeleteRows(g) ==
  /\ rows' = rows \ {g}
  /\ pointer' = IF pointer.current = g THEN [current |-> NoGen, pending |-> pointer.pending]
                ELSE pointer

CompensateRows(e) ==
  LET g == worker[e].gen IN
  /\ worker[e].at = "rows"
  /\ \/ g \in rows /\ DeleteRows(g) /\ Goto(e, "files")
     \/ Fail(e, "end") /\ UNCHANGED <<rows, pointer>>
  /\ UNCHANGED <<source, created, made, status, attempts, files, keeper, mishaps,
                 newest, disturbed>>

CompensateFiles(e) ==
  LET g == worker[e].gen IN
  /\ worker[e].at = "files"
  /\ \/ files' = files \ {g} /\ Goto(e, "end") /\ UNCHANGED disturbed
     \/ g \in files /\ disturbed' = TRUE /\ Fail(e, "end") /\ UNCHANGED files
  /\ WorkerOnly

(* The worker records how the attempt ended: a failed one waits for its    *)
(* retry until the attempts are used up. A task that was canceled          *)
(* meanwhile keeps its status, and so does one whose execution was         *)
(* canceled, or whose end cannot be written.                               *)
AttemptsLeft_OneMore(g) == attempts[g] <= MaxAttempts
AttemptsLeft(g) == attempts[g] + 1 < MaxAttempts

RecordsEnd(g, failed) ==
  /\ status[g] = "running"
  /\ attempts' = IF failed THEN [attempts EXCEPT ![g] = @ + 1] ELSE attempts
  /\ status' = [status EXCEPT ![g] = IF ~failed THEN "succeeded"
                                     ELSE IF AttemptsLeft(g) THEN "pending" ELSE "stopped"]

EndAttempt(e) ==
  /\ worker[e].at = "end"
  /\ RecordsEnd(worker[e].gen, worker[e].fails) \/ UNCHANGED <<status, attempts>>
  /\ worker' = [worker EXCEPT ![e] = WorkerIdle]
  /\ UNCHANGED <<source, created, made, pointer, files, rows, keeper, mishaps,
                 newest, disturbed>>

-----------------------------------------------------------------------------
(* The inventory registers every directory it finds, the clean removes     *)
(* what is registered. That the inventory marks rows whose directory is    *)
(* gone is left out: a clean skips such a row, as it may skip any.         *)

KeeperOnly == UNCHANGED <<source, created, made, status, attempts, worker, mishaps,
                          newest>>

(* A walk takes what it finds and a clean the rows there are: that one     *)
(* works off a list it read first shows only in what it leaves alone, and  *)
(* so does a clean that ends early.                                        *)
StartKeeper(job) ==
  /\ keeper = KeeperOff
  /\ keeper' = [job |-> job, at |-> NoGen]
  /\ KeeperOnly /\ UNCHANGED <<pointer, files, rows, disturbed>>

(* The walk measures a directory before it writes the row.                 *)
Measure(g) ==
  /\ keeper.job = "inventory" /\ keeper.at = NoGen /\ g \in files
  /\ keeper' = [keeper EXCEPT !.at = g]
  /\ KeeperOnly /\ UNCHANGED <<pointer, files, rows, disturbed>>

UpsertMeasured ==
  /\ keeper.job = "inventory" /\ keeper.at # NoGen
  /\ rows' = rows \cup {keeper.at}
  /\ keeper' = [keeper EXCEPT !.at = NoGen]
  /\ KeeperOnly /\ UNCHANGED <<pointer, files, disturbed>>

CleanRows(g) ==
  /\ keeper.job = "clean" /\ keeper.at = NoGen /\ g \in rows
  /\ DeleteRows(g)
  /\ keeper' = [keeper EXCEPT !.at = g]
  /\ KeeperOnly /\ UNCHANGED <<files, disturbed>>

CleanFiles ==
  /\ keeper.job = "clean" /\ keeper.at # NoGen
  /\ \/ files' = files \ {keeper.at} /\ UNCHANGED disturbed
     \/ keeper.at \in files /\ disturbed' = TRUE /\ UNCHANGED files
  /\ keeper' = [keeper EXCEPT !.at = NoGen]
  /\ KeeperOnly /\ UNCHANGED <<pointer, rows>>

(* The task ends, or its context is canceled between two assets.           *)
StopKeeper ==
  /\ keeper # KeeperOff /\ keeper.at = NoGen
  /\ keeper' = KeeperOff
  /\ KeeperOnly /\ UNCHANGED <<pointer, files, rows, disturbed>>

-----------------------------------------------------------------------------
(* The process ends anywhere; the start after it puts a running task back  *)
(* into the queue.                                                         *)
RecoverRunning_Nothing(g) == status[g]
RecoverRunning(g) == IF status[g] = "running" THEN "pending" ELSE status[g]

Crash ==
  /\ Mishap
  /\ disturbed' = TRUE
  /\ worker' = [e \in Workers |-> WorkerIdle]
  /\ keeper' = KeeperOff
  /\ status' = [g \in Gens |-> RecoverRunning(g)]
  /\ UNCHANGED <<source, created, made, pointer, attempts, files, rows, newest>>

WorkerStep(e) ==
  \/ \E g \in Gens : Claim(e, g)
  \/ VerifyTaskSource(e) \/ Generate(e) \/ EnsureLatestPending(e) \/ Prepare(e)
  \/ Commit(e) \/ CommitRefused(e)
  \/ CleanUnregistered(e) \/ CompensateRows(e) \/ CompensateFiles(e) \/ EndAttempt(e)

KeeperStep ==
  \/ \E job \in {"inventory", "clean"} : StartKeeper(job)
  \/ \E g \in Gens : Measure(g) \/ CleanRows(g)
  \/ UpsertMeasured \/ CleanFiles \/ StopKeeper

PreviewNext ==
  \/ \E v \in 1 .. MaxVersion : SourceChanges(v)
  \/ \E force \in BOOLEAN : Request(force)
  \/ \E g \in Gens : Cancel(g) \/ Retry(g)
  \/ \E e \in Workers : WorkerStep(e)
  \/ KeeperStep \/ Crash

PreviewSpec == PreviewInit /\ [][PreviewNext]_previewVars

-----------------------------------------------------------------------------
(* A pointer never outlives the row of its asset: the commit writes both   *)
(* in one transaction, and every delete of the row, by the clean or by the *)
(* compensation of a failed attempt, clears the pointer to it.             *)
PointerHasAsset == pointer.current # NoGen => pointer.current \in rows

(* Generations become current in the order they were asked for, and the    *)
(* latest request is never dropped: a task that a later request has        *)
(* replaced moves neither pointer, however late it ends and however often  *)
(* a crash or a retry runs it again.                                       *)
MovesForward ==
  /\ pointer'.current # pointer.current =>
       pointer'.current \in {NoGen} \cup (newest + 1 .. MaxGen)
  /\ pointer'.pending # pointer.pending =>
       \/ pointer'.pending > pointer.pending
       \/ pointer' = [current |-> pointer.pending, pending |-> NoGen]

NewestWins == [][MovesForward]_previewVars

(* The compensation of an attempt spares the current generation, its       *)
(* pointer and its files: only the clean takes it away. Two cases need the *)
(* check: a crash between the commit of the pointer and the end of the     *)
(* task, which then runs again and finds that nothing waits for it, and an *)
(* execution that another one of the same generation has overtaken. Not    *)
(* spared is a generation that becomes current after a compensation of it  *)
(* has looked at the pointer: nothing in the code closes that gap.         *)
SparesCurrent ==
  LET lost == \/ pointer'.current = NoGen
              \/ pointer.current \in files /\ pointer.current \notin files' IN
  lost => \/ pointer.current = NoGen \/ keeper.job = "clean"
          \/ \E e \in Workers : /\ worker[e].late /\ worker[e].gen = pointer.current
                               /\ worker[e].at \in {"rows", "files"} /\ worker'[e] # worker[e]

CompensationSparesCurrent == [][SparesCurrent]_previewVars

(* Nothing is left on disk that no row knows: when no crash and no failed  *)
(* removal happened, a directory without a row is in the hands of an       *)
(* execution, or of the clean that is about to remove it.                  *)
NoUnknownDirectory ==
  ~disturbed =>
    \A g \in files : \/ g \in rows
                     \/ \E e \in Workers : worker[e].gen = g
                     \/ keeper.job = "clean" /\ keeper.at = g
=============================================================================
