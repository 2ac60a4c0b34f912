------------------------------ MODULE ScanQueue ------------------------------
(***************************************************************************)
(* The scan queue (internal/library/task_queue.go, task_target.go): rows   *)
(* of scan_tasks executed one at a time by a goroutine that sleeps on a    *)
(* channel of capacity one, and their mirror in the table of the task      *)
(* center.  Enqueue, cancel and retry run on request goroutines: each      *)
(* commits its row, then mirrors it, then touches the in-memory target and *)
(* the signal, and other steps come in between.                            *)
(*                                                                         *)
(* rememberTarget and wake are one step: both touch memory only, and the   *)
(* target matters to nobody before the worker is awake.                    *)
(***************************************************************************)
EXTENDS Integers, FiniteSets

CONSTANTS N,            \* bound: rows 1..N of scan_tasks, in creation order
          Unpayloaded,  \* rows an older version left without payload_json
          NoRow,
          MaxRetries,   \* bound: retries in all
          MaxRestarts, MaxFaults

ASSUME ScanQueueAssumption ==
  /\ N \in Nat \ {0} /\ Unpayloaded \subseteq 1..N /\ NoRow \notin 1..N
  /\ MaxRetries \in Nat /\ MaxRestarts \in Nat /\ MaxFaults \in Nat

Row == 1..N

VARIABLES
  scan,      \* status in scan_tasks
  mirror,    \* status of row scan:<id> in tasks
  target,    \* targetStore
  signal,    \* a value is in q.signal
  enq, can, ret,       \* progress of the request goroutines, per row
  sched,     \* EnqueueScheduled: "idle", or "checked" after hasActiveTask
  pc, cur, read,       \* the worker: place, row, status it is about to mirror
  retries, restarts, faults

reqVars   == <<enq, can, ret, sched>>
boundVars == <<retries, restarts, faults>>
vars == <<scan, mirror, target, signal, reqVars, pc, cur, read, boundVars>>

Active   == {"pending", "running"}
Finished == {"completed", "error", "canceled"}

\* NormalizeStatus.
Normal_Raw(s) == s
Normal(s) == CASE s = "completed" -> "succeeded" [] s = "error" -> "failed" [] OTHER -> s

\* tasks.SyncLegacy: an upsert by idempotency key, whatever the mirror says now.
SyncLegacy(r, st) == mirror' = [mirror EXCEPT ![r] = st]

\* syncTask mirrors the status its caller holds; an error is only logged.
SyncTask(r, s) ==
  \/ SyncLegacy(r, Normal(s)) /\ UNCHANGED faults
  \/ faults < MaxFaults /\ faults' = faults + 1 /\ UNCHANGED mirror

RememberTarget(r) == target' = [target EXCEPT ![r] = TRUE]

\* wake: a non-blocking send; with the channel full the signal is already there.
\* (The variant is the same send on a channel without a buffer.)
Wakes_Unbuffered == signal' = (signal \/ pc = "wait")
Wakes == signal' = TRUE

\* RecoverRunning: WHERE status = 'running'.
Stale_None == {}
Stale == {r \in Row : scan[r] = "running"}

\* CancelTaskInSpace: WHERE status = 'pending'.
Cancelable_Running(r) == scan[r] \in Active
Cancelable(r) == scan[r] = "pending"

\* RetryTaskInSpace.
Retriable_Completed(r) == scan[r] \in Finished
Retriable(r) == scan[r] \in {"error", "canceled"}

Oldest(r) == scan[r] = "pending" /\ \A q \in Row : scan[q] = "pending" => r <= q

HasActiveTask == \E r \in Row : scan[r] \in Active

Up == pc \notin {"down", "recovering"}

-----------------------------------------------------------------------------

\* The program starts on an empty table or on what an older version left; the
\* migration has mirrored those rows.
Init ==
  /\ scan \in [Row -> {"absent", "pending", "running"}]
  /\ {r \in Row : scan[r] # "absent"} = Unpayloaded
  /\ mirror = scan
  /\ target = [r \in Row |-> FALSE] /\ signal = FALSE
  /\ enq = [r \in Row |-> "idle"] /\ can = enq /\ ret = enq /\ sched = "idle"
  /\ pc = "down" /\ cur = NoRow /\ read = "absent"
  /\ retries = 0 /\ restarts = 0 /\ faults = 0

(* Requests: EnqueueInSpace and EnqueueChange, EnqueueScheduled.           *)

Create(r) ==
  /\ Up /\ scan[r] = "absent" /\ \A q \in Row : q < r => scan[q] # "absent"
  /\ scan' = [scan EXCEPT ![r] = "pending"]
  /\ enq' = [enq EXCEPT ![r] = "sync"]
  /\ UNCHANGED <<mirror, target, signal, can, ret, pc, cur, read, boundVars>>

Enqueue(r) == Create(r) /\ UNCHANGED sched

EnqueueSync(r) ==
  /\ enq[r] = "sync" /\ SyncTask(r, "pending")
  /\ enq' = [enq EXCEPT ![r] = "wake"]
  /\ UNCHANGED <<scan, target, signal, can, ret, sched, pc, cur, read, retries, restarts>>

EnqueueWake(r) ==
  /\ enq[r] = "wake" /\ RememberTarget(r) /\ Wakes
  /\ enq' = [enq EXCEPT ![r] = "idle"]
  /\ UNCHANGED <<scan, mirror, can, ret, sched, pc, cur, read, boundVars>>

\* hasActiveTask is a query of its own, before the row is created.
ScheduledCheck ==
  /\ Up /\ sched = "idle" /\ ~HasActiveTask /\ sched' = "checked"
  /\ UNCHANGED <<scan, mirror, target, signal, enq, can, ret, pc, cur, read, boundVars>>

ScheduledEnqueue(r) == sched = "checked" /\ Create(r) /\ sched' = "idle"

(* Requests: CancelTaskInSpace.                                            *)

CancelCommit(r) ==
  /\ Up /\ can[r] = "idle" /\ Cancelable(r)
  /\ scan' = [scan EXCEPT ![r] = "canceled"]
  /\ can' = [can EXCEPT ![r] = "forget"]
  /\ UNCHANGED <<mirror, target, signal, enq, ret, sched, pc, cur, read, boundVars>>

CancelForget(r) ==
  /\ can[r] = "forget" /\ target' = [target EXCEPT ![r] = FALSE]
  /\ can' = [can EXCEPT ![r] = "sync"]
  /\ UNCHANGED <<scan, mirror, signal, enq, ret, sched, pc, cur, read, boundVars>>

CancelSync(r) ==
  /\ can[r] = "sync" /\ SyncTask(r, "canceled")
  /\ can' = [can EXCEPT ![r] = "idle"]
  /\ UNCHANGED <<scan, target, signal, enq, ret, sched, pc, cur, read, retries, restarts>>

(* Requests: RetryTaskInSpace.                                             *)

RetryCommit(r) ==
  /\ Up /\ ret[r] = "idle" /\ Retriable(r) /\ retries < MaxRetries
  /\ scan' = [scan EXCEPT ![r] = "pending"]
  /\ ret' = [ret EXCEPT ![r] = "sync"] /\ retries' = retries + 1
  /\ UNCHANGED <<mirror, target, signal, enq, can, sched, pc, cur, read, restarts, faults>>

RetrySync(r) ==
  /\ ret[r] = "sync" /\ SyncTask(r, "pending")
  /\ ret' = [ret EXCEPT ![r] = "wake"]
  /\ UNCHANGED <<scan, target, signal, enq, can, sched, pc, cur, read, retries, restarts>>

\* Without a payload the directory is looked up; when that fails the request
\* returns the error, and neither the target nor the signal is set.
RetryWake(r) ==
  /\ ret[r] = "wake" /\ ret' = [ret EXCEPT ![r] = "idle"]
  /\ \/ RememberTarget(r) /\ Wakes
     \/ r \in Unpayloaded /\ UNCHANGED <<target, signal>>
  /\ UNCHANGED <<scan, mirror, enq, can, sched, pc, cur, read, boundVars>>

-----------------------------------------------------------------------------
(* The worker: loop, nextPending, runTask, markError.                      *)

\* nextPending: the oldest pending row becomes running.
NextPending(r) ==
  /\ pc = "look" /\ Oldest(r)
  /\ scan' = [scan EXCEPT ![r] = "running"]
  /\ pc' = "syncStart" /\ cur' = r /\ read' = "running"
  /\ UNCHANGED <<mirror, target, signal, reqVars, boundVars>>

\* A failed query looks like an empty queue.
NothingPending ==
  /\ pc = "look" /\ pc' = "empty"
  /\ \/ ~(\E r \in Row : scan[r] = "pending") /\ UNCHANGED faults
     \/ faults < MaxFaults /\ faults' = faults + 1
  /\ UNCHANGED <<scan, mirror, target, signal, reqVars, cur, read, retries, restarts>>

\* Between that query and the receive on the channel other steps come in.
Block ==
  /\ pc = "empty" /\ pc' = "wait"
  /\ UNCHANGED <<scan, mirror, target, signal, reqVars, cur, read, boundVars>>

WaitSignal ==
  /\ pc = "wait" /\ signal
  /\ signal' = FALSE /\ pc' = "look"
  /\ UNCHANGED <<scan, mirror, target, reqVars, cur, read, boundVars>>

SyncStart ==
  /\ pc = "syncStart" /\ SyncTask(cur, read) /\ pc' = "take"
  /\ UNCHANGED <<scan, target, signal, reqVars, cur, read, retries, restarts>>

\* markError.  (The variant leaves the row to a later turn.)
MarkError_Later(r) == scan' = [scan EXCEPT ![r] = "pending"]
MarkError(r) == scan' = [scan EXCEPT ![r] = "error"]

\* takeTarget, else the payload, else markError, which ignores that its write failed.
TakeTarget ==
  /\ pc = "take"
  /\ target' = [target EXCEPT ![cur] = FALSE]
  /\ \/ /\ target[cur] \/ cur \notin Unpayloaded
        /\ pc' = "exec" /\ UNCHANGED <<scan, faults>>
     \/ /\ ~target[cur] /\ cur \in Unpayloaded
        /\ pc' = "reread"
        /\ \/ MarkError(cur) /\ UNCHANGED faults
           \/ faults < MaxFaults /\ faults' = faults + 1 /\ UNCHANGED scan
  /\ UNCHANGED <<mirror, signal, reqVars, cur, read, retries, restarts>>

\* markError reads the row again to mirror it.
MarkErrorReads ==
  /\ pc = "reread" /\ read' = scan[cur] /\ pc' = "syncEnd"
  /\ UNCHANGED <<scan, mirror, target, signal, reqVars, cur, boundVars>>

\* The scan ends and its final status is written, by id alone.
ScanEnds(s) ==
  /\ pc = "exec" /\ s \in {"completed", "error"}
  /\ scan' = [scan EXCEPT ![cur] = s] /\ read' = s /\ pc' = "syncEnd"
  /\ UNCHANGED <<mirror, target, signal, reqVars, cur, boundVars>>

\* That write fails: after a failed scan the mirror is still updated, after a
\* successful one it is not.
FinalWriteFails(s) ==
  /\ pc = "exec" /\ faults < MaxFaults /\ faults' = faults + 1
  /\ IF s = "error" THEN pc' = "syncEnd" /\ read' = s /\ UNCHANGED cur
                    ELSE pc' = "look" /\ cur' = NoRow /\ UNCHANGED read
  /\ UNCHANGED <<scan, mirror, target, signal, reqVars, retries, restarts>>

SyncEnd ==
  /\ pc = "syncEnd" /\ SyncTask(cur, read) /\ pc' = "look" /\ cur' = NoRow
  /\ UNCHANGED <<scan, target, signal, reqVars, read, retries, restarts>>

-----------------------------------------------------------------------------
(* Start-up and crash.                                                     *)

\* tasks.RecoverRunning, then the first statements of TaskQueue.RecoverRunning;
\* `cur` is the list `stale` meanwhile.  What fails is logged, and the program goes on.
RecoverRows ==
  /\ pc = "down" /\ pc' = "recovering"
  /\ \E failed \in SUBSET {"tasks", "scan_tasks"} :
       /\ mirror' = IF "tasks" \in failed THEN mirror
                    ELSE [r \in Row |-> IF mirror[r] = "running" THEN "pending" ELSE mirror[r]]
       /\ cur' = IF "scan_tasks" \in failed THEN {} ELSE Stale
       /\ \/ failed = {} /\ UNCHANGED faults
          \/ failed # {} /\ faults < MaxFaults /\ faults' = faults + 1
  /\ scan' = [r \in Row |-> IF r \in cur' THEN "pending" ELSE scan[r]]
  /\ UNCHANGED <<target, signal, reqVars, read, retries, restarts>>

\* The rest of RecoverRunning, and Start.  A stale row without a payload whose
\* directory cannot be found is marked as error; each write may fail.
RecoverTargets ==
  /\ pc = "recovering" /\ pc' = "look" /\ cur' = NoRow /\ signal' = TRUE
  /\ \E lost \in SUBSET (cur \cap Unpayloaded) : \E marked \in SUBSET lost, synced \in SUBSET cur :
       /\ target' = [r \in Row |-> r \in cur \ lost]
       /\ scan' = [r \in Row |-> IF r \in marked THEN "error" ELSE scan[r]]
       /\ mirror' = [r \in Row |-> CASE r \in synced \cap marked -> "failed"
                                     [] r \in synced \ marked -> "pending"
                                     [] OTHER -> mirror[r]]
       /\ \/ marked = lost /\ synced = cur /\ UNCHANGED faults
          \/ faults < MaxFaults /\ faults' = faults + 1
  /\ UNCHANGED <<reqVars, read, retries, restarts>>

Crash ==
  /\ pc # "down" /\ restarts < MaxRestarts /\ restarts' = restarts + 1
  /\ pc' = "down" /\ cur' = NoRow /\ read' = "absent" /\ signal' = FALSE
  /\ target' = [r \in Row |-> FALSE]
  /\ enq' = [r \in Row |-> "idle"] /\ can' = enq' /\ ret' = enq' /\ sched' = "idle"
  /\ UNCHANGED <<scan, mirror, retries, faults>>

-----------------------------------------------------------------------------

Request(r) ==
  \/ EnqueueSync(r) \/ EnqueueWake(r) \/ CancelForget(r) \/ CancelSync(r)
  \/ RetrySync(r) \/ RetryWake(r)

WorkerStep ==
  \/ \E r \in Row : NextPending(r)
  \/ NothingPending \/ Block \/ WaitSignal \/ SyncStart \/ TakeTarget \/ MarkErrorReads
  \/ \E s \in {"completed", "error"} : ScanEnds(s) \/ FinalWriteFails(s)
  \/ SyncEnd

Boot == RecoverRows \/ RecoverTargets

Next ==
  \/ \E r \in Row : Enqueue(r) \/ ScheduledEnqueue(r) \/ CancelCommit(r) \/ RetryCommit(r)
                    \/ Request(r)
  \/ ScheduledCheck \/ WorkerStep \/ Boot \/ Crash

Spec == Init /\ [][Next]_vars

\* Scans end, requests that were begun go on, the program comes up.
FairSpec ==
  /\ Spec /\ WF_vars(WorkerStep) /\ WF_vars(Boot)
  /\ \A r \in Row : WF_vars(Request(r))

-----------------------------------------------------------------------------

\* Every variable keeps its type: no status other than the declared ones is stored
\* or mirrored.
TypeOK ==
  /\ scan \in [Row -> {"absent"} \cup Active \cup Finished]
  /\ mirror \in [Row -> {"absent", "succeeded", "failed", "canceled"} \cup Active]
  /\ target \in [Row -> BOOLEAN] /\ signal \in BOOLEAN
  /\ enq \in [Row -> {"idle", "sync", "wake"}] /\ ret \in [Row -> {"idle", "sync", "wake"}]
  /\ can \in [Row -> {"idle", "forget", "sync"}] /\ sched \in {"idle", "checked"}
  /\ pc \in {"down", "recovering", "look", "empty", "wait", "syncStart", "take", "exec", "reread",
             "syncEnd"}
  /\ IF pc = "recovering" THEN cur \in SUBSET Row ELSE cur \in Row \cup {NoRow}
  /\ read \in {"absent"} \cup Active \cup Finished
  /\ retries \in 0..MaxRetries /\ restarts \in 0..MaxRestarts /\ faults \in 0..MaxFaults

\* No wake-up is lost: while the worker sleeps on the channel, there is a signal in
\* the channel for a pending row, or the request that made the row pending is
\* still to send one, however many requests found the channel full.
NoLostWakeup ==
  pc = "wait" /\ faults = 0 =>
    \A r \in Row \ Unpayloaded :
      scan[r] = "pending" => signal \/ enq[r] # "idle" \/ ret[r] # "idle"

\* Scans are serial and accounted for: unless a final write failed, a running
\* row is the one the worker holds, also after any number of restarts.
RunningIsHeld ==
  Up /\ faults = 0 => \A r \in Row : scan[r] = "running" => cur = r

\* A canceled row is out of the worker's hands: only a retry brings it back.
CanceledUntilRetried ==
  [][\A r \in Row : scan[r] = "canceled" /\ scan'[r] # "canceled" =>
       scan'[r] = "pending" /\ ret'[r] = "sync"]_vars

\* The mirror never runs ahead of the row: it says succeeded only for a scan
\* whose completion is in scan_tasks.
MirrorNeverInvents ==
  \A r \in Row : mirror[r] = "succeeded" => scan[r] = "completed"

\* Every pending scan is finished or canceled in the end, across restarts.
PendingIsScanned ==
  \A r \in Row \ Unpayloaded :
    scan[r] = "pending" ~> (scan[r] \in Finished \/ faults > 0)

-----------------------------------------------------------------------------
(* What the repository says of the queue and the code does not do.         *)

\* "The lifecycle of the old queue is synchronised into tasks": with nothing in
\* flight and the queue empty, the mirror shows each row's status.
MirrorAgreesAtRest ==
  /\ faults = 0 /\ restarts = 0
  /\ pc = "wait" /\ ~signal /\ ~HasActiveTask
  /\ \A r \in Row : enq[r] = "idle" /\ can[r] = "idle" /\ ret[r] = "idle"
  => \A r \in Row : mirror[r] = Normal(scan[r])
=============================================================================
