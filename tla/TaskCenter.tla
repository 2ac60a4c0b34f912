----------------------------- MODULE TaskCenter -----------------------------
(***************************************************************************)
(* The general task queue of the server: internal/tasks/service.go (the    *)
(* rows of table tasks and the in-memory Service) and the part of          *)
(* internal/tasks/worker.go that runs one claimed task.                    *)
(*                                                                         *)
(* Granularity.  Every SQLite transaction is one step: in WAL mode a       *)
(* transaction that reads and then writes is serializable (the write fails *)
(* with BUSY_SNAPSHOT and is retried when its snapshot is stale).  A       *)
(* handler that reads OUTSIDE the transaction it writes in takes a step    *)
(* per statement: Cancel and MarkFailed do.  Service.mu is held from the   *)
(* first read of Cancel until the cancellation is signalled; `cx` is that  *)
(* critical section and everything that takes mu waits for it to be idle.  *)
(*                                                                         *)
(* Which pending task ClaimNext prefers is the subject of ClaimFairness;   *)
(* here any due pending row may be claimed.  Pools of workers, Wake and    *)
(* the polling loop are the subject of TaskPools.                          *)
(***************************************************************************)
EXTENDS Integers, FiniteSets

CONSTANTS Task,         \* ids of rows in table tasks
          Worker,       \* worker goroutines of the registry
          Key,          \* idempotency keys
          NoKey,        \* the empty idempotency key
          NoTask, NoWorker,
          MaxLimit,     \* largest max_attempts a caller asks for
          MaxRetries,   \* bound: manual retries of one task
          MaxRestarts,  \* bound: restarts of the server
          MaxFaults     \* bound: failed database operations

ASSUME TaskCenterAssumption ==
  /\ MaxLimit \in Nat \ {0} /\ MaxRetries \in Nat
  /\ MaxRestarts \in Nat /\ MaxFaults \in Nat
  /\ NoTask \notin Task /\ NoWorker \notin Worker /\ NoKey \notin Key

VARIABLES
  status, attempts, limit, due, key, checkpoint,   \* columns of table tasks
  bind,                                            \* Service.runningCancels
  cx,                                              \* the Cancel holding Service.mu
  pc, job, cancelled, seen,                        \* each worker goroutine
  gen, wgen, fin, overlap,                         \* history
  restarts, faults                                 \* bounds

rowVars  == <<status, attempts, limit, due, key, checkpoint>>
workVars == <<pc, job, cancelled, seen>>
histVars == <<gen, wgen, fin, overlap>>
vars     == <<rowVars, bind, cx, workVars, histVars, restarts, faults>>

-----------------------------------------------------------------------------

Status     == {"absent", "pending", "running", "succeeded", "failed", "canceled"}
Unfinished == {"pending", "running"}
Stopped    == {"failed", "canceled"}

\* Places in workerLoop and finishTask.  "out" is a goroutine that has returned.
PC == {"out", "idle", "claimed", "bound", "handler", "succeeding", "failing",
       "failRead", "failWrite", "recheck", "unbind", "unbindErr"}

\* w still has the power to change the row of its task: it has not ended the
\* execution, and the context it was given is live or no longer consulted.
Effective(w) == \/ pc[w] \in {"claimed", "succeeding", "failing", "failRead", "failWrite"}
                \/ pc[w] \in {"bound", "handler"} /\ ~cancelled[w]

Executors(t) == {w \in Worker : job[w] = t /\ Effective(w)}

MuFree == cx.at = "idle"

\* idx_tasks_idempotency_active: no other unfinished row has t's key.
KeyFree_PendingOnly(t, k) ==
  k = NoKey \/ \A u \in Task \ {t} : ~(key[u] = k /\ status[u] = "pending")
KeyFree(t, k) ==
  k = NoKey \/ \A u \in Task \ {t} : ~(key[u] = k /\ status[u] \in Unfinished)

-----------------------------------------------------------------------------
(* The conditions the code tests.  The definition Name_Variant before one  *)
(* is a plausible mistake in it, which a property below must notice.       *)

\* ClaimNext: WHERE status = 'pending' AND (next_run_at IS NULL OR due).
Claimable_AnyUnfinished(t) == status[t] \in Unfinished /\ due[t]
Claimable(t) == status[t] = "pending" /\ due[t]

\* Cancel refuses a row that has ended.
Cancelable_Ended(t) == status[t] # "absent"
Cancelable(t) == status[t] \in Unfinished

\* MarkSucceeded and MarkFailed: WHERE id = ? AND status = 'running'.
StillRunning_NotAsked(w) == TRUE
StillRunning(w) == status[job[w]] = "running"

\* MarkFailed: attempts < task.MaxAttempts.
AttemptsLeft_OneMore(n, t) == n <= limit[t]
AttemptsLeft(n, t) == n < limit[t]

\* finishTask: taskCtx.Err() # nil.
ResultDropped_Never(w) == FALSE
ResultDropped(w) == cancelled[w]

\* bindCancellation: the entry still carries the token of this execution.
OwnEntry_AnyToken(w) == TRUE
OwnEntry(w) == bind[job[w]] = w

\* Retry: the attempts a row starts over with.
AttemptsAfterRetry_Kept(t) == attempts[t]
AttemptsAfterRetry(t) == 0

\* RecoverRunning: WHERE status = 'running'.
Recovered_None(t) == FALSE
Recovered(t) == status[t] = "running"

-----------------------------------------------------------------------------

Init ==
  /\ status = [t \in Task |-> "absent"] /\ attempts = [t \in Task |-> 0]
  /\ limit = [t \in Task |-> 1] /\ due = [t \in Task |-> TRUE]
  /\ key = [t \in Task |-> NoKey] /\ checkpoint = [t \in Task |-> 0]
  /\ bind = [t \in Task |-> NoWorker] /\ cx = [at |-> "idle", task |-> NoTask]
  /\ pc = [w \in Worker |-> "out"] /\ job = [w \in Worker |-> NoTask]
  /\ cancelled = [w \in Worker |-> FALSE] /\ seen = [w \in Worker |-> 0]
  /\ gen = [t \in Task |-> 0] /\ wgen = [w \in Worker |-> 0]
  /\ fin = [t \in Task |-> 0] /\ overlap = [t \in Task |-> FALSE]
  /\ restarts = 0 /\ faults = 0

\* Enqueue and EnqueueTx.  With an unfinished row of the same key the existing
\* row is returned and nothing changes; otherwise a pending row is created.
\* A max_attempts below 1 becomes 1.
Enqueue(t, k, asked) ==
  /\ MuFree /\ status[t] = "absent" /\ KeyFree(t, k)
  /\ status' = [status EXCEPT ![t] = "pending"]
  /\ limit'  = [limit EXCEPT ![t] = IF asked <= 0 THEN 1 ELSE asked]
  /\ key'    = [key EXCEPT ![t] = k]
  /\ gen'    = [gen EXCEPT ![t] = 1]
  /\ UNCHANGED <<attempts, due, checkpoint, bind, cx, workVars, wgen, fin, overlap,
                 restarts, faults>>

\* The backoff written in next_run_at elapses.
BackoffElapses(t) ==
  /\ status[t] = "pending" /\ ~due[t]
  /\ due' = [due EXCEPT ![t] = TRUE]
  /\ UNCHANGED <<status, attempts, limit, key, checkpoint, bind, cx, workVars, histVars,
                 restarts, faults>>

\* Cancel, first half: take mu and read the row.  Rows that are not pending or
\* running are refused and mu is released, which changes nothing.
CancelRead(t) ==
  /\ MuFree /\ Cancelable(t)
  /\ cx' = [at |-> "read", task |-> t]
  /\ UNCHANGED <<rowVars, bind, workVars, histVars, restarts, faults>>

\* Cancel, second half: the UPDATE names the row by id alone.
CancelCommit ==
  /\ cx.at = "read"
  /\ status' = [status EXCEPT ![cx.task] = "canceled"]
  /\ cx' = [cx EXCEPT !.at = "committed"]
  /\ UNCHANGED <<attempts, limit, due, key, checkpoint, bind, workVars, histVars,
                 restarts, faults>>

\* signalCancellation, then mu is released.
CancelSignal ==
  /\ cx.at = "committed"
  /\ cancelled' = [w \in Worker |-> cancelled[w] \/ bind[cx.task] = w]
  /\ cx' = [at |-> "idle", task |-> NoTask]
  /\ UNCHANGED <<rowVars, bind, pc, job, seen, histVars, restarts, faults>>

\* The transaction of Cancel fails (or its audit event does): nothing is
\* written, nothing is signalled.
CancelFails ==
  /\ cx.at = "read" /\ faults < MaxFaults
  /\ cx' = [at |-> "idle", task |-> NoTask]
  /\ faults' = faults + 1
  /\ UNCHANGED <<rowVars, bind, workVars, histVars, restarts>>

\* Retry: a failed or canceled row starts over, unless the index on unfinished
\* idempotency keys rejects the UPDATE.
Retry(t) ==
  /\ MuFree /\ status[t] \in {"failed", "canceled"} /\ gen[t] <= MaxRetries
  /\ KeyFree(t, key[t])
  /\ status' = [status EXCEPT ![t] = "pending"]
  /\ attempts' = [attempts EXCEPT ![t] = AttemptsAfterRetry(t)]
  /\ checkpoint' = [checkpoint EXCEPT ![t] = 0]
  /\ due' = [due EXCEPT ![t] = TRUE]
  /\ gen' = [gen EXCEPT ![t] = @ + 1]
  /\ overlap' = [overlap EXCEPT ![t] = @ \/ Executors(t) # {}]
  /\ UNCHANGED <<limit, key, bind, cx, workVars, wgen, fin, restarts, faults>>

-----------------------------------------------------------------------------
(* One worker goroutine: workerLoop, finishTask, finishFailedTask.         *)

Goto(w, place) == pc' = [pc EXCEPT ![w] = place]

\* A registry pass starts the goroutine.
StartWorker(w) ==
  /\ pc[w] = "out"
  /\ Goto(w, "idle")
  /\ UNCHANGED <<rowVars, bind, cx, job, cancelled, seen, histVars, restarts, faults>>

\* ClaimNext found no pending row for this worker (ErrNoPendingTask).
WorkerLeaves(w) ==
  /\ MuFree /\ pc[w] = "idle"
  /\ Goto(w, "out")
  /\ UNCHANGED <<rowVars, bind, cx, job, cancelled, seen, histVars, restarts, faults>>

\* ClaimNext: select under mu and mark the row running.
Claim(w, t) ==
  /\ MuFree /\ pc[w] = "idle" /\ Claimable(t)
  /\ status' = [status EXCEPT ![t] = "running"]
  /\ Goto(w, "claimed")
  /\ job' = [job EXCEPT ![w] = t]
  /\ cancelled' = [cancelled EXCEPT ![w] = FALSE]
  /\ wgen' = [wgen EXCEPT ![w] = gen[t]]
  /\ UNCHANGED <<attempts, limit, due, key, checkpoint, bind, cx, seen, gen, fin, overlap,
                 restarts, faults>>

\* bindCancellation replaces whatever the map holds for the task.
Bind(w) ==
  /\ pc[w] = "claimed"
  /\ bind' = [bind EXCEPT ![job[w]] = w]
  /\ Goto(w, "bound")
  /\ UNCHANGED <<rowVars, cx, job, cancelled, seen, histVars, restarts, faults>>

\* isCanceled, before the handler is called.
CheckCanceled(w) ==
  /\ pc[w] = "bound"
  /\ Goto(w, IF status[job[w]] = "canceled" THEN "unbind" ELSE "handler")
  /\ UNCHANGED <<rowVars, bind, cx, job, cancelled, seen, histVars, restarts, faults>>

\* UpdateProgress from the handler; the database refuses a cancelled context.
\* The checkpoint is abstracted to the run (see gen) that wrote it.
UpdateProgress(w) ==
  /\ pc[w] = "handler" /\ ~cancelled[w] /\ status[job[w]] = "running"
  /\ checkpoint' = [checkpoint EXCEPT ![job[w]] = wgen[w]]
  /\ UNCHANGED <<status, attempts, limit, due, key, bind, cx, workVars, histVars,
                 restarts, faults>>

\* The handler returns; with a cancelled context the result is dropped.
HandlerReturns(w) ==
  /\ pc[w] = "handler"
  /\ IF ResultDropped(w) THEN Goto(w, "unbind")
                     ELSE \E next \in {"succeeding", "failing"} : Goto(w, next)
  /\ UNCHANGED <<rowVars, bind, cx, job, cancelled, seen, histVars, restarts, faults>>

\* MarkSucceeded: the guard on status is read again inside the UPDATE.
MarkSucceeded(w) ==
  /\ pc[w] = "succeeding"
  /\ LET t == job[w] IN
     IF StillRunning(w)
     THEN /\ status' = [status EXCEPT ![t] = "succeeded"]
          /\ fin' = [fin EXCEPT ![t] = wgen[w]]
          /\ Goto(w, "unbind")
     ELSE Goto(w, "recheck") /\ UNCHANGED <<status, fin>>
  /\ UNCHANGED <<attempts, limit, due, key, checkpoint, bind, cx, job, cancelled, seen,
                 gen, wgen, overlap, restarts, faults>>

\* isCanceled, at the head of finishFailedTask.
CheckBeforeFail(w) ==
  /\ pc[w] = "failing"
  /\ Goto(w, IF status[job[w]] = "canceled" THEN "unbind" ELSE "failRead")
  /\ UNCHANGED <<rowVars, bind, cx, job, cancelled, seen, histVars, restarts, faults>>

\* MarkFailed, first half: read the row, remember its attempts.
MarkFailedRead(w) ==
  /\ pc[w] = "failRead"
  /\ IF StillRunning(w)
     THEN Goto(w, "failWrite") /\ seen' = [seen EXCEPT ![w] = attempts[job[w]]]
     ELSE Goto(w, "recheck") /\ UNCHANGED seen
  /\ UNCHANGED <<rowVars, bind, cx, job, cancelled, histVars, restarts, faults>>

\* MarkFailed, second half: the UPDATE is guarded by the status only and writes
\* the attempts computed from the first read.
MarkFailedWrite(w) ==
  /\ pc[w] = "failWrite"
  /\ LET t == job[w]  n == seen[w] + 1 IN
     IF StillRunning(w)
     THEN /\ attempts' = [attempts EXCEPT ![t] = n]
          /\ IF AttemptsLeft(n, t)
             THEN /\ status' = [status EXCEPT ![t] = "pending"]
                  /\ due' = [due EXCEPT ![t] = FALSE]
                  /\ UNCHANGED fin
             ELSE /\ status' = [status EXCEPT ![t] = "failed"]
                  /\ fin' = [fin EXCEPT ![t] = wgen[w]]
                  /\ UNCHANGED due
          /\ Goto(w, "unbind")
     ELSE Goto(w, "recheck") /\ UNCHANGED <<status, attempts, due, fin>>
  /\ UNCHANGED <<limit, key, checkpoint, bind, cx, job, cancelled, seen, gen, wgen, overlap,
                 restarts, faults>>

\* isCanceled, after MarkSucceeded or MarkFailed returned an error: nil for a
\* canceled task, otherwise the error ends the goroutine.
Recheck(w) ==
  /\ pc[w] = "recheck"
  /\ Goto(w, IF status[job[w]] = "canceled" THEN "unbind" ELSE "unbindErr")
  /\ UNCHANGED <<rowVars, bind, cx, job, cancelled, seen, histVars, restarts, faults>>

\* The deferred unbind, which leaves the entry of another execution alone, and
\* the next turn of workerLoop or its return with an error.
Unbind(w) ==
  /\ pc[w] \in {"unbind", "unbindErr"}
  /\ LET t == job[w] IN
     bind' = IF OwnEntry(w) THEN [bind EXCEPT ![t] = NoWorker] ELSE bind
  /\ Goto(w, IF pc[w] = "unbind" THEN "idle" ELSE "out")
  /\ job' = [job EXCEPT ![w] = NoTask]
  /\ cancelled' = [cancelled EXCEPT ![w] = FALSE]
  /\ seen' = [seen EXCEPT ![w] = 0]
  /\ wgen' = [wgen EXCEPT ![w] = 0]
  /\ UNCHANGED <<rowVars, cx, gen, fin, overlap, restarts, faults>>

\* A database operation of the worker fails: ClaimNext and isCanceled end the
\* goroutine; MarkSucceeded and MarkFailed go on to the recheck.
DatabaseFails(w) ==
  /\ faults < MaxFaults
  /\ \/ MuFree /\ pc[w] = "idle" /\ Goto(w, "out")
     \/ pc[w] \in {"bound", "failing", "recheck"} /\ Goto(w, "unbindErr")
     \/ pc[w] \in {"succeeding", "failRead", "failWrite"} /\ Goto(w, "recheck")
  /\ faults' = faults + 1
  /\ UNCHANGED <<rowVars, bind, cx, job, cancelled, seen, histVars, restarts>>

-----------------------------------------------------------------------------
(* The process stops at any point and starts again.                        *)

LoseMemory ==
  /\ bind' = [t \in Task |-> NoWorker] /\ cx' = [at |-> "idle", task |-> NoTask]
  /\ pc' = [w \in Worker |-> "out"] /\ job' = [w \in Worker |-> NoTask]
  /\ cancelled' = [w \in Worker |-> FALSE] /\ seen' = [w \in Worker |-> 0]
  /\ wgen' = [w \in Worker |-> 0]

\* RecoverRunning at start-up, before any worker runs.
Restart ==
  /\ restarts < MaxRestarts /\ restarts' = restarts + 1
  /\ LoseMemory
  /\ status' = [t \in Task |-> IF Recovered(t) THEN "pending" ELSE status[t]]
  /\ due' = [t \in Task |-> due[t] \/ Recovered(t)]
  /\ UNCHANGED <<attempts, limit, key, checkpoint, gen, fin, overlap, faults>>

\* RecoverRunning fails; main only logs the error and goes on.
RestartUnrecovered ==
  /\ restarts < MaxRestarts /\ restarts' = restarts + 1
  /\ faults < MaxFaults /\ faults' = faults + 1
  /\ LoseMemory
  /\ UNCHANGED <<rowVars, gen, fin, overlap>>

-----------------------------------------------------------------------------

WorkerStep(w) ==
  \/ Bind(w) \/ CheckCanceled(w) \/ HandlerReturns(w) \/ MarkSucceeded(w)
  \/ CheckBeforeFail(w) \/ MarkFailedRead(w) \/ MarkFailedWrite(w)
  \/ Recheck(w) \/ Unbind(w)

CancelStep == CancelCommit \/ CancelSignal

Enqueued(t) == \E k \in Key \cup {NoKey}, asked \in 0..MaxLimit : Enqueue(t, k, asked)

\* The steps TaskPools takes over unchanged.
Common ==
  \/ \E t \in Task : BackoffElapses(t) \/ CancelRead(t)
  \/ CancelStep \/ CancelFails
  \/ \E w \in Worker : WorkerStep(w) \/ UpdateProgress(w) \/ DatabaseFails(w)

Next ==
  \/ Common
  \/ \E t \in Task : Enqueued(t) \/ Retry(t)
  \/ \E w \in Worker : StartWorker(w) \/ WorkerLeaves(w)
  \/ \E w \in Worker, t \in Task : Claim(w, t)
  \/ Restart \/ RestartUnrecovered

Spec == Init /\ [][Next]_vars

-----------------------------------------------------------------------------
(* Properties.                                                             *)

\* Every variable keeps its type.
TypeOK ==
  /\ status \in [Task -> Status] /\ attempts \in [Task -> 0..MaxLimit]
  /\ limit \in [Task -> 1..MaxLimit] /\ due \in [Task -> BOOLEAN]
  /\ key \in [Task -> Key \cup {NoKey}]
  /\ checkpoint \in [Task -> 0..(MaxRetries + 1)]
  /\ bind \in [Task -> Worker \cup {NoWorker}]
  /\ cx \in [at : {"idle", "read", "committed"}, task : Task \cup {NoTask}]
  /\ pc \in [Worker -> PC] /\ job \in [Worker -> Task \cup {NoTask}]
  /\ cancelled \in [Worker -> BOOLEAN] /\ seen \in [Worker -> 0..MaxLimit]
  /\ gen \in [Task -> 0..(MaxRetries + 1)] /\ wgen \in [Worker -> 0..(MaxRetries + 1)]
  /\ fin \in [Task -> 0..(MaxRetries + 1)] /\ overlap \in [Task -> BOOLEAN]
  /\ restarts \in 0..MaxRestarts /\ faults \in 0..MaxFaults

\* A task that was never retried while an execution of it could still write has
\* at most one such execution, and none while its row waits to be claimed: the
\* claim, the failure requeue, the restart recovery and the cancellation keep
\* executions of one row apart.
ExclusiveExecution ==
  \A t \in Task : ~overlap[t] =>
    /\ \A v, w \in Executors(t) : v = w
    /\ status[t] = "pending" => Executors(t) = {}

\* The automatic retries of MarkFailed use up exactly the attempts allowed: a
\* failed row has none left, an unfinished one has, although attempts is
\* computed from a row read before the write.
AttemptsBudget ==
  \A t \in Task : /\ status[t] = "failed" => attempts[t] = limit[t]
                  /\ status[t] \in Unfinished => attempts[t] < limit[t]

\* No two unfinished rows share an idempotency key, whoever created or retried
\* them.
UniqueUnfinishedKey ==
  \A t, u \in Task :
    t # u /\ {status[t], status[u]} \subseteq Unfinished /\ key[t] = key[u]
      => key[t] = NoKey

\* A cancellation is never missed: once Cancel has returned, a handler that
\* still runs for the canceled task has a cancelled context, whether the cancel
\* came before or after the worker bound its cancel function.
CancelReachesHandler ==
  \A t \in Task, w \in Worker :
    /\ ~overlap[t] /\ status[t] = "canceled"
    /\ job[w] = t /\ pc[w] = "handler"
    => cancelled[w] \/ cx = [at |-> "committed", task |-> t]

\* As long as no database operation failed, a running row has an execution that
\* will end it: no row is left running with nobody working on it.
RunningHasExecutor ==
  faults = 0 => \A t \in Task : status[t] = "running" => Executors(t) # {}

\* The outcome and the checkpoint a row shows belong to its current run (the
\* retry that opened it), not to an execution of an earlier run.
ResultOfCurrentRun ==
  \A t \in Task : ~overlap[t] =>
    /\ status[t] \in {"succeeded", "failed"} => fin[t] = gen[t]
    /\ checkpoint[t] \in {0, gen[t]}

\* What a worker or a restart writes never undoes a cancellation or a failure:
\* a stopped row becomes unfinished again only by a manual retry, which starts
\* its attempts afresh, and it never becomes succeeded.
StoppedUntilRetried ==
  [][\A t \in Task : status[t] \in Stopped /\ status'[t] \notin Stopped =>
       status'[t] = "pending" /\ gen'[t] = gen[t] + 1 /\ attempts'[t] = 0]_vars

\* The execution that can write the row; of a row retried under one, nobody.
Owner(t) == IF overlap[t] THEN {} ELSE Executors(t)

Asked == IF cx.at = "read" THEN cx.task ELSE NoTask

Ledger == INSTANCE TaskLedger WITH
  state <- status, run <- gen, spent <- attempts, allowed <- limit,
  owner <- [t \in Task |-> Owner(t)], outcome <- fin, overtaken <- overlap,
  asked <- Asked, mishaps <- faults

\* Goroutines, cancel functions and statements together keep the ledger that
\* TaskLedger describes: each attempt is settled once, by the execution that has
\* the row and for its run, a cancel takes effect on a row that was unfinished when
\* it was asked for (service.go:463 reads it before the transaction), whatever
\* became of it since, and nothing but a failed operation leaves a row running.
IsLedger == Ledger!Spec

-----------------------------------------------------------------------------
(* What the repository says of the queue and the code does not do.         *)

\* "An old execution must not write the final status of a new execution".
OldRunNeverEndsNewRun ==
  \A t \in Task : status[t] \in {"succeeded", "failed"} => fin[t] = gen[t]
=============================================================================
