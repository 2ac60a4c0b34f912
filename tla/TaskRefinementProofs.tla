------------------------ MODULE TaskRefinementProofs ------------------------
(***************************************************************************)
(* What implements what in the task center.  The registry with its passes  *)
(* and wake-ups implements the queue: every behaviour of TaskPools is one  *)
(* of TaskCenter, so what is proved of the queue holds however passes      *)
(* overlap and signals coalesce.  The queue in turn keeps the ledger that  *)
(* TaskLedger describes.                                                   *)
(***************************************************************************)
EXTENDS TaskPools, TaskCenterProofs

-----------------------------------------------------------------------------
(* The registry implements the queue.                                      *)

\* A step of the registry is a step of the queue or leaves it alone.
LEMMA PoolStep == [PoolNext]_allVars => [Next]_vars
<1> SUFFICES ASSUME [PoolNext]_allVars PROVE [Next]_vars
  OBVIOUS
<1>1. CASE Common /\ UNCHANGED poolVars
  BY <1>1 DEF Next
<1>2. ASSUME NEW t \in Task, Create(t) PROVE Next
  BY <1>2 DEF Create, Next
<1>3. ASSUME NEW t \in Task, Wake(t) PROVE UNCHANGED vars
  BY <1>3 DEF Wake
<1>4. CASE WakeRound
  BY <1>4 DEF WakeRound
<1>5. ASSUME NEW p \in Pass, StartPass(p) \/ EndPass(p) PROVE UNCHANGED vars
  BY <1>5 DEF StartPass, EndPass
<1>6. ASSUME NEW w \in Worker, Launch(w) \/ Leave(w) PROVE Next
  BY <1>6 DEF Launch, Leave, Next
<1>7. ASSUME NEW w \in Worker, NEW t \in Task, ClaimOwnType(w, t) PROVE Next
  BY <1>7 DEF ClaimOwnType, Next
<1>8. CASE PoolRestart
  BY <1>8 DEF PoolRestart, Next
<1>9. CASE UNCHANGED allVars
  BY <1>9 DEF allVars
<1> QED
  BY <1>1, <1>2, <1>3, <1>4, <1>5, <1>6, <1>7, <1>8, <1>9 DEF PoolNext

\* The registry implements the queue.
THEOREM PoolsImplementQueue == PoolSpec => Spec
<1>1. PoolInit => Init
  BY DEF PoolInit
<1> QED  BY <1>1, PoolStep, PTL DEF PoolSpec, Spec

\* Overlapping pools never have two executions of a row that could both write
\* it, although TypeLimit does not hold: a goroutine too many per type is still
\* never a second execution of one row.
THEOREM PoolsKeepExecutionsExclusive == PoolSpec => []ExclusiveExecution
  BY PoolsImplementQueue, ExecutionsAreExclusive, PTL

-----------------------------------------------------------------------------
(* The queue keeps the ledger.                                             *)

\* What the ledger says of runs and attempts, where the queue holds them: a row
\* has a run, an execution is of a run of its row, and unless a retry overtook it
\* MarkFailed writes on top of the attempts it has read.
LedgerFits ==
  /\ \A t \in Task : status[t] # "absent" => gen[t] >= 1
  /\ \A w \in Worker : pc[w] \notin {"out", "idle"} => wgen[w] \in 1..gen[job[w]]
  /\ \A w \in Worker : pc[w] = "failWrite" /\ ~overlap[job[w]] => seen[w] = attempts[job[w]]

\* The initial state has neither runs nor executions.
LEMMA LedgerFitsInit == Init => LedgerFits
  BY DEF Init, LedgerFits

\* Every step keeps it: only Retry begins a run of a row that has executions, and
\* only the execution that MarkFailed is in counts an attempt.
LEMMA LedgerFitsStep == TypeOK /\ Shape /\ Exclusive /\ LedgerFits /\ [Next]_vars => LedgerFits'
<1> SUFFICES ASSUME TypeOK, Shape, Exclusive, LedgerFits, [Next]_vars PROVE LedgerFits'
  OBVIOUS
<1> USE TaskCenterAssumption
<1> USE DEF TypeOK, Status, LedgerFits, Shape, WorkerShape
<1> USE DEF rowVars, workVars, histVars
<1>1. ASSUME NEW t \in Task, Enqueued(t) PROVE LedgerFits'
  BY <1>1 DEF Enqueued, Enqueue
<1>2. ASSUME NEW t \in Task, BackoffElapses(t) \/ CancelRead(t) PROVE LedgerFits'
  BY <1>2 DEF BackoffElapses, CancelRead
<1>3. CASE CancelCommit
  BY <1>3 DEF CancelCommit, MuShape
<1>4. CASE CancelSignal \/ CancelFails
  BY <1>4 DEF CancelSignal, CancelFails
<1>5. ASSUME NEW t \in Task, Retry(t) PROVE LedgerFits'
  <2>1. /\ gen' = [gen EXCEPT ![t] = @ + 1] /\ status' = [status EXCEPT ![t] = "pending"]
        /\ status[t] # "absent" /\ attempts' = [attempts EXCEPT ![t] = 0]
        /\ overlap' = [overlap EXCEPT ![t] = @ \/ Executors(t) # {}]
        /\ UNCHANGED <<pc, job, wgen, seen>>
    BY <1>5 DEF Retry, AttemptsAfterRetry
  <2>2. \A u \in Task : status'[u] # "absent" => gen'[u] >= 1
    BY <2>1
  <2>3. \A v \in Worker : pc'[v] \notin {"out", "idle"} => wgen'[v] \in 1..gen'[job'[v]]
    BY <2>1
  <2>4. ASSUME NEW v \in Worker, pc[v] = "failWrite", ~overlap'[job[v]]
        PROVE seen[v] = attempts'[job[v]]
    <3>1. job[v] \in Task /\ v \in Executors(job[v])
      BY <2>4 DEF Executors, Effective
    <3>2. job[v] # t
      BY <2>1, <2>4, <3>1, Zenon
    <3> QED  BY <2>1, <2>4, <3>1, <3>2
  <2> QED  BY <2>1, <2>2, <2>3, <2>4
<1>6. ASSUME NEW w \in Worker, StartWorker(w) \/ WorkerLeaves(w) PROVE LedgerFits'
  BY <1>6 DEF StartWorker, WorkerLeaves, Goto
<1>7. ASSUME NEW w \in Worker, NEW t \in Task, Claim(w, t) PROVE LedgerFits'
  BY <1>7 DEF Claim, Goto, Claimable
<1>8. ASSUME NEW w \in Worker, Bind(w) \/ CheckCanceled(w) \/ CheckBeforeFail(w) \/ Recheck(w)
      PROVE LedgerFits'
  BY <1>8 DEF Bind, CheckCanceled, CheckBeforeFail, Recheck, Goto
<1>9. ASSUME NEW w \in Worker, UpdateProgress(w) \/ HandlerReturns(w) PROVE LedgerFits'
  BY <1>9 DEF UpdateProgress, HandlerReturns, Goto
<1>10. ASSUME NEW w \in Worker, MarkSucceeded(w) PROVE LedgerFits'
  BY <1>10 DEF MarkSucceeded, Goto
<1>11. ASSUME NEW w \in Worker, MarkFailedRead(w) PROVE LedgerFits'
  BY <1>11 DEF MarkFailedRead, Goto
<1>12. ASSUME NEW w \in Worker, MarkFailedWrite(w) PROVE LedgerFits'
  <2>1. job[w] \in Task /\ pc[w] = "failWrite"
    BY <1>12 DEF MarkFailedWrite
  <2>2. /\ \E place \in {"unbind", "recheck"} : pc' = [pc EXCEPT ![w] = place]
        /\ \/ UNCHANGED <<status, attempts>>
           \/ /\ \E end \in {"pending", "failed"} : status' = [status EXCEPT ![job[w]] = end]
              /\ attempts' = [attempts EXCEPT ![job[w]] = seen[w] + 1]
              /\ status[job[w]] = "running"
        /\ UNCHANGED <<gen, wgen, job, overlap, seen>>
    BY <1>12 DEF MarkFailedWrite, Goto, StillRunning
  <2>3. \A t \in Task : status'[t] # "absent" => gen'[t] >= 1
    BY <2>1, <2>2
  <2>4. \A v \in Worker : pc'[v] \notin {"out", "idle"} => wgen'[v] \in 1..gen'[job'[v]]
    BY <2>1, <2>2
  <2>5. ASSUME NEW v \in Worker, pc'[v] = "failWrite", ~overlap[job[v]]
        PROVE seen[v] = attempts'[job[v]]
    <3>1. v # w /\ pc[v] = "failWrite" /\ job[v] \in Task
      BY <2>1, <2>2, <2>5
    <3>2. job[v] # job[w]
      BY <2>1, <2>5, <3>1 DEF Exclusive, Executors, Effective
    <3> QED  BY <2>1, <2>2, <2>5, <3>1, <3>2
  <2> QED  BY <2>2, <2>3, <2>4, <2>5
<1>13. ASSUME NEW w \in Worker, Unbind(w) PROVE LedgerFits'
  BY <1>13 DEF Unbind, Goto
<1>14. ASSUME NEW w \in Worker, DatabaseFails(w) PROVE LedgerFits'
  BY <1>14 DEF DatabaseFails, Goto
<1>15. CASE Restart \/ RestartUnrecovered
  BY <1>15 DEF Restart, RestartUnrecovered, LoseMemory, Recovered
<1>16. CASE UNCHANGED vars
  BY <1>16 DEF vars
<1> QED
  BY <1>1, <1>2, <1>3, <1>4, <1>5, <1>6, <1>7, <1>8, <1>9, <1>10, <1>11, <1>12, <1>13, <1>14,
     <1>15, <1>16
  DEF Next, Common, WorkerStep, CancelStep

\* Both invariants together.
LEMMA LedgerFitsAlways == Spec => [](IInv /\ LedgerFits)
<1>1. IInv /\ LedgerFits /\ [Next]_vars => LedgerFits'
  BY LedgerFitsStep DEF IInv
<1> QED  BY LedgerFitsInit, <1>1, Invariance, PTL DEF Spec

\* What the ledger shows apart from its owners.
Shown == <<status, gen, attempts, limit, fin, overlap, Asked>>

\* A step that takes nobody's row away is none of the ledger's.
LEMMA OwnersStay ==
  ASSUME \A t \in Task : Owner(t)' = Owner(t), UNCHANGED <<Shown, faults>>
  PROVE  UNCHANGED Ledger!vars
  BY DEF Ledger!vars, Shown

\* The worker whose step it is ends its execution of t, and t has no owner any more.
LEMMA OwnerEnds ==
  ASSUME NEW w \in Worker, NEW t \in Task, Exclusive, job[w] = t, Effective(w),
         ~(Effective(w)'), UNCHANGED <<job, overlap>>,
         \A v \in Worker \ {w} : pc'[v] = pc[v] /\ cancelled'[v] = cancelled[v]
  PROVE  /\ ~overlap[t] => Owner(t) = {w}
         /\ Ledger!Disowned(t)
<1>1. ASSUME NEW v \in Worker \ {w} PROVE Effective(v)' = Effective(v)
  BY <1>1 DEF Effective
<1>2. ASSUME ~overlap[t] PROVE Executors(t) = {w} /\ Executors(t)' = {}
  <2>1. Executors(t) = {w}
    BY <1>2 DEF Exclusive, Executors
  <2>2. Executors(t)' = {}
    BY <1>1, <2>1 DEF Executors
  <2> QED  BY <2>1, <2>2
<1>3. ~overlap[t] => Owner(t) = {w}
  BY <1>2 DEF Owner
<1>4. Owner(t)' = {}
  BY <1>2 DEF Owner
<1>5. ASSUME NEW u \in Task \ {t} PROVE Owner(u)' = Owner(u)
  <2>1. Executors(u)' = Executors(u)
    BY <1>1, <1>5 DEF Executors
  <2> QED  BY <2>1 DEF Owner
<1> QED  BY <1>3, <1>4, <1>5 DEF Ledger!Disowned

\* A goroutine that goes on without writing the row keeps it, or lets go of it; of a
\* row that still runs it lets go only when a database operation has failed.
LEMMA Quiet ==
  ASSUME NEW w \in Worker, IInv, UNCHANGED <<Shown, job>>,
         \A v \in Worker \ {w} : pc'[v] = pc[v] /\ cancelled'[v] = cancelled[v],
         Effective(w)' => Effective(w), Effective(w) => job[w] \in Task,
         \/ faults' = faults /\ (Effective(w) /\ ~(Effective(w)') => status[job[w]] # "running")
         \/ faults' = faults + 1
  PROVE  [Ledger!Next]_(Ledger!vars)
<1> UNCHANGED <<status, gen, attempts, limit, fin, overlap, Asked, job>>
  BY DEF Shown
<1>1. CASE Effective(w) /\ ~(Effective(w)')
  <2> PICK t \in Task : t = job[w]
    BY <1>1
  <2>1. t \in Task /\ (~overlap[t] => Owner(t) = {w}) /\ Ledger!Disowned(t)
    BY <1>1, OwnerEnds DEF IInv
  <2>2. CASE ~overlap[t]
    <3>1. status[t] \in {"running", "canceled"}
      <4>1. Executors(t) # {} /\ pc[w] \notin {"out", "idle"}
        BY <1>1, <2>1 DEF Executors, Effective
      <4>2. status[t] \notin {"absent", "pending", "succeeded", "failed"}
        BY <2>1, <2>2, <4>1 DEF IInv, Exclusive, Shape, WorkerShape
      <4> QED  BY <2>1, <4>2 DEF IInv, TypeOK, Status
    <3>2. Ledger!LetGo(t)
      BY <1>1, <2>1, <2>2, <3>1 DEF Ledger!LetGo
    <3> QED  BY <2>1, <3>2 DEF Ledger!Next
  <2>3. CASE overlap[t]
    <3>1. Owner(t) = {} /\ UNCHANGED Owner(t)
      BY <2>3 DEF Owner
    <3>2. \A u \in Task : Owner(u)' = Owner(u)
      BY <2>1, <3>1 DEF Ledger!Disowned
    <3>3. CASE faults' = faults
      BY <3>2, <3>3, OwnersStay
    <3>4. CASE faults' = faults + 1
      BY <3>2, <3>4 DEF Ledger!Mishap, Ledger!Next
    <3> QED  BY <3>3, <3>4
  <2> QED  BY <2>2, <2>3
<1>2. CASE Effective(w)' = Effective(w)
  <2>1. ASSUME NEW v \in Worker PROVE Effective(v)' = Effective(v)
    BY <1>2 DEF Effective
  <2>2. ASSUME NEW u \in Task PROVE Owner(u)' = Owner(u)
    <3>1. Executors(u)' = Executors(u)
      BY <2>1 DEF Executors
    <3> QED  BY <3>1 DEF Owner
  <2>3. CASE faults' = faults
    BY <2>2, <2>3, OwnersStay
  <2>4. CASE faults' = faults + 1
    BY <2>2, <2>4 DEF Ledger!Mishap, Ledger!Next
  <2> QED  BY <2>3, <2>4
<1>3. Effective(w) \in BOOLEAN /\ Effective(w)' \in BOOLEAN
  BY DEF Effective
<1> QED  BY <1>1, <1>2, <1>3

\* Steps outside the goroutines: none of them changes an execution, except that the
\* signal takes a canceled row away from the execution it reaches.
LEMMA MuStep ==
  ASSUME IInv, NEW t \in Task,
         Enqueued(t) \/ BackoffElapses(t) \/ CancelRead(t) \/ CancelStep \/ CancelFails \/ Retry(t)
  PROVE  [Ledger!Next]_(Ledger!vars)
<1> USE DEF IInv, TypeOK, rowVars, workVars, histVars, Shown
<1>1. ASSUME UNCHANGED <<workVars, overlap>> PROVE \A u \in Task : Owner(u)' = Owner(u)
  BY <1>1 DEF Owner, Executors, Effective
<1>2. CASE Enqueued(t)
  <2>1. PICK k \in Key \cup {NoKey}, most \in 0..MaxLimit : Enqueue(t, k, most)
    BY <1>2 DEF Enqueued
  <2>2. UNCHANGED Asked /\ \A u \in Task : Owner(u)' = Owner(u)
    BY <1>1, <2>1 DEF Enqueue, Asked
  <2>3. Ledger!Submit(t)
    BY <2>1, <2>2 DEF Enqueue, Ledger!Submit, Ledger!Becomes
  <2> QED  BY <2>3 DEF Ledger!Next
<1>3. CASE BackoffElapses(t)
  BY <1>1, <1>3, OwnersStay DEF BackoffElapses, Asked
<1>4. CASE CancelRead(t)
  <2>1. Asked = NoTask /\ Asked' = t /\ \A u \in Task : Owner(u)' = Owner(u)
    BY <1>1, <1>4 DEF CancelRead, Asked, MuFree
  <2>2. Ledger!AskStop(t)
    BY <1>4, <2>1 DEF CancelRead, Cancelable, Unfinished, Ledger!AskStop
  <2> QED  BY <2>2 DEF Ledger!Next
<1>5. CASE CancelCommit
  <2>1. cx.task \in Task /\ Asked = cx.task /\ Asked' = NoTask
    BY <1>5 DEF CancelCommit, Asked, Shape, MuShape
  <2>2. \A u \in Task : Owner(u)' = Owner(u)
    BY <1>1, <1>5 DEF CancelCommit
  <2>3. Ledger!Stop
    BY <1>5, <2>1, <2>2 DEF CancelCommit, Ledger!Stop, Ledger!Becomes
  <2> QED  BY <2>3 DEF Ledger!Next
<1>6. CASE CancelSignal
  <2>1. /\ UNCHANGED <<Shown, faults, job, pc>> /\ cx.task \in Task
        /\ status[cx.task] = "canceled"
        /\ cancelled' = [v \in Worker |-> cancelled[v] \/ bind[cx.task] = v]
    BY <1>6 DEF CancelSignal, Asked, Shape, MuShape
  <2>2. CASE bind[cx.task] = NoWorker
    <3>1. UNCHANGED <<workVars, overlap>>
      BY <1>6, <2>1, <2>2, TaskCenterAssumption DEF CancelSignal
    <3> QED  BY <1>1, <2>1, <3>1, OwnersStay
  <2>3. CASE bind[cx.task] \in Worker
    <3> PICK w \in Worker : w = bind[cx.task]
      BY <2>3
    <3>1. job[w] = cx.task /\ pc[w] # "claimed"
      BY <2>1, <2>3 DEF Shape, BindShape
    <3>2. Effective(w)' => Effective(w)
      BY <2>1, <2>3, <3>1 DEF Effective
    <3>3. \A v \in Worker \ {w} : pc'[v] = pc[v] /\ cancelled'[v] = cancelled[v]
      BY <2>1
    <3> QED  BY <2>1, <2>3, <3>1, <3>2, <3>3, Quiet
  <2> QED  BY <2>1, <2>2, <2>3
<1>7. CASE CancelFails
  <2>1. Asked' = NoTask /\ \A u \in Task : Owner(u)' = Owner(u)
    BY <1>1, <1>7 DEF CancelFails, Asked
  <2>2. Ledger!Mishap
    BY <1>7, <2>1 DEF CancelFails, Ledger!Mishap
  <2> QED  BY <2>2 DEF Ledger!Next
<1>8. CASE Retry(t)
  <2>1. overlap' = [overlap EXCEPT ![t] = @ \/ Executors(t) # {}] /\ UNCHANGED <<workVars, cx>>
    BY <1>8 DEF Retry
  <2>2. \A u \in Task : Executors(u)' = Executors(u)
    BY <2>1 DEF Executors, Effective
  <2>3. Owner(t)' = {} /\ \A u \in Task \ {t} : Owner(u)' = Owner(u)
    <3>1. Owner(t)' = {}
      BY <2>1, <2>2, Zenon DEF Owner, TypeOK
    <3>2. \A u \in Task \ {t} : overlap'[u] = overlap[u]
      BY <2>1
    <3> QED  BY <2>2, <3>1, <3>2 DEF Owner
  <2>4. overlap' = [overlap EXCEPT ![t] = @ \/ Owner(t) # {}]
    <3>1. (overlap[t] \/ Executors(t) # {}) = (overlap[t] \/ Owner(t) # {})
      BY DEF Owner
    <3> QED  BY <2>1, <3>1, Zenon
  <2>5. Ledger!Disowned(t) /\ UNCHANGED Asked
    BY <2>1, <2>3 DEF Ledger!Disowned, Asked
  <2>6. Ledger!Reopen(t)
    BY <1>8, <2>4, <2>5 DEF Retry, AttemptsAfterRetry, Ledger!Reopen, Ledger!Becomes
  <2> QED  BY <2>6 DEF Ledger!Next
<1> QED
  BY <1>2, <1>3, <1>4, <1>5, <1>6, <1>7, <1>8 DEF CancelStep

\* A claim takes a row nobody owns.
LEMMA ClaimTakes ==
  ASSUME IInv, NEW w \in Worker, NEW t \in Task, Claim(w, t)
  PROVE  Ledger!Take(t, w)
<1> USE DEF IInv, TypeOK
<1>1. /\ status[t] = "pending" /\ status' = [status EXCEPT ![t] = "running"]
      /\ pc[w] = "idle" /\ pc' = [pc EXCEPT ![w] = "claimed"]
      /\ job' = [job EXCEPT ![w] = t] /\ cancelled' = [cancelled EXCEPT ![w] = FALSE]
      /\ UNCHANGED <<gen, attempts, limit, fin, overlap, Asked, faults>>
  BY DEF Claim, Claimable, Goto, Asked
<1>2. Effective(w)' /\ ~Effective(w)
  BY <1>1 DEF Effective
<1>3. ASSUME NEW v \in Worker \ {w} PROVE Effective(v)' = Effective(v) /\ job'[v] = job[v]
  BY <1>1 DEF Effective
<1>4. ASSUME NEW u \in Task \ {t} PROVE Owner(u)' = Owner(u)
  <2>1. Executors(u)' = Executors(u)
    BY <1>1, <1>2, <1>3 DEF Executors
  <2> QED  BY <1>1, <2>1 DEF Owner
<1>5. ASSUME ~overlap[t] PROVE Executors(t) = {} /\ Executors(t)' = {w}
  <2>1. Executors(t) = {}
    BY <1>1, <1>5 DEF Exclusive
  <2>2. Executors(t)' = {w}
    BY <1>1, <1>2, <1>3, <2>1 DEF Executors
  <2> QED  BY <2>1, <2>2
<1>6. Owner(t) = {} /\ Owner(t)' = IF overlap[t] THEN {} ELSE {w}
  BY <1>1, <1>5 DEF Owner
<1> QED  BY <1>1, <1>4, <1>6 DEF Ledger!Take, Ledger!Becomes

\* The steps of a goroutine that do not write the row: where isCanceled sends it, the
\* row is canceled, and where the UPDATE found no running row, it does not run.
WritesNothing(w) ==
  \/ StartWorker(w) \/ WorkerLeaves(w) \/ Bind(w) \/ CheckCanceled(w) \/ UpdateProgress(w)
  \/ HandlerReturns(w) \/ CheckBeforeFail(w) \/ MarkFailedRead(w) \/ Recheck(w)
  \/ DatabaseFails(w)
  \/ (MarkSucceeded(w) \/ MarkFailedWrite(w)) /\ ~StillRunning(w)

\* Such a step is none of the ledger's, or the owner of a stopped row lets go of it.
LEMMA WorkerQuiet ==
  ASSUME IInv, NEW w \in Worker, WritesNothing(w)
  PROVE  [Ledger!Next]_(Ledger!vars)
<1> USE DEF IInv, TypeOK, rowVars, workVars, histVars, WritesNothing
<1>1. UNCHANGED <<Shown, job, cancelled>>
  BY DEF StartWorker, WorkerLeaves, Bind, CheckCanceled, UpdateProgress, HandlerReturns,
     MarkSucceeded, CheckBeforeFail, MarkFailedRead, MarkFailedWrite, Recheck, DatabaseFails,
     Shown, Asked
<1>2. \A v \in Worker \ {w} : pc'[v] = pc[v] /\ cancelled'[v] = cancelled[v]
  BY <1>1 DEF StartWorker, WorkerLeaves, Bind, CheckCanceled, UpdateProgress, HandlerReturns,
     MarkSucceeded, CheckBeforeFail, MarkFailedRead, MarkFailedWrite, Recheck, DatabaseFails,
     Goto
<1>3. Effective(w) => job[w] \in Task
  BY DEF Effective, Shape, WorkerShape
<1>4. (Effective(w)' => Effective(w)) /\ (faults' = faults \/ faults' = faults + 1)
  <2>1. CASE StartWorker(w) \/ WorkerLeaves(w) \/ Bind(w) \/ CheckCanceled(w) \/ UpdateProgress(w)
    BY <1>1, <2>1 DEF StartWorker, WorkerLeaves, Bind, CheckCanceled, UpdateProgress, Goto,
       Effective, Shape, WorkerShape
  <2>2. CASE HandlerReturns(w) \/ CheckBeforeFail(w) \/ MarkFailedRead(w) \/ Recheck(w)
    BY <1>1, <2>2 DEF HandlerReturns, CheckBeforeFail, MarkFailedRead, Recheck, Goto,
       Effective, ResultDropped
  <2>3. CASE MarkSucceeded(w) \/ MarkFailedWrite(w) \/ DatabaseFails(w)
    BY <1>1, <2>3 DEF MarkSucceeded, MarkFailedWrite, DatabaseFails, Goto, Effective
  <2> QED  BY <2>1, <2>2, <2>3
<1>5. faults' = faults /\ Effective(w) /\ ~(Effective(w)') => status[job[w]] # "running"
  <2> SUFFICES ASSUME faults' = faults, Effective(w), ~(Effective(w)')
               PROVE  status[job[w]] # "running"
    OBVIOUS
  <2>1. CASE StartWorker(w) \/ WorkerLeaves(w) \/ Bind(w) \/ UpdateProgress(w) \/ HandlerReturns(w)
    BY <1>1, <2>1 DEF StartWorker, WorkerLeaves, Bind, UpdateProgress, HandlerReturns, Goto,
       Effective, ResultDropped, Shape, WorkerShape
  <2>2. CASE CheckCanceled(w) \/ CheckBeforeFail(w) \/ Recheck(w)
    BY <1>1, <2>2 DEF CheckCanceled, CheckBeforeFail, Recheck, Goto, Effective
  <2>3. CASE MarkFailedRead(w)
    BY <1>1, <2>3 DEF MarkFailedRead, StillRunning, Goto, Effective
  <2>4. CASE (MarkSucceeded(w) \/ MarkFailedWrite(w)) /\ ~StillRunning(w)
    BY <2>4 DEF StillRunning
  <2>5. CASE DatabaseFails(w)
    BY <2>5 DEF DatabaseFails
  <2> QED  BY <2>1, <2>2, <2>3, <2>4, <2>5
<1> QED  BY <1>1, <1>2, <1>3, <1>4, <1>5, Quiet

\* A goroutine that clears its cancel function owns nothing.
LEMMA UnbindQuiet ==
  ASSUME IInv, NEW w \in Worker, Unbind(w)
  PROVE  [Ledger!Next]_(Ledger!vars)
<1> USE DEF IInv, TypeOK, rowVars, workVars, histVars
<1>1. /\ UNCHANGED <<Shown, faults>> /\ ~Effective(w) /\ ~(Effective(w)')
      /\ \A v \in Worker \ {w} : Effective(v)' = Effective(v) /\ job'[v] = job[v]
  BY DEF Unbind, Goto, Effective, Shown, Asked
<1>2. ASSUME NEW u \in Task PROVE Owner(u)' = Owner(u)
  <2>1. Executors(u)' = Executors(u)
    BY <1>1 DEF Executors
  <2> QED  BY <1>1, <2>1 DEF Owner, Shown
<1> QED  BY <1>1, <1>2, OwnersStay

\* The execution that settles a running row owns it and settles the current run;
\* of a row that was overtaken, some run it ever had.
LEMMA MaySettle ==
  ASSUME IInv, LedgerFits, NEW w \in Worker, NEW t \in Task, job[w] = t,
         pc[w] \in {"succeeding", "failWrite"}
  PROVE  /\ wgen[w] \in 1..gen[t] /\ Ledger!MaySettle(t, wgen[w])
         /\ Effective(w)
<1>1. wgen[w] \in 1..gen[t] /\ Effective(w) /\ w \in Executors(t)
  BY DEF LedgerFits, Effective, Executors
<1>2. ~overlap[t] => wgen[w] = gen[t] /\ Owner(t) # {}
  BY <1>1 DEF IInv, CurrentRun, Owner
<1> QED  BY <1>1, <1>2 DEF Ledger!MaySettle

\* MarkSucceeded on a running row.
LEMMA SucceedSettles ==
  ASSUME IInv, LedgerFits, NEW w \in Worker, MarkSucceeded(w), StillRunning(w)
  PROVE  Ledger!Next
<1> USE DEF IInv, TypeOK
<1>1. PICK t \in Task : t = job[w]
  BY DEF MarkSucceeded, Shape, WorkerShape
<1>2. /\ pc[w] = "succeeding" /\ pc' = [pc EXCEPT ![w] = "unbind"] /\ status[t] = "running"
      /\ status' = [status EXCEPT ![t] = "succeeded"] /\ fin' = [fin EXCEPT ![t] = wgen[w]]
      /\ UNCHANGED <<attempts, limit, cx, job, cancelled, gen, overlap, faults>>
  BY <1>1 DEF MarkSucceeded, StillRunning, Goto
<1>3. Ledger!Disowned(t)
  <2>1. ~(Effective(w)') /\ \A v \in Worker \ {w} : pc'[v] = pc[v] /\ cancelled'[v] = cancelled[v]
    BY <1>2 DEF Effective
  <2> QED  BY <1>1, <1>2, <2>1, MaySettle, OwnerEnds
<1>4. Ledger!Succeed(t, wgen[w]) /\ wgen[w] \in 1..gen[t]
  BY <1>1, <1>2, <1>3, MaySettle DEF Ledger!Succeed, Ledger!Becomes, Asked
<1> QED  BY <1>4 DEF Ledger!Next

\* MarkFailed on a running row counts the attempt that was made.
LEMMA FailSettles ==
  ASSUME IInv, LedgerFits, NEW w \in Worker, MarkFailedWrite(w), StillRunning(w)
  PROVE  Ledger!Next
<1> USE DEF IInv, TypeOK
<1>1. PICK t \in Task : t = job[w]
  BY DEF MarkFailedWrite, Shape, WorkerShape
<1> DEFINE n == seen[w] + 1
<1>2. /\ pc[w] = "failWrite" /\ pc' = [pc EXCEPT ![w] = "unbind"] /\ status[t] = "running"
      /\ attempts' = [attempts EXCEPT ![t] = n]
      /\ UNCHANGED <<limit, cx, job, cancelled, gen, overlap, faults>>
  BY <1>1 DEF MarkFailedWrite, StillRunning, Goto
<1>3. IF n < limit[t]
      THEN status' = [status EXCEPT ![t] = "pending"] /\ UNCHANGED fin
      ELSE status' = [status EXCEPT ![t] = "failed"] /\ fin' = [fin EXCEPT ![t] = wgen[w]]
  BY <1>1 DEF MarkFailedWrite, AttemptsLeft
<1>4. Ledger!Disowned(t)
  <2>1. ~(Effective(w)') /\ \A v \in Worker \ {w} : pc'[v] = pc[v] /\ cancelled'[v] = cancelled[v]
    BY <1>2 DEF Effective
  <2> QED  BY <1>1, <1>2, <2>1, MaySettle, OwnerEnds
<1>5. (overlap[t] \/ n = attempts[t] + 1) /\ n \in 1..limit[t]
  BY <1>1, <1>2, TaskCenterAssumption DEF LedgerFits, Budget
<1>6. Ledger!Fail(t, wgen[w], n) /\ wgen[w] \in 1..gen[t]
  <2>1. wgen[w] \in 1..gen[t] /\ Ledger!MaySettle(t, wgen[w]) /\ UNCHANGED Asked
    BY <1>1, <1>2, MaySettle DEF Asked
  <2> QED  BY <1>2, <1>3, <1>4, <1>5, <2>1 DEF Ledger!Fail, Ledger!Becomes
<1> QED  BY <1>5, <1>6 DEF Ledger!Next

\* Nobody owns a row in a process that has just started.
LEMMA RestartDisowns == IInv /\ (Restart \/ RestartUnrecovered) => Ledger!Restart
<1> SUFFICES ASSUME IInv, Restart \/ RestartUnrecovered PROVE Ledger!Restart
  OBVIOUS
<1> USE DEF IInv, TypeOK
<1>1. Asked' = NoTask /\ \A u \in Task : Owner(u)' = {}
  BY DEF Restart, RestartUnrecovered, LoseMemory, Asked, Owner, Executors, Effective
<1>2. CASE Restart
  BY <1>1, <1>2 DEF Restart, Recovered, Ledger!Restart
<1>3. CASE RestartUnrecovered
  BY <1>1, <1>3 DEF RestartUnrecovered, rowVars, Ledger!Restart
<1> QED  BY <1>2, <1>3

\* Every step of the queue is one of the ledger or none.
LEMMA LedgerStep == IInv /\ LedgerFits /\ [Next]_vars => [Ledger!Next]_(Ledger!vars)
<1> SUFFICES ASSUME IInv, LedgerFits, [Next]_vars PROVE [Ledger!Next]_(Ledger!vars)
  OBVIOUS
<1>1. ASSUME NEW t \in Task, BackoffElapses(t) \/ CancelRead(t) \/ Enqueued(t) \/ Retry(t)
      PROVE [Ledger!Next]_(Ledger!vars)
  BY <1>1, MuStep
<1>2. CASE CancelStep \/ CancelFails
  <2>1. PICK t \in Task : t = cx.task
    BY <1>2 DEF CancelStep, CancelCommit, CancelSignal, CancelFails, IInv, Shape, MuShape
  <2> QED  BY <1>2, <2>1, MuStep
<1>3. ASSUME NEW w \in Worker, MarkSucceeded(w) PROVE [Ledger!Next]_(Ledger!vars)
  BY <1>3, SucceedSettles, WorkerQuiet DEF WritesNothing
<1>4. ASSUME NEW w \in Worker, MarkFailedWrite(w) PROVE [Ledger!Next]_(Ledger!vars)
  BY <1>4, FailSettles, WorkerQuiet DEF WritesNothing
<1>5. ASSUME NEW w \in Worker,
             \/ StartWorker(w) \/ WorkerLeaves(w) \/ Bind(w) \/ CheckCanceled(w)
             \/ UpdateProgress(w) \/ HandlerReturns(w) \/ CheckBeforeFail(w)
             \/ MarkFailedRead(w) \/ Recheck(w) \/ DatabaseFails(w)
      PROVE [Ledger!Next]_(Ledger!vars)
  BY <1>5, WorkerQuiet DEF WritesNothing
<1>6. ASSUME NEW w \in Worker, Unbind(w) PROVE [Ledger!Next]_(Ledger!vars)
  BY <1>6, UnbindQuiet
<1>7. ASSUME NEW w \in Worker, NEW t \in Task, Claim(w, t) PROVE [Ledger!Next]_(Ledger!vars)
  BY <1>7, ClaimTakes DEF Ledger!Next
<1>8. CASE Restart \/ RestartUnrecovered
  BY <1>8, RestartDisowns DEF Ledger!Next
<1>9. CASE UNCHANGED vars
  <2>1. UNCHANGED <<Shown, faults>> /\ \A t \in Task : Owner(t)' = Owner(t)
    BY <1>9 DEF vars, rowVars, workVars, histVars, Shown, Asked, Owner, Executors, Effective
  <2> QED  BY <2>1, OwnersStay
<1> QED
  BY <1>1, <1>2, <1>3, <1>4, <1>5, <1>6, <1>7, <1>8, <1>9 DEF Next, Common, WorkerStep

\* A server without tasks keeps an empty ledger.
LEMMA LedgerInit == Init => Ledger!Init
<1> SUFFICES ASSUME Init PROVE Ledger!Init
  OBVIOUS
<1>1. Asked = NoTask /\ \A t \in Task : Owner(t) = {}
  BY DEF Init, Asked, Owner, Executors, Effective
<1> QED  BY <1>1 DEF Init, Ledger!Init

\* The queue keeps the ledger: whatever Cancel, Retry, the goroutines, failing
\* statements and restarts do between each other's steps, each attempt is settled
\* once, by the execution that has the row and for the run it took the row for.
THEOREM KeepsLedger == Spec => IsLedger
  BY LedgerInit, LedgerStep, LedgerFitsAlways, PTL DEF Spec, IsLedger, Ledger!Spec

\* So does the registry, however its passes overlap and its signals coalesce.
THEOREM PoolsKeepLedger == PoolSpec => IsLedger
  BY PoolsImplementQueue, KeepsLedger, PTL

=============================================================================
