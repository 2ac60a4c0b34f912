-------------------------- MODULE TaskCenterProofs --------------------------
(***************************************************************************)
(* Theorems about TaskCenter, for every number of tasks, workers, keys,    *)
(* retries, restarts and failed database operations.                       *)
(*                                                                         *)
(* IInv is the inductive invariant.  Shape says where a goroutine, the     *)
(* holder of mu and a bound cancel function point; the other parts are the *)
(* invariants of TaskCenter with what makes each of them inductive.  Every *)
(* part is preserved by its own lemma, one step per kind of action.        *)
(***************************************************************************)
EXTENDS TaskCenter, TLAPS

\* A goroutine that claimed a row has it until it unbinds, and its context is
\* not cancelled before it binds.
WorkerShape ==
  \A w \in Worker : /\ IF pc[w] \in {"out", "idle"} THEN job[w] = NoTask
                       ELSE job[w] \in Task /\ status[job[w]] # "absent"
                    /\ pc[w] = "claimed" => ~cancelled[w]

\* mu is held for a row that exists, canceled once the cancel has committed.
MuShape ==
  /\ cx.at # "idle" => cx.task \in Task /\ status[cx.task] # "absent"
  /\ cx.at = "committed" => status[cx.task] = "canceled"

\* A bound cancel function belongs to an execution of that row.
BindShape ==
  \A t \in Task : bind[t] \in Worker => job[bind[t]] = t /\ pc[bind[t]] # "claimed"

\* A row that does not exist has no history.
NewShape == \A t \in Task : status[t] = "absent" => attempts[t] = 0 /\ checkpoint[t] = 0

Shape == WorkerShape /\ MuShape /\ BindShape /\ NewShape

\* The attempts MarkFailed read, still to be written, leave room for one more.
Budget ==
  /\ AttemptsBudget
  /\ \A w \in Worker : pc[w] = "failWrite" => seen[w] < limit[job[w]]

\* An ended row has no execution that could write it.
Exclusive ==
  \A t \in Task : ~overlap[t] =>
    /\ \A v, w \in Executors(t) : v = w
    /\ status[t] \in {"pending", "succeeded", "failed"} => Executors(t) = {}

\* An execution that can still write belongs to the current run.
CurrentRun ==
  /\ ResultOfCurrentRun
  /\ \A t \in Task : ~overlap[t] => \A w \in Executors(t) : wgen[w] = gen[t]

\* The context of an execution that is not cancelled yet can be cancelled.
Signalable ==
  \A t \in Task, w \in Worker :
    /\ ~overlap[t] /\ job[w] = t /\ pc[w] \in {"bound", "handler"} /\ ~cancelled[w]
    => bind[t] = w

IInv == /\ TypeOK /\ Shape /\ Budget /\ UniqueUnfinishedKey /\ Exclusive
        /\ CurrentRun /\ Signalable /\ CancelReachesHandler /\ RunningHasExecutor

-----------------------------------------------------------------------------

\* The initial state satisfies every part.
LEMMA InitIInv == Init => IInv
<1> SUFFICES ASSUME Init PROVE IInv
  OBVIOUS
<1> USE TaskCenterAssumption
<1>1. TypeOK
  BY DEF Init, TypeOK, Status, PC
<1>2. \A t \in Task : status[t] = "absent" /\ Executors(t) = {}
  BY DEF Init, Executors, Effective
<1>3. Shape /\ Budget /\ UniqueUnfinishedKey /\ RunningHasExecutor
  BY <1>2 DEF Init, Shape, WorkerShape, MuShape, BindShape, NewShape, Budget,
              AttemptsBudget, UniqueUnfinishedKey, Unfinished, RunningHasExecutor
<1>4. Exclusive /\ CurrentRun /\ Signalable /\ CancelReachesHandler
  BY <1>2 DEF Init, Exclusive, CurrentRun, ResultOfCurrentRun, Signalable,
              CancelReachesHandler
<1> QED  BY <1>1, <1>3, <1>4 DEF IInv

\* Every step keeps the types.  Only MarkFailed needs more than TypeOK: that the
\* attempts it writes stay within the limit.
LEMMA TypeStep == TypeOK /\ Shape /\ Budget /\ [Next]_vars => TypeOK'
<1> SUFFICES ASSUME TypeOK, Shape, Budget, [Next]_vars PROVE TypeOK'
  OBVIOUS
<1> USE TaskCenterAssumption DEF TypeOK, Status, PC
<1> USE DEF rowVars, workVars, histVars
<1>1. ASSUME NEW t \in Task, Enqueued(t) PROVE TypeOK'
  BY <1>1 DEF Enqueued, Enqueue
<1>2. ASSUME NEW t \in Task, BackoffElapses(t) PROVE TypeOK'
  BY <1>2 DEF BackoffElapses
<1>3. ASSUME NEW t \in Task, CancelRead(t) PROVE TypeOK'
  BY <1>3 DEF CancelRead
<1>4. CASE CancelCommit
  BY <1>4 DEF CancelCommit
<1>5. CASE CancelSignal
  BY <1>5 DEF CancelSignal
<1>6. CASE CancelFails
  BY <1>6 DEF CancelFails
<1>7. ASSUME NEW t \in Task, Retry(t) PROVE TypeOK'
  BY <1>7 DEF Retry, AttemptsAfterRetry
<1>8. ASSUME NEW w \in Worker, StartWorker(w) \/ WorkerLeaves(w) PROVE TypeOK'
  BY <1>8 DEF StartWorker, WorkerLeaves, Goto
<1>9. ASSUME NEW w \in Worker, NEW t \in Task, Claim(w, t) PROVE TypeOK'
  BY <1>9 DEF Claim, Goto
<1>10. ASSUME NEW w \in Worker, Bind(w) PROVE TypeOK'
  BY <1>10 DEF Bind, Goto
<1>11. ASSUME NEW w \in Worker, CheckCanceled(w) \/ CheckBeforeFail(w) \/ Recheck(w)
       PROVE TypeOK'
  BY <1>11 DEF CheckCanceled, CheckBeforeFail, Recheck, Goto
<1>12. ASSUME NEW w \in Worker, UpdateProgress(w) PROVE TypeOK'
  BY <1>12 DEF UpdateProgress
<1>13. ASSUME NEW w \in Worker, HandlerReturns(w) PROVE TypeOK'
  BY <1>13 DEF HandlerReturns, Goto
<1>14. ASSUME NEW w \in Worker, MarkSucceeded(w) PROVE TypeOK'
  BY <1>14 DEF MarkSucceeded, Goto
<1>15. ASSUME NEW w \in Worker, MarkFailedRead(w) PROVE TypeOK'
  BY <1>15 DEF MarkFailedRead, Goto, Shape, WorkerShape
<1>16. ASSUME NEW w \in Worker, MarkFailedWrite(w) PROVE TypeOK'
  <2>1. job[w] \in Task /\ seen[w] + 1 \in 0..MaxLimit
    BY <1>16 DEF MarkFailedWrite, Budget, Shape, WorkerShape
  <2>2. attempts' \in [Task -> 0..MaxLimit]
    BY <1>16, <2>1 DEF MarkFailedWrite
  <2>3. /\ status' \in [Task -> Status] /\ due' \in [Task -> BOOLEAN]
        /\ fin' \in [Task -> 0..(MaxRetries + 1)]
    <3>1. CASE ~StillRunning(w)
      BY <1>16, <3>1 DEF MarkFailedWrite
    <3>2. CASE StillRunning(w) /\ AttemptsLeft(seen[w] + 1, job[w])
      BY <1>16, <2>1, <3>2 DEF MarkFailedWrite
    <3>3. CASE StillRunning(w) /\ ~AttemptsLeft(seen[w] + 1, job[w])
      BY <1>16, <2>1, <3>3 DEF MarkFailedWrite
    <3> QED  BY <3>1, <3>2, <3>3
  <2>4. pc' \in [Worker -> PC]
    BY <1>16 DEF MarkFailedWrite, Goto
  <2>5. UNCHANGED <<limit, key, checkpoint, bind, cx, job, cancelled, seen, gen, wgen,
                    overlap, restarts, faults>>
    BY <1>16 DEF MarkFailedWrite
  <2> QED  BY <2>2, <2>3, <2>4, <2>5
<1>17. ASSUME NEW w \in Worker, Unbind(w) PROVE TypeOK'
  <2>1. bind' \in [Task -> Worker \cup {NoWorker}]
    BY <1>17 DEF Unbind
  <2>2. pc' \in [Worker -> PC]
    BY <1>17 DEF Unbind, Goto
  <2>3. /\ job' \in [Worker -> Task \cup {NoTask}] /\ cancelled' \in [Worker -> BOOLEAN]
        /\ seen' \in [Worker -> 0..MaxLimit] /\ wgen' \in [Worker -> 0..(MaxRetries + 1)]
    BY <1>17 DEF Unbind
  <2>4. UNCHANGED <<rowVars, cx, gen, fin, overlap, restarts, faults>>
    BY <1>17 DEF Unbind
  <2> QED  BY <2>1, <2>2, <2>3, <2>4
<1>18. ASSUME NEW w \in Worker, DatabaseFails(w) PROVE TypeOK'
  <2>1. \E place \in PC : pc' = [pc EXCEPT ![w] = place]
    BY <1>18 DEF DatabaseFails, Goto
  <2>2. /\ faults < MaxFaults /\ faults' = faults + 1
        /\ UNCHANGED <<rowVars, bind, cx, job, cancelled, seen, histVars, restarts>>
    BY <1>18 DEF DatabaseFails
  <2> QED  BY <2>1, <2>2
<1>19. CASE Restart
  BY <1>19 DEF Restart, LoseMemory
<1>20. CASE RestartUnrecovered
  BY <1>20 DEF RestartUnrecovered, LoseMemory
<1>21. CASE UNCHANGED vars
  BY <1>21 DEF vars
<1> QED
  BY <1>1, <1>2, <1>3, <1>4, <1>5, <1>6, <1>7, <1>8, <1>9, <1>10, <1>11, <1>12, <1>13,
     <1>14, <1>15, <1>16, <1>17, <1>18, <1>19, <1>20, <1>21
  DEF Next, Common, WorkerStep, CancelStep

\* Every step keeps the pointers between goroutines, rows and mu.
LEMMA ShapeStep ==
  TypeOK /\ Shape /\ [Next]_vars => Shape'
<1> SUFFICES ASSUME TypeOK, Shape, [Next]_vars PROVE Shape'
  OBVIOUS
<1> USE TaskCenterAssumption
<1> USE DEF TypeOK, Status, Shape, WorkerShape, MuShape, BindShape, NewShape
<1> USE DEF rowVars, workVars, histVars
<1>1. ASSUME NEW t \in Task, Enqueued(t) PROVE Shape'
  BY <1>1 DEF Enqueued, Enqueue, MuFree
<1>2. ASSUME NEW t \in Task, BackoffElapses(t) PROVE Shape'
  BY <1>2 DEF BackoffElapses
<1>3. ASSUME NEW t \in Task, CancelRead(t) PROVE Shape'
  BY <1>3 DEF CancelRead, Cancelable, MuFree, Unfinished
<1>4. CASE CancelCommit
  BY <1>4 DEF CancelCommit
<1>5. CASE CancelSignal
  BY <1>5 DEF CancelSignal
<1>6. CASE CancelFails
  BY <1>6 DEF CancelFails
<1>7. ASSUME NEW t \in Task, Retry(t) PROVE Shape'
  BY <1>7 DEF Retry, MuFree
<1>8. ASSUME NEW w \in Worker, StartWorker(w) \/ WorkerLeaves(w) PROVE Shape'
  BY <1>8 DEF StartWorker, WorkerLeaves, Goto
<1>9. ASSUME NEW w \in Worker, NEW t \in Task, Claim(w, t) PROVE Shape'
  <2>1. WorkerShape'
    BY <1>9 DEF Claim, Goto, Claimable
  <2>2. MuShape' /\ NewShape'
    BY <1>9 DEF Claim, Claimable, MuFree
  <2>3. BindShape'
    BY <1>9 DEF Claim, Goto
  <2> QED  BY <2>1, <2>2, <2>3
<1>10. ASSUME NEW w \in Worker, Bind(w) PROVE Shape'
  BY <1>10 DEF Bind, Goto
<1>11. ASSUME NEW w \in Worker, CheckCanceled(w) \/ CheckBeforeFail(w) \/ Recheck(w)
       PROVE Shape'
  BY <1>11 DEF CheckCanceled, CheckBeforeFail, Recheck, Goto
<1>12. ASSUME NEW w \in Worker, UpdateProgress(w) PROVE Shape'
  BY <1>12 DEF UpdateProgress
<1>13. ASSUME NEW w \in Worker, HandlerReturns(w) PROVE Shape'
  BY <1>13 DEF HandlerReturns, Goto
<1>14. ASSUME NEW w \in Worker, MarkSucceeded(w) PROVE Shape'
  BY <1>14 DEF MarkSucceeded, Goto, StillRunning
<1>15. ASSUME NEW w \in Worker, MarkFailedRead(w) PROVE Shape'
  BY <1>15 DEF MarkFailedRead, Goto
<1>16. ASSUME NEW w \in Worker, MarkFailedWrite(w) PROVE Shape'
  <2>1. job[w] \in Task /\ UNCHANGED <<cx, bind, job, checkpoint>>
    BY <1>16 DEF MarkFailedWrite
  <2>2. \E place \in {"unbind", "recheck"} : pc' = [pc EXCEPT ![w] = place]
    BY <1>16 DEF MarkFailedWrite, Goto
  <2>3. \/ UNCHANGED <<status, attempts>>
        \/ /\ status[job[w]] = "running"
           /\ \E end \in {"pending", "failed"} : status' = [status EXCEPT ![job[w]] = end]
           /\ attempts' = [attempts EXCEPT ![job[w]] = seen[w] + 1]
    BY <1>16 DEF MarkFailedWrite, StillRunning
  <2>4. WorkerShape'
    BY <1>16, <2>1, <2>2, <2>3 DEF MarkFailedWrite
  <2>5. MuShape' /\ BindShape' /\ NewShape'
    BY <2>1, <2>2, <2>3
  <2> QED  BY <2>4, <2>5
<1>17. ASSUME NEW w \in Worker, Unbind(w) PROVE Shape'
  BY <1>17 DEF Unbind, Goto, OwnEntry
<1>18. ASSUME NEW w \in Worker, DatabaseFails(w) PROVE Shape'
  <2>1. UNCHANGED <<rowVars, bind, cx, job, cancelled>>
    BY <1>18 DEF DatabaseFails
  <2>2. \/ pc[w] = "idle" /\ pc' = [pc EXCEPT ![w] = "out"]
        \/ /\ pc[w] \notin {"out", "idle"}
           /\ \E place \in {"unbindErr", "recheck"} : pc' = [pc EXCEPT ![w] = place]
    BY <1>18 DEF DatabaseFails, Goto
  <2>3. WorkerShape'
    BY <2>1, <2>2
  <2>4. MuShape' /\ NewShape'
    BY <2>1
  <2>5. BindShape'
    BY <2>1, <2>2
  <2> QED  BY <2>3, <2>4, <2>5
<1>19. CASE Restart
  BY <1>19 DEF Restart, LoseMemory
<1>20. CASE RestartUnrecovered
  BY <1>20 DEF RestartUnrecovered, LoseMemory
<1>21. CASE UNCHANGED vars
  BY <1>21 DEF vars
<1> QED
  BY <1>1, <1>2, <1>3, <1>4, <1>5, <1>6, <1>7, <1>8, <1>9, <1>10, <1>11,
     <1>12, <1>13, <1>14, <1>15, <1>16, <1>17, <1>18, <1>19, <1>20, <1>21
  DEF Next, Common, WorkerStep, CancelStep

\* Every step keeps attempts and the limit apart by what is left to run.
LEMMA BudgetStep ==
  TypeOK /\ Shape /\ Budget /\ [Next]_vars => Budget'
<1> SUFFICES ASSUME TypeOK, Shape, Budget, [Next]_vars PROVE Budget'
  OBVIOUS
<1> USE TaskCenterAssumption
<1> USE DEF TypeOK, Status, Budget, AttemptsBudget, Unfinished
<1> USE DEF rowVars, workVars, histVars
<1>1. ASSUME NEW t \in Task, Enqueued(t) PROVE Budget'
  BY <1>1 DEF Enqueued, Enqueue, Shape, NewShape, WorkerShape
<1>2. ASSUME NEW t \in Task, BackoffElapses(t) PROVE Budget'
  BY <1>2 DEF BackoffElapses
<1>3. ASSUME NEW t \in Task, CancelRead(t) PROVE Budget'
  BY <1>3 DEF CancelRead
<1>4. CASE CancelCommit
  BY <1>4 DEF CancelCommit, Shape, MuShape
<1>5. CASE CancelSignal
  BY <1>5 DEF CancelSignal
<1>6. CASE CancelFails
  BY <1>6 DEF CancelFails
<1>7. ASSUME NEW t \in Task, Retry(t) PROVE Budget'
  BY <1>7 DEF Retry, AttemptsAfterRetry
<1>8. ASSUME NEW w \in Worker, StartWorker(w) \/ WorkerLeaves(w) PROVE Budget'
  BY <1>8 DEF StartWorker, WorkerLeaves, Goto
<1>9. ASSUME NEW w \in Worker, NEW t \in Task, Claim(w, t) PROVE Budget'
  BY <1>9 DEF Claim, Goto, Claimable
<1>10. ASSUME NEW w \in Worker, Bind(w) PROVE Budget'
  BY <1>10 DEF Bind, Goto
<1>11. ASSUME NEW w \in Worker, CheckCanceled(w) \/ CheckBeforeFail(w) \/ Recheck(w)
       PROVE Budget'
  BY <1>11 DEF CheckCanceled, CheckBeforeFail, Recheck, Goto
<1>12. ASSUME NEW w \in Worker, UpdateProgress(w) PROVE Budget'
  BY <1>12 DEF UpdateProgress
<1>13. ASSUME NEW w \in Worker, HandlerReturns(w) PROVE Budget'
  BY <1>13 DEF HandlerReturns, Goto
<1>14. ASSUME NEW w \in Worker, MarkSucceeded(w) PROVE Budget'
  BY <1>14 DEF MarkSucceeded, Goto, Shape, WorkerShape
<1>15. ASSUME NEW w \in Worker, MarkFailedRead(w) PROVE Budget'
  BY <1>15 DEF MarkFailedRead, Goto, StillRunning, Shape, WorkerShape
<1>16. ASSUME NEW w \in Worker, MarkFailedWrite(w) PROVE Budget'
  BY <1>16 DEF MarkFailedWrite, Goto, StillRunning, AttemptsLeft, Shape,
         WorkerShape
<1>17. ASSUME NEW w \in Worker, Unbind(w) PROVE Budget'
  BY <1>17 DEF Unbind, Goto
<1>18. ASSUME NEW w \in Worker, DatabaseFails(w) PROVE Budget'
  BY <1>18 DEF DatabaseFails, Goto
<1>19. CASE Restart
  BY <1>19 DEF Restart, LoseMemory, Recovered
<1>20. CASE RestartUnrecovered
  BY <1>20 DEF RestartUnrecovered, LoseMemory
<1>21. CASE UNCHANGED vars
  BY <1>21 DEF vars
<1> QED
  BY <1>1, <1>2, <1>3, <1>4, <1>5, <1>6, <1>7, <1>8, <1>9, <1>10, <1>11,
     <1>12, <1>13, <1>14, <1>15, <1>16, <1>17, <1>18, <1>19, <1>20, <1>21
  DEF Next, Common, WorkerStep, CancelStep

\* Only Enqueue and Retry make a row unfinished, and both ask KeyFree first.
LEMMA KeyStep ==
  TypeOK /\ UniqueUnfinishedKey /\ [Next]_vars => UniqueUnfinishedKey'
<1> SUFFICES ASSUME TypeOK, UniqueUnfinishedKey, [Next]_vars PROVE UniqueUnfinishedKey'
  OBVIOUS
<1> USE DEF TypeOK, Status, UniqueUnfinishedKey, Unfinished
<1> USE DEF rowVars, workVars, histVars
<1>1. ASSUME NEW t \in Task, Enqueued(t) PROVE UniqueUnfinishedKey'
  BY <1>1 DEF Enqueued, Enqueue, KeyFree
<1>2. ASSUME NEW t \in Task, BackoffElapses(t) PROVE UniqueUnfinishedKey'
  BY <1>2 DEF BackoffElapses
<1>3. ASSUME NEW t \in Task, CancelRead(t) PROVE UniqueUnfinishedKey'
  BY <1>3 DEF CancelRead
<1>4. CASE CancelCommit
  BY <1>4 DEF CancelCommit
<1>5. CASE CancelSignal
  BY <1>5 DEF CancelSignal
<1>6. CASE CancelFails
  BY <1>6 DEF CancelFails
<1>7. ASSUME NEW t \in Task, Retry(t) PROVE UniqueUnfinishedKey'
  BY <1>7 DEF Retry, KeyFree
<1>8. ASSUME NEW w \in Worker, StartWorker(w) \/ WorkerLeaves(w)
       PROVE UniqueUnfinishedKey'
  BY <1>8 DEF StartWorker, WorkerLeaves, Goto
<1>9. ASSUME NEW w \in Worker, NEW t \in Task, Claim(w, t)
       PROVE UniqueUnfinishedKey'
  BY <1>9 DEF Claim, Goto, Claimable
<1>10. ASSUME NEW w \in Worker, Bind(w) PROVE UniqueUnfinishedKey'
  BY <1>10 DEF Bind, Goto
<1>11. ASSUME NEW w \in Worker, CheckCanceled(w) \/ CheckBeforeFail(w) \/ Recheck(w)
       PROVE UniqueUnfinishedKey'
  BY <1>11 DEF CheckCanceled, CheckBeforeFail, Recheck, Goto
<1>12. ASSUME NEW w \in Worker, UpdateProgress(w) PROVE UniqueUnfinishedKey'
  BY <1>12 DEF UpdateProgress
<1>13. ASSUME NEW w \in Worker, HandlerReturns(w) PROVE UniqueUnfinishedKey'
  BY <1>13 DEF HandlerReturns, Goto
<1>14. ASSUME NEW w \in Worker, MarkSucceeded(w) PROVE UniqueUnfinishedKey'
  BY <1>14 DEF MarkSucceeded, Goto
<1>15. ASSUME NEW w \in Worker, MarkFailedRead(w) PROVE UniqueUnfinishedKey'
  BY <1>15 DEF MarkFailedRead, Goto
<1>16. ASSUME NEW w \in Worker, MarkFailedWrite(w) PROVE UniqueUnfinishedKey'
  BY <1>16 DEF MarkFailedWrite, Goto, StillRunning
<1>17. ASSUME NEW w \in Worker, Unbind(w) PROVE UniqueUnfinishedKey'
  BY <1>17 DEF Unbind, Goto
<1>18. ASSUME NEW w \in Worker, DatabaseFails(w) PROVE UniqueUnfinishedKey'
  BY <1>18 DEF DatabaseFails, Goto
<1>19. CASE Restart
  BY <1>19 DEF Restart, LoseMemory, Recovered
<1>20. CASE RestartUnrecovered
  BY <1>20 DEF RestartUnrecovered, LoseMemory
<1>21. CASE UNCHANGED vars
  BY <1>21 DEF vars
<1> QED
  BY <1>1, <1>2, <1>3, <1>4, <1>5, <1>6, <1>7, <1>8, <1>9, <1>10, <1>11,
     <1>12, <1>13, <1>14, <1>15, <1>16, <1>17, <1>18, <1>19, <1>20, <1>21
  DEF Next, Common, WorkerStep, CancelStep

\* A row is claimed only while it is pending, when nothing else executes it.
LEMMA ExclusiveStep ==
  TypeOK /\ Shape /\ Exclusive /\ [Next]_vars => Exclusive'
<1> SUFFICES ASSUME TypeOK, Shape, Exclusive, [Next]_vars PROVE Exclusive'
  OBVIOUS
<1> USE DEF TypeOK, Status, Exclusive, Executors, Effective
<1> USE DEF rowVars, workVars, histVars
<1>1. ASSUME NEW t \in Task, Enqueued(t) PROVE Exclusive'
  BY <1>1 DEF Enqueued, Enqueue, Shape, WorkerShape
<1>2. ASSUME NEW t \in Task, BackoffElapses(t) PROVE Exclusive'
  BY <1>2 DEF BackoffElapses
<1>3. ASSUME NEW t \in Task, CancelRead(t) PROVE Exclusive'
  BY <1>3 DEF CancelRead
<1>4. CASE CancelCommit
  BY <1>4 DEF CancelCommit
<1>5. CASE CancelSignal
  BY <1>5 DEF CancelSignal
<1>6. CASE CancelFails
  BY <1>6 DEF CancelFails
<1>7. ASSUME NEW t \in Task, Retry(t) PROVE Exclusive'
  <2>1. \A u \in Task : Executors(u)' = Executors(u)
    BY <1>7 DEF Retry
  <2>2. ~overlap'[t] => Executors(t) = {}
    BY <1>7 DEF Retry
  <2>3. \A u \in Task \ {t} : overlap'[u] = overlap[u] /\ status'[u] = status[u]
    BY <1>7 DEF Retry
  <2> QED  BY <2>1, <2>2, <2>3
<1>8. ASSUME NEW w \in Worker, StartWorker(w) \/ WorkerLeaves(w)
       PROVE Exclusive'
  BY <1>8 DEF StartWorker, WorkerLeaves, Goto
<1>9. ASSUME NEW w \in Worker, NEW t \in Task, Claim(w, t) PROVE Exclusive'
  BY <1>9 DEF Claim, Goto, Claimable
<1>10. ASSUME NEW w \in Worker, Bind(w) PROVE Exclusive'
  BY <1>10 DEF Bind, Goto
<1>11. ASSUME NEW w \in Worker, CheckCanceled(w) \/ CheckBeforeFail(w) \/ Recheck(w)
       PROVE Exclusive'
  BY <1>11 DEF CheckCanceled, CheckBeforeFail, Recheck, Goto
<1>12. ASSUME NEW w \in Worker, UpdateProgress(w) PROVE Exclusive'
  BY <1>12 DEF UpdateProgress
<1>13. ASSUME NEW w \in Worker, HandlerReturns(w) PROVE Exclusive'
  BY <1>13 DEF HandlerReturns, Goto, ResultDropped
<1>14. ASSUME NEW w \in Worker, MarkSucceeded(w) PROVE Exclusive'
  BY <1>14 DEF MarkSucceeded, Goto, StillRunning
<1>15. ASSUME NEW w \in Worker, MarkFailedRead(w) PROVE Exclusive'
  BY <1>15 DEF MarkFailedRead, Goto
<1>16. ASSUME NEW w \in Worker, MarkFailedWrite(w) PROVE Exclusive'
  BY <1>16 DEF MarkFailedWrite, Goto, StillRunning
<1>17. ASSUME NEW w \in Worker, Unbind(w) PROVE Exclusive'
  BY <1>17 DEF Unbind, Goto
<1>18. ASSUME NEW w \in Worker, DatabaseFails(w) PROVE Exclusive'
  BY <1>18 DEF DatabaseFails, Goto
<1>19. CASE Restart
  BY <1>19 DEF Restart, LoseMemory, Recovered
<1>20. CASE RestartUnrecovered
  BY <1>20 DEF RestartUnrecovered, LoseMemory
<1>21. CASE UNCHANGED vars
  BY <1>21 DEF vars
<1> QED
  BY <1>1, <1>2, <1>3, <1>4, <1>5, <1>6, <1>7, <1>8, <1>9, <1>10, <1>11,
     <1>12, <1>13, <1>14, <1>15, <1>16, <1>17, <1>18, <1>19, <1>20, <1>21
  DEF Next, Common, WorkerStep, CancelStep

\* An execution that could still write when its row is retried is remembered in
\* overlap; without one, all that is written belongs to the current run.
LEMMA RunStep ==
  TypeOK /\ Shape /\ Exclusive /\ CurrentRun /\ [Next]_vars => CurrentRun'
<1> SUFFICES ASSUME TypeOK, Shape, Exclusive, CurrentRun, [Next]_vars PROVE CurrentRun'
  OBVIOUS
<1> USE DEF TypeOK, Status, Shape, WorkerShape, NewShape
<1> USE DEF CurrentRun, ResultOfCurrentRun, Executors, Effective
<1> USE DEF rowVars, workVars, histVars
<1>1. ASSUME NEW t \in Task, Enqueued(t) PROVE CurrentRun'
  BY <1>1 DEF Enqueued, Enqueue
<1>2. ASSUME NEW t \in Task, BackoffElapses(t) PROVE CurrentRun'
  BY <1>2 DEF BackoffElapses
<1>3. ASSUME NEW t \in Task, CancelRead(t) PROVE CurrentRun'
  BY <1>3 DEF CancelRead
<1>4. CASE CancelCommit
  BY <1>4 DEF CancelCommit
<1>5. CASE CancelSignal
  BY <1>5 DEF CancelSignal
<1>6. CASE CancelFails
  BY <1>6 DEF CancelFails
<1>7. ASSUME NEW t \in Task, Retry(t) PROVE CurrentRun'
  <2>1. \A u \in Task : Executors(u)' = Executors(u)
    BY <1>7 DEF Retry
  <2>2. ~overlap'[t] => Executors(t) = {}
    BY <1>7 DEF Retry
  <2>3. checkpoint'[t] = 0 /\ status'[t] = "pending" /\ wgen' = wgen /\ fin' = fin
    BY <1>7 DEF Retry
  <2>4. \A u \in Task \ {t} : /\ overlap'[u] = overlap[u] /\ status'[u] = status[u]
                              /\ gen'[u] = gen[u] /\ checkpoint'[u] = checkpoint[u]
    BY <1>7 DEF Retry
  <2> QED  BY <2>1, <2>2, <2>3, <2>4
<1>8. ASSUME NEW w \in Worker, StartWorker(w) \/ WorkerLeaves(w)
       PROVE CurrentRun'
  BY <1>8 DEF StartWorker, WorkerLeaves, Goto
<1>9. ASSUME NEW w \in Worker, NEW t \in Task, Claim(w, t) PROVE CurrentRun'
  BY <1>9 DEF Claim, Goto, Claimable
<1>10. ASSUME NEW w \in Worker, Bind(w) PROVE CurrentRun'
  BY <1>10 DEF Bind, Goto
<1>11. ASSUME NEW w \in Worker, CheckCanceled(w) \/ CheckBeforeFail(w) \/ Recheck(w)
       PROVE CurrentRun'
  BY <1>11 DEF CheckCanceled, CheckBeforeFail, Recheck, Goto
<1>12. ASSUME NEW w \in Worker, UpdateProgress(w) PROVE CurrentRun'
  BY <1>12 DEF UpdateProgress
<1>13. ASSUME NEW w \in Worker, HandlerReturns(w) PROVE CurrentRun'
  BY <1>13 DEF HandlerReturns, Goto, ResultDropped
<1>14. ASSUME NEW w \in Worker, MarkSucceeded(w) PROVE CurrentRun'
  BY <1>14 DEF MarkSucceeded, Goto, StillRunning
<1>15. ASSUME NEW w \in Worker, MarkFailedRead(w) PROVE CurrentRun'
  BY <1>15 DEF MarkFailedRead, Goto
<1>16. ASSUME NEW w \in Worker, MarkFailedWrite(w) PROVE CurrentRun'
  BY <1>16 DEF MarkFailedWrite, Goto, StillRunning
<1>17. ASSUME NEW w \in Worker, Unbind(w) PROVE CurrentRun'
  BY <1>17 DEF Unbind, Goto
<1>18. ASSUME NEW w \in Worker, DatabaseFails(w) PROVE CurrentRun'
  BY <1>18 DEF DatabaseFails, Goto
<1>19. CASE Restart
  BY <1>19 DEF Restart, LoseMemory, Recovered
<1>20. CASE RestartUnrecovered
  BY <1>20 DEF RestartUnrecovered, LoseMemory
<1>21. CASE UNCHANGED vars
  BY <1>21 DEF vars
<1> QED
  BY <1>1, <1>2, <1>3, <1>4, <1>5, <1>6, <1>7, <1>8, <1>9, <1>10, <1>11,
     <1>12, <1>13, <1>14, <1>15, <1>16, <1>17, <1>18, <1>19, <1>20, <1>21
  DEF Next, Common, WorkerStep, CancelStep

\* Bind replaces only the entry of an execution that can no longer write, and
\* Unbind removes only its own.
LEMMA SignalStep ==
  TypeOK /\ Shape /\ Exclusive /\ Signalable /\ [Next]_vars => Signalable'
<1> SUFFICES ASSUME TypeOK, Shape, Exclusive, Signalable, [Next]_vars PROVE Signalable'
  OBVIOUS
<1> USE DEF TypeOK, Status, Shape, WorkerShape, BindShape, Signalable
<1> USE DEF rowVars, workVars, histVars
<1>1. ASSUME NEW t \in Task, Enqueued(t) PROVE Signalable'
  BY <1>1 DEF Enqueued, Enqueue, MuFree
<1>2. ASSUME NEW t \in Task, BackoffElapses(t) PROVE Signalable'
  BY <1>2 DEF BackoffElapses
<1>3. ASSUME NEW t \in Task, CancelRead(t) PROVE Signalable'
  BY <1>3 DEF CancelRead
<1>4. CASE CancelCommit
  BY <1>4 DEF CancelCommit
<1>5. CASE CancelSignal
  BY <1>5 DEF CancelSignal
<1>6. CASE CancelFails
  BY <1>6 DEF CancelFails
<1>7. ASSUME NEW t \in Task, Retry(t) PROVE Signalable'
  BY <1>7 DEF Retry
<1>8. ASSUME NEW w \in Worker, StartWorker(w) \/ WorkerLeaves(w)
       PROVE Signalable'
  BY <1>8 DEF StartWorker, WorkerLeaves, Goto
<1>9. ASSUME NEW w \in Worker, NEW t \in Task, Claim(w, t) PROVE Signalable'
  BY <1>9 DEF Claim, Goto
<1>10. ASSUME NEW w \in Worker, Bind(w) PROVE Signalable'
  BY <1>10 DEF Bind, Goto, Exclusive, Executors, Effective
<1>11. ASSUME NEW w \in Worker, CheckCanceled(w) \/ CheckBeforeFail(w) \/ Recheck(w)
       PROVE Signalable'
  BY <1>11 DEF CheckCanceled, CheckBeforeFail, Recheck, Goto
<1>12. ASSUME NEW w \in Worker, UpdateProgress(w) PROVE Signalable'
  BY <1>12 DEF UpdateProgress
<1>13. ASSUME NEW w \in Worker, HandlerReturns(w) PROVE Signalable'
  BY <1>13 DEF HandlerReturns, Goto
<1>14. ASSUME NEW w \in Worker, MarkSucceeded(w) PROVE Signalable'
  BY <1>14 DEF MarkSucceeded, Goto
<1>15. ASSUME NEW w \in Worker, MarkFailedRead(w) PROVE Signalable'
  BY <1>15 DEF MarkFailedRead, Goto
<1>16. ASSUME NEW w \in Worker, MarkFailedWrite(w) PROVE Signalable'
  BY <1>16 DEF MarkFailedWrite, Goto
<1>17. ASSUME NEW w \in Worker, Unbind(w) PROVE Signalable'
  BY <1>17 DEF Unbind, Goto, OwnEntry
<1>18. ASSUME NEW w \in Worker, DatabaseFails(w) PROVE Signalable'
  BY <1>18 DEF DatabaseFails, Goto
<1>19. CASE Restart
  BY <1>19 DEF Restart, LoseMemory
<1>20. CASE RestartUnrecovered
  BY <1>20 DEF RestartUnrecovered, LoseMemory
<1>21. CASE UNCHANGED vars
  BY <1>21 DEF vars
<1> QED
  BY <1>1, <1>2, <1>3, <1>4, <1>5, <1>6, <1>7, <1>8, <1>9, <1>10, <1>11,
     <1>12, <1>13, <1>14, <1>15, <1>16, <1>17, <1>18, <1>19, <1>20, <1>21
  DEF Next, Common, WorkerStep, CancelStep

\* The cancel holds mu from its commit to the signal, and the signal finds the
\* cancel function of every execution that is not cancelled yet.
LEMMA CancelStepReaches ==
  TypeOK /\ Shape /\ Signalable /\ CancelReachesHandler /\ [Next]_vars => CancelReachesHandler'
<1> SUFFICES ASSUME TypeOK, Shape, Signalable, CancelReachesHandler, [Next]_vars PROVE CancelReachesHandler'
  OBVIOUS
<1> USE DEF TypeOK, Status, Shape, WorkerShape, MuShape, CancelReachesHandler
<1> USE DEF rowVars, workVars, histVars
<1>1. ASSUME NEW t \in Task, Enqueued(t) PROVE CancelReachesHandler'
  BY <1>1 DEF Enqueued, Enqueue
<1>2. ASSUME NEW t \in Task, BackoffElapses(t) PROVE CancelReachesHandler'
  BY <1>2 DEF BackoffElapses
<1>3. ASSUME NEW t \in Task, CancelRead(t) PROVE CancelReachesHandler'
  BY <1>3 DEF CancelRead, MuFree
<1>4. CASE CancelCommit
  BY <1>4 DEF CancelCommit
<1>5. CASE CancelSignal
  <2>1. cx.task \in Task
    BY <1>5 DEF CancelSignal
  <2>2. \A v \in Worker : cancelled[v] \/ bind[cx.task] = v => cancelled'[v]
    BY <1>5 DEF CancelSignal
  <2>3. UNCHANGED <<status, overlap, job, pc>>
    BY <1>5 DEF CancelSignal
  <2> QED  BY <2>1, <2>2, <2>3 DEF Signalable
<1>6. CASE CancelFails
  BY <1>6 DEF CancelFails
<1>7. ASSUME NEW t \in Task, Retry(t) PROVE CancelReachesHandler'
  BY <1>7 DEF Retry
<1>8. ASSUME NEW w \in Worker, StartWorker(w) \/ WorkerLeaves(w)
       PROVE CancelReachesHandler'
  BY <1>8 DEF StartWorker, WorkerLeaves, Goto
<1>9. ASSUME NEW w \in Worker, NEW t \in Task, Claim(w, t)
       PROVE CancelReachesHandler'
  BY <1>9 DEF Claim, Goto
<1>10. ASSUME NEW w \in Worker, Bind(w) PROVE CancelReachesHandler'
  BY <1>10 DEF Bind, Goto
<1>11. ASSUME NEW w \in Worker, CheckCanceled(w) \/ CheckBeforeFail(w) \/ Recheck(w)
       PROVE CancelReachesHandler'
  BY <1>11 DEF CheckCanceled, CheckBeforeFail, Recheck, Goto
<1>12. ASSUME NEW w \in Worker, UpdateProgress(w) PROVE CancelReachesHandler'
  BY <1>12 DEF UpdateProgress
<1>13. ASSUME NEW w \in Worker, HandlerReturns(w) PROVE CancelReachesHandler'
  BY <1>13 DEF HandlerReturns, Goto
<1>14. ASSUME NEW w \in Worker, MarkSucceeded(w) PROVE CancelReachesHandler'
  BY <1>14 DEF MarkSucceeded, Goto
<1>15. ASSUME NEW w \in Worker, MarkFailedRead(w) PROVE CancelReachesHandler'
  BY <1>15 DEF MarkFailedRead, Goto
<1>16. ASSUME NEW w \in Worker, MarkFailedWrite(w) PROVE CancelReachesHandler'
  BY <1>16 DEF MarkFailedWrite, Goto
<1>17. ASSUME NEW w \in Worker, Unbind(w) PROVE CancelReachesHandler'
  BY <1>17 DEF Unbind, Goto
<1>18. ASSUME NEW w \in Worker, DatabaseFails(w) PROVE CancelReachesHandler'
  BY <1>18 DEF DatabaseFails, Goto
<1>19. CASE Restart
  BY <1>19 DEF Restart, LoseMemory
<1>20. CASE RestartUnrecovered
  BY <1>20 DEF RestartUnrecovered, LoseMemory
<1>21. CASE UNCHANGED vars
  BY <1>21 DEF vars
<1> QED
  BY <1>1, <1>2, <1>3, <1>4, <1>5, <1>6, <1>7, <1>8, <1>9, <1>10, <1>11,
     <1>12, <1>13, <1>14, <1>15, <1>16, <1>17, <1>18, <1>19, <1>20, <1>21
  DEF Next, Common, WorkerStep, CancelStep

\* Without a database failure an execution leaves its row only by ending it, or
\* after the row was canceled.
LEMMA ExecutorStep ==
  TypeOK /\ Shape /\ RunningHasExecutor /\ [Next]_vars => RunningHasExecutor'
<1> SUFFICES ASSUME TypeOK, Shape, RunningHasExecutor, [Next]_vars PROVE RunningHasExecutor'
  OBVIOUS
<1> USE TaskCenterAssumption
<1> USE DEF TypeOK, Status, Shape, WorkerShape, MuShape, BindShape
<1> USE DEF RunningHasExecutor, Executors, Effective
<1> USE DEF rowVars, workVars, histVars
<1>1. ASSUME NEW t \in Task, Enqueued(t) PROVE RunningHasExecutor'
  BY <1>1 DEF Enqueued, Enqueue
<1>2. ASSUME NEW t \in Task, BackoffElapses(t) PROVE RunningHasExecutor'
  BY <1>2 DEF BackoffElapses
<1>3. ASSUME NEW t \in Task, CancelRead(t) PROVE RunningHasExecutor'
  BY <1>3 DEF CancelRead
<1>4. CASE CancelCommit
  BY <1>4 DEF CancelCommit
<1>5. CASE CancelSignal
  <2>1. status[cx.task] = "canceled"
    BY <1>5 DEF CancelSignal
  <2>2. \A v \in Worker : cancelled'[v] => cancelled[v] \/ job[v] = cx.task
    BY <1>5 DEF CancelSignal
  <2>3. UNCHANGED <<status, job, pc, faults>>
    BY <1>5 DEF CancelSignal
  <2> QED  BY <2>1, <2>2, <2>3
<1>6. CASE CancelFails
  BY <1>6 DEF CancelFails
<1>7. ASSUME NEW t \in Task, Retry(t) PROVE RunningHasExecutor'
  BY <1>7 DEF Retry
<1>8. ASSUME NEW w \in Worker, StartWorker(w) \/ WorkerLeaves(w)
       PROVE RunningHasExecutor'
  BY <1>8 DEF StartWorker, WorkerLeaves, Goto
<1>9. ASSUME NEW w \in Worker, NEW t \in Task, Claim(w, t)
       PROVE RunningHasExecutor'
  BY <1>9 DEF Claim, Goto, Claimable
<1>10. ASSUME NEW w \in Worker, Bind(w) PROVE RunningHasExecutor'
  BY <1>10 DEF Bind, Goto
<1>11. ASSUME NEW w \in Worker, CheckCanceled(w) \/ CheckBeforeFail(w) \/ Recheck(w)
       PROVE RunningHasExecutor'
  BY <1>11 DEF CheckCanceled, CheckBeforeFail, Recheck, Goto
<1>12. ASSUME NEW w \in Worker, UpdateProgress(w) PROVE RunningHasExecutor'
  BY <1>12 DEF UpdateProgress
<1>13. ASSUME NEW w \in Worker, HandlerReturns(w) PROVE RunningHasExecutor'
  BY <1>13 DEF HandlerReturns, Goto, ResultDropped
<1>14. ASSUME NEW w \in Worker, MarkSucceeded(w) PROVE RunningHasExecutor'
  BY <1>14 DEF MarkSucceeded, Goto, StillRunning
<1>15. ASSUME NEW w \in Worker, MarkFailedRead(w) PROVE RunningHasExecutor'
  BY <1>15 DEF MarkFailedRead, Goto, StillRunning
<1>16. ASSUME NEW w \in Worker, MarkFailedWrite(w) PROVE RunningHasExecutor'
  BY <1>16 DEF MarkFailedWrite, Goto, StillRunning
<1>17. ASSUME NEW w \in Worker, Unbind(w) PROVE RunningHasExecutor'
  BY <1>17 DEF Unbind, Goto
<1>18. ASSUME NEW w \in Worker, DatabaseFails(w) PROVE RunningHasExecutor'
  BY <1>18 DEF DatabaseFails, Goto
<1>19. CASE Restart
  BY <1>19 DEF Restart, LoseMemory, Recovered
<1>20. CASE RestartUnrecovered
  BY <1>20 DEF RestartUnrecovered, LoseMemory
<1>21. CASE UNCHANGED vars
  BY <1>21 DEF vars
<1> QED
  BY <1>1, <1>2, <1>3, <1>4, <1>5, <1>6, <1>7, <1>8, <1>9, <1>10, <1>11,
     <1>12, <1>13, <1>14, <1>15, <1>16, <1>17, <1>18, <1>19, <1>20, <1>21
  DEF Next, Common, WorkerStep, CancelStep

-----------------------------------------------------------------------------
(* The theorems.                                                           *)

\* Every step keeps the inductive invariant: each part by its own lemma.
LEMMA IInvStep == IInv /\ [Next]_vars => IInv'
  BY TypeStep, ShapeStep, BudgetStep, KeyStep, ExclusiveStep, RunStep, SignalStep,
     CancelStepReaches, ExecutorStep DEF IInv

\* The inductive invariant holds in every reachable state of the queue.
THEOREM Invariance == Spec => []IInv
  BY InitIInv, IInvStep, PTL DEF Spec

\* Every variable of the queue keeps its type; in particular no attempt beyond
\* max_attempts is ever recorded.
THEOREM TypeCorrect == Spec => []TypeOK
<1>1. IInv => TypeOK
  BY DEF IInv
<1> QED  BY Invariance, <1>1, PTL

\* Claim, requeue, recovery and cancellation never let two executions of a row be
\* able to write at once, unless a manual retry overtook one of them.
THEOREM ExecutionsAreExclusive == Spec => []ExclusiveExecution
<1>1. IInv => ExclusiveExecution
  BY DEF IInv, Exclusive, ExclusiveExecution
<1> QED  BY Invariance, <1>1, PTL

\* A row fails for good exactly when its attempts are used up.
THEOREM AttemptsAreBounded == Spec => []AttemptsBudget
<1>1. IInv => AttemptsBudget
  BY DEF IInv, Budget
<1> QED  BY Invariance, <1>1, PTL

\* Enqueue, Retry and the requeue of failed or interrupted rows never leave two
\* unfinished rows with one idempotency key.
THEOREM KeysAreUnique == Spec => []UniqueUnfinishedKey
<1>1. IInv => UniqueUnfinishedKey
  BY DEF IInv
<1> QED  BY Invariance, <1>1, PTL

\* A cancel that has returned reached every handler of its row, in whatever order
\* it met the binding of the cancel function.
THEOREM CancelIsDelivered == Spec => []CancelReachesHandler
<1>1. IInv => CancelReachesHandler
  BY DEF IInv
<1> QED  BY Invariance, <1>1, PTL

\* While the database works no row stays running without an execution to end it.
THEOREM NoOrphanWithoutFault == Spec => []RunningHasExecutor
<1>1. IInv => RunningHasExecutor
  BY DEF IInv
<1> QED  BY Invariance, <1>1, PTL

\* The outcome and the checkpoint of a row come from its current run, unless a
\* manual retry overtook an execution.
THEOREM ResultsAreCurrent == Spec => []ResultOfCurrentRun
<1>1. IInv => ResultOfCurrentRun
  BY DEF IInv, CurrentRun
<1> QED  BY Invariance, <1>1, PTL

\* A canceled or failed row leaves that status only by a manual retry, whatever
\* the workers, the recovery and the cancels do: none of their writes names a row
\* that is canceled or failed, except a second cancel of the same row.
THEOREM StoppedStay == Spec => StoppedUntilRetried
<1> DEFINE Stay == \A t \in Task : status[t] \in Stopped /\ status'[t] \notin Stopped =>
                     status'[t] = "pending" /\ gen'[t] = gen[t] + 1 /\ attempts'[t] = 0
<1>1. TypeOK /\ Next => Stay
  <2> SUFFICES ASSUME TypeOK, Next PROVE Stay
    OBVIOUS
  <2> USE DEF TypeOK, Status, Stopped, rowVars
  <2>1. ASSUME NEW u \in Task, Enqueued(u) PROVE Stay
    BY <2>1 DEF Enqueued, Enqueue
  <2>2. CASE UNCHANGED status
    BY <2>2
  <2>3. CASE CancelCommit
    BY <2>3 DEF CancelCommit
  <2>4. ASSUME NEW u \in Task, Retry(u) PROVE Stay
    BY <2>4 DEF Retry, AttemptsAfterRetry
  <2>5. ASSUME NEW w \in Worker, NEW u \in Task, Claim(w, u) PROVE Stay
    BY <2>5 DEF Claim, Claimable
  <2>6. ASSUME NEW w \in Worker, MarkSucceeded(w) PROVE Stay
    BY <2>6 DEF MarkSucceeded, StillRunning
  <2>7. ASSUME NEW w \in Worker, MarkFailedWrite(w) PROVE Stay
    BY <2>7 DEF MarkFailedWrite, StillRunning
  <2>8. CASE Restart
    BY <2>8 DEF Restart, Recovered
  <2>9. ASSUME NEW u \in Task, BackoffElapses(u) \/ CancelRead(u) PROVE UNCHANGED status
    BY <2>9 DEF BackoffElapses, CancelRead
  <2>10. CASE CancelSignal \/ CancelFails \/ RestartUnrecovered
    BY <2>2, <2>10 DEF CancelSignal, CancelFails, RestartUnrecovered
  <2>11. ASSUME NEW w \in Worker, StartWorker(w) \/ WorkerLeaves(w) \/ Bind(w)
                \/ CheckCanceled(w) \/ UpdateProgress(w) \/ HandlerReturns(w)
         PROVE UNCHANGED status
    BY <2>11 DEF StartWorker, WorkerLeaves, Bind, CheckCanceled, UpdateProgress, HandlerReturns
  <2>12. ASSUME NEW w \in Worker, CheckBeforeFail(w) \/ MarkFailedRead(w) \/ Recheck(w)
                \/ Unbind(w) \/ DatabaseFails(w)
         PROVE UNCHANGED status
    BY <2>12 DEF CheckBeforeFail, MarkFailedRead, Recheck, Unbind, DatabaseFails
  <2> QED
    BY <2>1, <2>2, <2>3, <2>4, <2>5, <2>6, <2>7, <2>8, <2>9, <2>10, <2>11, <2>12
    DEF Next, Common, WorkerStep, CancelStep
<1>2. TypeOK /\ [Next]_vars => [Stay]_vars
  BY <1>1
<1> QED  BY <1>2, TypeCorrect, PTL DEF Spec, StoppedUntilRetried
=============================================================================
