-------------------------- MODULE ScanQueueProofs --------------------------
(***************************************************************************)
(* Theorems about ScanQueue, for every number of rows, retries, restarts   *)
(* and failed writes.  IInv is the inductive invariant: each part says     *)
(* what one participant may rely on, and has a lemma of its own.           *)
(***************************************************************************)
EXTENDS ScanQueue, TLAPS

\* Between its two mirror writes the worker holds a row, and until it writes the
\* final status nobody else touches that row; recovery holds pending rows.
Held ==
  /\ pc \in {"syncStart", "take", "exec", "reread", "syncEnd"} => cur \in Row
  /\ pc \in {"syncStart", "take", "exec"} => scan[cur] = "running"
  /\ pc = "recovering" => \A r \in cur : scan[r] = "pending"

\* Without a failed write, a running row is in the hands of the worker.
Serial ==
  faults = 0 =>
    /\ pc \in {"syncStart", "take", "exec"} => \A r \in Row : scan[r] = "running" => cur = r
    /\ pc \in {"recovering", "look", "empty", "wait", "reread", "syncEnd"} =>
         \A r \in Row : scan[r] # "running"

\* Also before the worker sleeps, from the query that found nothing.
Noticed ==
  pc \in {"empty", "wait"} /\ faults = 0 =>
    \A r \in Row \ Unpayloaded :
      scan[r] = "pending" => signal \/ enq[r] # "idle" \/ ret[r] # "idle"

\* What is about to be mirrored is not ahead of the row either.
Truthful ==
  /\ MirrorNeverInvents
  /\ pc = "syncStart" => read = "running"
  /\ pc = "syncEnd" /\ read = "completed" => scan[cur] = "completed"

IInv == TypeOK /\ Held /\ Serial /\ Noticed /\ Truthful

-----------------------------------------------------------------------------

\* The initial state satisfies every part.
LEMMA InitIInv == Init => IInv
<1> SUFFICES ASSUME Init PROVE IInv
  OBVIOUS
<1> USE ScanQueueAssumption
<1>1. TypeOK
  <2>1. scan \in [Row -> {"absent", "pending", "running"}] /\ mirror = scan
    BY DEF Init
  <2>2. enq = [r \in Row |-> "idle"] /\ can = enq /\ ret = enq
    BY DEF Init
  <2>3. /\ scan \in [Row -> {"absent"} \cup Active \cup Finished]
        /\ mirror \in [Row -> {"absent", "succeeded", "failed", "canceled"} \cup Active]
    BY <2>1 DEF Active, Finished
  <2>4. /\ enq \in [Row -> {"idle", "sync", "wake"}]
        /\ ret \in [Row -> {"idle", "sync", "wake"}]
        /\ can \in [Row -> {"idle", "forget", "sync"}]
    BY <2>2
  <2>5. target \in [Row -> BOOLEAN] /\ signal \in BOOLEAN
    BY DEF Init
  <2>6. pc = "down" /\ cur = NoRow /\ read = "absent" /\ sched = "idle"
    BY DEF Init
  <2>7. retries \in 0..MaxRetries /\ restarts \in 0..MaxRestarts /\ faults \in 0..MaxFaults
    BY DEF Init
  <2> QED  BY <2>3, <2>4, <2>5, <2>6, <2>7 DEF TypeOK
<1>2. Held /\ Serial /\ Noticed
  BY DEF Init, Held, Serial, Noticed
<1>3. Truthful
  <2>1. \A r \in Row : mirror[r] # "succeeded"
    BY DEF Init, Row
  <2> QED  BY <2>1 DEF Init, Truthful, MirrorNeverInvents
<1> QED  BY <1>1, <1>2, <1>3 DEF IInv

\* Every step keeps the types.
LEMMA TypeStep == TypeOK /\ Held /\ [Next]_vars => TypeOK'
<1> SUFFICES ASSUME TypeOK, Held, [Next]_vars PROVE TypeOK'
  OBVIOUS
<1> USE ScanQueueAssumption DEF TypeOK, Held, Active, Finished, reqVars, boundVars
<1>1. ASSUME NEW q \in Row, Enqueue(q) \/ ScheduledEnqueue(q) PROVE TypeOK'
  BY <1>1 DEF Enqueue, ScheduledEnqueue, Create
<1>2. ASSUME NEW q \in Row, CancelCommit(q) PROVE TypeOK'
  BY <1>2 DEF CancelCommit, Cancelable, Up
<1>3. ASSUME NEW q \in Row, RetryCommit(q) PROVE TypeOK'
  BY <1>3 DEF RetryCommit, Retriable
<1>4. ASSUME NEW q \in Row, EnqueueSync(q) \/ CancelSync(q) \/ RetrySync(q)
       PROVE TypeOK'
  BY <1>4 DEF EnqueueSync, CancelSync, RetrySync, SyncTask, SyncLegacy, Normal
<1>5. ASSUME NEW q \in Row, EnqueueWake(q) PROVE TypeOK'
  BY <1>5 DEF EnqueueWake, RememberTarget, Wakes
<1>6. ASSUME NEW q \in Row, CancelForget(q) PROVE TypeOK'
  BY <1>6 DEF CancelForget
<1>7. ASSUME NEW q \in Row, RetryWake(q) PROVE TypeOK'
  BY <1>7 DEF RetryWake, RememberTarget, Wakes
<1>8. CASE ScheduledCheck
  BY <1>8 DEF ScheduledCheck
<1>9. ASSUME NEW q \in Row, NextPending(q) PROVE TypeOK'
  BY <1>9 DEF NextPending, Oldest
<1>10. CASE NothingPending
  BY <1>10 DEF NothingPending
<1>11. CASE Block \/ WaitSignal
  BY <1>11 DEF Block, WaitSignal
<1>12. CASE SyncStart
  BY <1>12 DEF SyncStart, SyncTask, SyncLegacy, Normal
<1>13. CASE TakeTarget
  BY <1>13 DEF TakeTarget, MarkError
<1>14. CASE MarkErrorReads
  BY <1>14 DEF MarkErrorReads
<1>15. ASSUME NEW s \in {"completed", "error"}, ScanEnds(s) PROVE TypeOK'
  BY <1>15 DEF ScanEnds
<1>16. ASSUME NEW s \in {"completed", "error"}, FinalWriteFails(s) PROVE TypeOK'
  BY <1>16 DEF FinalWriteFails
<1>17. CASE SyncEnd
  BY <1>17 DEF SyncEnd, SyncTask, SyncLegacy, Normal
<1>18. CASE RecoverRows
  BY <1>18 DEF RecoverRows, Stale
<1>19. CASE RecoverTargets
  BY <1>19 DEF RecoverTargets
<1>20. CASE Crash
  <2>1. enq' = [r \in Row |-> "idle"] /\ can' = enq' /\ ret' = enq'
    BY <1>20 DEF Crash
  <2>2. /\ enq' \in [Row -> {"idle", "sync", "wake"}]
        /\ ret' \in [Row -> {"idle", "sync", "wake"}]
        /\ can' \in [Row -> {"idle", "forget", "sync"}]
    BY <2>1
  <2>3. target' = [r \in Row |-> FALSE] /\ signal' = FALSE
    BY <1>20 DEF Crash
  <2>4. target' \in [Row -> BOOLEAN] /\ signal' \in BOOLEAN
    BY <2>3
  <2>5. restarts < MaxRestarts /\ restarts' = restarts + 1
    BY <1>20 DEF Crash
  <2>6. restarts' \in 0..MaxRestarts
    BY <2>5
  <2>7. pc' = "down" /\ cur' = NoRow /\ read' = "absent" /\ sched' = "idle"
    BY <1>20 DEF Crash
  <2>8. UNCHANGED <<scan, mirror, retries, faults>>
    BY <1>20 DEF Crash
  <2> QED  BY <2>2, <2>4, <2>6, <2>7, <2>8
<1>21. CASE UNCHANGED vars
  BY <1>21 DEF vars
<1> QED
  BY <1>1, <1>2, <1>3, <1>4, <1>5, <1>6, <1>7, <1>8, <1>9, <1>10, <1>11, <1>12,
     <1>13, <1>14, <1>15, <1>16, <1>17, <1>18, <1>19, <1>20, <1>21
  DEF Next, Request, WorkerStep, Boot

\* Nobody but the worker changes a running row: cancel wants a pending one, retry
\* an ended one.
LEMMA HeldStep == TypeOK /\ Held /\ [Next]_vars => Held'
<1> SUFFICES ASSUME TypeOK, Held, [Next]_vars PROVE Held'
  OBVIOUS
<1> USE ScanQueueAssumption DEF TypeOK, Held, Active, Finished, reqVars, boundVars
<1>1. ASSUME NEW q \in Row, Enqueue(q) \/ ScheduledEnqueue(q) PROVE Held'
  BY <1>1 DEF Enqueue, ScheduledEnqueue, Create
<1>2. ASSUME NEW q \in Row, CancelCommit(q) PROVE Held'
  BY <1>2 DEF CancelCommit, Cancelable, Up
<1>3. ASSUME NEW q \in Row, RetryCommit(q) PROVE Held'
  BY <1>3 DEF RetryCommit, Retriable
<1>4. ASSUME NEW q \in Row, EnqueueSync(q) \/ CancelSync(q) \/ RetrySync(q) PROVE Held'
  BY <1>4 DEF EnqueueSync, CancelSync, RetrySync, SyncTask, SyncLegacy, Normal
<1>5. ASSUME NEW q \in Row, EnqueueWake(q) PROVE Held'
  BY <1>5 DEF EnqueueWake, RememberTarget, Wakes
<1>6. ASSUME NEW q \in Row, CancelForget(q) PROVE Held'
  BY <1>6 DEF CancelForget
<1>7. ASSUME NEW q \in Row, RetryWake(q) PROVE Held'
  BY <1>7 DEF RetryWake, RememberTarget, Wakes
<1>8. CASE ScheduledCheck
  BY <1>8 DEF ScheduledCheck
<1>9. ASSUME NEW q \in Row, NextPending(q) PROVE Held'
  BY <1>9 DEF NextPending, Oldest
<1>10. CASE NothingPending
  BY <1>10 DEF NothingPending
<1>11. CASE Block \/ WaitSignal
  BY <1>11 DEF Block, WaitSignal
<1>12. CASE SyncStart
  BY <1>12 DEF SyncStart, SyncTask, SyncLegacy, Normal
<1>13. CASE TakeTarget
  BY <1>13 DEF TakeTarget, MarkError
<1>14. CASE MarkErrorReads
  BY <1>14 DEF MarkErrorReads
<1>15. ASSUME NEW s \in {"completed", "error"}, ScanEnds(s) PROVE Held'
  BY <1>15 DEF ScanEnds
<1>16. ASSUME NEW s \in {"completed", "error"}, FinalWriteFails(s) PROVE Held'
  BY <1>16 DEF FinalWriteFails
<1>17. CASE SyncEnd
  BY <1>17 DEF SyncEnd, SyncTask, SyncLegacy, Normal
<1>18. CASE RecoverRows
  BY <1>18 DEF RecoverRows, Stale
<1>19. CASE RecoverTargets
  BY <1>19 DEF RecoverTargets
<1>20. CASE Crash
  BY <1>20 DEF Crash
<1>21. CASE UNCHANGED vars
  BY <1>21 DEF vars
<1> QED
  BY <1>1, <1>2, <1>3, <1>4, <1>5, <1>6, <1>7, <1>8, <1>9, <1>10, <1>11, <1>12,
     <1>13, <1>14, <1>15, <1>16, <1>17, <1>18, <1>19, <1>20, <1>21
  DEF Next, Request, WorkerStep, Boot

\* A row becomes running in the hands of the worker, when no other row is.
LEMMA SerialStep == TypeOK /\ Held /\ Serial /\ [Next]_vars => Serial'
<1> SUFFICES ASSUME TypeOK, Held, Serial, [Next]_vars PROVE Serial'
  OBVIOUS
<1> USE ScanQueueAssumption DEF TypeOK, Held, Serial, reqVars, boundVars
<1>1. ASSUME NEW q \in Row, Enqueue(q) \/ ScheduledEnqueue(q) PROVE Serial'
  BY <1>1 DEF Enqueue, ScheduledEnqueue, Create
<1>2. ASSUME NEW q \in Row, CancelCommit(q) PROVE Serial'
  BY <1>2 DEF CancelCommit, Cancelable, Up
<1>3. ASSUME NEW q \in Row, RetryCommit(q) PROVE Serial'
  BY <1>3 DEF RetryCommit, Retriable
<1>4. ASSUME NEW q \in Row, EnqueueSync(q) \/ CancelSync(q) \/ RetrySync(q)
       PROVE Serial'
  BY <1>4 DEF EnqueueSync, CancelSync, RetrySync, SyncTask, SyncLegacy, Normal
<1>5. ASSUME NEW q \in Row, EnqueueWake(q) PROVE Serial'
  BY <1>5 DEF EnqueueWake, RememberTarget, Wakes
<1>6. ASSUME NEW q \in Row, CancelForget(q) PROVE Serial'
  BY <1>6 DEF CancelForget
<1>7. ASSUME NEW q \in Row, RetryWake(q) PROVE Serial'
  BY <1>7 DEF RetryWake, RememberTarget, Wakes
<1>8. CASE ScheduledCheck
  BY <1>8 DEF ScheduledCheck
<1>9. ASSUME NEW q \in Row, NextPending(q) PROVE Serial'
  BY <1>9 DEF NextPending, Oldest
<1>10. CASE NothingPending
  BY <1>10 DEF NothingPending
<1>11. CASE Block \/ WaitSignal
  BY <1>11 DEF Block, WaitSignal
<1>12. CASE SyncStart
  BY <1>12 DEF SyncStart, SyncTask, SyncLegacy, Normal
<1>13. CASE TakeTarget
  BY <1>13 DEF TakeTarget, MarkError
<1>14. CASE MarkErrorReads
  BY <1>14 DEF MarkErrorReads
<1>15. ASSUME NEW s \in {"completed", "error"}, ScanEnds(s) PROVE Serial'
  BY <1>15 DEF ScanEnds
<1>16. ASSUME NEW s \in {"completed", "error"}, FinalWriteFails(s) PROVE Serial'
  BY <1>16 DEF FinalWriteFails
<1>17. CASE SyncEnd
  BY <1>17 DEF SyncEnd, SyncTask, SyncLegacy, Normal
<1>18. CASE RecoverRows
  BY <1>18 DEF RecoverRows, Stale
<1>19. CASE RecoverTargets
  BY <1>19 DEF RecoverTargets
<1>20. CASE Crash
  BY <1>20 DEF Crash
<1>21. CASE UNCHANGED vars
  BY <1>21 DEF vars
<1> QED
  BY <1>1, <1>2, <1>3, <1>4, <1>5, <1>6, <1>7, <1>8, <1>9, <1>10, <1>11, <1>12,
     <1>13, <1>14, <1>15, <1>16, <1>17, <1>18, <1>19, <1>20, <1>21
  DEF Next, Request, WorkerStep, Boot

\* A request that makes a row pending after the worker looked has yet to signal.
LEMMA NoticedStep == TypeOK /\ Held /\ Noticed /\ [Next]_vars => Noticed'
<1> SUFFICES ASSUME TypeOK, Held, Noticed, [Next]_vars PROVE Noticed'
  OBVIOUS
<1> USE ScanQueueAssumption DEF TypeOK, Held, Noticed, reqVars, boundVars
<1>1. ASSUME NEW q \in Row, Enqueue(q) \/ ScheduledEnqueue(q) PROVE Noticed'
  BY <1>1 DEF Enqueue, ScheduledEnqueue, Create
<1>2. ASSUME NEW q \in Row, CancelCommit(q) PROVE Noticed'
  BY <1>2 DEF CancelCommit, Cancelable, Up
<1>3. ASSUME NEW q \in Row, RetryCommit(q) PROVE Noticed'
  BY <1>3 DEF RetryCommit, Retriable
<1>4. ASSUME NEW q \in Row, EnqueueSync(q) \/ CancelSync(q) \/ RetrySync(q)
       PROVE Noticed'
  BY <1>4 DEF EnqueueSync, CancelSync, RetrySync, SyncTask, SyncLegacy, Normal
<1>5. ASSUME NEW q \in Row, EnqueueWake(q) PROVE Noticed'
  BY <1>5 DEF EnqueueWake, RememberTarget, Wakes
<1>6. ASSUME NEW q \in Row, CancelForget(q) PROVE Noticed'
  BY <1>6 DEF CancelForget
<1>7. ASSUME NEW q \in Row, RetryWake(q) PROVE Noticed'
  BY <1>7 DEF RetryWake, RememberTarget, Wakes
<1>8. CASE ScheduledCheck
  BY <1>8 DEF ScheduledCheck
<1>9. ASSUME NEW q \in Row, NextPending(q) PROVE Noticed'
  BY <1>9 DEF NextPending, Oldest
<1>10. CASE NothingPending
  BY <1>10 DEF NothingPending
<1>11. CASE Block \/ WaitSignal
  BY <1>11 DEF Block, WaitSignal
<1>12. CASE SyncStart
  BY <1>12 DEF SyncStart, SyncTask, SyncLegacy, Normal
<1>13. CASE TakeTarget
  BY <1>13 DEF TakeTarget, MarkError
<1>14. CASE MarkErrorReads
  BY <1>14 DEF MarkErrorReads
<1>15. ASSUME NEW s \in {"completed", "error"}, ScanEnds(s) PROVE Noticed'
  BY <1>15 DEF ScanEnds
<1>16. ASSUME NEW s \in {"completed", "error"}, FinalWriteFails(s) PROVE Noticed'
  BY <1>16 DEF FinalWriteFails
<1>17. CASE SyncEnd
  BY <1>17 DEF SyncEnd, SyncTask, SyncLegacy, Normal
<1>18. CASE RecoverRows
  BY <1>18 DEF RecoverRows, Stale
<1>19. CASE RecoverTargets
  BY <1>19 DEF RecoverTargets
<1>20. CASE Crash
  BY <1>20 DEF Crash
<1>21. CASE UNCHANGED vars
  BY <1>21 DEF vars
<1> QED
  BY <1>1, <1>2, <1>3, <1>4, <1>5, <1>6, <1>7, <1>8, <1>9, <1>10, <1>11, <1>12,
     <1>13, <1>14, <1>15, <1>16, <1>17, <1>18, <1>19, <1>20, <1>21
  DEF Next, Request, WorkerStep, Boot

\* succeeded is mirrored only after completed was written, which nobody undoes.
LEMMA TruthfulStep == TypeOK /\ Held /\ Truthful /\ [Next]_vars => Truthful'
<1> SUFFICES ASSUME TypeOK, Held, Truthful, [Next]_vars PROVE Truthful'
  OBVIOUS
<1> USE ScanQueueAssumption DEF TypeOK, Held, Active, Finished
<1> USE DEF Truthful, MirrorNeverInvents, reqVars, boundVars
<1>1. ASSUME NEW q \in Row, Enqueue(q) \/ ScheduledEnqueue(q) PROVE Truthful'
  BY <1>1 DEF Enqueue, ScheduledEnqueue, Create
<1>2. ASSUME NEW q \in Row, CancelCommit(q) PROVE Truthful'
  BY <1>2 DEF CancelCommit, Cancelable, Up
<1>3. ASSUME NEW q \in Row, RetryCommit(q) PROVE Truthful'
  BY <1>3 DEF RetryCommit, Retriable
<1>4. ASSUME NEW q \in Row, EnqueueSync(q) \/ CancelSync(q) \/ RetrySync(q)
       PROVE Truthful'
  BY <1>4 DEF EnqueueSync, CancelSync, RetrySync, SyncTask, SyncLegacy, Normal
<1>5. ASSUME NEW q \in Row, EnqueueWake(q) PROVE Truthful'
  BY <1>5 DEF EnqueueWake, RememberTarget, Wakes
<1>6. ASSUME NEW q \in Row, CancelForget(q) PROVE Truthful'
  BY <1>6 DEF CancelForget
<1>7. ASSUME NEW q \in Row, RetryWake(q) PROVE Truthful'
  BY <1>7 DEF RetryWake, RememberTarget, Wakes
<1>8. CASE ScheduledCheck
  BY <1>8 DEF ScheduledCheck
<1>9. ASSUME NEW q \in Row, NextPending(q) PROVE Truthful'
  BY <1>9 DEF NextPending, Oldest
<1>10. CASE NothingPending
  BY <1>10 DEF NothingPending
<1>11. CASE Block \/ WaitSignal
  BY <1>11 DEF Block, WaitSignal
<1>12. CASE SyncStart
  BY <1>12 DEF SyncStart, SyncTask, SyncLegacy, Normal
<1>13. CASE TakeTarget
  BY <1>13 DEF TakeTarget, MarkError
<1>14. CASE MarkErrorReads
  BY <1>14 DEF MarkErrorReads
<1>15. ASSUME NEW s \in {"completed", "error"}, ScanEnds(s) PROVE Truthful'
  BY <1>15 DEF ScanEnds
<1>16. ASSUME NEW s \in {"completed", "error"}, FinalWriteFails(s) PROVE Truthful'
  BY <1>16 DEF FinalWriteFails
<1>17. CASE SyncEnd
  <2>1. cur \in Row /\ (read = "completed" => scan[cur] = "completed")
    BY <1>17 DEF SyncEnd
  <2>2. \A r \in Row : mirror'[r] = "succeeded" => scan[r] = "completed"
    <3>1. CASE mirror' = [mirror EXCEPT ![cur] = Normal(read)]
      <4>1. Normal(read) = "succeeded" => read = "completed"
        <5>1. read \notin {"completed", "error"} => Normal(read) = read
          BY DEF Normal
        <5>2. read = "error" => Normal(read) = "failed"
          BY DEF Normal
        <5>3. read # "succeeded"
          OBVIOUS
        <5> QED  BY <5>1, <5>2, <5>3
      <4> QED  BY <2>1, <3>1, <4>1
    <3>2. CASE UNCHANGED mirror
      BY <3>2
    <3> QED  BY <1>17, <3>1, <3>2 DEF SyncEnd, SyncTask, SyncLegacy
  <2> QED  BY <1>17, <2>2 DEF SyncEnd
<1>18. CASE RecoverRows
  BY <1>18 DEF RecoverRows, Stale
<1>19. CASE RecoverTargets
  BY <1>19 DEF RecoverTargets
<1>20. CASE Crash
  BY <1>20 DEF Crash
<1>21. CASE UNCHANGED vars
  BY <1>21 DEF vars
<1> QED
  BY <1>1, <1>2, <1>3, <1>4, <1>5, <1>6, <1>7, <1>8, <1>9, <1>10, <1>11, <1>12,
     <1>13, <1>14, <1>15, <1>16, <1>17, <1>18, <1>19, <1>20, <1>21
  DEF Next, Request, WorkerStep, Boot

-----------------------------------------------------------------------------

\* The inductive invariant holds in every reachable state of the scan queue.
THEOREM Invariance == Spec => []IInv
<1>1. IInv /\ [Next]_vars => IInv'
  BY TypeStep, HeldStep, SerialStep, NoticedStep, TruthfulStep DEF IInv
<1> QED  BY <1>1, InitIInv, PTL DEF Spec

\* Every variable keeps its type: mirrored statuses are those of the task center.
THEOREM TypeCorrect == Spec => []TypeOK
<1>1. IInv => TypeOK
  BY DEF IInv
<1> QED  BY <1>1, Invariance, PTL

\* However requests and the worker interleave, no wake-up is lost.
THEOREM WakeupsAreNotLost == Spec => []NoLostWakeup
<1>1. IInv => NoLostWakeup
  BY DEF IInv, Noticed, NoLostWakeup
<1> QED  BY <1>1, Invariance, PTL

\* Scans are serial, and none is left running by itself, across restarts.
THEOREM ScansAreSerial == Spec => []RunningIsHeld
<1>1. IInv => RunningIsHeld
  BY DEF IInv, TypeOK, Serial, RunningIsHeld, Up
<1> QED  BY <1>1, Invariance, PTL

\* The task center never shows a scan as succeeded that is not completed.
THEOREM MirrorIsNotAhead == Spec => []MirrorNeverInvents
<1>1. IInv => MirrorNeverInvents
  BY DEF IInv, Truthful
<1> QED  BY <1>1, Invariance, PTL

\* Only a retry brings a canceled row back: the final writes of the worker and of
\* recovery name their row by id alone, but never a canceled one.
THEOREM CanceledStay == Spec => CanceledUntilRetried
<1> DEFINE Stays == \A r \in Row : scan[r] = "canceled" /\ scan'[r] # "canceled" =>
                     scan'[r] = "pending" /\ ret'[r] = "sync"
<1>1. IInv /\ [Next]_vars => [Stays]_vars
  <2> SUFFICES ASSUME IInv, Next PROVE Stays
    OBVIOUS
  <2> USE DEF IInv, TypeOK, Held
  <2>1. ASSUME NEW q \in Row, Enqueue(q) \/ ScheduledEnqueue(q) \/ CancelCommit(q) PROVE Stays
    BY <2>1 DEF Enqueue, ScheduledEnqueue, Create, CancelCommit
  <2>2. ASSUME NEW q \in Row, RetryCommit(q) PROVE Stays
    BY <2>2 DEF RetryCommit
  <2>3. ASSUME NEW q \in Row, Request(q) PROVE Stays
    BY <2>3 DEF Request, EnqueueSync, EnqueueWake, CancelForget, CancelSync, RetrySync, RetryWake
  <2>4. ASSUME NEW q \in Row, NextPending(q) PROVE Stays
    BY <2>4 DEF NextPending, Oldest
  <2>5. CASE TakeTarget \/ \E s \in {"completed", "error"} : ScanEnds(s)
    BY <2>5 DEF TakeTarget, MarkError, ScanEnds
  <2>6. CASE RecoverRows \/ RecoverTargets
    BY <2>6 DEF RecoverRows, Stale, RecoverTargets
  <2>7. CASE UNCHANGED scan
    BY <2>7
  <2> QED
    BY <2>1, <2>2, <2>3, <2>4, <2>5, <2>6, <2>7
    DEF Next, WorkerStep, Boot, NothingPending, Block, WaitSignal, SyncStart, MarkErrorReads,
        FinalWriteFails, SyncEnd, ScheduledCheck, Crash
<1> QED  BY <1>1, Invariance, PTL DEF Spec, CanceledUntilRetried
=============================================================================
