------------------------------ MODULE TaskPools ------------------------------
(***************************************************************************)
(* WorkerRegistry of internal/tasks/worker.go around TaskCenter: the       *)
(* passes (RunPending) that start a pool of goroutines per task type and   *)
(* wait for all of them, the polling loop of main.go that starts a pass    *)
(* every two seconds, and Wake, which coalesces the signals of callers     *)
(* that have just enqueued into one more pass of wakeLoop.                 *)
(***************************************************************************)
EXTENDS TaskCenter

CONSTANTS Type,         \* registered task types
          Kind,         \* [Task -> Type], the type of a row
          Pass,         \* callers of RunPending
          Poll,         \* startTaskWorkers
          WakeLoop,     \* wakeLoop
          PassOf,       \* [Worker -> Pass], who starts the goroutine
          Serves,       \* [Worker -> Type], its spec
          Concurrency   \* [Type -> Nat], the limit given to Register

ASSUME TaskPoolsAssumption ==
  /\ Kind \in [Task -> Type] /\ PassOf \in [Worker -> Pass] /\ Serves \in [Worker -> Type]
  /\ \A p \in Pass, y \in Type :
       Cardinality({w \in Worker : PassOf[w] = p /\ Serves[w] = y}) = Concurrency[y]

VARIABLES active,       \* passes between their start and their wg.Wait
          launch,       \* goroutines a pass has yet to start
          wakePending,  \* wakePending; wakeRunning is WakeLoop \in active
          owed          \* rows whose creator has yet to call Wake

poolVars == <<active, launch, wakePending, owed>>
allVars  == <<vars, poolVars>>

Members(p) == {w \in Worker : PassOf[w] = p}

\* wg.Wait returns: every goroutine of the pass was started and has returned.
Drained(p) == \A w \in Members(p) : w \notin launch /\ pc[w] = "out"

-----------------------------------------------------------------------------

PoolInit == /\ Init
            /\ active = {} /\ launch = {} /\ wakePending = FALSE /\ owed = {}

\* A row becomes pending at a caller that will call Wake when it is committed.
Create(t) == /\ Enqueued(t) \/ Retry(t)
             /\ owed' = owed \cup {t}
             /\ UNCHANGED <<active, launch, wakePending>>

\* A signal during a pass sets wakePending.
Remembered_Lost == FALSE
Remembered == TRUE

Wake(t) ==
  /\ t \in owed /\ owed' = owed \ {t}
  /\ IF WakeLoop \in active
     THEN wakePending' = (wakePending \/ Remembered) /\ UNCHANGED <<active, launch>>
     ELSE /\ active' = active \cup {WakeLoop}
          /\ launch' = launch \cup Members(WakeLoop)
          /\ UNCHANGED wakePending
  /\ UNCHANGED vars

\* wakeLoop after a pass: one more round for the signals of the meantime.
WakeRound ==
  /\ WakeLoop \in active /\ Drained(WakeLoop)
  /\ IF wakePending
     THEN launch' = launch \cup Members(WakeLoop) /\ UNCHANGED active
     ELSE active' = active \ {WakeLoop} /\ UNCHANGED launch
  /\ wakePending' = FALSE
  /\ UNCHANGED <<vars, owed>>

\* The ticker of startTaskWorkers (or another caller of RunPending).
StartPass(p) ==
  /\ p \in Pass \ {WakeLoop} /\ p \notin active
  /\ active' = active \cup {p} /\ launch' = launch \cup Members(p)
  /\ UNCHANGED <<vars, wakePending, owed>>

EndPass(p) ==
  /\ p \in active \ {WakeLoop} /\ Drained(p)
  /\ active' = active \ {p}
  /\ UNCHANGED <<vars, launch, wakePending, owed>>

Launch(w) ==
  /\ w \in launch /\ launch' = launch \ {w}
  /\ StartWorker(w)
  /\ UNCHANGED <<active, wakePending, owed>>

\* ClaimNext asks for rows of the goroutine's own type ...
ClaimOwnType(w, t) == Kind[t] = Serves[w] /\ Claim(w, t) /\ UNCHANGED poolVars

\* ... and the goroutine returns only when there is none.
Leave(w) ==
  /\ \A t \in Task : Kind[t] = Serves[w] => ~Claimable(t)
  /\ WorkerLeaves(w) /\ UNCHANGED poolVars

PoolRestart ==
  /\ Restart \/ RestartUnrecovered
  /\ active' = {} /\ launch' = {} /\ wakePending' = FALSE /\ owed' = {}

PoolNext ==
  \/ Common /\ UNCHANGED poolVars
  \/ \E t \in Task : Create(t) \/ Wake(t)
  \/ WakeRound
  \/ \E p \in Pass : StartPass(p) \/ EndPass(p)
  \/ \E w \in Worker : Launch(w) \/ Leave(w)
  \/ \E w \in Worker, t \in Task : ClaimOwnType(w, t)
  \/ PoolRestart

PoolSpec == PoolInit /\ [][PoolNext]_allVars

Goroutine(w) ==
  \/ WorkerStep(w) /\ UNCHANGED poolVars
  \/ Launch(w) \/ Leave(w) \/ \E t \in Task : ClaimOwnType(w, t)

\* The Go scheduler runs every goroutine, clocks advance, and handlers return.
\* Nothing is assumed of who calls Cancel or Retry, of faults or of restarts.
Fairness ==
  /\ \A w \in Worker : WF_allVars(Goroutine(w))
  /\ WF_allVars(WakeRound)
  /\ WF_allVars(\E p \in Pass : EndPass(p))
  /\ WF_allVars(StartPass(Poll))
  /\ WF_allVars(CancelStep /\ UNCHANGED poolVars)
  /\ \A t \in Task : WF_allVars(Wake(t))
  /\ \A t \in Task : WF_allVars(BackoffElapses(t) /\ UNCHANGED poolVars)

LivePoolSpec == PoolSpec /\ Fairness

-----------------------------------------------------------------------------

\* Every pending row is eventually executed to an end or cancelled, also when a
\* requeue by MarkFailed, a restart or a lost wake-up comes in between: no row
\* waits for ever behind a pass that never starts or never finishes.
PendingEnds ==
  \A t \in Task :
    status[t] = "pending" ~> (status[t] \in {"succeeded", "failed", "canceled"} \/ faults > 0)

\* Wake alone is enough for a row that has just been committed: the signal is
\* never absorbed by a pass that has already looked for work of its type.
WokenRowIsClaimed ==
  \A t \in Task : (status[t] = "pending" /\ t \notin owed) ~> status[t] # "pending"

\* "claims and executes up to the concurrency limit of each type".
TypeLimit ==
  \A y \in Type :
    Cardinality({w \in Worker : Serves[w] = y /\ pc[w] = "handler"}) <= Concurrency[y]
=============================================================================
