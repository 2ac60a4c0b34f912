\* One row, two workers: two retries, a restart and a database failure.  Or two rows
\* that may share the one idempotency key, with one retry.
SPECIFICATION Spec
CONSTANTS
  Task = {t1, t2}
  Worker = {w1, w2}
  Key = {k1}
  NoKey = NoKey
  NoTask = NoTask
  NoWorker = NoWorker
  MaxLimit = 2
  MaxRetries = 2
  MaxRestarts = 1
  MaxFaults = 1
SYMMETRY Symmetry
CONSTRAINT FewWhenBoth
CHECK_DEADLOCK FALSE
INVARIANTS
  TypeOK
  ExclusiveExecution
  AttemptsBudget
  CancelReachesHandler
  RunningHasExecutor
  ResultOfCurrentRun
  UniqueUnfinishedKey
PROPERTIES
  StoppedUntilRetried
  IsLedger
