\* One row, two workers.
SPECIFICATION Spec
CONSTANTS
  Task = {t1}
  Worker = {w1, w2}
  Key = {}
  NoKey = NoKey
  NoTask = NoTask
  NoWorker = NoWorker
  MaxLimit = 1
  MaxRetries = 1
  MaxRestarts = 0
  MaxFaults = 0
SYMMETRY Symmetry
CHECK_DEADLOCK FALSE
INVARIANTS OldRunNeverEndsNewRun
