SPECIFICATION PoolSpec
CONSTANTS
  Task = {t1, t2}
  Type = {scan}
  Pass = {poll, wake}
  Poll = poll
  WakeLoop = wake
  Worker <- MCWorker
  PassOf <- MCPassOf
  Serves <- MCServes
  Kind <- MCKind
  Concurrency <- MCConcurrency
  Key = {}
  NoKey = NoKey
  NoTask = NoTask
  NoWorker = NoWorker
  MaxLimit = 1
  MaxRetries = 0
  MaxRestarts = 0
  MaxFaults = 0
INVARIANTS TypeLimit
CHECK_DEADLOCK FALSE
