SPECIFICATION LivePoolSpec
CONSTANTS
  Task = {t1}
  Type = {scan}
  Pass = {poll, wake}
  Poll = poll
  WakeLoop = wake
  Worker <- MCWorker
  PassOf <- MCPassOf
  Serves <- MCServes
  Kind <- MCKind
  Concurrency <- MCConcurrency
  Key = {}
  NoKey = NoKey
  NoTask = NoTask
  NoWorker = NoWorker
  MaxLimit = 2
  MaxRetries = 1
  MaxRestarts = 1
  MaxFaults = 0
PROPERTIES PendingEnds
CHECK_DEADLOCK FALSE
