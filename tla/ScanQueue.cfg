SPECIFICATION FairSpec
CONSTANTS
  N = 2
  Unpayloaded = {1}
  NoRow = NoRow
  MaxRetries = 1
  MaxRestarts = 1
  MaxFaults = 1
CHECK_DEADLOCK FALSE
INVARIANTS TypeOK NoLostWakeup RunningIsHeld MirrorNeverInvents
PROPERTIES CanceledUntilRetried PendingIsScanned
