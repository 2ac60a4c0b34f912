SPECIFICATION UpkeepSpec
CONSTANTS
  MaxMishaps = 2
  MaxDeletes = 2
  MaxInodes = 6
  MaxVersion = 2
  Formal = {1}
  Processes = {1, 2, 3}
  Updaters = {u1, u2}
  Sources = {"a", "b"}
  ToolVersions = {"v1"}
  VersionOf <- VersionOfSource
  LayoutOf <- LayoutOfSource
  Installers = {1, 2}
  ThumbMedia = {1, 2}
  Sizes = {160}
  AskedOf <- AskedSizes
  ThumbSlots = 2
  ThumbAttempts = 2
  Task = {t1, t2}
  Type = {scan, transcode}
  Pass = {wake}
  Poll = poll
  WakeLoop = wake
  Worker <- MCWorker
  PassOf <- MCPassOf
  Serves <- MCServes
  Kind <- MCKind
  Concurrency <- MCConcurrency
  Key = {}
  NoKey = NoKey
  NoTask = NoTask
  NoWorker = NoWorker
  MaxLimit = 1
  MaxRetries = 0
  MaxRestarts = 0
  MaxFaults = 0
INVARIANTS UpkeepTypes NothingIsLost RowsHold
PROPERTIES UpkeepIsServed
CHECK_DEADLOCK FALSE
