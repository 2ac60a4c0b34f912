SPECIFICATION DerivedSpec
CONSTANTS
  MaxMishaps = 1
  Files = {p, q}
  MaxChanges = 2
  MaxTurns = 1
  MaxWaiting = 2
  Media = {1, 2}
  Libraries = {3, 4}
  LibraryOf <- Placed
  BatchSize = 2
  MaxGeneration = 2
  Parsed = {1}
  ParseWorkers = {"p1", "p2"}
  MaxContentTurns = 1
  MetaAttempts = 2
  Streams = {1, 2}
  Transcoders = {t1}
  Variants = {hi, lo}
  StreamAttempts = 2
  Priority = {1, 2}
  None = None
  Limit = 3
  Capacity = 5
  MaxRestarts = 1
INVARIANTS DerivedTypes DerivedFits BoundedBypass
PROPERTIES PersonsPrevail DerivedCatchesUp FullScanMends
CHECK_DEADLOCK FALSE
