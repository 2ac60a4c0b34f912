SPECIFICATION Spec
CONSTANTS
  N = 2
  Unpayloaded = {}
  NoRow = NoRow
  MaxRetries = 0
  MaxRestarts = 0
  MaxFaults = 0
CHECK_DEADLOCK FALSE
INVARIANT MirrorAgreesAtRest
