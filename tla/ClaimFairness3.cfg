SPECIFICATION FairSpec
CONSTANTS
  Priority = {1, 2, 3}
  None = None
  Limit = 3
  Capacity = 5
  MaxRestarts = 1

PROPERTY NoStarvation
CHECK_DEADLOCK FALSE
