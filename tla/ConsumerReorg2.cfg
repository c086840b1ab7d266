SPECIFICATION Spec
CONSTANTS
  StartingHeight = 1
  Depth = 1
  Step = 500
  UpdatesPerRequest = 3
  Reorgs = {0, 1, 2}
  Silent = {1, 2, 3, 4, 5}
  RedisFails = FALSE
  MaxForged = 5
  MaxMicros = 1
  MaxLost = 1
  MaxCrashes = 0
CHECK_DEADLOCK FALSE
INVARIANTS
  StoredPath
