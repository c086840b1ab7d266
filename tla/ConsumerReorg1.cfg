SPECIFICATION FairSpec
CONSTANTS
  StartingHeight = 1
  Depth = 1
  Step = 500
  UpdatesPerRequest = 3
  Reorgs = {0, 1}
  Silent = {2, 4}
  RedisFails = FALSE
  MaxForged = 4
  MaxMicros = 1
  MaxLost = 2
  MaxCrashes = 1
CHECK_DEADLOCK FALSE
INVARIANTS
  TypeOK
  StoredPath
  NeverFails
  RedisIsNewest
PROPERTIES
  EventuallyCaughtUp
