SPECIFICATION DaemonSpec
CONSTANTS
  Transactions = {t1, t2, t3, t4}
  None = None
  Signals = {SIGTERM, SIGINT}
CHECK_DEADLOCK FALSE
INVARIANTS
  PoolOutlivesLoop
PROPERTIES
  StopIsFinal
  KeepsGoing
  Exits
