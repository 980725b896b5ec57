SPECIFICATION FairSpec
CONSTANTS
  Runs = {r1, r2, r3}
  TaskKeys = {k1, k2}
  TaskKey <- MCTaskKey
  Workers = {w1, w2}
  Subscribed <- MCSubscribed
  Connections = {1, 2, 3}
  None = None
  ScheduledSize = 1
  RetrySize = 1
  Limit = 1
  MaxFaults = 1
  r1 = r1
  r2 = r2
  r3 = r3
  k1 = k1
  k2 = k2
  w1 = w1
  w2 = w2
INVARIANTS TypeOK KeptUntilAcked StartedOnce
PROPERTY EveryRunStarted
CHECK_DEADLOCK FALSE
