SPECIFICATION Spec
SYMMETRY TwinThreads
CONSTRAINT DistinctModes
CONSTANTS
  Threads = {p1, p2}
  Keys = {a}
  MaxTransactions = 3
INVARIANTS TypeOK CommittedHasRecord UndoneNotWritten ChildrenSettled OneAtATime
CHECK_DEADLOCK FALSE
