SPECIFICATION Spec
CONSTANTS
  Events = {1, 2, 3}
  Shapes <- ChainAndFork
  Consumers = {c1, c2}
  Sweeper = sweeper
  MaxRetries = 1
  MaxDepth = 1
  Duplicated = {2}
  MaxFailures = 1
INVARIANTS TypeOK LeaderFirst EvaluatedAlone
PROPERTY EveryEventEvaluated
CHECK_DEADLOCK FALSE
