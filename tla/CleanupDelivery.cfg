SPECIFICATION Spec
CONSTANTS
  Messages = {m1}
  Workers = {w1}
  Idle = Idle
  MaxDeliveryAttempts = 2
  Retention = TRUE
  MaxConcurrency = 1
  MaxOperationAttempts = 2
  MaxTokens = 2
  MaxFaults = 2
INVARIANTS TypeOK AckedWasCleaned CapacityAccounted DispatcherServes
PROPERTIES QueueKeepsLifecycle EveryMessageSettles CapacityReturns
CHECK_DEADLOCK FALSE
