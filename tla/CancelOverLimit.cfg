CONSTANTS
  Keys = {}
  TransitionIds = {}
  LeaseIds = {l1, l2, l3, l4, l5}
  Limit = 1
  Strategy = "ENQUEUE"
  Retries = 1
  NoKey = NoKey
  NoTid = NoTid
  NoLease = NoLease
  k1 = k1
  t1 = t1
  Runs = {r1, r2, r3}
  Deployed = {r1, r2, r3}
  Limited = {r1, r2, r3}
  Subflows = {}
  Deletable = {}
  CreateStates <- MCCreateScheduled
  Requests <- CancellingRequests
  ForcedRequests = {}
  OrderlyClients = TRUE
  SnapshotReads = TRUE
  LeasesExpire = FALSE
  MaxRunCount = 2
SPECIFICATION Spec
INVARIANTS
  RunningWithinLimit
