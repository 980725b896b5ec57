CONSTANTS
  Keys = {k1}
  TransitionIds = {}
  LeaseIds = {l1}
  Limit = 1
  Strategy = "ENQUEUE"
  Retries = 1
  NoKey = NoKey
  NoTid = NoTid
  NoLease = NoLease
  k1 = k1
  t1 = t1
  Runs = {r1}
  Deployed = {r1}
  Limited = {}
  Subflows = {}
  Deletable = {}
  CreateStates <- MCCreateStates
  Requests <- LifecycleRequests
  ForcedRequests <- ForcedByClients
  OrderlyClients = FALSE
  SnapshotReads = FALSE
  LeasesExpire = FALSE
  MaxRunCount = 3
SPECIFICATION Spec
PROPERTIES
  ResumeOnlyPaused
