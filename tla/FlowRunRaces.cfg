CONSTANTS
  Keys = {k1}
  TransitionIds = {t1}
  LeaseIds = {l1, l2, l3}
  Limit = 1
  Strategy = "CANCEL_NEW"
  Retries = 0
  NoKey = NoKey
  NoTid = NoTid
  NoLease = NoLease
  k1 = k1
  t1 = t1
  Runs = {r1}
  Deployed = {r1}
  Limited = {}
  Subflows = {r1}
  Deletable = {}
  CreateStates <- MCCreateScheduled
  Requests <- RacingRequests
  ForcedRequests <- ForcedByUsers
  OrderlyClients = FALSE
  SnapshotReads = FALSE
  LeasesExpire = FALSE
  MaxRunCount = 2
SPECIFICATION Spec
PROPERTIES
  PersistedResultKept
  LateOnlyScheduled
  DuplicateLeavesNoTrace
