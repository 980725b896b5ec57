CONSTANTS
  Keys = {}
  TransitionIds = {}
  LeaseIds = {l1, l2, l3}
  Limit = 1
  Strategy = "ENQUEUE"
  Retries = 0
  NoKey = NoKey
  NoTid = NoTid
  NoLease = NoLease
  k1 = k1
  t1 = t1
  Runs = {r1}
  Deployed = {r1}
  Limited = {r1}
  Subflows = {}
  Deletable = {r1}
  CreateStates <- MCCreateScheduled
  Requests <- RecoveryRequests
  ForcedRequests <- OrderlyForced
  OrderlyClients = FALSE
  SnapshotReads = TRUE
  LeasesExpire = TRUE
  MaxRunCount = 1
SPECIFICATION FairSpec
INVARIANTS TypeOK SlotsBacked
PROPERTIES
  CancellationCompletes
  PausesEnd
  SlotsReclaimed
