SPECIFICATION Spec
CONSTANTS
  Clients = {c1, c2}
  Names <- MCNames
  Limits = {a, b}
  Limit <- MCLimit
  Leases = {l1, l2}
  ResourceIds <- MCResourceIds
  l1 = l1
  l2 = l2
  None = None
  Overlap = TRUE
  Persistent = FALSE
  a = a
  b = b
  c1 = c1
  c2 = c2
INVARIANT WithinLimit
CHECK_DEADLOCK FALSE
