SPECIFICATION QSpec
CONSTANTS
  Jobs = {j1, j2}
  c1 = c1
  c2 = c2
  Clients = {c1, c2}
  Slots = {w1, w2}
  NULL = NULL
  MaxActive = 1
  SweepTimeout = 0
  ActiveTimeout = 0
  TTL = 0
  MaxTries = 1
  MaxBatches = 1
  Streaming = TRUE
  Faults = {"enqueue", "datasink", "sink"}
  OrgOf <- OneOrg
  RoleOf <- UserAndAdmin
SYMMETRY Interchangeable
INVARIANT OvershootBounded
INVARIANT RunningHasWorker
\* Every request may be over and every job purged: the system may stop.
CHECK_DEADLOCK FALSE
