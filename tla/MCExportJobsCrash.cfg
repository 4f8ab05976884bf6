SPECIFICATION Spec
CONSTANTS
  Jobs = {j1, j2}
  c1 = c1
  c2 = c2
  Clients = {c1}
  Slots = {w1}
  NULL = NULL
  MaxActive = 1
  SweepTimeout = 0
  ActiveTimeout = 0
  TTL = 0
  MaxTries = 2
  MaxBatches = 1
  Streaming = TRUE
  Faults = {"sink", "datasink", "crash"}
  OrgOf <- OneOrg
  RoleOf <- UserAndAdmin
SYMMETRY Interchangeable
INVARIANT TypeOK
INVARIANT CompletedIsWhole
INVARIANT GaugeCountsRuns
PROPERTY CancelHonoured
PROPERTY SettledIsFinal
PROPERTY ImplementsLifecycle
\* Every request may be over and every job purged: the system may stop.
CHECK_DEADLOCK FALSE
