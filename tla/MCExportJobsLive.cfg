SPECIFICATION DaemonSpec
CONSTANTS
  Jobs = {j1}
  c1 = c1
  c2 = c2
  Clients = {c1, c2}
  Slots = {w1}
  NULL = NULL
  MaxActive = 1
  SweepTimeout = 0
  ActiveTimeout = 0
  TTL = 0
  MaxTries = 3
  MaxBatches = 2
  Streaming = FALSE
  Faults = {"enqueue", "datasink", "sink", "db", "timeout", "crash"}
  OrgOf <- OneOrg
  RoleOf <- UserAndAdmin
PROPERTY NoStuckRunning
PROPERTY FinishedIsPurged
PROPERTY QueueDrains
\* Every request may be over and every job purged: the system may stop.
CHECK_DEADLOCK FALSE
