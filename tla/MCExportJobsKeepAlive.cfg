SPECIFICATION Spec
CONSTANTS
  Jobs = {j1}
  c1 = c1
  c2 = c2
  Clients = {c1}
  Slots = {w1}
  NULL = NULL
  MaxActive = 1
  SweepTimeout = 1
  ActiveTimeout = 2
  TTL = 1
  MaxTries = 1
  MaxBatches = 2
  Streaming = TRUE
  Faults = {}
  OrgOf <- OneOrg
  RoleOf <- UserAndAdmin
PROPERTY WorkingIsNotSwept
