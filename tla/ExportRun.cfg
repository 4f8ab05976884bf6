SPECIFICATION FairSpec
INVARIANT WholeExport
INVARIANT MaxItemsHonoured
PROPERTY RunEnds
CHECK_DEADLOCK FALSE
CONSTANTS
  NULL = NULL
  Records = {1, 2, 3}
  BatchSize = 2
  Limits = {0, 2}
  Kinds = {"stream", "buffer", "remote"}
  Fates = {"kept", "skipped", "unwritable"}
  Changes = {"append", "late", "delete"}
  Faults = {"call", "crash"}
  MaxTries = 2
