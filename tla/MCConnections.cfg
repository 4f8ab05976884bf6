SPECIFICATION Spec
INVARIANT RacesLosePatchesWhole
INVARIANT StatusIsCurrent
PROPERTY SecretsKept
PROPERTY PatchesTakeEffect
\* The requests end.
CHECK_DEADLOCK FALSE
CONSTANTS
  NULL = NULL
  Requests = {r1, r2, r3, r4}
  Labels = {"a", "b"}
  Payloads <- Sent
  NewPayloads <- Created
  Models <- AnyCredentials
  Clearable <- TimestampColumn
