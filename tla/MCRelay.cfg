SPECIFICATION Spec
INVARIANT ChunksArePrefix
INVARIANT CompletedIsWhole
INVARIANT SessionIsClosed
PROPERTY RelayEnds
\* The script ends.
CHECK_DEADLOCK FALSE
CONSTANTS
  NULL = NULL
  EMPTY = EMPTY
  Configs <- SomeRuns
