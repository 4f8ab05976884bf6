SPECIFICATION Spec
INVARIANT AdapterErrorFails
\* The job ends.
CHECK_DEADLOCK FALSE
CONSTANTS
  NULL = NULL
  Engines = {"trino"}
  Tables <- SomeTables
  Requests <- SomeRequests
  Saved = "timestamp"
  Now = 6
  Day = 3
  SecondTicks = 2
  Windows = 2
  PreviewLimit = 2
  SchemaLimit = 2
  BatchSize = 2
  Readers <- SomeReaders
  PeekKeys = 3
  SampleKeys = 3
  ListPage = 3
  MaxPages = 2
  Faults = {"query"}
