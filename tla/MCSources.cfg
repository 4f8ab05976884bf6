SPECIFICATION Spec
INVARIANT ExportIsWhole
INVARIANT AsManyAsCounted
INVARIANT PreviewIsExported
INVARIANT SchemaSeesFields
\* The job ends.
CHECK_DEADLOCK FALSE
CONSTANTS
  NULL = NULL
  Engines = {"clickhouse", "trino", "langfuse", "s3"}
  Tables <- SomeTables
  Requests <- SomeRequests
  Saved = "timestamp"
  Now = 6
  Day = 3
  SecondTicks = 2
  Windows = 2
  PreviewLimit = 2
  SchemaLimit = 2
  BatchSize = 2
  Readers <- SomeReaders
  PeekKeys = 3
  SampleKeys = 3
  ListPage = 3
  MaxPages = 2
  Faults = {"call", "query", "list", "reader"}
