SPECIFICATION Spec
INVARIANT OutputIsWhole
INVARIANT AssetsKept
INVARIANT StartedIsWhole
INVARIANT TokenIsLive
INVARIANT WebhookTellsRow
\* The jobs end.
CHECK_DEADLOCK FALSE
CONSTANTS
  NULL = NULL
  Jobs = {1, 2}
  Scenarios <- SomeScenarios
  Present <- ThePresent
  Uuid <- UuidOf
  Similar <- SimilarTo
  ListPage = 3
  Lifetimes = {2, 4}
  Leeway = 3
  ExchangeTimes = {1}
  UploadTimes = {0, 3}
  MaxTries = 2
  Faults = {"call", "asset", "crash", "hook"}
